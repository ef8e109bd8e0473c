------------------------------ MODULE RateLimit ------------------------------
(***************************************************************************)
(* The account server's throttle: one bucket per key, opened by the first  *)
(* request and full after `maximum' of them until `interval' has passed.   *)
(* Expired buckets are dropped only when the map has grown past a size.    *)
(***************************************************************************)
EXTENDS ServerProcess, FiniteSets, Sequences

CONSTANTS
  Keys,          \* an address or a user with the kind of request
  maximum,       \* by key: 300, 12, 5, 1 or 20 requests ...
  interval,      \* ... in one minute, 15 minutes or 3 seconds
  MaxBuckets     \* 10000 in the code

ASSUME RateAssumption ==
  /\ IsFiniteSet(Keys)
  /\ maximum \in [Keys -> Nat \ {0}] /\ interval \in [Keys -> Nat \ {0}]
  /\ MaxBuckets \in Nat

VARIABLES
  limits,    \* the map of buckets; NoBucket is no entry
  accepted   \* history: by key, the times at which a request was let through

limitVars == <<now, limits, accepted>>

NoBucket == [count |-> 0, until |-> 0]

LimitInit ==
  /\ now = 0
  /\ limits = [key \in Keys |-> NoBucket]
  /\ accepted = [key \in Keys |-> <<>>]

(* Mutant of Swept: live buckets go as well.                               *)
SweptAll ==
  IF Cardinality({key \in Keys : limits[key] # NoBucket}) > MaxBuckets
    THEN [key \in Keys |-> NoBucket]
    ELSE limits

(* The map after the opportunistic removal of what has expired.            *)
Swept ==
  IF Cardinality({key \in Keys : limits[key] # NoBucket}) > MaxBuckets
    THEN [key \in Keys |-> IF limits[key].until <= now THEN NoBucket ELSE limits[key]]
    ELSE limits

(* Mutant of Bucket: every request puts off the end.                       *)
SlidingBucket(key) ==
  [count |-> IF Swept[key].until <= now THEN 0 ELSE Swept[key].count,
   until |-> now + interval[key]]

(* The bucket a request is counted in.                                     *)
Bucket(key) ==
  IF Swept[key].until <= now THEN [count |-> 0, until |-> now + interval[key]]
  ELSE Swept[key]

(* A count past the maximum is not told apart from the next one.           *)
Counted(bucket, key) ==
  IF bucket.count > maximum[key] THEN bucket ELSE [bucket EXCEPT !.count = @ + 1]

throttle(key) ==
  /\ limits' = [Swept EXCEPT ![key] = Counted(Bucket(key), key)]
  /\ accepted' = IF Counted(Bucket(key), key).count > maximum[key] THEN accepted
                 ELSE [accepted EXCEPT ![key] = Append(@, now)]
  /\ UNCHANGED now

LimitTick == now < MaxTime /\ now' = now + 1 /\ UNCHANGED <<limits, accepted>>

(* The map is in memory: a restart forgets it, and the history with it.    *)
LimitRestart ==
  /\ limits' = [key \in Keys |-> NoBucket]
  /\ accepted' = [key \in Keys |-> <<>>]
  /\ UNCHANGED now

LimitNext == (\E key \in Keys : throttle(key)) \/ LimitTick \/ LimitRestart

LimitSpec == LimitInit /\ [][LimitNext]_limitVars

-----------------------------------------------------------------------------
(* No span of one interval lets through more than two buckets hold,        *)
(* whatever is swept in between.                                           *)
BurstBounded ==
  \A key \in Keys : \A i, j \in DOMAIN accepted[key] :
    j - i >= 2 * maximum[key] => accepted[key][j] - accepted[key][i] >= interval[key]

(* A key is refused only while the maximum was let through within the last *)
(* interval: requests that are refused do not put off its end.             *)
RefusedOnlyAfterBurst ==
  \A key \in Keys :
    limits[key].count > maximum[key] /\ limits[key].until > now =>
      \E i \in DOMAIN accepted[key] :
        /\ Len(accepted[key]) - i + 1 >= maximum[key]
        /\ now - accepted[key][i] < interval[key]
=============================================================================
