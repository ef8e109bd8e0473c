-------------------------- MODULE RegtestMinerProofs --------------------------
(***************************************************************************)
(* The chain file for any number of runs, any height limit and any --mine: *)
(* it is always the start of the one chain file, and it keeps the promise  *)
(* of ChainStore.  The invariant adds what makes this inductive: only the  *)
(* holder of the lock is anywhere but idle; what a mining run has yet to   *)
(* write continues the file, piece by piece, up to its height; and a run   *)
(* that only reports has the height of the file.                           *)
(***************************************************************************)
EXTENDS Regtest, RegtestChainProofs, SequenceTheorems, TLAPS

(* The pieces of a chain file, in order.                                   *)
Piece(i) == <<(i - 1) \div 2, ((i - 1) % 2) + 1>>
Content == Seq(Nat \X Nat)

(* s continues a file of k pieces.                                         *)
Continues(s, k) == \A i \in 1..Len(s) : s[i] = Piece(k + i)

Where == {"idle", "locked", "mining", "flushed", "report"}

MinerTypeOK ==
  /\ file \in Content /\ durable \in 0..Len(file) /\ acked \in Nat
  /\ lock \in Runs \cup {Free}
  /\ pc \in [Runs -> Where]
  /\ count \in [Runs -> Nat]
  /\ runHeight \in [Runs -> Nat]
  /\ buffer \in [Runs -> Content]

(* What a run past its replay has still to write.                          *)
RunOK(p) ==
  pc[p] \in {"mining", "flushed", "report"} =>
    /\ Continues(buffer[p], Len(file))
    /\ Len(file) + Len(buffer[p]) = 2 * (runHeight[p] + 1)
    /\ runHeight[p] + count[p] <= MAX_TEST_HEIGHT
    /\ pc[p] # "mining" => buffer[p] = <<>>

FileOK ==
  /\ Continues(file, 0)
  /\ Len(file) <= 2 * (MAX_TEST_HEIGHT + 1)
  /\ acked = 0 \/ 2 * (acked + 1) <= durable

MinerIInv ==
  /\ MinerTypeOK
  /\ FileOK
  /\ \A p \in Runs : pc[p] # "idle" => lock = p
  /\ \A p \in Runs : RunOK(p)

-----------------------------------------------------------------------------
LEMMA HeightLimit == MAX_TEST_HEIGHT \in Nat
  BY ChainAssumption

LEMMA PieceType == \A i \in Nat \ {0} : Piece(i) \in Nat \X Nat
  BY DEF Piece

LEMMA WholePieces ==
  ASSUME NEW n \in Nat
  PROVE  /\ Whole(n) \in Content
         /\ Len(Whole(n)) = 2 * (n + 1)
         /\ \A i \in 1..(2 * (n + 1)) : Whole(n)[i] = Piece(i)
<1>1. 2 * (n + 1) \in Nat
  OBVIOUS
<1>2. \A i \in 1..(2 * (n + 1)) : <<(i - 1) \div 2, ((i - 1) % 2) + 1>> \in Nat \X Nat
  OBVIOUS
<1> QED
  BY <1>1, <1>2 DEF Whole, Content, Piece

LEMMA LinePieces ==
  ASSUME NEW h \in Nat
  PROVE  /\ Line(h) \in Content /\ Len(Line(h)) = 2
         /\ Continues(Line(h), 2 * h)
<1>1. Line(h) \in Content /\ Len(Line(h)) = 2
  BY DEF Line, Content
<1>2. Piece(2 * h + 1) = <<h, 1>> /\ Piece(2 * h + 2) = <<h, 2>>
  <2>1. (2 * h) \div 2 = h /\ (2 * h) % 2 = 0 /\ (2 * h + 1) \div 2 = h /\ (2 * h + 1) % 2 = 1
    OBVIOUS
  <2>2. (2 * h + 1) - 1 = 2 * h /\ (2 * h + 2) - 1 = 2 * h + 1
    OBVIOUS
  <2> QED
    BY <2>1, <2>2 DEF Piece
<1>3. \A i \in 1..2 : i = 1 \/ i = 2
  OBVIOUS
<1> QED
  BY <1>1, <1>2, <1>3 DEF Line, Continues

(* Lengths: a block is two pieces more; pieces move from buffer to file.   *)
LEMMA OneMore ==
  ASSUME NEW a \in Nat, NEW b \in Nat, NEW h \in Nat, a + b = 2 * (h + 1)
  PROVE  a + (b + 2) = 2 * ((h + 1) + 1)
  OBVIOUS

LEMMA Moved ==
  ASSUME NEW a \in Nat, NEW b \in Nat, NEW c \in Nat, NEW d, b + c = d
  PROVE  (a + b) + c = a + d
  OBVIOUS

(* What continues a file, and what continues that.                         *)
LEMMA ConcatContinues ==
  ASSUME NEW k \in Nat, NEW s \in Content, NEW t \in Content,
         Continues(s, k), Continues(t, k + Len(s))
  PROVE  /\ s \o t \in Content /\ Len(s \o t) = Len(s) + Len(t)
         /\ Continues(s \o t, k)
<1>1. /\ s \o t \in Content /\ Len(s \o t) = Len(s) + Len(t)
      /\ \A i \in 1..(Len(s) + Len(t)) :
           (s \o t)[i] = IF i <= Len(s) THEN s[i] ELSE t[i - Len(s)]
  BY ConcatProperties DEF Content
<1>2. Len(s) \in Nat /\ Len(t) \in Nat
  BY LenProperties DEF Content
<1>3. ASSUME NEW i \in 1..(Len(s) + Len(t)) PROVE (s \o t)[i] = Piece(k + i)
  <2>1. CASE i <= Len(s)
    BY <2>1, <1>1, <1>2 DEF Continues
  <2>2. CASE i > Len(s)
    <3>1. i - Len(s) \in 1..Len(t) /\ k + Len(s) + (i - Len(s)) = k + i
      BY <2>2, <1>2
    <3> QED
      BY <2>2, <3>1, <1>1, <1>2 DEF Continues
  <2> QED
    BY <2>1, <2>2, <1>2
<1> QED
  BY <1>1, <1>3 DEF Continues

LEMMA SplitContinues ==
  ASSUME NEW k \in Nat, NEW s \in Content, Continues(s, k), s # <<>>
  PROVE  /\ Head(s) = Piece(k + 1) /\ Head(s) \in Nat \X Nat
         /\ Tail(s) \in Content /\ Len(Tail(s)) = Len(s) - 1
         /\ Continues(Tail(s), k + 1)
<1>1. /\ Head(s) \in Nat \X Nat /\ Tail(s) \in Content /\ Len(Tail(s)) = Len(s) - 1
      /\ \A i \in 1..Len(Tail(s)) : Tail(s)[i] = s[i + 1]
  BY HeadTailProperties DEF Content
<1>2. Len(s) \in Nat \ {0}
  BY EmptySeq DEF Content
<1>3. Head(s) = s[1] /\ s[1] = Piece(k + 1)
  BY <1>2 DEF Content, Continues
<1>4. ASSUME NEW i \in 1..Len(Tail(s)) PROVE Tail(s)[i] = Piece(k + 1 + i)
  <2>1. i + 1 \in 1..Len(s) /\ k + (i + 1) = k + 1 + i
    BY <1>1, <1>2
  <2> QED
    BY <2>1, <1>1 DEF Continues
<1> QED
  BY <1>1, <1>3, <1>4 DEF Continues

LEMMA InitIInv == MinerInit => MinerIInv
<1> SUFFICES ASSUME MinerInit PROVE MinerIInv
  OBVIOUS
<1>1. <<>> \in Content /\ Len(<<>>) = 0
  BY EmptySeq DEF Content
<1>2. MinerTypeOK
  BY <1>1 DEF MinerInit, MinerTypeOK, Where
<1>3. FileOK
  BY <1>1, HeightLimit DEF MinerInit, FileOK, Continues
<1> QED
  BY <1>2, <1>3 DEF MinerInit, MinerIInv, RunOK

(* A step of the run that holds the lock: every other run is idle.         *)
LEMMA OthersIdle ==
  ASSUME MinerIInv, NEW p \in Runs, pc[p] # "idle", NEW x, pc' = [pc EXCEPT ![p] = x],
         NEW q \in Runs, q # p
  PROVE  pc'[q] = "idle" /\ RunOK(q)'
<1>1. pc[q] = "idle"
  BY DEF MinerIInv
<1>2. pc'[q] = "idle"
  BY <1>1 DEF MinerIInv, MinerTypeOK
<1> QED
  BY <1>2 DEF RunOK

(* A run ends; what it has synced and reported may have grown.             *)
LEMMA QuitKeeps ==
  ASSUME MinerIInv, NEW p \in Runs, Quit(p), file' = file,
         durable' \in 0..Len(file), acked' \in Nat,
         acked' = 0 \/ 2 * (acked' + 1) <= durable'
  PROVE  MinerIInv'
<1> USE DEF MinerIInv, MinerTypeOK, Where
<1>1. MinerTypeOK'
  <2>1. <<>> \in Content
    BY EmptySeq DEF Content
  <2>2. buffer' \in [Runs -> Content]
    BY <2>1 DEF Quit
  <2>3. pc' \in [Runs -> Where] /\ lock' \in Runs \cup {Free}
    BY DEF Quit
  <2>4. count' \in [Runs -> Nat] /\ runHeight' \in [Runs -> Nat]
    BY DEF Quit
  <2> QED
    BY <2>2, <2>3, <2>4
<1>2. FileOK'
  BY DEF FileOK, Continues
<1>3. \A q \in Runs : pc'[q] # "idle" => lock' = q
  BY DEF Quit
<1>4. ASSUME NEW q \in Runs PROVE RunOK(q)'
  <2>1. CASE q = p
    BY <2>1 DEF Quit, RunOK
  <2>2. CASE q # p
    BY <2>2 DEF Quit, RunOK, Continues
  <2> QED
    BY <2>1, <2>2
<1> QED
  BY <1>1, <1>2, <1>3, <1>4

LEMMA FileLockKeeps ==
  ASSUME MinerIInv, NEW p \in Runs, NEW n \in 0..MaxCount, FileLock(p, n)
  PROVE  MinerIInv'
<1> USE DEF MinerIInv, MinerTypeOK, Where
<1>1. CASE lock # Free
  BY <1>1 DEF FileLock, FileOK, RunOK, Continues
<1>2. CASE lock = Free
  <2>1. /\ lock' = p /\ pc' = [pc EXCEPT ![p] = "locked"]
        /\ count' = [count EXCEPT ![p] = n]
        /\ UNCHANGED <<file, durable, runHeight, buffer, acked>>
    BY <1>2 DEF FileLock
  <2>2. \A q \in Runs : pc[q] = "idle"
    BY <1>2, MinerAssumption
  <2>3. n \in Nat
    BY MinerAssumption
  <2>4. MinerTypeOK'
    BY <2>1, <2>3
  <2>5. FileOK'
    BY <2>1 DEF FileOK, Continues
  <2>6. \A q \in Runs : (pc'[q] # "idle" => lock' = q) /\ RunOK(q)'
    BY <2>1, <2>2 DEF RunOK
  <2> QED
    BY <2>4, <2>5, <2>6
<1> QED
  BY <1>1, <1>2

LEMMA ReplayKeeps ==
  ASSUME MinerIInv, NEW p \in Runs, Replay(p)
  PROVE  MinerIInv'
<1> USE DEF MinerIInv, MinerTypeOK, Where
<1>1. CASE Quit(p)
  BY <1>1, QuitKeeps DEF Replay, FileOK
<1>2. CASE ~Quit(p)
  <2> DEFINE Start == IF file = <<>>
                        THEN IF count[p] = 0 THEN {} ELSE {0}
                        ELSE {n \in 0..MAX_TEST_HEIGHT : load(file, n)}
  <2>1. /\ \E n \in Start : count[p] <= MAX_TEST_HEIGHT - n
        /\ \E n \in Start :
             /\ runHeight' = [runHeight EXCEPT ![p] = n]
             /\ buffer' = [buffer EXCEPT ![p] = IF file = <<>> THEN Line(0) ELSE <<>>]
             /\ pc' = [pc EXCEPT ![p] = IF count[p] = 0 THEN "report" ELSE "mining"]
             /\ UNCHANGED <<lock, count>>
    BY <1>2 DEF Replay
  <2>2. PICK n \in Start :
          /\ runHeight' = [runHeight EXCEPT ![p] = n]
          /\ buffer' = [buffer EXCEPT ![p] = IF file = <<>> THEN Line(0) ELSE <<>>]
          /\ pc' = [pc EXCEPT ![p] = IF count[p] = 0 THEN "report" ELSE "mining"]
          /\ UNCHANGED <<lock, count>>
    BY <2>1
  <2>3. Start \subseteq Nat /\ \A m \in Start : m = n
    <3>1. \A m \in 0..MAX_TEST_HEIGHT : load(file, m) => Len(file) = 2 * (m + 1)
      BY WholePieces, HeightLimit DEF load
    <3> QED
      BY <3>1, <2>2, HeightLimit
  <2>4. n \in Nat /\ n + count[p] <= MAX_TEST_HEIGHT
    BY <2>1, <2>3, HeightLimit
  <2>5. UNCHANGED <<file, durable, acked>> /\ pc[p] # "idle" /\ lock = p
    BY DEF Replay
  <2> HIDE DEF Start
  <2>6. /\ buffer'[p] \in Content /\ Continues(buffer'[p], Len(file))
        /\ Len(file) + Len(buffer'[p]) = 2 * (n + 1)
    <3>1. <<>> \in Content /\ Len(<<>>) = 0
      BY EmptySeq DEF Content
    <3>2. CASE file = <<>>
      <4>1. buffer'[p] = Line(0) /\ n = 0
        BY <2>2, <3>2 DEF Start
      <4> QED
        BY <4>1, <3>1, <3>2, LinePieces
    <3>3. CASE file # <<>>
      <4>1. buffer'[p] = <<>> /\ n \in 0..MAX_TEST_HEIGHT /\ load(file, n)
        BY <2>2, <3>3 DEF Start
      <4>2. Len(file) = 2 * (n + 1)
        BY <4>1, <2>4, WholePieces DEF load
      <4> QED
        BY <4>1, <4>2, <3>1, <2>4 DEF Continues
    <3> QED
      BY <3>2, <3>3
  <2>7. MinerTypeOK'
    <3>1. buffer' \in [Runs -> Content]
      BY <2>2, <2>6
    <3>2. pc' \in [Runs -> Where] /\ runHeight' \in [Runs -> Nat]
      BY <2>2, <2>4
    <3> QED
      BY <3>1, <3>2, <2>2, <2>5
  <2>8. FileOK'
    BY <2>5 DEF FileOK, Continues
  <2>9. ASSUME NEW q \in Runs PROVE (pc'[q] # "idle" => lock' = q) /\ RunOK(q)'
    <3>1. CASE q = p
      <4>1. runHeight'[p] = n /\ count'[p] = count[p] /\ file' = file
        BY <2>2, <2>5
      <4>2. pc'[p] # "mining" => buffer'[p] = <<>>
        BY <2>2 DEF Start
      <4>3. pc'[p] # "idle" => lock' = p
        BY <2>2, <2>5
      <4> QED
        BY <3>1, <4>1, <4>2, <4>3, <2>4, <2>6 DEF RunOK
    <3>2. CASE q # p
      BY <3>2, <2>2, <2>5, OthersIdle
    <3> QED
      BY <3>1, <3>2
  <2> QED
    BY <2>7, <2>8, <2>9
<1> QED
  BY <1>1, <1>2

LEMMA MineKeeps ==
  ASSUME MinerIInv, NEW p \in Runs, MineBlock(p)
  PROVE  MinerIInv'
<1> USE DEF MinerIInv, MinerTypeOK, Where
<1>1. /\ pc[p] = "mining" /\ count[p] > 0 /\ lock = p
      /\ runHeight' = [runHeight EXCEPT ![p] = @ + 1]
      /\ buffer' = [buffer EXCEPT ![p] = @ \o Line(runHeight[p] + 1)]
      /\ count' = [count EXCEPT ![p] = @ - 1]
      /\ UNCHANGED <<file, durable, lock, pc, acked>>
  BY DEF MineBlock
<1>2. Len(file) \in Nat /\ Len(buffer[p]) \in Nat /\ buffer[p] \in Content
  BY LenProperties DEF Content
<1>3. /\ Continues(buffer[p], Len(file))
      /\ Len(file) + Len(buffer[p]) = 2 * (runHeight[p] + 1)
      /\ runHeight[p] + count[p] <= MAX_TEST_HEIGHT
  BY <1>1 DEF RunOK
<1>4. /\ Line(runHeight[p] + 1) \in Content /\ Len(Line(runHeight[p] + 1)) = 2
      /\ Continues(Line(runHeight[p] + 1), Len(file) + Len(buffer[p]))
  <2>1. runHeight[p] + 1 \in Nat
    OBVIOUS
  <2> HIDE DEF MinerIInv, MinerTypeOK
  <2> QED
    BY <2>1, <1>3, LinePieces
<1>5. /\ buffer'[p] \in Content /\ Len(buffer'[p]) = Len(buffer[p]) + 2
      /\ Continues(buffer'[p], Len(file))
  <2>1. buffer'[p] = buffer[p] \o Line(runHeight[p] + 1)
    BY <1>1
  <2> HIDE DEF MinerIInv, MinerTypeOK
  <2> QED
    BY <2>1, <1>2, <1>3, <1>4, ConcatContinues
<1>6. MinerTypeOK'
  <2>1. count' \in [Runs -> Nat] /\ runHeight' \in [Runs -> Nat]
    BY <1>1
  <2>2. buffer' \in [Runs -> Content]
    BY <1>1, <1>5
  <2> QED
    BY <1>1, <2>1, <2>2
<1>7. FileOK'
  BY <1>1 DEF FileOK, Continues
<1>8. ASSUME NEW q \in Runs PROVE (pc'[q] # "idle" => lock' = q) /\ RunOK(q)'
  <2>1. CASE q = p
    <3>1. runHeight'[p] = runHeight[p] + 1 /\ count'[p] = count[p] - 1 /\ file' = file
          /\ pc'[p] = "mining" /\ lock' = p
      BY <1>1
    <3>2. Len(file) + Len(buffer'[p]) = 2 * (runHeight'[p] + 1)
      <4>1. runHeight[p] \in Nat
        OBVIOUS
      <4> HIDE DEF MinerIInv, MinerTypeOK
      <4>2. Len(file) + (Len(buffer[p]) + 2) = 2 * ((runHeight[p] + 1) + 1)
        BY <4>1, <1>2, <1>3, OneMore
      <4> QED
        BY <4>2, <3>1, <1>5
    <3>3. runHeight'[p] + count'[p] <= MAX_TEST_HEIGHT
      BY <3>1, <1>3
    <3> QED
      BY <2>1, <3>1, <3>2, <3>3, <1>5 DEF RunOK
  <2>2. CASE q # p
    BY <2>2, <1>1 DEF RunOK
  <2> QED
    BY <2>1, <2>2
<1> QED
  BY <1>6, <1>7, <1>8

(* What a run takes from its buffer and adds to the file.                  *)
LEMMA WriteKeeps ==
  ASSUME MinerIInv, NEW p \in Runs, pc[p] = "mining", NEW s \in Content, NEW rest \in Content,
         Continues(s, Len(file)), Continues(rest, Len(file) + Len(s)),
         Len(s) + Len(rest) = Len(buffer[p]),
         file' = file \o s, buffer' = [buffer EXCEPT ![p] = rest],
         \/ pc' = pc
         \/ pc' = [pc EXCEPT ![p] = "flushed"] /\ rest = <<>>,
         UNCHANGED <<durable, lock, count, runHeight, acked>>
  PROVE  MinerIInv'
<1> USE DEF MinerIInv, MinerTypeOK, Where
<1>1. /\ Len(file) \in Nat /\ Len(s) \in Nat /\ Len(rest) \in Nat /\ lock = p
      /\ Len(file) + Len(buffer[p]) = 2 * (runHeight[p] + 1)
      /\ runHeight[p] + count[p] <= MAX_TEST_HEIGHT
  BY LenProperties DEF Content, RunOK
<1>2. file' \in Content /\ Len(file') = Len(file) + Len(s) /\ Continues(file', 0)
  BY <1>1, ConcatContinues DEF FileOK
<1>3. MinerTypeOK'
  <2>1. buffer' \in [Runs -> Content] /\ pc' \in [Runs -> Where]
    OBVIOUS
  <2>2. durable' \in 0..Len(file')
    BY <1>1, <1>2
  <2> QED
    BY <1>2, <2>1, <2>2
<1>4. FileOK'
  BY <1>1, <1>2, HeightLimit DEF FileOK
<1>5. ASSUME NEW q \in Runs PROVE (pc'[q] # "idle" => lock' = q) /\ RunOK(q)'
  <2>1. CASE q = p
    <3>1. buffer'[p] = rest /\ Continues(rest, Len(file'))
      BY <1>2
    <3>2. Len(file') + Len(rest) = 2 * (runHeight[p] + 1)
      <4>1. runHeight[p] \in Nat
        OBVIOUS
      <4>2. Len(file') = Len(file) + Len(s) /\ Len(s) + Len(rest) = Len(buffer[p])
        BY <1>2
      <4>3. Len(file) + Len(buffer[p]) = 2 * (runHeight[p] + 1)
        BY <1>1
      <4> HIDE DEF MinerIInv, MinerTypeOK
      <4>4. (Len(file) + Len(s)) + Len(rest) = 2 * (runHeight[p] + 1)
        BY <4>1, <4>2, <4>3, <1>1, Moved
      <4> QED
        BY <4>2, <4>4
    <3>3. pc'[p] = "flushed" => rest = <<>>
      OBVIOUS
    <3> QED
      BY <2>1, <1>1, <3>1, <3>2, <3>3 DEF RunOK
  <2>2. CASE q # p
    <3>1. pc[q] = "idle" /\ pc'[q] = "idle"
      BY <2>2, <1>1
    <3> QED
      BY <3>1 DEF RunOK
  <2> QED
    BY <2>1, <2>2
<1> QED
  BY <1>3, <1>4, <1>5

LEMMA SpillKeeps ==
  ASSUME MinerIInv, NEW p \in Runs, Spill(p)
  PROVE  MinerIInv'
<1> USE DEF MinerIInv, MinerTypeOK
<1>1. buffer[p] \in Content /\ buffer[p] # <<>> /\ pc[p] = "mining" /\ Len(file) \in Nat
      /\ Len(buffer[p]) \in Nat
      /\ Continues(buffer[p], Len(file))
  BY LenProperties DEF Spill, RunOK, Content
<1>2. /\ Head(buffer[p]) = Piece(Len(file) + 1) /\ Head(buffer[p]) \in Nat \X Nat
      /\ Tail(buffer[p]) \in Content /\ Len(Tail(buffer[p])) = Len(buffer[p]) - 1
      /\ Continues(Tail(buffer[p]), Len(file) + 1)
  BY <1>1, SplitContinues
<1>3. <<Head(buffer[p])>> \in Content /\ Len(<<Head(buffer[p])>>) = 1
      /\ Continues(<<Head(buffer[p])>>, Len(file))
  BY <1>2 DEF Content, Continues
<1>4. file' = file \o <<Head(buffer[p])>>
  BY <1>2 DEF Spill, Content
<1>5. /\ buffer' = [buffer EXCEPT ![p] = Tail(buffer[p])] /\ pc' = pc
      /\ UNCHANGED <<durable, lock, count, runHeight, acked>>
  BY DEF Spill
<1>6. 1 + Len(Tail(buffer[p])) = Len(buffer[p])
  BY <1>1, <1>2
<1> HIDE DEF MinerIInv, MinerTypeOK
<1> QED
  BY <1>1, <1>2, <1>3, <1>4, <1>5, <1>6, WriteKeeps

LEMMA FlushKeeps ==
  ASSUME MinerIInv, NEW p \in Runs, Flush(p)
  PROVE  MinerIInv'
<1>1. /\ buffer[p] \in Content /\ pc[p] = "mining" /\ Len(buffer[p]) \in Nat
      /\ Continues(buffer[p], Len(file))
  BY LenProperties DEF Flush, RunOK, MinerIInv, MinerTypeOK, Content
<1>2. /\ <<>> \in Content /\ Len(<<>>) = 0
      /\ Continues(<<>>, Len(file) + Len(buffer[p]))
  BY EmptySeq DEF Content, Continues
<1>3. /\ file' = file \o buffer[p] /\ buffer' = [buffer EXCEPT ![p] = <<>>]
      /\ pc' = [pc EXCEPT ![p] = "flushed"]
      /\ UNCHANGED <<durable, lock, count, runHeight, acked>>
  BY DEF Flush
<1>4. Len(buffer[p]) + 0 = Len(buffer[p])
  BY <1>1
<1> QED
  BY <1>1, <1>2, <1>3, <1>4, WriteKeeps

LEMMA SyncKeeps ==
  ASSUME MinerIInv, NEW p \in Runs, Sync(p)
  PROVE  MinerIInv'
<1>1. /\ pc[p] = "flushed" /\ durable' = Len(file) /\ acked' = runHeight[p]
      /\ Quit(p) /\ file' = file
  BY DEF Sync
<1>2. runHeight[p] \in Nat /\ Len(file) \in Nat
  BY LenProperties DEF MinerIInv, MinerTypeOK, Content
<1>3. Len(file) = 2 * (runHeight[p] + 1)
  <2>1. buffer[p] = <<>> /\ Len(file) + Len(buffer[p]) = 2 * (runHeight[p] + 1)
    BY <1>1 DEF MinerIInv, RunOK
  <2>2. Len(<<>>) = 0
    BY EmptySeq
  <2> QED
    BY <2>1, <2>2, <1>2
<1>4. durable' \in 0..Len(file) /\ acked' \in Nat /\ 2 * (acked' + 1) <= durable'
  BY <1>1, <1>2, <1>3
<1> QED
  BY <1>1, <1>4, QuitKeeps

LEMMA EndKeeps ==
  ASSUME MinerIInv, NEW p \in Runs, Report(p) \/ Kill(p)
  PROVE  MinerIInv'
<1>1. Quit(p) /\ UNCHANGED <<file, durable, acked>>
  BY DEF Report, Kill
<1>2. durable' \in 0..Len(file) /\ acked' \in Nat /\ (acked' = 0 \/ 2 * (acked' + 1) <= durable')
  BY <1>1 DEF MinerIInv, MinerTypeOK, FileOK
<1> QED
  BY <1>1, <1>2, QuitKeeps

(* A shorter file is the start of the one that was there.                  *)
LEMMA CutContinues ==
  ASSUME NEW s \in Content, Continues(s, 0), NEW n \in 0..Len(s)
  PROVE  /\ SubSeq(s, 1, n) \in Content /\ Len(SubSeq(s, 1, n)) = n
         /\ Continues(SubSeq(s, 1, n), 0)
<1>1. Len(s) \in Nat /\ n \in Nat /\ \A i \in 1..n : i \in 1..Len(s) /\ s[i] \in Nat \X Nat
  BY ElementOfSeq, LenProperties DEF Content
<1>2. /\ SubSeq(s, 1, n) \in Content
      /\ Len(SubSeq(s, 1, n)) = IF 1 <= n THEN n - 1 + 1 ELSE 0
      /\ \A i \in 1..(n - 1 + 1) : SubSeq(s, 1, n)[i] = s[1 + i - 1]
  BY <1>1, SubSeqProperties DEF Content
<1>3. Len(SubSeq(s, 1, n)) = n /\ \A i \in 1..n : SubSeq(s, 1, n)[i] = s[i]
  <2>1. n - 1 + 1 = n /\ (~(1 <= n) => n = 0) /\ \A i \in 1..n : 1 + i - 1 = i
    BY <1>1
  <2> QED
    BY <2>1, <1>2
<1> QED
  BY <1>1, <1>2, <1>3 DEF Continues

(* The machine stops: what is left of the file is all there is to say.     *)
LEMMA StopKeeps ==
  ASSUME AllEnd, file' \in Content, Continues(file', 0), Len(file') = durable',
         durable' \in Nat, durable' <= 2 * (MAX_TEST_HEIGHT + 1),
         acked' \in Nat, acked' = 0 \/ 2 * (acked' + 1) <= durable'
  PROVE  MinerIInv'
<1>1. /\ lock' = Free /\ pc' = [q \in Runs |-> "idle"] /\ count' = [q \in Runs |-> 0]
      /\ runHeight' = [q \in Runs |-> 0] /\ buffer' = [q \in Runs |-> <<>>]
  BY DEF AllEnd
<1>2. MinerTypeOK'
  <2>1. <<>> \in Content
    BY EmptySeq DEF Content
  <2>2. buffer' \in [Runs -> Content] /\ pc' \in [Runs -> Where]
    BY <2>1, <1>1 DEF Where
  <2>3. count' \in [Runs -> Nat] /\ runHeight' \in [Runs -> Nat]
    BY <1>1
  <2>4. durable' \in 0..Len(file') /\ lock' \in Runs \cup {Free}
    BY <1>1
  <2> QED
    BY <2>2, <2>3, <2>4 DEF MinerTypeOK
<1>3. FileOK'
  BY DEF FileOK
<1>4. \A q \in Runs : pc'[q] = "idle"
  BY <1>1
<1> QED
  BY <1>2, <1>3, <1>4 DEF MinerIInv, RunOK

LEMMA PowerLossKeeps ==
  ASSUME MinerIInv, PowerLoss
  PROVE  MinerIInv'
<1>1. PICK n \in durable..Len(file) : file' = SubSeq(file, 1, n) /\ durable' = n
  BY DEF PowerLoss
<1>2. /\ file \in Content /\ Continues(file, 0) /\ durable \in Nat /\ Len(file) \in Nat
      /\ Len(file) <= 2 * (MAX_TEST_HEIGHT + 1)
      /\ acked \in Nat /\ (acked = 0 \/ 2 * (acked + 1) <= durable)
  BY LenProperties DEF MinerIInv, MinerTypeOK, FileOK, Content
<1>3. n \in 0..Len(file) /\ n \in Nat
  BY <1>2
<1>4. file' \in Content /\ Len(file') = n /\ Continues(file', 0)
  BY <1>1, <1>2, <1>3, CutContinues
<1>5. acked' = acked /\ AllEnd
  BY DEF PowerLoss
<1>6. n <= 2 * (MAX_TEST_HEIGHT + 1) /\ (acked = 0 \/ 2 * (acked + 1) <= n)
  BY <1>2, <1>3, HeightLimit
<1> QED
  BY <1>1, <1>2, <1>3, <1>4, <1>5, <1>6, StopKeeps

LEMMA EntryLostKeeps ==
  ASSUME MinerIInv, EntryLost
  PROVE  MinerIInv'
<1>1. file' = <<>> /\ durable' = 0 /\ acked' = 0 /\ AllEnd
  BY DEF EntryLost
<1>2. <<>> \in Content /\ Len(<<>>) = 0 /\ Continues(<<>>, 0)
  BY EmptySeq DEF Content, Continues
<1>3. 0 <= 2 * (MAX_TEST_HEIGHT + 1)
  BY HeightLimit
<1> QED
  BY <1>1, <1>2, <1>3, StopKeeps

LEMMA NextIInv == MinerIInv /\ [MinerNext]_minerVars => MinerIInv'
<1> SUFFICES ASSUME MinerIInv, [MinerNext]_minerVars PROVE MinerIInv'
  OBVIOUS
<1>1. ASSUME NEW p \in Runs, NEW n \in 0..MaxCount, FileLock(p, n) PROVE MinerIInv'
  BY <1>1, FileLockKeeps
<1>2. ASSUME NEW p \in Runs,
             \/ Replay(p) \/ MineBlock(p) \/ Spill(p) \/ Flush(p) \/ Sync(p)
             \/ Report(p) \/ Kill(p)
      PROVE  MinerIInv'
  BY <1>2, ReplayKeeps, MineKeeps, SpillKeeps, FlushKeeps, SyncKeeps, EndKeeps
<1>3. CASE PowerLoss
  BY <1>3, PowerLossKeeps
<1>4. CASE EntryLost
  BY <1>4, EntryLostKeeps
<1>5. CASE UNCHANGED minerVars
  BY <1>5 DEF minerVars, MinerIInv, MinerTypeOK, FileOK, RunOK, Continues
<1> QED
  BY <1>1, <1>2, <1>3, <1>4, <1>5 DEF MinerNext

LEMMA Invariance == MinerSpec => []MinerIInv
  BY InitIInv, NextIInv, PTL DEF MinerSpec

-----------------------------------------------------------------------------
LEMMA OneChain == MinerIInv => FileIsOneChain
<1> SUFFICES ASSUME MinerIInv PROVE FileIsOneChain
  OBVIOUS
<1> DEFINE W == Whole(MAX_TEST_HEIGHT)
<1>1. /\ file \in Content /\ Continues(file, 0) /\ Len(file) \in Nat
      /\ Len(file) <= 2 * (MAX_TEST_HEIGHT + 1)
  BY LenProperties DEF MinerIInv, MinerTypeOK, FileOK, Content
<1>2. /\ W \in Content /\ Len(W) = 2 * (MAX_TEST_HEIGHT + 1)
      /\ \A i \in 1..Len(W) : W[i] = Piece(i)
  BY WholePieces, HeightLimit
<1> HIDE DEF W
<1>3. Continues(W, 0)
  BY <1>2 DEF Continues
<1>4. Len(file) \in 0..Len(W) /\ Len(file) \in 0..Len(file)
  BY <1>1, <1>2, HeightLimit
<1>5. /\ SubSeq(file, 1, Len(file)) \in Content /\ SubSeq(W, 1, Len(file)) \in Content
      /\ Len(SubSeq(file, 1, Len(file))) = Len(file) /\ Len(SubSeq(W, 1, Len(file))) = Len(file)
      /\ Continues(SubSeq(file, 1, Len(file)), 0) /\ Continues(SubSeq(W, 1, Len(file)), 0)
  BY <1>1, <1>2, <1>3, <1>4, CutContinues
<1>6. SubSeq(file, 1, Len(file)) = SubSeq(W, 1, Len(file))
  BY <1>5, SeqEqual DEF Continues, Content
<1> QED
  BY <1>1, <1>2, <1>6 DEF FileIsOneChain, IsPrefix, W

(* Whatever runs of the tool share the chain file, and whatever kills them *)
(* or the machine, the file is the start of the one chain file: no record  *)
(* twice, none left out, nothing written after a torn line.                *)
THEOREM ChainFile == MinerSpec => []FileIsOneChain
  BY Invariance, OneChain, PTL

-----------------------------------------------------------------------------
(* The stored height as a function of the length of the file.              *)
HeightOf(k) == IF k < 2 THEN 0 ELSE (k \div 2) - 1

LEMMA HeightFacts ==
  ASSUME NEW k \in Nat
  PROVE  /\ HeightOf(k) \in Nat
         /\ \A j \in Nat : j <= k => HeightOf(j) <= HeightOf(k)
         /\ \A h \in Nat : k = 2 * (h + 1) => HeightOf(k) = h
         /\ \A h \in Nat : 2 * (h + 1) <= k => h <= HeightOf(k)
         /\ \A h \in Nat : k <= 2 * (h + 1) => HeightOf(k) <= h
<1>1. HeightOf(k) \in Nat
  BY DEF HeightOf
<1>2. \A j \in Nat : j <= k => HeightOf(j) <= HeightOf(k)
  BY DEF HeightOf
<1>3. \A h \in Nat : 2 * (h + 1) <= k => h <= HeightOf(k)
  BY DEF HeightOf
<1>4. \A h \in Nat : k <= 2 * (h + 1) => HeightOf(k) <= h
  BY DEF HeightOf
<1>5. \A h \in Nat : k = 2 * (h + 1) => HeightOf(k) = h
  BY <1>1, <1>3, <1>4
<1> QED
  BY <1>1, <1>2, <1>3, <1>4, <1>5

(* What the invariant says of the heights ChainStore speaks of.            *)
HeightsOK ==
  /\ Len(file) \in Nat /\ durable \in Nat /\ durable <= Len(file)
  /\ StoredHeight = HeightOf(Len(file))
  /\ StoredHeight \in 0..MAX_TEST_HEIGHT
  /\ acked \in Nat /\ acked <= HeightOf(durable)
  /\ acked <= StoredHeight

LEMMA Heights == MinerIInv => HeightsOK
<1> SUFFICES ASSUME MinerIInv PROVE HeightsOK
  OBVIOUS
<1>1. /\ Len(file) \in Nat /\ durable \in Nat /\ durable <= Len(file) /\ acked \in Nat
      /\ Len(file) <= 2 * (MAX_TEST_HEIGHT + 1)
      /\ acked = 0 \/ 2 * (acked + 1) <= durable
  BY LenProperties DEF MinerIInv, MinerTypeOK, FileOK, Content
<1>2. StoredHeight = HeightOf(Len(file))
  BY DEF StoredHeight, HeightOf
<1>3. /\ HeightOf(Len(file)) \in Nat /\ HeightOf(durable) \in Nat
      /\ HeightOf(Len(file)) <= MAX_TEST_HEIGHT
      /\ HeightOf(durable) <= HeightOf(Len(file))
  BY <1>1, HeightFacts, HeightLimit
<1>4. acked <= HeightOf(durable)
  <2>1. CASE acked = 0
    BY <2>1, <1>3
  <2>2. CASE 2 * (acked + 1) <= durable
    BY <2>2, <1>1, HeightFacts
  <2> QED
    BY <2>1, <2>2, <1>1
<1> QED
  BY <1>1, <1>2, <1>3, <1>4, HeightLimit DEF HeightsOK

(* More in the file is a longer chain stored, or half a line.              *)
LEMMA GrowStores ==
  ASSUME HeightsOK, HeightsOK', UNCHANGED <<linked, printed, acked>>, Len(file) <= Len(file')
  PROVE  [Store!Next]_(Store!vars)
<1>1. /\ StoredHeight' \in 0..MAX_TEST_HEIGHT /\ StoredHeight \in 0..MAX_TEST_HEIGHT
      /\ StoredHeight <= StoredHeight'
  BY HeightFacts DEF HeightsOK
<1>2. CASE StoredHeight < StoredHeight'
  BY <1>1, <1>2 DEF Store!Next, Store!Store
<1>3. CASE StoredHeight = StoredHeight'
  BY <1>3 DEF Store!vars
<1> QED
  BY <1>1, <1>2, <1>3, HeightLimit

(* A run about to print has the height the file has.                       *)
LEMMA PrintsStored ==
  ASSUME MinerIInv, HeightsOK, NEW p \in Runs, pc[p] \in {"flushed", "report"}
  PROVE  runHeight[p] = StoredHeight
<1>1. /\ buffer[p] = <<>> /\ Len(file) + Len(buffer[p]) = 2 * (runHeight[p] + 1)
      /\ runHeight[p] \in Nat
  BY DEF MinerIInv, MinerTypeOK, RunOK
<1>2. Len(<<>>) = 0
  BY EmptySeq
<1>3. Len(file) = 2 * (runHeight[p] + 1)
  BY <1>1, <1>2 DEF HeightsOK
<1> QED
  BY <1>1, <1>3, HeightFacts DEF HeightsOK

(* Each step keeps the promise or changes nothing it speaks of.            *)
LEMMA StepKeepsPromise ==
  ASSUME MinerIInv, HeightsOK, HeightsOK', [MinerNext]_minerVars
  PROVE  [Store!Next]_(Store!vars)
<1>1. CASE UNCHANGED <<linked, file, printed, acked>>
  BY <1>1 DEF Store!vars, StoredHeight
<1>2. ASSUME NEW p \in Runs, Spill(p) PROVE [Store!Next]_(Store!vars)
  <2>1. Len(file') = Len(file) + 1 /\ UNCHANGED <<linked, printed, acked>>
    BY <1>2 DEF Spill, MinerIInv, MinerTypeOK, Content
  <2> QED
    BY <2>1, GrowStores DEF HeightsOK
<1>3. ASSUME NEW p \in Runs, Flush(p) PROVE [Store!Next]_(Store!vars)
  <2>1. /\ file' = file \o buffer[p] /\ UNCHANGED <<linked, printed, acked>>
        /\ file \in Content /\ buffer[p] \in Content
    BY <1>3 DEF Flush, MinerIInv, MinerTypeOK
  <2>2. Len(file') = Len(file) + Len(buffer[p]) /\ Len(buffer[p]) \in Nat
    BY <2>1, ConcatProperties, LenProperties DEF Content
  <2> QED
    BY <2>1, <2>2, GrowStores DEF HeightsOK
<1>4. ASSUME NEW p \in Runs, Sync(p) PROVE [Store!Next]_(Store!vars)
  <2>1. /\ pc[p] = "flushed" /\ acked' = runHeight[p] /\ printed' = runHeight[p]
        /\ UNCHANGED <<linked, file>>
    BY <1>4 DEF Sync
  <2>2. acked' = StoredHeight /\ printed' = StoredHeight /\ StoredHeight' = StoredHeight
    BY <2>1, PrintsStored DEF StoredHeight
  <2> QED
    BY <2>1, <2>2 DEF Store!Next, Store!Acknowledge
<1>5. ASSUME NEW p \in Runs, Report(p) PROVE [Store!Next]_(Store!vars)
  <2>1. pc[p] = "report" /\ printed' = runHeight[p] /\ UNCHANGED <<linked, file, acked>>
    BY <1>5 DEF Report
  <2>2. printed' = StoredHeight /\ StoredHeight' = StoredHeight
    BY <2>1, PrintsStored DEF StoredHeight
  <2> QED
    BY <2>1, <2>2 DEF Store!Next, Store!Show
<1>6. CASE PowerLoss
  <2>1. PICK n \in durable..Len(file) : file' = SubSeq(file, 1, n) /\ durable' = n
    BY <1>6 DEF PowerLoss
  <2>2. linked' = TRUE /\ acked' = acked /\ printed' = printed /\ n \in 0..Len(file)
    BY <1>6 DEF PowerLoss, AllEnd, HeightsOK
  <2>3. Len(file') = n
    BY <2>1, <2>2, CutContinues DEF MinerIInv, MinerTypeOK, FileOK
  <2>4. StoredHeight' \in 0..MAX_TEST_HEIGHT /\ StoredHeight' <= StoredHeight
        /\ acked <= StoredHeight'
    BY <2>2, <2>3, HeightFacts DEF HeightsOK
  <2>5. StoredHeight' \in acked..StoredHeight
    BY <2>4, HeightLimit DEF HeightsOK
  <2> QED
    BY <2>2, <2>4, <2>5 DEF Store!Next, Store!Lose
<1>7. CASE EntryLost
  <2>1. /\ ~linked /\ UNCHANGED <<linked, printed>> /\ acked' = 0 /\ file' = <<>>
    BY <1>7 DEF EntryLost, AllEnd
  <2>2. StoredHeight' = 0
    <3>1. Len(<<>>) = 0
      BY EmptySeq
    <3> QED
      BY <2>1, <3>1 DEF StoredHeight
  <2> QED
    BY <2>1, <2>2 DEF Store!Next, Store!LoseFile
<1> QED
  BY <1>1, <1>2, <1>3, <1>4, <1>5, <1>6, <1>7
     DEF MinerNext, minerVars, FileLock, Replay, MineBlock, Kill

LEMMA InitKeepsPromise == MinerInit => Store!Init
<1>1. Len(<<>>) = 0
  BY EmptySeq
<1> QED
  BY <1>1 DEF MinerInit, Store!Init, StoredHeight

(* Blocks are stored in order, every run that ends well prints the height  *)
(* stored at that moment, and no loss of power takes back what a run that  *)
(* mined has printed, but with the whole of a file that had outlived none. *)
THEOREM KeepsThePromise == MinerSpec => StoreSpec
<1>1. HeightsOK /\ HeightsOK' /\ MinerIInv /\ [MinerNext]_minerVars => [Store!Next]_(Store!vars)
  BY StepKeepsPromise
<1> QED
  BY <1>1, Invariance, Heights, InitKeepsPromise, PTL DEF MinerSpec, StoreSpec, Store!Spec

(* What a mining run has printed is in the file, whatever is killed or cut *)
(* from power since, and later mining runs print no shorter chain; all of  *)
(* it can only go at once, with a file whose name has not outlived a loss  *)
(* of power, and once it has it always will.                               *)
THEOREM AcknowledgedIsSafe ==
  MinerSpec =>
    /\ [](acked <= StoredHeight)
    /\ [][acked <= acked' \/ (~linked /\ StoredHeight' = 0 /\ acked' = 0)]_acked
    /\ [][linked => linked']_linked
<1>1. HeightsOK => acked <= StoredHeight
  BY DEF HeightsOK
<1>2. HeightsOK /\ [Store!Next]_(Store!vars)
        => [acked <= acked' \/ (~linked /\ StoredHeight' = 0 /\ acked' = 0)]_acked
  BY DEF HeightsOK, Store!Next, Store!vars, Store!Store, Store!Acknowledge, Store!Show,
         Store!Lose, Store!LoseFile
<1>3. [Store!Next]_(Store!vars) => [linked => linked']_linked
  BY DEF Store!Next, Store!vars, Store!Store, Store!Acknowledge, Store!Show,
         Store!Lose, Store!LoseFile
<1>4. HeightsOK /\ HeightsOK' /\ MinerIInv /\ [MinerNext]_minerVars => [Store!Next]_(Store!vars)
  BY StepKeepsPromise
<1> QED
  BY <1>1, <1>2, <1>3, <1>4, Invariance, Heights, PTL DEF MinerSpec

-----------------------------------------------------------------------------
(* The chain in memory and the tool, side by side, are each itself.        *)
THEOREM RegtestIsItsParts == RegtestSpec => Spec /\ MinerSpec
<1>1. RegtestInit => Init /\ MinerInit
  BY DEF RegtestInit
<1>2. [RegtestNext]_regtestVars => [Next]_vars /\ [MinerNext]_minerVars
  BY DEF RegtestNext, regtestVars
<1> QED
  BY <1>1, <1>2, PTL DEF RegtestSpec, Spec, MinerSpec

(* Everything the run of the two checks, for every schedule, limit and     *)
(* number of runs.                                                         *)
THEOREM RegtestKeepsItsPromises ==
  RegtestSpec => [](ScheduleFits /\ HonestBlockAccepted /\ FileIsOneChain) /\ StoreSpec
  BY RegtestIsItsParts, IssueUnderSchedule, HonestChainGoesOn, ChainFile, KeepsThePromise, PTL
=============================================================================
