------------------------- MODULE RegtestChainProofs -------------------------
(***************************************************************************)
(* For every subsidy, halving interval, number of halvings and height      *)
(* limit: the schedule never reaches the maximum, so the reward check      *)
(* never stops an honest chain.  The one fact about money is that the      *)
(* maximum is at least twice the first era's issue.                        *)
(***************************************************************************)
EXTENDS RegtestChain, TLAPS

LEMMA EraSubsidyType == \A e \in Nat : EraSubsidy(e) \in Nat
BY SubsidyAssumption, ShiftedAssumption DEF EraSubsidy

(* A later era's subsidy is at most half of the one before.                *)
LEMMA EraSubsidyHalves == \A e \in Nat : 2 * EraSubsidy(e + 1) <= EraSubsidy(e)
<1> SUFFICES ASSUME NEW e \in Nat PROVE 2 * EraSubsidy(e + 1) <= EraSubsidy(e)
  OBVIOUS
<1>1. CASE e + 1 >= HALVINGS
  BY <1>1, EraSubsidyType DEF EraSubsidy
<1>2. CASE e + 1 < HALVINGS
  <2>1. e \in 0..(HALVINGS - 2) /\ e \in 0..(HALVINGS - 1)
    BY <1>2, SubsidyAssumption
  <2>2. Shifted[e + 1] = Shifted[e] \div 2 /\ Shifted[e] \in Nat
    BY <2>1, ShiftedAssumption
  <2>3. EraSubsidy(e) = Shifted[e] /\ EraSubsidy(e + 1) = Shifted[e + 1]
    BY <1>2, <2>1, SubsidyAssumption DEF EraSubsidy
  <2>4. \A n \in Nat : 2 * (n \div 2) <= n
    OBVIOUS
  <2> QED
    BY <2>2, <2>3, <2>4
<1> QED
  BY <1>1, <1>2, SubsidyAssumption

(* Going one height up, the era and the place in it.                       *)
LEMMA NextEra ==
  ASSUME NEW h \in Nat
  PROVE  LET H == HALVING_INTERVAL IN
         \/ /\ (h + 1) \div H = h \div H
            /\ (h + 1) % H = (h % H) + 1
         \/ /\ (h + 1) \div H = h \div H + 1
            /\ (h + 1) % H = 0 /\ (h % H) = H - 1
<1> DEFINE H == HALVING_INTERVAL
           q == h \div H
           r == h % H
<1>1. H \in Nat /\ H > 0
  BY SubsidyAssumption
<1> HIDE DEF H
<1>2. q \in Nat /\ r \in 0..(H - 1) /\ h = H * q + r
  BY <1>1, Z3
<1>3. CASE r < H - 1
  <2>1. h + 1 = H * q + (r + 1) /\ r + 1 \in 0..(H - 1)
    BY <1>1, <1>2, <1>3
  <2> HIDE DEF q, r
  <2>2. (h + 1) \div H = q /\ (h + 1) % H = r + 1
    BY <1>1, <1>2, <2>1, Z3
  <2> QED
    BY <2>2 DEF q, r, H
<1>4. CASE r = H - 1
  <2>1. h + 1 = H * (q + 1)
    BY <1>1, <1>2, <1>4
  <2> HIDE DEF q, r
  <2>2. (h + 1) \div H = q + 1 /\ (h + 1) % H = 0
    BY <1>1, <1>2, <2>1, Z3
  <2> QED
    BY <1>4, <2>2 DEF q, r, H
<1> QED
  BY <1>1, <1>2, <1>3, <1>4

LEMMA EraSubsidyBound ==
  ASSUME NEW e \in Nat
  PROVE  EraSubsidy(e + 1) <= EraSubsidy(e)
BY EraSubsidyType, EraSubsidyHalves

(* What is issued up to h leaves room for the subsidy of h + 1, in the     *)
(* closed form of ScheduleFits.                                            *)
LEMMA ScheduleStep ==
  ASSUME NEW h \in Nat, NEW i \in Nat,
         LET S == EraSubsidy(h \div HALVING_INTERVAL) IN
         /\ S <= INITIAL_SUBSIDY
         /\ i <= 2 * (HALVING_INTERVAL * (INITIAL_SUBSIDY - S)) + (h % HALVING_INTERVAL) * S
  PROVE  LET S == EraSubsidy((h + 1) \div HALVING_INTERVAL) IN
         /\ S \in Nat /\ S <= INITIAL_SUBSIDY /\ blockSubsidy(h + 1) = S
         /\ i + S <= 2 * (HALVING_INTERVAL * (INITIAL_SUBSIDY - S))
                       + ((h + 1) % HALVING_INTERVAL) * S
         /\ i + S <= MAX_MONEY_SATOSHIS
<1> DEFINE H == HALVING_INTERVAL
           I == INITIAL_SUBSIDY
           e == h \div H
           r == h % H
           S == EraSubsidy(e)
           f == (h + 1) \div H
           p == (h + 1) % H
           T == EraSubsidy(f)
<1>1. H \in Nat /\ H > 0 /\ I \in Nat /\ MAX_MONEY_SATOSHIS \in Nat /\ 2 * (H * I) <= MAX_MONEY_SATOSHIS
  BY SubsidyAssumption, MaxMoneyAssumption
<1>2. e \in Nat /\ r \in 0..(H - 1) /\ f \in Nat /\ p \in 0..(H - 1)
  <2> HIDE DEF H
  <2>1. \A n \in Nat : n \div H \in Nat /\ n % H \in 0..(H - 1)
    BY <1>1, Z3
  <2> QED
    BY <2>1
<1>3. S \in Nat /\ T \in Nat
  BY <1>2, EraSubsidyType
<1>4. \/ f = e /\ p = r + 1
      \/ f = e + 1 /\ p = 0 /\ r = H - 1
  BY NextEra
<1>5. S <= I /\ i <= 2 * (H * (I - S)) + r * S
  OBVIOUS
<1>6. blockSubsidy(h + 1) = T
  BY DEF blockSubsidy
<1>7. f = e + 1 => 2 * T <= S
  BY <1>2, EraSubsidyHalves
<1>8. \A n \in 0..H : n * T <= H * T
  BY <1>1, <1>3, Z3
<1> HIDE DEF H, I, e, r, S, f, p
<1>9. CASE f = e /\ p = r + 1
  <2>1. T = S
    BY <1>9 DEF S, T
  <2> HIDE DEF T
  <2>2. (r + 1) * S = r * S + S /\ H * (I - S) = H * I - H * S
    BY <1>1, <1>2, <1>3, Z3
  <2>3. H * S \in Nat /\ r * S \in Nat /\ H * I \in Nat /\ (r + 1) * S \in Nat
    BY <1>1, <1>2, <1>3
  <2>4. (r + 1) * S <= H * S
    BY <1>2, <1>8, <1>1, <2>1
  <2>5. i + S <= 2 * (H * (I - S)) + (r + 1) * S
    BY <1>1, <1>3, <1>5, <2>2, <2>3
  <2>6. i + S <= MAX_MONEY_SATOSHIS
    BY <1>1, <1>3, <1>5, <2>2, <2>3, <2>4
  <2> QED
    BY <1>3, <1>5, <1>6, <1>9, <2>1, <2>5, <2>6 DEF H, I, S, T, r, p, f, e
<1>10. CASE f = e + 1 /\ p = 0 /\ r = H - 1
  <2> HIDE DEF T
  <2>1. 2 * T <= S
    BY <1>7, <1>10
  <2>2. (H - 1) * S = H * S - S /\ H * (I - S) = H * I - H * S /\ H * (I - T) = H * I - H * T
    BY <1>1, <1>3, Z3
  <2>3. H * (2 * T) <= H * S /\ H * (2 * T) = 2 * (H * T)
    BY <1>1, <1>3, <2>1, Z3
  <2>4. H * S \in Nat /\ H * T \in Nat /\ H * I \in Nat
    BY <1>1, <1>3
  <2>5. i + T <= 2 * (H * (I - T)) + 0 * T
    BY <1>1, <1>3, <1>5, <1>10, <2>1, <2>2, <2>3, <2>4
  <2>6. i + T <= MAX_MONEY_SATOSHIS /\ T <= I
    BY <1>1, <1>3, <1>5, <1>10, <2>1, <2>2, <2>3, <2>4
  <2> QED
    BY <1>3, <1>6, <1>10, <2>5, <2>6 DEF H, I, T, p, f
<1> QED
  BY <1>4, <1>9, <1>10

-----------------------------------------------------------------------------
IInv ==
  /\ TypeOK
  /\ ScheduleFits
  /\ EraSubsidy(height \div HALVING_INTERVAL) <= INITIAL_SUBSIDY

LEMMA Inductive == Spec => []IInv
<1>1. Init => IInv
  <2> SUFFICES ASSUME Init PROVE IInv
    OBVIOUS
  <2>1. 0 \div HALVING_INTERVAL = 0 /\ 0 % HALVING_INTERVAL = 0
    BY SubsidyAssumption, Z3
  <2>2. EraSubsidy(0) = INITIAL_SUBSIDY
    BY SubsidyAssumption, ShiftedAssumption DEF EraSubsidy
  <2>3. TypeOK
    BY ChainAssumption DEF Init, TypeOK
  <2>4. ScheduleFits
    BY <2>1, <2>2, SubsidyAssumption DEF Init, ScheduleFits
  <2> QED
    BY <2>1, <2>2, <2>3, <2>4, SubsidyAssumption DEF Init, IInv
<1>2. IInv /\ [Next]_vars => IInv'
  <2> SUFFICES ASSUME IInv, [Next]_vars PROVE IInv'
    OBVIOUS
  <2>1. CASE UNCHANGED vars
    BY <2>1 DEF IInv, TypeOK, ScheduleFits, vars
  <2>2. ASSUME NEW block \in Offered, append(block)
        PROVE  IInv'
    <3>1. height \in Nat /\ issued \in Nat /\ height < MAX_TEST_HEIGHT /\ MAX_TEST_HEIGHT \in Nat
      BY <2>2, ChainAssumption DEF IInv, TypeOK, append, Acceptable, BelowLimit
    <3>2. height' = height + 1 /\ issued' = issued + blockSubsidy(height + 1)
      BY <2>2 DEF append, Acceptable, Coinbase
    <3> DEFINE S == EraSubsidy((height + 1) \div HALVING_INTERVAL)
    <3>3. /\ S \in Nat /\ S <= INITIAL_SUBSIDY /\ blockSubsidy(height + 1) = S
          /\ issued + S <= 2 * (HALVING_INTERVAL * (INITIAL_SUBSIDY - S))
                             + ((height + 1) % HALVING_INTERVAL) * S
      BY <3>1, ScheduleStep DEF IInv, ScheduleFits
    <3>4. tip' \in Seq(Nonces)
      <4>1. block.nonce \in Nonces
        BY ChainAssumption, <2>2 DEF append, Acceptable, checkProofOfWork
      <4> QED
        BY <2>2, <4>1 DEF append, IInv, TypeOK
    <3>5. TypeOK'
      BY <3>1, <3>2, <3>3, <3>4 DEF TypeOK
    <3> QED
      BY <3>2, <3>3, <3>5 DEF IInv, ScheduleFits
  <2> QED
    BY <2>1, <2>2 DEF Next, rejected
<1> QED
  BY <1>1, <1>2, PTL DEF Spec

(* More than the maximum is never issued.                                  *)
THEOREM SupplyCapped == Spec => []SupplyCap
<1>1. IInv => SupplyCap
  <2> SUFFICES ASSUME IInv PROVE SupplyCap
    OBVIOUS
  <2>1. height \in Nat /\ issued \in Nat
    BY ChainAssumption DEF IInv, TypeOK
  <2> DEFINE S == EraSubsidy((height + 1) \div HALVING_INTERVAL)
  <2>2. S \in Nat /\ issued + S <= MAX_MONEY_SATOSHIS
    BY <2>1, ScheduleStep DEF IInv, ScheduleFits
  <2> HIDE DEF S
  <2> QED
    BY <2>1, <2>2, MaxMoneyAssumption DEF SupplyCap
<1> QED
  BY <1>1, Inductive, PTL

(* The issue stays under the closed form of the halving schedule.          *)
THEOREM IssueUnderSchedule == Spec => []ScheduleFits
BY Inductive, PTL DEF IInv

(* A solved template is accepted at every height the builder builds one    *)
(* for, and at no other: the limits of the two agree and the reward check  *)
(* stops nothing in between.                                               *)
THEOREM HonestChainGoesOn == Spec => []HonestBlockAccepted
<1>1. IInv => HonestBlockAccepted
  <2> SUFFICES ASSUME IInv, NEW nonce \in Solutions
               PROVE  TemplateHeight(height + 1)
                        <=> Acceptable(blockTemplate(height + 1, tip, nonce))
    BY DEF HonestBlockAccepted
  <2>1. height \in Nat /\ issued \in Nat /\ MAX_TEST_HEIGHT \in Nat
    BY ChainAssumption DEF IInv, TypeOK
  <2>2. TemplateHeight(height + 1) <=> BelowLimit
    BY <2>1 DEF TemplateHeight, BelowLimit
  <2> DEFINE S == EraSubsidy((height + 1) \div HALVING_INTERVAL)
  <2>3. S \in Nat /\ blockSubsidy(height + 1) = S /\ issued + S <= MAX_MONEY_SATOSHIS
    BY <2>1, ScheduleStep DEF IInv, ScheduleFits
  <2> HIDE DEF S
  <2>4. validCoinbaseReward(height + 1, S, 0, issued)
    BY <2>1, <2>3, MaxMoneyAssumption DEF validCoinbaseReward
  <2>5. S <= MAX_MONEY_SATOSHIS
    BY <2>1, <2>3, MaxMoneyAssumption
  <2> QED
    BY <2>2, <2>3, <2>4, <2>5
       DEF Acceptable, blockTemplate, Coinbase, validateCoinbase, checkProofOfWork
<1> QED
  BY <1>1, Inductive, PTL
=============================================================================
