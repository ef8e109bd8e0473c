------------------------------- MODULE Subsidy -------------------------------
(***************************************************************************)
(* The coin issuance schedule of the private regtest chain: the subsidy of *)
(* a height and the bound on a coinbase reward.                            *)
(***************************************************************************)
EXTENDS Integers

CONSTANTS
  INITIAL_SUBSIDY,
  HALVING_INTERVAL,
  MAX_MONEY_SATOSHIS,
  HALVINGS,     \* after so many halvings the subsidy is 0 (64 in the code)
  Shifted       \* Shifted[n]: INITIAL_SUBSIDY >> n

ASSUME SubsidyAssumption ==
  /\ INITIAL_SUBSIDY \in Nat
  /\ HALVING_INTERVAL \in Nat \ {0}
  /\ HALVINGS \in Nat \ {0}

(* A shift by n + 1 is a shift by n and a halving that rounds down.        *)
ASSUME ShiftedAssumption ==
  /\ Shifted \in [0..(HALVINGS - 1) -> Nat]
  /\ Shifted[0] = INITIAL_SUBSIDY
  /\ \A n \in 0..(HALVINGS - 2) : Shifted[n + 1] = Shifted[n] \div 2

(* 21,000,000 coins; equal to 2 * 210,000 * 50 coins.                      *)
ASSUME MaxMoneyAssumption ==
  /\ MAX_MONEY_SATOSHIS \in Nat
  /\ 2 * (HALVING_INTERVAL * INITIAL_SUBSIDY) <= MAX_MONEY_SATOSHIS

(* The subsidy of an era of HALVING_INTERVAL heights.                      *)
EraSubsidy(halvings) == IF halvings >= HALVINGS THEN 0 ELSE Shifted[halvings]

(* Mutant of blockSubsidy: halves at every second boundary only.           *)
SlowSubsidy(height) ==
  IF height = 0 THEN 0 ELSE EraSubsidy((height \div HALVING_INTERVAL) \div 2)

blockSubsidy(height) ==
  IF height = 0 THEN 0 ELSE EraSubsidy(height \div HALVING_INTERVAL)

(* Fees recycle money, the subsidy issues it: only the subsidy must fit.   *)
validCoinbaseReward(height, reward, fees, issued) ==
  /\ issued <= MAX_MONEY_SATOSHIS
  /\ fees <= MAX_MONEY_SATOSHIS /\ reward <= MAX_MONEY_SATOSHIS
  /\ blockSubsidy(height) <= MAX_MONEY_SATOSHIS - issued
  /\ reward <= blockSubsidy(height) + fees
=============================================================================
