---------------------------- MODULE RegtestChain ----------------------------
(***************************************************************************)
(* The in-memory regtest chain: a tip, a height and the amount issued, and *)
(* append, which accepts one block or rejects it without a change.         *)
(*                                                                         *)
(* Blocks are deterministic but for the nonce, so the hash of an accepted  *)
(* header, which commits to its parent, its coinbase and its nonce, is the *)
(* sequence of the nonces from genesis on.  A Merkle root is the coinbase  *)
(* it commits to.                                                          *)
(***************************************************************************)
EXTENDS Subsidy, Sequences, SequencesExt

CONSTANTS
  MAX_TEST_HEIGHT,
  Nonces,
  Solutions          \* nonces whose header hash meets the target

ASSUME ChainAssumption ==
  /\ MAX_TEST_HEIGHT \in Nat
  /\ Solutions \subseteq Nonces

VARIABLES tip, height, issued
vars == <<tip, height, issued>>

Coinbase(h, reward) == [height |-> h, reward |-> reward]

Block == [prevHash : Seq(Nonces), params : BOOLEAN,
          coinbase : [height : Nat, reward : Nat],
          merkleRoot : [height : Nat, reward : Nat], nonce : Nonces]

(* The block the code builds for a height; `params' stands for version,    *)
(* time and bits being those of the template.                              *)
blockTemplate(h, previous, nonce) ==
  LET coinbase == Coinbase(h, blockSubsidy(h)) IN
  [prevHash |-> previous, params |-> TRUE, coinbase |-> coinbase,
   merkleRoot |-> coinbase, nonce |-> nonce]

(* The heights it builds a block for; for any other it throws.             *)
TemplateHeight(h) == h <= MAX_TEST_HEIGHT

checkProofOfWork(block) == block.nonce \in Solutions

(* validateTransaction of the one-output coinbase.                         *)
validateCoinbase(coinbase) == coinbase.reward <= MAX_MONEY_SATOSHIS

(* Mutant of BelowLimit: the limit is asked of the next block.             *)
ShortLimit == height + 1 < MAX_TEST_HEIGHT

BelowLimit == height < MAX_TEST_HEIGHT

(* What append asks of a block, in its order.                              *)
Acceptable(block) ==
  /\ BelowLimit
  /\ block.prevHash = tip
  /\ block.params
  /\ validateCoinbase(block.coinbase)
  /\ block.coinbase = Coinbase(height + 1, blockSubsidy(height + 1))
  /\ block.merkleRoot = block.coinbase
  /\ validCoinbaseReward(height + 1, block.coinbase.reward, 0, issued)
  /\ checkProofOfWork(block)

Init ==
  /\ tip = <<>>
  /\ height = 0
  /\ issued = 0

append(block) ==
  /\ Acceptable(block)
  /\ tip' = Append(tip, block.nonce)
  /\ height' = height + 1
  /\ issued' = issued + block.coinbase.reward

(* What may be offered: the template, or a block that differs in its       *)
(* parent (a block offered again), height, reward, parameters or root.     *)
Offered ==
  LET heights == {height, height + 1, height + 2}
      rewards == {r \in {blockSubsidy(height + 1) + d : d \in {-1, 0, 1}} : r >= 0}
      coinbases == {Coinbase(h, r) : h \in heights, r \in rewards}
      parents == {tip} \cup (IF tip = <<>> THEN {} ELSE {Front(tip)})
  IN [prevHash : parents, params : BOOLEAN, coinbase : coinbases,
      merkleRoot : coinbases, nonce : Nonces]

(* append returns an error: nothing changes.                               *)
rejected(block) == ~Acceptable(block) /\ UNCHANGED vars

Next == \E block \in Offered : append(block) \/ rejected(block)

Spec == Init /\ [][Next]_vars

-----------------------------------------------------------------------------
TypeOK ==
  /\ tip \in Seq(Nonces)
  /\ height \in 0..MAX_TEST_HEIGHT
  /\ issued \in Nat

(* What is issued at a height stays under what whole eras of a subsidy that *)
(* is at least halved each time can add up to: 2 H (I - S) after the eras   *)
(* before one of subsidy S, and S for each height of that era.              *)
ScheduleFits ==
  LET S == EraSubsidy(height \div HALVING_INTERVAL) IN
  issued <= 2 * (HALVING_INTERVAL * (INITIAL_SUBSIDY - S))
              + (height % HALVING_INTERVAL) * S

(* More than the maximum is never issued.                                  *)
SupplyCap == issued <= MAX_MONEY_SATOSHIS

(* append takes the solved template of the next height at every height the *)
(* builder builds one for, the last included, and at no other: the limits  *)
(* of the two agree, and no reward check stops the chain on the way, as    *)
(* the schedule's total, with every rounding, stays under the maximum.     *)
HonestBlockAccepted ==
  \A nonce \in Solutions :
    TemplateHeight(height + 1) <=> Acceptable(blockTemplate(height + 1, tip, nonce))
=============================================================================
