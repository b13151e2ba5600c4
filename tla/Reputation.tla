----------------------------- MODULE Reputation -----------------------------
(***************************************************************************)
(* src/neurochain/ai/validator_reputation.py: what one node thinks of a     *)
(* miner.  Reputations, qualities and timing scores, floats of [0, 1], are  *)
(* whole hundredths, rounded down.  avg_work_quality, which nothing reads,  *)
(* is left out; blocks_proposed is accepted + invalid.                      *)
(***************************************************************************)
EXTENDS Integers

ONE == 100
INITIAL_REPUTATION == 50
DECAY == 20
PENALTY == 35
FLOOR == 1

ValidatorStats == [reputation: FLOOR..ONE, accepted: Nat, invalid: Nat]

InitialStats ==
  [reputation |-> INITIAL_REPUTATION, accepted |-> 0, invalid |-> 0]

Bounded(r) == IF r < FLOOR THEN FLOOR ELSE IF r > ONE THEN ONE ELSE r

(* A moving average towards 0.7 quality + 0.3 timing; nodes report timing 1. *)
ObserveValidBlock(s, work_quality) ==
  LET signal == 70 * work_quality + 30 * ONE
  IN [reputation |->
        Bounded(((ONE - DECAY) * ONE * s.reputation + DECAY * signal) \div (ONE * ONE)),
      accepted |-> s.accepted + 1, invalid |-> s.invalid]

ObserveInvalidBlock(s) ==
  [reputation |-> Bounded(s.reputation - PENALTY),
   accepted |-> s.accepted, invalid |-> s.invalid + 1]

=============================================================================
