------------------------------ MODULE LedgerMC ------------------------------
(* Small instances of Ledger: two accounts, a reward of 2, and block bodies *)
(* chosen so that every check of the validator decides some block.          *)
EXTENDS Ledger

Tx(from, to, amount, fee, nonce) ==
  [sender |-> from, recipient |-> to, amount |-> amount, fee |-> fee,
   nonce |-> nonce, signed |-> TRUE]

Reward(to, amount) ==
  [Tx(COINBASE_SENDER, to, amount, 0, 0) EXCEPT !.signed = FALSE]

Pay     == Tx(1, 2, 1, 1, 0)          \* spends a whole reward, fee included
Again   == Tx(1, 2, 1, 1, 1)          \* the next one
Back    == Tx(2, 1, 1, 0, 0)          \* may spend what Pay has just brought
Self    == Tx(1, 1, 2, 0, 0)          \* to oneself
Refund  == Tx(1, 2, -1, 0, 0)         \* refused: negative amount
Rebate  == Tx(1, 2, 1, -1, 0)         \* refused: negative fee
Nothing == Tx(1, 2, 0, 0, 0)          \* refused of an account below zero
Forged  == [Pay EXCEPT !.signed = FALSE]

MCBodies ==
  { <<>>, <<Reward(1, 2)>>, <<Reward(2, 1)>>, <<Reward(1, 3)>>,
    <<Reward(1, 2), Reward(1, 2)>>,
    <<Pay, Reward(1, 3)>>, <<Reward(1, 2), Pay>>, <<Reward(2, 3), Pay, Again>>,
    <<Pay, Pay>>, <<Pay, Back>>, <<Back, Pay>>, <<Reward(2, 2), Self>>,
    <<Refund>>, <<Forged>>, <<Again>>,
    <<Reward(1, -1)>>, <<Reward(1, -2), Pay>>, <<Nothing>> }

MCBatches == { <<>>, <<Pay>>, <<Again, Pay>>, <<Pay, Again>>, <<Back>>,
               <<Reward(1, 1)>>, <<Rebate>> }

=============================================================================
