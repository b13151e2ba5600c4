------------------------------ MODULE ServerMC ------------------------------
(* Small instances of Server: two threads, the miner's account 1 and a      *)
(* client's account 2.                                                      *)
EXTENDS Server

Tx(from, to, amount, fee, nonce) ==
  [sender |-> from, recipient |-> to, amount |-> amount, fee |-> fee,
   nonce |-> nonce, signed |-> TRUE]

(* The miner pays twice, the second time with the higher fee; the client    *)
(* sends something back; one transaction looks anomalous, one is unsigned.  *)
First  == Tx(1, 2, 1, 0, 0)
Second == Tx(1, 2, 0, 1, 1)
Back   == Tx(2, 1, 1, 0, 0)
Odd    == Tx(2, 2, 1, 0, 0)

MCTxs == { First, Second, Back, Odd, [Back EXCEPT !.signed = FALSE] }
MCPair == { First, Second }
MCSound == { First, Second, Back }
MCNone == {}
MCAnomalous == { Odd }

=============================================================================
