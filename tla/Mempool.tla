------------------------------ MODULE Mempool -------------------------------
(***************************************************************************)
(* src/neurochain/network/mempool.py as operators on a pool: a record of    *)
(* the pending transactions in insertion order (the dictionary _pool) and   *)
(* of the flagged ones (_flagged, its z-scores left out).  A transaction    *)
(* stands for its txid, which hashes every field but the key and the        *)
(* signature.                                                               *)
(***************************************************************************)
EXTENDS Blockchain, FiniteSets

CONSTANTS
  \* the transactions the fraud detector, once fitted, finds anomalous
  Anomalous,
  \* Mempool.max_size, and the limit select and mine_block are called with
  max_size, limit

ASSUME PoolAssumption == max_size \in Nat /\ limit \in Nat

EmptyPool == [pending |-> <<>>, flagged |-> {}]

Pending(pool) == {pool.pending[i] : i \in 1..Len(pool.pending)}

(* add, in the order of its tests: known, invalid, anomalous, full.  The    *)
(* detector's exceptions are swallowed: the transaction is then let in.     *)
Flags(pool, tx) == tx \notin Pending(pool) /\ IsValid(tx) /\ tx \in Anomalous

AcceptsTx_Unbounded(pool, tx) ==
  tx \notin Pending(pool) /\ IsValid(tx) /\ tx \notin Anomalous

AcceptsTx(pool, tx) ==
  /\ tx \notin Pending(pool)
  /\ IsValid(tx)
  /\ tx \notin Anomalous
  /\ Len(pool.pending) < max_size

AddTx(pool, tx) ==
  [pending |-> IF AcceptsTx(pool, tx) THEN Append(pool.pending, tx) ELSE pool.pending,
   flagged |-> IF Flags(pool, tx) THEN pool.flagged \cup {tx} ELSE pool.flagged]

(* select: a stable sort by fee, the highest first, cut at the limit. *)
InsertByFee(sorted, tx) ==
  LET place == Cardinality({i \in 1..Len(sorted) : sorted[i].fee >= tx.fee})
  IN  SubSeq(sorted, 1, place) \o <<tx>> \o SubSeq(sorted, place + 1, Len(sorted))

ByFeeTrace(txs) ==
  LET sorted[i \in 0..Len(txs)] ==
        IF i = 0 THEN <<>> ELSE InsertByFee(sorted[i-1], txs[i])
  IN sorted

Select(pool) ==
  LET ordered == ByFeeTrace(pool.pending)[Len(pool.pending)]
  IN  SubSeq(ordered, 1, IF Len(ordered) < limit THEN Len(ordered) ELSE limit)

RemoveConfirmed_All(pool, txs) == [pool EXCEPT !.pending = <<>>]

(* remove_confirmed: the pool without txs, in the order it had. *)
KeptTrace(pending, txs) ==
  LET kept[i \in 0..Len(pending)] ==
        IF i = 0 THEN <<>>
        ELSE IF \E j \in 1..Len(txs) : txs[j] = pending[i] THEN kept[i-1]
        ELSE Append(kept[i-1], pending[i])
  IN kept

RemoveConfirmed(pool, txs) ==
  [pending |-> KeptTrace(pool.pending, txs)[Len(pool.pending)],
   flagged |-> pool.flagged]

=============================================================================
