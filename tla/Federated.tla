----------------------------- MODULE Federated ------------------------------
(***************************************************************************)
(* src/neurochain/ai/federated.py: the robust aggregation of model updates. *)
(*                                                                          *)
(* An update is [finite, at]: whether all its entries are finite and, if    *)
(* so, its vector, of whole numbers.  All updates of a batch have the same  *)
(* dimension.  A mean is a vector of numerators over one denominator, trim  *)
(* a pair <<numerator, denominator>>; the rounding of floats is left out.   *)
(***************************************************************************)
EXTENDS Integers, Sequences, FiniteSets

(* AggregationError, or the aggregate. *)
Failure == [ok |-> FALSE, num |-> <<>>, den |-> 1]
Aggregate(num, den) == [ok |-> TRUE, num |-> num, den |-> den]

SumOver(s) ==
  LET sum[i \in 0..Len(s)] == IF i = 0 THEN 0 ELSE sum[i-1] + s[i]
  IN sum[Len(s)]

(* np.sort: at place r stands the entry with r entries up to it, itself     *)
(* included, in the order of values and, of equal ones, of positions.       *)
Entries(s) == {<<s[i], i>> : i \in 1..Len(s)}
UpToEntry(entries, e) ==
  {d \in entries : d[1] < e[1] \/ (d[1] = e[1] /\ d[2] <= e[2])}
Sorted(s) ==
  LET entries == Entries(s)
      at(r) == CHOOSE e \in entries : Cardinality(UpToEntry(entries, e)) = r
  IN [r \in 1..Len(s) |-> at(r)[1]]

Column(m, c) == [i \in 1..Len(m) |-> m[i][c]]
Dimension(m) == Len(m[1])

SquaredNorm(v) == SumOver([c \in 1..Len(v) |-> v[c] * v[c]])
SquaredDistance(u, v) == SquaredNorm([c \in 1..Len(u) |-> u[c] - v[c]])

(* sanitize: scaling a vector down to max_norm is exact for the vectors     *)
(* whose norm is whole and divides it; max_norm 0 stands for None too, for  *)
(* neither clips.                                                           *)
TooLong(v, max_norm) == max_norm > 0 /\ SquaredNorm(v) > max_norm * max_norm

Clipped(v, max_norm) ==
  IF TooLong(v, max_norm)
  THEN LET norm == CHOOSE r \in 1..SquaredNorm(v) : r * r = SquaredNorm(v)
       IN [c \in 1..Len(v) |-> (v[c] * max_norm) \div norm]
  ELSE v

ClipsExactly(v, max_norm) ==
  TooLong(v, max_norm) =>
    \E norm \in 1..SquaredNorm(v) :
      /\ norm * norm = SquaredNorm(v)
      /\ \A c \in 1..Len(v) : (v[c] * max_norm) % norm = 0

Finite(updates) ==
  LET kept[i \in 0..Len(updates)] ==
        IF i = 0 THEN <<>>
        ELSE IF updates[i].finite THEN Append(kept[i-1], updates[i]) ELSE kept[i-1]
  IN kept[Len(updates)]

sanitize(updates, max_norm) ==
  LET kept == Finite(updates)
  IN [i \in 1..Len(kept) |-> Clipped(kept[i].at, max_norm)]

Mean(m) ==
  Aggregate([c \in 1..Dimension(m) |-> SumOver(Column(m, c))], Len(m))

(* The number of values dropped at either end; below half of them all. *)
TrimCount_BothEnds(n, trim) == (trim[1] * n) \div (2 * trim[2])

TrimCount(n, trim) == (trim[1] * n) \div trim[2]

trimmed_mean(m, trim) ==
  LET n == Len(m)
      k == TrimCount(n, trim)
      survivors(c) == SubSeq(Sorted(Column(m, c)), k + 1, n - k)
  IN IF ~(0 <= trim[1] /\ 2 * trim[1] < trim[2]) THEN Failure
     ELSE IF 2 * k >= n THEN Mean(m)
     ELSE Aggregate([c \in 1..Dimension(m) |-> SumOver(survivors(c))], n - 2*k)

(* The score of update i: its squared distances to the nearest others, the  *)
(* first of the sorted distances being the one to itself.                   *)
Neighbours_TooFew(n, f) == n - 2*f - 2

Neighbours(n, f) == n - f - 2

Score(m, i, f) ==
  LET sq == [j \in 1..Len(m) |-> SquaredDistance(m[i], m[j])]
  IN SumOver(SubSeq(Sorted(sq), 2, Neighbours(Len(m), f) + 1))

krum(m, num_byzantine) ==
  LET n == Len(m)
      f == IF num_byzantine > 0 THEN num_byzantine ELSE 0
      scores == [i \in 1..n |-> Score(m, i, f)]
      winner == CHOOSE i \in 1..n :
                  /\ \A j \in 1..n : scores[i] <= scores[j]
                  /\ \A j \in 1..(i-1) : scores[j] # scores[i]
  IN IF n <= 2*f + 2 THEN Failure ELSE Aggregate(m[winner], 1)

(* One weight per surviving update. *)
WeightsFit_Longer(m, weights) == Len(weights) >= Len(m)

WeightsFit(m, weights) == Len(weights) = Len(m)

reputation_weighted_mean(m, weights) ==
  IF ~WeightsFit(m, weights) \/ \E i \in 1..Len(weights) : weights[i] < 0
  THEN Failure
  ELSE LET total == SumOver(weights)
           weighted(c) == [i \in 1..Len(m) |-> m[i][c] * weights[i]]
       IN IF total = 0 THEN Mean(m)
          ELSE Aggregate([c \in 1..Dimension(m) |-> SumOver(weighted(c))], total)

(* aggregate: task has the method and its parameters. *)
aggregate(updates, task) ==
  LET clean == sanitize(updates, task.max_norm)
  IN IF clean = <<>> THEN Failure
     ELSE CASE task.method = "trimmed_mean" -> trimmed_mean(clean, task.trim)
            [] task.method = "krum" -> krum(clean, task.num_byzantine)
            [] task.method = "reputation" ->
                 reputation_weighted_mean(clean, task.weights)
            [] OTHER -> Failure

=============================================================================
