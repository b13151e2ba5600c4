------------------------------- MODULE CallsMC ------------------------------
(* Arguments for Calls.  A transaction id is the tuple <<id>> (MerkleTree). *)
EXTENDS Calls

SeqsOfLen(S, n) == [1..n -> S]

(* Blocks of up to nine transactions. *)
MCBodies == { [i \in 1..n |-> <<i>>] : n \in 1..9 }

(* Lists over two or three transactions, with and without repetitions. *)
MCMixedBodies ==
  UNION { SeqsOfLen({<<1>>, <<2>>, <<3>>}, n) : n \in 1..3 }
    \cup SeqsOfLen({<<1>>, <<2>>}, 4)

Update(x, y) == [finite |-> TRUE, at |-> <<x, y>>]
NaN == [finite |-> FALSE, at |-> <<0, 0>>]

(* Every vector longer than 5 has a norm that divides 5 times its entries.  *)
MCHonestBatches ==
  SeqsOfLen({Update(0, 0), Update(3, 4), Update(-6, 8)}, 3)
    \cup SeqsOfLen({Update(0, 1), Update(1, 0)}, 5)

MCOtherBatches ==
  UNION { SeqsOfLen({NaN, Update(30, -40), Update(-9, -12)}, n) : n \in 0..2 }

Task(method, trim, f, weights, max_norm) ==
  [method |-> method, trim |-> trim, num_byzantine |-> f, weights |-> weights,
   max_norm |-> max_norm]

MCTasks ==
  { Task("trimmed_mean", trim, 0, <<>>, max_norm) :
      trim \in {<<0, 1>>, <<1, 5>>, <<1, 4>>, <<2, 5>>, <<1, 2>>}, max_norm \in {0, 5} }
  \cup
  { Task("krum", <<0, 1>>, f, <<>>, max_norm) : f \in 0..2, max_norm \in {0, 5} }
  \cup
  { Task("reputation", <<0, 1>>, 0, weights, 0) :
      weights \in {<<1, 0, 2, 0>>, <<0, 1, 0, 1, 0>>, <<0, 0, 0, 0>>, <<1, -1, 1>>} }
  \cup
  { Task("bogus", <<0, 1>>, 0, <<>>, 0) }

(* The points of y^2 = x^3 + 14 modulo 19, and INF, are a group of order 13; *)
(* two of them have an x-coordinate of 0 modulo 13.                          *)
MCG == <<5, 5>>
MCKeys == {1, 2, 5, 12}
MCMessages == {0, 1, 7, 14}

MCCandidates ==
  { [previous_hash |-> 1, merkle_root |-> 2, difficulty |-> d, nonce |-> 0, proof |-> <<>>] :
      d \in 1..2 }

(* Below, between and above the thresholds of the two difficulties. *)
MCRoundLosses == {500000, 600000, 780000, 2000000}
MCReputations == {5, 50, 100}

MCHasPrefix(binding) == (binding.nonce + binding.digest.loss) % 3 = 1

MCObservations ==
  LET observed == { [drift |-> d, explored |-> e] : d \in {-1, 0, 5}, e \in {{}, {1}} }
      settled == { [drift |-> d, explored |-> {}] : d \in {-1, 0, 2} }
  IN UNION { SeqsOfLen(observed, n) : n \in 1..4 } \cup SeqsOfLen(settled, 6)

=============================================================================
