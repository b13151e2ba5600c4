------------------------- MODULE AdaptiveDifficulty -------------------------
(***************************************************************************)
(* RLDifficultyController of src/neurochain/ai/adaptive_difficulty.py, with *)
(* exact arithmetic: alpha = 1/2 and gamma = 9/10, so that the values are   *)
(* whole multiples of 1/unit, a unit that each update makes 20 times as     *)
(* large, and drifts log2(observed/target) are whole numbers.  The          *)
(* generator's draws are inputs.                                            *)
(***************************************************************************)
EXTENDS Integers, Sequences

CONSTANTS min_difficulty, max_difficulty

Moves == {-1, 0, 1}          \* ACTIONS: ease, hold, harden

Buckets == -4..4

Bucket(drift) == IF drift < -4 THEN -4 ELSE IF drift > 4 THEN 4 ELSE drift

Reward_Unsigned(drift) == IF drift < 0 THEN -drift ELSE drift

Reward(drift) == IF drift < 0 THEN drift ELSE -drift

(* q holds unit times the values; last is the previous decision, <<>> if    *)
(* there is none.                                                           *)
NewController(difficulty) ==
  [q |-> [state \in Buckets |-> [move \in Moves |-> 0]],
   unit |-> 1, last |-> <<>>, difficulty |-> difficulty]

(* max(ACTIONS, key): of equal values the first, -1 before 0 before 1. *)
GreedyMove(q, state) ==
  CHOOSE a \in Moves :
    /\ \A b \in Moves : q[state][a] >= q[state][b]
    /\ \A b \in Moves : b < a => q[state][a] # q[state][b]

Best(q, state) == q[state][GreedyMove(q, state)]

(* The reward of what is observed now goes to the previous decision:        *)
(* old + alpha * (reward + gamma * best_next - old), over 20 * unit.        *)
Credited(c, state, reward) ==
  LET new == 10 * c.q[c.last[1]][c.last[2]] + 10 * reward * c.unit
             + 9 * Best(c.q, state)
  IN [s \in Buckets |-> [a \in Moves |->
        IF <<s, a>> = c.last THEN new ELSE 20 * c.q[s][a]]]

Clamp(d) == IF d < min_difficulty THEN min_difficulty
            ELSE IF d > max_difficulty THEN max_difficulty ELSE d

(* next_difficulty, of a controller that starts from the difficulty it gave *)
(* last; explored is {} or holds the move that exploration picked.          *)
next_difficulty(c, drift, explored) ==
  LET state == Bucket(drift)
      q == IF c.last = <<>> THEN c.q ELSE Credited(c, state, Reward(drift))
      move == IF explored = {} THEN GreedyMove(q, state)
              ELSE CHOOSE a \in explored : TRUE
  IN [q |-> q, unit |-> IF c.last = <<>> THEN c.unit ELSE 20 * c.unit,
      last |-> <<state, move>>, difficulty |-> Clamp(c.difficulty + move)]

(* The controller after each of the observations [drift, explored]. *)
History(difficulty, observations) ==
  LET c[i \in 0..Len(observations)] ==
        IF i = 0 THEN NewController(difficulty)
        ELSE next_difficulty(c[i-1], observations[i].drift, observations[i].explored)
  IN [i \in 1..Len(observations) |-> c[i]]

=============================================================================
