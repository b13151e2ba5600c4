--------------------------- MODULE NeuroVMProofs ----------------------------
(***************************************************************************)
(* What holds of the NeuroVM, and of the contract templates that run on it, *)
(* for every program, word size, limit and history of calls: the arithmetic *)
(* of words, the types, what a failure and the gas limit may change, and    *)
(* when the templates release.                                              *)
(***************************************************************************)
EXTENDS Contracts, MathLemmas, SequenceTheorems, TLAPS

-----------------------------------------------------------------------------
(* Words.                                                                   *)

(* The recursive functions exist, so their defining equations hold. *)
LEMMA TwoToDef ==
  TwoTo = [k \in 0..WORD_BITS |-> IF k = 0 THEN 1 ELSE 2 * TwoTo[k-1]]
<1> DEFINE S == {m \in Nat : \E g :
             g = [k \in 0..m |-> IF k = 0 THEN 1 ELSE 2 * g[k-1]]}
<1>1. 0 \in S
  <2>1. [k \in 0..0 |-> 1] =
          [k \in 0..0 |-> IF k = 0 THEN 1 ELSE 2 * [j \in 0..0 |-> 1][k-1]]
    OBVIOUS
  <2> QED BY <2>1
<1>2. ASSUME NEW m \in Nat, m \in S PROVE m + 1 \in S
  <2>1. PICK g : g = [k \in 0..m |-> IF k = 0 THEN 1 ELSE 2 * g[k-1]]
    BY <1>2
  <2> DEFINE f == [k \in 0..(m+1) |-> IF k = m + 1 THEN 2 * g[m] ELSE g[k]]
  <2>2. \A k \in 0..(m+1) : f[k] = IF k = 0 THEN 1 ELSE 2 * f[k-1]
    BY <2>1
  <2>3. f = [k \in 0..(m+1) |-> IF k = 0 THEN 1 ELSE 2 * f[k-1]]
    <3> HIDE DEF f
    <3>1. f = [k \in 0..(m+1) |-> f[k]] BY DEF f
    <3> QED BY <2>2, <3>1
  <2>4. \E h : h = [k \in 0..(m+1) |-> IF k = 0 THEN 1 ELSE 2 * h[k-1]]
    <3> HIDE DEF f
    <3> QED BY <2>3
  <2> HIDE DEF f
  <2>5. m + 1 \in Nat
    OBVIOUS
  <2> QED BY <2>4, <2>5, Zenon
<1> HIDE DEF S
<1>3. WORD_BITS \in S
  BY <1>1, <1>2, SetInduction, LimitsAssumption
<1> QED BY <1>3 DEF S, TwoTo

(* Powers of two double. *)
LEMMA TwoToSteps ==
  /\ TwoTo[0] = 1
  /\ \A k \in 0..WORD_BITS : TwoTo[k] \in Nat \ {0}
  /\ \A k \in 1..WORD_BITS : TwoTo[k] = 2 * TwoTo[k-1]
<1> DEFINE S == {k \in 0..WORD_BITS : TwoTo[k] \in Nat \ {0}}
<1>1. /\ TwoTo[0] = 1
      /\ \A k \in 1..WORD_BITS : TwoTo[k] = 2 * TwoTo[k-1]
  <2> DEFINE def == [k \in 0..WORD_BITS |-> IF k = 0 THEN 1 ELSE 2 * TwoTo[k-1]]
  <2>1. \A k \in 0..WORD_BITS : def[k] = IF k = 0 THEN 1 ELSE 2 * TwoTo[k-1]
    OBVIOUS
  <2>2. TwoTo = def
    BY TwoToDef
  <2> HIDE DEF def
  <2> QED BY <2>1, <2>2, LimitsAssumption
<1>2. 0 \in S
  BY <1>1, LimitsAssumption
<1>3. \A k \in 0..(WORD_BITS-1) : k \in S => k + 1 \in S
  <2> SUFFICES ASSUME NEW k \in 0..(WORD_BITS-1), k \in S PROVE k + 1 \in S
    OBVIOUS
  <2>1. k + 1 \in 1..WORD_BITS /\ (k + 1) - 1 = k
    BY LimitsAssumption
  <2>2. TwoTo[k+1] = 2 * TwoTo[(k+1)-1]
    BY <1>1, <2>1
  <2> QED BY <2>1, <2>2
<1> HIDE DEF S
<1>4. \A k \in 0..WORD_BITS : k \in S
  BY <1>2, <1>3, UpTo, LimitsAssumption
<1> QED BY <1>1, <1>4 DEF S

(* A word holds 0 and 1, at least. *)
LEMMA WordSize == WORD \in Nat /\ WORD >= 2
<1>1. WORD_BITS \in 1..WORD_BITS /\ WORD_BITS - 1 \in 0..WORD_BITS
  BY LimitsAssumption
<1>2. WORD = 2 * TwoTo[WORD_BITS - 1] /\ TwoTo[WORD_BITS - 1] \in Nat \ {0}
  BY <1>1, TwoToSteps DEF WORD
<1> QED BY <1>2

(* A word and its last bit. *)
LEMMA Halves ==
  ASSUME NEW a \in Words
  PROVE  /\ a \div 2 \in Words /\ a % 2 \in {0, 1}
         /\ a = 2 * (a \div 2) + (a % 2)
BY WordSize DEF Words

(* The and of the last k bits, from that of the last k-1. *)
HalvedAnd(f, a, b) ==
  2 * f[a \div 2][b \div 2] + Flag(a % 2 = 1 /\ b % 2 = 1)

(* The bitwise and satisfies its defining equation, *)
LEMMA AndDef ==
  And = [k \in 0..WORD_BITS |->
          [a \in Words |-> [b \in Words |->
             IF k = 0 THEN 0 ELSE HalvedAnd(And[k-1], a, b)]]]
<1> DEFINE Row(k, f) == [a \in Words |-> [b \in Words |->
             IF k = 0 THEN 0 ELSE HalvedAnd(f, a, b)]]
           zero == [a \in Words |-> [b \in Words |-> 0]]
           S == {m \in Nat : \E g : g = [k \in 0..m |-> Row(k, g[k-1])]}
<1>0. \A f : Row(0, f) = zero
  OBVIOUS
<1> HIDE DEF Row, zero
<1>1. 0 \in S
  <2>1. [k \in 0..0 |-> zero] =
          [k \in 0..0 |-> Row(k, [j \in 0..0 |-> zero][k-1])]
    BY <1>0
  <2> QED BY <2>1
<1>2. ASSUME NEW m \in Nat, m \in S PROVE m + 1 \in S
  <2>1. PICK g : g = [k \in 0..m |-> Row(k, g[k-1])]
    BY <1>2
  <2> DEFINE f == [k \in 0..(m+1) |-> IF k = m + 1 THEN Row(m+1, g[m]) ELSE g[k]]
  <2>2. \A k \in 0..(m+1) : f[k] = Row(k, f[k-1])
    <3> SUFFICES ASSUME NEW k \in 0..(m+1) PROVE f[k] = Row(k, f[k-1])
      OBVIOUS
    <3>1. CASE k = m + 1
      BY <3>1
    <3>2. CASE k = 0
      BY <1>0, <2>1, <3>2
    <3>3. CASE k \in 1..m
      <4>1. f[k] = g[k] /\ f[k-1] = g[k-1] /\ k \in 0..m
        BY <3>3
      <4> HIDE DEF f
      <4> QED BY <2>1, <4>1
    <3> QED BY <3>1, <3>2, <3>3
  <2>3. f = [k \in 0..(m+1) |-> Row(k, f[k-1])]
    <3> HIDE DEF f
    <3>1. f = [k \in 0..(m+1) |-> f[k]] BY DEF f
    <3> QED BY <2>2, <3>1
  <2> HIDE DEF f
  <2> QED BY <2>3
<1> HIDE DEF S
<1>3. WORD_BITS \in S
  BY <1>1, <1>2, SetInduction, LimitsAssumption
<1> QED BY <1>3 DEF S, And, Row, HalvedAnd

(* and so does each of its values. *)
LEMMA AndStep ==
  ASSUME NEW k \in 0..WORD_BITS, NEW a \in Words, NEW b \in Words
  PROVE  And[k][a][b] = IF k = 0 THEN 0 ELSE HalvedAnd(And[k-1], a, b)
<1> DEFINE row(j) == [x \in Words |-> [y \in Words |->
                       IF j = 0 THEN 0 ELSE HalvedAnd(And[j-1], x, y)]]
<1>1. And[k] = row(k)
  <2>1. And = [j \in 0..WORD_BITS |-> row(j)]
    BY AndDef
  <2> HIDE DEF row
  <2>2. \A j \in 0..WORD_BITS : [i \in 0..WORD_BITS |-> row(i)][j] = row(j)
    OBVIOUS
  <2> QED BY <2>1, <2>2
<1> QED BY <1>1

(* The and of two numbers is below both, and their or needs no more bits.   *)
LEMMA AndBounds ==
  \A k \in 0..WORD_BITS : \A a, b \in Words :
    /\ And[k][a][b] \in Nat /\ And[k][a][b] <= a /\ And[k][a][b] <= b
    /\ a < TwoTo[k] /\ b < TwoTo[k] => a + b - And[k][a][b] < TwoTo[k]
<1> DEFINE Below(k) ==
             \A a, b \in Words :
               /\ And[k][a][b] \in Nat /\ And[k][a][b] <= a /\ And[k][a][b] <= b
               /\ a < TwoTo[k] /\ b < TwoTo[k] => a + b - And[k][a][b] < TwoTo[k]
           S == {k \in 0..WORD_BITS : Below(k)}
<1>1. 0 \in S
  <2>1. \A a, b \in Words : And[0][a][b] = 0
    BY AndStep, LimitsAssumption
  <2>2. \A a \in Words : a \in Nat
    BY WordSize DEF Words
  <2>3. TwoTo[0] = 1
    BY TwoToSteps
  <2>4. Below(0)
    <3> SUFFICES ASSUME NEW a \in Words, NEW b \in Words
                 PROVE  /\ And[0][a][b] \in Nat /\ And[0][a][b] <= a
                        /\ And[0][a][b] <= b
                        /\ a < TwoTo[0] /\ b < TwoTo[0] =>
                             a + b - And[0][a][b] < TwoTo[0]
      OBVIOUS
    <3> QED BY <2>1, <2>2, <2>3
  <2> QED BY <2>4, LimitsAssumption
<1>2. \A k \in 0..(WORD_BITS-1) : k \in S => k + 1 \in S
  <2> SUFFICES ASSUME NEW k \in 0..(WORD_BITS-1), k \in S PROVE k + 1 \in S
    OBVIOUS
  <2>1. k + 1 \in 0..WORD_BITS /\ (k + 1) - 1 = k /\ k + 1 # 0
    BY LimitsAssumption
  <2>2. Below(k + 1)
    <3> SUFFICES ASSUME NEW a \in Words, NEW b \in Words
                 PROVE  /\ And[k+1][a][b] \in Nat /\ And[k+1][a][b] <= a
                        /\ And[k+1][a][b] <= b
                        /\ a < TwoTo[k+1] /\ b < TwoTo[k+1] =>
                             a + b - And[k+1][a][b] < TwoTo[k+1]
      OBVIOUS
    <3>1. And[k+1][a][b] = HalvedAnd(And[k], a, b)
      BY <2>1, AndStep
    <3>2. PICK p \in Words, q \in Words, r \in {0, 1}, s \in {0, 1} :
            /\ p = a \div 2 /\ q = b \div 2 /\ r = a % 2 /\ s = b % 2
            /\ a = 2 * p + r /\ b = 2 * q + s
      <4>1. /\ a \div 2 \in Words /\ a % 2 \in {0, 1} /\ a = 2 * (a \div 2) + (a % 2)
            /\ b \div 2 \in Words /\ b % 2 \in {0, 1} /\ b = 2 * (b \div 2) + (b % 2)
        BY Halves
      <4> QED BY <4>1
    <3>3. PICK h : h = And[k][p][q]
      OBVIOUS
    <3>4. /\ h \in Nat /\ h <= p /\ h <= q
          /\ p < TwoTo[k] /\ q < TwoTo[k] => p + q - h < TwoTo[k]
      BY <3>3
    <3>5. And[k+1][a][b] = 2 * h + IF r = 1 /\ s = 1 THEN 1 ELSE 0
      BY <3>1, <3>2, <3>3 DEF HalvedAnd, Flag
    <3>6. PICK t \in Nat : t = TwoTo[k] /\ TwoTo[k+1] = 2 * t
      BY <2>1, TwoToSteps
    <3>7. p \in Nat /\ q \in Nat
      BY WordSize DEF Words
    <3> QED BY <3>2, <3>4, <3>5, <3>6, <3>7
  <2> QED BY <2>1, <2>2
<1>3. \A k \in 0..WORD_BITS : k \in S
  <2> HIDE DEF S
  <2> QED BY <1>1, <1>2, UpTo, LimitsAssumption
<1> QED BY <1>3

(* Every instruction with two operands computes a word of two words. *)
LEMMA ComputedWords ==
  ASSUME NEW op \in Binary, NEW a \in Words, NEW b \in Words,
         op \in {"DIV", "MOD"} => b # 0
  PROVE  Computed(op, a, b) \in Words
<1>1. PICK w \in Nat : w = WORD /\ w >= 2
  BY WordSize
<1>2. Words = 0..(w - 1) /\ a \in Nat /\ b \in Nat
  BY <1>1 DEF Words
<1>3. CASE op \in {"ADD", "SUB", "MUL"}
  <2>1. \A n \in Int : n % w \in 0..(w - 1)
    BY <1>1
  <2>2. a + b \in Int /\ a - b \in Int /\ a * b \in Int
    BY <1>2
  <2> QED BY <1>1, <1>2, <1>3, <2>1, <2>2 DEF Computed
<1>4. CASE op = "DIV"
  <2>1. b \in Nat /\ b # 0
    BY <1>2, <1>4
  <2>2. a \div b \in Nat /\ b * (a \div b) <= a
    BY <1>2, <2>1
  <2>3. \A q \in Nat : b * q <= a => q <= a
    BY <1>2, <2>1
  <2>4. a \div b \in 0..(w - 1)
    BY <1>1, <1>2, <2>2, <2>3
  <2> QED BY <1>2, <1>4, <2>4 DEF Computed
<1>5. CASE op = "MOD"
  <2>1. a % b \in 0..(b - 1)
    BY <1>2, <1>5
  <2> QED BY <1>1, <1>2, <1>5, <2>1 DEF Computed
<1>6. CASE op \in {"EQ", "LT", "GT"}
  <2>1. 0 \in Words /\ 1 \in Words
    BY <1>1, <1>2
  <2>3. CASE op = "EQ"
    BY <1>2, <2>1, <2>3 DEF Computed, Flag
  <2>4. CASE op = "LT"
    BY <1>2, <2>1, <2>4 DEF Computed, Flag
  <2>5. CASE op = "GT"
    BY <1>2, <2>1, <2>5 DEF Computed, Flag
  <2> QED BY <1>6, <2>3, <2>4, <2>5
<1>7. CASE op \in {"AND", "OR"}
  <2>1. WORD_BITS \in 0..WORD_BITS
    BY LimitsAssumption
  <2>2. PICK n : n = And[WORD_BITS][a][b]
    OBVIOUS
  <2>3. TwoTo[WORD_BITS] = w
    BY <1>1 DEF WORD
  <2>4. /\ n \in Nat /\ n <= a /\ n <= b
        /\ a < TwoTo[WORD_BITS] /\ b < TwoTo[WORD_BITS] =>
             a + b - n < TwoTo[WORD_BITS]
    BY <2>1, <2>2, AndBounds
  <2>5. n \in 0..(w - 1) /\ a + b - n \in 0..(w - 1)
    BY <1>1, <1>2, <2>3, <2>4
  <2>6. BitAnd(a, b) = n
    BY <2>2 DEF BitAnd
  <2>7. CASE op = "AND"
    BY <1>2, <2>5, <2>6, <2>7 DEF Computed
  <2>8. CASE op = "OR"
    BY <1>2, <2>5, <2>6, <2>8 DEF Computed
  <2> QED BY <1>7, <2>7, <2>8
<1> QED BY <1>3, <1>4, <1>5, <1>6, <1>7 DEF Binary

(* What is cut to a word is one, and a word is not changed by it. *)
LEMMA WordsOfNumbers ==
  /\ 0 \in Words /\ 1 \in Words
  /\ \A n \in Int : n % WORD \in Words
  /\ \A a \in Words : a \in Nat /\ a % WORD = a /\ WORD - 1 - a \in Words
<1>1. PICK w \in Nat : w = WORD /\ w >= 2
  BY WordSize
<1>2. Words = 0..(w - 1)
  BY <1>1 DEF Words
<1>3. \A n \in Int : n % w \in 0..(w - 1)
  BY <1>1
<1>4. \A a \in 0..(w - 1) : a \in Nat /\ a % w = a /\ w - 1 - a \in 0..(w - 1)
  BY <1>1
<1> QED BY <1>1, <1>2, <1>3, <1>4

(* What an instruction pushes are words. *)
LEMMA PushedWords ==
  ASSUME NEW c, NEW s, NEW ins \in Instruction, NEW a \in Words, NEW b \in Words,
         s.storage \in [Words -> Words], c.ctx \in Contexts,
         ins.op \in {"DIV", "MOD"} => b # 0
  PROVE  Pushed(c, s, ins, a, b) \in Seq(Words)
<1>1. /\ << >> \in Seq(Words)
      /\ \A x \in Words : <<x>> \in Seq(Words)
      /\ \A x, y \in Words : <<x, y>> \in Seq(Words)
  OBVIOUS
<1>2. /\ c.ctx.caller % WORD \in Words /\ c.ctx.value % WORD \in Words
      /\ c.ctx.timestamp % WORD \in Words /\ c.ctx.balances[a] % WORD \in Words
  BY WordsOfNumbers, ContextsAssumption
<1>3. ins.arg \in Words
  BY DEF Instruction
<1>4. CASE ins.op = "PUSH"
  <2>1. Pushed(c, s, ins, a, b) = <<ins.arg>>
    BY <1>4 DEF Pushed, Binary
  <2> QED BY <1>1, <1>3, <2>1
<1>5. CASE ins.op \in {"DUP", "SWAP"}
  <2>1. Pushed(c, s, ins, a, b) \in {<<a, a>>, <<a, b>>}
    BY <1>5 DEF Pushed, Binary
  <2> QED BY <1>1, <2>1
<1>6. CASE ins.op \in Binary
  <2>1. Computed(ins.op, a, b) \in Words
    BY <1>6, ComputedWords
  <2>2. ins.op \notin {"PUSH", "DUP", "SWAP", "NOT", "ISZERO", "SLOAD",
                       "CALLER", "VALUE", "TIMESTAMP", "BALANCE"}
    BY <1>6 DEF Binary
  <2> DEFINE computed == Computed(ins.op, a, b)
  <2> HIDE DEF computed
  <2>3. Pushed(c, s, ins, a, b) = <<computed>>
    BY <1>6, <2>2 DEF Pushed, computed
  <2> QED BY <1>1, <2>1, <2>3 DEF computed
<1>7. CASE ins.op \in {"NOT", "ISZERO"}
  <2>1. ins.op \notin Binary
    BY <1>7 DEF Binary
  <2>2. Pushed(c, s, ins, a, b) \in {<<WORD - 1 - a>>, <<0>>, <<1>>}
    BY <1>7, <2>1 DEF Pushed, Flag
  <2> QED BY <1>1, <2>2, WordsOfNumbers
<1>8. CASE ins.op = "SLOAD"
  <2>1. ins.op \notin Binary
    BY <1>8 DEF Binary
  <2> QED BY <1>1, <1>8, <2>1 DEF Pushed
<1>9. CASE ins.op \in {"CALLER", "VALUE", "TIMESTAMP", "BALANCE"}
  <2>1. ins.op \notin Binary
    BY <1>9 DEF Binary
  <2>2. Pushed(c, s, ins, a, b) \in
          {<<c.ctx.caller % WORD>>, <<c.ctx.value % WORD>>,
           <<c.ctx.timestamp % WORD>>, <<c.ctx.balances[a] % WORD>>}
    BY <1>9, <2>1 DEF Pushed
  <2> QED BY <1>1, <1>2, <2>2
<1>10. CASE ins.op \notin Binary \cup
              {"PUSH", "DUP", "SWAP", "NOT", "ISZERO", "SLOAD",
               "CALLER", "VALUE", "TIMESTAMP", "BALANCE"}
  <2>1. Pushed(c, s, ins, a, b) = << >>
    BY <1>10 DEF Pushed
  <2> QED BY <1>1, <2>1
<1> QED BY <1>4, <1>5, <1>6, <1>7, <1>8, <1>9, <1>10

-----------------------------------------------------------------------------
(* The loop.                                                                *)

(* The k-th operand of an instruction. *)
Top(s, k) == IF Len(s.stack) < k THEN 0 ELSE s.stack[Len(s.stack) + 1 - k]

Instr(c, s) == c.code[s.pc + 1]

Affordable(c, s) == ~(s.steps >= MAX_STEPS \/ s.gas < GAS[Instr(c, s).op])

(* What makes an instruction revert. *)
Faulty(c, s, ins) ==
  \/ Len(s.stack) < Pops(ins.op)
  \/ Fault(c, ins, Top(s, 1), Top(s, 2))
  \/ Overflow(Advance(c, s, ins, Top(s, 1), Top(s, 2)).stack)

(* The ways an iteration can go, p being the state once ins is paid for. *)
Outcome(c, s, ins, p) ==
  \/ s.pc >= Len(c.code) /\ Exec(c, s) = Succeed(s, None)
  \/ /\ s.pc < Len(c.code) /\ ~Affordable(c, s)
     /\ Exec(c, s) = Rollback(c, s, "out_of_gas", 0)
  \/ /\ s.pc < Len(c.code) /\ Affordable(c, s)
     /\ \/ ins.op = "STOP" /\ Exec(c, s) = Succeed(p, None)
        \/ ins.op = "RETURN" /\ Exec(c, s) = Succeed(p, Top(s, 1))
        \/ /\ ins.op \notin {"STOP", "RETURN"} /\ Faulty(c, p, ins)
           /\ Exec(c, s) = Rollback(c, p, "revert", p.gas)
        \/ /\ ins.op \notin {"STOP", "RETURN"} /\ ~Faulty(c, p, ins)
           /\ Exec(c, s) = Advance(c, p, ins, Top(s, 1), Top(s, 2))

(* An iteration goes one of these ways. *)
LEMMA ExecCases ==
  ASSUME NEW c, NEW s, s.pc \in Nat, Len(c.code) \in Nat
  PROVE  Outcome(c, s, Instr(c, s), Paid(s, Instr(c, s)))
<1> DEFINE ins == Instr(c, s)
           p == Paid(s, ins)
<1> SUFFICES Outcome(c, s, ins, p)
  OBVIOUS
<1>1. \A k : Top(p, k) = Top(s, k)
  BY DEF Top, Paid
<1>2. Exec(c, s) = IF s.pc >= Len(c.code) THEN Succeed(s, None)
                   ELSE IF ~Affordable(c, s) THEN Rollback(c, s, "out_of_gas", 0)
                   ELSE Perform(c, p, ins)
  BY Zenon DEF Exec, Affordable, Instr
<1> HIDE DEF ins, p
<1>3. CASE s.pc >= Len(c.code)
  BY <1>2, <1>3 DEF Outcome
<1>4. CASE s.pc < Len(c.code) /\ ~Affordable(c, s)
  BY <1>2, <1>4 DEF Outcome
<1>5. CASE s.pc < Len(c.code) /\ Affordable(c, s)
  <2>1. Exec(c, s) = Perform(c, p, ins)
    BY <1>2, <1>5
  <2>2. Perform(c, p, ins) =
          IF ins.op = "STOP" THEN Succeed(p, None)
          ELSE IF ins.op = "RETURN" THEN Succeed(p, Top(p, 1))
          ELSE IF Faulty(c, p, ins) THEN Rollback(c, p, "revert", p.gas)
          ELSE Advance(c, p, ins, Top(p, 1), Top(p, 2))
    BY DEF Perform, Faulty, Top
  <2>3. Exec(c, s) =
          IF ins.op = "STOP" THEN Succeed(p, None)
          ELSE IF ins.op = "RETURN" THEN Succeed(p, Top(s, 1))
          ELSE IF Faulty(c, p, ins) THEN Rollback(c, p, "revert", p.gas)
          ELSE Advance(c, p, ins, Top(s, 1), Top(s, 2))
    BY <1>1, <2>1, <2>2
  <2> QED BY <1>5, <2>3 DEF Outcome
<1> QED BY <1>3, <1>4, <1>5

(* The arguments of a call. *)
CallOK(c) ==
  /\ c.code \in Seq(Instruction) /\ c.ctx \in Contexts
  /\ c.limit \in Nat /\ c.storage \in [Words -> Words]

(* A state of the machine in call c. *)
MachineOK(c, s) ==
  /\ s.status \in {"running", "success", "revert", "out_of_gas"}
  /\ s.pc \in 0..Len(c.code)
  /\ s.stack \in Seq(Words) /\ Len(s.stack) <= MAX_STACK
  /\ s.storage \in [Words -> Words] /\ s.logs \in Seq(Words)
  /\ s.gas \in 0..c.limit /\ s.steps \in 0..MAX_STEPS
  /\ s.return_value \in Words \cup {None}

(* Operands are words, also where the stack has none. *)
LEMMA TopWords ==
  ASSUME NEW s, s.stack \in Seq(Words), NEW k \in Nat \ {0}
  PROVE  Top(s, k) \in Words
<1>1. CASE Len(s.stack) < k
  BY <1>1, WordsOfNumbers DEF Top
<1>2. CASE Len(s.stack) >= k
  <2>1. Len(s.stack) + 1 - k \in 1..Len(s.stack)
    BY <1>2
  <2> QED BY <1>2, <2>1 DEF Top
<1> QED BY <1>1, <1>2

(* Every instruction costs something, STOP and RETURN excepted. *)
LEMMA Costs ==
  ASSUME NEW op \in DOMAIN GAS
  PROVE  GAS[op] \in Nat /\ (op \notin {"STOP", "RETURN"} => GAS[op] >= 1)
BY DEF GAS

(* What is left of gas and steps once an instruction is paid for. *)
LEMMA PaidFor ==
  ASSUME NEW c, NEW s, CallOK(c), MachineOK(c, s),
         s.pc < Len(c.code), Affordable(c, s)
  PROVE  LET ins == Instr(c, s)
             p   == Paid(s, ins)
         IN /\ ins \in Instruction /\ GAS[ins.op] \in Nat
            /\ p.gas = s.gas - GAS[ins.op] /\ p.gas \in 0..s.gas
            /\ p.steps = s.steps + 1 /\ p.steps \in 0..MAX_STEPS
            /\ ins.op \notin {"STOP", "RETURN"} => p.gas < s.gas
            /\ MachineOK(c, p)
<1> DEFINE ins == Instr(c, s)
           p == Paid(s, ins)
<1>1. s.pc + 1 \in 1..Len(c.code)
  <2>1. Len(c.code) \in Nat
    BY DEF CallOK
  <2>2. s.pc \in 0..Len(c.code)
    BY DEF MachineOK
  <2> QED BY <2>1, <2>2
<1>2. ins \in Instruction
  BY <1>1 DEF Instr, CallOK
<1>3. ins.op \in DOMAIN GAS
  BY <1>2 DEF Instruction
<1>4. PICK cost \in Nat : /\ cost = GAS[ins.op]
                          /\ ins.op \notin {"STOP", "RETURN"} => cost >= 1
  BY <1>3, Costs
<1>5. s.gas \in 0..c.limit /\ s.steps \in 0..MAX_STEPS /\ MAX_STEPS \in Nat
      /\ c.limit \in Nat
  BY LimitsAssumption DEF MachineOK, CallOK
<1>6. s.gas >= cost /\ s.steps < MAX_STEPS
  BY <1>4, <1>5 DEF Affordable
<1>7. p.gas = s.gas - cost /\ p.steps = s.steps + 1
  BY <1>4 DEF Paid
<1>8. /\ p.gas \in 0..s.gas /\ p.gas \in 0..c.limit /\ p.steps \in 0..MAX_STEPS
      /\ ins.op \notin {"STOP", "RETURN"} => p.gas < s.gas
  <2> HIDE DEF p, ins
  <2>1. p.gas \in 0..s.gas /\ p.gas \in 0..c.limit
    BY <1>4, <1>5, <1>6, <1>7
  <2>2. p.steps \in 0..MAX_STEPS
    BY <1>5, <1>6, <1>7
  <2>3. cost >= 1 => p.gas < s.gas
    BY <1>4, <1>5, <1>7
  <2> QED BY <1>4, <2>1, <2>2, <2>3
<1>9. MachineOK(c, p)
  <2>1. /\ p.status = "running" /\ p.pc = s.pc /\ p.stack = s.stack
        /\ p.storage = s.storage /\ p.logs = s.logs /\ p.return_value = None
    BY DEF Paid
  <2> HIDE DEF p
  <2> QED BY <1>8, <2>1 DEF MachineOK
<1> HIDE DEF ins, p
<1>10. /\ ins \in Instruction /\ GAS[ins.op] \in Nat
       /\ p.gas = s.gas - GAS[ins.op] /\ p.gas \in 0..s.gas
       /\ p.steps = s.steps + 1 /\ p.steps \in 0..MAX_STEPS
       /\ ins.op \notin {"STOP", "RETURN"} => p.gas < s.gas
       /\ MachineOK(c, p)
  BY <1>2, <1>4, <1>7, <1>8, <1>9
<1> QED BY <1>10 DEF ins, p

(* An instruction that does not fault leads from a state to a state. *)
LEMMA AdvanceTypes ==
  ASSUME NEW c, NEW p, CallOK(c), MachineOK(c, p), p.pc < Len(c.code),
         NEW ins \in Instruction, ~Faulty(c, p, ins)
  PROVE  MachineOK(c, Advance(c, p, ins, Top(p, 1), Top(p, 2)))
<1> DEFINE a == Top(p, 1)
           b == Top(p, 2)
           q == Advance(c, p, ins, a, b)
           pushed == Pushed(c, p, ins, a, b)
           rest == SubSeq(p.stack, 1, Len(p.stack) - Pops(ins.op))
<1>1. /\ a \in Words /\ b \in Words
  <2>1. p.stack \in Seq(Words)
    BY DEF MachineOK
  <2> QED BY <2>1, TopWords
<1>2. /\ Len(p.stack) >= Pops(ins.op) /\ ~Fault(c, ins, a, b) /\ ~Overflow(q.stack)
  <2>1. Len(p.stack) \in Nat
    <3>1. p.stack \in Seq(Words)
      BY DEF MachineOK
    <3> QED BY <3>1
  <2>2. Pops(ins.op) \in Nat
    BY DEF Pops
  <2> QED BY <2>1, <2>2 DEF Faulty
<1>3. /\ q.status = "running" /\ q.gas = p.gas /\ q.steps = p.steps
      /\ q.return_value = None
      /\ q.pc = IF Jumps(ins, b) THEN a ELSE p.pc + 1
      /\ q.stack = rest \o pushed
      /\ q.storage = IF ins.op = "SSTORE" THEN [p.storage EXCEPT ![a] = b] ELSE p.storage
      /\ q.logs = IF ins.op = "LOG" THEN Append(p.logs, a) ELSE p.logs
  BY DEF Advance
<1>4. pushed \in Seq(Words)
  BY <1>1, <1>2, PushedWords DEF CallOK, MachineOK, Fault
<1>5. rest \in Seq(Words)
  <2>1. p.stack \in Seq(Words)
    BY DEF MachineOK
  <2>3. Pops(ins.op) \in Nat
    BY DEF Pops
  <2>2. PICK k \in 0..Len(p.stack) : k = Len(p.stack) - Pops(ins.op)
    BY <1>2, <2>1, <2>3
  <2> QED BY <2>1, <2>2
<1> HIDE DEF a, b, q, pushed, rest
<1>6. q.stack \in Seq(Words) /\ Len(q.stack) <= MAX_STACK
  <2>1. q.stack \in Seq(Words)
    BY <1>3, <1>4, <1>5
  <2>2. Len(q.stack) \in Nat /\ MAX_STACK \in Nat
    BY <2>1, LimitsAssumption
  <2> QED BY <1>2, <2>1, <2>2 DEF Overflow
<1>7. q.pc \in 0..Len(c.code)
  <2>1. PICK n \in Nat : n = Len(c.code)
    BY DEF CallOK
  <2>2. p.pc \in 0..n /\ p.pc < n
    BY <2>1 DEF MachineOK
  <2>3. CASE Jumps(ins, b)
    <3>1. a \in JumpDests(c.code)
      BY <1>2, <2>3 DEF Fault
    <3>2. a \in 0..(n-1)
      BY <2>1, <3>1 DEF JumpDests
    <3> QED BY <1>3, <2>1, <2>3, <3>2
  <2>4. CASE ~Jumps(ins, b)
    BY <1>3, <2>1, <2>2, <2>4
  <2> QED BY <2>3, <2>4
<1>8. q.storage \in [Words -> Words] /\ q.logs \in Seq(Words)
  <2>1. p.storage \in [Words -> Words] /\ p.logs \in Seq(Words)
    BY DEF MachineOK
  <2>2. [p.storage EXCEPT ![a] = b] \in [Words -> Words]
    BY <1>1, <2>1
  <2>3. Append(p.logs, a) \in Seq(Words)
    BY <1>1, <2>1
  <2> QED BY <1>3, <2>1, <2>2, <2>3
<1>9. MachineOK(c, q)
  BY <1>3, <1>6, <1>7, <1>8 DEF MachineOK
<1> QED BY <1>9 DEF q, a, b

(* So does every iteration, and gas is only spent. *)
Follows(c, s, r) ==
  /\ MachineOK(c, r) /\ r.gas <= s.gas
  /\ r.status = "running" => r.steps = s.steps + 1 /\ r.gas < s.gas

(* An iteration keeps the machine within its types and bounds. *)
LEMMA ExecTypes ==
  ASSUME NEW c, NEW s, CallOK(c), MachineOK(c, s), s.status = "running"
  PROVE  Follows(c, s, Exec(c, s))
<1> DEFINE ins == Instr(c, s)
           p == Paid(s, ins)
<1> SUFFICES ASSUME NEW r, r = Exec(c, s) PROVE Follows(c, s, r)
  OBVIOUS
<1>1. s.pc \in Nat /\ Len(c.code) \in Nat
  <2>1. Len(c.code) \in Nat
    BY DEF CallOK
  <2>2. s.pc \in 0..Len(c.code)
    BY DEF MachineOK
  <2> QED BY <2>1, <2>2
<1>2. Outcome(c, s, ins, p)
  BY <1>1, ExecCases
<1>3. s.gas \in Nat /\ c.limit \in Nat /\ s.gas <= c.limit
  BY DEF MachineOK, CallOK
<1> HIDE DEF ins
<1>4. CASE s.pc >= Len(c.code)
  <2>1. ~(s.pc < Len(c.code))
    BY <1>1, <1>4
  <2>2. r = Succeed(s, None)
    BY <1>2, <2>1, Zenon DEF Outcome
  <2>3. /\ r.status = "success" /\ r.pc = s.pc /\ r.stack = s.stack
        /\ r.storage = s.storage /\ r.logs = s.logs /\ r.gas = s.gas
        /\ r.steps = s.steps /\ r.return_value = None
    BY <2>2 DEF Succeed
  <2>4. MachineOK(c, r)
    BY <2>3 DEF MachineOK
  <2> QED BY <1>3, <2>3, <2>4 DEF Follows
<1>5. CASE s.pc < Len(c.code) /\ ~Affordable(c, s)
  <2>1. ~(s.pc >= Len(c.code))
    BY <1>1, <1>5
  <2>2. r = Rollback(c, s, "out_of_gas", 0)
    BY <1>2, <1>5, <2>1, Zenon DEF Outcome
  <2>3. /\ r.status = "out_of_gas" /\ r.pc = s.pc /\ r.stack = s.stack
        /\ r.storage = c.storage /\ r.logs = << >>
    BY <2>2 DEF Rollback
  <2>4. r.gas = 0 /\ r.steps = s.steps /\ r.return_value = None
    BY <2>2 DEF Rollback
  <2>5. MachineOK(c, r)
    BY <1>3, <2>3, <2>4 DEF MachineOK, CallOK
  <2> QED BY <1>3, <2>3, <2>4, <2>5 DEF Follows
<1>6. CASE s.pc < Len(c.code) /\ Affordable(c, s)
  <2>1. /\ ins \in Instruction /\ p.gas \in 0..s.gas /\ p.steps = s.steps + 1
        /\ ins.op \notin {"STOP", "RETURN"} => p.gas < s.gas
        /\ MachineOK(c, p)
    BY <1>6, PaidFor DEF ins
  <2>2. Top(p, 1) = Top(s, 1) /\ Top(p, 2) = Top(s, 2)
    BY DEF Top, Paid
  <2>3. p.pc = s.pc
    BY DEF Paid
  <2> HIDE DEF p
  <2>4. \/ ins.op = "STOP" /\ r = Succeed(p, None)
        \/ ins.op = "RETURN" /\ r = Succeed(p, Top(s, 1))
        \/ /\ ins.op \notin {"STOP", "RETURN"} /\ Faulty(c, p, ins)
           /\ r = Rollback(c, p, "revert", p.gas)
        \/ /\ ins.op \notin {"STOP", "RETURN"} /\ ~Faulty(c, p, ins)
           /\ r = Advance(c, p, ins, Top(s, 1), Top(s, 2))
    <3>1. ~(s.pc >= Len(c.code))
      BY <1>1, <1>6
    <3> QED BY <1>2, <1>6, <3>1, Zenon DEF Outcome
  <2>5. CASE \E v \in Words \cup {None} : r = Succeed(p, v)
    <3>1. PICK v \in Words \cup {None} : r = Succeed(p, v)
      BY <2>5
    <3>2. /\ r.status = "success" /\ r.pc = p.pc /\ r.stack = p.stack
          /\ r.storage = p.storage /\ r.logs = p.logs /\ r.gas = p.gas
          /\ r.steps = p.steps /\ r.return_value = v
      BY <3>1 DEF Succeed
    <3>3. MachineOK(c, r)
      BY <2>1, <3>2 DEF MachineOK
    <3> QED BY <1>3, <2>1, <3>2, <3>3 DEF Follows
  <2>6. CASE r = Rollback(c, p, "revert", p.gas)
    <3>1. /\ r.status = "revert" /\ r.pc = p.pc /\ r.stack = p.stack
          /\ r.storage = c.storage /\ r.logs = << >>
      BY <2>6 DEF Rollback
    <3>2. r.gas = p.gas /\ r.steps = p.steps /\ r.return_value = None
      BY <2>6 DEF Rollback
    <3>3. MachineOK(c, r)
      BY <2>1, <3>1, <3>2 DEF MachineOK, CallOK
    <3> QED BY <1>3, <2>1, <3>1, <3>2, <3>3 DEF Follows
  <2>7. CASE /\ ins.op \notin {"STOP", "RETURN"} /\ ~Faulty(c, p, ins)
             /\ r = Advance(c, p, ins, Top(s, 1), Top(s, 2))
    <3>1. r = Advance(c, p, ins, Top(p, 1), Top(p, 2))
      BY <2>2, <2>7
    <3>2. MachineOK(c, r)
      BY <1>6, <2>1, <2>3, <2>7, <3>1, AdvanceTypes
    <3>3. r.gas = p.gas /\ r.steps = p.steps
      BY <3>1 DEF Advance
    <3> QED BY <1>3, <2>1, <2>7, <3>2, <3>3 DEF Follows
  <2>8. Top(s, 1) \in Words
    <3>1. s.stack \in Seq(Words)
      BY DEF MachineOK
    <3> QED BY <3>1, TopWords
  <2> QED BY <2>4, <2>5, <2>6, <2>7, <2>8
<1> QED BY <1>1, <1>4, <1>5, <1>6

-----------------------------------------------------------------------------
(* Gas.  A call is run under two limits, side by side.                      *)

(* The states of a run satisfy their defining equation: *)
LEMMA RunDef ==
  ASSUME NEW c
  PROVE  Run(c) = [n \in 0..(MAX_STEPS + 1) |->
                     IF n = 0 THEN Start(c.storage, c.limit)
                     ELSE IF Run(c)[n-1].status = "running"
                          THEN Exec(c, Run(c)[n-1]) ELSE Run(c)[n-1]]
<1> DEFINE first == Start(c.storage, c.limit)
           After(s) == IF s.status = "running" THEN Exec(c, s) ELSE s
           S == {m \in Nat : \E g :
                  g = [n \in 0..m |-> IF n = 0 THEN first ELSE After(g[n-1])]}
<1> HIDE DEF first, After
<1>1. 0 \in S
  <2>1. [n \in 0..0 |-> first] =
          [n \in 0..0 |-> IF n = 0 THEN first ELSE After([j \in 0..0 |-> first][n-1])]
    OBVIOUS
  <2> QED BY <2>1
<1>2. ASSUME NEW m \in Nat, m \in S PROVE m + 1 \in S
  <2>1. PICK g : g = [n \in 0..m |-> IF n = 0 THEN first ELSE After(g[n-1])]
    BY <1>2
  <2> DEFINE f == [n \in 0..(m+1) |-> IF n = m + 1 THEN After(g[m]) ELSE g[n]]
  <2>2. \A n \in 0..(m+1) : f[n] = IF n = 0 THEN first ELSE After(f[n-1])
    <3> SUFFICES ASSUME NEW n \in 0..(m+1)
                 PROVE  f[n] = IF n = 0 THEN first ELSE After(f[n-1])
      OBVIOUS
    <3>1. CASE n = m + 1
      BY <3>1
    <3>2. CASE n # m + 1
      <4>1. n \in 0..m /\ f[n] = g[n] /\ (n # 0 => f[n-1] = g[n-1])
        BY <3>2
      <4> HIDE DEF f
      <4> QED BY <2>1, <4>1
    <3> QED BY <3>1, <3>2
  <2>3. f = [n \in 0..(m+1) |-> IF n = 0 THEN first ELSE After(f[n-1])]
    <3> HIDE DEF f
    <3>1. f = [n \in 0..(m+1) |-> f[n]] BY DEF f
    <3> QED BY <2>2, <3>1
  <2> HIDE DEF f
  <2> QED BY <2>3
<1> HIDE DEF S
<1>3. MAX_STEPS + 1 \in S
  BY <1>1, <1>2, SetInduction, LimitsAssumption
<1> QED BY <1>3 DEF S, Run, first, After

(* the first is where it starts, each next one an iteration on. *)
LEMMA RunSteps ==
  ASSUME NEW c
  PROVE  /\ Run(c)[0] = Start(c.storage, c.limit)
         /\ \A n \in 0..MAX_STEPS :
              Run(c)[n+1] = IF Run(c)[n].status = "running"
                            THEN Exec(c, Run(c)[n]) ELSE Run(c)[n]
<1> DEFINE first == Start(c.storage, c.limit)
           After(s) == IF s.status = "running" THEN Exec(c, s) ELSE s
           run == Run(c)
<1>1. run = [n \in 0..(MAX_STEPS + 1) |-> IF n = 0 THEN first ELSE After(run[n-1])]
  BY RunDef
<1> HIDE DEF first, After, run
<1>2. run[0] = first
  BY <1>1, LimitsAssumption
<1>3. ASSUME NEW n \in 0..MAX_STEPS PROVE run[n+1] = After(run[n])
  <2>1. n + 1 \in 0..(MAX_STEPS + 1) /\ n + 1 # 0 /\ (n + 1) - 1 = n
    BY LimitsAssumption
  <2> QED BY <1>1, <2>1
<1> QED BY <1>2, <1>3 DEF first, After, run

(* Every state of a run is a state of the machine. *)
LEMMA RunTypes ==
  ASSUME NEW c, CallOK(c)
  PROVE  \A n \in 0..(MAX_STEPS + 1) : MachineOK(c, Run(c)[n])
<1> DEFINE S == {n \in 0..(MAX_STEPS + 1) : MachineOK(c, Run(c)[n])}
<1>1. MachineOK(c, Start(c.storage, c.limit))
  <2> DEFINE s == Start(c.storage, c.limit)
  <2>1. /\ s.status = "running" /\ s.pc = 0 /\ s.stack = << >> /\ s.storage = c.storage
        /\ s.logs = << >> /\ s.gas = c.limit /\ s.steps = 0 /\ s.return_value = None
    BY DEF Start
  <2> HIDE DEF s
  <2>2. Len(c.code) \in Nat /\ c.limit \in Nat /\ c.storage \in [Words -> Words]
    BY DEF CallOK
  <2>3. MachineOK(c, s)
    BY <2>1, <2>2, LimitsAssumption DEF MachineOK
  <2> QED BY <2>3 DEF s
<1>2. 0 \in S
  BY <1>1, RunSteps, LimitsAssumption
<1>3. ASSUME NEW n \in 0..((MAX_STEPS + 1) - 1), n \in S PROVE n + 1 \in S
  <2>1. n \in 0..MAX_STEPS /\ n + 1 \in 0..(MAX_STEPS + 1)
    BY LimitsAssumption
  <2>2. MachineOK(c, Run(c)[n])
    BY <1>3
  <2>3. CASE Run(c)[n].status = "running"
    <3>1. MachineOK(c, Exec(c, Run(c)[n]))
      BY <2>2, <2>3, ExecTypes DEF Follows
    <3> QED BY <2>1, <2>3, <3>1, RunSteps
  <2>4. CASE Run(c)[n].status # "running"
    BY <2>1, <2>2, <2>4, RunSteps
  <2> QED BY <2>3, <2>4
<1> HIDE DEF S
<1>4. MAX_STEPS + 1 \in Nat
  BY LimitsAssumption
<1>5. \A n \in 0..(MAX_STEPS + 1) : n \in S
  BY <1>2, <1>3, <1>4, UpTo
<1> QED BY <1>5 DEF S

(* Two calls that differ in their limits only. *)
SameButLimit(c, d) ==
  /\ CallOK(c) /\ CallOK(d)
  /\ d.code = c.code /\ d.ctx = c.ctx /\ d.storage = c.storage

(* As long as call c has not run out of gas, call d is where c is, with the *)
(* gas that its own limit leaves, or has run out of gas if none is left.    *)
Abreast(c, d, s, t) ==
  s.status # "out_of_gas" =>
    /\ d.limit >= c.limit - s.gas => t = WithGas(s, d.limit - (c.limit - s.gas))
    /\ d.limit < c.limit - s.gas => t.status = "out_of_gas" /\ t.gas = 0

(* An instruction does the same with more or less gas left. *)
LEMMA GasUnseen ==
  ASSUME NEW c, NEW d, SameButLimit(c, d), NEW p, NEW gas, NEW ins, NEW a, NEW b
  PROVE  LET q == WithGas(p, gas)
         IN /\ \A k : Top(q, k) = Top(p, k)
            /\ \A v : Succeed(q, v) = WithGas(Succeed(p, v), gas)
            /\ \A e, old : Rollback(d, q, e, gas) = WithGas(Rollback(c, p, e, old), gas)
            /\ Advance(d, q, ins, a, b) = WithGas(Advance(c, p, ins, a, b), gas)
            /\ Faulty(d, q, ins) <=> Faulty(c, p, ins)
<1> DEFINE q == WithGas(p, gas)
<1>1. /\ q.stack = p.stack /\ q.storage = p.storage /\ q.logs = p.logs /\ q.pc = p.pc
      /\ q.steps = p.steps /\ q.gas = gas
  BY DEF WithGas
<1>2. d.code = c.code /\ d.ctx = c.ctx /\ d.storage = c.storage
  BY DEF SameButLimit
<1> HIDE DEF q
<1>3. \A k : Top(q, k) = Top(p, k)
  BY <1>1 DEF Top
<1>4. \A v : Succeed(q, v) = WithGas(Succeed(p, v), gas)
  BY <1>1 DEF Succeed, WithGas
<1>5. \A e, old : Rollback(d, q, e, gas) = WithGas(Rollback(c, p, e, old), gas)
  BY <1>1, <1>2 DEF Rollback, WithGas
<1>6. \A x, y : Pushed(d, q, ins, x, y) = Pushed(c, p, ins, x, y)
  BY <1>1, <1>2 DEF Pushed
<1>7. \A x, y : Advance(d, q, ins, x, y) = WithGas(Advance(c, p, ins, x, y), gas)
  <2> TAKE x, y
  <2>1. /\ Pushed(d, q, ins, x, y) = Pushed(c, p, ins, x, y)
        /\ q.stack = p.stack /\ q.storage = p.storage /\ q.logs = p.logs /\ q.pc = p.pc
        /\ q.steps = p.steps /\ q.gas = gas
    BY <1>1, <1>6
  <2> QED BY <2>1 DEF Advance, WithGas
<1>8. \A x, y : Advance(d, q, ins, x, y).stack = Advance(c, p, ins, x, y).stack
  BY <1>1, <1>6 DEF Advance
<1>9. \A x, y : Fault(d, ins, x, y) <=> Fault(c, ins, x, y)
  BY <1>2 DEF Fault
<1>10. Faulty(d, q, ins) <=> Faulty(c, p, ins)
  BY <1>1, <1>3, <1>8, <1>9 DEF Faulty
<1> QED BY <1>3, <1>4, <1>5, <1>7, <1>10 DEF q

(* So one iteration keeps two calls abreast. *)
LEMMA Abreast1 ==
  ASSUME NEW c, NEW d, SameButLimit(c, d),
         NEW s, MachineOK(c, s), s.status = "running",
         NEW t, Abreast(c, d, s, t)
  PROVE  Abreast(c, d, Exec(c, s), IF t.status = "running" THEN Exec(d, t) ELSE t)
<1> DEFINE ins == Instr(c, s)
           p == Paid(s, ins)
           used == c.limit - s.gas
           g == d.limit - used
<1> SUFFICES ASSUME NEW r, r = Exec(c, s), r.status # "out_of_gas",
                    NEW u, u = IF t.status = "running" THEN Exec(d, t) ELSE t
             PROVE  /\ d.limit >= c.limit - r.gas =>
                         u = WithGas(r, d.limit - (c.limit - r.gas))
                    /\ d.limit < c.limit - r.gas =>
                         u.status = "out_of_gas" /\ u.gas = 0
  BY DEF Abreast
<1>1. CallOK(c) /\ CallOK(d) /\ d.code = c.code
  BY DEF SameButLimit
<1>2. /\ s.pc \in Nat /\ Len(c.code) \in Nat /\ s.gas \in Nat /\ c.limit \in Nat
      /\ d.limit \in Nat /\ used \in Nat /\ s.steps \in Nat
  <2>1. Len(c.code) \in Nat /\ c.limit \in Nat /\ d.limit \in Nat
    BY <1>1 DEF CallOK
  <2>2. s.pc \in 0..Len(c.code) /\ s.gas \in 0..c.limit /\ s.steps \in 0..MAX_STEPS
    BY DEF MachineOK
  <2> QED BY <2>1, <2>2, LimitsAssumption
<1>3. r.gas \in Nat /\ r.gas <= s.gas
  <2>1. Follows(c, s, r)
    BY <1>1, ExecTypes
  <2>2. r.gas \in 0..c.limit
    BY <2>1 DEF Follows, MachineOK
  <2> QED BY <1>2, <2>1, <2>2 DEF Follows
<1> HIDE DEF used
<1>4. CASE d.limit < used
  <2>1. t.status = "out_of_gas" /\ t.gas = 0
    BY <1>4 DEF Abreast, used
  <2>2. d.limit < c.limit - r.gas
    BY <1>2, <1>3, <1>4 DEF used
  <2>3. u = t
    BY <2>1
  <2>4. ~(d.limit >= c.limit - r.gas)
    BY <1>2, <1>3, <2>2
  <2> QED BY <2>1, <2>3, <2>4
<1>5. CASE d.limit >= used
  <2>1. t = WithGas(s, g)
    BY <1>5 DEF Abreast, used
  <2>2. g \in Nat /\ c.limit = used + s.gas
    BY <1>2, <1>5 DEF used
  <2>3. /\ t.status = "running" /\ t.pc = s.pc /\ t.steps = s.steps /\ t.gas = g
        /\ t.stack = s.stack /\ t.storage = s.storage /\ t.logs = s.logs
    BY <2>1 DEF WithGas
  <2>4. u = Exec(d, t) /\ Instr(d, t) = ins
    BY <1>1, <2>3 DEF Instr
  <2>5. Outcome(c, s, ins, p)
    BY <1>2, ExecCases
  <2> HIDE DEF ins
  <2>6. Outcome(d, t, ins, Paid(t, ins))
    BY <1>1, <1>2, <2>3, <2>4, ExecCases
  <2>7. CASE s.pc >= Len(c.code)
    <3>1. ~(s.pc < Len(c.code))
      BY <1>2, <2>7
    <3>2. r = Succeed(s, None)
      BY <2>5, <3>1, Zenon DEF Outcome
    <3>3. u = Succeed(t, None)
      <4>1. ~(t.pc < Len(d.code))
        BY <1>1, <2>3, <3>1
      <4> QED BY <2>4, <2>6, <4>1, Zenon DEF Outcome
    <3>4. u = WithGas(r, g)
      <4>1. \A v : Succeed(WithGas(s, g), v) = WithGas(Succeed(s, v), g)
        BY GasUnseen
      <4> QED BY <2>1, <3>2, <3>3, <4>1
    <3>5. r.gas = s.gas
      BY <3>2 DEF Succeed
    <3> QED BY <1>2, <1>5, <3>4, <3>5 DEF used
  <2>8. CASE s.pc < Len(c.code) /\ ~Affordable(c, s)
    <3>1. ~(s.pc >= Len(c.code))
      BY <1>2, <2>8
    <3>2. r = Rollback(c, s, "out_of_gas", 0)
      BY <2>5, <2>8, <3>1, Zenon DEF Outcome
    <3> QED BY <3>2 DEF Rollback
  <2>9. CASE s.pc < Len(c.code) /\ Affordable(c, s)
    <3> DEFINE cost == GAS[ins.op]
               q == Paid(t, ins)
    <3>1. ~(s.pc >= Len(c.code)) /\ ~(t.pc >= Len(d.code)) /\ t.pc < Len(d.code)
      BY <1>1, <1>2, <2>3, <2>9
    <3>2. cost \in Nat /\ p.gas = s.gas - cost /\ p.gas \in 0..s.gas
      BY <1>1, <2>9, PaidFor DEF ins
    <3>3. \/ ins.op = "STOP" /\ r = Succeed(p, None)
          \/ ins.op = "RETURN" /\ r = Succeed(p, Top(s, 1))
          \/ /\ ins.op \notin {"STOP", "RETURN"} /\ Faulty(c, p, ins)
             /\ r = Rollback(c, p, "revert", p.gas)
          \/ /\ ins.op \notin {"STOP", "RETURN"} /\ ~Faulty(c, p, ins)
             /\ r = Advance(c, p, ins, Top(s, 1), Top(s, 2))
      BY <2>5, <2>9, <3>1, Zenon DEF Outcome
    <3> HIDE DEF cost, p
    <3>4. r.gas = p.gas
      BY <3>3 DEF Succeed, Rollback, Advance
    <3>5. c.limit - r.gas = used + cost
      BY <1>2, <2>2, <3>2, <3>4
    <3>6. ~(s.steps >= MAX_STEPS)
      BY <2>9 DEF Affordable
    <3>7. CASE g < cost
      <4>1. ~Affordable(d, t)
        BY <2>3, <2>4, <3>7 DEF Affordable, cost
      <4>2. u = Rollback(d, t, "out_of_gas", 0)
        BY <2>4, <2>6, <3>1, <4>1, Zenon DEF Outcome
      <4>3. d.limit < used + cost /\ ~(d.limit >= used + cost)
        BY <1>2, <2>2, <3>2, <3>7
      <4> QED BY <3>5, <4>2, <4>3 DEF Rollback
    <3>8. CASE g >= cost
      <4>1. Affordable(d, t)
        <5>1. ~(g < cost)
          BY <2>2, <3>2, <3>8
        <5> QED BY <2>3, <2>4, <3>6, <5>1 DEF Affordable, cost
      <4>2. q = WithGas(p, g - cost)
        BY <2>3 DEF Paid, WithGas, p, cost
      <4>3. \/ ins.op = "STOP" /\ u = Succeed(q, None)
            \/ ins.op = "RETURN" /\ u = Succeed(q, Top(t, 1))
            \/ /\ ins.op \notin {"STOP", "RETURN"} /\ Faulty(d, q, ins)
               /\ u = Rollback(d, q, "revert", q.gas)
            \/ /\ ins.op \notin {"STOP", "RETURN"} /\ ~Faulty(d, q, ins)
               /\ u = Advance(d, q, ins, Top(t, 1), Top(t, 2))
        BY <2>4, <2>6, <3>1, <4>1, Zenon DEF Outcome
      <4>4. q.gas = g - cost
        BY <4>2 DEF WithGas
      <4>5. Top(t, 1) = Top(s, 1) /\ Top(t, 2) = Top(s, 2)
        BY <2>1, GasUnseen
      <4> DEFINE a == Top(s, 1)
                 b == Top(s, 2)
                 h == g - cost
      <4> HIDE DEF q, a, b, h
      <4>6. /\ \A v : Succeed(q, v) = WithGas(Succeed(p, v), h)
            /\ \A e, old : Rollback(d, q, e, h) = WithGas(Rollback(c, p, e, old), h)
            /\ Advance(d, q, ins, a, b) = WithGas(Advance(c, p, ins, a, b), h)
            /\ Faulty(d, q, ins) <=> Faulty(c, p, ins)
        BY <4>2, GasUnseen DEF h
      <4>7. u = WithGas(r, h)
        BY <3>3, <4>3, <4>4, <4>5, <4>6 DEF a, b, h
      <4>8. /\ ~(d.limit < used + cost) /\ d.limit - (used + cost) = h
        BY <1>2, <2>2, <3>2, <3>8 DEF h
      <4> QED BY <3>5, <4>7, <4>8
    <3> QED BY <2>2, <3>2, <3>7, <3>8
  <2> QED BY <1>2, <2>7, <2>8, <2>9
<1> QED BY <1>2, <1>4, <1>5

(* Hence whole runs keep abreast. *)
LEMMA RunsAbreast ==
  ASSUME NEW c, NEW d, SameButLimit(c, d)
  PROVE  \A n \in 0..(MAX_STEPS + 1) : Abreast(c, d, Run(c)[n], Run(d)[n])
<1> DEFINE S == {n \in 0..(MAX_STEPS + 1) : Abreast(c, d, Run(c)[n], Run(d)[n])}
<1>1. CallOK(c) /\ CallOK(d) /\ MAX_STEPS + 1 \in Nat /\ 0 \in 0..(MAX_STEPS + 1)
  BY LimitsAssumption DEF SameButLimit
<1>2. 0 \in S
  <2> DEFINE s == Start(c.storage, c.limit)
             t == Start(d.storage, d.limit)
  <2>1. c.limit \in Nat /\ d.limit \in Nat
    BY <1>1 DEF CallOK
  <2>2. s.gas = c.limit /\ t = WithGas(s, d.limit)
    BY DEF Start, WithGas, SameButLimit
  <2> HIDE DEF s, t
  <2>3. Abreast(c, d, s, t)
    <3>1. c.limit - s.gas = 0 /\ d.limit - 0 = d.limit /\ ~(d.limit < 0)
      BY <2>1, <2>2
    <3> QED BY <2>2, <3>1 DEF Abreast
  <2>4. Run(c)[0] = s /\ Run(d)[0] = t
    BY RunSteps DEF s, t
  <2> QED BY <1>1, <2>3, <2>4
<1>3. ASSUME NEW n \in 0..((MAX_STEPS + 1) - 1), n \in S PROVE n + 1 \in S
  <2> DEFINE s == Run(c)[n]
             t == Run(d)[n]
  <2>1. n \in 0..MAX_STEPS /\ n + 1 \in 0..(MAX_STEPS + 1) /\ n \in 0..(MAX_STEPS + 1)
    BY LimitsAssumption
  <2>2. Abreast(c, d, s, t)
    BY <1>3
  <2>3. MachineOK(c, s)
    BY <1>1, <2>1, RunTypes
  <2>4. /\ Run(c)[n+1] = IF s.status = "running" THEN Exec(c, s) ELSE s
        /\ Run(d)[n+1] = IF t.status = "running" THEN Exec(d, t) ELSE t
    BY <2>1, RunSteps
  <2> HIDE DEF s, t
  <2>5. CASE s.status = "running"
    BY <2>1, <2>2, <2>3, <2>4, <2>5, Abreast1
  <2>6. CASE s.status # "running"
    <3>1. s.status # "out_of_gas" => t.status # "running"
      <4>1. c.limit \in Nat /\ d.limit \in Nat /\ s.gas \in 0..c.limit
        BY <1>1, <2>3 DEF CallOK, MachineOK
      <4>2. d.limit >= c.limit - s.gas \/ d.limit < c.limit - s.gas
        BY <4>1
      <4> QED BY <2>2, <2>6, <4>2 DEF Abreast, WithGas
    <3>2. CASE s.status = "out_of_gas"
      BY <2>1, <2>4, <2>6, <3>2 DEF Abreast
    <3>3. CASE s.status # "out_of_gas"
      BY <2>1, <2>2, <2>4, <2>6, <3>1, <3>3
    <3> QED BY <3>2, <3>3
  <2> QED BY <2>5, <2>6
<1> HIDE DEF S
<1>4. \A n \in 0..(MAX_STEPS + 1) : n \in S
  BY <1>1, <1>2, <1>3, UpTo
<1> QED BY <1>4 DEF S

(* A run that has ended stays as it is. *)
LEMMA EndedRun ==
  ASSUME NEW c, NEW m \in 0..(MAX_STEPS + 1), Run(c)[m].status # "running"
  PROVE  Run(c)[MAX_STEPS + 1] = Run(c)[m]
<1> DEFINE S == {k \in 0..(MAX_STEPS + 1 - m) : Run(c)[m+k] = Run(c)[m]}
<1>1. MAX_STEPS \in Nat /\ m \in Nat /\ MAX_STEPS + 1 - m \in Nat /\ m + 0 = m
  BY LimitsAssumption
<1>2. 0 \in S
  BY <1>1
<1>3. ASSUME NEW k \in 0..((MAX_STEPS + 1 - m) - 1), k \in S PROVE k + 1 \in S
  <2>1. /\ m + k \in 0..MAX_STEPS /\ m + (k + 1) = (m + k) + 1
        /\ k + 1 \in 0..(MAX_STEPS + 1 - m)
    BY <1>1
  <2>2. Run(c)[m+k] = Run(c)[m]
    BY <1>3
  <2>3. Run(c)[(m+k)+1] = Run(c)[m+k]
    BY <2>1, <2>2, RunSteps
  <2> QED BY <2>1, <2>2, <2>3
<1> HIDE DEF S
<1>4. \A k \in 0..(MAX_STEPS + 1 - m) : k \in S
  BY <1>1, <1>2, <1>3, UpTo
<1>5. /\ MAX_STEPS + 1 - m \in 0..(MAX_STEPS + 1 - m)
      /\ m + (MAX_STEPS + 1 - m) = MAX_STEPS + 1
  BY <1>1
<1> QED BY <1>4, <1>5 DEF S

-----------------------------------------------------------------------------
(* The machine that the host drives.                                        *)

(* The state is one of those that the run of the last call goes through;    *)
(* while it goes on, after as many iterations as it has counted.            *)
OnItsRun ==
  \E n \in 0..(MAX_STEPS + 1) :
    machine = Run(call)[n] /\ (Running => n = machine.steps)

IInv == TypeOK /\ OnItsRun

(* The type invariant, said of the call and of the machine. *)
LEMMA TypeParts ==
  TypeOK <=> /\ stored \in [Words -> Words]
             /\ call.code \in Programs /\ call.limit \in GasLimits
             /\ call.ctx \in Contexts /\ call.storage \in [Words -> Words]
             /\ MachineOK(call, machine)
BY DEF TypeOK, MachineOK

(* The arguments of the last call are well formed. *)
LEMMA Calls ==
  ASSUME TypeOK
  PROVE  CallOK(call)
BY LimitsAssumption, ProgramsAssumption, TypeParts DEF CallOK

(* A call begins at the start of its run. *)
LEMMA Begins ==
  ASSUME NEW code \in Programs, NEW ctx \in Contexts, NEW limit \in GasLimits,
         NEW storage \in [Words -> Words], NEW c,
         c = [code |-> code, ctx |-> ctx, limit |-> limit, storage |-> storage],
         NEW s, s = Start(storage, limit)
  PROVE  /\ MachineOK(c, s) /\ CallOK(c)
         /\ s = Run(c)[0] /\ s.status = "running" /\ s.steps = 0
<1>1. CallOK(c)
  BY LimitsAssumption, ProgramsAssumption DEF CallOK
<1>2. s = Run(c)[0]
  BY RunSteps
<1>3. MachineOK(c, s)
  BY <1>1, <1>2, RunTypes, LimitsAssumption
<1> QED BY <1>1, <1>2, <1>3 DEF Start

(* The invariant holds at first, *)
LEMMA InitIInv == Init => IInv
<1> SUFFICES ASSUME Init PROVE IInv
  OBVIOUS
<1>1. PICK code \in Programs : \E ctx \in Contexts, limit \in GasLimits :
        call = [code |-> code, ctx |-> ctx, limit |-> limit, storage |-> stored]
  BY DEF Init
<1>2. PICK ctx \in Contexts, limit \in GasLimits :
        call = [code |-> code, ctx |-> ctx, limit |-> limit, storage |-> stored]
  BY <1>1
<1>3. stored \in [Words -> Words]
  BY WordsOfNumbers DEF Init
<1>4. machine = Start(stored, limit)
  BY <1>2 DEF Init
<1>5. /\ MachineOK(call, machine) /\ machine = Run(call)[0]
      /\ machine.steps = 0
  BY <1>2, <1>3, <1>4, Begins
<1>6. TypeOK
  BY <1>2, <1>3, <1>5, TypeParts
<1>7. OnItsRun
  BY <1>5, LimitsAssumption DEF OnItsRun
<1> QED BY <1>6, <1>7 DEF IInv

(* and every step keeps it. *)
LEMMA NextIInv == IInv /\ [Next]_vars => IInv'
<1> SUFFICES ASSUME IInv, [Next]_vars PROVE IInv'
  OBVIOUS
<1>1. CASE Step
  <2>1. /\ Running /\ call' = call /\ machine' = Exec(call, machine)
        /\ stored' = IF machine'.status = "running" THEN stored ELSE machine'.storage
    BY <1>1 DEF Step
  <2>2. CallOK(call) /\ MachineOK(call, machine) /\ stored \in [Words -> Words]
    BY Calls, TypeParts DEF IInv
  <2>3. Follows(call, machine, machine')
    BY <2>1, <2>2, ExecTypes DEF Running
  <2>4. TypeOK'
    <3>1. machine'.storage \in [Words -> Words] /\ MachineOK(call', machine')
      BY <2>1, <2>3 DEF Follows, MachineOK
    <3>2. stored' \in [Words -> Words]
      BY <2>1, <2>2, <3>1
    <3>3. /\ call'.code \in Programs /\ call'.limit \in GasLimits
          /\ call'.ctx \in Contexts /\ call'.storage \in [Words -> Words]
      BY <2>1 DEF IInv, TypeOK
    <3> QED BY <3>1, <3>2, <3>3 DEF TypeOK, MachineOK
  <2>5. OnItsRun'
    <3>1. PICK n \in 0..(MAX_STEPS + 1) : machine = Run(call)[n] /\ n = machine.steps
      BY <2>1 DEF IInv, OnItsRun
    <3>2. n \in 0..MAX_STEPS /\ n + 1 \in 0..(MAX_STEPS + 1)
      <4>1. n \in 0..MAX_STEPS
        BY <2>2, <3>1 DEF MachineOK
      <4> QED BY <4>1, LimitsAssumption
    <3>3. machine' = Run(call)[n+1]
      BY <2>1, <3>1, <3>2, RunSteps DEF Running
    <3>4. machine'.status = "running" => machine'.steps = n + 1
      BY <2>3, <3>1 DEF Follows
    <3>5. machine' = Run(call')[n+1]
      BY <2>1, <3>3
    <3> QED BY <3>2, <3>4, <3>5 DEF OnItsRun, Running
  <2> QED BY <2>4, <2>5 DEF IInv
<1>2. ASSUME NEW code \in Programs, NEW ctx \in Contexts, NEW limit \in GasLimits,
             Call(code, ctx, limit)
      PROVE  IInv'
  <2>1. /\ call' = [code |-> code, ctx |-> ctx, limit |-> limit, storage |-> stored]
        /\ machine' = Start(stored, limit) /\ stored' = stored
    BY <1>2 DEF Call
  <2>2. stored \in [Words -> Words]
    BY DEF IInv, TypeOK
  <2>3. /\ MachineOK(call', machine') /\ machine' = Run(call')[0]
        /\ machine'.steps = 0
    BY <2>1, <2>2, Begins
  <2>4. /\ call'.code \in Programs /\ call'.limit \in GasLimits
        /\ call'.ctx \in Contexts /\ call'.storage \in [Words -> Words]
    BY <2>1, <2>2
  <2>5. TypeOK'
    BY <2>1, <2>2, <2>3, <2>4 DEF TypeOK, MachineOK
  <2>6. OnItsRun'
    BY <2>3, LimitsAssumption DEF OnItsRun
  <2> QED BY <2>5, <2>6 DEF IInv
<1>3. CASE UNCHANGED vars
  BY <1>3 DEF vars, IInv, TypeOK, OnItsRun, Running
<1> QED BY <1>1, <1>2, <1>3 DEF Next

(* The inductive invariant holds in every reachable state. *)
THEOREM Inductive == Spec => []IInv
<1> QED BY InitIInv, NextIInv, PTL DEF Spec

(* Words, stack, gas and steps keep within their bounds, for every program. *)
THEOREM TypeCorrect == Spec => []TypeOK
<1>1. IInv => TypeOK
  BY DEF IInv
<1> QED BY Inductive, <1>1, PTL

(* Gas decides only whether a call comes to its end. *)
THEOREM LimitCutsOnly == Spec => []GasOnlyCutsShort
<1>1. IInv => GasOnlyCutsShort
  <2> SUFFICES ASSUME IInv, machine.status \in {"success", "revert"},
                      NEW limit \in GasLimits \cup ({gas_used} \ {0})
               PROVE  LET other == Rerun(limit)
                      IN IF limit >= gas_used
                         THEN other = WithGas(machine, limit - gas_used)
                         ELSE other.status = "out_of_gas" /\ other.gas = 0
    BY DEF GasOnlyCutsShort
  <2>1. CallOK(call) /\ MachineOK(call, machine)
    BY Calls, TypeParts DEF IInv
  <2>2. gas_used \in Nat /\ limit \in Nat
    <3>1. machine.gas \in 0..call.limit /\ call.limit \in Nat
      BY <2>1 DEF MachineOK, CallOK
    <3>2. gas_used \in Nat
      BY <3>1 DEF gas_used
    <3> QED BY <3>2, LimitsAssumption
  <2>3. PICK m \in 0..(MAX_STEPS + 1) : machine = Run(call)[m]
    BY DEF IInv, OnItsRun
  <2>4. SameButLimit(call, Under(limit)) /\ Under(limit).limit = limit
    BY <2>1, <2>2 DEF SameButLimit, Under, CallOK
  <2>5. Abreast(call, Under(limit), machine, Run(Under(limit))[m])
    BY <2>3, <2>4, RunsAbreast
  <2> DEFINE other == Run(Under(limit))[m]
  <2>6. IF limit >= gas_used
        THEN other = WithGas(machine, limit - gas_used)
        ELSE other.status = "out_of_gas" /\ other.gas = 0
    <3>1. CASE limit >= gas_used
      BY <2>4, <2>5, <3>1 DEF Abreast, gas_used
    <3>2. CASE ~(limit >= gas_used)
      <4>1. limit < gas_used
        BY <2>2, <3>2
      <4> QED BY <2>4, <2>5, <3>2, <4>1 DEF Abreast, gas_used
    <3> QED BY <3>1, <3>2
  <2>7. other.status # "running"
    BY <2>6 DEF WithGas
  <2>8. Rerun(limit) = other
    BY <2>7, EndedRun DEF Rerun
  <2> HIDE DEF other
  <2> QED BY <2>6, <2>8
<1> QED BY Inductive, <1>1, PTL


-----------------------------------------------------------------------------
(* Failures and the backstop.                                               *)

(* The exits of the loop: a failure gives back the storage of the call. *)
LEMMA Exits ==
  ASSUME NEW c, NEW s,
         Exec(c, s).status # "running", Exec(c, s).status # "success"
  PROVE  Exec(c, s).storage = c.storage /\ Exec(c, s).logs = <<>>
BY DEF Exec, Perform, Rollback, Succeed, Advance

(* A contract's storage changes only when a call succeeds. *)
THEOREM FailureChangesNothing == Spec => []AllOrNothing
<1>1. Init => AllOrNothing
  BY DEF Init, AllOrNothing, Running, Start
<1>2. AllOrNothing /\ [Next]_vars => AllOrNothing'
  <2> SUFFICES ASSUME AllOrNothing, [Next]_vars PROVE AllOrNothing'
    OBVIOUS
  <2>1. CASE Step
    <3>1. /\ stored = call.storage /\ call' = call
          /\ machine' = Exec(call, machine)
          /\ stored' = IF machine'.status = "running" THEN stored ELSE machine'.storage
      BY <2>1 DEF Step, Running, AllOrNothing
    <3>2. CASE machine'.status = "running"
      BY <3>1, <3>2 DEF AllOrNothing, Running
    <3>3. CASE machine'.status # "running" /\ machine'.status # "success"
      BY <3>1, <3>3, Exits DEF AllOrNothing, Running
    <3>4. CASE machine'.status = "success"
      BY <3>4 DEF AllOrNothing
    <3> QED BY <3>2, <3>3, <3>4
  <2>2. ASSUME NEW code \in Programs, NEW ctx \in Contexts, NEW limit \in GasLimits,
               Call(code, ctx, limit)
        PROVE  AllOrNothing'
    BY <2>2 DEF Call, Start, AllOrNothing, Running
  <2>3. CASE UNCHANGED vars
    BY <2>3 DEF vars, AllOrNothing, Running
  <2> QED BY <2>1, <2>2, <2>3 DEF Next
<1> QED BY <1>1, <1>2, PTL DEF Spec

(* No run within a limit of MAX_STEPS is stopped by the backstop: every     *)
(* instruction that a run goes on after cost something.                     *)
THEOREM StepsArePaid == Spec => []GasBitesFirst
<1>1. Init => GasBitesFirst
  <2> SUFFICES ASSUME Init PROVE GasBitesFirst
    OBVIOUS
  <2>1. PICK limit \in GasLimits : call.limit = limit /\ machine = Start(stored, limit)
    BY DEF Init
  <2> QED BY <2>1, LimitsAssumption DEF GasBitesFirst, Start, gas_used
<1>2. IInv /\ GasBitesFirst /\ [Next]_vars => GasBitesFirst'
  <2> SUFFICES ASSUME IInv, GasBitesFirst, [Next]_vars PROVE GasBitesFirst'
    OBVIOUS
  <2>1. CASE Step
    <3>1. Running /\ call' = call /\ machine' = Exec(call, machine)
      BY <2>1 DEF Step
    <3>2. CallOK(call) /\ MachineOK(call, machine)
      BY Calls, TypeParts DEF IInv
    <3>3. Follows(call, machine, machine')
      BY <3>1, <3>2, ExecTypes DEF Running
    <3>4. /\ machine.gas \in Int /\ machine'.gas \in Int
          /\ machine.steps \in Int /\ call.limit \in Int
      BY <3>2, <3>3 DEF Follows, MachineOK, CallOK
    <3>5. machine.steps <= call.limit - machine.gas
      BY <3>1 DEF GasBitesFirst, gas_used
    <3>6. CASE machine'.status = "running"
      <4>1. machine'.gas < machine.gas /\ machine'.steps = machine.steps + 1
        BY <3>3, <3>6 DEF Follows
      <4>2. machine'.steps <= call.limit - machine'.gas
        BY <3>4, <3>5, <4>1
      <4> QED BY <3>1, <4>2 DEF GasBitesFirst, gas_used
    <3>7. CASE machine'.status # "running"
      BY <3>7 DEF GasBitesFirst, Running
    <3> QED BY <3>6, <3>7
  <2>2. ASSUME NEW code \in Programs, NEW ctx \in Contexts, NEW limit \in GasLimits,
               Call(code, ctx, limit)
        PROVE  GasBitesFirst'
    <3>1. call'.limit = limit /\ machine'.gas = limit /\ machine'.steps = 0
      BY <2>2 DEF Call, Start
    <3> QED BY <3>1, LimitsAssumption DEF GasBitesFirst, gas_used
  <2>3. CASE UNCHANGED vars
    BY <2>3 DEF vars, GasBitesFirst, Running, gas_used
  <2> QED BY <2>1, <2>2, <2>3 DEF Next
<1> QED BY Inductive, <1>1, <1>2, PTL DEF Spec

-----------------------------------------------------------------------------
(* The templates: a test of quiet instructions, one word, and the gate.     *)

(* The sequences that the templates' stacks are cut and put together to. *)
LEMMA Tuples ==
  ASSUME NEW x \in Words, NEW y \in Words
  PROVE  /\ Len(<< >>) = 0 /\ Len(<<x>>) = 1 /\ Len(<<x, y>>) = 2
         /\ SubSeq(<< >>, 1, 0) = << >> /\ SubSeq(<<x>>, 1, 1) = <<x>>
         /\ SubSeq(<<x>>, 1, 0) = << >> /\ SubSeq(<<x, y>>, 1, 1) = <<x>>
         /\ SubSeq(<<x, y>>, 1, 0) = << >>
         /\ << >> \o << >> = << >> /\ << >> \o <<x>> = <<x>> /\ <<x>> \o <<y>> = <<x, y>>
<1>1. /\ Len(<< >>) = 0 /\ Len(<<x>>) = 1 /\ Len(<<x, y>>) = 2
  OBVIOUS
<1>2. SubSeq(<< >>, 1, 0) = << >>
  OBVIOUS
<1>3. SubSeq(<<x>>, 1, 1) = <<x>>
  <2> DEFINE s == SubSeq(<<x>>, 1, 1)
             t == <<x>>
  <2>1. s \in Seq(Words) /\ Len(s) = 1 /\ s[1] = x
    OBVIOUS
  <2>2. t \in Seq(Words) /\ Len(t) = 1 /\ t[1] = x
    OBVIOUS
  <2> HIDE DEF s, t
  <2>3. \A i \in 1..Len(s) : s[i] = t[i]
    BY <2>1, <2>2
  <2>4. s = t
    BY <2>1, <2>2, <2>3, SeqEqual
  <2> QED BY <2>4 DEF s, t
<1>4. SubSeq(<<x>>, 1, 0) = << >>
  OBVIOUS
<1>5. SubSeq(<<x, y>>, 1, 1) = <<x>>
  <2> DEFINE s == SubSeq(<<x, y>>, 1, 1)
             t == <<x>>
  <2>1. s \in Seq(Words) /\ Len(s) = 1 /\ s[1] = x
    OBVIOUS
  <2>2. t \in Seq(Words) /\ Len(t) = 1 /\ t[1] = x
    OBVIOUS
  <2> HIDE DEF s, t
  <2>3. \A i \in 1..Len(s) : s[i] = t[i]
    BY <2>1, <2>2
  <2>4. s = t
    BY <2>1, <2>2, <2>3, SeqEqual
  <2> QED BY <2>4 DEF s, t
<1>6. SubSeq(<<x, y>>, 1, 0) = << >>
  OBVIOUS
<1>7. << >> \o << >> = << >>
  OBVIOUS
<1>8. << >> \o <<x>> = <<x>>
  OBVIOUS
<1>9. <<x>> \o <<y>> = <<x, y>>
  <2> DEFINE s == <<x>> \o <<y>>
             t == <<x, y>>
  <2>1. s \in Seq(Words) /\ Len(s) = 2 /\ s[1] = x /\ s[2] = y
    OBVIOUS
  <2>2. t \in Seq(Words) /\ Len(t) = 2 /\ t[1] = x /\ t[2] = y
    OBVIOUS
  <2> HIDE DEF s, t
  <2>3. \A i \in 1..Len(s) : s[i] = t[i]
    BY <2>1, <2>2
  <2>4. s = t
    BY <2>1, <2>2, <2>3, SeqEqual
  <2> QED BY <2>4 DEF s, t
<1> QED BY <1>1, <1>2, <1>3, <1>4, <1>5, <1>6, <1>7, <1>8, <1>9

(* The instructions that the tests of the templates are made of, and the    *)
(* stack each leaves, in call c, of the stack it finds.                     *)
Quiet == {"PUSH", "TIMESTAMP", "VALUE", "LT", "EQ", "ISZERO", "SLOAD"}

Operand(stack, k) == Top([stack |-> stack], k)

Effect(c, ins, stack) ==
  SubSeq(stack, 1, Len(stack) - Pops(ins.op))
    \o Pushed(c, c, ins, Operand(stack, 1), Operand(stack, 2))

(* An iteration of the loop that neither jumps nor ends the run. *)
Onward(c, s, stack, r) ==
  \/ r.status = "out_of_gas"
  \/ /\ r.status = "running" /\ r.pc = s.pc + 1
     /\ r.stack = stack /\ r.storage = c.storage

(* What there is to know of an instruction of a call that has not written. *)
LEMMA PureStep ==
  ASSUME NEW c, NEW s, CallOK(c), MachineOK(c, s), s.storage = c.storage,
         s.pc < Len(c.code), NEW ins, ins = Instr(c, s),
         ins.op \in Quiet \cup {"ASSERT"}, Pops(ins.op) <= Len(s.stack),
         NEW next \in Seq(Words), next = Effect(c, ins, s.stack), Len(next) <= MAX_STACK,
         NEW r, r = Exec(c, s)
  PROVE  \/ r.status = "out_of_gas"
         \/ r.status = "revert" /\ ins.op = "ASSERT" /\ Top(s, 1) = 0
         \/ (ins.op = "ASSERT" => Top(s, 1) # 0) /\ Onward(c, s, next, r)
<1> DEFINE p == Paid(s, ins)
           t == Advance(c, p, ins, Top(s, 1), Top(s, 2))
<1>1. s.pc \in Nat /\ Len(c.code) \in Nat /\ s.stack \in Seq(Words)
  <2>1. Len(c.code) \in Nat
    BY DEF CallOK
  <2>2. s.pc \in 0..Len(c.code) /\ s.stack \in Seq(Words)
    BY DEF MachineOK
  <2> QED BY <2>1, <2>2
<1>2. Outcome(c, s, ins, p)
  BY <1>1, ExecCases
<1>3. ins.op \notin {"STOP", "RETURN", "JUMP", "JUMPI", "DIV", "MOD", "SSTORE"}
  BY DEF Quiet
<1>4. p.stack = s.stack /\ p.storage = c.storage /\ p.pc = s.pc
  BY DEF Paid
<1>5. Top(p, 1) = Top(s, 1) /\ Top(p, 2) = Top(s, 2)
  BY <1>4 DEF Top
<1>6. ~Jumps(ins, Top(s, 2))
  BY <1>3 DEF Jumps
<1>7. t.stack = next
  <2>1. \A k : Operand(s.stack, k) = Top(s, k)
    BY DEF Operand, Top
  <2>2. Pushed(c, p, ins, Top(s, 1), Top(s, 2)) = Pushed(c, c, ins, Top(s, 1), Top(s, 2))
    BY <1>4 DEF Pushed
  <2>3. t.stack = SubSeq(s.stack, 1, Len(s.stack) - Pops(ins.op))
                    \o Pushed(c, c, ins, Top(s, 1), Top(s, 2))
    BY <1>4, <2>2 DEF Advance
  <2>4. next = SubSeq(s.stack, 1, Len(s.stack) - Pops(ins.op))
                 \o Pushed(c, c, ins, Top(s, 1), Top(s, 2))
    BY <2>1, Zenon DEF Effect
  <2> HIDE DEF t
  <2> QED BY <2>3, <2>4
<1>8. t.status = "running" /\ t.pc = s.pc + 1 /\ t.storage = c.storage
  BY <1>3, <1>4, <1>6 DEF Advance
<1>9. Faulty(c, p, ins) <=> ins.op = "ASSERT" /\ Top(s, 1) = 0
  <2>1. ~Overflow(t.stack)
    <3>1. Len(next) \in Int /\ MAX_STACK \in Int
      BY LimitsAssumption
    <3>2. ~Overflow(next)
      BY <3>1 DEF Overflow
    <3> HIDE DEF t
    <3> QED BY <1>7, <3>2
  <2>2. Fault(c, ins, Top(s, 1), Top(s, 2)) <=> ins.op = "ASSERT" /\ Top(s, 1) = 0
    BY <1>3, <1>6 DEF Fault
  <2>3. ~(Len(s.stack) < Pops(ins.op))
    <3>1. Pops(ins.op) \in Int
      BY DEF Pops
    <3> QED BY <1>1, <3>1
  <2>4. Advance(c, p, ins, Top(p, 1), Top(p, 2)) = t
    BY <1>5
  <2> HIDE DEF t, p
  <2> QED BY <1>4, <1>5, <2>1, <2>2, <2>3, <2>4, Zenon DEF Faulty
<1> HIDE DEF p, t
<1>10. CASE ~Affordable(c, s)
  <2>1. ~(s.pc >= Len(c.code))
    BY <1>1
  <2>2. r = Rollback(c, s, "out_of_gas", 0)
    BY <1>2, <1>10, <2>1, Zenon DEF Outcome
  <2> QED BY <2>2 DEF Rollback
<1>11. CASE Affordable(c, s)
  <2>1. ~(s.pc >= Len(c.code))
    BY <1>1
  <2>2. \/ Faulty(c, p, ins) /\ r = Rollback(c, p, "revert", p.gas)
        \/ ~Faulty(c, p, ins) /\ r = t
    BY <1>2, <1>3, <1>11, <2>1, Zenon DEF Outcome, t
  <2> QED BY <1>7, <1>8, <1>9, <2>2 DEF Rollback, Onward
<1> QED BY <1>10, <1>11

(* RETURN ends the run with the word on top of the stack. *)
LEMMA ReturnStep ==
  ASSUME NEW c, NEW s, CallOK(c), MachineOK(c, s),
         s.pc < Len(c.code), Instr(c, s).op = "RETURN",
         NEW r, r = Exec(c, s)
  PROVE  \/ r.status = "out_of_gas"
         \/ r.status = "success" /\ r.return_value = Top(s, 1)
<1> DEFINE ins == Instr(c, s)
           p == Paid(s, ins)
<1>1. s.pc \in Nat /\ Len(c.code) \in Nat
  <2>1. Len(c.code) \in Nat
    BY DEF CallOK
  <2>2. s.pc \in 0..Len(c.code)
    BY DEF MachineOK
  <2> QED BY <2>1, <2>2
<1>2. Outcome(c, s, ins, p)
  BY <1>1, ExecCases
<1>3. ~(s.pc >= Len(c.code)) /\ ins.op # "STOP"
  BY <1>1
<1>4. ins.op = "RETURN"
  OBVIOUS
<1> HIDE DEF p, ins
<1>5. \/ r = Rollback(c, s, "out_of_gas", 0)
      \/ r = Succeed(p, Top(s, 1))
  BY <1>2, <1>3, <1>4, Zenon DEF Outcome
<1> QED BY <1>5 DEF Rollback, Succeed

(* What the instructions of the tests do to the stacks they find there. *)
LEMMA Effects ==
  ASSUME NEW c, NEW x \in Words, NEW y \in Words, CallOK(c)
  PROVE  /\ Effect(c, Push(y), << >>) = <<y>>
         /\ Effect(c, Push(y), <<x>>) = <<x, y>>
         /\ Effect(c, Op("TIMESTAMP"), <<x>>) = <<x, c.ctx.timestamp % WORD>>
         /\ Effect(c, Op("VALUE"), <<x>>) = <<x, c.ctx.value % WORD>>
         /\ Effect(c, Op("SLOAD"), <<x>>) = <<c.storage[x]>>
         /\ Effect(c, Op("SLOAD"), <<x, y>>) = <<x, c.storage[y]>>
         /\ Effect(c, Op("ASSERT"), <<x>>) = << >>
<1>1. /\ Operand(<<x>>, 1) = x
      /\ Operand(<<x, y>>, 1) = y /\ Operand(<<x, y>>, 2) = x
  BY DEF Operand, Top
<1>2. /\ Pops("PUSH") = 0 /\ Pops("TIMESTAMP") = 0 /\ Pops("VALUE") = 0
      /\ Pops("SLOAD") = 1 /\ Pops("ASSERT") = 1
  BY DEF Pops, Binary
<1>3. Push(y) = [op |-> "PUSH", arg |-> y] /\ Push(y).op = "PUSH" /\ Push(y).arg = y
  BY WordsOfNumbers DEF Push
<1>4. \A op : Op(op).op = op
  BY DEF Op
<1>5. /\ Len(<< >>) = 0 /\ Len(<<x>>) = 1 /\ Len(<<x, y>>) = 2
  OBVIOUS
<1>6. \A z \in Words : /\ << >> \o <<z>> = <<z>> /\ <<x>> \o <<z>> = <<x, z>>
                       /\ SubSeq(<<x>>, 1, 1) = <<x>>
  BY Tuples
<1>7. /\ SubSeq(<< >>, 1, 0) = << >> /\ SubSeq(<<x>>, 1, 0) = << >>
      /\ SubSeq(<<x, y>>, 1, 1) = <<x>> /\ SubSeq(<<x, y>>, 1, 0) = << >>
      /\ << >> \o << >> = << >>
  BY Tuples
<1>8. /\ c.ctx.timestamp % WORD \in Words /\ c.ctx.value % WORD \in Words
      /\ c.storage[x] \in Words /\ c.storage[y] \in Words
      /\ 0 \in Words /\ 1 \in Words
  BY WordsOfNumbers, ContextsAssumption DEF CallOK
<1>9. \A a, b : /\ Pushed(c, c, Push(y), a, b) = <<y>>
                /\ Pushed(c, c, Op("TIMESTAMP"), a, b) = <<c.ctx.timestamp % WORD>>
                /\ Pushed(c, c, Op("VALUE"), a, b) = <<c.ctx.value % WORD>>
                /\ Pushed(c, c, Op("SLOAD"), a, b) = <<c.storage[a]>>
                /\ Pushed(c, c, Op("ASSERT"), a, b) = << >>
  BY <1>3, <1>4 DEF Pushed, Binary
<1>11. Effect(c, Push(y), << >>) = <<y>>
  <2>1. 0 = Len(<< >>) - Pops(Push(y).op)
    BY <1>2, <1>3, <1>5
  <2>2. Pushed(c, c, Push(y), Operand(<< >>, 1), Operand(<< >>, 2)) = <<y>>
    BY <1>1, <1>9
  <2>3. Effect(c, Push(y), << >>) =
          SubSeq(<< >>, 1, Len(<< >>) - Pops(Push(y).op))
            \o Pushed(c, c, Push(y), Operand(<< >>, 1), Operand(<< >>, 2))
    BY Zenon DEF Effect
  <2>4. Effect(c, Push(y), << >>) = SubSeq(<< >>, 1, 0) \o <<y>>
    BY <2>1, <2>2, <2>3
  <2> QED BY <1>6, <1>7, <1>8, <2>4, Zenon
<1>12. Effect(c, Push(y), <<x>>) = <<x, y>>
  <2>1. 1 = Len(<<x>>) - Pops(Push(y).op)
    BY <1>2, <1>3, <1>5
  <2>2. Pushed(c, c, Push(y), Operand(<<x>>, 1), Operand(<<x>>, 2)) = <<y>>
    BY <1>1, <1>9
  <2>3. Effect(c, Push(y), <<x>>) =
          SubSeq(<<x>>, 1, Len(<<x>>) - Pops(Push(y).op))
            \o Pushed(c, c, Push(y), Operand(<<x>>, 1), Operand(<<x>>, 2))
    BY Zenon DEF Effect
  <2>4. Effect(c, Push(y), <<x>>) = SubSeq(<<x>>, 1, 1) \o <<y>>
    BY <2>1, <2>2, <2>3
  <2> QED BY <1>6, <1>7, <1>8, <2>4, Zenon
<1>13. Effect(c, Op("TIMESTAMP"), <<x>>) = <<x, c.ctx.timestamp % WORD>>
  <2>1. 1 = Len(<<x>>) - Pops(Op("TIMESTAMP").op)
    BY <1>2, <1>4, <1>5
  <2>2. Pushed(c, c, Op("TIMESTAMP"), Operand(<<x>>, 1), Operand(<<x>>, 2))
          = <<c.ctx.timestamp % WORD>>
    BY <1>1, <1>9
  <2>3. Effect(c, Op("TIMESTAMP"), <<x>>) =
          SubSeq(<<x>>, 1, Len(<<x>>) - Pops(Op("TIMESTAMP").op))
            \o Pushed(c, c, Op("TIMESTAMP"), Operand(<<x>>, 1), Operand(<<x>>, 2))
    BY Zenon DEF Effect
  <2>4. Effect(c, Op("TIMESTAMP"), <<x>>) = SubSeq(<<x>>, 1, 1) \o <<c.ctx.timestamp % WORD>>
    BY <2>1, <2>2, <2>3
  <2> QED BY <1>6, <1>7, <1>8, <2>4, Zenon
<1>14. Effect(c, Op("VALUE"), <<x>>) = <<x, c.ctx.value % WORD>>
  <2>1. 1 = Len(<<x>>) - Pops(Op("VALUE").op)
    BY <1>2, <1>4, <1>5
  <2>2. Pushed(c, c, Op("VALUE"), Operand(<<x>>, 1), Operand(<<x>>, 2))
          = <<c.ctx.value % WORD>>
    BY <1>1, <1>9
  <2>3. Effect(c, Op("VALUE"), <<x>>) =
          SubSeq(<<x>>, 1, Len(<<x>>) - Pops(Op("VALUE").op))
            \o Pushed(c, c, Op("VALUE"), Operand(<<x>>, 1), Operand(<<x>>, 2))
    BY Zenon DEF Effect
  <2>4. Effect(c, Op("VALUE"), <<x>>) = SubSeq(<<x>>, 1, 1) \o <<c.ctx.value % WORD>>
    BY <2>1, <2>2, <2>3
  <2> QED BY <1>6, <1>7, <1>8, <2>4, Zenon
<1>15. Effect(c, Op("SLOAD"), <<x>>) = <<c.storage[x]>>
  <2>1. 0 = Len(<<x>>) - Pops(Op("SLOAD").op)
    BY <1>2, <1>4, <1>5
  <2>2. Pushed(c, c, Op("SLOAD"), Operand(<<x>>, 1), Operand(<<x>>, 2))
          = <<c.storage[x]>>
    BY <1>1, <1>9
  <2>3. Effect(c, Op("SLOAD"), <<x>>) =
          SubSeq(<<x>>, 1, Len(<<x>>) - Pops(Op("SLOAD").op))
            \o Pushed(c, c, Op("SLOAD"), Operand(<<x>>, 1), Operand(<<x>>, 2))
    BY Zenon DEF Effect
  <2>4. Effect(c, Op("SLOAD"), <<x>>) = SubSeq(<<x>>, 1, 0) \o <<c.storage[x]>>
    BY <2>1, <2>2, <2>3
  <2> QED BY <1>6, <1>7, <1>8, <2>4, Zenon
<1>16. Effect(c, Op("SLOAD"), <<x, y>>) = <<x, c.storage[y]>>
  <2>1. 1 = Len(<<x, y>>) - Pops(Op("SLOAD").op)
    BY <1>2, <1>4, <1>5
  <2>2. Pushed(c, c, Op("SLOAD"), Operand(<<x, y>>, 1), Operand(<<x, y>>, 2))
          = <<c.storage[y]>>
    BY <1>1, <1>9
  <2>3. Effect(c, Op("SLOAD"), <<x, y>>) =
          SubSeq(<<x, y>>, 1, Len(<<x, y>>) - Pops(Op("SLOAD").op))
            \o Pushed(c, c, Op("SLOAD"), Operand(<<x, y>>, 1), Operand(<<x, y>>, 2))
    BY Zenon DEF Effect
  <2>4. Effect(c, Op("SLOAD"), <<x, y>>) = SubSeq(<<x, y>>, 1, 1) \o <<c.storage[y]>>
    BY <2>1, <2>2, <2>3
  <2> QED BY <1>6, <1>7, <1>8, <2>4, Zenon
<1>17. Effect(c, Op("ASSERT"), <<x>>) = << >>
  <2>1. 0 = Len(<<x>>) - Pops(Op("ASSERT").op)
    BY <1>2, <1>4, <1>5
  <2>2. Pushed(c, c, Op("ASSERT"), Operand(<<x>>, 1), Operand(<<x>>, 2)) = << >>
    BY <1>1, <1>9
  <2>3. Effect(c, Op("ASSERT"), <<x>>) =
          SubSeq(<<x>>, 1, Len(<<x>>) - Pops(Op("ASSERT").op))
            \o Pushed(c, c, Op("ASSERT"), Operand(<<x>>, 1), Operand(<<x>>, 2))
    BY Zenon DEF Effect
  <2>4. Effect(c, Op("ASSERT"), <<x>>) = SubSeq(<<x>>, 1, 0) \o << >>
    BY <2>1, <2>2, <2>3
  <2> QED BY <1>6, <1>7, <1>8, <2>4, Zenon
<1> QED BY <1>11, <1>12, <1>13, <1>14, <1>15, <1>16, <1>17

(* What a comparison leaves of its two operands: the outcome. *)
LEMMA Comparison ==
  ASSUME NEW c, NEW x \in Words, NEW y \in Words, NEW op \in {"LT", "EQ"},
         NEW z \in Words, Computed(op, y, x) = z
  PROVE  Effect(c, Op(op), <<x, y>>) = <<z>>
<1>1. Operand(<<x, y>>, 1) = y /\ Operand(<<x, y>>, 2) = x
  BY DEF Operand, Top
<1>2. Pops(op) = 2 /\ Op(op).op = op
  BY DEF Pops, Binary, Op
<1>3. Pushed(c, c, Op(op), y, x) = <<Computed(op, y, x)>>
  BY <1>2 DEF Pushed, Binary
<1>4. 0 = Len(<<x, y>>) - Pops(Op(op).op)
  BY <1>2
<1>5. Effect(c, Op(op), <<x, y>>) =
        SubSeq(<<x, y>>, 1, Len(<<x, y>>) - Pops(Op(op).op))
          \o Pushed(c, c, Op(op), Operand(<<x, y>>, 1), Operand(<<x, y>>, 2))
  BY Zenon DEF Effect
<1>6. Effect(c, Op(op), <<x, y>>) = SubSeq(<<x, y>>, 1, 0) \o <<z>>
  BY <1>1, <1>3, <1>4, <1>5
<1>7. SubSeq(<<x, y>>, 1, 0) = << >> /\ << >> \o <<z>> = <<z>>
  BY Tuples
<1> QED BY <1>6, <1>7, Zenon

(* And a negation: whether its operand is zero. *)
LEMMA Negation ==
  ASSUME NEW c, NEW x \in Words, NEW z \in Words, Flag(x = 0) = z
  PROVE  Effect(c, Op("ISZERO"), <<x>>) = <<z>>
<1>1. Operand(<<x>>, 1) = x
  BY DEF Operand, Top
<1>2. Pops("ISZERO") = 1 /\ Op("ISZERO").op = "ISZERO"
  BY DEF Pops, Binary, Op
<1>3. \A b : Pushed(c, c, Op("ISZERO"), x, b) = <<z>>
  BY <1>2 DEF Pushed, Binary
<1>4. Pushed(c, c, Op("ISZERO"), Operand(<<x>>, 1), Operand(<<x>>, 2)) = <<z>>
  BY <1>1, <1>3
<1>5. 0 = Len(<<x>>) - Pops(Op("ISZERO").op)
  BY <1>2
<1>6. Effect(c, Op("ISZERO"), <<x>>) =
        SubSeq(<<x>>, 1, Len(<<x>>) - Pops(Op("ISZERO").op))
          \o Pushed(c, c, Op("ISZERO"), Operand(<<x>>, 1), Operand(<<x>>, 2))
  BY Zenon DEF Effect
<1>7. Effect(c, Op("ISZERO"), <<x>>) = SubSeq(<<x>>, 1, 0) \o <<z>>
  <2>1. SubSeq(<<x>>, 1, Len(<<x>>) - Pops(Op("ISZERO").op)) = SubSeq(<<x>>, 1, 0)
    BY <1>5
  <2> QED BY <1>4, <1>6, <2>1, Zenon
<1>8. SubSeq(<<x>>, 1, 0) = << >> /\ << >> \o <<z>> = <<z>>
  BY Tuples
<1> QED BY <1>7, <1>8, Zenon

(* A template whose test computes, from stacks[0], one stack after the      *)
(* other, and in the end a word that is not zero iff holds.                 *)
Tested(c, test, stacks, holds) ==
  /\ test \in Seq(Instruction) /\ c.code = Gate(test)
  /\ stacks[0] = << >>
  /\ \A i \in 0..Len(test) : stacks[i] \in Seq(Words) /\ Len(stacks[i]) <= MAX_STACK
  /\ \A i \in 0..(Len(test) - 1) :
       /\ test[i+1].op \in Quiet /\ Pops(test[i+1].op) <= Len(stacks[i])
       /\ stacks[i+1] = Effect(c, test[i+1], stacks[i])
  /\ \E w \in Words : stacks[Len(test)] = <<w>> /\ (w # 0 <=> holds)

(* Where such a call can be, k being the length of its test. *)
Tracks(c, k, stacks, holds, s) ==
  /\ s.status = "running" =>
       /\ s.storage = c.storage /\ s.pc \in 0..(k + 2)
       /\ s.pc \in 0..k => s.stack = stacks[s.pc]
       /\ s.pc > k => holds
       /\ s.pc = k + 1 => s.stack = << >>
       /\ s.pc = k + 2 => s.stack = <<1>>
  /\ s.status = "success" => holds /\ s.return_value = 1
  /\ s.status = "revert" => ~holds

(* The instructions of a template. *)
LEMMA Gated ==
  ASSUME NEW test \in Seq(Instruction)
  PROVE  /\ Gate(test) \in Seq(Instruction) /\ Len(Gate(test)) = Len(test) + 3
         /\ \A i \in 1..Len(test) : Gate(test)[i] = test[i]
         /\ Gate(test)[Len(test) + 1] = Op("ASSERT")
         /\ Gate(test)[Len(test) + 2] = Push(1)
         /\ Gate(test)[Len(test) + 3] = Op("RETURN")
<1> DEFINE rest == <<Op("ASSERT"), Push(1), Op("RETURN")>>
<1>1. Op("ASSERT") \in Instruction /\ Op("RETURN") \in Instruction
  BY WordsOfNumbers DEF Op, Instruction, GAS
<1>2. Push(1) \in Instruction
  BY WordsOfNumbers DEF Push, Instruction, GAS
<1>3. /\ rest \in Seq(Instruction) /\ Len(rest) = 3 /\ rest[1] = Op("ASSERT")
      /\ rest[2] = Push(1) /\ rest[3] = Op("RETURN")
  BY <1>1, <1>2
<1>4. Gate(test) = test \o rest
  BY Zenon DEF Gate
<1> HIDE DEF rest
<1>5. /\ test \o rest \in Seq(Instruction) /\ Len(test \o rest) = Len(test) + 3
      /\ \A i \in 1..(Len(test) + 3) :
           (test \o rest)[i] = IF i <= Len(test) THEN test[i] ELSE rest[i - Len(test)]
  <2>1. /\ test \o rest \in Seq(Instruction) /\ Len(test \o rest) = Len(test) + Len(rest)
        /\ \A i \in 1..(Len(test) + Len(rest)) :
             (test \o rest)[i] = IF i <= Len(test) THEN test[i] ELSE rest[i - Len(test)]
    BY <1>3, ConcatProperties
  <2> QED BY <1>3, <2>1
<1> QED BY <1>3, <1>4, <1>5

(* What the gate does to the stack. *)
LEMMA Endings ==
  ASSUME NEW c, NEW w \in Words, CallOK(c)
  PROVE  /\ Effect(c, Op("ASSERT"), <<w>>) = << >>
         /\ Effect(c, Push(1), << >>) = <<1>>
<1>1. 1 \in Words
  BY WordsOfNumbers
<1>2. Effect(c, Op("ASSERT"), <<w>>) = << >>
  BY Effects
<1>3. Effect(c, Push(1), << >>) = <<1>>
  BY <1>1, Effects
<1> QED BY <1>2, <1>3

(* An iteration of a template goes on tracking its test. *)
LEMMA TestedStep ==
  ASSUME NEW c, NEW test, NEW stacks, NEW holds \in BOOLEAN, MAX_STACK >= 2,
         CallOK(c), Tested(c, test, stacks, holds),
         NEW s, MachineOK(c, s), s.status = "running",
         Tracks(c, Len(test), stacks, holds, s),
         NEW r, r = Exec(c, s)
  PROVE  Tracks(c, Len(test), stacks, holds, r)
<1> DEFINE k == Len(test)
           ins == Instr(c, s)
<1>1. /\ test \in Seq(Instruction) /\ k \in Nat
      /\ c.code = Gate(test)
  BY DEF Tested
<1>2. /\ Len(c.code) = k + 3 /\ \A i \in 1..k : c.code[i] = test[i]
      /\ c.code[k + 1] = Op("ASSERT") /\ c.code[k + 2] = Push(1)
      /\ c.code[k + 3] = Op("RETURN")
  BY <1>1, Gated
<1>3. s.storage = c.storage /\ s.pc \in 0..(k + 2) /\ s.pc < Len(c.code)
  BY <1>1, <1>2 DEF Tracks
<1>4. /\ s.pc \in 0..k => s.stack = stacks[s.pc]
      /\ s.pc > k => holds
      /\ s.pc = k + 1 => s.stack = << >>
      /\ s.pc = k + 2 => s.stack = <<1>>
  BY DEF Tracks
<1>5. PICK w \in Words : stacks[k] = <<w>> /\ (w # 0 <=> holds)
  BY DEF Tested
<1>6. ASSUME NEW stack, Onward(c, s, stack, r),
             /\ s.pc < k => stack = stacks[s.pc + 1]
             /\ s.pc = k => stack = << >> /\ holds
             /\ s.pc = k + 1 => stack = << 1 >>
             /\ s.pc < k + 2
      PROVE  Tracks(c, k, stacks, holds, r)
  <2>1. CASE r.status = "out_of_gas"
    BY <2>1 DEF Tracks
  <2>2. CASE /\ r.status = "running" /\ r.pc = s.pc + 1
             /\ r.stack = stack /\ r.storage = c.storage
    <3>1. r.pc \in 0..(k + 2) /\ (r.pc \in 0..k => s.pc < k) /\ (r.pc > k => s.pc >= k)
      BY <1>1, <1>3, <1>6, <2>2
    <3>2. (r.pc = k + 1 => s.pc = k) /\ (r.pc = k + 2 => s.pc = k + 1)
      BY <1>1, <1>3, <2>2
    <3>3. r.pc > k => holds
      BY <1>1, <1>3, <1>4, <1>6, <3>1
    <3> QED BY <1>6, <2>2, <3>1, <3>2, <3>3 DEF Tracks
  <2> QED BY <1>6, <2>1, <2>2 DEF Onward
<1>7. CASE s.pc < k
  <2>1. s.pc \in 0..(k - 1) /\ s.pc + 1 \in 1..k /\ s.pc + 1 \in 0..k /\ s.pc \in 0..k
    BY <1>1, <1>3, <1>7
  <2>2. ins = test[s.pc + 1]
    BY <1>2, <2>1 DEF Instr
  <2>3. /\ ins.op \in Quiet /\ Pops(ins.op) <= Len(s.stack)
        /\ stacks[s.pc + 1] = Effect(c, ins, s.stack)
        /\ stacks[s.pc + 1] \in Seq(Words) /\ Len(stacks[s.pc + 1]) <= MAX_STACK
    BY <1>4, <2>1, <2>2 DEF Tested
  <2>4. ins.op # "ASSERT"
    BY <2>3 DEF Quiet
  <2> HIDE DEF k
  <2>5. r.status = "out_of_gas" \/ Onward(c, s, stacks[s.pc + 1], r)
    BY <1>3, <2>3, <2>4, PureStep
  <2>6. Onward(c, s, stacks[s.pc + 1], r)
    BY <2>5 DEF Onward
  <2>7. s.pc # k /\ s.pc # k + 1 /\ s.pc < k + 2
    BY <1>1, <1>3, <1>7
  <2> QED BY <1>6, <2>6, <2>7 DEF k
<1>8. CASE s.pc = k
  <2>1. ins = Op("ASSERT") /\ s.stack = <<w>> /\ s.pc \in 0..k
    BY <1>1, <1>2, <1>4, <1>5, <1>8 DEF Instr
  <2>2. ins.op = "ASSERT" /\ Pops(ins.op) = 1 /\ Len(s.stack) = 1 /\ Top(s, 1) = w
    BY <2>1 DEF Op, Pops, Binary, Top
  <2>3. PICK next \in Seq(Words) : next = << >> /\ Len(next) <= MAX_STACK
    <3>1. << >> \in Seq(Words) /\ Len(<< >>) <= MAX_STACK
      BY LimitsAssumption
    <3> QED BY <3>1, Zenon
  <2>x. next = Effect(c, ins, s.stack)
    <3>1. Effect(c, Op("ASSERT"), <<w>>) = << >>
      BY <1>5, Endings
    <3> QED BY <2>1, <2>3, <3>1
  <2> HIDE DEF k
  <2>y. /\ ins.op \in Quiet \cup {"ASSERT"} /\ Pops(ins.op) <= Len(s.stack)
        /\ ins = Instr(c, s)
    BY <2>2
  <2> HIDE DEF ins
  <2>z. \/ r.status = "out_of_gas"
        \/ r.status = "revert" /\ ins.op = "ASSERT" /\ Top(s, 1) = 0
        \/ (ins.op = "ASSERT" => Top(s, 1) # 0) /\ Onward(c, s, next, r)
    BY <1>3, <2>3, <2>x, <2>y, PureStep
  <2>4. \/ r.status = "out_of_gas"
        \/ r.status = "revert" /\ w = 0
        \/ w # 0 /\ Onward(c, s, << >>, r)
    BY <2>2, <2>3, <2>z
  <2>5. CASE r.status = "out_of_gas" \/ (r.status = "revert" /\ w = 0)
    BY <1>5, <2>5 DEF Tracks, k
  <2>6. CASE w # 0 /\ Onward(c, s, << >>, r)
    <3>1. ~(s.pc < k) /\ s.pc # k + 1 /\ s.pc < k + 2
      BY <1>1, <1>8
    <3> QED BY <1>5, <1>6, <2>6, <3>1 DEF k
  <2> QED BY <2>4, <2>5, <2>6
<1>9. CASE s.pc = k + 1
  <2>1. ins = Push(1) /\ s.stack = << >>
    BY <1>1, <1>2, <1>4, <1>9 DEF Instr
  <2>2. ins.op = "PUSH" /\ Pops(ins.op) = 0 /\ Len(s.stack) = 0
    BY <2>1 DEF Push, Pops, Binary
  <2>3. PICK next \in Seq(Words) : next = <<1>> /\ Len(next) <= MAX_STACK
    <3>1. 1 \in Words
      BY WordsOfNumbers
    <3>2. <<1>> \in Seq(Words) /\ Len(<<1>>) <= MAX_STACK
      BY <3>1, LimitsAssumption
    <3> QED BY <3>2, Zenon
  <2>x. next = Effect(c, ins, s.stack)
    <3>1. Effect(c, Push(1), << >>) = <<1>>
      BY <1>5, Endings
    <3> QED BY <2>1, <2>3, <3>1
  <2> HIDE DEF k
  <2>y. /\ ins.op \in Quiet /\ Pops(ins.op) <= Len(s.stack) /\ ins.op # "ASSERT"
        /\ ins = Instr(c, s)
    BY <2>2 DEF Quiet
  <2> HIDE DEF ins
  <2>4. r.status = "out_of_gas" \/ Onward(c, s, next, r)
    BY <1>3, <2>3, <2>x, <2>y, PureStep
  <2>5. Onward(c, s, <<1>>, r)
    BY <2>3, <2>4 DEF Onward
  <2>6. ~(s.pc < k) /\ s.pc # k /\ s.pc < k + 2
    BY <1>1, <1>9
  <2> QED BY <1>6, <2>5, <2>6 DEF k
<1>10. CASE s.pc = k + 2
  <2>1. ins.op = "RETURN" /\ s.stack = <<1>> /\ holds
    BY <1>1, <1>2, <1>4, <1>10 DEF Instr, Op
  <2>2. Top(s, 1) = 1
    BY <2>1 DEF Top
  <2>3. \/ r.status = "out_of_gas"
        \/ r.status = "success" /\ r.return_value = 1
    BY <1>3, <2>1, <2>2, ReturnStep
  <2> QED BY <2>1, <2>3 DEF Tracks
<1> QED BY <1>1, <1>3, <1>7, <1>8, <1>9, <1>10

(* So every state of the run tracks the test. *)
LEMMA TestedRun ==
  ASSUME NEW c, NEW test, NEW stacks, NEW holds \in BOOLEAN, MAX_STACK >= 2,
         CallOK(c), Tested(c, test, stacks, holds)
  PROVE  \A n \in 0..(MAX_STEPS + 1) : Tracks(c, Len(test), stacks, holds, Run(c)[n])
<1> DEFINE S == {n \in 0..(MAX_STEPS + 1) : Tracks(c, Len(test), stacks, holds, Run(c)[n])}
<1>1. 0 \in S
  <2>1. Len(test) \in Nat /\ stacks[0] = << >>
    BY DEF Tested
  <2>2. Run(c)[0] = Start(c.storage, c.limit)
    BY RunSteps
  <2>3. /\ Run(c)[0].status = "running" /\ Run(c)[0].pc = 0 /\ Run(c)[0].stack = << >>
        /\ Run(c)[0].storage = c.storage
    BY <2>2 DEF Start
  <2>4. Tracks(c, Len(test), stacks, holds, Run(c)[0])
    BY <2>1, <2>3 DEF Tracks
  <2> QED BY <2>4, LimitsAssumption
<1>2. \A n \in 0..((MAX_STEPS + 1) - 1) : n \in S => n + 1 \in S
  <2> SUFFICES ASSUME NEW n \in 0..((MAX_STEPS + 1) - 1), n \in S PROVE n + 1 \in S
    OBVIOUS
  <2>1. n \in 0..MAX_STEPS /\ n \in 0..(MAX_STEPS + 1) /\ n + 1 \in 0..(MAX_STEPS + 1)
    BY LimitsAssumption
  <2>2. Tracks(c, Len(test), stacks, holds, Run(c)[n])
    OBVIOUS
  <2> HIDE DEF S
  <2>3. CASE Run(c)[n].status = "running"
    <3>1. Run(c)[n+1] = Exec(c, Run(c)[n])
      BY <2>1, <2>3, RunSteps
    <3>2. MachineOK(c, Run(c)[n])
      BY <2>1, RunTypes
    <3>3. Tracks(c, Len(test), stacks, holds, Run(c)[n+1])
      BY <2>2, <2>3, <3>1, <3>2, TestedStep
    <3> QED BY <2>1, <3>3 DEF S
  <2>4. CASE Run(c)[n].status # "running"
    <3>1. Run(c)[n+1] = Run(c)[n]
      BY <2>1, <2>4, RunSteps
    <3> QED BY <2>1, <2>2, <3>1 DEF S
  <2> QED BY <2>3, <2>4
<1> HIDE DEF S
<1>3. \A n \in 0..(MAX_STEPS + 1) : n \in S
  BY <1>1, <1>2, UpTo, LimitsAssumption
<1> QED BY <1>3 DEF S

(* What the templates need of the machine and its host: room for two words, *)
(* and times and secrets that fit in one (larger ones are cut to it).       *)
TemplatesFit ==
  /\ MAX_STACK >= 2
  /\ \A ctx \in Contexts : ctx.timestamp \in Words /\ ctx.value \in Words

(* The opcodes of the tests. *)
LEMMA TestOps ==
  /\ \A n \in Words : Push(n).op = "PUSH" /\ Push(n) \in Instruction
  /\ \A op \in Quiet : Op(op).op = op /\ Op(op) \in Instruction
  /\ Pops("PUSH") = 0 /\ Pops("TIMESTAMP") = 0 /\ Pops("VALUE") = 0
  /\ Pops("SLOAD") = 1 /\ Pops("ISZERO") = 1 /\ Pops("LT") = 2 /\ Pops("EQ") = 2
  /\ \A x, y \in Words : Len(<<x>>) = 1 /\ Len(<<x, y>>) = 2
  /\ \A x, y \in Words : <<x>> \in Seq(Words) /\ <<x, y>> \in Seq(Words)
<1>1. /\ Pops("PUSH") = 0 /\ Pops("TIMESTAMP") = 0 /\ Pops("VALUE") = 0
      /\ Pops("SLOAD") = 1 /\ Pops("ISZERO") = 1 /\ Pops("LT") = 2 /\ Pops("EQ") = 2
  BY DEF Pops, Binary
<1>2. \A n \in Words : Push(n).op = "PUSH" /\ Push(n) \in Instruction
  BY WordsOfNumbers DEF Push, Instruction, GAS
<1>3. \A op \in Quiet : Op(op).op = op /\ Op(op) \in Instruction
  BY WordsOfNumbers DEF Op, Instruction, GAS, Quiet
<1>4. /\ \A x, y \in Words : Len(<<x>>) = 1 /\ Len(<<x, y>>) = 2
      /\ \A x, y \in Words : <<x>> \in Seq(Words) /\ <<x, y>> \in Seq(Words)
  OBVIOUS
<1> QED BY <1>1, <1>2, <1>3, <1>4, Zenon

(* The time has come.  *)
LEMMA TimelockTested ==
  ASSUME NEW c, CallOK(c), TemplatesFit, NEW n \in Words, c.code = Timelock(n)
  PROVE  \E test, stacks : Tested(c, test, stacks, c.ctx.timestamp >= n)
<1> DEFINE t == c.ctx.timestamp
           early == IF t < n THEN 1 ELSE 0
           late == IF early = 0 THEN 1 ELSE 0
           s0 == << >>
           s1 == <<n>>
           s2 == <<n, t>>
           s3 == <<early>>
           s4 == <<late>>
           test == <<Push(n), Op("TIMESTAMP"), Op("LT"), Op("ISZERO")>>
           stacks == [i \in 0..4 |->
                      IF i = 0 THEN s0 ELSE IF i = 1 THEN s1 ELSE IF i = 2 THEN s2 ELSE
                      IF i = 3 THEN s3 ELSE s4]
<1>1. t \in Words /\ t % WORD = t /\ early \in Words /\ late \in Words
  BY WordsOfNumbers DEF CallOK, TemplatesFit
<1>2. /\ Push(n).op \in Quiet /\ Pops(Push(n).op) = 0
      /\ Op("TIMESTAMP").op \in Quiet /\ Pops(Op("TIMESTAMP").op) = 0
      /\ Op("LT").op \in Quiet /\ Pops(Op("LT").op) = 2
      /\ Op("ISZERO").op \in Quiet /\ Pops(Op("ISZERO").op) = 1
  BY <1>1, TestOps DEF Quiet
<1>3. /\ Push(n) \in Instruction /\ Op("TIMESTAMP") \in Instruction /\ Op("LT") \in Instruction
      /\ Op("ISZERO") \in Instruction
  BY <1>1, TestOps DEF Quiet
<1>4. /\ test \in Seq(Instruction) /\ Len(test) = 4
      /\ test[1] = Push(n) /\ test[2] = Op("TIMESTAMP")
      /\ test[3] = Op("LT") /\ test[4] = Op("ISZERO")
  BY <1>3
<1>5. c.code = Gate(test)
  BY DEF Timelock
<1>6. Effect(c, Push(n), s0) = s1
  BY <1>1, Effects
<1>7. Effect(c, Op("TIMESTAMP"), s1) = s2
  <2>1. Effect(c, Op("TIMESTAMP"), <<n>>) = <<n, t % WORD>>
    BY <1>1, Effects
  <2> QED BY <1>1, <2>1
<1>8. Effect(c, Op("LT"), s2) = s3
  <2>1. Computed("LT", t, n) = early
    BY DEF Computed, Flag
  <2> HIDE DEF early
  <2> QED BY <1>1, <2>1, Comparison
<1>9. Effect(c, Op("ISZERO"), s3) = s4
  <2>1. Flag(early = 0) = late
    BY DEF Flag
  <2> HIDE DEF early, late
  <2> QED BY <1>1, <2>1, Negation, Zenon
<1>10. /\ s0 \in Seq(Words) /\ Len(s0) = 0
      /\ s1 \in Seq(Words) /\ Len(s1) = 1
      /\ s2 \in Seq(Words) /\ Len(s2) = 2
      /\ s3 \in Seq(Words) /\ Len(s3) = 1
      /\ s4 \in Seq(Words) /\ Len(s4) = 1
  BY <1>1
<1>11. late # 0 <=> c.ctx.timestamp >= n
  BY <1>1, WordsOfNumbers
<1> HIDE DEF test, s0, s1, s2, s3, s4
<1>12. /\ stacks[0] = s0
      /\ stacks[1] = s1
      /\ stacks[2] = s2
      /\ stacks[3] = s3
      /\ stacks[4] = s4
  OBVIOUS
<1> HIDE DEF stacks
<1>13. Tested(c, test, stacks, c.ctx.timestamp >= n)
  <2>1. 0 <= MAX_STACK /\ 1 <= MAX_STACK /\ 2 <= MAX_STACK
    BY LimitsAssumption DEF TemplatesFit
  <2>2. \A i \in 0..Len(test) : stacks[i] \in Seq(Words) /\ Len(stacks[i]) <= MAX_STACK
    <3>1. \A i \in 0..Len(test) : i = 0 \/ i = 1 \/ i = 2 \/ i = 3 \/ i = 4
      BY <1>4
    <3> QED BY <1>10, <1>12, <2>1, <3>1, Zenon
  <2>3. /\ test[1].op \in Quiet /\ Pops(test[1].op) <= Len(stacks[0])
        /\ stacks[1] = Effect(c, test[1], stacks[0])
    <3>1. 0 <= 0
      OBVIOUS
    <3> QED BY <1>2, <1>4, <1>6, <1>10, <1>12, <3>1, Zenon
  <2>4. /\ test[2].op \in Quiet /\ Pops(test[2].op) <= Len(stacks[1])
        /\ stacks[2] = Effect(c, test[2], stacks[1])
    <3>1. 0 <= 1
      OBVIOUS
    <3> QED BY <1>2, <1>4, <1>7, <1>10, <1>12, <3>1, Zenon
  <2>5. /\ test[3].op \in Quiet /\ Pops(test[3].op) <= Len(stacks[2])
        /\ stacks[3] = Effect(c, test[3], stacks[2])
    <3>1. 2 <= 2
      OBVIOUS
    <3> QED BY <1>2, <1>4, <1>8, <1>10, <1>12, <3>1, Zenon
  <2>6. /\ test[4].op \in Quiet /\ Pops(test[4].op) <= Len(stacks[3])
        /\ stacks[4] = Effect(c, test[4], stacks[3])
    <3>1. 1 <= 1
      OBVIOUS
    <3> QED BY <1>2, <1>4, <1>9, <1>10, <1>12, <3>1, Zenon
  <2>7. \A i \in 0..(Len(test) - 1) :
          /\ test[i+1].op \in Quiet /\ Pops(test[i+1].op) <= Len(stacks[i])
          /\ stacks[i+1] = Effect(c, test[i+1], stacks[i])
    <3>1. \A i \in 0..(Len(test) - 1) :
            \/ (i = 0 /\ i + 1 = 1) \/ (i = 1 /\ i + 1 = 2)
            \/ (i = 2 /\ i + 1 = 3) \/ (i = 3 /\ i + 1 = 4)
      BY <1>4
    <3> QED BY <3>1, <2>3, <2>4, <2>5, <2>6, Zenon
  <2>8. \E v \in Words : stacks[Len(test)] = <<v>> /\ (v # 0 <=> c.ctx.timestamp >= n)
    BY <1>1, <1>4, <1>11, <1>12 DEF s4
  <2> QED BY <1>4, <1>5, <1>12, <2>2, <2>7, <2>8 DEF Tested, s0
<1> QED BY <1>13

(* There are signatures enough in slot 0.  *)
LEMMA MultisigTested ==
  ASSUME NEW c, CallOK(c), TemplatesFit, NEW n \in Words, c.code = Multisig(n)
  PROVE  \E test, stacks : Tested(c, test, stacks, c.storage[0] >= n)
<1> DEFINE m == c.storage[0]
           few == IF m < n THEN 1 ELSE 0
           enough == IF few = 0 THEN 1 ELSE 0
           s0 == << >>
           s1 == <<n>>
           s2 == <<n, 0>>
           s3 == <<n, m>>
           s4 == <<few>>
           s5 == <<enough>>
           test == <<Push(n), Push(0), Op("SLOAD"), Op("LT"), Op("ISZERO")>>
           stacks == [i \in 0..5 |->
                      IF i = 0 THEN s0 ELSE IF i = 1 THEN s1 ELSE IF i = 2 THEN s2 ELSE
                      IF i = 3 THEN s3 ELSE IF i = 4 THEN s4 ELSE s5]
<1>1. 0 \in Words /\ m \in Words /\ few \in Words /\ enough \in Words
  BY WordsOfNumbers DEF CallOK
<1>2. /\ Push(n).op \in Quiet /\ Pops(Push(n).op) = 0
      /\ Push(0).op \in Quiet /\ Pops(Push(0).op) = 0
      /\ Op("SLOAD").op \in Quiet /\ Pops(Op("SLOAD").op) = 1
      /\ Op("LT").op \in Quiet /\ Pops(Op("LT").op) = 2
      /\ Op("ISZERO").op \in Quiet /\ Pops(Op("ISZERO").op) = 1
  BY <1>1, TestOps DEF Quiet
<1>3. /\ Push(n) \in Instruction /\ Push(0) \in Instruction /\ Op("SLOAD") \in Instruction
      /\ Op("LT") \in Instruction /\ Op("ISZERO") \in Instruction
  BY <1>1, TestOps DEF Quiet
<1>4. /\ test \in Seq(Instruction) /\ Len(test) = 5
      /\ test[1] = Push(n) /\ test[2] = Push(0)
      /\ test[3] = Op("SLOAD") /\ test[4] = Op("LT")
      /\ test[5] = Op("ISZERO")
  BY <1>3
<1>5. c.code = Gate(test)
  BY DEF Multisig
<1>6. Effect(c, Push(n), s0) = s1
  BY <1>1, Effects
<1>7. Effect(c, Push(0), s1) = s2
  BY <1>1, Effects
<1>8. Effect(c, Op("SLOAD"), s2) = s3
  BY <1>1, Effects
<1>9. Effect(c, Op("LT"), s3) = s4
  <2>1. Computed("LT", m, n) = few
    BY DEF Computed, Flag
  <2> HIDE DEF few
  <2> QED BY <1>1, <2>1, Comparison
<1>10. Effect(c, Op("ISZERO"), s4) = s5
  <2>1. Flag(few = 0) = enough
    BY DEF Flag
  <2> HIDE DEF few, enough
  <2> QED BY <1>1, <2>1, Negation, Zenon
<1>11. /\ s0 \in Seq(Words) /\ Len(s0) = 0
      /\ s1 \in Seq(Words) /\ Len(s1) = 1
      /\ s2 \in Seq(Words) /\ Len(s2) = 2
      /\ s3 \in Seq(Words) /\ Len(s3) = 2
      /\ s4 \in Seq(Words) /\ Len(s4) = 1
      /\ s5 \in Seq(Words) /\ Len(s5) = 1
  BY <1>1
<1>12. enough # 0 <=> c.storage[0] >= n
  BY <1>1, WordsOfNumbers
<1> HIDE DEF test, s0, s1, s2, s3, s4, s5
<1>13. /\ stacks[0] = s0
      /\ stacks[1] = s1
      /\ stacks[2] = s2
      /\ stacks[3] = s3
      /\ stacks[4] = s4
      /\ stacks[5] = s5
  OBVIOUS
<1> HIDE DEF stacks
<1>14. Tested(c, test, stacks, c.storage[0] >= n)
  <2>1. 0 <= MAX_STACK /\ 1 <= MAX_STACK /\ 2 <= MAX_STACK
    BY LimitsAssumption DEF TemplatesFit
  <2>2. \A i \in 0..Len(test) : stacks[i] \in Seq(Words) /\ Len(stacks[i]) <= MAX_STACK
    <3>1. \A i \in 0..Len(test) : i = 0 \/ i = 1 \/ i = 2 \/ i = 3 \/ i = 4 \/ i = 5
      BY <1>4
    <3> QED BY <1>11, <1>13, <2>1, <3>1, Zenon
  <2>3. /\ test[1].op \in Quiet /\ Pops(test[1].op) <= Len(stacks[0])
        /\ stacks[1] = Effect(c, test[1], stacks[0])
    <3>1. 0 <= 0
      OBVIOUS
    <3> QED BY <1>2, <1>4, <1>6, <1>11, <1>13, <3>1, Zenon
  <2>4. /\ test[2].op \in Quiet /\ Pops(test[2].op) <= Len(stacks[1])
        /\ stacks[2] = Effect(c, test[2], stacks[1])
    <3>1. 0 <= 1
      OBVIOUS
    <3> QED BY <1>2, <1>4, <1>7, <1>11, <1>13, <3>1, Zenon
  <2>5. /\ test[3].op \in Quiet /\ Pops(test[3].op) <= Len(stacks[2])
        /\ stacks[3] = Effect(c, test[3], stacks[2])
    <3>1. 1 <= 2
      OBVIOUS
    <3> QED BY <1>2, <1>4, <1>8, <1>11, <1>13, <3>1, Zenon
  <2>6. /\ test[4].op \in Quiet /\ Pops(test[4].op) <= Len(stacks[3])
        /\ stacks[4] = Effect(c, test[4], stacks[3])
    <3>1. 2 <= 2
      OBVIOUS
    <3> QED BY <1>2, <1>4, <1>9, <1>11, <1>13, <3>1, Zenon
  <2>7. /\ test[5].op \in Quiet /\ Pops(test[5].op) <= Len(stacks[4])
        /\ stacks[5] = Effect(c, test[5], stacks[4])
    <3>1. 1 <= 1
      OBVIOUS
    <3> QED BY <1>2, <1>4, <1>10, <1>11, <1>13, <3>1, Zenon
  <2>8. \A i \in 0..(Len(test) - 1) :
          /\ test[i+1].op \in Quiet /\ Pops(test[i+1].op) <= Len(stacks[i])
          /\ stacks[i+1] = Effect(c, test[i+1], stacks[i])
    <3>1. \A i \in 0..(Len(test) - 1) : 
            \/ (i = 0 /\ i + 1 = 1) \/ (i = 1 /\ i + 1 = 2)
            \/ (i = 2 /\ i + 1 = 3) \/ (i = 3 /\ i + 1 = 4)
            \/ (i = 4 /\ i + 1 = 5)
      BY <1>4
    <3> QED BY <3>1, <2>3, <2>4, <2>5, <2>6, <2>7, Zenon
  <2>9. \E v \in Words : stacks[Len(test)] = <<v>> /\ (v # 0 <=> c.storage[0] >= n)
    BY <1>1, <1>4, <1>12, <1>13 DEF s5
  <2> QED BY <1>4, <1>5, <1>13, <2>2, <2>8, <2>9 DEF Tested, s0
<1> QED BY <1>14

(* The arbiter has set slot 1.  *)
LEMMA EscrowTested ==
  ASSUME NEW c, CallOK(c), TemplatesFit, c.code = Escrow
  PROVE  \E test, stacks : Tested(c, test, stacks, c.storage[1] # 0)
<1> DEFINE w == c.storage[1]
           s0 == << >>
           s1 == <<1>>
           s2 == <<w>>
           test == <<Push(1), Op("SLOAD")>>
           stacks == [i \in 0..2 |->
                      IF i = 0 THEN s0 ELSE IF i = 1 THEN s1 ELSE s2]
<1>1. 1 \in Words /\ w \in Words
  BY WordsOfNumbers DEF CallOK
<1>2. /\ Push(1).op \in Quiet /\ Pops(Push(1).op) = 0
      /\ Op("SLOAD").op \in Quiet /\ Pops(Op("SLOAD").op) = 1
  BY <1>1, TestOps DEF Quiet
<1>3. Push(1) \in Instruction /\ Op("SLOAD") \in Instruction
  BY <1>1, TestOps DEF Quiet
<1>4. /\ test \in Seq(Instruction) /\ Len(test) = 2
      /\ test[1] = Push(1) /\ test[2] = Op("SLOAD")
  BY <1>3
<1>5. c.code = Gate(test)
  BY DEF Escrow
<1>6. Effect(c, Push(1), s0) = s1
  BY <1>1, Effects
<1>7. Effect(c, Op("SLOAD"), s1) = s2
  BY <1>1, Effects
<1>8. /\ s0 \in Seq(Words) /\ Len(s0) = 0
      /\ s1 \in Seq(Words) /\ Len(s1) = 1
      /\ s2 \in Seq(Words) /\ Len(s2) = 1
  BY <1>1
<1>9. w # 0 <=> c.storage[1] # 0
  OBVIOUS
<1> HIDE DEF test, s0, s1, s2
<1>10. /\ stacks[0] = s0
      /\ stacks[1] = s1
      /\ stacks[2] = s2
  OBVIOUS
<1> HIDE DEF stacks
<1>11. Tested(c, test, stacks, c.storage[1] # 0)
  <2>1. 0 <= MAX_STACK /\ 1 <= MAX_STACK /\ 2 <= MAX_STACK
    BY LimitsAssumption DEF TemplatesFit
  <2>2. \A i \in 0..Len(test) : stacks[i] \in Seq(Words) /\ Len(stacks[i]) <= MAX_STACK
    <3>1. \A i \in 0..Len(test) : i = 0 \/ i = 1 \/ i = 2
      BY <1>4
    <3> QED BY <1>8, <1>10, <2>1, <3>1, Zenon
  <2>3. /\ test[1].op \in Quiet /\ Pops(test[1].op) <= Len(stacks[0])
        /\ stacks[1] = Effect(c, test[1], stacks[0])
    <3>1. 0 <= 0
      OBVIOUS
    <3> QED BY <1>2, <1>4, <1>6, <1>8, <1>10, <3>1, Zenon
  <2>4. /\ test[2].op \in Quiet /\ Pops(test[2].op) <= Len(stacks[1])
        /\ stacks[2] = Effect(c, test[2], stacks[1])
    <3>1. 1 <= 1
      OBVIOUS
    <3> QED BY <1>2, <1>4, <1>7, <1>8, <1>10, <3>1, Zenon
  <2>5. \A i \in 0..(Len(test) - 1) :
          /\ test[i+1].op \in Quiet /\ Pops(test[i+1].op) <= Len(stacks[i])
          /\ stacks[i+1] = Effect(c, test[i+1], stacks[i])
    <3>1. \A i \in 0..(Len(test) - 1) :
            \/ (i = 0 /\ i + 1 = 1) \/ (i = 1 /\ i + 1 = 2)
      BY <1>4
    <3> QED BY <3>1, <2>3, <2>4, Zenon
  <2>6. \E v \in Words : stacks[Len(test)] = <<v>> /\ (v # 0 <=> c.storage[1] # 0)
    BY <1>1, <1>4, <1>9, <1>10 DEF s2
  <2> QED BY <1>4, <1>5, <1>10, <2>2, <2>5, <2>6 DEF Tested, s0
<1> QED BY <1>11

(* The secret is revealed.  *)
LEMMA HtlcTested ==
  ASSUME NEW c, CallOK(c), TemplatesFit, NEW n \in Words, c.code = Htlc(n)
  PROVE  \E test, stacks : Tested(c, test, stacks, c.ctx.value = n)
<1> DEFINE x == c.ctx.value
           same == IF x = n THEN 1 ELSE 0
           s0 == << >>
           s1 == <<n>>
           s2 == <<n, x>>
           s3 == <<same>>
           test == <<Push(n), Op("VALUE"), Op("EQ")>>
           stacks == [i \in 0..3 |->
                      IF i = 0 THEN s0 ELSE IF i = 1 THEN s1 ELSE IF i = 2 THEN s2 ELSE
                      s3]
<1>1. x \in Words /\ x % WORD = x /\ same \in Words
  BY WordsOfNumbers DEF CallOK, TemplatesFit
<1>2. /\ Push(n).op \in Quiet /\ Pops(Push(n).op) = 0
      /\ Op("VALUE").op \in Quiet /\ Pops(Op("VALUE").op) = 0
      /\ Op("EQ").op \in Quiet /\ Pops(Op("EQ").op) = 2
  BY <1>1, TestOps DEF Quiet
<1>3. Push(n) \in Instruction /\ Op("VALUE") \in Instruction /\ Op("EQ") \in Instruction
  BY <1>1, TestOps DEF Quiet
<1>4. /\ test \in Seq(Instruction) /\ Len(test) = 3
      /\ test[1] = Push(n) /\ test[2] = Op("VALUE")
      /\ test[3] = Op("EQ")
  BY <1>3
<1>5. c.code = Gate(test)
  BY DEF Htlc
<1>6. Effect(c, Push(n), s0) = s1
  BY <1>1, Effects
<1>7. Effect(c, Op("VALUE"), s1) = s2
  <2>1. Effect(c, Op("VALUE"), <<n>>) = <<n, x % WORD>>
    BY <1>1, Effects
  <2> QED BY <1>1, <2>1
<1>8. Effect(c, Op("EQ"), s2) = s3
  <2>1. Computed("EQ", x, n) = same
    BY DEF Computed, Flag
  <2> HIDE DEF same
  <2> QED BY <1>1, <2>1, Comparison
<1>9. /\ s0 \in Seq(Words) /\ Len(s0) = 0
      /\ s1 \in Seq(Words) /\ Len(s1) = 1
      /\ s2 \in Seq(Words) /\ Len(s2) = 2
      /\ s3 \in Seq(Words) /\ Len(s3) = 1
  BY <1>1
<1>10. same # 0 <=> c.ctx.value = n
  OBVIOUS
<1> HIDE DEF test, s0, s1, s2, s3
<1>11. /\ stacks[0] = s0
      /\ stacks[1] = s1
      /\ stacks[2] = s2
      /\ stacks[3] = s3
  OBVIOUS
<1> HIDE DEF stacks
<1>12. Tested(c, test, stacks, c.ctx.value = n)
  <2>1. 0 <= MAX_STACK /\ 1 <= MAX_STACK /\ 2 <= MAX_STACK
    BY LimitsAssumption DEF TemplatesFit
  <2>2. \A i \in 0..Len(test) : stacks[i] \in Seq(Words) /\ Len(stacks[i]) <= MAX_STACK
    <3>1. \A i \in 0..Len(test) : i = 0 \/ i = 1 \/ i = 2 \/ i = 3
      BY <1>4
    <3> QED BY <1>9, <1>11, <2>1, <3>1, Zenon
  <2>3. /\ test[1].op \in Quiet /\ Pops(test[1].op) <= Len(stacks[0])
        /\ stacks[1] = Effect(c, test[1], stacks[0])
    <3>1. 0 <= 0
      OBVIOUS
    <3> QED BY <1>2, <1>4, <1>6, <1>9, <1>11, <3>1, Zenon
  <2>4. /\ test[2].op \in Quiet /\ Pops(test[2].op) <= Len(stacks[1])
        /\ stacks[2] = Effect(c, test[2], stacks[1])
    <3>1. 0 <= 1
      OBVIOUS
    <3> QED BY <1>2, <1>4, <1>7, <1>9, <1>11, <3>1, Zenon
  <2>5. /\ test[3].op \in Quiet /\ Pops(test[3].op) <= Len(stacks[2])
        /\ stacks[3] = Effect(c, test[3], stacks[2])
    <3>1. 2 <= 2
      OBVIOUS
    <3> QED BY <1>2, <1>4, <1>8, <1>9, <1>11, <3>1, Zenon
  <2>6. \A i \in 0..(Len(test) - 1) :
          /\ test[i+1].op \in Quiet /\ Pops(test[i+1].op) <= Len(stacks[i])
          /\ stacks[i+1] = Effect(c, test[i+1], stacks[i])
    <3>1. \A i \in 0..(Len(test) - 1) :
            \/ (i = 0 /\ i + 1 = 1) \/ (i = 1 /\ i + 1 = 2)
            \/ (i = 2 /\ i + 1 = 3)
      BY <1>4
    <3> QED BY <3>1, <2>3, <2>4, <2>5, Zenon
  <2>7. \E v \in Words : stacks[Len(test)] = <<v>> /\ (v # 0 <=> c.ctx.value = n)
    BY <1>1, <1>4, <1>10, <1>11 DEF s3
  <2> QED BY <1>4, <1>5, <1>11, <2>2, <2>6, <2>7 DEF Tested, s0
<1> QED BY <1>12

(* What tracks a test releases on its condition. *)
LEMMA Decided ==
  ASSUME IInv, MAX_STACK >= 2, NEW holds \in BOOLEAN,
         \E test, stacks : Tested(call, test, stacks, holds)
  PROVE  Releases(holds)
<1>1. CallOK(call)
  BY Calls DEF IInv
<1>2. PICK n \in 0..(MAX_STEPS + 1) : machine = Run(call)[n]
  BY DEF IInv, OnItsRun
<1>3. PICK test : \E stacks : Tested(call, test, stacks, holds)
  OBVIOUS
<1>4. PICK stacks : Tested(call, test, stacks, holds)
  BY <1>3
<1>5. Tracks(call, Len(test), stacks, holds, machine)
  BY <1>1, <1>2, <1>4, TestedRun
<1> QED BY <1>5 DEF Tracks, Releases

(* The four templates release exactly on the condition that they document,  *)
(* on every machine that has room for their words and every history of      *)
(* calls, whatever the other programs do.                                   *)
THEOREM TemplatesRelease == TemplatesFit => (Spec => []TemplatesDecide)
<1> SUFFICES ASSUME TemplatesFit PROVE Spec => []TemplatesDecide
  OBVIOUS
<1>1. IInv => TemplatesDecide
  <2> SUFFICES ASSUME IInv PROVE TemplatesDecide
    OBVIOUS
  <2>1. CallOK(call) /\ MAX_STACK >= 2
    BY Calls DEF IInv, TemplatesFit
  <2>2. ASSUME NEW n \in Words, call.code = Timelock(n)
        PROVE  Releases(call.ctx.timestamp >= n)
    <3> DEFINE holds == call.ctx.timestamp >= n
    <3>1. holds \in BOOLEAN
      OBVIOUS
    <3>2. \E test, stacks : Tested(call, test, stacks, holds)
      BY <2>1, <2>2, TimelockTested
    <3> HIDE DEF holds
    <3>3. Releases(holds)
      BY <2>1, <3>1, <3>2, Decided
    <3> QED BY <3>3 DEF holds
  <2>3. ASSUME NEW n \in Words, call.code = Multisig(n)
        PROVE  Releases(call.storage[0] >= n)
    <3> DEFINE holds == call.storage[0] >= n
    <3>1. holds \in BOOLEAN
      OBVIOUS
    <3>2. \E test, stacks : Tested(call, test, stacks, holds)
      BY <2>1, <2>3, MultisigTested
    <3> HIDE DEF holds
    <3>3. Releases(holds)
      BY <2>1, <3>1, <3>2, Decided
    <3> QED BY <3>3 DEF holds
  <2>4. ASSUME NEW n \in Words, call.code = Htlc(n)
        PROVE  Releases(call.ctx.value = n)
    <3> DEFINE holds == call.ctx.value = n
    <3>1. holds \in BOOLEAN
      OBVIOUS
    <3>2. \E test, stacks : Tested(call, test, stacks, holds)
      BY <2>1, <2>4, HtlcTested
    <3> HIDE DEF holds
    <3>3. Releases(holds)
      BY <2>1, <3>1, <3>2, Decided
    <3> QED BY <3>3 DEF holds
  <2>5. ASSUME call.code = Escrow
        PROVE  Releases(call.storage[1] # 0)
    <3> DEFINE holds == call.storage[1] # 0
    <3>1. holds \in BOOLEAN
      OBVIOUS
    <3>2. \E test, stacks : Tested(call, test, stacks, holds)
      BY <2>1, <2>5, EscrowTested
    <3> HIDE DEF holds
    <3>3. Releases(holds)
      BY <2>1, <3>1, <3>2, Decided
    <3> QED BY <3>3 DEF holds
  <2> QED BY <2>2, <2>3, <2>4, <2>5 DEF TemplatesDecide
<1> QED BY Inductive, <1>1, PTL

=============================================================================
