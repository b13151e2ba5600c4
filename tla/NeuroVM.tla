------------------------------ MODULE NeuroVM -------------------------------
(***************************************************************************)
(* src/neurochain/vm/neurovm.py: a stack machine that runs a contract under *)
(* a gas limit.  A state s of the machine holds the local variables of      *)
(* NeuroVM.run, and Exec is one iteration of its loop.  Between two calls   *)
(* the host keeps the storage that run returned, as the templates expect.   *)
(*                                                                          *)
(* Code is a sequence of instructions [op, arg]; pc counts from 0.  Words   *)
(* are numbers below WORD; a dictionary read with .get(k, 0) is a function  *)
(* on the words.  Of what went wrong a result tells whether it was a revert *)
(* or the gas (or the steps) ran out, which is what the bill depends on.    *)
(***************************************************************************)
EXTENDS Integers, Sequences

CONSTANTS
  \* the bits of a word; the limits of the stack and on the steps of a run
  WORD_BITS, MAX_STACK, MAX_STEPS,
  \* what the host calls: programs, contexts, gas limits
  Programs, Contexts, GasLimits

TwoTo[k \in 0..WORD_BITS] == IF k = 0 THEN 1 ELSE 2 * TwoTo[k-1]

WORD == TwoTo[WORD_BITS]
Words == 0..(WORD - 1)
None == -1

(* X_... is a plausible bug in X, which a property must notice. *)
GAS_FreeJumpdest ==
  [PUSH |-> 1, POP |-> 1, DUP |-> 1, SWAP |-> 1,
   ADD |-> 3, SUB |-> 3, MUL |-> 5, DIV |-> 5, MOD |-> 5,
   EQ |-> 3, LT |-> 3, GT |-> 3, AND |-> 3, OR |-> 3, NOT |-> 3, ISZERO |-> 3,
   JUMP |-> 8, JUMPI |-> 10, JUMPDEST |-> 0, SLOAD |-> 50, SSTORE |-> 200,
   CALLER |-> 2, VALUE |-> 2, TIMESTAMP |-> 2, BALANCE |-> 20,
   ASSERT |-> 3, LOG |-> 4, STOP |-> 0, RETURN |-> 0]

GAS == [PUSH |-> 1, POP |-> 1, DUP |-> 1, SWAP |-> 1,
        ADD |-> 3, SUB |-> 3, MUL |-> 5, DIV |-> 5, MOD |-> 5,
        EQ |-> 3, LT |-> 3, GT |-> 3, AND |-> 3, OR |-> 3, NOT |-> 3, ISZERO |-> 3,
        JUMP |-> 8, JUMPI |-> 10, JUMPDEST |-> 1, SLOAD |-> 50, SSTORE |-> 200,
        CALLER |-> 2, VALUE |-> 2, TIMESTAMP |-> 2, BALANCE |-> 20,
        ASSERT |-> 3, LOG |-> 4, STOP |-> 0, RETURN |-> 0]

Instruction == [op: DOMAIN GAS, arg: Words]

ASSUME LimitsAssumption ==
  /\ WORD_BITS \in Nat \ {0} /\ MAX_STACK \in Nat /\ MAX_STEPS \in Nat
  /\ GasLimits \subseteq Nat \ {0}
ASSUME ProgramsAssumption == Programs \subseteq Seq(Instruction)
ASSUME ContextsAssumption ==
  \A ctx \in Contexts :
    /\ ctx.caller \in Nat /\ ctx.value \in Nat /\ ctx.timestamp \in Nat
    /\ \A addr \in Words : ctx.balances[addr] \in Nat

-----------------------------------------------------------------------------
(* Instructions.  The first operand popped is a, the second b.              *)

Binary == {"ADD", "SUB", "MUL", "DIV", "MOD", "EQ", "LT", "GT", "AND", "OR"}

Pops(op) ==
  IF op \in Binary \cup {"SWAP", "JUMPI", "SSTORE"} THEN 2
  ELSE IF op \in {"POP", "DUP", "NOT", "ISZERO", "JUMP", "SLOAD", "BALANCE",
                  "ASSERT", "LOG"} THEN 1
  ELSE 0

Flag(condition) == IF condition THEN 1 ELSE 0

(* The bitwise and of the last k bits. *)
And[k \in 0..WORD_BITS] ==
  [a \in Words |-> [b \in Words |->
     IF k = 0 THEN 0
     ELSE 2 * And[k-1][a \div 2][b \div 2] + Flag(a % 2 = 1 /\ b % 2 = 1)]]

BitAnd(a, b) == And[WORD_BITS][a][b]

Computed(op, a, b) ==
  CASE op = "ADD" -> (a + b) % WORD
    [] op = "SUB" -> (a - b) % WORD
    [] op = "MUL" -> (a * b) % WORD
    [] op = "DIV" -> a \div b
    [] op = "MOD" -> a % b
    [] op = "EQ"  -> Flag(a = b)
    [] op = "LT"  -> Flag(a < b)
    [] op = "GT"  -> Flag(a > b)
    [] op = "AND" -> BitAnd(a, b)
    [] op = "OR"  -> a + b - BitAnd(a, b)

Pushed(c, s, ins, a, b) ==
  CASE ins.op = "PUSH"      -> <<ins.arg>>
    [] ins.op = "DUP"       -> <<a, a>>
    [] ins.op = "SWAP"      -> <<a, b>>
    [] ins.op \in Binary    -> <<Computed(ins.op, a, b)>>
    [] ins.op = "NOT"       -> <<WORD - 1 - a>>
    [] ins.op = "ISZERO"    -> <<Flag(a = 0)>>
    [] ins.op = "SLOAD"     -> <<s.storage[a]>>
    [] ins.op = "CALLER"    -> <<c.ctx.caller % WORD>>
    [] ins.op = "VALUE"     -> <<c.ctx.value % WORD>>
    [] ins.op = "TIMESTAMP" -> <<c.ctx.timestamp % WORD>>
    [] ins.op = "BALANCE"   -> <<c.ctx.balances[a] % WORD>>
    [] OTHER                -> <<>>

JumpDests(code) == {i \in 0..(Len(code) - 1) : code[i + 1].op = "JUMPDEST"}

Jumps(ins, b) == ins.op = "JUMP" \/ (ins.op = "JUMPI" /\ b # 0)

(* The faults beside a stack that is too short or too long. *)
Fault(c, ins, a, b) ==
  \/ ins.op \in {"DIV", "MOD"} /\ b = 0
  \/ Jumps(ins, b) /\ a \notin JumpDests(c.code)
  \/ ins.op = "ASSERT" /\ a = 0

-----------------------------------------------------------------------------
(* A run: c is the call (code, ctx, limit and the storage it was given).    *)

Start(storage, limit) ==
  [status |-> "running", pc |-> 0, stack |-> <<>>, storage |-> storage,
   logs |-> <<>>, gas |-> limit, steps |-> 0, return_value |-> None]

Succeed(s, value) ==
  [status |-> "success", pc |-> s.pc, stack |-> s.stack, storage |-> s.storage,
   logs |-> s.logs, gas |-> s.gas, steps |-> s.steps, return_value |-> value]

(* A failed run gives back the storage it was given, and no logs. *)
Rollback_Forgotten(c, s, status, gas) ==
  [status |-> status, pc |-> s.pc, stack |-> s.stack, storage |-> s.storage,
   logs |-> <<>>, gas |-> gas, steps |-> s.steps, return_value |-> None]

Rollback(c, s, status, gas) ==
  [status |-> status, pc |-> s.pc, stack |-> s.stack, storage |-> c.storage,
   logs |-> <<>>, gas |-> gas, steps |-> s.steps, return_value |-> None]

Paid(s, ins) ==
  [status |-> "running", pc |-> s.pc, stack |-> s.stack, storage |-> s.storage,
   logs |-> s.logs, gas |-> s.gas - GAS[ins.op], steps |-> s.steps + 1,
   return_value |-> None]

Advance(c, s, ins, a, b) ==
  [status  |-> "running",
   pc      |-> IF Jumps(ins, b) THEN a ELSE s.pc + 1,
   stack   |-> SubSeq(s.stack, 1, Len(s.stack) - Pops(ins.op)) \o Pushed(c, s, ins, a, b),
   storage |-> IF ins.op = "SSTORE" THEN [s.storage EXCEPT ![a] = b] ELSE s.storage,
   logs    |-> IF ins.op = "LOG" THEN Append(s.logs, a) ELSE s.logs,
   gas |-> s.gas, steps |-> s.steps, return_value |-> None]

Overflow_Late(stack) == Len(stack) > MAX_STACK + 1

Overflow(stack) == Len(stack) > MAX_STACK

(* The instruction, its gas paid. *)
Perform(c, s, ins) ==
  LET top(k) == IF Len(s.stack) < k THEN 0 ELSE s.stack[Len(s.stack) + 1 - k]
      next   == Advance(c, s, ins, top(1), top(2))
  IN IF ins.op = "STOP" THEN Succeed(s, None)
     ELSE IF ins.op = "RETURN" THEN Succeed(s, top(1))
     ELSE IF \/ Len(s.stack) < Pops(ins.op)
             \/ Fault(c, ins, top(1), top(2))
             \/ Overflow(next.stack)
          THEN Rollback(c, s, "revert", s.gas)
     ELSE next

(* One iteration; who runs out of gas, or of steps, is billed all the gas. *)
Exec_CannotSpendAll(c, s) ==
  IF s.pc >= Len(c.code) THEN Succeed(s, None)
  ELSE LET ins == c.code[s.pc + 1]
       IN IF s.steps >= MAX_STEPS \/ s.gas <= GAS[ins.op]
          THEN Rollback(c, s, "out_of_gas", 0)
          ELSE Perform(c, Paid(s, ins), ins)

Exec(c, s) ==
  IF s.pc >= Len(c.code) THEN Succeed(s, None)
  ELSE LET ins == c.code[s.pc + 1]
       IN IF s.steps >= MAX_STEPS \/ s.gas < GAS[ins.op]
          THEN Rollback(c, s, "out_of_gas", 0)
          ELSE Perform(c, Paid(s, ins), ins)

-----------------------------------------------------------------------------
(* The host: calls, one after the other, on the storage of one contract.    *)
VARIABLES
  stored,   \* contract.storage
  call,     \* the arguments of the last call of run
  machine   \* the locals of that call, and in the end its result

vars == <<stored, call, machine>>

Running == machine.status = "running"

Init ==
  /\ stored = [w \in Words |-> 0]
  /\ \E code \in Programs, ctx \in Contexts, limit \in GasLimits :
       call = [code |-> code, ctx |-> ctx, limit |-> limit, storage |-> stored]
  /\ machine = Start(stored, call.limit)

Step ==
  /\ Running
  /\ machine' = Exec(call, machine)
  /\ stored' = IF machine'.status = "running" THEN stored ELSE machine'.storage
  /\ UNCHANGED call

Call(code, ctx, limit) ==
  /\ ~Running
  /\ call' = [code |-> code, ctx |-> ctx, limit |-> limit, storage |-> stored]
  /\ machine' = Start(stored, limit)
  /\ UNCHANGED stored

Next ==
  \/ Step
  \/ \E code \in Programs, ctx \in Contexts, limit \in GasLimits : Call(code, ctx, limit)

Spec == Init /\ [][Next]_vars

-----------------------------------------------------------------------------
gas_used == call.limit - machine.gas

(* Type invariant.  The gas left is never negative, and the stack never     *)
(* longer than MAX_STACK.                                                   *)
TypeOK ==
  /\ stored \in [Words -> Words] /\ call.storage \in [Words -> Words]
  /\ call.code \in Programs /\ call.ctx \in Contexts /\ call.limit \in GasLimits
  /\ machine.status \in {"running", "success", "revert", "out_of_gas"}
  /\ machine.pc \in 0..Len(call.code)
  /\ machine.stack \in Seq(Words) /\ Len(machine.stack) <= MAX_STACK
  /\ machine.storage \in [Words -> Words] /\ machine.logs \in Seq(Words)
  /\ machine.gas \in 0..call.limit /\ machine.steps \in 0..MAX_STEPS
  /\ machine.return_value \in Words \cup {None}

(* A contract's storage changes only when a call succeeds: a call that      *)
(* reverts or runs out of gas after it wrote leaves it as it found it, and  *)
(* logs nothing.                                                            *)
AllOrNothing ==
  machine.status # "success" =>
    /\ stored = call.storage
    /\ ~Running => machine.storage = stored /\ machine.logs = <<>>

(* "Gas normally bites first" (MAX_STEPS): every instruction that a run     *)
(* goes on after cost something, so no run within a limit of MAX_STEPS is   *)
(* stopped by the backstop.                                                 *)
GasBitesFirst == Running => machine.steps <= gas_used

(* The states of the machine in call c; a run that has ended stays as it is. *)
Run(c) ==
  LET run[n \in 0..(MAX_STEPS + 1)] ==
        IF n = 0 THEN Start(c.storage, c.limit)
        ELSE IF run[n-1].status = "running" THEN Exec(c, run[n-1]) ELSE run[n-1]
  IN run

Under(limit) ==
  [code |-> call.code, ctx |-> call.ctx, limit |-> limit, storage |-> call.storage]

(* What the call would have come to under another gas limit. *)
Rerun(limit) == Run(Under(limit))[MAX_STEPS + 1]

WithGas(s, gas) ==
  [status |-> s.status, pc |-> s.pc, stack |-> s.stack, storage |-> s.storage,
   logs |-> s.logs, gas |-> gas, steps |-> s.steps, return_value |-> s.return_value]

(* Gas decides only whether a call comes to its end.  A call that succeeded *)
(* or reverted has the same result, at the same price, under any limit that *)
(* covers the price - exactly the price included -, and under a smaller one *)
(* it runs out of gas and pays that limit.                                  *)
GasOnlyCutsShort ==
  machine.status \in {"success", "revert"} =>
    \A limit \in GasLimits \cup ({gas_used} \ {0}) :
      LET other == Rerun(limit)
      IN IF limit >= gas_used
         THEN other = WithGas(machine, limit - gas_used)
         ELSE other.status = "out_of_gas" /\ other.gas = 0

=============================================================================
