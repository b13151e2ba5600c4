---------------------------- MODULE ContractsMC -----------------------------
(* Words of three bits, a stack of two, twelve steps.  The host calls the   *)
(* templates, the calls that set up their storage, and programs that fail   *)
(* in every way there is.                                                   *)
EXTENDS Contracts

Templates == {Timelock(4), Multisig(3), Escrow, Htlc(5)}

(* A signer adds one to slot 0; the arbiter sets slot 1. *)
Sign == <<Push(0), Op("SLOAD"), Push(1), Op("ADD"), Push(0), Op("SSTORE")>>
Confirm == <<Push(1), Push(1), Op("SSTORE"), Push(1), Op("LOG"), Op("STOP")>>

(* Write, log, then fail. *)
WriteThenFail(last) ==
  <<Push(6), Push(2), Op("SSTORE"), Push(2), Op("LOG"), Push(0)>> \o last

Failing ==
  { WriteThenFail(<<Op("ASSERT")>>),
    WriteThenFail(<<Push(5), Op("DIV")>>),
    WriteThenFail(<<Push(5), Op("MOD")>>),
    WriteThenFail(<<Op("ADD")>>),
    WriteThenFail(<<Push(7), Op("SWAP"), Op("DUP")>>),
    WriteThenFail(<<Op("JUMP")>>) }

Loop == <<Op("JUMPDEST"), Push(0), Op("JUMP")>>
DeepLoop == <<Op("JUMPDEST"), Push(1), Push(0), Op("JUMP")>>
Idle == <<Op("JUMPDEST"), Op("JUMPDEST"), Op("JUMPDEST")>>

(* Jumps when the flag in slot 1 is set. *)
Branch == <<Push(1), Op("SLOAD"), Push(5), Op("JUMPI"), Op("RETURN"),
            Op("JUMPDEST"), Op("CALLER"), Op("RETURN")>>

Arithmetic(op) == <<Push(5), Push(3), Op(op), Op("NOT"), Op("BALANCE"), Op("RETURN")>>

MCPrograms ==
  Templates \cup Failing \cup {Sign, Confirm, Loop, DeepLoop, Idle, Branch}
            \cup {Arithmetic(op) : op \in {"SUB", "MUL", "GT", "AND", "OR"}}

(* One context opens the timelock, at its boundary, the other the htlc. *)
MCContexts ==
  { [caller |-> 6, value |-> vt[1], timestamp |-> vt[2],
     balances |-> [w \in Words |-> w * w]] : vt \in {<<0, 4>>, <<5, 3>>} }

(* A limit of MAX_STEPS, one that pays an SLOAD, one that pays an SSTORE too. *)
MCGasLimits == {12, 60, 300}

=============================================================================
