----------------------------- MODULE Contracts ------------------------------
(***************************************************************************)
(* src/neurochain/vm/contracts.py: four programs for the NeuroVM, and when  *)
(* each of them lets a payment go.                                          *)
(***************************************************************************)
EXTENDS NeuroVM

(* What assemble makes of an opcode, and of PUSH with an immediate. *)
Op(op) == [op |-> op, arg |-> 0]
Push(n) == [op |-> "PUSH", arg |-> n % WORD]

Gate(test) == test \o <<Op("ASSERT"), Push(1), Op("RETURN")>>

Timelock(unlock_ts) ==
  Gate(<<Push(unlock_ts), Op("TIMESTAMP"), Op("LT"), Op("ISZERO")>>)

Multisig_Exceeds(threshold) == Gate(<<Push(threshold), Push(0), Op("SLOAD"), Op("GT")>>)

Multisig(threshold) ==
  Gate(<<Push(threshold), Push(0), Op("SLOAD"), Op("LT"), Op("ISZERO")>>)

Escrow == Gate(<<Push(1), Op("SLOAD")>>)

Htlc(secret) == Gate(<<Push(secret), Op("VALUE"), Op("EQ")>>)

(* A call of a template that is not cut short releases (returns 1) when the *)
(* condition held as the call began, and reverts when it did not.           *)
Releases(condition) ==
  /\ machine.status = "success" => condition /\ machine.return_value = 1
  /\ machine.status = "revert"  => ~condition

(* The templates decide what their documentation says, at the boundary too, *)
(* whatever calls came before: the time has come, there are signatures      *)
(* enough in slot 0, the arbiter has set slot 1, the secret is revealed.    *)
TemplatesDecide ==
  /\ \A n \in Words :
       /\ call.code = Timelock(n) => Releases(call.ctx.timestamp >= n)
       /\ call.code = Multisig(n) => Releases(call.storage[0] >= n)
       /\ call.code = Htlc(n)     => Releases(call.ctx.value = n)
  /\ call.code = Escrow => Releases(call.storage[1] # 0)

=============================================================================
