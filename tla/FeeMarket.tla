----------------------------- MODULE FeeMarket ------------------------------
(***************************************************************************)
(* src/neurochain/economics/fee_market.py: the base fee, a feedback         *)
(* controller in integer arithmetic that follows how full the blocks are.   *)
(***************************************************************************)
EXTENDS Integers

CONSTANTS
  \* the settings and the first base fees FeeMarket is constructed with
  Settings, FirstFees,
  \* the gas that update is told of, the tips that bidders offer
  GasReports, Tips,
  \* bound: the base fee does not rise any more from here on
  MaxFee

ASSUME SettingsAssumption ==
  Settings \subseteq
    [target_gas: Int, max_gas: Int, denominator: Int, min_base_fee: Int]
ASSUME FeesAssumption ==
  FirstFees \subseteq Int /\ GasReports \subseteq Int /\ Tips \subseteq Int
ASSUME MaxFeeAssumption == MaxFee \in Nat

VARIABLES
  market,     \* the attributes that never change
  base_fee,   \* self.base_fee
  gas_used,   \* what the last block used, as update clamped it
  first       \* the base fee the market opened with

vars == <<market, base_fee, gas_used, first>>

Larger(a, b) == IF a >= b THEN a ELSE b
Smaller(a, b) == IF a <= b THEN a ELSE b

(* __init__ raises ValueError on any other setting. *)
Legal(m) ==
  /\ m.target_gas > 0 /\ m.denominator > 0
  /\ m.min_base_fee >= 0 /\ m.max_gas >= m.target_gas

Init ==
  /\ market \in {m \in Settings : Legal(m)}
  /\ \E fee \in FirstFees : first = Larger(fee, market.min_base_fee)
  /\ base_fee = first
  /\ gas_used = market.target_gas

(* Up or down by this much, for a block that many units off the target.     *)
(* X_... is a plausible bug in X, which a property must notice.             *)
Delta_Misplaced(m, fee, off) == fee * (off \div (m.target_gas * m.denominator))

Delta(m, fee, off) == (fee * off) \div (m.target_gas * m.denominator)

Raised_ByDelta(m, fee, off) == fee + Delta(m, fee, off)

Raised(m, fee, off) == fee + Larger(1, Delta(m, fee, off))

Lowered_Ceiling(m, fee, off) == Larger(m.min_base_fee, fee - Delta(m, fee, off) - 1)
Lowered_NoFloor(m, fee, off) == fee - Delta(m, fee, off)

Lowered(m, fee, off) == Larger(m.min_base_fee, fee - Delta(m, fee, off))

Clamped_Below(m, gas) == Larger(0, gas)

Clamped(m, gas) == Larger(0, Smaller(gas, m.max_gas))

NextFee(m, fee, gas) ==
  IF gas = m.target_gas THEN fee
  ELSE IF gas > m.target_gas THEN Raised(m, fee, gas - m.target_gas)
  ELSE Lowered(m, fee, m.target_gas - gas)

Update(gas) ==
  /\ gas_used' = Clamped(market, gas)
  /\ base_fee' = NextFee(market, base_fee, gas_used')
  /\ gas_used' > market.target_gas => base_fee < MaxFee
  /\ UNCHANGED <<market, first>>

Next == \E gas \in GasReports : Update(gas)

Spec == Init /\ [][Next]_vars

(* Blocks keep coming; as long as nobody uses any gas, they are empty ones. *)
FairSpec == Spec /\ WF_vars(Update(0))

-----------------------------------------------------------------------------
(* quote, affordable and effective_fee, at a given base fee; a ValueError   *)
(* is Refused, which is no fee.                                             *)
Refused == -1

Quote(fee, tip) == IF tip < 0 THEN Refused ELSE fee + tip

Affordable(fee, max_fee) == max_fee >= fee

EffectiveFee(fee, max_fee, tip) ==
  IF Affordable(fee, max_fee) THEN Smaller(max_fee, fee + Larger(0, tip)) ELSE Refused

-----------------------------------------------------------------------------
(* Type invariant; the base fee is never below its floor. *)
TypeOK ==
  /\ market \in Settings /\ Legal(market)
  /\ base_fee \in Nat /\ base_fee >= market.min_base_fee
  /\ gas_used \in 0..market.max_gas
  /\ first \in Nat /\ first >= market.min_base_fee

(* Feedback: a block above the target raises the fee, one at the target     *)
(* leaves it alone, one below never raises it nor takes more than           *)
(* 1/denominator of it.                                                     *)
Feedback ==
  [][/\ gas_used' > market.target_gas => base_fee' > base_fee
     /\ gas_used' = market.target_gas => base_fee' = base_fee
     /\ gas_used' < market.target_gas =>
          /\ base_fee' <= base_fee
          /\ (base_fee - base_fee') * market.denominator <= base_fee]_vars

(* How far one block can raise the fee, however much gas is reported. *)
Headroom(m, fee) == Larger(1, Delta(m, fee, m.max_gas - m.target_gas))

(* A quote outlasts a block: whoever bids the quoted total, with a tip of   *)
(* Headroom or more, can still afford the base fee one block later, and is  *)
(* charged no less than that and no more than the quote.                    *)
QuoteOutlastsBlock ==
  [][\A tip \in Tips :
       tip >= Headroom(market, base_fee) =>
         LET total == Quote(base_fee, tip)
         IN /\ Affordable(base_fee', total)
            /\ EffectiveFee(base_fee', total, tip) \in base_fee'..total]_vars

(* The decrease is rounded down, so a fee below the denominator no longer   *)
(* falls: a market never gets below this, whatever min_base_fee says.       *)
EffectiveFloor ==
  base_fee >= Larger(market.min_base_fee, Smaller(first, market.denominator - 1))

(* Whenever congestion is over for good and the blocks stay empty, the fee  *)
(* comes down, from wherever congestion drove it, to its floor or at least  *)
(* below the denominator, and stays there.                                  *)
CongestionPasses ==
  <>[](gas_used = 0) =>
    <>[](base_fee < market.denominator \/ base_fee = market.min_base_fee)

=============================================================================
