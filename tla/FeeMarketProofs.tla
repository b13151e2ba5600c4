-------------------------- MODULE FeeMarketProofs ---------------------------
(* What FeeMarket.tla checks for small markets, proved for all settings,    *)
(* reports and tips.                                                        *)
EXTENDS FeeMarket, TLAPS

LEMMA Division ==
  ASSUME NEW a \in Nat, NEW b \in Nat \ {0}
  PROVE  a \div b \in Nat /\ b * (a \div b) <= a /\ a < b * ((a \div b) + 1)
OBVIOUS

LEMMA ProductMonotone ==
  ASSUME NEW k \in Nat, NEW a \in Nat, NEW b \in Nat, a <= b
  PROVE  k * a \in Nat /\ k * a <= k * b
OBVIOUS

LEMMA DivisionMonotone ==
  ASSUME NEW a \in Nat, NEW c \in Nat, NEW b \in Nat \ {0}, a <= c
  PROVE  a \div b <= c \div b
<1> DEFINE p == a \div b
<1> DEFINE q == c \div b
<1>1. p \in Nat /\ b * p <= a
  BY Division
<1>2. q \in Nat /\ c < b * (q + 1)
  BY Division
<1>3. b * p < b * (q + 1)
  BY <1>1, <1>2
<1> HIDE DEF p, q
<1>4. ~(q + 1 <= p)
  BY <1>1, <1>2, <1>3
<1>5. p <= q
  BY <1>1, <1>2, <1>4
<1> QED
  BY <1>5 DEF p, q

(* A market the constructor accepted. *)
Market(m) == m \in Settings /\ Legal(m)

LEMMA MarketNumbers ==
  ASSUME NEW m, Market(m)
  PROVE  /\ m.target_gas \in Nat \ {0} /\ m.denominator \in Nat \ {0}
         /\ m.min_base_fee \in Nat /\ m.max_gas \in Nat /\ m.max_gas >= m.target_gas
         /\ m.target_gas * m.denominator \in Nat \ {0}
<1>1. /\ m.target_gas \in Nat \ {0} /\ m.denominator \in Nat \ {0}
      /\ m.min_base_fee \in Nat /\ m.max_gas \in Nat /\ m.max_gas >= m.target_gas
  BY SettingsAssumption DEF Market, Legal
<1> QED
  BY <1>1

(* The change is a natural number, and grows with the distance. *)
LEMMA DeltaMonotone ==
  ASSUME NEW m, Market(m), NEW fee \in Nat, NEW off \in Nat, NEW far \in Nat, off <= far
  PROVE  Delta(m, fee, off) \in Nat /\ Delta(m, fee, off) <= Delta(m, fee, far)
<1>1. fee * off \in Nat /\ fee * far \in Nat /\ fee * off <= fee * far
  BY ProductMonotone
<1> QED
  BY <1>1, MarketNumbers, Division, DivisionMonotone DEF Delta

(* At most a block of no gas at all takes: one denominator-th. *)
LEMMA DeltaShare ==
  ASSUME NEW m, Market(m), NEW fee \in Nat, NEW off \in Nat, off <= m.target_gas
  PROVE  Delta(m, fee, off) \in Nat /\ Delta(m, fee, off) * m.denominator <= fee
<1> DEFINE t == m.target_gas
<1> DEFINE n == m.denominator
<1> DEFINE d == (fee * off) \div (t * n)
<1>1. t \in Nat \ {0} /\ n \in Nat \ {0} /\ t * n \in Nat \ {0}
  BY MarketNumbers
<1>2. fee * off \in Nat /\ fee * off <= fee * t
  BY <1>1, ProductMonotone
<1>3. d \in Nat /\ (t * n) * d <= fee * off
  BY <1>1, <1>2, Division
<1>4. d = Delta(m, fee, off) /\ off <= t
  BY DEF Delta
<1> HIDE DEF d, t, n
<1>5. t * (n * d) <= t * fee
  BY <1>1, <1>2, <1>3
<1>6. ~(fee + 1 <= n * d)
  <2> SUFFICES ASSUME fee + 1 <= n * d PROVE FALSE
    OBVIOUS
  <2>1. n * d \in Nat
    BY <1>1, <1>3
  <2>2. t * (fee + 1) <= t * (n * d)
    BY <1>1, <2>1, ProductMonotone
  <2>3. t * (fee + 1) = t * fee + t /\ t * fee \in Nat
    BY <1>1
  <2> QED
    BY <1>1, <1>5, <2>1, <2>2, <2>3
<1>7. n * d <= fee
  BY <1>1, <1>3, <1>6
<1> QED
  BY <1>1, <1>3, <1>4, <1>7 DEF n

-----------------------------------------------------------------------------
IInv == TypeOK /\ EffectiveFloor

LEMMA ClampedRange ==
  ASSUME NEW m, Market(m), NEW gas \in Int
  PROVE  Clamped(m, gas) \in 0..m.max_gas
BY MarketNumbers DEF Clamped, Larger, Smaller

LEMMA Rise ==
  ASSUME NEW m, Market(m), NEW fee \in Nat, NEW gas \in 0..m.max_gas,
         gas > m.target_gas
  PROVE  /\ NextFee(m, fee, gas) \in Nat
         /\ fee + 1 <= NextFee(m, fee, gas)
         /\ NextFee(m, fee, gas) <= fee + Headroom(m, fee)
<1> DEFINE off == gas - m.target_gas
<1> DEFINE far == m.max_gas - m.target_gas
<1>1. off \in Nat /\ far \in Nat /\ off <= far
  BY MarketNumbers
<1>2. /\ Delta(m, fee, off) \in Nat /\ Delta(m, fee, far) \in Nat
      /\ Delta(m, fee, off) <= Delta(m, fee, far)
  BY <1>1, DeltaMonotone
<1>3. NextFee(m, fee, gas) = fee + Larger(1, Delta(m, fee, off))
  BY MarketNumbers DEF NextFee, Raised
<1>4. Headroom(m, fee) = Larger(1, Delta(m, fee, far))
  BY DEF Headroom
<1> HIDE DEF off, far
<1> QED
  BY <1>2, <1>3, <1>4 DEF Larger

LEMMA Fall ==
  ASSUME NEW m, Market(m), NEW fee \in Nat, fee >= m.min_base_fee,
         NEW gas \in 0..m.max_gas, gas < m.target_gas
  PROVE  /\ NextFee(m, fee, gas) \in Nat
         /\ NextFee(m, fee, gas) >= m.min_base_fee
         /\ NextFee(m, fee, gas) <= fee
         /\ (fee - NextFee(m, fee, gas)) * m.denominator <= fee
         /\ fee >= m.denominator - 1 => NextFee(m, fee, gas) >= m.denominator - 1
         /\ fee < m.denominator => NextFee(m, fee, gas) = fee
<1> DEFINE off == m.target_gas - gas
<1> DEFINE d == Delta(m, fee, off)
<1> DEFINE n == m.denominator
<1> DEFINE next == NextFee(m, fee, gas)
<1>1. off \in Nat /\ off <= m.target_gas /\ n \in Nat \ {0} /\ m.min_base_fee \in Nat
  BY MarketNumbers
<1>2. d \in Nat /\ d * n <= fee
  BY <1>1, DeltaShare
<1>3. next = Larger(m.min_base_fee, fee - d)
  BY MarketNumbers DEF NextFee, Lowered
<1> HIDE DEF off, d, next, n
<1>4. d <= fee
  BY <1>1, <1>2
<1>5. next \in Nat /\ next >= m.min_base_fee /\ next <= fee /\ fee - next \in Nat /\ fee - next <= d
  BY <1>1, <1>2, <1>3, <1>4 DEF Larger
<1>6. (fee - next) * n <= fee
  <2>1. n * (fee - next) <= n * d
    BY <1>1, <1>2, <1>5, ProductMonotone
  <2> QED
    BY <1>1, <1>2, <1>5, <2>1
<1>7. fee < n => d = 0
  BY <1>1, <1>2
<1>8. fee < n => next = fee
  BY <1>2, <1>5, <1>7
<1>9. ASSUME fee >= n PROVE fee - d >= n - 1
  <2>1. CASE d = 0
    BY <1>1, <1>9, <2>1
  <2>2. CASE d # 0
    \* (d - 1) (n - 1) >= 0, so d n >= d + n - 1
    <3>1. d - 1 \in Nat /\ n - 1 \in Nat
      BY <1>1, <1>2, <2>2
    <3>2. (d - 1) * (n - 1) >= 0
      BY <3>1
    <3>3. (d - 1) * (n - 1) = d * n - d - n + 1
      BY <1>1, <1>2
    <3> QED
      BY <1>1, <1>2, <3>2, <3>3
  <2> QED
    BY <2>1, <2>2
<1>10. fee >= n - 1 => next >= n - 1
  BY <1>1, <1>2, <1>3, <1>8, <1>9 DEF Larger
<1> QED
  BY <1>5, <1>6, <1>8, <1>10 DEF next, n

LEMMA InitIInv == Init => IInv
<1> SUFFICES ASSUME Init PROVE IInv
  OBVIOUS
<1>1. Market(market)
  BY DEF Init, Market
<1>2. PICK fee \in FirstFees : first = Larger(fee, market.min_base_fee)
  BY DEF Init
<1>3. fee \in Int /\ market.min_base_fee \in Nat
  BY <1>1, MarketNumbers, FeesAssumption
<1>4. first \in Nat /\ first >= market.min_base_fee
  BY <1>2, <1>3 DEF Larger
<1>5. TypeOK
  BY <1>1, <1>4, MarketNumbers DEF Init, TypeOK, Market
<1>6. EffectiveFloor
  BY <1>1, <1>4, MarketNumbers DEF Init, EffectiveFloor, Larger, Smaller
<1> QED
  BY <1>5, <1>6 DEF IInv

(* A step of the market, as the fee before and after it. *)
LEMMA UpdateStep ==
  ASSUME TypeOK, NEW gas \in GasReports, Update(gas)
  PROVE  /\ Market(market) /\ market' = market /\ first' = first
         /\ base_fee \in Nat /\ gas_used' \in 0..market.max_gas
         /\ base_fee' = NextFee(market, base_fee, gas_used')
<1>1. Market(market)
  BY DEF TypeOK, Market
<1>2. gas_used' \in 0..market.max_gas
  BY <1>1, ClampedRange, FeesAssumption DEF Update
<1> QED
  BY <1>1, <1>2 DEF Update, TypeOK

LEMMA NextIInv == IInv /\ [Next]_vars => IInv'
<1> SUFFICES ASSUME IInv, [Next]_vars PROVE IInv'
  OBVIOUS
<1>1. CASE UNCHANGED vars
  BY <1>1 DEF vars, IInv, TypeOK, EffectiveFloor
<1>2. CASE Next
  <2>1. PICK gas \in GasReports : Update(gas)
    BY <1>2 DEF Next
  <2>2. TypeOK /\ EffectiveFloor
    BY DEF IInv
  <2>3. /\ Market(market) /\ market' = market /\ first' = first
        /\ base_fee \in Nat /\ gas_used' \in 0..market.max_gas
        /\ base_fee' = NextFee(market, base_fee, gas_used')
    BY <2>1, <2>2, UpdateStep
  <2>4. /\ market.target_gas \in Nat /\ market.denominator \in Nat \ {0}
        /\ market.min_base_fee \in Nat /\ market.max_gas \in Nat
        /\ base_fee >= market.min_base_fee /\ first \in Nat
    BY <2>2, <2>3, MarketNumbers DEF TypeOK
  <2>5. /\ base_fee' \in Nat /\ base_fee' >= market.min_base_fee
        /\ base_fee' >= Larger(market.min_base_fee, Smaller(first, market.denominator - 1))
    <3>1. CASE gas_used' = market.target_gas
      BY <2>2, <2>3, <2>4, <3>1 DEF NextFee, EffectiveFloor
    <3>2. CASE gas_used' > market.target_gas
      BY <2>2, <2>3, <2>4, <3>2, Rise DEF EffectiveFloor, Larger, Smaller
    <3>3. CASE gas_used' < market.target_gas
      BY <2>2, <2>3, <2>4, <3>3, Fall DEF EffectiveFloor, Larger, Smaller
    <3> QED
      BY <2>3, <2>4, <3>1, <3>2, <3>3
  <2>6. TypeOK'
    BY <2>2, <2>3, <2>5 DEF TypeOK
  <2>7. EffectiveFloor'
    BY <2>3, <2>5 DEF EffectiveFloor
  <2> QED
    BY <2>6, <2>7 DEF IInv
<1> QED
  BY <1>1, <1>2

THEOREM Inductive == Spec => []IInv
BY InitIInv, NextIInv, PTL DEF Spec

(* Whatever gas is reported, the base fee stays a natural number above its  *)
(* configured floor.                                                        *)
THEOREM TypeCorrect == Spec => []TypeOK
<1>1. IInv => TypeOK
  BY DEF IInv
<1> QED
  BY <1>1, Inductive, PTL

(* No series of empty blocks takes the fee below denominator - 1, where the *)
(* rounding down of the decrease leaves it for ever.                        *)
THEOREM RoundingFloor == Spec => []EffectiveFloor
<1>1. IInv => EffectiveFloor
  BY DEF IInv
<1> QED
  BY <1>1, Inductive, PTL

(* The fee follows the occupancy of every block, at the rates above. *)
THEOREM FollowsOccupancy == Spec => Feedback
<1> DEFINE Follows ==
     /\ gas_used' > market.target_gas => base_fee' > base_fee
     /\ gas_used' = market.target_gas => base_fee' = base_fee
     /\ gas_used' < market.target_gas =>
          /\ base_fee' <= base_fee
          /\ (base_fee - base_fee') * market.denominator <= base_fee
<1>1. ASSUME IInv, Next PROVE Follows
  <2>1. PICK gas \in GasReports : Update(gas)
    BY <1>1 DEF Next
  <2>2. /\ Market(market) /\ base_fee \in Nat /\ gas_used' \in 0..market.max_gas
        /\ base_fee' = NextFee(market, base_fee, gas_used')
        /\ base_fee >= market.min_base_fee
    BY <1>1, <2>1, UpdateStep DEF IInv, TypeOK
  <2>3. gas_used' > market.target_gas => base_fee' > base_fee
    BY <2>2, Rise
  <2>4. gas_used' = market.target_gas => base_fee' = base_fee
    BY <2>2 DEF NextFee
  <2>5. gas_used' < market.target_gas =>
          /\ base_fee' <= base_fee
          /\ (base_fee - base_fee') * market.denominator <= base_fee
    BY <2>2, Fall
  <2> QED
    BY <2>3, <2>4, <2>5
<1>2. IInv /\ [Next]_vars => [Follows]_vars
  BY <1>1
<1> QED
  BY <1>2, Inductive, PTL DEF Spec, Feedback

(* A quote with Headroom as its tip is good for one more block. *)
THEOREM QuoteIsGood == Spec => QuoteOutlastsBlock
<1> DEFINE Good ==
     \A tip \in Tips :
       tip >= Headroom(market, base_fee) =>
         LET total == Quote(base_fee, tip)
         IN /\ Affordable(base_fee', total)
            /\ EffectiveFee(base_fee', total, tip) \in base_fee'..total
<1>1. ASSUME IInv, Next PROVE Good
  <2>1. PICK gas \in GasReports : Update(gas)
    BY <1>1 DEF Next
  <2>2. /\ Market(market) /\ base_fee \in Nat /\ gas_used' \in 0..market.max_gas
        /\ base_fee' = NextFee(market, base_fee, gas_used')
        /\ base_fee >= market.min_base_fee
    BY <1>1, <2>1, UpdateStep DEF IInv, TypeOK
  <2>3. Headroom(market, base_fee) \in Nat /\ Headroom(market, base_fee) >= 1
    <3>1. market.max_gas - market.target_gas \in Nat
      BY <2>2, MarketNumbers
    <3>2. Delta(market, base_fee, market.max_gas - market.target_gas) \in Nat
      BY <2>2, <3>1, DeltaMonotone
    <3> QED
      BY <3>2 DEF Headroom, Larger
  <2>4. base_fee' \in Nat /\ base_fee' <= base_fee + Headroom(market, base_fee)
    <3>1. CASE gas_used' = market.target_gas
      BY <2>2, <2>3, <3>1 DEF NextFee
    <3>2. CASE gas_used' > market.target_gas
      BY <2>2, <3>2, Rise
    <3>3. CASE gas_used' < market.target_gas
      BY <2>2, <2>3, <3>3, Fall
    <3> QED
      BY <2>2, <3>1, <3>2, <3>3, MarketNumbers
  <2> QED
    BY <2>2, <2>3, <2>4, FeesAssumption DEF Quote, Affordable, EffectiveFee, Refused, Larger, Smaller
<1>2. IInv /\ [Next]_vars => [Good]_vars
  BY <1>1
<1> QED
  BY <1>2, Inductive, PTL DEF Spec, QuoteOutlastsBlock

=============================================================================
