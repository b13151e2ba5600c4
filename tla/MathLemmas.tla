---------------------------- MODULE MathLemmas -----------------------------
(***************************************************************************)
(* Mathematics the proofs about the components rest on: induction over the  *)
(* natural numbers, stated with sets (the provers cannot instantiate the    *)
(* library's theorems, whose parameter is an operator), finite groups, and  *)
(* arithmetic modulo a number.                                              *)
(***************************************************************************)
EXTENDS Integers, WellFoundedInduction, FiniteSetTheorems, TLAPS

-----------------------------------------------------------------------------
(* Every inhabited set of natural numbers has a least element. *)
LEMMA LeastNat ==
  ASSUME NEW S \in SUBSET Nat, S # {}
  PROVE  \E m \in S : \A k \in S : m <= k
<1> DEFINE R == {ss \in Nat \X Nat : ss[1] < ss[2]}
<1>1. IsWellFoundedOn(R, Nat)
  BY NatLessThanWellFounded DEF OpToRel
<1> HIDE DEF R
<1>2. PICK x \in S : \A y \in S : ~(<<y, x>> \in R)
  BY <1>1, WFMin
<1>3. \A y \in S : ~(y < x)
  BY <1>2 DEF R
<1> QED BY <1>3

(* Induction over the natural numbers. *)
LEMMA SetInduction ==
  ASSUME NEW S, 0 \in S, \A n \in Nat : n \in S => n + 1 \in S
  PROVE  Nat \subseteq S
<1> SUFFICES ASSUME Nat \ S # {} PROVE FALSE
  OBVIOUS
<1>1. PICK m \in Nat \ S : \A k \in Nat \ S : m <= k
  BY LeastNat
<1>2. m # 0 /\ m - 1 \in Nat /\ m - 1 \in S
  BY <1>1
<1> QED BY <1>2, m - 1 + 1 = m

(* Induction over the positions 0..n of a sequence. *)
LEMMA UpTo ==
  ASSUME NEW n \in Nat, NEW S, 0 \in S,
         \A i \in 0..(n-1) : i \in S => i + 1 \in S
  PROVE  \A i \in 0..n : i \in S
<1> DEFINE T == {i \in Nat : i <= n => i \in S}
<1>1. 0 \in T
  OBVIOUS
<1>2. \A i \in Nat : i \in T => i + 1 \in T
  <2> SUFFICES ASSUME NEW i \in Nat, i \in T, i + 1 <= n
               PROVE  i + 1 \in S
    OBVIOUS
  <2>1. i \in S /\ i \in 0..(n-1)
    OBVIOUS
  <2> QED BY <2>1
<1> HIDE DEF T
<1>3. Nat \subseteq T
  BY <1>1, <1>2, SetInduction
<1> QED BY <1>3 DEF T

-----------------------------------------------------------------------------
(* Finite groups: an operation mul, a function of pairs, on a finite set S. *)

(* The powers of x up to k. *)
Powers(mul, one, x, k) ==
  LET p[i \in 0..k] == IF i = 0 THEN one ELSE mul[p[i-1]][x]
  IN p

Power(mul, one, x, k) == Powers(mul, one, x, k)[k]

(* They exist, so their defining equation holds. *)
LEMMA PowersDef ==
  ASSUME NEW mul, NEW one, NEW x, NEW k \in Nat
  PROVE  Powers(mul, one, x, k) =
           [i \in 0..k |-> IF i = 0 THEN one ELSE mul[Powers(mul, one, x, k)[i-1]][x]]
<1> DEFINE S == {m \in Nat : \E g :
                  g = [i \in 0..m |-> IF i = 0 THEN one ELSE mul[g[i-1]][x]]}
<1>1. 0 \in S
  <2>1. [i \in 0..0 |-> one] =
          [i \in 0..0 |-> IF i = 0 THEN one ELSE mul[[j \in 0..0 |-> one][i-1]][x]]
    OBVIOUS
  <2> QED BY <2>1
<1>2. ASSUME NEW m \in Nat, m \in S PROVE m + 1 \in S
  <2>1. PICK g : g = [i \in 0..m |-> IF i = 0 THEN one ELSE mul[g[i-1]][x]]
    BY <1>2
  <2> DEFINE f == [i \in 0..(m+1) |-> IF i = m + 1 THEN mul[g[m]][x] ELSE g[i]]
  <2>2. \A i \in 0..(m+1) : f[i] = IF i = 0 THEN one ELSE mul[f[i-1]][x]
    <3> SUFFICES ASSUME NEW i \in 0..(m+1)
                 PROVE  f[i] = IF i = 0 THEN one ELSE mul[f[i-1]][x]
      OBVIOUS
    <3>1. CASE i = m + 1
      BY <3>1
    <3>2. CASE i # m + 1
      <4>1. i \in 0..m /\ f[i] = g[i] /\ (i # 0 => f[i-1] = g[i-1])
        BY <3>2
      <4> HIDE DEF f
      <4> QED BY <2>1, <4>1
    <3> QED BY <3>1, <3>2
  <2>3. f = [i \in 0..(m+1) |-> IF i = 0 THEN one ELSE mul[f[i-1]][x]]
    <3> HIDE DEF f
    <3>1. f = [i \in 0..(m+1) |-> f[i]] BY DEF f
    <3> QED BY <2>2, <3>1
  <2> HIDE DEF f
  <2> QED BY <2>3
<1> HIDE DEF S
<1>3. k \in S
  BY <1>1, <1>2, SetInduction
<1> QED BY <1>3 DEF S, Powers

LEMMA PowerZero ==
  ASSUME NEW mul, NEW one, NEW x
  PROVE  Power(mul, one, x, 0) = one
<1> DEFINE f(k) == Powers(mul, one, x, k)
<1>1. \A k \in Nat : f(k) = [i \in 0..k |-> IF i = 0 THEN one ELSE mul[f(k)[i-1]][x]]
  BY PowersDef
<1>2. Power(mul, one, x, 0) = f(0)[0]
  BY DEF Power
<1> HIDE DEF f
<1>3. f(0)[0] = one
  BY <1>1
<1> QED BY <1>2, <1>3

(* Each power is the one before it times x. *)
LEMMA PowerNext ==
  ASSUME NEW mul, NEW one, NEW x
  PROVE  \A k \in Nat : Power(mul, one, x, k + 1) = mul[Power(mul, one, x, k)][x]
<1> DEFINE f(k) == Powers(mul, one, x, k)
<1>1. \A k \in Nat : f(k) = [i \in 0..k |-> IF i = 0 THEN one ELSE mul[f(k)[i-1]][x]]
  BY PowersDef
<1>2. \A k \in Nat : Power(mul, one, x, k) = f(k)[k]
  BY DEF Power
<1> HIDE DEF f
<1>3. \A k \in Nat : f(k)[0] = one
  BY <1>1
<1>4. \A k \in Nat : \A i \in 1..k : f(k)[i] = mul[f(k)[i-1]][x]
  <2> SUFFICES ASSUME NEW k \in Nat, NEW i \in 1..k PROVE f(k)[i] = mul[f(k)[i-1]][x]
    OBVIOUS
  <2>1. i \in 0..k /\ i # 0
    OBVIOUS
  <2>2. f(k) = [j \in 0..k |-> IF j = 0 THEN one ELSE mul[f(k)[j-1]][x]]
    BY <1>1
  <2> QED BY <2>1, <2>2
<1>5. ASSUME NEW k \in Nat PROVE f(k+1)[k+1] = mul[f(k)[k]][x]
  <2> DEFINE S == {i \in Nat : f(k+1)[i] = f(k)[i]}
  <2>1. 0 \in S
    BY <1>3
  <2>2. ASSUME NEW i \in 0..(k-1), i \in S PROVE i + 1 \in S
    <3>1. i + 1 \in 1..k /\ i + 1 \in 1..(k+1) /\ (i + 1) - 1 = i /\ k + 1 \in Nat
      OBVIOUS
    <3>2. f(k)[i+1] = mul[f(k)[i]][x] /\ f(k+1)[i+1] = mul[f(k+1)[i]][x]
      BY <1>4, <3>1
    <3> QED BY <2>2, <3>2
  <2> HIDE DEF S
  <2>3. k \in S
    <3>1. \A i \in 0..k : i \in S
      BY <2>1, <2>2, UpTo
    <3> QED BY <3>1
  <2>4. k + 1 \in Nat /\ k + 1 \in 1..(k+1) /\ (k + 1) - 1 = k
    OBVIOUS
  <2>5. f(k+1)[k+1] = mul[f(k+1)[k]][x]
    BY <1>4, <2>4
  <2> QED BY <2>3, <2>5 DEF S
<1> QED BY <1>2, <1>5

(* A finite set with an associative operation that has a unit and can be    *)
(* cancelled on both sides, which makes it a group.                         *)
FiniteGroup(S, one, mul) ==
  /\ IsFiniteSet(S) /\ one \in S
  /\ \A a, b \in S : mul[a][b] \in S
  /\ \A a, b, c \in S : mul[mul[a][b]][c] = mul[a][mul[b][c]]
  /\ \A a \in S : mul[one][a] = a /\ mul[a][one] = a
  /\ \A a, b, c \in S : mul[a][b] = mul[a][c] => b = c
  /\ \A a, b, c \in S : mul[b][a] = mul[c][a] => b = c

(* Powers stay in the group. *)
LEMMA PowerIn ==
  ASSUME NEW S, NEW one, NEW mul, FiniteGroup(S, one, mul), NEW x \in S
  PROVE  \A k \in Nat : Power(mul, one, x, k) \in S
<1> DEFINE p(k) == Power(mul, one, x, k)
           R == {k \in Nat : p(k) \in S}
<1>1. p(0) = one /\ \A k \in Nat : p(k + 1) = mul[p(k)][x]
  BY PowerZero, PowerNext
<1> HIDE DEF p
<1>2. 0 \in R
  BY <1>1 DEF FiniteGroup
<1>3. ASSUME NEW k \in Nat, k \in R PROVE k + 1 \in R
  <2>1. mul[p(k)][x] \in S
    BY <1>3 DEF FiniteGroup
  <2> QED BY <1>1, <2>1
<1> HIDE DEF R
<1>4. Nat \subseteq R
  BY <1>2, <1>3, SetInduction
<1> QED BY <1>4 DEF R, p

LEMMA PowerOne ==
  ASSUME NEW S, NEW one, NEW mul, FiniteGroup(S, one, mul), NEW x \in S
  PROVE  Power(mul, one, x, 1) = x
<1>1. Power(mul, one, x, 0 + 1) = mul[Power(mul, one, x, 0)][x]
  BY PowerNext
<1> QED BY <1>1, PowerZero DEF FiniteGroup

(* Of a product of powers, the exponents are added. *)
LEMMA PowerSum ==
  ASSUME NEW S, NEW one, NEW mul, FiniteGroup(S, one, mul), NEW x \in S, NEW j \in Nat
  PROVE  \A k \in Nat : Power(mul, one, x, j + k)
                          = mul[Power(mul, one, x, j)][Power(mul, one, x, k)]
<1> DEFINE p(k) == Power(mul, one, x, k)
           Q == {k \in Nat : p(j + k) = mul[p(j)][p(k)]}
<1>1. p(0) = one /\ \A k \in Nat : p(k + 1) = mul[p(k)][x]
  BY PowerZero, PowerNext
<1>2. \A k \in Nat : p(k) \in S
  BY PowerIn
<1> HIDE DEF p
<1>3. 0 \in Q
  <2>1. j + 0 = j
    OBVIOUS
  <2> QED BY <1>1, <1>2, <2>1 DEF FiniteGroup
<1>4. ASSUME NEW k \in Nat, k \in Q PROVE k + 1 \in Q
  <2>1. j + (k + 1) = (j + k) + 1 /\ j + k \in Nat /\ k + 1 \in Nat
    OBVIOUS
  <2>2. p(j + (k + 1)) = mul[mul[p(j)][p(k)]][x] /\ p(k + 1) = mul[p(k)][x]
    BY <1>1, <1>4, <2>1
  <2>3. mul[mul[p(j)][p(k)]][x] = mul[p(j)][mul[p(k)][x]]
    BY <1>2 DEF FiniteGroup
  <2> QED BY <2>1, <2>2, <2>3
<1> HIDE DEF Q
<1>5. Nat \subseteq Q
  BY <1>3, <1>4, SetInduction
<1> QED BY <1>5 DEF Q, p

(* Of a power, the exponents are multiplied. *)
LEMMA PowerOfPower ==
  ASSUME NEW S, NEW one, NEW mul, FiniteGroup(S, one, mul), NEW x \in S, NEW j \in Nat
  PROVE  \A k \in Nat : Power(mul, one, Power(mul, one, x, j), k) = Power(mul, one, x, k * j)
<1> DEFINE p(k) == Power(mul, one, x, k)
           y == p(j)
           q(k) == Power(mul, one, y, k)
           R == {k \in Nat : q(k) = p(k * j)}
<1>1. p(0) = one
  BY PowerZero
<1>2. \A k \in Nat : p(k) \in S
  BY PowerIn
<1>3. \A i, k \in Nat : p(i + k) = mul[p(i)][p(k)]
  BY PowerSum
<1>4. q(0) = one /\ \A k \in Nat : q(k + 1) = mul[q(k)][y]
  BY PowerZero, PowerNext
<1> HIDE DEF q
<1>5. y = p(j)
  OBVIOUS
<1> HIDE DEF p, y
<1>6. 0 \in R
  <2>1. 0 * j = 0
    OBVIOUS
  <2> QED BY <1>1, <1>4, <2>1
<1>7. ASSUME NEW k \in Nat, k \in R PROVE k + 1 \in R
  <2>1. (k + 1) * j = k * j + j /\ k * j \in Nat /\ k + 1 \in Nat
    OBVIOUS
  <2>2. p(k * j + j) = mul[p(k * j)][p(j)]
    BY <1>3, <2>1
  <2> QED BY <1>4, <1>5, <1>7, <2>1, <2>2
<1> HIDE DEF R
<1>8. Nat \subseteq R
  BY <1>6, <1>7, SetInduction
<1> QED BY <1>8 DEF R, q, p, y

(* Where x^n is the unit and n + 2 = 4e, the e-th power is a square root of  *)
(* the square of x.                                                        *)
LEMMA RootOfSquare ==
  ASSUME NEW S, NEW one, NEW mul, FiniteGroup(S, one, mul), NEW x \in S,
         NEW n \in Nat, Power(mul, one, x, n) = one,
         NEW e \in Nat, e * 2 + e * 2 = n + 2, NEW c, c = mul[x][x]
  PROVE  /\ c \in S /\ Power(mul, one, c, e) \in S
         /\ mul[Power(mul, one, c, e)][Power(mul, one, c, e)] = c
<1> DEFINE w(k) == Power(mul, one, x, k)
           e2 == e * 2
<1>1. \A k \in Nat : w(k) \in S
  BY PowerIn
<1>2. w(1) = x /\ w(n) = one
  BY PowerOne
<1>3. ASSUME NEW j \in Nat, NEW k \in Nat PROVE w(j + k) = mul[w(j)][w(k)]
  BY PowerSum
<1>4. \A j \in Nat : Power(mul, one, w(2), j) = w(j * 2)
  <2>1. 2 \in Nat
    OBVIOUS
  <2> QED BY <2>1, PowerOfPower
<1> HIDE DEF w
<1>5. w(2) = c
  <2>1. 1 \in Nat /\ 1 + 1 = 2
    OBVIOUS
  <2>2. w(1 + 1) = mul[w(1)][w(1)]
    BY <1>3, <2>1
  <2> QED BY <1>2, <2>1, <2>2
<1>6. e2 \in Nat /\ 2 \in Nat /\ e2 + e2 = n + 2
  OBVIOUS
<1>7. Power(mul, one, c, e) = w(e2)
  BY <1>4, <1>5
<1> HIDE DEF e2
<1>8. mul[w(e2)][w(e2)] = w(e2 + e2)
  BY <1>3, <1>6
<1>9. w(n + 2) = mul[w(n)][w(2)]
  BY <1>3, <1>6
<1>10. mul[one][c] = c /\ c \in S
  BY <1>1, <1>5, <1>6 DEF FiniteGroup
<1> QED BY <1>1, <1>2, <1>5, <1>6, <1>7, <1>8, <1>9, <1>10

(* The order of an element. *)
LEMMA Order ==
  ASSUME NEW S, NEW one, NEW mul, FiniteGroup(S, one, mul), NEW x \in S
  PROVE  \E d \in Nat \ {0} : /\ Power(mul, one, x, d) = one
                              /\ \A k \in 1..(d-1) : Power(mul, one, x, k) # one
<1> DEFINE p(k) == Power(mul, one, x, k)
           n == Cardinality(S)
           f == [k \in 0..n |-> p(k)]
           D == {k \in Nat \ {0} : p(k) = one}
<1>1. \A k \in Nat : p(k) \in S
  BY PowerIn
<1>2. ASSUME NEW j \in Nat, NEW k \in Nat, p(j) = p(k), j < k PROVE D # {}
  <2>1. PICK i \in Nat \ {0} : k = j + i
    <3>1. k - j \in Nat \ {0} /\ k = j + (k - j)
      BY <1>2
    <3> QED BY <3>1
  <2>2. p(j + i) = mul[p(j)][p(i)]
    BY PowerSum
  <2> HIDE DEF p
  <2>3. mul[p(j)][p(i)] = mul[p(j)][one] /\ one \in S
    BY <1>1, <1>2, <2>1, <2>2 DEF FiniteGroup
  <2>4. p(i) = one
    BY <1>1, <2>3 DEF FiniteGroup
  <2> QED BY <2>4
<1> HIDE DEF p
<1>3. D # {}
  <2>1. IsFiniteSet(S) /\ n \in Nat
    BY FS_CardinalityType DEF FiniteGroup
  <2> HIDE DEF n
  <2>2. IsFiniteSet(0..n) /\ Cardinality(0..n) = n + 1
    BY <2>1, FS_Interval
  <2>3. n < n + 1
    BY <2>1
  <2>4. f \in [0..n -> S]
    BY <1>1
  <2>5. n = Cardinality(S)
    BY DEF n
  <2> HIDE DEF f
  <2>6. PICK j, k \in 0..n : j # k /\ f[j] = f[k]
    BY <2>1, <2>2, <2>3, <2>4, <2>5, FS_PigeonHole
  <2>7. p(j) = p(k) /\ (j < k \/ k < j) /\ j \in Nat /\ k \in Nat
    BY <2>1, <2>6 DEF f
  <2> HIDE DEF D
  <2> QED BY <1>2, <2>7
<1>4. PICK d \in D : \A k \in D : d <= k
  <2>1. D \in SUBSET Nat
    OBVIOUS
  <2> HIDE DEF D
  <2> QED BY <1>3, <2>1, LeastNat
<1>5. \A k \in 1..(d-1) : p(k) # one
  BY <1>4
<1> QED BY <1>4, <1>5 DEF p

(* The order of an element divides that of the group: its orbits partition  *)
(* every set that multiplication by it does not leave.                      *)
LEMMA OrderDivides ==
  ASSUME NEW S, NEW one, NEW mul, FiniteGroup(S, one, mul), NEW x \in S,
         NEW d \in Nat \ {0}, Power(mul, one, x, d) = one,
         \A k \in 1..(d-1) : Power(mul, one, x, k) # one
  PROVE  \E c \in Nat : Cardinality(S) = c * d
<1> DEFINE p(k) == Power(mul, one, x, k)
           Closed(T) == T \subseteq S /\ \A t \in T : mul[x][t] \in T
           Bad == {n \in Nat : \E T : Closed(T) /\ Cardinality(T) = n
                                        /\ ~\E c \in Nat : n = c * d}
<1>1. \A k \in Nat : p(k) \in S
  BY PowerIn
<1>2. p(0) = one /\ p(d) = one /\ \A k \in 1..(d-1) : p(k) # one
  BY PowerZero
<1>3. \A k \in Nat : p(k + 1) = mul[x][p(k)]
  <2> SUFFICES ASSUME NEW k \in Nat PROVE p(k + 1) = mul[x][p(k)]
    OBVIOUS
  <2>1. p(1 + k) = mul[p(1)][p(k)]
    <3>1. \A j \in Nat : p(j + k) = mul[p(j)][p(k)]
      BY PowerSum
    <3> HIDE DEF p
    <3> QED BY <3>1
  <2>2. p(1) = x
    BY PowerOne
  <2>3. 1 + k = k + 1
    OBVIOUS
  <2> HIDE DEF p
  <2> QED BY <2>1, <2>2, <2>3
<1>4. ASSUME NEW j \in Nat, NEW k \in Nat, p(j) = p(k), j < k, k < d PROVE FALSE
  <2>1. PICK i \in 1..(d-1) : k = j + i
    <3>1. k - j \in 1..(d-1) /\ k = j + (k - j)
      BY <1>4
    <3> QED BY <3>1
  <2>2. i \in Nat
    OBVIOUS
  <2>3. p(j + i) = mul[p(j)][p(i)]
    BY <2>2, PowerSum
  <2> HIDE DEF p
  <2>4. mul[p(j)][p(i)] = mul[p(j)][one] /\ one \in S
    BY <1>1, <1>4, <2>1, <2>2, <2>3 DEF FiniteGroup
  <2>5. p(i) = one
    BY <1>1, <2>2, <2>4 DEF FiniteGroup
  <2> QED BY <1>2, <2>5
<1> HIDE DEF p
<1>5. Bad = {}
  <2> SUFFICES ASSUME Bad # {} PROVE FALSE
    OBVIOUS
  <2>1. PICK n \in Bad : \A k \in Bad : n <= k
    <3>1. Bad \in SUBSET Nat
      OBVIOUS
    <3> HIDE DEF Bad
    <3> QED BY <3>1, LeastNat
  <2>2. PICK T : Closed(T) /\ Cardinality(T) = n /\ ~\E c \in Nat : n = c * d
    BY <2>1
  <2>3. n \in Nat /\ IsFiniteSet(T)
    BY <2>1, <2>2, FS_Subset DEF FiniteGroup
  <2>4. PICK t : t \in T
    <3>1. n # 0
      <4>1. 0 = 0 * d
        OBVIOUS
      <4> QED BY <2>2, <4>1
    <3> QED BY <2>2, <2>3, <3>1, FS_EmptySet
  <2>5. t \in S
    BY <2>2, <2>4
  <2> DEFINE o(i) == mul[p(i)][t]
             O == {o(i) : i \in 0..(d-1)}
             f == [i \in 1..d |-> o(i-1)]
             U == T \ O
  <2>6. ASSUME NEW k \in Nat PROVE o(k) \in S /\ o(k + 1) = mul[x][o(k)]
    <3>1. p(k) \in S /\ p(k + 1) = mul[x][p(k)]
      BY <1>1, <1>3
    <3>2. mul[p(k)][t] \in S /\ mul[mul[x][p(k)]][t] = mul[x][mul[p(k)][t]]
      BY <2>5, <3>1 DEF FiniteGroup
    <3> QED BY <3>1, <3>2
  <2>7. o(0) = t /\ o(d) = t
    BY <1>2, <2>5 DEF FiniteGroup
  <2>8. \A i, j \in 0..(d-1) : o(i) = o(j) => i = j
    <3> SUFFICES ASSUME NEW i \in 0..(d-1), NEW j \in 0..(d-1), o(i) = o(j) PROVE i = j
      OBVIOUS
    <3>1. i \in Nat /\ j \in Nat /\ i < d /\ j < d /\ (i = j \/ i < j \/ j < i)
      OBVIOUS
    <3>2. p(i) = p(j)
      BY <1>1, <2>5, <3>1 DEF FiniteGroup
    <3> QED BY <1>4, <3>1, <3>2
  <2> HIDE DEF o
  <2>9. O \subseteq T
    <3> DEFINE R == {k \in Nat : o(k) \in T}
    <3>1. 0 \in R
      BY <2>4, <2>7
    <3>2. \A k \in Nat : k \in R => k + 1 \in R
      BY <2>2, <2>6
    <3> HIDE DEF R
    <3>3. Nat \subseteq R
      BY <3>1, <3>2, SetInduction
    <3>4. \A i \in 0..(d-1) : i \in Nat
      OBVIOUS
    <3> QED BY <3>3, <3>4 DEF R
  <2>10. Cardinality(O) = d
    <3>1. \A i \in 0..(d-1) : i + 1 \in 1..d /\ (i + 1) - 1 = i
      OBVIOUS
    <3>2. \A i \in 1..d : i - 1 \in 0..(d-1) /\ f[i] = o(i-1)
      OBVIOUS
    <3>3. DOMAIN f = 1..d /\ f = [i \in DOMAIN f |-> f[i]]
      OBVIOUS
    <3>4. \A u \in O : \E i \in 0..(d-1) : u = o(i)
      OBVIOUS
    <3>5. \A i \in 0..(d-1) : o(i) \in O
      OBVIOUS
    <3> HIDE DEF f, O
    <3>6. f \in [1..d -> O]
      BY <3>2, <3>3, <3>5
    <3>7. \A u \in O : \E i \in 1..d : f[i] = u
      <4> SUFFICES ASSUME NEW u \in O PROVE \E i \in 1..d : f[i] = u
        OBVIOUS
      <4>1. PICK i \in 0..(d-1) : u = o(i)
        BY <3>4
      <4>2. i + 1 \in 1..d /\ f[i + 1] = u
        BY <3>1, <3>2, <4>1
      <4> QED BY <4>2
    <3>8. \A i, j \in 1..d : f[i] = f[j] => i = j
      <4> SUFFICES ASSUME NEW i \in 1..d, NEW j \in 1..d, f[i] = f[j] PROVE i = j
        OBVIOUS
      <4>1. i - 1 = j - 1
        BY <2>8, <3>2
      <4> QED BY <4>1
    <3>9. f \in Bijection(1..d, O)
      BY <3>6, <3>7, <3>8 DEF Bijection, Injection, Surjection, IsInjective
    <3>10. ExistsBijection(1..d, O) /\ d \in Nat
      BY <3>9 DEF ExistsBijection
    <3> QED BY <3>10, FS_CountingElements
  <2>11. Cardinality(U) = n - d /\ n - d \in Nat
    <3>1. Cardinality(U) = Cardinality(T) - Cardinality(T \cap O)
      BY <2>3, FS_Difference
    <3>2. T \cap O = O
      BY <2>9
    <3>3. IsFiniteSet(U) /\ Cardinality(U) \in Nat
      BY <2>3, FS_Difference, FS_CardinalityType
    <3> QED BY <2>2, <2>10, <3>1, <3>2, <3>3
  <2>12. Closed(U)
    <3> SUFFICES ASSUME NEW u \in T, mul[x][u] \in O PROVE u \in O
      BY <2>2
    <3>1. PICK i \in 0..(d-1) : mul[x][u] = o(i)
      OBVIOUS
    <3>2. PICK j \in 0..(d-1) : mul[x][u] = o(j + 1)
      <4>1. CASE i = 0
        <5>1. d - 1 \in 0..(d-1) /\ (d - 1) + 1 = d
          OBVIOUS
        <5> QED BY <2>7, <3>1, <4>1, <5>1
      <4>2. CASE i # 0
        <5>1. i - 1 \in 0..(d-1) /\ (i - 1) + 1 = i
          BY <4>2
        <5> QED BY <3>1, <5>1
      <4> QED BY <4>1, <4>2
    <3>3. j \in Nat /\ mul[x][u] = mul[x][o(j)] /\ u \in S
      BY <2>2, <2>6, <3>2
    <3>4. o(j) \in S
      BY <2>6, <3>3
    <3>5. \A a, b, c \in S : mul[a][b] = mul[a][c] => b = c
      BY DEF FiniteGroup
    <3>6. u = o(j)
      BY <3>3, <3>4, <3>5
    <3> QED BY <3>6
  <2>13. n - d \notin Bad
    <3> HIDE DEF Bad
    <3> QED BY <2>1, <2>3
  <2>14. PICK c \in Nat : n - d = c * d
    BY <2>11, <2>12, <2>13
  <2>15. n = (c + 1) * d /\ c + 1 \in Nat
    BY <2>3, <2>14
  <2> QED BY <2>2, <2>15
<1>6. Closed(S)
  BY DEF FiniteGroup
<1>7. Cardinality(S) \in Nat
  BY FS_CardinalityType DEF FiniteGroup
<1> QED BY <1>5, <1>6, <1>7

(* Lagrange: a power by the order of the group is the unit. *)
LEMMA Lagrange ==
  ASSUME NEW S, NEW one, NEW mul, FiniteGroup(S, one, mul), NEW x \in S
  PROVE  Power(mul, one, x, Cardinality(S)) = one
<1>1. PICK d \in Nat \ {0} : /\ Power(mul, one, x, d) = one
                             /\ \A k \in 1..(d-1) : Power(mul, one, x, k) # one
  BY Order
<1>2. PICK c \in Nat : Cardinality(S) = c * d
  BY <1>1, OrderDivides
<1>3. Power(mul, one, Power(mul, one, x, d), c) = Power(mul, one, x, c * d)
  BY PowerOfPower
<1>4. Power(mul, one, one, c) = one
  <2> DEFINE R == {k \in Nat : Power(mul, one, one, k) = one}
  <2>1. 0 \in R
    BY PowerZero
  <2>2. ASSUME NEW k \in Nat, k \in R PROVE k + 1 \in R
    <3>1. Power(mul, one, one, k + 1) = mul[Power(mul, one, one, k)][one]
      BY PowerNext
    <3> QED BY <2>2, <3>1 DEF FiniteGroup
  <2> HIDE DEF R
  <2>3. Nat \subseteq R
    BY <2>1, <2>2, SetInduction
  <2> QED BY <2>3 DEF R
<1> QED BY <1>1, <1>2, <1>3, <1>4

-----------------------------------------------------------------------------
(* Arithmetic modulo m. *)

Divides(m, a) == \E k \in Int : a = k * m

LEMMA DividesSum ==
  ASSUME NEW m \in Nat, NEW a \in Int, NEW b \in Int, Divides(m, a), Divides(m, b)
  PROVE  Divides(m, a + b) /\ Divides(m, a - b)
<1>1. PICK j \in Int : a = j * m
  BY DEF Divides
<1>2. PICK k \in Int : b = k * m
  BY DEF Divides
<1>3. a + b = (j + k) * m /\ a - b = (j - k) * m
  BY <1>1, <1>2
<1>4. j + k \in Int /\ j - k \in Int
  OBVIOUS
<1> QED BY <1>3, <1>4 DEF Divides

LEMMA DividesProduct ==
  ASSUME NEW m \in Nat, NEW a \in Int, NEW c \in Int, Divides(m, a)
  PROVE  Divides(m, a * c) /\ Divides(m, c * a)
<1>1. PICK j \in Int : a = j * m
  BY DEF Divides
<1>2. a * c = (j * c) * m /\ c * a = (j * c) * m /\ j * c \in Int
  BY <1>1
<1> QED BY <1>2 DEF Divides

LEMMA DividesSmall ==
  ASSUME NEW m \in Nat, NEW a \in Int, Divides(m, a), -m < a, a < m
  PROVE  a = 0
<1>1. PICK k \in Int : a = k * m
  BY DEF Divides
<1>2. CASE k = 0
  BY <1>1, <1>2
<1>3. CASE k >= 1
  <2>1. k * m >= m
    BY <1>3
  <2> QED BY <1>1, <2>1
<1>4. CASE k <= -1
  <2>1. k * m <= -m
    BY <1>4
  <2> QED BY <1>1, <2>1
<1> QED BY <1>2, <1>3, <1>4

LEMMA ModRest ==
  ASSUME NEW m \in Nat \ {0}, NEW a \in Int
  PROVE  a % m \in 0..(m-1) /\ Divides(m, a - (a % m)) /\ Divides(m, (a % m) - a)
<1> DEFINE q == a \div m
           r == a % m
<1>1. q \in Int /\ r \in 0..(m-1) /\ a = m * q + r
  OBVIOUS
<1>2. a % m = r
  OBVIOUS
<1> HIDE DEF q, r
<1>3. a - r = q * m /\ r - a = (-q) * m /\ -q \in Int
  BY <1>1
<1>4. Divides(m, a - r) /\ Divides(m, r - a)
  BY <1>1, <1>3 DEF Divides
<1> QED BY <1>1, <1>2, <1>4

LEMMA ModSmall ==
  ASSUME NEW m \in Nat \ {0}, NEW a \in 0..(m-1)
  PROVE  a % m = a
<1> DEFINE r == a % m
<1>1. r \in 0..(m-1) /\ Divides(m, a - r)
  <2>1. a \in Int
    OBVIOUS
  <2> QED BY <2>1, ModRest
<1>2. r = a % m
  OBVIOUS
<1> HIDE DEF r
<1>3. a - r \in Int /\ -m < a - r /\ a - r < m /\ m \in Nat
  BY <1>1
<1>4. a - r = 0
  BY <1>1, <1>3, DividesSmall
<1> QED BY <1>1, <1>2, <1>4

(* Equal remainders, and how they come about. *)
LEMMA ModEqual ==
  ASSUME NEW m \in Nat \ {0}, NEW a \in Int, NEW b \in Int
  PROVE  a % m = b % m <=> Divides(m, a - b)
<1> DEFINE r == a % m
           s == b % m
<1>1. r \in 0..(m-1) /\ s \in 0..(m-1) /\ m \in Nat
      /\ Divides(m, a - r) /\ Divides(m, b - s) /\ Divides(m, r - a)
  BY ModRest
<1>2. r = a % m /\ s = b % m
  OBVIOUS
<1> HIDE DEF r, s
<1>3. ASSUME r = s PROVE Divides(m, a - b)
  <2>1. a - r \in Int /\ b - s \in Int /\ a - b = (a - r) - (b - s)
    BY <1>1, <1>3
  <2> DEFINE u == a - r
             v == b - s
  <2>2. Divides(m, u - v)
    <3>1. u \in Int /\ v \in Int /\ Divides(m, u) /\ Divides(m, v)
      BY <1>1, <2>1
    <3> HIDE DEF u, v
    <3> QED BY <1>1, <3>1, DividesSum
  <2> QED BY <2>1, <2>2
<1>4. ASSUME Divides(m, a - b) PROVE r = s
  <2> DEFINE u == a - b
             v == b - s
             w == r - a
  <2>1. u \in Int /\ v \in Int /\ w \in Int /\ r - s = (u + v) + w /\ u + v \in Int
        /\ Divides(m, u) /\ Divides(m, v) /\ Divides(m, w)
    BY <1>1, <1>4
  <2> HIDE DEF u, v, w
  <2>2. Divides(m, u + v)
    BY <1>1, <2>1, DividesSum
  <2>3. Divides(m, (u + v) + w)
    BY <1>1, <2>1, <2>2, DividesSum
  <2>4. r - s \in Int /\ -m < r - s /\ r - s < m
    BY <1>1
  <2>5. r - s = 0
    BY <1>1, <2>1, <2>3, <2>4, DividesSmall
  <2> QED BY <1>1, <2>5
<1> QED BY <1>2, <1>3, <1>4

LEMMA ModZero ==
  ASSUME NEW m \in Nat \ {0}, NEW a \in Int
  PROVE  a % m = 0 <=> Divides(m, a)
<1>1. 0 \in 0..(m-1) /\ a - 0 = a
  OBVIOUS
<1>2. 0 % m = 0
  BY <1>1, ModSmall
<1>3. a % m = 0 % m <=> Divides(m, a - 0)
  BY ModEqual
<1> QED BY <1>1, <1>2, <1>3

(* A sum or a product depends on the remainders of its parts. *)
LEMMA ModPlus ==
  ASSUME NEW m \in Nat \ {0}, NEW a \in Int, NEW c \in Int
  PROVE  /\ ((a % m) + c) % m = (a + c) % m
         /\ (c - (a % m)) % m = (c - a) % m
<1> DEFINE r == a % m
           u == r + c
           v == a + c
           w == c - r
           x == c - a
<1>1. r \in 0..(m-1) /\ Divides(m, a - r) /\ Divides(m, r - a)
  BY ModRest
<1>2. r = a % m
  OBVIOUS
<1> HIDE DEF r
<1>3. u \in Int /\ v \in Int /\ w \in Int /\ x \in Int /\ u - v = r - a /\ w - x = a - r
  BY <1>1
<1> HIDE DEF u, v, w, x
<1>4. u % m = v % m
  BY <1>1, <1>3, ModEqual
<1>5. w % m = x % m
  BY <1>1, <1>3, ModEqual
<1> QED BY <1>2, <1>4, <1>5 DEF u, v, w, x

LEMMA ModTimes ==
  ASSUME NEW m \in Nat \ {0}, NEW a \in Int, NEW c \in Int
  PROVE  /\ ((a % m) * c) % m = (a * c) % m
         /\ (c * (a % m)) % m = (a * c) % m
<1> DEFINE r == a % m
           d == r - a
           u == r * c
           v == a * c
           dc == d * c
<1>1. r \in 0..(m-1) /\ Divides(m, d) /\ m \in Nat
  BY ModRest
<1>2. r = a % m
  OBVIOUS
<1> HIDE DEF r
<1>3. u \in Int /\ v \in Int /\ d \in Int /\ u - v = dc /\ u = c * r
  BY <1>1
<1> HIDE DEF d
<1>4. Divides(m, dc)
  BY <1>1, <1>3, DividesProduct
<1>5. u = r * c /\ v = a * c
  OBVIOUS
<1> HIDE DEF u, v, dc
<1>6. u % m = v % m
  BY <1>3, <1>4, ModEqual
<1> QED BY <1>2, <1>3, <1>5, <1>6

IsPrime(p) == p \in Nat /\ p > 1 /\ \A d \in 2..(p-1) : p % d # 0

(* Euclid: a prime divides a product only if it divides one of the factors. *)
LEMMA Euclid ==
  ASSUME NEW p, IsPrime(p), NEW a \in Int, NEW b \in Int, Divides(p, a * b), ~Divides(p, a)
  PROVE  Divides(p, b)
<1> DEFINE K == {k \in Nat \ {0} : Divides(p, k * b)}
<1>1. p \in Nat \ {0} /\ p > 1
  BY DEF IsPrime
<1>2. p \in K
  <2>1. p * b = b * p
    BY <1>1
  <2> QED BY <1>1, <2>1 DEF Divides
<1>3. a % p \in K
  <2> DEFINE r == a % p
             u == a - r
             ub == u * b
             ab == a * b
             rb == r * b
  <2>1. r \in 0..(p-1) /\ Divides(p, u) /\ r # 0
    BY <1>1, ModRest, ModZero
  <2>2. r = a % p
    OBVIOUS
  <2> HIDE DEF r
  <2>3. u \in Int /\ p \in Nat
    BY <1>1, <2>1
  <2>4. rb = ab - ub /\ rb \in Int /\ ab \in Int /\ ub \in Int
    BY <1>1, <2>1
  <2> HIDE DEF u
  <2>5. Divides(p, ub) /\ Divides(p, ab)
    BY <2>1, <2>3, DividesProduct
  <2>6. rb = r * b
    OBVIOUS
  <2> HIDE DEF ub, ab, rb
  <2>7. Divides(p, rb)
    BY <2>3, <2>4, <2>5, DividesSum
  <2> QED BY <2>1, <2>2, <2>6, <2>7
<1>4. PICK k \in K : \A n \in K : k <= n
  <2>1. K \in SUBSET Nat /\ K # {}
    BY <1>2
  <2> HIDE DEF K
  <2> QED BY <2>1, LeastNat
<1>5. p % k = 0
  <2> DEFINE r == p % k
             q == p \div k
             pb == p * b
             kb == k * b
             qkb == q * kb
             rb == r * b
  <2>1. k \in Nat \ {0} /\ Divides(p, kb) /\ Divides(p, pb)
    BY <1>2, <1>4
  <2>2. r \in 0..(k-1) /\ q \in Int /\ p = k * q + r
    BY <1>1, <2>1
  <2>3. r = p % k
    OBVIOUS
  <2> HIDE DEF r, q
  <2>4. rb = pb - qkb
    BY <1>1, <2>1, <2>2
  <2>5. pb \in Int /\ kb \in Int /\ p \in Nat
    BY <1>1, <2>1
  <2>6. rb = r * b
    OBVIOUS
  <2> HIDE DEF pb, kb, rb
  <2>7. qkb \in Int /\ Divides(p, qkb)
    BY <2>1, <2>2, <2>5, DividesProduct
  <2> HIDE DEF qkb
  <2>8. Divides(p, rb)
    BY <2>1, <2>4, <2>5, <2>7, DividesSum
  <2>9. r # 0 => r \in K
    BY <2>2, <2>6, <2>8
  <2> HIDE DEF K
  <2> QED BY <1>4, <2>1, <2>2, <2>3, <2>9
<1>6. k < p
  <2>1. a % p <= p - 1
    BY <1>1, ModRest
  <2>2. k <= a % p /\ k \in Nat /\ a % p \in Nat
    BY <1>3, <1>4
  <2> QED BY <1>1, <2>1, <2>2
<1>7. k = 1
  <2>1. k \in Nat \ {0}
    BY <1>4
  <2>2. k \in 2..(p-1) => FALSE
    BY <1>5 DEF IsPrime
  <2> QED BY <1>1, <1>6, <2>1, <2>2
<1>8. Divides(p, 1 * b) /\ 1 * b = b
  BY <1>4, <1>7
<1> QED BY <1>8

(* The numbers below a prime are a group under multiplication. *)
Times(p) == [a \in 1..(p-1) |-> [b \in 1..(p-1) |-> (a * b) % p]]

LEMMA PrimeGroup ==
  ASSUME NEW p, IsPrime(p)
  PROVE  FiniteGroup(1..(p-1), 1, Times(p)) /\ Cardinality(1..(p-1)) = p - 1
<1> DEFINE S == 1..(p-1)
           mul == Times(p)
<1>1. p \in Nat \ {0} /\ p > 1 /\ p \in Nat
  BY DEF IsPrime
<1>2. IsFiniteSet(S) /\ Cardinality(S) = p - 1 /\ 1 \in S
  <2>1. 1 \in Int /\ p - 1 \in Int /\ ~(1 > p - 1) /\ (p - 1) - 1 + 1 = p - 1
    BY <1>1
  <2>2. IsFiniteSet(S) /\ Cardinality(S) = (p - 1) - 1 + 1
    BY <2>1, FS_Interval
  <2> QED BY <1>1, <2>1, <2>2
<1>3. \A a, b \in S : mul[a][b] = (a * b) % p
  BY DEF Times
<1>4. \A a \in S : a \in Int /\ a \in 0..(p-1) /\ ~Divides(p, a)
  <2> SUFFICES ASSUME NEW a \in S, Divides(p, a) PROVE FALSE
    BY <1>1
  <2>1. a \in Int /\ -p < a /\ a < p /\ a # 0
    BY <1>1
  <2> QED BY <1>1, <2>1, DividesSmall
<1>5. ASSUME NEW a \in S, NEW b \in S PROVE mul[a][b] \in S
  <2> DEFINE c == a * b
  <2>1. c \in Int /\ c % p \in 0..(p-1)
    <3>1. c \in Int
      BY <1>4
    <3> HIDE DEF c
    <3> QED BY <1>1, <3>1, ModRest
  <2>2. c % p # 0
    <3>1. ~Divides(p, a * b)
      BY <1>4, Euclid
    <3>2. ~Divides(p, c)
      BY <3>1
    <3> HIDE DEF c
    <3> QED BY <1>1, <2>1, <3>2, ModZero
  <2>3. mul[a][b] = c % p
    BY <1>3
  <2> HIDE DEF c, mul
  <2> QED BY <1>1, <2>1, <2>2, <2>3
<1>6. ASSUME NEW a \in S, NEW b \in S, NEW c \in S
      PROVE  mul[mul[a][b]][c] = mul[a][mul[b][c]]
  <2> DEFINE ab == a * b
             bc == b * c
             r == ab % p
             s == bc % p
  <2>1. mul[a][b] = r /\ mul[b][c] = s /\ r \in S /\ s \in S
    BY <1>3, <1>5
  <2>2. mul[r][c] = (r * c) % p /\ mul[a][s] = (a * s) % p
    BY <1>3, <2>1
  <2>3. ab \in Int /\ bc \in Int /\ a \in Int /\ c \in Int /\ ab * c = a * bc
    BY <1>4
  <2> HIDE DEF mul, ab, bc
  <2>4. (r * c) % p = (ab * c) % p
    BY <1>1, <2>3, ModTimes
  <2>5. (a * s) % p = (bc * a) % p
    BY <1>1, <2>3, ModTimes
  <2>6. bc * a = a * bc
    BY <2>3
  <2> QED BY <2>1, <2>2, <2>3, <2>4, <2>5, <2>6
<1>7. \A a, b \in S : mul[a][b] = mul[b][a]
  <2> SUFFICES ASSUME NEW a \in S, NEW b \in S PROVE mul[a][b] = mul[b][a]
    OBVIOUS
  <2>1. a * b = b * a
    OBVIOUS
  <2> QED BY <1>3, <2>1
<1>8. \A a \in S : mul[1][a] = a /\ mul[a][1] = a
  <2> SUFFICES ASSUME NEW a \in S PROVE mul[1][a] = a /\ mul[a][1] = a
    OBVIOUS
  <2>1. 1 * a = a /\ a * 1 = a
    OBVIOUS
  <2>2. a % p = a
    BY <1>1, <1>4, ModSmall
  <2> QED BY <1>2, <1>3, <2>1, <2>2
<1>9. ASSUME NEW a \in S, NEW b \in S, NEW c \in S, mul[a][b] = mul[a][c] PROVE b = c
  <2> DEFINE ab == a * b
             ac == a * c
             d == b - c
  <2>1. ab % p = ac % p
    BY <1>3, <1>9
  <2>2. ab \in Int /\ ac \in Int /\ a * d = ab - ac /\ d \in Int /\ a \in Int
    BY <1>4
  <2> HIDE DEF ab, ac, mul
  <2>3. Divides(p, ab - ac)
    BY <1>1, <2>1, <2>2, ModEqual
  <2>4. -p < d /\ d < p
    BY <1>1
  <2>5. (d = 0) => b = c
    BY <1>4
  <2> HIDE DEF d
  <2>6. Divides(p, a * d)
    BY <2>2, <2>3
  <2>7. Divides(p, d)
    BY <1>4, <2>2, <2>6, Euclid
  <2> QED BY <1>1, <2>2, <2>4, <2>5, <2>7, DividesSmall
<1> HIDE DEF mul
<1>10. FiniteGroup(S, 1, mul)
  <2>1. \A a, b \in S : mul[a][b] \in S
    BY <1>5
  <2>2. \A a, b, c \in S : mul[mul[a][b]][c] = mul[a][mul[b][c]]
    BY <1>6
  <2>3. \A a, b, c \in S : mul[a][b] = mul[a][c] => b = c
    BY <1>9
  <2>4. \A a, b, c \in S : mul[b][a] = mul[c][a] => b = c
    BY <1>7, <2>3
  <2> QED BY <1>2, <1>8, <2>1, <2>2, <2>3, <2>4 DEF FiniteGroup
<1> QED BY <1>2, <1>10 DEF mul

(* Fermat: the power by p - 1 of a number below the prime p is 1. *)
LEMMA Fermat ==
  ASSUME NEW p, IsPrime(p), NEW x \in 1..(p-1)
  PROVE  Power(Times(p), 1, x, p - 1) = 1
BY PrimeGroup, Lagrange

=============================================================================
