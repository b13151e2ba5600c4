----------------------------- MODULE CallsProofs ----------------------------
(***************************************************************************)
(* Lemmas about the parts of NeuroChain that keep no state, and from them   *)
(* the theorems on the calls of Calls.tla: Merkle trees and light clients   *)
(* for blocks of every size, the difficulty controller after any number of  *)
(* observations, proofs of useful work after any training, robust and       *)
(* weighted aggregates of batches of every size, keys and signatures on     *)
(* every curve.  A call returns what its arguments alone determine, so each *)
(* property follows from the lemmas on the actions that it is about.        *)
(***************************************************************************)
EXTENDS Calls, MathLemmas, FiniteSetTheorems, TLAPS

-----------------------------------------------------------------------------
(* The recursive functions exist, so their defining equations hold. *)

LEMMA LayerDef ==
  ASSUME NEW hs, Len(hs) \in Nat
  PROVE  Layer(hs) = [h \in 0..Len(hs) |->
                        IF h = 0 THEN hs ELSE NextLayer(Layer(hs)[h-1])]
<1> DEFINE S == {m \in Nat : \E g :
             g = [h \in 0..m |-> IF h = 0 THEN hs ELSE NextLayer(g[h-1])]}
<1>1. 0 \in S
  <2>1. [h \in 0..0 |-> hs] =
          [h \in 0..0 |-> IF h = 0 THEN hs ELSE NextLayer([j \in 0..0 |-> hs][h-1])]
    OBVIOUS
  <2> QED BY <2>1
<1>2. ASSUME NEW m \in Nat, m \in S PROVE m + 1 \in S
  <2>1. PICK g : g = [h \in 0..m |-> IF h = 0 THEN hs ELSE NextLayer(g[h-1])]
    BY <1>2
  <2> DEFINE f == [h \in 0..(m+1) |-> IF h = m + 1 THEN NextLayer(g[m]) ELSE g[h]]
  <2>2. \A h \in 0..(m+1) : f[h] = IF h = 0 THEN hs ELSE NextLayer(f[h-1])
    BY <2>1
  <2>3. f = [h \in 0..(m+1) |-> IF h = 0 THEN hs ELSE NextLayer(f[h-1])]
    <3> HIDE DEF f
    <3>1. f = [h \in 0..(m+1) |-> f[h]] BY DEF f
    <3> QED BY <2>2, <3>1
  <2> HIDE DEF f
  <2> QED BY <2>3
<1> HIDE DEF S
<1>3. Len(hs) \in S
  BY <1>1, <1>2, SetInduction
<1> QED BY <1>3 DEF S, Layer

(* The same for the positions on the way up... *)
LEMMA PositionDef ==
  ASSUME NEW index, NEW height \in Nat
  PROVE  Position(index, height) =
           [h \in 0..height |->
              IF h = 0 THEN index ELSE Position(index, height)[h-1] \div 2]
<1> DEFINE S == {m \in Nat : \E g :
             g = [h \in 0..m |-> IF h = 0 THEN index ELSE g[h-1] \div 2]}
<1>1. 0 \in S
  <2>1. [h \in 0..0 |-> index] =
          [h \in 0..0 |-> IF h = 0 THEN index ELSE [j \in 0..0 |-> index][h-1] \div 2]
    OBVIOUS
  <2> QED BY <2>1
<1>2. ASSUME NEW m \in Nat, m \in S PROVE m + 1 \in S
  <2>1. PICK g : g = [h \in 0..m |-> IF h = 0 THEN index ELSE g[h-1] \div 2]
    BY <1>2
  <2> DEFINE f == [h \in 0..(m+1) |-> IF h = m + 1 THEN g[m] \div 2 ELSE g[h]]
  <2>2. \A h \in 0..(m+1) : f[h] = IF h = 0 THEN index ELSE f[h-1] \div 2
    BY <2>1
  <2>3. f = [h \in 0..(m+1) |-> IF h = 0 THEN index ELSE f[h-1] \div 2]
    <3> HIDE DEF f
    <3>1. f = [h \in 0..(m+1) |-> f[h]] BY DEF f
    <3> QED BY <2>2, <3>1
  <2> HIDE DEF f
  <2> QED BY <2>3
<1> HIDE DEF S
<1>3. height \in S
  BY <1>1, <1>2, SetInduction
<1> QED BY <1>3 DEF S, Position

(* One step up, from hash acc. *)
Up(acc, step) ==
  IF step.side = "right" THEN Hash(acc, step.hash) ELSE Hash(step.hash, acc)

(* ... and for the hashes a proof leads to. *)
LEMMA ClimbDef ==
  ASSUME NEW leaf, NEW proof, Len(proof) \in Nat
  PROVE  Climb(leaf, proof) =
           [h \in 0..Len(proof) |->
              IF h = 0 THEN leaf ELSE Up(Climb(leaf, proof)[h-1], proof[h])]
<1> DEFINE S == {m \in Nat : \E g :
             g = [h \in 0..m |-> IF h = 0 THEN leaf ELSE Up(g[h-1], proof[h])]}
<1>1. 0 \in S
  <2>1. [h \in 0..0 |-> leaf] =
          [h \in 0..0 |-> IF h = 0 THEN leaf
                          ELSE Up([j \in 0..0 |-> leaf][h-1], proof[h])]
    OBVIOUS
  <2> QED BY <2>1
<1>2. ASSUME NEW m \in Nat, m \in S PROVE m + 1 \in S
  <2>1. PICK g : g = [h \in 0..m |-> IF h = 0 THEN leaf ELSE Up(g[h-1], proof[h])]
    BY <1>2
  <2> DEFINE f == [h \in 0..(m+1) |-> IF h = m + 1 THEN Up(g[m], proof[m+1]) ELSE g[h]]
  <2>2. \A h \in 0..(m+1) : f[h] = IF h = 0 THEN leaf ELSE Up(f[h-1], proof[h])
    BY <2>1
  <2>3. f = [h \in 0..(m+1) |-> IF h = 0 THEN leaf ELSE Up(f[h-1], proof[h])]
    <3> HIDE DEF f
    <3>1. f = [h \in 0..(m+1) |-> f[h]] BY DEF f
    <3> QED BY <2>2, <3>1
  <2> HIDE DEF f
  <2> QED BY <2>3
<1> HIDE DEF S
<1>3. Len(proof) \in S
  BY <1>1, <1>2, SetInduction
<1> QED BY <1>3 DEF S, Climb, Up

-----------------------------------------------------------------------------
(* A layer is a sequence that is not empty. *)
IsLayer(s) == (\E U : s \in Seq(U)) /\ Len(s) >= 1

(* Padding makes the length even and changes nothing else. *)
LEMMA PaddedLayer ==
  ASSUME NEW s, IsLayer(s)
  PROVE  /\ IsLayer(Padded(s))
         /\ Len(Padded(s)) = 2 * ((Len(s) + 1) \div 2)
         /\ \A i \in 1..Len(s) : Padded(s)[i] = s[i]
<1>1. PICK U : s \in Seq(U)
  BY DEF IsLayer
<1>2. Len(s) \in Nat /\ Len(s) >= 1 /\ s[Len(s)] \in U
  BY <1>1 DEF IsLayer
<1>3. CASE Len(s) % 2 = 1
  <2>1. Padded(s) = Append(s, s[Len(s)])
    BY <1>3 DEF Padded
  <2>2. Padded(s) \in Seq(U) /\ Len(Padded(s)) = Len(s) + 1
    BY <2>1, <1>1, <1>2
  <2>3. \A i \in 1..Len(s) : Padded(s)[i] = s[i]
    BY <2>1, <1>1, <1>2
  <2>4. Len(s) + 1 = 2 * ((Len(s) + 1) \div 2)
    BY <1>2, <1>3
  <2> QED BY <2>2, <2>3, <2>4, <1>2 DEF IsLayer
<1>4. CASE Len(s) % 2 # 1
  <2>1. Padded(s) = s
    BY <1>4 DEF Padded
  <2>2. Len(s) = 2 * ((Len(s) + 1) \div 2)
    BY <1>2, <1>4
  <2> QED BY <2>1, <2>2 DEF IsLayer
<1> QED BY <1>3, <1>4

(* The next layer has half as many hashes, rounded up. *)
LEMMA NextLayerShape ==
  ASSUME NEW s, IsLayer(s)
  PROVE  /\ IsLayer(NextLayer(s))
         /\ Len(NextLayer(s)) = (Len(s) + 1) \div 2
         /\ \A i \in 1..Len(NextLayer(s)) :
              NextLayer(s)[i] = Hash(Padded(s)[2*i - 1], Padded(s)[2*i])
<1> DEFINE n == (Len(s) + 1) \div 2
           e(i) == Hash(Padded(s)[2*i - 1], Padded(s)[2*i])
           V == {e(i) : i \in 1..n}
<1>1. Len(s) \in Nat /\ Len(s) >= 1
  BY DEF IsLayer
<1>2. n \in Nat /\ n >= 1
  BY <1>1
<1>3. Len(Padded(s)) \div 2 = n
  <2>1. Len(Padded(s)) = 2 * n
    BY PaddedLayer
  <2> HIDE DEF n
  <2> QED BY <2>1, <1>2
<1>4. NextLayer(s) = [i \in 1..n |-> e(i)]
  BY <1>3 DEF NextLayer
<1> HIDE DEF n, e
<1>5. NextLayer(s) \in Seq(V) /\ Len(NextLayer(s)) = n
  BY <1>2, <1>4
<1> QED BY <1>2, <1>4, <1>5 DEF IsLayer, n, e

-----------------------------------------------------------------------------
(* Half of a layer, rounded up, and of a position in it. *)
LEMMA Halves ==
  ASSUME NEW x \in Nat, x >= 1
  PROVE  /\ (x + 1) \div 2 \in Nat /\ (x + 1) \div 2 >= 1
         /\ x >= 2 => (x + 1) \div 2 <= x - 1
         /\ x = 1 => (x + 1) \div 2 = 1
         /\ \A p \in 0..(x-1) : p \div 2 \in 0..((x + 1) \div 2 - 1)
OBVIOUS

(* Every layer but the first is shorter than the one below, until one hash  *)
(* is left.                                                                 *)
LEMMA LayersShrink ==
  ASSUME NEW hs, IsLayer(hs)
  PROVE  \A h \in 0..Len(hs) :
           /\ IsLayer(Layer(hs)[h])
           /\ Len(Layer(hs)[h]) \in Nat
           /\ Len(Layer(hs)[h]) = 1 \/ Len(Layer(hs)[h]) <= Len(hs) - h
<1> DEFINE L == Layer(hs)
           n == Len(hs)
           Fine(h) == /\ IsLayer(L[h])
                      /\ Len(L[h]) \in Nat
                      /\ Len(L[h]) = 1 \/ Len(L[h]) <= n - h
           S == {h \in 0..n : Fine(h)}
<1>1. n \in Nat
  BY DEF IsLayer
<1>2. L = [h \in 0..n |-> IF h = 0 THEN hs ELSE NextLayer(L[h-1])]
  BY <1>1, LayerDef
<1>3. 0 \in S
  BY <1>1, <1>2
<1>4. ASSUME NEW h \in 0..(n-1), h \in S PROVE h + 1 \in S
  <2> HIDE DEF L
  <2>1. L[h+1] = NextLayer(L[h])
    BY <1>1, <1>2
  <2>2. IsLayer(L[h]) /\ Len(L[h]) \in Nat /\ Len(L[h]) >= 1
    BY <1>4 DEF IsLayer
  <2>3. IsLayer(L[h+1]) /\ Len(L[h+1]) = (Len(L[h]) + 1) \div 2
    BY <2>1, <2>2, NextLayerShape
  <2>4. Len(L[h]) = 1 \/ Len(L[h]) <= n - h
    BY <1>4
  <2>5. Len(L[h+1]) \in Nat /\ (Len(L[h+1]) = 1 \/ Len(L[h+1]) <= n - (h + 1))
    <3> DEFINE x == Len(L[h])
    <3>1. x \in Nat /\ x >= 1 /\ (x = 1 \/ x <= n - h)
      BY <2>2, <2>4
    <3>2. Len(L[h+1]) = (x + 1) \div 2
      BY <2>3
    <3> HIDE DEF x, n
    <3> QED BY <1>1, <3>1, <3>2, Halves
  <2>6. h + 1 \in 0..n
    BY <1>1
  <2> QED BY <2>3, <2>5, <2>6
<1> HIDE DEF S
<1>5. \A h \in 0..n : h \in S
  BY <1>1, <1>3, <1>4, UpTo
<1> QED BY <1>5 DEF S

(* The loop of merkle_root ends, with one hash. *)
LEMMA HeightExists ==
  ASSUME NEW hs, IsLayer(hs)
  PROVE  /\ Height(hs) \in 0..Len(hs)
         /\ Len(Layer(hs)[Height(hs)]) = 1
         /\ \A k \in 0..(Height(hs) - 1) : Len(Layer(hs)[k]) > 1
<1> DEFINE n == Len(hs)
           S == {h \in 0..n : Len(Layer(hs)[h]) <= 1}
<1>1. n \in Nat
  BY DEF IsLayer
<1>2. \A h \in 0..n : Len(Layer(hs)[h]) \in Nat /\ Len(Layer(hs)[h]) >= 1
  BY LayersShrink DEF IsLayer
<1>3. n \in S
  <2> DEFINE x == Len(Layer(hs)[n])
  <2>1. n \in 0..n
    BY <1>1
  <2>2. x \in Nat /\ (x = 1 \/ x <= n - n)
    BY <2>1, LayersShrink
  <2>3. x <= 1
    <3> HIDE DEF x, n
    <3> QED BY <1>1, <2>2
  <2> QED BY <2>1, <2>3
<1>4. S # {} /\ S \in SUBSET Nat
  BY <1>1, <1>3
<1>5. PICK m \in S : \A k \in S : m <= k
  <2> HIDE DEF S
  <2> QED BY <1>4, LeastNat
<1>6. /\ m \in 0..n
      /\ Len(Layer(hs)[m]) <= 1
      /\ \A k \in 0..(m-1) : Len(Layer(hs)[k]) > 1
  <2>1. \A k \in 0..(m-1) : k \in 0..n /\ ~(m <= k)
    BY <1>1, <1>5
  <2> QED BY <1>2, <1>5, <2>1
<1>7. /\ Height(hs) \in 0..n
      /\ Len(Layer(hs)[Height(hs)]) <= 1
      /\ \A k \in 0..(Height(hs) - 1) : Len(Layer(hs)[k]) > 1
  BY <1>6 DEF Height
<1>8. Len(Layer(hs)[Height(hs)]) \in Nat /\ Len(Layer(hs)[Height(hs)]) >= 1
  BY <1>2, <1>7
<1>9. Len(Layer(hs)[Height(hs)]) = 1
  <2> DEFINE x == Len(Layer(hs)[Height(hs)])
  <2>1. x \in Nat /\ x >= 1 /\ x <= 1
    BY <1>7, <1>8
  <2> HIDE DEF x
  <2>2. x = 1
    BY <2>1
  <2> QED BY <2>2 DEF x
<1> QED BY <1>7, <1>9

(* On its way up a transaction's position stays within the layer. *)
LEMMA PositionInLayer ==
  ASSUME NEW hs, IsLayer(hs), NEW index \in 0..(Len(hs) - 1)
  PROVE  \A h \in 0..Height(hs) :
           Position(index, Height(hs))[h] \in 0..(Len(Layer(hs)[h]) - 1)
<1> DEFINE L == Layer(hs)
           p == Position(index, Height(hs))
           t == Height(hs)
           S == {h \in 0..t : p[h] \in 0..(Len(L[h]) - 1)}
<1>1. Len(hs) \in Nat /\ t \in 0..Len(hs)
  BY HeightExists DEF IsLayer
<1>2. L = [h \in 0..Len(hs) |-> IF h = 0 THEN hs ELSE NextLayer(L[h-1])]
  BY <1>1, LayerDef
<1>3. p = [h \in 0..t |-> IF h = 0 THEN index ELSE p[h-1] \div 2]
  BY <1>1, PositionDef
<1>6. \A h \in 0..Len(hs) : IsLayer(L[h]) /\ Len(L[h]) \in Nat
  BY LayersShrink
<1> HIDE DEF L, p, t
<1>4. 0 \in S
  BY <1>1, <1>2, <1>3
<1>5. ASSUME NEW h \in 0..(t-1), h \in S PROVE h + 1 \in S
  <2>1. L[h+1] = NextLayer(L[h]) /\ p[h+1] = p[h] \div 2
    BY <1>1, <1>2, <1>3
  <2>2. IsLayer(L[h]) /\ Len(L[h]) \in Nat /\ Len(L[h]) >= 1
    BY <1>1, <1>6 DEF IsLayer
  <2>3. Len(L[h+1]) = (Len(L[h]) + 1) \div 2
    BY <2>1, <2>2, NextLayerShape
  <2>4. p[h] \in 0..(Len(L[h]) - 1)
    BY <1>5
  <2>5. p[h+1] \in 0..(Len(L[h+1]) - 1)
    BY <2>1, <2>2, <2>3, <2>4, Halves
  <2> QED BY <1>1, <2>5
<1> HIDE DEF S
<1>7. \A h \in 0..t : h \in S
  BY <1>1, <1>4, <1>5, UpTo
<1> QED BY <1>7 DEF S, L, p, t

(* One step of a proof leads from a hash to the one above it. *)
LEMMA StepUp ==
  ASSUME NEW s, IsLayer(s), NEW idx \in 0..(Len(s) - 1)
  PROVE  Up(s[idx + 1], Step(s, idx)) = NextLayer(s)[idx \div 2 + 1]
<1>1. Len(s) \in Nat
  BY DEF IsLayer
<1>2. Padded(s)[idx + 1] = s[idx + 1]
  BY <1>1, PaddedLayer
<1>3. /\ idx \div 2 + 1 \in 1..Len(NextLayer(s))
      /\ NextLayer(s)[idx \div 2 + 1]
           = Hash(Padded(s)[2 * (idx \div 2 + 1) - 1], Padded(s)[2 * (idx \div 2 + 1)])
  <2>1. idx \div 2 + 1 \in 1..((Len(s) + 1) \div 2)
    BY <1>1
  <2> QED BY <2>1, NextLayerShape
<1>4. CASE idx % 2 = 0
  <2>1. 2 * (idx \div 2 + 1) - 1 = idx + 1 /\ 2 * (idx \div 2 + 1) = idx + 2
    BY <1>1, <1>4
  <2> QED BY <1>2, <1>3, <1>4, <2>1 DEF Up, Step
<1>5. CASE idx % 2 # 0
  <2>1. 2 * (idx \div 2 + 1) - 1 = idx /\ 2 * (idx \div 2 + 1) = idx + 1
    BY <1>1, <1>5
  <2> QED BY <1>2, <1>3, <1>5, <2>1 DEF Up, Step
<1> QED BY <1>4, <1>5

(* A proof has a step for each layer below the root. *)
LEMMA PathLength ==
  ASSUME NEW hs, IsLayer(hs), NEW index
  PROVE  Len(merkle_proof(hs, index)) = Height(hs) /\ Height(hs) \in Nat
<1> DEFINE t == Height(hs)
           e(h) == Step(Layer(hs)[h-1], Position(index, t)[h-1])
           V == {e(h) : h \in 1..t}
           path == merkle_proof(hs, index)
<1>1. t \in Nat
  BY HeightExists DEF IsLayer
<1>2. path = [h \in 1..t |-> e(h)]
  BY DEF merkle_proof
<1> HIDE DEF e, t, path
<1>3. path \in Seq(V)
  BY <1>1, <1>2
<1>4. Len(path) = t
  BY <1>1, <1>2, <1>3
<1> QED BY <1>1, <1>4 DEF t, path

(* verify_proof of merkle_proof: the path of any position leads to the root.*)
THEOREM PathsReachTheRoot ==
  ASSUME NEW hs, IsLayer(hs), NEW index \in 0..(Len(hs) - 1)
  PROVE  verify_proof(hs[index + 1], merkle_proof(hs, index), merkle_root(hs))
<1> DEFINE L == Layer(hs)
           t == Height(hs)
           p == Position(index, t)
           path == merkle_proof(hs, index)
           acc == Climb(hs[index + 1], path)
           S == {h \in 0..t : acc[h] = L[h][p[h] + 1]}
<1>1. /\ Len(hs) \in Nat /\ t \in 0..Len(hs) /\ Len(L[t]) = 1
      /\ \A k \in 0..(t-1) : Len(L[k]) > 1
  BY HeightExists DEF IsLayer
<1>2. L = [h \in 0..Len(hs) |-> IF h = 0 THEN hs ELSE NextLayer(L[h-1])]
  BY <1>1, LayerDef
<1>3. p = [h \in 0..t |-> IF h = 0 THEN index ELSE p[h-1] \div 2]
  BY <1>1, PositionDef
<1>4. \A h \in 0..t : p[h] \in 0..(Len(L[h]) - 1)
  BY PositionInLayer
<1>5. path = [h \in 1..t |-> Step(L[h-1], p[h-1])]
  BY DEF merkle_proof
<1>14. \A h \in 0..Len(hs) : IsLayer(L[h])
  BY LayersShrink
<1> HIDE DEF L, t, p, path
<1>6. Len(path) = t
  BY PathLength DEF path, t
<1>7. acc = [h \in 0..t |-> IF h = 0 THEN hs[index + 1] ELSE Up(acc[h-1], path[h])]
  BY <1>1, <1>6, ClimbDef
<1> HIDE DEF acc
<1>8. 0 \in S
  BY <1>1, <1>2, <1>3, <1>7
<1>9. ASSUME NEW h \in 0..(t-1), h \in S PROVE h + 1 \in S
  <2>0. /\ h + 1 \in 0..Len(hs) /\ h + 1 \in 1..t /\ h + 1 \in 0..t
        /\ h + 1 # 0 /\ h + 1 - 1 = h
    BY <1>1
  <2>1. /\ L[h+1] = NextLayer(L[h]) /\ p[h+1] = p[h] \div 2
        /\ path[h+1] = Step(L[h], p[h])
        /\ acc[h+1] = Up(acc[h], path[h+1])
    <3>1. L[h+1] = NextLayer(L[h])
      BY <1>2, <2>0
    <3>2. p[h+1] = p[h] \div 2
      <4>1. \A k \in 0..t : k # 0 => p[k] = p[k-1] \div 2
        BY <1>3, Zenon
      <4> QED BY <4>1, <2>0
    <3>3. path[h+1] = Step(L[h], p[h])
      BY <1>5, <2>0
    <3>4. acc[h+1] = Up(acc[h], path[h+1])
      <4>1. \A k \in 0..t : k # 0 => acc[k] = Up(acc[k-1], path[k])
        BY <1>7, Zenon
      <4> QED BY <4>1, <2>0
    <3> QED BY <3>1, <3>2, <3>3, <3>4
  <2>2. IsLayer(L[h])
    BY <1>1, <1>14
  <2>3. p[h] \in 0..(Len(L[h]) - 1) /\ acc[h] = L[h][p[h] + 1]
    BY <1>1, <1>4, <1>9
  <2>4. Up(L[h][p[h] + 1], Step(L[h], p[h])) = NextLayer(L[h])[p[h] \div 2 + 1]
    BY <2>2, <2>3, StepUp
  <2>5. acc[h+1] = L[h+1][p[h+1] + 1]
    BY <2>1, <2>3, <2>4
  <2> QED BY <1>1, <2>5
<1> HIDE DEF S
<1>10. t \in S
  <2>1. t \in Nat /\ t \in 0..t
    BY <1>1
  <2>2. \A h \in 0..t : h \in S
    BY <1>8, <1>9, <2>1, UpTo
  <2> QED BY <2>1, <2>2
<1>11. acc[t] = L[t][p[t] + 1] /\ p[t] = 0
  <2>1. t \in 0..t
    BY <1>1
  <2>2. p[t] \in 0..(Len(L[t]) - 1)
    BY <1>4, <2>1
  <2>3. p[t] \in 0..0
    BY <1>1, <2>2
  <2> QED BY <1>10, <2>3 DEF S
<1>12. acc[t] = L[t][1]
  BY <1>11
<1>13. merkle_root(hs) = L[t][1]
  BY <1>1 DEF merkle_root, L, t, IsLayer
<1> QED BY <1>6, <1>12, <1>13 DEF verify_proof, acc, path, t

(* build_inclusion_proof: for each transaction of a block, the proof is     *)
(* accepted by every client that holds the block's header.                  *)
THEOREM InclusionProven ==
  ASSUME NEW block, IsLayer(block.txids), NEW txid, Includes(block, txid)
  PROVE  verify_against_header(build_inclusion_proof(block, txid), Header(block))
<1> DEFINE txids == block.txids
           S == {i \in 0..(Len(txids) - 1) : txids[i+1] = txid}
           first == FirstIndex(block, txid)
<1>1. Len(txids) \in Nat
  BY DEF IsLayer
<1>2. PICK j \in 1..Len(txids) : txids[j] = txid
  BY DEF Includes
<1>3. j - 1 \in S /\ S \in SUBSET Nat
  BY <1>1, <1>2
<1>4. PICK m \in S : \A k \in S : m <= k
  <2> HIDE DEF S
  <2> QED BY <1>3, LeastNat
<1>5. \A i \in 1..m : txids[i] # txid
  <2> SUFFICES ASSUME NEW i \in 1..m, txids[i] = txid PROVE FALSE
    OBVIOUS
  <2>1. m \in 0..(Len(txids) - 1)
    BY <1>4
  <2>2. i - 1 \in S
    BY <1>1, <2>1
  <2>3. m <= i - 1
    <3> HIDE DEF S
    <3> QED BY <1>4, <2>2
  <2> QED BY <1>1, <2>1, <2>3
<1>6. first \in 0..(Len(txids) - 1) /\ txids[first + 1] = txid
  BY <1>4, <1>5 DEF FirstIndex
<1>7. verify_proof(txid, merkle_proof(txids, first), merkle_root(txids))
  <2> HIDE DEF first
  <2> QED BY <1>6, PathsReachTheRoot
<1> QED BY <1>7 DEF build_inclusion_proof, verify_against_header, verify_inclusion, Header

-----------------------------------------------------------------------------
(* Hashes and leaves: what was hashed is known from the hash. *)
IsLeaf(x) == x = <<x[1]>>

LEMMA HashesDiffer ==
  ASSUME NEW a, NEW b, NEW c, NEW d
  PROVE  /\ Hash(a, b) = Hash(c, d) => a = c /\ b = d
         /\ ~IsLeaf(Hash(a, b))
         /\ Hash(a, b) # EmptyHash
<1>1. Len(<<a, b>>) = 2 /\ \A x : Len(<<x>>) = 1
  OBVIOUS
<1>2. <<a, b>> = <<c, d>> => a = c /\ b = d
  OBVIOUS
<1>3. <<a, b>> # << >>
  OBVIOUS
<1>4. ~IsLeaf(<<a, b>>)
  BY <1>1 DEF IsLeaf
<1> QED BY <1>2, <1>3, <1>4 DEF Hash, EmptyHash

(* Padding adds no hash. *)
LEMMA PaddedFrom ==
  ASSUME NEW s, IsLayer(s), NEW q \in 1..Len(Padded(s))
  PROVE  \E i \in 1..Len(s) : Padded(s)[q] = s[i]
<1>1. PICK U : s \in Seq(U)
  BY DEF IsLayer
<1>2. Len(s) \in Nat /\ Len(s) >= 1
  BY <1>1 DEF IsLayer
<1>3. CASE Len(s) % 2 = 1
  <2>1. Padded(s) = Append(s, s[Len(s)])
    BY <1>3 DEF Padded
  <2>2. q \in 1..(Len(s) + 1)
    BY <2>1, <1>1, <1>2
  <2>3. CASE q \in 1..Len(s)
    BY <1>2, <2>3, PaddedLayer
  <2>4. CASE q = Len(s) + 1
    BY <2>1, <2>4, <1>1, <1>2
  <2> QED BY <2>2, <2>3, <2>4, <1>2
<1>4. CASE Len(s) % 2 # 1
  BY <1>4 DEF Padded
<1> QED BY <1>3, <1>4

(* A hash that one step of a proof leads to has its origin one layer below. *)
LEMMA StepDown ==
  ASSUME NEW s, IsLayer(s), NEW x, NEW step, NEW i \in 1..Len(NextLayer(s)),
         Up(x, step) = NextLayer(s)[i]
  PROVE  \E q \in 1..Len(s) : x = s[q]
<1>1. Len(s) \in Nat
  BY DEF IsLayer
<1>2. NextLayer(s)[i] = Hash(Padded(s)[2*i - 1], Padded(s)[2*i])
  BY NextLayerShape
<1>3. x = Padded(s)[2*i - 1] \/ x = Padded(s)[2*i]
  BY <1>2, HashesDiffer DEF Up
<1>4. 2*i - 1 \in 1..Len(Padded(s)) /\ 2*i \in 1..Len(Padded(s))
  <2> DEFINE n == (Len(s) + 1) \div 2
  <2>1. n \in Nat /\ i \in 1..n /\ Len(Padded(s)) = 2 * n
    BY <1>1, NextLayerShape, PaddedLayer
  <2> HIDE DEF n
  <2> QED BY <2>1
<1> QED BY <1>3, <1>4, PaddedFrom

(* Above the leaves, all is hashes of two. *)
LEMMA LayerAbove ==
  ASSUME NEW hs, IsLayer(hs), NEW h \in 1..Len(hs)
  PROVE  /\ IsLayer(Layer(hs)[h-1])
         /\ Layer(hs)[h] = NextLayer(Layer(hs)[h-1])
         /\ \A i \in 1..Len(Layer(hs)[h]) : \E a, b : Layer(hs)[h][i] = Hash(a, b)
<1> DEFINE L == Layer(hs)
<1>1. Len(hs) \in Nat
  BY DEF IsLayer
<1>2. L = [j \in 0..Len(hs) |-> IF j = 0 THEN hs ELSE NextLayer(L[j-1])]
  BY <1>1, LayerDef
<1>3. \A j \in 0..Len(hs) : IsLayer(L[j])
  BY LayersShrink
<1> HIDE DEF L
<1>4. L[h] = NextLayer(L[h-1]) /\ IsLayer(L[h-1])
  BY <1>1, <1>2, <1>3
<1>5. \A i \in 1..Len(L[h]) : \E a, b : L[h][i] = Hash(a, b)
  BY <1>4, NextLayerShape
<1> QED BY <1>4, <1>5 DEF L

(* The lowest and the highest layer. *)
LEMMA LayerEnds ==
  ASSUME NEW hs, IsLayer(hs)
  PROVE  /\ Len(hs) \in Nat /\ hs # << >>
         /\ Layer(hs)[0] = hs
         /\ Height(hs) \in 0..Len(hs)
         /\ Len(Layer(hs)[Height(hs)]) = 1
         /\ merkle_root(hs) = Layer(hs)[Height(hs)][1]
<1>1. Len(hs) \in Nat /\ hs # << >>
  BY DEF IsLayer
<1>2. Layer(hs)[0] = hs
  BY <1>1, LayerDef
<1> QED BY <1>1, <1>2, HeightExists DEF merkle_root

(* A proof, if not empty, leads to a hash of two. *)
LEMMA ClimbStep ==
  ASSUME NEW leaf, NEW path, Len(path) \in Nat
  PROVE  /\ Climb(leaf, path)[0] = leaf
         /\ \A h \in 1..Len(path) :
              /\ Climb(leaf, path)[h] = Up(Climb(leaf, path)[h-1], path[h])
              /\ \E a, b : Climb(leaf, path)[h] = Hash(a, b)
<1> DEFINE acc == Climb(leaf, path)
           n == Len(path)
<1>1. acc = [h \in 0..n |-> IF h = 0 THEN leaf ELSE Up(acc[h-1], path[h])]
  BY ClimbDef
<1> HIDE DEF acc
<1>2. acc[0] = leaf
  BY <1>1
<1>3. \A h \in 1..n : acc[h] = Up(acc[h-1], path[h])
  BY <1>1
<1>4. \A h \in 1..n : \E a, b : acc[h] = Hash(a, b)
  BY <1>3 DEF Up
<1> QED BY <1>2, <1>3, <1>4 DEF acc

(* verify_proof, whoever made the path: what is accepted under the root of  *)
(* a list of transaction hashes is one of them.                             *)
THEOREM AcceptedIsIncluded ==
  ASSUME NEW hs, IsLayer(hs), \A i \in 1..Len(hs) : IsLeaf(hs[i]),
         NEW leaf, IsLeaf(leaf), NEW path, Len(path) \in Nat,
         verify_proof(leaf, path, merkle_root(hs))
  PROVE  \E i \in 1..Len(hs) : hs[i] = leaf
<1> DEFINE L == Layer(hs)
           t == Height(hs)
           k == Len(path)
           acc == Climb(leaf, path)
           m == IF t <= k THEN t ELSE k
           S == {j \in 0..m : \E i \in 1..Len(L[t-j]) : acc[k-j] = L[t-j][i]}
<1>1. /\ Len(hs) \in Nat /\ L[0] = hs /\ t \in 0..Len(hs)
      /\ Len(L[t]) = 1 /\ merkle_root(hs) = L[t][1]
  BY LayerEnds
<1>2. \A h \in 1..Len(hs) :
        /\ IsLayer(L[h-1]) /\ L[h] = NextLayer(L[h-1])
        /\ \A i \in 1..Len(L[h]) : \E a, b : L[h][i] = Hash(a, b)
  BY LayerAbove
<1>3. /\ acc[0] = leaf
      /\ \A h \in 1..k : acc[h] = Up(acc[h-1], path[h]) /\ \E a, b : acc[h] = Hash(a, b)
  BY ClimbStep
<1>4. k \in Nat /\ acc[k] = L[t][1]
  BY <1>1 DEF verify_proof
<1> HIDE DEF L, t, k, acc
<1>5. m \in Nat /\ m <= t /\ m <= k /\ (m = t \/ m = k)
  BY <1>1, <1>4
<1> HIDE DEF m
<1>6. 0 \in S
  <2>1. t - 0 = t /\ k - 0 = k /\ 1 \in 1..Len(L[t]) /\ 0 \in 0..m
    BY <1>1, <1>4, <1>5
  <2> QED BY <1>4, <2>1
<1>7. ASSUME NEW j \in 0..(m-1), j \in S PROVE j + 1 \in S
  <2> DEFINE h == t - j
             g == k - j
  <2>1. h \in 1..Len(hs) /\ g \in 1..k /\ j + 1 \in 0..m
        /\ t - (j + 1) = h - 1 /\ k - (j + 1) = g - 1
    BY <1>1, <1>4, <1>5
  <2>2. PICK i \in 1..Len(L[h]) : acc[g] = L[h][i]
    BY <1>7
  <2> HIDE DEF h, g
  <2>3. IsLayer(L[h-1]) /\ L[h] = NextLayer(L[h-1]) /\ acc[g] = Up(acc[g-1], path[g])
    BY <1>2, <1>3, <2>1
  <2>4. \E q \in 1..Len(L[h-1]) : acc[g-1] = L[h-1][q]
    BY <2>2, <2>3, StepDown
  <2> QED BY <2>1, <2>4
<1> HIDE DEF S
<1>8. m \in S
  <2>1. \A j \in 0..m : j \in S
    BY <1>5, <1>6, <1>7, UpTo
  <2>2. m \in 0..m
    BY <1>5
  <2> QED BY <2>1, <2>2
<1>9. PICK i \in 1..Len(L[t-m]) : acc[k-m] = L[t-m][i]
  BY <1>8 DEF S
<1>10. CASE m = t /\ m = k
  <2>1. t - m = 0 /\ k - m = 0
    BY <1>1, <1>4, <1>10
  <2> QED BY <1>1, <1>3, <1>9, <2>1
<1>11. CASE m = t /\ m # k
  <2>1. t - m = 0 /\ k - m \in 1..k
    BY <1>1, <1>4, <1>5, <1>11
  <2>2. \E a, b : hs[i] = Hash(a, b)
    BY <1>1, <1>3, <1>9, <2>1
  <2>3. i \in 1..Len(hs)
    BY <1>1, <1>9, <2>1
  <2> QED BY <2>2, <2>3, HashesDiffer
<1>12. CASE m # t
  <2>1. k - m = 0 /\ t - m \in 1..Len(hs)
    BY <1>1, <1>4, <1>5, <1>12
  <2>2. \E a, b : leaf = Hash(a, b)
    BY <1>2, <1>3, <1>9, <2>1
  <2> QED BY <2>2, HashesDiffer
<1> QED BY <1>10, <1>11, <1>12

-----------------------------------------------------------------------------
(* Lists without repetition have layers without repetition. *)
Distinct(s) == \A i, j \in 1..Len(s) : s[i] = s[j] => i = j

(* The left hash of a pair is in the layer itself, so no pair comes twice. *)
LEMMA DistinctAbove ==
  ASSUME NEW s, IsLayer(s), Distinct(s)
  PROVE  Distinct(NextLayer(s))
<1> DEFINE n == (Len(s) + 1) \div 2
<1>1. Len(s) \in Nat /\ n \in Nat /\ \A i \in 1..n : 2*i - 1 \in 1..Len(s)
  BY DEF IsLayer
<1>2. SUFFICES ASSUME NEW i \in 1..n, NEW j \in 1..n, NextLayer(s)[i] = NextLayer(s)[j]
               PROVE  i = j
  BY NextLayerShape DEF Distinct
<1>3. /\ NextLayer(s)[i] = Hash(Padded(s)[2*i - 1], Padded(s)[2*i])
      /\ NextLayer(s)[j] = Hash(Padded(s)[2*j - 1], Padded(s)[2*j])
  BY NextLayerShape
<1>4. Padded(s)[2*i - 1] = Padded(s)[2*j - 1]
  <2>1. Hash(Padded(s)[2*i - 1], Padded(s)[2*i]) = Hash(Padded(s)[2*j - 1], Padded(s)[2*j])
    BY <1>2, <1>3
  <2> QED BY <2>1, HashesDiffer
<1>5. s[2*i - 1] = s[2*j - 1]
  BY <1>1, <1>4, PaddedLayer
<1>6. 2*i - 1 = 2*j - 1
  BY <1>1, <1>5 DEF Distinct
<1> QED BY <1>6

(* So it goes on from layer to layer. *)
LEMMA DistinctLayers ==
  ASSUME NEW hs, IsLayer(hs), Distinct(hs)
  PROVE  \A h \in 0..Len(hs) : Distinct(Layer(hs)[h])
<1> DEFINE S == {h \in 0..Len(hs) : Distinct(Layer(hs)[h])}
<1>1. Len(hs) \in Nat /\ 0 \in S
  BY LayerEnds
<1>2. ASSUME NEW h \in 0..(Len(hs) - 1), h \in S PROVE h + 1 \in S
  <2>1. h + 1 \in 1..Len(hs) /\ h + 1 \in 0..Len(hs) /\ h + 1 - 1 = h
    BY <1>1
  <2>2. IsLayer(Layer(hs)[h]) /\ Layer(hs)[h+1] = NextLayer(Layer(hs)[h])
    BY <2>1, LayerAbove
  <2> QED BY <1>2, <2>1, <2>2, DistinctAbove
<1> HIDE DEF S
<1>3. \A h \in 0..Len(hs) : h \in S
  BY <1>1, <1>2, UpTo
<1> QED BY <1>3 DEF S

(* Equal layers come of the same padded layer. *)
LEMMA SamePadded ==
  ASSUME NEW a, IsLayer(a), NEW b, IsLayer(b), NextLayer(a) = NextLayer(b)
  PROVE  /\ Len(Padded(a)) = Len(Padded(b))
         /\ \A q \in 1..Len(Padded(a)) : Padded(a)[q] = Padded(b)[q]
<1> DEFINE n == (Len(a) + 1) \div 2
<1>1. n \in Nat /\ n = (Len(b) + 1) \div 2
  <2>1. Len(NextLayer(a)) = n /\ Len(NextLayer(b)) = (Len(b) + 1) \div 2
    BY NextLayerShape
  <2>2. Len(a) \in Nat
    BY DEF IsLayer
  <2> QED BY <2>1, <2>2
<1>2. Len(Padded(a)) = 2 * n /\ Len(Padded(b)) = 2 * n /\ Len(NextLayer(a)) = n
  BY <1>1, PaddedLayer, NextLayerShape
<1>3. \A i \in 1..n : Padded(a)[2*i - 1] = Padded(b)[2*i - 1] /\ Padded(a)[2*i] = Padded(b)[2*i]
  <2> SUFFICES ASSUME NEW i \in 1..n
               PROVE  Padded(a)[2*i - 1] = Padded(b)[2*i - 1] /\ Padded(a)[2*i] = Padded(b)[2*i]
    OBVIOUS
  <2>1. /\ NextLayer(a)[i] = Hash(Padded(a)[2*i - 1], Padded(a)[2*i])
        /\ NextLayer(b)[i] = Hash(Padded(b)[2*i - 1], Padded(b)[2*i])
    BY <1>1, <1>2, NextLayerShape
  <2> QED BY <2>1, HashesDiffer
<1> HIDE DEF n
<1>4. \A q \in 1..(2 * n) : \E i \in 1..n : q = 2*i - 1 \/ q = 2*i
  <2> SUFFICES ASSUME NEW q \in 1..(2 * n)
               PROVE  \E i \in 1..n : q = 2*i - 1 \/ q = 2*i
    OBVIOUS
  <2>1. (q + 1) \div 2 \in 1..n /\ (q = 2*((q + 1) \div 2) - 1 \/ q = 2*((q + 1) \div 2))
    BY <1>1
  <2> QED BY <2>1
<1>5. \A q \in 1..(2 * n) : Padded(a)[q] = Padded(b)[q]
  BY <1>3, <1>4
<1> QED BY <1>2, <1>5

(* A list that is padded is no longer without repetition. *)
LEMMA NotShorter ==
  ASSUME NEW a, IsLayer(a), NEW b, IsLayer(b), Distinct(b), NextLayer(a) = NextLayer(b)
  PROVE  ~(Len(a) < Len(b))
<1> SUFFICES ASSUME Len(a) < Len(b) PROVE FALSE
  OBVIOUS
<1>1. Len(a) \in Nat /\ Len(b) \in Nat /\ Len(a) >= 1
  BY DEF IsLayer
<1>2. PICK U : a \in Seq(U)
  BY DEF IsLayer
<1>3. 2 * ((Len(a) + 1) \div 2) = 2 * ((Len(b) + 1) \div 2)
  BY SamePadded, PaddedLayer
<1>4. Len(a) % 2 = 1 /\ Len(b) = Len(a) + 1
  BY <1>1, <1>3
<1>5. Padded(a) = Append(a, a[Len(a)]) /\ Len(Padded(a)) = Len(a) + 1
  BY <1>1, <1>2, <1>4 DEF Padded
<1>6. Padded(a)[Len(a)] = a[Len(a)] /\ Padded(a)[Len(a) + 1] = a[Len(a)]
  BY <1>1, <1>2, <1>5
<1>7. Padded(b)[Len(a)] = Padded(b)[Len(a) + 1]
  BY <1>1, <1>5, <1>6, SamePadded
<1>8. b[Len(a)] = b[Len(a) + 1]
  BY <1>1, <1>4, <1>7, PaddedLayer
<1> QED BY <1>1, <1>4, <1>8 DEF Distinct

(* Equal layers come of equal layers. *)
LEMMA LayerBelow ==
  ASSUME NEW a, IsLayer(a), Distinct(a), NEW b, IsLayer(b), Distinct(b),
         NextLayer(a) = NextLayer(b)
  PROVE  a = b
<1>1. Len(a) \in Nat /\ Len(b) \in Nat
  BY DEF IsLayer
<1>2. Len(a) = Len(b)
  BY <1>1, NotShorter
<1>3. Len(Padded(a)) >= Len(a) /\ Len(Padded(a)) \in Nat
  BY <1>1, PaddedLayer
<1>4. ASSUME NEW i \in 1..Len(a) PROVE a[i] = b[i]
  <2>1. i \in 1..Len(b) /\ i \in 1..Len(Padded(a))
    BY <1>1, <1>2, <1>3
  <2>2. Padded(a)[i] = a[i] /\ Padded(b)[i] = b[i]
    BY <2>1, PaddedLayer
  <2> QED BY <2>1, <2>2, SamePadded
<1>5. PICK U : a \in Seq(U)
  BY DEF IsLayer
<1>6. PICK V : b \in Seq(V)
  BY DEF IsLayer
<1>7. a = [i \in 1..Len(a) |-> a[i]] /\ b = [i \in 1..Len(b) |-> b[i]]
  BY <1>5, <1>6
<1> QED BY <1>2, <1>4, <1>7

(* merkle_root: two lists of transaction hashes without repetition have the *)
(* same root only if they are the same list, also if their lengths differ.  *)
THEOREM RootIsUnique ==
  ASSUME NEW hs, IsLayer(hs), Distinct(hs), \A i \in 1..Len(hs) : IsLeaf(hs[i]),
         NEW gs, IsLayer(gs), Distinct(gs), \A i \in 1..Len(gs) : IsLeaf(gs[i]),
         merkle_root(hs) = merkle_root(gs)
  PROVE  hs = gs
<1> DEFINE L == Layer(hs)
           K == Layer(gs)
           t == Height(hs)
           k == Height(gs)
           m == IF t <= k THEN t ELSE k
           S == {j \in 0..m : L[t-j] = K[k-j]}
<1>1. /\ Len(hs) \in Nat /\ L[0] = hs /\ t \in 0..Len(hs)
      /\ Len(L[t]) = 1 /\ merkle_root(hs) = L[t][1]
  BY LayerEnds
<1>2. /\ Len(gs) \in Nat /\ K[0] = gs /\ k \in 0..Len(gs)
      /\ Len(K[k]) = 1 /\ merkle_root(gs) = K[k][1]
  BY LayerEnds
<1>3. \A h \in 1..Len(hs) :
        /\ IsLayer(L[h-1]) /\ L[h] = NextLayer(L[h-1])
        /\ \A i \in 1..Len(L[h]) : \E a, b : L[h][i] = Hash(a, b)
  BY LayerAbove
<1>4. \A h \in 1..Len(gs) :
        /\ IsLayer(K[h-1]) /\ K[h] = NextLayer(K[h-1])
        /\ \A i \in 1..Len(K[h]) : \E a, b : K[h][i] = Hash(a, b)
  BY LayerAbove
<1>5. /\ \A h \in 0..Len(hs) : Distinct(L[h]) /\ IsLayer(L[h])
      /\ \A h \in 0..Len(gs) : Distinct(K[h]) /\ IsLayer(K[h])
  BY DistinctLayers, LayersShrink
<1> HIDE DEF L, K, t, k
<1>6. m \in Nat /\ m <= t /\ m <= k /\ (m = t \/ m = k)
  BY <1>1, <1>2
<1> HIDE DEF m
<1>7. 0 \in S
  <2>1. t - 0 = t /\ k - 0 = k /\ 0 \in 0..m
    BY <1>1, <1>2, <1>6
  <2>2. L[t] = <<L[t][1]>> /\ K[k] = <<K[k][1]>>
    BY <1>1, <1>2, <1>5 DEF IsLayer
  <2> QED BY <1>1, <1>2, <2>1, <2>2
<1>8. ASSUME NEW j \in 0..(m-1), j \in S PROVE j + 1 \in S
  <2> DEFINE h == t - j
             g == k - j
  <2>1. /\ h \in 1..Len(hs) /\ g \in 1..Len(gs) /\ j + 1 \in 0..m
        /\ h - 1 \in 0..Len(hs) /\ g - 1 \in 0..Len(gs)
        /\ t - (j + 1) = h - 1 /\ k - (j + 1) = g - 1
    BY <1>1, <1>2, <1>6
  <2>2. L[h] = K[g]
    BY <1>8
  <2> HIDE DEF h, g
  <2>3. NextLayer(L[h-1]) = NextLayer(K[g-1])
    BY <1>3, <1>4, <2>1, <2>2
  <2>4. L[h-1] = K[g-1]
    BY <1>5, <2>1, <2>3, LayerBelow
  <2> QED BY <2>1, <2>4
<1> HIDE DEF S
<1>9. m \in S
  <2>1. \A j \in 0..m : j \in S
    BY <1>6, <1>7, <1>8, UpTo
  <2>2. m \in 0..m
    BY <1>6
  <2> QED BY <2>1, <2>2
<1>10. L[t-m] = K[k-m]
  BY <1>9 DEF S
<1>11. 1 \in 1..Len(hs) /\ 1 \in 1..Len(gs)
  BY <1>1, <1>2 DEF IsLayer
<1>12. CASE m = t /\ m = k
  <2>1. t - m = 0 /\ k - m = 0
    BY <1>1, <1>2, <1>12
  <2> QED BY <1>1, <1>2, <1>10, <2>1
<1>13. CASE m = t /\ m # k
  <2>1. t - m = 0 /\ k - m \in 1..Len(gs)
    BY <1>1, <1>2, <1>6, <1>13
  <2>2. \E a, b : hs[1] = Hash(a, b)
    BY <1>1, <1>4, <1>10, <1>11, <2>1
  <2> QED BY <1>11, <2>2, HashesDiffer
<1>14. CASE m # t
  <2>1. k - m = 0 /\ t - m \in 1..Len(hs)
    BY <1>1, <1>2, <1>6, <1>14
  <2>2. \E a, b : gs[1] = Hash(a, b)
    BY <1>2, <1>3, <1>10, <1>11, <2>1
  <2> QED BY <1>11, <2>2, HashesDiffer
<1> QED BY <1>12, <1>13, <1>14

-----------------------------------------------------------------------------
(* The calls of Calls.tla. *)


(* What the assumption on bodies says in the terms of the lemmas above.  *)
LEMMA BodiesAreLayers ==
  ASSUME NEW txids \in Bodies \cup MixedBodies
  PROVE  /\ Len(txids) \in Nat
         /\ txids = << >> \/ IsLayer(txids)
         /\ \A i \in 1..Len(txids) : IsLayer(txids) /\ IsLeaf(txids[i])
<1>1. txids \in Seq({txids[i] : i \in 1..Len(txids)})
  BY BodiesAssumption
<1>2. Len(txids) \in Nat
  BY <1>1
<1>3. Len(txids) >= 1 => IsLayer(txids)
  BY <1>1 DEF IsLayer
<1>4. Len(txids) = 0 => txids = << >>
  BY <1>1
<1>5. \A i \in 1..Len(txids) : IsLeaf(txids[i])
  BY BodiesAssumption DEF IsLeaf
<1> QED BY <1>2, <1>3, <1>4, <1>5

(* What kind of call each action makes. *)
LEMMA KindOfCall ==
  /\ ProveInclusion => call'.op = "prove"
  /\ CheckInclusion => call'.op = "check"
  /\ AggregateUpdates => call'.op = "aggregate"
  /\ Multiply => call'.op = "multiply"
  /\ SignMessage => call'.op = "sign"
  /\ VerifySignature => call'.op = "verify"
  /\ ValidateSeal => call'.op = "validate"
  /\ Retarget => call'.op = "retarget"
  /\ Return => call'.op = "idle"
<1>1. ProveInclusion => call'.op = "prove"
  BY DEF ProveInclusion
<1>2. CheckInclusion => call'.op = "check"
  BY DEF CheckInclusion
<1>3. AggregateUpdates => call'.op = "aggregate"
  BY DEF AggregateUpdates
<1>4. Multiply => call'.op = "multiply"
  BY DEF Multiply
<1>5. SignMessage => call'.op = "sign"
  BY DEF SignMessage
<1>6. VerifySignature => call'.op = "verify"
  BY DEF VerifySignature
<1>7. ValidateSeal => call'.op = "validate"
  BY DEF ValidateSeal
<1>8. Retarget => call'.op = "retarget"
  BY DEF Retarget
<1>9. Return => call'.op = "idle"
  BY DEF Return, Idle
<1> QED BY <1>1, <1>2, <1>3, <1>4, <1>5, <1>6, <1>7, <1>8, <1>9

(* The actions other than those of the light client. *)
Others ==
  \/ AggregateUpdates \/ Multiply \/ SignMessage \/ VerifySignature
  \/ ValidateSeal \/ Retarget \/ Return

LEMMA OtherCalls == Others => call'.op \notin {"prove", "check"}
BY KindOfCall DEF Others

(* build_inclusion_proof: the proof of each transaction of a block, of any  *)
(* size, satisfies a client that holds the block's header.                  *)
THEOREM EveryProofConvinces == Spec => []ProofsConvince
<1>1. Init => ProofsConvince
  BY DEF Init, Idle, ProofsConvince
<1>2. ProofsConvince /\ [Next]_call => ProofsConvince'
  <2> SUFFICES ASSUME ProofsConvince, [Next]_call
               PROVE  ProofsConvince'
    OBVIOUS
  <2>1. CASE ProveInclusion
    <3>1. PICK txids \in Bodies : \E i \in 1..Len(txids) :
            LET block == [index |-> 1, txids |-> txids]
            IN call' = [op |-> "prove", block |-> block, txid |-> txids[i],
                        proof |-> build_inclusion_proof(block, txids[i])]
      BY <2>1 DEF ProveInclusion
    <3>2. PICK i \in 1..Len(txids) :
            LET block == [index |-> 1, txids |-> txids]
            IN call' = [op |-> "prove", block |-> block, txid |-> txids[i],
                        proof |-> build_inclusion_proof(block, txids[i])]
      BY <3>1
    <3> DEFINE block == [index |-> 1, txids |-> txids]
    <3>3. IsLayer(block.txids) /\ Includes(block, txids[i])
      BY BodiesAreLayers DEF Includes
    <3>4. call'.block = block /\ call'.proof = build_inclusion_proof(block, txids[i])
      BY <3>2
    <3> HIDE DEF block
    <3> QED BY <3>3, <3>4, InclusionProven DEF ProofsConvince
  <2>2. CASE CheckInclusion
    BY <2>2 DEF CheckInclusion, ProofsConvince
  <2>3. CASE Others
    BY <2>3, OtherCalls DEF ProofsConvince
  <2>4. CASE UNCHANGED call
    BY <2>4 DEF ProofsConvince
  <2> QED BY <2>1, <2>2, <2>3, <2>4 DEF Next, Others
<1> QED BY <1>1, <1>2, PTL DEF Spec

-----------------------------------------------------------------------------
(* Nothing is accepted under the root of an empty block. *)
LEMMA NothingInEmpty ==
  ASSUME NEW leaf, IsLeaf(leaf), NEW path, Len(path) \in Nat,
         verify_proof(leaf, path, merkle_root(<< >>))
  PROVE  FALSE
<1>1. Climb(leaf, path)[Len(path)] = << >>
  BY DEF verify_proof, merkle_root, EmptyHash
<1>2. CASE Len(path) = 0
  <2>1. leaf = << >>
    BY <1>1, <1>2, ClimbStep
  <2>2. Len(<< >>) = 0 /\ Len(<<leaf[1]>>) = 1
    OBVIOUS
  <2> QED BY <2>1, <2>2 DEF IsLeaf
<1>3. CASE Len(path) # 0
  <2>1. \E a, b : << >> = Hash(a, b)
    BY <1>1, <1>3, ClimbStep
  <2> QED BY <2>1, HashesDiffer DEF EmptyHash
<1> QED BY <1>2, <1>3

(* The root of a list that is not empty is no empty hash. *)
LEMMA RootNotEmpty ==
  ASSUME NEW hs, IsLayer(hs), \A i \in 1..Len(hs) : IsLeaf(hs[i])
  PROVE  merkle_root(hs) # merkle_root(<< >>)
<1> DEFINE t == Height(hs)
<1>1. merkle_root(<< >>) = << >>
  BY DEF merkle_root, EmptyHash
<1>2. /\ Len(hs) \in Nat /\ Layer(hs)[0] = hs /\ t \in 0..Len(hs)
      /\ Len(Layer(hs)[t]) = 1 /\ merkle_root(hs) = Layer(hs)[t][1]
  BY LayerEnds
<1> HIDE DEF t
<1>3. CASE t = 0
  <2>1. IsLeaf(merkle_root(hs))
    BY <1>2, <1>3
  <2>2. \A x : Len(<< >>) = 0 /\ Len(<<x>>) = 1
    OBVIOUS
  <2> QED BY <1>1, <2>1, <2>2 DEF IsLeaf
<1>4. CASE t # 0
  <2>1. t \in 1..Len(hs)
    BY <1>2, <1>4
  <2>2. \E a, b : merkle_root(hs) = Hash(a, b)
    <3>1. \A i \in 1..Len(Layer(hs)[t]) : \E a, b : Layer(hs)[t][i] = Hash(a, b)
      BY <2>1, LayerAbove
    <3> QED BY <1>2, <3>1
  <2> QED BY <1>1, <2>2, HashesDiffer DEF EmptyHash
<1> QED BY <1>3, <1>4

(* The call of CheckInclusion, with its arguments named. *)
Checked(txids, others, i, j) ==
  /\ txids \in MixedBodies /\ others \in MixedBodies
  /\ i \in 1..Len(others) /\ j \in 1..Len(others)
  /\ call'.op = "check"
  /\ call'.block = [index |-> 1, txids |-> txids]
  /\ call'.other = [index |-> 1, txids |-> others]
  /\ call'.proof.txid = others[j]
  /\ call'.proof.path =
       build_inclusion_proof([index |-> 1, txids |-> others], others[i]).path
  /\ call'.accepted = verify_against_header(call'.proof, Header(call'.block))

LEMMA CheckArguments ==
  CheckInclusion => \E txids, others, i, j : Checked(txids, others, i, j)
<1> SUFFICES ASSUME CheckInclusion PROVE \E txids, others, i, j : Checked(txids, others, i, j)
  OBVIOUS
<1>1. PICK txids, others :
        /\ txids \in MixedBodies /\ others \in MixedBodies
        /\ \E i, j \in 1..Len(others), claimed \in {txids, others} :
             LET block == [index |-> 1, txids |-> txids]
                 other == [index |-> 1, txids |-> others]
                 proof == [txid |-> others[j], block_index |-> 1,
                           merkle_root |-> merkle_root(claimed),
                           path |-> build_inclusion_proof(other, others[i]).path]
             IN call' = [op |-> "check", block |-> block, other |-> other, proof |-> proof,
                         accepted |-> verify_against_header(proof, Header(block))]
  BY DEF CheckInclusion
<1>2. PICK i \in 1..Len(others), j \in 1..Len(others), claimed \in {txids, others} :
        LET block == [index |-> 1, txids |-> txids]
            other == [index |-> 1, txids |-> others]
            proof == [txid |-> others[j], block_index |-> 1,
                      merkle_root |-> merkle_root(claimed),
                      path |-> build_inclusion_proof(other, others[i]).path]
        IN call' = [op |-> "check", block |-> block, other |-> other, proof |-> proof,
                    accepted |-> verify_against_header(proof, Header(block))]
  BY <1>1
<1>3. Checked(txids, others, i, j)
  BY <1>1, <1>2 DEF Checked
<1> QED BY <1>3

(* verify_against_header: whatever path a client is shown, it accepts only  *)
(* transactions of the block whose header it holds.                         *)
THEOREM OnlyIncludedConvince == Spec => []OnlyIncludedVerify
<1>1. Init => OnlyIncludedVerify
  BY DEF Init, Idle, OnlyIncludedVerify
<1>2. OnlyIncludedVerify /\ [Next]_call => OnlyIncludedVerify'
  <2> SUFFICES ASSUME OnlyIncludedVerify, [Next]_call
               PROVE  OnlyIncludedVerify'
    OBVIOUS
  <2>1. CASE CheckInclusion
    <3>1. PICK txids, others, i, j : Checked(txids, others, i, j)
      BY <2>1, CheckArguments
    <3>2. SUFFICES ASSUME call'.accepted PROVE Includes(call'.block, others[j])
      BY <3>1 DEF OnlyIncludedVerify, Checked
    <3> DEFINE path == call'.proof.path
    <3>3. verify_proof(others[j], path, merkle_root(txids))
      <4>1. verify_against_header(call'.proof, Header([index |-> 1, txids |-> txids]))
        BY <3>1, <3>2 DEF Checked
      <4>2. verify_proof(call'.proof.txid, call'.proof.path, merkle_root(txids))
        BY <4>1 DEF verify_against_header, verify_inclusion, Header
      <4> QED BY <3>1, <4>2 DEF Checked
    <3>4. IsLayer(others) /\ IsLeaf(others[j])
      BY <3>1, BodiesAreLayers DEF Checked
    <3>5. Len(path) \in Nat
      <4>1. path = merkle_proof(others,
                     FirstIndex([index |-> 1, txids |-> others], others[i]))
        BY <3>1 DEF Checked, build_inclusion_proof
      <4> QED BY <3>4, <4>1, PathLength
    <3> HIDE DEF path
    <3>6. txids # << >>
      BY <3>3, <3>4, <3>5, NothingInEmpty
    <3>7. IsLayer(txids) /\ \A n \in 1..Len(txids) : IsLeaf(txids[n])
      BY <3>1, <3>6, BodiesAreLayers DEF Checked
    <3>8. \E n \in 1..Len(txids) : txids[n] = others[j]
      BY <3>3, <3>4, <3>5, <3>7, AcceptedIsIncluded
    <3> QED BY <3>1, <3>8 DEF Checked, Includes
  <2>2. CASE ProveInclusion
    BY <2>2 DEF ProveInclusion, OnlyIncludedVerify
  <2>3. CASE Others
    BY <2>3, OtherCalls DEF OnlyIncludedVerify
  <2>4. CASE UNCHANGED call
    BY <2>4 DEF OnlyIncludedVerify
  <2> QED BY <2>1, <2>2, <2>3, <2>4 DEF Next, Others
<1> QED BY <1>1, <1>2, PTL DEF Spec

(* merkle_root: a header stands for one list of transactions, if no list    *)
(* has a transaction twice, whatever their lengths.                         *)
THEOREM HeaderCommits == Spec => []RootCommits
<1>1. Init => RootCommits
  BY DEF Init, Idle, RootCommits
<1>2. RootCommits /\ [Next]_call => RootCommits'
  <2> SUFFICES ASSUME RootCommits, [Next]_call
               PROVE  RootCommits'
    OBVIOUS
  <2>1. CASE CheckInclusion
    <3>1. PICK txids, others, i, j : Checked(txids, others, i, j)
      BY <2>1, CheckArguments
    <3>2. SUFFICES ASSUME NoRepeats(txids), NoRepeats(others),
                          merkle_root(txids) = merkle_root(others)
                   PROVE  txids = others
      BY <3>1 DEF RootCommits, Checked
    <3>3. IsLayer(others) /\ \A n \in 1..Len(others) : IsLeaf(others[n])
      BY <3>1, BodiesAreLayers DEF Checked
    <3>4. txids # << >>
      BY <3>2, <3>3, RootNotEmpty
    <3>5. IsLayer(txids) /\ \A n \in 1..Len(txids) : IsLeaf(txids[n])
      BY <3>1, <3>4, BodiesAreLayers DEF Checked
    <3>6. Distinct(txids) /\ Distinct(others)
      BY <3>2 DEF NoRepeats, Distinct
    <3> QED BY <3>2, <3>3, <3>5, <3>6, RootIsUnique
  <2>2. CASE ProveInclusion
    BY <2>2 DEF ProveInclusion, RootCommits
  <2>3. CASE Others
    BY <2>3, OtherCalls DEF RootCommits
  <2>4. CASE UNCHANGED call
    BY <2>4 DEF RootCommits
  <2> QED BY <2>1, <2>2, <2>3, <2>4 DEF Next, Others
<1> QED BY <1>1, <1>2, PTL DEF Spec

-----------------------------------------------------------------------------
(* The difficulty controller.                                               *)

(* The controllers one after the other, c[0] the fresh one. *)
Controllers(difficulty, observations) ==
  LET c[i \in 0..Len(observations)] ==
        IF i = 0 THEN NewController(difficulty)
        ELSE next_difficulty(c[i-1], observations[i].drift, observations[i].explored)
  IN c

(* The controllers exist, so their defining equation holds. *)
LEMMA ControllersDef ==
  ASSUME NEW d, NEW obs, Len(obs) \in Nat
  PROVE  Controllers(d, obs) =
           [i \in 0..Len(obs) |->
              IF i = 0 THEN NewController(d)
              ELSE next_difficulty(Controllers(d, obs)[i-1], obs[i].drift, obs[i].explored)]
<1> DEFINE first == NewController(d)
           After(c, i) == next_difficulty(c, obs[i].drift, obs[i].explored)
           S == {m \in Nat : \E g :
                  g = [i \in 0..m |-> IF i = 0 THEN first ELSE After(g[i-1], i)]}
<1> HIDE DEF first, After
<1>1. 0 \in S
  <2>1. [i \in 0..0 |-> first] =
          [i \in 0..0 |-> IF i = 0 THEN first ELSE After([j \in 0..0 |-> first][i-1], i)]
    OBVIOUS
  <2> QED BY <2>1
<1>2. ASSUME NEW m \in Nat, m \in S PROVE m + 1 \in S
  <2>1. PICK g : g = [i \in 0..m |-> IF i = 0 THEN first ELSE After(g[i-1], i)]
    BY <1>2
  <2> DEFINE f == [i \in 0..(m+1) |-> IF i = m + 1 THEN After(g[m], m + 1) ELSE g[i]]
  <2>2. \A i \in 0..(m+1) : f[i] = IF i = 0 THEN first ELSE After(f[i-1], i)
    <3> SUFFICES ASSUME NEW i \in 0..(m+1)
                 PROVE  f[i] = IF i = 0 THEN first ELSE After(f[i-1], i)
      OBVIOUS
    <3>1. CASE i = m + 1
      BY <3>1
    <3>2. CASE i # m + 1
      <4>1. i \in 0..m /\ f[i] = g[i] /\ (i # 0 => f[i-1] = g[i-1])
        BY <3>2
      <4> HIDE DEF f
      <4> QED BY <2>1, <4>1
    <3> QED BY <3>1, <3>2
  <2>3. f = [i \in 0..(m+1) |-> IF i = 0 THEN first ELSE After(f[i-1], i)]
    <3> HIDE DEF f
    <3>1. f = [i \in 0..(m+1) |-> f[i]] BY DEF f
    <3> QED BY <2>2, <3>1
  <2> HIDE DEF f
  <2> QED BY <2>3
<1> HIDE DEF S
<1>3. Len(obs) \in S
  BY <1>1, <1>2, SetInduction
<1> QED BY <1>3 DEF S, Controllers, first, After

(* The greedy move is a best one. *)
LEMMA Greedy ==
  ASSUME NEW q, NEW state, \A a \in Moves : q[state][a] \in Int
  PROVE  /\ GreedyMove(q, state) \in Moves
         /\ \A b \in Moves : q[state][GreedyMove(q, state)] >= q[state][b]
<1> DEFINE x == q[state][-1]
           y == q[state][0]
           z == q[state][1]
           Chosen(a) == /\ \A b \in Moves : q[state][a] >= q[state][b]
                        /\ \A b \in Moves : b < a => q[state][a] # q[state][b]
<1>1. x \in Int /\ y \in Int /\ z \in Int
  BY DEF Moves
<1>2. \A a \in Moves : a = -1 \/ a = 0 \/ a = 1
  BY DEF Moves
<1>3. /\ Chosen(-1) <=> x >= x /\ x >= y /\ x >= z
      /\ Chosen(0) <=> y >= x /\ y >= y /\ y >= z /\ y # x
      /\ Chosen(1) <=> z >= x /\ z >= y /\ z >= z /\ z # x /\ z # y
  BY DEF Moves
<1> HIDE DEF x, y, z, Chosen
<1>4. Chosen(-1) \/ Chosen(0) \/ Chosen(1)
  BY <1>1, <1>3
<1>5. \E a \in Moves : Chosen(a)
  BY <1>4 DEF Moves
<1>6. GreedyMove(q, state) = CHOOSE a \in Moves : Chosen(a)
  BY DEF GreedyMove, Chosen
<1>7. GreedyMove(q, state) \in Moves /\ Chosen(GreedyMove(q, state))
  BY <1>5, <1>6
<1> QED BY <1>7 DEF Chosen

(* No value rises above 0, and one that was below stays there.  *)
NonPositive(q) == \A s \in Buckets, a \in Moves : q[s][a] \in Int /\ q[s][a] <= 0

(* Credit is never positive, and is negative after a drift. *)
LEMMA CreditLowers ==
  ASSUME NEW c, NEW s \in Buckets, NEW a \in Moves, c.last = <<s, a>>,
         c.unit \in Nat \ {0},
         NonPositive(c.q),
         NEW state \in Buckets, NEW reward \in Int, reward <= 0,
         NEW t \in Buckets, NEW b \in Moves,
         NEW v, v = Credited(c, state, reward)[t][b]
  PROVE  /\ v \in Int /\ v <= 0
         /\ <<t, b>> # <<s, a>> => v = 20 * c.q[t][b]
         /\ <<t, b>> = <<s, a>> /\ (reward < 0 \/ c.q[t][b] < 0) => v < 0
<1> DEFINE old == c.q[s][a]
           best == Best(c.q, state)
           unit == c.unit
           new == 10 * old + 10 * reward * unit + 9 * best
<1>1. old \in Int /\ old <= 0
  BY DEF NonPositive
<1>2. best \in Int /\ best <= 0
  BY Greedy DEF Best, NonPositive
<1>3. c.last[1] = s /\ c.last[2] = a
  OBVIOUS
<1>4. Credited(c, state, reward) =
        [s0 \in Buckets |-> [a0 \in Moves |->
           IF <<s0, a0>> = <<s, a>> THEN new ELSE 20 * c.q[s0][a0]]]
  BY <1>3 DEF Credited
<1>5. /\ <<t, b>> # <<s, a>> => v = 20 * c.q[t][b]
      /\ <<t, b>> = <<s, a>> => v = new
  BY <1>4
<1>6. /\ new \in Int /\ new <= 0
      /\ reward < 0 \/ old < 0 => new < 0
  <2>1. unit \in Int /\ unit > 0
    OBVIOUS
  <2> HIDE DEF old, best, unit
  <2>2. reward * unit \in Int /\ reward * unit <= 0 /\ (reward < 0 => reward * unit < 0)
    BY <2>1
  <2>3. 10 * reward * unit = 10 * (reward * unit)
    BY <2>1
  <2> QED BY <1>1, <1>2, <2>2, <2>3
<1>7. /\ <<t, b>> = <<s, a>> => t = s /\ b = a
      /\ c.q[t][b] \in Int /\ c.q[t][b] <= 0
  BY DEF NonPositive
<1> HIDE DEF new
<1>8. CASE <<t, b>> = <<s, a>>
  BY <1>5, <1>6, <1>7, <1>8
<1>9. CASE <<t, b>> # <<s, a>>
  BY <1>5, <1>7, <1>9
<1> QED BY <1>8, <1>9

Decision(last) == \E s \in Buckets, a \in Moves : last = <<s, a>>

(* What the controller knows after n observations: all its values are at    *)
(* most 0, those of decisions never taken are 0, and those of decisions     *)
(* that were followed by a drift are below it.                              *)
Learned(obs, c, n) ==
  /\ c[n].unit \in Nat \ {0}
  /\ Decision(c[n].last)
  /\ \A s \in Buckets, a \in Moves :
       /\ c[n].q[s][a] \in Int /\ c[n].q[s][a] <= 0
       /\ (\A j \in 1..(n-1) : c[j].last # <<s, a>>) => c[n].q[s][a] = 0
       /\ \A j \in 1..(n-1) :
            c[j].last = <<s, a>> /\ obs[j+1].drift # 0 => c[n].q[s][a] < 0

(* A sequence of observations, and the controllers that made them.  *)
Observed(obs) ==
  /\ Len(obs) \in Nat
  /\ \A i \in 1..Len(obs) : obs[i].drift \in Int /\ obs[i].explored \subseteq Moves

Follows(d, obs, c) ==
  /\ c[0] = NewController(d)
  /\ \A i \in 1..Len(obs) :
       c[i] = next_difficulty(c[i-1], obs[i].drift, obs[i].explored)

(* The controllers of a sequence are such a sequence. *)
LEMMA ControllersFollow ==
  ASSUME NEW d, NEW obs \in Seq([drift : Int, explored : SUBSET Moves])
  PROVE  Observed(obs) /\ Follows(d, obs, Controllers(d, obs))
<1>1. Len(obs) \in Nat
  OBVIOUS
<1>2. ASSUME NEW i \in 1..Len(obs)
      PROVE  obs[i].drift \in Int /\ obs[i].explored \subseteq Moves
  <2> DEFINE O == [drift : Int, explored : SUBSET Moves]
  <2>1. obs \in Seq(O)
    OBVIOUS
  <2>2. obs[i] \in O
    <3> HIDE DEF O
    <3> QED BY <1>1, <2>1
  <2> QED BY <2>2
<1> DEFINE c == Controllers(d, obs)
<1>3. c = [i \in 0..Len(obs) |->
             IF i = 0 THEN NewController(d)
             ELSE next_difficulty(c[i-1], obs[i].drift, obs[i].explored)]
  BY <1>1, ControllersDef
<1> HIDE DEF c
<1>4. Follows(d, obs, c)
  BY <1>1, <1>3 DEF Follows
<1> QED BY <1>1, <1>2, <1>4 DEF Observed, c

(* A decision is for one of the levels, and greedy when not explored. *)
LEMMA NextDecision ==
  ASSUME NEW d, NEW obs, Observed(obs), NEW c, Follows(d, obs, c), NEW i \in 1..Len(obs),
         NonPositive(c[i].q)
  PROVE  /\ Decision(c[i].last)
         /\ obs[i].explored = {} => c[i].last[2] = GreedyMove(c[i].q, c[i].last[1])
<1> DEFINE o == obs[i]
           state == Bucket(o.drift)
           p == c[i-1]
           q == IF p.last = <<>> THEN p.q ELSE Credited(p, state, Reward(o.drift))
           move == IF o.explored = {} THEN GreedyMove(q, state)
                   ELSE CHOOSE a \in o.explored : TRUE
<1>1. o.drift \in Int /\ o.explored \subseteq Moves
  BY DEF Observed
<1>2. c[i] = next_difficulty(p, o.drift, o.explored)
  BY DEF Follows
<1>3. c[i].q = q /\ c[i].last = <<state, move>>
  <2>1. next_difficulty(p, o.drift, o.explored) =
          [q |-> q, unit |-> IF p.last = <<>> THEN p.unit ELSE 20 * p.unit,
           last |-> <<state, move>>, difficulty |-> Clamp(p.difficulty + move)]
    BY Zenon DEF next_difficulty
  <2> HIDE DEF q, state, move
  <2> QED BY <1>2, <2>1
<1>4. state \in Buckets
  BY <1>1 DEF Bucket, Buckets
<1> HIDE DEF state, q
<1>5. \A a \in Moves : q[state][a] \in Int
  BY <1>3, <1>4 DEF NonPositive
<1>6. move \in Moves
  <2>1. CASE o.explored = {}
    BY <1>5, <2>1, Greedy
  <2>2. CASE o.explored # {}
    <3>1. (CHOOSE a \in o.explored : TRUE) \in o.explored
      BY <2>2
    <3> QED BY <1>1, <2>2, <3>1
  <2> QED BY <2>1, <2>2
<1>7. o.explored = {} => move = GreedyMove(q, state)
  OBVIOUS
<1> HIDE DEF move
<1> QED BY <1>3, <1>4, <1>6, <1>7 DEF Decision

(* Another observation: what it adds to what was learned before. *)
LEMMA LearnsMore ==
  ASSUME NEW d, NEW obs, Observed(obs), NEW c, Follows(d, obs, c), NEW i \in 1..Len(obs),
         i = 1 \/ Learned(obs, c, i - 1)
  PROVE  Learned(obs, c, i)
<1> DEFINE o == obs[i]
           state == Bucket(o.drift)
           reward == Reward(o.drift)
           p == c[i-1]
           q == c[i].q
<1>1. i \in Nat /\ i >= 1 /\ o.drift \in Int
  BY DEF Observed
<1>2. c[i] = next_difficulty(p, o.drift, o.explored) /\ (i = 1 => p = NewController(d))
  BY DEF Follows
<1>3. /\ p.last = <<>> => q = p.q /\ c[i].unit = p.unit
      /\ p.last # <<>> => q = Credited(p, state, reward) /\ c[i].unit = 20 * p.unit
  BY <1>2 DEF next_difficulty
<1>4. /\ state \in Buckets /\ reward \in Int /\ reward <= 0
      /\ o.drift # 0 => reward < 0
  BY <1>1 DEF Bucket, Buckets, Reward
<1> HIDE DEF state, reward, p, q
<1>5. /\ c[i].unit \in Nat \ {0}
      /\ \A s \in Buckets, a \in Moves :
           /\ q[s][a] \in Int /\ q[s][a] <= 0
           /\ (\A j \in 1..(i-1) : c[j].last # <<s, a>>) => q[s][a] = 0
           /\ \A j \in 1..(i-1) :
                c[j].last = <<s, a>> /\ obs[j+1].drift # 0 => q[s][a] < 0
  <2>1. CASE i = 1
    <3>1. p.unit = 1 /\ p.last = <<>> /\ \A s \in Buckets, a \in Moves : p.q[s][a] = 0
      BY <1>2, <2>1 DEF NewController
    <3>2. q = p.q /\ c[i].unit = p.unit
      BY <1>3, <3>1
    <3>3. \A s \in Buckets, a \in Moves : q[s][a] = 0
      BY <3>1, <3>2
    <3>4. ~ \E j : j \in 1..(i-1)
      BY <2>1
    <3> QED BY <3>1, <3>2, <3>3, <3>4
  <2>2. CASE i # 1
    <3>1. i - 1 \in 1..(i-1) /\ Learned(obs, c, i - 1)
      BY <1>1, <2>2
    <3>2. /\ p.unit \in Nat \ {0}
          /\ Decision(p.last)
          /\ \A s \in Buckets, a \in Moves :
               /\ p.q[s][a] \in Int /\ p.q[s][a] <= 0
               /\ (\A j \in 1..(i-2) : c[j].last # <<s, a>>) => p.q[s][a] = 0
               /\ \A j \in 1..(i-2) :
                    c[j].last = <<s, a>> /\ obs[j+1].drift # 0 => p.q[s][a] < 0
      <4>1. (i - 1) - 1 = i - 2
        BY <1>1
      <4> QED BY <3>1, <4>1 DEF Learned, p
    <3>3. PICK s0 \in Buckets, a0 \in Moves : p.last = <<s0, a0>>
      BY <3>2 DEF Decision
    <3>4. p.last # <<>>
      BY <3>3
    <3>5. q = Credited(p, state, reward) /\ c[i].unit = 20 * p.unit
      BY <1>3, <3>4
    <3>6. c[i].unit \in Nat \ {0}
      BY <3>2, <3>5
    <3>7. ASSUME NEW s \in Buckets, NEW a \in Moves
          PROVE  /\ q[s][a] \in Int /\ q[s][a] <= 0
                 /\ (\A j \in 1..(i-1) : c[j].last # <<s, a>>) => q[s][a] = 0
                 /\ \A j \in 1..(i-1) :
                      c[j].last = <<s, a>> /\ obs[j+1].drift # 0 => q[s][a] < 0
      <4> DEFINE v == q[s][a]
                 old == p.q[s][a]
      <4>1. /\ v \in Int /\ v <= 0
            /\ <<s, a>> # <<s0, a0>> => v = 20 * old
            /\ <<s, a>> = <<s0, a0>> /\ (reward < 0 \/ old < 0) => v < 0
        <5>1. NonPositive(p.q)
          BY <3>2 DEF NonPositive
        <5>2. v = Credited(p, state, reward)[s][a]
          BY <3>5
        <5> HIDE DEF v
        <5> QED BY <1>4, <3>2, <3>3, <5>1, <5>2, CreditLowers
      <4>2. /\ old \in Int /\ old <= 0
            /\ (\A j \in 1..(i-2) : c[j].last # <<s, a>>) => old = 0
            /\ \A j \in 1..(i-2) :
                 c[j].last = <<s, a>> /\ obs[j+1].drift # 0 => old < 0
        BY <3>2
      <4> HIDE DEF v, old
      <4>3. (\A j \in 1..(i-1) : c[j].last # <<s, a>>) => v = 0
        <5> SUFFICES ASSUME \A j \in 1..(i-1) : c[j].last # <<s, a>> PROVE v = 0
          OBVIOUS
        <5>1. <<s, a>> # <<s0, a0>>
          BY <3>1, <3>3 DEF p
        <5>2. \A j \in 1..(i-2) : c[j].last # <<s, a>>
          BY <3>1
        <5> QED BY <4>1, <4>2, <5>1, <5>2
      <4>4. ASSUME NEW j \in 1..(i-1), c[j].last = <<s, a>>, obs[j+1].drift # 0
            PROVE  v < 0
        <5>1. CASE j = i - 1
          <6>1. j + 1 = i
            BY <1>1, <5>1
          <6>2. o.drift # 0 /\ <<s, a>> = <<s0, a0>>
            BY <3>3, <4>4, <5>1, <6>1 DEF p
          <6> QED BY <1>4, <4>1, <6>2
        <5>2. CASE j # i - 1
          <6>1. j \in 1..(i-2)
            BY <1>1, <5>2
          <6>2. old < 0
            BY <4>2, <4>4, <6>1
          <6>3. 20 * old < 0
            BY <4>2, <6>2
          <6> QED BY <4>1, <6>2, <6>3
        <5> QED BY <5>1, <5>2
      <4> QED BY <4>1, <4>3, <4>4 DEF v
    <3> QED BY <3>6, <3>7
  <2> QED BY <2>1, <2>2
<1>6. Decision(c[i].last)
  <2>1. NonPositive(c[i].q)
    BY <1>5 DEF q, NonPositive
  <2> QED BY <2>1, NextDecision
<1> QED BY <1>5, <1>6 DEF Learned, q

(* A decision repeats one that was followed by a drift; every move was tried. *)
Costly(obs, c, i) ==
  \E k \in 1..(i-1) : c[k].last = c[i].last /\ obs[k+1].drift # 0

Tried(c, i) ==
  \A move \in Moves : \E j \in 1..(i-1) : c[j].last = <<c[i].last[1], move>>

(* next_difficulty: a greedy decision repeats a move that was followed by a *)
(* drift only when every move has been tried at this level of drift, after  *)
(* any number of observations and whatever exploration did before.          *)
LEMMA GreedyExplores ==
  ASSUME NEW d, NEW obs, Observed(obs), NEW c, Follows(d, obs, c), NEW i \in 1..Len(obs),
         obs[i].explored = {}, Costly(obs, c, i)
  PROVE  Tried(c, i)
<1> SUFFICES ASSUME NEW move \in Moves
             PROVE  \E j \in 1..(i-1) : c[j].last = <<c[i].last[1], move>>
  BY DEF Tried
<1>14. PICK k \in 1..(i-1) : c[k].last = c[i].last /\ obs[k+1].drift # 0
  BY DEF Costly
<1> DEFINE S == {n \in Nat : n = 0 \/ Learned(obs, c, n)}
<1>1. Len(obs) \in Nat
  BY DEF Observed
<1>2. 0 \in S
  OBVIOUS
<1>3. \A n \in 0..(Len(obs) - 1) : n \in S => n + 1 \in S
  <2> SUFFICES ASSUME NEW n \in 0..(Len(obs) - 1), n \in S PROVE n + 1 \in S
    OBVIOUS
  <2>1. n + 1 \in 1..Len(obs) /\ (n + 1) - 1 = n /\ n + 1 \in Nat /\ n \in Nat
    BY <1>1
  <2>2. n + 1 = 1 \/ Learned(obs, c, (n + 1) - 1)
    BY <2>1
  <2>3. Learned(obs, c, n + 1)
    BY <2>1, <2>2, LearnsMore
  <2> QED BY <2>1, <2>3
<1> HIDE DEF S
<1>4. \A n \in 0..Len(obs) : n \in S
  BY <1>1, <1>2, <1>3, UpTo
<1>5. Learned(obs, c, i)
  BY <1>4 DEF S
<1>6. PICK s \in Buckets, a \in Moves : c[i].last = <<s, a>>
  BY <1>5 DEF Learned, Decision
<1>7. NonPositive(c[i].q)
  BY <1>5 DEF Learned, NonPositive
<1>8. a = GreedyMove(c[i].q, s)
  <2>1. c[i].last[2] = GreedyMove(c[i].q, c[i].last[1])
    BY <1>7, NextDecision
  <2> QED BY <1>6, <2>1
<1>9. c[i].q[s][a] < 0
  BY <1>5, <1>6, <1>14 DEF Learned
<1>10. c[i].q[s][move] <= c[i].q[s][a]
  BY <1>6, <1>7, <1>8, Greedy DEF NonPositive
<1>11. (\A j \in 1..(i-1) : c[j].last # <<s, move>>) => c[i].q[s][move] = 0
  BY <1>5 DEF Learned
<1> DEFINE x == c[i].q[s][move]
           y == c[i].q[s][a]
<1>12. x \in Int /\ y \in Int
  BY <1>7 DEF NonPositive
<1> HIDE DEF x, y
<1>13. x # 0
  BY <1>9, <1>10, <1>12 DEF x, y
<1> QED BY <1>6, <1>11, <1>13 DEF x

(* The property, of the arguments and the result of a call. *)
Explores(observations, history) ==
  LET decided == [i \in DOMAIN history |-> history[i].last]
  IN \A i \in DOMAIN history :
       observations[i].explored = {}
         /\ (\E k \in 1..(i-1) : decided[k] = decided[i] /\ observations[k+1].drift # 0)
       => \A move \in Moves : \E j \in 1..(i-1) : decided[j] = <<decided[i][1], move>>

(* The actions that make no call of this kind. *)
NotRetargeted ==
  \/ ProveInclusion \/ CheckInclusion \/ AggregateUpdates \/ Multiply \/ SignMessage
  \/ VerifySignature \/ ValidateSeal \/ Return

LEMMA OtherThanRetarget == NotRetargeted => call'.op # "retarget"
BY KindOfCall DEF NotRetargeted

(* The property, as a formula of the call's arguments and result. *)
LEMMA TriesIfExplores ==
  /\ TriesEveryMove <=>
       (call.op = "retarget" => Explores(call.observations, call.history))
  /\ TriesEveryMove' <=>
       (call'.op = "retarget" => Explores(call'.observations, call'.history))
BY DEF TriesEveryMove, Explores

(* next_difficulty: at each level of drift, a greedy decision repeats a     *)
(* costly move only when every move has been tried there.                   *)
THEOREM EveryMoveTried == Spec => []TriesEveryMove
<1>1. Init => TriesEveryMove
  BY DEF Init, Idle, TriesEveryMove
<1>2. TriesEveryMove /\ [Next]_call => TriesEveryMove'
  <2> SUFFICES ASSUME TriesEveryMove, [Next]_call
               PROVE  TriesEveryMove'
    OBVIOUS
  <2>1. CASE Retarget
    <3>1. PICK obs \in Observations :
            call' = [op |-> "retarget", observations |-> obs,
                     history |-> History(min_difficulty, obs)]
      BY <2>1 DEF Retarget
    <3> DEFINE c == Controllers(min_difficulty, obs)
               history == History(min_difficulty, obs)
    <3>2. call'.observations = obs /\ call'.history = history
      BY <3>1
    <3>3. Observed(obs) /\ Follows(min_difficulty, obs, c)
      BY ObservationsAssumption, ControllersFollow
    <3>4. history = [i \in 1..Len(obs) |-> c[i]]
      BY Zenon DEF History, Controllers
    <3> HIDE DEF c, history
    <3> DEFINE decided == [i \in DOMAIN history |-> history[i].last]
    <3>5. ASSUME NEW i \in DOMAIN history, obs[i].explored = {},
                 NEW k \in 1..(i-1), decided[k] = decided[i], obs[k+1].drift # 0,
                 NEW move \in Moves
          PROVE  \E j \in 1..(i-1) : decided[j] = <<decided[i][1], move>>
      <4>1. i \in 1..Len(obs) /\ \A j \in 1..(i-1) : j \in 1..Len(obs)
        BY <3>3, <3>4 DEF Observed
      <4>2. decided[i] = c[i].last /\ \A j \in 1..(i-1) : decided[j] = c[j].last
        BY <3>4, <4>1
      <4>3. c[k].last = c[i].last
        BY <3>5, <4>2
      <4> HIDE DEF decided
      <4>4. Costly(obs, c, i)
        BY <3>5, <4>3 DEF Costly
      <4>5. Tried(c, i)
        BY <3>3, <3>5, <4>1, <4>4, GreedyExplores
      <4>6. \E j \in 1..(i-1) : c[j].last = <<c[i].last[1], move>>
        BY <4>5 DEF Tried
      <4> QED BY <4>2, <4>6
    <3>6. Explores(obs, history)
      BY <3>5 DEF Explores
    <3> QED BY <3>2, <3>6, TriesIfExplores
  <2>2. CASE UNCHANGED call
    BY <2>2, TriesIfExplores
  <2>3. CASE NotRetargeted
    <3>1. call'.op # "retarget"
      BY <2>3, OtherThanRetarget
    <3> QED BY <3>1, TriesIfExplores
  <2> QED BY <2>1, <2>2, <2>3 DEF Next, NotRetargeted
<1> QED BY <1>1, <1>2, PTL DEF Spec

-----------------------------------------------------------------------------
(* Proofs of useful work.                                                   *)

(* The least loss of the first n+1, the first of them if there are several. *)
LEMMA BestIsLeast ==
  ASSUME NEW losses, NEW r \in Nat, \A i \in 1..(r+1) : losses[i] \in Int
  PROVE  /\ BestOf(losses, r) \in 1..(r+1)
         /\ \A j \in 1..(r+1) : losses[BestOf(losses, r)] <= losses[j]
<1> DEFINE Least(i, n) == i \in 1..(n+1) /\ \A j \in 1..(n+1) : losses[i] <= losses[j]
           S == {n \in Nat : \E i : Least(i, n)}
           T == {i \in 1..(r+1) : Least(i, r)}
<1>1. 0 \in S
  <2>1. losses[1] \in Int
    OBVIOUS
  <2>2. \A j \in 1..(0+1) : j = 1
    OBVIOUS
  <2>3. Least(1, 0)
    BY <2>1, <2>2
  <2> QED BY <2>3
<1>2. ASSUME NEW n \in 0..(r-1), n \in S PROVE n + 1 \in S
  <2>1. PICK i : Least(i, n)
    BY <1>2
  <2>2. /\ i \in 1..(n+1) /\ i \in 1..((n+1)+1) /\ n + 2 \in 1..((n+1)+1)
        /\ losses[i] \in Int /\ losses[n+2] \in Int
        /\ \A j \in 1..((n+1)+1) : losses[j] \in Int /\ (j \in 1..(n+1) \/ j = n + 2)
    BY <2>1
  <2>3. CASE losses[i] <= losses[n+2]
    <3>1. Least(i, n + 1)
      BY <2>1, <2>2, <2>3
    <3> QED BY <3>1
  <2>4. CASE losses[n+2] < losses[i]
    <3>1. \A j \in 1..((n+1)+1) : losses[n+2] <= losses[j]
      <4> TAKE j \in 1..((n+1)+1)
      <4>1. CASE j = n + 2
        BY <2>2, <4>1
      <4>2. CASE j \in 1..(n+1)
        <5>1. losses[i] <= losses[j]
          BY <2>1, <4>2
        <5> QED BY <2>2, <2>4, <5>1
      <4> QED BY <2>2, <4>1, <4>2
    <3>2. Least(n + 2, n + 1)
      BY <2>2, <3>1
    <3> QED BY <3>2
  <2> QED BY <2>2, <2>3, <2>4
<1>3. \E i : Least(i, r)
  <2>1. r \in S
    <3> HIDE DEF S
    <3>1. \A n \in 0..(r-1) : n \in S => n + 1 \in S
      BY <1>2
    <3>2. \A n \in 0..r : n \in S
      BY <1>1, <3>1, UpTo
    <3> QED BY <3>2
  <2> QED BY <2>1
<1>4. PICK i \in T : \A k \in T : i <= k
  <2>1. T \in SUBSET Nat /\ T # {}
    BY <1>3
  <2> HIDE DEF T
  <2> QED BY <2>1, LeastNat
<1>5. /\ i \in 1..(r+1)
      /\ \A j \in 1..(r+1) : losses[i] <= losses[j]
      /\ \A j \in 1..(i-1) : losses[j] # losses[i]
  <2>1. Least(i, r)
    BY <1>4
  <2>2. ASSUME NEW j \in 1..(i-1), losses[j] = losses[i] PROVE FALSE
    <3>1. j \in 1..(r+1) /\ j < i
      BY <2>1
    <3>2. Least(j, r)
      BY <2>1, <2>2, <3>1
    <3>3. j \in T
      BY <3>1, <3>2
    <3> QED BY <1>4, <3>1, <3>3
  <2> QED BY <2>1, <2>2
<1> QED BY <1>5, Zenon DEF BestOf

(* Training ends after the last round or when the best so far will do. *)
LEMMA TrainingEnds ==
  ASSUME NEW losses \in [1..(rounds + 1) -> RoundLosses], NEW threshold \in Int
  PROVE  LET last == LastRound(losses, threshold)
         IN /\ last \in 1..rounds
            /\ last = rounds \/ losses[BestOf(losses, last)] <= threshold
<1> DEFINE Stops(r) == r = rounds \/ losses[BestOf(losses, r)] <= threshold
           T == {r \in 1..rounds : Stops(r)}
<1>1. rounds \in Nat /\ rounds >= 1 /\ RoundLosses \subseteq Int
  BY SealingAssumption
<1>2. PICK r \in T : \A k \in T : r <= k
  <2>1. rounds \in T /\ T \in SUBSET Nat
    BY <1>1
  <2> HIDE DEF T
  <2> QED BY <2>1, LeastNat
<1>3. r \in 1..rounds /\ Stops(r)
  BY <1>2
<1>4. ASSUME NEW k \in 1..(r-1) PROVE losses[BestOf(losses, k)] > threshold
  <2>1. k \in Nat /\ k \in 1..rounds /\ k < r /\ \A i \in 1..(k+1) : i \in 1..(rounds + 1)
    BY <1>1, <1>3
  <2>2. \A i \in 1..(k+1) : losses[i] \in Int
    BY <1>1, <2>1
  <2>3. BestOf(losses, k) \in 1..(k+1)
    BY <2>1, <2>2, BestIsLeast
  <2>4. losses[BestOf(losses, k)] \in Int
    BY <2>2, <2>3
  <2>5. k \notin T
    BY <1>2, <1>3, <2>1
  <2>6. ~(losses[BestOf(losses, k)] <= threshold)
    BY <2>1, <2>5
  <2> QED BY <2>4, <2>6
<1>5. LastRound(losses, threshold) =
        CHOOSE q \in 1..rounds : Stops(q) /\ \A k \in 1..(q-1) : losses[BestOf(losses, k)] > threshold
  BY DEF LastRound
<1>6. LastRound(losses, threshold) \in 1..rounds /\ Stops(LastRound(losses, threshold))
  <2> HIDE DEF Stops
  <2> QED BY <1>3, <1>4, <1>5
<1> QED BY <1>6

(* The loss of the sealed proof. *)
Shipped(losses, threshold) == losses[BestOf(losses, LastRound(losses, threshold))]

(* It reaches the threshold exactly if training did at some time. *)
LEMMA ShippedIfTrained ==
  ASSUME NEW losses \in [1..(rounds + 1) -> RoundLosses], NEW threshold \in Int
  PROVE  /\ Shipped(losses, threshold) \in RoundLosses
         /\ Shipped(losses, threshold) \in Int
         /\ Shipped(losses, threshold) <= threshold <=>
              \E i \in DOMAIN losses : losses[i] <= threshold
<1> DEFINE last == LastRound(losses, threshold)
           best == BestOf(losses, last)
<1>1. rounds \in Nat /\ rounds >= 1 /\ RoundLosses \subseteq Int
  BY SealingAssumption
<1>2. last \in 1..rounds /\ (last = rounds \/ losses[best] <= threshold)
  BY TrainingEnds
<1>3. last \in Nat /\ \A i \in 1..(last+1) : i \in 1..(rounds + 1) /\ losses[i] \in Int
  <2>1. last \in 1..rounds
    BY <1>2
  <2> HIDE DEF last
  <2>2. last \in Nat /\ \A i \in 1..(last+1) : i \in 1..(rounds + 1)
    BY <1>1, <2>1
  <2>3. \A i \in 1..(rounds + 1) : losses[i] \in Int
    BY <1>1
  <2> QED BY <2>2, <2>3
<1>4. best \in 1..(last+1) /\ \A j \in 1..(last+1) : losses[best] <= losses[j]
  <2> HIDE DEF last
  <2> QED BY <1>3, BestIsLeast
<1>5. Shipped(losses, threshold) = losses[best]
  BY DEF Shipped
<1> HIDE DEF last, best
<1>6. best \in 1..(rounds + 1) /\ losses[best] \in RoundLosses /\ losses[best] \in Int
  BY <1>1, <1>3, <1>4
<1>7. ASSUME NEW i \in 1..(rounds + 1), losses[i] <= threshold
      PROVE  losses[best] <= threshold
  <2>1. CASE last = rounds
    <3>1. losses[best] <= losses[i] /\ losses[i] \in Int
      BY <1>3, <1>4, <1>7, <2>1
    <3> QED BY <1>6, <1>7, <3>1
  <2> QED BY <1>2, <2>1
<1> QED BY <1>5, <1>6, <1>7

(* The search for a nonce finds one, when there is one. *)
LEMMA NonceFound ==
  ASSUME NEW digest, NEW seed,
         \E nonce \in 0..MaxNonce : HasPrefix(Binding(digest, seed, nonce))
  PROVE  /\ find_binding_nonce(digest, seed) \in Nat
         /\ HasPrefix(Binding(digest, seed, find_binding_nonce(digest, seed)))
<1> DEFINE Fits(n) == HasPrefix(Binding(digest, seed, n))
           T == {n \in 0..MaxNonce : Fits(n)}
<1>1. PICK n \in T : \A k \in T : n <= k
  <2>1. T \in SUBSET Nat /\ T # {}
    BY SealingAssumption
  <2> HIDE DEF T
  <2> QED BY <2>1, LeastNat
<1>2. n \in 0..MaxNonce /\ Fits(n)
  BY <1>1
<1>3. \A k \in 0..(n-1) : ~Fits(k)
  <2> SUFFICES ASSUME NEW k \in 0..(n-1), Fits(k) PROVE FALSE
    OBVIOUS
  <2>1. k \in T /\ k < n
    BY <1>2, SealingAssumption
  <2> QED BY <1>1, <1>2, <2>1, SealingAssumption
<1>4. find_binding_nonce(digest, seed) =
        CHOOSE m \in 0..MaxNonce : Fits(m) /\ \A k \in 0..(m-1) : ~Fits(k)
  BY DEF find_binding_nonce
<1>5. find_binding_nonce(digest, seed) \in 0..MaxNonce /\ Fits(find_binding_nonce(digest, seed))
  <2> HIDE DEF Fits
  <2> QED BY <1>2, <1>3, <1>4
<1> QED BY <1>5

(* A block with another nonce and another proof. *)
Filled(block, nonce, proof) == [block EXCEPT !.nonce = nonce, !.proof = proof]

(* What was there before counts no more. *)
LEMMA Replaced ==
  ASSUME NEW p, NEW m, NEW d, NEW nonce, NEW proof, NEW n0, NEW proof0
  PROVE  Filled([previous_hash |-> p, merkle_root |-> m, difficulty |-> d,
                 nonce |-> n0, proof |-> proof0], nonce, proof)
           = [previous_hash |-> p, merkle_root |-> m, difficulty |-> d,
              nonce |-> nonce, proof |-> proof]
<1> DEFINE block == [previous_hash |-> p, merkle_root |-> m, difficulty |-> d,
                     nonce |-> n0, proof |-> proof0]
           found == [previous_hash |-> p, merkle_root |-> m, difficulty |-> d,
                     nonce |-> nonce, proof |-> proof0]
           result == [previous_hash |-> p, merkle_root |-> m, difficulty |-> d,
                      nonce |-> nonce, proof |-> proof]
<1>1. [block EXCEPT !.nonce = nonce, !.proof = proof]
        = [[block EXCEPT !.nonce = nonce] EXCEPT !.proof = proof]
  OBVIOUS
<1>2. [block EXCEPT !.nonce = nonce] = found
  OBVIOUS
<1>3. [found EXCEPT !.proof = proof] = result
  OBVIOUS
<1> SUFFICES Filled(block, nonce, proof) = result
  OBVIOUS
<1>4. Filled(block, nonce, proof) = [block EXCEPT !.nonce = nonce, !.proof = proof]
  BY Zenon DEF Filled
<1> HIDE DEF block, found, result
<1> QED BY <1>1, <1>2, <1>3, <1>4, Zenon

(* A sealed block with its parts named: previous hash, merkle root,         *)
(* difficulty, nonce, loss, threshold.                                      *)
Sealed(p, m, d, nonce, loss, threshold) ==
  LET weights == [challenge |-> <<p, m>>, loss |-> loss]
  IN [previous_hash |-> p, merkle_root |-> m, difficulty |-> d, nonce |-> nonce,
      proof |-> [algorithm |-> "useful-intelligence", challenge_seed |-> <<p, m>>,
                 val_loss |-> loss, threshold |-> threshold,
                 weights |-> weights, weights_digest |-> weights,
                 binding_hash |-> Binding(weights, <<p, m>>, nonce),
                 work_quality |-> WorkQuality(loss, threshold), genesis |-> FALSE]]

(* seal fills in the nonce and the proof. *)
LEMMA SealSeals ==
  ASSUME NEW b \in Candidates, NEW losses \in [1..(rounds + 1) -> RoundLosses],
         NEW r \in Reputations
  PROVE  \E nonce \in Nat, loss \in RoundLosses :
           LET threshold == Required(b.difficulty, r)
           IN /\ seal(b, losses, r) =
                   Sealed(b.previous_hash, b.merkle_root, b.difficulty, nonce, loss, threshold)
              /\ threshold \in Int
              /\ loss <= threshold <=> \E i \in DOMAIN losses : losses[i] <= threshold
              /\ LET seed == <<b.previous_hash, b.merkle_root>>
                 IN HasPrefix(Binding([challenge |-> seed, loss |-> loss], seed, nonce))
<1> DEFINE p == b.previous_hash
           m == b.merkle_root
           d == b.difficulty
           seed == <<p, m>>
           threshold == Required(d, r)
           loss == Shipped(losses, threshold)
           weights == [challenge |-> seed, loss |-> loss]
           nonce == find_binding_nonce(weights, seed)
           proof == [algorithm |-> "useful-intelligence", challenge_seed |-> seed,
                     val_loss |-> loss, threshold |-> threshold,
                     weights |-> weights, weights_digest |-> weights,
                     binding_hash |-> Binding(weights, seed, nonce),
                     work_quality |-> WorkQuality(loss, threshold), genesis |-> FALSE]
<1>1. b = [previous_hash |-> p, merkle_root |-> m, difficulty |-> d,
           nonce |-> b.nonce, proof |-> b.proof]
  BY SealingAssumption
<1>2. threshold \in Int
  <2>1. d \in 0..MaxDifficulty /\ MaxDifficulty \in Nat /\ r \in Nat
    BY SealingAssumption
  <2>2. 7^d \in Int /\ 10^(MaxDifficulty - d) \in Int /\ 10000 + 15 * r \in Int
    BY <2>1
  <2> QED BY <2>2 DEF Required, Threshold
<1>3. /\ loss \in RoundLosses
      /\ loss <= threshold <=> \E i \in DOMAIN losses : losses[i] <= threshold
  <2> HIDE DEF threshold
  <2> QED BY <1>2, ShippedIfTrained
<1>4. nonce \in Nat /\ HasPrefix(Binding(weights, seed, nonce))
  <2>1. challenge_seed(b) = seed
    BY DEF challenge_seed
  <2>2. \E n \in 0..MaxNonce : HasPrefix(Binding(weights, seed, n))
    <3> HIDE DEF loss
    <3> QED BY <1>3, <2>1, SealingAssumption
  <2> HIDE DEF seed, weights
  <2> QED BY <2>2, NonceFound
<1>5. seal(b, losses, r) = Filled(b, nonce, proof)
  BY Zenon DEF seal, challenge_seed, Shipped, Filled
<1>6. seal(b, losses, r) = [previous_hash |-> p, merkle_root |-> m, difficulty |-> d,
                            nonce |-> nonce, proof |-> proof]
  <2> HIDE DEF p, m, d, nonce, proof
  <2>1. PICK n0, proof0 : b = [previous_hash |-> p, merkle_root |-> m, difficulty |-> d,
                               nonce |-> n0, proof |-> proof0]
    BY <1>1
  <2>2. Filled(b, nonce, proof) = [previous_hash |-> p, merkle_root |-> m, difficulty |-> d,
                                   nonce |-> nonce, proof |-> proof]
    BY <2>1, Replaced
  <2> QED BY <1>5, <2>2
<1>7. seal(b, losses, r) = Sealed(p, m, d, nonce, loss, threshold)
  BY <1>6, Zenon DEF Sealed
<1> HIDE DEF nonce, loss, threshold, p, m, d
<1> QED BY <1>2, <1>3, <1>4, <1>7 DEF threshold, p, m, d

(* A block of any parts. *)
Full(p, m, d, nonce, a, s, val, thr, w, digest, binding, quality, genesis) ==
  [previous_hash |-> p, merkle_root |-> m, difficulty |-> d, nonce |-> nonce,
   proof |-> [algorithm |-> a, challenge_seed |-> s, val_loss |-> val, threshold |-> thr,
              weights |-> w, weights_digest |-> digest, binding_hash |-> binding,
              work_quality |-> quality, genesis |-> genesis]]

(* Such a block, of which only the binding hash and the flag are given. *)
Fits(block, binding, g) ==
  \E p, m, d, n, a, s, val, thr, w, digest, q :
    block = Full(p, m, d, n, a, s, val, thr, w, digest, binding, q, g)

(* Changing any other part leaves it such a block. *)
LEMMA ChangedFits ==
  ASSUME NEW binding, NEW g, NEW x, NEW block, Fits(block, binding, g)
  PROVE  /\ Fits([block EXCEPT !.previous_hash = @ + 1], binding, g)
         /\ Fits([block EXCEPT !.previous_hash = @ + 1,
                               !.proof = [@ EXCEPT !.challenge_seed = x]], binding, g)
         /\ Fits([block EXCEPT !.merkle_root = @ + 1], binding, g)
         /\ Fits([block EXCEPT !.nonce = @ + 1], binding, g)
         /\ Fits([block EXCEPT !.difficulty = x], binding, g)
         /\ Fits([block EXCEPT !.proof.algorithm = x], binding, g)
         /\ Fits([block EXCEPT !.proof.challenge_seed = x], binding, g)
         /\ Fits([block EXCEPT !.proof.val_loss = x], binding, g)
         /\ Fits([block EXCEPT !.proof.threshold = x], binding, g)
         /\ Fits([block EXCEPT !.proof.work_quality = x], binding, g)
         /\ Fits([block EXCEPT !.proof.weights.loss = x], binding, g)
         /\ Fits([block EXCEPT !.proof.weights_digest.loss = x], binding, g)
<1>1. PICK p, m, d, n, a, s, val, thr, w, digest, q :
        block = Full(p, m, d, n, a, s, val, thr, w, digest, binding, q, g)
  BY DEF Fits
<1>2. [block EXCEPT !.previous_hash = @ + 1]
        = Full(p + 1, m, d, n, a, s, val, thr, w, digest, binding, q, g)
  BY <1>1 DEF Full
<1>3. [block EXCEPT !.previous_hash = @ + 1, !.proof = [@ EXCEPT !.challenge_seed = x]]
        = Full(p + 1, m, d, n, a, x, val, thr, w, digest, binding, q, g)
  <2> DEFINE proof == [block.proof EXCEPT !.challenge_seed = x]
             new == [algorithm |-> a, challenge_seed |-> x, val_loss |-> val,
                     threshold |-> thr, weights |-> w, weights_digest |-> digest,
                     binding_hash |-> binding, work_quality |-> q, genesis |-> g]
             old == [algorithm |-> a, challenge_seed |-> s, val_loss |-> val,
                     threshold |-> thr, weights |-> w, weights_digest |-> digest,
                     binding_hash |-> binding, work_quality |-> q, genesis |-> g]
  <2>1. proof = new
    <3>1. block.proof = old
      BY <1>1 DEF Full
    <3>2. [old EXCEPT !.challenge_seed = x] = new
      OBVIOUS
    <3> HIDE DEF old, new
    <3> QED BY <3>1, <3>2
  <2>2. ASSUME NEW y
        PROVE  [block EXCEPT !.previous_hash = @ + 1, !.proof = y]
                 = [previous_hash |-> p + 1, merkle_root |-> m, difficulty |-> d,
                    nonce |-> n, proof |-> y]
    <3> DEFINE moved == [block EXCEPT !.previous_hash = @ + 1]
    <3>1. [block EXCEPT !.previous_hash = @ + 1, !.proof = y] = [moved EXCEPT !.proof = y]
      OBVIOUS
    <3>2. [moved EXCEPT !.proof = y]
            = [previous_hash |-> p + 1, merkle_root |-> m, difficulty |-> d,
               nonce |-> n, proof |-> y]
      <4> HIDE DEF moved
      <4>1. moved = Full(p + 1, m, d, n, a, s, val, thr, w, digest, binding, q, g)
        BY <1>2 DEF moved
      <4> QED BY <4>1 DEF Full
    <3> QED BY <3>1, <3>2
  <2>3. [block EXCEPT !.previous_hash = @ + 1, !.proof = new]
          = Full(p + 1, m, d, n, a, x, val, thr, w, digest, binding, q, g)
    BY <2>2 DEF Full
  <2>4. [block EXCEPT !.previous_hash = @ + 1, !.proof = proof]
          = Full(p + 1, m, d, n, a, x, val, thr, w, digest, binding, q, g)
    BY <2>1, <2>3
  <2> QED BY <2>4
<1>4. [block EXCEPT !.merkle_root = @ + 1]
        = Full(p, m + 1, d, n, a, s, val, thr, w, digest, binding, q, g)
  BY <1>1 DEF Full
<1>5. [block EXCEPT !.nonce = @ + 1]
        = Full(p, m, d, n + 1, a, s, val, thr, w, digest, binding, q, g)
  BY <1>1 DEF Full
<1>6. [block EXCEPT !.difficulty = x]
        = Full(p, m, x, n, a, s, val, thr, w, digest, binding, q, g)
  BY <1>1 DEF Full
<1>7. [block EXCEPT !.proof.algorithm = x]
        = Full(p, m, d, n, x, s, val, thr, w, digest, binding, q, g)
  BY <1>1 DEF Full
<1>8. [block EXCEPT !.proof.challenge_seed = x]
        = Full(p, m, d, n, a, x, val, thr, w, digest, binding, q, g)
  BY <1>1 DEF Full
<1>9. [block EXCEPT !.proof.val_loss = x]
        = Full(p, m, d, n, a, s, x, thr, w, digest, binding, q, g)
  BY <1>1 DEF Full
<1>10. [block EXCEPT !.proof.threshold = x]
        = Full(p, m, d, n, a, s, val, x, w, digest, binding, q, g)
  BY <1>1 DEF Full
<1>11. [block EXCEPT !.proof.work_quality = x]
        = Full(p, m, d, n, a, s, val, thr, w, digest, binding, x, g)
  BY <1>1 DEF Full
<1>12. [block EXCEPT !.proof.weights.loss = x]
        = Full(p, m, d, n, a, s, val, thr, [w EXCEPT !.loss = x], digest, binding, q, g)
  BY <1>1 DEF Full
<1>13. [block EXCEPT !.proof.weights_digest.loss = x]
        = Full(p, m, d, n, a, s, val, thr, w, [digest EXCEPT !.loss = x], binding, q, g)
  BY <1>1 DEF Full
<1>14. \A b, p0, m0, d0, n0, a0, s0, val0, thr0, w0, digest0, q0 :
         b = Full(p0, m0, d0, n0, a0, s0, val0, thr0, w0, digest0, binding, q0, g)
           => Fits(b, binding, g)
  BY Zenon DEF Fits
<1>15. Fits([block EXCEPT !.previous_hash = @ + 1,
                         !.proof = [@ EXCEPT !.challenge_seed = x]], binding, g)
  BY <1>3, <1>14
<1>16. /\ Fits([block EXCEPT !.previous_hash = @ + 1], binding, g)
       /\ Fits([block EXCEPT !.merkle_root = @ + 1], binding, g)
       /\ Fits([block EXCEPT !.nonce = @ + 1], binding, g)
       /\ Fits([block EXCEPT !.difficulty = x], binding, g)
  BY <1>2, <1>4, <1>5, <1>6, <1>14
<1> QED BY <1>7, <1>8, <1>9, <1>10, <1>11, <1>12, <1>13, <1>14, <1>15, <1>16

(* A binding hash changed is another one. *)
LEMMA ChangedBinding ==
  ASSUME NEW digest, NEW seed, NEW nonce \in Nat
  PROVE  [Binding(digest, seed, nonce) EXCEPT !.nonce = @ + 1] # Binding(digest, seed, nonce)
<1> DEFINE b == Binding(digest, seed, nonce)
           c == [b EXCEPT !.nonce = @ + 1]
<1>1. c.nonce = nonce + 1 /\ b.nonce = nonce
  BY DEF Binding
<1>2. nonce + 1 # nonce
  OBVIOUS
<1> HIDE DEF b, c
<1>3. c # b
  BY <1>1, <1>2
<1> QED BY <1>3 DEF b, c

(* How a block is judged that carries the flag of a genesis block, or does  *)
(* not but has the loss of the sealed one.                                  *)
Judged(block, sealed, loss, v) ==
  validate(block, v) <=>
    \/ block.proof.genesis
    \/ Tied(block) = Tied(sealed) /\ loss <= Required(block.difficulty, v)

(* A block that brings the binding hash of the sealed one, whatever else it *)
(* brings, is accepted by its loss if all that the hash ties together is as *)
(* it was sealed, and else never.                                           *)
LEMMA JudgedByBinding ==
  ASSUME NEW p, NEW m, NEW d, NEW nonce, NEW loss, NEW threshold, NEW v,
         NEW p0, NEW m0, NEW d0, NEW n0, NEW a, NEW s, NEW val, NEW thr, NEW w,
         NEW digest, NEW quality,
         HasPrefix(Binding([challenge |-> <<p, m>>, loss |-> loss], <<p, m>>, nonce))
  PROVE  Judged(Full(p0, m0, d0, n0, a, s, val, thr, w, digest,
                     Binding([challenge |-> <<p, m>>, loss |-> loss], <<p, m>>, nonce),
                     quality, FALSE),
                Sealed(p, m, d, nonce, loss, threshold), loss, v)
<1> DEFINE seed == <<p, m>>
           weights == [challenge |-> seed, loss |-> loss]
           binding == Binding(weights, seed, nonce)
           useful == "useful-intelligence"
           block == Full(p0, m0, d0, n0, a, s, val, thr, w, digest, binding, quality, FALSE)
           sealed == Sealed(p, m, d, nonce, loss, threshold)
           AsSealed == /\ p0 = p /\ m0 = m /\ n0 = nonce /\ a = useful
                       /\ s = seed /\ w = weights /\ digest = weights
<1>1. /\ block.previous_hash = p0 /\ block.merkle_root = m0 /\ block.nonce = n0
      /\ block.difficulty = d0 /\ block.proof.algorithm = a
      /\ block.proof.challenge_seed = s /\ block.proof.weights = w
      /\ block.proof.weights_digest = digest /\ block.proof.binding_hash = binding
      /\ block.proof.genesis = FALSE
  BY DEF Full
<1>2. /\ sealed.previous_hash = p /\ sealed.merkle_root = m /\ sealed.nonce = nonce
      /\ sealed.proof.algorithm = useful
      /\ sealed.proof.challenge_seed = seed /\ sealed.proof.weights = weights
      /\ sealed.proof.weights_digest = weights /\ sealed.proof.binding_hash = binding
  BY DEF Sealed
<1>3. Binding(digest, s, n0) = binding <=> digest = weights /\ s = seed /\ n0 = nonce
  <2> HIDE DEF weights, seed
  <2> QED BY DEF Binding
<1>4. dataset_loss(weights, seed) = loss
  BY DEF dataset_loss
<1>5. seed = <<p0, m0>> <=> p0 = p /\ m0 = m
  OBVIOUS
<1>6. HasPrefix(binding)
  OBVIOUS
<1> HIDE DEF block, sealed, weights, binding, useful, seed
<1>7. Tied(block) = Tied(sealed) <=> AsSealed
  <2>1. Tied(block) = <<p0, m0, n0, a, s, w, digest, binding>>
    BY <1>1 DEF Tied
  <2>2. Tied(sealed) = <<p, m, nonce, useful, seed, weights, weights, binding>>
    BY <1>2 DEF Tied
  <2> QED BY <2>1, <2>2
<1>8. validate(block, v) <=>
        /\ a = useful /\ s = <<p0, m0>> /\ digest = w
        /\ Binding(digest, s, n0) = binding /\ HasPrefix(Binding(digest, s, n0))
        /\ dataset_loss(w, s) <= Required(d0, v)
  BY <1>1, Zenon DEF validate, challenge_seed, useful
<1>9. validate(block, v) <=> AsSealed /\ loss <= Required(d0, v)
  BY <1>3, <1>4, <1>5, <1>6, <1>8, Zenon
<1>10. Judged(block, sealed, loss, v)
  BY <1>1, <1>7, <1>9, Zenon DEF Judged
<1> QED BY <1>10, Zenon DEF block, sealed, weights, binding, seed

(* Every block a verifier is presented with is judged that way. *)
LEMMA VariantJudged ==
  ASSUME NEW p, NEW m, NEW d, NEW nonce \in Nat, NEW loss, NEW threshold, NEW v,
         HasPrefix(Binding([challenge |-> <<p, m>>, loss |-> loss], <<p, m>>, nonce)),
         NEW block \in Variants(Sealed(p, m, d, nonce, loss, threshold))
  PROVE  Judged(block, Sealed(p, m, d, nonce, loss, threshold), loss, v)
<1> DEFINE seed == <<p, m>>
           weights == [challenge |-> seed, loss |-> loss]
           binding == Binding(weights, seed, nonce)
           sealed == Sealed(p, m, d, nonce, loss, threshold)
           rebound == [sealed EXCEPT !.proof.binding_hash.nonce = @ + 1]
<1>1. ASSUME NEW b, Fits(b, binding, FALSE) PROVE Judged(b, sealed, loss, v)
  BY <1>1, JudgedByBinding, Zenon DEF Fits
<1>2. ASSUME NEW b, b.proof.genesis PROVE Judged(b, sealed, loss, v)
  BY <1>2, Zenon DEF Judged, validate
<1>3. Fits(sealed, binding, FALSE)
  BY Zenon DEF Sealed, Fits, Full
<1>4. Judged(rebound, sealed, loss, v)
  <2> DEFINE other == [binding EXCEPT !.nonce = @ + 1]
  <2>1. other # binding
    BY ChangedBinding
  <2>2. /\ rebound.proof.binding_hash = other /\ rebound.proof.weights_digest = weights
        /\ rebound.proof.challenge_seed = seed /\ rebound.nonce = nonce
        /\ ~rebound.proof.genesis
    BY DEF Sealed
  <2>3. sealed.proof.binding_hash = binding
    BY DEF Sealed
  <2> HIDE DEF sealed, rebound, other, seed, weights
  <2>4. Tied(rebound) # Tied(sealed)
    BY <2>1, <2>2, <2>3 DEF Tied
  <2>5. ~validate(rebound, v)
    BY <2>1, <2>2, Zenon DEF validate
  <2> QED BY <2>2, <2>4, <2>5, Zenon DEF Judged
<1>5. /\ [sealed EXCEPT !.proof.genesis = TRUE].proof.genesis
      /\ [sealed EXCEPT !.proof = [genesis |-> TRUE]].proof.genesis
  BY DEF Sealed
<1> HIDE DEF sealed, rebound, binding
<1>6. block \in Variants(sealed)
  BY DEF sealed
<1>7. \/ block = rebound
      \/ Fits(block, binding, FALSE)
      \/ block.proof.genesis
  <2>1. /\ Fits([sealed EXCEPT !.previous_hash = @ + 1], binding, FALSE)
        /\ Fits([sealed EXCEPT !.merkle_root = @ + 1], binding, FALSE)
        /\ Fits([sealed EXCEPT !.nonce = @ + 1], binding, FALSE)
    BY <1>3, ChangedFits, Zenon
  <2>2. ASSUME NEW x
        PROVE  Fits([sealed EXCEPT !.previous_hash = @ + 1,
                                   !.proof = [@ EXCEPT !.challenge_seed = x]], binding, FALSE)
    BY <1>3, ChangedFits
  <2>3. ASSUME NEW x
        PROVE  /\ Fits([sealed EXCEPT !.difficulty = x], binding, FALSE)
               /\ Fits([sealed EXCEPT !.proof.algorithm = x], binding, FALSE)
               /\ Fits([sealed EXCEPT !.proof.challenge_seed = x], binding, FALSE)
               /\ Fits([sealed EXCEPT !.proof.weights.loss = x], binding, FALSE)
               /\ Fits([sealed EXCEPT !.proof.weights_digest.loss = x], binding, FALSE)
               /\ Fits([sealed EXCEPT !.proof.val_loss = x], binding, FALSE)
               /\ Fits([sealed EXCEPT !.proof.threshold = x], binding, FALSE)
               /\ Fits([sealed EXCEPT !.proof.work_quality = x], binding, FALSE)
    BY <1>3, ChangedFits, Zenon
  <2>4. CASE \E e \in 0..MaxDifficulty : block = [sealed EXCEPT !.difficulty = e]
    BY <2>3, <2>4, Zenon
  <2>5. CASE block = [sealed EXCEPT !.previous_hash = @ + 1,
                        !.proof = [@ EXCEPT !.challenge_seed = <<sealed.previous_hash + 1,
                                                                 sealed.merkle_root>>]]
    BY <2>2, <2>5
  <2>6. CASE \/ block \in {sealed, [sealed EXCEPT !.previous_hash = @ + 1],
                           [sealed EXCEPT !.merkle_root = @ + 1],
                           [sealed EXCEPT !.nonce = @ + 1]}
             \/ block \in {[sealed EXCEPT !.proof.algorithm = "other"],
                           [sealed EXCEPT !.proof.challenge_seed = <<0, 0>>],
                           [sealed EXCEPT !.proof.weights.loss = 0],
                           [sealed EXCEPT !.proof.weights_digest.loss = 0]}
             \/ block \in {[sealed EXCEPT !.proof.val_loss = 0],
                           [sealed EXCEPT !.proof.threshold = 0],
                           [sealed EXCEPT !.proof.work_quality = 100]}
    BY <1>3, <2>1, <2>3, <2>6, Zenon
  <2>7. CASE block \in {rebound, [sealed EXCEPT !.proof.genesis = TRUE],
                        [sealed EXCEPT !.proof = [genesis |-> TRUE]]}
    BY <1>5, <2>7, Zenon
  <2> QED BY <1>6, <2>4, <2>5, <2>6, <2>7 DEF Variants, rebound
<1>8. Judged(block, sealed, loss, v)
  BY <1>1, <1>2, <1>4, <1>7, Zenon
<1> QED BY <1>8 DEF sealed

(* The actions that make no call of this kind. *)
LEMMA OtherThanValidate ==
  ProveInclusion \/ CheckInclusion \/ AggregateUpdates \/ Multiply \/ SignMessage
    \/ VerifySignature \/ Retarget \/ Return => call'.op # "validate"
BY KindOfCall

(* seal and validate: after any training, with any losses, a verifier of    *)
(* the miner's opinion accepts the block exactly if training met the        *)
(* threshold at some time.  Changed, it is accepted exactly if it carries   *)
(* the flag of a genesis block, or if all that the binding hash ties        *)
(* together is as it was and the loss will do at the difficulty it now has. *)
THEOREM SealedExactlyIfTrained == Spec => []SealedIffTrained
<1>1. Init => SealedIffTrained
  BY DEF Init, Idle, SealedIffTrained
<1>2. SealedIffTrained /\ [Next]_call => SealedIffTrained'
  <2> SUFFICES ASSUME SealedIffTrained, [Next]_call
               PROVE  SealedIffTrained'
    OBVIOUS
  <2>1. CASE ValidateSeal
    <3>1. PICK b \in Candidates, losses \in [1..(rounds + 1) -> RoundLosses],
               r \in Reputations, v \in Reputations :
            \E block \in Variants(seal(b, losses, r)) :
              call' = [op |-> "validate", sealed |-> seal(b, losses, r), losses |-> losses,
                       block |-> block, miner |-> r, verifier |-> v,
                       accepted |-> validate(block, v)]
      BY <2>1 DEF ValidateSeal
    <3> DEFINE p == b.previous_hash
               m == b.merkle_root
               d == b.difficulty
               seed == <<p, m>>
               threshold == Required(d, r)
    <3>2. PICK nonce \in Nat, loss \in RoundLosses :
            /\ seal(b, losses, r) = Sealed(p, m, d, nonce, loss, threshold)
            /\ loss <= threshold <=> \E i \in DOMAIN losses : losses[i] <= threshold
            /\ HasPrefix(Binding([challenge |-> seed, loss |-> loss], seed, nonce))
      BY SealSeals
    <3>3. PICK block \in Variants(seal(b, losses, r)) :
            call' = [op |-> "validate", sealed |-> seal(b, losses, r), losses |-> losses,
                     block |-> block, miner |-> r, verifier |-> v,
                     accepted |-> validate(block, v)]
      BY <3>1
    <3> DEFINE sealed == Sealed(p, m, d, nonce, loss, threshold)
    <3>4. sealed.difficulty = d /\ sealed.proof.weights.loss = loss
          /\ ~sealed.proof.genesis
      BY DEF Sealed
    <3> HIDE DEF threshold, sealed
    <3>5. validate(block, v) <=>
            \/ block.proof.genesis
            \/ Tied(block) = Tied(sealed) /\ loss <= Required(block.difficulty, v)
      <4>1. block \in Variants(sealed)
        BY <3>2, <3>3 DEF sealed
      <4> HIDE DEF p, m, d
      <4>2. Judged(block, sealed, loss, v)
        BY <3>2, <4>1, VariantJudged, Zenon DEF sealed, seed
      <4> QED BY <4>2, Zenon DEF Judged
    <3>6. block = sealed /\ v = r =>
            (validate(block, v) <=> \E i \in DOMAIN losses : losses[i] <= Required(d, r))
      BY <3>2, <3>4, <3>5, Zenon DEF threshold
    <3>7. /\ call'.sealed = sealed /\ call'.losses = losses /\ call'.block = block
          /\ call'.miner = r /\ call'.verifier = v /\ call'.accepted = validate(block, v)
      BY <3>2, <3>3 DEF sealed
    <3> HIDE DEF d
    <3> QED BY <3>4, <3>5, <3>6, <3>7, Zenon DEF SealedIffTrained
  <2>2. CASE UNCHANGED call
    BY <2>2 DEF SealedIffTrained
  <2>3. CASE Next /\ ~ValidateSeal
    <3>1. call'.op # "validate"
      BY <2>3, OtherThanValidate DEF Next
    <3> QED BY <3>1 DEF SealedIffTrained
  <2> QED BY <2>1, <2>2, <2>3
<1> QED BY <1>1, <1>2, PTL DEF Spec

-----------------------------------------------------------------------------
(* Sums, sorting and distances.                                             *)

(* The sums of the first entries. *)
Sums(s) ==
  LET sum[i \in 0..Len(s)] == IF i = 0 THEN 0 ELSE sum[i-1] + s[i]
  IN sum

(* They exist, so their defining equation holds. *)
LEMMA SumsDef ==
  ASSUME NEW s, Len(s) \in Nat
  PROVE  Sums(s) = [i \in 0..Len(s) |-> IF i = 0 THEN 0 ELSE Sums(s)[i-1] + s[i]]
<1> DEFINE S == {m \in Nat : \E g :
                  g = [i \in 0..m |-> IF i = 0 THEN 0 ELSE g[i-1] + s[i]]}
<1>1. 0 \in S
  <2>1. [i \in 0..0 |-> 0] =
          [i \in 0..0 |-> IF i = 0 THEN 0 ELSE [j \in 0..0 |-> 0][i-1] + s[i]]
    OBVIOUS
  <2> QED BY <2>1
<1>2. ASSUME NEW m \in Nat, m \in S PROVE m + 1 \in S
  <2>1. PICK g : g = [i \in 0..m |-> IF i = 0 THEN 0 ELSE g[i-1] + s[i]]
    BY <1>2
  <2> DEFINE f == [i \in 0..(m+1) |-> IF i = m + 1 THEN g[m] + s[m + 1] ELSE g[i]]
  <2>2. \A i \in 0..(m+1) : f[i] = IF i = 0 THEN 0 ELSE f[i-1] + s[i]
    <3> SUFFICES ASSUME NEW i \in 0..(m+1)
                 PROVE  f[i] = IF i = 0 THEN 0 ELSE f[i-1] + s[i]
      OBVIOUS
    <3>1. CASE i = m + 1
      BY <3>1
    <3>2. CASE i # m + 1
      <4>1. i \in 0..m /\ f[i] = g[i] /\ (i # 0 => f[i-1] = g[i-1])
        BY <3>2
      <4> HIDE DEF f
      <4> QED BY <2>1, <4>1
    <3> QED BY <3>1, <3>2
  <2>3. f = [i \in 0..(m+1) |-> IF i = 0 THEN 0 ELSE f[i-1] + s[i]]
    <3> HIDE DEF f
    <3>1. f = [i \in 0..(m+1) |-> f[i]] BY DEF f
    <3> QED BY <2>2, <3>1
  <2> HIDE DEF f
  <2> QED BY <2>3
<1> HIDE DEF S
<1>3. Len(s) \in S
  BY <1>1, <1>2, SetInduction
<1> QED BY <1>3 DEF S, Sums

(* A sequence of whole numbers. *)
Whole(s) == Len(s) \in Nat /\ \A i \in 1..Len(s) : s[i] \in Int

(* A sum grows by one entry after the other, and is whole. *)
LEMMA SumSteps ==
  ASSUME NEW s, Whole(s)
  PROVE  /\ SumOver(s) = Sums(s)[Len(s)] /\ Sums(s)[0] = 0
         /\ \A i \in 1..Len(s) : Sums(s)[i] = Sums(s)[i-1] + s[i]
         /\ \A i \in 0..Len(s) : Sums(s)[i] \in Int
<1> DEFINE n == Len(s)
           t == Sums(s)
           S == {i \in Nat : t[i] \in Int}
<1>1. n \in Nat /\ \A i \in 1..n : s[i] \in Int
  BY DEF Whole
<1>2. SumOver(s) = t[n]
  BY Zenon DEF SumOver, Sums
<1>3. t = [i \in 0..n |-> IF i = 0 THEN 0 ELSE t[i-1] + s[i]]
  BY <1>1, SumsDef
<1> HIDE DEF n, t
<1>4. t[0] = 0
  BY <1>1, <1>3
<1>5. ASSUME NEW i \in 1..n PROVE t[i] = t[i-1] + s[i]
  <2>1. i \in 0..n /\ i # 0
    BY <1>1
  <2> QED BY <1>3, <2>1
<1>6. ASSUME NEW i \in 0..(n-1), i \in S PROVE i + 1 \in S
  <2>1. i + 1 \in 1..n /\ (i + 1) - 1 = i
    BY <1>1
  <2>2. t[i+1] = t[i] + s[i+1] /\ t[i] \in Int /\ s[i+1] \in Int
    BY <1>1, <1>5, <1>6, <2>1
  <2> QED BY <2>1, <2>2
<1>7. 0 \in S
  BY <1>4
<1> HIDE DEF S
<1>8. \A i \in 0..n : i \in S
  BY <1>1, <1>6, <1>7, UpTo
<1> QED BY <1>2, <1>4, <1>5, <1>8 DEF S, n, t

(* What the first b entries and the others are worth at least. *)
LEMMA SumAtLeast ==
  ASSUME NEW s, Whole(s), NEW b \in 0..Len(s), NEW low \in Int, NEW d \in Int,
         \A i \in 1..b : low <= s[i], \A i \in (b+1)..Len(s) : d <= s[i]
  PROVE  SumOver(s) \in Int /\ b * low + (Len(s) - b) * d <= SumOver(s)
<1> DEFINE n == Len(s)
           t == Sums(s)
           S == {i \in Nat : i * low <= t[i]}
           T == {j \in Nat : b * low + j * d <= t[b+j]}
<1>1. n \in Nat /\ b \in Nat /\ b <= n /\ \A i \in 1..n : s[i] \in Int
  BY DEF Whole
<1>2. /\ SumOver(s) = t[n] /\ t[0] = 0 /\ \A i \in 1..n : t[i] = t[i-1] + s[i]
      /\ \A i \in 0..n : t[i] \in Int
  BY SumSteps
<1>3. /\ \A i \in 1..b : low <= s[i]
      /\ \A i \in (b+1)..n : d <= s[i]
  OBVIOUS
<1> HIDE DEF n, t
<1>4. 0 \in S
  BY <1>2
<1>5. ASSUME NEW i \in 0..(b-1), i \in S PROVE i + 1 \in S
  <2>1. i + 1 \in 1..n /\ i + 1 \in 1..b /\ (i + 1) - 1 = i /\ i \in 0..n /\ i + 1 \in Nat
    BY <1>1
  <2>2. t[i+1] = t[i] + s[i+1] /\ low <= s[i+1] /\ t[i] \in Int /\ s[i+1] \in Int
    BY <1>1, <1>2, <1>3, <2>1
  <2>3. i * low <= t[i]
    BY <1>5
  <2>4. (i + 1) * low = i * low + low /\ i * low \in Int
    BY <2>1
  <2>5. (i + 1) * low <= t[i+1]
    <3> DEFINE x == i * low
               y == (i + 1) * low
               u == t[i]
               v == s[i+1]
    <3> HIDE DEF x, y, u, v
    <3>1. y = x + low /\ x \in Int /\ x <= u /\ u \in Int /\ v \in Int /\ low <= v
      BY <2>2, <2>3, <2>4 DEF x, y, u, v
    <3>2. y <= u + v
      BY <3>1
    <3> QED BY <2>2, <3>2 DEF y, u, v
  <2> QED BY <2>1, <2>5
<1> HIDE DEF S
<1>6. b * low <= t[b]
  <2>1. \A i \in 0..b : i \in S
    BY <1>1, <1>4, <1>5, UpTo
  <2>2. b \in S
    BY <1>1, <2>1
  <2> QED BY <2>2 DEF S
<1>7. 0 \in T
  <2>1. b + 0 = b /\ b * low + 0 * d = b * low
    BY <1>1
  <2> QED BY <1>6, <2>1
<1>8. ASSUME NEW j \in 0..((n-b)-1), j \in T PROVE j + 1 \in T
  <2>1. /\ b + (j + 1) \in 1..n /\ b + (j + 1) \in (b+1)..n /\ (b + (j + 1)) - 1 = b + j
        /\ b + j \in 0..n /\ j + 1 \in Nat /\ j \in Int
    BY <1>1
  <2>2. /\ t[b + (j + 1)] = t[b+j] + s[b + (j + 1)] /\ d <= s[b + (j + 1)]
        /\ t[b+j] \in Int /\ s[b + (j + 1)] \in Int
    BY <1>1, <1>2, <1>3, <2>1
  <2>3. b * low + j * d <= t[b+j]
    BY <1>8
  <2>4. (j + 1) * d = j * d + d /\ j * d \in Int /\ b * low \in Int
    BY <1>1, <2>1
  <2>5. b * low + (j + 1) * d <= t[b + (j + 1)]
    <3> DEFINE x == j * d
               y == (j + 1) * d
               z == b * low
               u == t[b+j]
               v == s[b + (j + 1)]
    <3> HIDE DEF x, y, z, u, v
    <3>1. /\ y = x + d /\ x \in Int /\ z \in Int /\ z + x <= u /\ u \in Int /\ v \in Int
          /\ d <= v
      BY <2>2, <2>3, <2>4 DEF x, y, z, u, v
    <3>2. z + y <= u + v
      BY <3>1
    <3> QED BY <2>2, <3>2 DEF y, z, u, v
  <2> QED BY <2>1, <2>5
<1> HIDE DEF T
<1>9. n - b \in T
  <2>1. n - b \in Nat
    BY <1>1
  <2>2. \A j \in 0..(n-b) : j \in T
    BY <1>7, <1>8, <2>1, UpTo
  <2> QED BY <2>1, <2>2
<1>10. b * low + (n - b) * d <= t[n]
  <2>1. b + (n - b) = n
    BY <1>1
  <2> QED BY <1>9, <2>1 DEF T
<1>11. n \in 0..n
  BY <1>1
<1> QED BY <1>2, <1>10, <1>11 DEF n

(* What the entries are worth at most. *)
LEMMA SumAtMost ==
  ASSUME NEW s, Whole(s), NEW high \in Int, \A i \in 1..Len(s) : s[i] <= high
  PROVE  SumOver(s) <= Len(s) * high
<1> DEFINE n == Len(s)
           t == Sums(s)
           S == {i \in Nat : t[i] <= i * high}
<1>1. n \in Nat /\ \A i \in 1..n : s[i] \in Int
  BY DEF Whole
<1>2. /\ SumOver(s) = t[n] /\ t[0] = 0 /\ \A i \in 1..n : t[i] = t[i-1] + s[i]
      /\ \A i \in 0..n : t[i] \in Int
  BY SumSteps
<1>3. \A i \in 1..n : s[i] <= high
  OBVIOUS
<1> HIDE DEF n, t
<1>4. 0 \in S
  BY <1>2
<1>5. ASSUME NEW i \in 0..(n-1), i \in S PROVE i + 1 \in S
  <2>1. i + 1 \in 1..n /\ (i + 1) - 1 = i /\ i \in 0..n /\ i + 1 \in Nat
    BY <1>1
  <2>2. t[i+1] = t[i] + s[i+1] /\ s[i+1] <= high /\ t[i] \in Int /\ s[i+1] \in Int
    BY <1>1, <1>2, <1>3, <2>1
  <2>3. t[i] <= i * high
    BY <1>5
  <2>4. (i + 1) * high = i * high + high /\ i * high \in Int
    BY <2>1
  <2>5. t[i+1] <= (i + 1) * high
    <3> DEFINE x == i * high
               y == (i + 1) * high
               u == t[i]
               v == s[i+1]
    <3> HIDE DEF x, y, u, v
    <3>1. y = x + high /\ x \in Int /\ u <= x /\ u \in Int /\ v \in Int /\ v <= high
      BY <2>2, <2>3, <2>4 DEF x, y, u, v
    <3>2. u + v <= y
      BY <3>1
    <3> QED BY <2>2, <3>2 DEF y, u, v
  <2> QED BY <2>1, <2>5
<1> HIDE DEF S
<1>6. n \in S
  <2>1. \A i \in 0..n : i \in S
    BY <1>1, <1>4, <1>5, UpTo
  <2> QED BY <1>1, <2>1
<1> QED BY <1>2, <1>6 DEF S, n

(* The entries at some of the positions: as many as there are positions. *)
EntriesAt(s, A) == {<< s[i], i >> : i \in A}

LEMMA EntriesCounted ==
  ASSUME NEW s, NEW A, IsFiniteSet(A)
  PROVE  /\ IsFiniteSet(EntriesAt(s, A))
         /\ Cardinality(EntriesAt(s, A)) = Cardinality(A)
<1> DEFINE E == EntriesAt(s, A)
           f == [e \in E |-> e[2]]
           g == [i \in A |-> << s[i], i >>]
<1>1. f \in Injection(E, A)
  <2>1. \A e \in E : e[2] \in A /\ e = << s[e[2]], e[2] >>
    BY DEF EntriesAt
  <2> HIDE DEF E
  <2> QED BY <2>1 DEF Injection, IsInjective
<1>2. g \in Injection(A, E)
  <2>1. \A i \in A : << s[i], i >> \in E
    BY DEF EntriesAt
  <2> HIDE DEF E
  <2>2. g \in [A -> E]
    BY <2>1
  <2>3. \A i, j \in A : g[i] = g[j] => i = j
    OBVIOUS
  <2> HIDE DEF g
  <2> QED BY <2>2, <2>3 DEF Injection, IsInjective
<1> HIDE DEF E, f, g
<1>3. IsFiniteSet(E) /\ Cardinality(E) <= Cardinality(A)
  BY <1>1, FS_Injection
<1>4. Cardinality(A) <= Cardinality(E)
  BY <1>2, <1>3, FS_Injection
<1>5. Cardinality(A) \in Nat /\ Cardinality(E) \in Nat
  BY <1>3, FS_CardinalityType
<1>6. Cardinality(E) = Cardinality(A)
  BY <1>3, <1>4, <1>5
<1> QED BY <1>3, <1>6 DEF E

(* The order of the entries is total, and an entry counts those up to it. *)
LEMMA RankLess ==
  ASSUME NEW s, Whole(s), NEW d \in Entries(s), NEW e \in Entries(s),
         d \in UpToEntry(Entries(s), e), d # e
  PROVE  Cardinality(UpToEntry(Entries(s), d)) < Cardinality(UpToEntry(Entries(s), e))
<1> DEFINE E == Entries(s)
           D == UpToEntry(E, d)
           F == UpToEntry(E, e)
<1>1. IsFiniteSet(E)
  <2>1. IsFiniteSet(1..Len(s))
    BY FS_Interval DEF Whole
  <2>2. E = EntriesAt(s, 1..Len(s))
    BY DEF Entries, EntriesAt
  <2> QED BY <2>1, <2>2, EntriesCounted
<1>2. \A c \in E : c[1] \in Int /\ c[2] \in Int /\ c = << c[1], c[2] >>
  BY DEF Entries, Whole
<1>3. D \subseteq F
  <2> HIDE DEF E
  <2> QED BY <1>2 DEF UpToEntry, E
<1>4. e \in F /\ e \notin D
  <2>1. d[1] < e[1] \/ (d[1] = e[1] /\ d[2] <= e[2])
    BY DEF UpToEntry
  <2>2. d[1] # e[1] \/ d[2] # e[2]
    BY <1>2
  <2> HIDE DEF E
  <2> QED BY <1>2, <2>1, <2>2 DEF UpToEntry, E
<1>5. IsFiniteSet(F)
  <2>1. F \in SUBSET E
    BY DEF UpToEntry
  <2> HIDE DEF E, F
  <2> QED BY <1>1, <2>1, FS_Subset
<1> HIDE DEF D, F
<1>6. Cardinality(D) <= Cardinality(F) /\ Cardinality(D) # Cardinality(F)
  BY <1>3, <1>4, <1>5, FS_Subset
<1>7. Cardinality(D) \in Nat /\ Cardinality(F) \in Nat
  BY <1>3, <1>5, FS_Subset, FS_CardinalityType
<1>8. Cardinality(D) < Cardinality(F)
  BY <1>6, <1>7
<1> QED BY <1>8 DEF D, F, E

(* At each place stands an entry, with as many up to it as the place says. *)
LEMMA Placed ==
  ASSUME NEW s, Whole(s), NEW r \in 1..Len(s)
  PROVE  \E i \in 1..Len(s) :
           /\ Sorted(s)[r] = s[i]
           /\ Cardinality(UpToEntry(Entries(s), << s[i], i >>)) = r
<1> DEFINE n == Len(s)
           E == Entries(s)
           rank == [e \in E |-> Cardinality(UpToEntry(E, e))]
<1>1. n \in Nat /\ r \in Int /\ IsFiniteSet(1..n) /\ Cardinality(1..n) = n
  <2>1. n \in Nat /\ r \in Int
    BY DEF Whole
  <2>2. IsFiniteSet(1..n) /\ Cardinality(1..n) = IF 1 > n THEN 0 ELSE n - 1 + 1
    BY <2>1, FS_Interval
  <2> HIDE DEF n
  <2> QED BY <2>1, <2>2
<1>2. IsFiniteSet(E) /\ Cardinality(E) = n
  <2>1. E = EntriesAt(s, 1..n)
    BY DEF Entries, EntriesAt
  <2> HIDE DEF n, E
  <2> QED BY <1>1, <2>1, EntriesCounted
<1>3. ASSUME NEW e \in E PROVE rank[e] \in 1..n
  <2> DEFINE U == UpToEntry(E, e)
  <2>1. U \in SUBSET E
    BY DEF UpToEntry
  <2>2. e \in U
    <3>1. e[2] \in Int
      BY DEF Entries
    <3> QED BY <3>1 DEF UpToEntry
  <2>3. rank[e] = Cardinality(U)
    OBVIOUS
  <2> HIDE DEF U, E, n, rank
  <2>4. IsFiniteSet(U) /\ Cardinality(U) <= n
    BY <1>2, <2>1, FS_Subset
  <2>5. Cardinality(U) \in Nat /\ Cardinality(U) # 0
    BY <2>2, <2>4, FS_CardinalityType, FS_EmptySet
  <2> QED BY <1>1, <2>3, <2>4, <2>5
<1>4. ASSUME NEW d \in E, NEW e \in E, rank[d] = rank[e] PROVE d = e
  <2> SUFFICES ASSUME d # e PROVE FALSE
    OBVIOUS
  <2>1. d \in UpToEntry(E, e) \/ e \in UpToEntry(E, d)
    <3>1. d[1] \in Int /\ d[2] \in Int /\ e[1] \in Int /\ e[2] \in Int
      BY DEF Entries, Whole
    <3> HIDE DEF E
    <3> QED BY <3>1 DEF UpToEntry
  <2>2. rank[d] < rank[e] \/ rank[e] < rank[d]
    <3>1. rank[d] = Cardinality(UpToEntry(E, d)) /\ rank[e] = Cardinality(UpToEntry(E, e))
      OBVIOUS
    <3>2. d \in UpToEntry(E, e) => rank[d] < rank[e]
      BY <3>1, RankLess
    <3>3. e \in UpToEntry(E, d) => rank[e] < rank[d]
      BY <3>1, RankLess
    <3> HIDE DEF E, rank
    <3> QED BY <2>1, <3>2, <3>3
  <2>3. rank[d] \in Int /\ rank[e] \in Int
    <3> HIDE DEF rank, E
    <3> QED BY <1>3
  <2> HIDE DEF rank
  <2> QED BY <1>4, <2>2, <2>3
<1>5. \E e \in E : rank[e] = r
  <2> SUFFICES ASSUME \A e \in E : rank[e] # r PROVE FALSE
    OBVIOUS
  <2> DEFINE R == (1..n) \ {r}
  <2>1. rank \in [E -> R]
    <3>1. \A e \in E : rank[e] \in R
      <4> HIDE DEF rank, E, n
      <4> QED BY <1>3
    <3>2. rank = [e \in E |-> rank[e]]
      OBVIOUS
    <3> HIDE DEF rank, R, E
    <3> QED BY <3>1, <3>2
  <2>2. IsFiniteSet(R) /\ Cardinality(R) = n - 1
    <3>1. r \in 1..n
      OBVIOUS
    <3> HIDE DEF n
    <3> QED BY <1>1, <3>1, FS_RemoveElement
  <2> HIDE DEF rank, R, E, n
  <2>3. Cardinality(R) < Cardinality(E)
    BY <1>1, <1>2, <2>2
  <2>4. \E d, e \in E : d # e /\ rank[d] = rank[e]
    BY <1>2, <2>1, <2>2, <2>3, FS_PigeonHole
  <2> QED BY <1>4, <2>4
<1> DEFINE at == CHOOSE e \in E : Cardinality(UpToEntry(E, e)) = r
<1>6. at \in E /\ Cardinality(UpToEntry(E, at)) = r
  <2>1. \E e \in E : Cardinality(UpToEntry(E, e)) = r
    BY <1>5
  <2> HIDE DEF E
  <2> QED BY <2>1, Zenon
<1>7. Sorted(s)[r] = at[1]
  <2> DEFINE place(q) == CHOOSE e \in E : Cardinality(UpToEntry(E, e)) = q
  <2>1. Sorted(s) = [q \in 1..Len(s) |-> place(q)[1]]
    BY Zenon DEF Sorted
  <2> HIDE DEF place
  <2>2. Sorted(s)[r] = place(r)[1]
    BY <2>1
  <2> QED BY <2>2 DEF place
<1>8. PICK i \in 1..n : at = << s[i], i >>
  <2> HIDE DEF at
  <2> QED BY <1>6 DEF Entries
<1> HIDE DEF at, E
<1> QED BY <1>6, <1>7, <1>8 DEF E

(* More entries than stand at the positions A come first: one of the others *)
(* is among them.                                                           *)
LEMMA SortedAbove ==
  ASSUME NEW s, Whole(s), NEW r \in 1..Len(s), NEW A, IsFiniteSet(A), Cardinality(A) < r
  PROVE  \E j \in (1..Len(s)) \ A : s[j] <= Sorted(s)[r]
<1> DEFINE n == Len(s)
           E == Entries(s)
<1>1. PICK i \in 1..n : Sorted(s)[r] = s[i] /\ Cardinality(UpToEntry(E, << s[i], i >>)) = r
  BY Placed
<1> DEFINE U == UpToEntry(E, << s[i], i >>)
<1> SUFFICES ASSUME \A j \in (1..n) \ A : ~(s[j] <= s[i])
             PROVE  FALSE
  BY <1>1
<1>2. U \subseteq EntriesAt(s, A)
  <2> SUFFICES ASSUME NEW e \in U PROVE e \in EntriesAt(s, A)
    OBVIOUS
  <2>1. PICK j \in 1..n : e = << s[j], j >>
    BY DEF UpToEntry, Entries
  <2>2. s[j] < s[i] \/ (s[j] = s[i] /\ j <= i)
    BY <2>1 DEF UpToEntry
  <2>3. s[j] \in Int /\ s[i] \in Int
    BY DEF Whole
  <2>4. s[j] <= s[i]
    BY <2>2, <2>3
  <2>5. j \in A
    BY <2>4
  <2> QED BY <2>1, <2>5 DEF EntriesAt
<1> HIDE DEF U
<1>3. Cardinality(U) <= Cardinality(A)
  BY <1>2, EntriesCounted, FS_Subset
<1>4. Cardinality(U) = r /\ r \in Int /\ Cardinality(A) \in Nat
  BY <1>1, FS_CardinalityType DEF U, Whole
<1> QED BY <1>3, <1>4

(* If there are too many others to come first, one of them comes last. *)
LEMMA SortedBelow ==
  ASSUME NEW s, Whole(s), NEW r \in 1..Len(s),
         NEW Z \in SUBSET (1..Len(s)), r <= Cardinality(Z)
  PROVE  \E j \in Z : Sorted(s)[r] <= s[j]
<1> DEFINE n == Len(s)
           E == Entries(s)
<1>1. PICK i \in 1..n : Sorted(s)[r] = s[i] /\ Cardinality(UpToEntry(E, << s[i], i >>)) = r
  BY Placed
<1> DEFINE e == << s[i], i >>
           U == UpToEntry(E, e)
           F == EntriesAt(s, Z)
<1> SUFFICES ASSUME \A j \in Z : ~(s[i] <= s[j])
             PROVE  FALSE
  BY <1>1
<1>2. \A j \in Z : s[j] < s[i]
  BY DEF Whole
<1>3. F \subseteq U \ {e} /\ e \in U
  <2>1. e \in U
    BY DEF UpToEntry, Entries
  <2>2. ASSUME NEW j \in Z PROVE << s[j], j >> \in U /\ << s[j], j >> # e
    <3>1. s[j] < s[i] /\ j \in 1..n /\ s[i] \in Int
      BY <1>2 DEF Whole
    <3>2. s[j] # s[i]
      BY <3>1
    <3>3. << s[j], j >> \in E
      BY <3>1 DEF Entries
    <3> HIDE DEF E
    <3> QED BY <3>1, <3>2, <3>3 DEF UpToEntry
  <2> HIDE DEF U, e
  <2> QED BY <2>1, <2>2 DEF EntriesAt
<1>4. IsFiniteSet(Z)
  <2>1. IsFiniteSet(1..n)
    BY FS_Interval DEF Whole
  <2> QED BY <2>1, FS_Subset
<1>5. IsFiniteSet(U)
  <2>1. U \in SUBSET E
    BY DEF UpToEntry
  <2>2. IsFiniteSet(E)
    <3>1. IsFiniteSet(1..n)
      BY FS_Interval DEF Whole
    <3>2. E = EntriesAt(s, 1..n)
      BY DEF Entries, EntriesAt
    <3> QED BY <3>1, <3>2, EntriesCounted
  <2> HIDE DEF U, E
  <2> QED BY <2>1, <2>2, FS_Subset
<1> HIDE DEF U, e, F
<1>6. IsFiniteSet(U \ {e}) /\ Cardinality(U \ {e}) = Cardinality(U) - 1
  BY <1>3, <1>5, FS_RemoveElement
<1>7. Cardinality(F) <= Cardinality(U) - 1
  <2> DEFINE V == U \ {e}
  <2>1. F \in SUBSET V /\ IsFiniteSet(V) /\ Cardinality(V) = Cardinality(U) - 1
    BY <1>3, <1>6
  <2> HIDE DEF V
  <2> QED BY <2>1, FS_Subset
<1>8. Cardinality(F) = Cardinality(Z) /\ Cardinality(Z) \in Nat
  BY <1>4, EntriesCounted, FS_CardinalityType DEF F
<1>9. Cardinality(U) = r /\ r \in Int
  BY <1>1 DEF U, e, Whole
<1> QED BY <1>7, <1>8, <1>9

(* Norms and distances are sums of squares. *)
LEMMA NormTypes ==
  ASSUME NEW v \in Seq(Int)
  PROVE  SquaredNorm(v) \in Nat
<1> DEFINE q == [c \in 1..Len(v) |-> v[c] * v[c]]
<1>1. Len(v) \in Nat /\ \A c \in 1..Len(v) : v[c] \in Int
  OBVIOUS
<1>2. Len(q) = Len(v) /\ \A c \in 1..Len(v) : q[c] = v[c] * v[c]
  BY <1>1
<1>3. ASSUME NEW c \in 1..Len(v) PROVE q[c] \in Int /\ 0 <= q[c]
  <2> DEFINE x == v[c]
  <2>1. x \in Int /\ q[c] = x * x
    BY <1>1, <1>2
  <2> HIDE DEF x, q
  <2>2. x * x \in Int /\ 0 <= x * x
    BY <2>1
  <2> QED BY <2>1, <2>2
<1> HIDE DEF q
<1>4. Whole(q)
  BY <1>1, <1>2, <1>3 DEF Whole
<1>5. SumOver(q) \in Int /\ 0 * 0 + (Len(q) - 0) * 0 <= SumOver(q)
  <2>1. 0 \in 0..Len(q) /\ 0 \in Int /\ \A i \in 1..0 : 0 <= q[i]
    BY <1>1, <1>2
  <2>2. \A i \in (0+1)..Len(q) : 0 <= q[i]
    BY <1>2, <1>3
  <2> QED BY <1>4, <2>1, <2>2, SumAtLeast
<1>6. 0 * 0 + (Len(q) - 0) * 0 = 0
  BY <1>1, <1>2
<1>7. SumOver(q) \in Nat
  BY <1>5, <1>6
<1> QED BY <1>7 DEF SquaredNorm, q

(* And so is a squared distance. *)
LEMMA DistanceTypes ==
  ASSUME NEW u \in Seq(Int), NEW v \in Seq(Int), Len(v) = Len(u)
  PROVE  SquaredDistance(u, v) \in Nat
<1> DEFINE w == [c \in 1..Len(u) |-> u[c] - v[c]]
<1>1. Len(u) \in Nat /\ \A c \in 1..Len(u) : u[c] \in Int /\ v[c] \in Int
  OBVIOUS
<1>2. \A c \in 1..Len(u) : u[c] - v[c] \in Int
  BY <1>1
<1>3. w \in Seq(Int)
  BY <1>1, <1>2
<1> HIDE DEF w
<1>4. SquaredNorm(w) \in Nat
  BY <1>3, NormTypes
<1> QED BY <1>4 DEF SquaredDistance, w

(* A vector is at no distance from itself. *)
LEMMA NoDistance ==
  ASSUME NEW v \in Seq(Int)
  PROVE  SquaredDistance(v, v) = 0
<1> DEFINE w == [c \in 1..Len(v) |-> v[c] - v[c]]
           q == [c \in 1..Len(w) |-> w[c] * w[c]]
<1>1. Len(v) \in Nat /\ \A c \in 1..Len(v) : v[c] \in Int
  OBVIOUS
<1>2. Len(w) = Len(v) /\ \A c \in 1..Len(v) : w[c] = 0
  BY <1>1
<1> HIDE DEF w
<1>3. Len(q) = Len(v) /\ \A c \in 1..Len(q) : q[c] = 0
  BY <1>1, <1>2
<1> HIDE DEF q
<1>4. Whole(q) /\ \A c \in 1..Len(q) : q[c] <= 0
  BY <1>1, <1>3 DEF Whole
<1>5. SumOver(q) <= Len(q) * 0
  BY <1>4, SumAtMost
<1>6. SumOver(q) \in Nat
  <2>1. w \in Seq(Int)
    <3>1. \A c \in 1..Len(v) : v[c] - v[c] \in Int
      BY <1>1
    <3> QED BY <1>1, <3>1 DEF w
  <2>2. SquaredNorm(w) \in Nat
    BY <2>1, NormTypes
  <2> QED BY <2>2 DEF SquaredNorm, q
<1>7. SumOver(q) = 0
  <2>1. Len(q) * 0 = 0
    BY <1>1, <1>3
  <2> QED BY <1>5, <1>6, <2>1
<1> QED BY <1>7 DEF SquaredDistance, SquaredNorm, w, q

-----------------------------------------------------------------------------
(* The aggregation of updates.                                              *)

Updates == [finite : BOOLEAN, at : Seq(Int)]

(* What is kept of the first n updates. *)
Kept(updates) ==
  LET kept[i \in 0..Len(updates)] ==
        IF i = 0 THEN <<>>
        ELSE IF updates[i].finite THEN Append(kept[i-1], updates[i]) ELSE kept[i-1]
  IN kept

(* The sequences kept exist, so their defining equation holds. *)
LEMMA KeptDef ==
  ASSUME NEW s, Len(s) \in Nat
  PROVE  Kept(s) = [i \in 0..Len(s) |->
                      IF i = 0 THEN <<>>
                      ELSE IF s[i].finite THEN Append(Kept(s)[i-1], s[i]) ELSE Kept(s)[i-1]]
<1> DEFINE After(k, i) == IF s[i].finite THEN Append(k, s[i]) ELSE k
           S == {m \in Nat : \E g :
                  g = [i \in 0..m |-> IF i = 0 THEN <<>> ELSE After(g[i-1], i)]}
<1> HIDE DEF After
<1>1. 0 \in S
  <2>1. [i \in 0..0 |-> <<>>] =
          [i \in 0..0 |-> IF i = 0 THEN <<>> ELSE After([j \in 0..0 |-> <<>>][i-1], i)]
    OBVIOUS
  <2> QED BY <2>1
<1>2. ASSUME NEW m \in Nat, m \in S PROVE m + 1 \in S
  <2>1. PICK g : g = [i \in 0..m |-> IF i = 0 THEN <<>> ELSE After(g[i-1], i)]
    BY <1>2
  <2> DEFINE f == [i \in 0..(m+1) |-> IF i = m + 1 THEN After(g[m], m + 1) ELSE g[i]]
  <2>2. \A i \in 0..(m+1) : f[i] = IF i = 0 THEN <<>> ELSE After(f[i-1], i)
    <3> SUFFICES ASSUME NEW i \in 0..(m+1)
                 PROVE  f[i] = IF i = 0 THEN <<>> ELSE After(f[i-1], i)
      OBVIOUS
    <3>1. CASE i = m + 1
      BY <3>1
    <3>2. CASE i # m + 1
      <4>1. i \in 0..m /\ f[i] = g[i] /\ (i # 0 => f[i-1] = g[i-1])
        BY <3>2
      <4> HIDE DEF f
      <4> QED BY <2>1, <4>1
    <3> QED BY <3>1, <3>2
  <2>3. f = [i \in 0..(m+1) |-> IF i = 0 THEN <<>> ELSE After(f[i-1], i)]
    <3> HIDE DEF f
    <3>1. f = [i \in 0..(m+1) |-> f[i]] BY DEF f
    <3> QED BY <2>2, <3>1
  <2> HIDE DEF f
  <2> QED BY <2>3
<1> HIDE DEF S
<1>3. Len(s) \in S
  BY <1>1, <1>2, SetInduction
<1> QED BY <1>3 DEF S, Kept, After

(* One update after the other is kept or dropped. *)
LEMMA KeptSteps ==
  ASSUME NEW s \in Seq(Updates)
  PROVE  /\ Finite(s) = Kept(s)[Len(s)] /\ Kept(s)[0] = <<>>
         /\ \A n \in 1..Len(s) :
              Kept(s)[n] = IF s[n].finite THEN Append(Kept(s)[n-1], s[n]) ELSE Kept(s)[n-1]
<1>1. Len(s) \in Nat
  OBVIOUS
<1>2. Finite(s) = Kept(s)[Len(s)]
  BY Zenon DEF Finite, Kept
<1> DEFINE k == Kept(s)
<1>3. k = [i \in 0..Len(s) |-> IF i = 0 THEN <<>>
             ELSE IF s[i].finite THEN Append(k[i-1], s[i]) ELSE k[i-1]]
  BY <1>1, KeptDef
<1> HIDE DEF k
<1>4. /\ k[0] = <<>>
      /\ \A n \in 1..Len(s) :
           k[n] = IF s[n].finite THEN Append(k[n-1], s[n]) ELSE k[n-1]
  <2>1. k[0] = <<>>
    BY <1>1, <1>3
  <2>2. ASSUME NEW n \in 1..Len(s)
        PROVE  k[n] = IF s[n].finite THEN Append(k[n-1], s[n]) ELSE k[n-1]
    <3>1. n \in 0..Len(s) /\ n # 0
      BY <1>1
    <3> QED BY <1>3, <3>1
  <2> QED BY <2>1, <2>2
<1> QED BY <1>2, <1>4 DEF k

(* At most as many are kept as there are. *)
LEMMA KeptTypes ==
  ASSUME NEW s \in Seq(Updates)
  PROVE  \A n \in 0..Len(s) : Kept(s)[n] \in Seq(Updates) /\ Len(Kept(s)[n]) <= n
<1> DEFINE k == Kept(s)
           S == {n \in Nat : k[n] \in Seq(Updates) /\ Len(k[n]) <= n}
<1>1. Len(s) \in Nat
  OBVIOUS
<1>2. 0 \in S
  <2>1. k[0] = <<>>
    BY KeptSteps
  <2>2. <<>> \in Seq(Updates) /\ Len(<<>>) = 0
    OBVIOUS
  <2> HIDE DEF k, Updates
  <2>3. k[0] \in Seq(Updates) /\ Len(k[0]) <= 0 /\ 0 \in Nat
    BY <2>1, <2>2
  <2> QED BY <2>3
<1>3. ASSUME NEW n \in 0..(Len(s)-1), n \in S PROVE n + 1 \in S
  <2>1. n + 1 \in 1..Len(s) /\ (n + 1) - 1 = n /\ s[n+1] \in Updates
    <3> HIDE DEF Updates
    <3> QED OBVIOUS
  <2>2. k[n+1] = IF s[n+1].finite THEN Append(k[n], s[n+1]) ELSE k[n]
    BY <2>1, KeptSteps
  <2>3. k[n] \in Seq(Updates) /\ Len(k[n]) <= n /\ Len(k[n]) \in Nat
    BY <1>3
  <2> HIDE DEF k, Updates
  <2>4. /\ Append(k[n], s[n+1]) \in Seq(Updates)
        /\ Len(Append(k[n], s[n+1])) = Len(k[n]) + 1
    BY <2>1, <2>3
  <2>5. k[n+1] \in Seq(Updates) /\ Len(k[n+1]) <= n + 1
    BY <2>1, <2>2, <2>3, <2>4
  <2> QED BY <2>1, <2>5
<1> HIDE DEF S
<1>4. \A n \in 0..Len(s) : n \in S
  BY <1>1, <1>2, <1>3, UpTo
<1> QED BY <1>4 DEF S

(* What is kept of the updates up to i is kept from the prefix alone. *)
LEMMA KeptPrefix ==
  ASSUME NEW s \in Seq(Updates), NEW i \in 1..Len(s)
  PROVE  Finite(SubSeq(s, 1, i)) = Kept(s)[i]
<1> DEFINE p == SubSeq(s, 1, i)
           S == {n \in Nat : Kept(p)[n] = Kept(s)[n]}
<1>1. p \in Seq(Updates) /\ Len(p) = i /\ \A n \in 1..i : p[n] = s[n] /\ n \in 1..Len(s)
  <2> HIDE DEF Updates
  <2> QED OBVIOUS
<1> HIDE DEF p
<1>2. 0 \in S
  BY <1>1, KeptSteps
<1>3. ASSUME NEW n \in 0..(i-1), n \in S PROVE n + 1 \in S
  <2>1. n + 1 \in 1..i /\ n + 1 \in 1..Len(s) /\ (n + 1) - 1 = n
    OBVIOUS
  <2>2. Kept(p)[n+1] = IF p[n+1].finite THEN Append(Kept(p)[n], p[n+1]) ELSE Kept(p)[n]
    BY <1>1, <2>1, KeptSteps
  <2>3. Kept(s)[n+1] = IF s[n+1].finite THEN Append(Kept(s)[n], s[n+1]) ELSE Kept(s)[n]
    BY <2>1, KeptSteps
  <2> QED BY <1>1, <1>3, <2>1, <2>2, <2>3
<1> HIDE DEF S
<1>4. \A n \in 0..i : n \in S
  <2>1. i \in Nat
    OBVIOUS
  <2> QED BY <1>2, <1>3, <2>1, UpTo
<1>5. Kept(p)[i] = Kept(s)[i]
  BY <1>4 DEF S
<1> QED BY <1>1, <1>5, KeptSteps DEF p

(* If none was dropped, each keeps its place. *)
LEMMA KeptPlaces ==
  ASSUME NEW s \in Seq(Updates), NEW i \in 1..Len(s), Len(Finite(s)) = Len(s)
  PROVE  Len(Kept(s)[i]) = i
<1> DEFINE k == Kept(s)
           S == {m \in Nat : i + m <= Len(s) => Len(k[i+m]) <= Len(k[i]) + m}
<1>1. /\ Len(s) \in Nat /\ i \in Nat /\ i <= Len(s)
      /\ \A n \in 0..Len(s) : Len(k[n]) \in Nat /\ Len(k[n]) <= n /\ k[n] \in Seq(Updates)
  <2>1. Len(s) \in Nat
    OBVIOUS
  <2>2. \A n \in 0..Len(s) : k[n] \in Seq(Updates) /\ Len(k[n]) <= n
    BY KeptTypes
  <2>3. \A q \in Seq(Updates) : Len(q) \in Nat
    OBVIOUS
  <2> HIDE DEF k
  <2> QED BY <2>1, <2>2, <2>3
<1>2. \A n \in 1..Len(s) : Len(k[n]) <= Len(k[n-1]) + 1
  <2> SUFFICES ASSUME NEW n \in 1..Len(s) PROVE Len(k[n]) <= Len(k[n-1]) + 1
    OBVIOUS
  <2>1. k[n] = IF s[n].finite THEN Append(k[n-1], s[n]) ELSE k[n-1]
    BY KeptSteps
  <2>2. k[n-1] \in Seq(Updates) /\ Len(k[n-1]) \in Nat
    BY <1>1
  <2>3. Len(Append(k[n-1], s[n])) = Len(k[n-1]) + 1
    <3> HIDE DEF k, Updates
    <3> QED BY <2>2
  <2> HIDE DEF k
  <2> QED BY <2>1, <2>2, <2>3
<1> HIDE DEF k
<1>3. 0 \in S
  BY <1>1
<1>4. ASSUME NEW m \in Nat, m \in S PROVE m + 1 \in S
  <2> SUFFICES ASSUME i + (m + 1) <= Len(s)
               PROVE  Len(k[i + (m + 1)]) <= Len(k[i]) + (m + 1)
    <3>1. m + 1 \in Nat
      OBVIOUS
    <3> QED BY <3>1
  <2>1. /\ i + (m + 1) \in 1..Len(s) /\ (i + (m + 1)) - 1 = i + m
        /\ i + m \in 0..Len(s) /\ i + (m + 1) \in 0..Len(s) /\ i \in 0..Len(s)
    BY <1>1
  <2>2. Len(k[i+m]) <= Len(k[i]) + m
    BY <1>4, <2>1
  <2>3. Len(k[i + (m + 1)]) <= Len(k[i+m]) + 1
    BY <1>2, <2>1
  <2>4. Len(k[i + (m + 1)]) \in Nat /\ Len(k[i+m]) \in Nat /\ Len(k[i]) \in Nat
    BY <1>1, <2>1
  <2> DEFINE x == Len(k[i + (m + 1)])
             y == Len(k[i+m])
             z == Len(k[i])
  <2>5. x <= y + 1 /\ y <= z + m /\ x \in Nat /\ y \in Nat /\ z \in Nat
    BY <2>2, <2>3, <2>4
  <2> HIDE DEF x, y, z
  <2>6. x <= z + (m + 1)
    BY <2>5
  <2> QED BY <2>6 DEF x, z
<1> HIDE DEF S
<1>5. Len(s) - i \in S
  <2>1. Len(s) - i \in Nat
    BY <1>1
  <2>2. \A m \in Nat : m \in S
    BY ONLY <1>3, <1>4, SetInduction
  <2> QED BY <2>1, <2>2
<1>6. Len(k[Len(s)]) <= Len(k[i]) + (Len(s) - i)
  <2>1. i + (Len(s) - i) = Len(s)
    BY <1>1
  <2> QED BY <1>1, <1>5, <2>1 DEF S
<1>7. Len(k[Len(s)]) = Len(s)
  BY KeptSteps DEF k
<1>8. i \in 0..Len(s)
  BY <1>1
<1> QED BY <1>1, <1>6, <1>7, <1>8 DEF k

(* Batches that differ in the vector of update i only. *)
Moved(s, t, i) ==
  /\ Len(t) = Len(s) /\ \A j \in 1..Len(s) : j # i => t[j] = s[j]
  /\ s[i].finite /\ t[i].finite /\ Len(t[i].at) = Len(s[i].at)

(* What is kept of them differs in one place, the one of update i. *)
LEMMA KeptAlike ==
  ASSUME NEW s \in Seq(Updates), NEW t \in Seq(Updates), NEW i \in 1..Len(s), Moved(s, t, i)
  PROVE  LET pos == Len(Kept(s)[i])
         IN /\ Len(Finite(t)) = Len(Finite(s)) /\ pos \in 1..Len(Finite(s))
            /\ Finite(s)[pos] = s[i] /\ Finite(t)[pos] = t[i]
            /\ \A j \in 1..Len(Finite(s)) : j # pos => Finite(t)[j] = Finite(s)[j]
<1> DEFINE k == Kept(s)
           l == Kept(t)
           pos == Len(k[i])
           Alike(u, v) ==
             /\ Len(v) = Len(u) /\ pos \in 1..Len(u) /\ u[pos] = s[i] /\ v[pos] = t[i]
             /\ \A j \in 1..Len(u) : j # pos => v[j] = u[j]
           S == {n \in Nat : /\ n < i => l[n] = k[n]
                             /\ n >= i => Alike(k[n], l[n])}
<1>1. Len(s) \in Nat /\ i \in Nat /\ i >= 1 /\ i <= Len(s) /\ Len(t) = Len(s)
  BY DEF Moved
<1>2. \A n \in 0..Len(s) : /\ k[n] \in Seq(Updates) /\ Len(k[n]) \in Nat
                           /\ l[n] \in Seq(Updates) /\ Len(l[n]) \in Nat
  <2>1. \A n \in 0..Len(s) : k[n] \in Seq(Updates) /\ l[n] \in Seq(Updates)
    BY <1>1, KeptTypes
  <2>2. \A q \in Seq(Updates) : Len(q) \in Nat
    OBVIOUS
  <2> HIDE DEF k, l
  <2> QED BY <2>1, <2>2
<1>3. \A n \in 1..Len(s) :
        /\ k[n] = IF s[n].finite THEN Append(k[n-1], s[n]) ELSE k[n-1]
        /\ l[n] = IF t[n].finite THEN Append(l[n-1], t[n]) ELSE l[n-1]
  BY <1>1, KeptSteps
<1>4. k[0] = <<>> /\ l[0] = <<>>
  BY KeptSteps
<1>5. \A n \in 1..Len(s) : s[n] \in Updates /\ t[n] \in Updates
  <2> HIDE DEF Updates
  <2> QED BY <1>1
<1>6. \A q \in Seq(Updates), x \in Updates :
        /\ Len(Append(q, x)) = Len(q) + 1 /\ Append(q, x)[Len(q) + 1] = x
        /\ \A j \in 1..Len(q) : Append(q, x)[j] = q[j]
  <2> HIDE DEF Updates
  <2> QED OBVIOUS
<1> HIDE DEF k, l, Updates
<1>7. 0 \in S
  BY <1>1, <1>4
<1>8. ASSUME NEW n \in 0..(Len(s)-1), n \in S PROVE n + 1 \in S
  <2>1. /\ n + 1 \in 1..Len(s) /\ (n + 1) - 1 = n /\ n \in 0..Len(s) /\ n + 1 \in 0..Len(s)
        /\ n + 1 \in Nat /\ n \in Nat
    BY <1>1
  <2>2. /\ k[n+1] = IF s[n+1].finite THEN Append(k[n], s[n+1]) ELSE k[n]
        /\ l[n+1] = IF t[n+1].finite THEN Append(l[n], t[n+1]) ELSE l[n]
    BY <1>3, <2>1
  <2>3. CASE n + 1 < i
    <3>1. l[n] = k[n] /\ t[n+1] = s[n+1]
      BY <1>8, <2>1, <2>3, <1>1 DEF Moved
    <3>2. l[n+1] = k[n+1]
      BY <2>2, <3>1
    <3> QED BY <1>1, <2>1, <2>3, <3>2
  <2>4. CASE n + 1 = i
    <3>1. l[n] = k[n] /\ s[n+1].finite /\ t[n+1].finite
      BY <1>8, <2>1, <2>4, <1>1 DEF Moved
    <3>2. k[n+1] = Append(k[n], s[n+1]) /\ l[n+1] = Append(k[n], t[n+1])
      BY <2>2, <3>1
    <3>3. pos = Len(k[n]) + 1 /\ Len(k[n+1]) = Len(k[n]) + 1 /\ Len(l[n+1]) = Len(k[n]) + 1
          /\ k[n+1][pos] = s[i] /\ l[n+1][pos] = t[i]
      BY <1>2, <1>5, <1>6, <2>1, <2>4, <3>2
    <3>4. \A j \in 1..Len(k[n]) : l[n+1][j] = k[n+1][j]
      BY <1>2, <1>5, <1>6, <2>1, <3>2
    <3>5. \A j \in 1..Len(k[n+1]) : j # pos => j \in 1..Len(k[n])
      BY <1>2, <2>1, <3>3
    <3>6. Len(k[n+1]) = Len(l[n+1]) /\ pos \in 1..Len(k[n+1])
      BY <1>2, <2>1, <3>3
    <3>7. Alike(k[n+1], l[n+1])
      BY <3>3, <3>4, <3>5, <3>6
    <3> HIDE DEF Alike
    <3> QED BY <1>1, <2>1, <2>4, <3>7
  <2>5. CASE n + 1 > i
    <3>1. Alike(k[n], l[n]) /\ t[n+1] = s[n+1]
      BY <1>8, <2>1, <2>5, <1>1 DEF Moved
    <3>2. CASE ~s[n+1].finite
      <4>1. Alike(k[n+1], l[n+1])
        BY <2>2, <3>1, <3>2
      <4> HIDE DEF Alike
      <4> QED BY <1>1, <2>1, <2>5, <4>1
    <3>3. CASE s[n+1].finite
      <4> DEFINE x == s[n+1]
                 u == k[n]
                 v == l[n]
      <4>1. k[n+1] = Append(u, x) /\ l[n+1] = Append(v, x)
        BY <2>2, <3>1, <3>3
      <4>2. u \in Seq(Updates) /\ v \in Seq(Updates) /\ x \in Updates /\ Len(u) \in Nat
        BY <1>2, <1>5, <2>1
      <4>3. Len(v) = Len(u) /\ pos \in 1..Len(u) /\ u[pos] = s[i] /\ v[pos] = t[i]
            /\ \A j \in 1..Len(u) : j # pos => v[j] = u[j]
        BY <3>1
      <4> HIDE DEF x, u, v, pos
      <4>4. /\ Len(Append(u, x)) = Len(u) + 1 /\ Append(u, x)[Len(u) + 1] = x
            /\ \A j \in 1..Len(u) : Append(u, x)[j] = u[j]
            /\ Len(Append(v, x)) = Len(u) + 1 /\ Append(v, x)[Len(u) + 1] = x
            /\ \A j \in 1..Len(u) : Append(v, x)[j] = v[j]
        <5>1. /\ Len(Append(v, x)) = Len(v) + 1 /\ Append(v, x)[Len(v) + 1] = x
                /\ \A j \in 1..Len(v) : Append(v, x)[j] = v[j]
            BY <1>6, <4>2
        <5>2. /\ Len(Append(u, x)) = Len(u) + 1 /\ Append(u, x)[Len(u) + 1] = x
                /\ \A j \in 1..Len(u) : Append(u, x)[j] = u[j]
            BY <1>6, <4>2
        <5>3. Len(v) = Len(u)
            BY <4>3
        <5> QED BY ONLY <5>1, <5>2, <5>3
      <4>5. pos \in 1..(Len(u) + 1) /\ \A j \in 1..(Len(u) + 1) : j \in 1..Len(u) \/ j = Len(u) + 1
        <5> DEFINE n0 == Len(u)
        <5>1. n0 \in Nat /\ pos \in 1..n0
          BY <4>2, <4>3
        <5> HIDE DEF n0
        <5>2. pos \in 1..(n0 + 1)
          BY <5>1
        <5>3. \A j \in 1..(n0 + 1) : j \in 1..n0 \/ j = n0 + 1
          BY <5>1
        <5> QED BY <5>2, <5>3 DEF n0
      <4>6. \A j \in 1..(Len(u) + 1) : j # pos => Append(v, x)[j] = Append(u, x)[j]
        BY <4>3, <4>4, <4>5
      <4>7. Alike(Append(u, x), Append(v, x))
        BY <4>3, <4>4, <4>5, <4>6
      <4> HIDE DEF Alike
      <4>8. Alike(k[n+1], l[n+1])
        BY <4>1, <4>7
      <4> QED BY <1>1, <2>1, <2>5, <4>8
    <3> QED BY <3>2, <3>3
  <2> QED BY <1>1, <2>1, <2>3, <2>4, <2>5
<1> HIDE DEF S
<1>9. \A n \in 0..Len(s) : n \in S
  BY <1>1, <1>7, <1>8, UpTo
<1>10. Alike(k[Len(s)], l[Len(s)])
  <2>1. Len(s) \in S /\ Len(s) >= i
    BY <1>1, <1>9
  <2> QED BY <2>1 DEF S
<1>11. Finite(s) = k[Len(s)] /\ Finite(t) = l[Len(s)]
  BY <1>1, KeptSteps DEF k, l
<1> QED BY <1>10, <1>11 DEF k

(* Clipping leaves a vector of whole numbers of the same dimension. *)
LEMMA ClippedTypes ==
  ASSUME NEW v \in Seq(Int), NEW max_norm \in Int, ClipsExactly(v, max_norm)
  PROVE  /\ Clipped(v, max_norm) \in Seq(Int)
         /\ Len(Clipped(v, max_norm)) = Len(v)
<1>1. CASE ~TooLong(v, max_norm)
  BY <1>1, Zenon DEF Clipped
<1>2. CASE TooLong(v, max_norm)
  <2> DEFINE sq == SquaredNorm(v)
             norm == CHOOSE r \in 1..sq : r * r = sq
             w == [c \in 1..Len(v) |-> (v[c] * max_norm) \div norm]
  <2>1. Clipped(v, max_norm) = w
    BY <1>2, Zenon DEF Clipped
  <2>2. sq \in Nat /\ \E r \in 1..sq : r * r = sq
    <3>1. sq \in Nat
      BY NormTypes
    <3>2. \E r \in 1..sq : r * r = sq
      BY <1>2, Zenon DEF ClipsExactly
    <3> QED BY <3>1, <3>2
  <2> HIDE DEF sq
  <2>3. norm \in 1..sq
    BY <2>2, Zenon
  <2> HIDE DEF norm
  <2>4. norm \in Nat /\ norm > 0
    BY <2>2, <2>3
  <2>5. ASSUME NEW c \in 1..Len(v) PROVE (v[c] * max_norm) \div norm \in Int
    <3>1. v[c] \in Int
      OBVIOUS
    <3> DEFINE x == v[c] * max_norm
    <3>2. x \in Int
      BY <3>1
    <3> HIDE DEF x
    <3>3. x \div norm \in Int
      BY <2>4, <3>2
    <3> QED BY <3>3 DEF x
  <2>6. w \in Seq(Int) /\ Len(w) = Len(v)
    <3> DEFINE e(c) == (v[c] * max_norm) \div norm
    <3>1. \A c \in 1..Len(v) : e(c) \in Int
      BY <2>5
    <3> HIDE DEF e
    <3>2. Len(v) \in Nat
      OBVIOUS
    <3>3. [c \in 1..Len(v) |-> e(c)] \in Seq(Int) /\ Len([c \in 1..Len(v) |-> e(c)]) = Len(v)
      BY <3>1, <3>2
    <3> QED BY <3>3 DEF e
  <2> QED BY <2>1, <2>6
<1> QED BY <1>1, <1>2

(* A batch whose updates can be aggregated. *)
Proper(s, max_norm) ==
  /\ s \in Seq(Updates) /\ max_norm \in Int
  /\ \A j, k \in 1..Len(s) : Len(s[j].at) = Len(s[k].at)
  /\ \A j \in 1..Len(s) : ClipsExactly(s[j].at, max_norm)

(* Every update that is kept is one of those sent. *)
LEMMA KeptFrom ==
  ASSUME NEW s \in Seq(Updates)
  PROVE  \A n \in 0..Len(s) : \A j \in 1..Len(Kept(s)[n]) :
           \E k \in 1..Len(s) : Kept(s)[n][j] = s[k]
<1> DEFINE k == Kept(s)
           From(q) == \A j \in 1..Len(q) : \E m \in 1..Len(s) : q[j] = s[m]
           S == {n \in Nat : From(k[n])}
<1>1. Len(s) \in Nat /\ \A n \in 0..Len(s) : k[n] \in Seq(Updates)
  <2>1. Len(s) \in Nat
    OBVIOUS
  <2>2. \A n \in 0..Len(s) : k[n] \in Seq(Updates)
    BY KeptTypes
  <2> QED BY <2>1, <2>2
<1>2. k[0] = <<>> /\ \A n \in 1..Len(s) :
        k[n] = IF s[n].finite THEN Append(k[n-1], s[n]) ELSE k[n-1]
  BY KeptSteps
<1>3. \A n \in 1..Len(s) : s[n] \in Updates
  <2> HIDE DEF Updates
  <2> QED OBVIOUS
<1> HIDE DEF k, Updates
<1>4. 0 \in S
  <2>1. From(<<>>)
    OBVIOUS
  <2> HIDE DEF From
  <2> QED BY <1>2, <2>1
<1>5. ASSUME NEW n \in 0..(Len(s)-1), n \in S PROVE n + 1 \in S
  <2>1. n + 1 \in 1..Len(s) /\ (n + 1) - 1 = n /\ n \in 0..Len(s) /\ n + 1 \in Nat
    BY <1>1
  <2>2. k[n+1] = IF s[n+1].finite THEN Append(k[n], s[n+1]) ELSE k[n]
    BY <1>2, <2>1
  <2>3. From(Append(k[n], s[n+1]))
    <3> DEFINE u == k[n]
               x == s[n+1]
    <3>1. u \in Seq(Updates) /\ x \in Updates /\ From(u) /\ \E m \in 1..Len(s) : x = s[m]
      BY <1>1, <1>3, <1>5, <2>1
    <3> HIDE DEF u, x
    <3>2. \A j \in 1..Len(Append(u, x)) : 
              \/ Append(u, x)[j] = x
              \/ j \in 1..Len(u) /\ Append(u, x)[j] = u[j]
      BY <3>1
    <3> QED BY <3>1, <3>2 DEF u, x
  <2> HIDE DEF From
  <2>4. From(k[n+1])
    BY <1>5, <2>2, <2>3
  <2> QED BY <2>1, <2>4
<1> HIDE DEF S
<1>6. \A n \in 0..Len(s) : n \in S
  BY <1>1, <1>4, <1>5, UpTo
<1> QED BY <1>6 DEF S, k

(* The matrix that sanitize returns for a proper batch. *)
LEMMA SanitizedTypes ==
  ASSUME NEW s, NEW max_norm, Proper(s, max_norm)
  PROVE  LET m == sanitize(s, max_norm)
         IN /\ Len(m) = Len(Finite(s)) /\ Len(m) \in Nat
            /\ \A j \in 1..Len(m) : m[j] = Clipped(Finite(s)[j].at, max_norm)
            /\ \A j \in 1..Len(m) : m[j] \in Seq(Int) /\ Len(m[j]) = Len(s[1].at)
<1> DEFINE F == Finite(s)
           m == sanitize(s, max_norm)
<1>1. s \in Seq(Updates) /\ max_norm \in Int /\ Len(s) \in Nat
  BY DEF Proper
<1>2. F = Kept(s)[Len(s)]
  BY <1>1, KeptSteps
<1>3. F \in Seq(Updates) /\ \A j \in 1..Len(F) : \E k \in 1..Len(s) : F[j] = s[k]
  <2>1. Len(s) \in 0..Len(s)
    BY <1>1
  <2> HIDE DEF F, Updates
  <2> QED BY <1>1, <1>2, <2>1, KeptTypes, KeptFrom
<1> HIDE DEF F
<1>4. Len(F) \in Nat
  BY <1>3
<1>5. m = [j \in 1..Len(F) |-> Clipped(F[j].at, max_norm)]
  BY Zenon DEF sanitize, F
<1>6. Len(m) = Len(F) /\ \A j \in 1..Len(F) : m[j] = Clipped(F[j].at, max_norm)
  <2> HIDE DEF m
  <2> QED BY <1>4, <1>5
<1>7. ASSUME NEW j \in 1..Len(F)
      PROVE  Clipped(F[j].at, max_norm) \in Seq(Int)
             /\ Len(Clipped(F[j].at, max_norm)) = Len(s[1].at)
  <2>1. PICK k \in 1..Len(s) : F[j] = s[k]
    BY <1>3
  <2>2. s[k] \in Updates /\ 1 \in 1..Len(s)
    <3> HIDE DEF Updates
    <3> QED BY <1>1
  <2>3. ClipsExactly(s[k].at, max_norm) /\ Len(s[k].at) = Len(s[1].at)
    BY <2>2 DEF Proper
  <2>4. s[k].at \in Seq(Int)
    BY <2>2 DEF Updates
  <2> QED BY <1>1, <2>1, <2>3, <2>4, ClippedTypes
<1> HIDE DEF m
<1> QED BY <1>4, <1>6, <1>7 DEF F, m

(* The weight of an update is the one at the place where it was kept. *)
LEMMA WeightKept ==
  ASSUME NEW s \in Seq(Updates), NEW i \in 1..Len(s), NEW weights,
         Len(weights) = Len(Finite(s))
  PROVE  WeightOf(i, s, weights) = weights[Len(Kept(s)[i])]
<1>1. CASE Len(weights) = Len(s)
  <2>1. Len(Kept(s)[i]) = i
    BY <1>1, KeptPlaces
  <2> QED BY <1>1, <2>1, Zenon DEF WeightOf
<1>2. CASE Len(weights) # Len(s)
  <2>1. Finite(SubSeq(s, 1, i)) = Kept(s)[i]
    BY KeptPrefix
  <2> QED BY <1>2, <2>1, Zenon DEF WeightOf
<1> QED BY <1>1, <1>2

(* Each method is applied to what sanitize leaves, if it leaves anything. *)
LEMMA Dispatch ==
  ASSUME NEW s, NEW task
  PROVE  LET m == sanitize(s, task.max_norm)
             result == aggregate(s, task)
         IN /\ m = <<>> => result = Failure
            /\ m # <<>> /\ task.method = "trimmed_mean" =>
                 result = trimmed_mean(m, task.trim)
            /\ m # <<>> /\ task.method = "krum" => result = krum(m, task.num_byzantine)
            /\ m # <<>> /\ task.method = "reputation" =>
                 result = reputation_weighted_mean(m, task.weights)
<1> DEFINE m == sanitize(s, task.max_norm)
           a == trimmed_mean(m, task.trim)
           b == krum(m, task.num_byzantine)
           r == reputation_weighted_mean(m, task.weights)
           result == aggregate(s, task)
<1>1. result =
        IF m = <<>> THEN Failure
        ELSE CASE task.method = "trimmed_mean" -> a
               [] task.method = "krum" -> b
               [] task.method = "reputation" -> r
               [] OTHER -> Failure
  BY Zenon DEF aggregate
<1> HIDE DEF a, b, r, m, result
<1>2. m = <<>> => result = Failure
  BY <1>1
<1>3. m # <<>> /\ task.method = "trimmed_mean" => result = a
  BY <1>1
<1>4. m # <<>> /\ task.method = "krum" => result = b
  BY <1>1
<1>5. m # <<>> /\ task.method = "reputation" => result = r
  BY <1>1
<1> QED BY <1>2, <1>3, <1>4, <1>5, Zenon DEF a, b, r, m, result

(* A row of weight zero does not count. *)
LEMMA WeightlessRow ==
  ASSUME NEW m, NEW n, NEW weights, NEW pos, NEW dim \in Nat,
         Len(m) \in Nat, Len(m) > 0, Len(n) = Len(m), pos \in 1..Len(m), weights[pos] = 0,
         \A j \in 1..Len(m) : j # pos => n[j] = m[j],
         \A j \in 1..Len(m) : m[j] \in Seq(Int) /\ Len(m[j]) = dim,
         \A j \in 1..Len(m) : n[j] \in Seq(Int) /\ Len(n[j]) = dim,
         reputation_weighted_mean(m, weights) # Failure, SumOver(weights) # 0
  PROVE  reputation_weighted_mean(n, weights) = reputation_weighted_mean(m, weights)
<1> DEFINE Weighed(q, c) == [j \in 1..Len(q) |-> q[j][c] * weights[j]]
           total == SumOver(weights)
           Bad == \E j \in 1..Len(weights) : weights[j] < 0
           Totals(q) == [c \in 1..Dimension(q) |-> SumOver(Weighed(q, c))]
<1>1. \A q : reputation_weighted_mean(q, weights) =
               IF ~WeightsFit(q, weights) \/ Bad THEN Failure
               ELSE IF total = 0 THEN Mean(q) ELSE Aggregate(Totals(q), total)
  BY Zenon DEF reputation_weighted_mean
<1>2. WeightsFit(m, weights) /\ ~Bad
  <2> HIDE DEF Bad, Totals, total
  <2> QED BY <1>1
<1>3. WeightsFit(n, weights)
  BY <1>2 DEF WeightsFit
<1>4. total # 0
  OBVIOUS
<1>5. \A q : WeightsFit(q, weights) =>
               reputation_weighted_mean(q, weights) = Aggregate(Totals(q), total)
  <2> HIDE DEF Bad, Totals, total
  <2> QED BY <1>1, <1>2, <1>4
<1>6. Dimension(m) = dim /\ Dimension(n) = dim
  <2>1. 1 \in 1..Len(m)
    OBVIOUS
  <2> QED BY <2>1 DEF Dimension
<1>7. ASSUME NEW c \in 1..dim PROVE Weighed(n, c) = Weighed(m, c)
  <2>1. ASSUME NEW j \in 1..Len(m) PROVE n[j][c] * weights[j] = m[j][c] * weights[j]
    <3>1. CASE j # pos
      BY <3>1
    <3>2. CASE j = pos
      <4>1. \A v \in Seq(Int) : Len(v) = dim => v[c] \in Int
        OBVIOUS
      <4>2. m[j][c] \in Int /\ n[j][c] \in Int
        BY <4>1
      <4> DEFINE x == m[j][c]
                 y == n[j][c]
      <4> HIDE DEF x, y
      <4>3. x * 0 = 0 /\ y * 0 = 0
        BY <4>2 DEF x, y
      <4> QED BY <3>2, <4>3 DEF x, y
    <3> QED BY <3>1, <3>2
  <2> DEFINE X(j) == n[j][c] * weights[j]
             Y(j) == m[j][c] * weights[j]
  <2>2. \A j \in 1..Len(m) : X(j) = Y(j)
    BY <2>1
  <2> HIDE DEF X, Y
  <2>3. [j \in 1..Len(m) |-> X(j)] = [j \in 1..Len(m) |-> Y(j)]
    BY <2>2
  <2> QED BY <2>3 DEF X, Y
<1>8. Totals(n) = Totals(m)
  <2> DEFINE X(c) == SumOver(Weighed(n, c))
             Y(c) == SumOver(Weighed(m, c))
  <2>1. \A c \in 1..dim : X(c) = Y(c)
    <3> HIDE DEF Weighed
    <3> QED BY <1>7
  <2>2. Totals(n) = [c \in 1..dim |-> X(c)] /\ Totals(m) = [c \in 1..dim |-> Y(c)]
    <3> HIDE DEF Weighed
    <3> QED BY <1>6
  <2> HIDE DEF X, Y, Totals
  <2> QED BY <2>1, <2>2
<1> HIDE DEF Totals, total, Bad
<1> QED BY <1>2, <1>3, <1>5, <1>8

(* The vector of an update of weight zero may be another. *)
LEMMA WeightlessUpdate ==
  ASSUME NEW s, NEW t, NEW task, Proper(s, task.max_norm), Proper(t, task.max_norm),
         NEW i \in 1..Len(s), Moved(s, t, i), task.method = "reputation",
         aggregate(s, task).ok, SumOver(task.weights) # 0,
         WeightOf(i, s, task.weights) = 0
  PROVE  aggregate(t, task) = aggregate(s, task)
<1> DEFINE b == task.max_norm
           w == task.weights
           m == sanitize(s, b)
           n == sanitize(t, b)
           pos == Len(Kept(s)[i])
           dim == Len(s[1].at)
<1>1. s \in Seq(Updates) /\ t \in Seq(Updates) /\ Len(t) = Len(s) /\ Len(s) \in Nat
  BY DEF Proper, Moved
<1>2. /\ Len(Finite(t)) = Len(Finite(s)) /\ pos \in 1..Len(Finite(s))
      /\ \A j \in 1..Len(Finite(s)) : j # pos => Finite(t)[j] = Finite(s)[j]
  BY <1>1, KeptAlike
<1>3. Len(t[1].at) = dim
  <2>1. 1 \in 1..Len(s) /\ i \in 1..Len(s)
    BY <1>1
  <2>2. Len(s[i].at) = dim /\ Len(t[i].at) = Len(t[1].at) /\ Len(t[i].at) = Len(s[i].at)
    BY <1>1, <2>1 DEF Proper, Moved
  <2> QED BY <2>2
<1>4. /\ Len(m) = Len(Finite(s)) /\ Len(m) \in Nat
      /\ \A j \in 1..Len(m) : m[j] = Clipped(Finite(s)[j].at, b)
      /\ \A j \in 1..Len(m) : m[j] \in Seq(Int) /\ Len(m[j]) = dim
  BY SanitizedTypes
<1>5. /\ Len(n) = Len(Finite(t)) /\ Len(n) \in Nat
      /\ \A j \in 1..Len(n) : n[j] = Clipped(Finite(t)[j].at, b)
      /\ \A j \in 1..Len(n) : n[j] \in Seq(Int) /\ Len(n[j]) = dim
  <2>1. \A j \in 1..Len(n) : n[j] \in Seq(Int) /\ Len(n[j]) = Len(t[1].at)
    BY SanitizedTypes
  <2>2. /\ Len(n) = Len(Finite(t)) /\ Len(n) \in Nat
        /\ \A j \in 1..Len(n) : n[j] = Clipped(Finite(t)[j].at, b)
    BY SanitizedTypes
  <2> HIDE DEF n, dim
  <2> QED BY <1>3, <2>1, <2>2
<1>6. dim \in Nat
  <2>1. s[1] \in Updates
    <3> HIDE DEF Updates
    <3> QED BY <1>1
  <2> QED BY <2>1 DEF Updates
<1> HIDE DEF m, n, pos, dim
<1>7. Len(n) = Len(m) /\ pos \in 1..Len(m) /\ Len(m) > 0
      /\ \A j \in 1..Len(m) : j # pos => n[j] = m[j]
  <2>1. Len(n) = Len(m)
    BY <1>2, <1>4, <1>5
  <2>2. pos \in 1..Len(m)
    BY <1>2, <1>4
  <2>3. Len(m) > 0
    BY <1>4, <2>2
  <2>4. ASSUME NEW j \in 1..Len(m), j # pos PROVE n[j] = m[j]
    <3>1. m[j] = Clipped(Finite(s)[j].at, b) /\ n[j] = Clipped(Finite(t)[j].at, b)
      BY <1>4, <1>5, <2>1
    <3>2. Finite(t)[j] = Finite(s)[j]
      BY <1>2, <1>4, <2>4
    <3> QED BY <3>1, <3>2
  <2> QED BY <2>1, <2>2, <2>3, <2>4
<1>8. m # <<>> /\ n # <<>>
  <2>1. Len(m) # 0 /\ Len(n) # 0
    BY <1>4, <1>7
  <2> QED BY <2>1
<1>9. /\ aggregate(s, task) = reputation_weighted_mean(m, w)
      /\ aggregate(t, task) = reputation_weighted_mean(n, w)
  BY <1>8, Dispatch DEF m, n
<1>10. reputation_weighted_mean(m, w) # Failure
  <2>1. ~Failure.ok
    BY DEF Failure
  <2> QED BY <1>9, <2>1
<1>11. Len(w) = Len(m)
  <2>1. WeightsFit(m, w)
    BY <1>10, Zenon DEF reputation_weighted_mean
  <2> QED BY <2>1 DEF WeightsFit
<1>12. w[pos] = 0
  BY <1>1, <1>4, <1>11, WeightKept DEF pos
<1>13. reputation_weighted_mean(n, w) = reputation_weighted_mean(m, w)
  <2>1. \A j \in 1..Len(m) : n[j] \in Seq(Int) /\ Len(n[j]) = dim
    BY <1>5, <1>7
  <2>2. Len(m) \in Nat /\ \A j \in 1..Len(m) : m[j] \in Seq(Int) /\ Len(m[j]) = dim
    BY <1>4
  <2>3. SumOver(w) # 0
    OBVIOUS
  <2> HIDE DEF w
  <2> QED BY <1>6, <1>7, <1>10, <1>12, <2>1, <2>2, <2>3, WeightlessRow
<1> QED BY <1>9, <1>13

(* A batch whose updates come from the batches of a call is proper. *)
Batches == HonestBatches \cup OtherBatches

Gathered(s) ==
  /\ s \in Seq(Updates)
  /\ \A j \in 1..Len(s) : \E batch \in Batches : \E k \in 1..Len(batch) : s[j] = batch[k]

(* Their updates can be aggregated. *)
LEMMA GatheredProper ==
  ASSUME NEW s, Gathered(s), NEW task \in Tasks
  PROVE  /\ Proper(s, task.max_norm)
         /\ task.method = "reputation" =>
              \A j \in 1..Len(s) : ClipsExactly(Shifted(s[j].at), task.max_norm)
<1> DEFINE max_norm == task.max_norm
<1>1. max_norm \in Int
  BY TasksAssumption
<1>2. ASSUME NEW j \in 1..Len(s), NEW k \in 1..Len(s)
      PROVE  Len(s[j].at) = Len(s[k].at)
  <2>1. PICK a \in Batches : \E x \in 1..Len(a) : s[j] = a[x]
    BY DEF Gathered
  <2>2. PICK x \in 1..Len(a) : s[j] = a[x]
    BY <2>1
  <2>3. PICK c \in Batches : \E y \in 1..Len(c) : s[k] = c[y]
    BY DEF Gathered
  <2>4. PICK y \in 1..Len(c) : s[k] = c[y]
    BY <2>3
  <2>5. Len(a[x].at) = Len(c[y].at)
    BY BatchesAssumption DEF Batches
  <2> QED BY <2>2, <2>4, <2>5
<1>3. ASSUME NEW j \in 1..Len(s)
      PROVE  /\ ClipsExactly(s[j].at, max_norm)
             /\ task.method = "reputation" => ClipsExactly(Shifted(s[j].at), max_norm)
  <2>1. PICK a \in Batches : \E x \in 1..Len(a) : s[j] = a[x]
    BY DEF Gathered
  <2>2. PICK x \in 1..Len(a) : s[j] = a[x]
    BY <2>1
  <2>3. /\ ClipsExactly(a[x].at, max_norm)
        /\ task.method = "reputation" => ClipsExactly(Shifted(a[x].at), max_norm)
    BY ClippingAssumption DEF Batches
  <2> QED BY <2>2, <2>3
<1>4. s \in Seq(Updates)
  BY DEF Gathered
<1> HIDE DEF max_norm
<1>5. Proper(s, max_norm)
  BY <1>1, <1>2, <1>3, <1>4 DEF Proper
<1> QED BY <1>3, <1>5 DEF max_norm

(* The updates of a call, and the honest ones among them. *)
LEMMA CallsGathered ==
  ASSUME NEW honest \in HonestBatches, NEW others \in OtherBatches
  PROVE  LET s == others \o honest
         IN /\ Gathered(s) /\ Gathered(honest)
            /\ Len(others) \in Nat /\ Len(honest) \in Nat
            /\ Len(s) = Len(others) + Len(honest)
            /\ \A j \in 1..Len(honest) : s[Len(others) + j] = honest[j]
<1> DEFINE s == others \o honest
<1>1. /\ honest \in Batches /\ others \in Batches
      /\ honest \in Seq(Updates) /\ others \in Seq(Updates)
  BY BatchesAssumption DEF Updates, Batches
<1>2. /\ s \in Seq(Updates) /\ Len(s) = Len(others) + Len(honest)
      /\ Len(others) \in Nat /\ Len(honest) \in Nat
      /\ \A j \in 1..Len(others) : s[j] = others[j]
      /\ \A j \in 1..Len(honest) : s[Len(others) + j] = honest[j]
  <2> HIDE DEF Updates
  <2> QED BY <1>1
<1> HIDE DEF s
<1>3. ASSUME NEW j \in 1..Len(s)
      PROVE  \E batch \in Batches : \E k \in 1..Len(batch) : s[j] = batch[k]
  <2>1. CASE j <= Len(others)
    <3>1. j \in 1..Len(others)
      BY <1>2, <2>1
    <3> QED BY <1>1, <1>2, <3>1
  <2>2. CASE j > Len(others)
    <3>1. /\ j - Len(others) \in 1..Len(honest)
          /\ Len(others) + (j - Len(others)) = j
      BY <1>2, <2>2
    <3>2. s[j] = honest[j - Len(others)]
      BY <1>2, <3>1
    <3> QED BY <1>1, <3>1, <3>2
  <2> QED BY <1>2, <2>1, <2>2
<1>4. Gathered(s)
  BY <1>2, <1>3 DEF Gathered
<1>5. Gathered(honest)
  BY <1>1 DEF Gathered
<1> QED BY <1>2, <1>4, <1>5 DEF s

(* The updates of a call are proper, and stay so when one of them moves. *)
LEMMA ProperCalls ==
  ASSUME NEW honest \in HonestBatches, NEW others \in OtherBatches, NEW task \in Tasks,
         NEW i \in 1..Len(others \o honest), task.method = "reputation",
         (others \o honest)[i].finite
  PROVE  LET s == others \o honest
             t == [s EXCEPT ![i].at = Shifted(@)]
         IN Proper(s, task.max_norm) /\ Proper(t, task.max_norm) /\ Moved(s, t, i)
<1> DEFINE s == others \o honest
           v == Shifted(s[i].at)
           t == [s EXCEPT ![i].at = Shifted(@)]
           max_norm == task.max_norm
<1>1. Gathered(s) /\ s \in Seq(Updates) /\ Len(s) \in Nat
  <2>1. /\ Gathered(s) /\ Len(s) = Len(others) + Len(honest)
        /\ Len(others) \in Nat /\ Len(honest) \in Nat
    BY CallsGathered
  <2> HIDE DEF s
  <2> QED BY <2>1 DEF Gathered
<1>2. /\ s \in Seq(Updates) /\ Len(s) \in Nat
      /\ DOMAIN s = 1..Len(s)
  <2> HIDE DEF s, Updates
  <2> QED BY <1>1
<1>3. /\ Proper(s, max_norm)
      /\ \A j \in 1..Len(s) : ClipsExactly(Shifted(s[j].at), max_norm)
  <2> HIDE DEF s
  <2> QED BY <1>1, GatheredProper
<1>4. /\ \A j, k \in 1..Len(s) : Len(s[j].at) = Len(s[k].at)
      /\ \A j \in 1..Len(s) : ClipsExactly(s[j].at, max_norm)
      /\ max_norm \in Int /\ ClipsExactly(v, max_norm)
  <2> HIDE DEF s, max_norm
  <2> QED BY <1>3 DEF Proper, s
<1>5. s[i] \in Updates
  <2> HIDE DEF Updates
  <2> QED BY <1>2
<1>6. s[i].at \in Seq(Int) /\ s[i] = [finite |-> s[i].finite, at |-> s[i].at]
      /\ s[i].finite \in BOOLEAN
  BY <1>5 DEF Updates
<1>7. v \in Seq(Int) /\ Len(v) = Len(s[i].at)
  <2> DEFINE u == s[i].at
  <2>1. u \in Seq(Int)
    BY <1>6
  <2> HIDE DEF u
  <2>2. Shifted(u) = [c \in 1..Len(u) |-> u[c] + 7]
    BY <2>1 DEF Shifted
  <2>3. Len(u) \in Nat /\ \A c \in 1..Len(u) : u[c] + 7 \in Int
    BY <2>1
  <2>4. Shifted(u) \in Seq(Int) /\ Len(Shifted(u)) = Len(u)
    BY <2>2, <2>3
  <2> QED BY <2>4 DEF u
<1> HIDE DEF v
<1>8. t[i] = [finite |-> s[i].finite, at |-> v]
  <2>1. i \in DOMAIN s
    BY <1>2
  <2>2. t[i] = [s[i] EXCEPT !.at = v]
    <3> HIDE DEF s
    <3> QED BY <2>1 DEF v
  <2>3. [s[i] EXCEPT !.at = v] = [finite |-> s[i].finite, at |-> v]
    <3> HIDE DEF s
    <3> QED BY <1>6
  <2> QED BY <2>2, <2>3
<1>9. DOMAIN t = 1..Len(s) /\ Len(t) = Len(s) /\ \A j \in 1..Len(s) : j # i => t[j] = s[j]
  <2>1. DOMAIN s = 1..Len(s)
    BY <1>2
  <2>2. DOMAIN t = DOMAIN s /\ \A j \in 1..Len(s) : j # i => t[j] = s[j]
    <3> HIDE DEF s
    <3> QED BY <2>1
  <2> HIDE DEF t, s
  <2> QED BY <1>2, <2>1, <2>2
<1>10. t[i] \in Updates /\ t[i].at = v /\ t[i].finite
  <2> HIDE DEF t, s
  <2> QED BY <1>6, <1>7, <1>8 DEF Updates, s
<1>11. \A j \in 1..Len(s) : s[j] \in Updates
  <2> HIDE DEF Updates
  <2> QED BY <1>2
<1> HIDE DEF t, s, max_norm, Updates
<1>12. t \in Seq(Updates)
  <2>1. \A j \in 1..Len(s) : t[j] \in Updates
    BY <1>9, <1>10, <1>11
  <2>2. t = [j \in 1..Len(s) |-> t[j]]
    BY <1>9 DEF t
  <2> QED BY <1>2, <2>1, <2>2
<1>13. /\ \A j, k \in 1..Len(t) : Len(t[j].at) = Len(t[k].at)
       /\ \A j \in 1..Len(t) : ClipsExactly(t[j].at, max_norm)
  <2>1. \A j \in 1..Len(s) : Len(t[j].at) = Len(s[j].at) /\ ClipsExactly(t[j].at, max_norm)
    BY <1>4, <1>7, <1>9, <1>10
  <2> QED BY <1>4, <1>9, <2>1
<1>14. Proper(s, max_norm) /\ Proper(t, max_norm)
  BY <1>2, <1>4, <1>12, <1>13 DEF Proper
<1>15. Moved(s, t, i)
  <2>1. s[i].finite
    BY DEF s
  <2> QED BY <1>7, <1>9, <1>10, <2>1 DEF Moved
<1> QED BY <1>14, <1>15 DEF s, t, max_norm

(* The actions other than aggregating, which make no call of this kind. *)
OtherThanAggregate ==
  \/ ProveInclusion \/ CheckInclusion \/ Multiply \/ SignMessage \/ VerifySignature
  \/ ValidateSeal \/ Retarget \/ Return

LEMMA NotAggregated == OtherThanAggregate => call'.op # "aggregate"
BY KindOfCall DEF OtherThanAggregate

(* What the property says of one call. *)
NoSay(updates, task, result) ==
  task.method = "reputation" /\ result.ok /\ SumOver(task.weights) # 0 =>
    \A i \in 1..Len(updates) :
      updates[i].finite /\ WeightOf(i, updates, task.weights) = 0 =>
        aggregate([updates EXCEPT ![i].at = Shifted(@)], task) = result

(* The property, as a formula of the call's arguments and result. *)
LEMMA NoSayIsEnough ==
  /\ (call.op = "aggregate" => NoSay(call.others \o call.honest, call.task, call.result))
       => NoWeightNoSay
  /\ (call'.op = "aggregate" => NoSay(call'.others \o call'.honest, call'.task, call'.result))
       => NoWeightNoSay'
  /\ NoWeightNoSay => (call.op = "aggregate" =>
       NoSay(call.others \o call.honest, call.task, call.result))
BY Zenon DEF NoSay, NoWeightNoSay

(* It holds of every call that can be made. *)
LEMMA NoSayInCalls ==
  ASSUME NEW honest \in HonestBatches, NEW others \in OtherBatches, NEW task \in Tasks
  PROVE  NoSay(others \o honest, task, aggregate(others \o honest, task))
<1> DEFINE s == others \o honest
<1> SUFFICES ASSUME task.method = "reputation", aggregate(s, task).ok,
                    SumOver(task.weights) # 0, NEW i \in 1..Len(s), s[i].finite,
                    WeightOf(i, s, task.weights) = 0
             PROVE  aggregate([s EXCEPT ![i].at = Shifted(@)], task) = aggregate(s, task)
  BY Zenon DEF NoSay
<1> DEFINE t == [s EXCEPT ![i].at = Shifted(@)]
<1>1. Proper(s, task.max_norm) /\ Proper(t, task.max_norm) /\ Moved(s, t, i)
  BY ProperCalls
<1> HIDE DEF s, t
<1>2. aggregate(t, task) = aggregate(s, task)
  BY <1>1, WeightlessUpdate
<1> QED BY <1>2 DEF t

(* reputation_weighted_mean: a validator of weight 0 has no say as long as  *)
(* another has some, for batches and weights of every size, whichever       *)
(* updates sanitize drops and however the caller lined up the weights.      *)
THEOREM WeightlessHaveNoSay == Spec => []NoWeightNoSay
<1>1. Init => NoWeightNoSay
  BY DEF Init, Idle, NoWeightNoSay
<1>2. NoWeightNoSay /\ [Next]_call => NoWeightNoSay'
  <2> SUFFICES ASSUME NoWeightNoSay, [Next]_call PROVE NoWeightNoSay'
    OBVIOUS
  <2>1. CASE AggregateUpdates
    <3>1. PICK honest \in HonestBatches, others \in OtherBatches, task \in Tasks :
            call' = [op |-> "aggregate", honest |-> honest, others |-> others, task |-> task,
                     result |-> aggregate(others \o honest, task)]
      BY <2>1, Zenon DEF AggregateUpdates
    <3>2. NoSay(others \o honest, task, aggregate(others \o honest, task))
      BY NoSayInCalls
    <3> DEFINE result == aggregate(others \o honest, task)
    <3> HIDE DEF result
    <3>3. call'.honest = honest /\ call'.others = others /\ call'.task = task
          /\ call'.result = result
      BY <3>1 DEF result
    <3>4. NoSay(call'.others \o call'.honest, call'.task, call'.result)
      BY <3>2, <3>3 DEF result
    <3> QED BY <3>4, NoSayIsEnough
  <2>2. CASE UNCHANGED call
    BY <2>2, NoSayIsEnough
  <2>3. CASE OtherThanAggregate
    <3>1. call'.op # "aggregate"
      BY <2>3, NotAggregated
    <3> QED BY <3>1, NoSayIsEnough
  <2> QED BY <2>1, <2>2, <2>3 DEF Next, OtherThanAggregate
<1> QED BY <1>1, <1>2, PTL DEF Spec

(* The least and the greatest of some numbers. *)
LEMMA Extremes ==
  ASSUME NEW s, Whole(s), Len(s) > 0
  PROVE  \E i, j \in 1..Len(s) : \A k \in 1..Len(s) : s[i] <= s[k] /\ s[k] <= s[j]
<1> DEFINE n == Len(s)
<1>1. n \in Nat /\ n > 0 /\ 1 \in 1..n /\ n \in 1..n
  BY DEF Whole
<1>2. ASSUME NEW k \in 1..n PROVE Sorted(s)[1] <= s[k]
  <2>1. {k} \in SUBSET (1..n) /\ Cardinality({k}) = 1
    BY FS_Singleton
  <2>2. \E j \in {k} : Sorted(s)[1] <= s[j]
    BY <1>1, <2>1, SortedBelow
  <2> QED BY <2>2
<1>3. ASSUME NEW k \in 1..n PROVE s[k] <= Sorted(s)[n]
  <2> DEFINE A == (1..n) \ {k}
  <2>1. IsFiniteSet(1..n) /\ Cardinality(1..n) = n
    <3> HIDE DEF n
    <3>1. IsFiniteSet(1..n) /\ Cardinality(1..n) = IF 1 > n THEN 0 ELSE n - 1 + 1
      BY <1>1, FS_Interval
    <3> QED BY <1>1, <3>1
  <2>2. IsFiniteSet(A) /\ Cardinality(A) = n - 1
    <3> HIDE DEF n
    <3> QED BY <1>3, <2>1, FS_RemoveElement
  <2>3. Cardinality(A) < n
    <3> HIDE DEF n, A
    <3> QED BY <1>1, <2>2
  <2> HIDE DEF A
  <2>4. \E j \in (1..n) \ A : s[j] <= Sorted(s)[n]
    BY <1>1, <2>2, <2>3, SortedAbove
  <2>5. \A j \in (1..n) \ A : j = k
    BY DEF A
  <2> QED BY <2>4, <2>5
<1>4. PICK i \in 1..n : Sorted(s)[1] = s[i]
  BY <1>1, Placed
<1>5. PICK j \in 1..n : Sorted(s)[n] = s[j]
  BY <1>1, Placed
<1> QED BY <1>2, <1>3, <1>4, <1>5

(* Sorting leaves as many whole numbers. *)
LEMMA SortedTypes ==
  ASSUME NEW s, Whole(s)
  PROVE  Sorted(s) \in Seq(Int) /\ Len(Sorted(s)) = Len(s)
<1>1. Len(s) \in Nat
  BY DEF Whole
<1>2. \A r \in 1..Len(s) : Sorted(s)[r] \in Int
  BY Placed DEF Whole
<1> DEFINE q == Sorted(s)
           place(r) == CHOOSE e \in Entries(s) : Cardinality(UpToEntry(Entries(s), e)) = r
<1>3. q = [r \in 1..Len(s) |-> place(r)[1]]
  BY Zenon DEF Sorted
<1> HIDE DEF q, place
<1>4. q = [r \in 1..Len(s) |-> q[r]]
  BY <1>3
<1>5. q \in Seq(Int) /\ Len(q) = Len(s)
  BY <1>1, <1>2, <1>4 DEF q
<1> QED BY <1>5 DEF q

(* The rows of m are those of the strangers, o of them, and then the honest. *)
Mixed(m, honest, o, dim) ==
  /\ o \in Nat /\ dim \in Nat /\ Len(honest) \in Nat /\ Len(m) = o + Len(honest)
  /\ \A j \in 1..Len(honest) : m[o + j] = honest[j]
  /\ \A j \in 1..Len(m) : m[j] \in Seq(Int) /\ Len(m[j]) = dim

(* The strangers' share of the rows is no more than what is trimmed.        *)
LEMMA EnoughTrimmed ==
  ASSUME NEW a \in Nat, NEW b \in Nat, 2 * a < b, NEW n \in Nat, n > 0,
         NEW o \in Nat, b * o <= a * n
  PROVE  LET k == (a * n) \div b IN k \in Nat /\ o <= k /\ 2 * k < n
<1> DEFINE x == a * n
           k == x \div b
<1>1. x \in Nat /\ b > 0
  OBVIOUS
<1>2. k \in Nat /\ b * k <= x /\ x < b * (k + 1)
  <2> HIDE DEF x
  <2> QED BY <1>1
<1>3. 2 * x < b * n
  <2>1. (2 * a) * n < b * n
    OBVIOUS
  <2> QED BY <2>1
<1>4. b * o < b * (k + 1)
  <2>1. b * o <= x
    OBVIOUS
  <2> HIDE DEF x, k
  <2> QED BY <1>1, <1>2, <2>1
<1>5. b * (2 * k) < b * n
  <2> HIDE DEF x, k
  <2>1. b * (2 * k) = 2 * (b * k)
    BY <1>2
  <2> QED BY <1>1, <1>2, <1>3, <2>1
<1> HIDE DEF x, k
<1>6. \A p, q \in Nat : b * p < b * q => p < q
  BY <1>1
<1>7. o < k + 1 /\ 2 * k < n
  BY <1>2, <1>4, <1>5, <1>6
<1> QED BY <1>2, <1>7 DEF k, x

(* The numbers in one column, and what the honest rows say of them. *)
LEMMA Columns ==
  ASSUME NEW m, NEW honest, NEW o, NEW dim, Mixed(m, honest, o, dim), NEW c \in 1..dim
  PROVE  /\ Whole(Column(m, c)) /\ Len(Column(m, c)) = Len(m)
         /\ Whole(Column(honest, c)) /\ Len(Column(honest, c)) = Len(honest)
         /\ \A j \in 1..Len(honest) : Column(honest, c)[j] = honest[j][c]
         /\ \A j \in (o+1)..Len(m) :
              j - o \in 1..Len(honest) /\ Column(m, c)[j] = honest[j - o][c]
<1>1. /\ o \in Nat /\ dim \in Nat /\ Len(honest) \in Nat /\ Len(m) = o + Len(honest)
      /\ Len(m) \in Nat
      /\ \A j \in 1..Len(honest) : m[o + j] = honest[j]
      /\ \A j \in 1..Len(m) : m[j] \in Seq(Int) /\ Len(m[j]) = dim
  BY DEF Mixed
<1>2. \A v \in Seq(Int) : Len(v) = dim => v[c] \in Int
  OBVIOUS
<1>3. \A j \in 1..Len(m) : m[j][c] \in Int
  BY <1>1, <1>2
<1>4. ASSUME NEW j \in (o+1)..Len(m)
      PROVE  j - o \in 1..Len(honest) /\ m[j] = honest[j - o]
  <2>1. j - o \in 1..Len(honest) /\ o + (j - o) = j
    BY <1>1
  <2> QED BY <1>1, <2>1
<1>5. ASSUME NEW j \in 1..Len(honest) PROVE honest[j][c] \in Int
  <2>1. o + j \in 1..Len(m)
    BY <1>1
  <2> QED BY <1>1, <1>3, <2>1
<1>6. /\ Len(Column(m, c)) = Len(m) /\ \A j \in 1..Len(m) : Column(m, c)[j] = m[j][c]
      /\ Len(Column(honest, c)) = Len(honest)
      /\ \A j \in 1..Len(honest) : Column(honest, c)[j] = honest[j][c]
  BY <1>1 DEF Column
<1>7. Whole(Column(m, c)) /\ Whole(Column(honest, c))
  BY <1>1, <1>3, <1>5, <1>6 DEF Whole
<1>8. ASSUME NEW j \in (o+1)..Len(m)
      PROVE  j - o \in 1..Len(honest) /\ Column(m, c)[j] = honest[j - o][c]
  <2>1. j \in 1..Len(m)
    BY <1>1
  <2> QED BY <1>4, <1>6, <2>1
<1> QED BY <1>6, <1>7, <1>8

(* What remains of a column lies between the honest numbers in it. *)
LEMMA SurvivorsWithin ==
  ASSUME NEW m, NEW honest, NEW o, NEW dim, Mixed(m, honest, o, dim), NEW c \in 1..dim,
         NEW k \in Nat, o <= k, NEW r \in (k+1)..(Len(m) - k)
  PROVE  /\ \E j \in 1..Len(honest) : honest[j][c] <= Sorted(Column(m, c))[r]
         /\ \E j \in 1..Len(honest) : Sorted(Column(m, c))[r] <= honest[j][c]
<1> DEFINE s == Column(m, c)
           n == Len(m)
           A == 1..o
           Z == (o+1)..n
<1>1. o \in Nat /\ n \in Nat /\ r \in 1..n /\ r \in Int /\ k < r /\ r <= n - k
  BY DEF Mixed
<1>2. /\ Whole(s) /\ Len(s) = n
      /\ \A j \in Z : j - o \in 1..Len(honest) /\ s[j] = honest[j - o][c]
  BY Columns
<1>3. IsFiniteSet(A) /\ Cardinality(A) = o
  <2>1. IsFiniteSet(A) /\ Cardinality(A) = IF 1 > o THEN 0 ELSE o - 1 + 1
    BY <1>1, FS_Interval
  <2> HIDE DEF A
  <2> QED BY <1>1, <2>1
<1>4. Z \in SUBSET (1..n) /\ Cardinality(Z) = n - o
  <2>1. Cardinality(Z) = IF o + 1 > n THEN 0 ELSE n - (o + 1) + 1
    <3> HIDE DEF n
    <3> QED BY <1>1, FS_Interval
  <2>2. o + 1 <= n
    BY <1>1
  <2>3. Z \in SUBSET (1..n)
    BY <1>1
  <2> HIDE DEF Z, n
  <2> QED BY <1>1, <2>1, <2>2, <2>3
<1>5. (1..n) \ A \subseteq Z
  BY <1>1
<1>6. Cardinality(A) < r /\ r <= Cardinality(Z)
  <2> HIDE DEF A, Z, n
  <2> QED BY <1>1, <1>3, <1>4
<1> HIDE DEF A, Z, n, s
<1>7. \E j \in (1..n) \ A : s[j] <= Sorted(s)[r]
  BY <1>1, <1>2, <1>3, <1>6, SortedAbove
<1>8. \E j \in Z : Sorted(s)[r] <= s[j]
  BY <1>1, <1>2, <1>4, <1>6, SortedBelow
<1>9. \E j \in Z : s[j] <= Sorted(s)[r]
  BY <1>5, <1>7
<1> QED BY <1>2, <1>8, <1>9 DEF s

(* trimmed_mean: each coordinate lies between two honest ones. *)
LEMMA TrimmedWithin ==
  ASSUME NEW m, NEW honest, NEW o, NEW dim, Mixed(m, honest, o, dim), Len(m) > 0,
         NEW trim, trim[1] \in Int, trim[2] \in Int, trimmed_mean(m, trim).ok,
         trim[2] * o <= trim[1] * Len(m), NEW c \in 1..dim
  PROVE  LET result == trimmed_mean(m, trim)
         IN /\ \E i \in 1..Len(honest) : honest[i][c] * result.den <= result.num[c]
            /\ \E i \in 1..Len(honest) : result.num[c] <= honest[i][c] * result.den
<1> DEFINE n == Len(m)
           a == trim[1]
           b == trim[2]
           k == TrimCount(n, trim)
           Legal == 0 <= a /\ 2 * a < b
           survivors(x) == SubSeq(Sorted(Column(m, x)), k + 1, n - k)
           num == [x \in 1..Dimension(m) |-> SumOver(survivors(x))]
<1>1. o \in Nat /\ n \in Nat /\ n > 0 /\ dim \in Nat /\ Len(honest) \in Nat
  BY DEF Mixed
<1>2. trimmed_mean(m, trim) = IF ~Legal THEN Failure
                              ELSE IF 2 * k >= n THEN Mean(m) ELSE Aggregate(num, n - 2*k)
  BY Zenon DEF trimmed_mean
<1>3. Legal
  <2>1. ~Failure.ok
    BY DEF Failure
  <2> HIDE DEF Legal, num, k
  <2> QED BY <1>2, <2>1
<1>4. k \in Nat /\ o <= k /\ 2 * k < n
  <2>1. a \in Nat /\ b \in Nat /\ 2 * a < b /\ b * o <= a * n
    BY <1>3
  <2> HIDE DEF a, b, n
  <2>2. LET j == (a * n) \div b IN j \in Nat /\ o <= j /\ 2 * j < n
    BY <1>1, <2>1, EnoughTrimmed
  <2> QED BY <2>2 DEF TrimCount, a, b
<1>5. Dimension(m) = dim
  <2>1. 1 \in 1..Len(m)
    BY <1>1
  <2> QED BY <2>1 DEF Dimension, Mixed
<1> DEFINE q == survivors(c)
           s == Column(m, c)
<1>6. Whole(s) /\ Len(s) = n
  BY Columns
<1>7. /\ Whole(q) /\ Len(q) = n - 2*k
      /\ \A x \in 1..(n - 2*k) : k + x \in (k+1)..(n - k) /\ q[x] = Sorted(s)[k + x]
  <2> DEFINE p == Sorted(s)
  <2>1. p \in Seq(Int) /\ Len(p) = n
    BY <1>6, SortedTypes
  <2> HIDE DEF p, n, k
  <2>2. /\ Len(SubSeq(p, k + 1, n - k)) = n - 2*k
        /\ \A x \in 1..(n - 2*k) : /\ SubSeq(p, k + 1, n - k)[x] = p[k + x]
                                   /\ p[k + x] \in Int /\ k + x \in (k+1)..(n - k)
    BY <1>1, <1>4, <2>1
  <2>3. n - 2*k \in Nat
    BY <1>1, <1>4
  <2> QED BY <2>2, <2>3 DEF Whole, p
<1> HIDE DEF q, s, k
<1>8. PICK lo, hi \in 1..Len(honest) :
        \A j \in 1..Len(honest) :
          honest[lo][c] <= honest[j][c] /\ honest[j][c] <= honest[hi][c]
  <2> DEFINE h == Column(honest, c)
  <2>1. Whole(h) /\ Len(h) = Len(honest) /\ \A j \in 1..Len(honest) : h[j] = honest[j][c]
    BY Columns
  <2> HIDE DEF h
  <2>2. Len(h) > 0
    <3>1. n = o + Len(honest) /\ o < n
      BY <1>1, <1>4 DEF Mixed
    <3> HIDE DEF n
    <3> QED BY <1>1, <2>1, <3>1
  <2>3. \E i, j \in 1..Len(h) : \A x \in 1..Len(h) : h[i] <= h[x] /\ h[x] <= h[j]
    BY <2>1, <2>2, Extremes
  <2>4. PICK i, j \in 1..Len(h) : \A x \in 1..Len(h) : h[i] <= h[x] /\ h[x] <= h[j]
    BY <2>3
  <2>5. i \in 1..Len(honest) /\ j \in 1..Len(honest)
    BY <2>1
  <2>6. ASSUME NEW x \in 1..Len(honest)
        PROVE  honest[i][c] <= honest[x][c] /\ honest[x][c] <= honest[j][c]
    BY <2>1, <2>4, <2>5
  <2> QED BY <2>5, <2>6
<1> DEFINE low == honest[lo][c]
           high == honest[hi][c]
<1>9. low \in Int /\ high \in Int /\ \A j \in 1..Len(honest) : honest[j][c] \in Int
  <2> DEFINE h == Column(honest, c)
  <2>1. Whole(h) /\ Len(h) = Len(honest) /\ \A j \in 1..Len(honest) : h[j] = honest[j][c]
    BY Columns
  <2> HIDE DEF h
  <2> QED BY <2>1 DEF Whole
<1> HIDE DEF low, high
<1>10. \A x \in 1..Len(q) : low <= q[x] /\ q[x] <= high
  <2> SUFFICES ASSUME NEW x \in 1..(n - 2*k) PROVE low <= q[x] /\ q[x] <= high
    BY <1>7
  <2> DEFINE r == k + x
  <2>1. r \in (k+1)..(n - k) /\ q[x] = Sorted(s)[r]
    BY <1>7
  <2> HIDE DEF r
  <2>2. /\ \E j \in 1..Len(honest) : honest[j][c] <= Sorted(s)[r]
        /\ \E j \in 1..Len(honest) : Sorted(s)[r] <= honest[j][c]
    BY <1>4, <2>1, SurvivorsWithin DEF s
  <2>3. Sorted(s)[r] \in Int
    BY <1>7, <2>1 DEF Whole
  <2>4. PICK j \in 1..Len(honest) : honest[j][c] <= Sorted(s)[r]
    BY <2>2
  <2>5. PICK i \in 1..Len(honest) : Sorted(s)[r] <= honest[i][c]
    BY <2>2
  <2>6. low <= honest[j][c] /\ honest[i][c] <= high
    BY <1>8 DEF low, high
  <2> DEFINE v == Sorted(s)[r]
             u == honest[j][c]
             w == honest[i][c]
  <2>7. u <= v /\ v <= w /\ low <= u /\ w <= high /\ q[x] = v
    BY <2>1, <2>4, <2>5, <2>6
  <2>8. u \in Int /\ v \in Int /\ w \in Int
    BY <1>9, <2>3
  <2> HIDE DEF u, v, w
  <2>9. low <= v /\ v <= high
    BY <1>9, <2>7, <2>8
  <2> QED BY <2>7, <2>9
<1>11. low * (n - 2*k) <= SumOver(q) /\ SumOver(q) <= high * (n - 2*k)
  <2> DEFINE d == n - 2*k
  <2>1. d \in Nat /\ Len(q) = d
    BY <1>1, <1>4, <1>7
  <2> HIDE DEF d
  <2>2. SumOver(q) <= d * high
    BY <1>7, <1>9, <1>10, <2>1, SumAtMost
  <2>3. 0 * 0 + (Len(q) - 0) * low <= SumOver(q)
    <3>1. 0 \in 0..Len(q) /\ \A i \in 1..0 : 0 <= q[i]
      BY <2>1
    <3>2. \A i \in (0+1)..Len(q) : low <= q[i]
      BY <1>10
    <3>3. Whole(q) /\ low \in Int /\ 0 \in Int
      BY <1>7, <1>9
    <3> QED BY <3>1, <3>2, <3>3, SumAtLeast
  <2>4. 0 * 0 + (Len(q) - 0) * low = low * d /\ d * high = high * d
    BY <1>9, <2>1
  <2> QED BY <2>2, <2>3, <2>4 DEF d
<1>12. trimmed_mean(m, trim) = Aggregate(num, n - 2*k)
  <2>1. ~(2 * k >= n)
    BY <1>1, <1>4
  <2> HIDE DEF num, Legal, n
  <2> QED BY <1>2, <1>3, <2>1
<1>13. num[c] = SumOver(q)
  BY <1>5 DEF q
<1> HIDE DEF num, n
<1>14. trimmed_mean(m, trim).num[c] = SumOver(q) /\ trimmed_mean(m, trim).den = n - 2*k
  BY <1>12, <1>13 DEF Aggregate
<1> QED BY <1>11, <1>14 DEF low, high

(* If none is dropped from some place on, those after it stay together. *)
LEMMA KeptTail ==
  ASSUME NEW s \in Seq(Updates), NEW b \in 0..Len(s),
         \A j \in (b+1)..Len(s) : s[j].finite
  PROVE  LET o == Len(Kept(s)[b])
         IN /\ o \in 0..b /\ Len(Finite(s)) = o + (Len(s) - b)
            /\ \A j \in 1..(Len(s) - b) : Finite(s)[o + j] = s[b + j]
<1> DEFINE n == Len(s)
           k == Kept(s)
           o == Len(k[b])
           Joined(q, m) == Len(q) = o + m /\ \A j \in 1..m : q[o + j] = s[b + j]
           S == {m \in Nat : Joined(k[b + m], m)}
<1>1. n \in Nat /\ b \in Nat /\ b <= n /\ b \in 0..n /\ \A j \in 1..n : s[j] \in Updates
  <2> HIDE DEF Updates
  <2> QED OBVIOUS
<1>2. \A i \in 0..n : k[i] \in Seq(Updates) /\ Len(k[i]) <= i
  BY KeptTypes
<1>3. k[n] = Finite(s)
  BY KeptSteps
<1>4. \A i \in 1..n : s[i].finite => k[i] = Append(k[i-1], s[i])
  BY KeptSteps
<1>5. \A q \in Seq(Updates), x \in Updates :
        /\ Len(q) \in Nat /\ Len(Append(q, x)) = Len(q) + 1 /\ Append(q, x)[Len(q) + 1] = x
        /\ \A j \in 1..Len(q) : Append(q, x)[j] = q[j]
  <2> HIDE DEF Updates
  <2> QED OBVIOUS
<1>6. \A j \in (b+1)..n : s[j].finite
  OBVIOUS
<1> HIDE DEF n, k, Updates
<1>7. o \in Nat /\ o <= b
  BY <1>1, <1>2, <1>5
<1> HIDE DEF o
<1>8. 0 \in S
  <2>1. b + 0 = b /\ o + 0 = o
    BY <1>1, <1>7
  <2>2. Len(k[b]) = o
    BY DEF o
  <2> QED BY <2>1, <2>2
<1>9. ASSUME NEW m \in 0..((n-b)-1), m \in S PROVE m + 1 \in S
  <2>1. /\ b + (m + 1) \in 1..n /\ b + (m + 1) \in (b+1)..n /\ (b + (m + 1)) - 1 = b + m
        /\ b + m \in 0..n /\ m \in Nat /\ m + 1 \in Nat
    BY <1>1
  <2> DEFINE q == k[b + m]
             x == s[b + (m + 1)]
             p == k[b + (m + 1)]
  <2>2. p = Append(q, x) /\ q \in Seq(Updates) /\ x \in Updates
    BY <1>1, <1>2, <1>4, <1>6, <2>1
  <2>3. Len(q) = o + m /\ \A j \in 1..m : q[o + j] = s[b + j]
    BY <1>9
  <2> HIDE DEF q, p
  <2>4. Len(p) = o + (m + 1) /\ p[o + (m + 1)] = x
    <3>1. (o + m) + 1 = o + (m + 1)
      BY <1>7, <2>1
    <3>2. Len(Append(q, x)) = Len(q) + 1 /\ Append(q, x)[Len(q) + 1] = x
      BY <1>5, <2>2
    <3> HIDE DEF x
    <3> QED BY <2>2, <2>3, <3>1, <3>2
  <2>5. ASSUME NEW j \in 1..m PROVE p[o + j] = s[b + j]
    <3>1. o + j \in 1..Len(q)
      BY <1>7, <2>1, <2>3
    <3>2. Append(q, x)[o + j] = q[o + j]
      BY <1>5, <2>2, <3>1
    <3> QED BY <2>2, <2>3, <3>2
  <2>6. ASSUME NEW j \in 1..(m + 1) PROVE p[o + j] = s[b + j]
    <3>1. j \in 1..m \/ j = m + 1
      BY <2>1
    <3> QED BY <2>4, <2>5, <3>1
  <2>7. Joined(p, m + 1)
    BY <2>4, <2>6
  <2> HIDE DEF Joined
  <2> QED BY <2>1, <2>7 DEF p
<1> HIDE DEF S
<1>10. n - b \in S
  <2>1. n - b \in Nat
    BY <1>1
  <2>2. \A m \in 0..(n-b) : m \in S
    BY <1>8, <1>9, <2>1, UpTo
  <2> QED BY <2>1, <2>2
<1>11. Joined(Finite(s), n - b)
  <2>1. b + (n - b) = n
    BY <1>1
  <2> HIDE DEF Joined
  <2> QED BY <1>3, <1>10, <2>1 DEF S
<1>12. o \in 0..b
  BY <1>1, <1>7
<1> QED BY <1>11, <1>12 DEF o, n, k

(* What sanitize leaves of a call's updates: as many rows of the others as  *)
(* were finite, and then those of the honest.                               *)
LEMMA CallsMixed ==
  ASSUME NEW honest \in HonestBatches, NEW others \in OtherBatches, NEW task \in Tasks
  PROVE  LET m == sanitize(others \o honest, task.max_norm)
             h == sanitize(honest, task.max_norm)
         IN /\ Len(others) \in Nat /\ Len(honest) \in Nat /\ Len(h) = Len(honest)
            /\ \E o \in 0..Len(others), dim \in Nat : Mixed(m, h, o, dim)
<1> DEFINE s == others \o honest
           b == Len(others)
           max_norm == task.max_norm
           m == sanitize(s, max_norm)
           h == sanitize(honest, max_norm)
           o == Len(Kept(s)[b])
           dim == IF Len(s) = 0 THEN 0 ELSE Len(s[1].at)
<1>1. /\ Gathered(s) /\ Gathered(honest) /\ b \in Nat /\ Len(honest) \in Nat
      /\ Len(s) = b + Len(honest) /\ \A j \in 1..Len(honest) : s[b + j] = honest[j]
  BY CallsGathered
<1>2. \A j \in 1..Len(honest) : honest[j].finite
  BY BatchesAssumption
<1>3. s \in Seq(Updates) /\ honest \in Seq(Updates)
  BY <1>1 DEF Gathered
<1>4. Proper(s, max_norm) /\ Proper(honest, max_norm)
  BY <1>1, GatheredProper
<1> HIDE DEF s, b, max_norm
<1>5. /\ o \in 0..b /\ Len(Finite(s)) = o + (Len(s) - b)
      /\ \A j \in 1..(Len(s) - b) : Finite(s)[o + j] = s[b + j]
  <2>1. b \in 0..Len(s)
    BY <1>1
  <2>2. ASSUME NEW j \in (b+1)..Len(s) PROVE s[j].finite
    <3>1. j - b \in 1..Len(honest) /\ b + (j - b) = j
      BY <1>1
    <3>2. s[j] = honest[j - b]
      BY <1>1, <3>1
    <3> QED BY <1>2, <3>1, <3>2
  <2> QED BY <1>3, <2>1, <2>2, KeptTail
<1>6. /\ Len(Finite(honest)) = Len(honest)
      /\ \A j \in 1..Len(honest) : Finite(honest)[j] = honest[j]
  <2> DEFINE z == Len(Kept(honest)[0])
  <2>1. /\ z \in 0..0 /\ Len(Finite(honest)) = z + (Len(honest) - 0)
        /\ \A j \in 1..(Len(honest) - 0) : Finite(honest)[z + j] = honest[0 + j]
    <3>1. 0 \in 0..Len(honest) /\ \A j \in (0+1)..Len(honest) : honest[j].finite
      BY <1>1, <1>2
    <3> HIDE DEF Updates
    <3> QED BY <1>3, <3>1, KeptTail
  <2> HIDE DEF z
  <2>2. z = 0
    BY <2>1
  <2>3. \A j \in 1..Len(honest) : 0 + j = j
    OBVIOUS
  <2> QED BY <1>1, <2>1, <2>2, <2>3
<1>7. /\ Len(m) = Len(Finite(s))
      /\ \A j \in 1..Len(m) : m[j] = Clipped(Finite(s)[j].at, max_norm)
      /\ \A j \in 1..Len(m) : m[j] \in Seq(Int) /\ Len(m[j]) = Len(s[1].at)
  BY <1>4, SanitizedTypes
<1>8. /\ Len(h) = Len(Finite(honest))
      /\ \A j \in 1..Len(h) : h[j] = Clipped(Finite(honest)[j].at, max_norm)
  BY <1>4, SanitizedTypes
<1> HIDE DEF m, h, o, dim
<1>9. o \in Nat /\ Len(h) = Len(honest) /\ Len(m) = o + Len(h)
  BY <1>1, <1>5, <1>6, <1>7, <1>8
<1>10. ASSUME NEW j \in 1..Len(h) PROVE m[o + j] = h[j]
  <2>1. o + j \in 1..Len(m) /\ j \in 1..(Len(s) - b) /\ j \in 1..Len(honest)
    BY <1>1, <1>9
  <2>2. m[o + j] = Clipped(Finite(s)[o + j].at, max_norm)
    BY <1>7, <2>1
  <2>3. Finite(s)[o + j] = honest[j] /\ Finite(honest)[j] = honest[j]
    BY <1>1, <1>5, <1>6, <2>1
  <2>4. h[j] = Clipped(Finite(honest)[j].at, max_norm)
    BY <1>8
  <2> QED BY <2>2, <2>3, <2>4
<1>11. dim \in Nat /\ \A j \in 1..Len(m) : m[j] \in Seq(Int) /\ Len(m[j]) = dim
  <2>1. CASE Len(s) = 0
    <3>1. Len(m) = 0
      BY <1>1, <1>5, <1>7, <2>1
    <3> QED BY <2>1, <3>1 DEF dim
  <2>2. CASE Len(s) # 0
    <3>1. 1 \in 1..Len(s)
      BY <1>1, <2>2
    <3>2. s[1] \in Updates
      <4> HIDE DEF Updates
      <4> QED BY <1>3, <3>1
    <3>3. Len(s[1].at) \in Nat
      BY <3>2 DEF Updates
    <3> QED BY <1>7, <2>2, <3>3 DEF dim
  <2> QED BY <2>1, <2>2
<1>12. Mixed(m, h, o, dim)
  BY <1>1, <1>9, <1>10, <1>11 DEF Mixed
<1>13. o \in 0..Len(others)
  BY <1>5 DEF b
<1> QED BY <1>1, <1>9, <1>11, <1>12, <1>13 DEF m, h, s, b, max_norm

(* What the properties say of one call. *)
Within(honest, others, task, result) ==
  LET h == sanitize(honest, task.max_norm)
  IN task.method = "trimmed_mean" /\ result.ok
       /\ task.trim[2] * Len(others) <= task.trim[1] * (Len(others) + Len(honest))
     => \A c \in 1..Dimension(h) :
          /\ \E i \in 1..Len(h) : h[i][c] * result.den <= result.num[c]
          /\ \E i \in 1..Len(h) : result.num[c] <= h[i][c] * result.den

(* The property, as a formula of the call's arguments and result. *)
LEMMA WithinIsEnough ==
  /\ TrimmedWithinHonest <=> (call.op = "aggregate" =>
       Within(call.honest, call.others, call.task, call.result))
  /\ TrimmedWithinHonest' <=> (call'.op = "aggregate" =>
       Within(call'.honest, call'.others, call'.task, call'.result))
BY DEF TrimmedWithinHonest, Within, Honest

(* It holds of every call that can be made. *)
LEMMA WithinInCalls ==
  ASSUME NEW honest \in HonestBatches, NEW others \in OtherBatches, NEW task \in Tasks
  PROVE  Within(honest, others, task, aggregate(others \o honest, task))
<1> DEFINE m == sanitize(others \o honest, task.max_norm)
           h == sanitize(honest, task.max_norm)
           result == aggregate(others \o honest, task)
           a == task.trim[1]
           b == task.trim[2]
<1> SUFFICES ASSUME task.method = "trimmed_mean", result.ok,
                    b * Len(others) <= a * (Len(others) + Len(honest)),
                    NEW c \in 1..Dimension(h)
             PROVE  /\ \E i \in 1..Len(h) : h[i][c] * result.den <= result.num[c]
                    /\ \E i \in 1..Len(h) : result.num[c] <= h[i][c] * result.den
  BY Zenon DEF Within
<1>1. m # <<>> /\ result = trimmed_mean(m, task.trim)
  <2>1. ~Failure.ok
    BY DEF Failure
  <2>2. /\ m = <<>> => result = Failure
        /\ m # <<>> => result = trimmed_mean(m, task.trim)
    BY Dispatch
  <2> HIDE DEF m, result
  <2> QED BY <2>1, <2>2
<1>2. PICK o \in 0..Len(others) : \E dim \in Nat : Mixed(m, h, o, dim)
  BY CallsMixed
<1>3. PICK dim \in Nat : Mixed(m, h, o, dim)
  BY <1>2
<1>4. Len(others) \in Nat /\ Len(honest) \in Nat /\ Len(h) = Len(honest)
  BY CallsMixed
<1> HIDE DEF m, h, result
<1>5. o \in Nat /\ o <= Len(others) /\ Len(m) = o + Len(h) /\ Len(m) \in Nat
  BY <1>3, <1>4 DEF Mixed
<1>6. Len(m) > 0
  <2>1. m # <<>>
    BY <1>1
  <2> SUFFICES ASSUME Len(m) = 0 PROVE FALSE
    BY <1>5
  <2> QED BY <2>1 DEF m, sanitize
<1>7. a \in Int /\ b \in Int /\ 0 <= a /\ 2 * a < b
  <2>1. a \in Int /\ b \in Int
    BY TasksAssumption
  <2>2. trimmed_mean(m, task.trim) # Failure
    <3>1. ~Failure.ok
      BY DEF Failure
    <3> QED BY <1>1, <3>1
  <2>3. 0 <= a /\ 2 * a < b
    BY <2>2, Zenon DEF trimmed_mean
  <2> QED BY <2>1, <2>3
<1> HIDE DEF a, b
<1>8. b * o <= a * Len(m) /\ Len(h) > 0
  <2> DEFINE p == Len(others)
             q == Len(honest)
  <2>1. p \in Nat /\ q \in Nat /\ b * p <= a * (p + q) /\ o <= p
    BY <1>4, <1>5
  <2> HIDE DEF p, q
  <2>2. b * o <= a * (o + q)
    <3>1. (b - a) * p <= a * q
      BY <1>7, <2>1
    <3>2. (b - a) * o <= (b - a) * p
      BY <1>5, <1>7, <2>1
    <3>3. (b - a) * o <= a * q
      <4>1. (b - a) * o \in Int /\ (b - a) * p \in Int /\ a * q \in Int
        BY <1>5, <1>7, <2>1
      <4> QED BY <3>1, <3>2, <4>1
    <3>4. (b - a) * o = b * o - a * o /\ a * (o + q) = a * o + a * q
      BY <1>5, <1>7, <2>1
    <3>5. b * o \in Int /\ a * o \in Int /\ a * q \in Int
      BY <1>5, <1>7, <2>1
    <3> QED BY <3>3, <3>4, <3>5
  <2>3. Len(m) = o + q /\ q = Len(h)
    BY <1>4, <1>5 DEF q
  <2>4. q > 0
    <3> SUFFICES ASSUME q = 0 PROVE FALSE
      BY <2>1
    <3>1. o > 0 /\ b * o <= a * o
      BY <1>5, <1>6, <2>2, <2>3
    <3>2. a * o < b * o
      BY <1>5, <1>7, <3>1
    <3> QED BY <1>5, <1>7, <3>1, <3>2
  <2> QED BY <2>2, <2>3, <2>4
<1>9. c \in 1..dim
  <2>1. 1 \in 1..Len(h) /\ o + 1 \in 1..Len(m)
    BY <1>4, <1>5, <1>8
  <2>2. h[1] = m[o + 1] /\ Len(m[o + 1]) = dim
    BY <1>3, <2>1 DEF Mixed
  <2> QED BY <2>2 DEF Dimension
<1>10. LET r == trimmed_mean(m, task.trim)
       IN /\ \E i \in 1..Len(h) : h[i][c] * r.den <= r.num[c]
          /\ \E i \in 1..Len(h) : r.num[c] <= h[i][c] * r.den
  <2>1. trimmed_mean(m, task.trim).ok
    BY <1>1
  <2>2. /\ task.trim[1] \in Int /\ task.trim[2] \in Int
        /\ task.trim[2] * o <= task.trim[1] * Len(m)
    BY <1>7, <1>8 DEF a, b
  <2> DEFINE trim == task.trim
  <2> HIDE DEF trim
  <2>3. trimmed_mean(m, trim).ok /\ trim[1] \in Int /\ trim[2] \in Int
        /\ trim[2] * o <= trim[1] * Len(m)
    BY <2>1, <2>2 DEF trim
  <2> QED BY <1>3, <1>6, <1>9, <2>3, TrimmedWithin DEF trim
<1> QED BY <1>1, <1>10

(* trimmed_mean: as long as the strangers' share is no more than the        *)
(* trimmed one, each coordinate of the result lies between two honest       *)
(* values of it, for batches of every size and dimension and whichever      *)
(* strangers sanitize drops or clips.                                       *)
THEOREM TrimmedTolerates == Spec => []TrimmedWithinHonest
<1>1. Init => TrimmedWithinHonest
  BY DEF Init, Idle, TrimmedWithinHonest
<1>2. TrimmedWithinHonest /\ [Next]_call => TrimmedWithinHonest'
  <2> SUFFICES ASSUME TrimmedWithinHonest, [Next]_call PROVE TrimmedWithinHonest'
    OBVIOUS
  <2>1. CASE AggregateUpdates
    <3>1. PICK honest \in HonestBatches, others \in OtherBatches, task \in Tasks :
            call' = [op |-> "aggregate", honest |-> honest, others |-> others, task |-> task,
                     result |-> aggregate(others \o honest, task)]
      BY <2>1, Zenon DEF AggregateUpdates
    <3>2. Within(honest, others, task, aggregate(others \o honest, task))
      BY WithinInCalls
    <3> DEFINE result == aggregate(others \o honest, task)
    <3> HIDE DEF result
    <3>3. call'.honest = honest /\ call'.others = others /\ call'.task = task
          /\ call'.result = result
      BY <3>1 DEF result
    <3>4. Within(call'.honest, call'.others, call'.task, call'.result)
      BY <3>2, <3>3 DEF result
    <3> QED BY <3>4, WithinIsEnough
  <2>2. CASE UNCHANGED call
    BY <2>2, WithinIsEnough
  <2>3. CASE OtherThanAggregate
    <3>1. call'.op # "aggregate"
      BY <2>3, NotAggregated
    <3> QED BY <3>1, WithinIsEnough
  <2> QED BY <2>1, <2>2, <2>3 DEF Next, OtherThanAggregate
<1> QED BY <1>1, <1>2, PTL DEF Spec

-----------------------------------------------------------------------------
(* Krum: how near to the honest rows the selected one is.                   *)

(* The distances of a row to all of them. *)
Distances(m, i) == [j \in 1..Len(m) |-> SquaredDistance(m[i], m[j])]

LEMMA DistancesWhole ==
  ASSUME NEW m, NEW honest, NEW o, NEW dim, Mixed(m, honest, o, dim), NEW i \in 1..Len(m)
  PROVE  /\ Whole(Distances(m, i)) /\ Len(Distances(m, i)) = Len(m)
         /\ \A j \in 1..Len(m) : /\ Distances(m, i)[j] = SquaredDistance(m[i], m[j])
                                 /\ SquaredDistance(m[i], m[j]) \in Nat
<1>1. Len(m) \in Nat /\ \A j \in 1..Len(m) : m[j] \in Seq(Int) /\ Len(m[j]) = dim
  BY DEF Mixed
<1>2. \A j \in 1..Len(m) : SquaredDistance(m[i], m[j]) \in Nat
  BY <1>1, DistanceTypes
<1>3. /\ Len(Distances(m, i)) = Len(m)
      /\ \A j \in 1..Len(m) : Distances(m, i)[j] = SquaredDistance(m[i], m[j])
  BY <1>1 DEF Distances
<1> QED BY <1>1, <1>2, <1>3 DEF Whole

(* The distances that make up a score: the nearest but for the first. *)
Nearest(m, i, f) == SubSeq(Sorted(Distances(m, i)), 2, Neighbours(Len(m), f) + 1)

LEMMA NearestTypes ==
  ASSUME NEW m, NEW honest, NEW o, NEW dim, Mixed(m, honest, o, dim), NEW i \in 1..Len(m),
         NEW f \in Nat, Len(m) > 2*f + 2
  PROVE  LET q == Nearest(m, i, f)
         IN /\ Score(m, i, f) = SumOver(q)
            /\ Whole(q) /\ Len(q) = Len(m) - f - 2
            /\ \A x \in 1..(Len(m) - f - 2) :
                 x + 1 \in 1..Len(m) /\ q[x] = Sorted(Distances(m, i))[x + 1]
<1> DEFINE n == Len(m)
           p == Sorted(Distances(m, i))
           q == Nearest(m, i, f)
<1>1. n \in Nat /\ n > 2*f + 2
  BY DEF Mixed
<1>2. p \in Seq(Int) /\ Len(p) = n
  BY DistancesWhole, SortedTypes
<1>3. Score(m, i, f) = SumOver(q)
  BY Zenon DEF Score, Nearest, Distances
<1>4. q = SubSeq(p, 2, n - f - 1)
  <2>1. Neighbours(n, f) + 1 = n - f - 1
    BY <1>1 DEF Neighbours
  <2> HIDE DEF n, p
  <2> QED BY <2>1 DEF Nearest, p, n
<1> HIDE DEF n, p, q
<1>5. /\ Len(q) = n - f - 2
      /\ \A x \in 1..(n - f - 2) : x + 1 \in 1..n /\ q[x] = p[x + 1] /\ p[x + 1] \in Int
  BY <1>1, <1>2, <1>4
<1>6. Whole(q)
  BY <1>1, <1>5 DEF Whole
<1> QED BY <1>3, <1>5, <1>6 DEF n, p, q

(* Scores are whole numbers. *)
LEMMA ScoreTypes ==
  ASSUME NEW m, NEW honest, NEW o, NEW dim, Mixed(m, honest, o, dim), NEW i \in 1..Len(m),
         NEW f \in Nat, Len(m) > 2*f + 2
  PROVE  Score(m, i, f) \in Int
<1> DEFINE q == Nearest(m, i, f)
<1>1. Score(m, i, f) = SumOver(q) /\ Whole(q)
  BY NearestTypes
<1> HIDE DEF q
<1>2. Len(q) \in Nat /\ Len(q) \in 0..Len(q)
  BY <1>1 DEF Whole
<1>3. SumOver(q) \in Int
  BY <1>1, <1>2, SumSteps
<1> QED BY <1>1, <1>3

(* An honest row has enough honest neighbours: its score is at most what    *)
(* the distances between honest rows allow.                                 *)
LEMMA ScoreAtMost ==
  ASSUME NEW m, NEW honest, NEW o, NEW dim, Mixed(m, honest, o, dim),
         NEW f \in Nat, o <= f, Len(m) > 2*f + 2,
         NEW i \in (o+1)..Len(m), NEW d \in Int,
         \A j \in (o+1)..Len(m) : SquaredDistance(m[i], m[j]) <= d
  PROVE  Score(m, i, f) <= (Len(m) - f - 2) * d
<1> DEFINE n == Len(m)
           s == Distances(m, i)
           q == Nearest(m, i, f)
           Z == (o+1)..n
<1>1. o \in Nat /\ n \in Nat /\ i \in 1..n /\ n > 2*f + 2
  BY DEF Mixed
<1>2. /\ Whole(s) /\ Len(s) = n
      /\ \A j \in 1..n : s[j] = SquaredDistance(m[i], m[j])
  BY <1>1, DistancesWhole
<1>3. /\ Score(m, i, f) = SumOver(q) /\ Whole(q) /\ Len(q) = n - f - 2
      /\ \A x \in 1..(n - f - 2) : x + 1 \in 1..n /\ q[x] = Sorted(s)[x + 1]
  BY <1>1, NearestTypes
<1>4. Z \in SUBSET (1..n) /\ Cardinality(Z) = n - o /\ \A j \in Z : s[j] <= d
  <2>1. Cardinality(Z) = IF o + 1 > n THEN 0 ELSE n - (o + 1) + 1
    <3> HIDE DEF n
    <3> QED BY <1>1, FS_Interval
  <2>2. o + 1 <= n
    BY <1>1
  <2>3. Z \in SUBSET (1..n) /\ \A j \in Z : SquaredDistance(m[i], m[j]) <= d
    BY <1>1
  <2> HIDE DEF Z, n, s
  <2> QED BY <1>1, <1>2, <2>1, <2>2, <2>3
<1> HIDE DEF n, s, q, Z
<1>5. ASSUME NEW x \in 1..Len(q) PROVE q[x] <= d
  <2> DEFINE r == x + 1
  <2>1. r \in 1..n /\ q[x] = Sorted(s)[r] /\ x <= n - f - 2
    BY <1>1, <1>3
  <2>2. r <= Cardinality(Z)
    BY <1>1, <1>4, <2>1
  <2> HIDE DEF r
  <2>3. PICK j \in Z : Sorted(s)[r] <= s[j]
    BY <1>2, <1>4, <2>1, <2>2, SortedBelow
  <2>4. s[j] <= d /\ s[j] \in Int /\ q[x] \in Int
    BY <1>2, <1>3, <1>4 DEF Whole
  <2> QED BY <2>1, <2>3, <2>4
<1>6. SumOver(q) <= Len(q) * d
  BY <1>3, <1>5, SumAtMost
<1> QED BY <1>3, <1>6 DEF n

(* Beyond the strangers, each neighbour is at least as far as an honest one. *)
LEMMA ScoreAtLeast ==
  ASSUME NEW m, NEW honest, NEW o, NEW dim, Mixed(m, honest, o, dim),
         NEW f \in Nat, o > 0, o <= f, Len(m) > 2*f + 2,
         NEW i \in 1..Len(m), NEW d \in Nat,
         \A j \in (o+1)..Len(m) : d <= SquaredDistance(m[i], m[j])
  PROVE  (Len(m) - 2*f - 1) * d <= Score(m, i, f)
<1> DEFINE n == Len(m)
           s == Distances(m, i)
           q == Nearest(m, i, f)
           A == 1..o
           b == o - 1
<1>1. o \in Nat /\ n \in Nat /\ n > 2*f + 2 /\ b \in Nat /\ b = o - 1
  BY DEF Mixed
<1>2. /\ Whole(s) /\ Len(s) = n
      /\ \A j \in 1..n : s[j] = SquaredDistance(m[i], m[j]) /\ s[j] \in Nat
  BY DistancesWhole
<1>3. /\ Score(m, i, f) = SumOver(q) /\ Whole(q) /\ Len(q) = n - f - 2
      /\ \A x \in 1..(n - f - 2) : x + 1 \in 1..n /\ q[x] = Sorted(s)[x + 1]
  BY NearestTypes
<1>4. IsFiniteSet(A) /\ Cardinality(A) = o
  <2>1. IsFiniteSet(A) /\ Cardinality(A) = IF 1 > o THEN 0 ELSE o - 1 + 1
    BY <1>1, FS_Interval
  <2> HIDE DEF A
  <2> QED BY <1>1, <2>1
<1>5. \A j \in (1..n) \ A : d <= s[j]
  <2>1. \A j \in (1..n) \ A : j \in (o+1)..n
    BY <1>1
  <2>2. \A j \in (o+1)..n : d <= SquaredDistance(m[i], m[j])
    OBVIOUS
  <2> HIDE DEF n, A, s
  <2> QED BY <1>2, <2>1, <2>2
<1> HIDE DEF n, s, q, A, b
<1>6. ASSUME NEW x \in 1..b PROVE 0 <= q[x]
  <2> DEFINE r == x + 1
  <2>1. r \in 1..n /\ q[x] = Sorted(s)[r]
    BY <1>1, <1>3
  <2> HIDE DEF r
  <2>2. PICK j \in 1..n : Sorted(s)[r] = s[j]
    BY <1>2, <2>1, Placed
  <2> QED BY <1>2, <2>1, <2>2
<1>7. ASSUME NEW x \in (b+1)..Len(q) PROVE d <= q[x]
  <2> DEFINE r == x + 1
  <2>1. x \in 1..(n - f - 2) /\ o <= x
    BY <1>1, <1>3
  <2>2. r \in 1..n /\ q[x] = Sorted(s)[r] /\ q[x] \in Int /\ r = x + 1
    BY <1>3, <2>1 DEF Whole
  <2>3. Cardinality(A) < r
    BY <1>1, <1>4, <2>1, <2>2
  <2> HIDE DEF r
  <2>4. PICK j \in (1..n) \ A : s[j] <= Sorted(s)[r]
    BY <1>2, <1>4, <2>2, <2>3, SortedAbove
  <2>5. d <= s[j] /\ s[j] \in Nat
    BY <1>2, <1>5
  <2> QED BY <2>2, <2>4, <2>5
<1>8. SumOver(q) \in Int /\ b * 0 + (Len(q) - b) * d <= SumOver(q)
  <2>1. b \in 0..Len(q) /\ 0 \in Int /\ d \in Int
    BY <1>1, <1>3
  <2> QED BY <1>3, <1>6, <1>7, <2>1, SumAtLeast
<1>9. (n - 2*f - 1) * d <= b * 0 + (Len(q) - b) * d
  <2> DEFINE x == n - 2*f - 1
             y == Len(q) - b
  <2>1. x \in Nat /\ y \in Nat /\ x <= y /\ b * 0 = 0
    BY <1>1, <1>3
  <2> HIDE DEF x, y
  <2>2. x * d <= y * d /\ y * d \in Int
    BY <2>1
  <2>3. b * 0 + y * d = y * d
    BY <2>1, <2>2
  <2> QED BY <2>2, <2>3 DEF x, y
<1>10. (n - 2*f - 1) * d \in Int /\ b * 0 + (Len(q) - b) * d \in Int
  BY <1>1, <1>3
<1>11. (n - 2*f - 1) * d <= SumOver(q)
  <2> DEFINE x == (n - 2*f - 1) * d
             y == b * 0 + (Len(q) - b) * d
             z == SumOver(q)
  <2>1. x <= y /\ y <= z /\ x \in Int /\ y \in Int /\ z \in Int
    BY <1>8, <1>9, <1>10
  <2> HIDE DEF x, y, z
  <2>2. x <= z
    BY <2>1
  <2> QED BY <2>2 DEF x, z
<1> QED BY <1>3, <1>11 DEF n

(* Of all rows, one with the least score is selected. *)
LEMMA Selected ==
  ASSUME NEW m, NEW honest, NEW o, NEW dim, Mixed(m, honest, o, dim),
         NEW f \in Nat, Len(m) > 2*f + 2
  PROVE  \E w \in 1..Len(m) :
           /\ krum(m, f) = Aggregate(m[w], 1)
           /\ \A j \in 1..Len(m) : Score(m, w, f) <= Score(m, j, f)
<1> DEFINE n == Len(m)
           scores == [i \in 1..n |-> Score(m, i, f)]
           First(i) == /\ \A j \in 1..n : scores[i] <= scores[j]
                       /\ \A j \in 1..(i-1) : scores[j] # scores[i]
           winner == CHOOSE i \in 1..n : First(i)
           S == {i \in 1..n : \A j \in 1..n : scores[i] <= scores[j]}
<1>1. n \in Nat /\ n > 2*f + 2 /\ n > 0
  BY DEF Mixed
<1>2. \A i \in 1..n : Score(m, i, f) \in Int
  BY ScoreTypes
<1>3. Whole(scores) /\ Len(scores) = n /\ \A i \in 1..n : scores[i] = Score(m, i, f)
  <2>1. Len(scores) = n /\ \A i \in 1..n : scores[i] = Score(m, i, f)
    BY <1>1
  <2> HIDE DEF scores
  <2> QED BY <1>1, <1>2, <2>1 DEF Whole
<1>4. krum(m, f) = IF n <= 2*f + 2 THEN Failure ELSE Aggregate(m[winner], 1)
  <2> DEFINE all(g) == [i \in 1..n |-> Score(m, i, g)]
             best(g) == CHOOSE i \in 1..n :
                          /\ \A j \in 1..n : all(g)[i] <= all(g)[j]
                          /\ \A j \in 1..(i-1) : all(g)[j] # all(g)[i]
             result(g) == IF n <= 2*g + 2 THEN Failure ELSE Aggregate(m[best(g)], 1)
  <2>1. (IF f > 0 THEN f ELSE 0) = f
    OBVIOUS
  <2>2. krum(m, f) = result(IF f > 0 THEN f ELSE 0)
    BY Zenon DEF krum
  <2> HIDE DEF result
  <2>3. krum(m, f) = result(f)
    BY <2>1, <2>2
  <2> QED BY <2>3, Zenon DEF result
<1> HIDE DEF n, scores
<1>5. \E i \in 1..n : First(i)
  <2>1. \E i, j \in 1..n : \A k \in 1..n : scores[i] <= scores[k] /\ scores[k] <= scores[j]
    BY <1>1, <1>3, Extremes
  <2>2. S # {} /\ S \in SUBSET Nat
    BY <1>1, <2>1
  <2>3. PICK i \in S : \A k \in S : i <= k
    BY <2>2, LeastNat
  <2>4. ASSUME NEW j \in 1..(i-1) PROVE scores[j] # scores[i]
    <3> SUFFICES ASSUME scores[j] = scores[i] PROVE FALSE
      OBVIOUS
    <3>1. j \in 1..n /\ j < i /\ i \in Int
      BY <1>1
    <3>2. j \in S
      BY <3>1
    <3>3. i <= j
      BY <2>3, <3>2
    <3> QED BY <3>1, <3>3
  <2> QED BY <2>4
<1>6. winner \in 1..n /\ First(winner)
  <2> HIDE DEF First
  <2> QED BY <1>5, Zenon
<1> HIDE DEF winner
<1>7. krum(m, f) = Aggregate(m[winner], 1)
  <2>1. ~(n <= 2*f + 2)
    BY <1>1
  <2> QED BY <1>4, <2>1
<1>8. \A j \in 1..n : Score(m, winner, f) <= Score(m, j, f)
  BY <1>3, <1>6
<1> QED BY <1>6, <1>7, <1>8 DEF n

(* Two honest rows are as far apart as any. *)
LEMMA Diameter ==
  ASSUME NEW m, NEW honest, NEW o, NEW dim, Mixed(m, honest, o, dim), Len(honest) > 0
  PROVE  \E i, j \in 1..Len(honest) : \A a, b \in 1..Len(honest) :
           SquaredDistance(honest[a], honest[b]) <= SquaredDistance(honest[i], honest[j])
<1> DEFINE h == Len(honest)
           far(a) == CHOOSE j \in 1..h : \A b \in 1..h :
                       SquaredDistance(honest[a], honest[b])
                         <= SquaredDistance(honest[a], honest[j])
           s == [a \in 1..h |-> SquaredDistance(honest[a], honest[far(a)])]
<1>1. /\ o \in Nat /\ h \in Nat /\ h > 0 /\ Len(m) = o + h
      /\ \A j \in 1..h : m[o + j] = honest[j]
      /\ \A j \in 1..Len(m) : m[j] \in Seq(Int) /\ Len(m[j]) = dim
  BY DEF Mixed
<1>2. \A a \in 1..h : honest[a] \in Seq(Int) /\ Len(honest[a]) = dim
  <2> SUFFICES ASSUME NEW a \in 1..h PROVE honest[a] \in Seq(Int) /\ Len(honest[a]) = dim
    OBVIOUS
  <2>1. o + a \in 1..Len(m)
    BY <1>1
  <2> QED BY <1>1, <2>1
<1>3. \A a, b \in 1..h : SquaredDistance(honest[a], honest[b]) \in Nat
  BY <1>2, DistanceTypes
<1>4. ASSUME NEW a \in 1..h
      PROVE  far(a) \in 1..h /\ \A b \in 1..h : SquaredDistance(honest[a], honest[b])
                                  <= SquaredDistance(honest[a], honest[far(a)])
  <2> DEFINE row == [b \in 1..h |-> SquaredDistance(honest[a], honest[b])]
  <2>1. Len(row) = h /\ \A b \in 1..h : row[b] = SquaredDistance(honest[a], honest[b])
    BY <1>1
  <2> HIDE DEF row, h
  <2>2. Whole(row)
    BY <1>1, <1>3, <2>1 DEF Whole
  <2>3. \E i, j \in 1..h : \A k \in 1..h : row[i] <= row[k] /\ row[k] <= row[j]
    BY <1>1, <2>1, <2>2, Extremes
  <2>4. PICK i, j \in 1..h : \A k \in 1..h : row[i] <= row[k] /\ row[k] <= row[j]
    BY <2>3
  <2>5. \A b \in 1..h : SquaredDistance(honest[a], honest[b])
                          <= SquaredDistance(honest[a], honest[j])
    BY <2>1, <2>4
  <2> QED BY <2>5, Zenon
<1> HIDE DEF far
<1>5. Len(s) = h /\ \A a \in 1..h : s[a] = SquaredDistance(honest[a], honest[far(a)])
  BY <1>1
<1> HIDE DEF s, h
<1>6. Whole(s)
  <2>1. \A a \in 1..h : s[a] \in Nat
    BY <1>3, <1>4, <1>5
  <2> QED BY <1>1, <1>5, <2>1 DEF Whole
<1>7. \E i, j \in 1..h : \A k \in 1..h : s[i] <= s[k] /\ s[k] <= s[j]
  BY <1>1, <1>5, <1>6, Extremes
<1>8. PICK i, j \in 1..h : \A k \in 1..h : s[i] <= s[k] /\ s[k] <= s[j]
  BY <1>7
<1>9. ASSUME NEW a \in 1..h, NEW b \in 1..h
      PROVE  SquaredDistance(honest[a], honest[b])
               <= SquaredDistance(honest[j], honest[far(j)])
  <2> DEFINE x == SquaredDistance(honest[a], honest[b])
             y == SquaredDistance(honest[a], honest[far(a)])
             z == SquaredDistance(honest[j], honest[far(j)])
  <2>1. x <= y /\ y <= z /\ x \in Nat /\ y \in Nat /\ z \in Nat
    BY <1>3, <1>4, <1>5, <1>8
  <2> HIDE DEF x, y, z
  <2>2. x <= z
    BY <2>1
  <2> QED BY <2>2 DEF x, z
<1>10. far(j) \in 1..h
  BY <1>4
<1> QED BY <1>9, <1>10 DEF h

(* krum: with no more strangers than assumed, a fixed factor of the honest  *)
(* diameter away from an honest row at most.                                *)
LEMMA SelectedNear ==
  ASSUME NEW m, NEW honest, NEW o, NEW dim, Mixed(m, honest, o, dim),
         NEW f \in Nat, o <= f, Len(m) > 2*f + 2
  PROVE  \E i, j, k \in 1..Len(honest) :
           (Len(m) - 2*f - 1) * SquaredDistance(krum(m, f).num, honest[k])
             <= (Len(m) - f - 2) * SquaredDistance(honest[i], honest[j])
<1> DEFINE n == Len(m)
           h == Len(honest)
           near == n - 2*f - 1
           far == n - f - 2
<1>1. /\ o \in Nat /\ h \in Nat /\ n = o + h /\ h > 0 /\ n \in Nat /\ n > 2*f + 2
      /\ near \in Nat /\ far \in Nat
      /\ \A j \in 1..h : m[o + j] = honest[j]
      /\ \A j \in 1..n : m[j] \in Seq(Int) /\ Len(m[j]) = dim
  BY DEF Mixed
<1>2. PICK w \in 1..n : /\ krum(m, f) = Aggregate(m[w], 1)
                        /\ \A j \in 1..n : Score(m, w, f) <= Score(m, j, f)
  BY Selected
<1>3. krum(m, f).num = m[w]
  BY <1>2 DEF Aggregate
<1>4. PICK i, j \in 1..h : \A a, b \in 1..h :
        SquaredDistance(honest[a], honest[b]) <= SquaredDistance(honest[i], honest[j])
  BY <1>1, Diameter
<1> DEFINE d == SquaredDistance(honest[i], honest[j])
<1>5. \A a \in 1..h : o + a \in 1..n /\ o + a \in (o+1)..n /\ honest[a] = m[o + a]
  BY <1>1
<1>6. \A a \in (o+1)..n : a - o \in 1..h /\ a \in 1..n /\ m[a] = honest[a - o]
  <2> SUFFICES ASSUME NEW a \in (o+1)..n
               PROVE  a - o \in 1..h /\ a \in 1..n /\ m[a] = honest[a - o]
    OBVIOUS
  <2>1. a - o \in 1..h /\ a \in 1..n /\ o + (a - o) = a
    BY <1>1
  <2> QED BY <1>1, <2>1
<1>7. \A a, b \in 1..n : SquaredDistance(m[a], m[b]) \in Nat
  BY <1>1, DistanceTypes
<1>8. d \in Nat
  BY <1>5, <1>7
<1> HIDE DEF n, h, near, far, d
<1>9. CASE w \in (o+1)..n
  <2> DEFINE k == w - o
  <2>1. k \in 1..h /\ m[w] = honest[k]
    BY <1>6, <1>9
  <2>2. SquaredDistance(m[w], m[w]) = 0
    BY <1>1, <1>2, NoDistance
  <2> HIDE DEF k
  <2>3. SquaredDistance(krum(m, f).num, honest[k]) = 0
    BY <1>3, <2>1, <2>2
  <2>4. near * 0 <= far * d
    <3>1. near * 0 = 0 /\ far * d \in Nat
      BY <1>1, <1>8
    <3> QED BY <3>1
  <2>5. near * SquaredDistance(krum(m, f).num, honest[k]) <= far * d
    BY <2>3, <2>4
  <2> QED BY <2>1, <2>5 DEF d, n, h, near, far
<1>10. CASE w \notin (o+1)..n
  <2>1. w <= o /\ o > 0
    BY <1>1, <1>2, <1>10
  <2> DEFINE s == [a \in 1..h |-> SquaredDistance(m[w], honest[a])]
  <2>2. /\ Len(s) = h /\ \A a \in 1..h : s[a] = SquaredDistance(m[w], honest[a])
        /\ \A a \in 1..h : s[a] \in Nat
    <3>1. Len(s) = h /\ \A a \in 1..h : s[a] = SquaredDistance(m[w], honest[a])
      BY <1>1
    <3>2. \A a \in 1..h : SquaredDistance(m[w], honest[a]) \in Nat
      BY <1>2, <1>5, <1>7
    <3> HIDE DEF s
    <3> QED BY <3>1, <3>2
  <2> HIDE DEF s
  <2>3. \E k, l \in 1..h : \A a \in 1..h : s[k] <= s[a] /\ s[a] <= s[l]
    <3>1. Whole(s)
      BY <1>1, <2>2 DEF Whole
    <3> QED BY <1>1, <2>2, <3>1, Extremes
  <2>4. PICK k \in 1..h : \A a \in 1..h : s[k] <= s[a]
    BY <2>3
  <2> DEFINE e == SquaredDistance(m[w], honest[k])
  <2>5. e \in Nat /\ \A a \in (o+1)..n : e <= SquaredDistance(m[w], m[a])
    BY <1>6, <2>2, <2>4
  <2> HIDE DEF e
  <2>6. near * e <= Score(m, w, f)
    BY <1>1, <2>1, <2>5, ScoreAtLeast DEF near, n
  <2> DEFINE a == o + 1
  <2>7. a \in (o+1)..n /\ a \in 1..n
    BY <1>1
  <2>8. \A b \in (o+1)..n : SquaredDistance(m[a], m[b]) <= d
    BY <1>4, <1>6, <2>7 DEF d
  <2> HIDE DEF a
  <2>9. Score(m, a, f) <= far * d
    <3>1. d \in Int /\ a \in (o+1)..Len(m)
      BY <1>8, <2>7 DEF n
    <3>2. \A b \in (o+1)..Len(m) : SquaredDistance(m[a], m[b]) <= d
      BY <2>8 DEF n
    <3>3. Score(m, a, f) <= (Len(m) - f - 2) * d
      BY <3>1, <3>2, ScoreAtMost
    <3> QED BY <3>3 DEF far, n
  <2>10. Score(m, w, f) <= Score(m, a, f)
    BY <1>2, <2>7
  <2>11. Score(m, w, f) \in Int /\ Score(m, a, f) \in Int
    BY <1>1, <1>2, <2>7, ScoreTypes DEF n
  <2>12. near * e <= far * d
    <3> DEFINE x == near * e
               y == far * d
    <3>1. x \in Int /\ y \in Int
      BY <1>1, <1>8, <2>5
    <3> HIDE DEF x, y
    <3>2. x <= y
      BY <2>6, <2>9, <2>10, <2>11, <3>1 DEF x, y
    <3> QED BY <3>2 DEF x, y
  <2> QED BY <1>3, <2>12 DEF d, e, n, h, near, far
<1> QED BY <1>9, <1>10

(* What the property says of one call. *)
Near(honest, others, task, result) ==
  LET h == sanitize(honest, task.max_norm)
      f == task.num_byzantine
      n == Len(sanitize(others \o honest, task.max_norm))
  IN task.method = "krum" /\ result.ok /\ Len(others) <= f =>
       \E i, j, k \in 1..Len(h) :
         (n - 2*f - 1) * SquaredDistance(result.num, h[k])
           <= (n - f - 2) * SquaredDistance(h[i], h[j])

(* The property, as a formula of the call's arguments and result. *)
LEMMA NearIsEnough ==
  /\ KrumNearHonest <=> (call.op = "aggregate" =>
       Near(call.honest, call.others, call.task, call.result))
  /\ KrumNearHonest' <=> (call'.op = "aggregate" =>
       Near(call'.honest, call'.others, call'.task, call'.result))
BY DEF KrumNearHonest, Near, Honest

(* It holds of every call that can be made. *)
LEMMA NearInCalls ==
  ASSUME NEW honest \in HonestBatches, NEW others \in OtherBatches, NEW task \in Tasks
  PROVE  Near(honest, others, task, aggregate(others \o honest, task))
<1> DEFINE m == sanitize(others \o honest, task.max_norm)
           h == sanitize(honest, task.max_norm)
           result == aggregate(others \o honest, task)
           f == task.num_byzantine
           n == Len(m)
<1> SUFFICES ASSUME task.method = "krum", result.ok, Len(others) <= f
             PROVE  \E i, j, k \in 1..Len(h) :
                      (n - 2*f - 1) * SquaredDistance(result.num, h[k])
                        <= (n - f - 2) * SquaredDistance(h[i], h[j])
  BY Zenon DEF Near
<1>1. m # <<>> /\ result = krum(m, f)
  <2>1. ~Failure.ok
    BY DEF Failure
  <2>2. /\ m = <<>> => result = Failure
        /\ m # <<>> => result = krum(m, f)
    BY Dispatch
  <2> HIDE DEF m, result
  <2> QED BY <2>1, <2>2
<1>2. PICK o \in 0..Len(others) : \E dim \in Nat : Mixed(m, h, o, dim)
  BY CallsMixed
<1>3. PICK dim \in Nat : Mixed(m, h, o, dim)
  BY <1>2
<1>4. Len(others) \in Nat
  BY CallsMixed
<1>5. f \in Int
  BY TasksAssumption
<1> HIDE DEF m, h, result, f
<1>6. f \in Nat /\ o <= f
  BY <1>4, <1>5
<1>7. Len(m) > 2*f + 2
  <2> DEFINE g == IF f > 0 THEN f ELSE 0
             Fails == Len(m) <= 2*g + 2
  <2>1. g = f
    BY <1>6
  <2>2. Fails => krum(m, f) = Failure
    BY Zenon DEF krum
  <2>3. ~Failure.ok
    BY DEF Failure
  <2>4. ~Fails
    BY <1>1, <2>2, <2>3
  <2>5. Len(m) \in Nat
    BY <1>3 DEF Mixed
  <2> QED BY <1>6, <2>1, <2>4, <2>5
<1> QED BY <1>1, <1>3, <1>6, <1>7, SelectedNear

(* krum: with no more strangers than assumed, the selected update is within *)
(* a fixed factor of the honest diameter from some honest update, for       *)
(* batches of every size and dimension, whatever the strangers send and     *)
(* whichever of them sanitize drops or clips.                               *)
THEOREM KrumSelectsNear == Spec => []KrumNearHonest
<1>1. Init => KrumNearHonest
  BY DEF Init, Idle, KrumNearHonest
<1>2. KrumNearHonest /\ [Next]_call => KrumNearHonest'
  <2> SUFFICES ASSUME KrumNearHonest, [Next]_call PROVE KrumNearHonest'
    OBVIOUS
  <2>1. CASE AggregateUpdates
    <3>1. PICK honest \in HonestBatches, others \in OtherBatches, task \in Tasks :
            call' = [op |-> "aggregate", honest |-> honest, others |-> others, task |-> task,
                     result |-> aggregate(others \o honest, task)]
      BY <2>1, Zenon DEF AggregateUpdates
    <3>2. Near(honest, others, task, aggregate(others \o honest, task))
      BY NearInCalls
    <3> DEFINE result == aggregate(others \o honest, task)
    <3> HIDE DEF result
    <3>3. call'.honest = honest /\ call'.others = others /\ call'.task = task
          /\ call'.result = result
      BY <3>1 DEF result
    <3>4. Near(call'.honest, call'.others, call'.task, call'.result)
      BY <3>2, <3>3 DEF result
    <3> QED BY <3>4, NearIsEnough
  <2>2. CASE UNCHANGED call
    BY <2>2, NearIsEnough
  <2>3. CASE OtherThanAggregate
    <3>1. call'.op # "aggregate"
      BY <2>3, NotAggregated
    <3> QED BY <3>1, NearIsEnough
  <2> QED BY <2>1, <2>2, <2>3 DEF Next, OtherThanAggregate
<1> QED BY <1>1, <1>2, PTL DEF Spec

-----------------------------------------------------------------------------
(* Powers and inverses modulo a prime. *)

LEMMA CurveNumbers ==
  /\ P \in Nat \ {0} /\ N \in Nat \ {0} /\ B \in Nat /\ P > 2 /\ N > 1 /\ N < P
  /\ P % 4 = 3 /\ IsPrime(P) /\ IsPrime(N)
<1>1. P \in Nat /\ N \in Nat /\ B \in Nat /\ Prime(P) /\ Prime(N) /\ P % 4 = 3 /\ N < P
  BY CurveAssumption
<1>2. IsPrime(P) /\ IsPrime(N) /\ P > 1 /\ N > 1
  BY <1>1 DEF Prime, IsPrime
<1>3. P > 2
  BY <1>1, <1>2
<1> QED BY <1>1, <1>2, <1>3

(* Pow by its recursion. *)
LEMMA PowSteps ==
  ASSUME NEW m \in Nat, m > 1, NEW x \in Int
  PROVE  /\ Pow(x, 0, m) = 1
         /\ \A e \in Nat : Pow(x, e, m) \in 0..(m-1)
                           /\ Pow(x, e + 1, m) = (Pow(x, e, m) * x) % m
<1> DEFINE mul == [a \in Int |-> [b \in Int |-> (a * b) % m]]
           g(e) == Powers(mul, 1, x, e)
           Loop(p, e) == p = [i \in 0..e |-> IF i = 0 THEN 1 ELSE (p[i-1] * x) % m]
           f(e) == CHOOSE p : Loop(p, e)
           R == {k \in Nat : Power(mul, 1, x, k) \in 0..(m-1)}
<1>1. \A a \in Int : mul[a][x] = (a * x) % m
  OBVIOUS
<1> HIDE DEF mul
<1>2. Power(mul, 1, x, 0) = 1
      /\ \A k \in Nat : Power(mul, 1, x, k + 1) = mul[Power(mul, 1, x, k)][x]
  BY PowerZero, PowerNext
<1>3. \A e \in Nat : g(e) = [i \in 0..e |-> IF i = 0 THEN 1 ELSE mul[g(e)[i-1]][x]]
  BY PowersDef
<1>4. \A e \in Nat : Pow(x, e, m) = f(e)[e]
  BY DEF Pow
<1> HIDE DEF g
<1>5. ASSUME NEW e \in Nat PROVE Loop(g(e), e)
  <2> DEFINE h == g(e)
  <2>1. h = [i \in 0..e |-> IF i = 0 THEN 1 ELSE mul[h[i-1]][x]]
    BY <1>3
  <2> HIDE DEF h
  <2>2. h[0] = 1 /\ \A i \in 1..e : h[i] = mul[h[i-1]][x]
    BY <2>1
  <2> DEFINE T == {i \in Nat : h[i] \in Int}
  <2>3. \A i \in 0..e : i \in T
    <3>1. 0 \in T
      BY <2>2
    <3>2. \A i \in 0..(e-1) : i \in T => i + 1 \in T
      <4> SUFFICES ASSUME NEW i \in 0..(e-1), i \in T PROVE i + 1 \in T
        OBVIOUS
      <4>1. i + 1 \in 1..e /\ (i + 1) - 1 = i
        OBVIOUS
      <4>2. h[i+1] = mul[h[i]][x] /\ h[i] \in Int
        BY <2>2, <4>1
      <4>3. h[i+1] = (h[i] * x) % m
        BY <1>1, <4>2
      <4> QED BY <4>2, <4>3
    <3> HIDE DEF T
    <3> QED BY <3>1, <3>2, UpTo
  <2>4. \A i \in 1..e : h[i] = (h[i-1] * x) % m
    <3> SUFFICES ASSUME NEW i \in 1..e PROVE h[i] = (h[i-1] * x) % m
      OBVIOUS
    <3>1. h[i-1] \in Int
      BY <2>3
    <3> QED BY <1>1, <2>2, <3>1
  <2>5. h = [i \in 0..e |-> h[i]]
    BY <2>1
  <2>6. \A i \in 0..e : h[i] = IF i = 0 THEN 1 ELSE (h[i-1] * x) % m
    BY <2>2, <2>4
  <2>7. h = [i \in 0..e |-> IF i = 0 THEN 1 ELSE (h[i-1] * x) % m]
    BY <2>5, <2>6
  <2> QED BY <2>7 DEF h
<1>6. ASSUME NEW e \in Nat PROVE Loop(f(e), e)
  <2>1. \E p : Loop(p, e)
    BY <1>5
  <2> HIDE DEF Loop
  <2> QED BY <2>1
<1>7. 0 \in R /\ \A k \in Nat : k \in R => k + 1 \in R
  <2>1. 0 \in R
    BY <1>2
  <2>2. ASSUME NEW k \in Nat, k \in R PROVE k + 1 \in R
    <3> DEFINE v == Power(mul, 1, x, k)
    <3>1. v \in Int
      BY <2>2
    <3>2. Power(mul, 1, x, k + 1) = (v * x) % m
      BY <1>1, <1>2, <3>1
    <3> HIDE DEF v
    <3>3. (v * x) % m \in 0..(m-1)
      BY <3>1
    <3> QED BY <3>2, <3>3
  <2> QED BY <2>1, <2>2
<1>8. \A k \in Nat : Power(mul, 1, x, k) \in 0..(m-1)
  <2> HIDE DEF R
  <2>1. Nat \subseteq R
    BY <1>7, SetInduction
  <2> QED BY <2>1 DEF R
<1>9. ASSUME NEW e \in Nat PROVE Pow(x, e, m) = Power(mul, 1, x, e)
  <2> DEFINE h == f(e)
             T == {i \in Nat : h[i] = Power(mul, 1, x, i)}
  <2>1. h = [i \in 0..e |-> IF i = 0 THEN 1 ELSE (h[i-1] * x) % m]
    BY <1>6
  <2> HIDE DEF h
  <2>2. h[0] = 1 /\ \A i \in 1..e : h[i] = (h[i-1] * x) % m
    BY <2>1
  <2>3. 0 \in T
    BY <1>2, <2>2
  <2>4. ASSUME NEW i \in 0..(e-1), i \in T PROVE i + 1 \in T
    <3>1. i + 1 \in 1..e /\ (i + 1) - 1 = i /\ i \in Nat
      OBVIOUS
    <3> DEFINE v == Power(mul, 1, x, i)
    <3>2. h[i+1] = (v * x) % m
      BY <2>2, <2>4, <3>1
    <3>3. Power(mul, 1, x, i + 1) = mul[v][x] /\ v \in Int
      BY <1>2, <1>8, <3>1
    <3> HIDE DEF v
    <3> QED BY <1>1, <3>1, <3>2, <3>3
  <2> HIDE DEF T
  <2>5. e \in T
    <3>1. \A i \in 0..e : i \in T
      BY <2>3, <2>4, UpTo
    <3> QED BY <3>1
  <2>6. f(e)[e] = h[e]
    BY DEF h
  <2> QED BY <1>4, <2>5, <2>6 DEF T
<1> HIDE DEF f
<1>10. Pow(x, 0, m) = 1
  BY <1>2, <1>9
<1>11. \A e \in Nat : Pow(x, e, m) \in 0..(m-1)
  BY <1>8, <1>9
<1>12. ASSUME NEW e \in Nat PROVE Pow(x, e + 1, m) = (Pow(x, e, m) * x) % m
  <2>1. Pow(x, e + 1, m) = Power(mul, 1, x, e + 1) /\ Pow(x, e, m) = Power(mul, 1, x, e)
    BY <1>9
  <2>2. Pow(x, e, m) \in Int
    BY <1>11
  <2> QED BY <1>1, <1>2, <2>1, <2>2
<1> QED BY <1>10, <1>11, <1>12

(* Pow depends on the remainder of its base. *)
LEMMA PowReduced ==
  ASSUME NEW m \in Nat, m > 1, NEW x \in Int
  PROVE  \A e \in Nat : Pow(x % m, e, m) = Pow(x, e, m)
<1> DEFINE R == {e \in Nat : Pow(x % m, e, m) = Pow(x, e, m)}
           r == x % m
<1>1. r \in Int /\ r = x % m
  OBVIOUS
<1> HIDE DEF r
<1>2. Pow(x, 0, m) = 1 /\ \A e \in Nat : Pow(x, e, m) \in 0..(m-1)
                              /\ Pow(x, e + 1, m) = (Pow(x, e, m) * x) % m
  BY PowSteps
<1>3. Pow(r, 0, m) = 1 /\ \A e \in Nat : Pow(r, e, m) \in 0..(m-1)
                              /\ Pow(r, e + 1, m) = (Pow(r, e, m) * r) % m
  BY <1>1, PowSteps
<1>4. 0 \in R
  BY <1>1, <1>2, <1>3
<1>5. ASSUME NEW e \in Nat, e \in R PROVE e + 1 \in R
  <2> DEFINE v == Pow(x, e, m)
  <2>1. v \in Int /\ v = Pow(r, e, m)
    BY <1>1, <1>2, <1>5
  <2>2. Pow(x, e + 1, m) = (v * x) % m /\ Pow(r, e + 1, m) = (v * r) % m
    BY <1>2, <1>3, <2>1
  <2> HIDE DEF v
  <2>3. (v * r) % m = (x * v) % m
    <3>1. m \in Nat \ {0} /\ v \in Int /\ x \in Int
      BY <2>1
    <3>2. (v * (x % m)) % m = (x * v) % m
      BY <3>1, ModTimes
    <3> QED BY <1>1, <3>2
  <2>4. x * v = v * x
    BY <2>1
  <2> QED BY <1>1, <2>2, <2>3, <2>4
<1> HIDE DEF R
<1>6. Nat \subseteq R
  BY <1>4, <1>5, SetInduction
<1> QED BY <1>6 DEF R

(* Modulo a prime, Pow is a power in the group of the numbers below it. *)
LEMMA PowIsPower ==
  ASSUME NEW p, IsPrime(p), NEW x \in 1..(p-1)
  PROVE  \A e \in Nat : Pow(x, e, p) = Power(Times(p), 1, x, e)
<1> DEFINE w(e) == Power(Times(p), 1, x, e)
           R == {e \in Nat : Pow(x, e, p) = w(e)}
<1>1. p \in Nat /\ p > 1 /\ x \in Int
  BY DEF IsPrime
<1>2. Pow(x, 0, p) = 1 /\ \A e \in Nat : Pow(x, e + 1, p) = (Pow(x, e, p) * x) % p
  BY <1>1, PowSteps
<1>3. w(0) = 1 /\ \A e \in Nat : w(e + 1) = Times(p)[w(e)][x]
  BY PowerZero, PowerNext
<1>4. \A e \in Nat : w(e) \in 1..(p-1)
  BY PrimeGroup, PowerIn
<1> HIDE DEF w
<1>5. 0 \in R
  BY <1>2, <1>3
<1>6. ASSUME NEW e \in Nat, e \in R PROVE e + 1 \in R
  <2>1. w(e + 1) = (w(e) * x) % p
    BY <1>3, <1>4 DEF Times
  <2> QED BY <1>2, <1>6, <2>1
<1> HIDE DEF R
<1>7. Nat \subseteq R
  BY <1>5, <1>6, SetInduction
<1> QED BY <1>7 DEF R, w

(* _inv: the inverse modulo a prime, by Fermat's theorem. *)
LEMMA InverseModPrime ==
  ASSUME NEW p, IsPrime(p), NEW x \in Int, ~Divides(p, x)
  PROVE  _inv(x, p) \in 1..(p-1) /\ (_inv(x, p) * x) % p = 1
<1> DEFINE r == x % p
           w == Pow(r, p - 2, p)
<1>1. p \in Nat \ {0} /\ p \in Nat /\ p > 1 /\ p - 2 \in Nat /\ p - 1 \in Nat
      /\ (p - 2) + 1 = p - 1
  BY DEF IsPrime
<1>2. r \in 1..(p-1)
  BY <1>1, ModRest, ModZero
<1>3. _inv(x, p) = w
  BY <1>1, PowReduced DEF _inv
<1>4. r = x % p
  OBVIOUS
<1> HIDE DEF r
<1>5. Pow(r, p - 1, p) = 1
  BY <1>1, <1>2, Fermat, PowIsPower
<1>6. r \in Int
  BY <1>2
<1>7. w \in 0..(p-1) /\ Pow(r, (p - 2) + 1, p) = (w * r) % p
  BY <1>1, <1>6, PowSteps
<1> HIDE DEF w
<1>8. (w * r) % p = 1 /\ w \in Int
  BY <1>1, <1>5, <1>7
<1>9. (w * r) % p = (x * w) % p
  BY <1>1, <1>4, <1>8, ModTimes
<1>10. x * w = w * x
  BY <1>8
<1>11. (w * x) % p = 1
  BY <1>8, <1>9, <1>10
<1>12. w # 0
  <2> SUFFICES ASSUME w = 0 PROVE FALSE
    OBVIOUS
  <2>1. w * r = 0 /\ 0 \in 0..(p-1)
    BY <1>1, <1>6
  <2>2. 0 % p = 0
    BY <1>1, <2>1, ModSmall
  <2> QED BY <1>8, <2>1, <2>2
<1> QED BY <1>1, <1>3, <1>7, <1>11, <1>12

-----------------------------------------------------------------------------
(* The points of the curve. *)

LEMMA OnCurvePoint ==
  ASSUME NEW x \in 0..(P-1), NEW y \in 0..(P-1)
  PROVE  <<x, y>> \in OnCurve <=> Divides(P, y * y - (x * x * x + B))
<1> DEFINE a == y * y
           b == x * x * x + B
<1>1. P \in Nat \ {0} /\ x \in Int /\ y \in Int /\ a \in Int /\ b \in Int
  BY CurveNumbers
<1>2. <<x, y>> \in OnCurve <=> a % P = b % P
  BY DEF OnCurve
<1> HIDE DEF a, b
<1>3. a % P = b % P <=> Divides(P, a - b)
  BY <1>1, ModEqual
<1> QED BY <1>2, <1>3 DEF a, b

LEMMA PointCoordinates ==
  ASSUME NEW p \in OnCurve
  PROVE  /\ p = <<p[1], p[2]>> /\ p[1] \in 0..(P-1) /\ p[2] \in 0..(P-1) /\ p # INF
         /\ Divides(P, p[2] * p[2] - (p[1] * p[1] * p[1] + B))
<1>1. p \in (0..(P-1)) \X (0..(P-1))
  BY DEF OnCurve
<1>2. PICK x \in 0..(P-1), y \in 0..(P-1) : p = <<x, y>>
  BY <1>1
<1>3. p # INF
  BY CurveAssumption
<1>4. p[1] = x /\ p[2] = y
  BY <1>2
<1> QED BY <1>2, <1>3, <1>4, OnCurvePoint

(* Points of the same x-coordinate are equal or opposite. *)
LEMMA SameX ==
  ASSUME NEW p \in OnCurve, NEW q \in OnCurve, p[1] = q[1]
  PROVE  p = q \/ (p[2] + q[2]) % P = 0
<1> DEFINE x == p[1]
           y == p[2]
           z == q[2]
           c == x * x * x + B
           e == y * y - c
           f == z * z - c
           s == y + z
           d == y - z
           sd == s * d
<1>1. x \in 0..(P-1) /\ y \in 0..(P-1) /\ z \in 0..(P-1)
      /\ Divides(P, e) /\ Divides(P, f) /\ p = <<x, y>> /\ q = <<x, z>>
  BY PointCoordinates
<1>2. P \in Nat \ {0} /\ P \in Nat /\ IsPrime(P) /\ B \in Int
  BY CurveNumbers
<1>3. x \in Int /\ y \in Int /\ z \in Int
  BY <1>1
<1> HIDE DEF x, y, z
<1>4. c \in Int
  BY <1>2, <1>3
<1> HIDE DEF c
<1>5. e \in Int /\ f \in Int /\ s \in Int /\ d \in Int /\ e - f = sd
  BY <1>3, <1>4
<1>6. -P < d /\ d < P /\ (d = 0 => y = z)
  BY <1>1, <1>2
<1>7. s = y + z
  OBVIOUS
<1> HIDE DEF e, f, s, d
<1>8. Divides(P, sd)
  <2>1. Divides(P, e - f)
    BY <1>1, <1>2, <1>5, DividesSum
  <2> QED BY <1>5, <2>1
<1>9. CASE Divides(P, s)
  <2>1. s % P = 0
    BY <1>2, <1>5, <1>9, ModZero
  <2> QED BY <1>7, <2>1 DEF y, z
<1>10. CASE ~Divides(P, s)
  <2>1. Divides(P, d)
    BY <1>2, <1>5, <1>8, <1>10, Euclid
  <2>2. d = 0
    BY <1>2, <1>5, <1>6, <2>1, DividesSmall
  <2> QED BY <1>1, <1>6, <2>2
<1> QED BY <1>9, <1>10

(* The line of slope lam through <<x1, y1>> meets the cubic at x1, x2 and a *)
(* third time: the point below that one is on the curve if a, what the sum  *)
(* of products of these three leaves of the cubic's linear term, vanishes.  *)
LEMMA ThirdPoint ==
  ASSUME NEW x1 \in Int, NEW x2 \in Int, NEW y1 \in Int, NEW lam \in Int, NEW a \in Int,
         Divides(P, y1 * y1 - (x1 * x1 * x1 + B)),
         a = -2 * lam * (y1 - lam * x1) - x1 * x2 - (lam * lam - x1 - x2) * (x1 + x2),
         Divides(P, a), NEW x, x = (lam * lam - x1 - x2) % P
  PROVE  <<x, (lam * (x1 - x) - y1) % P>> \in OnCurve
<1> DEFINE e1 == y1 * y1 - (x1 * x1 * x1 + B)
           c == lam * lam - x1 - x2
           t == (x - x1) * (x - x2)
           d == x - c
           Y == lam * (x1 - x) - y1
           y == Y % P
           g == x * x * x + B
           YY == Y * Y
           yy == y * y
           u == t * d
           v == a * (x - x1)
<1>1. P \in Nat \ {0} /\ P \in Nat /\ B \in Int
  BY CurveNumbers
<1>2. c \in Int /\ x = c % P
  OBVIOUS
<1>3. x \in 0..(P-1) /\ Divides(P, d) /\ x \in Int
  <2>1. \A k \in Int : k % P \in 0..(P-1) /\ Divides(P, (k % P) - k)
    BY <1>1, ModRest
  <2> HIDE DEF c
  <2>2. x \in 0..(P-1) /\ Divides(P, x - c)
    BY <1>2, <2>1
  <2> QED BY <1>1, <2>2
<1>4. d \in Int /\ t \in Int /\ Y \in Int /\ e1 \in Int /\ g \in Int /\ x - x1 \in Int
  BY <1>1, <1>2, <1>3
<1>5. YY - g = e1 - u - v
  <2>1. a = -2 * lam * (y1 - lam * x1) - x1 * x2 - (lam * lam - x1 - x2) * (x1 + x2)
    OBVIOUS
  <2>2. x \in Int /\ B \in Int
    BY <1>1, <1>3
  <2> QED BY ONLY <2>1, <2>2, x1 \in Int, x2 \in Int, y1 \in Int, lam \in Int
<1>6. Divides(P, u) /\ Divides(P, v) /\ Divides(P, e1)
  <2> DEFINE xx == x - x1
  <2>1. xx \in Int
    BY <1>4
  <2> HIDE DEF d, t, xx
  <2>2. Divides(P, t * d) /\ Divides(P, a * xx)
    BY <1>1, <1>3, <1>4, <2>1, DividesProduct
  <2> QED BY <2>2 DEF xx
<1> HIDE DEF e1, c, t, d, Y, g
<1>7. u \in Int /\ v \in Int /\ YY \in Int
  BY <1>3, <1>4
<1>8. y \in 0..(P-1) /\ y \in Int /\ y = Y % P
  <2>1. Y % P \in 0..(P-1)
    BY <1>1, <1>4, ModRest
  <2> HIDE DEF Y
  <2> QED BY <1>1, <2>1
<1> HIDE DEF y
<1>9. yy % P = YY % P
  <2>1. \A n \in Int : ((Y % P) * n) % P = (Y * n) % P
    BY <1>1, <1>4, ModTimes
  <2>2. (y * y) % P = (Y * y) % P
    BY <1>8, <2>1
  <2>3. (y * Y) % P = (Y * Y) % P
    BY <1>4, <1>8, <2>1
  <2>4. Y * y = y * Y
    BY <1>4, <1>8
  <2> QED BY <2>2, <2>3, <2>4
<1>10. yy \in Int
  BY <1>8
<1>11. yy = y * y
  OBVIOUS
<1> HIDE DEF YY, yy, u, v
<1>12. Divides(P, yy - YY)
  BY <1>1, <1>7, <1>9, <1>10, ModEqual
<1>13. Divides(P, YY - g)
  <2>1. Divides(P, e1 - u)
    BY <1>1, <1>4, <1>6, <1>7, DividesSum
  <2>2. Divides(P, (e1 - u) - v)
    BY <1>1, <1>4, <1>6, <1>7, <2>1, DividesSum
  <2> QED BY <1>5, <2>2
<1>14. Divides(P, yy - g)
  <2> DEFINE i == yy - YY
             j == YY - g
  <2>1. i \in Int /\ j \in Int /\ i + j = yy - g /\ Divides(P, i) /\ Divides(P, j)
    BY <1>4, <1>7, <1>10, <1>12, <1>13
  <2> HIDE DEF i, j
  <2>2. Divides(P, i + j)
    BY <1>1, <2>1, DividesSum
  <2> QED BY <2>1, <2>2
<1>15. <<x, y>> \in OnCurve
  BY <1>3, <1>8, <1>11, <1>14, OnCurvePoint DEF g
<1> QED BY <1>15 DEF y, Y

(* The sum of two points is a point: by the chord, ... *)
LEMMA ChordOnCurve ==
  ASSUME NEW x1 \in Int, NEW y1 \in Int, NEW x2 \in Int, NEW y2 \in Int, NEW lam \in Int,
         Divides(P, y1 * y1 - (x1 * x1 * x1 + B)),
         Divides(P, y2 * y2 - (x2 * x2 * x2 + B)),
         ~Divides(P, x2 - x1), Divides(P, lam * (x2 - x1) - (y2 - y1)),
         NEW x, x = (lam * lam - x1 - x2) % P
  PROVE  <<x, (lam * (x1 - x) - y1) % P>> \in OnCurve
<1> DEFINE a == -2 * lam * (y1 - lam * x1) - x1 * x2 - (lam * lam - x1 - x2) * (x1 + x2)
           e1 == y1 * y1 - (x1 * x1 * x1 + B)
           e2 == y2 * y2 - (x2 * x2 * x2 + B)
           w == lam * (x2 - x1) - (y2 - y1)
           s == 2 * y2 + w
           ws == w * s
           d == x2 - x1
           da == d * a
<1>1. P \in Nat \ {0} /\ P \in Nat /\ B \in Int /\ IsPrime(P)
  BY CurveNumbers
<1>2. a \in Int /\ e1 \in Int /\ e2 \in Int /\ w \in Int /\ s \in Int /\ d \in Int
  BY <1>1
<1>3. da = (e1 - e2) - ws
  BY <1>1
<1>4. Divides(P, e1) /\ Divides(P, e2) /\ Divides(P, w) /\ ~Divides(P, d)
  OBVIOUS
<1> HIDE DEF a, e1, e2, w, s, d
<1>5. ws \in Int /\ Divides(P, ws)
  <2>1. ws \in Int
    BY <1>2
  <2> QED BY <1>1, <1>2, <1>4, <2>1, DividesProduct
<1> HIDE DEF ws
<1>6. Divides(P, e1 - e2) /\ e1 - e2 \in Int
  BY <1>1, <1>2, <1>4, DividesSum
<1>7. Divides(P, da)
  BY <1>1, <1>3, <1>5, <1>6, DividesSum
<1>8. Divides(P, a)
  BY <1>1, <1>2, <1>4, <1>7, Euclid
<1> QED BY <1>2, <1>8, ThirdPoint DEF a

(* ... and by the tangent. *)
LEMMA TangentOnCurve ==
  ASSUME NEW x1 \in Int, NEW y1 \in Int, NEW lam \in Int,
         Divides(P, y1 * y1 - (x1 * x1 * x1 + B)),
         Divides(P, lam * (2 * y1) - 3 * x1 * x1),
         NEW x, x = (lam * lam - x1 - x1) % P
  PROVE  <<x, (lam * (x1 - x) - y1) % P>> \in OnCurve
<1> DEFINE a == -2 * lam * (y1 - lam * x1) - x1 * x1 - (lam * lam - x1 - x1) * (x1 + x1)
           w == lam * (2 * y1) - 3 * x1 * x1
<1>1. P \in Nat
  BY CurveNumbers
<1>2. a \in Int /\ w \in Int /\ a = (-1) * w /\ Divides(P, w)
  OBVIOUS
<1> HIDE DEF w
<1>3. Divides(P, (-1) * w)
  BY <1>1, <1>2, DividesProduct
<1>4. Divides(P, a)
  BY <1>2, <1>3
<1> QED BY <1>2, <1>4, ThirdPoint

(* A numerator times the inverse of its denominator is their quotient. *)
LEMMA Quotient ==
  ASSUME NEW p, IsPrime(p), NEW u \in Int, NEW v \in Int, ~Divides(p, v),
         NEW lam, lam = (u * _inv(v, p)) % p
  PROVE  lam \in Int /\ Divides(p, lam * v - u)
<1> DEFINE w == _inv(v, p)
           uw == u * w
           c == lam - uw
           e == w * v - 1
           cv == c * v
           eu == e * u
<1>1. p \in Nat \ {0} /\ p \in Nat /\ p > 1 /\ 1 \in 0..(p-1)
  BY DEF IsPrime
<1>2. w \in 1..(p-1) /\ (w * v) % p = 1
  BY InverseModPrime
<1>3. lam = uw % p
  OBVIOUS
<1> HIDE DEF w
<1>4. w \in Int /\ uw \in Int
  BY <1>2
<1> HIDE DEF uw
<1>5. lam \in 0..(p-1) /\ Divides(p, (uw % p) - uw)
  BY <1>1, <1>3, <1>4, ModRest
<1>6. lam \in Int /\ c \in Int /\ Divides(p, c)
  BY <1>3, <1>4, <1>5
<1>7. Divides(p, e) /\ e \in Int
  <2> DEFINE wv == w * v
  <2>1. wv \in Int /\ wv % p = 1 /\ e = wv - 1
    BY <1>2, <1>4
  <2> HIDE DEF wv
  <2>2. Divides(p, wv - (wv % p))
    BY <1>1, <2>1, ModRest
  <2>3. Divides(p, wv - 1)
    BY <2>1, <2>2
  <2> QED BY <2>1, <2>3
<1>8. lam * v - u = cv + eu
  <2>1. uw = u * w
    BY DEF uw
  <2> QED BY <1>4, <1>6, <2>1
<1> HIDE DEF c, e
<1>9. Divides(p, cv) /\ Divides(p, eu) /\ cv \in Int /\ eu \in Int
  <2>1. cv \in Int /\ eu \in Int
    BY <1>6, <1>7
  <2> QED BY <1>1, <1>6, <1>7, <2>1, DividesProduct
<1> HIDE DEF cv, eu
<1>10. Divides(p, cv + eu)
  BY <1>1, <1>9, DividesSum
<1> QED BY <1>6, <1>8, <1>10

(* point_add on two points of the curve: the fourth case is that of a       *)
(* slope, which is a quotient of integers modulo P.                         *)
LEMMA AddBySlope ==
  ASSUME NEW p \in OnCurve, NEW q \in OnCurve, ~(p[1] = q[1] /\ (p[2] + q[2]) % P = 0)
  PROVE  \E lam \in Int : \E x :
           /\ x = (lam * lam - p[1] - q[1]) % P
           /\ point_add(p, q) = <<x, (lam * (p[1] - x) - p[2]) % P>>
           /\ IF p = q
              THEN Divides(P, lam * (2 * p[2]) - 3 * p[1] * p[1])
              ELSE /\ ~Divides(P, q[1] - p[1])
                   /\ Divides(P, lam * (q[1] - p[1]) - (q[2] - p[2]))
<1> DEFINE lam == Slope(p, q)
           x == (lam * lam - p[1] - q[1]) % P
<1>1. p # INF /\ q # INF /\ p[1] \in 0..(P-1) /\ p[2] \in 0..(P-1)
      /\ q[1] \in 0..(P-1) /\ q[2] \in 0..(P-1)
  BY PointCoordinates
<1>2. point_add(p, q) = <<x, (lam * (p[1] - x) - p[2]) % P>>
  BY <1>1 DEF point_add
<1>3. P \in Nat \ {0} /\ P \in Nat /\ IsPrime(P) /\ P > 1
  BY CurveNumbers
<1>4. CASE p = q
  <2> DEFINE u == 3 * p[1] * p[1]
             v == 2 * p[2]
  <2>1. u \in Int /\ v \in Int
    BY <1>1
  <2>2. v = p[2] + q[2]
    BY <1>1, <1>4
  <2>3. lam = (u * _inv(v, P)) % P
    BY <1>4 DEF Slope
  <2>4. u = 3 * p[1] * p[1] /\ v = 2 * p[2]
    OBVIOUS
  <2> HIDE DEF u, v, lam
  <2>5. ~Divides(P, v)
    BY <1>3, <1>4, <2>1, <2>2, ModZero
  <2>6. lam \in Int /\ Divides(P, lam * v - u)
    BY <1>3, <2>1, <2>3, <2>5, Quotient
  <2>7. Divides(P, lam * (2 * p[2]) - 3 * p[1] * p[1])
    BY <2>4, <2>6
  <2> HIDE DEF x
  <2>8. x = (lam * lam - p[1] - q[1]) % P
    BY DEF x
  <2> QED BY <1>2, <1>4, <2>6, <2>7, <2>8
<1>5. CASE p # q
  <2> DEFINE u == q[2] - p[2]
             v == q[1] - p[1]
  <2>1. u \in Int /\ v \in Int /\ -P < v /\ v < P /\ (v = 0 => p[1] = q[1])
    BY <1>1, <1>3
  <2>2. p[1] # q[1]
    BY <1>5, SameX
  <2>3. lam = (u * _inv(v % P, P)) % P
    BY <1>5 DEF Slope
  <2>4. u = q[2] - p[2] /\ v = q[1] - p[1]
    OBVIOUS
  <2> HIDE DEF u, v, lam
  <2>5. ~Divides(P, v)
    BY <1>3, <2>1, <2>2, DividesSmall
  <2>6. _inv(v % P, P) = _inv(v, P)
    <3>1. P - 2 \in Nat
      BY <1>3
    <3> QED BY <1>3, <2>1, <3>1, PowReduced DEF _inv
  <2>7. lam \in Int /\ Divides(P, lam * v - u)
    BY <1>3, <2>1, <2>3, <2>5, <2>6, Quotient
  <2>8. ~Divides(P, q[1] - p[1]) /\ Divides(P, lam * (q[1] - p[1]) - (q[2] - p[2]))
    BY <2>4, <2>5, <2>7
  <2> HIDE DEF x
  <2>9. x = (lam * lam - p[1] - q[1]) % P
    BY DEF x
  <2> QED BY <1>2, <1>5, <2>7, <2>8, <2>9
<1> QED BY <1>4, <1>5

(* point_add: the sum of two points of the curve, by chord or tangent, is   *)
(* a point of the curve.                                                    *)
THEOREM AddOnCurve ==
  ASSUME NEW p \in Points, NEW q \in Points
  PROVE  point_add(p, q) \in Points
<1>1. CASE p = INF \/ q = INF
  BY <1>1 DEF point_add, Points
<1>2. CASE p # INF /\ q # INF /\ p[1] = q[1] /\ (p[2] + q[2]) % P = 0
  BY <1>2 DEF point_add, Points
<1>3. CASE p # INF /\ q # INF /\ ~(p[1] = q[1] /\ (p[2] + q[2]) % P = 0)
  <2>1. p \in OnCurve /\ q \in OnCurve
    BY <1>3 DEF Points
  <2>2. PICK lam \in Int : \E x :
           /\ x = (lam * lam - p[1] - q[1]) % P
           /\ point_add(p, q) = <<x, (lam * (p[1] - x) - p[2]) % P>>
           /\ IF p = q
              THEN Divides(P, lam * (2 * p[2]) - 3 * p[1] * p[1])
              ELSE /\ ~Divides(P, q[1] - p[1])
                   /\ Divides(P, lam * (q[1] - p[1]) - (q[2] - p[2]))
    BY <1>3, <2>1, AddBySlope
  <2>3. PICK x :
           /\ x = (lam * lam - p[1] - q[1]) % P
           /\ point_add(p, q) = <<x, (lam * (p[1] - x) - p[2]) % P>>
           /\ IF p = q
              THEN Divides(P, lam * (2 * p[2]) - 3 * p[1] * p[1])
              ELSE /\ ~Divides(P, q[1] - p[1])
                   /\ Divides(P, lam * (q[1] - p[1]) - (q[2] - p[2]))
    BY <2>2
  <2> DEFINE x1 == p[1]
             y1 == p[2]
             x2 == q[1]
             y2 == q[2]
  <2>4. x1 \in Int /\ y1 \in Int /\ x2 \in Int /\ y2 \in Int
        /\ Divides(P, y1 * y1 - (x1 * x1 * x1 + B)) /\ Divides(P, y2 * y2 - (x2 * x2 * x2 + B))
    BY <2>1, PointCoordinates
  <2>5. x = (lam * lam - x1 - x2) % P /\ point_add(p, q) = <<x, (lam * (x1 - x) - y1) % P>>
    BY <2>3
  <2>6. CASE p = q
    <3>1. Divides(P, lam * (2 * y1) - 3 * x1 * x1) /\ x = (lam * lam - x1 - x1) % P
      BY <2>3, <2>6
    <3> HIDE DEF x1, y1, x2, y2
    <3>2. <<x, (lam * (x1 - x) - y1) % P>> \in OnCurve
      BY <2>4, <3>1, TangentOnCurve
    <3> QED BY <2>5, <3>2 DEF Points
  <2>7. CASE p # q
    <3>1. ~Divides(P, x2 - x1) /\ Divides(P, lam * (x2 - x1) - (y2 - y1))
      BY <2>3, <2>7
    <3> HIDE DEF x1, y1, x2, y2
    <3>2. <<x, (lam * (x1 - x) - y1) % P>> \in OnCurve
      BY <2>4, <2>5, <3>1, ChordOnCurve
    <3> QED BY <2>5, <3>2 DEF Points
  <2> QED BY <2>6, <2>7
<1> QED BY <1>1, <1>2, <1>3

(* The point below. *)
Opposite(p) == IF p = INF THEN INF ELSE <<p[1], (P - p[2]) % P>>

LEMMA OppositeCancels ==
  ASSUME NEW p \in Points
  PROVE  /\ Opposite(p) \in Points
         /\ point_add(p, Opposite(p)) = INF /\ point_add(Opposite(p), p) = INF
<1>1. CASE p = INF
  BY <1>1 DEF Opposite, point_add, Points
<1>2. CASE p # INF
  <2> DEFINE x == p[1]
             y == p[2]
             c == P - y
             z == c % P
             s == z + y
             t == z - y
             st == s * t
             g == x * x * x + B
             e == y * y - g
  <2>1. p \in OnCurve
    BY <1>2 DEF Points
  <2>2. x \in 0..(P-1) /\ y \in 0..(P-1) /\ Divides(P, e)
    BY <2>1, PointCoordinates
  <2>3. P \in Nat \ {0} /\ P \in Nat /\ B \in Int
    BY CurveNumbers
  <2>4. Opposite(p) = <<x, z>>
    BY <1>2 DEF Opposite
  <2>5. x = p[1] /\ y = p[2]
    OBVIOUS
  <2> HIDE DEF x, y
  <2>6. c \in Int /\ c + y = 1 * P
    BY <2>2, <2>3
  <2> HIDE DEF c
  <2>7. z \in 0..(P-1) /\ Divides(P, z - c)
    BY <2>3, <2>6, ModRest
  <2> HIDE DEF z
  <2>8. Divides(P, s) /\ s \in Int
    <3>1. Divides(P, c + y)
      BY <2>6 DEF Divides
    <3> DEFINE i == z - c
               j == c + y
    <3>2. i \in Int /\ j \in Int /\ i + j = s /\ Divides(P, i) /\ Divides(P, j) /\ s \in Int
      BY <2>2, <2>6, <2>7, <3>1
    <3> HIDE DEF i, j, s
    <3>3. Divides(P, i + j)
      BY <2>3, <3>2, DividesSum
    <3> QED BY <3>2, <3>3
  <2>9. g \in Int
    BY <2>2, <2>3
  <2> HIDE DEF g
  <2>10. z * z - g = st + e /\ t \in Int /\ e \in Int
    BY <2>2, <2>7, <2>9
  <2>11. y + z = s /\ z + y = s
    BY <2>2, <2>7
  <2> HIDE DEF s, t, e
  <2>12. st \in Int /\ Divides(P, st)
    <3>1. st \in Int
      BY <2>8, <2>10
    <3> QED BY <2>3, <2>8, <2>10, <3>1, DividesProduct
  <2> HIDE DEF st
  <2>13. Divides(P, z * z - g)
    <3>1. Divides(P, st + e)
      BY <2>2, <2>3, <2>10, <2>12, DividesSum
    <3> QED BY <2>10, <3>1
  <2>14. <<x, z>> \in OnCurve
    BY <2>2, <2>7, <2>13, OnCurvePoint DEF g
  <2>15. (y + z) % P = 0 /\ (z + y) % P = 0
    <3>1. s % P = 0
      BY <2>3, <2>8, ModZero
    <3> QED BY <2>11, <3>1
  <2> DEFINE q == <<x, z>>
  <2>16. q[1] = x /\ q[2] = z /\ q \in OnCurve /\ q # INF
    BY <2>14, PointCoordinates
  <2> HIDE DEF q
  <2>17. point_add(p, q) = INF /\ point_add(q, p) = INF
    BY <1>2, <2>5, <2>15, <2>16 DEF point_add
  <2> QED BY <2>4, <2>16, <2>17 DEF Points, q
<1> QED BY <1>1, <1>2

-----------------------------------------------------------------------------
(* The group of the points. *)

Adding == [p \in Points |-> [q \in Points |-> point_add(p, q)]]

LEMMA PointsFinite ==
  IsFiniteSet(Points) /\ Cardinality(Points) = N
<1> DEFINE S == 0..(P-1)
<1>1. P \in Nat /\ N \in Nat
  BY CurveNumbers
<1>2. IsFiniteSet(S)
  <2>1. 0 \in Int /\ P - 1 \in Int
    BY <1>1
  <2> QED BY <2>1, FS_Interval
<1> HIDE DEF S
<1>3. IsFiniteSet(S \X S)
  BY <1>2, FS_Product
<1>4. OnCurve \subseteq S \X S
  BY DEF OnCurve, S
<1>5. IsFiniteSet(OnCurve)
  BY <1>3, <1>4, FS_Subset
<1>6. INF \notin OnCurve /\ Cardinality(OnCurve) = N - 1
  BY CurveAssumption
<1>7. IsFiniteSet(Points) /\ Cardinality(Points) = Cardinality(OnCurve) + 1
  BY <1>5, <1>6, FS_AddElement DEF Points
<1> QED BY <1>1, <1>6, <1>7

LEMMA PointGroup ==
  FiniteGroup(Points, INF, Adding)
<1>1. \A p, q \in Points : Adding[p][q] = point_add(p, q) /\ point_add(p, q) \in Points
  BY AddOnCurve DEF Adding
<1>2. INF \in Points
  BY DEF Points
<1>3. \A p \in Points : point_add(INF, p) = p /\ point_add(p, INF) = p
  BY DEF point_add
<1>4. \A p, q, r \in Points : point_add(point_add(p, q), r) = point_add(p, point_add(q, r))
  BY AssociativityAssumption
<1>5. ASSUME NEW p \in Points, NEW q \in Points, NEW r \in Points,
             point_add(p, q) = point_add(p, r)
      PROVE  q = r
  <2> DEFINE n == Opposite(p)
  <2>1. n \in Points /\ point_add(n, p) = INF
    BY OppositeCancels
  <2> HIDE DEF n
  <2>2. point_add(point_add(n, p), q) = point_add(point_add(n, p), r)
    BY <1>4, <1>5, <2>1
  <2> QED BY <1>3, <2>1, <2>2
<1>6. ASSUME NEW p \in Points, NEW q \in Points, NEW r \in Points,
             point_add(q, p) = point_add(r, p)
      PROVE  q = r
  <2> DEFINE n == Opposite(p)
  <2>1. n \in Points /\ point_add(p, n) = INF
    BY OppositeCancels
  <2> HIDE DEF n
  <2>2. point_add(q, point_add(p, n)) = point_add(r, point_add(p, n))
    BY <1>4, <1>6, <2>1
  <2> QED BY <1>3, <2>1, <2>2
<1>7. \A p, q, r \in Points : Adding[Adding[p][q]][r] = Adding[p][Adding[q][r]]
  <2> SUFFICES ASSUME NEW p \in Points, NEW q \in Points, NEW r \in Points
               PROVE  Adding[Adding[p][q]][r] = Adding[p][Adding[q][r]]
    OBVIOUS
  <2> DEFINE s == point_add(p, q)
             t == point_add(q, r)
  <2>1. Adding[p][q] = s /\ Adding[q][r] = t /\ s \in Points /\ t \in Points
    BY <1>1
  <2>2. point_add(s, r) = point_add(p, t)
    BY <1>4
  <2> HIDE DEF s, t
  <2>3. Adding[s][r] = point_add(s, r) /\ Adding[p][t] = point_add(p, t)
    BY <1>1, <2>1
  <2> QED BY <2>1, <2>2, <2>3
<1>8. \A p \in Points : Adding[INF][p] = p /\ Adding[p][INF] = p
  BY <1>1, <1>2, <1>3
<1>9. ASSUME NEW p \in Points, NEW q \in Points, NEW r \in Points,
             Adding[p][q] = Adding[p][r]
      PROVE  q = r
  <2>1. point_add(p, q) = point_add(p, r)
    BY <1>1, <1>9
  <2> QED BY <1>5, <2>1
<1>10. ASSUME NEW p \in Points, NEW q \in Points, NEW r \in Points,
              Adding[q][p] = Adding[r][p]
       PROVE  q = r
  <2>1. point_add(q, p) = point_add(r, p)
    BY <1>1, <1>10
  <2> QED BY <1>6, <2>1
<1> QED
  <2>1. IsFiniteSet(Points) /\ \A p, q \in Points : Adding[p][q] \in Points
    BY <1>1, PointsFinite
  <2>2. \A p, q, r \in Points : Adding[p][q] = Adding[p][r] => q = r
    BY <1>9
  <2>3. \A p, q, r \in Points : Adding[q][p] = Adding[r][p] => q = r
    BY <1>10
  <2> QED BY <1>2, <1>7, <1>8, <2>1, <2>2, <2>3 DEF FiniteGroup

-----------------------------------------------------------------------------
(* Multiples of a point. *)

(* A multiple is a power in the group. *)
LEMMA MultipleIsPower ==
  ASSUME NEW p \in Points
  PROVE  \A k \in Nat : Multiple(k, p) = Power(Adding, INF, p, k)
<1> DEFINE g(k) == Powers(Adding, INF, p, k)
           Loop(f, k) == f = [i \in 0..k |-> IF i = 0 THEN INF ELSE point_add(f[i-1], p)]
           m(k) == CHOOSE f : Loop(f, k)
           w(k) == Power(Adding, INF, p, k)
<1>1. \A q \in Points : Adding[q][p] = point_add(q, p) /\ point_add(q, p) \in Points
  BY AddOnCurve DEF Adding
<1>2. INF \in Points
  BY DEF Points
<1>3. w(0) = INF /\ \A k \in Nat : w(k + 1) = Adding[w(k)][p]
  BY PowerZero, PowerNext
<1>4. \A k \in Nat : w(k) \in Points
  BY PointGroup, PowerIn
<1>5. \A k \in Nat : g(k) = [i \in 0..k |-> IF i = 0 THEN INF ELSE Adding[g(k)[i-1]][p]]
  BY PowersDef
<1>6. \A k \in Nat : Multiple(k, p) = m(k)[k]
  BY DEF Multiple
<1> HIDE DEF g, w
<1>7. ASSUME NEW k \in Nat PROVE Loop(g(k), k)
  <2> DEFINE h == g(k)
             T == {i \in Nat : h[i] \in Points}
  <2>1. h = [i \in 0..k |-> IF i = 0 THEN INF ELSE Adding[h[i-1]][p]]
    BY <1>5
  <2> HIDE DEF h
  <2>2. h[0] = INF /\ \A i \in 1..k : h[i] = Adding[h[i-1]][p]
    BY <2>1
  <2>3. \A i \in 0..k : i \in T
    <3>1. 0 \in T
      BY <1>2, <2>2
    <3>2. ASSUME NEW i \in 0..(k-1), i \in T PROVE i + 1 \in T
      <4>1. i + 1 \in 1..k /\ (i + 1) - 1 = i
        OBVIOUS
      <4>2. h[i+1] = Adding[h[i]][p] /\ h[i] \in Points
        BY <2>2, <3>2, <4>1
      <4> QED BY <1>1, <4>1, <4>2
    <3> HIDE DEF T
    <3> QED BY <3>1, <3>2, UpTo
  <2>4. \A i \in 0..k : h[i] = IF i = 0 THEN INF ELSE point_add(h[i-1], p)
    <3> SUFFICES ASSUME NEW i \in 0..k, i # 0 PROVE h[i] = point_add(h[i-1], p)
      BY <2>2
    <3>1. i \in 1..k /\ i - 1 \in 0..k
      OBVIOUS
    <3>2. h[i] = Adding[h[i-1]][p] /\ h[i-1] \in Points
      BY <2>2, <2>3, <3>1
    <3> QED BY <1>1, <3>2
  <2>5. h = [i \in 0..k |-> h[i]]
    BY <2>1
  <2>6. h = [i \in 0..k |-> IF i = 0 THEN INF ELSE point_add(h[i-1], p)]
    BY <2>4, <2>5
  <2> QED BY <2>6 DEF h
<1>8. ASSUME NEW k \in Nat PROVE Loop(m(k), k)
  <2>1. \E f : Loop(f, k)
    BY <1>7
  <2> HIDE DEF Loop
  <2> QED BY <2>1
<1>9. ASSUME NEW k \in Nat PROVE Multiple(k, p) = w(k)
  <2> DEFINE h == m(k)
             T == {i \in Nat : h[i] = w(i)}
  <2>1. h = [i \in 0..k |-> IF i = 0 THEN INF ELSE point_add(h[i-1], p)]
    BY <1>8
  <2>2. Multiple(k, p) = h[k]
    BY <1>6
  <2> HIDE DEF h
  <2>3. h[0] = INF /\ \A i \in 1..k : h[i] = point_add(h[i-1], p)
    BY <2>1
  <2>4. 0 \in T
    BY <1>3, <2>3
  <2>5. ASSUME NEW i \in 0..(k-1), i \in T PROVE i + 1 \in T
    <3>1. i + 1 \in 1..k /\ (i + 1) - 1 = i /\ i \in Nat
      OBVIOUS
    <3>2. h[i+1] = point_add(w(i), p)
      BY <2>3, <2>5, <3>1
    <3>3. w(i + 1) = Adding[w(i)][p] /\ w(i) \in Points
      BY <1>3, <1>4, <3>1
    <3> QED BY <1>1, <3>1, <3>2, <3>3
  <2> HIDE DEF T
  <2>6. k \in T
    <3>1. \A i \in 0..k : i \in T
      BY <2>4, <2>5, UpTo
    <3> QED BY <3>1
  <2> QED BY <2>2, <2>6 DEF T
<1> QED BY <1>9 DEF w

LEMMA MultipleIn ==
  ASSUME NEW p \in Points
  PROVE  \A k \in Nat : Multiple(k, p) \in Points
BY MultipleIsPower, PointGroup, PowerIn

LEMMA MultipleZeroOne ==
  ASSUME NEW p \in Points
  PROVE  Multiple(0, p) = INF /\ Multiple(1, p) = p
<1>1. Power(Adding, INF, p, 0) = INF
  BY PowerZero
<1>2. Power(Adding, INF, p, 1) = p
  BY PointGroup, PowerOne
<1> QED BY <1>1, <1>2, MultipleIsPower

LEMMA MultipleSum ==
  ASSUME NEW p \in Points, NEW j \in Nat, NEW k \in Nat
  PROVE  Multiple(j + k, p) = point_add(Multiple(j, p), Multiple(k, p))
<1> DEFINE w(i) == Power(Adding, INF, p, i)
<1>1. \A i \in Nat : Multiple(i, p) = w(i)
  BY MultipleIsPower
<1>2. \A i \in Nat : w(i) \in Points
  BY PointGroup, PowerIn
<1>3. w(j + k) = Adding[w(j)][w(k)]
  BY PointGroup, PowerSum
<1> HIDE DEF w
<1>4. j + k \in Nat
  OBVIOUS
<1>5. Adding[w(j)][w(k)] = point_add(w(j), w(k))
  BY <1>2 DEF Adding
<1> QED BY <1>1, <1>3, <1>4, <1>5

LEMMA MultipleProduct ==
  ASSUME NEW p \in Points, NEW j \in Nat, NEW k \in Nat
  PROVE  Multiple(k, Multiple(j, p)) = Multiple(k * j, p)
<1> DEFINE q == Power(Adding, INF, p, j)
<1>1. q \in Points /\ Multiple(j, p) = q
  BY PointGroup, PowerIn, MultipleIsPower
<1>2. Power(Adding, INF, q, k) = Power(Adding, INF, p, k * j)
  BY PointGroup, PowerOfPower
<1> HIDE DEF q
<1>3. Multiple(k, q) = Power(Adding, INF, q, k)
  BY <1>1, MultipleIsPower
<1>4. k * j \in Nat
  OBVIOUS
<1>5. Multiple(k * j, p) = Power(Adding, INF, p, k * j)
  BY <1>4, MultipleIsPower
<1> QED BY <1>1, <1>2, <1>3, <1>5

(* Every point times the order N of the group is INF. *)
LEMMA MultipleOrder ==
  ASSUME NEW p \in Points
  PROVE  Multiple(N, p) = INF
<1>1. N \in Nat
  BY CurveNumbers
<1>2. Power(Adding, INF, p, N) = INF
  BY PointGroup, PointsFinite, Lagrange
<1> QED BY <1>1, <1>2, MultipleIsPower

LEMMA MultipleReduced ==
  ASSUME NEW p \in Points, NEW k \in Nat
  PROVE  Multiple(k % N, p) = Multiple(k, p)
<1> DEFINE q == k \div N
           r == k % N
           qN == q * N
<1>1. N \in Nat \ {0}
  BY CurveNumbers
<1>2. q \in Nat /\ r \in Nat /\ k = qN + r /\ qN \in Nat
  BY <1>1
<1> HIDE DEF q, r
<1>3. Multiple(qN, p) = Multiple(q, INF)
  <2>1. Multiple(q, Multiple(N, p)) = Multiple(q * N, p)
    BY <1>1, <1>2, MultipleProduct
  <2> QED BY <2>1, MultipleOrder
<1>4. Multiple(q, INF) = INF
  <2> DEFINE R == {i \in Nat : Multiple(i, INF) = INF}
  <2>1. INF \in Points
    BY DEF Points
  <2>2. 0 \in R
    BY <2>1, MultipleZeroOne
  <2>3. ASSUME NEW i \in Nat, i \in R PROVE i + 1 \in R
    <3>1. Multiple(i + 1, INF) = point_add(Multiple(i, INF), Multiple(1, INF))
      BY <2>1, MultipleSum
    <3>2. Multiple(1, INF) = INF /\ point_add(INF, INF) = INF
      BY <2>1, MultipleZeroOne DEF point_add
    <3> QED BY <2>3, <3>1, <3>2
  <2> HIDE DEF R
  <2>4. Nat \subseteq R
    BY <2>2, <2>3, SetInduction
  <2> QED BY <1>2, <2>4 DEF R
<1> HIDE DEF qN
<1>5. Multiple(qN + r, p) = point_add(Multiple(qN, p), Multiple(r, p))
  BY <1>2, MultipleSum
<1>6. point_add(INF, Multiple(r, p)) = Multiple(r, p)
  BY DEF point_add
<1> QED BY <1>2, <1>3, <1>4, <1>5, <1>6 DEF r

(* N being prime, no smaller multiple of a point is INF. *)
LEMMA MultipleNotInf ==
  ASSUME NEW p \in OnCurve, NEW k \in 1..(N-1)
  PROVE  Multiple(k, p) \in OnCurve
<1> DEFINE w(i) == Power(Adding, INF, p, i)
<1>1. p \in Points /\ p # INF
  BY PointCoordinates DEF Points
<1>2. PICK d \in Nat \ {0} : w(d) = INF /\ \A i \in 1..(d-1) : w(i) # INF
  BY <1>1, PointGroup, Order
<1>3. PICK c \in Nat : N = c * d
  <2>1. \E c \in Nat : Cardinality(Points) = c * d
    BY <1>1, <1>2, PointGroup, OrderDivides
  <2> QED BY <2>1, PointsFinite
<1>4. w(1) = p
  BY <1>1, PointGroup, PowerOne
<1>5. \A i \in Nat : Multiple(i, p) = w(i) /\ w(i) \in Points
  BY <1>1, PointGroup, PowerIn, MultipleIsPower
<1> HIDE DEF w
<1>6. N \in Nat \ {0} /\ IsPrime(N)
  BY CurveNumbers
<1>7. d # 1
  BY <1>1, <1>2, <1>4
<1>8. d <= N
  <2>1. c # 0
    <3>1. 0 * d = 0
      OBVIOUS
    <3> QED BY <1>3, <1>6, <3>1
  <2>2. c * d >= d
    BY <2>1
  <2> QED BY <1>3, <2>2
<1>9. N % d = 0
  <2>1. N \in Int /\ d \in Nat \ {0} /\ Divides(d, N)
    BY <1>3, <1>6 DEF Divides
  <2> QED BY <2>1, ModZero
<1>10. d = N
  <2>1. d \in 2..(N-1) => N % d # 0
    BY <1>6 DEF IsPrime
  <2> QED BY <1>6, <1>7, <1>8, <1>9, <2>1
<1>11. Multiple(k, p) # INF /\ Multiple(k, p) \in Points
  <2>1. k \in Nat
    OBVIOUS
  <2> QED BY <1>2, <1>5, <1>10, <2>1
<1> QED BY <1>11 DEF Points

(* point_mul: what is left to add, k times the addend, and the result so    *)
(* far always make the multiple asked for; k is halved until it is zero.    *)
LEMMA DoubleAndAdd ==
  ASSUME NEW p \in Points, NEW k \in Int
  PROVE  point_mul(k, p) = Multiple(k % N, p)
<1> DEFINE Round(s) == IF s.k = 0 THEN s
                       ELSE [k |-> s.k \div 2,
                             result |-> IF s.k % 2 = 1 THEN point_add(s.result, s.addend)
                                                       ELSE s.result,
                             addend |-> point_add(s.addend, s.addend)]
           States == [k : Nat, result : Points, addend : Points]
           s0 == [k |-> k % N, result |-> INF, addend |-> p]
           Loop(f) == f = [i \in 0..N |-> IF i = 0 THEN s0 ELSE Round(f[i-1])]
           loop == CHOOSE f : Loop(f)
           mul == [s \in States |-> [x \in {0} |-> Round(s)]]
           g == Powers(mul, s0, 0, N)
           total == Multiple(k % N, p)
           Inv(s, i) == /\ s \in States
                        /\ s.k = 0 \/ s.k + i < N
                        /\ point_add(s.result, Multiple(s.k, s.addend)) = total
<1>1. N \in Nat \ {0} /\ k % N \in 0..(N-1) /\ INF \in Points
  BY CurveNumbers DEF Points
<1>2. s0 \in States
  BY <1>1
<1>3. \A s \in States : Round(s) \in States
  <2> SUFFICES ASSUME NEW s \in States, s.k # 0 PROVE Round(s) \in States
    OBVIOUS
  <2>1. s.k \div 2 \in Nat /\ point_add(s.result, s.addend) \in Points
        /\ point_add(s.addend, s.addend) \in Points
    BY AddOnCurve
  <2> QED BY <2>1
<1>4. point_mul(k, p) = loop[N].result
  BY DEF point_mul
<1>5. ASSUME NEW s \in States, NEW i \in 0..(N-1), Inv(s, i) PROVE Inv(Round(s), i + 1)
  <2>1. CASE s.k = 0
    BY <1>5, <2>1
  <2>2. CASE s.k # 0
    <3> DEFINE j == s.k \div 2
               b == s.k % 2
               r == s.result
               a == s.addend
               a2 == point_add(a, a)
               r2 == IF b = 1 THEN point_add(r, a) ELSE r
    <3>1. s.k \in Nat /\ r \in Points /\ a \in Points
      OBVIOUS
    <3>2. j \in Nat /\ b \in {0, 1} /\ s.k = b + j * 2 /\ j < s.k
      BY <2>2, <3>1
    <3>3. Round(s) = [k |-> j, result |-> r2, addend |-> a2]
      BY <2>2
    <3>4. a2 \in Points /\ r2 \in Points
      BY <3>1, AddOnCurve
    <3>5. a2 = Multiple(2, a)
      <4>1. Multiple(1 + 1, a) = point_add(Multiple(1, a), Multiple(1, a))
        BY <3>1, MultipleSum
      <4>2. Multiple(1, a) = a /\ 1 + 1 = 2
        BY <3>1, MultipleZeroOne
      <4> QED BY <4>1, <4>2
    <3>6. j = 0 \/ j + (i + 1) < N
      BY <1>5, <2>2, <3>2, <1>1
    <3>7. point_add(r, Multiple(s.k, a)) = total
      BY <1>5
    <3> HIDE DEF j, b, r, a, a2, Round, total, States
    <3>8. Multiple(j, a2) = Multiple(j * 2, a)
      BY <3>1, <3>2, <3>5, MultipleProduct
    <3>9. point_add(r2, Multiple(j, a2)) = total
      <4> DEFINE j2 == j * 2
      <4>1. j2 \in Nat /\ s.k = b + j2
        BY <3>2
      <4>2. Multiple(j, a2) = Multiple(j2, a)
        BY <3>8
      <4> HIDE DEF j2
      <4>3. CASE b = 0
        <5>1. s.k = j2
          BY <4>1, <4>3
        <5> QED BY <3>7, <4>2, <4>3, <5>1
      <4>4. CASE b = 1
        <5> DEFINE q == Multiple(j2, a)
        <5>1. s.k = 1 + j2 /\ q \in Points
          BY <3>1, <4>1, <4>4, MultipleIn
        <5>2. Multiple(1 + j2, a) = point_add(Multiple(1, a), q)
          BY <3>1, <4>1, MultipleSum
        <5>3. Multiple(1, a) = a
          BY <3>1, MultipleZeroOne
        <5> HIDE DEF q
        <5>4. point_add(r, point_add(a, q)) = point_add(point_add(r, a), q)
          BY <3>1, <5>1, AssociativityAssumption
        <5>5. r2 = point_add(r, a)
          BY <4>4
        <5> QED BY <3>7, <4>2, <5>1, <5>2, <5>3, <5>4, <5>5 DEF q
      <4> QED BY <3>2, <4>3, <4>4
    <3> HIDE DEF r2
    <3> DEFINE t == [k |-> j, result |-> r2, addend |-> a2]
    <3>10. t.k = j /\ t.result = r2 /\ t.addend = a2
      OBVIOUS
    <3>11. t \in States
      BY <3>2, <3>4 DEF States
    <3> HIDE DEF t
    <3>12. Inv(t, i + 1)
      BY <3>6, <3>9, <3>10, <3>11
    <3> QED BY <3>3, <3>12 DEF t
  <2> QED BY <2>1, <2>2
<1>6. Inv(s0, 0)
  <2>1. Multiple(k % N, p) \in Points
    BY <1>1, MultipleIn
  <2>2. point_add(INF, total) = total
    BY DEF point_add
  <2>3. s0.k = k % N /\ s0.result = INF /\ s0.addend = p
    OBVIOUS
  <2>4. s0.k + 0 < N
    BY <1>1, <2>3
  <2> HIDE DEF s0
  <2> QED BY <1>2, <2>2, <2>3, <2>4
<1>7. Inv(loop[N], N)
  <2> HIDE DEF Round, States, s0, Inv
  <2>1. \A s \in States : mul[s][0] = Round(s)
    OBVIOUS
  <2> HIDE DEF mul
  <2>2. g = [i \in 0..N |-> IF i = 0 THEN s0 ELSE mul[g[i-1]][0]]
    BY <1>1, PowersDef
  <2> HIDE DEF g
  <2>3. g[0] = s0 /\ \A i \in 1..N : g[i] = mul[g[i-1]][0]
    BY <1>1, <2>2
  <2> DEFINE T == {i \in Nat : g[i] \in States}
  <2>4. \A i \in 0..N : i \in T
    <3>1. 0 \in T
      BY <1>2, <2>3
    <3>2. ASSUME NEW i \in 0..(N-1), i \in T PROVE i + 1 \in T
      <4>1. i + 1 \in 1..N /\ (i + 1) - 1 = i
        BY <1>1
      <4>2. g[i+1] = Round(g[i]) /\ g[i] \in States
        BY <2>1, <2>3, <3>2, <4>1
      <4> QED BY <1>3, <4>1, <4>2
    <3> HIDE DEF T
    <3> QED BY <1>1, <3>1, <3>2, UpTo
  <2>5. \A i \in 0..N : g[i] = IF i = 0 THEN s0 ELSE Round(g[i-1])
    <3> SUFFICES ASSUME NEW i \in 0..N, i # 0 PROVE g[i] = Round(g[i-1])
      BY <2>3
    <3>1. i \in 1..N /\ i - 1 \in 0..N
      BY <1>1
    <3>2. g[i] = mul[g[i-1]][0] /\ g[i-1] \in States
      BY <2>3, <2>4, <3>1
    <3> QED BY <2>1, <3>2
  <2>6. g = [i \in 0..N |-> g[i]]
    BY <2>2
  <2>7. Loop(g)
    BY <2>5, <2>6
  <2>8. \E f : Loop(f)
    BY <2>7
  <2>9. Loop(loop)
    <3> HIDE DEF Loop
    <3> QED BY <2>8
  <2>10. loop = [i \in 0..N |-> IF i = 0 THEN s0 ELSE Round(loop[i-1])]
    BY <2>9
  <2> HIDE DEF loop
  <2>11. loop[0] = s0 /\ \A i \in 1..N : loop[i] = Round(loop[i-1])
    BY <1>1, <2>10
  <2> DEFINE R == {i \in Nat : loop[i] \in States /\ Inv(loop[i], i)}
  <2>12. 0 \in R
    BY <1>2, <1>6, <2>11
  <2>13. ASSUME NEW i \in 0..(N-1), i \in R PROVE i + 1 \in R
    <3>1. i + 1 \in 1..N /\ (i + 1) - 1 = i
      BY <1>1
    <3>2. loop[i+1] = Round(loop[i]) /\ loop[i] \in States /\ Inv(loop[i], i)
      BY <2>11, <2>13, <3>1
    <3> QED BY <1>3, <1>5, <3>1, <3>2
  <2> HIDE DEF R
  <2>14. N \in R
    <3>1. \A i \in 0..N : i \in R
      BY <1>1, <2>12, <2>13, UpTo
    <3> QED BY <1>1, <3>1
  <2> QED BY <2>14 DEF R
<1> HIDE DEF loop, Round, Loop, total
<1> DEFINE s == loop[N]
<1>8. s.k = 0 /\ s.addend \in Points /\ s.result \in Points
      /\ point_add(s.result, Multiple(s.k, s.addend)) = total
  <2>1. Inv(s, N)
    BY <1>7
  <2> HIDE DEF s
  <2>2. s.k \in Nat
    BY <2>1
  <2> QED BY <1>1, <2>1, <2>2
<1> HIDE DEF s
<1>9. Multiple(0, s.addend) = INF
  BY <1>8, MultipleZeroOne
<1>10. point_add(s.result, INF) = s.result
  BY DEF point_add
<1> QED BY <1>4, <1>8, <1>9, <1>10 DEF s, total

-----------------------------------------------------------------------------
(* Compressed keys and signatures. *)

(* (P+1)/4-th powers are square roots of squares. *)
LEMMA SquareRoot ==
  ASSUME NEW y0 \in 0..(P-1), NEW c, c = (y0 * y0) % P, NEW y, y = Pow(c, (P + 1) \div 4, P)
  PROVE  y \in 0..(P-1) /\ (y * y) % P = c
<1> DEFINE e == (P + 1) \div 4
           S == 1..(P-1)
<1>1. P \in Nat \ {0} /\ P \in Nat /\ P > 2 /\ IsPrime(P) /\ P % 4 = 3 /\ 0 \in 0..(P-1)
  BY CurveNumbers
<1>2. e \in Nat \ {0} /\ e - 1 \in Nat /\ (e - 1) + 1 = e /\ e * 2 + e * 2 = (P - 1) + 2
      /\ e * 2 \in Nat
  BY <1>1
<1>3. y = Pow(c, e, P)
  OBVIOUS
<1> HIDE DEF e
<1>4. c \in 0..(P-1)
  <2> DEFINE d == y0 * y0
  <2>1. d \in Int /\ c = d % P
    OBVIOUS
  <2> HIDE DEF d
  <2> QED BY <1>1, <2>1, ModRest
<1>5. y \in 0..(P-1) /\ Pow(c, (e - 1) + 1, P) = (Pow(c, e - 1, P) * c) % P
      /\ Pow(c, e - 1, P) \in Int
  <2>1. c \in Int /\ e \in Nat /\ P > 1
    BY <1>1, <1>2, <1>4
  <2>2. \A k \in Nat : Pow(c, k, P) \in 0..(P-1) /\ Pow(c, k + 1, P) = (Pow(c, k, P) * c) % P
    BY <1>1, <2>1, PowSteps
  <2> QED BY <1>2, <1>3, <2>1, <2>2
<1>6. 0 % P = 0
  BY <1>1, ModSmall
<1>7. CASE y0 = 0
  <2>1. c = 0
    BY <1>6, <1>7
  <2>2. y = 0
    BY <1>2, <1>3, <1>5, <1>6, <2>1
  <2> QED BY <1>5, <1>6, <2>1, <2>2
<1>8. CASE y0 # 0
  <2>1. y0 \in S /\ FiniteGroup(S, 1, Times(P))
    BY <1>1, <1>8, PrimeGroup
  <2>2. Power(Times(P), 1, y0, P - 1) = 1
    BY <1>1, <2>1, Fermat
  <2>3. c = Times(P)[y0][y0]
    BY <2>1 DEF Times
  <2>4. P - 1 \in Nat
    BY <1>1
  <2> HIDE DEF S
  <2> DEFINE v == Power(Times(P), 1, c, e)
  <2>5. c \in S /\ v \in S /\ Times(P)[v][v] = c
    BY <1>2, <2>1, <2>2, <2>3, <2>4, RootOfSquare
  <2>6. y = v
    BY <1>1, <1>2, <1>3, <2>5, PowIsPower DEF S
  <2>7. Times(P)[y][y] = (y * y) % P
    BY <2>5, <2>6 DEF Times, S
  <2> QED BY <1>5, <2>5, <2>6, <2>7
<1> QED BY <1>7, <1>8

(* public_to_bytes, decompress_public_hex: a public key survives its        *)
(* compression to a parity and an x-coordinate.                             *)
THEOREM DecompressCompressed ==
  ASSUME NEW p \in OnCurve
  PROVE  decompress_public(public_to_bytes(p)) = p
<1> DEFINE x == p[1]
           y0 == p[2]
           c == (Pow(x, 3, P) + B) % P
           y == Pow(c, (P + 1) \div 4, P)
           q == <<x, y>>
           key == public_to_bytes(p)
<1>1. P \in Nat \ {0} /\ P \in Nat /\ P > 2 /\ P % 4 = 3 /\ B \in Int
  BY CurveNumbers
<1>2. p = <<x, y0>> /\ x \in 0..(P-1) /\ y0 \in 0..(P-1)
  BY PointCoordinates
<1>3. (y0 * y0) % P = (x * x * x + B) % P
  BY DEF OnCurve
<1>4. key.x = x /\ (key.odd <=> y0 % 2 = 1) /\ key.odd \in BOOLEAN
  BY DEF public_to_bytes
<1>5. decompress_public(key) =
        LET v == Pow((Pow(key.x, 3, P) + B) % P, (P + 1) \div 4, P)
        IN <<key.x, IF (v % 2 = 1) # key.odd THEN P - v ELSE v>>
  BY DEF decompress_public
<1> HIDE DEF key
<1>6. decompress_public(key) = <<x, IF (y % 2 = 1) # key.odd THEN P - y ELSE y>>
  BY <1>4, <1>5
<1> HIDE DEF x, y0
<1>7. c = (y0 * y0) % P
  <2> DEFINE x2 == x * x
             x3 == x2 * x
  <2>1. x \in Int /\ x2 \in Int /\ x3 \in Int /\ P > 1
    BY <1>1, <1>2
  <2>2. Pow(x, 0, P) = 1 /\ \A k \in Nat : Pow(x, k + 1, P) = (Pow(x, k, P) * x) % P
    BY <1>1, <2>1, PowSteps
  <2>3. Pow(x, 1, P) = x
    <3>1. Pow(x, 0 + 1, P) = (Pow(x, 0, P) * x) % P
      BY <2>2
    <3>2. 1 * x = x /\ 0 + 1 = 1
      BY <2>1
    <3>3. x % P = x
      BY <1>1, <1>2, ModSmall
    <3> QED BY <2>2, <3>1, <3>2, <3>3
  <2>4. Pow(x, 2, P) = x2 % P
    <3>1. Pow(x, 1 + 1, P) = (Pow(x, 1, P) * x) % P
      BY <2>2
    <3>2. 1 + 1 = 2
      OBVIOUS
    <3> QED BY <2>3, <3>1, <3>2
  <2>5. Pow(x, 3, P) = x3 % P
    <3>1. Pow(x, 2 + 1, P) = (Pow(x, 2, P) * x) % P
      BY <2>2
    <3>2. 2 + 1 = 3
      OBVIOUS
    <3> HIDE DEF x2
    <3>3. ((x2 % P) * x) % P = (x2 * x) % P
      BY <1>1, <2>1, ModTimes
    <3> QED BY <2>4, <3>1, <3>2, <3>3
  <2> HIDE DEF x3
  <2>6. ((x3 % P) + B) % P = (x3 + B) % P
    BY <1>1, <2>1, ModPlus
  <2>7. x3 = x * x * x
    BY DEF x3
  <2> QED BY <1>3, <2>5, <2>6, <2>7
<1> HIDE DEF c
<1>8. y \in 0..(P-1) /\ (y * y) % P = c
  BY <1>2, <1>7, SquareRoot
<1> HIDE DEF y
<1>9. q \in OnCurve /\ p \in OnCurve /\ q[1] = p[1]
  <2>1. (y * y) % P = (x * x * x + B) % P
    BY <1>3, <1>7, <1>8
  <2>2. q \in OnCurve
    BY <1>2, <1>8, <2>1 DEF OnCurve
  <2> QED BY <1>2, <2>2
<1>10. q = p \/ (y + y0) % P = 0
  <2>1. q = p \/ (q[2] + p[2]) % P = 0
    BY <1>9, SameX
  <2> QED BY <1>2, <2>1
<1>11. y = y0 \/ (y + y0 = P)
  <2>1. CASE q = p
    BY <1>2, <2>1
  <2>2. CASE (y + y0) % P = 0
    <3> DEFINE s == y + y0
    <3>1. s \in Int /\ 0 <= s /\ s < 2 * P /\ (s = 0 => y = y0)
      BY <1>1, <1>2, <1>8
    <3>2. s % P = 0
      BY <2>2
    <3>3. s = y + y0
      OBVIOUS
    <3> HIDE DEF s
    <3>4. PICK k \in Int : s = k * P
      BY <1>1, <3>1, <3>2, ModZero DEF Divides
    <3>5. k >= 0
      <4>1. k <= -1 => k * P <= -P
        BY <1>1
      <4> QED BY <1>1, <3>1, <3>4, <4>1
    <3>6. k <= 1
      <4>1. k >= 2 => k * P >= 2 * P
        BY <1>1
      <4> QED BY <1>1, <3>1, <3>4, <4>1
    <3>7. s = 0 \/ s = P
      <4>1. k = 0 \/ k = 1
        BY <3>5, <3>6
      <4>2. 0 * P = 0 /\ 1 * P = P
        BY <1>1
      <4> QED BY <3>4, <4>1, <4>2
    <3> QED BY <3>1, <3>3, <3>7
  <2> QED BY <1>10, <2>1, <2>2
<1>12. CASE y = y0
  <2>1. ~((y % 2 = 1) # key.odd)
    BY <1>4, <1>12
  <2>2. decompress_public(key) = <<x, y>>
    BY <1>6, <2>1
  <2> QED BY <1>2, <1>12, <2>2 DEF key
<1>13. CASE y # y0 /\ y + y0 = P
  <2>1. (y % 2 = 1) <=> ~(y0 % 2 = 1)
    BY <1>1, <1>2, <1>8, <1>13
  <2>2. (y % 2 = 1) # key.odd
    BY <1>4, <2>1
  <2>3. P - y = y0
    BY <1>1, <1>2, <1>8, <1>13
  <2>4. decompress_public(key) = <<x, P - y>>
    BY <1>6, <2>2
  <2> QED BY <1>2, <2>3, <2>4 DEF key
<1> QED BY <1>11, <1>12, <1>13

(* Solving s*k = t modulo a prime. *)
LEMMA Solves ==
  ASSUME NEW p, IsPrime(p), NEW s \in 1..(p-1), NEW k \in 0..(p-1), NEW t \in Int
  PROVE  (_inv(s, p) * t) % p = k <=> Divides(p, s * k - t)
<1> DEFINE i == _inv(s, p)
           it == i * t
           ti == t * i
           lam == it % p
           d == s * k - t
           e == lam * s - t
           f == lam - k
           fs == f * s
<1>1. p \in Nat \ {0} /\ p \in Nat /\ p > 1 /\ s \in Int /\ k \in Int
  BY DEF IsPrime
<1>2. ~Divides(p, s)
  <2>1. -p < s /\ s < p /\ s # 0
    BY <1>1
  <2> QED BY <1>1, <2>1, DividesSmall
<1>3. i \in 1..(p-1)
  BY <1>1, <1>2, InverseModPrime
<1>4. i = _inv(s, p)
  OBVIOUS
<1> HIDE DEF i
<1>5. it = ti /\ it \in Int
  BY <1>3
<1>6. lam = (t * _inv(s, p)) % p
  BY <1>4, <1>5
<1>7. it = i * t
  OBVIOUS
<1> HIDE DEF it
<1>8. lam \in 0..(p-1)
  BY <1>1, <1>5, ModRest
<1>9. lam = it % p
  OBVIOUS
<1> HIDE DEF lam
<1>10. lam \in Int /\ Divides(p, e)
  BY <1>1, <1>2, <1>6, Quotient
<1>11. d \in Int /\ e \in Int /\ f \in Int /\ fs = e - d /\ (f = 0 <=> lam = k)
       /\ -p < f /\ f < p /\ (lam = k => e = d)
  BY <1>1, <1>8, <1>10
<1>12. d = s * k - t
  OBVIOUS
<1> HIDE DEF d, e, f
<1>13. ASSUME Divides(p, d) PROVE lam = k
  <2>1. Divides(p, fs)
    <3>1. Divides(p, e - d)
      BY <1>1, <1>10, <1>11, <1>13, DividesSum
    <3> QED BY <1>11, <3>1
  <2>2. fs = s * f
    BY <1>1, <1>11
  <2>3. Divides(p, f)
    BY <1>1, <1>2, <1>11, <2>1, <2>2, Euclid
  <2> QED BY <1>1, <1>11, <2>3, DividesSmall
<1>14. ASSUME lam = k PROVE Divides(p, d)
  BY <1>10, <1>11, <1>14
<1> QED BY <1>4, <1>7, <1>9, <1>12, <1>13, <1>14

(* The key that belongs to a private key. *)
LEMMA PublicKey ==
  ASSUME NEW priv \in 1..(N-1)
  PROVE  /\ private_to_public(priv) = Multiple(priv, G)
         /\ Multiple(priv, G) \in OnCurve
         /\ decompress_public(public_to_bytes(private_to_public(priv))) = Multiple(priv, G)
<1>1. N \in Nat \ {0} /\ priv \in 0..(N-1) /\ priv \in Int
  BY CurveNumbers
<1>2. G \in OnCurve /\ G \in Points
  BY CurveAssumption DEF Points
<1>3. priv % N = priv
  BY <1>1, ModSmall
<1>4. private_to_public(priv) = Multiple(priv, G)
  BY <1>1, <1>2, <1>3, DoubleAndAdd DEF private_to_public
<1>5. Multiple(priv, G) \in OnCurve
  BY <1>2, MultipleNotInf
<1> QED BY <1>4, <1>5, DecompressCompressed

(* The multiple of G that verify computes. *)
Verified(priv, z, sig) == (_inv(sig[2], N) * (z + sig[1] * priv)) % N

(* verify_hex by it. *)
LEMMA VerifiedPoint ==
  ASSUME NEW priv \in 1..(N-1), NEW z \in Nat, NEW r \in Nat, NEW s \in Nat
  PROVE  verify_hex(public_to_bytes(private_to_public(priv)), z, << r, s >>) <=>
           /\ r \in 1..(N-1) /\ s \in 1..(N-1)
           /\ Verified(priv, z, << r, s >>) \in 1..(N-1)
           /\ Multiple(Verified(priv, z, << r, s >>), G)[1] % N = r
<1> DEFINE sig == << r, s >>
           key == public_to_bytes(private_to_public(priv))
           pub == Multiple(priv, G)
           w == _inv(s, N)
           zw == z * w
           rw == r * w
           rwp == rw * priv
           t == z + r * priv
           wt == w * t
           K == wt % N
<1>1. N \in Nat \ {0} /\ N > 1 /\ IsPrime(N) /\ N \in Nat
  BY CurveNumbers
<1>2. G \in OnCurve /\ G \in Points
  BY CurveAssumption DEF Points
<1>3. decompress_public(key) = pub /\ pub \in Points
  BY PublicKey DEF Points
<1>4. sig[1] = r /\ sig[2] = s
  OBVIOUS
<1>5. verify_hex(key, z, sig) <=>
        LET q == point_add(point_mul(zw % N, G), point_mul(rw % N, pub))
        IN r \in 1..(N-1) /\ s \in 1..(N-1) /\ q # INF /\ q[1] % N = r
  <2> HIDE DEF key, pub
  <2>1. InRange(sig) <=> r \in 1..(N-1) /\ s \in 1..(N-1)
    BY <1>1 DEF InRange
  <2>2. verify_hex(key, z, sig) <=> verify(pub, z, sig)
    BY <1>3 DEF verify_hex
  <2> QED BY <2>1, <2>2, <1>4 DEF verify
<1>6. CASE s \notin 1..(N-1)
  BY <1>5, <1>6
<1>7. CASE s \in 1..(N-1)
  <2>1. w \in 1..(N-1)
    <3>1. ~Divides(N, s) /\ s \in Int
      <4>1. s \in Int /\ -N < s /\ s < N /\ s # 0
        BY <1>1, <1>7
      <4> QED BY <1>1, <4>1, DividesSmall
    <3> QED BY <1>1, <3>1, InverseModPrime
  <2>2. w = _inv(s, N) /\ pub = Multiple(priv, G)
    OBVIOUS
  <2> HIDE DEF w, pub, key
  <2>3. zw \in Nat /\ rw \in Nat /\ rwp \in Nat /\ t \in Nat /\ wt \in Nat /\ zw + rwp = wt
    <3>1. w \in Nat /\ priv \in Nat
      BY <1>1, <2>1
    <3> QED BY <3>1
  <2>4. Verified(priv, z, sig) = K
    BY <1>4, <2>2 DEF Verified
  <2>5. rw * priv = rwp
    OBVIOUS
  <2> HIDE DEF zw, rw, rwp, wt, t
  <2>6. \A k \in Nat, q \in Points : point_mul(k % N, q) = Multiple(k, q)
    <3> SUFFICES ASSUME NEW k \in Nat, NEW q \in Points
                 PROVE  point_mul(k % N, q) = Multiple(k, q)
      OBVIOUS
    <3> DEFINE m == k % N
    <3>1. m \in 0..(N-1)
      BY <1>1
    <3>2. m = k % N
      OBVIOUS
    <3> HIDE DEF m
    <3>3. m \in Int /\ m % N = m
      BY <1>1, <3>1, ModSmall
    <3>4. point_mul(m, q) = Multiple(m, q)
      BY <3>3, DoubleAndAdd
    <3> QED BY <3>2, <3>4, MultipleReduced
  <2>7. point_mul(zw % N, G) = Multiple(zw, G) /\ point_mul(rw % N, pub) = Multiple(rw, pub)
    BY <1>2, <1>3, <2>3, <2>6
  <2>8. Multiple(rw, pub) = Multiple(rwp, G)
    <3>1. priv \in Nat
      BY <1>1
    <3> QED BY <1>2, <2>2, <2>3, <2>5, <3>1, MultipleProduct
  <2>9. point_add(Multiple(zw, G), Multiple(rwp, G)) = Multiple(K, G)
    <3>1. Multiple(zw + rwp, G) = point_add(Multiple(zw, G), Multiple(rwp, G))
      BY <1>2, <2>3, MultipleSum
    <3>2. Multiple(wt % N, G) = Multiple(wt, G)
      BY <1>2, <2>3, MultipleReduced
    <3> QED BY <2>3, <3>1, <3>2
  <2>10. K \in 0..(N-1)
    BY <1>1, <2>3
  <2> HIDE DEF K
  <2>11. Multiple(K, G) # INF <=> K \in 1..(N-1)
    <3>1. CASE K = 0
      BY <1>2, <3>1, MultipleZeroOne
    <3>2. CASE K # 0
      <4>1. K \in 1..(N-1)
        BY <1>1, <2>10, <3>2
      <4>2. Multiple(K, G) \in OnCurve
        BY <1>2, <4>1, MultipleNotInf
      <4> QED BY <4>1, <4>2, PointCoordinates
    <3> QED BY <3>1, <3>2
  <2>12. verify_hex(key, z, sig) <=>
           r \in 1..(N-1) /\ s \in 1..(N-1) /\ K \in 1..(N-1) /\ Multiple(K, G)[1] % N = r
    BY <1>5, <2>7, <2>8, <2>9, <2>11
  <2> QED BY <2>4, <2>12 DEF key
<1> QED BY <1>6, <1>7

(* The first half of a signature... *)
LEMMA FirstHalf ==
  ASSUME NEW k \in 1..(N-1)
  PROVE  sig_r(k) = Multiple(k, G)[1] % N /\ sig_r(k) \in 0..(N-1)
<1> DEFINE q == Multiple(k, G)
<1>1. N \in Nat \ {0} /\ k \in 0..(N-1) /\ k \in Int
  BY CurveNumbers
<1>2. G \in OnCurve /\ G \in Points
  BY CurveAssumption DEF Points
<1>3. point_mul(k, G) = q
  <2>1. k % N = k
    BY <1>1, ModSmall
  <2> QED BY <1>1, <1>2, <2>1, DoubleAndAdd
<1>4. q \in OnCurve
  BY <1>2, MultipleNotInf
<1> HIDE DEF q
<1>5. q[1] \in Int
  BY <1>4, PointCoordinates
<1>6. sig_r(k) = q[1] % N
  BY <1>3 DEF sig_r
<1> QED BY <1>1, <1>5, <1>6 DEF q

(* ... and the second. *)
LEMMA SecondHalf ==
  ASSUME NEW priv \in 1..(N-1), NEW z \in Nat, NEW k \in 1..(N-1)
  PROVE  sig_s(priv, z, k) \in 0..(N-1) /\ sig_s(priv, z, k) \in Int
<1> DEFINE i == _inv(k, N)
           t == z + sig_r(k) * priv
           it == i * t
<1>1. N \in Nat \ {0} /\ N \in Nat /\ IsPrime(N) /\ k \in Int /\ priv \in Nat
  BY CurveNumbers
<1>2. ~Divides(N, k)
  <2>1. -N < k /\ k < N /\ k # 0
    BY <1>1
  <2> QED BY <1>1, <2>1, DividesSmall
<1>3. i \in 1..(N-1)
  BY <1>1, <1>2, InverseModPrime
<1>4. t \in Nat
  <2> DEFINE r == sig_r(k)
  <2>1. r \in 0..(N-1)
    BY FirstHalf
  <2> HIDE DEF r
  <2>2. z + r * priv \in Nat
    BY <1>1, <2>1
  <2> QED BY <2>2 DEF r
<1>5. sig_s(priv, z, k) = it % N
  BY DEF sig_s
<1> HIDE DEF i, t
<1>6. it \in Int
  BY <1>3, <1>4
<1> HIDE DEF it
<1>7. it % N \in 0..(N-1)
  BY <1>1, <1>6
<1> QED BY <1>1, <1>5, <1>7

(* The opposite multiple has the same x-coordinate. *)
LEMMA OppositeMultiple ==
  ASSUME NEW k \in 1..(N-1)
  PROVE  Multiple(N - k, G)[1] = Multiple(k, G)[1]
<1> DEFINE p == Multiple(k, G)
           q == Multiple(N - k, G)
           n == Opposite(p)
<1>1. N \in Nat \ {0} /\ k \in Nat /\ N - k \in Nat /\ k + (N - k) = N
  BY CurveNumbers
<1>2. G \in OnCurve /\ G \in Points
  BY CurveAssumption DEF Points
<1>3. p \in OnCurve /\ p \in Points /\ q \in Points
  BY <1>1, <1>2, MultipleNotInf, MultipleIn DEF Points
<1>4. point_add(p, q) = INF
  <2>1. Multiple(k + (N - k), G) = point_add(p, q)
    BY <1>1, <1>2, MultipleSum
  <2> QED BY <1>1, <1>2, <2>1, MultipleOrder
<1> HIDE DEF p, q
<1>5. n \in Points /\ point_add(p, n) = INF
  BY <1>3, OppositeCancels
<1>6. q = n
  <2>1. Adding[p][q] = INF /\ Adding[p][n] = INF
    BY <1>3, <1>4, <1>5 DEF Adding
  <2>2. \A a, b, c \in Points : Adding[a][b] = Adding[a][c] => b = c
    BY PointGroup DEF FiniteGroup
  <2> HIDE DEF n
  <2> QED BY <1>3, <1>5, <2>1, <2>2
<1>7. n[1] = p[1]
  BY <1>3, PointCoordinates DEF Opposite
<1> QED BY <1>6, <1>7 DEF p, q

(* sign: whatever its nonce, its signature verifies, and so does the one    *)
(* that has the other sign.                                                 *)
LEMMA SignedThenVerified ==
  ASSUME NEW priv \in 1..(N-1), NEW z \in Nat, NEW k \in 1..(N-1), Signs(priv, z, k),
         NEW s \in {sig_s(priv, z, k), N - sig_s(priv, z, k)}
  PROVE  verify_hex(public_to_bytes(private_to_public(priv)), z, << sig_r(k), s >>)
<1> DEFINE r == sig_r(k)
           s0 == sig_s(priv, z, k)
           t == z + r * priv
           K == Verified(priv, z, << r, s >>)
           d == s0 * k - t
<1>1. N \in Nat \ {0} /\ N \in Nat /\ IsPrime(N) /\ k \in Int /\ priv \in Nat
  BY CurveNumbers
<1>2. r \in 0..(N-1) /\ r = Multiple(k, G)[1] % N
  BY FirstHalf
<1>3. r # 0 /\ s0 # 0
  BY DEF Signs
<1>4. s0 = (_inv(k, N) * t) % N
  BY DEF sig_s
<1>5. r = sig_r(k) /\ s0 = sig_s(priv, z, k)
  OBVIOUS
<1> HIDE DEF r
<1>6. t \in Nat /\ t \in Int
  BY <1>1, <1>2
<1>7. t = z + r * priv
  OBVIOUS
<1> HIDE DEF t, s0
<1>8. s0 \in 0..(N-1)
  BY <1>5, SecondHalf
<1>9. s0 \in 1..(N-1) /\ r \in 1..(N-1) /\ s \in {s0, N - s0}
  BY <1>1, <1>2, <1>3, <1>5, <1>8
<1>10. Divides(N, d) /\ d \in Int
  <2>1. Divides(N, k * s0 - t)
    BY <1>1, <1>4, <1>6, <1>8, Solves
  <2>2. k * s0 - t = d /\ d \in Int
    BY <1>1, <1>6, <1>8
  <2> QED BY <2>1, <2>2
<1>11. d = s0 * k - t
  OBVIOUS
<1> HIDE DEF d
<1>12. ASSUME NEW u \in 1..(N-1), NEW j \in 1..(N-1), Divides(N, u * j - t)
       PROVE  Verified(priv, z, << r, u >>) = j
  <2>1. (_inv(u, N) * t) % N = j
    <3>1. j \in 0..(N-1)
      BY <1>1
    <3> QED BY <1>1, <1>6, <1>12, <3>1, Solves
  <2> QED BY <1>7, <2>1 DEF Verified
<1>13. K \in {k, N - k}
  <2>1. CASE s = s0
    BY <1>9, <1>10, <1>11, <1>12, <2>1
  <2>2. CASE s = N - s0
    <3> DEFINE c == N - s0 - k
               Nc == c * N
               u == N - s0
               j == N - k
    <3>1. u \in 1..(N-1) /\ j \in 1..(N-1) /\ u * j - t = Nc + d
      BY <1>1, <1>6, <1>9, <1>11
    <3>2. Nc \in Int /\ Divides(N, Nc)
      <4>1. c \in Int
        BY <1>1, <1>9
      <4> HIDE DEF c
      <4>2. c * N \in Int
        BY <1>1, <4>1
      <4> QED BY <4>1, <4>2 DEF Divides
    <3> HIDE DEF Nc
    <3>3. Divides(N, Nc + d)
      BY <1>1, <1>10, <3>2, DividesSum
    <3>4. s = u /\ N - k = j
      BY <2>2
    <3> HIDE DEF u, j
    <3>5. Verified(priv, z, << r, u >>) = j
      BY <1>12, <3>1, <3>3
    <3> QED BY <3>4, <3>5
  <2> QED BY <1>9, <2>1, <2>2
<1> HIDE DEF K
<1>14. K \in 1..(N-1) /\ Multiple(K, G)[1] % N = r
  <2>1. N - k \in 1..(N-1)
    BY <1>1
  <2> QED BY <1>2, <1>13, <2>1, OppositeMultiple
<1>15. s \in 1..(N-1) /\ s \in Nat /\ r \in Nat
  BY <1>1, <1>9
<1>16. verify_hex(public_to_bytes(private_to_public(priv)), z, << r, s >>)
  BY <1>9, <1>14, <1>15, VerifiedPoint DEF K
<1> QED BY <1>5, <1>16

(* verify_hex: what it accepts is what some nonce leads to. *)
LEMMA VerifiedThenSigned ==
  ASSUME NEW priv \in 1..(N-1), NEW z \in Nat, NEW r \in Nat, NEW s \in Nat,
         verify_hex(public_to_bytes(private_to_public(priv)), z, << r, s >>)
  PROVE  \E k \in 1..(N-1) : /\ Signs(priv, z, k)
                             /\ r = sig_r(k) /\ s = sig_s(priv, z, k)
<1> DEFINE t == z + r * priv
           k == Verified(priv, z, << r, s >>)
<1>1. N \in Nat \ {0} /\ N \in Nat /\ IsPrime(N)
  BY CurveNumbers
<1>2. r \in 1..(N-1) /\ s \in 1..(N-1) /\ k \in 1..(N-1) /\ Multiple(k, G)[1] % N = r
  BY VerifiedPoint
<1>3. k = (_inv(s, N) * t) % N
  BY DEF Verified
<1> HIDE DEF k
<1>4. sig_r(k) = r
  BY <1>2, FirstHalf
<1>5. t = z + r * priv /\ t \in Int
  BY <1>1
<1> HIDE DEF t
<1>6. Divides(N, s * k - t)
  <2>1. k \in 0..(N-1)
    BY <1>1, <1>2
  <2> QED BY <1>1, <1>2, <1>3, <1>5, <2>1, Solves
<1>7. (_inv(k, N) * t) % N = s
  <2>1. s \in 0..(N-1) /\ s * k = k * s
    BY <1>1, <1>2
  <2> QED BY <1>1, <1>2, <1>5, <1>6, <2>1, Solves
<1>8. sig_s(priv, z, k) = s
  BY <1>4, <1>5, <1>7 DEF sig_s
<1>9. Signs(priv, z, k)
  BY <1>2, <1>4, <1>8 DEF Signs
<1> QED BY <1>2, <1>4, <1>8, <1>9

(* sign returns one of the two. *)
LEMMA SignReturns ==
  ASSUME NEW priv, NEW z, NEW k, NEW s, s = sig_s(priv, z, k), s \in Int
  PROVE  /\ sign(priv, z, k)[1] = sig_r(k) /\ sign(priv, z, k)[2] \in {s, N - s}
         /\ sign(priv, z, k) = << sig_r(k), sign(priv, z, k)[2] >>
         /\ s \in {sign(priv, z, k)[2], N - sign(priv, z, k)[2]}
<1>1. N \in Nat
  BY CurveNumbers
<1>2. sign(priv, z, k) = << sig_r(k), IF s > N \div 2 THEN N - s ELSE s >>
  BY DEF sign
<1>3. CASE s > N \div 2
  <2>1. sign(priv, z, k) = << sig_r(k), N - s >> /\ N - (N - s) = s
    BY <1>1, <1>2, <1>3
  <2> QED BY <2>1
<1>4. CASE ~(s > N \div 2)
  <2>1. sign(priv, z, k) = << sig_r(k), s >>
    BY <1>2, <1>4
  <2> QED BY <2>1
<1> QED BY <1>3, <1>4

(* point_mul: on every such curve double-and-add computes the k-fold sum,   *)
(* on the curve, for every k, beyond the order of the group too.            *)
THEOREM DoubleAndAddMultiplies == Spec => []MultipliesOnCurve
<1>1. Init => MultipliesOnCurve
  BY DEF Init, Idle, MultipliesOnCurve
<1>2. MultipliesOnCurve /\ [Next]_call => MultipliesOnCurve'
  <2> SUFFICES ASSUME MultipliesOnCurve, [Next]_call PROVE MultipliesOnCurve'
    OBVIOUS
  <2>1. CASE Multiply
    <3>1. PICK k \in 0..(2*N) : \E p \in Points :
            call' = [op |-> "multiply", k |-> k, p |-> p, result |-> point_mul(k, p)]
      BY <2>1 DEF Multiply
    <3>2. PICK p \in Points :
            call' = [op |-> "multiply", k |-> k, p |-> p, result |-> point_mul(k, p)]
      BY <3>1
    <3>3. k \in Nat /\ k \in Int
      OBVIOUS
    <3>4. point_mul(k, p) = Multiple(k, p) /\ Multiple(k, p) \in Points
      BY <3>3, DoubleAndAdd, MultipleReduced, MultipleIn
    <3> DEFINE result == point_mul(k, p)
    <3>5. result = Multiple(k, p) /\ result \in Points
      BY <3>4
    <3>6. call' = [op |-> "multiply", k |-> k, p |-> p, result |-> result]
      BY <3>2
    <3> HIDE DEF result
    <3>7. call'.k = k /\ call'.p = p /\ call'.result = result
      BY <3>6
    <3> QED BY <3>5, <3>7 DEF MultipliesOnCurve
  <2>2. CASE UNCHANGED call
    BY <2>2 DEF MultipliesOnCurve
  <2>3. CASE \/ ProveInclusion \/ CheckInclusion \/ AggregateUpdates \/ SignMessage
             \/ VerifySignature \/ ValidateSeal \/ Retarget \/ Return
    <3>1. call'.op # "multiply"
      BY <2>3, KindOfCall
    <3> QED BY <3>1 DEF MultipliesOnCurve
  <2> QED BY <2>1, <2>2, <2>3 DEF Next
<1> QED BY <1>1, <1>2, PTL DEF Spec

(* The property of the signature that some nonce leads to. *)
SomeNonce(priv, z, sig) ==
  \E k \in 1..(N-1) :
    /\ Signs(priv, z, k)
    /\ LET signed == sign(priv, z, k)
       IN sig \in {signed, << signed[1], N - signed[2] >>}

(* It is what verify_hex decides. *)
LEMMA AcceptedIffSomeNonce ==
  ASSUME NEW priv \in 1..(N-1), NEW z \in Nat, NEW sig \in (0..N) \X (0..N)
  PROVE  verify_hex(public_to_bytes(private_to_public(priv)), z, sig) <=> SomeNonce(priv, z, sig)
<1> DEFINE accepted == verify_hex(public_to_bytes(private_to_public(priv)), z, sig)
<1>1. N \in Nat
  BY CurveNumbers
<1>2. PICK r \in 0..N, s \in 0..N : sig = << r, s >>
  OBVIOUS
<1>3. ASSUME accepted PROVE SomeNonce(priv, z, sig)
  <2>1. PICK k \in 1..(N-1) : Signs(priv, z, k) /\ r = sig_r(k) /\ s = sig_s(priv, z, k)
    <3>1. r \in Nat /\ s \in Nat
      BY <1>1
    <3> QED BY <1>2, <1>3, <3>1, VerifiedThenSigned
  <2> DEFINE signed == sign(priv, z, k)
  <2>2. signed[1] = r /\ signed = << r, signed[2] >> /\ s \in {signed[2], N - signed[2]}
    BY <1>1, <2>1, SignReturns
  <2> HIDE DEF signed
  <2>3. sig \in {signed, << signed[1], N - signed[2] >>}
    BY <1>2, <2>2
  <2> QED BY <2>1, <2>3 DEF SomeNonce, signed
<1>4. ASSUME SomeNonce(priv, z, sig) PROVE accepted
  <2>1. PICK k \in 1..(N-1) :
          /\ Signs(priv, z, k)
          /\ LET signed == sign(priv, z, k)
             IN sig \in {signed, << signed[1], N - signed[2] >>}
    BY <1>4 DEF SomeNonce
  <2> DEFINE s0 == sig_s(priv, z, k)
             signed == sign(priv, z, k)
  <2>2. s0 \in Int
    BY <2>1, SecondHalf
  <2>3. s0 = sig_s(priv, z, k)
    OBVIOUS
  <2> HIDE DEF s0
  <2>4. signed[1] = sig_r(k) /\ signed[2] \in {s0, N - s0} /\ signed = << sig_r(k), signed[2] >>
    BY <2>2, <2>3, SignReturns
  <2>5. sig \in {signed, << signed[1], N - signed[2] >>}
    BY <2>1
  <2> HIDE DEF signed
  <2>6. r = sig_r(k) /\ s \in {signed[2], N - signed[2]}
    BY <1>2, <2>4, <2>5
  <2>7. N - (N - s0) = s0
    BY <1>1, <2>2
  <2>8. s \in {s0, N - s0}
    BY <2>4, <2>6, <2>7
  <2> QED BY <1>2, <2>1, <2>3, <2>6, <2>8, SignedThenVerified
<1> QED BY <1>3, <1>4

(* What sign returns can be verified. *)
LEMMA SignedIsAccepted ==
  ASSUME NEW priv \in 1..(N-1), NEW z \in Nat, NEW k \in 1..(N-1), Signs(priv, z, k)
  PROVE  verify_hex(public_to_bytes(private_to_public(priv)), z, sign(priv, z, k))
<1> DEFINE s0 == sig_s(priv, z, k)
           signed == sign(priv, z, k)
<1>1. s0 \in Int /\ s0 = sig_s(priv, z, k)
  BY SecondHalf
<1> HIDE DEF s0
<1>2. signed = << sig_r(k), signed[2] >> /\ signed[2] \in {s0, N - s0}
  BY <1>1, SignReturns
<1>3. verify_hex(public_to_bytes(private_to_public(priv)), z, << sig_r(k), signed[2] >>)
  <2> DEFINE s == signed[2]
  <2>1. s \in {sig_s(priv, z, k), N - sig_s(priv, z, k)}
    BY <1>1, <1>2
  <2> HIDE DEF s, signed
  <2>2. verify_hex(public_to_bytes(private_to_public(priv)), z, << sig_r(k), s >>)
    BY <2>1, SignedThenVerified
  <2> QED BY <2>2 DEF s
<1> QED BY <1>2, <1>3

(* The actions that make no call of this kind. *)
LEMMA OtherThanSignatures ==
  ProveInclusion \/ CheckInclusion \/ AggregateUpdates \/ Multiply \/ ValidateSeal
    \/ Retarget \/ Return => call'.op \notin {"sign", "verify"}
BY KindOfCall

(* sign, verify_hex: on every such curve signatures are accepted, through   *)
(* the compressed key, and what is accepted is a signature of this message  *)
(* by this key under some nonce, s being determined up to its sign.         *)
THEOREM SignaturesVerify == Spec => []SignedIffVerified
<1>1. Init => SignedIffVerified
  BY DEF Init, Idle, SignedIffVerified
<1>2. ASSUME call'.op \notin {"sign", "verify"} PROVE SignedIffVerified'
  BY <1>2 DEF SignedIffVerified
<1>3. SignedIffVerified /\ [Next]_call => SignedIffVerified'
  <2> SUFFICES ASSUME SignedIffVerified, [Next]_call PROVE SignedIffVerified'
    OBVIOUS
  <2>1. CASE SignMessage
    <3>1. PICK priv \in Keys, z \in Messages, k \in 1..(N-1) :
            /\ Signs(priv, z, k)
            /\ call' = [op |-> "sign", priv |-> priv, z |-> z, sig |-> sign(priv, z, k)]
      BY <2>1, Zenon DEF SignMessage
    <3>2. priv \in 1..(N-1) /\ z \in Nat
      BY KeysAssumption
    <3> DEFINE signed == sign(priv, z, k)
    <3>3. verify_hex(public_to_bytes(private_to_public(priv)), z, signed)
      BY <3>1, <3>2, SignedIsAccepted
    <3>4. call' = [op |-> "sign", priv |-> priv, z |-> z, sig |-> signed]
      BY <3>1
    <3> HIDE DEF signed
    <3>5. call'.op = "sign" /\ call'.priv = priv /\ call'.z = z /\ call'.sig = signed
      BY <3>4
    <3>6. verify_hex(public_to_bytes(private_to_public(call'.priv)), call'.z, call'.sig)
      BY <3>3, <3>5, Zenon
    <3>7. call'.op # "verify"
      BY <3>5
    <3> QED BY <3>6, <3>7 DEF SignedIffVerified
  <2>2. CASE VerifySignature
    <3>1. PICK priv \in Keys, z \in Messages, sig \in (0..N) \X (0..N) :
            LET key == public_to_bytes(private_to_public(priv))
            IN call' = [op |-> "verify", priv |-> priv, z |-> z, sig |-> sig,
                        accepted |-> verify_hex(key, z, sig)]
      BY <2>2, Zenon DEF VerifySignature
    <3>2. priv \in 1..(N-1) /\ z \in Nat
      BY KeysAssumption
    <3> DEFINE accepted == verify_hex(public_to_bytes(private_to_public(priv)), z, sig)
    <3>3. accepted <=> SomeNonce(priv, z, sig)
      BY <3>2, AcceptedIffSomeNonce
    <3>4. call' = [op |-> "verify", priv |-> priv, z |-> z, sig |-> sig, accepted |-> accepted]
      BY <3>1
    <3> HIDE DEF accepted
    <3>5. call'.op = "verify" /\ call'.priv = priv /\ call'.z = z /\ call'.sig = sig
          /\ call'.accepted = accepted
      BY <3>4
    <3>6. call'.accepted <=> SomeNonce(call'.priv, call'.z, call'.sig)
      BY <3>3, <3>5, Zenon
    <3>7. call'.op # "sign"
      BY <3>5
    <3> QED BY <3>6, <3>7 DEF SignedIffVerified, SomeNonce
  <2>3. CASE UNCHANGED call
    BY <2>3 DEF SignedIffVerified
  <2>4. CASE \/ ProveInclusion \/ CheckInclusion \/ AggregateUpdates \/ Multiply
             \/ ValidateSeal \/ Retarget \/ Return
    BY <1>2, <2>4, OtherThanSignatures
  <2> QED BY <2>1, <2>2, <2>3, <2>4 DEF Next
<1> QED BY <1>1, <1>3, PTL DEF Spec

=============================================================================
