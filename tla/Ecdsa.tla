------------------------------- MODULE Ecdsa --------------------------------
(***************************************************************************)
(* src/neurochain/core/crypto.py: the curve y^2 = x^3 + B over the integers *)
(* modulo P, and ECDSA signatures on it.  P, N, B and the generator G are   *)
(* parameters; the code has those of secp256k1, whose assumptions are kept. *)
(* Keys are their parity and x-coordinate; a message is the number z its    *)
(* hash makes; the nonce RFC 6979 derives from (priv, z) is any below N.    *)
(***************************************************************************)
EXTENDS Integers, Sequences, FiniteSets

CONSTANTS P, N, B, G

INF == <<0, 0>>

OnCurve == { p \in (0..(P-1)) \X (0..(P-1)) :
               (p[2] * p[2]) % P = (p[1] * p[1] * p[1] + B) % P }

Points == OnCurve \cup {INF}

Prime(n) == n > 1 /\ \A d \in 2..(n-1) : n % d # 0

(* Square roots are powers of (P+1)/4, and every point is a multiple of G.  *)
ASSUME CurveAssumption ==
  /\ {P, N, B} \subseteq Nat
  /\ Prime(P) /\ P % 4 = 3 /\ Prime(N) /\ N < P
  /\ G \in OnCurve /\ INF \notin OnCurve
  /\ Cardinality(OnCurve) = N - 1

(* Python's pow(x, e, m). *)
Pow(x, e, m) ==
  LET p[i \in 0..e] == IF i = 0 THEN 1 ELSE (p[i-1] * x) % m
  IN p[e]

_inv(x, m) == Pow(x, m - 2, m)

(* The slope of the tangent at p = q or of the line through p and q. *)
Slope(p, q) ==
  IF p = q THEN (3 * p[1] * p[1] * _inv(2 * p[2], P)) % P
           ELSE ((q[2] - p[2]) * _inv((q[1] - p[1]) % P, P)) % P

point_add(p, q) ==
  IF p = INF THEN q
  ELSE IF q = INF THEN p
  ELSE IF p[1] = q[1] /\ (p[2] + q[2]) % P = 0 THEN INF
  ELSE LET lam == Slope(p, q)
           x == (lam * lam - p[1] - q[1]) % P
       IN <<x, (lam * (p[1] - x) - p[2]) % P>>

(* The law of associativity, a fact about chords and tangents of a cubic.   *)
ASSUME AssociativityAssumption ==
  \A p, q, r \in Points :
    point_add(point_add(p, q), r) = point_add(p, point_add(q, r))

(* Double and add, least significant bit first.  N rounds are more than any *)
(* k below N has bits; those after the last one change nothing.             *)
point_mul_DoublesFirst(k, p) ==
  LET loop[i \in 0..N] ==
        IF i = 0 THEN [k |-> k % N, result |-> INF, addend |-> p]
        ELSE LET s == loop[i-1]
                 doubled == point_add(s.addend, s.addend)
             IN IF s.k = 0 THEN s
                ELSE [k |-> s.k \div 2,
                      result |-> IF s.k % 2 = 1 THEN point_add(s.result, doubled)
                                                ELSE s.result,
                      addend |-> doubled]
  IN loop[N].result

point_mul(k, p) ==
  LET loop[i \in 0..N] ==
        IF i = 0 THEN [k |-> k % N, result |-> INF, addend |-> p]
        ELSE LET s == loop[i-1]
             IN IF s.k = 0 THEN s
                ELSE [k |-> s.k \div 2,
                      result |-> IF s.k % 2 = 1 THEN point_add(s.result, s.addend)
                                                ELSE s.result,
                      addend |-> point_add(s.addend, s.addend)]
  IN loop[N].result

private_to_public(priv) == point_mul(priv, G)

public_to_bytes(pub) == [odd |-> pub[2] % 2 = 1, x |-> pub[1]]

(* decompress_public_hex *)
decompress_public_Even(key) ==
  LET y == Pow((Pow(key.x, 3, P) + B) % P, (P + 1) \div 4, P)
  IN <<key.x, IF y % 2 = 1 THEN P - y ELSE y>>

decompress_public(key) ==
  LET y == Pow((Pow(key.x, 3, P) + B) % P, (P + 1) \div 4, P)
  IN <<key.x, IF (y % 2 = 1) # key.odd THEN P - y ELSE y>>

-----------------------------------------------------------------------------
(* sign, with the nonce that (priv, z) leads to.  Where r or s is zero the  *)
(* code tries again, with the same nonce: it never returns.                 *)
sig_r(k) == point_mul(k, G)[1] % N
sig_s(priv, z, k) == (_inv(k, N) * (z + sig_r(k) * priv)) % N

Signs(priv, z, k) == sig_r(k) # 0 /\ sig_s(priv, z, k) # 0

sign(priv, z, k) ==
  LET s == sig_s(priv, z, k)
  IN <<sig_r(k), IF s > N \div 2 THEN N - s ELSE s>>

(* verify *)
InRange(sig) == 1 <= sig[1] /\ sig[1] < N /\ 1 <= sig[2] /\ sig[2] < N

verify(pub, z, sig) ==
  LET w == _inv(sig[2], N)
      point == point_add(point_mul((z * w) % N, G), point_mul((sig[1] * w) % N, pub))
  IN InRange(sig) /\ point # INF /\ point[1] % N = sig[1]

verify_hex(key, z, sig) == verify(decompress_public(key), z, sig)

=============================================================================
