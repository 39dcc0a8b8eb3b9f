-------------------------------- MODULE Ntt ---------------------------------
(***************************************************************************)
(* ntt.c and reduce.c: the number-theoretic transform and its inverse, in  *)
(* place, butterfly by butterfly, over Montgomery products.  Multiplying   *)
(* two polynomials takes two transforms, a pointwise product and an        *)
(* inverse transform; sign.c repeats the loops in its _volatile functions. *)
(*                                                                         *)
(* The ring is a parameter: N coefficients modulo Q, words of Width bits   *)
(* (256, 8380417 and 32 in the program, ROOT = 1753).                      *)
(***************************************************************************)
EXTENDS Integers, FiniteSetsExt

CONSTANTS N, Q, Width, ROOT,
          Left, Right       \* the polynomials that are multiplied

R == 2 ^ Width

\* N is a power of two above 1, and so is R; q is odd, so it has an inverse modulo R.
NttAssumption ==
    /\ N \in Nat /\ N > 1 /\ \A d \in 2 .. N : N % d = 0 => d % 2 = 0
    /\ R \in Nat /\ R % 2 = 0
    /\ Q \in Nat \ {0} /\ Q < R /\ \E x \in 0 .. R - 1 : (x * Q) % R = 1
    /\ ROOT \in 1 .. Q - 1 /\ (Q - 1) % (2 * N) = 0
    /\ Left \subseteq [0 .. N - 1 -> Int] /\ Right \subseteq [0 .. N - 1 -> Int]

VARIABLES job,              \* what the loops below work for
          a, b,             \* the polynomials, then their transforms
          count, start, j, k,
          f, g              \* history: the polynomials that were given

vars == <<job, a, b, count, start, j, k, f, g>>

Power[e \in 0 .. 2 * N] == IF e = 0 THEN 1 ELSE (ROOT * Power[e - 1]) % Q
Centered(x) == IF x % Q > Q \div 2 THEN (x % Q) - Q ELSE x % Q

\* The layers, and the order in which a transform leaves the values.
Layers == CHOOSE l \in 0 .. N : 2 ^ l = N
BitReversed(i) ==
    MapThenSumSet(LAMBDA bit : 2 ^ (Layers - 1 - bit), {bit \in 0 .. Layers - 1 : (i \div 2 ^ bit) % 2 = 1})

\* The tables and constants, from what they are for.
ZETAS == [i \in 1 .. N - 1 |-> Centered(Power[BitReversed(i)] * (R % Q))]
Q_INV == CHOOSE x \in 0 .. R - 1 : (x * Q) % R = 1
F == CHOOSE x \in 0 .. Q - 1 : (N * x) % Q = ((R % Q) * (R % Q)) % Q

-----------------------------------------------------------------------------
(* reduce.c *)

\* A conversion to the signed type of Width bits.
Cast(x) == IF x % R >= R \div 2 THEN (x % R) - R ELSE x % R

montgomery_reduce(x) == (x - Cast(Cast(x) * Q_INV) * Q) \div R

-----------------------------------------------------------------------------
Init ==
    /\ job = "ntt a"
    /\ a \in Left /\ b \in Right /\ f = a /\ g = b
    /\ count = N \div 2 /\ start = 0 /\ j = 0 /\ k = 1

\* for (j ...) inside for (start ...) inside for (count ...); k counts the starts.
NextForward(then) ==
    IF j + 1 < start + count THEN j' = j + 1 /\ UNCHANGED <<job, count, start, k>>
    ELSE IF j + 1 + count < N
         THEN /\ start' = j + 1 + count /\ j' = start' /\ k' = k + 1
              /\ UNCHANGED <<job, count>>
         ELSE /\ start' = 0 /\ j' = 0
              /\ IF count > 1 THEN count' = count \div 2 /\ k' = k + 1 /\ UNCHANGED job
                              ELSE then

Butterfly(p) ==
    LET t == montgomery_reduce(ZETAS[k] * p[j + count])
    IN  [p EXCEPT ![j + count] = p[j] - t, ![j] = p[j] + t]

ntt ==
    \/ /\ job = "ntt a" /\ a' = Butterfly(a)
       /\ NextForward(job' = "ntt b" /\ count' = N \div 2 /\ k' = 1)
       /\ UNCHANGED <<b, f, g>>
    \/ /\ job = "ntt b" /\ b' = Butterfly(b)
       /\ NextForward(job' = "pointwise" /\ count' = 1 /\ k' = N - 1)
       /\ UNCHANGED <<a, f, g>>

poly_pointwise_montgomery ==
    /\ job = "pointwise" /\ job' = "inv_ntt"
    /\ a' = [i \in 0 .. N - 1 |-> montgomery_reduce(a[i] * b[i])]
    /\ UNCHANGED <<b, count, start, j, k, f, g>>

\* Mutant: the zetas are not negated.
InverseZetaPlain(i) == ZETAS[i]
InverseZeta(i) == -ZETAS[i]

inv_ntt_to_mont ==
    /\ job = "inv_ntt"
    /\ LET s == a[j] + a[j + count]
           d == a[j] - a[j + count]
       IN  a' = [a EXCEPT ![j] = s, ![j + count] = montgomery_reduce(InverseZeta(k) * d)]
    /\ IF j + 1 < start + count THEN j' = j + 1 /\ UNCHANGED <<job, count, start, k>>
       ELSE IF j + 1 + count < N
            THEN start' = j + 1 + count /\ j' = start' /\ k' = k - 1 /\ UNCHANGED <<job, count>>
            ELSE /\ start' = 0 /\ j' = 0 /\ count' = 2 * count /\ k' = k - 1
                 /\ job' = IF count' < N THEN job ELSE "scale"
    /\ UNCHANGED <<b, f, g>>

\* The last loop of inv_ntt_to_mont multiplies by R^2 / N.
Scale ==
    /\ job = "scale" /\ job' = "done"
    /\ a' = [i \in 0 .. N - 1 |-> montgomery_reduce(F * a[i])]
    /\ UNCHANGED <<b, count, start, j, k, f, g>>

Next == ntt \/ poly_pointwise_montgomery \/ inv_ntt_to_mont \/ Scale

Spec == Init /\ [][Next]_vars

-----------------------------------------------------------------------------
(* Properties *)

Same(x, y) == (x - y) % Q = 0
SumOver(S, term(_)) == MapThenSumSet(term, S)

\* No butterfly reads or writes outside the polynomial, and none reads outside ZETAS:
\* k counts through the whole table while start and count are moved without it.
IndicesInBounds ==
    job \in {"ntt a", "ntt b", "inv_ntt"} =>
        /\ j \in 0 .. N - 1 /\ j + count \in j + 1 .. N - 1
        /\ k \in DOMAIN ZETAS

\* A transform leaves the values of the polynomial at the odd powers of the root, in
\* bit-reversed order.  The matrix A is sampled as such values, so a transform in
\* another order would still multiply but would make other keys than FIPS 204.
ValuesInOrder ==
    job = "ntt b" /\ count = N \div 2 /\ j = 0 =>
        \A i \in 0 .. N - 1 :
            Same(a[i], SumOver(0 .. N - 1, LAMBDA e :
                           f[e] * Power[(e * (2 * BitReversed(i) + 1)) % (2 * N)]))

\* The two transforms, the product and the inverse multiply modulo x^N + 1, with every
\* Montgomery factor taken out again and the zetas met in the reverse order.
ProductIsNegacyclic ==
    job = "done" =>
        \A i \in 0 .. N - 1 :
            Same(a[i], SumOver(0 .. N - 1, LAMBDA e :
                           IF e <= i THEN f[e] * g[i - e] ELSE -(f[e] * g[N + i - e])))
=============================================================================
