------------------------------- MODULE Nonces -------------------------------
(***************************************************************************)
(* The streams that crypto_sign_optimized draws its polynomials from: a    *)
(* seed and a 16-bit nonce, absorbed low byte first.  A nonce used twice   *)
(* under the seed of s1 and s2, or under that of y in two attempts, would  *)
(* give equal polynomials; for y that reveals the key.                     *)
(*                                                                         *)
(* K and L are those of constant.h.  The cap on the attempts (814) is a    *)
(* parameter; the last nonce of the last attempt must fit 16 bits.         *)
(***************************************************************************)
EXTENDS Integers

CONSTANT MaxAttempts

K == 8
L == 7

ASSUME NonceAssumption ==
    /\ MaxAttempts \in Nat \ {0}
    /\ L * MaxAttempts <= 65536

VARIABLES at,        \* the vector that is drawn next, or how the loop ended
          k,         \* the polynomial of it
          nonce,     \* uint16_t nonce
          attempts,  \* uint16_t attempts
          last       \* for every seed the bytes of the last nonce absorbed

nonceVars == <<at, k, nonce, attempts, last>>

Bytes(value) == <<value % 256, (value \div 256) % 256>>
NoBytes == <<-1, 0>>
NonceOf(bytes) == bytes[1] + 256 * bytes[2]

NonceInit ==
    /\ at = "s1" /\ k = 0 /\ nonce = 0 /\ attempts = 0
    /\ last = [seed \in {"rho", "rhoPrime", "mask"} |-> NoBytes]

Absorb(seed, value) == last' = [last EXCEPT ![seed] = Bytes(value)]

\* One polynomial of a vector of n; then the vector named after it.
Draw(seed, value, n, after) ==
    /\ Absorb(seed, value)
    /\ IF k + 1 < n THEN k' = k + 1 /\ at' = at ELSE k' = 0 /\ at' = after

\* poly_vec_l_uniform_eta with nonce 0, poly_vec_k_uniform_eta with nonce L
S1 == at = "s1" /\ Draw("rhoPrime", k, L, "matrix") /\ UNCHANGED <<nonce, attempts>>
S2 == at = "s2" /\ Draw("rhoPrime", L + k, K, "rej") /\ UNCHANGED <<nonce, attempts>>

\* combined_method: the matrix for the key, and again in every attempt
Matrix ==
    /\ at \in {"matrix", "again"}
    /\ Draw("rho", (k \div L) * 256 + (k % L), K * L, IF at = "matrix" THEN "s2" ELSE "test")
    /\ UNCHANGED <<nonce, attempts>>

\* Mutant: a vector's nonces begin where the last one's began, plus one.
MaskNonceUnscaled == nonce + k
MaskNonce == (L * nonce + k) % 65536

\* poly_vec_l_uniform_gamma1_volatile, and nonce++ after it
Y == /\ at = "y"
     /\ Draw("mask", MaskNonce, L, "again")
     /\ nonce' = (IF k + 1 < L THEN nonce ELSE nonce + 1) % 65536
     /\ UNCHANGED attempts

\* The label rej: the cap, then the next attempt
Rej ==
    /\ at = "rej"
    /\ IF attempts >= MaxAttempts
       THEN at' = "failed" /\ UNCHANGED attempts
       ELSE at' = "y" /\ attempts' = (attempts + 1) % 65536
    /\ UNCHANGED <<k, nonce, last>>

\* The tests of the signature: goto rej, or it is packed
Test ==
    /\ at = "test"
    /\ at' \in {"rej", "signed"}
    /\ UNCHANGED <<k, nonce, attempts, last>>

NonceNext == S1 \/ S2 \/ Matrix \/ Y \/ Rej \/ Test

NonceSpec == NonceInit /\ [][NonceNext]_nonceVars

-----------------------------------------------------------------------------
(* Properties *)

\* A nonce is larger than the last one under its seed.  Every attempt expands
\* the matrix again.
Grows ==
    \A seed \in DOMAIN last :
        \/ last'[seed] = last[seed]
        \/ NonceOf(last'[seed]) > NonceOf(last[seed])
        \/ seed = "rho" /\ at = "again" /\ k = 0

\* After a test every attempt has drawn a whole y: the last nonce tells how many.
WholeMasks ==
    at \in {"test", "signed", "failed"} =>
        /\ attempts \in 1 .. MaxAttempts
        /\ NonceOf(last["mask"]) = L * attempts - 1

\* Over all the attempts of a signature no nonce is drawn with twice under its
\* seed, and every attempt has drawn a whole y when it is tested.
NoncesGrow == [][Grows /\ WholeMasks']_nonceVars
=============================================================================
