------------------------------ MODULE Rounding ------------------------------
(***************************************************************************)
(* mldsa87/rounding.c on its way through a signature: one coefficient of   *)
(* the public key vector t, and one coefficient of the commitment w, from  *)
(* crypto_sign_optimized, which rounds w and leaves a hint, to             *)
(* crypto_verify_optimized, which must find the rounded w again although   *)
(* it knows only the upper part of t.                                      *)
(*                                                                         *)
(* Integers are exact; RangesHold says that none of them leaves 32 bits.   *)
(* Shifts to the right are \div, which rounds down as they do.  The        *)
(* branch-free sign arithmetic is modelled by what it computes.            *)
(***************************************************************************)
EXTENDS Integers

CONSTANTS KeyValues,     \* coefficients of t = A s1 + s2
          Commitments,   \* coefficients of w = A y
          SecretTerms,   \* coefficients of c s2
          KeyTerms       \* coefficients of c t0

Q_CONST == 8380417
D == 13
BETA == 120
ETA == 2
GAMMA2 == (Q_CONST - 1) \div 32

\* c has BETA / ETA coefficients 1 or -1, those of s2 are at most ETA and those of t0 at
\* most 2^12 in absolute value.
ASSUME RoundingAssumption ==
    /\ KeyValues \subseteq 0 .. Q_CONST - 1
    /\ Commitments \subseteq 0 .. Q_CONST - 1
    /\ SecretTerms \subseteq -BETA .. BETA
    /\ LET most == (BETA \div ETA) * 4096 IN KeyTerms \subseteq -most .. most

-----------------------------------------------------------------------------
(* rounding.c *)

\* Mutant: halves are rounded up.
power2_roundUp(a) == LET a1 == (a + 4096) \div 8192
                     IN  [high |-> a1, low |-> a - a1 * 8192]

power2_round(a) == LET a1 == (a + 4095) \div 8192
                   IN  [high |-> a1, low |-> a - a1 * 8192]

Quotient(a) == (((a + 127) \div 128) * 1025 + 2097152) \div 4194304

decompose(a) ==
    LET a1 == Quotient(a) % 16
        a0 == a - a1 * 2 * GAMMA2
    IN  [high |-> a1,
         low |-> IF (Q_CONST - 1) \div 2 - a0 < 0 THEN a0 - Q_CONST ELSE a0]

\* Mutant: the border -GAMMA2 needs a hint whatever a1 is.
make_hintAtBorder(a0, a1) ==
    IF GAMMA2 - a0 < 0 \/ a0 + GAMMA2 <= 0 THEN 1 ELSE 0

make_hint(a0, a1) ==
    IF \/ GAMMA2 - a0 < 0
       \/ a0 + GAMMA2 < 0
       \/ a0 + GAMMA2 = 0 /\ a1 # 0
    THEN 1 ELSE 0

use_hint(a, hint) ==
    LET d == decompose(a) IN
    IF hint = 0 THEN d.high
    ELSE IF -d.low < 0 THEN (d.high + 1) % 16 ELSE (d.high - 1) % 16

\* reduce_32, and poly_chk_norm for one coefficient
reduce_32(a) == a - ((a + 4194304) \div 8388608) * Q_CONST
Abs(a) == IF a < 0 THEN -a ELSE a
chk_norm(a, bound) == Abs(a) - bound >= 0

-----------------------------------------------------------------------------
VARIABLES stage,      \* what comes next
          t, t1, t0,  \* a coefficient of the key and its two parts
          w, w1, w0,  \* a coefficient of the commitment and its two parts
          cs2, ct0,   \* what the challenge makes of s2 and of t0
          h,          \* the hint
          v1          \* what the verification takes for w1

vars == <<stage, t, t1, t0, w, w1, w0, cs2, ct0, h, v1>>

Init ==
    /\ stage = "key"
    /\ t \in KeyValues
    /\ w \in Commitments
    /\ t1 = 0 /\ t0 = 0 /\ w1 = 0 /\ w0 = 0
    /\ cs2 = 0 /\ ct0 = 0 /\ h = 0 /\ v1 = 0

\* poly_vec_k_power2_round_volatile
Power2Round ==
    /\ stage = "key"
    /\ LET r == power2_round(t) IN t1' = r.high /\ t0' = r.low
    /\ stage' = "decompose"
    /\ UNCHANGED <<t, w, w1, w0, cs2, ct0, h, v1>>

\* poly_vec_k_decompose_volatile
Decompose ==
    /\ stage = "decompose"
    /\ LET r == decompose(w) IN w1' = r.high /\ w0' = r.low
    /\ stage' = "subtract"
    /\ UNCHANGED <<t, t1, t0, w, cs2, ct0, h, v1>>

\* Mutant: the bound forgets what c s2 may add.
SubtractCs2Loose ==
    /\ stage = "subtract"
    /\ cs2' \in SecretTerms
    /\ w0' = reduce_32(w0 - cs2')
    /\ stage' = IF chk_norm(w0', GAMMA2 + BETA) THEN "rejected" ELSE "add"
    /\ UNCHANGED <<t, t1, t0, w, w1, ct0, h, v1>>

\* w0 = w0 - c s2, reduced, and tested against GAMMA2 - BETA
SubtractCs2 ==
    /\ stage = "subtract"
    /\ cs2' \in SecretTerms
    /\ w0' = reduce_32(w0 - cs2')
    /\ stage' = IF chk_norm(w0', GAMMA2 - BETA) THEN "rejected" ELSE "add"
    /\ UNCHANGED <<t, t1, t0, w, w1, ct0, h, v1>>

\* h = c t0, reduced and tested against GAMMA2; w0 = w0 + h
AddCt0 ==
    /\ stage = "add"
    /\ ct0' \in KeyTerms
    /\ IF chk_norm(reduce_32(ct0'), GAMMA2)
       THEN stage' = "rejected" /\ w0' = w0
       ELSE stage' = "hint" /\ w0' = w0 + reduce_32(ct0')
    /\ UNCHANGED <<t, t1, t0, w, w1, cs2, h, v1>>

MakeHint ==
    /\ stage = "hint"
    /\ h' = make_hint(w0, w1)
    /\ stage' = "verify"
    /\ UNCHANGED <<t, t1, t0, w, w1, w0, cs2, ct0, v1>>

\* The verifier's A z - c t1 2^d is w - c s2 + c t0 modulo q (the identity that
\* ML-DSA rests on); c_addq brings it into 0 .. q - 1.
UseHint ==
    /\ stage = "verify"
    /\ v1' = use_hint((w - cs2 + ct0) % Q_CONST, h)
    /\ stage' = "done"
    /\ UNCHANGED <<t, t1, t0, w, w1, w0, cs2, ct0, h>>

Next == Power2Round \/ Decompose \/ SubtractCs2 \/ AddCt0 \/ MakeHint \/ UseHint

Spec == Init /\ [][Next]_vars

-----------------------------------------------------------------------------
(* Properties *)

\* The parts fit the bits they are packed into: t1 ten bits, 4096 - t0
\* thirteen, w1 four; and nothing that is computed leaves 32 bits.
RangesHold ==
    /\ stage \in {"key", "decompose", "subtract", "add", "hint", "verify",
                  "done", "rejected"}
    /\ t1 \in 0 .. 1023
    /\ 4096 - t0 \in 0 .. 8191
    /\ w1 \in 0 .. 15 /\ v1 \in 0 .. 15
    /\ h \in {0, 1}
    /\ w0 \in -2 * GAMMA2 .. 2 * GAMMA2

\* What the comment in crypto_sign_optimized claims for its test of w0:
\* subtracting c s2 does not change the high bits of w.
HighBitsKept ==
    stage \in {"add", "hint", "verify", "done"} =>
        decompose((w - cs2) % Q_CONST).high = w1

\* Every signature that passes the tests of the signer passes the comparison of
\* the verifier: use_hint finds the w1 that was hashed into the challenge.
HintRecovers == stage = "done" => v1 = w1
=============================================================================
