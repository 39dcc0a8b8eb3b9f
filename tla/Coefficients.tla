---------------------------- MODULE Coefficients ----------------------------
(***************************************************************************)
(* How large the 32-bit coefficients of mldsa87 become.  Key generation,   *)
(* signing and verification add, double and multiply coefficients modulo q *)
(* lazily: a sum is reduced only where the code calls reduce_32 or c_addq. *)
(* A vector of polynomials is modelled by the interval its coefficients    *)
(* lie in, for every key, mask and message at once, and the three programs *)
(* by the calls they make on the vectors, one step for each call, for each *)
(* layer of a transform and for each column of the matrix product.         *)
(***************************************************************************)
EXTENDS Integers, Sequences, FiniteSetsExt

N_LAYERS == 8               \* count = 128, 64, .. 1
L == 7
Q == 8380417
D == 13
ETA == 2
BETA == 120                 \* TAU * ETA
GAMMA1 == 2 ^ 19
GAMMA2 == (Q - 1) \div 32
MAX_ZETA == 4108315         \* the largest |ZETAS[k]|
INT32_MAX == 2147483647

VARIABLES prog, pc,     \* the program, and the call it is at
          step,         \* layers of a transform or columns of the matrix done
          range,        \* for every vector the interval of its coefficients
          overflow      \* some result did not fit 32 bits: undefined in C

vars == <<prog, pc, step, range, overflow>>

Vectors == {"s1", "s1hat", "s2", "t1", "t0", "y", "z", "w1", "w0", "cp", "h"}

Interval(lo, hi) == [lo |-> lo, hi |-> hi]
Size(r) == Max({-r.lo, r.hi})
Join(r, s) == Interval(Min({r.lo, s.lo}), Max({r.hi, s.hi}))
Around(size) == Interval(-size, size)

\* Intervals are cut off at the ends of int32 where overflow is noted.
Fits(x, y) == (x <= 0 \/ y <= INT32_MAX - x) /\ (x >= 0 \/ y >= -INT32_MAX - x)
Cut(x, y) == IF Fits(x, y) THEN x + y ELSE IF x > 0 THEN INT32_MAX ELSE -INT32_MAX
Plus(r, s) == Interval(Cut(r.lo, s.lo), Cut(r.hi, s.hi))
Minus(r, s) == Interval(Cut(r.lo, -s.hi), Cut(r.hi, -s.lo))
PlusFits(r, s) == Fits(r.lo, s.lo) /\ Fits(r.hi, s.hi)
MinusFits(r, s) == Fits(r.lo, -s.hi) /\ Fits(r.hi, -s.lo)

-----------------------------------------------------------------------------
(* reduce.c and rounding.c, on intervals *)

\* (x y - t q) / 2^32 with t an int32: at most |x y| / 2^32, rounded up, and q / 2.
montgomery_reduce(x, y) ==
    Around((x \div 2 ^ 16 + 1) * (y \div 2 ^ 16 + 1) + (Q + 1) \div 2)

\* Mutant: the sum is left as it is.
reduce_32Lazy(r) == r

\* a = 2^23 t + b with b in -2^22 .. 2^22 - 1 becomes b + 8191 t.
reduce_32(r) ==
    LET t(a) == (a + 2 ^ 22) \div 2 ^ 23
        rest == 2 ^ 23 - Q
    IN  IF t(r.lo) = t(r.hi)
        THEN Interval(r.lo - t(r.lo) * Q, r.hi - t(r.hi) * Q)
        ELSE Interval(-2 ^ 22 + t(r.lo) * rest, 2 ^ 22 - 1 + t(r.hi) * rest)

c_addq(r) ==
    IF r.lo >= 0 THEN r
    ELSE IF r.hi < 0 THEN Plus(r, Interval(Q, Q))
    ELSE Join(Interval(0, r.hi), Interval(r.lo + Q, Q - 1))

High(r) == Interval((r.lo + 2 ^ (D - 1) - 1) \div 2 ^ D, (r.hi + 2 ^ (D - 1) - 1) \div 2 ^ D)

-----------------------------------------------------------------------------
(* The calls of the three programs: operation, result, operands *)

Key == <<
    <<"uniform_eta", "s1">>, <<"uniform_eta", "s2">>, <<"ntt", "s1">>,
    <<"combined_method", "t1", "s1">>, <<"reduce", "t1">>, <<"inv_ntt", "t1">>,
    <<"add", "t1", "s2">>, <<"c_addq", "t1">> >>

crypto_sign_keypair == Key \o << <<"power2_round_keypair", "t1">> >>

SignKey == <<
    <<"uniform_eta", "s1">>, <<"copy", "s1hat", "s1">>, <<"ntt", "s1hat">>,
    <<"combined_method", "t1", "s1hat">>, <<"reduce", "t1">>, <<"inv_ntt", "t1">>,
    <<"uniform_eta", "s2">>, <<"add", "t1", "s2">>, <<"c_addq", "t1">>,
    <<"power2_round", "t1", "t0">>, <<"ntt", "s1">>, <<"ntt", "s2">>, <<"ntt", "t0">> >>

Attempt == <<
    <<"uniform_gamma1", "y">>, <<"copy", "z", "y">>, <<"ntt", "z">>,
    <<"combined_method", "w1", "z">>, <<"reduce", "w1">>, <<"inv_ntt", "w1">>,
    <<"c_addq", "w1">>, <<"decompose", "w1", "w0">>, <<"challenge", "cp">>, <<"ntt", "cp">>,
    <<"pointwise", "z", "cp", "s1">>, <<"inv_ntt", "z">>, <<"add", "z", "y">>,
    <<"l_reduce", "z">>, <<"chk_norm", "z">>,
    <<"pointwise", "h", "cp", "s2">>, <<"inv_ntt", "h">>, <<"sub", "w0", "h">>,
    <<"reduce", "w0">>, <<"chk_norm", "w0">>,
    <<"pointwise", "h", "cp", "t0">>, <<"inv_ntt", "h">>, <<"reduce", "h">>,
    <<"chk_norm", "h">>, <<"add", "w0", "h">>, <<"make_hint", "h">> >>

crypto_sign_optimized == SignKey \o Attempt

crypto_verify_optimized == Key \o <<
    <<"power2_round", "t1", "t0">>, <<"unpack_sig", "z", "h">>, <<"chk_norm", "z">>,
    <<"challenge", "cp">>, <<"ntt", "z">>, <<"combined_method", "w1", "z">>,
    <<"ntt", "cp">>, <<"shift_l", "t1">>, <<"ntt", "t1">>,
    <<"pointwise", "t1", "cp", "t1">>, <<"sub", "w1", "t1">>, <<"reduce", "w1">>,
    <<"inv_ntt", "w1">>, <<"c_addq", "w1">>, <<"use_hint", "w1", "h">> >>

Code == [keypair |-> crypto_sign_keypair, sign |-> crypto_sign_optimized,
         verify |-> crypto_verify_optimized]

rej == Len(SignKey) + 1
Bound(v) == CASE v = "z" -> GAMMA1 - BETA [] v = "w0" -> GAMMA2 - BETA [] v = "h" -> GAMMA2

Running == pc <= Len(Code[prog])
Call == Code[prog][pc]
At(operation) == Running /\ Call[1] = operation
Result == Call[2]
Dst == range[Call[2]]
Src == range[Call[3]]

Return == pc' = pc + 1 /\ step' = 0
Write(r) == range' = [range EXCEPT ![Result] = r]
Note(fits) == overflow' = (overflow \/ ~fits)
Set(r) == Write(r) /\ Return /\ UNCHANGED <<prog, overflow>>

Init ==
    /\ prog \in DOMAIN Code /\ pc = 1 /\ step = 0
    /\ range = [v \in Vectors |-> Around(0)]
    /\ overflow = FALSE

-----------------------------------------------------------------------------
(* Sampled and decoded vectors *)

Sampled ==
    \/ At("uniform_eta") /\ Set(Around(ETA))
    \/ At("uniform_gamma1") /\ Set(Interval(1 - GAMMA1, GAMMA1))
    \/ At("challenge") /\ Set(Around(1))

Copy == At("copy") /\ Set(Src)

unpack_sig ==
    /\ At("unpack_sig")
    /\ range' = [range EXCEPT !["z"] = Interval(1 - GAMMA1, GAMMA1), !["h"] = Interval(0, 1)]
    /\ Return /\ UNCHANGED <<prog, overflow>>

-----------------------------------------------------------------------------
(* Transforms and products *)

\* One value of count: a[j] - t and a[j] + t, with t the reduced zeta * a[j + count].
ntt ==
    /\ At("ntt")
    /\ LET t == montgomery_reduce(MAX_ZETA, Size(Dst))
       IN  Write(Plus(Dst, t)) /\ Note(PlusFits(Dst, t))
    /\ IF step + 1 < N_LAYERS THEN step' = step + 1 /\ pc' = pc ELSE Return
    /\ UNCHANGED prog

\* One value of count: the sum stays, the difference is multiplied and reduced; then
\* every coefficient is multiplied by f.
inv_ntt ==
    /\ At("inv_ntt")
    /\ IF step < N_LAYERS
       THEN LET difference == Minus(Dst, Dst)
            IN  /\ Write(Join(Plus(Dst, Dst), montgomery_reduce(MAX_ZETA, Size(difference))))
                /\ Note(PlusFits(Dst, Dst) /\ MinusFits(Dst, Dst))
                /\ step' = step + 1 /\ pc' = pc
       ELSE Write(montgomery_reduce(41978, Size(Dst))) /\ Return /\ UNCHANGED overflow
    /\ UNCHANGED prog

\* Column j of the matrix, sampled in 0 .. q - 1: stored for j = 0, added for the rest.
combined_method ==
    /\ At("combined_method")
    /\ LET t == montgomery_reduce(Q - 1, Size(Src))
       IN  IF step = 0 THEN Write(t) /\ UNCHANGED overflow
                       ELSE Write(Plus(Dst, t)) /\ Note(PlusFits(Dst, t))
    /\ IF step + 1 < L THEN step' = step + 1 /\ pc' = pc ELSE Return
    /\ UNCHANGED prog

pointwise ==
    At("pointwise") /\ Set(montgomery_reduce(Size(Src), Size(range[Call[4]])))

-----------------------------------------------------------------------------
(* Sums and reductions *)

Add ==
    /\ At("add")
    /\ Write(Plus(Dst, Src)) /\ Note(PlusFits(Dst, Src))
    /\ Return /\ UNCHANGED prog

Sub ==
    /\ At("sub")
    /\ Write(Minus(Dst, Src)) /\ Note(MinusFits(Dst, Src))
    /\ Return /\ UNCHANGED prog

\* a + (1 << 22) is computed in int32 too.
reduce ==
    /\ At("reduce")
    /\ Write(reduce_32(Dst)) /\ Note(PlusFits(Dst, Interval(0, 2 ^ 22)))
    /\ Return /\ UNCHANGED prog

l_reduce ==
    /\ At("l_reduce")
    /\ Write(reduce_32(Dst)) /\ Note(PlusFits(Dst, Interval(0, 2 ^ 22)))
    /\ Return /\ UNCHANGED prog

CAddQ == At("c_addq") /\ Set(c_addq(Dst))

shift_l ==
    /\ At("shift_l")
    /\ Note(Size(Dst) <= INT32_MAX \div 2 ^ D)
    /\ Write(Interval(Dst.lo * 2 ^ D, Dst.hi * 2 ^ D)) /\ Return /\ UNCHANGED prog

-----------------------------------------------------------------------------
(* Rounding, the norm test and the end *)

power2_round ==
    \/ At("power2_round_keypair") /\ Set(High(Dst))
    \/ /\ At("power2_round")
       /\ range' = [range EXCEPT !["t1"] = High(Dst),
                                 !["t0"] = Interval(1 - 2 ^ (D - 1), 2 ^ (D - 1))]
       /\ Return /\ UNCHANGED <<prog, overflow>>

decompose ==
    /\ At("decompose")
    /\ range' = [range EXCEPT !["w1"] = Interval(0, 15), !["w0"] = Around(GAMMA2)]
    /\ Return /\ UNCHANGED <<prog, overflow>>

\* Passed: every coefficient is below the bound.  Failed: the next attempt, or the end.
chk_norm ==
    /\ At("chk_norm")
    /\ \/ Set(Interval(Max({Dst.lo, 1 - Bound(Result)}), Min({Dst.hi, Bound(Result) - 1})))
       \/ /\ pc' = (IF prog = "sign" THEN rej ELSE Len(Code[prog]) + 1)
          /\ step' = 0
          /\ UNCHANGED <<prog, range, overflow>>

\* More than OMEGA hints start another attempt.
make_hint ==
    /\ At("make_hint")
    /\ Write(Interval(0, 1)) /\ step' = 0
    /\ pc' \in {rej, pc + 1}
    /\ UNCHANGED <<prog, overflow>>

use_hint == At("use_hint") /\ Set(Interval(0, 15))

Next ==
    \/ Sampled \/ Copy \/ unpack_sig \/ ntt \/ inv_ntt \/ combined_method \/ pointwise
    \/ Add \/ Sub \/ reduce \/ l_reduce \/ CAddQ \/ shift_l
    \/ power2_round \/ decompose \/ chk_norm \/ make_hint \/ use_hint

Spec == Init /\ [][Next]_vars

-----------------------------------------------------------------------------
(* Properties *)

\* No sum, difference or shift of coefficients leaves int32, whatever was sampled: every
\* chain of eight doublings in an inverse transform starts from coefficients that a
\* reduction, or a single product, has made small enough.
NoOverflow == ~overflow

\* power2_round, decompose and use_hint get coefficients in 0 .. q - 1, the only ones
\* their multiply-and-shift divisions are right for: one c_addq is enough there.
RoundedAreStandard ==
    \A operation \in {"power2_round", "power2_round_keypair", "decompose", "use_hint"} :
        At(operation) => Dst.lo >= 0 /\ Dst.hi < Q

\* The value modulo q that a norm test is about is small (y + c s1, w0 - c s2, c t0).
Small(v) ==
    CASE v = "z" -> GAMMA1 + BETA [] v = "w0" -> GAMMA2 + BETA [] v = "h" -> (BETA \div ETA) * 2 ^ (D - 1)

\* A norm test sees that value and not the one q away from it: poly_chk_norm takes the
\* absolute value of whatever representative it finds, so a vector that is not centered
\* would make it reject every attempt, or never.
NormOfTheSmallOne == At("chk_norm") => Size(Dst) + Small(Result) < Q
=============================================================================
