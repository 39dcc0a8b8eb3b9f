------------------------------- MODULE Keccak -------------------------------
(***************************************************************************)
(* keccakf of mldsa87/keccakf.c, the permutation under SHAKE128, SHAKE256  *)
(* and Keccak-256.  A 64-bit word is the set of its bits that are 1, so    *)
(* xor is the symmetric difference and a rotation moves the elements.      *)
(*                                                                         *)
(* The reference is FIPS 202: the step mappings theta, rho, pi, chi, iota  *)
(* on single bits, with the offsets and the round constants computed from  *)
(* their definitions instead of taken from tables.                         *)
(***************************************************************************)
EXTENDS Integers, Sequences, FiniteSets

CONSTANT Starts   \* states that a sponge may give to the permutation

Bits == 0 .. 63
Words == 0 .. 24

ASSUME KeccakAssumption == Starts \subseteq [Words -> SUBSET Bits]

xor(a, b) == (a \ b) \cup (b \ a)
not(a) == Bits \ a

rol64(x, n) == {(b + n) % 64 : b \in x}

RC ==
    <<{0}, {1, 7, 15}, {1, 3, 7, 15, 63},
     {15, 31, 63}, {0, 1, 3, 7, 15}, {0, 31},
     {0, 7, 15, 31, 63}, {0, 3, 15, 63}, {1, 3, 7},
     {3, 7}, {0, 3, 15, 31}, {1, 3, 31},
     {0, 1, 3, 7, 15, 31}, {0, 1, 3, 7, 63}, {0, 3, 7, 15, 63},
     {0, 1, 15, 63}, {1, 15, 63}, {7, 63},
     {1, 3, 15}, {1, 3, 31, 63}, {0, 7, 15, 31, 63},
     {7, 15, 63}, {0, 31}, {3, 15, 31, 63}>>

r == <<0,  1, 62, 28, 27, 36, 44,  6, 55, 20,  3, 10, 43,
       25, 39, 41, 45, 15, 21,  8, 18,  2, 61, 56, 14>>

VARIABLES s,      \* the 25 words
          start,  \* history: the words the permutation began with
          round,  \* the loop
          step    \* the line of the loop that is next

keccakVars == <<s, start, round, step>>

KeccakInit ==
    /\ start \in Starts /\ s = start
    /\ round = 0 /\ step = "theta"

\* C and D: the parity of the columns, added to the columns beside
Theta ==
    /\ step = "theta" /\ round < 24
    /\ LET C == [x \in 0 .. 4 |->
                    xor(xor(xor(xor(s[x], s[x + 5]), s[x + 10]), s[x + 15]), s[x + 20])]
           D == [x \in 0 .. 4 |-> xor(C[(x + 4) % 5], rol64(C[(x + 1) % 5], 1))]
       IN  s' = [i \in Words |-> xor(s[i], D[i % 5])]
    /\ step' = "rhopi"
    /\ UNCHANGED <<start, round>>

\* B: every word is rotated and moved to its place
Target(i) == LET x == i % 5
                 y == i \div 5
             IN  y + 5 * ((2 * x + 3 * y) % 5)

RhoPi ==
    /\ step = "rhopi"
    /\ s' = [k \in Words |->
                LET i == CHOOSE j \in Words : Target(j) = k IN rol64(s[i], r[i + 1])]
    /\ step' = "chi"
    /\ UNCHANGED <<start, round>>

\* Mutant: the words change while their row is still read.
ChiInPlace ==
    /\ step = "chi"
    /\ LET b == [i \in Words |-> IF i % 5 = 0 THEN xor(s[i], not(s[i + 1]) \cap s[i + 2]) ELSE s[i]]
       IN  s' = [i \in Words |->
                    IF i % 5 = 0 THEN b[i]
                    ELSE xor(b[i], not(b[((i + 1) % 5) + 5 * (i \div 5)])
                                   \cap b[((i + 2) % 5) + 5 * (i \div 5)])]
    /\ step' = "iota"
    /\ UNCHANGED <<start, round>>

Chi ==
    /\ step = "chi"
    /\ s' = [i \in Words |-> xor(s[i], not(s[((i + 1) % 5) + 5 * (i \div 5)])
                                       \cap s[((i + 2) % 5) + 5 * (i \div 5)])]
    /\ step' = "iota"
    /\ UNCHANGED <<start, round>>

Iota ==
    /\ step = "iota"
    /\ s' = [s EXCEPT ![0] = xor(@, RC[round + 1])]
    /\ round' = round + 1
    /\ step' = "theta"
    /\ UNCHANGED start

KeccakNext == Theta \/ RhoPi \/ Chi \/ Iota

KeccakSpec == KeccakInit /\ [][KeccakNext]_keccakVars

-----------------------------------------------------------------------------
(* FIPS 202, 3.2: A[x, y, z] is bit z of word x + 5 y *)

Bit(a, x, y, z) == z \in a[(x % 5) + 5 * y]
State(P(_, _, _)) == [i \in Words |-> {z \in Bits : P(i % 5, i \div 5, z)}]

Parity(a, x, z) == Cardinality({y \in 0 .. 4 : Bit(a, x, y, z)}) % 2 = 1

theta(a) == State(LAMBDA x, y, z :
    Bit(a, x, y, z) # (Parity(a, x + 4, z) # Parity(a, x + 1, (z + 63) % 64)))

\* rho walks over the words but the first, from (1, 0) on; the t-th it meets is
\* rotated by the t-th triangular number.
Walk[t \in 0 .. 23] ==
    IF t = 0 THEN <<1, 0>>
    ELSE LET p == Walk[t - 1] IN <<p[2], (2 * p[1] + 3 * p[2]) % 5>>
Offsets ==
    [p \in (0 .. 4) \X (0 .. 4) |->
        IF p = <<0, 0>> THEN 0
        ELSE LET t == CHOOSE t \in 0 .. 23 : Walk[t] = p
             IN  (((t + 1) * (t + 2)) \div 2) % 64]
Rho(a, x, y, z) == Bit(a, x, y, (z + 64 - Offsets[x, y]) % 64)

\* pi after rho
pi(a) == State(LAMBDA x, y, z : Rho(a, (x + 3 * y) % 5, x, z))

chi(a) == State(LAMBDA x, y, z :
    Bit(a, x, y, z) # (~Bit(a, x + 1, y, z) /\ Bit(a, x + 2, y, z)))

\* The shift register of eight bits that the round constants are made of: bit j of
\* round n is its lowest bit after j + 7 n shifts.
Shifted(reg) ==
    LET up == {b + 1 : b \in reg}
    IN  IF 8 \in up THEN xor(up, {0, 4, 5, 6, 8}) ELSE up
Shifts(reg) ==
    LET after[j \in 0 .. 7] == IF j = 0 THEN reg ELSE Shifted(after[j - 1]) IN after
\* The register a round begins with; bound to a name so that TLC evaluates the
\* rounds before it first.
Register[n \in 0 .. 23] ==
    IF n = 0 THEN {0} ELSE UNION {Shifts(reg)[7] : reg \in {Register[n - 1]}}
rc(j, n) == 0 \in Shifts(Register[n])[j]
RoundConstant(n) == {2^j - 1 : j \in {l \in 0 .. 5 : rc(l, n)}}
                    \cup (IF rc(6, n) THEN {63} ELSE {})
iota(a, n) == [a EXCEPT ![0] = xor(@, RoundConstant(n))]

\* The tables of keccakf are the offsets and the round constants of the standard.  The
\* formula has no parameter, so evaluating it settles it.
ASSUME KeccakTables ==
    /\ \A x \in 0 .. 4, y \in 0 .. 4 : Offsets[x, y] = r[x + 5 * y + 1]
    /\ \A n \in 0 .. 23 : RC[n + 1] = RoundConstant(n)

\* A line of the loop is the step mapping of FIPS 202 that it stands for: the
\* tables of keccakf are the standard's offsets and constants, and the moves of B
\* and the rows of chi are the standard's.
StepOfFIPS202 ==
    /\ step = "theta" => s' = theta(s)
    /\ step = "rhopi" => s' = pi(s)
    /\ step = "chi" => s' = chi(s)
    /\ step = "iota" => s' = iota(s, round)

\* What test_hash_kat.c expects of the empty message: 0x01 (Keccak-256) or 0x1F
\* (SHAKE256) into byte 0, 0x80 into byte 135, then the first 16 bytes of the
\* state as two words.
Padded(suffix) == [i \in Words |-> IF i = 0 THEN suffix ELSE IF i = 16 THEN {63} ELSE {}]
KeccakOfEmpty ==
    <<{0, 2, 6, 7, 9, 12, 14, 15, 17, 18, 22, 24, 33, 34, 39, 40, 41,
       42, 44, 45, 46, 47, 48, 49, 53, 58, 59, 60, 61},
      {1, 4, 7, 9, 10, 11, 12, 13, 14, 16, 18, 19, 20, 21, 22, 25, 28,
       29, 31, 34, 35, 36, 38, 39, 40, 41, 42, 46, 47, 48, 49, 62, 63}>>
ShakeOfEmpty ==
    <<{1, 2, 6, 8, 11, 12, 13, 15, 16, 18, 19, 20, 22, 23, 24, 25, 27,
       29, 32, 33, 35, 43, 45, 47, 48, 50, 51, 55, 56, 57, 60},
      {0, 1, 5, 8, 9, 11, 12, 13, 16, 17, 18, 19, 20, 21, 24, 25, 27,
       29, 30, 31, 34, 36, 37, 38, 41, 42, 43, 44, 45, 48, 49, 51, 53,
       54, 55, 58, 61}>>

\* 24 rounds give the known answers of the unit tests.
KnownAnswers ==
    round = 24 =>
        /\ start = Padded({0}) => <<s[0], s[1]>> = KeccakOfEmpty
        /\ start = Padded(0 .. 4) => <<s[0], s[1]>> = ShakeOfEmpty
=============================================================================
