-------------------------- MODULE AlgorithmProofs ---------------------------
(***************************************************************************)
(* For every state: the lines of keccakf are the steps of FIPS 202.        *)
(* For every coefficient: the parts of rounding.c fit their packed fields, *)
(* the signer's test keeps the high bits, and the hint gives them back.    *)
(* For every N, TAU and size of a block: the challenge of poly.c has       *)
(* exactly TAU coefficients that are not zero.                             *)
(***************************************************************************)
EXTENDS Rounding, Challenge, Keccak, FiniteSetTheorems, TLAPS

StateInv ==
    /\ s \in [Words -> SUBSET Bits]
    /\ step \in {"theta", "rhopi", "chi", "iota"}
    /\ round \in 0 .. 24
    /\ step # "theta" => round < 24

-----------------------------------------------------------------------------
(* Words *)

LEMMA XorHas == \A a, b, z : z \in xor(a, b) <=> ~ (z \in a <=> z \in b)
BY DEF xor

LEMMA RolHas ==
    ASSUME NEW a \in SUBSET Bits, NEW n \in Bits
    PROVE  /\ rol64(a, n) \subseteq Bits
           /\ \A z \in Bits : z \in rol64(a, n) <=> (z + 64 - n) % 64 \in a
<1>1. \A b \in Bits : (b + n) % 64 \in Bits
  BY DEF Bits
<1>2. \A b \in Bits : (((b + n) % 64) + 64 - n) % 64 = b
  BY DEF Bits
<1>3. \A z \in Bits : (z + 64 - n) % 64 \in Bits /\ (((z + 64 - n) % 64) + n) % 64 = z
  BY DEF Bits
<1> QED
  BY <1>1, <1>2, <1>3 DEF rol64

\* How often each offset moves a bit to the left.
LEMMA OffsetsAreBits == \A e \in Words : r[e + 1] \in Bits
BY DEF Words, Bits, r

-----------------------------------------------------------------------------
(* Parity *)

\* One more element to count.
LEMMA CountOneMore ==
    ASSUME NEW T \in SUBSET (0 .. 4), NEW n \in 0 .. 4,
           NEW S, S = T \cap (0 .. n - 1), NEW U, U = T \cap (0 .. n)
    PROVE  Cardinality(U) = Cardinality(S) + (IF n \in T THEN 1 ELSE 0)
<1>0. 0 \in Int /\ 4 \in Int
  OBVIOUS
<1>1. IsFiniteSet(0 .. 4)
  BY <1>0, FS_Interval, Zenon
<1>2. IsFiniteSet(S) /\ Cardinality(S) \in Nat
  <2>1. S \subseteq 0 .. 4
    OBVIOUS
  <2> QED
    BY <1>1, <2>1, FS_Subset, FS_CardinalityType
<1>3. CASE n \in T
  <2>1. U = S \cup {n} /\ n \notin S
    BY <1>3
  <2> QED
    BY <1>2, <1>3, <2>1, FS_AddElement
<1>4. CASE n \notin T
  <2>1. U = S
    BY <1>4
  <2> QED
    BY <1>2, <1>4, <2>1
<1> QED
  BY <1>3, <1>4

LEMMA OddSets ==
    ASSUME NEW T \in SUBSET (0 .. 4)
    PROVE  Cardinality(T) % 2 = 1
             <=> ~(~(~(~(0 \in T <=> 1 \in T) <=> 2 \in T) <=> 3 \in T) <=> 4 \in T)
<1> DEFINE Count(n) == Cardinality(T \cap (0 .. n))
<1>1. Cardinality(T \cap (0 .. -1)) = 0
  BY FS_EmptySet
<1>2. Count(0) \in Nat /\ (Count(0) % 2 = 1 <=> 0 \in T)
  BY <1>1, CountOneMore
<1>3. Count(1) \in Nat /\ (Count(1) % 2 = 1 <=> ~(Count(0) % 2 = 1 <=> 1 \in T))
  BY <1>2, CountOneMore
<1>4. Count(2) \in Nat /\ (Count(2) % 2 = 1 <=> ~(Count(1) % 2 = 1 <=> 2 \in T))
  BY <1>3, CountOneMore
<1>5. Count(3) \in Nat /\ (Count(3) % 2 = 1 <=> ~(Count(2) % 2 = 1 <=> 3 \in T))
  BY <1>4, CountOneMore
<1>6. Count(4) \in Nat /\ (Count(4) % 2 = 1 <=> ~(Count(3) % 2 = 1 <=> 4 \in T))
  BY <1>5, CountOneMore
<1>7. T \cap (0 .. 4) = T
  OBVIOUS
<1> QED
  BY <1>2, <1>3, <1>4, <1>5, <1>6, <1>7, Zenon

\* The column sum of theta is the parity of the standard.
LEMMA ColumnParity ==
    ASSUME NEW a \in [Words -> SUBSET Bits], NEW x \in Nat, NEW z
    PROVE  Parity(a, x, z)
             <=> z \in xor(xor(xor(xor(a[x % 5], a[(x % 5) + 5]), a[(x % 5) + 10]), a[(x % 5) + 15]), a[(x % 5) + 20])
<1> DEFINE T == {y \in 0 .. 4 : Bit(a, x, y, z)}
<1>1. /\ 0 \in T <=> z \in a[x % 5]
      /\ 1 \in T <=> z \in a[(x % 5) + 5]
      /\ 2 \in T <=> z \in a[(x % 5) + 10]
      /\ 3 \in T <=> z \in a[(x % 5) + 15]
      /\ 4 \in T <=> z \in a[(x % 5) + 20]
  BY DEF Bit
<1>2. Parity(a, x, z) <=> Cardinality(T) % 2 = 1
  BY DEF Parity
<1>3. T \in SUBSET (0 .. 4)
  OBVIOUS
<1> HIDE DEF T
<1>4. Parity(a, x, z) <=> ~(~(~(~(0 \in T <=> 1 \in T) <=> 2 \in T) <=> 3 \in T) <=> 4 \in T)
  BY <1>2, <1>3, OddSets
<1> QED
  BY <1>1, <1>4, XorHas

-----------------------------------------------------------------------------
(* The steps *)

LEMMA ThetaIs ==
    ASSUME StateInv, Theta
    PROVE  s' = theta(s) /\ s' \in [Words -> SUBSET Bits]
<1> DEFINE C == [x \in 0 .. 4 |->
                    xor(xor(xor(xor(s[x], s[x + 5]), s[x + 10]), s[x + 15]), s[x + 20])]
           E == [x \in 0 .. 4 |-> xor(C[(x + 4) % 5], rol64(C[(x + 1) % 5], 1))]
<1>1. s' = [e \in Words |-> xor(s[e], E[e % 5])]
  BY DEF Theta
<1>2. \A x \in 0 .. 4 : C[x] \subseteq Bits
  BY DEF StateInv, Words, xor
<1>3. ASSUME NEW x \in 0 .. 4, NEW n \in {1, 4}, NEW z
      PROVE  z \in C[(x + n) % 5] <=> Parity(s, x + n, z)
  <2>1. x + n \in Nat /\ (x + n) % 5 \in 0 .. 4
    OBVIOUS
  <2>2. s \in [Words -> SUBSET Bits]
    BY DEF StateInv
  <2> QED
    BY <2>1, <2>2, ColumnParity
<1> HIDE DEF C
<1>4. ASSUME NEW x \in 0 .. 4
      PROVE  /\ E[x] \subseteq Bits
             /\ \A z \in Bits :
                   z \in E[x] <=> ~(Parity(s, x + 4, z) <=> Parity(s, x + 1, (z + 63) % 64))
  <2>1. C[(x + 4) % 5] \subseteq Bits /\ C[(x + 1) % 5] \subseteq Bits /\ 1 \in Bits
    BY <1>2 DEF Bits
  <2>2. \A z \in Bits : z \in rol64(C[(x + 1) % 5], 1) <=> (z + 64 - 1) % 64 \in C[(x + 1) % 5]
    BY <2>1, RolHas
  <2>3. rol64(C[(x + 1) % 5], 1) \subseteq Bits
    BY <2>1, RolHas
  <2>4. \A z \in Bits : (z + 64 - 1) % 64 = (z + 63) % 64
    BY DEF Bits
  <2>5. E[x] = xor(C[(x + 4) % 5], rol64(C[(x + 1) % 5], 1))
    OBVIOUS
  <2>6. E[x] \subseteq Bits
    BY <2>1, <2>3, <2>5 DEF xor
  <2>7. ASSUME NEW z \in Bits
        PROVE  z \in E[x] <=> ~(Parity(s, x + 4, z) <=> Parity(s, x + 1, (z + 63) % 64))
    <3>1. z \in C[(x + 4) % 5] <=> Parity(s, x + 4, z)
      BY <1>3
    <3>2. (z + 63) % 64 \in C[(x + 1) % 5] <=> Parity(s, x + 1, (z + 63) % 64)
      BY <1>3
    <3> QED
      BY <2>2, <2>4, <2>5, <3>1, <3>2, XorHas
  <2> QED
    BY <2>6, <2>7
<1> HIDE DEF E
<1>5. ASSUME NEW e \in Words
      PROVE  xor(s[e], E[e % 5])
               = {z \in Bits : Bit(s, e % 5, e \div 5, z)
                     # (Parity(s, (e % 5) + 4, z) # Parity(s, (e % 5) + 1, (z + 63) % 64))}
  <2>1. e % 5 \in 0 .. 4 /\ ((e % 5) % 5) + 5 * (e \div 5) = e
    BY DEF Words
  <2>2. s[e] \subseteq Bits
    BY DEF StateInv
  <2>3. \A z : Bit(s, e % 5, e \div 5, z) <=> z \in s[e]
    BY <2>1 DEF Bit
  <2>4. xor(s[e], E[e % 5]) \subseteq Bits
    BY <2>1, <2>2, <1>4 DEF xor
  <2>5. ASSUME NEW z \in Bits
        PROVE  z \in xor(s[e], E[e % 5])
                 <=> ~(Bit(s, e % 5, e \div 5, z)
                       <=> ~(Parity(s, (e % 5) + 4, z) <=> Parity(s, (e % 5) + 1, (z + 63) % 64)))
    BY <2>1, <2>3, <1>4, XorHas
  <2> QED
    BY <2>4, <2>5 DEF Bit, Parity
<1>6. s' = theta(s)
  BY <1>1, <1>5 DEF theta, State
<1>7. s' \in [Words -> SUBSET Bits]
  BY <1>1, <1>5
<1> QED
  BY <1>6, <1>7

\* The word that the standard moves to place e, and that B takes there.
Origin(e) == (((e % 5) + 3 * (e \div 5)) % 5) + 5 * (e % 5)

LEMMA OneOrigin ==
    ASSUME NEW e \in Words
    PROVE  /\ Origin(e) \in Words
           /\ (CHOOSE j \in Words : Target(j) = e) = Origin(e)
<1>1. Origin(e) \in Words
  BY DEF Origin, Words
<1>2. Target(Origin(e)) = e
  BY DEF Origin, Target, Words
<1>3. ASSUME NEW j \in Words, Target(j) = e
      PROVE  j = Origin(e)
  BY <1>3 DEF Origin, Target, Words
<1> QED
  BY <1>1, <1>2, <1>3

LEMMA RhoPiIs ==
    ASSUME StateInv, RhoPi
    PROVE  s' = pi(s) /\ s' \in [Words -> SUBSET Bits]
<1>1. s' = [e \in Words |-> rol64(s[Origin(e)], r[Origin(e) + 1])]
  BY OneOrigin DEF RhoPi
<1>2. ASSUME NEW e \in Words
      PROVE  rol64(s[Origin(e)], r[Origin(e) + 1])
               = {z \in Bits : Rho(s, ((e % 5) + 3 * (e \div 5)) % 5, e % 5, z)}
  <2>1. PICK x \in 0 .. 4 : x = ((e % 5) + 3 * (e \div 5)) % 5
    BY DEF Words
  <2>2. PICK y \in 0 .. 4 : y = e % 5
    BY DEF Words
  <2>3. Origin(e) = x + 5 * y /\ x % 5 = x
    BY <2>1, <2>2 DEF Origin
  <2>4. Offsets[x, y] = r[Origin(e) + 1] /\ r[Origin(e) + 1] \in Bits
    BY <2>3, OneOrigin, KeccakTables, OffsetsAreBits
  <2>5. s[Origin(e)] \in SUBSET Bits
    BY OneOrigin DEF StateInv
  <2>6. \A z : Rho(s, x, y, z) <=> (z + 64 - r[Origin(e) + 1]) % 64 \in s[Origin(e)]
    BY <2>3, <2>4 DEF Rho, Bit
  <2>7. /\ rol64(s[Origin(e)], r[Origin(e) + 1]) \subseteq Bits
        /\ \A z \in Bits : z \in rol64(s[Origin(e)], r[Origin(e) + 1])
                             <=> (z + 64 - r[Origin(e) + 1]) % 64 \in s[Origin(e)]
    BY <2>4, <2>5, RolHas
  <2> QED
    BY <2>1, <2>2, <2>6, <2>7
<1>3. s' = pi(s)
  BY <1>1, <1>2 DEF pi, State
<1>4. s' \in [Words -> SUBSET Bits]
  BY <1>1, <1>2
<1> QED
  BY <1>3, <1>4

LEMMA ChiIs ==
    ASSUME StateInv, Chi
    PROVE  s' = chi(s) /\ s' \in [Words -> SUBSET Bits]
<1> DEFINE one(e) == ((e + 1) % 5) + 5 * (e \div 5)
           two(e) == ((e + 2) % 5) + 5 * (e \div 5)
<1>1. s' = [e \in Words |-> xor(s[e], not(s[one(e)]) \cap s[two(e)])]
  BY DEF Chi
<1>2. ASSUME NEW e \in Words
      PROVE  xor(s[e], not(s[one(e)]) \cap s[two(e)])
               = {z \in Bits : Bit(s, e % 5, e \div 5, z)
                     # (~Bit(s, (e % 5) + 1, e \div 5, z) /\ Bit(s, (e % 5) + 2, e \div 5, z))}
  <2>1. /\ ((e % 5) % 5) + 5 * (e \div 5) = e
        /\ (((e % 5) + 1) % 5) + 5 * (e \div 5) = one(e)
        /\ (((e % 5) + 2) % 5) + 5 * (e \div 5) = two(e)
        /\ one(e) \in Words /\ two(e) \in Words
    BY DEF Words
  <2>2. \A z : /\ Bit(s, e % 5, e \div 5, z) <=> z \in s[e]
               /\ Bit(s, (e % 5) + 1, e \div 5, z) <=> z \in s[one(e)]
               /\ Bit(s, (e % 5) + 2, e \div 5, z) <=> z \in s[two(e)]
    BY <2>1 DEF Bit
  <2> HIDE DEF one, two
  <2>3. s[e] \subseteq Bits /\ s[one(e)] \subseteq Bits /\ s[two(e)] \subseteq Bits
    BY <2>1 DEF StateInv
  <2>4. xor(s[e], not(s[one(e)]) \cap s[two(e)]) \subseteq Bits
    BY <2>3 DEF xor
  <2>5. \A z \in Bits : z \in xor(s[e], not(s[one(e)]) \cap s[two(e)])
                          <=> ~(Bit(s, e % 5, e \div 5, z)
                                <=> (~Bit(s, (e % 5) + 1, e \div 5, z)
                                     /\ Bit(s, (e % 5) + 2, e \div 5, z)))
    BY <2>2, <2>3, XorHas DEF not
  <2>6. ASSUME NEW z \in Bits
        PROVE  z \in xor(s[e], not(s[one(e)]) \cap s[two(e)])
                 <=> Bit(s, e % 5, e \div 5, z)
                       # (~Bit(s, (e % 5) + 1, e \div 5, z) /\ Bit(s, (e % 5) + 2, e \div 5, z))
    <3>1. CASE Bit(s, e % 5, e \div 5, z)
      BY <2>5, <3>1 DEF Bit
    <3>2. CASE /\ ~Bit(s, e % 5, e \div 5, z)
               /\ ~Bit(s, (e % 5) + 1, e \div 5, z) /\ Bit(s, (e % 5) + 2, e \div 5, z)
      BY <2>5, <3>2 DEF Bit
    <3>3. CASE /\ ~Bit(s, e % 5, e \div 5, z)
               /\ ~(~Bit(s, (e % 5) + 1, e \div 5, z) /\ Bit(s, (e % 5) + 2, e \div 5, z))
      <4>1. Bit(s, e % 5, e \div 5, z)
              = (~Bit(s, (e % 5) + 1, e \div 5, z) /\ Bit(s, (e % 5) + 2, e \div 5, z))
        <5>1. CASE Bit(s, (e % 5) + 1, e \div 5, z)
          BY <3>3, <5>1 DEF Bit
        <5>2. CASE ~Bit(s, (e % 5) + 2, e \div 5, z)
          BY <3>3, <5>2 DEF Bit
        <5> QED
          BY <3>3, <5>1, <5>2
      <4>2. z \notin xor(s[e], not(s[one(e)]) \cap s[two(e)])
        BY <2>5, <3>3
      <4> QED
        BY <4>1, <4>2, Zenon
    <3> QED
      BY <3>1, <3>2, <3>3
  <2> QED
    BY <2>4, <2>6
<1>3. s' = chi(s)
  BY <1>1, <1>2 DEF chi, State
<1>4. s' \in [Words -> SUBSET Bits]
  BY <1>1, <1>2
<1> QED
  BY <1>3, <1>4

LEMMA IotaIs ==
    ASSUME StateInv, Iota
    PROVE  s' = iota(s, round) /\ s' \in [Words -> SUBSET Bits]
<1>1. round \in 0 .. 23
  BY DEF StateInv, Iota
<1>2. RC[round + 1] = RoundConstant(round)
  BY <1>1, KeccakTables
<1>3. RC[round + 1] \subseteq Bits
  BY <1>1 DEF RC, Bits
<1>4. s' = iota(s, round)
  BY <1>2 DEF Iota, iota
<1>5. xor(s[0], RC[round + 1]) \subseteq Bits
  BY <1>3 DEF xor, StateInv, Words
<1>6. s' \in [Words -> SUBSET Bits]
  BY <1>5 DEF Iota, StateInv
<1> QED
  BY <1>4, <1>6

\* In every state that a sponge can give to keccakf, each line of the 24 rounds computes
\* the step mapping of FIPS 202 that it stands for.
THEOREM KeccakStepsAreFIPS202 == KeccakSpec => [][StepOfFIPS202]_keccakVars
<1>1. KeccakInit => StateInv
  BY KeccakAssumption DEF KeccakInit, StateInv
<1>2. StateInv /\ [KeccakNext]_keccakVars => StateInv'
  <2> SUFFICES ASSUME StateInv, [KeccakNext]_keccakVars PROVE StateInv'
    OBVIOUS
  <2>1. CASE Theta
    BY <2>1, ThetaIs DEF StateInv, Theta
  <2>2. CASE RhoPi
    BY <2>2, RhoPiIs DEF StateInv, RhoPi
  <2>3. CASE Chi
    BY <2>3, ChiIs DEF StateInv, Chi
  <2>4. CASE Iota
    BY <2>4, IotaIs DEF StateInv, Iota
  <2>5. CASE UNCHANGED keccakVars
    BY <2>5 DEF StateInv, keccakVars
  <2> QED
    BY <2>1, <2>2, <2>3, <2>4, <2>5 DEF KeccakNext
<1>3. StateInv /\ KeccakNext => StepOfFIPS202
  <2> SUFFICES ASSUME StateInv, KeccakNext PROVE StepOfFIPS202
    OBVIOUS
  <2>1. CASE Theta
    BY <2>1, ThetaIs DEF Theta, StepOfFIPS202
  <2>2. CASE RhoPi
    BY <2>2, RhoPiIs DEF RhoPi, StepOfFIPS202
  <2>3. CASE Chi
    BY <2>3, ChiIs DEF Chi, StepOfFIPS202
  <2>4. CASE Iota
    BY <2>4, IotaIs DEF Iota, StepOfFIPS202
  <2> QED
    BY <2>1, <2>2, <2>3, <2>4 DEF KeccakNext
<1> QED
  BY <1>1, <1>2, <1>3, PTL DEF KeccakSpec

-----------------------------------------------------------------------------
(* Rounding *)

LEMMA Gamma2Value == GAMMA2 = 261888
BY SMT DEF GAMMA2, Q_CONST

-----------------------------------------------------------------------------
(* Remainders *)

LEMMA ModSmall ==
    ASSUME NEW n \in Int, 0 <= n, n < 8380417
    PROVE  n % 8380417 = n
BY SMT

LEMMA ModNegative ==
    ASSUME NEW n \in Int, -8380417 <= n, n < 0
    PROVE  n % 8380417 = n + 8380417
BY SMT

LEMMA BelowZero ==
    ASSUME NEW n \in Int, -16 <= n, n < 0
    PROVE  n % 16 = n + 16
BY SMT

-----------------------------------------------------------------------------
(* decompose *)

\* The multiplication by 1025 and the shift are a division by 2 GAMMA2 that
\* rounds halves down.
LEMMA QuotientIs ==
    ASSUME NEW k \in 0 .. 16, NEW a \in Int, 0 <= a, a <= 8380416,
           a > (2 * k - 1) * 261888, a <= (2 * k + 1) * 261888
    PROVE  Quotient(a) = k
<1>1. CASE k \in 0 .. 3
  BY <1>1, SMTT(60) DEF Quotient
<1>2. CASE k \in 4 .. 7
  BY <1>2, SMTT(60) DEF Quotient
<1>3. CASE k \in 8 .. 11
  BY <1>3, SMTT(60) DEF Quotient
<1>4. CASE k \in 12 .. 16
  BY <1>4, SMTT(60) DEF Quotient
<1> QED
  BY <1>1, <1>2, <1>3, <1>4, SMT

\* A value below the last interval is k times 2 GAMMA2 and a centred rest.
LEMMA DecomposeIs ==
    ASSUME NEW k \in 0 .. 15, NEW a \in Int, a >= 0,
           a > (2 * k - 1) * 261888, a <= (2 * k + 1) * 261888
    PROVE  decompose(a) = [high |-> k, low |-> a - k * 523776]
<1> DEFINE x == a - k * 523776
<1>1. a <= 8380416 /\ x \in Int /\ -261887 <= x /\ x <= 261888
  BY SMT
<1>2. Quotient(a) = k
  BY <1>1, QuotientIs, SMT
<1>3. a - (Quotient(a) % 16) * 2 * GAMMA2 = x
  BY <1>2, Gamma2Value, SMT
<1>4. ~((Q_CONST - 1) \div 2 - x < 0)
  BY SMT DEF Q_CONST
<1>5. Quotient(a) % 16 = k
  BY <1>2, SMT
<1> QED
  BY <1>3, <1>4, <1>5, SMT DEF decompose

\* The last interval belongs to 0, and its rest is negative.
LEMMA DecomposeLast ==
    ASSUME NEW a \in Int, 31 * 261888 < a, a <= 8380416
    PROVE  decompose(a) = [high |-> 0, low |-> a - 8380417]
<1>1. 16 \in 0 .. 16 /\ a \in Int /\ 0 <= a /\ a <= 8380416 /\ a > (2 * 16 - 1) * 261888 /\ a <= (2 * 16 + 1) * 261888
  BY SMT
<1>2. Quotient(a) = 16
  BY <1>1, QuotientIs, SMT
<1>3. Quotient(a) % 16 = 0
  BY <1>2, SMT
<1>4. a - (Quotient(a) % 16) * 2 * GAMMA2 = a
  BY <1>3, Gamma2Value, SMT
<1>5. (Q_CONST - 1) \div 2 - a < 0 /\ Q_CONST = 8380417
  BY SMT DEF Q_CONST
<1> QED
  BY <1>3, <1>4, <1>5, SMT DEF decompose

LEMMA DecomposeRanges ==
    ASSUME NEW a \in Int, 0 <= a, a <= 8380416
    PROVE  /\ decompose(a).high \in 0 .. 15
           /\ decompose(a).low \in Int /\ -261888 <= decompose(a).low
           /\ decompose(a).low <= 261888
           /\ a - decompose(a).high * 523776 - decompose(a).low \in {0, 8380417}
<1>1. CASE a > 31 * 261888
  <2>1. decompose(a) = [high |-> 0, low |-> a - 8380417]
    BY <1>1, DecomposeLast, SMT
  <2> QED
    BY <1>1, <2>1, SMT
<1>2. CASE a <= 31 * 261888
  <2> DEFINE k == (a + 261887) \div 523776
  <2>1. k \in 0 .. 15 /\ a > (2 * k - 1) * 261888 /\ a <= (2 * k + 1) * 261888
    BY <1>2, SMT
  <2> HIDE DEF k
  <2>2. decompose(a) = [high |-> k, low |-> a - k * 523776]
    BY <2>1, DecomposeIs, SMT
  <2> QED
    BY <2>1, <2>2, SMT
<1> QED
  BY <1>1, <1>2, SMT

\* The high bits of a value that is a1 times 2 GAMMA2 and a small rest, taken
\* modulo q.
LEMMA HighBitsAre ==
    ASSUME NEW a1 \in 0 .. 15, NEW n \in Int,
           n > (2 * a1 - 1) * 261888, n <= (2 * a1 + 1) * 261888
    PROVE  decompose(n % 8380417).high = a1
<1>1. CASE n >= 0
  <2>1. n % 8380417 = n
    BY <1>1, ModSmall, SMT
  <2>2. decompose(n) = [high |-> a1, low |-> n - a1 * 523776]
    BY <1>1, DecomposeIs, SMT
  <2> QED
    BY <2>1, <2>2, SMT
<1>2. CASE n < 0
  <2>1. a1 = 0 /\ n % 8380417 = n + 8380417
    BY <1>2, ModNegative, SMT
  <2>2. 31 * 261888 < n + 8380417 /\ n + 8380417 <= 8380416
    BY <1>2, <2>1, SMT
  <2>3. decompose(n + 8380417).high = 0
    BY <2>2, DecomposeLast, SMT
  <2> QED
    BY <2>1, <2>3, SMT
<1> QED
  BY <1>1, <1>2, SMT

-----------------------------------------------------------------------------
(* The hint *)

LEMMA HintWorks ==
    ASSUME NEW a1 \in 0 .. 15, NEW x \in Int, -523775 <= x, x <= 523775
    PROVE  use_hint((a1 * 523776 + x) % 8380417, make_hint(x, a1)) = a1
<1> DEFINE n == a1 * 523776 + x
           v == n % 8380417
<1>n. n \in Int /\ n = a1 * 523776 + x
  BY SMT
<1> HIDE DEF n
<1>1. CASE x \in Int /\ -261887 <= x /\ x <= 261888
  <2>1. make_hint(x, a1) = 0
    BY <1>1, Gamma2Value, SMT DEF make_hint
  <2>2. decompose(v).high = a1
    BY <1>n, <1>1, HighBitsAre, SMT
  <2> HIDE DEF v
  <2>3. use_hint(v, 0) = a1
    BY <2>2, SMT DEF use_hint
  <2> QED
    BY <2>1, <2>3, SMT DEF v, n
<1>2. CASE x > 261888
  <2>1. make_hint(x, a1) = 1
    BY <1>2, Gamma2Value, SMT DEF make_hint
  <2>2. v = n
    BY <1>n, <1>2, ModSmall, SMT
  <2>3. CASE a1 < 15
    <3> DEFINE k == a1 + 1
               y == n - k * 523776
    <3>1. k \in 0 .. 15 /\ n >= 0 /\ n > (2 * k - 1) * 261888 /\ n <= (2 * k + 1) * 261888
      BY <1>n, <1>2, <2>3, SMT
    <3>2. y \in Int /\ y < 0
      BY <1>n, SMT
    <3>3. (k - 1) % 16 = a1 /\ ~(-y < 0)
      BY <1>n, <2>3, <3>2, SMT
    <3> HIDE DEF k, y, v
    <3>4. decompose(v) = [high |-> k, low |-> y]
      BY <1>n, <2>2, <3>1, DecomposeIs, SMT DEF y
    <3>5. use_hint(v, 1) = (k - 1) % 16
      BY <3>3, <3>4, SMT DEF use_hint
    <3> QED
      BY <2>1, <3>3, <3>5, SMT DEF v, n
  <2>4. CASE a1 = 15
    <3>1. n \in Int /\ 31 * 261888 < n /\ n <= 8380416 /\ ~(-(n - 8380417) < 0)
      BY <1>n, <1>2, <2>4, SMT
    <3> DEFINE m == 0 - 1
    <3>0. m \in Int /\ m + 16 = 15 /\ -16 <= m /\ m < 0
      BY SMT
    <3> HIDE DEF m
    <3>2. m % 16 = 15
      BY <3>0, BelowZero, SMT
    <3> HIDE DEF v
    <3>3. decompose(v) = [high |-> 0, low |-> n - 8380417]
      BY <2>2, <3>1, DecomposeLast, SMT
    <3>4. use_hint(v, 1) = m % 16
      BY <3>1, <3>3, SMT DEF use_hint, m
    <3> QED
      BY <2>1, <2>4, <3>2, <3>4, SMT DEF v, n
  <2> QED
    BY <2>3, <2>4, SMT
<1>3. CASE x < -261888 \/ (x = -261888 /\ a1 # 0)
  <2>1. make_hint(x, a1) = 1
    BY <1>3, Gamma2Value, SMT DEF make_hint
  <2>2. CASE a1 > 0
    <3> DEFINE k == a1 - 1
               y == n - k * 523776
    <3>1. k \in 0 .. 15 /\ n >= 0 /\ n > (2 * k - 1) * 261888 /\ n <= (2 * k + 1) * 261888
      BY <1>n, <1>3, <2>2, SMT
    <3>2. v = n
      BY <1>n, <3>1, ModSmall, SMT
    <3>3. (k + 1) % 16 = a1 /\ -y < 0
      BY <1>n, <1>3, <2>2, SMT
    <3> HIDE DEF k, y, v
    <3>4. decompose(v) = [high |-> k, low |-> y]
      BY <1>n, <3>1, <3>2, DecomposeIs, SMT DEF y
    <3>5. use_hint(v, 1) = (k + 1) % 16
      BY <3>3, <3>4, SMT DEF use_hint
    <3> QED
      BY <2>1, <3>3, <3>5, SMT DEF v, n
  <2>3. CASE a1 = 0
    <3> DEFINE y == x + 523777
    <3>0. v = n + 8380417
      BY <1>n, <1>3, <2>3, ModNegative, SMT
    <3>1. /\ 15 \in 0 .. 15 /\ v \in Int /\ v >= 0 /\ -y < 0
          /\ v > (2 * 15 - 1) * 261888 /\ v <= (2 * 15 + 1) * 261888
          /\ v - 15 * 523776 = y
      BY <1>n, <1>3, <2>3, <3>0, SMT
    <3>2. (15 + 1) % 16 = 0
      BY SMT
    <3> HIDE DEF y, v
    <3>3. decompose(v) = [high |-> 15, low |-> y]
      BY <3>1, DecomposeIs, SMT
    <3>4. use_hint(v, 1) = (15 + 1) % 16
      BY <3>1, <3>3, SMT DEF use_hint
    <3> QED
      BY <2>1, <2>3, <3>2, <3>4, SMT DEF v, n
  <2> QED
    BY <2>2, <2>3, SMT
<1>4. CASE x = -261888 /\ a1 = 0
  <2>1. make_hint(x, a1) = 0
    BY <1>4, Gamma2Value, SMT DEF make_hint
  <2>0. n < 0 /\ -8380417 <= n /\ n = -261888
    BY <1>n, <1>4, SMT
  <2>2. v = n + 8380417 /\ v \in Int /\ 31 * 261888 < v /\ v <= 8380416
    BY <1>n, <2>0, ModNegative, SMT
  <2> HIDE DEF v
  <2>3. decompose(v).high = 0
    BY <2>2, DecomposeLast, SMT
  <2>4. use_hint(v, 0) = 0
    BY <2>3, SMT DEF use_hint
  <2> QED
    BY <1>4, <2>1, <2>4, SMT DEF v, n
<1> QED
  BY <1>1, <1>2, <1>3, <1>4, SMT

-----------------------------------------------------------------------------
(* The inductive invariant *)

Stages == {"key", "decompose", "subtract", "add", "hint", "verify", "done",
           "rejected"}

\* What the parts of t and of w are, whatever the stage.
Parts ==
    /\ stage \in Stages
    /\ t \in Int /\ 0 <= t /\ t <= 8380416
    /\ w \in Int /\ 0 <= w /\ w <= 8380416
    /\ t1 \in Int /\ 0 <= t1 /\ t1 <= 1023
    /\ t0 \in Int /\ -4095 <= t0 /\ t0 <= 4096
    /\ w1 \in 0 .. 15 /\ v1 \in 0 .. 15 /\ h \in {0, 1}
    /\ w0 \in Int /\ -523776 <= w0 /\ w0 <= 523776

\* The terms of the challenge are small, and not there before they are added.
Terms ==
    /\ cs2 \in Int /\ -120 <= cs2 /\ cs2 <= 120
    /\ ct0 \in Int /\ -245760 <= ct0 /\ ct0 <= 245760
    /\ stage \in {"key", "decompose", "subtract"} => cs2 = 0
    /\ stage \in {"key", "decompose", "subtract", "add"} => ct0 = 0

IsTerm(x) == x \in Int /\ -120 <= x /\ x <= 120
IsRest(x) == x \in Int /\ -261888 <= x /\ x <= 261888
IsDifference(x) == x \in Int /\ -262008 <= x /\ x <= 262008
Leaves(a, b, d, k, x) == a - b + d - k * 523776 - x \in {0, 8380417}

\* w0 is what w1 leaves of w - cs2 + ct0, up to one q; once the test is passed
\* it is away from the border by more than cs2 can be.
Rest ==
    /\ stage = "subtract" => -261888 <= w0 /\ w0 <= 261888
    /\ stage \in {"subtract", "add", "hint", "verify", "done"} =>
          Leaves(w, cs2, ct0, w1, w0)
    /\ stage \in {"add", "hint", "verify", "done"} =>
          -261768 < w0 - ct0 /\ w0 - ct0 < 261768

Hint ==
    /\ stage = "verify" => h = make_hint(w0, w1)
    /\ stage = "done" => v1 = w1

RoundingInv == Parts /\ Terms /\ Rest /\ Hint

LEMMA Constants ==
    Q_CONST = 8380417 /\ GAMMA2 = 261888 /\ BETA = 120 /\ BETA \div ETA = 60
BY Gamma2Value, SMT DEF Q_CONST, BETA, ETA

LEMMA Inputs ==
    /\ \A x \in KeyValues : x \in Int /\ 0 <= x /\ x <= 8380416
    /\ \A x \in Commitments : x \in Int /\ 0 <= x /\ x <= 8380416
    /\ \A x \in SecretTerms : x \in Int /\ -120 <= x /\ x <= 120
    /\ \A x \in KeyTerms : x \in Int /\ -245760 <= x /\ x <= 245760
<1> DEFINE last == Q_CONST - 1
           most == (BETA \div ETA) * 4096
<1>1. \A x \in KeyValues \cup Commitments : x \in 0 .. last
  BY RoundingAssumption
<1>2. \A x \in SecretTerms : x \in -BETA .. BETA
  BY RoundingAssumption
<1>3. \A x \in KeyTerms : x \in -most .. most
  BY RoundingAssumption
<1>4. last \in Int /\ last <= 8380416 /\ most \in Int /\ most <= 245760
  BY Constants, SMT
<1> HIDE DEF last, most
<1>5. \A x \in KeyValues \cup Commitments : x \in Int /\ 0 <= x /\ x <= 8380416
  BY <1>1, <1>4, SMT
<1>6. \A x \in SecretTerms : x \in Int /\ -120 <= x /\ x <= 120
  BY <1>2, Constants, SMT
<1>7. \A x \in KeyTerms : x \in Int /\ -245760 <= x /\ x <= 245760
  BY <1>3, <1>4, SMT
<1> QED
  BY <1>5, <1>6, <1>7

\* reduce_32 leaves what is already small.
LEMMA ReduceSmall ==
    ASSUME NEW a \in Int, -4194304 <= a, a < 4194304
    PROVE  reduce_32(a) = a
<1>1. (a + 4194304) \div 8388608 = 0
  BY SMT
<1> QED
  BY <1>1, Constants, SMT DEF reduce_32

LEMMA NormTest ==
    ASSUME NEW a \in Int, NEW b \in Int, ~chk_norm(a, b)
    PROVE  -b < a /\ a < b
BY SMT DEF chk_norm, Abs

\* One q more or less does not change the remainder.
LEMMA ModShift ==
    ASSUME NEW n \in Int, NEW m \in Int, n - m \in {0, 8380417}
    PROVE  n % 8380417 = m % 8380417
BY SMT

LEMMA Difference ==
    ASSUME NEW a, NEW b, IsRest(a), IsTerm(b)
    PROVE  IsDifference(a - b)
BY SMT DEF IsRest, IsTerm, IsDifference

LEMMA LeavesFirst ==
    ASSUME NEW a \in Int, 0 <= a, a <= 8380416
    PROVE  Leaves(a, 0, 0, decompose(a).high, decompose(a).low)
<1> DEFINE k == decompose(a).high
           x == decompose(a).low
<1>1. k \in 0 .. 15 /\ x \in Int /\ a - k * 523776 - x \in {0, 8380417}
  BY DecomposeRanges, SMT
<1> HIDE DEF k, x
<1>2. Leaves(a, 0, 0, k, x)
  BY <1>1, SMT DEF Leaves
<1> QED
  BY <1>2, SMT DEF k, x

LEMMA LeavesLess ==
    ASSUME NEW a \in Int, NEW k \in Int, NEW x \in Int, NEW b \in Int,
           Leaves(a, 0, 0, k, x)
    PROVE  Leaves(a, b, 0, k, x - b)
BY SMT DEF Leaves

LEMMA InitRoundingInv == Init => RoundingInv
<1> SUFFICES ASSUME Init PROVE RoundingInv
  OBVIOUS
<1>1. stage = "key" /\ t \in Int /\ 0 <= t /\ t <= 8380416 /\ w \in Int /\ 0 <= w /\ w <= 8380416
  BY Inputs, SMT DEF Init
<1> QED
  BY <1>1, SMT DEF Init, RoundingInv, Parts, Terms, Rest, Hint, Stages

LEMMA Power2RoundStep == RoundingInv /\ Power2Round => RoundingInv'
<1> SUFFICES ASSUME RoundingInv, Power2Round PROVE RoundingInv'
  OBVIOUS
<1> USE DEF RoundingInv
<1>1. t1' \in Int /\ 0 <= t1' /\ t1' <= 1023 /\ t0' \in Int /\ -4095 <= t0' /\ t0' <= 4096
  BY SMT DEF Parts, Power2Round, power2_round
<1> QED
  BY <1>1, SMT DEF Power2Round, Parts, Terms, Rest, Hint, Stages

LEMMA DecomposeStep == RoundingInv /\ Decompose => RoundingInv'
<1> SUFFICES ASSUME RoundingInv, Decompose PROVE RoundingInv'
  OBVIOUS
<1> USE DEF RoundingInv
<1>1. w1' = decompose(w).high /\ w0' = decompose(w).low
  BY SMT DEF Decompose
<1>u. stage = "decompose" /\ stage' = "subtract"
      /\ UNCHANGED <<t, t1, t0, w, cs2, ct0, h, v1>>
  BY SMT DEF Decompose
<1>2. /\ w1' \in 0 .. 15
      /\ w0' \in Int /\ -261888 <= w0' /\ w0' <= 261888
      /\ w - w1' * 523776 - w0' \in {0, 8380417}
  BY <1>1, DecomposeRanges, SMT DEF Parts
<1>3. Parts'
  BY <1>2, <1>u, SMT DEF Parts, Stages
<1>4. Rest'
  <2>1. w \in Int /\ w1' \in Int /\ w0' \in Int /\ cs2 = 0 /\ ct0 = 0
    BY <1>2, <1>u, SMT DEF Parts, Terms
  <2>2. Leaves(w, 0, 0, w1', w0')
    BY <1>1, LeavesFirst, SMT DEF Parts
  <2>3. Leaves(w, cs2, ct0, w1, w0)'
    BY <1>u, <2>1, <2>2, SMT
  <2> QED
    BY <1>2, <1>u, <2>3, SMT DEF Rest
<1> QED
  BY <1>3, <1>4, SMT DEF Decompose, Terms, Hint

LEMMA SubtractCs2Step == RoundingInv /\ SubtractCs2 => RoundingInv'
<1> SUFFICES ASSUME RoundingInv, SubtractCs2 PROVE RoundingInv'
  OBVIOUS
<1> USE DEF RoundingInv
<1>1. cs2' \in Int /\ -120 <= cs2' /\ cs2' <= 120
  BY Inputs, SMT DEF SubtractCs2
<1>u. /\ stage = "subtract" /\ w0' = reduce_32(w0 - cs2')
      /\ stage' = "rejected" \/ (stage' = "add" /\ ~chk_norm(w0', GAMMA2 - BETA))
      /\ UNCHANGED <<t, t1, t0, w, w1, ct0, h, v1>>
  BY SMT DEF SubtractCs2
<1>b. /\ w0 \in Int /\ -261888 <= w0 /\ w0 <= 261888 /\ cs2 = 0 /\ ct0 = 0
      /\ Leaves(w, 0, 0, w1, w0)
      /\ w \in Int /\ w1 \in Int
  BY <1>u, SMT DEF Rest, Parts, Terms
<1>2. w0 - cs2' \in Int /\ -262008 <= w0 - cs2' /\ w0 - cs2' <= 262008
  <2>1. IsRest(w0) /\ IsTerm(cs2')
    BY <1>1, <1>b, SMT DEF IsRest, IsTerm
  <2>2. IsDifference(w0 - cs2')
    BY <2>1, Difference, SMT
  <2> QED
    BY <2>2, SMT DEF IsDifference
<1>3. w0' = w0 - cs2'
  BY <1>2, ReduceSmall, SMT DEF SubtractCs2
<1>4. ~chk_norm(w0', GAMMA2 - BETA) => -261768 < w0' /\ w0' < 261768
  BY <1>2, <1>3, NormTest, Constants, SMT
<1>5. Parts'
  BY <1>2, <1>3, SMT DEF SubtractCs2, Parts, Stages
<1>6. Terms'
  BY <1>1, SMT DEF SubtractCs2, Terms
<1>7. Rest'
  <2>1. Leaves(w, cs2', 0, w1, w0 - cs2')
    BY <1>1, <1>b, LeavesLess, SMT
  <2>2. Leaves(w, cs2, ct0, w1, w0)'
    BY <1>3, <1>u, <1>b, <2>1, SMT
  <2>3. w0' - ct0' = w0'
    BY <1>2, <1>3, <1>u, <1>b, SMT
  <2> QED
    BY <1>4, <1>u, <2>2, <2>3, SMT DEF Rest
<1> QED
  BY <1>5, <1>6, <1>7, SMT DEF SubtractCs2, Hint

LEMMA AddCt0Step == RoundingInv /\ AddCt0 => RoundingInv'
<1> SUFFICES ASSUME RoundingInv, AddCt0 PROVE RoundingInv'
  OBVIOUS
<1> USE DEF RoundingInv
<1>1. ct0' \in Int /\ -245760 <= ct0' /\ ct0' <= 245760
  BY Inputs, SMT DEF AddCt0
<1>2. reduce_32(ct0') = ct0'
  BY <1>1, ReduceSmall, SMT
<1>3. \/ stage' = "rejected" /\ w0' = w0
      \/ stage' = "hint" /\ w0' = w0 + ct0'
  BY <1>2, SMT DEF AddCt0
<1>4. stage = "add" /\ ct0 = 0 /\ w0 \in Int /\ -261768 < w0 /\ w0 < 261768
  BY SMT DEF AddCt0, Terms, Rest, Parts
<1>5. Parts'
  BY <1>1, <1>3, <1>4, SMT DEF AddCt0, Parts, Stages
<1>6. Terms'
  BY <1>1, <1>3, SMT DEF AddCt0, Terms
<1>7. Rest'
  BY <1>1, <1>3, <1>4, SMT DEF AddCt0, Terms, Rest, Parts, Leaves
<1> QED
  BY <1>3, <1>5, <1>6, <1>7, SMT DEF AddCt0, Hint

LEMMA MakeHintStep == RoundingInv /\ MakeHint => RoundingInv'
<1> SUFFICES ASSUME RoundingInv, MakeHint PROVE RoundingInv'
  OBVIOUS
<1> USE DEF RoundingInv
<1>1. make_hint(w0, w1) \in {0, 1}
  BY SMT DEF make_hint
<1>2. h' = make_hint(w0, w1) /\ stage = "hint" /\ stage' = "verify"
      /\ UNCHANGED <<t, t1, t0, w, w1, w0, cs2, ct0, v1>>
  BY SMT DEF MakeHint
<1>3. Parts'
  BY <1>1, <1>2, SMT DEF Parts, Stages
<1>4. Hint'
  BY <1>2, SMT DEF Hint
<1> QED
  BY <1>2, <1>3, <1>4, SMT DEF Terms, Rest

\* The value the verifier rounds is w1 times 2 GAMMA2 and w0, modulo q.
LEMMA UseHintStep == RoundingInv /\ UseHint => RoundingInv'
<1> SUFFICES ASSUME RoundingInv, UseHint PROVE RoundingInv'
  OBVIOUS
<1> USE DEF RoundingInv
<1>1. /\ stage = "verify" /\ stage' = "done"
      /\ v1' = use_hint((w - cs2 + ct0) % 8380417, h)
      /\ UNCHANGED <<t, t1, t0, w, w1, w0, cs2, ct0, h>>
  BY Constants, SMT DEF UseHint
<1>2. h = make_hint(w0, w1)
  BY <1>1, SMT DEF Hint
<1>3. /\ w1 \in 0 .. 15 /\ w0 \in Int /\ -523775 <= w0 /\ w0 <= 523775
      /\ (w - cs2 + ct0) - (w1 * 523776 + w0) \in {0, 8380417}
      /\ w - cs2 + ct0 \in Int /\ w1 * 523776 + w0 \in Int
  BY <1>1, SMT DEF Parts, Terms, Rest, Leaves
<1>4. (w - cs2 + ct0) % 8380417 = (w1 * 523776 + w0) % 8380417
  BY <1>3, ModShift, SMT
<1>5. v1' = w1
  BY <1>1, <1>2, <1>3, <1>4, HintWorks, SMT
<1>6. Parts'
  BY <1>1, <1>3, <1>5, SMT DEF Parts, Stages
<1> QED
  BY <1>1, <1>5, <1>6, SMT DEF Terms, Rest, Hint

LEMMA NextRoundingInv == RoundingInv /\ [Next]_vars => RoundingInv'
<1>1. RoundingInv /\ UNCHANGED vars => RoundingInv'
  BY SMT DEF RoundingInv, Parts, Terms, Rest, Hint, vars
<1> QED
  BY <1>1, Power2RoundStep, DecomposeStep, SubtractCs2Step, AddCt0Step,
     MakeHintStep, UseHintStep, SMT DEF Next

\* The parts of t and w, their terms and the hint are what RoundingInv says, for
\* every coefficient of key, commitment and challenge terms (rounding.c as
\* crypto_sign_optimized and crypto_verify_optimized use it).
THEOREM RoundingCorrect == Spec => []RoundingInv
BY InitRoundingInv, NextRoundingInv, PTL DEF Spec

-----------------------------------------------------------------------------
(* What follows from it *)

LEMMA RangesFollow == RoundingInv => RangesHold
<1> SUFFICES ASSUME Parts PROVE RangesHold
  BY DEF RoundingInv
<1>1. t1 \in 0 .. 1023
  BY SMT DEF Parts
<1>2. 4096 - t0 \in 0 .. 8191
  BY SMT DEF Parts
<1> DEFINE lo == -2 * GAMMA2
           hi == 2 * GAMMA2
<1>b. lo \in Int /\ lo <= -523776 /\ hi \in Int /\ hi >= 523776
  BY Constants, SMT
<1> HIDE DEF lo, hi
<1>3. w0 \in lo .. hi
  BY <1>b, SMT DEF Parts
<1> QED
  BY <1>1, <1>2, <1>3, SMT DEF Parts, Stages, RangesHold, lo, hi

LEMMA HighBitsFollow == RoundingInv => HighBitsKept
<1> SUFFICES ASSUME RoundingInv, stage \in {"add", "hint", "verify", "done"}
             PROVE  decompose((w - cs2) % Q_CONST).high = w1
  BY SMT DEF HighBitsKept
<1> DEFINE n == w - cs2
           m == w1 * 523776 + (w0 - ct0)
<1>1. /\ w1 \in 0 .. 15 /\ n \in Int /\ m \in Int /\ n - m \in {0, 8380417}
      /\ m > (2 * w1 - 1) * 261888 /\ m <= (2 * w1 + 1) * 261888
  BY SMT DEF RoundingInv, Parts, Terms, Rest, Leaves
<1> HIDE DEF n, m
<1>2. n % 8380417 = m % 8380417
  BY <1>1, ModShift, SMT
<1>3. decompose(m % 8380417).high = w1
  BY <1>1, HighBitsAre, SMT
<1> QED
  BY <1>2, <1>3, Constants, SMT DEF n

\* Each part fits the bits that packing gives it, and no value leaves 32 bits.
THEOREM PartsFit == Spec => []RangesHold
BY RoundingCorrect, RangesFollow, PTL

\* The signer's test of w0 against GAMMA2 - BETA is enough for the high bits of
\* w - c s2 to be those of w, as its comment claims.
THEOREM SubtractionKeepsHighBits == Spec => []HighBitsKept
BY RoundingCorrect, HighBitsFollow, PTL

\* The w1 that the verifier hashes is the w1 that the signer hashed.
THEOREM VerifierRecoversHighBits == Spec => []HintRecovers
<1>1. RoundingInv => HintRecovers
  BY SMT DEF RoundingInv, Hint, HintRecovers
<1> QED
  BY <1>1, RoundingCorrect, PTL

-----------------------------------------------------------------------------
(* The challenge *)


\* The coefficients from i on are still zero, and every turn of the loop has
\* added one that is not.
Filled ==
    /\ NonZero \subseteq 0 .. i - 1
    /\ Cardinality(NonZero) = i - (N - TAU)

ChallengeInv == TypeOK /\ Filled

LEMMA NonZeroFinite == IsFiniteSet(NonZero)
<1>1. IsFiniteSet(Index)
  BY FS_Interval, ChallengeAssumption DEF Index
<1>2. NonZero \subseteq Index
  BY DEF NonZero
<1> QED
  BY <1>1, <1>2, FS_Subset

LEMMA InitChallenge == ChallengeInit => ChallengeInv
<1> SUFFICES ASSUME ChallengeInit PROVE ChallengeInv
  OBVIOUS
<1>1. TypeOK
  BY ChallengeAssumption DEF ChallengeInit, TypeOK, Index
<1>2. NonZero = {}
  BY DEF ChallengeInit, NonZero, Index
<1>3. Cardinality(NonZero) = 0
  BY <1>2, FS_EmptySet
<1> QED
  BY <1>1, <1>2, <1>3, ChallengeAssumption DEF ChallengeInit, ChallengeInv, Filled

LEMMA RejectStep == ChallengeInv /\ Reject => ChallengeInv'
<1> SUFFICES ASSUME ChallengeInv, Reject PROVE ChallengeInv'
  OBVIOUS
<1>1. TypeOK'
  BY ChallengeAssumption DEF ChallengeInv, TypeOK, Reject, ReadAt
<1>2. NonZero' = NonZero /\ i' = i
  BY DEF Reject, NonZero
<1> QED
  BY <1>1, <1>2 DEF ChallengeInv, Filled

LEMMA AcceptStep == ChallengeInv /\ Accept => ChallengeInv'
<1> SUFFICES ASSUME ChallengeInv, Accept PROVE ChallengeInv'
  OBVIOUS
<1> USE DEF ChallengeInv
<1>1. PICK b \in 0 .. i, sign \in {1, -1} : c' = Place(b, sign)
  BY DEF Accept
<1>2. /\ i \in Int /\ i < N /\ i' = i + 1 /\ i >= N - TAU
      /\ i \in Index /\ b \in Index
      /\ c \in [Index -> {-1, 0, 1}]
  BY ChallengeAssumption DEF Accept, TypeOK, Index
<1>3. /\ c' \in [Index -> {-1, 0, 1}]
      /\ c'[b] = sign
      /\ b # i => c'[i] = c[b]
      /\ \A k \in Index : k # b /\ k # i => c'[k] = c[k]
  BY <1>1, <1>2 DEF Place
<1>4. TypeOK'
  <2>1. i' \in N - TAU .. N
    BY <1>2, ChallengeAssumption
  <2>2. pos' \in 0 .. RATE /\ bytes' \in 0 .. MaxBytes
    BY ChallengeAssumption DEF TypeOK, Accept, ReadAt
  <2>3. signs' = i' - (N - TAU) /\ signs' <= 8 * SignBytes
    BY <1>2, <2>1, ChallengeAssumption DEF TypeOK, Accept
  <2> QED
    BY <1>3, <2>1, <2>2, <2>3 DEF TypeOK, Index
<1>5. c[i] = 0 /\ i \notin NonZero
  BY <1>2 DEF Filled, NonZero
<1>6. PICK a \in Index : a \notin NonZero /\ a \in 0 .. i /\ NonZero' = NonZero \cup {a}
  <2>1. CASE c[b] = 0
    <3>1. b \notin NonZero
      BY <2>1 DEF NonZero
    <3>2. NonZero' = NonZero \cup {b}
      BY <1>2, <1>3, <1>5, <2>1 DEF NonZero, Index
    <3> QED
      BY <1>2, <3>1, <3>2
  <2>2. CASE c[b] # 0
    <3>1. b # i
      BY <1>5, <2>2
    <3>2. NonZero' = NonZero \cup {i}
      BY <1>2, <1>3, <1>5, <2>2, <3>1 DEF NonZero, Index
    <3> QED
      BY <1>2, <1>5, <3>2, ChallengeAssumption DEF Index
  <2> QED
    BY <2>1, <2>2
<1>7. Cardinality(NonZero') = Cardinality(NonZero) + 1
  BY <1>6, NonZeroFinite, FS_AddElement
<1>8. Filled'
  BY <1>2, <1>6, <1>7, ChallengeAssumption DEF Filled
<1> QED
  BY <1>4, <1>8

\* For every size of polynomial, weight and block, poly_challenge_volatile keeps
\* as many coefficients 1 or -1 as it has taken turns, all below i.
THEOREM ChallengeCorrect == ChallengeSpec => []ChallengeInv
<1>1. ChallengeInv /\ UNCHANGED challengeVars => ChallengeInv'
  BY DEF ChallengeInv, TypeOK, Filled, NonZero, challengeVars
<1>2. ChallengeInv /\ [ChallengeNext]_challengeVars => ChallengeInv'
  BY <1>1, RejectStep, AcceptStep DEF ChallengeNext
<1> QED
  BY <1>2, InitChallenge, PTL DEF ChallengeSpec

\* The challenge that poly_challenge_volatile returns has exactly TAU
\* coefficients 1 or -1: what BETA = TAU * ETA and the norm bounds rest on.
THEOREM ChallengeHasWeightTau == ChallengeSpec => []ChallengeWeight
<1>1. ChallengeInv => ChallengeWeight
  BY ChallengeAssumption DEF ChallengeInv, Filled, TypeOK, ChallengeWeight
<1> QED
  BY <1>1, ChallengeCorrect, PTL
=============================================================================
