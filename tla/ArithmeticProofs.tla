-------------------------- MODULE ArithmeticProofs --------------------------
(***************************************************************************)
(* The arithmetic of reduce.c and the loops of ntt.c, for every degree     *)
(* that is a power of two, every odd modulus and every word width; and the *)
(* interval analysis of Coefficients, which covers what reduce.c computes. *)
(***************************************************************************)
EXTENDS Ntt, TLAPS

Exact == INSTANCE Rounding WITH
    KeyValues <- {}, Commitments <- {}, SecretTerms <- {}, KeyTerms <- {},
    stage <- "", t <- 0, t1 <- 0, t0 <- 0, w <- 0, w1 <- 0, w0 <- 0,
    cs2 <- 0, ct0 <- 0, h <- 0, v1 <- 0

Analysis == INSTANCE Coefficients WITH
    prog <- "sign", pc <- 1, step <- 0, range <- << >>, overflow <- FALSE

-----------------------------------------------------------------------------
(* montgomery_reduce *)

LEMMA Remainder ==
    ASSUME NEW x \in Int, NEW m \in Nat, m > 0
    PROVE  /\ x % m \in 0 .. m - 1 /\ x \div m \in Int
           /\ x = m * (x \div m) + (x % m)
OBVIOUS

\* Adding a multiple does not change a remainder.
LEMMA RemainderIs ==
    ASSUME NEW u \in Int, NEW v \in Int, NEW m \in Nat, m > 0, 0 <= v, v < m
    PROVE  (m * u + v) % m = v /\ (m * u + v) \div m = u
<1> DEFINE x == m * u + v
           d == x \div m
           e == x % m
<1>1. x \in Int
  OBVIOUS
<1>2. e \in 0 .. m - 1 /\ d \in Int /\ x = m * d + e
  BY <1>1, Remainder
<1>3. m * (u - d) = e - v
  BY <1>2
<1>4. u - d < 1
  <2>1. SUFFICES ASSUME u - d >= 1 PROVE FALSE
    BY <1>2
  <2>2. m * (u - d) >= m
    BY <2>1, <1>2
  <2> QED
    BY <2>2, <1>3, <1>2
<1>5. u - d > -1
  <2>1. SUFFICES ASSUME u - d <= -1 PROVE FALSE
    BY <1>2
  <2>2. m * (u - d) <= -m
    BY <2>1, <1>2
  <2> QED
    BY <2>2, <1>3, <1>2
<1>6. u = d
  BY <1>4, <1>5, <1>2
<1> QED
  BY <1>6, <1>3, <1>2

LEMMA CastIs ==
    ASSUME R \in Nat, R > 0, R % 2 = 0, NEW x \in Int
    PROVE  /\ Cast(x) \in Int /\ -R <= 2 * Cast(x) /\ 2 * Cast(x) < R
           /\ \E u \in Int : Cast(x) = x + R * u
<1> DEFINE d == x \div R
           e == x % R
<1>1. e \in 0 .. R - 1 /\ d \in Int /\ x = R * d + e
  BY Remainder
<1>2. R \div 2 \in Int /\ 2 * (R \div 2) = R
  OBVIOUS
<1>3. CASE e >= R \div 2
  <2>1. Cast(x) = e - R
    BY <1>3 DEF Cast
  <2>2. e - R = x + R * (-d - 1)
    BY <1>1
  <2>3. Cast(x) = x + R * (-d - 1) /\ -d - 1 \in Int
    BY <2>1, <2>2, <1>1
  <2>4. \E u \in Int : Cast(x) = x + R * u
    BY <2>3
  <2>5. Cast(x) \in Int /\ -R <= 2 * Cast(x) /\ 2 * Cast(x) < R
    BY <2>1, <1>1, <1>2, <1>3
  <2> QED
    BY <2>4, <2>5
<1>4. CASE e < R \div 2
  <2>1. Cast(x) = e
    BY <1>4, <1>1, <1>2 DEF Cast
  <2>2. e = x + R * (-d)
    BY <1>1
  <2>3. Cast(x) = x + R * (-d) /\ -d \in Int
    BY <2>1, <2>2, <1>1
  <2>4. \E u \in Int : Cast(x) = x + R * u
    BY <2>3
  <2>5. Cast(x) \in Int /\ -R <= 2 * Cast(x) /\ 2 * Cast(x) < R
    BY <2>1, <1>1, <1>2, <1>4
  <2> QED
    BY <2>4, <2>5
<1> QED
  BY <1>1, <1>2, <1>3, <1>4

\* The division is exact: what montgomery_reduce subtracts is a multiple of q that
\* agrees with x in the low word.
LEMMA MontgomeryIs ==
    ASSUME NttAssumption, NEW x \in Int
    PROVE  /\ montgomery_reduce(x) \in Int
           /\ \E t \in Int : /\ -R <= 2 * t /\ 2 * t < R
                            /\ R * montgomery_reduce(x) = x - t * Q
<1>1. R \in Nat /\ R > 0 /\ R % 2 = 0 /\ Q \in Nat /\ Q > 0
  BY DEF NttAssumption
<1>2. Q_INV \in Int /\ (Q_INV * Q) % R = 1
  <2>1. \E y \in 0 .. R - 1 : (y * Q) % R = 1
    BY DEF NttAssumption
  <2>2. Q_INV \in 0 .. R - 1 /\ (Q_INV * Q) % R = 1
    BY <2>1 DEF Q_INV
  <2> QED
    BY <2>2, <1>1
<1> DEFINE c == Cast(x)
           p == c * Q_INV
           t == Cast(p)
           m == (Q_INV * Q) \div R
<1>3. c \in Int /\ \E u \in Int : c = x + R * u
  BY <1>1, CastIs
<1>4. PICK u \in Int : c = x + R * u
  BY <1>3
<1>5. p \in Int
  BY <1>2, <1>3
<1>6. t \in Int /\ -R <= 2 * t /\ 2 * t < R /\ \E v \in Int : t = p + R * v
  BY <1>1, <1>5, CastIs
<1>7. PICK v \in Int : t = p + R * v
  BY <1>6
<1>8. m \in Int /\ Q_INV * Q = R * m + 1
  <2>1. Q_INV * Q \in Int
    BY <1>1, <1>2
  <2> QED
    BY <2>1, <1>1, <1>2, Remainder
<1>9. PICK w \in Int : t * Q = x + R * w
  <2> HIDE DEF c, p, t, m
  <2>1. t = c * Q_INV + R * v
    BY <1>7 DEF p
  <2>2. t * Q = c * (Q_INV * Q) + R * (v * Q)
    BY <2>1, <1>1, <1>2, <1>3
  <2>3. c * (Q_INV * Q) = c * (R * m) + c
    BY <1>1, <1>3, <1>8
  <2>4. c * (R * m) = R * (c * m)
    BY <1>1, <1>3, <1>8
  <2>5. t * Q = x + (R * u + R * (c * m) + R * (v * Q))
    BY <2>2, <2>3, <2>4, <1>1, <1>3, <1>4, <1>8
  <2>6. R * u + R * (c * m) + R * (v * Q) = R * (u + c * m + v * Q)
    BY <1>1, <1>3, <1>8
  <2>7. u + c * m + v * Q \in Int
    BY <1>1, <1>3, <1>8
  <2> QED
    BY <2>5, <2>6, <2>7
<1> HIDE DEF t
<1>10. montgomery_reduce(x) = -w
  <2>1. montgomery_reduce(x) = (x - t * Q) \div R
    BY DEF montgomery_reduce, t
  <2>2. x - t * Q = R * (-w) + 0
    BY <1>1, <1>6, <1>9
  <2>3. -w \in Int
    OBVIOUS
  <2>4. (R * (-w) + 0) \div R = -w
    BY ONLY <1>1, <2>3, RemainderIs
  <2> QED
    BY <2>1, <2>2, <2>4
<1>11. R * montgomery_reduce(x) = x - t * Q
  BY <1>1, <1>6, <1>9, <1>10
<1> QED
  BY <1>6, <1>9, <1>10, <1>11

\* For every integer, and so for the 64-bit products it is given, montgomery_reduce
\* gives x / R modulo q, and not further from x / R than q / 2.
THEOREM MontgomeryReduces ==
    NttAssumption =>
        \A x \in Int :
            /\ Same(R * montgomery_reduce(x), x)
            /\ -(R * Q) <= 2 * (R * montgomery_reduce(x) - x)
            /\ 2 * (R * montgomery_reduce(x) - x) <= R * Q
<1> SUFFICES ASSUME NttAssumption, NEW x \in Int
             PROVE  /\ Same(R * montgomery_reduce(x), x)
                    /\ -(R * Q) <= 2 * (R * montgomery_reduce(x) - x)
                    /\ 2 * (R * montgomery_reduce(x) - x) <= R * Q
  OBVIOUS
<1>1. R \in Nat /\ Q \in Nat /\ Q > 0
  BY DEF NttAssumption
<1>2. PICK t \in Int : /\ -R <= 2 * t /\ 2 * t < R
                       /\ R * montgomery_reduce(x) = x - t * Q
  BY MontgomeryIs
<1> DEFINE y == R * montgomery_reduce(x)
<1>3. y \in Int /\ y - x = Q * (-t) + 0
  BY <1>1, <1>2
<1>4. (Q * (-t) + 0) % Q = 0
  BY <1>1, RemainderIs
<1>5. Same(y, x)
  BY <1>3, <1>4 DEF Same
<1>6. /\ t * Q \in Int /\ R * Q \in Int
      /\ -(R * Q) <= (2 * t) * Q /\ (2 * t) * Q <= R * Q
  <2>1. \A i \in Int, n \in Int : i <= n => i * Q <= n * Q
    BY <1>1
  <2>2. (-R) * Q <= (2 * t) * Q /\ (2 * t) * Q <= R * Q
    BY <2>1, <1>1, <1>2
  <2> QED
    BY <2>2, <1>1
<1>7. 2 * (y - x) = -((2 * t) * Q)
  <2>1. y - x = -(t * Q)
    BY <1>1, <1>2, <1>6
  <2>2. (2 * t) * Q = 2 * (t * Q)
    BY <1>1
  <2> QED
    BY <2>1, <2>2, <1>6
<1>8. (2 * t) * Q \in Int
  BY <1>1
<1> HIDE DEF y
<1>9. -(R * Q) <= 2 * (y - x) /\ 2 * (y - x) <= R * Q
  BY <1>3, <1>6, <1>7, <1>8
<1> QED
  BY <1>5, <1>9 DEF y

-----------------------------------------------------------------------------
(* The loops of ntt and inv_ntt_to_mont *)

\* A level of c: blocks of 2 c coefficients fill the polynomial.
Level(c) == c \in Nat /\ c > 0 /\ N % (2 * c) = 0

\* s is where a block begins, x a place in its first half.
Place(c, s, x) == s \in Nat /\ s + 2 * c <= N /\ x \in Nat /\ s <= x /\ x < s + c

\* How far the table of zetas has been read, forwards and backwards.
Forward(c, s, y) == y \in Nat /\ (2 * c) * y = N + s
Backward(c, s, y) == y \in Nat /\ (2 * c) * (y + 1) = 2 * N - s

LoopInv ==
    /\ job \in {"ntt a", "ntt b", "pointwise", "inv_ntt", "scale", "done"}
    /\ job \in {"ntt a", "ntt b"} =>
          Level(count) /\ Place(count, start, j) /\ Forward(count, start, k)
    /\ job = "pointwise" => count = 1 /\ start = 0 /\ j = 0 /\ k = N - 1
    /\ job = "inv_ntt" =>
          Level(count) /\ Place(count, start, j) /\ Backward(count, start, k)

LEMMA Sizes ==
    ASSUME NttAssumption
    PROVE  /\ N \in Nat /\ N > 1 /\ N % 2 = 0
           /\ \A d \in Nat : d > 1 /\ N % d = 0 /\ d <= N => d % 2 = 0
<1>1. N \in Nat /\ N > 1
  BY DEF NttAssumption
<1>2. ASSUME NEW d \in Nat, d > 1, N % d = 0, d <= N PROVE d % 2 = 0
  <2>1. d \in 2 .. N
    BY <1>1, <1>2
  <2>2. \A e \in 2 .. N : N % e = 0 => e % 2 = 0
    BY DEF NttAssumption
  <2> QED
    BY <2>1, <2>2, <1>2
<1>3. N % N = 0
  <2>1. (N * 1 + 0) % N = 0
    BY <1>1, RemainderIs
  <2> QED
    BY <2>1, <1>1
<1> QED
  BY <1>1, <1>2, <1>3

LEMMA Multiple ==
    ASSUME NEW n \in Nat, NEW d \in Nat, d > 0
    PROVE  n % d = 0 <=> \E m \in Nat : n = d * m
<1>1. ASSUME n % d = 0 PROVE \E m \in Nat : n = d * m
  <2>1. n \div d \in Int /\ n = d * (n \div d) + (n % d)
    BY Remainder
  <2>2. n = d * (n \div d)
    BY <2>1, <1>1
  <2>3. n \div d >= 0
    <3>1. SUFFICES ASSUME n \div d <= -1 PROVE FALSE
      BY <2>1
    <3>2. PICK e \in Int : e = n \div d
      BY <2>1
    <3>3. d * e <= -d
      BY <3>1, <3>2
    <3> QED
      BY <3>3, <3>2, <2>2
  <2> QED
    BY <2>1, <2>2, <2>3
<1>2. ASSUME NEW m \in Nat, n = d * m PROVE n % d = 0
  <2>1. (d * m + 0) % d = 0
    BY RemainderIs
  <2> QED
    BY <2>1, <1>2
<1> QED
  BY <1>1, <1>2

\* The first level of a transform, and the first of its inverse.
LEMMA FirstLevel ==
    ASSUME NttAssumption
    PROVE  /\ Level(N \div 2) /\ Place(N \div 2, 0, 0) /\ Forward(N \div 2, 0, 1)
           /\ Level(1) /\ Place(1, 0, 0) /\ Backward(1, 0, N - 1)
<1>1. N \in Nat /\ N > 1 /\ N % 2 = 0
  BY Sizes
<1>2. N \div 2 \in Nat /\ N \div 2 > 0 /\ 2 * (N \div 2) = N
  BY <1>1
<1>3. N % N = 0
  <2>1. (N * 1 + 0) % N = 0
    BY <1>1, RemainderIs
  <2> QED
    BY <2>1, <1>1
<1>4. Level(N \div 2) /\ Place(N \div 2, 0, 0)
  BY <1>1, <1>2, <1>3 DEF Level, Place
<1>5. Forward(N \div 2, 0, 1)
  BY <1>1, <1>2 DEF Forward
<1>6. Level(1) /\ Place(1, 0, 0) /\ Backward(1, 0, N - 1)
  BY <1>1 DEF Level, Place, Backward
<1> QED
  BY <1>4, <1>5, <1>6

\* Behind a block comes a whole block or the end.
LEMMA WholeBlocks ==
    ASSUME NEW d \in Nat, d > 0, NEW m \in Int, NEW i \in Int, d * i < d * m
    PROVE  d * i + d <= d * m
<1>1. i < m
  <2>1. SUFFICES ASSUME m <= i PROVE FALSE
    OBVIOUS
  <2>2. d * m <= d * i
    BY <2>1
  <2> QED
    BY <2>2
<1>2. d * (i + 1) <= d * m
  BY <1>1
<1> QED
  BY <1>2

LEMMA NextBlock ==
    ASSUME NttAssumption, NEW c, Level(c), NEW s, NEW x, Place(c, s, x), NEW y,
           x + 1 = s + c, x + 1 + c < N
    PROVE  LET z == x + 1 + c IN
           /\ Forward(c, s, y) => Place(c, z, z) /\ Forward(c, z, y + 1)
           /\ Backward(c, s, y) => Place(c, z, z) /\ Backward(c, z, y - 1)
<1>1. N \in Nat /\ N > 1
  BY Sizes
<1>2. c \in Nat /\ c > 0 /\ s \in Nat /\ x \in Nat
  BY DEF Level, Place
<1>3. PICK d \in Nat : d = 2 * c /\ d > 0
  BY <1>2
<1>4. PICK m \in Nat : N = d * m
  BY <1>1, <1>3, Multiple DEF Level
<1> DEFINE z == x + 1 + c
<1>5. z \in Nat /\ z = s + d /\ z < N
  BY <1>2, <1>3
<1>6. ASSUME NEW i \in Int, z = d * i PROVE Place(c, z, z)
  <2>1. d * i < d * m
    BY <1>4, <1>5, <1>6
  <2>2. d * i + d <= d * m
    BY <2>1, <1>3, WholeBlocks
  <2> QED
    BY <2>2, <1>2, <1>3, <1>4, <1>5, <1>6 DEF Place
<1>7. ASSUME Forward(c, s, y) PROVE Place(c, z, z) /\ Forward(c, z, y + 1)
  <2>1. y \in Nat /\ d * y = N + s
    BY <1>3, <1>7 DEF Forward
  <2>2. d * (y + 1) = N + z
    BY <2>1, <1>1, <1>2, <1>3, <1>5
  <2>3. z = d * (y + 1 - m) /\ y + 1 - m \in Int
    BY <2>1, <2>2, <1>1, <1>3, <1>4, <1>5
  <2> QED
    BY <2>1, <2>2, <2>3, <1>3, <1>6 DEF Forward
<1>8. ASSUME Backward(c, s, y) PROVE Place(c, z, z) /\ Backward(c, z, y - 1)
  <2>1. y \in Nat /\ d * (y + 1) = 2 * N - s
    BY <1>3, <1>8 DEF Backward
  <2>2. d * y = 2 * N - z
    BY <2>1, <1>1, <1>2, <1>3, <1>5
  <2>3. z = d * (2 * m - y) /\ 2 * m - y \in Int
    <3>1. z = 2 * (d * m) - d * y
      BY <2>1, <2>2, <1>4, <1>5
    <3>2. 2 * (d * m) - d * y = d * (2 * m - y)
      BY <2>1
    <3> QED
      BY <3>1, <3>2, <2>1
  <2>4. y > 0
    BY <2>1, <2>2, <1>1, <1>3, <1>5
  <2> QED
    BY <2>1, <2>2, <2>3, <2>4, <1>3, <1>6 DEF Backward
<1> QED
  BY <1>7, <1>8

\* After the last block of a level.
LEMMA NextLevelForward ==
    ASSUME NttAssumption, NEW c, Level(c), NEW s, NEW x, Place(c, s, x), NEW y,
           Forward(c, s, y), x + 1 = s + c, ~(x + 1 + c < N), c > 1
    PROVE  /\ Level(c \div 2) /\ Place(c \div 2, 0, 0)
           /\ Forward(c \div 2, 0, y + 1)
<1>1. N \in Nat /\ N > 1
  BY Sizes
<1>2. c \in Nat /\ s \in Nat /\ x \in Nat /\ s + 2 * c = N
  BY <1>1 DEF Level, Place
<1>3. PICK m \in Nat : N = (2 * c) * m
  BY <1>1, <1>2, Multiple DEF Level
<1>4. N % c = 0
  <2>1. N = c * (2 * m) /\ 2 * m \in Nat
    BY <1>2, <1>3
  <2> QED
    BY <2>1, <1>1, <1>2, Multiple
<1>5. c % 2 = 0
  BY <1>1, <1>2, <1>4, Sizes
<1>6. PICK e \in Nat : e = c \div 2 /\ 2 * e = c /\ e > 0
  BY <1>2, <1>5
<1>7. Level(e) /\ Place(e, 0, 0)
  BY <1>1, <1>2, <1>4, <1>6 DEF Level, Place
<1>8. Forward(e, 0, y + 1)
  <2>1. y \in Nat /\ (2 * c) * y = N + s
    BY DEF Forward
  <2>2. (2 * c) * y = 2 * (c * y)
    BY <2>1, <1>2
  <2>3. c * y \in Nat /\ c * y = N - c
    BY <2>1, <2>2, <1>1, <1>2
  <2>4. c * (y + 1) = N
    BY <2>1, <2>3, <1>1, <1>2
  <2> QED
    BY <2>1, <2>4, <1>1, <1>6 DEF Forward
<1> QED
  BY <1>6, <1>7, <1>8

LEMMA NextLevelBackward ==
    ASSUME NttAssumption, NEW c, Level(c), NEW s, NEW x, Place(c, s, x), NEW y,
           Backward(c, s, y), x + 1 = s + c, ~(x + 1 + c < N), 2 * c < N
    PROVE  Level(2 * c) /\ Place(2 * c, 0, 0) /\ Backward(2 * c, 0, y - 1)
<1>1. N \in Nat /\ N > 1
  BY Sizes
<1>2. c \in Nat /\ c > 0 /\ s \in Nat /\ x \in Nat /\ s + 2 * c = N
  BY <1>1 DEF Level, Place
<1>3. PICK d \in Nat : d = 2 * c /\ d > 0
  BY <1>2
<1>4. PICK m \in Nat : N = d * m
  BY <1>1, <1>3, Multiple DEF Level
<1>5. m > 1 /\ m <= N /\ N % m = 0
  <2>1. m # 0 /\ m # 1
    BY <1>1, <1>3, <1>4
  <2>2. m > 1
    BY <2>1
  <2>3. m <= N
    BY <1>3, <1>4
  <2>4. N = m * d
    BY <1>4
  <2>5. \E n \in Nat : N = m * n
    BY <2>4
  <2>6. m \in Nat /\ m > 0
    BY <2>2
  <2>7. N % m = 0
    BY ONLY <2>5, <2>6, <1>1, Multiple
  <2> QED
    BY <2>2, <2>3, <2>7
<1>6. m % 2 = 0
  BY <1>5, Sizes
<1>7. PICK e \in Nat : m = 2 * e
  BY <1>6, Multiple
<1>8. Level(d) /\ Place(d, 0, 0)
  <2>1. e > 0
    BY <1>5, <1>7
  <2>2. N = (2 * d) * e
    BY <1>4, <1>7
  <2>3. N % (2 * d) = 0
    <3>1. PICK n \in Nat : n = 2 * d /\ n > 0
      BY <1>3
    <3>2. N = n * e
      BY <2>2, <3>1
    <3> QED
      BY <3>1, <3>2, <1>1, Multiple
  <2>4. 2 * d <= N
    BY <2>1, <2>2, <1>3
  <2> QED
    BY <2>3, <2>4, <1>1, <1>3 DEF Level, Place
<1>9. Backward(d, 0, y - 1)
  <2>1. y \in Nat /\ d * (y + 1) = 2 * N - s
    BY <1>3 DEF Backward
  <2>2. d * y = N
    BY <2>1, <1>1, <1>2, <1>3
  <2>3. y > 0
    BY <2>1, <2>2, <1>1
  <2>4. (2 * d) * y = 2 * N
    BY <2>1, <2>2, <1>1
  <2> QED
    BY <2>1, <2>3, <2>4, <1>1 DEF Backward
<1> QED
  BY <1>3, <1>8, <1>9

\* The indices of a butterfly.
LEMMA IndicesFollow ==
    ASSUME NttAssumption, NEW c, Level(c), NEW s, NEW x, Place(c, s, x), NEW y,
           Forward(c, s, y) \/ Backward(c, s, y)
    PROVE  x \in 0 .. N - 1 /\ x + c \in x + 1 .. N - 1 /\ y \in 1 .. N - 1
<1>1. N \in Nat /\ N > 1
  BY Sizes
<1>2. c \in Nat /\ c > 0 /\ s \in Nat /\ x \in Nat /\ s + 2 * c <= N
  BY DEF Level, Place
<1>3. x \in 0 .. N - 1 /\ x + c \in x + 1 .. N - 1
  BY <1>1, <1>2 DEF Place
<1>4. y \in Nat
  BY DEF Forward, Backward
<1>5. CASE Forward(c, s, y)
  <2>1. (2 * c) * y = N + s
    BY <1>5 DEF Forward
  <2>2. (2 * c) * y = 2 * (c * y) /\ c * y \in Nat
    BY <1>2, <1>4
  <2>3. c * y <= N - c
    BY <2>1, <2>2, <1>1, <1>2
  <2>4. y <= c * y
    BY <1>2, <1>4
  <2>5. y # 0
    BY <2>1, <1>1, <1>2
  <2> QED
    BY <2>2, <2>3, <2>4, <2>5, <1>1, <1>2, <1>3, <1>4
<1>6. CASE Backward(c, s, y)
  <2>1. (2 * c) * (y + 1) = 2 * N - s
    BY <1>6 DEF Backward
  <2>2. (2 * c) * (y + 1) = 2 * (c * y) + 2 * c /\ c * y \in Nat
    BY <1>2, <1>4
  <2>3. c * y <= N - c /\ 2 * (c * y) >= N
    BY <2>1, <2>2, <1>1, <1>2
  <2>4. y <= c * y
    BY <1>2, <1>4
  <2>5. y # 0
    BY <2>3, <1>1, <1>2
  <2> QED
    BY <2>2, <2>3, <2>4, <2>5, <1>1, <1>2, <1>3, <1>4
<1> QED
  BY <1>5, <1>6

\* One turn of the loops of a transform, whatever follows its last one.
LEMMA ForwardStep ==
    ASSUME NttAssumption, NEW Then,
           Level(count), Place(count, start, j), Forward(count, start, k),
           NextForward(Then)
    PROVE  \/ /\ job' = job
              /\ Level(count') /\ Place(count', start', j') /\ Forward(count', start', k')
           \/ start' = 0 /\ j' = 0 /\ Then
<1>1. N \in Nat /\ count \in Nat /\ start \in Nat /\ j \in Nat
  BY Sizes DEF Level, Place
<1>2. CASE j + 1 < start + count
  <2>1. j' = j + 1 /\ UNCHANGED <<job, count, start, k>>
    BY <1>2 DEF NextForward
  <2>2. Place(count, start, j + 1)
    BY <1>1, <1>2 DEF Place
  <2> QED
    BY <2>1, <2>2
<1>3. CASE ~(j + 1 < start + count) /\ j + 1 + count < N
  <2>1. /\ start' = j + 1 + count /\ j' = j + 1 + count /\ k' = k + 1
        /\ UNCHANGED <<job, count>>
    BY <1>3 DEF NextForward
  <2>2. j + 1 = start + count
    BY <1>1, <1>3 DEF Place
  <2>3. Place(count, j + 1 + count, j + 1 + count) /\ Forward(count, j + 1 + count, k + 1)
    BY <2>2, <1>3, NextBlock
  <2> QED
    BY <2>1, <2>3
<1>4. CASE ~(j + 1 < start + count) /\ ~(j + 1 + count < N)
  <2>1. j + 1 = start + count
    BY <1>1, <1>4 DEF Place
  <2>2. CASE count > 1
    <3>1. /\ start' = 0 /\ j' = 0 /\ count' = count \div 2 /\ k' = k + 1
          /\ UNCHANGED job
      BY <1>4, <2>2 DEF NextForward
    <3>2. /\ Level(count \div 2) /\ Place(count \div 2, 0, 0)
          /\ Forward(count \div 2, 0, k + 1)
      BY <2>1, <2>2, <1>4, NextLevelForward
    <3> QED
      BY <3>1, <3>2
  <2>3. CASE ~(count > 1)
    BY <1>4, <2>3 DEF NextForward
  <2> QED
    BY <2>2, <2>3
<1> QED
  BY <1>2, <1>3, <1>4

LEMMA NttStep ==
    ASSUME NttAssumption, LoopInv, ntt
    PROVE  LoopInv'
<1>1. CASE job = "ntt a"
  <2>1. NextForward(job' = "ntt b" /\ count' = N \div 2 /\ k' = 1)
    BY <1>1 DEF ntt
  <2>2. Level(count) /\ Place(count, start, j) /\ Forward(count, start, k)
    BY <1>1 DEF LoopInv
  <2>3. CASE /\ job' = job
             /\ Level(count') /\ Place(count', start', j') /\ Forward(count', start', k')
    BY <2>3, <1>1 DEF LoopInv
  <2>4. CASE start' = 0 /\ j' = 0 /\ job' = "ntt b" /\ count' = N \div 2 /\ k' = 1
    BY <2>4, FirstLevel DEF LoopInv
  <2> QED
    BY <2>1, <2>2, <2>3, <2>4, ForwardStep
<1>2. CASE job = "ntt b"
  <2>1. NextForward(job' = "pointwise" /\ count' = 1 /\ k' = N - 1)
    BY <1>2 DEF ntt
  <2>2. Level(count) /\ Place(count, start, j) /\ Forward(count, start, k)
    BY <1>2 DEF LoopInv
  <2>3. CASE /\ job' = job
             /\ Level(count') /\ Place(count', start', j') /\ Forward(count', start', k')
    BY <2>3, <1>2 DEF LoopInv
  <2>4. CASE start' = 0 /\ j' = 0 /\ job' = "pointwise" /\ count' = 1 /\ k' = N - 1
    BY <2>4 DEF LoopInv
  <2> QED
    BY <2>1, <2>2, <2>3, <2>4, ForwardStep
<1> QED
  BY <1>1, <1>2 DEF ntt

LEMMA InvNttStep ==
    ASSUME NttAssumption, LoopInv, inv_ntt_to_mont
    PROVE  LoopInv'
<1>1. job = "inv_ntt" /\ Level(count) /\ Place(count, start, j) /\ Backward(count, start, k)
  BY DEF LoopInv, inv_ntt_to_mont
<1>2. N \in Nat /\ count \in Nat /\ start \in Nat /\ j \in Nat
  BY <1>1, Sizes DEF Level, Place
<1>3. CASE j + 1 < start + count
  <2>1. j' = j + 1 /\ UNCHANGED <<job, count, start, k>>
    BY <1>3 DEF inv_ntt_to_mont
  <2>2. Place(count, start, j + 1)
    BY <1>1, <1>2, <1>3 DEF Place
  <2> QED
    BY <2>1, <2>2, <1>1 DEF LoopInv
<1>4. CASE ~(j + 1 < start + count) /\ j + 1 + count < N
  <2>1. /\ start' = j + 1 + count /\ j' = j + 1 + count /\ k' = k - 1
        /\ UNCHANGED <<job, count>>
    BY <1>4 DEF inv_ntt_to_mont
  <2>2. j + 1 = start + count
    BY <1>1, <1>2, <1>4 DEF Place
  <2>3. Place(count, j + 1 + count, j + 1 + count) /\ Backward(count, j + 1 + count, k - 1)
    BY <2>2, <1>1, <1>4, NextBlock
  <2> QED
    BY <2>1, <2>3, <1>1 DEF LoopInv
<1>5. CASE ~(j + 1 < start + count) /\ ~(j + 1 + count < N)
  <2>1. /\ start' = 0 /\ j' = 0 /\ count' = 2 * count /\ k' = k - 1
        /\ job' = IF 2 * count < N THEN job ELSE "scale"
    BY <1>5 DEF inv_ntt_to_mont
  <2>2. j + 1 = start + count
    BY <1>1, <1>2, <1>5 DEF Place
  <2>3. CASE 2 * count < N
    <3>1. Level(2 * count) /\ Place(2 * count, 0, 0) /\ Backward(2 * count, 0, k - 1)
      BY <2>2, <2>3, <1>1, <1>5, NextLevelBackward
    <3> QED
      BY <3>1, <2>1, <2>3, <1>1 DEF LoopInv
  <2>4. CASE ~(2 * count < N)
    BY <2>1, <2>4 DEF LoopInv
  <2> QED
    BY <2>3, <2>4
<1> QED
  BY <1>3, <1>4, <1>5

\* For every degree that is a power of two: the loops of ntt and inv_ntt_to_mont stay
\* inside the polynomial and inside the table of zetas.
THEOREM TransformsStayInside == NttAssumption /\ Spec => []IndicesInBounds
<1>1. NttAssumption /\ Init => LoopInv
  <2> SUFFICES ASSUME NttAssumption, Init PROVE LoopInv
    OBVIOUS
  <2> QED
    BY FirstLevel DEF Init, LoopInv
<1>2. NttAssumption /\ LoopInv /\ [Next]_vars => LoopInv'
  <2> SUFFICES ASSUME NttAssumption, LoopInv, [Next]_vars PROVE LoopInv'
    OBVIOUS
  <2>1. CASE ntt
    BY <2>1, NttStep
  <2>2. CASE poly_pointwise_montgomery
    BY <2>2, FirstLevel DEF poly_pointwise_montgomery, LoopInv
  <2>3. CASE inv_ntt_to_mont
    BY <2>3, InvNttStep
  <2>4. CASE Scale
    BY <2>4 DEF Scale, LoopInv
  <2>5. CASE UNCHANGED vars
    BY <2>5 DEF vars, LoopInv
  <2> QED
    BY <2>1, <2>2, <2>3, <2>4, <2>5 DEF Next
<1>3. NttAssumption /\ LoopInv => IndicesInBounds
  <2> SUFFICES ASSUME NttAssumption, LoopInv, job \in {"ntt a", "ntt b", "inv_ntt"}
               PROVE  /\ j \in 0 .. N - 1 /\ j + count \in j + 1 .. N - 1
                      /\ k \in DOMAIN ZETAS
    BY DEF IndicesInBounds
  <2>1. Level(count) /\ Place(count, start, j)
    BY DEF LoopInv
  <2>2. Forward(count, start, k) \/ Backward(count, start, k)
    BY DEF LoopInv
  <2>3. DOMAIN ZETAS = 1 .. N - 1
    BY DEF ZETAS
  <2> QED
    BY <2>1, <2>2, <2>3, IndicesFollow
<1> SUFFICES ASSUME NttAssumption PROVE Spec => []IndicesInBounds
  OBVIOUS
<1> QED
  BY <1>1, <1>2, <1>3, PTL DEF Spec

-----------------------------------------------------------------------------
(* The intervals of Coefficients *)

Intervals == [lo : Int, hi : Int]
Has(r, x) == x \in Int /\ r.lo <= x /\ x <= r.hi

Fits32(x) == -Analysis!INT32_MAX <= x /\ x <= Analysis!INT32_MAX
Is32(r) == Fits32(r.lo) /\ Fits32(r.hi)

\* The modulus and the word of mldsa87 (2^32)
OfTheProgram == NttAssumption /\ Q = 8380417 /\ R = 65536 * 65536

\* c_addq on one coefficient, with the modulus of the program
AddQ(x) == IF x < 0 THEN x + 8380417 ELSE x

LEMMA MaxIs ==
    ASSUME NEW x \in Int, NEW y \in Int
    PROVE  /\ Analysis!Max({x, y}) \in Int /\ Analysis!Max({x, y}) >= x
           /\ Analysis!Max({x, y}) >= y
           /\ Analysis!Min({x, y}) \in Int /\ Analysis!Min({x, y}) <= x
           /\ Analysis!Min({x, y}) <= y
BY DEF Analysis!Max, Analysis!Min

LEMMA SumsAreCovered ==
    ASSUME NEW r \in Intervals, NEW s \in Intervals, NEW x, Has(r, x), NEW y, Has(s, y)
    PROVE  /\ Analysis!PlusFits(r, s) => Has(Analysis!Plus(r, s), x + y)
           /\ Analysis!MinusFits(r, s) => Has(Analysis!Minus(r, s), x - y)
BY DEF Intervals, Has, Analysis!PlusFits, Analysis!MinusFits, Analysis!Plus,
       Analysis!Minus, Analysis!Cut, Analysis!Interval

LEMMA SumsFit ==
    ASSUME NEW r \in Intervals, NEW s \in Intervals, Is32(r), Is32(s),
           NEW x, Has(r, x), NEW y, Has(s, y)
    PROVE  /\ Analysis!PlusFits(r, s) => Fits32(x + y)
           /\ Analysis!MinusFits(r, s) => Fits32(x - y)
BY DEF Intervals, Has, Is32, Fits32, Analysis!PlusFits, Analysis!MinusFits, Analysis!Fits,
       Analysis!INT32_MAX

LEMMA ReduceIsCovered ==
    ASSUME NEW r \in Intervals, NEW x, Has(r, x)
    PROVE  Has(Analysis!reduce_32(r), Exact!reduce_32(x))
BY DEF Intervals, Has, Analysis!reduce_32, Analysis!Interval, Analysis!Q,
       Exact!reduce_32, Exact!Q_CONST

LEMMA AddQIsCovered ==
    ASSUME NEW r \in Intervals, Is32(r), NEW x, Has(r, x)
    PROVE  Has(Analysis!c_addq(r), AddQ(x))
<1>1. r.lo \in Int /\ r.hi \in Int /\ x \in Int /\ r.lo <= x /\ x <= r.hi
  BY DEF Intervals, Has
<1>2. CASE r.lo >= 0
  BY <1>1, <1>2 DEF Has, AddQ, Analysis!c_addq
<1>3. CASE r.hi < 0
  BY <1>1, <1>3 DEF Has, AddQ, Is32, Fits32, Analysis!c_addq, Analysis!Plus, Analysis!Cut,
     Analysis!Fits, Analysis!Interval, Analysis!Q, Analysis!INT32_MAX
<1>4. CASE r.lo < 0 /\ r.hi >= 0
  <2>1. PICK e \in Int, f1 \in Int : e = r.lo + 8380417 /\ f1 = 8380417 - 1
    BY <1>1
  <2> DEFINE low == Analysis!Min({0, e})
             high == Analysis!Max({r.hi, f1})
  <2>2. Analysis!c_addq(r) = [lo |-> low, hi |-> high]
    BY <2>1, <1>1, <1>4, SMT DEF Analysis!c_addq, Analysis!Join, Analysis!Interval, Analysis!Q
  <2>3. low \in Int /\ low <= 0 /\ low <= e
    <3>1. 0 \in Int
      BY SMT
    <3> QED
      BY ONLY <3>1, e \in Int, MaxIs, Zenon
  <2>4. high \in Int /\ high >= r.hi /\ high >= f1
    BY ONLY f1 \in Int, <1>1, MaxIs, SMT
  <2> HIDE DEF low, high
  <2> QED
    BY <2>1, <2>2, <2>3, <2>4, <1>1, <1>4, SMT DEF Has, AddQ
<1> QED
  BY <1>1, <1>2, <1>3, <1>4

\* A product is below the one of its factors' high halves, each rounded up.
LEMMA ProductBelow ==
    ASSUME NEW x \in Int, NEW y \in Int, NEW u \in Nat, NEW v \in Nat,
           -u <= x, x <= u, -v <= y, y <= v
    PROVE  -(u * v) <= x * y /\ x * y <= u * v
<1>1. CASE x >= 0 /\ y >= 0
  <2>1. x * y <= u * y /\ u * y <= u * v /\ x * y >= 0
    BY <1>1
  <2> QED
    BY <2>1
<1>2. CASE x >= 0 /\ y <= 0
  <2>1. x * (-y) <= u * (-y) /\ u * (-y) <= u * v /\ x * (-y) >= 0 /\ x * (-y) = -(x * y)
    BY <1>2
  <2> QED
    BY <2>1
<1>3. CASE x <= 0 /\ y >= 0
  <2>1. (-x) * y <= u * y /\ u * y <= u * v /\ (-x) * y >= 0 /\ (-x) * y = -(x * y)
    BY <1>3
  <2> QED
    BY <2>1
<1>4. CASE x <= 0 /\ y <= 0
  <2>1. (-x) * (-y) <= u * (-y) /\ u * (-y) <= u * v /\ (-x) * (-y) >= 0
        /\ (-x) * (-y) = x * y
    BY <1>4
  <2> QED
    BY <2>1
<1> QED
  BY <1>1, <1>2, <1>3, <1>4

LEMMA MontgomeryIsCovered ==
    ASSUME OfTheProgram,
           NEW X \in Nat, NEW Y \in Nat, NEW x \in Int, NEW y \in Int,
           -X <= x, x <= X, -Y <= y, y <= Y
    PROVE  Has(Analysis!montgomery_reduce(X, Y), montgomery_reduce(x * y))
<1>0. NttAssumption /\ Q = 8380417 /\ R = 65536 * 65536
  BY SMT DEF OfTheProgram
<1> DEFINE A == (X \div 65536) + 1
           B == (Y \div 65536) + 1
<1>1. A \in Nat /\ B \in Nat /\ X <= 65536 * A /\ Y <= 65536 * B
  OBVIOUS
<1>2. PICK u \in Nat, v \in Nat : u = 65536 * A /\ v = 65536 * B
  BY <1>1
<1>3. -(u * v) <= x * y /\ x * y <= u * v
  <2>1. -u <= x /\ x <= u /\ -v <= y /\ y <= v
    BY <1>1, <1>2
  <2> QED
    BY <2>1, ProductBelow
<1>4. A * B \in Nat /\ u * v = R * (A * B)
  BY <1>0, <1>1, <1>2
<1> HIDE DEF A, B
<1>5. PICK p \in Int : p = x * y
  OBVIOUS
<1>6. PICK n \in Nat : n = A * B
  BY <1>4
<1>7. PICK m \in Int : m = montgomery_reduce(p)
  BY <1>0, MontgomeryIs
<1>8. -(R * Q) <= 2 * (R * m - p) /\ 2 * (R * m - p) <= R * Q
  BY <1>0, <1>7, MontgomeryReduces
<1>9. R = 4294967296 /\ Q = 8380417
  BY <1>0
<1>10. -(4294967296 * n) <= p /\ p <= 4294967296 * n
  BY <1>3, <1>4, <1>5, <1>6, <1>9
<1>11. -n - 4190209 <= m /\ m <= n + 4190209
  BY <1>8, <1>9, <1>10, SMT
<1>12. Analysis!montgomery_reduce(X, Y) = [lo |-> -(n + 4190209), hi |-> n + 4190209]
  BY <1>6 DEF Analysis!montgomery_reduce, Analysis!Around, Analysis!Interval, Analysis!Q, A, B
<1> QED
  BY <1>5, <1>7, <1>11, <1>12 DEF Has

LEMMA SizeCovers ==
    ASSUME NEW r \in Intervals, NEW x, Has(r, x)
    PROVE  /\ Analysis!Size(r) \in Nat
           /\ -Analysis!Size(r) <= x /\ x <= Analysis!Size(r)
<1>1. r.lo \in Int /\ r.hi \in Int /\ x \in Int /\ r.lo <= x /\ x <= r.hi
  BY DEF Intervals, Has
<1>2. PICK e \in Int : e = -r.lo
  BY <1>1
<1>3. PICK m : m = Analysis!Max({e, r.hi})
  OBVIOUS
<1>4. m \in Int /\ m >= e /\ m >= r.hi
  BY <1>1, <1>3, MaxIs, Zenon
<1>5. Analysis!Size(r) = m
  BY <1>2, <1>3 DEF Analysis!Size
<1> QED
  BY <1>1, <1>2, <1>4, <1>5, SMT

\* The interval analysis covers the program.  For coefficients x and y in intervals r and
\* s: where the analysis notes no overflow a sum or difference is in its interval and in
\* int32, and what reduce_32, c_addq and montgomery_reduce compute, with q and 2^32 of
\* the program, is in the interval the analysis gives.
THEOREM IntervalsCover ==
    \A r, s \in Intervals : \A x, y \in Int : Has(r, x) /\ Has(s, y) =>
        /\ Analysis!PlusFits(r, s) => Has(Analysis!Plus(r, s), x + y)
        /\ Analysis!MinusFits(r, s) => Has(Analysis!Minus(r, s), x - y)
        /\ Is32(r) /\ Is32(s) /\ Analysis!PlusFits(r, s) => Fits32(x + y)
        /\ Is32(r) /\ Is32(s) /\ Analysis!MinusFits(r, s) => Fits32(x - y)
        /\ Has(Analysis!reduce_32(r), Exact!reduce_32(x))
        /\ Is32(r) => Has(Analysis!c_addq(r), AddQ(x))
        /\ OfTheProgram =>
              Has(Analysis!montgomery_reduce(Analysis!Size(r), Analysis!Size(s)),
                  montgomery_reduce(x * y))
<1> TAKE r, s \in Intervals
<1> TAKE x, y \in Int
<1> HAVE Has(r, x) /\ Has(s, y)
<1>1. /\ Analysis!PlusFits(r, s) => Has(Analysis!Plus(r, s), x + y)
      /\ Analysis!MinusFits(r, s) => Has(Analysis!Minus(r, s), x - y)
  BY SumsAreCovered
<1>2. ASSUME Is32(r), Is32(s)
     PROVE  /\ Analysis!PlusFits(r, s) => Fits32(x + y)
            /\ Analysis!MinusFits(r, s) => Fits32(x - y)
  BY <1>2, SumsFit
<1>3. Has(Analysis!reduce_32(r), Exact!reduce_32(x))
  BY ReduceIsCovered
<1>4. Is32(r) => Has(Analysis!c_addq(r), AddQ(x))
  BY AddQIsCovered
<1>5. ASSUME OfTheProgram
     PROVE  Has(Analysis!montgomery_reduce(Analysis!Size(r), Analysis!Size(s)),
                montgomery_reduce(x * y))
  <2>1. PICK X \in Nat : X = Analysis!Size(r) /\ -X <= x /\ x <= X
    BY SizeCovers
  <2>2. PICK Y \in Nat : Y = Analysis!Size(s) /\ -Y <= y /\ y <= Y
    BY SizeCovers
  <2>3. Has(Analysis!montgomery_reduce(X, Y), montgomery_reduce(x * y))
    BY <2>1, <2>2, <1>5, MontgomeryIsCovered
  <2> QED
    BY <2>1, <2>2, <2>3
<1> QED
  <2>1. Is32(r) /\ Is32(s) /\ Analysis!PlusFits(r, s) => Fits32(x + y)
    BY <1>2
  <2>2. Is32(r) /\ Is32(s) /\ Analysis!MinusFits(r, s) => Fits32(x - y)
    BY <1>2
  <2>3. OfTheProgram =>
            Has(Analysis!montgomery_reduce(Analysis!Size(r), Analysis!Size(s)),
                montgomery_reduce(x * y))
    BY <1>5
  <2> QED
    BY <1>1, <2>1, <2>2, <1>3, <1>4, <2>3
=============================================================================
