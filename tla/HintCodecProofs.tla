-------------------------- MODULE HintCodecProofs --------------------------
(***************************************************************************)
(* For every number of polynomials, every number of coefficients and every *)
(* OMEGA below it: hints survive pack_sig_volatile and                     *)
(* unpack_sig_volatile, and a hint has one encoding.                       *)
(***************************************************************************)
EXTENDS HintCodec, TLAPS, FiniteSetTheorems

\* Where polynomial p begins and ends among the places of s.
StartOf(s, p) == IF p = 0 THEN 0 ELSE s[OMEGA + p - 1]
CountOf(s, p) == s[OMEGA + p]

Part(s, a, b) == {s[x] : x \in a .. b - 1}
Rising(s, a, b) == \A x, y \in a .. b - 1 : x < y => s[x] < s[y]

\* The first n polynomials of hint stand in s.
Written(s, hint, n) ==
    \A p \in 0 .. n - 1 :
        /\ StartOf(s, p) \in 0 .. CountOf(s, p)
        /\ CountOf(s, p) <= StartOf(s, n)
        /\ hint[p] = Part(s, StartOf(s, p), CountOf(s, p))
        /\ Rising(s, StartOf(s, p), CountOf(s, p))

ZeroFrom(s, n) == \A x \in n .. OMEGA - 1 : s[x] = 0

\* s is the encoding of hint.
Encoded(s, hint) ==
    /\ StartOf(s, K) \in 0 .. OMEGA
    /\ Written(s, hint, K)
    /\ ZeroFrom(s, StartOf(s, K))

-----------------------------------------------------------------------------
(* The inductive invariant *)

Packing == job \in {"pack", "pack again"}

Typed ==
    /\ bytes \in Strings
    /\ h \in Hints
    /\ i \in 0 .. K /\ j \in 0 .. N /\ k \in 0 .. OMEGA
    /\ job \in {"pack", "pack again", "unpack", "unpack again", "packed", "unpacked", "refused"}

\* Up to coefficient j of polynomial i the hint is written, with k places.
PackInv ==
    /\ j < N /\ (i = K => j = 0) /\ (j = 0 => k = StartOf(bytes, i))
    /\ StartOf(bytes, i) \in 0 .. k
    /\ Written(bytes, h, i)
    /\ i < K => /\ Part(bytes, StartOf(bytes, i), k) = {c \in h[i] : c < j}
                /\ Rising(bytes, StartOf(bytes, i), k)
    /\ ZeroFrom(bytes, k)

\* The ones that come before coefficient c of polynomial p.
Before(hint, p, c) == {o \in Ones(hint) : o[1] < p \/ (o[1] = p /\ o[2] < c)}

\* The first packing counts them.
FirstPack ==
    /\ given = h
    /\ Weight(h) <= OMEGA
    /\ k = Cardinality(Before(h, i, j))

\* The second one rewrites the bytes that were unpacked.
SecondPack ==
    /\ given \in Strings
    /\ Encoded(given, h)
    /\ \A b \in 0 .. k - 1 : bytes[b] = given[b]
    /\ \A p \in 0 .. i - 1 : CountOf(bytes, p) = CountOf(given, p)
    /\ i < K => k <= CountOf(given, i)

\* Up to place j of polynomial i the hint is read.
UnpackInv ==
    /\ k = StartOf(bytes, i)
    /\ j \in k .. OMEGA
    /\ i = K => j = k
    /\ i < K /\ j > k => j < CountOf(bytes, i) /\ CountOf(bytes, i) <= OMEGA
    /\ Written(bytes, h, i)
    /\ i < K => h[i] = Part(bytes, k, j) /\ Rising(bytes, k, j)
    /\ \A p \in i + 1 .. K - 1 : h[p] = {}

HintInv ==
    /\ Typed
    /\ Packing => PackInv
    /\ job = "pack" => FirstPack
    /\ job = "pack again" => SecondPack
    /\ Decoding => UnpackInv
    /\ job = "unpack" => given = bytes
    /\ job = "unpack again" => given \in Hints /\ Encoded(bytes, given)
    /\ job = "packed" => bytes = given
    /\ job = "unpacked" => h = given
    /\ job = "refused" => given \in Strings

-----------------------------------------------------------------------------
(* Parts of the places *)

LEMMA SameParts ==
    ASSUME NEW s, NEW r, NEW a \in Int, NEW b \in Int, \A x \in a .. b - 1 : r[x] = s[x]
    PROVE  Part(r, a, b) = Part(s, a, b) /\ (Rising(s, a, b) => Rising(r, a, b))
BY DEF Part, Rising

LEMMA NoPart ==
    ASSUME NEW s, NEW a \in Int
    PROVE  Part(s, a, a) = {} /\ Rising(s, a, a)
<1>1. a .. a - 1 = {}
  OBVIOUS
<1> QED
  BY <1>1 DEF Part, Rising

LEMMA OneMore ==
    ASSUME NEW s, NEW a \in Int, NEW b \in Int, a <= b
    PROVE  Part(s, a, b + 1) = Part(s, a, b) \cup {s[b]}
<1>1. a .. (b + 1) - 1 = (a .. b - 1) \cup {b}
  OBVIOUS
<1>2. {s[x] : x \in (a .. b - 1) \cup {b}} = {s[x] : x \in a .. b - 1} \cup {s[b]}
  BY Zenon
<1> QED
  BY <1>1, <1>2 DEF Part

LEMMA RisingOn ==
    ASSUME NEW s, NEW a \in Int, NEW b \in Int, a <= b, Rising(s, a, b),
           \A x \in a .. b - 1 : s[x] < s[b]
    PROVE  Rising(s, a, b + 1)
<1> SUFFICES ASSUME NEW x \in a .. b, NEW y \in a .. b, x < y
             PROVE  s[x] < s[y]
  BY DEF Rising
<1>1. x \in a .. b - 1 /\ (y \in a .. b - 1 \/ y = b)
  OBVIOUS
<1> QED
  BY <1>1 DEF Rising

\* A rising part shows each of its values once.
LEMMA RisingOnce ==
    ASSUME NEW s, NEW a \in Int, NEW b \in Int, Rising(s, a, b), NEW x \in a .. b - 1,
           NEW y \in a .. b - 1, s[x] \in Int, s[x] = s[y]
    PROVE  x = y
BY DEF Rising

-----------------------------------------------------------------------------
(* Written polynomials *)

LEMMA WrittenNone ==
    ASSUME NEW s, NEW hint
    PROVE  Written(s, hint, 0)
BY DEF Written

LEMMA NextStart ==
    ASSUME HintAssumption, NEW s, NEW n \in Nat
    PROVE  StartOf(s, n + 1) = CountOf(s, n)
<1>1. n + 1 # 0 /\ OMEGA + (n + 1) - 1 = OMEGA + n
  BY DEF HintAssumption
<1> QED
  BY <1>1 DEF StartOf, CountOf

LEMMA WrittenMore ==
    ASSUME HintAssumption, NEW s, NEW hint, NEW n \in Nat, Written(s, hint, n),
           CountOf(s, n) \in Int, StartOf(s, n) \in 0 .. CountOf(s, n),
           hint[n] = Part(s, StartOf(s, n), CountOf(s, n)),
           Rising(s, StartOf(s, n), CountOf(s, n)),
           \A p \in 0 .. n - 1 : CountOf(s, p) \in Int
    PROVE  Written(s, hint, n + 1)
<1>1. StartOf(s, n + 1) = CountOf(s, n)
  BY NextStart
<1> SUFFICES ASSUME NEW p \in 0 .. n
             PROVE  /\ StartOf(s, p) \in 0 .. CountOf(s, p)
                    /\ CountOf(s, p) <= CountOf(s, n)
                    /\ hint[p] = Part(s, StartOf(s, p), CountOf(s, p))
                    /\ Rising(s, StartOf(s, p), CountOf(s, p))
  BY <1>1 DEF Written
<1>2. CASE p = n
  BY <1>2
<1>3. CASE p \in 0 .. n - 1
  BY <1>3 DEF Written
<1> QED
  BY <1>2, <1>3

\* Starts are the counts before them.
LEMMA SameStarts ==
    ASSUME HintAssumption, NEW s, NEW r, NEW n \in Nat,
           \A p \in 0 .. n - 1 : CountOf(r, p) = CountOf(s, p)
    PROVE  \A p \in 0 .. n : StartOf(r, p) = StartOf(s, p)
<1> SUFFICES ASSUME NEW p \in 0 .. n
             PROVE  StartOf(r, p) = StartOf(s, p)
  OBVIOUS
<1>1. CASE p = 0
  BY <1>1 DEF StartOf
<1>2. CASE p # 0
  <2> DEFINE m == p - 1
  <2>1. m \in 0 .. n - 1 /\ m \in Nat /\ m + 1 = p
    BY <1>2
  <2> HIDE DEF m
  <2>2. StartOf(r, m + 1) = CountOf(r, m) /\ StartOf(s, m + 1) = CountOf(s, m)
    BY <2>1, NextStart
  <2> QED
    BY <2>1, <2>2
<1> QED
  BY <1>1, <1>2

LEMMA WrittenSame ==
    ASSUME HintAssumption, NEW s, NEW r, NEW hint, NEW n \in Nat, Written(s, hint, n),
           StartOf(s, n) \in Int,
           \A p \in 0 .. n - 1 : CountOf(r, p) = CountOf(s, p) /\ CountOf(s, p) \in Int,
           \A x \in 0 .. StartOf(s, n) - 1 : r[x] = s[x]
    PROVE  Written(r, hint, n)
<1>1. \A p \in 0 .. n : StartOf(r, p) = StartOf(s, p)
  BY SameStarts
<1> SUFFICES ASSUME NEW p \in 0 .. n - 1
             PROVE  /\ StartOf(r, p) \in 0 .. CountOf(r, p)
                    /\ CountOf(r, p) <= StartOf(r, n)
                    /\ hint[p] = Part(r, StartOf(r, p), CountOf(r, p))
                    /\ Rising(r, StartOf(r, p), CountOf(r, p))
  BY DEF Written
<1>2. StartOf(r, p) = StartOf(s, p) /\ StartOf(r, n) = StartOf(s, n) /\ CountOf(r, p) = CountOf(s, p)
  BY <1>1
<1>3. /\ StartOf(s, p) \in 0 .. CountOf(s, p) /\ CountOf(s, p) <= StartOf(s, n)
      /\ hint[p] = Part(s, StartOf(s, p), CountOf(s, p))
      /\ Rising(s, StartOf(s, p), CountOf(s, p)) /\ CountOf(s, p) \in Int
  BY DEF Written
<1>4. \A x \in StartOf(s, p) .. CountOf(s, p) - 1 : r[x] = s[x]
  BY <1>3
<1>5. /\ Part(r, StartOf(s, p), CountOf(s, p)) = Part(s, StartOf(s, p), CountOf(s, p))
      /\ Rising(r, StartOf(s, p), CountOf(s, p))
  BY <1>3, <1>4, SameParts
<1> QED
  BY <1>2, <1>3, <1>5

LEMMA WrittenOther ==
    ASSUME NEW s, NEW hint, NEW other, NEW n \in Nat, Written(s, hint, n),
           \A p \in 0 .. n - 1 : other[p] = hint[p]
    PROVE  Written(s, other, n)
BY DEF Written

-----------------------------------------------------------------------------
(* Packing *)

LEMMA TypesOf ==
    ASSUME HintAssumption, NEW s \in Strings
    PROVE  /\ \A p \in 0 .. K - 1 : CountOf(s, p) \in 0 .. N - 1
           /\ \A p \in 0 .. K : StartOf(s, p) \in 0 .. N - 1
           /\ \A x \in 0 .. OMEGA - 1 : s[x] \in 0 .. N - 1
<1>1. \A p \in 0 .. K - 1 : OMEGA + p \in 0 .. OMEGA + K - 1
  BY DEF HintAssumption
<1>2. \A p \in 0 .. K - 1 : CountOf(s, p) \in 0 .. N - 1
  BY <1>1 DEF CountOf, Strings
<1>3. ASSUME NEW p \in 0 .. K PROVE StartOf(s, p) \in 0 .. N - 1
  <2>1. p # 0 => OMEGA + p - 1 \in 0 .. OMEGA + K - 1
    BY DEF HintAssumption
  <2> QED
    BY <2>1 DEF StartOf, Strings, HintAssumption
<1>4. \A x \in 0 .. OMEGA - 1 : s[x] \in 0 .. N - 1
  BY DEF Strings, HintAssumption
<1> QED
  BY <1>2, <1>3, <1>4

\* What one turn of the loops writes.
LEMMA PackBitWrites ==
    ASSUME HintAssumption, Typed, PackBit, j \in h[i] => k < OMEGA
    PROVE  /\ i \in 0 .. K - 1 /\ j \in 0 .. N - 1
           /\ k' = (IF j \in h[i] THEN k + 1 ELSE k) /\ k' \in 0 .. OMEGA /\ k <= k'
           /\ bytes' \in Strings
           /\ \A x \in 0 .. OMEGA - 1 : x # k => bytes'[x] = bytes[x]
           /\ j \notin h[i] => \A x \in 0 .. OMEGA - 1 : bytes'[x] = bytes[x]
           /\ j \in h[i] => bytes'[k] = j
           /\ \A p \in 0 .. i - 1 : CountOf(bytes', p) = CountOf(bytes, p)
           /\ CountOf(bytes', i) = k'
           /\ StartOf(bytes', i) = StartOf(bytes, i)
           /\ UNCHANGED <<job, h, given>>
<1> DEFINE one == j \in h[i]
           placed == IF one THEN [bytes EXCEPT ![k] = j] ELSE bytes
<1>1. /\ i \in 0 .. K - 1 /\ j \in 0 .. N - 1 /\ k \in 0 .. OMEGA /\ bytes \in Strings
      /\ K \in Nat /\ N \in Nat /\ OMEGA \in Nat /\ OMEGA < N
  <2>1. /\ i \in 0 .. K /\ j \in 0 .. N /\ k \in 0 .. OMEGA /\ bytes \in Strings
    BY DEF Typed
  <2>2. K \in Nat /\ N \in Nat /\ OMEGA \in Nat /\ OMEGA < N
    BY DEF HintAssumption
  <2>3. i < K /\ j < N
    BY DEF PackBit
  <2> QED
    BY <2>1, <2>2, <2>3
<1>2. /\ k' = (IF one THEN k + 1 ELSE k) /\ bytes' = [placed EXCEPT ![OMEGA + i] = k']
      /\ UNCHANGED <<job, h, given>>
  BY DEF PackBit
<1>3. k' \in 0 .. OMEGA /\ k <= k'
  BY <1>1, <1>2
<1>4. OMEGA + i \in 0 .. OMEGA + K - 1 /\ k' \in 0 .. N - 1 /\ (one => k \in 0 .. OMEGA + K - 1)
  BY <1>1, <1>3
<1>5. /\ placed \in Strings /\ (one => placed[k] = j) /\ (~one => placed = bytes)
      /\ \A x \in 0 .. OMEGA + K - 1 : (one => x # k) => placed[x] = bytes[x]
  BY <1>1, <1>4 DEF Strings
<1> HIDE DEF placed
<1>6. /\ bytes' \in Strings /\ bytes'[OMEGA + i] = k'
      /\ \A x \in 0 .. OMEGA + K - 1 : x # OMEGA + i => bytes'[x] = placed[x]
  BY <1>2, <1>4, <1>5 DEF Strings
<1>7. \A x \in 0 .. OMEGA - 1 : x \in 0 .. OMEGA + K - 1 /\ x # OMEGA + i
  BY <1>1
<1>8. \A x \in 0 .. OMEGA - 1 : bytes'[x] = placed[x] /\ (x # k => placed[x] = bytes[x])
  BY <1>5, <1>6, <1>7
<1>9. one => bytes'[k] = j
  <2>1. one => k \in 0 .. OMEGA - 1
    BY <1>1
  <2> QED
    BY <1>5, <1>8, <2>1
<1>10. ASSUME NEW p \in 0 .. i - 1 PROVE CountOf(bytes', p) = CountOf(bytes, p)
  <2>1. OMEGA + p \in 0 .. OMEGA + K - 1 /\ OMEGA + p # OMEGA + i /\ (one => OMEGA + p # k)
    BY <1>1
  <2> QED
    BY <1>5, <1>6, <2>1 DEF CountOf
<1>11. StartOf(bytes', i) = StartOf(bytes, i)
  <2>1. i \in Nat /\ i \in 0 .. i
    BY <1>1
  <2> QED
    BY <1>10, <2>1, SameStarts
<1> QED
  BY <1>1, <1>2, <1>3, <1>5, <1>6, <1>8, <1>9, <1>10, <1>11 DEF CountOf

LEMMA PackStep ==
    ASSUME HintAssumption, Typed, PackInv, PackBit, j \in h[i] => k < OMEGA
    PROVE  Typed' /\ PackInv'
<1> DEFINE start == StartOf(bytes, i)
           low == {c \in h[i] : c < j}
           now == {c \in h[i] : c < j + 1}
<1>1. /\ K \in Nat /\ N \in Nat /\ OMEGA \in Nat /\ OMEGA < N /\ k \in 0 .. OMEGA
      /\ bytes \in Strings /\ h \in Hints
  BY DEF Typed, HintAssumption
<1>2. /\ i \in 0 .. K - 1 /\ j \in 0 .. N - 1 /\ k' = (IF j \in h[i] THEN k + 1 ELSE k)
      /\ k' \in 0 .. OMEGA /\ k <= k' /\ bytes' \in Strings
      /\ \A x \in 0 .. OMEGA - 1 : x # k => bytes'[x] = bytes[x]
      /\ j \notin h[i] => \A x \in 0 .. OMEGA - 1 : bytes'[x] = bytes[x]
      /\ j \in h[i] => bytes'[k] = j
      /\ \A p \in 0 .. i - 1 : CountOf(bytes', p) = CountOf(bytes, p)
      /\ CountOf(bytes', i) = k'
      /\ StartOf(bytes', i) = start
      /\ job' = job /\ h' = h
  BY PackBitWrites, Zenon
<1>3. /\ start \in 0 .. k /\ Written(bytes, h, i) /\ ZeroFrom(bytes, k)
      /\ Part(bytes, start, k) = low /\ Rising(bytes, start, k)
  <2>1. i < K
    BY <1>1, <1>2
  <2> QED
    BY <2>1 DEF PackInv
<1>4. h[i] \subseteq 0 .. N - 1
  BY <1>1, <1>2 DEF Hints
<1>5. \A p \in 0 .. i - 1 : CountOf(bytes, p) \in Int
  <2>1. \A p \in 0 .. i - 1 : p \in 0 .. K - 1
    BY <1>1, <1>2
  <2>2. \A p \in 0 .. K - 1 : CountOf(bytes, p) \in 0 .. N - 1
    BY <1>1, TypesOf
  <2> QED
    BY <2>1, <2>2
<1> HIDE DEF start
<1>6. \A x \in start .. k - 1 : bytes'[x] = bytes[x]
  <2>1. \A x \in start .. k - 1 : x \in 0 .. OMEGA - 1 /\ x # k
    BY <1>1, <1>3
  <2> QED
    BY <1>2, <2>1
<1>7. Part(bytes', start, k) = low /\ Rising(bytes', start, k)
  BY <1>1, <1>3, <1>6, SameParts
<1>8. Part(bytes', start, k') = now /\ Rising(bytes', start, k')
  <2>1. CASE j \in h[i]
    <3>1. now = low \cup {j}
      BY <1>2, <1>4, <2>1
    <3>2. Part(bytes', start, k + 1) = Part(bytes', start, k) \cup {bytes'[k]}
      BY <1>1, <1>3, OneMore
    <3>3. \A x \in start .. k - 1 : bytes'[x] < bytes'[k]
      <4>1. \A x \in start .. k - 1 : bytes'[x] \in low
        BY <1>7 DEF Part
      <4> QED
        BY <1>2, <2>1, <4>1
    <3>4. Rising(bytes', start, k + 1)
      BY <1>1, <1>3, <1>7, <3>3, RisingOn
    <3>5. k' = k + 1 /\ bytes'[k] = j
      BY <1>2, <2>1
    <3> QED
      BY <1>7, <3>1, <3>2, <3>4, <3>5
  <2>2. CASE j \notin h[i]
    <3>1. now = low
      BY <1>2, <1>4, <2>2
    <3>2. k' = k
      BY <1>2, <2>2
    <3> QED
      BY <1>7, <3>1, <3>2
  <2> QED
    BY <2>1, <2>2
<1>9. Written(bytes', h, i)
  <2>1. \A x \in 0 .. start - 1 : bytes'[x] = bytes[x]
    <3>1. \A x \in 0 .. start - 1 : x \in 0 .. OMEGA - 1 /\ x # k
      BY <1>1, <1>3
    <3> QED
      BY <1>2, <3>1
  <2>2. i \in Nat /\ start \in Int
    BY <1>1, <1>2, <1>3
  <2> QED
    BY <1>2, <1>3, <1>5, <2>1, <2>2, WrittenSame DEF start
<1>10. ZeroFrom(bytes', k')
  <2> SUFFICES ASSUME NEW x \in k' .. OMEGA - 1
               PROVE  bytes'[x] = 0
    BY DEF ZeroFrom
  <2>1. x \in k .. OMEGA - 1 /\ x \in 0 .. OMEGA - 1 /\ (j \in h[i] => x # k)
    BY <1>1, <1>2
  <2>2. bytes'[x] = bytes[x]
    BY <1>2, <2>1
  <2> QED
    BY <1>3, <2>1, <2>2 DEF ZeroFrom
<1>11. CASE j + 1 < N
  <2>1. i' = i /\ j' = j + 1
    BY <1>11 DEF PackBit
  <2>2. Typed'
    <3>1. i' \in 0 .. K /\ j' \in 0 .. N
      BY <1>1, <1>2, <1>11, <2>1
    <3> QED
      BY <1>1, <1>2, <3>1 DEF Typed
  <2>3. /\ j' < N /\ i' # K /\ j' # 0 /\ start \in 0 .. k'
    BY <1>1, <1>2, <1>3, <1>11, <2>1
  <2>4. StartOf(bytes', i') = start /\ Written(bytes', h', i')
    BY <1>2, <1>9, <2>1
  <2>5. Part(bytes', start, k') = {c \in h'[i'] : c < j'}
    BY <1>2, <1>8, <2>1
  <2>6. PackInv'
    BY <1>8, <1>10, <2>3, <2>4, <2>5 DEF PackInv
  <2> QED
    BY <2>2, <2>6
<1>12. CASE ~(j + 1 < N)
  <2>1. i' = i + 1 /\ j' = 0
    BY <1>12 DEF PackBit
  <2>2. Typed'
    <3>1. i' \in 0 .. K /\ j' \in 0 .. N
      BY <1>1, <1>2, <2>1
    <3> QED
      BY <1>1, <1>2, <3>1 DEF Typed
  <2>3. now = h[i]
    <3>1. \A c \in 0 .. N - 1 : c < j + 1
      BY <1>1, <1>2, <1>12
    <3> QED
      BY <1>4, <3>1
  <2>4. i \in Nat /\ start \in 0 .. k' /\ k' \in Int
    BY <1>1, <1>2, <1>3
  <2>5. \A p \in 0 .. i - 1 : CountOf(bytes', p) \in Int
    BY <1>2, <1>5
  <2>6. Written(bytes', h, i + 1)
    <3>1. /\ CountOf(bytes', i) \in Int /\ StartOf(bytes', i) \in 0 .. CountOf(bytes', i)
          /\ h[i] = Part(bytes', StartOf(bytes', i), CountOf(bytes', i))
          /\ Rising(bytes', StartOf(bytes', i), CountOf(bytes', i))
      BY <1>2, <1>8, <2>3, <2>4
    <3> QED
      BY <1>9, <2>4, <2>5, <3>1, WrittenMore
  <2>7. StartOf(bytes', i + 1) = k'
    BY <1>2, <2>4, NextStart
  <2>8. Part(bytes', k', k') = {} /\ Rising(bytes', k', k')
    BY <2>4, NoPart
  <2>9. i' < K => {c \in h'[i'] : c < 0} = {}
    <3>1. i' < K => h'[i'] \subseteq 0 .. N - 1
      BY <1>1, <1>2, <2>1 DEF Hints
    <3> QED
      BY <3>1
  <2>10. 0 < N /\ k' \in 0 .. k'
    BY <1>1, <1>2
  <2>11. PackInv'
    BY <1>2, <1>10, <2>1, <2>6, <2>7, <2>8, <2>9, <2>10 DEF PackInv
  <2> QED
    BY <2>2, <2>11
<1> QED
  BY <1>11, <1>12

-----------------------------------------------------------------------------
(* The first packing: no more places than ones *)

LEMMA OnesAreFinite ==
    ASSUME HintAssumption, NEW hint
    PROVE  IsFiniteSet(Ones(hint))
<1>1. IsFiniteSet(0 .. K - 1) /\ IsFiniteSet(0 .. N - 1)
  BY FS_Interval DEF HintAssumption
<1>2. IsFiniteSet((0 .. K - 1) \X (0 .. N - 1))
  BY <1>1, FS_Product
<1>3. Ones(hint) \subseteq (0 .. K - 1) \X (0 .. N - 1)
  BY DEF Ones
<1> QED
  BY <1>2, <1>3, FS_Subset

LEMMA BeforeNone ==
    ASSUME HintAssumption, NEW hint
    PROVE  Before(hint, 0, 0) = {}
<1>1. \A o \in Ones(hint) : o[1] \in 0 .. K - 1 /\ o[2] \in 0 .. N - 1
  BY DEF Ones
<1> QED
  BY <1>1 DEF Before

LEMMA BeforeMore ==
    ASSUME HintAssumption, NEW hint, NEW p \in 0 .. K - 1, NEW c \in 0 .. N - 1
    PROVE  /\ c \in hint[p] => /\ <<p, c>> \in Ones(hint) \ Before(hint, p, c)
                               /\ Before(hint, p, c + 1) = Before(hint, p, c) \cup {<<p, c>>}
           /\ c \notin hint[p] => Before(hint, p, c + 1) = Before(hint, p, c)
<1>1. \A o \in Ones(hint) : o[1] \in 0 .. K - 1 /\ o[2] \in 0 .. N - 1 /\ o = <<o[1], o[2]>> /\ o[2] \in hint[o[1]]
  BY DEF Ones
<1>2. c \in hint[p] => <<p, c>> \in Ones(hint)
  BY DEF Ones
<1>3. \A o \in Ones(hint) : (o[1] < p \/ (o[1] = p /\ o[2] < c + 1))
                            <=> ((o[1] < p \/ (o[1] = p /\ o[2] < c)) \/ (o[1] = p /\ o[2] = c))
  BY <1>1
<1>5. ~(p < p) /\ ~(c < c)
  OBVIOUS
<1>6. <<p, c>>[1] = p /\ <<p, c>>[2] = c
  OBVIOUS
<1>7. CASE c \in hint[p]
  <2>1. <<p, c>> \notin Before(hint, p, c)
    BY <1>5, <1>6 DEF Before
  <2>2. Before(hint, p, c + 1) \subseteq Before(hint, p, c) \cup {<<p, c>>}
    BY <1>1, <1>3 DEF Before
  <2>3. Before(hint, p, c) \cup {<<p, c>>} \subseteq Before(hint, p, c + 1)
    BY <1>2, <1>3, <1>6, <1>7 DEF Before
  <2> QED
    BY <1>2, <1>7, <2>1, <2>2, <2>3
<1>8. CASE c \notin hint[p]
  <2>1. Before(hint, p, c + 1) = Before(hint, p, c)
    BY <1>1, <1>3, <1>8 DEF Before
  <2> QED
    BY <1>8, <2>1
<1> QED
  BY <1>7, <1>8

LEMMA BeforeNext ==
    ASSUME HintAssumption, NEW hint, NEW p \in 0 .. K - 1, NEW c \in 0 .. N - 1, c + 1 = N
    PROVE  Before(hint, p + 1, 0) = Before(hint, p, c + 1)
<1>1. \A o \in Ones(hint) : o[1] \in 0 .. K - 1 /\ o[2] \in 0 .. N - 1
  BY DEF Ones
<1>2. \A o \in Ones(hint) : (o[1] < p \/ (o[1] = p /\ o[2] < c + 1))
                            <=> (o[1] < p + 1 \/ (o[1] = p + 1 /\ o[2] < 0))
  BY <1>1
<1> QED
  BY <1>2 DEF Before

LEMMA RoomForIt ==
    ASSUME HintAssumption, NEW hint, Weight(hint) <= OMEGA,
           NEW p \in 0 .. K - 1, NEW c \in 0 .. N - 1
    PROVE  LET n == Cardinality(Before(hint, p, c)) IN
           /\ c \in hint[p] => n < OMEGA
           /\ Cardinality(Before(hint, p, c + 1)) = (IF c \in hint[p] THEN n + 1 ELSE n)
<1>1. /\ IsFiniteSet(Ones(hint)) /\ Before(hint, p, c) \subseteq Ones(hint)
      /\ Before(hint, p, c + 1) \subseteq Ones(hint)
  BY OnesAreFinite DEF Before
<1>2. IsFiniteSet(Before(hint, p, c)) /\ IsFiniteSet(Before(hint, p, c + 1))
  BY <1>1, FS_Subset
<1>3. /\ Cardinality(Before(hint, p, c)) \in Nat /\ Cardinality(Before(hint, p, c + 1)) \in Nat
      /\ Cardinality(Ones(hint)) \in Nat
  BY <1>1, <1>2, FS_CardinalityType
<1>4. CASE c \in hint[p]
  <2>1. /\ <<p, c>> \notin Before(hint, p, c)
        /\ Before(hint, p, c + 1) = Before(hint, p, c) \cup {<<p, c>>}
    BY <1>4, BeforeMore
  <2>2. Cardinality(Before(hint, p, c + 1)) = Cardinality(Before(hint, p, c)) + 1
    BY <1>2, <2>1, FS_AddElement
  <2>3. Cardinality(Before(hint, p, c + 1)) <= Cardinality(Ones(hint))
    BY <1>1, FS_Subset
  <2> QED
    BY <1>3, <1>4, <2>2, <2>3 DEF Weight, HintAssumption
<1>5. CASE c \notin hint[p]
  BY <1>5, BeforeMore
<1> QED
  BY <1>4, <1>5

LEMMA FirstPackStep ==
    ASSUME HintAssumption, Typed, PackInv, PackBit, FirstPack
    PROVE  Typed' /\ PackInv' /\ FirstPack'
<1>1. i \in 0 .. K - 1 /\ j \in 0 .. N - 1 /\ K \in Nat /\ N \in Nat
  <2>1. i \in 0 .. K /\ j \in 0 .. N
    BY DEF Typed
  <2>2. i < K /\ j < N
    BY DEF PackBit
  <2> QED
    BY <2>1, <2>2 DEF HintAssumption
<1>2. /\ Weight(h) <= OMEGA /\ given = h /\ k = Cardinality(Before(h, i, j))
  BY DEF FirstPack
<1>3. /\ j \in h[i] => k < OMEGA
      /\ Cardinality(Before(h, i, j + 1)) = (IF j \in h[i] THEN k + 1 ELSE k)
  BY <1>1, <1>2, RoomForIt
<1>4. Typed' /\ PackInv'
  BY <1>3, PackStep
<1>5. /\ k' = (IF j \in h[i] THEN k + 1 ELSE k) /\ h' = h /\ given' = given
  BY DEF PackBit
<1>6. Cardinality(Before(h, i', j')) = Cardinality(Before(h, i, j + 1))
  <2>1. CASE j + 1 < N
    BY <2>1 DEF PackBit
  <2>2. CASE ~(j + 1 < N)
    <3>1. j + 1 = N
      BY <1>1, <2>2
    <3>2. i' = i + 1 /\ j' = 0
      BY <2>2 DEF PackBit
    <3>3. Before(h, i + 1, 0) = Before(h, i, j + 1)
      BY <1>1, <3>1, BeforeNext
    <3> QED
      BY <3>2, <3>3
  <2> QED
    BY <2>1, <2>2
<1>7. FirstPack'
  BY <1>2, <1>3, <1>5, <1>6 DEF FirstPack
<1> QED
  BY <1>4, <1>7

-----------------------------------------------------------------------------
(* The second packing: the bytes that were unpacked *)

\* Polynomial p of an encoded hint.
LEMMA EncodedPart ==
    ASSUME HintAssumption, NEW s \in Strings, NEW hint, Encoded(s, hint), NEW p \in 0 .. K - 1
    PROVE  /\ StartOf(s, p) \in 0 .. CountOf(s, p)
           /\ CountOf(s, p) \in 0 .. OMEGA
           /\ hint[p] = Part(s, StartOf(s, p), CountOf(s, p))
           /\ Rising(s, StartOf(s, p), CountOf(s, p))
           /\ \A x \in 0 .. OMEGA - 1 : s[x] \in 0 .. N - 1
<1>1. StartOf(s, K) \in 0 .. OMEGA /\ Written(s, hint, K)
  BY DEF Encoded
<1>2. /\ StartOf(s, p) \in 0 .. CountOf(s, p) /\ CountOf(s, p) <= StartOf(s, K)
      /\ hint[p] = Part(s, StartOf(s, p), CountOf(s, p))
      /\ Rising(s, StartOf(s, p), CountOf(s, p))
  BY <1>1 DEF Written
<1>3. CountOf(s, p) \in 0 .. N - 1 /\ \A x \in 0 .. OMEGA - 1 : s[x] \in 0 .. N - 1
  BY TypesOf
<1>4. CountOf(s, p) \in 0 .. OMEGA
  BY <1>1, <1>2, <1>3 DEF HintAssumption
<1> QED
  BY <1>2, <1>3, <1>4

\* Of a rising part b .. e, the places up to n show exactly the values below c:
\* the next value from c on stands at n.
LEMMA NextPlace ==
    ASSUME NEW s, NEW b \in Int, NEW e \in Int, NEW n \in Int, NEW c \in Int,
           b <= n, n <= e, Rising(s, b, e), \A x \in b .. e - 1 : s[x] \in Int,
           Part(s, b, n) = {v \in Part(s, b, e) : v < c}
    PROVE  /\ c \in Part(s, b, e) => n < e /\ s[n] = c
           /\ (\A v \in Part(s, b, e) : v < c) => n = e
<1>1. ASSUME n < e PROVE s[n] \in Part(s, b, e) /\ ~(s[n] < c)
  <2>1. n \in b .. e - 1
    BY <1>1
  <2>2. s[n] \in Part(s, b, e)
    BY <2>1 DEF Part
  <2>3. ASSUME s[n] < c PROVE FALSE
    <3>1. s[n] \in Part(s, b, n)
      BY <2>2, <2>3
    <3>2. PICK y \in b .. n - 1 : s[n] = s[y]
      BY <3>1 DEF Part
    <3>3. y \in b .. e - 1 /\ y < n
      BY <1>1
    <3> QED
      BY <2>1, <3>2, <3>3, RisingOnce
  <2> QED
    BY <2>2, <2>3
<1>2. ASSUME c \in Part(s, b, e) PROVE n < e /\ s[n] = c
  <2>1. PICK x \in b .. e - 1 : s[x] = c
    BY <1>2 DEF Part
  <2>2. ~(x < n)
    <3> SUFFICES ASSUME x < n PROVE FALSE
      OBVIOUS
    <3>1. x \in b .. n - 1
      OBVIOUS
    <3>2. s[x] \in Part(s, b, n)
      BY <3>1 DEF Part
    <3> QED
      BY <2>1, <3>2
  <2>3. n < e /\ n \in b .. e - 1
    BY <2>2
  <2>4. ~(n < x)
    <3> SUFFICES ASSUME n < x PROVE FALSE
      OBVIOUS
    <3>1. s[n] < s[x]
      BY <2>3 DEF Rising
    <3> QED
      BY <1>1, <2>1, <2>3, <3>1
  <2>5. n = x
    BY <2>2, <2>4
  <2> QED
    BY <2>1, <2>3, <2>5
<1>3. ASSUME \A v \in Part(s, b, e) : v < c PROVE n = e
  BY <1>1, <1>3
<1> QED
  BY <1>2, <1>3

LEMMA SecondPackStep ==
    ASSUME HintAssumption, Typed, PackInv, PackBit, SecondPack
    PROVE  Typed' /\ PackInv' /\ SecondPack'
<1> DEFINE start == StartOf(given, i)
           end == CountOf(given, i)
<1>1. /\ K \in Nat /\ N \in Nat /\ OMEGA \in Nat /\ OMEGA < N /\ k \in 0 .. OMEGA
      /\ i \in 0 .. K - 1 /\ j \in 0 .. N - 1 /\ h \in Hints /\ bytes \in Strings
  <2>1. i \in 0 .. K /\ j \in 0 .. N /\ k \in 0 .. OMEGA /\ h \in Hints /\ bytes \in Strings
    BY DEF Typed
  <2>2. i < K /\ j < N
    BY DEF PackBit
  <2> QED
    BY <2>1, <2>2 DEF HintAssumption
<1>2. i < K /\ i \in Nat /\ i \in 0 .. i
  BY <1>1
<1>3. /\ given \in Strings /\ Encoded(given, h)
      /\ \A b \in 0 .. k - 1 : bytes[b] = given[b]
      /\ \A p \in 0 .. i - 1 : CountOf(bytes, p) = CountOf(given, p)
      /\ k <= end
  BY <1>2 DEF SecondPack
<1>4. /\ start \in 0 .. end /\ end \in 0 .. OMEGA /\ h[i] = Part(given, start, end)
      /\ Rising(given, start, end) /\ \A x \in 0 .. OMEGA - 1 : given[x] \in 0 .. N - 1
  BY <1>1, <1>3, EncodedPart
<1>5. StartOf(bytes, i) = start
  <2>1. \A p \in 0 .. i : StartOf(bytes, p) = StartOf(given, p)
    BY <1>2, <1>3, SameStarts
  <2> QED
    BY <1>2, <2>1
<1>6. /\ StartOf(bytes, i) \in 0 .. k /\ Part(bytes, StartOf(bytes, i), k) = {c \in h[i] : c < j}
  BY <1>2 DEF PackInv
<1> HIDE DEF start, end
<1>7. start <= k /\ start \in Int /\ end \in Int /\ 0 <= start
  BY <1>1, <1>4, <1>5, <1>6
<1>8. Part(given, start, k) = {c \in h[i] : c < j}
  <2>1. \A x \in start .. k - 1 : given[x] = bytes[x]
    BY <1>3, <1>4, <1>7
  <2> QED
    BY <1>1, <1>5, <1>6, <1>7, <2>1, SameParts
<1>9. \A x \in start .. end - 1 : given[x] \in Int
  <2>1. \A x \in start .. end - 1 : x \in 0 .. OMEGA - 1
    BY <1>1, <1>4
  <2> QED
    BY <1>4, <2>1
<1>10. j \in h[i] => k < end /\ given[k] = j
  <2>1. Part(given, start, k) = {v \in Part(given, start, end) : v < j}
    BY <1>4, <1>8
  <2>2. j \in Int /\ k \in Int
    BY <1>1
  <2>3. j \in Part(given, start, end) => k < end /\ given[k] = j
    BY <1>3, <1>4, <1>7, <1>9, <2>1, <2>2, NextPlace DEF end
  <2> QED
    BY <1>4, <2>3
<1>11. j \in h[i] => k < OMEGA
  BY <1>1, <1>4, <1>10
<1>12. Typed' /\ PackInv'
  BY <1>11, PackStep
<1>13. /\ k' = (IF j \in h[i] THEN k + 1 ELSE k)
       /\ \A x \in 0 .. OMEGA - 1 : x # k => bytes'[x] = bytes[x]
       /\ j \in h[i] => bytes'[k] = j
       /\ \A p \in 0 .. i - 1 : CountOf(bytes', p) = CountOf(bytes, p)
       /\ CountOf(bytes', i) = k'
       /\ StartOf(bytes', i) = StartOf(bytes, i)
       /\ k' \in 0 .. OMEGA /\ k <= k'
       /\ h' = h /\ given' = given
  BY <1>11, PackBitWrites, Zenon
<1>14. k' <= end
  BY <1>1, <1>3, <1>7, <1>10, <1>13 DEF end
<1>15. \A b \in 0 .. k' - 1 : bytes'[b] = given[b]
  <2> SUFFICES ASSUME NEW b \in 0 .. k' - 1
               PROVE  bytes'[b] = given[b]
    OBVIOUS
  <2>1. b \in 0 .. OMEGA - 1
    BY <1>1, <1>13
  <2>2. CASE b = k
    <3>1. j \in h[i]
      BY <1>1, <1>13, <2>2
    <3> QED
      BY <1>10, <1>13, <2>2, <3>1
  <2>3. CASE b # k
    <3>1. b \in 0 .. k - 1
      BY <1>1, <1>13, <2>3
    <3> QED
      BY <1>3, <1>13, <2>1, <2>3, <3>1
  <2> QED
    BY <2>2, <2>3
<1>16. \A p \in 0 .. i - 1 : CountOf(bytes', p) = CountOf(given, p)
  BY <1>3, <1>13
<1>17. CASE j + 1 < N
  <2>1. i' = i
    BY <1>17 DEF PackBit
  <2>2. given' \in Strings /\ Encoded(given', h')
    BY <1>3, <1>13
  <2>3. k' <= CountOf(given', i')
    BY <1>13, <1>14, <2>1 DEF end
  <2>4. SecondPack'
    BY <1>13, <1>15, <1>16, <2>1, <2>2, <2>3 DEF SecondPack
  <2> QED
    BY <1>12, <2>4
<1>18. CASE ~(j + 1 < N)
  <2>1. i' = i + 1
    BY <1>18 DEF PackBit
  <2>2. h[i] = Part(bytes', start, k')
    <3>1. Written(bytes', h, i + 1)
      BY <1>12, <1>13, <2>1 DEF PackInv
    <3>2. i \in 0 .. (i + 1) - 1
      BY <1>2
    <3>3. h[i] = Part(bytes', StartOf(bytes', i), CountOf(bytes', i))
      BY <3>1, <3>2 DEF Written
    <3> QED
      BY <1>5, <1>13, <3>3
  <2>3. start <= k' /\ k' \in Int
    BY <1>1, <1>7, <1>13
  <2>4. Part(given, start, k') = h[i]
    <3>1. \A x \in start .. k' - 1 : x \in 0 .. k' - 1
      <4>1. \A a, b \in Int : 0 <= a => \A x \in a .. b - 1 : x \in 0 .. b - 1
        OBVIOUS
      <4>2. start \in Int /\ 0 <= start /\ k' \in Int
        BY <1>7, <2>3
      <4> QED
        BY <4>1, <4>2
    <3>2. \A x \in start .. k' - 1 : given[x] = bytes'[x]
      BY <1>15, <3>1
    <3> QED
      BY <1>7, <2>2, <2>3, <3>2, SameParts
  <2>5. \A v \in Part(given, start, end) : v < N
    <3>1. h[i] \subseteq 0 .. N - 1
      BY <1>1 DEF Hints
    <3> QED
      BY <1>1, <1>4, <3>1
  <2>6. k' = end
    <3>1. Part(given, start, k') = {v \in Part(given, start, end) : v < N}
      BY <1>4, <2>4, <2>5
    <3>2. N \in Int
      BY <1>1
    <3> QED
      BY <1>4, <1>7, <1>9, <1>14, <2>3, <2>5, <3>1, <3>2, NextPlace
  <2>7. \A p \in 0 .. (i + 1) - 1 : CountOf(bytes', p) = CountOf(given, p)
    <3>1. \A p \in 0 .. (i + 1) - 1 : p = i \/ p \in 0 .. i - 1
      BY <1>2
    <3> QED
      BY <1>13, <1>16, <2>6, <3>1 DEF end
  <2>8. i + 1 < K => k' <= CountOf(given, i + 1)
    <3> SUFFICES ASSUME i + 1 < K
                 PROVE  k' <= CountOf(given, i + 1)
      OBVIOUS
    <3>1. i + 1 \in 0 .. K - 1
      BY <1>1
    <3>2. StartOf(given, i + 1) \in 0 .. CountOf(given, i + 1) /\ CountOf(given, i + 1) \in 0 .. OMEGA
      BY <1>3, <3>1, EncodedPart
    <3>3. StartOf(given, i + 1) = end
      BY <1>2, NextStart DEF end
    <3> QED
      BY <1>1, <2>6, <3>2, <3>3
  <2>9. given' \in Strings /\ Encoded(given', h')
    BY <1>3, <1>13
  <2>10. SecondPack'
    BY <1>13, <1>15, <2>1, <2>7, <2>8, <2>9 DEF SecondPack
  <2> QED
    BY <1>12, <2>10
<1> QED
  BY <1>17, <1>18

-----------------------------------------------------------------------------
(* The end of a packing *)

LEMMA AllPacked ==
    ASSUME HintAssumption, Typed, PackInv, i = K
    PROVE  Encoded(bytes, h) /\ k = StartOf(bytes, K)
<1>1. j = 0 /\ k = StartOf(bytes, i) /\ Written(bytes, h, i) /\ ZeroFrom(bytes, k)
  BY DEF PackInv
<1>2. k \in 0 .. OMEGA
  BY DEF Typed
<1> QED
  BY <1>1, <1>2 DEF Encoded

LEMMA ReadNothing ==
    ASSUME HintAssumption, NEW s
    PROVE  /\ Empty \in Hints
           /\ StartOf(s, 0) = 0
           /\ Written(s, Empty, 0)
           /\ Empty[0] = Part(s, 0, 0) /\ Rising(s, 0, 0)
           /\ \A p \in 0 .. K - 1 : Empty[p] = {}
<1>1. Part(s, 0, 0) = {} /\ Rising(s, 0, 0)
  BY NoPart
<1>2. 0 \in 0 .. K - 1
  BY DEF HintAssumption
<1>3. Written(s, Empty, 0)
  BY WrittenNone
<1> QED
  BY <1>1, <1>2, <1>3 DEF Empty, Hints, StartOf

LEMMA PackEndStep ==
    ASSUME HintAssumption, HintInv, PackEnd
    PROVE  HintInv'
<1>1. /\ Typed /\ PackInv /\ i = K /\ i' = 0 /\ j' = 0 /\ k' = 0 /\ bytes' = bytes /\ given' = given
  BY DEF PackEnd, HintInv, Packing
<1>2. Encoded(bytes, h) /\ k = StartOf(bytes, K)
  BY <1>1, AllPacked
<1>3. 0 \in 0 .. K /\ 0 \in 0 .. N /\ 0 \in 0 .. OMEGA /\ 0 < K
  BY DEF HintAssumption
<1>4. bytes \in Strings /\ h \in Hints
  BY <1>1 DEF Typed
<1>5. CASE job = "pack"
  <2>1. job' = "unpack again" /\ h' = Empty
    BY <1>5 DEF PackEnd
  <2>2. given = h
    BY <1>5 DEF HintInv, FirstPack
  <2>3. Typed'
    BY <1>1, <1>3, <1>4, <2>1, ReadNothing DEF Typed
  <2>4. UnpackInv'
    <3>1. \A p \in 0 + 1 .. K - 1 : p \in 0 .. K - 1
      BY DEF HintAssumption
    <3>2. ~(0 > 0) /\ 0 \in 0 .. OMEGA /\ 0 # K
      BY <1>3
    <3> QED
      BY <1>1, <2>1, <3>1, <3>2, ReadNothing DEF UnpackInv
  <2> QED
    BY <1>1, <1>2, <1>4, <2>1, <2>2, <2>3, <2>4 DEF HintInv, Packing
<1>6. CASE job = "pack again"
  <2>1. job' = "packed" /\ h' = h
    BY <1>6 DEF PackEnd
  <2>2. /\ given \in Strings /\ Encoded(given, h)
        /\ \A b \in 0 .. k - 1 : bytes[b] = given[b]
        /\ \A p \in 0 .. K - 1 : CountOf(bytes, p) = CountOf(given, p)
    BY <1>1, <1>6 DEF HintInv, SecondPack
  <2>3. k = StartOf(given, K)
    <3>1. K \in Nat /\ K \in 0 .. K
      BY DEF HintAssumption
    <3>2. \A p \in 0 .. K : StartOf(bytes, p) = StartOf(given, p)
      BY <2>2, <3>1, SameStarts
    <3> QED
      BY <1>2, <3>1, <3>2
  <2>4. ASSUME NEW x \in 0 .. OMEGA + K - 1 PROVE bytes[x] = given[x]
    <3>1. k \in 0 .. OMEGA /\ OMEGA \in Nat /\ K \in Nat
      BY <1>1 DEF Typed, HintAssumption
    <3>2. x \in 0 .. k - 1 \/ x \in k .. OMEGA - 1 \/ (x - OMEGA \in 0 .. K - 1 /\ OMEGA + (x - OMEGA) = x)
      BY <3>1
    <3>3. ASSUME x \in k .. OMEGA - 1 PROVE bytes[x] = given[x]
      BY <1>2, <2>2, <2>3, <3>3 DEF Encoded, ZeroFrom
    <3>4. ASSUME x - OMEGA \in 0 .. K - 1, OMEGA + (x - OMEGA) = x PROVE bytes[x] = given[x]
      <4>1. CountOf(bytes, x - OMEGA) = CountOf(given, x - OMEGA)
        BY <2>2, <3>4
      <4> QED
        BY <3>4, <4>1 DEF CountOf
    <3> QED
      BY <2>2, <3>2, <3>3, <3>4
  <2>5. bytes = given
    <3>1. bytes = [x \in 0 .. OMEGA + K - 1 |-> bytes[x]] /\ given = [x \in 0 .. OMEGA + K - 1 |-> given[x]]
      BY <1>4, <2>2 DEF Strings
    <3>2. [x \in 0 .. OMEGA + K - 1 |-> bytes[x]] = [x \in 0 .. OMEGA + K - 1 |-> given[x]]
      BY <2>4
    <3> QED
      BY <3>1, <3>2
  <2>6. Typed'
    BY <1>1, <1>3, <1>4, <2>1 DEF Typed
  <2> QED
    BY <1>1, <2>1, <2>5, <2>6 DEF HintInv, Packing, Decoding
<1> QED
  BY <1>5, <1>6 DEF PackEnd

-----------------------------------------------------------------------------
(* Unpacking *)

\* A place is read: the next one of polynomial i, or the last.
ReadPlace ==
    /\ h' = [h EXCEPT ![i] = @ \cup {bytes[j]}]
    /\ IF j + 1 < Count(i)
       THEN j' = j + 1 /\ UNCHANGED <<i, k>>
       ELSE i' = i + 1 /\ j' = Count(i) /\ k' = Count(i)
    /\ UNCHANGED <<job, bytes, given>>

LEMMA ReadPlaceStep ==
    ASSUME HintAssumption, Typed, UnpackInv, i < K, j < CountOf(bytes, i),
           CountOf(bytes, i) <= OMEGA, \A x \in k .. j - 1 : bytes[x] < bytes[j], ReadPlace
    PROVE  Typed' /\ UnpackInv'
<1> DEFINE end == CountOf(bytes, i)
<1>1. /\ K \in Nat /\ N \in Nat /\ OMEGA \in Nat /\ OMEGA < N /\ k \in 0 .. OMEGA
      /\ i \in 0 .. K - 1 /\ i \in Nat /\ h \in Hints /\ bytes \in Strings
  <2>1. i \in 0 .. K /\ k \in 0 .. OMEGA /\ h \in Hints /\ bytes \in Strings
    BY DEF Typed
  <2> QED
    BY <2>1 DEF HintAssumption
<1>2. /\ k = StartOf(bytes, i) /\ j \in k .. OMEGA /\ Written(bytes, h, i)
      /\ h[i] = Part(bytes, k, j) /\ Rising(bytes, k, j)
      /\ \A p \in i + 1 .. K - 1 : h[p] = {}
  BY DEF UnpackInv
<1>3. /\ \A p \in 0 .. K - 1 : CountOf(bytes, p) \in 0 .. N - 1
      /\ \A x \in 0 .. OMEGA - 1 : bytes[x] \in 0 .. N - 1
  BY <1>1, TypesOf
<1>4. j \in 0 .. OMEGA - 1 /\ j \in k .. OMEGA - 1 /\ j \in Int /\ k \in Int /\ k <= j /\ end \in 0 .. OMEGA
  BY <1>1, <1>2, <1>3
<1>5. h'[i] = Part(bytes, k, j + 1) /\ Rising(bytes, k, j + 1)
  <2>1. Part(bytes, k, j + 1) = Part(bytes, k, j) \cup {bytes[j]}
    BY <1>4, OneMore
  <2>2. h'[i] = h[i] \cup {bytes[j]}
    BY <1>1 DEF ReadPlace, Hints
  <2>3. Rising(bytes, k, j + 1)
    BY <1>2, <1>4, RisingOn
  <2> QED
    BY <1>2, <2>1, <2>2, <2>3
<1>6. /\ h' \in Hints /\ \A p \in 0 .. K - 1 : p # i => h'[p] = h[p]
  <2>1. bytes[j] \in 0 .. N - 1 /\ h[i] \in SUBSET (0 .. N - 1)
    BY <1>1, <1>3, <1>4 DEF Hints
  <2> QED
    BY <1>1, <2>1 DEF ReadPlace, Hints
<1>7. Written(bytes, h', i)
  <2>1. \A p \in 0 .. i - 1 : p \in 0 .. K - 1 /\ p # i
    BY <1>1
  <2>2. \A p \in 0 .. i - 1 : h'[p] = h[p]
    BY <1>6, <2>1
  <2> QED
    BY <1>1, <1>2, <2>2, WrittenOther
<1>8. job' = job /\ bytes' = bytes
  BY DEF ReadPlace
<1>9. \A p \in i + 1 .. K - 1 : h'[p] = {}
  <2>1. \A p \in i + 1 .. K - 1 : p \in 0 .. K - 1 /\ p # i
    BY <1>1
  <2> QED
    BY <1>2, <1>6, <2>1
<1> HIDE DEF end
<1>10. CASE j + 1 < end
  <2>1. j' = j + 1 /\ i' = i /\ k' = k
    BY <1>10 DEF ReadPlace, Count, CountOf, end
  <2>2. j' \in k .. OMEGA /\ j' \in 0 .. N /\ i # K
    BY <1>1, <1>4, <1>10, <2>1
  <2>3. Typed'
    BY <1>1, <1>6, <1>8, <2>1, <2>2 DEF Typed
  <2>4. UnpackInv'
    BY <1>2, <1>5, <1>7, <1>8, <1>9, <1>10, <2>1, <2>2 DEF UnpackInv, end
  <2> QED
    BY <2>3, <2>4
<1>11. CASE ~(j + 1 < end)
  <2>1. i' = i + 1 /\ j' = end /\ k' = end
    BY <1>11 DEF ReadPlace, Count, CountOf, end
  <2>2. j + 1 = end
    BY <1>4, <1>11 DEF end
  <2>3. Written(bytes, h', i + 1)
    <3>1. \A p \in 0 .. i - 1 : CountOf(bytes, p) \in Int
      <4>1. \A p \in 0 .. i - 1 : p \in 0 .. K - 1
        BY <1>1
      <4> QED
        BY <1>3, <4>1
    <3>2. /\ end \in Int /\ StartOf(bytes, i) \in 0 .. end
      BY <1>1, <1>2, <1>4, <2>2
    <3>3. h'[i] = Part(bytes, StartOf(bytes, i), end) /\ Rising(bytes, StartOf(bytes, i), end)
      BY <1>2, <1>5, <2>2
    <3> QED
      BY <1>1, <1>7, <3>1, <3>2, <3>3, WrittenMore DEF end
  <2>4. StartOf(bytes, i + 1) = end
    BY <1>1, NextStart DEF end
  <2>5. i' \in 0 .. K /\ end \in 0 .. N /\ end \in end .. OMEGA /\ ~(end > end) /\ end \in Int
    BY <1>1, <1>4, <2>1
  <2>6. Typed'
    BY <1>1, <1>4, <1>6, <1>8, <2>1, <2>5 DEF Typed
  <2>7. Part(bytes, end, end) = {} /\ Rising(bytes, end, end)
    BY <2>5, NoPart
  <2>8. i + 1 < K => i + 1 \in i + 1 .. K - 1
    BY <1>1
  <2>9. \A p \in (i + 1) + 1 .. K - 1 : p \in i + 1 .. K - 1
    BY <1>1
  <2>10. UnpackInv'
    BY <1>8, <1>9, <2>1, <2>3, <2>4, <2>5, <2>7, <2>8, <2>9 DEF UnpackInv
  <2> QED
    BY <2>6, <2>10
<1> QED
  BY <1>10, <1>11

\* A polynomial without places is passed over.
LEMMA NoPlaceStep ==
    ASSUME HintAssumption, Typed, UnpackInv, i < K, j = k, CountOf(bytes, i) = k,
           i' = i + 1, UNCHANGED <<job, h, bytes, j, k, given>>
    PROVE  Typed' /\ UnpackInv'
<1>1. /\ K \in Nat /\ N \in Nat /\ OMEGA \in Nat /\ OMEGA < N /\ k \in 0 .. OMEGA
      /\ i \in 0 .. K - 1 /\ i \in Nat /\ bytes \in Strings
  <2>1. i \in 0 .. K /\ k \in 0 .. OMEGA /\ bytes \in Strings
    BY DEF Typed
  <2> QED
    BY <2>1 DEF HintAssumption
<1>2. /\ k = StartOf(bytes, i) /\ Written(bytes, h, i) /\ h[i] = Part(bytes, k, k)
      /\ Rising(bytes, k, k) /\ \A p \in i + 1 .. K - 1 : h[p] = {}
  BY DEF UnpackInv
<1>3. StartOf(bytes, i + 1) = k
  BY <1>1, NextStart
<1>4. Written(bytes, h, i + 1)
  <2>1. \A p \in 0 .. K - 1 : CountOf(bytes, p) \in 0 .. N - 1
    BY <1>1, TypesOf
  <2>2. \A p \in 0 .. i - 1 : p \in 0 .. K - 1
    BY <1>1
  <2>3. \A p \in 0 .. i - 1 : CountOf(bytes, p) \in Int
    BY <2>1, <2>2
  <2>4. k \in Int /\ k \in 0 .. k
    BY <1>1
  <2> QED
    BY <1>1, <1>2, <2>3, <2>4, WrittenMore
<1>5. i' \in 0 .. K /\ k \in k .. OMEGA /\ ~(k > k)
  BY <1>1
<1>6. Part(bytes, k, k) = {}
  <2>1. k \in Int
    BY <1>1
  <2> QED
    BY <2>1, NoPart
<1>7. i + 1 < K => i + 1 \in i + 1 .. K - 1
  BY <1>1
<1>8. \A p \in (i + 1) + 1 .. K - 1 : p \in i + 1 .. K - 1
  BY <1>1
<1>9. Typed'
  BY <1>5 DEF Typed
<1>10. UnpackInv'
  BY <1>2, <1>3, <1>4, <1>5, <1>6, <1>7, <1>8 DEF UnpackInv
<1> QED
  BY <1>9, <1>10

\* What the steps of the decoder leave alone.
LEMMA StillDecoding ==
    ASSUME HintInv, Decoding, Typed' /\ UnpackInv', job' = job, bytes' = bytes, given' = given
    PROVE  HintInv'
<1>1. CASE job = "unpack"
  <2>1. given = bytes
    BY <1>1 DEF HintInv
  <2> QED
    BY <1>1, <2>1 DEF HintInv, Packing
<1>2. CASE job = "unpack again"
  <2>1. given \in Hints /\ Encoded(bytes, given)
    BY <1>2 DEF HintInv
  <2> QED
    BY <1>2, <2>1 DEF HintInv, Packing
<1> QED
  BY <1>1, <1>2 DEF Decoding

\* Only bytes that were not packed are refused.
LEMMA Refused ==
    ASSUME HintInv, job = "unpack", Refuse
    PROVE  HintInv'
<1>1. Typed /\ given = bytes /\ bytes \in Strings
  BY DEF HintInv, Typed
<1>2. job' = "refused" /\ UNCHANGED <<h, bytes, i, j, k, given>>
  BY DEF Refuse
<1>3. Typed'
  BY <1>1, <1>2 DEF Typed
<1> QED
  BY <1>1, <1>2, <1>3 DEF HintInv, Packing, Decoding

LEMMA UnpackPolyStep ==
    ASSUME HintAssumption, HintInv, UnpackPoly
    PROVE  HintInv'
<1>1. Typed /\ UnpackInv /\ Decoding /\ i < K /\ j = k
  BY DEF HintInv, UnpackPoly
<1>2. /\ OMEGA \in Nat /\ K \in Nat /\ N \in Nat /\ i \in 0 .. K - 1 /\ k \in 0 .. OMEGA /\ bytes \in Strings
  <2>1. i \in 0 .. K /\ k \in 0 .. OMEGA /\ bytes \in Strings
    BY <1>1 DEF Typed
  <2> QED
    BY <1>1, <2>1 DEF HintAssumption
<1>3. CountOf(bytes, i) \in 0 .. N - 1 /\ Count(i) = CountOf(bytes, i)
  BY <1>2, TypesOf DEF Count, CountOf
<1>4. CASE BadCount
  <2>1. Refuse
    BY <1>4 DEF UnpackPoly
  <2>2. CASE job = "unpack again"
    <3>1. Encoded(bytes, given)
      BY <2>2 DEF HintInv
    <3>2. StartOf(bytes, i) \in 0 .. CountOf(bytes, i) /\ CountOf(bytes, i) \in 0 .. OMEGA
      BY <1>2, <3>1, EncodedPart
    <3>3. k = StartOf(bytes, i)
      BY <1>1 DEF UnpackInv
    <3> QED
      BY <1>2, <1>3, <1>4, <3>2, <3>3 DEF BadCount
  <2>3. CASE job = "unpack"
    BY <2>1, <2>3, Refused
  <2> QED
    BY <1>1, <2>2, <2>3 DEF Decoding
<1>5. CASE ~BadCount
  <2>1. k <= CountOf(bytes, i) /\ CountOf(bytes, i) <= OMEGA
    BY <1>2, <1>3, <1>5 DEF BadCount
  <2>2. CASE Count(i) = k
    <3>1. i' = i + 1 /\ UNCHANGED <<job, h, bytes, j, k, given>>
      BY <1>5, <2>2 DEF UnpackPoly
    <3>2. Typed' /\ UnpackInv'
      BY <1>1, <1>3, <2>2, <3>1, NoPlaceStep
    <3> QED
      BY <1>1, <3>1, <3>2, StillDecoding
  <2>3. CASE Count(i) # k
    <3>1. ReadPlace
      BY <1>5, <2>3 DEF UnpackPoly, ReadPlace
    <3>2. j < CountOf(bytes, i)
      BY <1>1, <1>2, <1>3, <2>1, <2>3
    <3>3. \A x \in k .. j - 1 : bytes[x] < bytes[j]
      BY <1>1, <1>2
    <3>4. Typed' /\ UnpackInv'
      BY <1>1, <2>1, <3>1, <3>2, <3>3, ReadPlaceStep
    <3>5. job' = job /\ bytes' = bytes /\ given' = given
      BY <3>1 DEF ReadPlace
    <3> QED
      BY <1>1, <3>4, <3>5, StillDecoding
  <2> QED
    BY <2>2, <2>3
<1> QED
  BY <1>4, <1>5

LEMMA UnpackPlaceStep ==
    ASSUME HintAssumption, HintInv, UnpackPlace
    PROVE  HintInv'
<1>1. Typed /\ UnpackInv /\ Decoding /\ i < K /\ j > k
  BY DEF HintInv, UnpackPlace
<1>2. /\ OMEGA \in Nat /\ K \in Nat /\ N \in Nat /\ i \in 0 .. K - 1 /\ k \in 0 .. OMEGA /\ bytes \in Strings
  <2>1. i \in 0 .. K /\ k \in 0 .. OMEGA /\ bytes \in Strings
    BY <1>1 DEF Typed
  <2> QED
    BY <1>1, <2>1 DEF HintAssumption
<1>3. /\ \A p \in 0 .. K - 1 : CountOf(bytes, p) \in 0 .. N - 1
      /\ \A x \in 0 .. OMEGA - 1 : bytes[x] \in 0 .. N - 1
  BY <1>2, TypesOf
<1>4. /\ j < CountOf(bytes, i) /\ CountOf(bytes, i) <= OMEGA /\ j \in k .. OMEGA
      /\ k = StartOf(bytes, i) /\ Rising(bytes, k, j)
  BY <1>1 DEF UnpackInv
<1>5. j \in 0 .. OMEGA - 1 /\ j - 1 \in 0 .. OMEGA - 1 /\ j - 1 \in k .. j - 1
  BY <1>1, <1>2, <1>3, <1>4
<1>6. CASE Unordered
  <2>1. Refuse
    BY <1>6 DEF UnpackPlace
  <2>2. CASE job = "unpack again"
    <3>1. Encoded(bytes, given)
      BY <2>2 DEF HintInv
    <3>2. Rising(bytes, k, CountOf(bytes, i))
      BY <1>2, <1>4, <3>1, EncodedPart
    <3>3. CountOf(bytes, i) \in 0 .. N - 1
      BY <1>2, <1>3
    <3>4. j \in k .. CountOf(bytes, i) - 1 /\ j - 1 \in k .. CountOf(bytes, i) - 1 /\ j - 1 < j
      BY <1>2, <1>4, <1>5, <3>3
    <3>5. bytes[j - 1] < bytes[j]
      BY <3>2, <3>4 DEF Rising
    <3>6. bytes[j] \in Int /\ bytes[j - 1] \in Int
      BY <1>3, <1>5
    <3> QED
      BY <1>6, <3>5, <3>6 DEF Unordered
  <2>3. CASE job = "unpack"
    BY <2>1, <2>3, Refused
  <2> QED
    BY <1>1, <2>2, <2>3 DEF Decoding
<1>7. CASE ~Unordered
  <2>1. ReadPlace
    BY <1>7 DEF UnpackPlace, ReadPlace
  <2>2. bytes[j - 1] < bytes[j]
    <3>1. bytes[j] \in Int /\ bytes[j - 1] \in Int
      BY <1>3, <1>5
    <3> QED
      BY <1>1, <1>7, <3>1 DEF Unordered
  <2>3. ASSUME NEW x \in k .. j - 1 PROVE bytes[x] < bytes[j]
    <3>1. x = j - 1 \/ x < j - 1
      BY <1>2, <1>5
    <3>2. x \in 0 .. OMEGA - 1
      BY <1>2, <1>5
    <3>3. x < j - 1 => bytes[x] < bytes[j - 1]
      BY <1>4, <1>5 DEF Rising
    <3>4. bytes[x] \in Int /\ bytes[j] \in Int /\ bytes[j - 1] \in Int
      BY <1>3, <1>5, <3>2
    <3> QED
      BY <2>2, <3>1, <3>3, <3>4
  <2>4. Typed' /\ UnpackInv'
    BY <1>1, <1>4, <2>1, <2>3, ReadPlaceStep
  <2>5. job' = job /\ bytes' = bytes /\ given' = given
    BY <2>1 DEF ReadPlace
  <2> QED
    BY <1>1, <2>4, <2>5, StillDecoding
<1> QED
  BY <1>6, <1>7

\* A string has one encoded hint.
LEMMA OneHint ==
    ASSUME HintAssumption, NEW s, NEW x \in Hints, NEW y \in Hints,
           Written(s, x, K), Written(s, y, K)
    PROVE  x = y
<1>1. \A p \in 0 .. K - 1 : x[p] = y[p]
  BY DEF Written
<1>2. x = [p \in 0 .. K - 1 |-> x[p]] /\ y = [p \in 0 .. K - 1 |-> y[p]]
  BY DEF Hints
<1>3. [p \in 0 .. K - 1 |-> x[p]] = [p \in 0 .. K - 1 |-> y[p]]
  BY <1>1
<1> QED
  BY <1>2, <1>3

LEMMA PackNothing ==
    ASSUME HintAssumption, NEW hint \in Hints
    PROVE  /\ Zeros \in Strings /\ StartOf(Zeros, 0) = 0
           /\ Written(Zeros, hint, 0) /\ ZeroFrom(Zeros, 0)
           /\ Part(Zeros, 0, 0) = {c \in hint[0] : c < 0} /\ Rising(Zeros, 0, 0)
           /\ 0 \in 0 .. K /\ 0 \in 0 .. N /\ 0 \in 0 .. OMEGA /\ 0 < N /\ 0 # K
<1>1. /\ K \in Nat /\ N \in Nat /\ OMEGA \in Nat /\ 0 < N /\ 0 < K /\ 0 \in 0 .. K - 1
      /\ 0 \in 0 .. N - 1
  BY DEF HintAssumption
<1>2. hint[0] \subseteq 0 .. N - 1
  BY <1>1 DEF Hints
<1>3. {c \in hint[0] : c < 0} = {}
  BY <1>2
<1>4. \A x \in 0 .. OMEGA - 1 : x \in 0 .. OMEGA + K - 1
  BY <1>1
<1>5. ZeroFrom(Zeros, 0) /\ Zeros \in Strings
  BY <1>1, <1>4 DEF ZeroFrom, Zeros, Strings
<1> QED
  BY <1>1, <1>3, <1>5, NoPart, WrittenNone DEF StartOf

LEMMA UnpackEndStep ==
    ASSUME HintAssumption, HintInv, UnpackEnd
    PROVE  HintInv'
<1>1. Typed /\ UnpackInv /\ Decoding /\ i = K
  BY DEF HintInv, UnpackEnd
<1>2. /\ k = StartOf(bytes, K) /\ k \in 0 .. OMEGA /\ Written(bytes, h, K)
      /\ bytes \in Strings /\ h \in Hints
  BY <1>1 DEF Typed, UnpackInv
<1>3. RestIsZero <=> ZeroFrom(bytes, k)
  BY DEF RestIsZero, ZeroFrom
<1>4. CASE ~RestIsZero
  <2>1. Refuse
    BY <1>4 DEF UnpackEnd
  <2>2. job # "unpack again"
    BY <1>2, <1>3, <1>4 DEF HintInv, Encoded
  <2> QED
    BY <1>1, <2>1, <2>2, Refused DEF Decoding
<1>5. CASE RestIsZero /\ job = "unpack"
  <2>1. /\ job' = "pack again" /\ bytes' = Zeros /\ i' = 0 /\ j' = 0 /\ k' = 0
        /\ h' = h /\ given' = given
    BY <1>5 DEF UnpackEnd
  <2>2. given = bytes
    BY <1>5 DEF HintInv
  <2>3. Encoded(given, h)
    BY <1>2, <1>3, <1>5, <2>2 DEF Encoded
  <2>4. Typed' /\ PackInv'
    <3>1. Typed'
      BY <1>2, <2>1, PackNothing DEF Typed
    <3>2. /\ StartOf(Zeros, 0) = 0 /\ Written(Zeros, h, 0) /\ ZeroFrom(Zeros, 0)
          /\ Part(Zeros, 0, 0) = {c \in h[0] : c < 0} /\ Rising(Zeros, 0, 0)
          /\ 0 < N /\ 0 # K /\ 0 \in 0 .. 0
      BY <1>2, PackNothing
    <3>3. PackInv'
      BY <2>1, <3>2 DEF PackInv
    <3> QED
      BY <3>1, <3>3
  <2>5. SecondPack'
    <3>1. \A b \in 0 .. 0 - 1 : FALSE
      OBVIOUS
    <3>2. 0 \in 0 .. K - 1
      BY DEF HintAssumption
    <3>3. CountOf(given, 0) \in 0 .. N - 1
      BY <1>2, <2>2, <3>2, TypesOf
    <3>4. 0 <= CountOf(given, 0)
      BY <3>3 DEF HintAssumption
    <3> QED
      BY <1>2, <2>1, <2>2, <2>3, <3>1, <3>4 DEF SecondPack
  <2> QED
    BY <2>1, <2>4, <2>5 DEF HintInv, Packing, Decoding
<1>6. CASE RestIsZero /\ job = "unpack again"
  <2>1. /\ job' = "unpacked" /\ bytes' = bytes /\ i' = 0 /\ j' = 0 /\ k' = 0
        /\ h' = h /\ given' = given
    BY <1>6 DEF UnpackEnd
  <2>2. given \in Hints /\ Written(bytes, given, K)
    BY <1>6 DEF HintInv, Encoded
  <2>3. h = given
    BY <1>2, <2>2, OneHint
  <2>4. Typed'
    BY <1>2, <2>1, PackNothing DEF Typed
  <2> QED
    BY <2>1, <2>3, <2>4 DEF HintInv, Packing, Decoding
<1> QED
  BY <1>1, <1>4, <1>5, <1>6 DEF Decoding

-----------------------------------------------------------------------------
(* The invariant *)

LEMMA PackBitStep ==
    ASSUME HintAssumption, HintInv, PackBit
    PROVE  HintInv'
<1>1. Typed /\ PackInv /\ job' = job /\ h' = h /\ given' = given
  BY DEF HintInv, PackBit, Packing
<1>2. CASE job = "pack"
  <2>1. Typed' /\ PackInv' /\ FirstPack'
    BY <1>1, <1>2, FirstPackStep DEF HintInv
  <2> QED
    BY <1>1, <1>2, <2>1 DEF HintInv, Decoding
<1>3. CASE job = "pack again"
  <2>1. Typed' /\ PackInv' /\ SecondPack'
    BY <1>1, <1>3, SecondPackStep DEF HintInv
  <2> QED
    BY <1>1, <1>3, <2>1 DEF HintInv, Decoding
<1> QED
  BY <1>2, <1>3 DEF PackBit

LEMMA HintStarts ==
    ASSUME HintAssumption, HintInit
    PROVE  HintInv
<1>1. i = 0 /\ j = 0 /\ k = 0
  BY DEF HintInit
<1>2. CASE job = "pack" /\ bytes = Zeros /\ h \in {x \in Hints : Weight(x) <= OMEGA} /\ given = h
  <2>1. h \in Hints /\ Weight(h) <= OMEGA
    BY <1>2
  <2>2. Typed
    BY <1>1, <1>2, <2>1, PackNothing DEF Typed
  <2>3. PackInv
    BY <1>1, <1>2, <2>1, PackNothing DEF PackInv
  <2>4. FirstPack
    BY <1>1, <1>2, <2>1, BeforeNone, FS_EmptySet DEF FirstPack
  <2> QED
    BY <1>2, <2>2, <2>3, <2>4 DEF HintInv, Decoding
<1>3. CASE job = "unpack" /\ h = Empty /\ bytes \in Strings /\ given = bytes
  <2>1. 0 \in 0 .. K /\ 0 \in 0 .. N /\ 0 \in 0 .. OMEGA /\ 0 # K
    BY DEF HintAssumption
  <2>2. Typed
    BY <1>1, <1>3, <2>1, ReadNothing DEF Typed
  <2>3. UnpackInv
    <3>1. \A p \in 0 + 1 .. K - 1 : p \in 0 .. K - 1
      BY DEF HintAssumption
    <3>2. ~(0 > 0)
      OBVIOUS
    <3> QED
      BY <1>1, <1>3, <2>1, <3>1, <3>2, ReadNothing DEF UnpackInv
  <2> QED
    BY <1>3, <2>2, <2>3 DEF HintInv, Packing
<1> QED
  BY <1>2, <1>3 DEF HintInit

LEMMA HintSteps ==
    ASSUME HintAssumption, HintInv, [HintNext]_hintVars
    PROVE  HintInv'
<1>1. CASE UNCHANGED hintVars
  BY <1>1 DEF HintInv, hintVars, Typed, Packing, PackInv, FirstPack, SecondPack, Decoding, UnpackInv
<1>2. CASE HintNext
  BY <1>2, PackBitStep, PackEndStep, UnpackPolyStep, UnpackPlaceStep, UnpackEndStep DEF HintNext
<1> QED
  BY <1>1, <1>2

LEMMA HintUse ==
    ASSUME HintAssumption, HintInv
    PROVE  HintsComeBack
<1>1. Typed /\ (Decoding => UnpackInv)
  BY DEF HintInv
<1>2. i \in 0 .. K /\ j \in 0 .. N /\ k \in 0 .. OMEGA
  BY <1>1 DEF Typed
<1>3. Decoding => j <= OMEGA
  BY <1>1, <1>2 DEF UnpackInv, HintAssumption
<1>4. i < K /\ Decoding /\ j > k => j < Count(i)
  BY <1>1 DEF UnpackInv, Count, CountOf
<1>5. InTheirParts
  BY <1>2, <1>3, <1>4 DEF InTheirParts
<1>6. HintRoundTrip /\ OneEncoding
  BY DEF HintInv, HintRoundTrip, OneEncoding
<1> QED
  BY <1>5, <1>6 DEF HintsComeBack

\* However many polynomials, coefficients and ones the parameter set has: no place
\* and no count of a hint is read or written outside its part of the signature,
\* the verifier accepts every hint the signer may pack and reads the same one, and
\* the bytes it accepts are the only encoding of the hint it reads from them.
THEOREM HintsSurviveTheSignature == HintSpec => []HintsComeBack
<1>0. HintAssumption
  BY HintParameters
<1>1. HintInit => HintInv
  BY <1>0, HintStarts
<1>2. HintInv /\ [HintNext]_hintVars => HintInv'
  BY <1>0, HintSteps
<1>3. HintInv => HintsComeBack
  BY <1>0, HintUse
<1> QED
  BY <1>1, <1>2, <1>3, PTL DEF HintSpec
=============================================================================
