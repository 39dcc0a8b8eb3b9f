---------------------------- MODULE StreamProofs ----------------------------
(***************************************************************************)
(* For every rate and every way of cutting messages and outputs into       *)
(* calls: the sponges of shake256.c, shake128.c and keccak256.c hash the   *)
(* padded message and give the bytes of one stream.                        *)
(*                                                                         *)
(* For every number of coefficients, every size of a block and any number  *)
(* of refills: the rejection samplers look at the bytes of the stream in   *)
(* turn, and s1 and s2 are the first acceptable halves of bytes.           *)
(***************************************************************************)
EXTENDS Sponge, Sampling, SequenceTheorems, FiniteSetTheorems, TLAPS

-----------------------------------------------------------------------------
(* The sponge *)

Block == [0 .. RATE - 1 -> SUBSET (Nat \cup {Suffix, "0x80"})]
BlockSeq(s) == s \in Seq(Block)
OutSeq(s) == s \in Seq(Seq(Block) \X Nat)

\* The blocks after e permutations of nothing.
Zeros(e) == [b \in 1 .. e |-> Zero]
Stream(n, e) == PaddedBlocks(n) \o Zeros(e)

-----------------------------------------------------------------------------
(* The inductive invariant *)

SpongeTyped ==
    /\ BlockSeq(blocks) /\ rate \in Block /\ ctxPos \in 0 .. RATE - 1
    /\ message \in Nat /\ OutSeq(output) /\ squeezing \in BOOLEAN

\* Whole blocks of the message were permuted, the rest is in the rate.
AbsorbInv ==
    /\ message = Len(blocks) * RATE + ctxPos
    /\ \A b \in 1 .. Len(blocks), k \in 0 .. RATE - 1 : blocks[b][k] = {(b - 1) * RATE + k + 1}
    /\ \A k \in 0 .. RATE - 1 : rate[k] = IF k < ctxPos THEN {Len(blocks) * RATE + k + 1} ELSE {}
    /\ output = << >>

\* Nothing but permutations of nothing follows the padded message.
SqueezeInv ==
    /\ \E q \in Nat, r \in 0 .. RATE - 1 : message = q * RATE + r
    /\ \E e \in Nat : blocks = Stream(message, e) /\ Len(output) = e * RATE + ctxPos
    /\ rate = Zero
    /\ PiecewiseSqueeze

SpongeInv ==
    /\ SpongeTyped
    /\ ~squeezing => AbsorbInv
    /\ squeezing => SqueezeInv

-----------------------------------------------------------------------------
(* Arithmetic *)

LEMMA QuotientIs ==
    ASSUME NEW R \in Nat, R > 0, NEW q \in Nat, NEW r \in 0 .. R - 1
    PROVE  (q * R + r) \div R = q /\ (q * R + r) % R = r
BY SMT

LEMMA Multiple ==
    ASSUME NEW R \in Nat, R > 0, NEW x \in Nat, NEW y \in Nat, x < y
    PROVE  x * R + R <= y * R
BY SMT

LEMMA NextMultiple ==
    ASSUME NEW R \in Nat, NEW x \in Nat
    PROVE  (x + 1) * R = x * R + R /\ x * R \in Nat
BY SMT

\* What ctxPos, RATE and the byte counter say of each other; m is the start of a block.
LEMMA InABlock ==
    ASSUME NEW R \in Nat, R > 0, NEW m \in Nat, NEW p \in 0 .. R - 1, NEW k \in 0 .. R - 1, NEW n, n = m + p
    PROVE  /\ m + k < n <=> k < p
           /\ m + k = n <=> k = p
           /\ m + k = (m + R) - 1 <=> k = R - 1
BY SMT

\* A byte of an earlier block.
LEMMA BeforeABlock ==
    ASSUME NEW R \in Nat, R > 0, NEW m \in Nat, NEW p \in 0 .. R - 1, NEW k \in 0 .. R - 1, NEW n, n = m + p,
           NEW j \in Nat, j + R <= m
    PROVE  j + k < n /\ j + k # n /\ j + k # (m + R) - 1
BY SMT

-----------------------------------------------------------------------------
(* BlockCount *)

LEMMA ZeroIsABlock ==
    ASSUME SpongeAssumption
    PROVE  Zero \in Block
BY DEF Zero, Block

LEMMA ZerosAreBlocks ==
    ASSUME SpongeAssumption, NEW e \in Nat
    PROVE  /\ Zeros(e) \in Seq(Block) /\ Len(Zeros(e)) = e
           /\ \A b \in 1 .. e : Zeros(e)[b] = Zero
<1>1. Zeros(e) \in [1 .. e -> Block]
  BY ZeroIsABlock DEF Zeros
<1>2. Zeros(e) \in Seq(Block)
  BY <1>1, SeqDef
<1>3. DOMAIN Zeros(e) = 1 .. e
  BY DEF Zeros
<1>4. Len(Zeros(e)) = e
  BY <1>2, <1>3, LenProperties
<1> QED
  BY <1>2, <1>4 DEF Zeros

LEMMA PaddedAreBlocks ==
    ASSUME SpongeAssumption, NEW n \in Nat, NEW q \in Nat, NEW r \in 0 .. RATE - 1, n = q * RATE + r
    PROVE  /\ PaddedBlocks(n) \in Seq(Block) /\ BlockCount(n) = q + 1
           /\ Len(PaddedBlocks(n)) = q + 1
           /\ \A b \in 1 .. q + 1 : PaddedBlocks(n)[b] = [k \in 0 .. RATE - 1 |-> PaddedByte(n, (b - 1) * RATE + k)]
<1>0. RATE \in Nat /\ RATE > 0
  BY DEF SpongeAssumption
<1>1. BlockCount(n) = q + 1
  BY <1>0, QuotientIs DEF BlockCount
<1>2. ASSUME NEW k \in Nat PROVE PaddedByte(n, k) \in SUBSET (Nat \cup {Suffix, "0x80"})
  <2>1. k + 1 \in Nat
    OBVIOUS
  <2> QED
    BY <2>1 DEF PaddedByte
<1>3. ASSUME NEW b \in 1 .. q + 1
      PROVE  [k \in 0 .. RATE - 1 |-> PaddedByte(n, (b - 1) * RATE + k)] \in Block
  <2>1. \A k \in 0 .. RATE - 1 : (b - 1) * RATE + k \in Nat
    <3>1. (b - 1) * RATE \in Nat
      BY <1>0
    <3> QED
      BY <1>0, <3>1
  <2> QED
    BY <1>2, <2>1 DEF Block
<1>4. PaddedBlocks(n) = [b \in 1 .. q + 1 |-> [k \in 0 .. RATE - 1 |-> PaddedByte(n, (b - 1) * RATE + k)]]
  BY <1>1 DEF PaddedBlocks
<1>5. PaddedBlocks(n) \in [1 .. q + 1 -> Block]
  BY <1>3, <1>4
<1>6. PaddedBlocks(n) \in Seq(Block)
  <2>1. q + 1 \in Nat
    OBVIOUS
  <2> QED
    BY <1>5, <2>1, SeqDef
<1>7. Len(PaddedBlocks(n)) = q + 1
  <2>1. DOMAIN PaddedBlocks(n) = 1 .. q + 1
    BY <1>5
  <2>2. Len(PaddedBlocks(n)) \in Nat /\ DOMAIN PaddedBlocks(n) = 1 .. Len(PaddedBlocks(n))
    BY <1>6, LenProperties
  <2> QED
    BY <2>1, <2>2
<1> QED
  BY <1>1, <1>4, <1>6, <1>7

\* One more permutation of nothing.
LEMMA StreamGrows ==
    ASSUME SpongeAssumption, NEW n, PaddedBlocks(n) \in Seq(Block), NEW e \in Nat
    PROVE  Append(Stream(n, e), Zero) = Stream(n, e + 1)
<1>1. Zeros(e) \in Seq(Block) /\ Zero \in Block /\ e + 1 \in Nat
  BY ZerosAreBlocks, ZeroIsABlock
<1>2. Append(Zeros(e), Zero) = Zeros(e + 1)
  <2>1. /\ Append(Zeros(e), Zero) \in Seq(Block) /\ Len(Append(Zeros(e), Zero)) = e + 1
        /\ \A b \in 1 .. e : Append(Zeros(e), Zero)[b] = Zeros(e)[b]
        /\ Append(Zeros(e), Zero)[e + 1] = Zero
    BY <1>1, ZerosAreBlocks, AppendProperties
  <2>2. /\ Zeros(e + 1) \in Seq(Block) /\ Len(Zeros(e + 1)) = e + 1
        /\ \A b \in 1 .. e + 1 : Zeros(e + 1)[b] = Zero
    BY <1>1, ZerosAreBlocks
  <2>3. ASSUME NEW b \in 1 .. e + 1 PROVE Append(Zeros(e), Zero)[b] = Zeros(e + 1)[b]
    <3>1. b \in 1 .. e \/ b = e + 1
      OBVIOUS
    <3> QED
      BY <2>1, <2>2, <3>1, ZerosAreBlocks
  <2> QED
    BY <2>1, <2>2, <2>3, SeqEqual
<1>3. Append(Zeros(e), Zero) = Zeros(e) \o <<Zero>>
  BY <1>1, AppendIsConcat
<1>4. Stream(n, e) \in Seq(Block)
  BY <1>1, ConcatProperties DEF Stream
<1>5. Append(Stream(n, e), Zero) = Stream(n, e) \o <<Zero>>
  BY <1>1, <1>4, AppendIsConcat
<1>6. <<Zero>> \in Seq(Block)
  BY <1>1
<1>7. Stream(n, e) \o <<Zero>> = PaddedBlocks(n) \o (Zeros(e) \o <<Zero>>)
  BY <1>1, <1>6, ConcatAssociative DEF Stream
<1> QED
  BY <1>2, <1>3, <1>5, <1>7 DEF Stream

LEMMA StreamStarts ==
    ASSUME SpongeAssumption, NEW n, PaddedBlocks(n) \in Seq(Block)
    PROVE  Stream(n, 0) = PaddedBlocks(n)
<1>1. Zeros(0) \in Seq(Block) /\ Len(Zeros(0)) = 0
  BY ZerosAreBlocks
<1>2. Zeros(0) = << >>
  BY <1>1, EmptySeq
<1> QED
  BY <1>2, ConcatEmptySeq DEF Stream

LEMMA StreamBegins ==
    ASSUME SpongeAssumption, NEW n, PaddedBlocks(n) \in Seq(Block), NEW e \in Nat,
           Len(PaddedBlocks(n)) = BlockCount(n), BlockCount(n) \in Nat \ {0}
    PROVE  SubSeq(Stream(n, e), 1, BlockCount(n)) = PaddedBlocks(n)
<1>1. Zeros(e) \in Seq(Block)
  BY ZerosAreBlocks
<1>2. SubSeq(Stream(n, e), 1, BlockCount(n)) = SubSeq(PaddedBlocks(n), 1, BlockCount(n))
  BY <1>1, SubSeqOfConcat1 DEF Stream
<1>3. SubSeq(PaddedBlocks(n), 1, BlockCount(n)) = PaddedBlocks(n)
  BY SubSeqFull
<1> QED
  BY <1>2, <1>3

-----------------------------------------------------------------------------
(* Absorbing *)

LEMMA AbsorbByteStep ==
    ASSUME SpongeAssumption, SpongeInv, AbsorbByte
    PROVE  SpongeInv'
<1> DEFINE len == Len(blocks)
           r == [rate EXCEPT ![ctxPos] = xor(@, {message + 1})]
<1>1. /\ SpongeTyped /\ AbsorbInv /\ squeezing = FALSE /\ squeezing' = FALSE /\ Advance(r)
      /\ message' = message + 1 /\ output' = output
  BY DEF SpongeInv, AbsorbByte, SpongeTyped
<1>2. /\ RATE \in Nat /\ RATE > 0 /\ ctxPos \in 0 .. RATE - 1 /\ message \in Nat /\ rate \in Block
      /\ blocks \in Seq(Block) /\ OutSeq(output)
  BY <1>1 DEF SpongeTyped, SpongeAssumption, BlockSeq
<1>3. len \in Nat /\ len * RATE \in Nat /\ (len + 1) * RATE = len * RATE + RATE
  BY <1>2, LenProperties, NextMultiple
<1>4. /\ message = len * RATE + ctxPos
      /\ \A b \in 1 .. len, k \in 0 .. RATE - 1 : blocks[b][k] = {(b - 1) * RATE + k + 1}
      /\ \A k \in 0 .. RATE - 1 : rate[k] = IF k < ctxPos THEN {len * RATE + k + 1} ELSE {}
      /\ output = << >>
  BY <1>1 DEF AbsorbInv
<1> HIDE DEF len
<1>5. rate[ctxPos] = {}
  <2>1. ~(ctxPos < ctxPos)
    BY <1>2
  <2>2. rate[ctxPos] = IF ctxPos < ctxPos THEN {len * RATE + ctxPos + 1} ELSE {}
    BY <1>2, <1>4, Zenon
  <2> QED
    BY <2>1, <2>2
<1>6. xor(rate[ctxPos], {message + 1}) = {len * RATE + ctxPos + 1}
  BY <1>4, <1>5 DEF xor
<1>7. r \in Block
  <2>1. {len * RATE + ctxPos + 1} \in SUBSET (Nat \cup {Suffix, "0x80"})
    BY <1>2, <1>3
  <2> QED
    BY <1>2, <1>6, <2>1 DEF Block
<1>8. \A k \in 0 .. RATE - 1 : r[k] = IF k < ctxPos + 1 THEN {len * RATE + k + 1} ELSE {}
  <2> SUFFICES ASSUME NEW k \in 0 .. RATE - 1
               PROVE  r[k] = IF k < ctxPos + 1 THEN {len * RATE + k + 1} ELSE {}
    OBVIOUS
  <2>1. r[k] = IF k = ctxPos THEN {len * RATE + ctxPos + 1} ELSE rate[k]
    BY <1>2, <1>6 DEF Block
  <2>2. CASE k = ctxPos
    <3>1. k < ctxPos + 1
      BY <1>2, <2>2
    <3> QED
      BY <2>1, <2>2, <3>1
  <2>3. CASE k # ctxPos
    <3>1. k < ctxPos + 1 <=> k < ctxPos
      BY <1>2, <2>3
    <3> QED
      BY <1>4, <2>1, <2>3, <3>1
  <2> QED
    BY <2>2, <2>3
<1> HIDE DEF r
<1>9. CASE ctxPos + 1 = RATE
  <2>1. blocks' = Append(blocks, r) /\ rate' = Zero /\ ctxPos' = 0
    BY <1>1, <1>9 DEF Advance, keccakf
  <2>2. /\ blocks' \in Seq(Block) /\ Len(blocks') = len + 1
        /\ \A b \in 1 .. len : blocks'[b] = blocks[b]
        /\ blocks'[len + 1] = r
    BY <1>2, <1>7, <2>1, AppendProperties DEF len
  <2>3. SpongeTyped'
    <3>1. 0 \in 0 .. RATE - 1 /\ message + 1 \in Nat
      BY <1>2
    <3> QED
      BY <1>1, <1>2, <2>1, <2>2, <3>1, ZeroIsABlock DEF SpongeTyped, BlockSeq
  <2>4. message + 1 = (len + 1) * RATE + 0
    <3>1. message + 1 = len * RATE + RATE
      <4>1. RATE \in Nat /\ ctxPos \in Nat
        BY <1>2
      <4>2. len * RATE \in Nat /\ message = len * RATE + ctxPos
        BY <1>3, <1>4
      <4> QED
        BY <1>9, <4>1, <4>2
    <3> QED
      BY <1>2, <1>3, <3>1
  <2>5. ASSUME NEW b \in 1 .. len + 1, NEW k \in 0 .. RATE - 1
        PROVE  blocks'[b][k] = {(b - 1) * RATE + k + 1}
    <3>1. CASE b = len + 1
      <4>1. k < ctxPos + 1 /\ b - 1 = len
        BY <1>2, <1>3, <1>9, <3>1
      <4> QED
        BY <1>8, <2>2, <3>1, <4>1
    <3>2. CASE b # len + 1
      <4>1. b \in 1 .. len
        BY <1>3, <3>2
      <4> QED
        BY <1>4, <2>2, <4>1
    <3> QED
      BY <3>1, <3>2
  <2>6. ASSUME NEW k \in 0 .. RATE - 1
        PROVE  Zero[k] = IF k < 0 THEN {Len(blocks') * RATE + k + 1} ELSE {}
    BY <1>2 DEF Zero
  <2>7. AbsorbInv'
    BY <1>1, <1>4, <2>1, <2>2, <2>4, <2>5, <2>6 DEF AbsorbInv
  <2> QED
    BY <1>1, <2>3, <2>7 DEF SpongeInv
<1>10. CASE ctxPos + 1 # RATE
  <2>1. blocks' = blocks /\ rate' = r /\ ctxPos' = ctxPos + 1
    BY <1>1, <1>10 DEF Advance
  <2>2. SpongeTyped'
    <3>1. ctxPos + 1 \in 0 .. RATE - 1 /\ message + 1 \in Nat
      BY <1>2, <1>10
    <3> QED
      BY <1>1, <1>2, <1>7, <2>1, <3>1 DEF SpongeTyped, BlockSeq
  <2>3. message + 1 = len * RATE + (ctxPos + 1)
    <3>1. ctxPos \in Nat
      BY <1>2
    <3>2. len * RATE \in Nat /\ message = len * RATE + ctxPos
      BY <1>3, <1>4
    <3> QED
      BY <3>1, <3>2
  <2>4. AbsorbInv'
    BY <1>1, <1>4, <1>8, <2>1, <2>3 DEF AbsorbInv, len
  <2> QED
    BY <1>1, <2>2, <2>4 DEF SpongeInv
<1> QED
  BY <1>9, <1>10

-----------------------------------------------------------------------------
(* Padding *)

\* The last block of the padded message.
LEMMA PaddedRate ==
    ASSUME SpongeAssumption, SpongeTyped, AbsorbInv
    PROVE  /\ Pad \in Block
           /\ Pad = [k \in 0 .. RATE - 1 |-> PaddedByte(message, Len(blocks) * RATE + k)]
<1> DEFINE len == Len(blocks)
           a == [rate EXCEPT ![ctxPos] = xor(@, {Suffix})]
<1>1. /\ RATE \in Nat /\ RATE > 0 /\ ctxPos \in 0 .. RATE - 1 /\ message \in Nat /\ rate \in Block
      /\ blocks \in Seq(Block) /\ Suffix # "0x80" /\ RATE - 1 \in 0 .. RATE - 1
  BY DEF SpongeTyped, SpongeAssumption, BlockSeq
<1>2. len \in Nat /\ len * RATE \in Nat /\ (len + 1) * RATE = len * RATE + RATE
  BY <1>1, LenProperties, NextMultiple
<1>3. /\ message = len * RATE + ctxPos
      /\ \A k \in 0 .. RATE - 1 : rate[k] = IF k < ctxPos THEN {len * RATE + k + 1} ELSE {}
  BY DEF AbsorbInv
<1>4. BlockCount(message) = len + 1
  BY <1>1, <1>2, <1>3, QuotientIs DEF BlockCount
<1> HIDE DEF len
<1>5. a \in [0 .. RATE - 1 -> SUBSET (Nat \cup {Suffix, "0x80"})]
  <2>1. rate[ctxPos] \in SUBSET (Nat \cup {Suffix, "0x80"})
    BY <1>1 DEF Block
  <2>2. xor(rate[ctxPos], {Suffix}) \in SUBSET (Nat \cup {Suffix, "0x80"})
    BY <2>1 DEF xor
  <2> QED
    BY <1>1, <2>2 DEF Block
<1>6. \A k \in 0 .. RATE - 1 : a[k] = IF k = ctxPos THEN {Suffix} ELSE rate[k]
  <2>1. rate[ctxPos] = {}
    <3>1. ~(ctxPos < ctxPos)
      BY <1>1
    <3>2. rate[ctxPos] = IF ctxPos < ctxPos THEN {len * RATE + ctxPos + 1} ELSE {}
      BY <1>1, <1>3, Zenon
    <3> QED
      BY <3>1, <3>2
  <2>2. xor(rate[ctxPos], {Suffix}) = {Suffix}
    BY <2>1 DEF xor
  <2> QED
    BY <1>1, <2>2 DEF Block
<1> HIDE DEF a
<1>7. Pad = [a EXCEPT ![RATE - 1] = xor(@, {"0x80"})]
  BY DEF Pad, a
<1>8. Pad \in [0 .. RATE - 1 -> SUBSET (Nat \cup {Suffix, "0x80"})]
  <2>1. a[RATE - 1] \in SUBSET (Nat \cup {Suffix, "0x80"})
    BY <1>1, <1>5
  <2>2. xor(a[RATE - 1], {"0x80"}) \in SUBSET (Nat \cup {Suffix, "0x80"})
    BY <2>1 DEF xor
  <2> QED
    BY <1>1, <1>5, <1>7, <2>2
<1>9. \A k \in 0 .. RATE - 1 : Pad[k] = IF k = RATE - 1 THEN xor(a[k], {"0x80"}) ELSE a[k]
  BY <1>1, <1>5, <1>7
<1>10. ASSUME NEW k \in 0 .. RATE - 1
       PROVE  Pad[k] = PaddedByte(message, len * RATE + k)
  <2>1. /\ len * RATE + k < message <=> k < ctxPos
        /\ len * RATE + k = message <=> k = ctxPos
        /\ len * RATE + k = BlockCount(message) * RATE - 1 <=> k = RATE - 1
    <3>1. BlockCount(message) * RATE = len * RATE + RATE
      BY <1>2, <1>4
    <3> QED
      <4>1. /\ RATE \in Nat /\ RATE > 0 /\ len * RATE \in Nat /\ ctxPos \in 0 .. RATE - 1
            /\ message = len * RATE + ctxPos
        BY <1>1, <1>2, <1>3
      <4>2. PICK m \in Nat : m = len * RATE
        BY <4>1
      <4>3. message = m + ctxPos
        BY <4>1, <4>2
      <4>4. m + k < message <=> k < ctxPos
        BY <4>1, <4>3, InABlock
      <4>5. m + k = message <=> k = ctxPos
        BY <4>1, <4>3, InABlock
      <4>6. m + k = (m + RATE) - 1 <=> k = RATE - 1
        BY <4>1, <4>3, InABlock
      <4> QED
        BY <3>1, <4>2, <4>4, <4>5, <4>6
  <2>2. PaddedByte(message, len * RATE + k) =
          (IF k < ctxPos THEN {len * RATE + k + 1} ELSE {}) \cup (IF k = ctxPos THEN {Suffix} ELSE {})
          \cup (IF k = RATE - 1 THEN {"0x80"} ELSE {})
    BY <2>1 DEF PaddedByte
  <2>3. k = ctxPos => ~(k < ctxPos)
    BY <1>1
  <2>4. a[k] = (IF k < ctxPos THEN {len * RATE + k + 1} ELSE {}) \cup (IF k = ctxPos THEN {Suffix} ELSE {})
    BY <1>3, <1>6, <2>3
  <2>5. k = RATE - 1 => ~(k < ctxPos)
    BY <1>1
  <2>6. k = RATE - 1 => xor(a[k], {"0x80"}) = a[k] \cup {"0x80"}
    BY <1>1, <2>4, <2>5 DEF xor
  <2> QED
    BY <1>9, <2>2, <2>4, <2>6
<1>11. Pad = [k \in 0 .. RATE - 1 |-> Pad[k]]
  BY <1>8
<1>12. [k \in 0 .. RATE - 1 |-> Pad[k]] = [k \in 0 .. RATE - 1 |-> PaddedByte(message, len * RATE + k)]
  BY <1>10
<1> QED
  BY <1>8, <1>11, <1>12 DEF Block, len

\* All blocks of the padded message.
LEMMA PaddedMessage ==
    ASSUME SpongeAssumption, SpongeTyped, AbsorbInv
    PROVE  Append(blocks, Pad) = PaddedBlocks(message) /\ PaddedBlocks(message) \in Seq(Block)
<1> DEFINE len == Len(blocks)
<1>1. /\ RATE \in Nat /\ RATE > 0 /\ ctxPos \in 0 .. RATE - 1 /\ message \in Nat
      /\ blocks \in Seq(Block)
  BY DEF SpongeTyped, SpongeAssumption, BlockSeq
<1>2. len \in Nat /\ len * RATE \in Nat /\ (len + 1) * RATE = len * RATE + RATE
  BY <1>1, LenProperties, NextMultiple
<1>3. /\ message = len * RATE + ctxPos
      /\ \A b \in 1 .. len, k \in 0 .. RATE - 1 : blocks[b][k] = {(b - 1) * RATE + k + 1}
  BY DEF AbsorbInv
<1>4. /\ PaddedBlocks(message) \in Seq(Block) /\ BlockCount(message) = len + 1
      /\ Len(PaddedBlocks(message)) = len + 1
      /\ \A b \in 1 .. len + 1 : PaddedBlocks(message)[b] =
            [k \in 0 .. RATE - 1 |-> PaddedByte(message, (b - 1) * RATE + k)]
  BY <1>1, <1>2, <1>3, PaddedAreBlocks
<1>5. /\ Append(blocks, Pad) \in Seq(Block) /\ Len(Append(blocks, Pad)) = len + 1
      /\ \A b \in 1 .. len : Append(blocks, Pad)[b] = blocks[b]
      /\ Append(blocks, Pad)[len + 1] = Pad
  BY <1>1, PaddedRate, AppendProperties
<1>6. Pad = [k \in 0 .. RATE - 1 |-> PaddedByte(message, len * RATE + k)]
  BY PaddedRate
<1>7. \A b \in 1 .. len : blocks[b] \in Block
  BY <1>1, ElementOfSeq
<1> HIDE DEF len
<1>8. ASSUME NEW b \in 1 .. len + 1 PROVE Append(blocks, Pad)[b] = PaddedBlocks(message)[b]
  <2>1. CASE b = len + 1
    <3>1. b - 1 = len
      BY <1>2, <2>1
    <3> QED
      BY <1>4, <1>5, <1>6, <2>1, <3>1
  <2>2. CASE b # len + 1
    <3>1. b \in 1 .. len /\ b - 1 \in Nat /\ b - 1 < len
      BY <1>2, <2>2
    <3>2. (b - 1) * RATE + RATE <= len * RATE /\ (b - 1) * RATE \in Nat
      BY <1>1, <1>2, <3>1, Multiple, NextMultiple
    <3>3. ASSUME NEW k \in 0 .. RATE - 1
          PROVE  blocks[b][k] = PaddedByte(message, (b - 1) * RATE + k)
      <4> DEFINE x == (b - 1) * RATE + k
      <4>1. x < message /\ x # message /\ x # BlockCount(message) * RATE - 1
        <5>1. BlockCount(message) * RATE = len * RATE + RATE
          BY <1>2, <1>4
        <5> QED
          BY <1>1, <1>2, <1>3, <3>2, <5>1, BeforeABlock
      <4>2. PaddedByte(message, x) = {x + 1}
        BY <4>1 DEF PaddedByte
      <4> QED
        BY <1>3, <3>1, <4>2
    <3>4. blocks[b] = [k \in 0 .. RATE - 1 |-> blocks[b][k]]
      BY <1>7, <3>1 DEF Block
    <3>5. [k \in 0 .. RATE - 1 |-> blocks[b][k]] = [k \in 0 .. RATE - 1 |-> PaddedByte(message, (b - 1) * RATE + k)]
      BY <3>3
    <3> QED
      BY <1>4, <1>5, <3>1, <3>4, <3>5
  <2> QED
    BY <2>1, <2>2
<1> QED
  BY <1>4, <1>5, <1>8, SeqEqual

-----------------------------------------------------------------------------
(* Squeezing *)

LEMMA FinalizeStep ==
    ASSUME SpongeAssumption, SpongeInv, ~squeezing, Finalize, message' = message, output' = output
    PROVE  SpongeInv'
<1>1. SpongeTyped /\ AbsorbInv
  BY DEF SpongeInv
<1>2. /\ blocks' = Append(blocks, Pad) /\ rate' = Zero /\ ctxPos' = 0 /\ squeezing' = TRUE
  BY DEF Finalize, keccakf
<1>3. /\ RATE \in Nat /\ RATE > 0 /\ ctxPos \in 0 .. RATE - 1 /\ message \in Nat /\ blocks \in Seq(Block)
      /\ OutSeq(output)
  BY <1>1 DEF SpongeTyped, SpongeAssumption, BlockSeq
<1>4. blocks' = PaddedBlocks(message) /\ PaddedBlocks(message) \in Seq(Block)
  BY <1>1, <1>2, PaddedMessage
<1>5. SpongeTyped'
  <2>1. 0 \in 0 .. RATE - 1
    BY <1>3
  <2> QED
    BY <1>2, <1>3, <1>4, <2>1, ZeroIsABlock DEF SpongeTyped, BlockSeq
<1>6. \E q \in Nat, r \in 0 .. RATE - 1 : message = q * RATE + r
  <2>1. Len(blocks) \in Nat /\ message = Len(blocks) * RATE + ctxPos
    BY <1>1, <1>3, LenProperties DEF AbsorbInv
  <2> QED
    BY <1>3, <2>1
<1>7. blocks' = Stream(message, 0)
  BY <1>4, StreamStarts
<1>8. Len(output) = 0
  BY <1>1 DEF AbsorbInv
<1>9. 0 = 0 * RATE + 0
  BY <1>3
<1>10. PiecewiseSqueeze'
  BY <1>8 DEF PiecewiseSqueeze
<1>11. \E e \in Nat : blocks' = Stream(message, e) /\ Len(output) = e * RATE + 0
  BY <1>7, <1>8, <1>9
<1>12. SqueezeInv'
  BY <1>2, <1>6, <1>10, <1>11 DEF SqueezeInv
<1> QED
  BY <1>2, <1>5, <1>12 DEF SpongeInv

LEMMA SqueezeByteStep ==
    ASSUME SpongeAssumption, SpongeInv, SqueezeByte
    PROVE  SpongeInv'
<1>1. /\ SpongeTyped /\ SqueezeInv /\ squeezing' = TRUE /\ Advance(rate) /\ message' = message
      /\ output' = Append(output, <<blocks, ctxPos>>)
  BY DEF SpongeInv, SqueezeByte, SpongeTyped
<1>2. /\ RATE \in Nat /\ RATE > 0 /\ ctxPos \in 0 .. RATE - 1 /\ ctxPos \in Nat /\ message \in Nat
      /\ blocks \in Seq(Block) /\ rate = Zero
  BY <1>1 DEF SpongeTyped, SpongeAssumption, BlockSeq, SqueezeInv
<1>3. PICK q \in Nat, r \in 0 .. RATE - 1 : message = q * RATE + r
  BY <1>1 DEF SqueezeInv
<1>4. PICK e \in Nat : blocks = Stream(message, e) /\ Len(output) = e * RATE + ctxPos
  BY <1>1 DEF SqueezeInv
<1>5. PaddedBlocks(message) \in Seq(Block)
  BY <1>2, <1>3, PaddedAreBlocks
<1>6. e * RATE \in Nat /\ (e + 1) * RATE = e * RATE + RATE
  BY <1>2, NextMultiple
<1>7. /\ output' \in Seq(Seq(Block) \X Nat) /\ Len(output') = Len(output) + 1
      /\ \A j \in 1 .. Len(output) : output'[j] = output[j]
      /\ output'[Len(output) + 1] = <<blocks, ctxPos>>
  <2>1. output \in Seq(Seq(Block) \X Nat) /\ <<blocks, ctxPos>> \in Seq(Block) \X Nat
    BY <1>1, <1>2 DEF SpongeTyped, OutSeq
  <2> QED
    BY <1>1, <2>1, AppendProperties
<1>8. <<blocks, ctxPos>> = OutputByte(message, Len(output))
  <2>1. Len(output) \div RATE = e /\ Len(output) % RATE = ctxPos
    BY <1>2, <1>4, QuotientIs
  <2> QED
    BY <1>4, <2>1 DEF OutputByte, Stream, Zeros
<1>9. PiecewiseSqueeze'
  <2>1. Len(output) \in Nat
    BY <1>2, <1>4, <1>6
  <2>2. ASSUME NEW j \in 1 .. Len(output) + 1
        PROVE  output'[j] = OutputByte(message, j - 1)
    <3>1. CASE j = Len(output) + 1
      <4>1. j - 1 = Len(output)
        BY <2>1, <3>1
      <4> QED
        BY <1>7, <1>8, <3>1, <4>1
    <3>2. CASE j # Len(output) + 1
      <4>1. j \in 1 .. Len(output)
        BY <2>1, <3>2
      <4> QED
        BY <1>1, <1>7, <4>1 DEF SqueezeInv, PiecewiseSqueeze
    <3> QED
      BY <3>1, <3>2
  <2> QED
    BY <1>1, <1>7, <2>2 DEF PiecewiseSqueeze, OutputByte, PaddedBlocks, PaddedByte, BlockCount, Zero
<1>10. CASE ctxPos + 1 = RATE
  <2>1. blocks' = Append(blocks, Zero) /\ rate' = Zero /\ ctxPos' = 0
    BY <1>1, <1>2, <1>10 DEF Advance, keccakf
  <2>2. blocks' = Stream(message, e + 1)
    BY <1>4, <1>5, <2>1, StreamGrows
  <2>3. Len(output') = (e + 1) * RATE + 0
    <3>1. Len(output') = (e * RATE + ctxPos) + 1
      BY <1>4, <1>7
    <3> QED
      BY <1>2, <1>6, <1>10, <3>1
  <2>4. blocks' \in Seq(Block)
    BY <1>2, <2>1, ZeroIsABlock, AppendProperties
  <2>5. SpongeTyped'
    <3>1. 0 \in 0 .. RATE - 1
      BY <1>2
    <3> QED
      BY <1>1, <1>2, <1>7, <2>1, <2>4, <3>1, ZeroIsABlock DEF SpongeTyped, BlockSeq, OutSeq
  <2>6. e + 1 \in Nat
    OBVIOUS
  <2>7. SqueezeInv'
    BY <1>1, <1>3, <1>9, <2>1, <2>2, <2>3, <2>6 DEF SqueezeInv
  <2> QED
    BY <1>1, <2>5, <2>7 DEF SpongeInv
<1>11. CASE ctxPos + 1 # RATE
  <2>1. blocks' = blocks /\ rate' = Zero /\ ctxPos' = ctxPos + 1
    BY <1>1, <1>2, <1>11 DEF Advance
  <2>2. Len(output') = e * RATE + (ctxPos + 1)
    <3>1. Len(output') = (e * RATE + ctxPos) + 1
      BY <1>4, <1>7
    <3> QED
      BY <1>2, <1>6, <3>1
  <2>3. SpongeTyped'
    <3>1. ctxPos + 1 \in 0 .. RATE - 1
      BY <1>2, <1>11
    <3> QED
      BY <1>1, <1>2, <1>7, <2>1, <3>1, ZeroIsABlock DEF SpongeTyped, BlockSeq, OutSeq
  <2>4. SqueezeInv'
    BY <1>1, <1>3, <1>4, <1>9, <2>1, <2>2 DEF SqueezeInv
  <2> QED
    BY <1>1, <2>3, <2>4 DEF SpongeInv
<1> QED
  BY <1>10, <1>11

-----------------------------------------------------------------------------
(* The invariant holds, and it is what SpongeInPieces needs *)

LEMMA SpongeStarts ==
    ASSUME SpongeAssumption, SpongeInit
    PROVE  SpongeInv
<1>1. RATE \in Nat /\ RATE > 0 /\ 0 \in 0 .. RATE - 1 /\ 0 = 0 * RATE + 0
  BY DEF SpongeAssumption
<1>2. /\ blocks = << >> /\ rate = Zero /\ ctxPos = 0 /\ squeezing = FALSE
      /\ message = 0 /\ output = << >>
  BY DEF SpongeInit
<1>3. Len(blocks) = 0 /\ blocks \in Seq(Block) /\ output \in Seq(Seq(Block) \X Nat)
  BY <1>2
<1>4. SpongeTyped
  BY <1>1, <1>2, <1>3, ZeroIsABlock, Zenon DEF SpongeTyped, BlockSeq, OutSeq
<1>5. \A k \in 0 .. RATE - 1 : Zero[k] = {} /\ ~(k < 0)
  BY <1>1 DEF Zero
<1>6. message = Len(blocks) * RATE + ctxPos
  BY <1>1, <1>2, <1>3, Zenon
<1>7. \A b \in 1 .. Len(blocks), k \in 0 .. RATE - 1 : blocks[b][k] = {(b - 1) * RATE + k + 1}
  BY <1>3
<1>8. \A k \in 0 .. RATE - 1 : rate[k] = IF k < ctxPos THEN {Len(blocks) * RATE + k + 1} ELSE {}
  BY <1>2, <1>5, Zenon
<1>9. AbsorbInv
  BY <1>2, <1>6, <1>7, <1>8, Zenon DEF AbsorbInv
<1> QED
  BY <1>2, <1>4, <1>9 DEF SpongeInv

LEMMA SpongeStep ==
    ASSUME SpongeAssumption, SpongeInv, [SpongeNext]_spongeVars
    PROVE  SpongeInv'
<1>1. ASSUME UNCHANGED <<blocks, rate, ctxPos, squeezing, message, output>> PROVE SpongeInv'
  BY <1>1 DEF SpongeInv, SpongeTyped, AbsorbInv, SqueezeInv, PiecewiseSqueeze, BlockSeq, OutSeq, Stream,
              OutputByte, PaddedBlocks, PaddedByte, BlockCount, Zero, Zeros, Block
<1>2. ASSUME NEW inlen \in 0 .. MaxMessage, shake_absorb(inlen) PROVE SpongeInv'
  BY <1>1, <1>2, Zenon DEF shake_absorb
<1>3. CASE AbsorbByte
  BY <1>3, AbsorbByteStep
<1>4. CASE shake_finalize
  <2>1. ~squeezing /\ Finalize /\ message' = message /\ output' = output
    BY <1>4, Zenon DEF shake_finalize
  <2> QED
    BY <2>1, FinalizeStep
<1>5. ASSUME NEW outlen \in 0 .. MaxOutput, shake_squeeze(outlen) PROVE SpongeInv'
  <2>1. message' = message /\ output' = output
    BY <1>5, Zenon DEF shake_squeeze
  <2>2. CASE squeezing
    BY <1>1, <1>5, <2>1, <2>2, Zenon DEF shake_squeeze
  <2>3. CASE ~squeezing
    <3>1. Finalize
      BY <1>5, <2>3, Zenon DEF shake_squeeze
    <3> QED
      BY <2>1, <2>3, <3>1, FinalizeStep
  <2> QED
    BY <2>2, <2>3
<1>6. CASE SqueezeByte
  BY <1>6, SqueezeByteStep
<1>7. CASE UNCHANGED spongeVars
  BY <1>1, <1>7, Zenon DEF spongeVars
<1> QED
  BY <1>2, <1>3, <1>4, <1>5, <1>6, <1>7, Zenon DEF SpongeNext

LEMMA SpongeInvSays ==
    ASSUME SpongeAssumption, SpongeInv
    PROVE  SpongeInPieces
<1>1. /\ RATE \in Nat /\ RATE > 0 /\ ctxPos \in 0 .. RATE - 1 /\ message \in Nat /\ blocks \in Seq(Block)
      /\ squeezing \in BOOLEAN
  BY DEF SpongeInv, SpongeTyped, SpongeAssumption, BlockSeq
<1>2. CASE ~squeezing
  <2>1. message = Len(blocks) * RATE + ctxPos /\ output = << >> /\ Len(blocks) \in Nat
    BY <1>1, <1>2, LenProperties DEF SpongeInv, AbsorbInv
  <2>2. message % RATE = ctxPos
    BY <1>1, <2>1, QuotientIs
  <2>3. PosInRate
    BY <1>2, <2>2 DEF PosInRate
  <2>4. PiecewiseSqueeze
    BY <2>1 DEF PiecewiseSqueeze
  <2> QED
    BY <1>2, <2>3, <2>4 DEF SpongeInPieces, PiecewiseAbsorb
<1>3. CASE squeezing
  <2>1. SqueezeInv
    BY <1>3 DEF SpongeInv
  <2>2. PICK q \in Nat, r \in 0 .. RATE - 1 : message = q * RATE + r
    BY <2>1 DEF SqueezeInv
  <2>3. PICK e \in Nat : blocks = Stream(message, e) /\ Len(output) = e * RATE + ctxPos
    BY <2>1 DEF SqueezeInv
  <2>4. /\ PaddedBlocks(message) \in Seq(Block) /\ BlockCount(message) = q + 1
        /\ Len(PaddedBlocks(message)) = q + 1
    BY <1>1, <2>2, PaddedAreBlocks
  <2>5. SubSeq(blocks, 1, BlockCount(message)) = PaddedBlocks(message)
    <3>1. q + 1 \in Nat \ {0}
      OBVIOUS
    <3> QED
      BY <1>1, <2>3, <2>4, <3>1, StreamBegins
  <2>6. Len(output) % RATE = ctxPos
    BY <1>1, <2>3, QuotientIs
  <2>7. PosInRate
    BY <1>3, <2>6 DEF PosInRate
  <2> QED
    BY <2>1, <2>5, <2>7 DEF SpongeInPieces, PiecewiseAbsorb, SqueezeInv
<1> QED
  BY <1>2, <1>3

\* However the calls of shake256.c, shake128.c and keccak256.c cut the message
\* and the output, for every rate and suffix: the blocks permuted are those of
\* the padded message, the bytes given are those of one stream, and ctxPos never
\* leaves the rate.
THEOREM SpongeIsOneStream == SpongeSpec => []SpongeInPieces
<1>0. SpongeAssumption
  BY SpongeParameters
<1>1. SpongeInit => SpongeInv
  BY <1>0, SpongeStarts
<1>2. SpongeInv /\ [SpongeNext]_spongeVars => SpongeInv'
  BY <1>0, SpongeStep
<1>3. SpongeInv => SpongeInPieces
  BY <1>0, SpongeInvSays
<1> QED
  BY <1>1, <1>2, <1>3, PTL DEF SpongeSpec

-----------------------------------------------------------------------------
(* The samplers *)

Half == [at : Nat \X Nat, t : 0 .. 15]
Entry == [at : Nat \X Nat, value : Int]
Triple == Nat \X Nat \X Nat

-----------------------------------------------------------------------------
(* Ranks *)

LEMMA BelowFinite ==
    ASSUME NEW s, NEW n \in Nat
    PROVE  IsFiniteSet(Below(s, n)) /\ Cardinality(Below(s, n)) \in Nat
<1>1. IsFiniteSet(1 .. n)
  BY FS_Interval
<1>2. Below(s, n) \subseteq 1 .. n
  BY DEF Below
<1> QED
  BY <1>1, <1>2, FS_Subset, FS_CardinalityType

LEMMA BelowGrows ==
    ASSUME NEW s, NEW n \in Nat, NEW j \in 1 .. n, j \in Below(s, n)
    PROVE  Cardinality(Below(s, j)) \in Nat /\ Cardinality(Below(s, j)) >= 1
           /\ Cardinality(Below(s, j)) <= Cardinality(Below(s, n))
<1>1. j \in Nat
  OBVIOUS
<1>2. Below(s, j) \subseteq Below(s, n)
  BY DEF Below
<1>3. Cardinality(Below(s, j)) <= Cardinality(Below(s, n))
  BY <1>1, <1>2, BelowFinite, FS_Subset
<1>4. {j} \subseteq Below(s, j)
  BY DEF Below
<1>5. Cardinality({j}) = 1
  BY FS_Singleton
<1>6. 1 <= Cardinality(Below(s, j))
  BY <1>1, <1>4, <1>5, BelowFinite, FS_Subset
<1> QED
  BY <1>1, <1>3, <1>6, BelowFinite

\* One more half.
LEMMA BelowAppend ==
    ASSUME NEW s \in Seq(Half), NEW x \in Half
    PROVE  /\ \A j \in 1 .. Len(s) : Below(Append(s, x), j) = Below(s, j)
           /\ Below(Append(s, x), Len(s) + 1) =
                Below(s, Len(s)) \cup (IF x.t < 15 THEN {Len(s) + 1} ELSE {})
<1> DEFINE m == Len(s)
           u == Append(s, x)
<1>1. /\ \A j \in 1 .. m : u[j] = s[j]
      /\ u[m + 1] = x
  BY AppendProperties
<1>2. m \in Nat
  BY LenProperties
<1> HIDE DEF m, u
<1>3. ASSUME NEW j \in 1 .. m PROVE Below(u, j) = Below(s, j)
  <2>1. 1 .. j \subseteq 1 .. m
    BY <1>2
  <2> QED
    BY <1>1, <2>1 DEF Below
<1>4. Below(u, m + 1) = Below(s, m) \cup (IF x.t < 15 THEN {m + 1} ELSE {})
  <2>1. 1 .. m + 1 = (1 .. m) \cup {m + 1}
    BY <1>2
  <2>2. \A j \in 1 .. m : u[j].t < 15 <=> s[j].t < 15
    BY <1>1
  <2>3. u[m + 1].t < 15 <=> x.t < 15
    BY <1>1
  <2> QED
    BY <2>1, <2>2, <2>3, Zenon DEF Below
<1> QED
  BY <1>3, <1>4 DEF m, u

\* What a half adds to the coefficients.
Kept(c, x) == IF x.t < 15 /\ Len(c) < aLen THEN Append(c, Coefficient(x)) ELSE c

LEMMA CoefficientType ==
    ASSUME NEW x \in Half
    PROVE  Coefficient(x) \in Entry
<1>1. x.t \in Int /\ x.at \in Nat \X Nat
  BY DEF Half
<1>2. 2 - (x.t % 5) \in Int
  BY <1>1
<1> QED
  BY <1>1, <1>2 DEF Coefficient, Entry

LEMMA OneHalf ==
    ASSUME SamplingAssumption, NEW s \in Seq(Half), NEW c \in Seq(Entry), NEW x \in Half, DrawnFrom(s, c)
    PROVE  Kept(c, x) \in Seq(Entry) /\ DrawnFrom(Append(s, x), Kept(c, x))
<1> DEFINE m == Len(s)
           u == Append(s, x)
           d == Kept(c, x)
           all == Cardinality(Below(s, m))
<1>1. m \in Nat /\ Len(c) \in Nat /\ aLen \in Nat /\ aLen > 0 /\ Len(u) = m + 1 /\ m + 1 \in Nat
  BY LenProperties, AppendProperties DEF SamplingAssumption
<1>2. /\ Len(c) = IF all < aLen THEN all ELSE aLen
      /\ \A j \in Below(s, m) : Cardinality(Below(s, j)) <= aLen => c[Cardinality(Below(s, j))] = Coefficient(s[j])
  BY DEF DrawnFrom
<1>3. /\ \A j \in 1 .. m : Below(u, j) = Below(s, j) /\ u[j] = s[j]
      /\ Below(u, m + 1) = Below(s, m) \cup (IF x.t < 15 THEN {m + 1} ELSE {})
      /\ u[m + 1] = x
  BY BelowAppend, AppendProperties
<1>4. IsFiniteSet(Below(s, m)) /\ all \in Nat
  BY <1>1, BelowFinite
<1>5. m + 1 \notin Below(s, m)
  <2>1. m + 1 \notin 1 .. m
    BY <1>1
  <2> QED
    BY <2>1 DEF Below
<1>6. Below(s, m) \subseteq 1 .. m
  BY DEF Below
<1>7. x.t < 15 => Cardinality(Below(u, m + 1)) = all + 1
  BY <1>3, <1>4, <1>5, FS_AddElement
<1>8. ~(x.t < 15) => Below(u, m + 1) = Below(s, m)
  BY <1>3
<1>9. /\ d \in Seq(Entry)
      /\ x.t < 15 /\ Len(c) < aLen => Len(d) = Len(c) + 1 /\ d[Len(c) + 1] = Coefficient(x)
      /\ ~(x.t < 15 /\ Len(c) < aLen) => d = c
      /\ \A r \in 1 .. Len(c) : d[r] = c[r]
  BY CoefficientType, AppendProperties DEF Kept
<1>10. ASSUME NEW j \in Below(s, m), Cardinality(Below(s, j)) <= aLen
       PROVE  d[Cardinality(Below(s, j))] = Coefficient(s[j])
  <2>1. /\ Cardinality(Below(s, j)) \in Nat /\ Cardinality(Below(s, j)) >= 1
        /\ Cardinality(Below(s, j)) <= all
    BY <1>1, <1>6, BelowGrows
  <2>2. PICK r \in Nat : r = Cardinality(Below(s, j))
    BY <2>1
  <2>3. r \in 1 .. Len(c)
    BY <1>1, <1>2, <1>4, <1>10, <2>1, <2>2
  <2> QED
    BY <1>2, <1>9, <1>10, <2>2, <2>3
<1> HIDE DEF m, u, d, all
<1>11. Len(d) = LET n == Cardinality(Below(u, m + 1)) IN IF n < aLen THEN n ELSE aLen
  <2>1. CASE x.t < 15
    <3>1. Cardinality(Below(u, m + 1)) = all + 1
      BY <1>7, <2>1
    <3>2. CASE all < aLen
      <4>1. Len(c) = all
        BY <1>2, <3>2
      <4>2. Len(d) = all + 1
        BY <1>9, <2>1, <3>2, <4>1
      <4>3. all + 1 < aLen \/ all + 1 = aLen
        BY <1>1, <1>4, <3>2
      <4> QED
        BY <3>1, <4>2, <4>3
    <3>3. CASE ~(all < aLen)
      <4>1. Len(c) = aLen /\ ~(Len(c) < aLen)
        BY <1>1, <1>2, <3>3
      <4>2. d = c
        BY <1>9, <4>1
      <4>3. ~(all + 1 < aLen)
        BY <1>1, <1>4, <3>3
      <4> QED
        BY <3>1, <4>1, <4>2, <4>3
    <3> QED
      BY <3>2, <3>3
  <2>2. CASE ~(x.t < 15)
    BY <1>2, <1>8, <1>9, <2>2 DEF all
  <2> QED
    BY <2>1, <2>2
<1>12. ASSUME NEW j \in Below(u, m + 1), Cardinality(Below(u, j)) <= aLen
       PROVE  d[Cardinality(Below(u, j))] = Coefficient(u[j])
  <2>1. CASE j \in Below(s, m)
    BY <1>3, <1>6, <1>10, <1>12, <2>1
  <2>2. CASE j \notin Below(s, m)
    <3>1. x.t < 15 /\ j = m + 1
      BY <1>3, <1>8, <2>2, <1>12
    <3>2. Cardinality(Below(u, j)) = all + 1
      BY <1>7, <3>1
    <3>3. all < aLen
      BY <1>1, <1>4, <1>12, <3>2
    <3>4. Len(c) = all /\ Len(c) < aLen
      BY <1>2, <3>3
    <3> QED
      BY <1>3, <1>9, <3>1, <3>2, <3>4
  <2> QED
    BY <2>1, <2>2
<1>13. DrawnFrom(u, d)
  BY <1>1, <1>11, <1>12 DEF DrawnFrom
<1> QED
  BY <1>9, <1>13 DEF u, d

-----------------------------------------------------------------------------
(* The inductive invariant *)

\* Named, because a hypothesis about Seq sends the SMT solver astray.
Matrix(c, s) == c \in Seq(Triple) /\ s \in Seq(Triple)
Secret(c, s) == c \in Seq(Entry) /\ s \in Seq(Half)

Typed ==
    /\ kind \in {"matrix", "secret"} /\ sampler \in {kind, "done"}
    /\ next \in Nat /\ bufLen \in Nat /\ pos \in Nat
    /\ buf \in [0 .. BufferSize - 1 -> Int]

\* The buffer holds the last bufLen bytes of the stream.
Window ==
    /\ bufLen <= next /\ bufLen <= BufferSize /\ pos <= bufLen
    /\ \A k \in 0 .. bufLen - 1 : buf[k] = next - bufLen + k

\* Two bytes more are only in the first buffer, and what was scanned is before pos.
MatrixInv ==
    /\ Matrix(coeffs, scanned) /\ Len(coeffs) <= aLen
    /\ next >= Blocks * Rate + 2
    /\ IF next = Blocks * Rate + 2 THEN bufLen = next ELSE bufLen = Rate
    /\ \A i \in 1 .. Len(scanned) :
          /\ scanned[i][1] < scanned[i][2] /\ scanned[i][2] < scanned[i][3]
          /\ scanned[i][3] < next - bufLen + pos
          /\ i > 1 => scanned[i - 1][3] < scanned[i][1]

\* Every byte before pos gave two halves.
SecretInv ==
    /\ Secret(coeffs, scanned)
    /\ bufLen = EtaBytes
    /\ Len(scanned) = 2 * (next - bufLen + pos)
    /\ SecretFromTheStream

SamplingInv ==
    /\ Typed /\ Window
    /\ kind = "matrix" => MatrixInv
    /\ kind = "secret" => SecretInv

LEMMA BlocksOfCandidates ==
    ASSUME SamplingAssumption
    PROVE  /\ Blocks * Rate \in Nat /\ (Blocks * Rate) % 3 = 0 /\ Rate % 3 = 0
           /\ Rate <= Blocks * Rate /\ Rate \in Nat /\ Rate > 0
<1>1. Rate \in Nat /\ Rate > 0 /\ Rate % 3 = 0 /\ Blocks \in Nat /\ Blocks > 0
  BY DEF SamplingAssumption
<1>2. PICK c \in Nat : Rate = 3 * c
  <2>1. Rate \div 3 \in Nat /\ Rate = 3 * (Rate \div 3)
    BY <1>1
  <2> QED
    BY <2>1
<1>3. Blocks * c \in Nat /\ Blocks * (3 * c) = 3 * (Blocks * c)
  BY <1>1
<1>4. PICK m \in Nat : m = Blocks * c
  BY <1>3
<1>5. Blocks * Rate = 3 * m
  BY <1>2, <1>3, <1>4
<1>6. (3 * m) % 3 = 0 /\ 3 * m \in Nat
  OBVIOUS
<1>7. Rate <= Blocks * Rate
  BY <1>1
<1> QED
  BY <1>1, <1>5, <1>6, <1>7

LEMMA SamplingStarts ==
    ASSUME SamplingAssumption, SamplingInit
    PROVE  SamplingInv
<1>1. /\ kind \in {"matrix", "secret"} /\ sampler = kind /\ coeffs = << >> /\ scanned = << >> /\ pos = 0
      /\ next = bufLen /\ buf = [k \in 0 .. BufferSize - 1 |-> IF k < bufLen THEN k ELSE Unread]
  BY DEF SamplingInit
<1>2. aLen \in Nat /\ EtaBytes \in Nat /\ Capacity \in Nat /\ Capacity >= Blocks * Rate + 2
  BY DEF SamplingAssumption
<1>3. /\ kind = "matrix" => bufLen = Blocks * Rate + 2 /\ BufferSize = Capacity
      /\ kind = "secret" => bufLen = EtaBytes /\ BufferSize = EtaBytes
  BY DEF SamplingInit, BufferSize
<1>4. bufLen \in Nat /\ BufferSize \in Nat /\ bufLen <= BufferSize
  BY <1>1, <1>2, <1>3, BlocksOfCandidates
<1>5. Typed
  <2>1. buf \in [0 .. BufferSize - 1 -> Int]
    BY <1>1, <1>4 DEF Unread
  <2> QED
    BY <1>1, <1>4, <2>1 DEF Typed
<1>6. Window
  <2>1. ASSUME NEW k \in 0 .. bufLen - 1 PROVE buf[k] = next - bufLen + k
    <3>1. k \in 0 .. BufferSize - 1 /\ k < bufLen
      BY <1>4
    <3>2. buf[k] = k
      BY <1>1, <3>1
    <3> QED
      BY <1>1, <1>4, <3>2
  <2> QED
    BY <1>1, <1>4, <2>1 DEF Window
<1>7. Len(scanned) = 0 /\ Len(coeffs) = 0
  BY <1>1
<1>8. kind = "matrix" => MatrixInv
  <2>1. Matrix(coeffs, scanned)
    BY <1>1 DEF Matrix
  <2> QED
    BY <1>1, <1>2, <1>3, <1>7, <2>1, BlocksOfCandidates DEF MatrixInv
<1>9. kind = "secret" => SecretInv
  <2>1. Secret(coeffs, scanned)
    BY <1>1 DEF Secret
  <2>2. DrawnFrom(scanned, coeffs)
    <3>1. Below(scanned, 0) = {}
      BY DEF Below
    <3>2. Cardinality({}) = 0
      BY FS_EmptySet
    <3>3. 0 < aLen
      BY DEF SamplingAssumption
    <3> QED
      BY <1>7, <3>1, <3>2, <3>3 DEF DrawnFrom
  <2>3. 0 = 2 * (next - bufLen + pos)
    BY <1>1, <1>4
  <2> QED
    BY <1>3, <1>7, <2>1, <2>2, <2>3 DEF SecretInv, SecretFromTheStream
<1> QED
  BY <1>5, <1>6, <1>8, <1>9 DEF SamplingInv

-----------------------------------------------------------------------------
(* The matrix *)

LEMMA UniformStep ==
    ASSUME SamplingAssumption, SamplingInv, Uniform
    PROVE  SamplingInv'
<1> DEFINE t == <<buf[pos], buf[pos + 1], buf[pos + 2]>>
           m == Len(scanned)
<1>1. /\ sampler = "matrix" /\ MoreCandidates /\ scanned' = Append(scanned, t)
      /\ coeffs' \in {coeffs, Append(coeffs, t)} /\ pos' = pos + 3
      /\ sampler' = sampler /\ kind' = kind /\ buf' = buf /\ next' = next /\ bufLen' = bufLen
  BY DEF Uniform
<1>2. Typed /\ Window /\ kind = "matrix" /\ MatrixInv
  BY <1>1 DEF SamplingInv, Typed
<1>3. /\ next \in Nat /\ bufLen \in Nat /\ pos \in Nat /\ bufLen <= next /\ bufLen <= BufferSize
      /\ aLen \in Nat
  BY <1>2 DEF Typed, Window, SamplingAssumption
<1>4. pos + 3 <= bufLen /\ ~(Len(coeffs) >= aLen)
  BY <1>1 DEF MoreCandidates, Full
<1>5. buf[pos] = next - bufLen + pos /\ buf[pos + 1] = next - bufLen + (pos + 1)
      /\ buf[pos + 2] = next - bufLen + (pos + 2)
  <2>1. pos \in 0 .. bufLen - 1 /\ pos + 1 \in 0 .. bufLen - 1 /\ pos + 2 \in 0 .. bufLen - 1
    BY <1>3, <1>4
  <2> QED
    BY <1>2, <2>1 DEF Window
<1>6. t \in Triple /\ t[1] < t[2] /\ t[2] < t[3] /\ t[3] < next - bufLen + (pos + 3)
      /\ t[1] = next - bufLen + pos
  <2>1. buf[pos] \in Nat /\ buf[pos + 1] \in Nat /\ buf[pos + 2] \in Nat
    BY <1>3, <1>5
  <2>2. t[1] = buf[pos] /\ t[2] = buf[pos + 1] /\ t[3] = buf[pos + 2]
    OBVIOUS
  <2>3. t \in Triple
    BY <2>1 DEF Triple
  <2>4. buf[pos] < buf[pos + 1] /\ buf[pos + 1] < buf[pos + 2] /\ buf[pos + 2] < next - bufLen + (pos + 3)
    BY <1>3, <1>5
  <2> QED
    BY <1>5, <2>2, <2>3, <2>4
<1> HIDE DEF t
<1>7. /\ scanned \in Seq(Triple) /\ coeffs \in Seq(Triple) /\ m \in Nat /\ Len(coeffs) \in Nat
  BY <1>2, LenProperties DEF MatrixInv, Matrix
<1>8. /\ scanned' \in Seq(Triple) /\ Len(scanned') = m + 1 /\ scanned'[m + 1] = t
      /\ \A i \in 1 .. m : scanned'[i] = scanned[i]
  BY <1>1, <1>6, <1>7, AppendProperties
<1>9. coeffs' \in Seq(Triple) /\ (Len(coeffs') = Len(coeffs) \/ Len(coeffs') = Len(coeffs) + 1)
  <2>1. CASE coeffs' = coeffs
    BY <1>7, <2>1
  <2>2. CASE coeffs' = Append(coeffs, t)
    BY <1>6, <1>7, <2>2, AppendProperties
  <2> QED
    BY <1>1, <2>1, <2>2
<1>10. Len(coeffs') <= aLen
  BY <1>3, <1>4, <1>7, <1>9
<1>11. \A i \in 1 .. m : scanned[i] \in Triple
  BY <1>7, ElementOfSeq
<1>12. \A i \in 1 .. m :
          /\ scanned[i][1] < scanned[i][2] /\ scanned[i][2] < scanned[i][3]
          /\ scanned[i][3] < next - bufLen + pos
          /\ i > 1 => scanned[i - 1][3] < scanned[i][1]
  BY <1>2 DEF MatrixInv
<1> HIDE DEF m
<1>13. ASSUME NEW i \in 1 .. m + 1
       PROVE  /\ scanned'[i][1] < scanned'[i][2] /\ scanned'[i][2] < scanned'[i][3]
              /\ scanned'[i][3] < next - bufLen + (pos + 3)
              /\ i > 1 => scanned'[i - 1][3] < scanned'[i][1]
  <2>1. CASE i = m + 1
    <3>1. i > 1 => scanned'[i - 1][3] < scanned'[i][1]
      <4> SUFFICES ASSUME i > 1 PROVE scanned'[i - 1][3] < scanned'[i][1]
        OBVIOUS
      <4>1. i - 1 = m /\ m \in 1 .. m
        BY <1>7, <2>1
      <4>2. scanned[m][3] < next - bufLen + pos
        BY <1>12, <4>1
      <4> QED
        BY <1>6, <1>8, <2>1, <4>1, <4>2
    <3> QED
      BY <1>6, <1>8, <2>1, <3>1
  <2>2. CASE i # m + 1
    <3>1. i \in 1 .. m /\ (i > 1 => i - 1 \in 1 .. m)
      BY <1>7, <2>2
    <3>2. scanned[i][3] \in Nat /\ scanned[i][3] < next - bufLen + pos
      BY <1>11, <1>12, <3>1 DEF Triple
    <3>3. scanned[i][3] < next - bufLen + (pos + 3)
      BY <1>3, <3>2
    <3> QED
      BY <1>8, <1>12, <3>1, <3>3
  <2> QED
    BY <2>1, <2>2
<1>14. MatrixInv'
  <2>1. IF next = Blocks * Rate + 2 THEN bufLen = next ELSE bufLen = Rate
    BY <1>2 DEF MatrixInv
  <2>2. next >= Blocks * Rate + 2
    BY <1>2 DEF MatrixInv
  <2>3. Matrix(coeffs, scanned)'
    BY <1>8, <1>9 DEF Matrix
  <2> QED
    BY <1>1, <1>8, <1>10, <1>13, <2>1, <2>2, <2>3 DEF MatrixInv
<1>15. Typed'
  <2>1. pos + 3 \in Nat
    BY <1>3
  <2> QED
    BY <1>1, <1>2, <2>1 DEF Typed, BufferSize
<1>16. Window'
  BY <1>1, <1>2, <1>4 DEF Window, BufferSize
<1> QED
  BY <1>1, <1>2, <1>14, <1>15, <1>16 DEF SamplingInv

\* The blocks are whole candidates: no byte is left to be moved.
LEMMA RefillStep ==
    ASSUME SamplingAssumption, SamplingInv, Refill
    PROVE  SamplingInv'
<1> DEFINE len == IF next = Blocks * Rate + 2 THEN Blocks * Rate ELSE bufLen
           off == len % 3
           moved == [k \in DOMAIN buf |-> IF k < off THEN buf[len - off + k] ELSE buf[k]]
<1>1. /\ sampler = "matrix" /\ ~MoreCandidates /\ ~Full
      /\ buf' = squeeze(moved, off, Rate) /\ bufLen' = Rate + off /\ next' = next + Rate /\ pos' = 0
      /\ sampler' = sampler /\ kind' = kind /\ coeffs' = coeffs /\ scanned' = scanned
  BY DEF Refill
<1>2. Typed /\ Window /\ kind = "matrix" /\ MatrixInv
  BY <1>1 DEF SamplingInv, Typed
<1>3. /\ next \in Nat /\ bufLen \in Nat /\ pos \in Nat /\ bufLen <= next /\ pos <= bufLen
      /\ BufferSize = Capacity /\ Capacity \in Nat /\ Capacity >= Blocks * Rate + 2
      /\ buf \in [0 .. Capacity - 1 -> Int]
  BY <1>2 DEF Typed, Window, SamplingAssumption, BufferSize
<1>4. /\ Blocks * Rate \in Nat /\ (Blocks * Rate) % 3 = 0 /\ Rate % 3 = 0
      /\ Rate <= Blocks * Rate /\ Rate \in Nat /\ Rate > 0
  BY BlocksOfCandidates
<1>5. IF next = Blocks * Rate + 2 THEN bufLen = next ELSE bufLen = Rate
  BY <1>2 DEF MatrixInv
<1>6. off = 0
  BY <1>4, <1>5
<1> HIDE DEF off
<1>7. bufLen' = Rate /\ Rate <= Capacity /\ next + Rate \in Nat
  <2>1. bufLen' = Rate + 0
    BY <1>1, <1>6
  <2> QED
    BY <1>3, <1>4, <2>1
<1>8. moved = buf
  <2>1. \A k \in 0 .. Capacity - 1 : ~(k < 0)
    BY <1>3
  <2>2. DOMAIN buf = 0 .. Capacity - 1 /\ buf = [k \in 0 .. Capacity - 1 |-> buf[k]]
    BY <1>3
  <2> QED
    BY <1>6, <2>1, <2>2
<1> HIDE DEF moved, len
<1>9. buf' = [k \in 0 .. Capacity - 1 |-> IF k \in 0 .. 0 + Rate - 1 THEN next + (k - 0) ELSE buf[k]]
  BY <1>1, <1>3, <1>6, <1>8 DEF squeeze
<1>10. buf' \in [0 .. Capacity - 1 -> Int]
  <2>1. ASSUME NEW k \in 0 .. Capacity - 1
        PROVE  (IF k \in 0 .. 0 + Rate - 1 THEN next + (k - 0) ELSE buf[k]) \in Int
    BY <1>3
  <2> QED
    BY <1>9, <2>1
<1>11. \A k \in 0 .. Rate - 1 : buf'[k] = (next + Rate) - Rate + k
  <2> SUFFICES ASSUME NEW k \in 0 .. Rate - 1 PROVE buf'[k] = (next + Rate) - Rate + k
    OBVIOUS
  <2>1. k \in 0 .. Capacity - 1 /\ k \in 0 .. 0 + Rate - 1
    BY <1>3, <1>4, <1>7
  <2>2. buf'[k] = next + (k - 0)
    BY <1>9, <2>1
  <2> QED
    BY <1>3, <1>4, <2>2
<1>12. Typed'
  BY <1>1, <1>2, <1>3, <1>4, <1>7, <1>10 DEF Typed, BufferSize
<1>13. Window'
  <2>1. Rate <= next + Rate /\ 0 <= Rate
    BY <1>3, <1>4
  <2> QED
    BY <1>1, <1>2, <1>7, <1>11, <2>1 DEF Window, BufferSize
<1>14. MatrixInv'
  <2>1. next >= Blocks * Rate + 2
    BY <1>2 DEF MatrixInv
  <2>2. next + Rate # Blocks * Rate + 2 /\ next + Rate >= Blocks * Rate + 2
    BY <1>3, <1>4, <2>1
  <2>3. Matrix(coeffs, scanned) /\ Len(coeffs) <= aLen
    BY <1>2 DEF MatrixInv
  <2>4. ASSUME NEW i \in 1 .. Len(scanned)
        PROVE  scanned[i][3] < (next + Rate) - Rate + 0
    <3>1. scanned[i] \in Triple
      BY <2>3, ElementOfSeq DEF Matrix
    <3>2. scanned[i][3] \in Nat /\ scanned[i][3] < next - bufLen + pos
      BY <1>2, <3>1 DEF MatrixInv, Triple
    <3>3. next \in Nat /\ bufLen \in Nat /\ pos \in Nat /\ pos <= bufLen /\ Rate \in Nat
      BY <1>3, <1>4
    <3> QED
      BY <3>2, <3>3
  <2>5. \A i \in 1 .. Len(scanned) :
          /\ scanned[i][1] < scanned[i][2] /\ scanned[i][2] < scanned[i][3]
          /\ i > 1 => scanned[i - 1][3] < scanned[i][1]
    BY <1>2 DEF MatrixInv
  <2> QED
    BY <1>1, <1>7, <2>2, <2>3, <2>4, <2>5 DEF MatrixInv, Matrix
<1> QED
  BY <1>1, <1>2, <1>12, <1>13, <1>14 DEF SamplingInv

-----------------------------------------------------------------------------
(* The secrets *)

LEMMA SecretValueIs ==
    ASSUME NEW t \in 0 .. 15, t < 15
    PROVE  SecretValue(t) = 2 - (t % 5)
BY SMT DEF SecretValue

\* The two halves of a byte, one after the other.
LEMMA HalvesAre ==
    ASSUME SamplingAssumption, NEW p \in Nat, NEW t0 \in 0 .. 15, NEW t1 \in 0 .. 15, ~Full,
           coeffs \in Seq(Entry)
    PROVE  Halves(p, t0, t1) = Kept(Kept(coeffs, [at |-> <<p, 0>>, t |-> t0]), [at |-> <<p, 1>>, t |-> t1])
<1> DEFINE x0 == [at |-> <<p, 0>>, t |-> t0]
           x1 == [at |-> <<p, 1>>, t |-> t1]
<1>1. x0.t = t0 /\ x1.t = t1 /\ x0.at = <<p, 0>> /\ x1.at = <<p, 1>>
  OBVIOUS
<1>2. t0 < 15 => Draw(<<p, 0>>, t0) = Coefficient(x0)
  BY <1>1, SecretValueIs DEF Draw, Coefficient
<1>3. t1 < 15 => Draw(<<p, 1>>, t1) = Coefficient(x1)
  BY <1>1, SecretValueIs DEF Draw, Coefficient
<1>4. Len(coeffs) < aLen
  <2>1. Len(coeffs) \in Nat /\ aLen \in Nat
    BY LenProperties DEF SamplingAssumption
  <2> QED
    BY <2>1 DEF Full
<1> HIDE DEF x0, x1
<1>5. Kept(coeffs, x0) = IF t0 < 15 THEN Append(coeffs, Draw(<<p, 0>>, t0)) ELSE coeffs
  BY <1>1, <1>2, <1>4 DEF Kept
<1> DEFINE kept == Kept(coeffs, x0)
<1> HIDE DEF kept
<1>6. Halves(p, t0, t1) = IF t1 < 15 /\ Len(kept) < aLen THEN Append(kept, Draw(<<p, 1>>, t1)) ELSE kept
  BY <1>5, Zenon DEF Halves, kept
<1>7. Halves(p, t0, t1) = Kept(kept, x1)
  BY <1>1, <1>3, <1>6, Zenon DEF Kept
<1> QED
  BY <1>7 DEF kept, x0, x1

LEMMA RejEtaStep ==
    ASSUME SamplingAssumption, SamplingInv, rej_eta
    PROVE  SamplingInv'
<1>1. /\ sampler = "secret" /\ ~Full /\ pos < bufLen /\ pos' = pos + 1
      /\ sampler' = sampler /\ kind' = kind /\ buf' = buf /\ next' = next /\ bufLen' = bufLen
  BY Zenon DEF rej_eta
<1>2. PICK t0 \in Nibbles, t1 \in Nibbles :
         /\ coeffs' = Halves(buf[pos], t0, t1)
         /\ scanned' = scanned \o <<[at |-> <<buf[pos], 0>>, t |-> t0], [at |-> <<buf[pos], 1>>, t |-> t1]>>
  BY Zenon DEF rej_eta
<1>3. Typed /\ Window /\ kind = "secret" /\ SecretInv
  BY <1>1 DEF SamplingInv, Typed
<1>4. t0 \in 0 .. 15 /\ t1 \in 0 .. 15
  BY DEF SamplingAssumption
<1>5. /\ next \in Nat /\ bufLen \in Nat /\ pos \in Nat /\ bufLen <= next
  BY <1>3 DEF Typed, Window
<1> DEFINE p == next - bufLen + pos
           x0 == [at |-> <<p, 0>>, t |-> t0]
           x1 == [at |-> <<p, 1>>, t |-> t1]
           m == Len(scanned)
<1>6. buf[pos] = p /\ p \in Nat
  <2>1. pos \in 0 .. bufLen - 1
    BY <1>1, <1>5
  <2>2. buf[pos] = p
    BY <1>3, <2>1 DEF Window
  <2> QED
    BY <1>5, <2>2
<1>7. x0 \in Half /\ x1 \in Half
  <2>1. <<p, 0>> \in Nat \X Nat /\ <<p, 1>> \in Nat \X Nat
    BY <1>6
  <2> QED
    BY <1>4, <2>1 DEF Half
<1>8. /\ coeffs \in Seq(Entry) /\ scanned \in Seq(Half) /\ m \in Nat /\ m = 2 * p
      /\ DrawnFrom(scanned, coeffs)
      /\ \A i \in 1 .. m : scanned[i].at = <<(i - 1) \div 2, (i - 1) % 2>>
  BY <1>3, LenProperties DEF SecretInv, Secret, SecretFromTheStream
<1>9. x0.at = <<p, 0>> /\ x1.at = <<p, 1>>
  OBVIOUS
<1>10. coeffs' = Kept(Kept(coeffs, x0), x1)
  BY <1>1, <1>2, <1>4, <1>6, <1>8, HalvesAre
<1>11. scanned' = scanned \o <<x0, x1>>
  BY <1>2, <1>6
<1> HIDE DEF x0, x1, p
<1> DEFINE s0 == Append(scanned, x0)
<1>12. s0 \in Seq(Half) /\ Len(s0) = m + 1 /\ s0[m + 1] = x0 /\ \A i \in 1 .. m : s0[i] = scanned[i]
  BY <1>7, <1>8, AppendProperties
<1>13. scanned' = Append(s0, x1)
  <2>1. s0 = scanned \o <<x0>> /\ Append(s0, x1) = s0 \o <<x1>>
    BY <1>7, <1>8, <1>12, AppendIsConcat
  <2>2. <<x0>> \in Seq(Half) /\ <<x1>> \in Seq(Half)
    BY <1>7
  <2>3. (scanned \o <<x0>>) \o <<x1>> = scanned \o (<<x0>> \o <<x1>>)
    BY <1>8, <2>2, ConcatAssociative
  <2>4. <<x0>> \o <<x1>> = <<x0, x1>>
    <3>1. <<x0, x1>> = Append(<<x0>>, x1)
      OBVIOUS
    <3> QED
      BY <1>7, <2>2, <3>1, AppendIsConcat
  <2> QED
    BY <1>11, <2>1, <2>3, <2>4
<1> HIDE DEF s0
<1>14. /\ scanned' \in Seq(Half) /\ Len(scanned') = (m + 1) + 1 /\ scanned'[(m + 1) + 1] = x1
       /\ \A i \in 1 .. m + 1 : scanned'[i] = s0[i]
  BY <1>7, <1>12, <1>13, AppendProperties
<1>15. Kept(coeffs, x0) \in Seq(Entry) /\ DrawnFrom(s0, Kept(coeffs, x0))
  BY <1>7, <1>8, OneHalf DEF s0
<1>16. coeffs' \in Seq(Entry) /\ DrawnFrom(scanned', coeffs')
  BY <1>7, <1>10, <1>12, <1>13, <1>15, OneHalf
<1> HIDE DEF m
<1>17. Len(scanned') = 2 * (next - bufLen + (pos + 1))
  <2>1. m = 2 * (next - bufLen + pos)
    BY <1>8 DEF p
  <2> QED
    BY <1>5, <1>8, <1>14, <2>1
<1>18. ASSUME NEW i \in 1 .. (m + 1) + 1 PROVE scanned'[i].at = <<(i - 1) \div 2, (i - 1) % 2>>
  <2>1. CASE i = (m + 1) + 1
    <3>1. (i - 1) \div 2 = p /\ (i - 1) % 2 = 1
      BY <1>6, <1>8, <2>1
    <3> QED
      BY <1>9, <1>14, <2>1, <3>1
  <2>2. CASE i = m + 1
    <3>1. (i - 1) \div 2 = p /\ (i - 1) % 2 = 0 /\ i \in 1 .. m + 1
      BY <1>6, <1>8, <2>2
    <3> QED
      BY <1>9, <1>12, <1>14, <2>2, <3>1
  <2>3. CASE i \in 1 .. m
    <3>1. i \in 1 .. m + 1
      BY <1>8, <2>3
    <3> QED
      BY <1>8, <1>12, <1>14, <2>3, <3>1
  <2> QED
    BY <1>8, <2>1, <2>2, <2>3
<1>19. SecretFromTheStream'
  BY <1>14, <1>16, <1>18 DEF SecretFromTheStream, DrawnFrom, Below, Coefficient
<1>20. SecretInv'
  BY <1>1, <1>3, <1>14, <1>16, <1>17, <1>19 DEF SecretInv, Secret
<1>21. Typed'
  <2>1. pos + 1 \in Nat
    BY <1>5
  <2> QED
    BY <1>1, <1>3, <2>1 DEF Typed, BufferSize
<1>22. Window'
  <2>1. pos + 1 <= bufLen
    BY <1>1, <1>5
  <2> QED
    BY <1>1, <1>3, <2>1 DEF Window, BufferSize
<1> QED
  BY <1>1, <1>3, <1>20, <1>21, <1>22 DEF SamplingInv

LEMMA EtaRefillStep ==
    ASSUME SamplingAssumption, SamplingInv, EtaRefill
    PROVE  SamplingInv'
<1>1. /\ sampler = "secret" /\ pos >= bufLen
      /\ buf' = squeeze(buf, 0, EtaBytes) /\ next' = next + EtaBytes /\ bufLen' = EtaBytes /\ pos' = 0
      /\ sampler' = sampler /\ kind' = kind /\ coeffs' = coeffs /\ scanned' = scanned
  BY DEF EtaRefill
<1>2. Typed /\ Window /\ kind = "secret" /\ SecretInv
  BY <1>1 DEF SamplingInv, Typed
<1>3. /\ next \in Nat /\ bufLen = EtaBytes /\ pos \in Nat /\ EtaBytes <= next /\ pos <= EtaBytes
      /\ EtaBytes \in Nat /\ BufferSize = EtaBytes /\ buf \in [0 .. EtaBytes - 1 -> Int]
  BY <1>2 DEF Typed, Window, SamplingAssumption, BufferSize, SecretInv
<1>4. buf' = [k \in 0 .. EtaBytes - 1 |-> IF k \in 0 .. 0 + EtaBytes - 1 THEN next + (k - 0) ELSE buf[k]]
  BY <1>1, <1>3 DEF squeeze
<1>5. buf' \in [0 .. EtaBytes - 1 -> Int]
  <2>1. ASSUME NEW k \in 0 .. EtaBytes - 1
        PROVE  (IF k \in 0 .. 0 + EtaBytes - 1 THEN next + (k - 0) ELSE buf[k]) \in Int
    BY <1>3
  <2> QED
    BY <1>4, <2>1
<1>6. \A k \in 0 .. EtaBytes - 1 : buf'[k] = (next + EtaBytes) - EtaBytes + k
  <2> SUFFICES ASSUME NEW k \in 0 .. EtaBytes - 1 PROVE buf'[k] = (next + EtaBytes) - EtaBytes + k
    OBVIOUS
  <2>1. k \in 0 .. 0 + EtaBytes - 1
    BY <1>3
  <2>2. buf'[k] = next + (k - 0)
    BY <1>4, <2>1
  <2> QED
    BY <1>3, <2>2
<1>7. next + EtaBytes \in Nat /\ EtaBytes <= next + EtaBytes /\ 0 <= EtaBytes
  BY <1>3
<1>8. Typed'
  BY <1>1, <1>2, <1>3, <1>5, <1>7 DEF Typed, BufferSize
<1>9. Window'
  BY <1>1, <1>2, <1>3, <1>6, <1>7 DEF Window, BufferSize
<1>10. Len(scanned) = 2 * ((next + EtaBytes) - EtaBytes + 0)
  <2>1. Len(scanned) = 2 * (next - bufLen + pos)
    BY <1>2 DEF SecretInv
  <2>2. pos = EtaBytes
    BY <1>1, <1>3
  <2> QED
    BY <1>3, <2>1, <2>2
<1>11. SecretInv'
  BY <1>1, <1>2, <1>10 DEF SecretInv, Secret, SecretFromTheStream, DrawnFrom, Below, Coefficient
<1> QED
  BY <1>1, <1>2, <1>8, <1>9, <1>11 DEF SamplingInv

-----------------------------------------------------------------------------
(* The invariant holds, and it is what SamplersReadTheStream needs *)

LEMMA SamplingStep ==
    ASSUME SamplingAssumption, SamplingInv, [SamplingNext]_samplingVars
    PROVE  SamplingInv'
<1>1. ASSUME sampler' \in {sampler, "done"}, UNCHANGED <<kind, buf, next, bufLen, pos, coeffs, scanned>>
      PROVE  SamplingInv'
  <2>1. Typed'
    BY <1>1 DEF SamplingInv, Typed, BufferSize
  <2>2. Window'
    BY <1>1 DEF SamplingInv, Window, BufferSize
  <2>3. (kind = "matrix" => MatrixInv)'
    BY <1>1 DEF SamplingInv, MatrixInv, Matrix
  <2>4. (kind = "secret" => SecretInv)'
    BY <1>1 DEF SamplingInv, SecretInv, Secret, SecretFromTheStream, DrawnFrom, Below, Coefficient
  <2> QED
    BY <2>1, <2>2, <2>3, <2>4 DEF SamplingInv
<1>2. CASE Uniform
  BY <1>2, UniformStep
<1>3. CASE Refill
  BY <1>3, RefillStep
<1>4. CASE rej_eta
  BY <1>4, RejEtaStep
<1>5. CASE EtaRefill
  BY <1>5, EtaRefillStep
<1>6. CASE Finish
  BY <1>1, <1>6, Zenon DEF Finish
<1>7. CASE UNCHANGED samplingVars
  BY <1>1, <1>7, Zenon DEF samplingVars
<1> QED
  BY <1>2, <1>3, <1>4, <1>5, <1>6, <1>7 DEF SamplingNext

LEMMA SamplingInvSays ==
    ASSUME SamplingAssumption, SamplingInv
    PROVE  SamplersReadTheStream
<1>1. Typed /\ Window /\ aLen \in Nat
  BY DEF SamplingInv, SamplingAssumption
<1>2. next \in Nat /\ bufLen \in Nat /\ pos \in Nat /\ pos <= bufLen /\ bufLen <= next
  BY <1>1 DEF Typed, Window
<1>3. CASE kind = "matrix"
  <2>1. MatrixInv
    BY <1>3 DEF SamplingInv
  <2>2. ASSUME NEW i \in 1 .. Len(scanned), NEW k \in 1 .. 3 PROVE scanned[i][k] \in 0 .. next - 1
    <3>1. scanned[i] \in Triple
      BY <2>1, ElementOfSeq DEF MatrixInv, Matrix
    <3>2. scanned[i][1] \in Nat /\ scanned[i][2] \in Nat /\ scanned[i][3] \in Nat
      BY <3>1 DEF Triple
    <3>3. /\ scanned[i][1] < scanned[i][2] /\ scanned[i][2] < scanned[i][3]
          /\ scanned[i][3] < next - bufLen + pos
      BY <2>1 DEF MatrixInv
    <3>4. scanned[i][1] \in 0 .. next - 1 /\ scanned[i][2] \in 0 .. next - 1 /\ scanned[i][3] \in 0 .. next - 1
      BY <1>2, <3>2, <3>3
    <3>5. k = 1 \/ k = 2 \/ k = 3
      OBVIOUS
    <3> QED
      BY <3>4, <3>5
  <2>3. ReadsWhatWasSqueezed
    BY <2>1, <2>2 DEF ReadsWhatWasSqueezed, MatrixInv
  <2>4. EachByteOnce
    BY <2>1 DEF EachByteOnce, MatrixInv
  <2> QED
    BY <1>3, <2>3, <2>4 DEF SamplersReadTheStream, SecretFromTheStream
<1>4. CASE kind = "secret"
  <2>1. SecretInv
    BY <1>4 DEF SamplingInv
  <2>2. SecretFromTheStream /\ scanned \in Seq(Half)
    BY <2>1 DEF SecretInv, Secret
  <2>3. Len(coeffs) <= aLen
    <3>1. Len(scanned) \in Nat
      BY <2>2, LenProperties
    <3>2. Cardinality(Below(scanned, Len(scanned))) \in Nat
      BY <3>1, BelowFinite
    <3>3. Len(coeffs) = IF Cardinality(Below(scanned, Len(scanned))) < aLen
                        THEN Cardinality(Below(scanned, Len(scanned))) ELSE aLen
      BY <1>4, <2>2 DEF SecretFromTheStream, DrawnFrom
    <3> QED
      BY <1>1, <3>2, <3>3
  <2> QED
    BY <1>4, <2>2, <2>3 DEF SamplersReadTheStream, ReadsWhatWasSqueezed, EachByteOnce
<1> QED
  BY <1>1, <1>3, <1>4 DEF Typed

\* Over any number of refills combined_method reads only bytes that the sponge
\* gave and none twice, and poly_uniform_eta draws s1 and s2 as FIPS 204 says:
\* coefficient r is the r-th half of a byte of the stream that is below 15.
THEOREM SamplersKeepToTheStream == SamplingSpec => []SamplersReadTheStream
<1>0. SamplingAssumption
  BY SamplingParameters
<1>1. SamplingInit => SamplingInv
  BY <1>0, SamplingStarts
<1>2. SamplingInv /\ [SamplingNext]_samplingVars => SamplingInv'
  BY <1>0, SamplingStep
<1>3. SamplingInv => SamplersReadTheStream
  BY <1>0, SamplingInvSays
<1> QED
  BY <1>1, <1>2, <1>3, PTL DEF SamplingSpec
=============================================================================
