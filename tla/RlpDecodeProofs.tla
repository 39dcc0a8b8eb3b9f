-------------------------- MODULE RlpDecodeProofs --------------------------
(***************************************************************************)
(* For every set of inputs and every width of size_t: decode_ledger_tx     *)
(* stays inside its input and its arrays, the items of an accepted         *)
(* transaction fill the list, an accepted list is the one RLP encoding of  *)
(* its items, and no preimage of a legal transaction is refused.           *)
(***************************************************************************)
EXTENDS RlpDecode, TLAPS, SequenceTheorems

ItemRecord == [at : Nat, next : Nat, list : BOOLEAN, bytes : Seq(Byte)]

\* Named, because a hypothesis about Seq sends the SMT solver astray.
BytesIn == rlp \in Seq(Byte)

Typed ==
    /\ BytesIn
    /\ p \in Nat /\ remaining \in Nat /\ end \in Nat /\ seen \in Nat
    /\ field \in 0 .. 12
    /\ tx \in [Fields -> Seq(Byte)]
    /\ items \in Seq(ItemRecord)
    /\ status \in {"decoding", "accepted", "rejected"}

\* The items found so far follow each other and end at p.
Chained ==
    /\ field > 0 => Len(items) = field - 1
    /\ \A i \in 1 .. Len(items) - 1 : items[i].next = items[i + 1].at
    /\ Len(items) > 0 => items[Len(items)].next = p
    /\ end <= Len(rlp)

\* The decoder's inductive invariant: types, the bounds of MemorySafe, the
\* chain of items, and what an acceptance tested last.
DecodeInv ==
    /\ Typed
    /\ MemorySafe
    /\ field = 0 => Len(items) = 0
    /\ Chained
    /\ status = "accepted" => field = 12 /\ p = end

-----------------------------------------------------------------------------
(* What the two parsers return *)

\* A result that starts at q with n bytes behind q.
Sound(it, q, n) ==
    /\ it \in [ok : BOOLEAN, data : Nat, len : Nat, consumed : Nat, seen : Nat]
    /\ it.seen <= q + n
    /\ it.ok => /\ it.data >= q
                /\ it.data + it.len = q + it.consumed
                /\ it.consumed <= n

LEMMA AtIsByte ==
    ASSUME BytesIn, NEW i \in Nat
    PROVE  At(i) \in Byte
<1>1. CASE i < Len(rlp)
  <2>1. i + 1 \in 1 .. Len(rlp) /\ rlp \in [1 .. Len(rlp) -> Byte]
    BY <1>1, LenProperties DEF BytesIn
  <2>2. rlp[i + 1] \in Byte
    BY <2>1
  <2> QED
    BY <1>1, <2>2 DEF At
<1>2. CASE ~(i < Len(rlp))
  BY <1>2 DEF At, Byte, Left
<1> QED
  BY <1>1, <1>2

LEMMA LengthIsNat ==
    ASSUME BytesIn, NEW q \in Nat, NEW n \in 1 .. 8
    PROVE  LengthAt(q, n) \in Nat
<1> DEFINE first == IF n > SizeBytes THEN n - SizeBytes + 1 ELSE 1
           byte(i) == IF i >= first THEN At(q + i) ELSE 0
<1>1. \A i \in 1 .. n : byte(i) \in Nat
  <2> SUFFICES ASSUME NEW i \in 1 .. n
               PROVE  byte(i) \in Nat
    OBVIOUS
  <2>1. q + i \in Nat
    OBVIOUS
  <2>2. At(q + i) \in Byte
    BY <2>1, AtIsByte
  <2>3. At(q + i) \in Nat
    BY <2>2 DEF Byte
  <2> QED
    BY <2>3
<1>2. byte(n) \in Nat /\ (n > 1 => byte(n - 1) \in Nat)
  BY <1>1
<1> HIDE DEF byte
<1>3. byte(n) + (IF n > 1 THEN 256 * byte(n - 1) ELSE 0) \in Nat
  BY <1>2
<1> QED
  BY <1>3 DEF LengthAt, Huge, byte

LEMMA ShortFormSound ==
    ASSUME NEW q \in Nat, NEW n \in Nat, n > 0, NEW len \in Nat
    PROVE  Sound(ShortForm(q, n, len), q, n)
BY DEF Sound, ShortForm, Item, NoItem

LEMMA LongFormSound ==
    ASSUME BytesIn, NEW q \in Nat, NEW n \in Nat, n > 0, NEW k \in 1 .. 8
    PROVE  Sound(LongForm(q, n, k), q, n)
<1>1. LengthAt(q, k) \in Nat
  BY LengthIsNat
<1> QED
  BY <1>1 DEF Sound, LongForm, Item, NoItem

LEMMA ItemSound ==
    ASSUME BytesIn, NEW q \in Nat, NEW n \in Nat
    PROVE  Sound(parse_rlp_item(q, n), q, n)
<1>1. CASE n = 0
  BY <1>1 DEF parse_rlp_item, Sound, NoItem
<1>2. CASE n # 0
  <2>1. At(q) \in 0 .. 255
    BY AtIsByte DEF Byte
  <2>2. CASE At(q) <= 127
    BY <1>2, <2>1, <2>2 DEF parse_rlp_item, Sound, Item
  <2>3. CASE At(q) > 127 /\ At(q) <= 183
    <3> DEFINE it == ShortForm(q, n, At(q) - 128)
    <3>0. At(q) - 128 \in Nat /\ n > 0
      BY <1>2, <2>1, <2>3
    <3>1. Sound(it, q, n)
      BY <3>0, ShortFormSound
    <3>2. parse_rlp_item(q, n) =
             IF it.ok /\ it.len = 1
             THEN IF At(q + 1) < 128 THEN NoItem(q + 2) ELSE [it EXCEPT !.seen = q + 2]
             ELSE it
      BY <1>2, <2>1, <2>3 DEF parse_rlp_item
    <3>3. it.ok /\ it.len = 1 => q + 2 <= q + n /\ it.consumed = it.data + 1 - q
      BY <3>1, <2>1, <2>3 DEF Sound, ShortForm, Item, NoItem
    <3> HIDE DEF it
    <3> QED
      BY <3>1, <3>2, <3>3 DEF Sound, NoItem
  <2>4. CASE At(q) > 183 /\ At(q) <= 191
    <3>0. At(q) - 183 \in 1 .. 8 /\ n > 0
      BY <1>2, <2>1, <2>4
    <3>1. Sound(LongForm(q, n, At(q) - 183), q, n)
      BY <3>0, LongFormSound
    <3> QED
      BY <1>2, <2>1, <2>4, <3>1 DEF parse_rlp_item
  <2>5. CASE At(q) > 191 /\ At(q) <= 247
    <3>0. At(q) - 192 \in Nat /\ n > 0
      BY <1>2, <2>1, <2>5
    <3>1. Sound(ShortForm(q, n, At(q) - 192), q, n)
      BY <3>0, ShortFormSound
    <3> QED
      BY <1>2, <2>1, <2>5, <3>1 DEF parse_rlp_item
  <2>6. CASE At(q) > 247
    <3>0. At(q) - 247 \in 1 .. 8 /\ n > 0
      BY <1>2, <2>1, <2>6
    <3>1. Sound(LongForm(q, n, At(q) - 247), q, n)
      BY <3>0, LongFormSound
    <3> QED
      BY <1>2, <2>1, <2>6, <3>1 DEF parse_rlp_item
  <2> QED
    BY <2>1, <2>2, <2>3, <2>4, <2>5, <2>6
<1> QED
  BY <1>1, <1>2

LEMMA HeaderSound ==
    ASSUME BytesIn, NEW q \in Nat, NEW n \in Nat
    PROVE  Sound(parse_rlp_list_header(q, n), q, n)
<1>1. CASE n = 0
  BY <1>1 DEF parse_rlp_list_header, Sound, NoItem
<1>2. CASE n # 0
  <2>1. At(q) \in 0 .. 255
    BY AtIsByte DEF Byte
  <2>2. CASE At(q) < 192
    BY <1>2, <2>1, <2>2 DEF parse_rlp_list_header, Sound, NoItem
  <2>3. CASE At(q) >= 192 /\ At(q) <= 247
    <3>0. At(q) - 192 \in Nat /\ n > 0
      BY <1>2, <2>1, <2>3
    <3>1. Sound(ShortForm(q, n, At(q) - 192), q, n)
      BY <3>0, ShortFormSound
    <3> QED
      BY <1>2, <2>1, <2>3, <3>1 DEF parse_rlp_list_header
  <2>4. CASE At(q) > 247
    <3>0. At(q) - 247 \in 1 .. 8 /\ n > 0
      BY <1>2, <2>1, <2>4
    <3>1. Sound(LongForm(q, n, At(q) - 247), q, n)
      BY <3>0, LongFormSound
    <3> QED
      BY <1>2, <2>1, <2>4, <3>1 DEF parse_rlp_list_header
  <2> QED
    BY <2>1, <2>2, <2>3, <2>4
<1> QED
  BY <1>1, <1>2

LEMMA ContentIsBytes ==
    ASSUME BytesIn, NEW it, it.data \in Nat, it.len \in Nat
    PROVE  Content(it) \in Seq(Byte) /\ Len(Content(it)) = it.len
<1>1. ASSUME NEW i \in 1 .. it.len
      PROVE  At(it.data + i - 1) \in Byte
  <2>1. it.data + i - 1 \in Nat
    OBVIOUS
  <2> QED
    BY <2>1, AtIsByte
<1>2. Content(it) \in [1 .. it.len -> Byte]
  BY <1>1 DEF Content
<1>3. Content(it) \in Seq(Byte)
  BY <1>2, SeqDef
<1>4. DOMAIN Content(it) = 1 .. it.len /\ DOMAIN Content(it) = 1 .. Len(Content(it))
  BY <1>2, <1>3, LenProperties
<1> QED
  BY <1>3, <1>4, LenProperties

-----------------------------------------------------------------------------
(* The inductive invariant *)

\* A copy that fits the array of the field.
Fits(copy, f) == copy \in Seq(Byte) /\ Len(copy) <= Capacity(f)

LEMMA RejectKeeps ==
    ASSUME DecodeInv, NEW s \in Nat, s <= Len(rlp), Reject(s),
           status = "decoding"
    PROVE  DecodeInv'
<1>1. Len(rlp) \in Nat
  BY LenProperties DEF DecodeInv, Typed, BytesIn
<1>2. MaxOf(seen, s) \in Nat /\ MaxOf(seen, s) <= Len(rlp)
  BY <1>1 DEF DecodeInv, Typed, MemorySafe, MaxOf
<1>3. Typed'
  BY <1>2 DEF DecodeInv, Typed, BytesIn, Reject
<1>4. MemorySafe'
  BY <1>2 DEF DecodeInv, MemorySafe, Reject
<1>5. Chained'
  BY DEF DecodeInv, Chained, Reject
<1> QED
  BY <1>3, <1>4, <1>5 DEF DecodeInv, Reject

LEMMA Advance ==
    ASSUME NEW a \in Nat, NEW b \in Nat, NEW c \in Nat, c <= b
    PROVE  a + c \in Nat /\ b - c \in Nat /\ (a + c) + (b - c) = a + b
OBVIOUS

LEMMA TakeKeeps ==
    ASSUME DecodeInv, NEW it, Sound(it, p, remaining), it.ok,
           NEW copy, Fits(copy, field), field \in Fields,
           NEW s \in Nat, s <= Len(rlp), Take(it, copy),
           seen' = MaxOf(seen, s), status = "decoding"
    PROVE  DecodeInv'
<1>0. Typed /\ MemorySafe /\ Chained
  BY DEF DecodeInv
<1>1. Len(rlp) \in Nat
  BY <1>0, LenProperties DEF Typed, BytesIn
<1>2. it.data \in Nat /\ it.len \in Nat /\ it.consumed \in Nat /\ it.consumed <= remaining
  BY DEF Sound
<1>3. /\ p' \in Nat /\ remaining' \in Nat /\ p' + remaining' = Len(rlp)
      /\ p' = p + it.consumed
  <2>1. /\ p \in Nat /\ remaining \in Nat /\ p + remaining = Len(rlp)
        /\ p' = p + it.consumed /\ remaining' = remaining - it.consumed
    BY <1>0 DEF Typed, MemorySafe, Take
  <2>2. /\ p + it.consumed \in Nat /\ remaining - it.consumed \in Nat
        /\ (p + it.consumed) + (remaining - it.consumed) = p + remaining
    BY <1>2, <2>1, Advance
  <2> QED
    BY <2>1, <2>2, Zenon
<1>4. seen' \in Nat /\ seen' <= Len(rlp)
  BY <1>0, <1>1 DEF Typed, MemorySafe, MaxOf
<1> DEFINE r == [at |-> p, next |-> p + it.consumed,
                 list |-> At(p) >= 192, bytes |-> Content(it)]
<1>5. r \in ItemRecord
  <2>1. p \in Nat /\ p + it.consumed \in Nat /\ BytesIn
    BY <1>0, <1>2 DEF Typed
  <2>2. Content(it) \in Seq(Byte)
    BY <1>2, <2>1, ContentIsBytes
  <2>3. (At(p) >= 192) \in BOOLEAN
    OBVIOUS
  <2> QED
    BY <2>1, <2>2, <2>3 DEF ItemRecord
<1>6. items' = Append(items, r)
  BY DEF Take
<1>7. r.at = p /\ r.next = p'
  BY <1>3
<1> HIDE DEF r
<1>8. /\ items' \in Seq(ItemRecord) /\ Len(items') = Len(items) + 1
      /\ Len(items) \in Nat
      /\ \A i \in 1 .. Len(items) : items'[i] = items[i]
      /\ items'[Len(items) + 1] = r
  BY <1>5, <1>6, <1>0, AppendProperties, LenProperties DEF Typed
<1>9. tx' \in [Fields -> Seq(Byte)]
  BY <1>0 DEF Typed, Fits, Take
<1>10. \A f \in Fields : Len(tx'[f]) <= Capacity(f)
  BY <1>0 DEF Typed, MemorySafe, Fits, Take
<1>11. field' \in 0 .. 12 /\ field' = field + 1 /\ field > 0 /\ field' # 0
  BY DEF Take, Fields
<1>12. Typed'
  BY <1>3, <1>4, <1>8, <1>9, <1>11, <1>0 DEF Typed, BytesIn, Take
<1>13. MemorySafe'
  BY <1>3, <1>4, <1>10, <1>0 DEF MemorySafe, Take
<1>14. Chained'
  <2>1. \A i \in 1 .. Len(items') - 1 : items'[i].next = items'[i + 1].at
    <3> SUFFICES ASSUME NEW i \in 1 .. Len(items') - 1
                 PROVE  items'[i].next = items'[i + 1].at
      OBVIOUS
    <3>1. CASE i < Len(items)
      <4>1. i \in 1 .. Len(items) - 1 /\ i \in 1 .. Len(items) /\ i + 1 \in 1 .. Len(items)
        BY <3>1, <1>8
      <4> QED
        BY <1>0, <4>1, <1>8 DEF Chained
    <3>2. CASE i = Len(items)
      <4>1. i \in 1 .. Len(items) /\ Len(items) > 0
        BY <3>2, <1>8
      <4> QED
        BY <3>2, <4>1, <1>7, <1>8, <1>0 DEF Chained
    <3> QED
      BY <3>1, <3>2, <1>8
  <2>2. items'[Len(items')].next = p'
    BY <1>7, <1>8
  <2>3. Len(items') = field' - 1
    BY <1>0, <1>8, <1>11 DEF Chained, Typed
  <2> QED
    BY <1>0, <2>1, <2>2, <2>3 DEF Chained, Take
<1>15. field' # 0 /\ status' = "decoding"
  BY <1>11, Zenon DEF Take
<1> QED
  BY <1>12, <1>13, <1>14, <1>15 DEF DecodeInv

LEMMA ItemsAreSound ==
    ASSUME DecodeInv
    PROVE  /\ Sound(parse_rlp_item(p, remaining), p, remaining)
           /\ p + remaining = Len(rlp) /\ p \in Nat /\ remaining \in Nat /\ BytesIn
BY ItemSound DEF DecodeInv, Typed, MemorySafe

\* One step keeps the invariant: each field either rejects, having read
\* inside the input, or takes a sound item and a copy that fits.
LEMMA StepKeeps ==
    ASSUME DecodeInv, Next
    PROVE  DecodeInv'
<1> DEFINE it == parse_rlp_item(p, remaining)
<1>1. /\ Sound(it, p, remaining) /\ BytesIn
      /\ p + remaining = Len(rlp) /\ p \in Nat /\ remaining \in Nat
  BY ItemsAreSound
<1>2. /\ it.seen \in Nat /\ it.seen <= Len(rlp)
      /\ it.data \in Nat /\ it.len \in Nat
      /\ it.ok => it.data + it.len <= Len(rlp)
  BY <1>1 DEF Sound
<1>3. Content(it) \in Seq(Byte) /\ Len(Content(it)) = it.len
  BY <1>1, <1>2, ContentIsBytes
<1>4. Len(rlp) \in Nat
  BY <1>1
<1> HIDE DEF it
<1>5. ASSUME status = "decoding", field \in Fields, it.ok,
             NEW copy, Fits(copy, field), Copy(it, copy)
      PROVE  DecodeInv'
  <2>1. it.data + it.len \in Nat /\ it.data + it.len <= Len(rlp)
    BY <1>2, <1>5
  <2>2. Take(it, copy) /\ seen' = MaxOf(seen, it.data + it.len)
    BY <1>5 DEF Copy
  <2> QED
    BY <1>1, <1>5, <2>1, <2>2, TakeKeeps
<1>6. ASSUME status = "decoding", field \in Fields, it.ok,
             NEW copy, Fits(copy, field), Skip(it, copy)
      PROVE  DecodeInv'
  <2>1. Take(it, copy) /\ seen' = MaxOf(seen, it.seen)
    BY <1>6 DEF Skip
  <2> QED
    BY <1>1, <1>2, <1>6, <2>1, TakeKeeps
<1>7. CASE Start
  <2>0. status = "decoding" /\ field = 0
    BY <1>7 DEF Start
  <2>1. CASE Len(rlp) = 0
    BY <1>4, <1>7, <2>0, <2>1, RejectKeeps DEF Start
  <2>2. CASE Len(rlp) # 0 /\ At(0) # 2
    <3>1. Reject(1) /\ 1 <= Len(rlp) /\ 1 \in Nat
      BY <1>4, <1>7, <2>2 DEF Start
    <3> QED
      BY <3>1, <2>0, RejectKeeps
  <2>3. CASE Len(rlp) # 0 /\ At(0) = 2
    <3> DEFINE header == parse_rlp_list_header(1, Len(rlp) - 1)
    <3>1. Len(rlp) - 1 \in Nat
      BY <1>4, <2>3
    <3>2. Sound(header, 1, Len(rlp) - 1)
      BY <1>1, <3>1, HeaderSound
    <3>3. /\ header.seen \in Nat /\ header.seen <= Len(rlp)
          /\ header.data \in Nat /\ header.len \in Nat
          /\ header.ok => header.data + header.len <= Len(rlp) /\ header.data > 0
      BY <1>4, <3>1, <3>2 DEF Sound
    <3>4. IF ~header.ok THEN Reject(header.seen)
          ELSE /\ p' = header.data
               /\ end' = header.data + header.len
               /\ remaining' = Len(rlp) - header.data
               /\ seen' = MaxOf(seen, header.seen)
               /\ field' = 1
               /\ UNCHANGED <<rlp, tx, items, status>>
      BY <1>7, <2>3 DEF Start
    <3> HIDE DEF header
    <3>5. CASE ~header.ok
      BY <2>0, <3>3, <3>4, <3>5, RejectKeeps
    <3>6. CASE header.ok
      <4>1. /\ p' \in Nat /\ end' \in Nat /\ remaining' \in Nat /\ p' + remaining' = Len(rlp)
            /\ end' <= Len(rlp)
        BY <1>4, <3>3, <3>4, <3>6
      <4>2. seen' \in Nat /\ seen' <= Len(rlp)
        BY <3>3, <3>4, <3>6 DEF DecodeInv, Typed, MemorySafe, MaxOf
      <4>3. /\ field' = 1 /\ field' \in 0 .. 12 /\ field' # 0
            /\ UNCHANGED <<rlp, tx, items, status>>
        BY <3>4, <3>6
      <4>4. Typed'
        BY <4>1, <4>2, <4>3 DEF DecodeInv, Typed, BytesIn
      <4>5. MemorySafe'
        BY <4>1, <4>2, <4>3 DEF DecodeInv, MemorySafe
      <4>6. Len(items) = 0
        BY <2>0 DEF DecodeInv
      <4>7. Chained'
        BY <4>1, <4>3, <4>6 DEF Chained
      <4> QED
        BY <2>0, <4>3, <4>4, <4>5, <4>7 DEF DecodeInv
    <3> QED
      BY <3>5, <3>6
  <2> QED
    BY <2>1, <2>2, <2>3
<1>8. CASE Scalar
  <2>0. status = "decoding" /\ field \in ScalarFields /\ field \in Fields
    BY <1>8 DEF Scalar, ScalarFields, Fields
  <2>1. IF ~it.ok \/ it.len > Capacity(field) THEN Reject(it.seen)
        ELSE IF it.len > 0 /\ At(it.data) = 0 THEN Reject(it.data + 1)
        ELSE Copy(it, Content(it))
    BY <1>8 DEF Scalar, it
  <2>2. CASE ~it.ok \/ it.len > Capacity(field)
    BY <1>2, <2>0, <2>1, <2>2, RejectKeeps
  <2>3. CASE it.ok /\ ~(it.len > Capacity(field)) /\ it.len > 0 /\ At(it.data) = 0
    <3>1. it.data + 1 \in Nat /\ it.data + 1 <= Len(rlp) /\ Reject(it.data + 1)
      BY <1>2, <1>4, <2>1, <2>3
    <3> QED
      BY <2>0, <3>1, RejectKeeps
  <2>4. CASE it.ok /\ ~(it.len > Capacity(field)) /\ ~(it.len > 0 /\ At(it.data) = 0)
    <3>1. Copy(it, Content(it))
      BY <2>1, <2>4
    <3>2. Capacity(field) \in Nat
      BY <2>0 DEF Capacity, ScalarFields, MAX_FIELD_SIZE, ADDRESS_LENGTH
    <3>3. Fits(Content(it), field)
      BY <1>2, <1>3, <2>4, <3>2 DEF Fits
    <3> QED
      BY <1>5, <2>0, <2>4, <3>1, <3>3
  <2> QED
    BY <2>2, <2>3, <2>4
<1>9. CASE To
  <2>0. status = "decoding" /\ field = ToField /\ field \in Fields
    BY <1>9 DEF To, ToField, Fields
  <2>1. IF ~it.ok \/ it.len \notin {ADDRESS_LENGTH, 0} THEN Reject(it.seen)
        ELSE Copy(it, IF it.len = 0 THEN ZeroAddress ELSE Content(it))
    BY <1>9 DEF To, it
  <2>2. CASE ~it.ok \/ it.len \notin {ADDRESS_LENGTH, 0}
    BY <1>2, <2>0, <2>1, <2>2, RejectKeeps
  <2>3. CASE it.ok /\ it.len \in {ADDRESS_LENGTH, 0}
    <3> DEFINE copy == IF it.len = 0 THEN ZeroAddress ELSE Content(it)
    <3>1. Copy(it, copy)
      BY <2>1, <2>3
    <3>2. Capacity(field) = 64
      BY <2>0 DEF Capacity, ToField, ADDRESS_LENGTH
    <3>3. ZeroAddress \in [1 .. 64 -> Byte]
      BY DEF ZeroAddress, ADDRESS_LENGTH, Byte
    <3>4. ZeroAddress \in Seq(Byte) /\ Len(ZeroAddress) = 64
      <4>1. ZeroAddress \in Seq(Byte)
        BY <3>3, SeqDef
      <4>2. DOMAIN ZeroAddress = 1 .. 64 /\ DOMAIN ZeroAddress = 1 .. Len(ZeroAddress)
        BY <3>3, <4>1, LenProperties
      <4> QED
        BY <4>1, <4>2, LenProperties
    <3>5. Fits(copy, field)
      <4>1. copy \in Seq(Byte) /\ Len(copy) = 64
        <5>1. CASE it.len = 0
          BY <3>4, <5>1, Zenon
        <5>2. CASE it.len # 0
          <6>1. it.len = 64
            BY <2>3, <5>2 DEF ADDRESS_LENGTH
          <6> QED
            BY <1>3, <5>2, <6>1, Zenon
        <5> QED
          BY <5>1, <5>2
      <4>2. 64 <= 64
        OBVIOUS
      <4> HIDE DEF copy
      <4> QED
        BY <3>2, <4>1, <4>2, Zenon DEF Fits
    <3> HIDE DEF copy
    <3> QED
      BY <1>5, <2>0, <2>3, <3>1, <3>5
  <2> QED
    BY <2>2, <2>3
<1>10. CASE Opaque
  <2>0. status = "decoding" /\ field \in {DataField, AccessListField} /\ field \in Fields
    BY <1>10 DEF Opaque, DataField, AccessListField, Fields
  <2>1. IF remaining = 0 THEN Reject(p)
        ELSE IF (At(p) >= 192) # (field = AccessListField) THEN Reject(p + 1)
        ELSE IF ~it.ok THEN Reject(it.seen)
             ELSE Skip(it, <<IF it.len # 0 THEN 1 ELSE 0>>)
    BY <1>10 DEF Opaque, it
  <2>2. CASE remaining = 0
    BY <1>1, <2>0, <2>1, <2>2, RejectKeeps
  <2>3. CASE remaining # 0 /\ Reject(p + 1)
    <3>1. p + 1 \in Nat /\ p + 1 <= Len(rlp)
      BY <1>1, <2>3
    <3> QED
      BY <2>0, <2>3, <3>1, RejectKeeps
  <2>4. CASE Reject(it.seen)
    BY <1>2, <2>0, <2>4, RejectKeeps
  <2>5. CASE it.ok /\ Skip(it, <<IF it.len # 0 THEN 1 ELSE 0>>)
    <3> DEFINE copy == <<IF it.len # 0 THEN 1 ELSE 0>>
    <3>1. Capacity(field) = 1
      BY <2>0 DEF Capacity, DataField, AccessListField
    <3>2. (IF it.len # 0 THEN 1 ELSE 0) \in Byte
      BY DEF Byte
    <3>3. copy \in Seq(Byte) /\ Len(copy) = 1
      BY <3>2
    <3>4. Fits(copy, field)
      BY <3>1, <3>3 DEF Fits
    <3> HIDE DEF copy
    <3>5. Skip(it, copy)
      BY <2>5 DEF copy
    <3> QED
      BY <1>6, <2>0, <2>5, <3>4, <3>5
  <2> QED
    BY <2>1, <2>2, <2>3, <2>4, <2>5
<1>11. CASE Descriptor
  <2>0. status = "decoding" /\ field = DescriptorField /\ field \in Fields
    BY <1>11 DEF Descriptor, DescriptorField, Fields
  <2>1. IF ~it.ok \/ it.len # 3 THEN Reject(it.seen)
        ELSE IF Content(it) # MLDSA87Descriptor THEN Reject(it.data + 3)
        ELSE Copy(it, Content(it))
    BY <1>11 DEF Descriptor, it
  <2>2. CASE ~it.ok \/ it.len # 3
    BY <1>2, <2>0, <2>1, <2>2, RejectKeeps
  <2>3. CASE it.ok /\ it.len = 3 /\ Content(it) # MLDSA87Descriptor
    <3>1. it.data + 3 \in Nat /\ it.data + 3 <= Len(rlp) /\ Reject(it.data + 3)
      BY <1>2, <1>4, <2>1, <2>3
    <3> QED
      BY <2>0, <3>1, RejectKeeps
  <2>4. CASE it.ok /\ it.len = 3 /\ Content(it) = MLDSA87Descriptor
    <3>1. Copy(it, Content(it))
      BY <2>1, <2>4
    <3>2. Capacity(field) = 3
      BY <2>0 DEF Capacity, DescriptorField
    <3>3. Fits(Content(it), field)
      BY <1>3, <2>4, <3>2 DEF Fits
    <3> QED
      BY <1>5, <2>0, <2>4, <3>1, <3>3
  <2> QED
    BY <2>2, <2>3, <2>4
<1>12. CASE ExtraParams
  <2>0. status = "decoding" /\ field = ExtraParamsField /\ field \in Fields
    BY <1>12 DEF ExtraParams, ExtraParamsField, Fields
  <2>1. IF ~it.ok \/ it.len # 0 THEN Reject(it.seen) ELSE Skip(it, <<>>)
    BY <1>12 DEF ExtraParams, it
  <2>2. CASE ~it.ok \/ it.len # 0
    BY <1>2, <2>0, <2>1, <2>2, RejectKeeps
  <2>3. CASE it.ok /\ it.len = 0
    <3>1. Capacity(field) = 1
      BY <2>0 DEF Capacity, ExtraParamsField
    <3>2. Fits(<<>>, field)
      BY <3>1 DEF Fits
    <3> QED
      BY <1>6, <2>0, <2>1, <2>3, <3>2
  <2> QED
    BY <2>2, <2>3
<1>13. CASE Finish
  <2>1. Typed'
    BY <1>13 DEF DecodeInv, Typed, BytesIn, Finish
  <2>2. MemorySafe' /\ Chained'
    BY <1>13 DEF DecodeInv, MemorySafe, Chained, Finish
  <2> QED
    BY <1>13, <2>1, <2>2 DEF DecodeInv, Finish
<1> QED
  BY <1>7, <1>8, <1>9, <1>10, <1>11, <1>12, <1>13 DEF Next

-----------------------------------------------------------------------------
(* The theorems *)

\* Whatever the host sends, the decoder reads inside the input, keeps p and
\* remaining in step and copies no more than the arrays of zond_tx_t hold: with
\* a size_t of four bytes, in which lengths lose their upper bytes, as well.
THEOREM DecodeCorrect == Spec => []DecodeInv
<1>1. Init => DecodeInv
  <2> SUFFICES ASSUME Init
               PROVE  DecodeInv
    OBVIOUS
  <2>1. rlp \in Seq(Byte)
    BY InputsAreBytes DEF Init
  <2>2. Len(rlp) \in Nat
    BY <2>1, LenProperties
  <2>3. tx \in [Fields -> Seq(Byte)] /\ items \in Seq(ItemRecord) /\ Len(items) = 0
    BY DEF Init
  <2>4. Typed
    BY <2>1, <2>2, <2>3 DEF Init, Typed, BytesIn
  <2>5. \A f \in Fields : Len(tx[f]) <= Capacity(f)
    BY DEF Init, Fields, Capacity, MAX_FIELD_SIZE, ADDRESS_LENGTH
  <2>6. MemorySafe
    BY <2>2, <2>5 DEF Init, MemorySafe
  <2>7. Chained
    BY <2>2, <2>3 DEF Init, Chained
  <2> QED
    BY <2>3, <2>4, <2>6, <2>7 DEF Init, DecodeInv
<1>2. DecodeInv /\ [Next]_vars => DecodeInv'
  <2> SUFFICES ASSUME DecodeInv, [Next]_vars
               PROVE  DecodeInv'
    OBVIOUS
  <2>1. CASE Next
    BY <2>1, StepKeeps
  <2>2. CASE UNCHANGED vars
    BY <2>2 DEF vars, DecodeInv, Typed, BytesIn, MemorySafe, Chained
  <2> QED
    BY <2>1, <2>2
<1> QED
  BY <1>1, <1>2, PTL DEF Spec

\* The bounds of decode_ledger_tx hold for every input.
THEOREM DecodesInBounds == Spec => []MemorySafe
<1>1. DecodeInv => MemorySafe
  BY DEF DecodeInv
<1> QED
  BY <1>1, DecodeCorrect, PTL

\* In every transaction decode_ledger_tx accepts, the eleven items tile the
\* list: no byte of it escapes the decoder.
THEOREM AcceptedItemsFillTheList == Spec => []ItemsFillTheList
<1>1. DecodeInv => ItemsFillTheList
  <2> SUFFICES ASSUME DecodeInv, status = "accepted"
               PROVE  /\ Len(items) = 11
                      /\ items[11].next = end /\ end <= Len(rlp)
                      /\ \A i \in 1 .. 10 : items[i].next = items[i + 1].at
    BY DEF ItemsFillTheList
  <2>1. field = 12 /\ p = end /\ Chained
    BY DEF DecodeInv
  <2>2. Len(items) = 11
    BY <2>1 DEF Chained
  <2> QED
    BY <2>1, <2>2 DEF Chained
<1> QED
  BY <1>1, DecodeCorrect, PTL


-----------------------------------------------------------------------------
(* Pieces of the input *)

\* The bytes from offset a up to b.
Piece(a, b) == SubSeq(rlp, a + 1, b)

LEMMA PieceIs ==
    ASSUME BytesIn, NEW a \in Nat, NEW b \in Nat, a <= b, b <= Len(rlp)
    PROVE  /\ Piece(a, b) \in Seq(Byte)
           /\ Len(Piece(a, b)) = b - a
           /\ \A i \in 1 .. b - a : Piece(a, b)[i] = At(a + i - 1)
<1>1. Len(rlp) \in Nat
  BY LenProperties DEF BytesIn
<1>2. \A i \in a + 1 .. b : rlp[i] \in Byte
  <2> SUFFICES ASSUME NEW i \in a + 1 .. b
               PROVE  rlp[i] \in Byte
    OBVIOUS
  <2>1. i \in 1 .. Len(rlp)
    BY <1>1
  <2> QED
    BY <2>1, ElementOfSeq DEF BytesIn
<1>3. a + 1 \in Int /\ b \in Int
  OBVIOUS
<1>4. /\ Piece(a, b) \in Seq(Byte)
      /\ Len(Piece(a, b)) = IF a + 1 <= b THEN b - (a + 1) + 1 ELSE 0
      /\ \A i \in 1 .. b - (a + 1) + 1 : Piece(a, b)[i] = rlp[(a + 1) + i - 1]
  BY <1>2, <1>3, SubSeqProperties DEF Piece
<1>5. Len(Piece(a, b)) = b - a
  BY <1>4
<1>6. ASSUME NEW i \in 1 .. b - a
      PROVE  Piece(a, b)[i] = At(a + i - 1)
  <2>1. i \in 1 .. b - (a + 1) + 1 /\ (a + 1) + i - 1 = (a + i - 1) + 1 /\ a + i - 1 < Len(rlp)
    BY <1>1
  <2> QED
    BY <1>4, <2>1 DEF At
<1> QED
  BY <1>4, <1>5, <1>6

LEMMA Glue ==
    ASSUME BytesIn, NEW a \in Nat, NEW b \in Nat, NEW c \in Nat, a <= b, b <= c, c <= Len(rlp)
    PROVE  Piece(a, b) \o Piece(b, c) = Piece(a, c)
<1>1. Len(rlp) \in Nat
  BY LenProperties DEF BytesIn
<1>2. a + 1 \in 1 .. Len(rlp) + 1 /\ b \in (a + 1) - 1 .. Len(rlp) /\ c \in b .. Len(rlp)
  BY <1>1
<1> QED
  BY <1>2, ConcatAdjacentSubSeq DEF Piece, BytesIn

\* A piece is what its bytes say.
LEMMA PieceOf ==
    ASSUME BytesIn, NEW q \in Nat, NEW s \in Seq(Byte), q + Len(s) <= Len(rlp),
           \A i \in 1 .. Len(s) : s[i] = At(q + i - 1)
    PROVE  Piece(q, q + Len(s)) = s
<1>1. Len(s) \in Nat
  BY LenProperties
<1>2. q + Len(s) \in Nat /\ q <= q + Len(s) /\ (q + Len(s)) - q = Len(s)
  BY <1>1
<1>3. /\ Piece(q, q + Len(s)) \in Seq(Byte) /\ Len(Piece(q, q + Len(s))) = Len(s)
      /\ \A i \in 1 .. Len(s) : Piece(q, q + Len(s))[i] = At(q + i - 1)
  BY <1>2, PieceIs
<1>4. \A i \in 1 .. Len(Piece(q, q + Len(s))) : Piece(q, q + Len(s))[i] = s[i]
  BY <1>3
<1> QED
  BY <1>3, <1>4, SeqEqual

\* The same for two parts.
LEMMA PieceOfTwo ==
    ASSUME BytesIn, NEW q \in Nat, NEW s \in Seq(Byte), NEW t \in Seq(Byte),
           q + Len(s) + Len(t) <= Len(rlp),
           \A i \in 1 .. Len(s) : s[i] = At(q + i - 1),
           \A i \in 1 .. Len(t) : t[i] = At(q + Len(s) + i - 1)
    PROVE  Piece(q, q + Len(s) + Len(t)) = s \o t
<1>1. Len(s) \in Nat /\ Len(t) \in Nat /\ Len(rlp) \in Nat
  BY LenProperties DEF BytesIn
<1> DEFINE r == q + Len(s)
<1>2. r \in Nat /\ r + Len(t) \in Nat /\ q <= r /\ r <= r + Len(t) /\ r <= Len(rlp)
  BY <1>1
<1>3. Piece(q, r) = s
  BY <1>2, PieceOf
<1>4. Piece(r, r + Len(t)) = t
  BY <1>2, PieceOf
<1>5. Piece(q, r) \o Piece(r, r + Len(t)) = Piece(q, r + Len(t))
  BY <1>2, Glue
<1> QED
  BY <1>3, <1>4, <1>5
-----------------------------------------------------------------------------
(* Length fields *)

\* The input is shorter than Huge.
Short == BytesIn /\ Len(rlp) \in Nat /\ Len(rlp) < Huge

\* The n bytes after offset q are in the input.
Room(q, n) == q + n <= Len(rlp)

\* All the proofs need of Huge.
LEMMA HugeIs ==
    /\ Huge \in Nat /\ 256 < Huge
    /\ \A n \in Nat : n < Huge => n \div 256 \in 0 .. 255 /\ n % 256 \in 0 .. 255
<1>1. Huge \in Nat /\ 256 < Huge
  BY DEF Huge
<1>2. \A n \in Nat : n < 65536 => n \div 256 <= 255
  OBVIOUS
<1>3. \A n \in Nat : n \div 256 \in Nat
  OBVIOUS
<1>4. \A n \in Nat : n % 256 \in 0 .. 255
  OBVIOUS
<1>5. \A n \in Nat : n < Huge => n \div 256 \in 0 .. 255
  BY <1>2, <1>3 DEF Huge
<1> QED
  BY <1>1, <1>4, <1>5

LEMMA TwoBytes ==
    ASSUME NEW x \in Nat, NEW y \in 0 .. 255
    PROVE  /\ (y + 256 * x) \div 256 = x /\ (y + 256 * x) % 256 = y
           /\ x # 0 => y + 256 * x >= 256
<1>3. x # 0 => y + 256 * x >= 256
  OBVIOUS
<1>1. (y + 256 * x) \div 256 = x
  OBVIOUS
<1>2. (y + 256 * x) % 256 = y
  OBVIOUS
<1> QED
  BY <1>1, <1>2, <1>3

LEMMA LengthOfTwo ==
    ASSUME BytesIn, NEW q \in Nat
    PROVE  LengthAt(q, 1) = At(q + 1) /\ LengthAt(q, 2) = At(q + 2) + 256 * At(q + 1)
<1>1. At(q + 1) \in Nat /\ At(q + 2) \in Nat
  BY AtIsByte DEF Byte
<1>2. ~(1 > SizeBytes) /\ ~(2 > SizeBytes)
  BY SizeIsWide
<1>3. LengthAt(q, 1) = At(q + 1)
  BY <1>1, <1>2 DEF LengthAt
<1>4. LengthAt(q, 2) = At(q + 2) + 256 * At(q + 1)
  BY <1>1, <1>2 DEF LengthAt
<1> QED
  BY <1>3, <1>4

LEMMA LengthOfMore ==
    ASSUME NEW q \in Nat, NEW k \in 3 .. 8, k <= SizeBytes, At(q + 1) # 0
    PROVE  LengthAt(q, k) = Huge
<1>1. ~(k > SizeBytes) /\ 1 \in 1 .. k - 2
  BY SizeIsWide
<1> QED
  BY <1>1 DEF LengthAt

\* What Prefix is, as a sequence.
LEMMA PrefixIs ==
    ASSUME NEW base \in {128, 192}, NEW n \in Nat, n < Huge
    PROVE  /\ Prefix(base, n) \in Seq(Byte)
           /\ n < 56 => Len(Prefix(base, n)) = 1 /\ Prefix(base, n)[1] = base + n
           /\ n >= 56 /\ n < 256 =>
                /\ Len(Prefix(base, n)) = 2
                /\ Prefix(base, n)[1] = base + 56 /\ Prefix(base, n)[2] = n
           /\ n >= 256 =>
                /\ Len(Prefix(base, n)) = 3
                /\ Prefix(base, n)[1] = base + 57
                /\ Prefix(base, n)[2] = n \div 256 /\ Prefix(base, n)[3] = n % 256
<1>1. CASE n < 56
  <2>1. base + n \in Byte /\ Prefix(base, n) = <<base + n>> /\ ~(n >= 56) /\ ~(n >= 256)
    BY <1>1 DEF Prefix, Byte
  <2> QED
    BY <1>1, <2>1
<1>2. CASE n >= 56 /\ n < 256
  <2>1. /\ base + 56 \in Byte /\ n \in Byte /\ Prefix(base, n) = <<base + 56, n>>
        /\ ~(n < 56) /\ ~(n >= 256)
    BY <1>2 DEF Prefix, Byte
  <2> QED
    BY <1>2, <2>1
<1>3. CASE n >= 256
  <2>1. n \div 256 \in Byte /\ n % 256 \in Byte
    BY <1>3, HugeIs DEF Byte
  <2>2. /\ base + 57 \in Byte /\ Prefix(base, n) = <<base + 57, n \div 256, n % 256>>
        /\ ~(n < 56) /\ ~(n < 256)
    BY <1>3 DEF Prefix, Byte
  <2> QED
    BY <1>3, <2>1, <2>2
<1> QED
  BY <1>1, <1>2, <1>3

\* The bytes before the content of an item are the prefix of its length.
Prefixed(it, q, base) ==
    /\ Prefix(base, it.len) \in Seq(Byte)
    /\ Len(Prefix(base, it.len)) = it.data - q
    /\ \A i \in 1 .. it.data - q : Prefix(base, it.len)[i] = At(q + i - 1)

LEMMA ShortFormPrefixed ==
    ASSUME BytesIn, NEW q \in Nat, NEW n \in Nat, NEW base \in {128, 192}, NEW len \in 0 .. 55,
           At(q) = base + len, ShortForm(q, n, len).ok
    PROVE  Prefixed(ShortForm(q, n, len), q, base)
<1> DEFINE it == ShortForm(q, n, len)
<1>1. it.len = len /\ it.data = q + 1
  BY DEF ShortForm, Item, NoItem
<1>2. len \in Nat /\ len < Huge /\ len < 56
  BY HugeIs
<1>3. /\ Prefix(base, len) \in Seq(Byte) /\ Len(Prefix(base, len)) = 1
      /\ Prefix(base, len)[1] = base + len
  BY <1>2, PrefixIs
<1>4. ASSUME NEW i \in 1 .. 1 PROVE Prefix(base, len)[i] = At(q + i - 1)
  <2>1. i = 1 /\ q + i - 1 = q
    OBVIOUS
  <2> QED
    BY <1>3, <2>1
<1> HIDE DEF it
<1>5. it.data - q = 1
  BY <1>1
<1>6. Prefixed(it, q, base)
  BY <1>1, <1>3, <1>4, <1>5 DEF Prefixed
<1> QED
  BY <1>6 DEF it

LEMMA LongFormPrefixed ==
    ASSUME Short, NEW q \in Nat, NEW n \in Nat, Room(q, n),
           NEW base \in {128, 192}, NEW k \in 1 .. 8, k <= SizeBytes,
           At(q) = base + 55 + k, LongForm(q, n, k).ok
    PROVE  /\ Prefixed(LongForm(q, n, k), q, base)
           /\ LongForm(q, n, k).len >= 56
<1> DEFINE it == LongForm(q, n, k)
           len == LengthAt(q, k)
<1>0. BytesIn /\ Len(rlp) \in Nat /\ Len(rlp) < Huge
  BY DEF Short
<1>2. len \in Nat
  BY <1>0, LengthIsNat
<1>1. /\ it.len = len /\ it.data = q + 1 + k /\ At(q + 1) # 0
      /\ ~(k > n - 1) /\ ~(len > n - 1 - k) /\ ~(len < 56)
  <2> HIDE DEF len
  <2>1. /\ ~(k > n - 1) /\ At(q + 1) # 0 /\ ~(len > n - 1 - k \/ len < 56)
    BY DEF LongForm, NoItem, len
  <2>2. it = Item(q, 1 + k, len, q + 1 + k)
    BY <2>1 DEF LongForm, len
  <2>3. it.len = len /\ it.data = q + (1 + k)
    BY <2>2 DEF Item
  <2> QED
    BY <2>1, <2>3
<1> HIDE DEF len, it
<1>3. len < Huge /\ len >= 56
  BY <1>0, <1>1, <1>2, HugeIs DEF Room
<1>4. k = 1 \/ k = 2
  <2> SUFFICES ASSUME k \in 3 .. 8
               PROVE  FALSE
    OBVIOUS
  <2>1. len = Huge
    BY <1>1, LengthOfMore DEF len
  <2> QED
    BY <1>3, <2>1, HugeIs
<1>5. At(q + 1) \in 0 .. 255 /\ At(q + 2) \in 0 .. 255
  BY <1>0, AtIsByte DEF Byte
<1>6. CASE k = 1
  <2>1. len = At(q + 1)
    BY <1>0, <1>6, LengthOfTwo DEF len
  <2>2. len \in Nat /\ len < Huge /\ len >= 56 /\ len < 256
    BY <1>2, <1>3, <1>5, <2>1
  <2>3. /\ Prefix(base, len) \in Seq(Byte) /\ Len(Prefix(base, len)) = 2
        /\ Prefix(base, len)[1] = base + 56 /\ Prefix(base, len)[2] = len
    BY <2>2, PrefixIs
  <2>4. ASSUME NEW i \in 1 .. 2 PROVE Prefix(base, len)[i] = At(q + i - 1)
    <3>1. CASE i = 1
      <4>1. q + i - 1 = q /\ base + 55 + k = base + 56
        BY <1>6, <3>1
      <4> QED
        BY <2>3, <3>1, <4>1
    <3>2. CASE i = 2
      <4>1. q + i - 1 = q + 1
        BY <3>2
      <4> QED
        BY <2>1, <2>3, <3>2, <4>1
    <3> QED
      BY <3>1, <3>2
  <2>5. it.data - q = 2
    BY <1>1, <1>6
  <2>6. Prefixed(it, q, base)
    BY <1>1, <2>3, <2>4, <2>5 DEF Prefixed
  <2> QED
    BY <1>1, <1>3, <2>6 DEF it
<1>7. CASE k = 2
  <2>1. len = At(q + 2) + 256 * At(q + 1)
    BY <1>0, <1>7, LengthOfTwo DEF len
  <2>2. /\ len \in Nat /\ len < Huge /\ len >= 256
        /\ len \div 256 = At(q + 1) /\ len % 256 = At(q + 2)
    <3>1. PICK x \in 0 .. 255 : x = At(q + 1)
      BY <1>5
    <3>2. PICK y \in 0 .. 255 : y = At(q + 2)
      BY <1>5
    <3>3. x # 0 /\ len = y + 256 * x /\ x \in Nat
      BY <1>1, <2>1, <3>1, <3>2
    <3>4. y + 256 * x >= 256 /\ (y + 256 * x) \div 256 = x /\ (y + 256 * x) % 256 = y
      BY <3>3, TwoBytes
    <3> QED
      BY <1>2, <1>3, <3>1, <3>2, <3>3, <3>4
  <2>3. /\ Prefix(base, len) \in Seq(Byte) /\ Len(Prefix(base, len)) = 3
        /\ Prefix(base, len)[1] = base + 57
        /\ Prefix(base, len)[2] = At(q + 1) /\ Prefix(base, len)[3] = At(q + 2)
    BY <2>2, PrefixIs
  <2>4. ASSUME NEW i \in 1 .. 3 PROVE Prefix(base, len)[i] = At(q + i - 1)
    <3>1. CASE i = 1
      <4>1. q + i - 1 = q /\ base + 55 + k = base + 57
        BY <1>7, <3>1
      <4> QED
        BY <2>3, <3>1, <4>1
    <3>2. CASE i = 2
      <4>1. q + i - 1 = q + 1
        BY <3>2
      <4> QED
        BY <2>3, <3>2, <4>1
    <3>3. CASE i = 3
      <4>1. q + i - 1 = q + 2
        BY <3>3
      <4> QED
        BY <2>3, <3>3, <4>1
    <3> QED
      BY <3>1, <3>2, <3>3
  <2>5. it.data - q = 3
    BY <1>1, <1>7
  <2>6. Prefixed(it, q, base)
    BY <1>1, <2>3, <2>4, <2>5 DEF Prefixed
  <2> QED
    BY <1>1, <1>3, <2>6 DEF it
<1> QED
  BY <1>4, <1>6, <1>7
-----------------------------------------------------------------------------
(* Items *)

\* An item with its prefix before it.
LEMMA PrefixedPiece ==
    ASSUME BytesIn, NEW q \in Nat, NEW n \in Nat, Room(q, n), NEW base \in {128, 192},
           NEW it, Sound(it, q, n), it.ok, Prefixed(it, q, base)
    PROVE  Piece(q, q + it.consumed) = Prefix(base, Len(Content(it))) \o Content(it)
<1> DEFINE s == Prefix(base, it.len)
           t == Content(it)
<1>1. /\ it.data \in Nat /\ it.len \in Nat /\ it.consumed \in Nat /\ it.data >= q
      /\ it.data + it.len = q + it.consumed /\ it.consumed <= n
  BY DEF Sound
<1>2. s \in Seq(Byte) /\ Len(s) = it.data - q /\ \A i \in 1 .. it.data - q : s[i] = At(q + i - 1)
  BY DEF Prefixed
<1>3. t \in Seq(Byte) /\ Len(t) = it.len
  BY <1>1, ContentIsBytes
<1>4. \A i \in 1 .. it.len : t[i] = At(it.data + i - 1)
  BY DEF Content
<1> HIDE DEF s, t
<1>5. q + Len(s) = it.data /\ q + Len(s) + Len(t) = q + it.consumed
  <2>1. Len(s) = it.data - q /\ Len(t) = it.len
    BY <1>2, <1>3, Zenon
  <2> QED
    BY <1>1, <2>1
<1>6. q + Len(s) + Len(t) <= Len(rlp)
  <2>1. Len(rlp) \in Nat
    BY LenProperties DEF BytesIn
  <2> QED
    BY <1>1, <1>5, <2>1 DEF Room
<1>7. \A i \in 1 .. Len(s) : s[i] = At(q + i - 1)
  BY <1>2
<1>8. \A i \in 1 .. Len(t) : t[i] = At(q + Len(s) + i - 1)
  BY <1>3, <1>4, <1>5
<1>9. Piece(q, q + Len(s) + Len(t)) = s \o t
  BY <1>2, <1>3, <1>6, <1>7, <1>8, PieceOfTwo
<1>10. s = Prefix(base, Len(t))
  BY <1>3 DEF s
<1> QED
  BY <1>5, <1>9, <1>10 DEF t

\* parse_rlp_item takes the encoding of what it returns.
LEMMA ItemEncodes ==
    ASSUME Short, NEW q \in Nat, NEW n \in Nat, Room(q, n),
           parse_rlp_item(q, n).ok, ~LongHeader(q)
    PROVE  Piece(q, q + parse_rlp_item(q, n).consumed) =
               Encode(At(q) >= 192, Content(parse_rlp_item(q, n)))
<1> DEFINE it == parse_rlp_item(q, n)
<1>0. BytesIn
  BY DEF Short
<1>1. Sound(it, q, n)
  BY <1>0, ItemSound
<1>2. At(q) \in 0 .. 255 /\ n # 0
  <2>1. At(q) \in 0 .. 255
    BY <1>0, AtIsByte DEF Byte
  <2> QED
    BY <2>1 DEF parse_rlp_item, NoItem
<1>3. it.data \in Nat /\ it.len \in Nat
  BY <1>1 DEF Sound
<1>4. Len(Content(it)) = it.len /\ Content(it) \in Seq(Byte)
  BY <1>0, <1>3, ContentIsBytes
<1>5. CASE At(q) <= 127
  <2>1. it = Item(q, 0, 1, q + 1) /\ ~(At(q) >= 192)
    BY <1>2, <1>5 DEF parse_rlp_item
  <2>2. it.len = 1 /\ it.data = q /\ it.consumed = 1
    BY <2>1 DEF Item
  <2> HIDE DEF it
  <2>3. \A i \in 1 .. 1 : Content(it)[i] = At(q + i - 1)
    BY <2>2 DEF Content
  <2>4. Content(it)[1] = At(q)
    BY <2>3
  <2>5. Encode(At(q) >= 192, Content(it)) = Content(it)
    <3>1. Len(Content(it)) = 1 /\ Content(it)[1] < 128
      <4>1. At(q) < 128
        BY <1>2, <1>5
      <4> QED
        BY <1>4, <2>2, <2>4, <4>1, Zenon
    <3> QED
      BY <2>1, <3>1, Zenon DEF Encode, EncodeString
  <2>6. q + 1 <= Len(rlp)
    BY <1>2 DEF Room, Short
  <2>7. Piece(q, q + 1) = Content(it)
    BY <1>0, <1>4, <2>2, <2>3, <2>6, PieceOf
  <2> QED
    BY <2>2, <2>5, <2>7 DEF it
<1>6. CASE At(q) > 127 /\ At(q) <= 183
  <2> DEFINE sf == ShortForm(q, n, At(q) - 128)
             len == At(q) - 128
  <2>1. /\ it = IF sf.ok /\ sf.len = 1
                THEN IF At(q + 1) < 128 THEN NoItem(q + 2) ELSE [sf EXCEPT !.seen = q + 2]
                ELSE sf
        /\ ~(At(q) >= 192)
    BY <1>2, <1>6 DEF parse_rlp_item
  <2>2. len \in 0 .. 55 /\ At(q) = 128 + len
    BY <1>2, <1>6
  <2>3. /\ sf.ok /\ (sf.len = 1 => ~(At(q + 1) < 128))
        /\ it.data = sf.data /\ it.len = sf.len /\ sf.data = q + 1
    BY <2>1, <2>2 DEF ShortForm, Item, NoItem
  <2>4. Prefixed(sf, q, 128)
    BY <1>0, <2>2, <2>3, ShortFormPrefixed
  <2> HIDE DEF it, sf, len
  <2>5. Prefixed(it, q, 128)
    BY <2>3, <2>4 DEF Prefixed
  <2>6. ~(Len(Content(it)) = 1 /\ Content(it)[1] < 128)
    <3> SUFFICES ASSUME it.len = 1
                 PROVE  ~(Content(it)[1] < 128)
      BY <1>4
    <3>1. Content(it)[1] = At(it.data + 1 - 1)
      BY DEF Content
    <3>2. it.data + 1 - 1 = q + 1
      BY <2>3
    <3> QED
      BY <2>3, <3>1, <3>2
  <2>7. Encode(At(q) >= 192, Content(it)) = Prefix(128, Len(Content(it))) \o Content(it)
    BY <2>1, <2>6 DEF Encode, EncodeString
  <2>8. Piece(q, q + it.consumed) = Prefix(128, Len(Content(it))) \o Content(it)
    <3>1. it.ok
      BY DEF it
    <3> QED
      BY <1>0, <1>1, <2>5, <3>1, PrefixedPiece
  <2> QED
    BY <2>7, <2>8 DEF it
<1>7. CASE At(q) > 183 /\ At(q) <= 191
  <2> DEFINE k == At(q) - 183
  <2>1. it = LongForm(q, n, k) /\ ~(At(q) >= 192)
    BY <1>2, <1>7 DEF parse_rlp_item
  <2>2. k \in 1 .. 8 /\ k <= SizeBytes /\ At(q) = 128 + 55 + k
    BY <1>2, <1>7, SizeIsWide DEF LongHeader
  <2> HIDE DEF k
  <2>3. Prefixed(it, q, 128) /\ it.len >= 56 /\ it.ok
    BY <2>1, <2>2, LongFormPrefixed
  <2> HIDE DEF it
  <2>4. ~(Len(Content(it)) = 1 /\ Content(it)[1] < 128)
    BY <1>3, <1>4, <2>3
  <2>5. Encode(At(q) >= 192, Content(it)) = Prefix(128, Len(Content(it))) \o Content(it)
    BY <2>1, <2>4 DEF Encode, EncodeString
  <2>6. Piece(q, q + it.consumed) = Prefix(128, Len(Content(it))) \o Content(it)
    BY <1>0, <1>1, <2>3, PrefixedPiece
  <2> QED
    BY <2>5, <2>6 DEF it
<1>8. CASE At(q) > 191 /\ At(q) <= 247
  <2> DEFINE len == At(q) - 192
  <2>1. it = ShortForm(q, n, len) /\ At(q) >= 192
    BY <1>2, <1>8 DEF parse_rlp_item
  <2>2. len \in 0 .. 55 /\ At(q) = 192 + len
    BY <1>2, <1>8
  <2> HIDE DEF len
  <2>3. Prefixed(it, q, 192) /\ it.ok
    BY <1>0, <2>1, <2>2, ShortFormPrefixed
  <2> HIDE DEF it
  <2>4. Encode(At(q) >= 192, Content(it)) = Prefix(192, Len(Content(it))) \o Content(it)
    BY <2>1 DEF Encode, EncodeList
  <2>5. Piece(q, q + it.consumed) = Prefix(192, Len(Content(it))) \o Content(it)
    BY <1>0, <1>1, <2>3, PrefixedPiece
  <2> QED
    BY <2>4, <2>5 DEF it
<1>9. CASE At(q) > 247
  <2> DEFINE k == At(q) - 247
  <2>1. it = LongForm(q, n, k) /\ At(q) >= 192
    BY <1>2, <1>9 DEF parse_rlp_item
  <2>2. k \in 1 .. 8 /\ k <= SizeBytes /\ At(q) = 192 + 55 + k
    BY <1>2, <1>9, SizeIsWide DEF LongHeader
  <2> HIDE DEF k
  <2>3. Prefixed(it, q, 192) /\ it.ok
    BY <2>1, <2>2, LongFormPrefixed
  <2> HIDE DEF it
  <2>4. Encode(At(q) >= 192, Content(it)) = Prefix(192, Len(Content(it))) \o Content(it)
    BY <2>1 DEF Encode, EncodeList
  <2>5. Piece(q, q + it.consumed) = Prefix(192, Len(Content(it))) \o Content(it)
    BY <1>0, <1>1, <2>3, PrefixedPiece
  <2> QED
    BY <2>4, <2>5 DEF it
<1> QED
  BY <1>2, <1>5, <1>6, <1>7, <1>8, <1>9

\* The bytes the list header stands on are the prefix of the length it gives.
LEMMA HeaderEncodes ==
    ASSUME Short, NEW q \in Nat, NEW n \in Nat, Room(q, n),
           parse_rlp_list_header(q, n).ok, ~LongHeader(q)
    PROVE  Piece(q, parse_rlp_list_header(q, n).data) =
               Prefix(192, parse_rlp_list_header(q, n).len)
<1> DEFINE it == parse_rlp_list_header(q, n)
<1>0. BytesIn /\ Len(rlp) \in Nat
  BY DEF Short
<1>1. Sound(it, q, n)
  BY <1>0, HeaderSound
<1>2. At(q) \in 0 .. 255
  BY <1>0, AtIsByte DEF Byte
<1>3. n # 0 /\ At(q) >= 192
  BY <1>2 DEF parse_rlp_list_header, NoItem
<1>4. Prefixed(it, q, 192)
  <2>1. CASE At(q) <= 247
    <3> DEFINE len == At(q) - 192
    <3>1. it = ShortForm(q, n, len)
      BY <1>2, <1>3, <2>1 DEF parse_rlp_list_header
    <3>2. len \in 0 .. 55 /\ At(q) = 192 + len
      BY <1>2, <1>3, <2>1
    <3>3. ShortForm(q, n, len).ok
      BY <3>1
    <3> HIDE DEF len, it
    <3>4. Prefixed(ShortForm(q, n, len), q, 192)
      BY <1>0, <3>2, <3>3, ShortFormPrefixed
    <3> QED
      BY <3>1, <3>4
  <2>2. CASE At(q) > 247
    <3> DEFINE k == At(q) - 247
    <3>1. it = LongForm(q, n, k)
      BY <1>2, <1>3, <2>2 DEF parse_rlp_list_header
    <3>2. k \in 1 .. 8 /\ k <= SizeBytes /\ At(q) = 192 + 55 + k
      BY <1>2, <2>2, SizeIsWide DEF LongHeader
    <3> HIDE DEF k
    <3> QED
      BY <3>1, <3>2, LongFormPrefixed
  <2> QED
    BY <1>2, <2>1, <2>2
<1>5. it.ok
  OBVIOUS
<1> HIDE DEF it
<1> DEFINE s == Prefix(192, it.len)
<1>6. s \in Seq(Byte) /\ Len(s) = it.data - q /\ \A i \in 1 .. it.data - q : s[i] = At(q + i - 1)
  BY <1>4 DEF Prefixed
<1> HIDE DEF s
<1>7. q + Len(s) = it.data /\ q + Len(s) <= Len(rlp)
  BY <1>0, <1>1, <1>5, <1>6 DEF Sound, Room
<1>8. \A i \in 1 .. Len(s) : s[i] = At(q + i - 1)
  BY <1>6
<1>9. Piece(q, q + Len(s)) = s
  BY <1>0, <1>6, <1>7, <1>8, PieceOf
<1> QED
  BY <1>7, <1>9 DEF s, it
-----------------------------------------------------------------------------
(* Items in a row *)

\* s stands in the input from offset a up to b.
Stands(a, b, s) ==
    /\ a \in Nat /\ b \in Nat /\ a <= b /\ b <= Len(rlp)
    /\ s = Piece(a, b)

LEMMA StandTogether ==
    ASSUME BytesIn, NEW a, NEW b, NEW c, NEW s, NEW t, Stands(a, b, s), Stands(b, c, t)
    PROVE  Stands(a, c, s \o t)
<1>1. a \in Nat /\ b \in Nat /\ c \in Nat /\ a <= b /\ b <= c /\ c <= Len(rlp)
  BY DEF Stands
<1>2. s = Piece(a, b) /\ t = Piece(b, c)
  BY DEF Stands
<1>3. s \o t = Piece(a, c)
  BY <1>1, <1>2, Glue
<1>4. a <= c
  BY <1>1
<1> QED
  BY <1>1, <1>3, <1>4 DEF Stands

LEMMA JoinedStands ==
    ASSUME BytesIn, NEW o, NEW enc, \A i \in 1 .. 11 : Stands(o[i], o[i + 1], enc[i])
    PROVE  Stands(o[1], o[12], Joined(enc))
<1>1. /\ Stands(o[1], o[2], enc[1]) /\ Stands(o[2], o[3], enc[2]) /\ Stands(o[3], o[4], enc[3])
      /\ Stands(o[4], o[5], enc[4]) /\ Stands(o[5], o[6], enc[5]) /\ Stands(o[6], o[7], enc[6])
      /\ Stands(o[7], o[8], enc[7]) /\ Stands(o[8], o[9], enc[8]) /\ Stands(o[9], o[10], enc[9])
      /\ Stands(o[10], o[11], enc[10]) /\ Stands(o[11], o[12], enc[11])
  <2>1. /\ 1 \in 1 .. 11 /\ 1 + 1 = 2 /\ 2 \in 1 .. 11 /\ 2 + 1 = 3 /\ 3 \in 1 .. 11 /\ 3 + 1 = 4
        /\ 4 \in 1 .. 11 /\ 4 + 1 = 5 /\ 5 \in 1 .. 11 /\ 5 + 1 = 6 /\ 6 \in 1 .. 11 /\ 6 + 1 = 7
        /\ 7 \in 1 .. 11 /\ 7 + 1 = 8 /\ 8 \in 1 .. 11 /\ 8 + 1 = 9 /\ 9 \in 1 .. 11 /\ 9 + 1 = 10
        /\ 10 \in 1 .. 11 /\ 10 + 1 = 11 /\ 11 \in 1 .. 11 /\ 11 + 1 = 12
    OBVIOUS
  <2> QED
    BY <2>1, Zenon
<1>2. Stands(o[1], o[3], enc[1] \o enc[2])
  <2>1. Stands(o[2], o[3], enc[2]) /\ Stands(o[1], o[2], enc[1])
    BY <1>1
  <2> QED
    BY <2>1, StandTogether, Zenon
<1>3. Stands(o[1], o[4], enc[1] \o enc[2] \o enc[3])
  <2>1. Stands(o[3], o[4], enc[3])
    BY <1>1
  <2> QED
    BY <1>2, <2>1, StandTogether
<1>4. Stands(o[1], o[5], enc[1] \o enc[2] \o enc[3] \o enc[4])
  <2>1. Stands(o[4], o[5], enc[4])
    BY <1>1
  <2> QED
    BY <1>3, <2>1, StandTogether, Zenon
<1>5. Stands(o[1], o[6], enc[1] \o enc[2] \o enc[3] \o enc[4] \o enc[5])
  <2>1. Stands(o[5], o[6], enc[5])
    BY <1>1
  <2> QED
    BY <1>4, <2>1, StandTogether, Zenon
<1>6. Stands(o[1], o[7], enc[1] \o enc[2] \o enc[3] \o enc[4] \o enc[5] \o enc[6])
  <2>1. Stands(o[6], o[7], enc[6])
    BY <1>1
  <2> QED
    BY <1>5, <2>1, StandTogether, Zenon
<1>7. Stands(o[1], o[8], enc[1] \o enc[2] \o enc[3] \o enc[4] \o enc[5] \o enc[6] \o
                          enc[7])
  <2>1. Stands(o[7], o[8], enc[7])
    BY <1>1
  <2> QED
    BY <1>6, <2>1, StandTogether, Zenon
<1>8. Stands(o[1], o[9], enc[1] \o enc[2] \o enc[3] \o enc[4] \o enc[5] \o enc[6] \o
                          enc[7] \o enc[8])
  <2>1. Stands(o[8], o[9], enc[8])
    BY <1>1
  <2> QED
    BY <1>7, <2>1, StandTogether, Zenon
<1>9. Stands(o[1], o[10], enc[1] \o enc[2] \o enc[3] \o enc[4] \o enc[5] \o enc[6] \o
                          enc[7] \o enc[8] \o enc[9])
  <2>1. Stands(o[9], o[10], enc[9])
    BY <1>1
  <2> QED
    BY <1>8, <2>1, StandTogether, Zenon
<1>10. Stands(o[1], o[11], enc[1] \o enc[2] \o enc[3] \o enc[4] \o enc[5] \o enc[6] \o
                          enc[7] \o enc[8] \o enc[9] \o enc[10])
  <2>1. Stands(o[10], o[11], enc[10])
    BY <1>1
  <2> QED
    BY <1>9, <2>1, StandTogether, Zenon
<1>11. Stands(o[1], o[12], Joined(enc))
  <2>1. Stands(o[11], o[12], enc[11])
    BY <1>1
  <2> QED
    BY <1>10, <2>1, StandTogether, Zenon DEF Joined
<1> QED
  BY <1>11
-----------------------------------------------------------------------------
(* The steps of the decoder *)

\* A rejection, or the comparison at the end.
Stays == UNCHANGED <<rlp, p, remaining, end, field, items>>

\* The list header is read.
Opens ==
    LET header == parse_rlp_list_header(1, Len(rlp) - 1) IN
    /\ field = 0 /\ Len(rlp) # 0 /\ header.ok
    /\ p' = header.data /\ end' = header.data + header.len
    /\ field' = 1
    /\ UNCHANGED <<rlp, items>>

\* An item is taken.
Takes ==
    LET it == parse_rlp_item(p, remaining) IN
    /\ field \in Fields /\ it.ok
    /\ p' = p + it.consumed
    /\ items' = Append(items, [at |-> p, next |-> p + it.consumed,
                               list |-> At(p) >= 192, bytes |-> Content(it)])
    /\ field' = field + 1
    /\ UNCHANGED <<rlp, end>>

LEMMA StepsOfTheDecoder ==
    ASSUME Next
    PROVE  Stays \/ Opens \/ Takes
<1> DEFINE it == parse_rlp_item(p, remaining)
<1>1. ASSUME NEW s, Reject(s)
      PROVE  Stays
  BY <1>1 DEF Reject, Stays
<1>2. ASSUME NEW copy, field \in Fields, it.ok, Copy(it, copy) \/ Skip(it, copy)
      PROVE  Takes
  BY <1>2 DEF Copy, Skip, Take, Takes
<1>3. CASE Start
  <2>1. field = 0
    BY <1>3 DEF Start
  <2>2. CASE Len(rlp) = 0 \/ At(0) # 2 \/ ~parse_rlp_list_header(1, Len(rlp) - 1).ok
    BY <1>1, <1>3, <2>2, Zenon DEF Start
  <2>3. CASE ~(Len(rlp) = 0 \/ At(0) # 2 \/ ~parse_rlp_list_header(1, Len(rlp) - 1).ok)
    BY <1>3, <2>1, <2>3, Zenon DEF Start, Opens
  <2> QED
    BY <2>2, <2>3
<1> HIDE DEF it
<1>4. CASE Scalar
  <2>1. field \in Fields
    BY <1>4 DEF Scalar, ScalarFields, Fields
  <2>2. (\E s : Reject(s)) \/ (it.ok /\ Copy(it, Content(it)))
    BY <1>4, Zenon DEF Scalar, it
  <2> QED
    BY <1>1, <1>2, <2>1, <2>2
<1>5. CASE To
  <2>1. field \in Fields
    BY <1>5 DEF To, ToField, Fields
  <2>2. (\E s : Reject(s)) \/ (it.ok /\ \E copy : Copy(it, copy))
    BY <1>5, Zenon DEF To, it
  <2> QED
    BY <1>1, <1>2, <2>1, <2>2
<1>6. CASE Opaque
  <2>1. field \in Fields
    BY <1>6 DEF Opaque, DataField, AccessListField, Fields
  <2>2. (\E s : Reject(s)) \/ (it.ok /\ \E copy : Skip(it, copy))
    BY <1>6, Zenon DEF Opaque, it
  <2> QED
    BY <1>1, <1>2, <2>1, <2>2
<1>7. CASE Descriptor
  <2>1. field \in Fields
    BY <1>7 DEF Descriptor, DescriptorField, Fields
  <2>2. (\E s : Reject(s)) \/ (it.ok /\ \E copy : Copy(it, copy))
    BY <1>7, Zenon DEF Descriptor, it
  <2> QED
    BY <1>1, <1>2, <2>1, <2>2
<1>8. CASE ExtraParams
  <2>1. field \in Fields
    BY <1>8 DEF ExtraParams, ExtraParamsField, Fields
  <2>2. (\E s : Reject(s)) \/ (it.ok /\ \E copy : Skip(it, copy))
    BY <1>8, Zenon DEF ExtraParams, it
  <2> QED
    BY <1>1, <1>2, <2>1, <2>2
<1>9. CASE Finish
  BY <1>9 DEF Finish, Stays
<1> QED
  BY <1>3, <1>4, <1>5, <1>6, <1>7, <1>8, <1>9 DEF Next

-----------------------------------------------------------------------------
(* What was accepted is an encoding *)

\* Where the content of the list begins.
Beginning == IF Len(items) = 0 THEN p ELSE items[1].at

\* An item that was taken is the encoding of its bytes.
ItemEncoded(r) == ~LongHeader(r.at) => Stands(r.at, r.next, Encode(r.list, r.bytes))

\* The list header was the prefix of the bytes it covers.
HeaderEncoded(a, b) == ~LongHeader(1) => Stands(1, a, Prefix(192, b - a))

\* What the decoder keeps besides DecodeInv.
EncodedInv ==
    /\ Short
    /\ \A i \in 1 .. Len(items) : ItemEncoded(items[i])
    /\ field > 0 => HeaderEncoded(Beginning, end)

LEMMA OpensEncoded ==
    ASSUME DecodeInv, EncodedInv, Opens
    PROVE  HeaderEncoded(p', end')
<1> DEFINE n == Len(rlp) - 1
           header == parse_rlp_list_header(1, n)
<1>1. Short /\ BytesIn /\ Len(rlp) \in Nat
  BY DEF EncodedInv, Short
<1>2. header.ok /\ p' = header.data /\ end' = header.data + header.len /\ Len(rlp) # 0
  BY DEF Opens
<1>3. n \in Nat /\ Room(1, n) /\ 1 + n = Len(rlp)
  BY <1>1, <1>2 DEF Room
<1> HIDE DEF n
<1>4. Sound(header, 1, n)
  BY <1>1, <1>3, HeaderSound
<1>5. ~LongHeader(1) => Piece(1, header.data) = Prefix(192, header.len)
  BY <1>1, <1>2, <1>3, HeaderEncodes
<1> HIDE DEF header
<1>6. header.data \in Nat /\ header.len \in Nat /\ header.data >= 1 /\ header.data <= Len(rlp)
  BY <1>1, <1>2, <1>3, <1>4 DEF Sound
<1>7. end' - p' = header.len
  BY <1>2, <1>6
<1>8. ~LongHeader(1) => Stands(1, header.data, Prefix(192, header.len))
  BY <1>5, <1>6 DEF Stands
<1> QED
  BY <1>2, <1>7, <1>8 DEF HeaderEncoded

LEMMA TakesEncoded ==
    ASSUME DecodeInv, EncodedInv
    PROVE  LET it == parse_rlp_item(p, remaining)
           IN  it.ok => ItemEncoded([at |-> p, next |-> p + it.consumed,
                                     list |-> At(p) >= 192, bytes |-> Content(it)])
<1> DEFINE it == parse_rlp_item(p, remaining)
<1>1. /\ Sound(it, p, remaining) /\ BytesIn
      /\ p + remaining = Len(rlp) /\ p \in Nat /\ remaining \in Nat
  BY ItemsAreSound
<1>2. Short /\ Room(p, remaining)
  BY <1>1 DEF EncodedInv, Room
<1>3. it.ok /\ ~LongHeader(p) => Piece(p, p + it.consumed) = Encode(At(p) >= 192, Content(it))
  BY <1>1, <1>2, ItemEncodes
<1> HIDE DEF it
<1>4. it.ok => p + it.consumed \in Nat /\ p <= p + it.consumed /\ p + it.consumed <= Len(rlp)
  BY <1>1 DEF Sound
<1>5. it.ok /\ ~LongHeader(p) => Stands(p, p + it.consumed, Encode(At(p) >= 192, Content(it)))
  BY <1>1, <1>3, <1>4 DEF Stands
<1> QED
  BY <1>5 DEF ItemEncoded, it

LEMMA EncodedStep ==
    ASSUME DecodeInv, EncodedInv, Next
    PROVE  EncodedInv'
<1>0. rlp' = rlp
  BY StepsOfTheDecoder DEF Stays, Opens, Takes
<1>1. Short'
  BY <1>0 DEF EncodedInv, Short, BytesIn
<1>2. /\ items \in Seq(ItemRecord) /\ Len(items) \in Nat
      /\ field = 0 => Len(items) = 0
      /\ field > 0 => Len(items) = field - 1
  BY LenProperties DEF DecodeInv, Typed, Chained
<1>3. CASE Stays
  <2>1. \A i \in 1 .. Len(items') : ItemEncoded(items[i])
    BY <1>3 DEF Stays, EncodedInv
  <2>2. \A i \in 1 .. Len(items') : ItemEncoded(items[i])'
    <3> SUFFICES ASSUME NEW i \in 1 .. Len(items')
                 PROVE  ItemEncoded(items[i])'
      OBVIOUS
    <3>1. ItemEncoded(items[i]) /\ items' = items
      BY <1>3, <2>1 DEF Stays
    <3> QED
      BY <1>0, <3>1 DEF ItemEncoded, Stands, Piece, LongHeader, At
  <2>3. field' > 0 => HeaderEncoded(Beginning, end)'
    BY <1>0, <1>3 DEF Stays, EncodedInv, HeaderEncoded, Beginning, Stands, Piece, LongHeader, At
  <2> QED
    BY <1>1, <2>2, <2>3 DEF EncodedInv
<1>4. CASE Opens
  <2>1. Len(items') = 0 /\ Beginning' = p'
    BY <1>2, <1>4 DEF Opens, Beginning
  <2>2. HeaderEncoded(p', end')
    BY <1>4, OpensEncoded
  <2>3. HeaderEncoded(Beginning, end)'
    BY <1>0, <2>1, <2>2 DEF HeaderEncoded, Stands, Piece, LongHeader, At
  <2> QED
    BY <1>1, <2>1, <2>3 DEF EncodedInv
<1>5. CASE Takes
  <2> DEFINE it == parse_rlp_item(p, remaining)
             r == [at |-> p, next |-> p + it.consumed,
                   list |-> At(p) >= 192, bytes |-> Content(it)]
  <2>1. it.ok /\ items' = Append(items, r) /\ end' = end /\ field \in Fields
    BY <1>5 DEF Takes
  <2>2. ItemEncoded(r)
    BY <2>1, TakesEncoded
  <2>3. r.at = p
    OBVIOUS
  <2> HIDE DEF r
  <2>4. /\ Len(items') = Len(items) + 1
        /\ \A i \in 1 .. Len(items) : items'[i] = items[i]
        /\ items'[Len(items) + 1] = r
    BY <1>2, <2>1, AppendProperties
  <2>5. ASSUME NEW i \in 1 .. Len(items')
        PROVE  ItemEncoded(items'[i])
    <3>1. CASE i \in 1 .. Len(items)
      BY <2>4, <3>1 DEF EncodedInv
    <3>2. CASE i = Len(items) + 1
      BY <2>2, <2>4, <3>2
    <3> QED
      BY <1>2, <2>4, <3>1, <3>2
  <2>6. \A i \in 1 .. Len(items') : ItemEncoded(items[i])'
    <3> SUFFICES ASSUME NEW i \in 1 .. Len(items')
                 PROVE  ItemEncoded(items[i])'
      OBVIOUS
    <3>1. ItemEncoded(items'[i])
      BY <2>5
    <3> QED
      BY <1>0, <3>1 DEF ItemEncoded, Stands, Piece, LongHeader, At
  <2>7. Beginning' = Beginning
    <3>1. CASE Len(items) = 0
      <4>1. Len(items') # 0 /\ items'[1] = r
        BY <2>4, <3>1
      <4> QED
        BY <2>3, <3>1, <4>1 DEF Beginning
    <3>2. CASE Len(items) # 0
      <4>1. Len(items') # 0 /\ items'[1] = items[1]
        BY <1>2, <2>4, <3>2
      <4> QED
        BY <3>2, <4>1 DEF Beginning
    <3> QED
      BY <3>1, <3>2
  <2>8. HeaderEncoded(Beginning, end)
    BY <2>1 DEF EncodedInv, Fields
  <2>9. HeaderEncoded(Beginning, end)'
    BY <1>0, <2>1, <2>7, <2>8 DEF HeaderEncoded, Stands, Piece, LongHeader, At
  <2> QED
    BY <1>1, <2>6, <2>9 DEF EncodedInv
<1> QED
  BY <1>3, <1>4, <1>5, StepsOfTheDecoder

LEMMA EncodedStart ==
    ASSUME Init
    PROVE  EncodedInv
<1>1. rlp \in Seq(Byte) /\ Len(rlp) < Huge
  BY InputsAreBytes DEF Init
<1>2. Len(rlp) \in Nat
  BY <1>1, LenProperties
<1>3. Short
  BY <1>1, <1>2 DEF Short, BytesIn
<1>4. Len(items) = 0 /\ field = 0
  BY DEF Init
<1> QED
  BY <1>3, <1>4 DEF EncodedInv

\* Eleven encoded items that fill an encoded list.
LEMMA EncodedIsAccepted ==
    ASSUME DecodeInv, EncodedInv
    PROVE  AcceptedReencodes
<1> SUFFICES ASSUME status = "accepted", ~LongHeader(1),
                    \A n \in 1 .. 11 : ~LongHeader(items[n].at)
             PROVE  SubSeq(rlp, 2, end) =
                      EncodeList(Joined([f \in Fields |-> Encode(items[f].list, items[f].bytes)]))
  BY DEF AcceptedReencodes
<1> DEFINE enc == [f \in Fields |-> Encode(items[f].list, items[f].bytes)]
           o == [i \in 1 .. 12 |-> IF i = 12 THEN end ELSE items[i].at]
<1>1. BytesIn
  BY DEF EncodedInv, Short
<1>2. field = 12 /\ p = end /\ Chained
  BY DEF DecodeInv
<1>3. Len(items) = 11
  BY <1>2 DEF Chained
<1>4. \A i \in 1 .. 11 : Stands(items[i].at, items[i].next, enc[i])
  <2> SUFFICES ASSUME NEW i \in 1 .. 11
               PROVE  Stands(items[i].at, items[i].next, enc[i])
    OBVIOUS
  <2>1. i \in 1 .. Len(items)
    BY <1>3
  <2>2. enc[i] = Encode(items[i].list, items[i].bytes)
    BY DEF Fields
  <2>3. ItemEncoded(items[i]) /\ ~LongHeader(items[i].at)
    BY <2>1 DEF EncodedInv
  <2> QED
    BY <2>2, <2>3, Zenon DEF ItemEncoded
<1>5. ASSUME NEW i \in 1 .. 11
      PROVE  o[i] = items[i].at /\ o[i + 1] = items[i].next
  <2>1. o[i] = items[i].at
    OBVIOUS
  <2>2. CASE i = 11
    BY <1>2, <1>3, <2>2 DEF Chained
  <2>3. CASE i # 11
    <3>1. i \in 1 .. Len(items) - 1 /\ i + 1 \in 1 .. 12 /\ i + 1 # 12
      BY <1>3, <2>3
    <3> QED
      BY <1>2, <3>1 DEF Chained
  <2> QED
    BY <2>1, <2>2, <2>3
<1>6. o[1] = items[1].at /\ o[12] = end
  OBVIOUS
<1> HIDE DEF enc, o
<1>7. \A i \in 1 .. 11 : Stands(o[i], o[i + 1], enc[i])
  BY <1>4, <1>5, Zenon
<1>8. Stands(items[1].at, end, Joined(enc))
  BY <1>1, <1>6, <1>7, JoinedStands
<1>9. Stands(1, items[1].at, Prefix(192, end - items[1].at))
  <2>1. HeaderEncoded(Beginning, end) /\ Beginning = items[1].at
    BY <1>2, <1>3 DEF EncodedInv, Beginning
  <2> QED
    BY <2>1, Zenon DEF HeaderEncoded
<1>10. Len(Joined(enc)) = end - items[1].at
  BY <1>1, <1>8, PieceIs DEF Stands
<1>11. Stands(1, end, Prefix(192, Len(Joined(enc))) \o Joined(enc))
  BY <1>1, <1>8, <1>9, <1>10, StandTogether
<1>12. Piece(1, end) = EncodeList(Joined(enc))
  BY <1>11 DEF Stands, EncodeList
<1>13. Piece(1, end) = SubSeq(rlp, 2, end)
  BY DEF Piece
<1> QED
  BY <1>12, <1>13 DEF enc

\* In every transaction decode_ledger_tx accepts, the list is the one RLP
\* encoding of the eleven items it read: with lengths that fit a size_t, two
\* byte strings with the same items are the same.
THEOREM AcceptedListIsItsEncoding == Spec => []AcceptedReencodes
<1>1. Init => EncodedInv
  BY EncodedStart
<1>2. DecodeInv /\ EncodedInv /\ [Next]_vars => EncodedInv'
  <2> SUFFICES ASSUME DecodeInv, EncodedInv, [Next]_vars
               PROVE  EncodedInv'
    OBVIOUS
  <2>1. CASE Next
    BY <2>1, EncodedStep
  <2>2. CASE UNCHANGED vars
    BY <2>2 DEF vars, EncodedInv, Short, BytesIn, ItemEncoded, HeaderEncoded, Beginning, Stands,
                Piece, LongHeader, At
  <2> QED
    BY <2>1, <2>2
<1>3. DecodeInv /\ EncodedInv => AcceptedReencodes
  BY EncodedIsAccepted
<1> QED
  BY <1>1, <1>2, <1>3, DecodeCorrect, PTL DEF Spec
-----------------------------------------------------------------------------
(* Taking a sequence apart *)

LEMMA ByteSequence ==
    ASSUME NEW n \in Nat, NEW s \in [1 .. n -> Byte]
    PROVE  s \in Seq(Byte)
BY SeqDef

LEMMA BytesAreNat ==
    ASSUME NEW s \in Seq(Byte)
    PROVE  s \in Seq(Nat)
<1>1. Byte \subseteq Nat
  BY DEF Byte
<1> QED
  BY <1>1, SeqMonotonic

LEMMA PrefixIsNat ==
    ASSUME NEW base \in Nat, NEW n \in Nat
    PROVE  Prefix(base, n) \in Seq(Nat)
<1>1. base + n \in Nat /\ base + 56 \in Nat /\ base + 57 \in Nat
  OBVIOUS
<1>2. n \div 256 \in Nat
  OBVIOUS
<1>3. n % 256 \in Nat
  OBVIOUS
<1> QED
  BY <1>1, <1>2, <1>3 DEF Prefix

LEMMA EncodeIsNat ==
    ASSUME NEW l \in BOOLEAN, NEW s \in Seq(Byte)
    PROVE  Encode(l, s) \in Seq(Nat)
<1>1. s \in Seq(Nat) /\ Len(s) \in Nat
  BY BytesAreNat, LenProperties
<1>2. Prefix(128, Len(s)) \in Seq(Nat) /\ Prefix(192, Len(s)) \in Seq(Nat)
  BY <1>1, PrefixIsNat
<1>3. Prefix(128, Len(s)) \o s \in Seq(Nat) /\ Prefix(192, Len(s)) \o s \in Seq(Nat)
  BY <1>1, <1>2, ConcatProperties
<1> QED
  BY <1>1, <1>3, Zenon DEF Encode, EncodeString, EncodeList

\* The bytes of what stands in the input.
LEMMA StandsIs ==
    ASSUME BytesIn, NEW a, NEW b, NEW s, Stands(a, b, s)
    PROVE  /\ a \in Nat /\ b \in Nat /\ a <= b /\ b <= Len(rlp)
           /\ Len(s) = b - a
           /\ s \in Seq(Byte)
           /\ \A i \in 1 .. b - a : s[i] = At(a + i - 1)
<1>1. a \in Nat /\ b \in Nat /\ a <= b /\ b <= Len(rlp) /\ s = Piece(a, b)
  BY DEF Stands
<1> QED
  BY <1>1, PieceIs

LEMMA FirstByte ==
    ASSUME BytesIn, NEW a, NEW b, NEW s, Stands(a, b, s), a < b
    PROVE  s[1] = At(a)
<1>1. a \in Nat /\ b \in Nat /\ \A i \in 1 .. b - a : s[i] = At(a + i - 1)
  BY StandsIs
<1>2. 1 \in 1 .. b - a /\ a + 1 - 1 = a
  BY <1>1
<1> QED
  BY <1>1, <1>2

\* And the converse.
LEMMA StandsIf ==
    ASSUME BytesIn, NEW a \in Nat, NEW s \in Seq(Nat), a + Len(s) <= Len(rlp),
           \A i \in 1 .. Len(s) : s[i] = At(a + i - 1)
    PROVE  Stands(a, a + Len(s), s)
<1>1. Len(s) \in Nat /\ s \in [1 .. Len(s) -> Nat]
  BY LenProperties
<1>2. ASSUME NEW i \in 1 .. Len(s) PROVE s[i] \in Byte
  <2>1. a + i - 1 \in Nat
    BY <1>1
  <2>2. At(a + i - 1) \in Byte
    BY <2>1, AtIsByte
  <2> QED
    BY <2>2
<1>3. s \in [1 .. Len(s) -> Byte]
  BY <1>1, <1>2
<1>4. s \in Seq(Byte)
  BY <1>1, <1>3, ByteSequence, Zenon
<1>5. Piece(a, a + Len(s)) = s
  BY <1>4, PieceOf
<1>6. a + Len(s) \in Nat /\ a <= a + Len(s)
  BY <1>1
<1> QED
  BY <1>5, <1>6 DEF Stands

LEMMA StandApart ==
    ASSUME BytesIn, NEW a, NEW b, NEW s \in Seq(Nat), NEW t \in Seq(Nat), Stands(a, b, s \o t)
    PROVE  Stands(a, a + Len(s), s) /\ Stands(a + Len(s), b, t)
<1>0. Len(rlp) \in Nat /\ Len(s) \in Nat /\ Len(t) \in Nat
  BY LenProperties DEF BytesIn
<1>1. /\ a \in Nat /\ b \in Nat /\ a <= b /\ b <= Len(rlp)
      /\ Len(s \o t) = b - a
      /\ \A i \in 1 .. b - a : (s \o t)[i] = At(a + i - 1)
  <2> DEFINE st == s \o t
  <2>1. Stands(a, b, st)
    OBVIOUS
  <2> HIDE DEF st
  <2>2. /\ a \in Nat /\ b \in Nat /\ a <= b /\ b <= Len(rlp)
        /\ Len(st) = b - a
        /\ \A i \in 1 .. b - a : st[i] = At(a + i - 1)
    BY <2>1, StandsIs
  <2> QED
    BY <2>2, Zenon DEF st
<1>2. /\ Len(s \o t) = Len(s) + Len(t)
      /\ \A i \in 1 .. Len(s) + Len(t) : (s \o t)[i] = IF i <= Len(s) THEN s[i] ELSE t[i - Len(s)]
  BY ConcatProperties
<1>3. Len(s) + Len(t) = b - a
  BY <1>1, <1>2
<1>4. ASSUME NEW i \in 1 .. Len(s) PROVE s[i] = At(a + i - 1)
  <2>1. i \in 1 .. Len(s) + Len(t) /\ i <= Len(s) /\ i \in 1 .. b - a
    BY <1>0, <1>3
  <2> QED
    BY <1>1, <1>2, <2>1
<1>5. ASSUME NEW i \in 1 .. Len(t) PROVE t[i] = At(a + Len(s) + i - 1)
  <2> DEFINE j == Len(s) + i
  <2>1. /\ j \in 1 .. Len(s) + Len(t) /\ ~(j <= Len(s)) /\ j \in 1 .. b - a /\ j - Len(s) = i
        /\ a + j - 1 = a + Len(s) + i - 1
    BY <1>0, <1>1, <1>3
  <2> HIDE DEF j
  <2> QED
    BY <1>1, <1>2, <2>1
<1>6. /\ a + Len(s) \in Nat /\ a + Len(s) <= Len(rlp)
      /\ (a + Len(s)) + Len(t) <= Len(rlp) /\ (a + Len(s)) + Len(t) = b
  BY <1>0, <1>1, <1>3
<1>7. Stands(a, a + Len(s), s)
  BY <1>1, <1>4, <1>6, StandsIf
<1>8. Stands(a + Len(s), (a + Len(s)) + Len(t), t)
  BY <1>5, <1>6, StandsIf
<1> QED
  BY <1>6, <1>7, <1>8
-----------------------------------------------------------------------------
(* Reading back an encoding *)

\* All the bytes after offset q.
Rest(q, n) == q + n = Len(rlp)

\* The prefix of s with base at q, and s behind it up to b, are read as such.
ReadsShort(q, n, base, s, b) ==
    /\ n # 0
    /\ Len(s) \in 0 .. 55
    /\ At(q) = base + Len(s)
    /\ ShortForm(q, n, Len(s)) = Item(q, 1, Len(s), q + 1)
    /\ b = q + 1 + Len(s)
    /\ Stands(q + 1, b, s)

ReadsLong(q, n, base, s, b, k) ==
    /\ n # 0
    /\ Len(s) >= 56
    /\ At(q) = base + 55 + k
    /\ LongForm(q, n, k) = Item(q, 1 + k, Len(s), q + 1 + k)
    /\ b = q + (1 + k) + Len(s)
    /\ Stands(q + (1 + k), b, s)

\* In numbers.
LEMMA LongFormReads ==
    ASSUME NEW q \in Nat, NEW n \in Nat, NEW k \in 1 .. 2, NEW len \in Nat,
           len >= 56, 1 + k + len <= n, At(q + 1) # 0, LengthAt(q, k) = len
    PROVE  LongForm(q, n, k) = Item(q, 1 + k, len, q + 1 + k)
<1>1. ~(k > n - 1) /\ ~(len > n - 1 - k \/ len < 56)
  OBVIOUS
<1> QED
  BY <1>1 DEF LongForm

LEMMA ReadsPrefix ==
    ASSUME Short, NEW q \in Nat, NEW n \in Nat, Rest(q, n), NEW base \in {128, 192},
           NEW s \in Seq(Byte), NEW b, Stands(q, b, Prefix(base, Len(s)) \o s)
    PROVE  \/ ReadsShort(q, n, base, s, b)
           \/ \E k \in 1 .. 2 : ReadsLong(q, n, base, s, b, k)
<1> DEFINE L == Len(s)
           x == Prefix(base, L)
           h == Len(x)
<1>0. BytesIn /\ Len(rlp) \in Nat /\ Len(rlp) < Huge
  BY DEF Short
<1>1. L \in Nat
  BY LenProperties
<1> HIDE DEF L
<1>2. x \in Seq(Nat) /\ s \in Seq(Nat)
  <2>1. x \in Seq(Nat)
    <3>1. base \in Nat
      OBVIOUS
    <3> QED
      BY <1>1, <3>1, PrefixIsNat, Zenon
  <2>2. s \in Seq(Nat)
    BY BytesAreNat
  <2> QED
    BY <2>1, <2>2
<1> HIDE DEF x
<1>3. Stands(q, q + h, x) /\ Stands(q + h, b, s)
  <2>1. Stands(q, b, x \o s)
    BY DEF x, L
  <2> QED
    BY <1>0, <1>2, <2>1, StandApart
<1>4. h \in Nat
  BY <1>2, LenProperties
<1> HIDE DEF h
<1>5. /\ q + h \in Nat /\ \A i \in 1 .. (q + h) - q : x[i] = At(q + i - 1)
  BY <1>0, <1>3, StandsIs
<1>6. b \in Nat /\ b <= Len(rlp) /\ L = b - (q + h)
  <2>1. b \in Nat /\ b <= Len(rlp) /\ Len(s) = b - (q + h)
    BY <1>0, <1>3, StandsIs, Zenon
  <2> QED
    BY <2>1 DEF L
<1>7. b = q + h + L /\ h + L <= n /\ L < Huge
  <2>1. Len(rlp) = q + n /\ q + n < Huge
    BY <1>0 DEF Rest
  <2>2. b \in Nat /\ b <= q + n
    BY <1>6, <2>1
  <2> QED
    BY <1>1, <1>4, <1>6, <2>1, <2>2, HugeIs
<1>8. \A i \in 1 .. h : x[i] = At(q + i - 1)
  <2>1. (q + h) - q = h
    BY <1>4
  <2> QED
    BY <1>5, <2>1
<1>9. CASE L < 56
  <2>1. h = 1 /\ x[1] = base + L
    BY <1>1, <1>7, <1>9, PrefixIs DEF x, h
  <2>2. x[1] = At(q + 1 - 1) /\ q + 1 - 1 = q
    BY <1>8, <2>1
  <2>3. ShortForm(q, n, L) = Item(q, 1, L, q + 1)
    <3>1. ~(L > n - 1)
      BY <1>1, <1>7, <2>1
    <3> QED
      BY <3>1 DEF ShortForm
  <2>4. L \in 0 .. 55 /\ n # 0
    BY <1>1, <1>7, <1>9, <2>1
  <2> QED
    BY <1>3, <1>7, <2>1, <2>2, <2>3, <2>4 DEF ReadsShort, L
<1>10. CASE L >= 56 /\ L < 256
  <2>1. h = 2 /\ x[1] = base + 56 /\ x[2] = L
    BY <1>1, <1>7, <1>10, PrefixIs DEF x, h
  <2>2. x[1] = At(q + 1 - 1) /\ x[2] = At(q + 2 - 1) /\ q + 1 - 1 = q /\ q + 2 - 1 = q + 1
    BY <1>8, <2>1
  <2>3. At(q + 1) = L /\ At(q) = base + 55 + 1
    BY <2>1, <2>2
  <2>4. LengthAt(q, 1) = L
    BY <1>0, <2>3, LengthOfTwo
  <2>5. 1 + 1 + L <= n /\ L # 0 /\ 1 \in 1 .. 2 /\ n # 0
    BY <1>1, <1>7, <1>10, <2>1
  <2>6. LongForm(q, n, 1) = Item(q, 1 + 1, L, q + 1 + 1)
    BY <1>1, <1>10, <2>3, <2>4, <2>5, LongFormReads
  <2>7. h = 1 + 1
    BY <2>1
  <2>8. ReadsLong(q, n, base, s, b, 1)
    BY <1>3, <1>7, <1>10, <2>3, <2>5, <2>6, <2>7 DEF ReadsLong, L
  <2> QED
    BY <2>5, <2>8
<1>11. CASE L >= 256
  <2>1. h = 3 /\ x[1] = base + 57 /\ x[2] = L \div 256 /\ x[3] = L % 256
    BY <1>1, <1>7, <1>11, PrefixIs DEF x, h
  <2>2. /\ x[1] = At(q + 1 - 1) /\ x[2] = At(q + 2 - 1) /\ x[3] = At(q + 3 - 1)
        /\ q + 1 - 1 = q /\ q + 2 - 1 = q + 1 /\ q + 3 - 1 = q + 2
    BY <1>8, <2>1
  <2>3. At(q + 1) = L \div 256 /\ At(q + 2) = L % 256 /\ At(q) = base + 55 + 2
    BY <2>1, <2>2
  <2>4. L \div 256 # 0 /\ (L % 256) + 256 * (L \div 256) = L
    BY <1>1, <1>11
  <2>5. LengthAt(q, 2) = L
    BY <1>0, <2>3, <2>4, LengthOfTwo
  <2>6. 1 + 2 + L <= n /\ L >= 56 /\ 2 \in 1 .. 2 /\ n # 0
    BY <1>1, <1>7, <1>11, <2>1
  <2>7. LongForm(q, n, 2) = Item(q, 1 + 2, L, q + 1 + 2)
    BY <1>1, <2>3, <2>4, <2>5, <2>6, LongFormReads
  <2>8. h = 1 + 2
    BY <2>1
  <2>9. ReadsLong(q, n, base, s, b, 2)
    BY <1>3, <1>7, <2>3, <2>6, <2>7, <2>8 DEF ReadsLong, L
  <2> QED
    BY <2>6, <2>9
<1> QED
  BY <1>1, <1>9, <1>10, <1>11

\* The content of an item is what stands there.
LEMMA ContentStands ==
    ASSUME BytesIn, NEW it, NEW b, NEW s, Stands(it.data, b, s), it.data + it.len = b,
           it.len \in Nat
    PROVE  Content(it) = s
<1>1. it.data \in Nat /\ b <= Len(rlp)
  BY StandsIs
<1>2. Content(it) \in Seq(Byte) /\ Len(Content(it)) = it.len
  BY <1>1, ContentIsBytes
<1>3. \A i \in 1 .. it.len : Content(it)[i] = At(it.data + i - 1)
  BY DEF Content
<1>4. Piece(it.data, it.data + it.len) = Content(it)
  BY <1>1, <1>2, <1>3, PieceOf
<1> QED
  BY <1>4 DEF Stands

\* The prefix of a list.
ListAt(q) == At(q) >= 192

\* What parse_rlp_item returns for an encoding that stands at q.
ReadsItem(it, q, s, b) ==
    /\ it.ok
    /\ it.len = Len(s)
    /\ Content(it) = s
    /\ q + it.consumed = b

\* Named like BytesIn, and for its reason.
BytesOf(s) == s \in Seq(Byte)

LEMMA ReadItem ==
    ASSUME BytesIn, NEW q \in Nat, NEW h \in 0 .. 3, NEW s, NEW b, NEW it, NEW len \in Nat,
           Len(s) = len, b = q + h + len, Stands(q + h, b, s),
           it.ok, it.data = q + h, it.len = len, it.consumed = h + len
    PROVE  ReadsItem(it, q, s, b)
<1>1. it.data + it.len = b /\ q + it.consumed = b /\ it.len \in Nat
  OBVIOUS
<1>2. Stands(it.data, b, s)
  OBVIOUS
<1>3. Content(it) = s
  BY <1>1, <1>2, ContentStands
<1> QED
  BY <1>1, <1>3 DEF ReadsItem

LEMMA ItemReads ==
    ASSUME Short, NEW q \in Nat, NEW n \in Nat, Rest(q, n), NEW l \in BOOLEAN,
           NEW s, BytesOf(s), NEW b, Stands(q, b, Encode(l, s))
    PROVE  ReadsItem(parse_rlp_item(q, n), q, s, b) /\ (ListAt(q) <=> l)
<1> DEFINE it == parse_rlp_item(q, n)
<1>0. BytesIn /\ Len(rlp) \in Nat
  BY DEF Short
<1>1. PICK len \in Nat : len = Len(s)
  BY LenProperties DEF BytesOf
<1>2. ASSUME NEW base \in {128, 192},
             Stands(q, b, Prefix(base, Len(s)) \o s), base = 128 => ~(len = 1 /\ s[1] < 128)
      PROVE  ReadsItem(it, q, s, b) /\ (ListAt(q) <=> base = 192)
  <2>1. \/ ReadsShort(q, n, base, s, b)
        \/ \E k \in 1 .. 2 : ReadsLong(q, n, base, s, b, k)
    BY <1>2, ReadsPrefix DEF BytesOf
  <2>2. CASE ReadsShort(q, n, base, s, b)
    <3>1. /\ n # 0 /\ len \in 0 .. 55 /\ At(q) = base + len
          /\ ShortForm(q, n, len) = Item(q, 1, len, q + 1)
          /\ b = q + 1 + len /\ Stands(q + 1, b, s)
      BY <1>1, <2>2 DEF ReadsShort
    <3>2. ListAt(q) <=> base = 192
      BY <3>1 DEF ListAt
    <3>3. it.ok /\ it.data = q + 1 /\ it.len = len /\ it.consumed = 1 + len
      <4>1. CASE base = 192
        <5>1. ~(At(q) <= 127) /\ ~(At(q) <= 183) /\ ~(At(q) <= 191) /\ At(q) <= 247 /\ At(q) - 192 = len
          BY <3>1, <4>1
        <5> QED
          BY <3>1, <5>1 DEF parse_rlp_item, Item
      <4>2. CASE base = 128
        <5>1. ~(At(q) <= 127) /\ At(q) <= 183 /\ At(q) - 128 = len
          BY <3>1, <4>2
        <5>2. len = 1 => ~(At(q + 1) < 128)
          <6> SUFFICES ASSUME len = 1
                       PROVE  ~(At(q + 1) < 128)
            OBVIOUS
          <6>1. q + 1 < b /\ Stands(q + 1, b, s)
            BY <3>1
          <6>2. s[1] = At(q + 1)
            BY <1>0, <6>1, FirstByte
          <6>3. ~(s[1] < 128)
            BY <1>2, <4>2
          <6> QED
            BY <6>2, <6>3
        <5> QED
          BY <3>1, <5>1, <5>2 DEF parse_rlp_item, Item
      <4> QED
        BY <4>1, <4>2
    <3> HIDE DEF it
    <3>4. 1 \in 0 .. 3
      OBVIOUS
    <3>5. ReadsItem(it, q, s, b)
      <4>1. b = q + 1 + len /\ Stands(q + 1, b, s) /\ Len(s) = len
        BY <1>1, <3>1
      <4> QED
        BY <1>0, <3>3, <3>4, <4>1, ReadItem
    <3> QED
      BY <3>2, <3>5
  <2>3. CASE \E k \in 1 .. 2 : ReadsLong(q, n, base, s, b, k)
    <3>0. PICK k \in 1 .. 2 : ReadsLong(q, n, base, s, b, k)
      BY <2>3
    <3>1. /\ n # 0 /\ len >= 56 /\ At(q) = base + 55 + k
          /\ LongForm(q, n, k) = Item(q, 1 + k, len, q + 1 + k)
          /\ b = q + (1 + k) + len /\ Stands(q + (1 + k), b, s)
      BY <1>1, <3>0 DEF ReadsLong
    <3>2. ListAt(q) <=> base = 192
      BY <3>1 DEF ListAt
    <3>3. it = LongForm(q, n, k)
      <4>1. CASE base = 192
        <5>1. /\ ~(At(q) <= 127) /\ ~(At(q) <= 183) /\ ~(At(q) <= 191) /\ ~(At(q) <= 247)
              /\ At(q) - 247 = k
          BY <3>1, <4>1
        <5> QED
          BY <3>1, <5>1 DEF parse_rlp_item
      <4>2. CASE base = 128
        <5>1. ~(At(q) <= 127) /\ ~(At(q) <= 183) /\ At(q) <= 191 /\ At(q) - 183 = k
          BY <3>1, <4>2
        <5> QED
          BY <3>1, <5>1 DEF parse_rlp_item
      <4> QED
        BY <4>1, <4>2
    <3> HIDE DEF it
    <3>4. it.ok /\ it.data = q + (1 + k) /\ it.len = len /\ it.consumed = (1 + k) + len
      BY <3>1, <3>3 DEF Item
    <3>5. PICK h \in 0 .. 3 : h = 1 + k
      OBVIOUS
    <3>6. /\ b = q + h + len /\ Stands(q + h, b, s)
          /\ it.ok /\ it.data = q + h /\ it.len = len /\ it.consumed = h + len
      BY <3>1, <3>4, <3>5
    <3>7. Len(s) = len
      BY <1>1
    <3>8. ReadsItem(it, q, s, b)
      BY <1>0, <3>5, <3>6, <3>7, ReadItem
    <3> QED
      BY <3>2, <3>8
  <2> QED
    BY <2>1, <2>2, <2>3
<1>3. ASSUME Stands(q, b, s), len = 1, s[1] < 128
      PROVE  ReadsItem(it, q, s, b) /\ ~ListAt(q)
  <2>1. b \in Nat /\ b <= Len(rlp) /\ Len(s) = b - q
    BY <1>0, <1>3, StandsIs
  <2>2. b = q + 0 + 1 /\ n # 0 /\ s[1] = At(q) /\ q + 0 = q
    <3>1. b = q + 1
      <4>1. b \in Nat /\ 1 = b - q
        BY <1>1, <1>3, <2>1, Zenon
      <4> QED
        BY <4>1
    <3>2. q < b
      BY <3>1
    <3>3. s[1] = At(q)
      BY <1>0, <1>3, <3>2, FirstByte
    <3> QED
      BY <1>0, <2>1, <3>1, <3>3 DEF Rest
  <2>3. At(q) \in 0 .. 127
    <3>1. At(q) \in 0 .. 255
      BY <1>0, AtIsByte DEF Byte
    <3>2. At(q) < 128
      BY <1>3, <2>2, Zenon
    <3> QED
      BY <3>1, <3>2
  <2>4. it = Item(q, 0, 1, q + 1)
    BY <2>2, <2>3 DEF parse_rlp_item
  <2>5. it.ok /\ it.data = q + 0 /\ it.len = len /\ it.consumed = 0 + len
    BY <1>3, <2>4 DEF Item
  <2> HIDE DEF it
  <2>6. ~ListAt(q)
    BY <2>3 DEF ListAt
  <2>7. 0 \in 0 .. 3 /\ b = q + 0 + len /\ Stands(q + 0, b, s)
    BY <1>3, <2>2
  <2>8. ReadsItem(it, q, s, b)
    BY <1>0, <1>1, <2>5, <2>7, ReadItem
  <2> QED
    BY <2>6, <2>8
<1>4. CASE l
  <2>1. Encode(l, s) = Prefix(192, Len(s)) \o s
    BY <1>4, Zenon DEF Encode, EncodeList
  <2>2. PICK base \in {128, 192} : base = 192
    OBVIOUS
  <2>3. Stands(q, b, Prefix(base, Len(s)) \o s)
    BY <2>1, <2>2
  <2>4. base = 128 => ~(len = 1 /\ s[1] < 128)
    BY <2>2
  <2> HIDE DEF it
  <2>5. ReadsItem(it, q, s, b) /\ (ListAt(q) <=> base = 192)
    BY <1>2, <2>3, <2>4
  <2> QED
    BY <1>4, <2>2, <2>5 DEF it
<1>5. CASE ~l /\ len = 1 /\ s[1] < 128
  <2>1. Encode(l, s) = s
    BY <1>1, <1>5 DEF Encode, EncodeString
  <2> QED
    BY <1>3, <1>5, <2>1
<1>6. CASE ~l /\ ~(len = 1 /\ s[1] < 128)
  <2>1. Encode(l, s) = Prefix(128, Len(s)) \o s
    BY <1>1, <1>6 DEF Encode, EncodeString
  <2>2. PICK base \in {128, 192} : base = 128
    OBVIOUS
  <2>3. Stands(q, b, Prefix(base, Len(s)) \o s)
    BY <2>1, <2>2
  <2> HIDE DEF it
  <2>4. ReadsItem(it, q, s, b) /\ (ListAt(q) <=> base = 192)
    BY <1>2, <1>6, <2>3
  <2> QED
    BY <1>6, <2>2, <2>4 DEF it
<1> QED
  BY <1>4, <1>5, <1>6

LEMMA HeaderReads ==
    ASSUME Short, NEW q \in Nat, NEW n \in Nat, Rest(q, n), NEW s, BytesOf(s), NEW b,
           Stands(q, b, Prefix(192, Len(s)) \o s)
    PROVE  /\ parse_rlp_list_header(q, n).ok
           /\ parse_rlp_list_header(q, n).data + parse_rlp_list_header(q, n).len = b
           /\ Stands(parse_rlp_list_header(q, n).data, b, s)
<1> DEFINE it == parse_rlp_list_header(q, n)
<1>1. PICK len \in Nat : len = Len(s)
  BY LenProperties DEF BytesOf
<1>2. PICK base \in {128, 192} : base = 192
  OBVIOUS
<1>3. \/ ReadsShort(q, n, base, s, b)
      \/ \E k \in 1 .. 2 : ReadsLong(q, n, base, s, b, k)
  BY <1>2, ReadsPrefix DEF BytesOf
<1>4. CASE ReadsShort(q, n, base, s, b)
  <2>1. /\ n # 0 /\ len \in 0 .. 55 /\ At(q) = 192 + len
        /\ ShortForm(q, n, len) = Item(q, 1, len, q + 1)
        /\ b = q + 1 + len /\ Stands(q + 1, b, s)
    BY <1>1, <1>2, <1>4 DEF ReadsShort
  <2>2. ~(At(q) < 192) /\ At(q) <= 247 /\ At(q) - 192 = len
    BY <2>1
  <2>3. it = Item(q, 1, len, q + 1)
    BY <2>1, <2>2 DEF parse_rlp_list_header
  <2>4. it.ok /\ it.data = q + 1 /\ it.len = len
    BY <2>3 DEF Item
  <2> HIDE DEF it
  <2> QED
    BY <2>1, <2>4 DEF it
<1>5. CASE \E k \in 1 .. 2 : ReadsLong(q, n, base, s, b, k)
  <2>0. PICK k \in 1 .. 2 : ReadsLong(q, n, base, s, b, k)
    BY <1>5
  <2>1. /\ n # 0 /\ At(q) = 192 + 55 + k
        /\ LongForm(q, n, k) = Item(q, 1 + k, len, q + 1 + k)
        /\ b = q + (1 + k) + len /\ Stands(q + (1 + k), b, s)
    BY <1>1, <1>2, <2>0 DEF ReadsLong
  <2>2. ~(At(q) < 192) /\ ~(At(q) <= 247) /\ At(q) - 247 = k
    BY <2>1
  <2>3. it = Item(q, 1 + k, len, q + 1 + k)
    BY <2>1, <2>2 DEF parse_rlp_list_header
  <2>4. it.ok /\ it.data = q + (1 + k) /\ it.len = len
    BY <2>3 DEF Item
  <2> HIDE DEF it
  <2> QED
    BY <2>1, <2>4 DEF it
<1> QED
  BY <1>3, <1>4, <1>5

\* Named for the same reason.
NatSeq(s) == s \in Seq(Nat)

LEMMA NatSeqs ==
    ASSUME NEW s, NEW t, NatSeq(s), NatSeq(t)
    PROVE  NatSeq(s \o t)
BY ConcatProperties DEF NatSeq

LEMMA StandsInTwo ==
    ASSUME BytesIn, NEW a, NEW b, NEW s, NEW t, NatSeq(s), NatSeq(t), Stands(a, b, s \o t)
    PROVE  \E c : Stands(a, c, s) /\ Stands(c, b, t)
<1>1. Stands(a, a + Len(s), s) /\ Stands(a + Len(s), b, t)
  BY StandApart DEF NatSeq
<1> QED
  BY <1>1

\* Eleven encodings in a row, one by one.
LEMMA JoinedApart ==
    ASSUME BytesIn, NEW enc, \A f \in Fields : NatSeq(enc[f]), NEW a, NEW b,
           Stands(a, b, Joined(enc))
    PROVE  \E o : o[1] = a /\ o[12] = b /\ \A f \in Fields : Stands(o[f], o[f + 1], enc[f])
<1> DEFINE x2 == enc[1] \o enc[2]
           x3 == x2 \o enc[3]
           x4 == x3 \o enc[4]
           x5 == x4 \o enc[5]
           x6 == x5 \o enc[6]
           x7 == x6 \o enc[7]
           x8 == x7 \o enc[8]
           x9 == x8 \o enc[9]
           x10 == x9 \o enc[10]
           x11 == x10 \o enc[11]
<1>1. /\ NatSeq(enc[1]) /\ NatSeq(enc[2]) /\ NatSeq(enc[3]) /\ NatSeq(enc[4])
      /\ NatSeq(enc[5]) /\ NatSeq(enc[6]) /\ NatSeq(enc[7]) /\ NatSeq(enc[8])
      /\ NatSeq(enc[9]) /\ NatSeq(enc[10]) /\ NatSeq(enc[11])
  BY DEF Fields
<1>2. Stands(a, b, x11)
  BY Zenon DEF Joined
<1> HIDE DEF x2, x3, x4, x5, x6, x7, x8, x9, x10, x11
<1>3. NatSeq(x2)
  BY <1>1, NatSeqs DEF x2
<1>4. NatSeq(x3)
  BY <1>1, <1>3, NatSeqs DEF x3
<1>5. NatSeq(x4)
  BY <1>1, <1>4, NatSeqs DEF x4
<1>6. NatSeq(x5)
  BY <1>1, <1>5, NatSeqs DEF x5
<1>7. NatSeq(x6)
  BY <1>1, <1>6, NatSeqs DEF x6
<1>8. NatSeq(x7)
  BY <1>1, <1>7, NatSeqs DEF x7
<1>9. NatSeq(x8)
  BY <1>1, <1>8, NatSeqs DEF x8
<1>10. NatSeq(x9)
  BY <1>1, <1>9, NatSeqs DEF x9
<1>11. NatSeq(x10)
  BY <1>1, <1>10, NatSeqs DEF x10
<1>12. PICK o11 : Stands(a, o11, x10) /\ Stands(o11, b, enc[11])
  <2>1. Stands(a, b, x10 \o enc[11]) /\ NatSeq(x10) /\ NatSeq(enc[11])
    BY <1>1, <1>2, <1>11 DEF x11
  <2> QED
    BY <2>1, StandsInTwo, Zenon
<1>13. PICK o10 : Stands(a, o10, x9) /\ Stands(o10, o11, enc[10])
  <2>1. Stands(a, o11, x9 \o enc[10]) /\ NatSeq(x9) /\ NatSeq(enc[10])
    BY <1>1, <1>12, <1>10 DEF x10
  <2> QED
    BY <2>1, StandsInTwo, Zenon
<1>14. PICK o9 : Stands(a, o9, x8) /\ Stands(o9, o10, enc[9])
  <2>1. Stands(a, o10, x8 \o enc[9]) /\ NatSeq(x8) /\ NatSeq(enc[9])
    BY <1>1, <1>13, <1>9 DEF x9
  <2> QED
    BY <2>1, StandsInTwo, Zenon
<1>15. PICK o8 : Stands(a, o8, x7) /\ Stands(o8, o9, enc[8])
  <2>1. Stands(a, o9, x7 \o enc[8]) /\ NatSeq(x7) /\ NatSeq(enc[8])
    BY <1>1, <1>14, <1>8 DEF x8
  <2> QED
    BY <2>1, StandsInTwo, Zenon
<1>16. PICK o7 : Stands(a, o7, x6) /\ Stands(o7, o8, enc[7])
  <2>1. Stands(a, o8, x6 \o enc[7]) /\ NatSeq(x6) /\ NatSeq(enc[7])
    BY <1>1, <1>15, <1>7 DEF x7
  <2> QED
    BY <2>1, StandsInTwo, Zenon
<1>17. PICK o6 : Stands(a, o6, x5) /\ Stands(o6, o7, enc[6])
  <2>1. Stands(a, o7, x5 \o enc[6]) /\ NatSeq(x5) /\ NatSeq(enc[6])
    BY <1>1, <1>16, <1>6 DEF x6
  <2> QED
    BY <2>1, StandsInTwo, Zenon
<1>18. PICK o5 : Stands(a, o5, x4) /\ Stands(o5, o6, enc[5])
  <2>1. Stands(a, o6, x4 \o enc[5]) /\ NatSeq(x4) /\ NatSeq(enc[5])
    BY <1>1, <1>17, <1>5 DEF x5
  <2> QED
    BY <2>1, StandsInTwo, Zenon
<1>19. PICK o4 : Stands(a, o4, x3) /\ Stands(o4, o5, enc[4])
  <2>1. Stands(a, o5, x3 \o enc[4]) /\ NatSeq(x3) /\ NatSeq(enc[4])
    BY <1>1, <1>18, <1>4 DEF x4
  <2> QED
    BY <2>1, StandsInTwo, Zenon
<1>20. PICK o3 : Stands(a, o3, x2) /\ Stands(o3, o4, enc[3])
  <2>1. Stands(a, o4, x2 \o enc[3]) /\ NatSeq(x2) /\ NatSeq(enc[3])
    BY <1>1, <1>19, <1>3 DEF x3
  <2> QED
    BY <2>1, StandsInTwo, Zenon
<1>21. PICK o2 : Stands(a, o2, enc[1]) /\ Stands(o2, o3, enc[2])
  <2>1. Stands(a, o3, enc[1] \o enc[2]) /\ NatSeq(enc[1]) /\ NatSeq(enc[2])
    BY <1>1, <1>20 DEF x2
  <2> QED
    BY <2>1, StandsInTwo, Zenon
<1> DEFINE o == <<a, o2, o3, o4, o5, o6, o7, o8, o9, o10, o11, b>>
<1>22. /\ o[1] = a /\ o[2] = o2 /\ o[3] = o3 /\ o[4] = o4 /\ o[5] = o5 /\ o[6] = o6
       /\ o[7] = o7 /\ o[8] = o8 /\ o[9] = o9 /\ o[10] = o10 /\ o[11] = o11 /\ o[12] = b
  OBVIOUS
<1> HIDE DEF o
<1>23. ASSUME NEW f \in Fields
       PROVE  Stands(o[f], o[f + 1], enc[f])
  <2>0. f = 1 \/ f = 2 \/ f = 3 \/ f = 4 \/ f = 5 \/ f = 6 \/ f = 7 \/ f = 8 \/ f = 9 \/ f = 10 \/ f = 11
    BY DEF Fields
  <2>1. CASE f = 1
    <3>1. f + 1 = 2 /\ o[1] = a /\ o[2] = o2
      BY <2>1, <1>22
    <3> QED
      BY <2>1, <1>21, <3>1, Zenon
  <2>2. CASE f = 2
    <3>1. f + 1 = 3 /\ o[2] = o2 /\ o[3] = o3
      BY <2>2, <1>22
    <3> QED
      BY <2>2, <1>21, <3>1, Zenon
  <2>3. CASE f = 3
    <3>1. f + 1 = 4 /\ o[3] = o3 /\ o[4] = o4
      BY <2>3, <1>22
    <3> QED
      BY <2>3, <1>20, <3>1, Zenon
  <2>4. CASE f = 4
    <3>1. f + 1 = 5 /\ o[4] = o4 /\ o[5] = o5
      BY <2>4, <1>22
    <3> QED
      BY <2>4, <1>19, <3>1, Zenon
  <2>5. CASE f = 5
    <3>1. f + 1 = 6 /\ o[5] = o5 /\ o[6] = o6
      BY <2>5, <1>22
    <3> QED
      BY <2>5, <1>18, <3>1, Zenon
  <2>6. CASE f = 6
    <3>1. f + 1 = 7 /\ o[6] = o6 /\ o[7] = o7
      BY <2>6, <1>22
    <3> QED
      BY <2>6, <1>17, <3>1, Zenon
  <2>7. CASE f = 7
    <3>1. f + 1 = 8 /\ o[7] = o7 /\ o[8] = o8
      BY <2>7, <1>22
    <3> QED
      BY <2>7, <1>16, <3>1, Zenon
  <2>8. CASE f = 8
    <3>1. f + 1 = 9 /\ o[8] = o8 /\ o[9] = o9
      BY <2>8, <1>22
    <3> QED
      BY <2>8, <1>15, <3>1, Zenon
  <2>9. CASE f = 9
    <3>1. f + 1 = 10 /\ o[9] = o9 /\ o[10] = o10
      BY <2>9, <1>22
    <3> QED
      BY <2>9, <1>14, <3>1, Zenon
  <2>10. CASE f = 10
    <3>1. f + 1 = 11 /\ o[10] = o10 /\ o[11] = o11
      BY <2>10, <1>22
    <3> QED
      BY <2>10, <1>13, <3>1, Zenon
  <2>11. CASE f = 11
    <3>1. f + 1 = 12 /\ o[11] = o11 /\ o[12] = b
      BY <2>11, <1>22
    <3> QED
      BY <2>11, <1>12, <3>1, Zenon
  <2> QED
    BY <2>0, <2>1, <2>2, <2>3, <2>4, <2>5, <2>6, <2>7, <2>8, <2>9, <2>10, <2>11
<1> QED
  BY <1>22, <1>23
-----------------------------------------------------------------------------
(* No preimage is refused *)

\* The input is the preimage of t, whose field f stands from o[f] to o[f + 1].
Laid(t, o) ==
    LET header == parse_rlp_list_header(1, Len(rlp) - 1) IN
    /\ Len(rlp) # 0 /\ At(0) = 2
    /\ header.ok /\ header.data = o[1] /\ header.data + header.len = Len(rlp)
    /\ o[12] = Len(rlp)
    /\ \A f \in Fields : Stands(o[f], o[f + 1], Encode(f = AccessListField, t[f]))

LEMMA PreimageIsLaid ==
    ASSUME Short, NEW t, Legal(t), rlp = Preimage(t)
    PROVE  \E o : Laid(t, o)
<1> DEFINE enc == [f \in Fields |-> Encode(f = AccessListField, t[f])]
           c == Joined(enc)
           n == Len(rlp) - 1
           header == parse_rlp_list_header(1, n)
<1>0. BytesIn /\ Len(rlp) \in Nat
  BY DEF Short
<1>1. ASSUME NEW f \in Fields PROVE NatSeq(enc[f])
  <2>1. t[f] \in Seq(Byte) /\ (f = AccessListField) \in BOOLEAN
    BY DEF Legal
  <2> QED
    BY <2>1, EncodeIsNat DEF NatSeq
<1> HIDE DEF enc
<1>2. NatSeq(c)
  <2>1. /\ NatSeq(enc[1]) /\ NatSeq(enc[2]) /\ NatSeq(enc[3]) /\ NatSeq(enc[4])
        /\ NatSeq(enc[5]) /\ NatSeq(enc[6]) /\ NatSeq(enc[7]) /\ NatSeq(enc[8])
        /\ NatSeq(enc[9]) /\ NatSeq(enc[10]) /\ NatSeq(enc[11])
    BY <1>1 DEF Fields
  <2> QED
    BY <2>1, NatSeqs DEF Joined
<1>3. rlp = <<2>> \o (Prefix(192, Len(c)) \o c)
  BY Zenon DEF Preimage, EncodeList, enc
<1> HIDE DEF c
<1>4. NatSeq(Prefix(192, Len(c))) /\ NatSeq(<<2>>)
  <2>1. Len(c) \in Nat
    BY <1>2, LenProperties DEF NatSeq
  <2>2. Prefix(192, Len(c)) \in Seq(Nat)
    BY <2>1, PrefixIsNat
  <2> QED
    BY <2>2 DEF NatSeq
<1>5. Stands(0, Len(rlp), rlp)
  <2>1. 0 \in Nat /\ 0 + Len(rlp) = Len(rlp) /\ 0 <= Len(rlp)
    BY <1>0
  <2>2. rlp \in Seq(Byte)
    BY <1>0 DEF BytesIn
  <2>3. ASSUME NEW i \in 1 .. Len(rlp) PROVE rlp[i] = At(0 + i - 1)
    <3>1. 0 + i - 1 < Len(rlp) /\ (0 + i - 1) + 1 = i
      BY <1>0
    <3> QED
      BY <3>1 DEF At
  <2>4. Piece(0, 0 + Len(rlp)) = rlp
    BY <1>0, <2>1, <2>2, <2>3, PieceOf
  <2> QED
    BY <1>0, <2>1, <2>4 DEF Stands
<1>6. PICK d : Stands(0, d, <<2>>) /\ Stands(d, Len(rlp), Prefix(192, Len(c)) \o c)
  <2>1. NatSeq(Prefix(192, Len(c)) \o c)
    BY <1>2, <1>4, NatSeqs
  <2>2. Stands(0, Len(rlp), <<2>> \o (Prefix(192, Len(c)) \o c))
    BY <1>3, <1>5
  <2> QED
    BY <1>0, <1>4, <2>1, <2>2, StandsInTwo
<1>7. d = 1 /\ At(0) = 2 /\ Len(rlp) # 0 /\ n \in Nat /\ Rest(1, n)
  <2>1. d \in Nat /\ d <= Len(rlp) /\ Len(<<2>>) = d - 0
    BY <1>0, <1>6, StandsIs
  <2>2. Len(<<2>>) = 1 /\ <<2>>[1] = 2
    OBVIOUS
  <2>3. d = 1
    BY <2>1, <2>2
  <2>4. 0 < d
    BY <2>3
  <2>5. <<2>>[1] = At(0)
    BY <1>0, <1>6, <2>4, FirstByte
  <2>6. Len(rlp) # 0 /\ n \in Nat /\ Rest(1, n)
    BY <1>0, <2>1, <2>3 DEF Rest
  <2> QED
    BY <2>2, <2>3, <2>5, <2>6
<1> HIDE DEF n
<1>8. Stands(1, Len(rlp), Prefix(192, Len(c)) \o c)
  BY <1>6, <1>7
<1>9. BytesOf(c)
  <2>1. PICK h : Stands(h, Len(rlp), c)
    BY <1>0, <1>2, <1>4, <1>8, StandsInTwo
  <2> QED
    BY <1>0, <2>1, StandsIs DEF BytesOf
<1>10. header.ok /\ header.data + header.len = Len(rlp) /\ Stands(header.data, Len(rlp), c)
  BY <1>7, <1>8, <1>9, HeaderReads
<1> HIDE DEF header
<1>11. PICK o : /\ o[1] = header.data /\ o[12] = Len(rlp)
                /\ \A f \in Fields : Stands(o[f], o[f + 1], enc[f])
  BY <1>0, <1>1, <1>10, JoinedApart DEF c
<1>12. \A f \in Fields : Stands(o[f], o[f + 1], Encode(f = AccessListField, t[f]))
  BY <1>11 DEF enc
<1>13. Laid(t, o)
  BY <1>7, <1>10, <1>11, <1>12, Zenon DEF Laid, header, n
<1> QED
  BY <1>13

\* The decoder is at the field whose number it has, and has rejected nothing.
OnTrack(o) ==
    /\ status # "rejected"
    /\ field > 0 => p = o[field] /\ end = Len(rlp)

TrackInv ==
    /\ Short
    /\ \A t \in Transactions : \A o : Laid(t, o) => OnTrack(o)

\* What parse_rlp_item returns there.
LEMMA FieldIsRead ==
    ASSUME DecodeInv, TrackInv, NEW t \in Transactions, NEW o, Laid(t, o), field \in Fields
    PROVE  /\ ReadsItem(parse_rlp_item(p, remaining), p, t[field], o[field + 1])
           /\ ListAt(p) <=> field = AccessListField
<1> DEFINE l == (field = AccessListField)
<1>1. p \in Nat /\ remaining \in Nat /\ Rest(p, remaining) /\ Short
  BY DEF DecodeInv, Typed, MemorySafe, Rest, TrackInv
<1>2. p = o[field]
  BY DEF TrackInv, OnTrack, Fields
<1>3. Stands(p, o[field + 1], Encode(l, t[field]))
  BY <1>2, Zenon DEF Laid
<1>4. BytesOf(t[field])
  BY TransactionsAreLegal DEF Legal, BytesOf
<1>5. l \in BOOLEAN
  OBVIOUS
<1> HIDE DEF l
<1>6. /\ ReadsItem(parse_rlp_item(p, remaining), p, t[field], o[field + 1])
      /\ ListAt(p) <=> l
  BY <1>1, <1>3, <1>4, <1>5, ItemReads
<1> QED
  BY <1>6 DEF l

\* No field of a legal transaction is rejected.
LEMMA FieldIsTaken ==
    ASSUME DecodeInv, TrackInv, NEW t \in Transactions, NEW o, Laid(t, o), field \in Fields, Next
    PROVE  Takes /\ status' = "decoding"
<1> DEFINE it == parse_rlp_item(p, remaining)
           c == t[field]
<1>0. Legal(t)
  BY TransactionsAreLegal
<1>1. c \in Seq(Byte) /\ Len(c) \in Nat
  BY <1>0, LenProperties DEF Legal
<1>2. it.ok /\ it.len = Len(c) /\ Content(it) = c
  BY FieldIsRead DEF ReadsItem
<1>3. ListAt(p) <=> field = AccessListField
  BY FieldIsRead
<1>4. /\ Sound(it, p, remaining) /\ BytesIn
      /\ p + remaining = Len(rlp) /\ p \in Nat /\ remaining \in Nat
  BY ItemsAreSound
<1> HIDE DEF it
<1>5. ASSUME NEW copy, status = "decoding", Copy(it, copy) \/ Skip(it, copy)
      PROVE  Takes /\ status' = "decoding"
  BY <1>2, <1>5 DEF Copy, Skip, Take, Takes, it
<1>6. CASE Start
  BY <1>6 DEF Start, Fields
<1>7. CASE Scalar
  <2>1. /\ status = "decoding" /\ field \in ScalarFields
        /\ IF ~it.ok \/ it.len > Capacity(field) THEN Reject(it.seen)
           ELSE IF it.len > 0 /\ At(it.data) = 0 THEN Reject(it.data + 1)
           ELSE Copy(it, Content(it))
    BY <1>7 DEF Scalar, it
  <2>2. Len(c) <= Capacity(field) /\ (Len(c) > 0 => c[1] # 0)
    BY <1>0, <2>1 DEF Legal
  <2>3. Capacity(field) \in Nat
    BY <2>1 DEF Capacity, ScalarFields, MAX_FIELD_SIZE, ADDRESS_LENGTH
  <2>4. it.len \in Nat /\ it.data \in Nat
    BY <1>4 DEF Sound
  <2>5. ~(it.len > Capacity(field))
    BY <1>2, <2>2, <2>3, <2>4
  <2>6. ~(it.len > 0 /\ At(it.data) = 0)
    <3> SUFFICES ASSUME it.len > 0
                 PROVE  At(it.data) # 0
      OBVIOUS
    <3>1. 1 \in 1 .. it.len /\ it.data + 1 - 1 = it.data
      BY <2>4
    <3>2. Content(it)[1] = At(it.data)
      BY <3>1 DEF Content
    <3>3. c[1] # 0
      BY <1>2, <2>2
    <3> QED
      BY <1>2, <3>2, <3>3
  <2>7. Copy(it, Content(it))
    BY <1>2, <2>1, <2>5, <2>6
  <2> QED
    BY <1>5, <2>1, <2>7
<1>8. CASE To
  <2>1. /\ status = "decoding" /\ field = ToField
        /\ IF ~it.ok \/ it.len \notin {ADDRESS_LENGTH, 0} THEN Reject(it.seen)
           ELSE Copy(it, IF it.len = 0 THEN ZeroAddress ELSE Content(it))
    BY <1>8 DEF To, it
  <2>2. Len(c) \in {0, ADDRESS_LENGTH}
    BY <1>0, <2>1, Zenon DEF Legal
  <2>3. it.len \in {ADDRESS_LENGTH, 0}
    BY <1>2, <2>2
  <2>4. Copy(it, IF it.len = 0 THEN ZeroAddress ELSE Content(it))
    BY <1>2, <2>1, <2>3, Zenon
  <2> QED
    BY <1>5, <2>1, <2>4
<1>9. CASE Opaque
  <2>1. /\ status = "decoding"
        /\ IF remaining = 0 THEN Reject(p)
           ELSE IF (At(p) >= 192) # (field = AccessListField) THEN Reject(p + 1)
           ELSE IF ~it.ok THEN Reject(it.seen)
                ELSE Skip(it, <<IF it.len # 0 THEN 1 ELSE 0>>)
    BY <1>9 DEF Opaque, it
  <2>2. remaining # 0
    BY <1>2, <1>4 DEF it, parse_rlp_item, NoItem
  <2>3. (At(p) >= 192) = (field = AccessListField)
    BY <1>3 DEF ListAt
  <2>4. Skip(it, <<IF it.len # 0 THEN 1 ELSE 0>>)
    BY <1>2, <2>1, <2>2, <2>3
  <2> QED
    BY <1>5, <2>1, <2>4
<1>10. CASE Descriptor
  <2>1. /\ status = "decoding" /\ field = DescriptorField
        /\ IF ~it.ok \/ it.len # 3 THEN Reject(it.seen)
           ELSE IF Content(it) # MLDSA87Descriptor THEN Reject(it.data + 3)
           ELSE Copy(it, Content(it))
    BY <1>10 DEF Descriptor, it
  <2>2. c = MLDSA87Descriptor
    BY <1>0, <2>1, Zenon DEF Legal
  <2>3. Len(MLDSA87Descriptor) = 3
    BY DEF MLDSA87Descriptor
  <2>4. Copy(it, Content(it))
    BY <1>2, <2>1, <2>2, <2>3
  <2> QED
    BY <1>5, <2>1, <2>4
<1>11. CASE ExtraParams
  <2>1. /\ status = "decoding" /\ field = ExtraParamsField
        /\ IF ~it.ok \/ it.len # 0 THEN Reject(it.seen) ELSE Skip(it, <<>>)
    BY <1>11 DEF ExtraParams, it
  <2>2. c = <<>>
    BY <1>0, <2>1, Zenon DEF Legal
  <2>3. it.len = 0
    BY <1>2, <2>2
  <2>4. Skip(it, <<>>)
    BY <1>2, <2>1, <2>3
  <2> QED
    BY <1>5, <2>1, <2>4
<1>12. CASE Finish
  BY <1>12 DEF Finish, Fields
<1> QED
  BY <1>6, <1>7, <1>8, <1>9, <1>10, <1>11, <1>12 DEF Next

LEMMA TrackStep ==
    ASSUME DecodeInv, TrackInv, Next, NEW t \in Transactions, NEW o, Laid(t, o)
    PROVE  OnTrack(o)' /\ rlp' = rlp
<1>0. OnTrack(o) /\ field \in 0 .. 12 /\ p \in Nat
  BY DEF TrackInv, DecodeInv, Typed
<1>1. CASE field = 0
  <2> DEFINE header == parse_rlp_list_header(1, Len(rlp) - 1)
  <2>1. Start
    BY <1>1 DEF Next, Scalar, To, Opaque, Descriptor, ExtraParams, Finish, ScalarFields, ToField,
                DataField, AccessListField, DescriptorField, ExtraParamsField
  <2>2. Len(rlp) # 0 /\ At(0) = 2 /\ header.ok /\ header.data = o[1]
        /\ header.data + header.len = Len(rlp)
    BY Zenon DEF Laid
  <2>3. /\ status = "decoding" /\ UNCHANGED <<rlp, status>>
        /\ p' = header.data /\ end' = header.data + header.len /\ field' = 1
    BY <2>1, <2>2, Zenon DEF Start
  <2> QED
    BY <2>2, <2>3 DEF OnTrack
<1>2. CASE field \in Fields
  <2> DEFINE it == parse_rlp_item(p, remaining)
  <2>1. Takes /\ status' = "decoding"
    BY <1>2, FieldIsTaken
  <2>2. p + it.consumed = o[field + 1]
    BY <1>2, FieldIsRead DEF ReadsItem
  <2>3. p' = p + it.consumed /\ field' = field + 1 /\ end' = end /\ rlp' = rlp
    BY <2>1 DEF Takes
  <2>4. end = Len(rlp)
    BY <1>0, <1>2 DEF OnTrack, Fields
  <2>5. p' = o[field'] /\ end' = Len(rlp')
    BY <2>2, <2>3, <2>4, Zenon
  <2> QED
    BY <2>1, <2>3, <2>5 DEF OnTrack
<1>3. CASE field = 12
  <2>1. Finish
    BY <1>3 DEF Next, Start, Scalar, To, Opaque, Descriptor, ExtraParams, ScalarFields, ToField,
                DataField, AccessListField, DescriptorField, ExtraParamsField
  <2>2. p = o[12] /\ end = Len(rlp) /\ o[12] = Len(rlp)
    BY <1>0, <1>3 DEF OnTrack, Laid
  <2>3. status' = "accepted" /\ UNCHANGED <<rlp, p, end, field>>
    BY <2>1, <2>2 DEF Finish
  <2> QED
    BY <1>3, <2>2, <2>3 DEF OnTrack
<1> QED
  BY <1>0, <1>1, <1>2, <1>3 DEF Fields

\* With the same input, the same layout.
LEMMA SameLayout ==
    ASSUME rlp' = rlp, NEW t, NEW o
    PROVE  Laid(t, o)' <=> Laid(t, o)
<1>1. ASSUME NEW q, NEW n PROVE LengthAt(q, n)' = LengthAt(q, n)
  BY DEF LengthAt, At
<1>2. ASSUME NEW i PROVE At(i)' = At(i)
  BY DEF At
<1>3. ASSUME NEW q, NEW n, NEW k PROVE LongForm(q, n, k)' = LongForm(q, n, k)
  BY <1>1, <1>2 DEF LongForm
<1>4. ASSUME NEW q, NEW n PROVE parse_rlp_list_header(q, n)' = parse_rlp_list_header(q, n)
  BY <1>2, <1>3 DEF parse_rlp_list_header, ShortForm
<1>5. ASSUME NEW a, NEW b, NEW s PROVE Stands(a, b, s)' <=> Stands(a, b, s)
  BY DEF Stands, Piece
<1>6. parse_rlp_list_header(1, Len(rlp) - 1)' = parse_rlp_list_header(1, Len(rlp) - 1)
  BY <1>4
<1> QED
  BY <1>2, <1>5, <1>6 DEF Laid

\* The preimage of a transaction whose fields fit, of whatever lengths, is never
\* refused by decode_ledger_tx.
THEOREM NoPreimageIsRefused == Spec => []AcceptsEveryPreimage
<1>1. Init => TrackInv
  <2> SUFFICES ASSUME Init
               PROVE  TrackInv
    OBVIOUS
  <2>1. Short
    BY EncodedStart DEF EncodedInv
  <2>2. status # "rejected" /\ field = 0
    BY DEF Init
  <2> QED
    BY <2>1, <2>2 DEF TrackInv, OnTrack
<1>2. DecodeInv /\ TrackInv /\ [Next]_vars => TrackInv'
  <2> SUFFICES ASSUME DecodeInv, TrackInv, [Next]_vars
               PROVE  TrackInv'
    OBVIOUS
  <2>1. CASE Next
    <3>1. rlp' = rlp
      BY <2>1, StepsOfTheDecoder DEF Stays, Opens, Takes
    <3>2. Short'
      BY <3>1 DEF TrackInv, Short, BytesIn
    <3>3. ASSUME NEW t \in Transactions, NEW o, Laid(t, o)'
          PROVE  OnTrack(o)'
      <4>1. Laid(t, o)
        BY <3>1, <3>3, SameLayout
      <4> QED
        BY <2>1, <4>1, TrackStep
    <3> QED
      BY <3>2, <3>3 DEF TrackInv
  <2>2. CASE UNCHANGED vars
    <3>1. rlp' = rlp /\ status' = status /\ field' = field /\ p' = p /\ end' = end
      BY <2>2 DEF vars
    <3>2. Short'
      BY <3>1 DEF TrackInv, Short, BytesIn
    <3>3. ASSUME NEW t \in Transactions, NEW o, Laid(t, o)'
          PROVE  OnTrack(o)'
      <4>1. Laid(t, o)
        BY <3>1, <3>3, SameLayout
      <4> QED
        BY <3>1, <4>1 DEF TrackInv, OnTrack
    <3> QED
      BY <3>2, <3>3 DEF TrackInv
  <2> QED
    BY <2>1, <2>2
<1>3. TrackInv => AcceptsEveryPreimage
  <2> SUFFICES ASSUME TrackInv, NEW t \in Transactions, rlp = Preimage(t)
               PROVE  status # "rejected"
    BY DEF AcceptsEveryPreimage, Preimages
  <2>1. Legal(t)
    BY TransactionsAreLegal
  <2>2. PICK o : Laid(t, o)
    BY <2>1, PreimageIsLaid DEF TrackInv
  <2> QED
    BY <2>2 DEF TrackInv, OnTrack
<1> QED
  BY <1>1, <1>2, <1>3, DecodeCorrect, PTL DEF Spec
=============================================================================
