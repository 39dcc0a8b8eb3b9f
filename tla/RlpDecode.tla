----------------------------- MODULE RlpDecode -----------------------------
(***************************************************************************)
(* decode_ledger_tx (mldsa87/rlp_decode.c): the decoder of the signing     *)
(* preimage 0x02 || rlp([eleven items]).  It runs on the bytes the host    *)
(* sent, one item after the other, and copies the scalars and the          *)
(* recipient into a zond_tx_t.                                             *)
(*                                                                         *)
(* Bytes, prefixes and offsets are those of the code (offsets count from   *)
(* 0).  A length is read from up to eight bytes into a size_t of SizeBytes *)
(* bytes: four on the device, eight in the host builds that run the unit   *)
(* tests and the fuzzers.  Every length of 65536 or more is Huge: no input *)
(* is that long, so the comparisons of the code cannot tell them apart.    *)
(***************************************************************************)
EXTENDS Integers, Sequences

CONSTANTS Inputs,        \* the byte strings the host may send
          Transactions,  \* transactions, as the contents of their 11 fields
          SizeBytes      \* sizeof(size_t)

Byte == 0 .. 255
Huge == 65536

ASSUME InputsAreBytes == \A r \in Inputs : r \in Seq(Byte) /\ Len(r) < Huge
ASSUME SizeIsWide == SizeBytes \in Nat /\ SizeBytes >= 2

VARIABLES rlp,        \* the input; rlp_len is its length
          p,          \* offset of the next item
          remaining,  \* bytes the code believes are left at p
          end,        \* payload_end, as an offset
          field,      \* number of the next field; 0 before the list header
          tx,         \* zond_tx_t: what was copied for each field
          items,      \* history: where each item was found, and its bytes
          seen,       \* history: one past the last offset that was read
          status      \* "decoding", "accepted" or "rejected"

vars == <<rlp, p, remaining, end, field, tx, items, seen, status>>

-----------------------------------------------------------------------------
(* The fields of the list *)

ScalarFields == {1, 2, 3, 4, 5, 7}
ToField == 6
DataField == 8
AccessListField == 9
DescriptorField == 10
ExtraParamsField == 11

ADDRESS_LENGTH == 64
MAX_FIELD_SIZE == 32

\* The arrays of zond_tx_t: chain_id, nonce, gas_tip_cap, gas_fee_cap, gas,
\* to, value; data and access_list keep one flag each; descriptor.
Capacity(f) == <<MAX_FIELD_SIZE, 8, MAX_FIELD_SIZE, MAX_FIELD_SIZE, 8,
                 ADDRESS_LENGTH, MAX_FIELD_SIZE, 1, 1, 3, 1>>[f]

Fields == 1 .. 11
ZeroAddress == [i \in 1 .. ADDRESS_LENGTH |-> 0]
MLDSA87Descriptor == <<1, 0, 0>>

\* A transaction whose fields fit: integers that fill their arrays at most and have
\* no leading zero, a recipient or none, the descriptor of ML-DSA-87, no extra_params.
Legal(t) ==
    /\ t \in [Fields -> Seq(Byte)]
    /\ \A f \in ScalarFields : Len(t[f]) <= Capacity(f) /\ (Len(t[f]) > 0 => t[f][1] # 0)
    /\ Len(t[ToField]) \in {0, ADDRESS_LENGTH}
    /\ t[DescriptorField] = MLDSA87Descriptor
    /\ t[ExtraParamsField] = <<>>

ASSUME TransactionsAreLegal == \A t \in Transactions : Legal(t)

-----------------------------------------------------------------------------
(* Items *)

\* The byte at an offset.  Behind the input raw_tx holds what earlier
\* transactions left there; MemorySafe says that it is never looked at.
Left == 0
At(i) == IF i < Len(rlp) THEN rlp[i + 1] ELSE Left

\* An item, or a header, that starts at q: h header bytes and len bytes of
\* content, of which the first s bytes have been looked at.  NoItem(s) stands
\* for the negative returns.
Item(q, h, len, s) == [ok |-> TRUE, data |-> q + h, len |-> len,
                       consumed |-> h + len, seen |-> s]
NoItem(s) == [ok |-> FALSE, data |-> 0, len |-> 0, consumed |-> 0, seen |-> s]

\* The loop len = (len << 8) | input[1 + i] over the n bytes after offset q, in
\* a size_t: bytes shifted out on the left are lost.
LengthAt(q, n) ==
    LET first == IF n > SizeBytes THEN n - SizeBytes + 1 ELSE 1
        byte(i) == IF i >= first THEN At(q + i) ELSE 0
    IN  IF \E i \in 1 .. n - 2 : byte(i) # 0
        THEN Huge
        ELSE byte(n) + (IF n > 1 THEN 256 * byte(n - 1) ELSE 0)

\* The length is in the prefix.
ShortForm(q, n, len) ==
    IF len > n - 1 THEN NoItem(q + 1) ELSE Item(q, 1, len, q + 1)

\* Mutant: lengths below 56 may use the long form.
LongFormAnyLength(q, n, k) ==
    IF k > n - 1 THEN NoItem(q + 1)
    ELSE IF At(q + 1) = 0 THEN NoItem(q + 2)
    ELSE LET len == LengthAt(q, k)
             s   == q + 1 + k
         IN  IF len > n - 1 - k
             THEN NoItem(s)
             ELSE Item(q, 1 + k, len, s)

\* Mutant: off by one in both comparisons.
LongFormStrict(q, n, k) ==
    IF k > n - 1 THEN NoItem(q + 1)
    ELSE IF At(q + 1) = 0 THEN NoItem(q + 2)
    ELSE LET len == LengthAt(q, k)
             s   == q + 1 + k
         IN  IF len >= n - 1 - k \/ len <= 56
             THEN NoItem(s)
             ELSE Item(q, 1 + k, len, s)

\* The prefix says that the length is in the next k bytes.
LongForm(q, n, k) ==
    IF k > n - 1 THEN NoItem(q + 1)
    ELSE IF At(q + 1) = 0 THEN NoItem(q + 2)
    ELSE LET len == LengthAt(q, k)
             s   == q + 1 + k
         IN  IF len > n - 1 - k \/ len < 56
             THEN NoItem(s)
             ELSE Item(q, 1 + k, len, s)

\* parse_rlp_item(input = q, input_len = n)
parse_rlp_item(q, n) ==
    IF n = 0 THEN NoItem(q)
    ELSE LET prefix == At(q) IN
         IF prefix <= 127 THEN Item(q, 0, 1, q + 1)
         ELSE IF prefix <= 183
              THEN LET it == ShortForm(q, n, prefix - 128)
                   IN  IF it.ok /\ it.len = 1
                       THEN IF At(q + 1) < 128 THEN NoItem(q + 2)
                                               ELSE [it EXCEPT !.seen = q + 2]
                       ELSE it
         ELSE IF prefix <= 191 THEN LongForm(q, n, prefix - 183)
         ELSE IF prefix <= 247 THEN ShortForm(q, n, prefix - 192)
         ELSE LongForm(q, n, prefix - 247)

parse_rlp_list_header(q, n) ==
    IF n = 0 THEN NoItem(q)
    ELSE LET prefix == At(q) IN
         IF prefix < 192 THEN NoItem(q + 1)
         ELSE IF prefix <= 247 THEN ShortForm(q, n, prefix - 192)
         ELSE LongForm(q, n, prefix - 247)

Content(it) == [i \in 1 .. it.len |-> At(it.data + i - 1)]

-----------------------------------------------------------------------------
(* The decoder *)

Init ==
    /\ rlp \in Inputs
    /\ p = 0
    /\ remaining = Len(rlp)
    /\ end = 0
    /\ field = 0
    /\ tx = [f \in Fields |-> <<>>]
    /\ items = <<>>
    /\ seen = 0
    /\ status = "decoding"

MaxOf(a, b) == IF a > b THEN a ELSE b

\* A return of -1 after the bytes before offset s have been looked at.
Reject(s) ==
    /\ status' = "rejected"
    /\ seen' = MaxOf(seen, s)
    /\ UNCHANGED <<rlp, p, remaining, end, field, tx, items>>

\* The item is taken, its copy goes to the field's array, and p and remaining
\* advance.
Take(it, copy) ==
    /\ tx' = [tx EXCEPT ![field] = copy]
    /\ items' = Append(items, [at |-> p, next |-> p + it.consumed,
                               list |-> At(p) >= 192, bytes |-> Content(it)])
    /\ p' = p + it.consumed
    /\ remaining' = remaining - it.consumed
    /\ field' = field + 1
    /\ UNCHANGED <<rlp, end, status>>

\* Taken with its content read, and taken without.
Copy(it, copy) == Take(it, copy) /\ seen' = MaxOf(seen, it.data + it.len)
Skip(it, copy) == Take(it, copy) /\ seen' = MaxOf(seen, it.seen)

\* Type byte and list header.
Start ==
    /\ status = "decoding" /\ field = 0
    /\ IF Len(rlp) = 0 THEN Reject(0)
       ELSE IF At(0) # 2 THEN Reject(1)
       ELSE LET header == parse_rlp_list_header(1, Len(rlp) - 1) IN
            IF ~header.ok THEN Reject(header.seen)
            ELSE /\ p' = header.data
                 /\ end' = header.data + header.len
                 /\ remaining' = Len(rlp) - header.data
                 /\ seen' = MaxOf(seen, header.seen)
                 /\ field' = 1
                 /\ UNCHANGED <<rlp, tx, items, status>>

\* Mutant: nonce and gas are bounded like the other integers.
ScalarUnbounded ==
    /\ status = "decoding" /\ field \in ScalarFields
    /\ LET it == parse_rlp_item(p, remaining) IN
       IF ~it.ok \/ it.len > MAX_FIELD_SIZE THEN Reject(it.seen)
       ELSE IF it.len > 0 /\ At(it.data) = 0 THEN Reject(it.data + 1)
       ELSE Copy(it, Content(it))

\* chain_id, nonce, gas_tip_cap, gas_fee_cap, gas and value: at most Capacity
\* bytes, without a leading zero.
Scalar ==
    /\ status = "decoding" /\ field \in ScalarFields
    /\ LET it == parse_rlp_item(p, remaining) IN
       IF ~it.ok \/ it.len > Capacity(field) THEN Reject(it.seen)
       ELSE IF it.len > 0 /\ At(it.data) = 0 THEN Reject(it.data + 1)
       ELSE Copy(it, Content(it))

\* to: the array is zeroed first, so an empty recipient leaves 64 zeros.
To ==
    /\ status = "decoding" /\ field = ToField
    /\ LET it == parse_rlp_item(p, remaining) IN
       IF ~it.ok \/ it.len \notin {ADDRESS_LENGTH, 0} THEN Reject(it.seen)
       ELSE Copy(it, IF it.len = 0 THEN ZeroAddress ELSE Content(it))

\* data and access_list: a string and a list; only has_data and
\* has_access_list are kept.
Opaque ==
    /\ status = "decoding" /\ field \in {DataField, AccessListField}
    /\ IF remaining = 0 THEN Reject(p)
       ELSE IF (At(p) >= 192) # (field = AccessListField) THEN Reject(p + 1)
       ELSE LET it == parse_rlp_item(p, remaining) IN
            IF ~it.ok THEN Reject(it.seen)
            ELSE Skip(it, <<IF it.len # 0 THEN 1 ELSE 0>>)

Descriptor ==
    /\ status = "decoding" /\ field = DescriptorField
    /\ LET it == parse_rlp_item(p, remaining) IN
       IF ~it.ok \/ it.len # 3 THEN Reject(it.seen)
       ELSE IF Content(it) # MLDSA87Descriptor THEN Reject(it.data + 3)
       ELSE Copy(it, Content(it))

\* extra_params; then the items must end where the list does.
ExtraParams ==
    /\ status = "decoding" /\ field = ExtraParamsField
    /\ LET it == parse_rlp_item(p, remaining) IN
       IF ~it.ok \/ it.len # 0 THEN Reject(it.seen)
       ELSE Skip(it, <<>>)

\* Mutant: the items may also end behind the list.
FinishBehind ==
    /\ status = "decoding" /\ field = 12
    /\ status' = IF p >= end THEN "accepted" ELSE "rejected"
    /\ UNCHANGED <<rlp, p, remaining, end, field, tx, items, seen>>

Finish ==
    /\ status = "decoding" /\ field = 12
    /\ status' = IF p = end THEN "accepted" ELSE "rejected"
    /\ UNCHANGED <<rlp, p, remaining, end, field, tx, items, seen>>

Next == Start \/ Scalar \/ To \/ Opaque \/ Descriptor \/ ExtraParams \/ Finish

Spec == Init /\ [][Next]_vars

-----------------------------------------------------------------------------
(* The encoding, as RLP defines it *)

Prefix(base, n) ==
    IF n < 56 THEN <<base + n>>
    ELSE IF n < 256 THEN <<base + 56, n>>
    ELSE <<base + 57, n \div 256, n % 256>>

EncodeList(bytes) == Prefix(192, Len(bytes)) \o bytes
EncodeString(bytes) == IF Len(bytes) = 1 /\ bytes[1] < 128
                       THEN bytes
                       ELSE Prefix(128, Len(bytes)) \o bytes

Encode(list, bytes) == IF list THEN EncodeList(bytes) ELSE EncodeString(bytes)

\* The concatenation of the encodings of eleven items.
Joined(enc) == enc[1] \o enc[2] \o enc[3] \o enc[4] \o enc[5] \o enc[6] \o
               enc[7] \o enc[8] \o enc[9] \o enc[10] \o enc[11]

\* The signing preimage of a transaction: the access list is a list, the other
\* ten fields are strings.
Preimage(t) ==
    <<2>> \o EncodeList(Joined([f \in Fields |->
                                   Encode(f = AccessListField, t[f])]))
Preimages == {Preimage(t) : t \in Transactions}

-----------------------------------------------------------------------------
(* Properties *)

\* Types.
TypeOK ==
    /\ rlp \in Seq(Byte)
    /\ p \in Nat /\ remaining \in Nat /\ end \in Nat /\ seen \in Nat
    /\ field \in 0 .. 12
    /\ DOMAIN tx = Fields
    /\ status \in {"decoding", "accepted", "rejected"}

\* For whatever the host sends, decode_ledger_tx reads only bytes of the input
\* (raw_tx holds those of earlier transactions behind it), never lets
\* remaining wrap below zero or drift from p, and copies into the arrays of
\* zond_tx_t no more than they hold.
MemorySafe ==
    /\ seen <= Len(rlp)
    /\ p + remaining = Len(rlp)
    /\ \A f \in Fields : Len(tx[f]) <= Capacity(f)

\* Items are parsed against the end of the input, not of the list; still, in
\* an accepted transaction the eleven items lie inside the list one after the
\* other and fill it, so that nothing in the list is left unseen or read twice.
ItemsFillTheList ==
    status = "accepted" =>
        /\ Len(items) = 11
        /\ items[11].next = end /\ end <= Len(rlp)
        /\ \A i \in 1 .. 10 : items[i].next = items[i + 1].at

\* A header at offset q whose length is written in more bytes than a size_t has.
LongHeader(q) ==
    \/ At(q) \in 184 .. 191 /\ At(q) - 183 > SizeBytes
    \/ At(q) \in 248 .. 255 /\ At(q) - 247 > SizeBytes

\* An accepted list whose lengths fit a size_t is the one RLP encoding of its
\* items: no two byte strings that differ in a length or a prefix decode to the
\* same items.
AcceptedReencodes ==
    status = "accepted" /\ ~LongHeader(1) /\ (\A n \in 1 .. 11 : ~LongHeader(items[n].at)) =>
        SubSeq(rlp, 2, end) =
            EncodeList(Joined([f \in Fields |-> Encode(items[f].list, items[f].bytes)]))

\* The preimage of a transaction whose fields fit is never refused.
AcceptsEveryPreimage == status = "rejected" => rlp \notin Preimages

\* What doc/TRANSACTION.md says is signed: 0x02 and the RLP encoding of the eleven
\* fields, ten strings and a list, and nothing else.
AcceptsOnlyPreimages ==
    status = "accepted" => rlp = Preimage([f \in Fields |-> items[f].bytes])
=============================================================================
