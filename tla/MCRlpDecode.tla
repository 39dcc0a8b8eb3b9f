---------------------------- MODULE MCRlpDecode ----------------------------
(***************************************************************************)
(* Inputs for RlpDecode.  Each one is a transaction in which at most two   *)
(* of the items, or the list header, are not the usual ones; further ones  *)
(* are cut short or continued, and the last are headers with no            *)
(* transaction behind them.                                                *)
(***************************************************************************)
EXTENDS RlpDecode

Repeat(b, n) == [i \in 1 .. n |-> b]

\* A plain transfer: chain_id 1, nonce 1, fees, gas, recipient, value.
Plain == [f \in Fields |->
            CASE f = ToField          -> Repeat(170, 64)
              [] f = DescriptorField  -> MLDSA87Descriptor
              [] f \in ScalarFields   -> <<f>>
              [] OTHER                -> <<>>]

\* Contents the documentation allows, at the limits of the fields.
Contents(f) ==
    CASE f \in ScalarFields    -> {<<>>, <<127>>, <<128>>, Repeat(255, Capacity(f))}
      [] f = ToField           -> {<<>>, Repeat(0, 64)}
      [] f = DataField         -> {<<0>>, <<128>>, Repeat(1, 55), Repeat(1, 56),
                                   Repeat(1, 260)}
      [] f = AccessListField   -> {<<128>>, Repeat(128, 55), Repeat(128, 56),
                                   Repeat(128, 257)}
      [] OTHER                 -> {}

MCTransactions ==
    {Plain} \cup
    UNION {{[Plain EXCEPT ![f] = c, ![g] = d] : c \in Contents(f), d \in Contents(g)} :
              f, g \in Fields}

\* Encodings of an item that are not the RLP encoding of a legal content.
Faulty(f) ==
    {<<129, 5>>, <<0>>, <<130, 0, 1>>, <<192>>, <<193, 5>>,
     <<184, 3, 1, 2, 3>>, <<184, 55>> \o Repeat(1, 55),
     <<185, 0, 56>> \o Repeat(1, 56), <<191>> \o Repeat(255, 8),
     <<195, 1, 0, 0>>, <<131, 1, 0, 1>>, <<248, 2, 1, 1>>,
     <<188, 1, 0, 0, 0, 56>> \o Repeat(1, 56),
     <<252, 1, 0, 0, 0, 56>> \o Repeat(128, 56),
     <<183>>, <<247>>, <<250, 1, 0, 0>>}
    \cup {Encode(FALSE, Repeat(7, Capacity(f) + 1)), <<>>}

PlainEncoding == [f \in Fields |-> Encode(f = AccessListField, Plain[f])]
Around(f) == Faulty(f) \cup {Encode(f = AccessListField, c) : c \in Contents(f)}

\* Two neighbouring items replaced: what one claims, the other pays for.
Encodings ==
    UNION {{[PlainEncoding EXCEPT ![f] = x, ![g] = y] : x \in Around(f), y \in Around(g)} :
              <<f, g>> \in {<<a, b>> \in Fields \X Fields : b \in {a, a + 1}}}

Headers(n) == {Prefix(192, n), Prefix(192, n + 1), Prefix(192, n - 1),
               <<249, 0, n>>, <<252, 1, 0, 0, 0, n>>, <<192>>, Prefix(128, n), <<>>}

MCInputs ==
    {Preimage(t) : t \in MCTransactions}
    \cup {<<2>> \o EncodeList(Joined(e)) : e \in Encodings}
    \cup LET body == Joined(PlainEncoding) IN
         {<<2>> \o h \o body : h \in Headers(Len(body))}
         \cup {SubSeq(Preimage(Plain), 1, n) : n \in 0 .. Len(Preimage(Plain))}
         \cup {Preimage(Plain) \o tail : tail \in {<<0>>, <<128, 128>>, Repeat(1, 60)}}
         \cup {<<1>> \o EncodeList(body)}
    \cup {<<2, a, b>> : a \in {248, 249, 255, 193, 194, 247}, b \in {0, 1, 56, 255}}
=============================================================================
