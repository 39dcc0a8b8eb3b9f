------------------------------ MODULE PackBits ------------------------------
(***************************************************************************)
(* The bit formats of mldsa87: how the coefficients of a polynomial are    *)
(* shifted and or-ed into bytes (t1, t0, eta, z, w1), and shifted out      *)
(* again.  Every format works on groups: some coefficients that fill some  *)
(* bytes exactly; the loops over the N / 2, N / 4 or N / 8 groups and the  *)
(* polynomials of a vector repeat the group at the next offset.            *)
(*                                                                         *)
(* A machine word is the set of its bits, so that | is union, & is         *)
(* intersection and a shift moves the elements.                            *)
(***************************************************************************)
EXTENDS Integers, Sequences

ETA == 2
D == 13
GAMMA1 == 524288

Bits(n) == {b \in 0 .. 19 : (n \div 2 ^ b) % 2 = 1}
Value(w, b) == IF b \in w THEN 2 ^ b ELSE 0
Five(w, b) ==
    Value(w, b) + Value(w, b + 1) + Value(w, b + 2) + Value(w, b + 3) + Value(w, b + 4)
Number(w) == Five(w, 0) + Five(w, 5) + Five(w, 10) + Five(w, 15)
Shift(w, by) == {b \in {c + by : c \in w} : b >= 0}     \* << by, or >> -by
Low(w, width) == w \cap 0 .. width - 1                  \* a cast, or a mask

\* A row of a table gives the parts that are or-ed: <<source, shift>>.
Parts(row, source, width) ==
    Low(UNION {Shift(source[part[1]], part[2]) : part \in row}, width)

-----------------------------------------------------------------------------
(* The tables: byte n of a group from the coefficients, and back *)

eta_pack == <<
    {<<1, 0>>, <<2, 3>>, <<3, 6>>},
    {<<3, -2>>, <<4, 1>>, <<5, 4>>, <<6, 7>>},
    {<<6, -1>>, <<7, 2>>, <<8, 5>>} >>

eta_unpack == <<
    {<<1, 0>>}, {<<1, -3>>}, {<<1, -6>>, <<2, 2>>}, {<<2, -1>>},
    {<<2, -4>>}, {<<2, -7>>, <<3, 1>>}, {<<3, -2>>}, {<<3, -5>>} >>

t1_pack == <<
    {<<1, 0>>}, {<<1, -8>>, <<2, 2>>}, {<<2, -6>>, <<3, 4>>},
    {<<3, -4>>, <<4, 6>>}, {<<4, -2>>} >>

t1_unpack == <<
    {<<1, 0>>, <<2, 8>>}, {<<2, -2>>, <<3, 6>>},
    {<<3, -4>>, <<4, 4>>}, {<<4, -6>>, <<5, 2>>} >>

t0_pack == <<
    {<<1, 0>>}, {<<1, -8>>, <<2, 5>>}, {<<2, -3>>}, {<<2, -11>>, <<3, 2>>},
    {<<3, -6>>, <<4, 7>>}, {<<4, -1>>}, {<<4, -9>>, <<5, 4>>}, {<<5, -4>>},
    {<<5, -12>>, <<6, 1>>}, {<<6, -7>>, <<7, 6>>}, {<<7, -2>>},
    {<<7, -10>>, <<8, 3>>}, {<<8, -5>>} >>

t0_unpack == <<
    {<<1, 0>>, <<2, 8>>}, {<<2, -5>>, <<3, 3>>, <<4, 11>>},
    {<<4, -2>>, <<5, 6>>}, {<<5, -7>>, <<6, 1>>, <<7, 9>>},
    {<<7, -4>>, <<8, 4>>, <<9, 12>>}, {<<9, -1>>, <<10, 7>>},
    {<<10, -6>>, <<11, 2>>, <<12, 10>>}, {<<12, -3>>, <<13, 5>>} >>

z_pack == <<
    {<<1, 0>>}, {<<1, -8>>}, {<<1, -16>>, <<2, 4>>}, {<<2, -4>>}, {<<2, -12>>} >>

\* Mutant: the second coefficient takes the whole shared byte.
z_unpackWhole == <<
    {<<1, 0>>, <<2, 8>>, <<3, 16>>}, {<<3, 0>>, <<4, 4>>, <<5, 12>>} >>

z_unpack == <<
    {<<1, 0>>, <<2, 8>>, <<3, 16>>}, {<<3, -4>>, <<4, 4>>, <<5, 12>>} >>

w1_pack == << {<<1, 0>>, <<2, 4>>} >>

\* Signed coefficients are packed as base - coefficient, the others as they are; max
\* is the largest word, keep the masks (the second z of a pair has none: 32 bits).
Formats == [
    eta |-> [width |-> 3, max |-> 2 * ETA, signed |-> TRUE, base |-> ETA,
             pack |-> eta_pack, unpack |-> eta_unpack, keep |-> [k \in 1 .. 8 |-> 3]],
    t1 |-> [width |-> 10, max |-> 2 ^ 10 - 1, signed |-> FALSE, base |-> 0,
            pack |-> t1_pack, unpack |-> t1_unpack, keep |-> [k \in 1 .. 4 |-> 10]],
    t0 |-> [width |-> 13, max |-> 2 ^ D - 1, signed |-> TRUE, base |-> 2 ^ (D - 1),
            pack |-> t0_pack, unpack |-> t0_unpack, keep |-> [k \in 1 .. 8 |-> 13]],
    z |-> [width |-> 20, max |-> 2 * GAMMA1 - 1, signed |-> TRUE, base |-> GAMMA1,
           pack |-> z_pack, unpack |-> z_unpack, keep |-> <<20, 32>>],
    w1 |-> [width |-> 4, max |-> 15, signed |-> FALSE, base |-> 0,
            pack |-> w1_pack, unpack |-> << >>, keep |-> <<4, 4>>]]

-----------------------------------------------------------------------------
\* The groups that are packed, as words; and groups of bytes that z is unpacked from:
\* the verifier takes them from a signature, poly_vec_l_uniform_gamma1 from SHAKE256.
CONSTANTS WordGroups, ByteGroups

Group(f) == DOMAIN Formats[f].keep

ASSUME PackAssumption ==
    /\ \A f \in DOMAIN Formats : \A g \in WordGroups[f] :
          g \in [Group(f) -> Nat] /\ \A p \in Group(f) : g[p] <= Formats[f].max
    /\ ByteGroups \subseteq [1 .. 5 -> SUBSET (0 .. 7)]

VARIABLES format, phase,
          coeffsOf,   \* the coefficients of the group
          bytesOf,    \* its bytes
          begun       \* history: the coefficients or the bytes it began with

packVars == <<format, phase, coeffsOf, bytesOf, begun>>
F == Formats[format]

ToWord(c) == IF F.signed THEN F.base - c ELSE c
FromWord(n) == IF F.signed THEN F.base - n ELSE n

PackInit ==
    \/ /\ format \in DOMAIN Formats /\ phase = "coeffs" /\ bytesOf = << >>
       /\ \E w \in WordGroups[format] : coeffsOf = [p \in Group(format) |-> FromWord(w[p])]
       /\ begun = coeffsOf
    \/ /\ format = "z" /\ phase = "bytes" /\ coeffsOf = << >>
       /\ bytesOf \in ByteGroups
       /\ begun = bytesOf

Pack ==
    /\ phase \in {"coeffs", "unpacked"}
    /\ LET t == [p \in DOMAIN coeffsOf |-> Bits(ToWord(coeffsOf[p]))]
       IN  bytesOf' = [n \in DOMAIN F.pack |-> Parts(F.pack[n], t, 8)]
    /\ phase' = IF phase = "coeffs" THEN "packed" ELSE "packed again"
    /\ UNCHANGED <<format, coeffsOf, begun>>

Unpack ==
    /\ phase \in {"packed", "bytes"} /\ F.unpack # << >>
    /\ coeffsOf' = [p \in DOMAIN F.unpack |->
                     FromWord(Number(Parts(F.unpack[p], bytesOf, F.keep[p])))]
    /\ phase' = IF phase = "bytes" THEN "unpacked" ELSE "unpacked again"
    /\ UNCHANGED <<format, bytesOf, begun>>

PackNext == Pack \/ Unpack

PackSpec == PackInit /\ [][PackNext]_packVars

-----------------------------------------------------------------------------
(* Properties *)

\* A packed group is the words one after another, least significant bit first, with no
\* bit lost and none over: what FIPS 204 asks of a public key, of a signature and of the
\* bytes the challenge is hashed from, and what another implementation will read.
WordsInOrder ==
    phase = "packed" =>
        \A p \in 0 .. 8 * Len(F.pack) - 1 :
            p % 8 \in bytesOf[(p \div 8) + 1]
                <=> p % F.width \in Bits(ToWord(coeffsOf[(p \div F.width) + 1]))

\* What is unpacked is what was packed, and what is packed from the z in a signature is
\* the bytes of the signature: no other bytes stand for the same z.
ComesBack ==
    /\ phase = "unpacked again" => coeffsOf = begun
    /\ phase = "packed again" => bytesOf = begun
    /\ phase = "unpacked" => \A p \in 1 .. 2 : coeffsOf[p] \in 1 - GAMMA1 .. GAMMA1

\* The packed bytes are the coefficients' bits in order, and unpacking them gives
\* the coefficients again.
FormatsComeBack == WordsInOrder /\ ComesBack
=============================================================================
