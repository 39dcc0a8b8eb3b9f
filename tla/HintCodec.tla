------------------------------ MODULE HintCodec -----------------------------
(***************************************************************************)
(* The hint in a signature: pack_sig_volatile writes the places of the     *)
(* ones of K polynomials, then K running counts, into OMEGA + K bytes, and *)
(* unpack_sig_volatile reads them back, refusing what it would not write.  *)
(*                                                                         *)
(* Either a hint that the signer may pack is packed and unpacked, or any   *)
(* bytes are unpacked and what is accepted is packed again.                *)
(***************************************************************************)
EXTENDS Integers, FiniteSets

CONSTANTS K, N, OMEGA

HintAssumption ==
    /\ K \in Nat \ {0} /\ N \in Nat \ {0} /\ OMEGA \in Nat \ {0}
    /\ OMEGA < N    \* a place is a byte, and so is a count

ASSUME HintParameters == HintAssumption

VARIABLES job,      \* what comes next
          h,        \* the hint: for every polynomial the places of its ones
          bytes,    \* the OMEGA + K bytes of the signature
          i, j, k,  \* the loops and the running count
          given     \* history: the hint or the bytes that were started with

hintVars == <<job, h, bytes, i, j, k, given>>

Hints == [0 .. K - 1 -> SUBSET (0 .. N - 1)]
Strings == [0 .. OMEGA + K - 1 -> 0 .. N - 1]
Zeros == [b \in 0 .. OMEGA + K - 1 |-> 0]
Empty == [p \in 0 .. K - 1 |-> {}]
Ones(hint) == {o \in (0 .. K - 1) \X (0 .. N - 1) : o[2] \in hint[o[1]]}
Weight(hint) == Cardinality(Ones(hint))

\* The signer packs a hint of at most OMEGA ones (n_ret > OMEGA goes to rej).
HintInit ==
    /\ i = 0 /\ j = 0 /\ k = 0
    /\ \/ /\ job = "pack" /\ bytes = Zeros
          /\ h \in {x \in Hints : Weight(x) <= OMEGA}
          /\ given = h
       \/ /\ job = "unpack" /\ h = Empty
          /\ bytes \in Strings
          /\ given = bytes

-----------------------------------------------------------------------------
(* Encode h *)

PackBit ==
    /\ job \in {"pack", "pack again"} /\ i < K /\ j < N
    /\ LET one == j \in h[i]
           count == IF one THEN k + 1 ELSE k
           placed == IF one THEN [bytes EXCEPT ![k] = j] ELSE bytes
       IN  /\ bytes' = [placed EXCEPT ![OMEGA + i] = count]
           /\ k' = count
    /\ IF j + 1 < N THEN j' = j + 1 /\ i' = i ELSE j' = 0 /\ i' = i + 1
    /\ UNCHANGED <<job, h, given>>

PackEnd ==
    /\ job \in {"pack", "pack again"} /\ i = K
    /\ IF job = "pack" THEN job' = "unpack again" /\ h' = Empty
                       ELSE job' = "packed" /\ h' = h
    /\ i' = 0 /\ j' = 0 /\ k' = 0
    /\ UNCHANGED <<bytes, given>>

-----------------------------------------------------------------------------
(* Decode h *)

Decoding == job \in {"unpack", "unpack again"}
Count(p) == bytes[OMEGA + p]

Refuse == job' = "refused" /\ UNCHANGED <<h, bytes, i, j, k, given>>

Unordered == j > k /\ bytes[j] <= bytes[j - 1]

BadCount == Count(i) < k \/ Count(i) > OMEGA

\* The next polynomial: its count is tested, then j runs from k.
UnpackPoly ==
    /\ Decoding /\ i < K /\ j = k
    /\ IF BadCount THEN Refuse
       ELSE IF Count(i) = k
            THEN i' = i + 1 /\ UNCHANGED <<job, h, bytes, j, k, given>>
            ELSE /\ h' = [h EXCEPT ![i] = @ \cup {bytes[j]}]
                 /\ IF j + 1 < Count(i)
                    THEN j' = j + 1 /\ UNCHANGED <<i, k>>
                    ELSE i' = i + 1 /\ j' = Count(i) /\ k' = Count(i)
                 /\ UNCHANGED <<job, bytes, given>>

UnpackPlace ==
    /\ Decoding /\ i < K /\ j > k
    /\ IF Unordered THEN Refuse
       ELSE /\ h' = [h EXCEPT ![i] = @ \cup {bytes[j]}]
            /\ IF j + 1 < Count(i)
               THEN j' = j + 1 /\ UNCHANGED <<i, k>>
               ELSE i' = i + 1 /\ j' = Count(i) /\ k' = Count(i)
            /\ UNCHANGED <<job, bytes, given>>

\* Mutant: what is behind the last place is not looked at.
RestIsZeroAny == TRUE
RestIsZero == \A b \in k .. OMEGA - 1 : bytes[b] = 0

UnpackEnd ==
    /\ Decoding /\ i = K
    /\ IF ~RestIsZero THEN Refuse
       ELSE /\ IF job = "unpack" THEN job' = "pack again" /\ bytes' = Zeros
                                 ELSE job' = "unpacked" /\ bytes' = bytes
            /\ i' = 0 /\ j' = 0 /\ k' = 0
            /\ UNCHANGED <<h, given>>

HintNext == PackBit \/ PackEnd \/ UnpackPoly \/ UnpackPlace \/ UnpackEnd

HintSpec == HintInit /\ [][HintNext]_hintVars

-----------------------------------------------------------------------------
(* Properties *)

\* No place and no count is read or written outside its part of the bytes.
InTheirParts ==
    /\ i \in 0 .. K /\ j \in 0 .. N /\ k \in 0 .. OMEGA
    /\ Decoding => j <= OMEGA
    /\ i < K /\ Decoding /\ j > k => j < Count(i)

\* The verifier accepts every hint that the signer packs, and it is the same.
HintRoundTrip ==
    /\ job = "refused" => given \in Strings
    /\ job = "unpacked" => h = given

\* What the comment on the order is for: no two strings of bytes are accepted for
\* one hint, so a signature cannot be changed into another by its encoding.
OneEncoding == job = "packed" => bytes = given

\* The three together.
HintsComeBack == HintRoundTrip /\ OneEncoding /\ InTheirParts
=============================================================================
