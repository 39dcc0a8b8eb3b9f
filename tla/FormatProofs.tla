---------------------------- MODULE FormatProofs ----------------------------
(***************************************************************************)
(* What is numbered, cut and packed, for every value of the constants: no  *)
(* nonce of a signature is used twice, the chunks make the object, and the *)
(* bit formats write and read every group in order.                        *)
(***************************************************************************)
EXTENDS Nonces, Chunks, PackBits, TLAPS

-----------------------------------------------------------------------------
(* Nonces *)

Draws == {"s1", "matrix", "s2", "y", "again"}

\* attempts counts the masks begun, nonce those finished.
CounterInv ==
    /\ at \in Draws \cup {"rej", "test", "signed", "failed"}
    /\ attempts \in 0 .. MaxAttempts
    /\ nonce = IF at = "y" THEN attempts - 1 ELSE attempts
    /\ k \in Nat
    /\ at \in {"s1", "y"} => k < 7
    /\ at = "s2" => k < 8
    /\ at \in {"matrix", "again"} => k < 56
    /\ at \notin Draws => k = 0
    /\ at \in {"s1", "matrix", "s2"} => attempts = 0
    /\ at \in {"y", "again", "test", "signed", "failed"} => attempts >= 1

Pair == {<<lo, hi>> : lo \in Int, hi \in Int}
Entry(n) == (n \div 7) * 256 + (n % 7)

\* The last nonce under every seed, from where the loops are.
LastInv ==
    /\ last \in [{"rho", "rhoPrime", "mask"} -> Pair]
    /\ at = "s1" => NonceOf(last["rhoPrime"]) = k - 1
    /\ at = "matrix" => NonceOf(last["rhoPrime"]) = 6
    /\ at = "s2" => NonceOf(last["rhoPrime"]) = 6 + k
    /\ at = "s1" \/ (at = "matrix" /\ k = 0) => NonceOf(last["rho"]) = -1
    /\ at \in {"matrix", "again"} /\ k > 0 => NonceOf(last["rho"]) = Entry(k - 1)
    /\ NonceOf(last["mask"]) = 7 * nonce + (IF at = "y" THEN k ELSE 0) - 1

NonceInv == CounterInv /\ LastInv

LEMMA BytesOf ==
    ASSUME NEW v \in Nat, v < 65536
    PROVE  NonceOf(Bytes(v)) = v /\ Bytes(v) \in Pair
<1>1. (v \div 256) % 256 = v \div 256
  <2>1. v \div 256 \in Nat /\ v \div 256 < 256
    OBVIOUS
  <2> QED
    BY <2>1
<1>2. (v % 256) + 256 * (v \div 256) = v
  OBVIOUS
<1>3. v % 256 \in Int /\ v \div 256 \in Int
  OBVIOUS
<1> QED
  BY <1>1, <1>2, <1>3 DEF NonceOf, Bytes, Pair

LEMMA AbsorbIs ==
    ASSUME LastInv, NEW seed \in {"rho", "rhoPrime", "mask"}, NEW v \in Nat, v < 65536,
           Absorb(seed, v)
    PROVE  /\ last' \in [{"rho", "rhoPrime", "mask"} -> Pair]
           /\ NonceOf(last'[seed]) = v
           /\ \A o \in {"rho", "rhoPrime", "mask"} \ {seed} : last'[o] = last[o]
<1>1. NonceOf(Bytes(v)) = v /\ Bytes(v) \in Pair
  BY BytesOf
<1> QED
  BY <1>1 DEF Absorb, LastInv

LEMMA NonceInitInv == NonceInit => NonceInv
<1> SUFFICES ASSUME NonceInit PROVE NonceInv
  OBVIOUS
<1>1. NoBytes \in Pair /\ NonceOf(NoBytes) = -1
  BY DEF NoBytes, Pair, NonceOf
<1> QED
  BY <1>1, NonceAssumption DEF NonceInit, NonceInv, CounterInv, LastInv, Draws

LEMMA S1Step == NonceInv /\ S1 => NonceInv' /\ Grows
<1> SUFFICES ASSUME NonceInv, S1 PROVE NonceInv' /\ Grows
  OBVIOUS
<1>1. /\ at = "s1" /\ k \in Nat /\ k < 7 /\ attempts = 0 /\ nonce = 0
      /\ NonceOf(last["rhoPrime"]) = k - 1 /\ NonceOf(last["mask"]) = -1
      /\ NonceOf(last["rho"]) = -1 /\ Absorb("rhoPrime", k)
  BY DEF NonceInv, CounterInv, LastInv, S1, Draw
<1>2. /\ last' \in [{"rho", "rhoPrime", "mask"} -> Pair]
      /\ NonceOf(last'["rhoPrime"]) = k
      /\ last'["rho"] = last["rho"] /\ last'["mask"] = last["mask"]
  BY <1>1, AbsorbIs DEF NonceInv
<1>3. IF k + 1 < 7 THEN k' = k + 1 /\ at' = "s1" ELSE k' = 0 /\ at' = "matrix"
  BY <1>1 DEF S1, Draw, L
<1>4. UNCHANGED <<nonce, attempts>>
  BY DEF S1
<1>5. CounterInv'
  BY <1>1, <1>3, <1>4, NonceAssumption DEF CounterInv, Draws
<1>6. LastInv'
  BY <1>1, <1>2, <1>3, <1>4 DEF LastInv
<1>7. Grows
  BY <1>1, <1>2 DEF Grows, LastInv, NonceInv
<1> QED
  BY <1>5, <1>6, <1>7 DEF NonceInv

LEMMA S2Step == NonceInv /\ S2 => NonceInv' /\ Grows
<1> SUFFICES ASSUME NonceInv, S2 PROVE NonceInv' /\ Grows
  OBVIOUS
<1>1. /\ at = "s2" /\ k \in Nat /\ k < 8 /\ attempts = 0 /\ nonce = 0
      /\ NonceOf(last["rhoPrime"]) = 6 + k /\ NonceOf(last["mask"]) = -1
      /\ Absorb("rhoPrime", 7 + k)
  BY DEF NonceInv, CounterInv, LastInv, S2, Draw, L
<1>2. /\ last' \in [{"rho", "rhoPrime", "mask"} -> Pair]
      /\ NonceOf(last'["rhoPrime"]) = 7 + k
      /\ last'["rho"] = last["rho"] /\ last'["mask"] = last["mask"]
  BY <1>1, AbsorbIs DEF NonceInv
<1>3. IF k + 1 < 8 THEN k' = k + 1 /\ at' = "s2" ELSE k' = 0 /\ at' = "rej"
  BY <1>1 DEF S2, Draw, K
<1>4. UNCHANGED <<nonce, attempts>>
  BY DEF S2
<1>5. CounterInv'
  BY <1>1, <1>3, <1>4, NonceAssumption DEF CounterInv, Draws
<1>6. LastInv'
  BY <1>1, <1>2, <1>3, <1>4 DEF LastInv
<1>7. Grows
  BY <1>1, <1>2 DEF Grows, LastInv, NonceInv
<1> QED
  BY <1>5, <1>6, <1>7 DEF NonceInv

\* Row by row, the nonces of the matrix grow too.
LEMMA EntriesGrow ==
    ASSUME NEW n \in Nat, n < 56
    PROVE  /\ Entry(n) \in Nat /\ Entry(n) < 65536
           /\ n > 0 => Entry(n - 1) < Entry(n)
BY DEF Entry

LEMMA MatrixStep == NonceInv /\ Matrix => NonceInv' /\ Grows
<1> SUFFICES ASSUME NonceInv, Matrix PROVE NonceInv' /\ Grows
  OBVIOUS
<1>1. /\ at \in {"matrix", "again"} /\ k \in Nat /\ k < 56
      /\ at = "matrix" => attempts = 0
      /\ at = "again" => attempts >= 1
      /\ attempts \in 0 .. MaxAttempts /\ nonce = attempts
      /\ NonceOf(last["mask"]) = 7 * nonce - 1
      /\ at = "matrix" => NonceOf(last["rhoPrime"]) = 6
      /\ at = "matrix" /\ k = 0 => NonceOf(last["rho"]) = -1
      /\ k > 0 => NonceOf(last["rho"]) = Entry(k - 1)
  BY NonceAssumption DEF NonceInv, CounterInv, LastInv, Matrix
<1>2. Entry(k) \in Nat /\ Entry(k) < 65536 /\ (k > 0 => Entry(k - 1) < Entry(k))
  BY <1>1, EntriesGrow
<1>3. Absorb("rho", Entry(k))
  BY <1>1 DEF Matrix, Draw, L, Entry
<1>4. /\ last' \in [{"rho", "rhoPrime", "mask"} -> Pair]
      /\ NonceOf(last'["rho"]) = Entry(k)
      /\ last'["rhoPrime"] = last["rhoPrime"] /\ last'["mask"] = last["mask"]
  BY <1>2, <1>3, AbsorbIs DEF NonceInv
<1>5. IF k + 1 < 56 THEN k' = k + 1 /\ at' = at
      ELSE k' = 0 /\ at' = IF at = "matrix" THEN "s2" ELSE "test"
  BY <1>1 DEF Matrix, Draw, K, L
<1>6. UNCHANGED <<nonce, attempts>>
  BY DEF Matrix
<1>7. CounterInv'
  BY <1>1, <1>5, <1>6, NonceAssumption DEF CounterInv, Draws
<1>8. LastInv'
  BY <1>1, <1>2, <1>4, <1>5, <1>6 DEF LastInv
<1>9. Grows
  <2>1. CASE k = 0 /\ at = "again"
    BY <1>4, <2>1 DEF Grows, LastInv, NonceInv
  <2>2. CASE k = 0 /\ at = "matrix"
    BY <1>1, <1>2, <1>4, <2>2 DEF Grows, LastInv, NonceInv
  <2>3. CASE k > 0
    BY <1>1, <1>2, <1>4, <2>3 DEF Grows, LastInv, NonceInv
  <2> QED
    BY <1>1, <2>1, <2>2, <2>3
<1> QED
  BY <1>7, <1>8, <1>9 DEF NonceInv

LEMMA YStep == NonceInv /\ Y => NonceInv' /\ Grows
<1> SUFFICES ASSUME NonceInv, Y PROVE NonceInv' /\ Grows
  OBVIOUS
<1>1. /\ at = "y" /\ k \in Nat /\ k < 7 /\ attempts \in Nat /\ attempts >= 1
      /\ attempts <= MaxAttempts /\ nonce = attempts - 1
      /\ NonceOf(last["mask"]) = 7 * nonce + k - 1
  BY NonceAssumption DEF NonceInv, CounterInv, LastInv, Y
<1>2. MaxAttempts \in Nat /\ 7 * MaxAttempts <= 65536
  BY NonceAssumption DEF L
<1>3. 7 * nonce + k \in Nat /\ 7 * nonce + k < 65536 /\ nonce + 1 < 65536
  BY <1>1, <1>2
<1>4. MaskNonce = 7 * nonce + k
  BY <1>1, <1>3 DEF MaskNonce, L
<1>5. Absorb("mask", 7 * nonce + k)
  BY <1>4 DEF Y, Draw
<1>6. /\ last' \in [{"rho", "rhoPrime", "mask"} -> Pair]
      /\ NonceOf(last'["mask"]) = 7 * nonce + k
      /\ last'["rhoPrime"] = last["rhoPrime"] /\ last'["rho"] = last["rho"]
  BY <1>3, <1>5, AbsorbIs DEF NonceInv
<1>7. IF k + 1 < 7 THEN k' = k + 1 /\ at' = "y" /\ nonce' = nonce
      ELSE k' = 0 /\ at' = "again" /\ nonce' = nonce + 1
  BY <1>1, <1>3 DEF Y, Draw, L
<1>8. attempts' = attempts
  BY DEF Y
<1>9. CounterInv'
  BY <1>1, <1>7, <1>8, NonceAssumption DEF CounterInv, Draws
<1>10. LastInv'
  BY <1>1, <1>6, <1>7 DEF LastInv
<1>11. Grows
  BY <1>1, <1>6 DEF Grows, LastInv, NonceInv
<1> QED
  BY <1>9, <1>10, <1>11 DEF NonceInv

LEMMA RejStep == NonceInv /\ (Rej \/ Test) => NonceInv' /\ Grows
<1> SUFFICES ASSUME NonceInv, Rej \/ Test PROVE NonceInv' /\ Grows
  OBVIOUS
<1>1. /\ at \in {"rej", "test"} /\ k = 0 /\ attempts \in Nat /\ nonce = attempts
      /\ attempts <= MaxAttempts /\ (at = "test" => attempts >= 1)
      /\ MaxAttempts \in Nat /\ MaxAttempts >= 1 /\ 7 * MaxAttempts <= 65536
      /\ NonceOf(last["mask"]) = 7 * nonce - 1
  BY NonceAssumption DEF NonceInv, CounterInv, LastInv, Rej, Test, L, Draws
<1>2. UNCHANGED <<k, nonce, last>>
  BY DEF Rej, Test
<1>3. \/ at' = "failed" /\ attempts' = attempts /\ attempts >= MaxAttempts
      \/ at' = "y" /\ attempts' = attempts + 1 /\ attempts < MaxAttempts
      \/ at = "test" /\ at' \in {"rej", "signed"} /\ attempts' = attempts
  <2>1. attempts < MaxAttempts => (attempts + 1) % 65536 = attempts + 1
    BY <1>1
  <2> QED
    BY <1>1, <2>1 DEF Rej, Test
<1>4. CounterInv'
  BY <1>1, <1>2, <1>3 DEF CounterInv, Draws
<1>5. LastInv'
  BY <1>1, <1>2, <1>3 DEF LastInv, NonceInv
<1>6. Grows
  BY <1>2 DEF Grows
<1> QED
  BY <1>4, <1>5, <1>6 DEF NonceInv

LEMMA NonceStep == NonceInv /\ [NonceNext]_nonceVars => NonceInv'
<1> SUFFICES ASSUME NonceInv, [NonceNext]_nonceVars PROVE NonceInv'
  OBVIOUS
<1>1. CASE UNCHANGED nonceVars
  BY <1>1 DEF nonceVars, NonceInv, CounterInv, LastInv
<1> QED
  BY <1>1, S1Step, S2Step, MatrixStep, YStep, RejStep DEF NonceNext

LEMMA MasksAreWhole == NonceInv => WholeMasks
BY NonceAssumption DEF NonceInv, CounterInv, LastInv, WholeMasks, L

\* For every cap whose nonces fit 16 bits: crypto_sign_optimized never draws twice
\* with one nonce under the seed of s1 and s2, or of y over all attempts, and an
\* attempt that is tested has drawn a whole y.
THEOREM NoNonceTwice == NonceSpec => NoncesGrow
<1>1. NonceInv /\ [NonceNext]_nonceVars => [Grows /\ WholeMasks']_nonceVars
  <2> SUFFICES ASSUME NonceInv, NonceNext PROVE Grows /\ WholeMasks'
    OBVIOUS
  <2>1. NonceInv' /\ Grows
    BY S1Step, S2Step, MatrixStep, YStep, RejStep DEF NonceNext
  <2>2. NonceInv' => WholeMasks'
    BY MasksAreWhole, PTL
  <2> QED
    BY <2>1, <2>2
<1> QED
  BY <1>1, NonceInitInv, NonceStep, PTL DEF NonceSpec, NoncesGrow

-----------------------------------------------------------------------------
(* Chunks *)

\* The index of the object's last chunk, and that chunk's size.
LastIndex == IF object = "sig" THEN SIGNATURE_LAST_CHUNK ELSE PK_CHUNKS - 1
LastSize == IF object = "sig" THEN SIGNATURE_LAST_CHUNK_SIZE ELSE PK_LAST_CHUNK_SIZE

\* The host has whole chunks, and the flag is up between the first and the last.
ChunkInv ==
    /\ object \in {"sig", "pk"}
    /\ index \in 0 .. LastIndex + 1
    /\ received = IF index <= LastIndex THEN index * stride ELSE Size
    /\ copied \in Int /\ copied >= -1
    /\ copied >= 0 => index <= LastIndex /\ copied <= chunk_size
    /\ copied >= 1 => read = received + copied - 1
    /\ sending \in BOOLEAN
    /\ sending <=> object = "sig" /\ index \in 1 .. LastIndex

LEMMA ChunkFacts ==
    ASSUME object \in {"sig", "pk"}
    PROVE  /\ LastIndex \in Nat /\ LastSize \in Nat \ {0} /\ stride \in Nat \ {0}
           /\ object = "sig" => LastIndex >= 1
           /\ Size = LastIndex * stride + LastSize
           /\ chunk_size = IF index < LastIndex THEN stride ELSE LastSize
BY ChunkAssumption
   DEF LastIndex, LastSize, stride, Size, chunk_size, sig_size, pk_size

\* A chunk begins inside the object and ends in it.
LEMMA ChunkEnds ==
    ASSUME NEW n \in Nat, NEW m \in Nat, NEW size \in Nat, NEW end \in Nat \ {0}, n <= m
    PROVE  /\ n * size \in Nat /\ (n + 1) * size = n * size + size
           /\ n < m => n * size + size <= m * size
<1>1. n * size \in Nat /\ (n + 1) * size = n * size + size /\ m * size \in Nat
  OBVIOUS
<1>2. ASSUME n < m PROVE n * size + size <= m * size
  <2>1. PICK d \in Nat : m = n + 1 + d
    <3>1. m - n - 1 \in Nat /\ m = n + 1 + (m - n - 1)
      BY <1>2
    <3> QED
      BY <3>1
  <2>2. m * size = (n + 1) * size + d * size /\ d * size \in Nat
    BY <2>1
  <2> QED
    BY <1>1, <2>2
<1> QED
  BY <1>1, <1>2

LEMMA ChunkInitInv == ChunkInit => ChunkInv
<1> SUFFICES ASSUME ChunkInit PROVE ChunkInv
  OBVIOUS
<1>1. LastIndex \in Nat /\ stride \in Nat
  BY ChunkFacts DEF ChunkInit
<1>2. index \in 0 .. LastIndex + 1 /\ received = index * stride /\ index <= LastIndex
  BY <1>1 DEF ChunkInit
<1>3. ~(index \in 1 .. LastIndex)
  BY <1>1 DEF ChunkInit
<1>4. ~sending /\ sending \in BOOLEAN
  BY DEF ChunkInit
<1>5. object \in {"sig", "pk"} /\ copied = -1
  BY DEF ChunkInit
<1> QED
  BY <1>2, <1>3, <1>4, <1>5 DEF ChunkInv

\* What stays as long as the object is the same.
LEMMA ObjectStays ==
    object' = object => /\ LastIndex' = LastIndex /\ LastSize' = LastSize
                        /\ stride' = stride /\ Size' = Size
BY DEF LastIndex, LastSize, stride, Size

LEMMA AskStep == ChunkInv /\ Ask => ChunkInv'
<1> SUFFICES ASSUME ChunkInv, Ask PROVE ChunkInv'
  OBVIOUS
<1>1. /\ LastIndex' = LastIndex /\ stride' = stride /\ Size' = Size
      /\ chunk_size' = chunk_size
  BY ObjectStays DEF Ask, chunk_size
<1>2. LastIndex \in Nat /\ chunk_size \in Nat
  BY ChunkFacts DEF ChunkInv
<1>3. index <= LastIndex
  BY <1>2, ChunkAssumption DEF ChunkInv, Ask, MayAsk, LastIndex
<1> QED
  BY <1>1, <1>2, <1>3 DEF ChunkInv, Ask, MayAsk

LEMMA CopyStep == ChunkInv /\ Copy => ChunkInv'
<1> SUFFICES ASSUME ChunkInv, Copy PROVE ChunkInv'
  OBVIOUS
<1>1. /\ LastIndex' = LastIndex /\ stride' = stride /\ Size' = Size
      /\ chunk_size' = chunk_size
  BY ObjectStays DEF Copy, chunk_size
<1>2. LastIndex \in Nat /\ stride \in Nat /\ chunk_size \in Nat
  BY ChunkFacts DEF ChunkInv
<1>3. index \in Nat /\ index <= LastIndex /\ received = index * stride /\ copied \in Nat
  BY <1>2 DEF ChunkInv, Copy
<1>4. index * stride \in Nat
  BY <1>2, <1>3, ChunkEnds
<1>5. read' = received' + copied' - 1
  BY <1>3, <1>4 DEF Copy
<1> QED
  BY <1>1, <1>2, <1>3, <1>5 DEF ChunkInv, Copy

LEMMA SendStep == ChunkInv /\ Send => ChunkInv'
<1> SUFFICES ASSUME ChunkInv, Send PROVE ChunkInv'
  OBVIOUS
<1>1. LastIndex' = LastIndex /\ stride' = stride /\ Size' = Size
  BY ObjectStays DEF Send
<1>2. /\ LastIndex \in Nat /\ LastSize \in Nat \ {0} /\ stride \in Nat \ {0}
      /\ object = "sig" => LastIndex >= 1
      /\ Size = LastIndex * stride + LastSize
      /\ chunk_size = IF index < LastIndex THEN stride ELSE LastSize
  BY ChunkFacts DEF ChunkInv
<1>3. index \in Nat /\ index <= LastIndex /\ received = index * stride
  BY <1>2 DEF ChunkInv, Send
<1>4. index * stride \in Nat /\ (index + 1) * stride = index * stride + stride
  BY <1>2, <1>3, ChunkEnds
<1>5. received' = IF index' <= LastIndex' THEN index' * stride' ELSE Size'
  BY <1>1, <1>2, <1>3, <1>4 DEF Send
<1>6. sending' \in BOOLEAN /\ (sending' <=> object' = "sig" /\ index' \in 1 .. LastIndex')
  <2>1. CASE object = "pk"
    BY <1>1, <2>1 DEF ChunkInv, Send
  <2>2. CASE object = "sig"
    <3>1. LastIndex = SIGNATURE_LAST_CHUNK /\ sending' = FlagAfter(index, sending)
      BY <2>2 DEF LastIndex, Send
    <3>2. index' = index + 1 /\ object' = "sig" /\ LastIndex' = LastIndex
      BY <1>1, <2>2 DEF Send
    <3>3. CASE index = 0
      <4>1. sending' = TRUE
        BY <3>1, <3>3 DEF FlagAfter
      <4>2. index' \in 1 .. LastIndex'
        BY <1>2, <2>2, <3>2, <3>3
      <4> QED
        BY <3>2, <4>1, <4>2
    <3>4. CASE index = LastIndex /\ index # 0
      <4>1. sending' = FALSE
        BY <3>1, <3>4 DEF FlagAfter
      <4>2. ~(index' \in 1 .. LastIndex')
        BY <1>2, <3>2, <3>4
      <4> QED
        BY <3>2, <4>1, <4>2
    <3>5. CASE index # LastIndex /\ index # 0
      <4>1. sending' = sending
        BY <3>1, <3>5 DEF FlagAfter
      <4>2. index' \in 1 .. LastIndex' /\ index \in 1 .. LastIndex
        BY <1>2, <1>3, <3>2, <3>5
      <4> QED
        BY <2>2, <3>2, <4>1, <4>2 DEF ChunkInv
    <3> QED
      BY <3>3, <3>4, <3>5
  <2> QED
    BY <2>1, <2>2 DEF ChunkInv
<1> QED
  BY <1>1, <1>2, <1>3, <1>5, <1>6 DEF ChunkInv, Send

LEMMA ChunkInvImplies == ChunkInv => ChunksMakeTheObject
<1> SUFFICES ASSUME ChunkInv PROVE ChunksMakeTheObject
  OBVIOUS
<1>1. /\ LastIndex \in Nat /\ LastSize \in Nat \ {0} /\ stride \in Nat \ {0}
      /\ Size = LastIndex * stride + LastSize
      /\ chunk_size = IF index < LastIndex THEN stride ELSE LastSize
  BY ChunkFacts DEF ChunkInv
<1>2. ASSUME copied >= 1 PROVE read < Size /\ read = received + copied - 1
  <2>1. index \in Nat /\ index <= LastIndex /\ received = index * stride /\ copied <= chunk_size
    BY <1>1, <1>2 DEF ChunkInv
  <2>2. /\ index * stride \in Nat
        /\ index < LastIndex => index * stride + stride <= LastIndex * stride
    BY <1>1, <2>1, ChunkEnds
  <2>3. LastIndex * stride \in Nat
    BY <1>1
  <2>4. received + chunk_size <= Size
    BY <1>1, <2>1, <2>2, <2>3
  <2> QED
    BY <1>1, <1>2, <2>1, <2>2, <2>4 DEF ChunkInv
<1>3. ASSUME copied = -1, ~MayAsk PROVE received = Size /\ ~sending
  <2>1. index = LastIndex + 1
    BY <1>1, <1>3, ChunkAssumption DEF ChunkInv, MayAsk, LastIndex
  <2> QED
    BY <1>1, <2>1 DEF ChunkInv
<1> QED
  BY <1>2, <1>3 DEF ChunksMakeTheObject, NextByteOfTheObject, WholeObjectArrives

\* For all sizes of objects and chunks that fit together: helper_send_response_sig
\* and helper_send_response_pk_chunk read only inside the object, the next byte each
\* time, and the host that asks until it is refused has all of it.
THEOREM HostGetsTheObject == ChunkSpec => []ChunksMakeTheObject
<1>1. ChunkInv /\ UNCHANGED chunkVars => ChunkInv'
  BY DEF ChunkInv, chunkVars, LastIndex, stride, Size, chunk_size
<1>2. ChunkInv /\ [ChunkNext]_chunkVars => ChunkInv'
  BY <1>1, AskStep, CopyStep, SendStep DEF ChunkNext
<1> QED
  BY <1>2, ChunkInitInv, ChunkInvImplies, PTL DEF ChunkSpec

-----------------------------------------------------------------------------
(* The bits of a number *)

\* One more shift to the right halves.
LEMMA Halving ==
    ASSUME NEW m \in Nat
    PROVE  /\ m \div 1 = m
           /\ m \div 2 = (m \div 1) \div 2
           /\ m \div 4 = (m \div 2) \div 2
           /\ m \div 8 = (m \div 4) \div 2
           /\ m \div 16 = (m \div 8) \div 2
           /\ m \div 32 = (m \div 16) \div 2
           /\ m \div 64 = (m \div 32) \div 2
           /\ m \div 128 = (m \div 64) \div 2
           /\ m \div 256 = (m \div 128) \div 2
           /\ m \div 512 = (m \div 256) \div 2
           /\ m \div 1024 = (m \div 512) \div 2
           /\ m \div 2048 = (m \div 1024) \div 2
           /\ m \div 4096 = (m \div 2048) \div 2
           /\ m \div 8192 = (m \div 4096) \div 2
           /\ m \div 16384 = (m \div 8192) \div 2
           /\ m \div 32768 = (m \div 16384) \div 2
           /\ m \div 65536 = (m \div 32768) \div 2
           /\ m \div 131072 = (m \div 65536) \div 2
           /\ m \div 262144 = (m \div 131072) \div 2
           /\ m \div 524288 = (m \div 262144) \div 2
           /\ m \div 1048576 = (m \div 524288) \div 2
OBVIOUS

\* The bits of a number, one by one.
LEMMA BitsAre ==
    ASSUME NEW m \in Nat
    PROVE  /\ Bits(m) \subseteq 0 .. 19
           /\ 0 \in Bits(m) <=> (m \div 1) % 2 = 1
           /\ 1 \in Bits(m) <=> (m \div 2) % 2 = 1
           /\ 2 \in Bits(m) <=> (m \div 4) % 2 = 1
           /\ 3 \in Bits(m) <=> (m \div 8) % 2 = 1
           /\ 4 \in Bits(m) <=> (m \div 16) % 2 = 1
           /\ 5 \in Bits(m) <=> (m \div 32) % 2 = 1
           /\ 6 \in Bits(m) <=> (m \div 64) % 2 = 1
           /\ 7 \in Bits(m) <=> (m \div 128) % 2 = 1
           /\ 8 \in Bits(m) <=> (m \div 256) % 2 = 1
           /\ 9 \in Bits(m) <=> (m \div 512) % 2 = 1
           /\ 10 \in Bits(m) <=> (m \div 1024) % 2 = 1
           /\ 11 \in Bits(m) <=> (m \div 2048) % 2 = 1
           /\ 12 \in Bits(m) <=> (m \div 4096) % 2 = 1
           /\ 13 \in Bits(m) <=> (m \div 8192) % 2 = 1
           /\ 14 \in Bits(m) <=> (m \div 16384) % 2 = 1
           /\ 15 \in Bits(m) <=> (m \div 32768) % 2 = 1
           /\ 16 \in Bits(m) <=> (m \div 65536) % 2 = 1
           /\ 17 \in Bits(m) <=> (m \div 131072) % 2 = 1
           /\ 18 \in Bits(m) <=> (m \div 262144) % 2 = 1
           /\ 19 \in Bits(m) <=> (m \div 524288) % 2 = 1
BY DEF Bits

LEMMA BitsBelow ==
    ASSUME NEW m \in Nat
    PROVE  /\ m < 8 => Bits(m) \subseteq 0 .. 2
           /\ m < 16 => Bits(m) \subseteq 0 .. 3
           /\ m < 1024 => Bits(m) \subseteq 0 .. 9
           /\ m < 8192 => Bits(m) \subseteq 0 .. 12
BY BitsAre

\* What the bit of weight e contributes to m, and what the bits from e on do.
Share(m, e) == IF (m \div e) % 2 = 1 THEN e ELSE 0
Rest(m, e) == e * (m \div e)

LEMMA Shares ==
    ASSUME NEW m \in Nat
    PROVE  /\ Rest(m, 1) = Share(m, 1) + Rest(m, 2)
           /\ Rest(m, 2) = Share(m, 2) + Rest(m, 4)
           /\ Rest(m, 4) = Share(m, 4) + Rest(m, 8)
           /\ Rest(m, 8) = Share(m, 8) + Rest(m, 16)
           /\ Rest(m, 16) = Share(m, 16) + Rest(m, 32)
           /\ Rest(m, 32) = Share(m, 32) + Rest(m, 64)
           /\ Rest(m, 64) = Share(m, 64) + Rest(m, 128)
           /\ Rest(m, 128) = Share(m, 128) + Rest(m, 256)
           /\ Rest(m, 256) = Share(m, 256) + Rest(m, 512)
           /\ Rest(m, 512) = Share(m, 512) + Rest(m, 1024)
           /\ Rest(m, 1024) = Share(m, 1024) + Rest(m, 2048)
           /\ Rest(m, 2048) = Share(m, 2048) + Rest(m, 4096)
           /\ Rest(m, 4096) = Share(m, 4096) + Rest(m, 8192)
           /\ Rest(m, 8192) = Share(m, 8192) + Rest(m, 16384)
           /\ Rest(m, 16384) = Share(m, 16384) + Rest(m, 32768)
           /\ Rest(m, 32768) = Share(m, 32768) + Rest(m, 65536)
           /\ Rest(m, 65536) = Share(m, 65536) + Rest(m, 131072)
           /\ Rest(m, 131072) = Share(m, 131072) + Rest(m, 262144)
           /\ Rest(m, 262144) = Share(m, 262144) + Rest(m, 524288)
           /\ Rest(m, 524288) = Share(m, 524288) + Rest(m, 1048576)
BY SMT DEF Share, Rest

LEMMA ValuesAreShares ==
    ASSUME NEW m \in Nat
    PROVE  /\ Value(Bits(m), 0) = Share(m, 1)
           /\ Value(Bits(m), 1) = Share(m, 2)
           /\ Value(Bits(m), 2) = Share(m, 4)
           /\ Value(Bits(m), 3) = Share(m, 8)
           /\ Value(Bits(m), 4) = Share(m, 16)
           /\ Value(Bits(m), 5) = Share(m, 32)
           /\ Value(Bits(m), 6) = Share(m, 64)
           /\ Value(Bits(m), 7) = Share(m, 128)
           /\ Value(Bits(m), 8) = Share(m, 256)
           /\ Value(Bits(m), 9) = Share(m, 512)
           /\ Value(Bits(m), 10) = Share(m, 1024)
           /\ Value(Bits(m), 11) = Share(m, 2048)
           /\ Value(Bits(m), 12) = Share(m, 4096)
           /\ Value(Bits(m), 13) = Share(m, 8192)
           /\ Value(Bits(m), 14) = Share(m, 16384)
           /\ Value(Bits(m), 15) = Share(m, 32768)
           /\ Value(Bits(m), 16) = Share(m, 65536)
           /\ Value(Bits(m), 17) = Share(m, 131072)
           /\ Value(Bits(m), 18) = Share(m, 262144)
           /\ Value(Bits(m), 19) = Share(m, 524288)
BY BitsAre, SMT DEF Value, Share

\* A number is the sum of its bits.
LEMMA NumberOfBits ==
    ASSUME NEW m \in Nat, m < 1048576
    PROVE  Number(Bits(m)) = m
<1>1. Rest(m, 1048576) = 0 /\ Rest(m, 1) = m
  BY SMT DEF Rest
<1>2. /\ Share(m, 1) \in Int /\ Rest(m, 1) \in Int
      /\ Share(m, 2) \in Int /\ Rest(m, 2) \in Int
      /\ Share(m, 4) \in Int /\ Rest(m, 4) \in Int
      /\ Share(m, 8) \in Int /\ Rest(m, 8) \in Int
      /\ Share(m, 16) \in Int /\ Rest(m, 16) \in Int
      /\ Share(m, 32) \in Int /\ Rest(m, 32) \in Int
      /\ Share(m, 64) \in Int /\ Rest(m, 64) \in Int
      /\ Share(m, 128) \in Int /\ Rest(m, 128) \in Int
      /\ Share(m, 256) \in Int /\ Rest(m, 256) \in Int
      /\ Share(m, 512) \in Int /\ Rest(m, 512) \in Int
      /\ Share(m, 1024) \in Int /\ Rest(m, 1024) \in Int
      /\ Share(m, 2048) \in Int /\ Rest(m, 2048) \in Int
      /\ Share(m, 4096) \in Int /\ Rest(m, 4096) \in Int
      /\ Share(m, 8192) \in Int /\ Rest(m, 8192) \in Int
      /\ Share(m, 16384) \in Int /\ Rest(m, 16384) \in Int
      /\ Share(m, 32768) \in Int /\ Rest(m, 32768) \in Int
      /\ Share(m, 65536) \in Int /\ Rest(m, 65536) \in Int
      /\ Share(m, 131072) \in Int /\ Rest(m, 131072) \in Int
      /\ Share(m, 262144) \in Int /\ Rest(m, 262144) \in Int
      /\ Share(m, 524288) \in Int /\ Rest(m, 524288) \in Int
  BY SMT DEF Share, Rest
<1>3. /\ Rest(m, 1) = Five(Bits(m), 0) + Rest(m, 32) /\ Five(Bits(m), 0) \in Int
      /\ Rest(m, 32) = Five(Bits(m), 5) + Rest(m, 1024) /\ Five(Bits(m), 5) \in Int
      /\ Rest(m, 1024) = Five(Bits(m), 10) + Rest(m, 32768) /\ Five(Bits(m), 10) \in Int
      /\ Rest(m, 32768) = Five(Bits(m), 15) + Rest(m, 1048576) /\ Five(Bits(m), 15) \in Int
  BY <1>1, <1>2, Shares, ValuesAreShares, SMT DEF Five
<1> QED
  BY <1>1, <1>2, <1>3, SMT DEF Number

\* A product, and a bit of a word as a number.
Times(e, h) == e * h
Bit(w, b) == IF b \in w THEN 1 ELSE 0

LEMMA BitIs ==
    ASSUME NEW w, NEW b
    PROVE  /\ Bit(w, b) \in {0, 1}
           /\ Bit(w, b) = 1 <=> b \in w
BY DEF Bit

LEMMA ValueIs ==
    ASSUME NEW w
    PROVE  /\ Value(w, 0) = 1 * Bit(w, 0)
           /\ Value(w, 1) = 2 * Bit(w, 1)
           /\ Value(w, 2) = 4 * Bit(w, 2)
           /\ Value(w, 3) = 8 * Bit(w, 3)
           /\ Value(w, 4) = 16 * Bit(w, 4)
           /\ Value(w, 5) = 32 * Bit(w, 5)
           /\ Value(w, 6) = 64 * Bit(w, 6)
           /\ Value(w, 7) = 128 * Bit(w, 7)
           /\ Value(w, 8) = 256 * Bit(w, 8)
           /\ Value(w, 9) = 512 * Bit(w, 9)
           /\ Value(w, 10) = 1024 * Bit(w, 10)
           /\ Value(w, 11) = 2048 * Bit(w, 11)
           /\ Value(w, 12) = 4096 * Bit(w, 12)
           /\ Value(w, 13) = 8192 * Bit(w, 13)
           /\ Value(w, 14) = 16384 * Bit(w, 14)
           /\ Value(w, 15) = 32768 * Bit(w, 15)
           /\ Value(w, 16) = 65536 * Bit(w, 16)
           /\ Value(w, 17) = 131072 * Bit(w, 17)
           /\ Value(w, 18) = 262144 * Bit(w, 18)
           /\ Value(w, 19) = 524288 * Bit(w, 19)
BY SMT DEF Value, Bit

\* The bits of a sum of bits.
LEMMA BitsOfNumber ==
    ASSUME NEW w \in SUBSET (0 .. 19)
    PROVE  /\ Number(w) \in Nat
           /\ Number(w) < 1048576
           /\ Bits(Number(w)) = w
<1>20. /\ Bit(w, 0) \in {0, 1} /\ (Bit(w, 0) = 1 <=> 0 \in w)
       /\ Bit(w, 1) \in {0, 1} /\ (Bit(w, 1) = 1 <=> 1 \in w)
       /\ Bit(w, 2) \in {0, 1} /\ (Bit(w, 2) = 1 <=> 2 \in w)
       /\ Bit(w, 3) \in {0, 1} /\ (Bit(w, 3) = 1 <=> 3 \in w)
       /\ Bit(w, 4) \in {0, 1} /\ (Bit(w, 4) = 1 <=> 4 \in w)
       /\ Bit(w, 5) \in {0, 1} /\ (Bit(w, 5) = 1 <=> 5 \in w)
       /\ Bit(w, 6) \in {0, 1} /\ (Bit(w, 6) = 1 <=> 6 \in w)
       /\ Bit(w, 7) \in {0, 1} /\ (Bit(w, 7) = 1 <=> 7 \in w)
       /\ Bit(w, 8) \in {0, 1} /\ (Bit(w, 8) = 1 <=> 8 \in w)
       /\ Bit(w, 9) \in {0, 1} /\ (Bit(w, 9) = 1 <=> 9 \in w)
       /\ Bit(w, 10) \in {0, 1} /\ (Bit(w, 10) = 1 <=> 10 \in w)
       /\ Bit(w, 11) \in {0, 1} /\ (Bit(w, 11) = 1 <=> 11 \in w)
       /\ Bit(w, 12) \in {0, 1} /\ (Bit(w, 12) = 1 <=> 12 \in w)
       /\ Bit(w, 13) \in {0, 1} /\ (Bit(w, 13) = 1 <=> 13 \in w)
       /\ Bit(w, 14) \in {0, 1} /\ (Bit(w, 14) = 1 <=> 14 \in w)
       /\ Bit(w, 15) \in {0, 1} /\ (Bit(w, 15) = 1 <=> 15 \in w)
       /\ Bit(w, 16) \in {0, 1} /\ (Bit(w, 16) = 1 <=> 16 \in w)
       /\ Bit(w, 17) \in {0, 1} /\ (Bit(w, 17) = 1 <=> 17 \in w)
       /\ Bit(w, 18) \in {0, 1} /\ (Bit(w, 18) = 1 <=> 18 \in w)
       /\ Bit(w, 19) \in {0, 1} /\ (Bit(w, 19) = 1 <=> 19 \in w)
  BY BitIs
<1>19. PICK h19 \in Nat : h19 = Bit(w, 19) /\ h19 \div 2 = 0 /\ h19 % 2 = Bit(w, 19) /\ h19 < 2
  BY <1>20, SMT
<1>18. PICK h18 \in Nat :
       /\ h18 = Bit(w, 18) + 2 * h19 /\ h18 \div 2 = h19
       /\ h18 % 2 = Bit(w, 18) /\ h18 < 4
  BY <1>20, <1>19, SMT
<1>17. PICK h17 \in Nat :
       /\ h17 = Bit(w, 17) + 2 * h18 /\ h17 \div 2 = h18
       /\ h17 % 2 = Bit(w, 17) /\ h17 < 8
  BY <1>20, <1>18, SMT
<1>16. PICK h16 \in Nat :
       /\ h16 = Bit(w, 16) + 2 * h17 /\ h16 \div 2 = h17
       /\ h16 % 2 = Bit(w, 16) /\ h16 < 16
  BY <1>20, <1>17, SMT
<1>15. PICK h15 \in Nat :
       /\ h15 = Bit(w, 15) + 2 * h16 /\ h15 \div 2 = h16
       /\ h15 % 2 = Bit(w, 15) /\ h15 < 32
  BY <1>20, <1>16, SMT
<1>14. PICK h14 \in Nat :
       /\ h14 = Bit(w, 14) + 2 * h15 /\ h14 \div 2 = h15
       /\ h14 % 2 = Bit(w, 14) /\ h14 < 64
  BY <1>20, <1>15, SMT
<1>13. PICK h13 \in Nat :
       /\ h13 = Bit(w, 13) + 2 * h14 /\ h13 \div 2 = h14
       /\ h13 % 2 = Bit(w, 13) /\ h13 < 128
  BY <1>20, <1>14, SMT
<1>12. PICK h12 \in Nat :
       /\ h12 = Bit(w, 12) + 2 * h13 /\ h12 \div 2 = h13
       /\ h12 % 2 = Bit(w, 12) /\ h12 < 256
  BY <1>20, <1>13, SMT
<1>11. PICK h11 \in Nat :
       /\ h11 = Bit(w, 11) + 2 * h12 /\ h11 \div 2 = h12
       /\ h11 % 2 = Bit(w, 11) /\ h11 < 512
  BY <1>20, <1>12, SMT
<1>10. PICK h10 \in Nat :
       /\ h10 = Bit(w, 10) + 2 * h11 /\ h10 \div 2 = h11
       /\ h10 % 2 = Bit(w, 10) /\ h10 < 1024
  BY <1>20, <1>11, SMT
<1>9. PICK h9 \in Nat :
       /\ h9 = Bit(w, 9) + 2 * h10 /\ h9 \div 2 = h10
       /\ h9 % 2 = Bit(w, 9) /\ h9 < 2048
  BY <1>20, <1>10, SMT
<1>8. PICK h8 \in Nat :
       /\ h8 = Bit(w, 8) + 2 * h9 /\ h8 \div 2 = h9
       /\ h8 % 2 = Bit(w, 8) /\ h8 < 4096
  BY <1>20, <1>9, SMT
<1>7. PICK h7 \in Nat :
       /\ h7 = Bit(w, 7) + 2 * h8 /\ h7 \div 2 = h8
       /\ h7 % 2 = Bit(w, 7) /\ h7 < 8192
  BY <1>20, <1>8, SMT
<1>6. PICK h6 \in Nat :
       /\ h6 = Bit(w, 6) + 2 * h7 /\ h6 \div 2 = h7
       /\ h6 % 2 = Bit(w, 6) /\ h6 < 16384
  BY <1>20, <1>7, SMT
<1>5. PICK h5 \in Nat :
       /\ h5 = Bit(w, 5) + 2 * h6 /\ h5 \div 2 = h6
       /\ h5 % 2 = Bit(w, 5) /\ h5 < 32768
  BY <1>20, <1>6, SMT
<1>4. PICK h4 \in Nat :
       /\ h4 = Bit(w, 4) + 2 * h5 /\ h4 \div 2 = h5
       /\ h4 % 2 = Bit(w, 4) /\ h4 < 65536
  BY <1>20, <1>5, SMT
<1>3. PICK h3 \in Nat :
       /\ h3 = Bit(w, 3) + 2 * h4 /\ h3 \div 2 = h4
       /\ h3 % 2 = Bit(w, 3) /\ h3 < 131072
  BY <1>20, <1>4, SMT
<1>2. PICK h2 \in Nat :
       /\ h2 = Bit(w, 2) + 2 * h3 /\ h2 \div 2 = h3
       /\ h2 % 2 = Bit(w, 2) /\ h2 < 262144
  BY <1>20, <1>3, SMT
<1>1. PICK h1 \in Nat :
       /\ h1 = Bit(w, 1) + 2 * h2 /\ h1 \div 2 = h2
       /\ h1 % 2 = Bit(w, 1) /\ h1 < 524288
  BY <1>20, <1>2, SMT
<1>0. PICK h0 \in Nat :
       /\ h0 = Bit(w, 0) + 2 * h1 /\ h0 \div 2 = h1
       /\ h0 % 2 = Bit(w, 0) /\ h0 < 1048576
  BY <1>20, <1>1, SMT
<1>21. /\ Bit(w, 0) \in Int /\ h0 \in Int /\ h0 = Bit(w, 0) + 2 * h1
       /\ Bit(w, 1) \in Int /\ h1 \in Int /\ h1 = Bit(w, 1) + 2 * h2
       /\ Bit(w, 2) \in Int /\ h2 \in Int /\ h2 = Bit(w, 2) + 2 * h3
       /\ Bit(w, 3) \in Int /\ h3 \in Int /\ h3 = Bit(w, 3) + 2 * h4
       /\ Bit(w, 4) \in Int /\ h4 \in Int /\ h4 = Bit(w, 4) + 2 * h5
       /\ Bit(w, 5) \in Int /\ h5 \in Int /\ h5 = Bit(w, 5) + 2 * h6
       /\ Bit(w, 6) \in Int /\ h6 \in Int /\ h6 = Bit(w, 6) + 2 * h7
       /\ Bit(w, 7) \in Int /\ h7 \in Int /\ h7 = Bit(w, 7) + 2 * h8
       /\ Bit(w, 8) \in Int /\ h8 \in Int /\ h8 = Bit(w, 8) + 2 * h9
       /\ Bit(w, 9) \in Int /\ h9 \in Int /\ h9 = Bit(w, 9) + 2 * h10
       /\ Bit(w, 10) \in Int /\ h10 \in Int /\ h10 = Bit(w, 10) + 2 * h11
       /\ Bit(w, 11) \in Int /\ h11 \in Int /\ h11 = Bit(w, 11) + 2 * h12
       /\ Bit(w, 12) \in Int /\ h12 \in Int /\ h12 = Bit(w, 12) + 2 * h13
       /\ Bit(w, 13) \in Int /\ h13 \in Int /\ h13 = Bit(w, 13) + 2 * h14
       /\ Bit(w, 14) \in Int /\ h14 \in Int /\ h14 = Bit(w, 14) + 2 * h15
       /\ Bit(w, 15) \in Int /\ h15 \in Int /\ h15 = Bit(w, 15) + 2 * h16
       /\ Bit(w, 16) \in Int /\ h16 \in Int /\ h16 = Bit(w, 16) + 2 * h17
       /\ Bit(w, 17) \in Int /\ h17 \in Int /\ h17 = Bit(w, 17) + 2 * h18
       /\ Bit(w, 18) \in Int /\ h18 \in Int /\ h18 = Bit(w, 18) + 2 * h19
       /\ Bit(w, 19) \in Int /\ h19 \in Int /\ h19 = Bit(w, 19)
  <2>0. Bit(w, 0) \in Int /\ h0 \in Int /\ h0 = Bit(w, 0) + 2 * h1
    BY <1>0, <1>20, SMT
  <2>1. Bit(w, 1) \in Int /\ h1 \in Int /\ h1 = Bit(w, 1) + 2 * h2
    BY <1>1, <1>20, SMT
  <2>2. Bit(w, 2) \in Int /\ h2 \in Int /\ h2 = Bit(w, 2) + 2 * h3
    BY <1>2, <1>20, SMT
  <2>3. Bit(w, 3) \in Int /\ h3 \in Int /\ h3 = Bit(w, 3) + 2 * h4
    BY <1>3, <1>20, SMT
  <2>4. Bit(w, 4) \in Int /\ h4 \in Int /\ h4 = Bit(w, 4) + 2 * h5
    BY <1>4, <1>20, SMT
  <2>5. Bit(w, 5) \in Int /\ h5 \in Int /\ h5 = Bit(w, 5) + 2 * h6
    BY <1>5, <1>20, SMT
  <2>6. Bit(w, 6) \in Int /\ h6 \in Int /\ h6 = Bit(w, 6) + 2 * h7
    BY <1>6, <1>20, SMT
  <2>7. Bit(w, 7) \in Int /\ h7 \in Int /\ h7 = Bit(w, 7) + 2 * h8
    BY <1>7, <1>20, SMT
  <2>8. Bit(w, 8) \in Int /\ h8 \in Int /\ h8 = Bit(w, 8) + 2 * h9
    BY <1>8, <1>20, SMT
  <2>9. Bit(w, 9) \in Int /\ h9 \in Int /\ h9 = Bit(w, 9) + 2 * h10
    BY <1>9, <1>20, SMT
  <2>10. Bit(w, 10) \in Int /\ h10 \in Int /\ h10 = Bit(w, 10) + 2 * h11
    BY <1>10, <1>20, SMT
  <2>11. Bit(w, 11) \in Int /\ h11 \in Int /\ h11 = Bit(w, 11) + 2 * h12
    BY <1>11, <1>20, SMT
  <2>12. Bit(w, 12) \in Int /\ h12 \in Int /\ h12 = Bit(w, 12) + 2 * h13
    BY <1>12, <1>20, SMT
  <2>13. Bit(w, 13) \in Int /\ h13 \in Int /\ h13 = Bit(w, 13) + 2 * h14
    BY <1>13, <1>20, SMT
  <2>14. Bit(w, 14) \in Int /\ h14 \in Int /\ h14 = Bit(w, 14) + 2 * h15
    BY <1>14, <1>20, SMT
  <2>15. Bit(w, 15) \in Int /\ h15 \in Int /\ h15 = Bit(w, 15) + 2 * h16
    BY <1>15, <1>20, SMT
  <2>16. Bit(w, 16) \in Int /\ h16 \in Int /\ h16 = Bit(w, 16) + 2 * h17
    BY <1>16, <1>20, SMT
  <2>17. Bit(w, 17) \in Int /\ h17 \in Int /\ h17 = Bit(w, 17) + 2 * h18
    BY <1>17, <1>20, SMT
  <2>18. Bit(w, 18) \in Int /\ h18 \in Int /\ h18 = Bit(w, 18) + 2 * h19
    BY <1>18, <1>20, SMT
  <2>19. Bit(w, 19) \in Int /\ h19 \in Int /\ h19 = Bit(w, 19)
    BY <1>19, <1>20, SMT
  <2> QED
    BY <2>0, <2>1, <2>2, <2>3, <2>4, <2>5, <2>6, <2>7, <2>8, <2>9, <2>10, <2>11, <2>12,
       <2>13, <2>14, <2>15, <2>16, <2>17, <2>18, <2>19, Zenon
<1>22. h0 = Number(w)
  <2>0. Times(1, h0) = Value(w, 0) + Times(2, h1)
    BY <1>21, ValueIs, SMT DEF Times
  <2>1. Times(2, h1) = Value(w, 1) + Times(4, h2)
    BY <1>21, ValueIs, SMT DEF Times
  <2>2. Times(4, h2) = Value(w, 2) + Times(8, h3)
    BY <1>21, ValueIs, SMT DEF Times
  <2>3. Times(8, h3) = Value(w, 3) + Times(16, h4)
    BY <1>21, ValueIs, SMT DEF Times
  <2>4. Times(16, h4) = Value(w, 4) + Times(32, h5)
    BY <1>21, ValueIs, SMT DEF Times
  <2>5. Times(32, h5) = Value(w, 5) + Times(64, h6)
    BY <1>21, ValueIs, SMT DEF Times
  <2>6. Times(64, h6) = Value(w, 6) + Times(128, h7)
    BY <1>21, ValueIs, SMT DEF Times
  <2>7. Times(128, h7) = Value(w, 7) + Times(256, h8)
    BY <1>21, ValueIs, SMT DEF Times
  <2>8. Times(256, h8) = Value(w, 8) + Times(512, h9)
    BY <1>21, ValueIs, SMT DEF Times
  <2>9. Times(512, h9) = Value(w, 9) + Times(1024, h10)
    BY <1>21, ValueIs, SMT DEF Times
  <2>10. Times(1024, h10) = Value(w, 10) + Times(2048, h11)
    BY <1>21, ValueIs, SMT DEF Times
  <2>11. Times(2048, h11) = Value(w, 11) + Times(4096, h12)
    BY <1>21, ValueIs, SMT DEF Times
  <2>12. Times(4096, h12) = Value(w, 12) + Times(8192, h13)
    BY <1>21, ValueIs, SMT DEF Times
  <2>13. Times(8192, h13) = Value(w, 13) + Times(16384, h14)
    BY <1>21, ValueIs, SMT DEF Times
  <2>14. Times(16384, h14) = Value(w, 14) + Times(32768, h15)
    BY <1>21, ValueIs, SMT DEF Times
  <2>15. Times(32768, h15) = Value(w, 15) + Times(65536, h16)
    BY <1>21, ValueIs, SMT DEF Times
  <2>16. Times(65536, h16) = Value(w, 16) + Times(131072, h17)
    BY <1>21, ValueIs, SMT DEF Times
  <2>17. Times(131072, h17) = Value(w, 17) + Times(262144, h18)
    BY <1>21, ValueIs, SMT DEF Times
  <2>18. Times(262144, h18) = Value(w, 18) + Times(524288, h19)
    BY <1>21, ValueIs, SMT DEF Times
  <2>19. Times(524288, h19) = Value(w, 19) + 0
    BY <1>21, ValueIs, SMT DEF Times
  <2>20. /\ Times(1, h0) \in Int /\ Value(w, 0) \in Int
         /\ Times(2, h1) \in Int /\ Value(w, 1) \in Int
         /\ Times(4, h2) \in Int /\ Value(w, 2) \in Int
         /\ Times(8, h3) \in Int /\ Value(w, 3) \in Int
         /\ Times(16, h4) \in Int /\ Value(w, 4) \in Int
         /\ Times(32, h5) \in Int /\ Value(w, 5) \in Int
         /\ Times(64, h6) \in Int /\ Value(w, 6) \in Int
         /\ Times(128, h7) \in Int /\ Value(w, 7) \in Int
         /\ Times(256, h8) \in Int /\ Value(w, 8) \in Int
         /\ Times(512, h9) \in Int /\ Value(w, 9) \in Int
         /\ Times(1024, h10) \in Int /\ Value(w, 10) \in Int
         /\ Times(2048, h11) \in Int /\ Value(w, 11) \in Int
         /\ Times(4096, h12) \in Int /\ Value(w, 12) \in Int
         /\ Times(8192, h13) \in Int /\ Value(w, 13) \in Int
         /\ Times(16384, h14) \in Int /\ Value(w, 14) \in Int
         /\ Times(32768, h15) \in Int /\ Value(w, 15) \in Int
         /\ Times(65536, h16) \in Int /\ Value(w, 16) \in Int
         /\ Times(131072, h17) \in Int /\ Value(w, 17) \in Int
         /\ Times(262144, h18) \in Int /\ Value(w, 18) \in Int
         /\ Times(524288, h19) \in Int /\ Value(w, 19) \in Int
    BY <1>21, SMT DEF Times, Value
  <2>21. Times(1, h0) = h0
    BY <1>21, SMT DEF Times
  <2>22. Times(1, h0) = Five(w, 0) + Times(32, h5) /\ Five(w, 0) \in Int
    BY <2>0, <2>1, <2>2, <2>3, <2>4, <2>20, SMT DEF Five
  <2>23. Times(32, h5) = Five(w, 5) + Times(1024, h10) /\ Five(w, 5) \in Int
    BY <2>5, <2>6, <2>7, <2>8, <2>9, <2>20, SMT DEF Five
  <2>24. Times(1024, h10) = Five(w, 10) + Times(32768, h15) /\ Five(w, 10) \in Int
    BY <2>10, <2>11, <2>12, <2>13, <2>14, <2>20, SMT DEF Five
  <2>25. Times(32768, h15) = Five(w, 15) + 0 /\ Five(w, 15) \in Int
    BY <2>15, <2>16, <2>17, <2>18, <2>19, <2>20, SMT DEF Five
  <2> QED
    BY <2>20, <2>21, <2>22, <2>23, <2>24, <2>25, SMT DEF Number
<1>30. h0 \div 1 = h0
  BY SMT
<1>31. h0 \div 2 = h1
  BY <1>30, <1>0, Halving, SMT
<1>32. h0 \div 4 = h2
  BY <1>31, <1>1, Halving, SMT
<1>33. h0 \div 8 = h3
  BY <1>32, <1>2, Halving, SMT
<1>34. h0 \div 16 = h4
  BY <1>33, <1>3, Halving, SMT
<1>35. h0 \div 32 = h5
  BY <1>34, <1>4, Halving, SMT
<1>36. h0 \div 64 = h6
  BY <1>35, <1>5, Halving, SMT
<1>37. h0 \div 128 = h7
  BY <1>36, <1>6, Halving, SMT
<1>38. h0 \div 256 = h8
  BY <1>37, <1>7, Halving, SMT
<1>39. h0 \div 512 = h9
  BY <1>38, <1>8, Halving, SMT
<1>40. h0 \div 1024 = h10
  BY <1>39, <1>9, Halving, SMT
<1>41. h0 \div 2048 = h11
  BY <1>40, <1>10, Halving, SMT
<1>42. h0 \div 4096 = h12
  BY <1>41, <1>11, Halving, SMT
<1>43. h0 \div 8192 = h13
  BY <1>42, <1>12, Halving, SMT
<1>44. h0 \div 16384 = h14
  BY <1>43, <1>13, Halving, SMT
<1>45. h0 \div 32768 = h15
  BY <1>44, <1>14, Halving, SMT
<1>46. h0 \div 65536 = h16
  BY <1>45, <1>15, Halving, SMT
<1>47. h0 \div 131072 = h17
  BY <1>46, <1>16, Halving, SMT
<1>48. h0 \div 262144 = h18
  BY <1>47, <1>17, Halving, SMT
<1>49. h0 \div 524288 = h19
  BY <1>48, <1>18, Halving, SMT
<1>50. /\ 0 \in Bits(h0) <=> 0 \in w
       /\ 1 \in Bits(h0) <=> 1 \in w
       /\ 2 \in Bits(h0) <=> 2 \in w
       /\ 3 \in Bits(h0) <=> 3 \in w
       /\ 4 \in Bits(h0) <=> 4 \in w
       /\ 5 \in Bits(h0) <=> 5 \in w
       /\ 6 \in Bits(h0) <=> 6 \in w
       /\ 7 \in Bits(h0) <=> 7 \in w
       /\ 8 \in Bits(h0) <=> 8 \in w
       /\ 9 \in Bits(h0) <=> 9 \in w
       /\ 10 \in Bits(h0) <=> 10 \in w
       /\ 11 \in Bits(h0) <=> 11 \in w
       /\ 12 \in Bits(h0) <=> 12 \in w
       /\ 13 \in Bits(h0) <=> 13 \in w
       /\ 14 \in Bits(h0) <=> 14 \in w
       /\ 15 \in Bits(h0) <=> 15 \in w
       /\ 16 \in Bits(h0) <=> 16 \in w
       /\ 17 \in Bits(h0) <=> 17 \in w
       /\ 18 \in Bits(h0) <=> 18 \in w
       /\ 19 \in Bits(h0) <=> 19 \in w
  <2>0. 0 \in Bits(h0) <=> 0 \in w
    BY <1>30, <1>0, <1>20, BitsAre, SMT
  <2>1. 1 \in Bits(h0) <=> 1 \in w
    BY <1>31, <1>1, <1>20, BitsAre, SMT
  <2>2. 2 \in Bits(h0) <=> 2 \in w
    BY <1>32, <1>2, <1>20, BitsAre, SMT
  <2>3. 3 \in Bits(h0) <=> 3 \in w
    BY <1>33, <1>3, <1>20, BitsAre, SMT
  <2>4. 4 \in Bits(h0) <=> 4 \in w
    BY <1>34, <1>4, <1>20, BitsAre, SMT
  <2>5. 5 \in Bits(h0) <=> 5 \in w
    BY <1>35, <1>5, <1>20, BitsAre, SMT
  <2>6. 6 \in Bits(h0) <=> 6 \in w
    BY <1>36, <1>6, <1>20, BitsAre, SMT
  <2>7. 7 \in Bits(h0) <=> 7 \in w
    BY <1>37, <1>7, <1>20, BitsAre, SMT
  <2>8. 8 \in Bits(h0) <=> 8 \in w
    BY <1>38, <1>8, <1>20, BitsAre, SMT
  <2>9. 9 \in Bits(h0) <=> 9 \in w
    BY <1>39, <1>9, <1>20, BitsAre, SMT
  <2>10. 10 \in Bits(h0) <=> 10 \in w
    BY <1>40, <1>10, <1>20, BitsAre, SMT
  <2>11. 11 \in Bits(h0) <=> 11 \in w
    BY <1>41, <1>11, <1>20, BitsAre, SMT
  <2>12. 12 \in Bits(h0) <=> 12 \in w
    BY <1>42, <1>12, <1>20, BitsAre, SMT
  <2>13. 13 \in Bits(h0) <=> 13 \in w
    BY <1>43, <1>13, <1>20, BitsAre, SMT
  <2>14. 14 \in Bits(h0) <=> 14 \in w
    BY <1>44, <1>14, <1>20, BitsAre, SMT
  <2>15. 15 \in Bits(h0) <=> 15 \in w
    BY <1>45, <1>15, <1>20, BitsAre, SMT
  <2>16. 16 \in Bits(h0) <=> 16 \in w
    BY <1>46, <1>16, <1>20, BitsAre, SMT
  <2>17. 17 \in Bits(h0) <=> 17 \in w
    BY <1>47, <1>17, <1>20, BitsAre, SMT
  <2>18. 18 \in Bits(h0) <=> 18 \in w
    BY <1>48, <1>18, <1>20, BitsAre, SMT
  <2>19. 19 \in Bits(h0) <=> 19 \in w
    BY <1>49, <1>19, <1>20, BitsAre, SMT
  <2> QED
    BY <2>0, <2>1, <2>2, <2>3, <2>4, <2>5, <2>6, <2>7, <2>8, <2>9, <2>10, <2>11, <2>12,
       <2>13, <2>14, <2>15, <2>16, <2>17, <2>18, <2>19, Zenon
<1>51. Bits(h0) \subseteq 0 .. 19 /\ w \subseteq 0 .. 19
  BY BitsAre
<1>52. \A b \in 0 .. 19 : b \in Bits(h0) <=> b \in w
  BY <1>50, SMT
<1>53. Bits(h0) = w
  BY <1>51, <1>52
<1> QED
  BY <1>0, <1>22, <1>53

-----------------------------------------------------------------------------
(* The tables *)

\* The words from which element e is made, when words of one width are written one
\* after another and read with another width: each at its distance.
Row(e, from, to) ==
    {<<i, from * (i - 1) - to * (e - 1)>> :
        i \in ((to * (e - 1)) \div from) + 1 .. ((to * e - 1) \div from) + 1}

Fits(table, from, to, n) ==
    DOMAIN table = 1 .. n /\ \A e \in 1 .. n : table[e] = Row(e, from, to)

LEMMA eta_pack_Fits == Fits(eta_pack, 3, 8, 3)
<1>1. eta_pack[1] = Row(1, 3, 8)
  BY DEF eta_pack, Row
<1>2. eta_pack[2] = Row(2, 3, 8)
  BY DEF eta_pack, Row
<1>3. eta_pack[3] = Row(3, 3, 8)
  BY DEF eta_pack, Row
<1>0. DOMAIN eta_pack = 1 .. 3
  BY DEF eta_pack
<1> QED
  BY <1>0, <1>1, <1>2, <1>3 DEF Fits

LEMMA eta_unpack_Fits == Fits(eta_unpack, 8, 3, 8)
<1>1. eta_unpack[1] = Row(1, 8, 3)
  BY DEF eta_unpack, Row
<1>2. eta_unpack[2] = Row(2, 8, 3)
  BY DEF eta_unpack, Row
<1>3. eta_unpack[3] = Row(3, 8, 3)
  BY DEF eta_unpack, Row
<1>4. eta_unpack[4] = Row(4, 8, 3)
  BY DEF eta_unpack, Row
<1>5. eta_unpack[5] = Row(5, 8, 3)
  BY DEF eta_unpack, Row
<1>6. eta_unpack[6] = Row(6, 8, 3)
  BY DEF eta_unpack, Row
<1>7. eta_unpack[7] = Row(7, 8, 3)
  BY DEF eta_unpack, Row
<1>8. eta_unpack[8] = Row(8, 8, 3)
  BY DEF eta_unpack, Row
<1>0. DOMAIN eta_unpack = 1 .. 8
  BY DEF eta_unpack
<1> QED
  BY <1>0, <1>1, <1>2, <1>3, <1>4, <1>5, <1>6, <1>7, <1>8 DEF Fits

LEMMA t1_pack_Fits == Fits(t1_pack, 10, 8, 5)
<1>1. t1_pack[1] = Row(1, 10, 8)
  BY DEF t1_pack, Row
<1>2. t1_pack[2] = Row(2, 10, 8)
  BY DEF t1_pack, Row
<1>3. t1_pack[3] = Row(3, 10, 8)
  BY DEF t1_pack, Row
<1>4. t1_pack[4] = Row(4, 10, 8)
  BY DEF t1_pack, Row
<1>5. t1_pack[5] = Row(5, 10, 8)
  BY DEF t1_pack, Row
<1>0. DOMAIN t1_pack = 1 .. 5
  BY DEF t1_pack
<1> QED
  BY <1>0, <1>1, <1>2, <1>3, <1>4, <1>5 DEF Fits

LEMMA t1_unpack_Fits == Fits(t1_unpack, 8, 10, 4)
<1>1. t1_unpack[1] = Row(1, 8, 10)
  BY DEF t1_unpack, Row
<1>2. t1_unpack[2] = Row(2, 8, 10)
  BY DEF t1_unpack, Row
<1>3. t1_unpack[3] = Row(3, 8, 10)
  BY DEF t1_unpack, Row
<1>4. t1_unpack[4] = Row(4, 8, 10)
  BY DEF t1_unpack, Row
<1>0. DOMAIN t1_unpack = 1 .. 4
  BY DEF t1_unpack
<1> QED
  BY <1>0, <1>1, <1>2, <1>3, <1>4 DEF Fits

LEMMA t0_pack_Fits == Fits(t0_pack, 13, 8, 13)
<1>1. t0_pack[1] = Row(1, 13, 8)
  BY DEF t0_pack, Row
<1>2. t0_pack[2] = Row(2, 13, 8)
  BY DEF t0_pack, Row
<1>3. t0_pack[3] = Row(3, 13, 8)
  BY DEF t0_pack, Row
<1>4. t0_pack[4] = Row(4, 13, 8)
  BY DEF t0_pack, Row
<1>5. t0_pack[5] = Row(5, 13, 8)
  BY DEF t0_pack, Row
<1>6. t0_pack[6] = Row(6, 13, 8)
  BY DEF t0_pack, Row
<1>7. t0_pack[7] = Row(7, 13, 8)
  BY DEF t0_pack, Row
<1>8. t0_pack[8] = Row(8, 13, 8)
  BY DEF t0_pack, Row
<1>9. t0_pack[9] = Row(9, 13, 8)
  BY DEF t0_pack, Row
<1>10. t0_pack[10] = Row(10, 13, 8)
  BY DEF t0_pack, Row
<1>11. t0_pack[11] = Row(11, 13, 8)
  BY DEF t0_pack, Row
<1>12. t0_pack[12] = Row(12, 13, 8)
  BY DEF t0_pack, Row
<1>13. t0_pack[13] = Row(13, 13, 8)
  BY DEF t0_pack, Row
<1>0. DOMAIN t0_pack = 1 .. 13
  BY DEF t0_pack
<1> QED
  BY <1>0, <1>1, <1>2, <1>3, <1>4, <1>5, <1>6, <1>7, <1>8, <1>9, <1>10, <1>11, <1>12, <1>13
     DEF Fits

LEMMA t0_unpack_Fits == Fits(t0_unpack, 8, 13, 8)
<1>1. t0_unpack[1] = Row(1, 8, 13)
  BY DEF t0_unpack, Row
<1>2. t0_unpack[2] = Row(2, 8, 13)
  BY DEF t0_unpack, Row
<1>3. t0_unpack[3] = Row(3, 8, 13)
  BY DEF t0_unpack, Row
<1>4. t0_unpack[4] = Row(4, 8, 13)
  BY DEF t0_unpack, Row
<1>5. t0_unpack[5] = Row(5, 8, 13)
  BY DEF t0_unpack, Row
<1>6. t0_unpack[6] = Row(6, 8, 13)
  BY DEF t0_unpack, Row
<1>7. t0_unpack[7] = Row(7, 8, 13)
  BY DEF t0_unpack, Row
<1>8. t0_unpack[8] = Row(8, 8, 13)
  BY DEF t0_unpack, Row
<1>0. DOMAIN t0_unpack = 1 .. 8
  BY DEF t0_unpack
<1> QED
  BY <1>0, <1>1, <1>2, <1>3, <1>4, <1>5, <1>6, <1>7, <1>8 DEF Fits

LEMMA z_pack_Fits == Fits(z_pack, 20, 8, 5)
<1>1. z_pack[1] = Row(1, 20, 8)
  BY DEF z_pack, Row
<1>2. z_pack[2] = Row(2, 20, 8)
  BY DEF z_pack, Row
<1>3. z_pack[3] = Row(3, 20, 8)
  BY DEF z_pack, Row
<1>4. z_pack[4] = Row(4, 20, 8)
  BY DEF z_pack, Row
<1>5. z_pack[5] = Row(5, 20, 8)
  BY DEF z_pack, Row
<1>0. DOMAIN z_pack = 1 .. 5
  BY DEF z_pack
<1> QED
  BY <1>0, <1>1, <1>2, <1>3, <1>4, <1>5 DEF Fits

LEMMA z_unpack_Fits == Fits(z_unpack, 8, 20, 2)
<1>1. z_unpack[1] = Row(1, 8, 20)
  BY DEF z_unpack, Row
<1>2. z_unpack[2] = Row(2, 8, 20)
  BY DEF z_unpack, Row
<1>0. DOMAIN z_unpack = 1 .. 2
  BY DEF z_unpack
<1> QED
  BY <1>0, <1>1, <1>2 DEF Fits

LEMMA w1_pack_Fits == Fits(w1_pack, 4, 8, 1)
<1>1. w1_pack[1] = Row(1, 4, 8)
  BY DEF w1_pack, Row
<1>0. DOMAIN w1_pack = 1 .. 1
  BY DEF w1_pack
<1> QED
  BY <1>0, <1>1 DEF Fits

-----------------------------------------------------------------------------
(* Bits in order *)

Widths == {3, 4, 8, 10, 13, 20}
Words(m, width) == [1 .. m -> SUBSET (0 .. width - 1)]

\* What Pack and Unpack compute, with the words as sets of bits.
Moved(table, s, keep) == [e \in DOMAIN table |-> Parts(table[e], s, keep[e])]

\* One element: the bits from position a on.
LEMMA OneElement ==
    ASSUME NEW from \in Widths, NEW to \in Widths, NEW m \in Nat, NEW a \in Nat,
           a + to <= from * m, NEW s \in Words(m, from),
           NEW keep \in Nat, keep >= to, keep = to \/ a + to = from * m,
           NEW r, r = {<<i, from * (i - 1) - a>> :
                          i \in (a \div from) + 1 .. ((a + to - 1) \div from) + 1}
    PROVE  /\ Parts(r, s, keep) \subseteq 0 .. to - 1
           /\ \A x \in 0 .. to - 1 :
                 x \in Parts(r, s, keep) <=> (a + x) % from \in s[((a + x) \div from) + 1]
<1>0. from \in Nat /\ from > 0 /\ to \in Nat /\ to > 0
  BY DEF Widths
<1> DEFINE I == (a \div from) + 1 .. ((a + to - 1) \div from) + 1
<1>1. I \subseteq 1 .. m
  <2> SUFFICES ASSUME NEW i \in I PROVE i \in 1 .. m
    OBVIOUS
  <2>1. CASE from = 3 BY <2>1, <1>0
  <2>2. CASE from = 4 BY <2>2, <1>0
  <2>3. CASE from = 8 BY <2>3, <1>0
  <2>4. CASE from = 10 BY <2>4, <1>0
  <2>5. CASE from = 13 BY <2>5, <1>0
  <2>6. CASE from = 20 BY <2>6, <1>0
  <2> QED BY <2>1, <2>2, <2>3, <2>4, <2>5, <2>6 DEF Widths
<1>2. \A i \in I : s[i] \subseteq 0 .. from - 1
  BY <1>1 DEF Words
<1>3. ASSUME NEW x \in Int
      PROVE  x \in Parts(r, s, keep)
               <=> x \in 0 .. keep - 1 /\ \E i \in I : x - (from * (i - 1) - a) \in s[i]
  <2>1. \A i \in I : from * (i - 1) - a \in Int
    BY <1>0
  <2>2. Parts(r, s, keep) = {b \in 0 .. keep - 1 : \E part \in r : b \in Shift(s[part[1]], part[2])}
    BY DEF Parts, Low
  <2>3. \A i \in I : s[i] \subseteq Int
    BY <1>0, <1>2
  <2>4. ASSUME NEW i \in I, x \in 0 .. keep - 1
        PROVE  x \in Shift(s[i], from * (i - 1) - a) <=> x - (from * (i - 1) - a) \in s[i]
    <3>1. PICK h \in Int : h = from * (i - 1) - a
      BY <2>1
    <3>2. x \in Shift(s[i], h) <=> x - h \in s[i]
      BY <2>3, <2>4 DEF Shift
    <3> QED
      BY <3>1, <3>2
  <2>5. (\E part \in r : x \in Shift(s[part[1]], part[2]))
          <=> \E i \in I : x \in Shift(s[i], from * (i - 1) - a)
    <3>1. ASSUME NEW part \in r, x \in Shift(s[part[1]], part[2])
          PROVE  \E i \in I : x \in Shift(s[i], from * (i - 1) - a)
      <4>1. PICK i \in I : part = <<i, from * (i - 1) - a>>
        OBVIOUS
      <4>2. part[1] = i /\ part[2] = from * (i - 1) - a
        BY <4>1
      <4> QED
        BY <4>2, <3>1, Zenon
    <3>2. ASSUME NEW i \in I, x \in Shift(s[i], from * (i - 1) - a)
          PROVE  \E part \in r : x \in Shift(s[part[1]], part[2])
      <4>0. <<i, from * (i - 1) - a>> \in r
        OBVIOUS
      <4>1. PICK part \in r : part[1] = i /\ part[2] = from * (i - 1) - a
        BY <4>0
      <4> QED
        BY <4>1, <3>2, Zenon
    <3> QED
      BY <3>1, <3>2
  <2> QED
    BY <2>2, <2>4, <2>5
<1>4. ASSUME NEW x \in Nat, NEW i \in I, x - (from * (i - 1) - a) \in 0 .. from - 1
      PROVE  /\ i = ((a + x) \div from) + 1
             /\ x - (from * (i - 1) - a) = (a + x) % from
  <2>1. CASE from = 3 BY <1>4, <2>1
  <2>2. CASE from = 4 BY <1>4, <2>2
  <2>3. CASE from = 8 BY <1>4, <2>3
  <2>4. CASE from = 10 BY <1>4, <2>4
  <2>5. CASE from = 13 BY <1>4, <2>5
  <2>6. CASE from = 20 BY <1>4, <2>6
  <2> QED BY <2>1, <2>2, <2>3, <2>4, <2>5, <2>6 DEF Widths
<1>5. ASSUME NEW x \in 0 .. to - 1
      PROVE  /\ ((a + x) \div from) + 1 \in I
             /\ x - (from * ((a + x) \div from) - a) = (a + x) % from
  <2>1. CASE from = 3 BY <1>5, <2>1, <1>0
  <2>2. CASE from = 4 BY <1>5, <2>2, <1>0
  <2>3. CASE from = 8 BY <1>5, <2>3, <1>0
  <2>4. CASE from = 10 BY <1>5, <2>4, <1>0
  <2>5. CASE from = 13 BY <1>5, <2>5, <1>0
  <2>6. CASE from = 20 BY <1>5, <2>6, <1>0
  <2> QED BY <2>1, <2>2, <2>3, <2>4, <2>5, <2>6 DEF Widths
<1>6. ASSUME NEW x \in 0 .. to - 1
      PROVE  x \in Parts(r, s, keep) <=> (a + x) % from \in s[((a + x) \div from) + 1]
  <2>1. x \in Int /\ x \in Nat /\ x \in 0 .. keep - 1
    BY <1>0
  <2>2. ASSUME NEW i \in I, x - (from * (i - 1) - a) \in s[i]
        PROVE  (a + x) % from \in s[((a + x) \div from) + 1]
    BY <2>1, <2>2, <1>2, <1>4
  <2>3. ASSUME (a + x) % from \in s[((a + x) \div from) + 1]
        PROVE  \E i \in I : x - (from * (i - 1) - a) \in s[i]
    <3>1. PICK i \in I : i = ((a + x) \div from) + 1
      BY <1>5
    <3>2. i - 1 = (a + x) \div from
      BY <3>1, <1>0
    <3> QED
      BY <3>1, <3>2, <2>3, <1>5
  <2> QED
    BY <2>1, <2>2, <2>3, <1>3
<1>7. Parts(r, s, keep) \subseteq 0 .. to - 1
  <2> SUFFICES ASSUME NEW x \in Parts(r, s, keep) PROVE x \in 0 .. to - 1
    OBVIOUS
  <2>1. x \in 0 .. keep - 1
    BY DEF Parts, Low
  <2>2. CASE keep = to
    BY <2>1, <2>2
  <2>3. CASE a + to = from * m
    <3>1. PICK i \in I : x - (from * (i - 1) - a) \in 0 .. from - 1
      BY <2>1, <1>3, <1>2
    <3>2. i \in 1 .. m /\ x \in Int
      BY <1>1, <2>1
    <3>3. CASE from = 3 BY <3>1, <3>2, <3>3, <2>3, <2>1, <1>0
    <3>4. CASE from = 4 BY <3>1, <3>2, <3>4, <2>3, <2>1, <1>0
    <3>5. CASE from = 8 BY <3>1, <3>2, <3>5, <2>3, <2>1, <1>0
    <3>6. CASE from = 10 BY <3>1, <3>2, <3>6, <2>3, <2>1, <1>0
    <3>7. CASE from = 13 BY <3>1, <3>2, <3>7, <2>3, <2>1, <1>0
    <3>8. CASE from = 20 BY <3>1, <3>2, <3>8, <2>3, <2>1, <1>0
    <3> QED BY <3>3, <3>4, <3>5, <3>6, <3>7, <3>8 DEF Widths
  <2> QED
    BY <2>2, <2>3
<1> QED
  BY <1>6, <1>7

\* All elements of a group.
LEMMA AllElements ==
    ASSUME NEW from \in Widths, NEW to \in Widths, NEW m \in Nat, NEW n \in Nat,
           to * n = from * m, NEW table, Fits(table, from, to, n),
           NEW s \in Words(m, from), NEW keep,
           \A e \in 1 .. n : keep[e] \in Nat /\ keep[e] >= to /\ (keep[e] = to \/ e = n),
           NEW y, y = Moved(table, s, keep)
    PROVE  /\ y \in Words(n, to)
           /\ \A e \in 1 .. n : \A x \in 0 .. to - 1 :
                 x \in y[e] <=> (to * (e - 1) + x) % from \in s[((to * (e - 1) + x) \div from) + 1]
<1>0. from \in Nat /\ to \in Nat
  BY DEF Widths
<1>1. y = [e \in 1 .. n |-> Parts(Row(e, from, to), s, keep[e])]
  BY DEF Moved, Fits
<1>2. ASSUME NEW e \in 1 .. n
      PROVE  /\ y[e] \subseteq 0 .. to - 1
             /\ \A x \in 0 .. to - 1 :
                   x \in y[e] <=> (to * (e - 1) + x) % from \in s[((to * (e - 1) + x) \div from) + 1]
  <2>1. PICK a \in Nat : /\ a = to * (e - 1) /\ a + to = to * e /\ a + to <= from * m
                         /\ e = n => a + to = from * m
    <3>1. CASE to = 3 BY <3>1, <1>0
    <3>2. CASE to = 4 BY <3>2, <1>0
    <3>3. CASE to = 8 BY <3>3, <1>0
    <3>4. CASE to = 10 BY <3>4, <1>0
    <3>5. CASE to = 13 BY <3>5, <1>0
    <3>6. CASE to = 20 BY <3>6, <1>0
    <3> QED BY <3>1, <3>2, <3>3, <3>4, <3>5, <3>6 DEF Widths
  <2>2. PICK r : r = Row(e, from, to)
    OBVIOUS
  <2>3. r = {<<i, from * (i - 1) - a>> :
                i \in (a \div from) + 1 .. ((a + to - 1) \div from) + 1}
    <3>1. to * (e - 1) = a /\ to * e - 1 = a + to - 1
      BY <2>1, <1>0
    <3> QED
      BY <2>2, <3>1, Zenon DEF Row
  <2>4. PICK k1 \in Nat : k1 = keep[e] /\ k1 >= to /\ (k1 = to \/ a + to = from * m)
    BY <2>1
  <2>5. /\ Parts(r, s, k1) \subseteq 0 .. to - 1
        /\ \A x \in 0 .. to - 1 :
              x \in Parts(r, s, k1) <=> (a + x) % from \in s[((a + x) \div from) + 1]
    BY <2>1, <2>3, <2>4, OneElement
  <2>6. y[e] = Parts(r, s, k1)
    BY <2>2, <2>4, <1>1
  <2> QED
    BY <2>1, <2>5, <2>6
<1>3. y \in Words(n, to)
  BY <1>1, <1>2 DEF Words
<1> QED
  BY <1>2, <1>3

\* The n bytes y are the m words s of the given width, least significant bit first.
InOrder(y, s, width, n) ==
    \A i \in 0 .. 8 * n - 1 :
        i % 8 \in y[(i \div 8) + 1] <=> i % width \in s[(i \div width) + 1]

\* Packing writes the bits in order.
LEMMA PacksInOrder ==
    ASSUME NEW width \in Widths, NEW m \in Nat, NEW n \in Nat, 8 * n = width * m,
           NEW table, Fits(table, width, 8, n), NEW s \in Words(m, width),
           NEW keep, \A e \in 1 .. n : keep[e] = 8, NEW y, y = Moved(table, s, keep)
    PROVE  y \in Words(n, 8) /\ InOrder(y, s, width, n)
<1>1. PICK to \in Widths : to = 8
  BY DEF Widths
<1>2. /\ y \in Words(n, 8)
      /\ \A e \in 1 .. n : \A x \in 0 .. 7 :
            x \in y[e] <=> (8 * (e - 1) + x) % width \in s[((8 * (e - 1) + x) \div width) + 1]
  <2>1. /\ to * n = width * m /\ Fits(table, width, to, n)
        /\ \A e \in 1 .. n : keep[e] \in Nat /\ keep[e] >= to /\ (keep[e] = to \/ e = n)
    BY <1>1
  <2>2. /\ y \in Words(n, to)
        /\ \A e \in 1 .. n : \A x \in 0 .. to - 1 :
              x \in y[e] <=> (to * (e - 1) + x) % width \in s[((to * (e - 1) + x) \div width) + 1]
    BY <2>1, AllElements
  <2> QED
    BY <2>2, <1>1
<1>3. ASSUME NEW i \in 0 .. 8 * n - 1
      PROVE  i % 8 \in y[(i \div 8) + 1] <=> i % width \in s[(i \div width) + 1]
  <2>1. (i \div 8) + 1 \in 1 .. n /\ i % 8 \in 0 .. 7 /\ 8 * (((i \div 8) + 1) - 1) + (i % 8) = i
    OBVIOUS
  <2> QED
    BY <2>1, <1>2
<1> QED
  BY <1>2, <1>3 DEF InOrder

\* Unpacking reads the bits in order.
LEMMA ReadsInOrder ==
    ASSUME NEW width \in Widths, NEW m \in Nat, NEW n \in Nat, 8 * n = width * m,
           NEW table, Fits(table, 8, width, m), NEW y \in Words(n, 8), NEW keep,
           \A e \in 1 .. m : keep[e] \in Nat /\ keep[e] >= width /\ (keep[e] = width \/ e = m),
           NEW s, s = Moved(table, y, keep)
    PROVE  s \in Words(m, width) /\ InOrder(y, s, width, n)
<1>1. 8 \in Widths /\ width \in Nat
  BY DEF Widths
<1>2. /\ s \in Words(m, width)
      /\ \A e \in 1 .. m : \A x \in 0 .. width - 1 :
            x \in s[e] <=> (width * (e - 1) + x) % 8 \in y[((width * (e - 1) + x) \div 8) + 1]
  BY <1>1, AllElements
<1>3. ASSUME NEW i \in 0 .. 8 * n - 1
      PROVE  i % 8 \in y[(i \div 8) + 1] <=> i % width \in s[(i \div width) + 1]
  <2>1. /\ (i \div width) + 1 \in 1 .. m /\ i % width \in 0 .. width - 1
        /\ width * (((i \div width) + 1) - 1) + (i % width) = i
    <3>1. CASE width = 3 BY <3>1
    <3>2. CASE width = 4 BY <3>2
    <3>3. CASE width = 8 BY <3>3
    <3>4. CASE width = 10 BY <3>4
    <3>5. CASE width = 13 BY <3>5
    <3>6. CASE width = 20 BY <3>6
    <3> QED BY <3>1, <3>2, <3>3, <3>4, <3>5, <3>6 DEF Widths
  <2> QED
    BY <2>1, <1>2
<1> QED
  BY <1>2, <1>3 DEF InOrder

\* Bytes and words that are in order determine each other.
LEMMA SameWords ==
    ASSUME NEW width \in Widths, NEW m \in Nat, NEW n \in Nat, 8 * n = width * m, NEW y,
           NEW s \in Words(m, width), NEW z \in Words(m, width),
           InOrder(y, s, width, n), InOrder(y, z, width, n)
    PROVE  s = z
<1>1. ASSUME NEW p \in 1 .. m, NEW x \in 0 .. width - 1
      PROVE  x \in s[p] <=> x \in z[p]
  <2>1. PICK i \in 0 .. 8 * n - 1 : (i \div width) + 1 = p /\ i % width = x
    <3> DEFINE j == width * (p - 1) + x
    <3>0. j \in 0 .. 8 * n - 1 /\ (j \div width) + 1 = p /\ j % width = x
      <4>1. CASE width = 3 BY <4>1
      <4>2. CASE width = 4 BY <4>2
      <4>3. CASE width = 8 BY <4>3
      <4>4. CASE width = 10 BY <4>4
      <4>5. CASE width = 13 BY <4>5
      <4>6. CASE width = 20 BY <4>6
      <4> QED BY <4>1, <4>2, <4>3, <4>4, <4>5, <4>6 DEF Widths
    <3> QED BY <3>0
  <2> QED
    BY <2>1 DEF InOrder
<1>2. \A p \in 1 .. m : s[p] = z[p]
  BY <1>1 DEF Words
<1> QED
  BY <1>2 DEF Words

LEMMA SameBytes ==
    ASSUME NEW width \in Widths, NEW n \in Nat, NEW s,
           NEW y \in Words(n, 8), NEW z \in Words(n, 8),
           InOrder(y, s, width, n), InOrder(z, s, width, n)
    PROVE  y = z
<1>1. ASSUME NEW p \in 1 .. n, NEW x \in 0 .. 7
      PROVE  x \in y[p] <=> x \in z[p]
  <2>1. PICK i \in 0 .. 8 * n - 1 : (i \div 8) + 1 = p /\ i % 8 = x
    <3>1. 8 * (p - 1) + x \in 0 .. 8 * n - 1
      OBVIOUS
    <3>2. ((8 * (p - 1) + x) \div 8) + 1 = p /\ (8 * (p - 1) + x) % 8 = x
      OBVIOUS
    <3> QED BY <3>1, <3>2
  <2> QED
    BY <2>1 DEF InOrder
<1>2. \A p \in 1 .. n : y[p] \subseteq 0 .. 7 /\ z[p] \subseteq 0 .. 7
  BY DEF Words
<1>3. \A p \in 1 .. n : y[p] = z[p]
  BY <1>1, <1>2
<1> QED
  BY <1>3 DEF Words

-----------------------------------------------------------------------------
(* The five formats *)

Limit == 1048576

\* What the proof needs to know of a format of m words in n bytes.
IsFormat(f, m, n) ==
    /\ Formats[f].width \in Widths /\ 8 * n = Formats[f].width * m
    /\ Group(f) = 1 .. m
    /\ Len(Formats[f].pack) = n /\ DOMAIN Formats[f].pack = 1 .. n
    /\ Fits(Formats[f].pack, Formats[f].width, 8, n)
    /\ Formats[f].signed \in BOOLEAN /\ Formats[f].base \in Int
    /\ Formats[f].max \in Nat /\ Formats[f].max < Limit
    /\ \A v \in Nat : v <= Formats[f].max => Bits(v) \subseteq 0 .. Formats[f].width - 1

\* And of one that is also unpacked.
IsReadable(f, m) ==
    /\ Fits(Formats[f].unpack, 8, Formats[f].width, m)
    /\ DOMAIN Formats[f].unpack = 1 .. m
    /\ \A e \in 1 .. m : /\ Formats[f].keep[e] \in Nat
                         /\ Formats[f].keep[e] >= Formats[f].width
                         /\ Formats[f].keep[e] = Formats[f].width \/ e = m

LEMMA EtaFormat == IsFormat("eta", 8, 3) /\ IsReadable("eta", 8)
<1>1. /\ Formats["eta"].width = 3 /\ Formats["eta"].max = 4
      /\ Formats["eta"].base = 2
  BY SMT DEF Formats, ETA, D, GAMMA1
<1>11. Formats["eta"].signed = TRUE
  BY SMT DEF Formats
<1>2. Formats["eta"].pack = eta_pack
  BY SMT DEF Formats
<1>3. Len(eta_pack) = 3 /\ DOMAIN eta_pack = 1 .. 3
  BY DEF eta_pack
<1>4. \A v \in Nat : v <= 4 => Bits(v) \subseteq 0 .. 2
  BY BitsBelow
<1>5. Group("eta") = 1 .. 8
  BY DEF Formats, Group
<1>6. IsFormat("eta", 8, 3)
  <2>1. /\ Formats["eta"].width \in Widths /\ 8 * 3 = Formats["eta"].width * 8
        /\ Formats["eta"].base \in Int
        /\ Formats["eta"].max \in Nat /\ Formats["eta"].max < Limit
    BY <1>1, SMT DEF Widths, Limit
  <2>2. Formats["eta"].signed \in BOOLEAN
    BY <1>11
  <2>3. /\ Len(Formats["eta"].pack) = 3 /\ DOMAIN Formats["eta"].pack = 1 .. 3
        /\ Fits(Formats["eta"].pack, Formats["eta"].width, 8, 3)
    BY <1>1, <1>2, <1>3, eta_pack_Fits, SMT
  <2>4. \A v \in Nat : v <= Formats["eta"].max => Bits(v) \subseteq 0 .. Formats["eta"].width - 1
    BY <1>1, <1>4, SMT
  <2> QED
    BY <2>1, <2>2, <2>3, <2>4, <1>5, Zenon DEF IsFormat
<1>7. Formats["eta"].unpack = eta_unpack
  BY SMT DEF Formats
<1>10. DOMAIN eta_unpack = 1 .. 8
  BY SMT DEF eta_unpack
<1>8. \A e \in 1 .. 8 : Formats["eta"].keep[e] = 3
  BY SMT DEF Formats
<1>9. IsReadable("eta", 8)
  BY <1>1, <1>7, <1>8, <1>10, SMT, eta_unpack_Fits DEF IsReadable
<1> QED
  BY <1>6, <1>9

LEMMA T1Format == IsFormat("t1", 4, 5) /\ IsReadable("t1", 4)
<1>1. /\ Formats["t1"].width = 10 /\ Formats["t1"].max = 1023
      /\ Formats["t1"].base = 0
  BY SMT DEF Formats, ETA, D, GAMMA1
<1>11. Formats["t1"].signed = FALSE
  BY SMT DEF Formats
<1>2. Formats["t1"].pack = t1_pack
  BY SMT DEF Formats
<1>3. Len(t1_pack) = 5 /\ DOMAIN t1_pack = 1 .. 5
  BY DEF t1_pack
<1>4. \A v \in Nat : v <= 1023 => Bits(v) \subseteq 0 .. 9
  BY BitsBelow
<1>5. Group("t1") = 1 .. 4
  BY DEF Formats, Group
<1>6. IsFormat("t1", 4, 5)
  <2>1. /\ Formats["t1"].width \in Widths /\ 8 * 5 = Formats["t1"].width * 4
        /\ Formats["t1"].base \in Int
        /\ Formats["t1"].max \in Nat /\ Formats["t1"].max < Limit
    BY <1>1, SMT DEF Widths, Limit
  <2>2. Formats["t1"].signed \in BOOLEAN
    BY <1>11
  <2>3. /\ Len(Formats["t1"].pack) = 5 /\ DOMAIN Formats["t1"].pack = 1 .. 5
        /\ Fits(Formats["t1"].pack, Formats["t1"].width, 8, 5)
    BY <1>1, <1>2, <1>3, t1_pack_Fits, SMT
  <2>4. \A v \in Nat : v <= Formats["t1"].max => Bits(v) \subseteq 0 .. Formats["t1"].width - 1
    BY <1>1, <1>4, SMT
  <2> QED
    BY <2>1, <2>2, <2>3, <2>4, <1>5, Zenon DEF IsFormat
<1>7. Formats["t1"].unpack = t1_unpack
  BY SMT DEF Formats
<1>10. DOMAIN t1_unpack = 1 .. 4
  BY SMT DEF t1_unpack
<1>8. \A e \in 1 .. 4 : Formats["t1"].keep[e] = 10
  BY SMT DEF Formats
<1>9. IsReadable("t1", 4)
  BY <1>1, <1>7, <1>8, <1>10, SMT, t1_unpack_Fits DEF IsReadable
<1> QED
  BY <1>6, <1>9

LEMMA T0Format == IsFormat("t0", 8, 13) /\ IsReadable("t0", 8)
<1>1. /\ Formats["t0"].width = 13 /\ Formats["t0"].max = 8191
      /\ Formats["t0"].base = 4096
  BY SMT DEF Formats, ETA, D, GAMMA1
<1>11. Formats["t0"].signed = TRUE
  BY SMT DEF Formats
<1>2. Formats["t0"].pack = t0_pack
  BY SMT DEF Formats
<1>3. Len(t0_pack) = 13 /\ DOMAIN t0_pack = 1 .. 13
  BY DEF t0_pack
<1>4. \A v \in Nat : v <= 8191 => Bits(v) \subseteq 0 .. 12
  BY BitsBelow
<1>5. Group("t0") = 1 .. 8
  BY DEF Formats, Group
<1>6. IsFormat("t0", 8, 13)
  <2>1. /\ Formats["t0"].width \in Widths /\ 8 * 13 = Formats["t0"].width * 8
        /\ Formats["t0"].base \in Int
        /\ Formats["t0"].max \in Nat /\ Formats["t0"].max < Limit
    BY <1>1, SMT DEF Widths, Limit
  <2>2. Formats["t0"].signed \in BOOLEAN
    BY <1>11
  <2>3. /\ Len(Formats["t0"].pack) = 13 /\ DOMAIN Formats["t0"].pack = 1 .. 13
        /\ Fits(Formats["t0"].pack, Formats["t0"].width, 8, 13)
    BY <1>1, <1>2, <1>3, t0_pack_Fits, SMT
  <2>4. \A v \in Nat : v <= Formats["t0"].max => Bits(v) \subseteq 0 .. Formats["t0"].width - 1
    BY <1>1, <1>4, SMT
  <2> QED
    BY <2>1, <2>2, <2>3, <2>4, <1>5, Zenon DEF IsFormat
<1>7. Formats["t0"].unpack = t0_unpack
  BY SMT DEF Formats
<1>10. DOMAIN t0_unpack = 1 .. 8
  BY SMT DEF t0_unpack
<1>8. \A e \in 1 .. 8 : Formats["t0"].keep[e] = 13
  BY SMT DEF Formats
<1>9. IsReadable("t0", 8)
  BY <1>1, <1>7, <1>8, <1>10, SMT, t0_unpack_Fits DEF IsReadable
<1> QED
  BY <1>6, <1>9

LEMMA ZFormat == IsFormat("z", 2, 5) /\ IsReadable("z", 2)
<1>1. /\ Formats["z"].width = 20 /\ Formats["z"].max = 1048575
      /\ Formats["z"].base = 524288
  BY SMT DEF Formats, ETA, D, GAMMA1
<1>11. Formats["z"].signed = TRUE
  BY SMT DEF Formats
<1>2. Formats["z"].pack = z_pack
  BY SMT DEF Formats
<1>3. Len(z_pack) = 5 /\ DOMAIN z_pack = 1 .. 5
  BY DEF z_pack
<1>4. \A v \in Nat : v <= 1048575 => Bits(v) \subseteq 0 .. 19
  BY BitsBelow, BitsAre
<1>5. Group("z") = 1 .. 2
  BY DEF Formats, Group
<1>6. IsFormat("z", 2, 5)
  <2>1. /\ Formats["z"].width \in Widths /\ 8 * 5 = Formats["z"].width * 2
        /\ Formats["z"].base \in Int
        /\ Formats["z"].max \in Nat /\ Formats["z"].max < Limit
    BY <1>1, SMT DEF Widths, Limit
  <2>2. Formats["z"].signed \in BOOLEAN
    BY <1>11
  <2>3. /\ Len(Formats["z"].pack) = 5 /\ DOMAIN Formats["z"].pack = 1 .. 5
        /\ Fits(Formats["z"].pack, Formats["z"].width, 8, 5)
    BY <1>1, <1>2, <1>3, z_pack_Fits, SMT
  <2>4. \A v \in Nat : v <= Formats["z"].max => Bits(v) \subseteq 0 .. Formats["z"].width - 1
    BY <1>1, <1>4, SMT
  <2> QED
    BY <2>1, <2>2, <2>3, <2>4, <1>5, Zenon DEF IsFormat
<1>7. Formats["z"].unpack = z_unpack
  BY SMT DEF Formats
<1>10. DOMAIN z_unpack = 1 .. 2
  BY SMT DEF z_unpack
<1>8. Formats["z"].keep[1] = 20 /\ Formats["z"].keep[2] = 32
  BY SMT DEF Formats
<1>9. IsReadable("z", 2)
  BY <1>1, <1>7, <1>8, <1>10, SMT, z_unpack_Fits DEF IsReadable
<1> QED
  BY <1>6, <1>9

LEMMA W1Format == IsFormat("w1", 2, 1) /\ Formats["w1"].unpack = << >>
<1>1. /\ Formats["w1"].width = 4 /\ Formats["w1"].max = 15
      /\ Formats["w1"].base = 0
  BY SMT DEF Formats, ETA, D, GAMMA1
<1>11. Formats["w1"].signed = FALSE
  BY SMT DEF Formats
<1>2. Formats["w1"].pack = w1_pack
  BY SMT DEF Formats
<1>3. Len(w1_pack) = 1 /\ DOMAIN w1_pack = 1 .. 1
  BY DEF w1_pack
<1>4. \A v \in Nat : v <= 15 => Bits(v) \subseteq 0 .. 3
  BY BitsBelow
<1>5. Group("w1") = 1 .. 2
  BY DEF Formats, Group
<1>6. IsFormat("w1", 2, 1)
  <2>1. /\ Formats["w1"].width \in Widths /\ 8 * 1 = Formats["w1"].width * 2
        /\ Formats["w1"].base \in Int
        /\ Formats["w1"].max \in Nat /\ Formats["w1"].max < Limit
    BY <1>1, SMT DEF Widths, Limit
  <2>2. Formats["w1"].signed \in BOOLEAN
    BY <1>11
  <2>3. /\ Len(Formats["w1"].pack) = 1 /\ DOMAIN Formats["w1"].pack = 1 .. 1
        /\ Fits(Formats["w1"].pack, Formats["w1"].width, 8, 1)
    BY <1>1, <1>2, <1>3, w1_pack_Fits, SMT
  <2>4. \A v \in Nat : v <= Formats["w1"].max => Bits(v) \subseteq 0 .. Formats["w1"].width - 1
    BY <1>1, <1>4, SMT
  <2> QED
    BY <2>1, <2>2, <2>3, <2>4, <1>5, Zenon DEF IsFormat
<1>7. Formats["w1"].unpack = << >>
  BY SMT DEF Formats
<1> QED
  BY <1>6, <1>7

LEMMA AllFormats ==
    ASSUME NEW f \in DOMAIN Formats
    PROVE  \E m \in Nat, n \in Nat :
              IsFormat(f, m, n) /\ (Formats[f].unpack # << >> => IsReadable(f, m))
<1>1. DOMAIN Formats = {"eta", "t1", "t0", "z", "w1"}
  BY SMT DEF Formats
<1>2. CASE f = "eta"
  BY <1>2, EtaFormat
<1>3. CASE f = "t1"
  BY <1>3, T1Format
<1>4. CASE f = "t0"
  BY <1>4, T0Format
<1>5. CASE f = "z"
  BY <1>5, ZFormat
<1>6. CASE f = "w1"
  BY <1>6, W1Format
<1> QED
  BY <1>1, <1>2, <1>3, <1>4, <1>5, <1>6

-----------------------------------------------------------------------------
(* Packing and unpacking a group *)

\* ToWord, FromWord and the words of a group, for the format f.
To(f, c) == IF Formats[f].signed THEN Formats[f].base - c ELSE c
WordsOf(f, c) == [p \in DOMAIN c |-> Bits(To(f, c[p]))]
Eights(f) == [e \in DOMAIN Formats[f].pack |-> 8]

\* A group of m coefficients of the format f.
CoeffGroups(f, m) ==
    {c \in [1 .. m -> Int] : \A p \in 1 .. m : To(f, c[p]) \in Nat /\ To(f, c[p]) <= Formats[f].max}

LEMMA ToAndBack ==
    ASSUME NEW f, NEW m, NEW n, IsFormat(f, m, n), NEW c \in Int
    PROVE  To(f, c) \in Int /\ To(f, To(f, c)) = c
<1>1. CASE Formats[f].signed
  BY <1>1 DEF To, IsFormat
<1>2. CASE ~ Formats[f].signed
  BY <1>2 DEF To, IsFormat
<1> QED
  BY <1>1, <1>2

LEMMA WordsAre ==
    ASSUME NEW f, NEW m \in Nat, NEW n \in Nat, IsFormat(f, m, n), NEW c \in CoeffGroups(f, m)
    PROVE  WordsOf(f, c) \in Words(m, Formats[f].width)
<1>1. \A p \in 1 .. m : Bits(To(f, c[p])) \subseteq 0 .. Formats[f].width - 1
  BY DEF IsFormat, CoeffGroups
<1>2. DOMAIN c = 1 .. m
  BY DEF CoeffGroups
<1> QED
  BY <1>1, <1>2 DEF WordsOf, Words

LEMMA PacksGroup ==
    ASSUME NEW f, NEW m \in Nat, NEW n \in Nat, IsFormat(f, m, n), NEW c \in CoeffGroups(f, m),
           NEW y, y = Moved(Formats[f].pack, WordsOf(f, c), Eights(f))
    PROVE  y \in Words(n, 8) /\ InOrder(y, WordsOf(f, c), Formats[f].width, n)
<1>1. PICK width \in Widths : width = Formats[f].width /\ 8 * n = width * m
  BY DEF IsFormat
<1>2. PICK table : table = Formats[f].pack /\ Fits(table, width, 8, n) /\ DOMAIN table = 1 .. n
  BY <1>1 DEF IsFormat
<1>3. PICK s \in Words(m, width) : s = WordsOf(f, c)
  BY <1>1, WordsAre
<1>4. PICK keep : keep = Eights(f) /\ \A e \in 1 .. n : keep[e] = 8
  BY <1>2 DEF Eights
<1>5. y = Moved(table, s, keep)
  BY <1>2, <1>3, <1>4
<1>6. y \in Words(n, 8) /\ InOrder(y, s, width, n)
  BY <1>1, <1>2, <1>4, <1>5, PacksInOrder
<1> QED
  BY <1>1, <1>3, <1>6

\* The words read from bytes are numbers of the format when the words fill the format.
LEMMA ReadsGroup ==
    ASSUME NEW f, NEW m \in Nat, NEW n \in Nat, IsFormat(f, m, n), IsReadable(f, m),
           NEW y \in Words(n, 8), NEW s, s = Moved(Formats[f].unpack, y, Formats[f].keep)
    PROVE  s \in Words(m, Formats[f].width) /\ InOrder(y, s, Formats[f].width, n)
<1>1. PICK width \in Widths : width = Formats[f].width /\ 8 * n = width * m
  BY DEF IsFormat
<1>2. PICK table : table = Formats[f].unpack /\ Fits(table, 8, width, m)
  BY <1>1 DEF IsReadable
<1>3. PICK keep : keep = Formats[f].keep
                  /\ \A e \in 1 .. m : keep[e] \in Nat /\ keep[e] >= width /\ (keep[e] = width \/ e = m)
  BY <1>1 DEF IsReadable
<1>4. s = Moved(table, y, keep)
  BY <1>2, <1>3
<1>5. s \in Words(m, width) /\ InOrder(y, s, width, n)
  BY <1>1, <1>2, <1>3, <1>4, ReadsInOrder
<1> QED
  BY <1>1, <1>5

\* What Unpack makes of the words s.
NumbersOf(f, s) == [p \in DOMAIN Formats[f].unpack |-> To(f, Number(s[p]))]

LEMMA NumbersAre ==
    ASSUME NEW f, NEW m \in Nat, NEW n \in Nat, IsFormat(f, m, n), IsReadable(f, m),
           NEW s \in Words(m, Formats[f].width), NEW c, c = NumbersOf(f, s)
    PROVE  /\ c \in [1 .. m -> Int]
           /\ WordsOf(f, c) = s
           /\ \A p \in 1 .. m : To(f, c[p]) = Number(s[p]) /\ Number(s[p]) \in Nat /\ Number(s[p]) < Limit
<1>1. DOMAIN Formats[f].unpack = 1 .. m
  BY DEF IsReadable
<1>2. \A p \in 1 .. m : s[p] \in SUBSET (0 .. 19)
  <2>1. PICK width \in Nat : width = Formats[f].width /\ width <= 20
    BY DEF IsFormat, Widths
  <2>2. \A p \in 1 .. m : s[p] \subseteq 0 .. width - 1
    BY <2>1 DEF Words
  <2> QED
    BY <2>1, <2>2
<1>3. \A p \in 1 .. m : /\ Number(s[p]) \in Nat /\ Number(s[p]) < Limit
                        /\ Bits(Number(s[p])) = s[p]
  BY <1>2, BitsOfNumber DEF Limit
<1>4. ASSUME NEW p \in 1 .. m
      PROVE  c[p] \in Int /\ To(f, c[p]) = Number(s[p])
  <2>1. PICK v \in Int : v = Number(s[p])
    BY <1>3
  <2>2. c[p] = To(f, v)
    BY <2>1, <1>1 DEF NumbersOf
  <2> QED
    BY <2>1, <2>2, ToAndBack
<1>5. c = [p \in 1 .. m |-> c[p]]
  BY <1>1 DEF NumbersOf
<1>6. c \in [1 .. m -> Int]
  BY <1>4, <1>5
<1>7. WordsOf(f, c) = [p \in 1 .. m |-> s[p]]
  BY <1>6, <1>4, <1>3 DEF WordsOf
<1>8. s = [p \in 1 .. m |-> s[p]]
  BY DEF Words
<1> QED
  BY <1>3, <1>4, <1>6, <1>7, <1>8

\* The numbers of the words of a group are the group.
LEMMA NumbersBack ==
    ASSUME NEW f, NEW m \in Nat, NEW n \in Nat, IsFormat(f, m, n), IsReadable(f, m),
           NEW c \in CoeffGroups(f, m)
    PROVE  NumbersOf(f, WordsOf(f, c)) = c
<1>1. DOMAIN Formats[f].unpack = 1 .. m /\ DOMAIN c = 1 .. m
  BY DEF IsReadable, CoeffGroups
<1>2. ASSUME NEW p \in 1 .. m
      PROVE  To(f, Number(WordsOf(f, c)[p])) = c[p]
  <2>1. PICK v \in Nat : v = To(f, c[p]) /\ v < Limit /\ c[p] \in Int
    BY DEF CoeffGroups, IsFormat, Limit
  <2>2. WordsOf(f, c)[p] = Bits(v)
    BY <2>1, <1>1 DEF WordsOf
  <2>3. Number(Bits(v)) = v
    BY <2>1, NumberOfBits DEF Limit
  <2> QED
    BY <2>1, <2>2, <2>3, ToAndBack
<1>3. c = [p \in 1 .. m |-> c[p]]
  BY DEF CoeffGroups
<1> QED
  BY <1>1, <1>2, <1>3 DEF NumbersOf

-----------------------------------------------------------------------------
(* The invariant *)

HasCoefficients == {"coeffs", "packed", "unpacked", "unpacked again", "packed again"}

\* For a format of m words in n bytes, what there is in every phase.
PhaseInv(m, n) ==
    /\ IsFormat(format, m, n)
    /\ F.unpack # << >> => IsReadable(format, m)
    /\ phase \in HasCoefficients \cup {"bytes"}
    /\ phase \in HasCoefficients => coeffsOf \in CoeffGroups(format, m)
    /\ phase \in {"coeffs", "packed", "unpacked again"} => coeffsOf = begun
    /\ phase \in {"packed", "bytes", "unpacked"} => bytesOf \in Words(n, 8)
    /\ phase \in {"packed", "unpacked"} =>
          InOrder(bytesOf, WordsOf(format, coeffsOf), F.width, n)
    /\ phase \in {"bytes", "unpacked", "packed again"} => format = "z" /\ bytesOf = begun

PackInv ==
    format \in DOMAIN Formats /\ \E m \in Nat, n \in Nat : PhaseInv(m, n)

LEMMA FromIsTo == \A v : FromWord(v) = To(format, v) /\ ToWord(v) = To(format, v)
BY DEF FromWord, ToWord, To, F

LEMMA PackInvInit == PackInit => PackInv
<1> SUFFICES ASSUME PackInit PROVE PackInv
  OBVIOUS
<1>1. ASSUME format \in DOMAIN Formats, phase = "coeffs", bytesOf = << >>, begun = coeffsOf,
             NEW g \in WordGroups[format],
             coeffsOf = [p \in Group(format) |-> FromWord(g[p])]
      PROVE  PackInv
  <2>1. PICK m \in Nat, n \in Nat :
           IsFormat(format, m, n) /\ (Formats[format].unpack # << >> => IsReadable(format, m))
    BY <1>1, AllFormats
  <2>2. g \in [1 .. m -> Nat] /\ \A p \in 1 .. m : g[p] <= Formats[format].max
    BY <1>1, <2>1, PackAssumption DEF IsFormat
  <2>3. coeffsOf = [p \in 1 .. m |-> To(format, g[p])]
    BY <1>1, <2>1, FromIsTo DEF IsFormat
  <2>4. ASSUME NEW p \in 1 .. m
        PROVE  To(format, g[p]) \in Int /\ To(format, To(format, g[p])) = g[p]
    <3>1. g[p] \in Int
      BY <2>2
    <3> QED
      BY <3>1, <2>1, ToAndBack
  <2>5. coeffsOf \in CoeffGroups(format, m)
    BY <2>2, <2>3, <2>4 DEF CoeffGroups
  <2>6. PhaseInv(m, n)
    BY <1>1, <2>1, <2>5 DEF PhaseInv, HasCoefficients, F
  <2> QED
    BY <1>1, <2>1, <2>6 DEF PackInv
<1>2. ASSUME format = "z", phase = "bytes", bytesOf \in ByteGroups, begun = bytesOf
      PROVE  PackInv
  <2>1. format \in DOMAIN Formats
    BY <1>2, SMT DEF Formats
  <2>2. IsFormat(format, 2, 5) /\ IsReadable(format, 2)
    BY <1>2, ZFormat
  <2>3. bytesOf \in Words(5, 8)
    BY <1>2, PackAssumption DEF Words
  <2>4. PhaseInv(2, 5)
    BY <1>2, <2>2, <2>3 DEF PhaseInv, HasCoefficients, F
  <2> QED
    BY <2>1, <2>4 DEF PackInv
<1> QED
  BY <1>1, <1>2 DEF PackInit

LEMMA PackInvPack == PackInv /\ Pack => PackInv'
<1> SUFFICES ASSUME PackInv, Pack PROVE PackInv'
  OBVIOUS
<1>1. PICK m \in Nat, n \in Nat : PhaseInv(m, n)
  BY DEF PackInv
<1>2. format' = format /\ coeffsOf' = coeffsOf /\ begun' = begun /\ F' = F
  BY DEF Pack, F
<1>3. coeffsOf \in CoeffGroups(format, m) /\ IsFormat(format, m, n)
  BY <1>1 DEF Pack, PhaseInv, HasCoefficients
<1>4. bytesOf' = Moved(Formats[format].pack, WordsOf(format, coeffsOf), Eights(format))
  <2>1. [p \in DOMAIN coeffsOf |-> Bits(ToWord(coeffsOf[p]))] = WordsOf(format, coeffsOf)
    BY FromIsTo DEF WordsOf
  <2>2. bytesOf' = [e \in DOMAIN F.pack |-> Parts(F.pack[e], WordsOf(format, coeffsOf), 8)]
    BY <2>1 DEF Pack
  <2> QED
    BY <2>2 DEF Moved, Eights, F
<1>5. /\ bytesOf' \in Words(n, 8)
      /\ InOrder(bytesOf', WordsOf(format, coeffsOf), Formats[format].width, n)
  BY <1>3, <1>4, PacksGroup
<1>6. CASE phase = "coeffs"
  <2>1. phase' = "packed" /\ coeffsOf = begun
    BY <1>6, <1>1 DEF Pack, PhaseInv
  <2>2. PhaseInv(m, n)'
    BY <1>1, <1>2, <1>3, <1>5, <2>1 DEF PhaseInv, HasCoefficients, F
  <2> QED
    BY <2>2, <1>2 DEF PackInv
<1>7. CASE phase = "unpacked"
  <2>1. phase' = "packed again"
    BY <1>7 DEF Pack
  <2>2. /\ bytesOf = begun /\ format = "z" /\ bytesOf \in Words(n, 8)
        /\ InOrder(bytesOf, WordsOf(format, coeffsOf), Formats[format].width, n)
    BY <1>7, <1>1 DEF PhaseInv, F
  <2>3. Formats[format].width \in Widths
    BY <1>3 DEF IsFormat
  <2>4. bytesOf' = bytesOf
    BY <1>5, <2>2, <2>3, SameBytes
  <2>5. PhaseInv(m, n)'
    BY <1>1, <1>2, <1>3, <2>1, <2>2, <2>4 DEF PhaseInv, HasCoefficients, F
  <2> QED
    BY <2>5, <1>2 DEF PackInv
<1> QED
  BY <1>6, <1>7 DEF Pack

LEMMA PackInvUnpack == PackInv /\ Unpack => PackInv'
<1> SUFFICES ASSUME PackInv, Unpack PROVE PackInv'
  OBVIOUS
<1>1. PICK m \in Nat, n \in Nat : PhaseInv(m, n)
  BY DEF PackInv
<1>2. format' = format /\ bytesOf' = bytesOf /\ begun' = begun /\ F' = F
  BY DEF Unpack, F
<1>3. IsFormat(format, m, n) /\ IsReadable(format, m) /\ bytesOf \in Words(n, 8)
  BY <1>1 DEF Unpack, PhaseInv
<1>4. PICK s : s = Moved(Formats[format].unpack, bytesOf, Formats[format].keep)
  OBVIOUS
<1>5. s \in Words(m, Formats[format].width) /\ InOrder(bytesOf, s, Formats[format].width, n)
  BY <1>3, <1>4, ReadsGroup
<1>6. coeffsOf' = NumbersOf(format, s)
  <2>1. \A p \in DOMAIN Formats[format].unpack :
           s[p] = Parts(Formats[format].unpack[p], bytesOf, Formats[format].keep[p])
    BY <1>4 DEF Moved
  <2>2. coeffsOf' = [p \in DOMAIN Formats[format].unpack |->
           To(format, Number(Parts(Formats[format].unpack[p], bytesOf, Formats[format].keep[p])))]
    BY FromIsTo DEF Unpack, F
  <2> QED
    BY <2>1, <2>2 DEF NumbersOf
<1>7. CASE phase = "packed"
  <2>1. /\ phase' = "unpacked again" /\ coeffsOf = begun
        /\ coeffsOf \in CoeffGroups(format, m)
        /\ InOrder(bytesOf, WordsOf(format, coeffsOf), Formats[format].width, n)
    BY <1>7, <1>1 DEF Unpack, PhaseInv, HasCoefficients, F
  <2>2. PICK width \in Widths : width = Formats[format].width /\ 8 * n = width * m
    BY <1>3 DEF IsFormat
  <2>3. PICK t \in Words(m, width) : t = WordsOf(format, coeffsOf)
    BY <1>3, <2>1, <2>2, WordsAre
  <2>4. s = t
    BY <1>5, <2>1, <2>2, <2>3, SameWords
  <2>5. coeffsOf' = coeffsOf
    BY <1>3, <1>6, <2>1, <2>3, <2>4, NumbersBack
  <2>6. PhaseInv(m, n)'
    BY <1>1, <1>2, <1>3, <2>1, <2>5 DEF PhaseInv, HasCoefficients, F
  <2> QED
    BY <2>6, <1>2 DEF PackInv
<1>8. CASE phase = "bytes"
  <2>1. phase' = "unpacked" /\ format = "z" /\ bytesOf = begun
    BY <1>8, <1>1 DEF Unpack, PhaseInv
  <2>2. /\ coeffsOf' \in [1 .. m -> Int] /\ WordsOf(format, coeffsOf') = s
        /\ \A p \in 1 .. m : /\ To(format, coeffsOf'[p]) = Number(s[p])
                             /\ Number(s[p]) \in Nat /\ Number(s[p]) < Limit
    BY <1>3, <1>5, <1>6, NumbersAre
  <2>3. \A v \in Nat : v < Limit => v <= Formats[format].max
    BY <2>1, SMT DEF Formats, GAMMA1, Limit
  <2>4. coeffsOf' \in CoeffGroups(format, m)
    BY <2>2, <2>3 DEF CoeffGroups
  <2>5. PhaseInv(m, n)'
    BY <1>1, <1>2, <1>3, <1>5, <2>1, <2>2, <2>4 DEF PhaseInv, HasCoefficients, F
  <2> QED
    BY <2>5, <1>2 DEF PackInv
<1> QED
  BY <1>7, <1>8 DEF Unpack

LEMMA PackInvGivesOrder == PackInv => FormatsComeBack
<1> SUFFICES ASSUME PackInv PROVE FormatsComeBack
  OBVIOUS
<1>1. PICK m \in Nat, n \in Nat : PhaseInv(m, n)
  BY DEF PackInv
<1>2. ASSUME phase = "packed"
      PROVE  WordsInOrder
  <2>1. /\ coeffsOf \in [1 .. m -> Int]
        /\ InOrder(bytesOf, WordsOf(format, coeffsOf), F.width, n)
    BY <1>1, <1>2 DEF PhaseInv, HasCoefficients, CoeffGroups
  <2>2. PICK width \in Widths : width = F.width /\ 8 * n = width * m /\ Len(F.pack) = n
    BY <1>1 DEF PhaseInv, IsFormat, F
  <2>3. ASSUME NEW i \in 0 .. 8 * n - 1
        PROVE  (i \div width) + 1 \in 1 .. m
    <3>1. CASE width = 3 BY <3>1, <2>2
    <3>2. CASE width = 4 BY <3>2, <2>2
    <3>3. CASE width = 8 BY <3>3, <2>2
    <3>4. CASE width = 10 BY <3>4, <2>2
    <3>5. CASE width = 13 BY <3>5, <2>2
    <3>6. CASE width = 20 BY <3>6, <2>2
    <3> QED BY <3>1, <3>2, <3>3, <3>4, <3>5, <3>6 DEF Widths
  <2>4. \A p \in 1 .. m : WordsOf(format, coeffsOf)[p] = Bits(ToWord(coeffsOf[p]))
    BY <2>1, FromIsTo DEF WordsOf
  <2>5. ASSUME NEW i \in 0 .. 8 * n - 1
        PROVE  i % 8 \in bytesOf[(i \div 8) + 1]
                 <=> i % width \in Bits(ToWord(coeffsOf[(i \div width) + 1]))
    BY <2>1, <2>2, <2>3, <2>4 DEF InOrder
  <2> QED
    BY <2>2, <2>5 DEF WordsInOrder
<1>3. ASSUME phase = "unpacked"
      PROVE  \A p \in 1 .. 2 : coeffsOf[p] \in 1 - GAMMA1 .. GAMMA1
  <2>1. format = "z" /\ coeffsOf \in CoeffGroups(format, m) /\ Group(format) = 1 .. m
    BY <1>1, <1>3 DEF PhaseInv, HasCoefficients, IsFormat
  <2>2. Group(format) = 1 .. 2
    BY <2>1, ZFormat DEF IsFormat
  <2>3. /\ Formats["z"].max = 2 * GAMMA1 - 1 /\ Formats["z"].base = GAMMA1
    BY SMT DEF Formats
  <2>4. Formats["z"].signed
    BY SMT DEF Formats
  <2>5. ASSUME NEW p \in 1 .. m
        PROVE  coeffsOf[p] \in 1 - GAMMA1 .. GAMMA1
    <3>1. /\ coeffsOf[p] \in Int /\ To("z", coeffsOf[p]) \in Nat
          /\ To("z", coeffsOf[p]) <= 2 * GAMMA1 - 1
      BY <2>1, <2>3 DEF CoeffGroups
    <3>2. To("z", coeffsOf[p]) = GAMMA1 - coeffsOf[p]
      BY <2>3, <2>4 DEF To
    <3>3. GAMMA1 \in Int
      BY SMT DEF GAMMA1
    <3> QED
      BY <3>1, <3>2, <3>3
  <2> QED
    BY <2>1, <2>2, <2>5
<1>4. ComesBack
  BY <1>1, <1>3 DEF ComesBack, PhaseInv
<1>5. WordsInOrder
  BY <1>2 DEF WordsInOrder
<1> QED
  BY <1>4, <1>5 DEF FormatsComeBack

\* For every group of coefficients that a format takes, and for every group of bytes
\* read as z: the pack functions write the words bit after bit in order, the unpack
\* functions give back what was packed, and z is in the range of FIPS 204 and packs to
\* the bytes it came from.
THEOREM FormatsSurvive == PackSpec => []FormatsComeBack
<1>1. PackInv /\ [PackNext]_packVars => PackInv'
  <2> SUFFICES ASSUME PackInv, [PackNext]_packVars PROVE PackInv'
    OBVIOUS
  <2>1. CASE UNCHANGED packVars
    BY <2>1 DEF packVars, PackInv, PhaseInv, F
  <2> QED
    BY <2>1, PackInvPack, PackInvUnpack DEF PackNext
<1> QED
  BY <1>1, PackInvInit, PackInvGivesOrder, PTL DEF PackSpec
=============================================================================
