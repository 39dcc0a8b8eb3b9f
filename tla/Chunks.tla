------------------------------- MODULE Chunks -------------------------------
(***************************************************************************)
(* helper_send_response_sig and helper_send_response_pk_chunk: the chunks  *)
(* in which a signature or a public key goes to the host, copied byte by   *)
(* byte from N_storage.  The sizes are those of constant.h; what they have *)
(* to satisfy is ChunkAssumption.                                          *)
(***************************************************************************)
EXTENDS Integers

CONSTANTS CRYPTO_BYTES, CRYPTO_PUBLIC_KEY_BYTES,
          SIGNATURE_CHUNK_SIZE, SIGNATURE_LAST_CHUNK_SIZE,
          SIGNATURE_LAST_CHUNK,     \* 17, the index of the last chunk
          PK_CHUNK_SIZE, PK_LAST_CHUNK_SIZE, PK_CHUNKS

\* The chunks cover the object exactly, and a signature takes more than one.
ASSUME ChunkAssumption ==
    /\ CRYPTO_BYTES \in Nat /\ CRYPTO_PUBLIC_KEY_BYTES \in Nat
    /\ SIGNATURE_CHUNK_SIZE \in Nat \ {0} /\ SIGNATURE_LAST_CHUNK_SIZE \in Nat \ {0}
    /\ SIGNATURE_LAST_CHUNK \in Nat \ {0}
    /\ PK_CHUNK_SIZE \in Nat \ {0} /\ PK_LAST_CHUNK_SIZE \in Nat \ {0}
    /\ PK_CHUNKS \in Nat \ {0}
    /\ CRYPTO_BYTES =
          SIGNATURE_LAST_CHUNK * SIGNATURE_CHUNK_SIZE + SIGNATURE_LAST_CHUNK_SIZE
    /\ CRYPTO_PUBLIC_KEY_BYTES = (PK_CHUNKS - 1) * PK_CHUNK_SIZE + PK_LAST_CHUNK_SIZE

VARIABLES object,    \* "sig", "pk": what the host asks for
          index,     \* the chunk
          copied,    \* its loop variable i; -1 when no chunk is being copied
          read,      \* history: the offset of the last byte copied
          received,  \* bytes the host has
          sending    \* N_storage.is_sending_signature

chunkVars == <<object, index, copied, read, received, sending>>

ChunkInit ==
    /\ object \in {"sig", "pk"}
    /\ index = 0 /\ copied = -1 /\ read = -1 /\ received = 0
    /\ sending = FALSE

Size == IF object = "sig" THEN CRYPTO_BYTES ELSE CRYPTO_PUBLIC_KEY_BYTES

sig_size(n) ==
    IF n < SIGNATURE_LAST_CHUNK THEN SIGNATURE_CHUNK_SIZE ELSE SIGNATURE_LAST_CHUNK_SIZE
pk_size(n) == IF n < PK_CHUNKS - 1 THEN PK_CHUNK_SIZE ELSE PK_LAST_CHUNK_SIZE

chunk_size == IF object = "sig" THEN sig_size(index) ELSE pk_size(index)
stride == IF object = "sig" THEN SIGNATURE_CHUNK_SIZE ELSE PK_CHUNK_SIZE

\* The host asks for the next chunk: the first one of a signature comes with the
\* approval, p2 from 1 to 17 while is_sending_signature is set; a public key's
\* index from 0 to PK_CHUNKS - 1.
MayAsk ==
    /\ copied = -1
    /\ IF object = "sig" THEN index = 0 \/ (sending /\ index <= SIGNATURE_LAST_CHUNK)
                         ELSE index < PK_CHUNKS

Ask ==
    /\ MayAsk
    /\ copied' = 0
    /\ UNCHANGED <<object, index, read, received, sending>>

\* resp[i] = N_storage.sig[i + index * SIGNATURE_CHUNK_SIZE], and so for pk
Copy ==
    /\ copied \in 0 .. chunk_size - 1
    /\ read' = copied + index * stride
    /\ copied' = copied + 1
    /\ UNCHANGED <<object, index, received, sending>>

\* Mutant: the flag is cleared one chunk early.
FlagAfterEarly(n, flag) ==
    IF n = 0 THEN TRUE ELSE IF n = SIGNATURE_LAST_CHUNK - 1 THEN FALSE ELSE flag

FlagAfter(n, flag) ==
    IF n = 0 THEN TRUE ELSE IF n = SIGNATURE_LAST_CHUNK THEN FALSE ELSE flag

Send ==
    /\ copied = chunk_size
    /\ received' = received + chunk_size
    /\ sending' = IF object = "sig" THEN FlagAfter(index, sending) ELSE sending
    /\ index' = index + 1
    /\ copied' = -1
    /\ UNCHANGED <<object, read>>

ChunkNext == Ask \/ Copy \/ Send

ChunkSpec == ChunkInit /\ [][ChunkNext]_chunkVars

-----------------------------------------------------------------------------
(* Properties *)

\* Every byte that is copied lies in the object, and it is the one that the host
\* is to receive next: nothing is skipped or sent twice between chunks.
NextByteOfTheObject ==
    copied >= 1 => read < Size /\ read = received + copied - 1

\* When the device gives no further chunk the host has the whole signature or
\* public key, and the device no longer takes itself to be sending.
WholeObjectArrives == copied = -1 /\ ~MayAsk => received = Size /\ ~sending

\* A chunk continues where the last one ended, and when the device gives no more
\* the host has all 4627 or 2592 bytes.
ChunksMakeTheObject == NextByteOfTheObject /\ WholeObjectArrives
=============================================================================
