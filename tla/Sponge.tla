------------------------------- MODULE Sponge -------------------------------
(***************************************************************************)
(* shake256.c, shake128.c and keccak256.c: the sponge that absorbs and     *)
(* squeezes in pieces of any length.                                       *)
(*                                                                         *)
(* The permutation is symbolic: the state of a sponge is known from the    *)
(* blocks that were xored into it, one before each keccakf, and from what  *)
(* has been xored into it since.  A byte of a block is the set of the      *)
(* bytes xored there; the message is 1, 2, 3, ... so that none cancels.    *)
(***************************************************************************)
EXTENDS Integers, Sequences

CONSTANTS RATE,        \* 136 or 168
          Suffix,      \* 0x1F for SHAKE, 0x01 for Keccak-256
          MaxMessage,  \* bound: bytes absorbed
          MaxOutput    \* bound: bytes squeezed

SpongeAssumption == RATE \in Nat \ {0, 1} /\ Suffix # "0x80"

ASSUME SpongeParameters == SpongeAssumption

VARIABLES blocks,     \* what was in the rate at every keccakf so far
          rate,       \* what was xored into the rate since the last one
          ctxPos,     \* ctx->pos: where the next byte goes or comes from
          squeezing,
          todo,       \* inlen or outlen: bytes that the call in progress has left
          message,    \* history: how many bytes were absorbed
          output      \* history: the bytes squeezed, in order

spongeVars == <<blocks, rate, ctxPos, squeezing, todo, message, output>>

xor(a, b) == (a \ b) \cup (b \ a)
Zero == [k \in 0 .. RATE - 1 |-> {}]

\* shake256_init, and shake256_clear
SpongeInit ==
    /\ blocks = << >> /\ rate = Zero /\ ctxPos = 0 /\ squeezing = FALSE
    /\ todo = 0 /\ message = 0 /\ output = << >>

\* keccakf when r is in the rate
keccakf(r) == blocks' = Append(blocks, r) /\ rate' = Zero /\ ctxPos' = 0

\* A turn of a loop that leaves r in the rate: a full block is permuted.
Advance(r) ==
    IF ctxPos + 1 = RATE THEN keccakf(r)
    ELSE blocks' = blocks /\ rate' = r /\ ctxPos' = ctxPos + 1

shake_absorb(inlen) ==
    /\ todo = 0 /\ ~squeezing /\ message + inlen <= MaxMessage
    /\ todo' = inlen
    /\ UNCHANGED <<blocks, rate, ctxPos, squeezing, message, output>>

\* One turn of its loop
AbsorbByte ==
    /\ ~squeezing /\ todo > 0
    /\ Advance([rate EXCEPT ![ctxPos] = xor(@, {message + 1})])
    /\ message' = message + 1 /\ todo' = todo - 1
    /\ UNCHANGED <<squeezing, output>>

\* Mutant: the last byte is set only when it is free.
PadOr == [[rate EXCEPT ![ctxPos] = xor(@, {Suffix})]
            EXCEPT ![RATE - 1] = IF @ = {} THEN {"0x80"} ELSE @]

\* Padding: the suffix behind the message, 0x80 into the last byte of the rate,
\* which may be the same byte.
Pad == [[rate EXCEPT ![ctxPos] = xor(@, {Suffix})] EXCEPT ![RATE - 1] = xor(@, {"0x80"})]

Finalize == keccakf(Pad) /\ squeezing' = TRUE

shake_finalize ==
    /\ todo = 0 /\ ~squeezing
    /\ Finalize
    /\ UNCHANGED <<todo, message, output>>

\* A squeeze without finalize finalizes first.
shake_squeeze(outlen) ==
    /\ todo = 0 /\ Len(output) + outlen <= MaxOutput
    /\ IF squeezing THEN UNCHANGED <<blocks, rate, ctxPos, squeezing>> ELSE Finalize
    /\ todo' = outlen
    /\ UNCHANGED <<message, output>>

\* One turn of its loop: the byte is a function of the blocks so far and its place.
SqueezeByte ==
    /\ squeezing /\ todo > 0
    /\ output' = Append(output, <<blocks, ctxPos>>)
    /\ Advance(rate)
    /\ todo' = todo - 1
    /\ UNCHANGED <<squeezing, message>>

SpongeNext ==
    \/ \E inlen \in 0 .. MaxMessage : shake_absorb(inlen)
    \/ AbsorbByte
    \/ shake_finalize
    \/ \E outlen \in 0 .. MaxOutput : shake_squeeze(outlen)
    \/ SqueezeByte

SpongeSpec == SpongeInit /\ [][SpongeNext]_spongeVars

-----------------------------------------------------------------------------
(* FIPS 202, 4: the sponge construction on the whole message at once *)

\* Byte k of the padded message, and the blocks it is cut into.
BlockCount(n) == (n \div RATE) + 1
PaddedByte(n, k) ==
    (IF k < n THEN {k + 1} ELSE {}) \cup (IF k = n THEN {Suffix} ELSE {})
    \cup (IF k = BlockCount(n) * RATE - 1 THEN {"0x80"} ELSE {})
PaddedBlocks(n) ==
    [b \in 1 .. BlockCount(n) |-> [k \in 0 .. RATE - 1 |-> PaddedByte(n, (b - 1) * RATE + k)]]

\* Byte j of the output: so many more permutations of nothing, and its place.
OutputByte(n, j) == <<PaddedBlocks(n) \o [b \in 1 .. j \div RATE |-> Zero], j % RATE>>

\* However the message is cut into calls, also empty ones and ones that end at a
\* block, what is hashed is the padded message.
PiecewiseAbsorb ==
    squeezing => SubSeq(blocks, 1, BlockCount(message)) = PaddedBlocks(message)

\* However the output is cut into calls, its bytes are those of one long stream.
PiecewiseSqueeze ==
    \A j \in 1 .. Len(output) : output[j] = OutputByte(message, j - 1)

\* ctxPos stays inside the rate, so that no byte touches the capacity, and it is
\* where the bytes absorbed or squeezed so far say.
PosInRate ==
    ctxPos = (IF squeezing THEN Len(output) ELSE message) % RATE

\* The three together.
SpongeInPieces == PiecewiseAbsorb /\ PiecewiseSqueeze /\ PosInRate
=============================================================================
