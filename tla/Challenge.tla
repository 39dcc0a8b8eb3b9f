----------------------------- MODULE Challenge ------------------------------
(***************************************************************************)
(* poly_challenge_volatile of sign.c (and poly_challenge of poly.c, the    *)
(* same loop): the challenge polynomial with TAU coefficients 1 or -1,     *)
(* shuffled from inside out with the bytes of a SHAKE256 stream.           *)
(*                                                                         *)
(* A byte of the stream is any value; the first eight are the signs.       *)
(***************************************************************************)
EXTENDS Integers, FiniteSets

CONSTANTS N,          \* coefficients, 256 in the code: one for every byte value
          TAU,        \* how many are not zero
          RATE,       \* SHAKE256_RATE
          SignBytes,  \* bytes that are signs, eight bits each
          MaxBytes    \* bound: bytes looked at

ASSUME ChallengeAssumption ==
    /\ N \in Nat /\ TAU \in Nat /\ 0 < TAU /\ TAU <= N
    /\ SignBytes \in Nat /\ RATE \in Nat /\ SignBytes < RATE
    /\ TAU <= 8 * SignBytes
    /\ MaxBytes \in Nat

VARIABLES i,       \* the coefficient that the loop is at
          c,       \* the polynomial
          pos,     \* the next byte of the block
          signs,   \* how many sign bits are used
          bytes    \* how many bytes were looked at

challengeVars == <<i, c, pos, signs, bytes>>

Index == 0 .. N - 1

ChallengeInit ==
    /\ i = N - TAU
    /\ c = [k \in Index |-> 0]
    /\ pos = SignBytes
    /\ signs = 0 /\ bytes = 0

\* A block that is used up is squeezed anew before the byte is read.
ReadAt == IF pos >= RATE THEN 0 ELSE pos

\* A byte beyond i is thrown away.
Reject ==
    /\ i < N /\ bytes < MaxBytes
    /\ \E b \in Index : b > i
    /\ pos' = ReadAt + 1
    /\ bytes' = bytes + 1
    /\ UNCHANGED <<i, c, signs>>

\* Mutant: the coefficient at b is overwritten and not moved to i.
PlaceNoMove(b, sign) == [c EXCEPT ![b] = sign]

\* c[i] = c[b], then c[b] = sign.
Place(b, sign) == [[c EXCEPT ![i] = c[b]] EXCEPT ![b] = sign]

Accept ==
    /\ i < N /\ bytes < MaxBytes
    /\ \E b \in 0 .. i, sign \in {1, -1} : c' = Place(b, sign)
    /\ signs' = signs + 1
    /\ i' = i + 1
    /\ pos' = ReadAt + 1
    /\ bytes' = bytes + 1

ChallengeNext == Reject \/ Accept

ChallengeSpec == ChallengeInit /\ [][ChallengeNext]_challengeVars

-----------------------------------------------------------------------------
(* Properties *)

NonZero == {k \in Index : c[k] # 0}

\* Types, and every byte and every sign bit is one that was squeezed: a block is
\* never read behind its end nor the signs as places, and 64 sign bits suffice.
TypeOK ==
    /\ i \in N - TAU .. N
    /\ c \in [Index -> {-1, 0, 1}]
    /\ pos \in 0 .. RATE /\ bytes \in 0 .. MaxBytes
    /\ signs = i - (N - TAU) /\ signs <= 8 * SignBytes

\* The bounds of the signer and the hint rest on it: when the loop is over
\* exactly TAU coefficients are 1 or -1.
ChallengeWeight == i = N => Cardinality(NonZero) = TAU
=============================================================================
