---------------------------- MODULE MCAlgorithms ----------------------------
(***************************************************************************)
(* The algorithms of the application, side by side.  Each behaviour runs   *)
(* one of them, named by part, from one of its initial states.             *)
(*                                                                         *)
(* The modules that are proved about are extended: they have their own     *)
(* variables and stay in one initial state while another part runs.  The   *)
(* other modules are instances; at most one of them runs, so they share    *)
(* the variables x1 .. x9.                                                 *)
(***************************************************************************)
EXTENDS Rounding, Challenge, Nonces, Chunks, Keccak

VARIABLES part, x1, x2, x3, x4, x5, x6, x7, x8, x9

shared == <<x1, x2, x3, x4, x5, x6, x7, x8, x9>>
algorithmVars == <<part, shared, vars, challengeVars, nonceVars, chunkVars, keccakVars>>

-----------------------------------------------------------------------------
(* Border values for Rounding: around every multiple of GAMMA2, and sums of *)
(* the terms that land on the borders.                                      *)

Near(S, distances) == {a + d : a \in S, d \in distances} \cap (0 .. Q_CONST - 1)

MCCommitments ==
    Near({n * GAMMA2 : n \in 0 .. 33}, {-121, -120, -1, 0, 1, 119, 122})
MCKeyValues == {0, 4096, 4097, Q_CONST - 1}
MCSecretTerms == {-120, -1, 0, 1, 120}
MCKeyTerms == {-245760, -241, -1, 0, 1, 120, 245760}

-----------------------------------------------------------------------------
(* Transactions for TxFormat: one field, or the two factors of the fee, at  *)
(* the values where digits, buffers or carries are about to overflow.       *)

Repeat(b, n) == [p \in 1 .. n |-> b]

Ether == <<13, 224, 182, 179, 167, 100, 0, 0>>  \* 10^18

\* Up to 32 bytes.
Wide == {<<>>, <<1>>, <<9>>, <<10>>, <<100>>, <<255>>, <<1, 0>>, Ether,
         <<13, 224, 182, 179, 167, 100, 0, 1>>,
         <<13, 224, 182, 179, 167, 99, 255, 255>>,   \* 10^18 - 1
         <<1, 99, 69, 120, 93, 138, 0, 0>>,          \* 10^17
         <<138, 199, 35, 4, 137, 232, 0, 0>>,        \* 10^19
         <<5, 107, 199, 94, 45, 99, 16, 0, 0>>,      \* 10^20
         Repeat(255, 8), Repeat(255, 9), Repeat(255, 17),
         <<1>> \o Repeat(0, 31), Repeat(255, 31), Repeat(255, 32),
         Repeat(128, 32)}
\* Up to 8 bytes.
Narrow == {n \in Wide : Len(n) <= 8} \cup {<<82, 8>>, <<7, 161, 32>>}

Transfer == [value |-> Ether, to |-> Repeat(173, 64), gas_fee_cap |-> <<2, 84, 11, 228, 0>>,
             gas |-> <<82, 8>>, chain_id |-> <<48, 24, 36>>, gas_tip_cap |-> <<59, 154, 202, 0>>,
             nonce |-> <<1>>, m_hash |-> Repeat(31, 32)]

MCTxs ==
    {[Transfer EXCEPT !.value = v] : v \in Wide}
    \cup {[Transfer EXCEPT !.gas_fee_cap = f, !.gas = g] : f \in Wide, g \in Narrow}
    \cup {[Transfer EXCEPT !.gas_tip_cap = v, !.chain_id = v] : v \in Wide}
    \cup {[Transfer EXCEPT !.nonce = n] : n \in Narrow}
    \cup {[Transfer EXCEPT !.to = a] : a \in {Repeat(0, 64), Repeat(250, 64)}}

-----------------------------------------------------------------------------
(* Polynomials for Ntt: monomials show where every pair of coefficients     *)
(* goes; a dense one exercises the rounding of the Montgomery products.     *)

Monomial(a, e) == [n \in 0 .. 15 |-> IF n = e THEN a ELSE 0]
Dense == [n \in 0 .. 15 |-> (n * n + 5 * n + 3) % 97]

-----------------------------------------------------------------------------
(* States for Keccak: what SHAKE256 and Keccak-256 make of the empty        *)
(* message, and the state with every bit set.                               *)

MCStarts == {[n \in Words |-> Bits], Padded({0}), Padded(0 .. 4)}

-----------------------------------------------------------------------------
(* The parts *)

Text == INSTANCE TxFormat WITH
    Txs <- MCTxs,
    Addresses <- {[n \in 1 .. 64 |-> (n * 37) % 256]},
    Masks <- {[n \in 1 .. 64 |-> (n * 91) % 256]},
    tx <- x1, address <- x2, mask <- x3, display_nonce <- x4, display_tx_hash <- x5,
    step <- x6, pages <- x7, pairs <- x8, answer <- x9

Size32 == INSTANCE Coefficients WITH
    prog <- x1, pc <- x2, step <- x3, range <- x4, overflow <- x5

Transform == INSTANCE Ntt WITH
    N <- 16, Q <- 97, Width <- 12, ROOT <- 28,
    Left <- {Monomial(1, e) : e \in 0 .. 15} \cup {Dense},
    Right <- {Monomial(-2, e) : e \in 0 .. 15} \cup {Dense},
    job <- x1, a <- x2, b <- x3, count <- x4, start <- x5, j <- x6, k <- x7, f <- x8, g <- x9

\* The small ring is one that Ntt is meant for.
ASSUME ParametersFit == Transform!NttAssumption

-----------------------------------------------------------------------------
(* Running one of them *)

\* The shared variables that a part does not use.
Unused6 == x6 = 0 /\ x7 = 0 /\ x8 = 0 /\ x9 = 0
Unused1 == x1 = 0 /\ x2 = 0 /\ x3 = 0 /\ x4 = 0 /\ x5 = 0 /\ Unused6

\* The other modules at rest, each in one initial state.
RoundingRests == Init /\ t = 0 /\ w = 0
ChunksRest == ChunkInit /\ object = "sig"
KeccakRests == KeccakInit /\ start = Padded({0})

OwnRest == RoundingRests /\ ChallengeInit /\ NonceInit /\ ChunksRest /\ KeccakRests
own == <<vars, challengeVars, nonceVars, chunkVars, keccakVars>>

AlgorithmInit ==
    \/ /\ part = "rounding" /\ Init
       /\ ChallengeInit /\ NonceInit /\ ChunksRest /\ KeccakRests /\ Unused1
    \/ part \in {"challenge", "nonces"} /\ OwnRest /\ Unused1
    \/ /\ part = "chunks" /\ ChunkInit
       /\ RoundingRests /\ ChallengeInit /\ NonceInit /\ KeccakRests /\ Unused1
    \/ /\ part = "keccak" /\ KeccakInit
       /\ RoundingRests /\ ChallengeInit /\ NonceInit /\ ChunksRest /\ Unused1
    \/ part = "texts" /\ OwnRest /\ Text!Init
    \/ part = "sizes" /\ OwnRest /\ Size32!Init /\ Unused6
    \/ part = "ntt" /\ OwnRest /\ Transform!Init

AlgorithmNext ==
    \/ /\ part = "rounding" /\ Next
       /\ UNCHANGED <<part, challengeVars, nonceVars, chunkVars, keccakVars, shared>>
    \/ /\ part = "challenge" /\ ChallengeNext
       /\ UNCHANGED <<part, vars, nonceVars, chunkVars, keccakVars, shared>>
    \/ /\ part = "nonces" /\ NonceNext
       /\ UNCHANGED <<part, vars, challengeVars, chunkVars, keccakVars, shared>>
    \/ /\ part = "chunks" /\ ChunkNext
       /\ UNCHANGED <<part, vars, challengeVars, nonceVars, keccakVars, shared>>
    \/ /\ part = "keccak" /\ KeccakNext
       /\ UNCHANGED <<part, vars, challengeVars, nonceVars, chunkVars, shared>>
    \/ part = "texts" /\ Text!Next /\ UNCHANGED <<part, own>>
    \/ part = "sizes" /\ Size32!Next /\ UNCHANGED <<part, own, x6, x7, x8, x9>>
    \/ part = "ntt" /\ Transform!Next /\ UNCHANGED <<part, own>>

AlgorithmSpec == AlgorithmInit /\ [][AlgorithmNext]_algorithmVars

-----------------------------------------------------------------------------
(* Properties *)

\* Whatever decode_ledger_tx accepts fits the text buffers of the review.
EveryDecodedTxIsShown == part = "texts" => Text!EveryDecodedTxIsShown

\* Each text of the review, read back by ordinary arithmetic, is the value that
\* is signed, and a value has one text.
ReviewReadsBack == part = "texts" => Text!ReviewReadsBack /\ Text!TextsAreCanonical

\* In key generation, every attempt of signing and verification: no int32 sum
\* overflows, what is rounded is a standard representative, and a norm test looks
\* at the centred one.
CoefficientsFit ==
    part = "sizes" =>
        Size32!NoOverflow /\ Size32!RoundedAreStandard /\ Size32!NormOfTheSmallOne

\* The loops stay inside the polynomial and the table of zetas; ntt gives the values at
\* the roots in the order in which A is sampled, and with the pointwise product and
\* inv_ntt_to_mont the negacyclic product.
TransformsMultiply ==
    part = "ntt" =>
        /\ Transform!IndicesInBounds
        /\ Transform!ValuesInOrder /\ Transform!ProductIsNegacyclic

\* Each line of keccakf is the step of FIPS 202 it stands for, with the standard's
\* constants, and 24 rounds give the known digests of the empty message.
KeccakIsFIPS202 ==
    [][part = "keccak" => StepOfFIPS202 /\ KnownAnswers']_algorithmVars
=============================================================================
