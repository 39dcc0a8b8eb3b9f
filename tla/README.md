# QRL v2.0 Ledger application: TLA+ models and proofs

The application runs on a Ledger device. A host sends it APDU commands, the user
answers on its screen, and it returns addresses, public keys and ML-DSA-87
signatures of transactions. This directory models what the C code under `src/`
does, checks it with TLC on small instances and proves the main properties with
TLAPS for every value of the parameters.

## The system

| Part | State | Operations | Talks to |
|---|---|---|---|
| `app_main.c`, `apdu/dispatcher.c` | none of its own | startup (wipe, menu, zero the context), receive, parse, refuse or dispatch | host; the handlers |
| `handler/get_public_key.c`, `address.c`, `ui/nbgl_display_address.c` | `G_context` (path, address), `N_storage.pk` | derive, answer or review the address, send key chunks | BOLOS derivation, `sign.c`, user |
| `handler/sign_tx.c`, `helper/send_response.c` | `G_context` (request type, state, path, `raw_tx`, `m_hash`), `N_storage.sig`, `is_sending_signature` | start, append, finish and show, send chunks | decoder, review, host |
| `ui/nbgl_display_transaction.c`, `ui/action/validate.c` | static text buffers, `G_context.state` | show the review; approve: sign, verify, wipe, send; reject | user, `sign.c`, host |
| `ui/menu_nbgl.c` | settings in `N_storage` | toggle three switches, show the menu, quit | user |
| `mldsa87/sign.c` | the NVM regions t1, w1, w0, h, y, z, cp, pack1, sig, pk | key pair, sign (rejection loop), verify, wipe | NVM, hashing |
| `mldsa87/rlp_decode.c`, `ui/tx_format.c`, `address_format.c` | none | decode and format a transaction | handler, review |
| `mldsa87/{poly,polyvec,ntt,reduce,rounding}.c`, hashing | none | arithmetic | `sign.c` |

The application is one thread. What is hard about it is not parallelism but time:
a handler returns and a *callback* finishes its command seconds later, from
whatever the global context then holds; deriving, signing and verifying take long
and write NVM as they go, so power can be lost between any two writes and what
was written outlives it; a signature leaves in 18 commands, each trusting a flag
in NVM; and the rejection loop reuses its buffers, attempt after attempt.

What makes each part correct:

* dispatcher and handlers: every command gets exactly one answer; the transaction
  buffer is never overrun;
* review and signing: what is signed is what was shown, only what decodes, and
  opaque data only with the setting on; nothing leaves unverified, nothing leaves
  that was not approved, a stream of chunks is one signature;
* public keys: the chunks belong to the address that was answered;
* `sign.c`: the packed signature comes from one attempt, the loop ends, scratch is
  clean when the signature is handed back, no nonce is used twice;
* decoder: every byte it reads is inside the input, every copy inside its array; it
  accepts what the documentation calls a transaction, in one encoding;
* formatters: every decoded transaction can be shown, and a text read back is the
  value that is signed;
* arithmetic, samplers, encodings, hashing: no `int32_t` overflows, the verifier
  recovers what the signer hashed, what is packed is what is unpacked, the bytes of
  a stream are used in order, Keccak is Keccak.

## Modules

| Module | What it models |
|---|---|
| `LedgerApp` | The application between host, user and NVM. One action per handler branch, callback or step of a long computation. |
| `ApprovedSigning` | Abstract: a request is asked, granted or declined; only the signature of the granted request leaves, in one stream. |
| `LedgerAppImplements` | The refinement mapping from `LedgerApp` to `ApprovedSigning`. |
| `SigningNvm` | `sign.c` write by write: which NVM regions hold intermediates and which were computed by the running attempt. |
| `RlpDecode` | `rlp_decode.c` byte by byte. |
| `TxFormat` | `tx_format.c`, the address checksum and the review that uses them. |
| `Rounding` | `rounding.c` on one coefficient, from the key to the verifier. |
| `Coefficients` | The interval of every vector's coefficients through key generation, signing and verification. |
| `Ntt` | `ntt.c` and `montgomery_reduce` on a small ring. |
| `Sampling`, `Challenge`, `Nonces` | The samplers of A, s1, s2; the challenge; which nonce every draw uses. |
| `HintCodec`, `PackBits`, `Chunks` | The hint section of a signature; the bit formats of `poly.c`; the chunks the host asks for. |
| `Keccak`, `Sponge` | `keccakf.c` bit by bit; absorbing and squeezing over a symbolic permutation. |
| `MCLedgerApp`, `MCRlpDecode`, `MCStreams`, `MCAlgorithms` | Instances for TLC. |
| `LedgerAppProofs`, `SigningNvmProofs`, `RlpDecodeProofs`, `HintCodecProofs`, `StreamProofs` (`Sponge`, `Sampling`), `FormatProofs` (`Nonces`, `Chunks`, `PackBits`), `AlgorithmProofs` (`Keccak`, `Rounding`, `Challenge`), `ArithmeticProofs` (`Ntt`, `Coefficients`) | Theorems and proofs. |

### LedgerApp

`ctx` is `G_context`, `nvm` the part of `N_storage` that matters between commands,
`ui` the NBGL page and what is on it, `io` whether the host waits and what it was
last answered. `run` is the rest of a handler or callback still to be executed:
while it is not `"idle"` nothing else happens except a loss of power. `consent`
is a history variable: the review the user approved, carried along until the
signature made from it is replaced, and the signature whose chunk 0 the host got
since the last approval. It survives a loss of power, as what the host has read
does; no guard reads it.

* `Refusal` collects the dispatcher's refusals in the code's order. `SignFirst`,
  `SignMore`, `SignLast` and `SignChunk` are the four branches of
  `handler_sign_tx`, `SignDataRefused` the checks two of them share.
* `GetPublicKey` and `SignLast` stop where the derivation begins. `Derive` is
  `address_from_bip32_path`; `SendAddress`, `ui_display_address` and
  `ui_display_transaction` are what follows it, `DeriveFails` its error return.
* `Approve` sets the state and starts `crypto_sign_message`; `SignAttempt`,
  `SignPack`, `SignFails` and `VerifyAndSend` are its stages, `SetFlag` and
  `ClearFlag` the NVM writes `helper_send_response_sig` makes after it has sent.
* `PowerLoss` may strike anywhere. RAM is gone, NVM stays; a derivation may have
  left the key half written.

Abstractions. A path is a model value: valid, odd (the OS derives it, the path
check refuses it) or unusable. A transaction is a sequence of bytes; `Decodes`,
`IsBlind` and `Formats` stand for `decode_ledger_tx` and the formatters. Digests
are injective. A packed signature may fail to verify (worn NVM), which is what
the verification is for. Error branches that no input reaches are left out: the
samplers never fail (`poly_uniform_eta` always returns 0), the state tests of the
two display functions always succeed when they are called, line 133 of
`sign_tx.c` is behind the dispatcher's checks. The bytes of answers and the texts
on screen are left out.

Two constants say what is assumed of the surroundings. `HostWaits`: no command
arrives before the last was answered; the SDK's transport gives this, the
application does not enforce it. `FlagLowered`: no transaction is completed while
`N_storage.is_sending_signature` is still up. This is a condition on the device's
flag and not only on the host: it takes a host that reads each signature to its last
chunk *and* power that lasts from that chunk to the write that lowers the flag.
Nothing gives it and `handler_sign_tx` has no such test, so it stands outside
`SignLast`, in `MayComplete`; `undrained` shows what depends on it. Both together are
called careful use. Without either, a host can still rely on
`StreamIsOneSignature`, `ApprovedIsSigned`, `KeyMatchesAddress` and the types.

### SigningNvm

A region is zero, public or an intermediate, and fresh or not. `pc` walks through
the calls of `crypto_sign_keypair`, `crypto_sign_optimized` and
`crypto_verify_optimized` in the order of the code, one action per NVM vector
written and one per test. Transforms in place belong to the write they follow.
`buf_verify` shares `pack1` with t0 and is shorter, so packing w1 there does not
clear t0. `w1` counts as public once it is rounded: `sign.c` treats it so (it is
not wiped), and for the accepted attempt the verification recomputes it from the
signature.

### RlpDecode

One action per field of `zond_tx_t` in the order of `decode_ledger_tx`, each the
whole `parse_rlp_item` with the tests that follow it. `seen` is the highest offset
looked at, so that a read outside the input shows. Lengths are taken modulo
`256^SizeBytes`: 4 bytes on the device, 8 in the builds of the tests and fuzzers. A
value of `Huge` (65536) or more is all the same to a decoder whose inputs are
shorter, which keeps TLC's integers small.

### TxFormat

The four functions with their buffers, and `ui_display_transaction_bs_choice` up
to the pairs it shows. SHAKE-256 in the address checksum is an arbitrary mask.
`EveryDecodedTxIsShown` shows that the constant `Formats` of `LedgerApp`, by which a
field may fail to format, allows more than can happen.

### The numbers

* `Rounding` uses the real constants. C's arithmetic shifts are divisions rounding
  down; the masks that stand for comparisons are comparisons.
* `Coefficients` is an interval analysis: a vector is the interval of its values, a
  call maps intervals to intervals. It covers at least what can occur (`IntervalsCover`
  proves it of every operation), so an absent overflow is absent from the code.
* `Ntt` keeps the loops and the walk through the table of zetas and replaces the
  ring: degree 16, q = 97, Montgomery radix 2^12. `Q_INV` is q^(-1) as the code uses
  it (the comment in `constant.h` line 30 has the opposite sign). The copies of the
  loops in `sign.c` are the same loops over NVM.
* `Sampling`: three coefficients per polynomial, blocks of six bytes in the place of
  168, so that refills and left-over bytes occur. `Challenge`: seven coefficients,
  weight four, blocks of four bytes. `HintCodec`: two polynomials of five places and
  three hints. Streams and byte strings are arbitrary over the chosen values.
* `PackBits` writes a word as the set of its bits. Each packed byte is a union of
  shifted words, so in the run patterns of single bits show where every bit goes; the
  proof takes all coefficients. The application
  packs t1, z and w1 and unpacks z (and y, from the stream) with copies of these loops
  in `sign.c`; the formats of eta and t0 and the unpacking of t1 are in `poly.c` only,
  and w1 has no unpacking.
* `Nonces` and `Chunks` take the cap and the sizes of `constant.h` as parameters; the
  run gives them the values of the code (814 attempts, 18 chunks, 11 chunks).
* `Keccak` has 64-bit lanes as sets of bits, starts from the states the sponges give
  it and is compared with the steps of FIPS 202, whose constants are recomputed from
  their definitions, and with two known digests of the empty message.
* `Sponge` has one action per call and one per turn of its loop; `todo` is what the
  call has left. The runs take a rate of 3, and symbols stand for permuted states: two
  states are equal only if they absorbed the same blocks.

`MCStreams` runs `Sponge`, `Sampling`, `HintCodec` and `PackBits` side by side,
`MCAlgorithms` the others. A behaviour picks one (`part`) and one of its initial states,
and the rest stands still. The modules about which there are theorems are extended and
keep their own variables and constants; `TxFormat`, `Coefficients` and `Ntt` are
instances that share the variables `x1` to `x9`, since only one runs.

## Runs

| Run | Question | Result |
|---|---|---|
| `session` | Do the safety properties and the inductive invariant hold with careful use? | pass, 542,480 states |
| `pipelined` | What can any host rely on: one that does not wait and completes transactions with the flag up? | pass, 319,230 states |
| `answers` | Does `LedgerApp` implement `ApprovedSigning`, and is the host answered once the user approved? | pass, 81,002 states |
| `signing` | Are the NVM regions fresh and clean when they must be, over rejections, failures and power losses, and do the rejection loop, the verification and the wipe end once the power stays on? | pass, 1,361 states |
| `decoder` | Does the decoder stay in its memory, accept all legal transactions, and each in one encoding? | pass, 47,283 states |
| `streams` | Do the sponge and the samplers keep to one stream, and do hints and coefficients come back? | pass, 196,949 states |
| `algorithms` | Do the other algorithms compute what they should? | pass, 174,429 states |
| `undrained` | Is only a verified signature released when a transaction may be completed with the flag still up? | violated |
| `paths` | Are only valid paths signed with? | violated |
| `startup` | Is no intermediate left after a restart? | violated |
| `decoder_documented` | Is everything accepted the encoding of a documented transaction? | violated |
| `sampling_refill` | Is every entry of A the one FIPS 204 defines? | violated |

Bounds. `MAX_TRANSACTION_LEN = 3` and `MaxLc = 2` let a transaction arrive in one,
two or three blocks, fill the buffer exactly and overrun it by one; transactions
are told apart by their length (one byte: plain; two: opaque data and a nonce
that does not format; three: does not decode). One valid and one odd path let two
derivations meet in `N_storage.pk`. `LastSigChunk = 2` gives a first, a middle and
a last chunk. `pipelined` and `answers` use smaller values of the same parameters
because they explore more behaviours or check temporal formulas. `MaxAttempts = 3`
covers an attempt after a rejected one and reaching the cap; the proofs cover every
cap.

`decoder` takes legal transactions with two fields at their limits, encodings with
two neighbouring items replaced by faulty ones, faulty list headers, every prefix of
a transaction and continuations of it; the proofs take any input. In `algorithms` the
texts are of values at the limits of digits, buffers and carries; commitments are
around every multiple of `GAMMA2`; the transforms multiply all pairs of monomials and
a dense polynomial. In `streams` messages and outputs of the sponge are up to three
blocks in all splits, hints and strings of bytes are all there are, and a group of
coefficients has one word of a single bit, 0 or the largest value among others that are
all 0 or all the largest. `MaxRefills`, `MaxBytes`, `MaxMessage` and `MaxOutput` end the
streams.
The decoder and the algorithms stop when they have their result, so these runs do
not look for deadlocks.

Fairness. `FairSpec` of `LedgerApp` is weak fairness of `Computation`: code that
runs goes on running. Nothing is assumed of the host or the user, so `SigningEnds`
speaks of what happens after the approval only. `FairSpec` of `SigningNvm` is the
same for the steps of the three functions; `Terminates` speaks of behaviours in which
the power stays on from some point on, since power losses could otherwise interrupt
every startup. No other module has a liveness
property: their loops are bounded by a counter, or end with probability one.

### Findings

* `undrained`. `is_sending_signature` is lowered only behind the last chunk. If a
  second transaction is signed with the flag still up and that signing fails,
  the next chunk command sends bytes of the overwritten buffer, which no
  verification accepted. There are two ways to get there: the host leaves a stream
  unfinished, which is the trace of the run; or it reads the last chunk and power is
  lost before the flag is lowered (`SignChunk(LastSigChunk)`, then `PowerLoss` instead
  of `ClearFlag`), so that reading every stream to its end does not exclude it. The
  README says every signature is verified before it is released.
* `paths`. `P1 = 0` stores the path and prepares the context before it checks the
  path; the refusal does not undo that, so the following blocks are reviewed (with
  the address of that path, as `ReviewIsCurrent` says) and signed. The documents
  say that paths have the form `m/44'/238'/account'/change/index`.
* `startup`. The wipe at startup clears y, t0 and w0; t1, w1, h and z keep what an
  interrupted operation left there until they are overwritten. The comment in
  `app_main` says that any values left behind are cleared.
* `decoder_documented`. Three kinds of input are accepted that are not the encoding
  of a transaction as `doc/TRANSACTION.md` describes it: a list where a string should
  be (only `data` and `access_list` look at the prefix); bytes behind the list, which
  are hashed and signed and not shown; and, on the device only, a length field of more
  than four bytes, whose high bytes are shifted out. `AcceptedReencodes` shows that
  these are all: otherwise what is accepted is the one encoding of its items.
* `sampling_refill`. `combined_method` squeezes 842 bytes, looks at 280 candidates,
  and when they do not suffice goes on at byte 842 instead of 840. The entry of A is
  then not the one of FIPS 204. It needs 25 rejections among 280 candidates, each of
  probability 1/1024.

## Proofs

`tlapm` checks all theorems for arbitrary paths, bytes, lengths, decoders, numbers of
chunks and attempts. Assumptions are the named ones of the modules (the unusable path is
no valid path, lengths are naturals, there is at least one chunk, the cap is a natural
number; inputs of the decoder are bytes, `SizeBytes` is at least 2, the transactions of
`Preimages` have fields within their limits; the coefficients and products of `Rounding`
are in their intervals; the challenge is not heavier than it is long; sizes are
positive, there are fewer hints than places; the suffix is not the final bit of the
padding; a block of SHAKE128 is whole candidates and the buffer holds the first squeeze;
the nonces of all attempts fit 16 bits; the chunks cover the object; packed words are at
most the largest of their format, a byte has eight bits; a state of Keccak is 25 words
of 64 bits; the degree is a power of two, q has an inverse modulo R). The runs evaluate
them for their constants. `KeccakTables` is an assumption only in form: it says that the
two tables of `keccakf` are the offsets and round constants recomputed from FIPS 202,
has no parameter, and is settled when TLC evaluates it at the start of `algorithms`.
Where a theorem needs it, careful use, or only `FlagLowered`, is a hypothesis.

* `TypeCorrect` (any host): types, and with them the capacity of `raw_tx`.
* `KeyMatches` (any host) from `KeyInv`. `KeyMatchesAddress` is not inductive:
  signing and verifying rewrite the key for the *path*, so the invariant adds that
  the address is the path's. It holds because every command that changes the path
  zeroes the address with it. `KeyCorrect` states the invariant itself.
* `ApprovedMeansSigned` (any host): `ApprovedIsSigned` needs to know that between the
  approval and the answer the state is the one of the signing that runs.
* `SessionCorrect` (careful use): `SessionInv` is inductive. It consists of
  `DialogueInv` (who waits for whom), `TransactionInv` (from the last block to the
  signature the context does not move) and `SignatureInv` (the signature in NVM
  from packing to its last chunk). From it follow `SignsWhatIsDisplayed`,
  `ReviewsTheContext`, `ReleasesWhatIsApproved`, `GatesBlindSigning` and
  `AnswersEveryCommand`.
* `StreamsOneSignature` (any host, flag up or not): `StreamInv` says that the signature
  whose chunk 0 the host got is the one in NVM, that it was verified, and that nothing
  is being signed. Derivations and losses of power leave it so, and only an approval
  starts a signing, which ends the stream.
* `FlagCorrect` (`FlagLowered`; the host need not wait): `FlagInv` says that as long as
  the flag is up no review is open and nothing is being signed, so that the bytes in
  NVM stay those that were verified. It needs no order between commands and answers.
  `ReleasesOnlyVerified` follows; `undrained` shows that its one hypothesis is needed.
* `Implements` (careful use): every step of `LedgerApp` is a step of
  `ApprovedSigning` under the mapping or leaves the mapped state alone. Answers are
  `Answer` or `Continue`, a review is `Ask`, the user's choice is `Grant` or
  `Decline`, the end of signing `Deliver` or `GiveUp`, lowering the flag `Finish`,
  restarting `Reset`.
* `SigningCorrect` (any cap, power losses anywhere): `SigningInv` says for every
  label which regions it relies on. `WipeInv` needs that a key pair leaves y, pack1
  and w0 alone, because it returns without a wipe; `CleanInv` follows z, h, w1 and
  t1 through the verification; `FreshInv` follows each region from its write to its
  last use. From it follow `ReleasesClean`, `IdleIsWiped`, `PacksOneAttempt`,
  `RegionsAreFresh` and `SigningTyped`.
* `DecodeCorrect` (any input, any width of `size_t`): `DecodeInv` follows the cursor
  from item to item. A parsed item ends behind its start and inside the input, because
  the length that is compared is the one that is used, wrapped or not. From it follow
  `DecodesInBounds` and `AcceptedItemsFillTheList`.
* `AcceptedListIsItsEncoding` (any input, any width of `size_t`): `EncodedInv` adds to
  `DecodeInv` that the bytes of each item are the encoding of its content, which the
  decoder's tests for short forms and leading zeros enforce header by header; the
  eleven pieces are end to end, so they are the list.
* `NoPreimageIsRefused` (any legal transactions): `TrackInv` says that on a preimage
  the cursor stands where the next field's encoding begins, so that each field parses
  to what was encoded and passes its limits.
* `RoundingCorrect` (all 8,380,417 values, all products that can occur): `RoundingInv`
  says what is known of a coefficient after each call. The quotient that `decompose`
  computes with a multiplication and shifts is the one of the definition
  (`QuotientIs`); |c t0| is at most 245,760, below `GAMMA2`, so the norm test of h never
  rejects; the test of w0 against `GAMMA2 - BETA` keeps the high bits. From it
  follow `PartsFit`, `SubtractionKeepsHighBits` and `VerifierRecoversHighBits`.
* `ChallengeCorrect` (all lengths, weights and block sizes): at index i the challenge
  has weight i - (N - TAU), all of it below i. `ChallengeHasWeightTau` follows.
* `HintsSurviveTheSignature` (all numbers of polynomials, places and hints): `HintInv`
  follows the packing (the bytes hold the places so far in order, and their counts),
  the unpacking (the hint so far is the set of the places read) and, for a string from
  outside, that each accepted place is above the last, so that packing again writes
  the same string.
* `SpongeIsOneStream` (every rate and suffix, every cut into calls): `SpongeInv` says
  that while absorbing the blocks are those of the message and the rate holds its rest,
  and while squeezing the blocks are the padded message and so many blocks of nothing.
* `SamplersKeepToTheStream` (all sizes, any number of refills): `SamplingInv` says that
  the buffer holds the last `bufLen` bytes of the stream; that two bytes more than
  whole blocks are only in the first buffer, so that no byte is ever moved to the
  front; that what was looked at lies before `pos`; and that every byte of a secret's
  stream gave its two halves.

* `NoNonceTwice` (any cap whose nonces fit 16 bits): the last nonce under every seed
  is a function of where the loop stands, for the masks `L * nonce + k - 1`, and
  `nonce` is the number of attempts that have drawn their y. The cap on the attempts is
  what keeps the 16 bits from wrapping.
* `HostGetsTheObject` (all sizes that cover the object): the host has received `index`
  whole chunks, and the flag is up exactly from the first chunk to the last.
* `FormatsSurvive` (all coefficients in range, all bytes): a table row that starts at bit
  s takes from each source the bits that fall into its eight (or `width`) places, so bit p
  of the group is bit `p % width` of word `p / width` and bit `p % 8` of byte `p / 8`.
  Each table of the code is checked to be such rows; then words and bytes determine each
  other, and a number is determined by its bits.
* `KeccakStepsAreFIPS202` (every state): the loops' xors of words are the parities of
  columns, the rotations and moves through B are rho and pi, the complemented
  conjunctions are chi, bit by bit; `Target` is shown to be a permutation of the words.

* `MontgomeryReduces` (every modulus and word for which q has an inverse): the two casts
  drop multiples of R, so `t q` agrees with x in the low word and the shift loses
  nothing.
* `TransformsStayInside` (every degree that is a power of two): `LoopInv` ties the index
  into the table to the loops, `2 count k = N + start` on the way forward and
  `2 count (k + 1) = 2 N - start` on the way back. That N is a power of two is used as:
  each of its divisors above 1 is even.
* `IntervalsCover` (all intervals, all coefficients in them): the steps of
  `Coefficients` against the exact `reduce_32` of `Rounding`, the exact
  `montgomery_reduce` of `Ntt` (from `MontgomeryReduces`, with q = 8380417 and
  R = 2^32) and sums in `int32_t`.

Only model-checked: the liveness properties (the prover has no rules for fairness);
`TxFormat`, whose long division and trimming are recursive, so that what they compute
is an induction over data (`EveryDecodedTxIsShown`, `ReviewReadsBack`); what the
transforms of `Ntt` compute, an induction over their levels; `CoefficientsFit`, which has
no parameter, so that its run with the operations proved sound leaves nothing to
generalise; and the two digests that
`KeccakIsFIPS202` compares after 24 rounds.

## Not modelled

* functions that nothing calls: `poly_uniform`, `poly_vec_matrix_expand`,
  `poly_vec_k_pack_w1` and the vector functions that `sign.c` replaces by versions
  that write NVM;
* the transforms with the numbers of ML-DSA-87: degree 256 and products of 46 bits
  are beyond TLC's integers; `Ntt` has the loops, `Coefficients` the sizes;
* the strength of the hashes: a digest is injective, a stream is arbitrary;
* the SDK: transport, NBGL pages, key derivation; modelled from how they are used.
  A transport error that ends `app_main` is a restart;
* tests, fuzzers and the Python client;
* texts other than the values of the review, icons, tunes and logging.

## Plan

A composition of `LedgerApp` and `SigningNvm` in which the stages of `run` are the
stages of `pc`, so that the scratch is followed across commands.
