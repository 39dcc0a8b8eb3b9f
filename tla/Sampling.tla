------------------------------ MODULE Sampling ------------------------------
(***************************************************************************)
(* The two rejection samplers: combined_method of sign.c draws an entry of *)
(* the matrix A from SHAKE128, three bytes a candidate, and                *)
(* poly_uniform_eta of poly.c an entry of s1 or s2 from SHAKE256, two      *)
(* candidates a byte.                                                      *)
(*                                                                         *)
(* What the sponge returns is random: a byte is its position in the        *)
(* stream, and whether a candidate is below its limit is a free choice.    *)
(***************************************************************************)
EXTENDS Integers, Sequences, FiniteSets

CONSTANTS aLen,       \* coefficients to draw
          Blocks,     \* POLY_UNIFORM_N_BLOCKS
          Rate,       \* STREAM_128_BLOCK_BYTES
          EtaBytes,   \* STREAM_256_BLOCK_BYTES; one block is squeezed first
          Capacity,   \* sizeof(ubuf.buf_squeeze)
          Nibbles,    \* the halves of bytes that s1 and s2 are drawn from
          MaxRefills  \* bound: blocks squeezed after the first call

\* 840 and 168 bytes are whole candidates; two bytes more fit the buffer.
SamplingAssumption ==
    /\ aLen \in Nat \ {0} /\ Blocks \in Nat \ {0} /\ EtaBytes \in Nat \ {0}
    /\ Rate \in Nat \ {0} /\ Rate % 3 = 0
    /\ Capacity \in Nat /\ Capacity >= Blocks * Rate + 2
    /\ Nibbles \subseteq 0 .. 15

ASSUME SamplingParameters == SamplingAssumption

VARIABLES sampler,   \* "matrix", "secret": which of the two; "done" after it
          kind,      \* the sampler that was started
          buf,       \* the buffer: stream positions, in the bytes squeezed so far
          next,      \* the next stream position the sponge gives
          bufLen,    \* how far the candidates are looked for
          pos,       \* where the next candidate begins
          coeffs,    \* the coefficients drawn
          scanned    \* history: the candidates looked at, in order

samplingVars == <<sampler, kind, buf, next, bufLen, pos, coeffs, scanned>>

Unread == -1   \* a byte of buf that was never squeezed

\* ubuf.buf_squeeze for the matrix, an array of its own for a secret
BufferSize == IF kind = "matrix" THEN Capacity ELSE EtaBytes

\* Squeezing n bytes into the buffer at off.
squeeze(b, off, n) ==
    [k \in DOMAIN b |-> IF k \in off .. off + n - 1 THEN next + (k - off) ELSE b[k]]

SamplingInit ==
    /\ sampler \in {"matrix", "secret"} /\ kind = sampler
    /\ coeffs = << >> /\ scanned = << >> /\ pos = 0
    /\ IF kind = "matrix" THEN bufLen = Blocks * Rate + 2 ELSE bufLen = EtaBytes
    /\ next = bufLen
    /\ buf = [k \in 0 .. BufferSize - 1 |-> IF k < bufLen THEN k ELSE Unread]

-----------------------------------------------------------------------------
(* combined_method *)

Full == Len(coeffs) >= aLen

MoreCandidates == ~Full /\ pos + 3 <= bufLen

\* One candidate of either loop: kept when it is below q.
Uniform ==
    /\ sampler = "matrix" /\ MoreCandidates
    /\ LET t == <<buf[pos], buf[pos + 1], buf[pos + 2]>>
       IN  /\ scanned' = Append(scanned, t)
           /\ coeffs' \in {coeffs, Append(coeffs, t)}
    /\ pos' = pos + 3
    /\ UNCHANGED <<sampler, kind, buf, next, bufLen>>

\* The buffer is used up before aLen coefficients are found.  The first time
\* bufLen has been put back to whole blocks, without the two bytes more.
Refill ==
    /\ sampler = "matrix" /\ ~MoreCandidates /\ ~Full
    /\ next + Rate <= Blocks * Rate + 2 + MaxRefills * Rate
    /\ LET len == IF next = Blocks * Rate + 2 THEN Blocks * Rate ELSE bufLen
           off == len % 3
           moved == [k \in DOMAIN buf |-> IF k < off THEN buf[len - off + k] ELSE buf[k]]
       IN  buf' = squeeze(moved, off, Rate) /\ bufLen' = Rate + off
    /\ next' = next + Rate
    /\ pos' = 0
    /\ UNCHANGED <<sampler, kind, coeffs, scanned>>

-----------------------------------------------------------------------------
(* rej_eta and poly_uniform_eta *)

SecretValue(t) == 2 - (t - ((205 * t) \div 1024) * 5)

Draw(at, t) == [at |-> at, value |-> SecretValue(t)]

\* The coefficients after the byte at stream position p, with halves t0 and t1.
Halves(p, t0, t1) ==
    LET kept == IF t0 < 15 THEN Append(coeffs, Draw(<<p, 0>>, t0)) ELSE coeffs
    IN  IF t1 < 15 /\ Len(kept) < aLen THEN Append(kept, Draw(<<p, 1>>, t1)) ELSE kept

rej_eta ==
    /\ sampler = "secret" /\ ~Full /\ pos < bufLen
    /\ \E t0, t1 \in Nibbles :
          /\ coeffs' = Halves(buf[pos], t0, t1)
          /\ scanned' = scanned \o <<[at |-> <<buf[pos], 0>>, t |-> t0],
                                     [at |-> <<buf[pos], 1>>, t |-> t1]>>
    /\ pos' = pos + 1
    /\ UNCHANGED <<sampler, kind, buf, next, bufLen>>

\* Mutant: the coefficients of the block before are overwritten.
EtaRefillFromStart ==
    /\ sampler = "secret" /\ ~Full /\ pos >= bufLen
    /\ next + EtaBytes <= (1 + MaxRefills) * EtaBytes
    /\ buf' = squeeze(buf, 0, EtaBytes)
    /\ next' = next + EtaBytes
    /\ bufLen' = EtaBytes /\ pos' = 0 /\ coeffs' = << >>
    /\ UNCHANGED <<sampler, kind, scanned>>

EtaRefill ==
    /\ sampler = "secret" /\ ~Full /\ pos >= bufLen
    /\ next + EtaBytes <= (1 + MaxRefills) * EtaBytes
    /\ buf' = squeeze(buf, 0, EtaBytes)
    /\ next' = next + EtaBytes
    /\ bufLen' = EtaBytes /\ pos' = 0
    /\ UNCHANGED <<sampler, kind, coeffs, scanned>>

\* The context is cleared and the polynomial is used.
Finish ==
    /\ sampler # "done" /\ Full
    /\ sampler' = "done"
    /\ UNCHANGED <<kind, buf, next, bufLen, pos, coeffs, scanned>>

SamplingNext == Uniform \/ Refill \/ rej_eta \/ EtaRefill \/ Finish

SamplingSpec == SamplingInit /\ [][SamplingNext]_samplingVars

-----------------------------------------------------------------------------
(* Properties *)

\* A candidate of the matrix is read only from bytes that the sponge has filled,
\* inside the buffer, and no coefficient is written behind the last one.
ReadsWhatWasSqueezed ==
    /\ Len(coeffs) <= aLen
    /\ kind = "matrix" =>
          \A i \in 1 .. Len(scanned) : \A k \in 1 .. 3 : scanned[i][k] \in 0 .. next - 1

\* No byte of the stream takes part in two coefficients of the matrix, and the
\* candidates come in the order of the stream, over any number of refills.
EachByteOnce ==
    kind = "matrix" =>
        \A i \in 1 .. Len(scanned) :
            /\ scanned[i][1] < scanned[i][2] /\ scanned[i][2] < scanned[i][3]
            /\ i > 1 => scanned[i - 1][3] < scanned[i][1]

\* The halves below 15 among the first n of s, and the coefficient of one.
Below(s, n) == {j \in 1 .. n : s[j].t < 15}
Coefficient(half) == [at |-> half.at, value |-> 2 - (half.t % 5)]

\* The r-th half of s that is below 15 gives coefficient r of c, for the first aLen.
DrawnFrom(s, c) ==
    /\ Len(c) = LET all == Cardinality(Below(s, Len(s))) IN IF all < aLen THEN all ELSE aLen
    /\ \A j \in Below(s, Len(s)) :
          LET r == Cardinality(Below(s, j)) IN r <= aLen => c[r] = Coefficient(s[j])

\* s1 and s2 are drawn as FIPS 204 says: every half of a byte in turn, the low
\* half first, none skipped; the first aLen below 15 give 2 minus them modulo 5.
SecretFromTheStream ==
    kind = "secret" =>
        /\ \A i \in 1 .. Len(scanned) : scanned[i].at = <<(i - 1) \div 2, (i - 1) % 2>>
        /\ DrawnFrom(scanned, coeffs)

\* The three together.
SamplersReadTheStream == ReadsWhatWasSqueezed /\ EachByteOnce /\ SecretFromTheStream

\* What FIPS 204 says of the matrix: the candidates are the bytes of the stream
\* three by three, none skipped.
MatrixFromTheStream ==
    kind = "matrix" =>
        \A i \in 1 .. Len(scanned) :
            scanned[i] = <<3 * (i - 1), 3 * (i - 1) + 1, 3 * (i - 1) + 2>>
=============================================================================
