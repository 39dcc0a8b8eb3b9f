------------------------------ MODULE MCStreams -----------------------------
(***************************************************************************)
(* The sponge, the samplers that read from it, the bit formats and the     *)
(* hint section of a signature.  Each behaviour runs one of them, named by *)
(* part, while the others stay in an initial state.                        *)
(***************************************************************************)
EXTENDS Sponge, Sampling, HintCodec, PackBits

VARIABLE part

streamsVars == <<part, spongeVars, samplingVars, hintVars, packVars>>

-----------------------------------------------------------------------------
(* Groups for PackBits: one word or byte of a single bit, 0 or the largest  *)
(* value among others that are all 0 or all the largest.  A part of a table *)
(* row moves each bit independently of the others, so single bits show      *)
(* where every bit goes.                                                    *)

Patterns(places, values, others) ==
    {[p \in 1 .. places |-> IF p = q THEN v ELSE o] :
        q \in 1 .. places, v \in values, o \in others}
Telling(max) == {0, max} \cup {2 ^ b : b \in {c \in 0 .. 19 : 2 ^ c <= max}}

MCWordGroups ==
    [n \in DOMAIN Formats |->
        Patterns(Len(Formats[n].keep), Telling(Formats[n].max), {0, Formats[n].max})]
MCByteGroups == {[b \in 1 .. 5 |-> Bits(n[b])] : n \in Patterns(5, Telling(255), {0, 255})}

-----------------------------------------------------------------------------
(* Running one of them *)

SamplingRests == SamplingInit /\ kind = "matrix"
HintRests == HintInit /\ given = Zeros
PackRests == PackInit /\ format = "z" /\ bytesOf = [b \in 1 .. 5 |-> {}]

StreamsInit ==
    \/ part = "sponge" /\ SpongeInit /\ SamplingRests /\ HintRests /\ PackRests
    \/ part = "sampling" /\ SpongeInit /\ SamplingInit /\ HintRests /\ PackRests
    \/ part = "hint" /\ SpongeInit /\ SamplingRests /\ HintInit /\ PackRests
    \/ part = "formats" /\ SpongeInit /\ SamplingRests /\ HintRests /\ PackInit

StreamsNext ==
    \/ part = "sponge" /\ SpongeNext /\ UNCHANGED <<part, samplingVars, hintVars, packVars>>
    \/ part = "sampling" /\ SamplingNext /\ UNCHANGED <<part, spongeVars, hintVars, packVars>>
    \/ part = "hint" /\ HintNext /\ UNCHANGED <<part, spongeVars, samplingVars, packVars>>
    \/ part = "formats" /\ PackNext /\ UNCHANGED <<part, spongeVars, samplingVars, hintVars>>

StreamsSpec == StreamsInit /\ [][StreamsNext]_streamsVars
=============================================================================
