----------------------------- MODULE AudioFormats -----------------------------
(***************************************************************************)
(* What the platform outputs make of formats and samples: they probe what  *)
(* the hardware takes, list the stream formats that they can play, choose  *)
(* the hardware's format for a stream, and put each sample where the       *)
(* hardware looks for it.                                                  *)
(*                                                                         *)
(* Rates are in units of 44100; the multiples of 48000 are probed and      *)
(* chosen in the same way.  A sample is the sequence of its bytes, the     *)
(* lowest first; where they go is known by the bit of the hardware's word  *)
(* that the lowest bit of each one gets to.                                *)
(***************************************************************************)
EXTENDS Integers, Sequences, SequencesExt, FiniteSets, TLC

CONSTANTS
    PcmRates, DsdRates,     \* sample rates: 1, 2, 4 ..., and 64, 128 ...
    ChannelCounts,          \* the channels of a stream
    Frames                  \* bound on the frames that are played

VARIABLES
    card,       \* what the hardware takes, in the terms of the platform
    config,     \* how the plugin was configured
    listed,     \* supported_formats
    stream,     \* the stream that the output was set up for
    chosen,     \* what was negotiated with the hardware for it
    packed,     \* the samples that were put into the hardware's buffer
    out,        \* where the next one goes
    buffer      \* history: the sample that was put at each place

formatVars == <<card, config, listed, stream, chosen, packed, out, buffer>>
packVars   == <<packed, out, buffer>>

Pcm(r, b, c) == [type |-> "pcm", rate |-> r, bits |-> b, channels |-> c]
Dsd(r, c)    == [type |-> "dsd", rate |-> r, bits |-> 1, channels |-> c]

PcmStreams == {Pcm(r, b, c) : r \in PcmRates, b \in {16, 24, 32}, c \in ChannelCounts}
DsdStreams == {Dsd(r, c) : r \in DsdRates, c \in ChannelCounts}

\* DoP and dCS put 16 bits of DSD and a marker into a 24-bit sample.
Encapsulated(s) == Pcm(s.rate \div 16, 24, s.channels)

None    == [hw |-> "none", bits |-> 0, rate |-> 0, channels |-> 0]
Refused == [None EXCEPT !.hw = "refused"]
IsOpen  == chosen \notin {None, Refused}

FormatsInit(Devices, Configs) ==
    /\ card \in Devices /\ config \in Configs
    /\ listed = {} /\ stream = None /\ chosen = None
    /\ packed = 0 /\ out = 0 /\ buffer = <<>>

\* What Roon is told: software volume takes PCM only.
Offered == {s \in listed : ~config.volume \/ s.type = "pcm"}

Probe(supported) ==
    /\ listed = {} /\ listed' = supported
    /\ UNCHANGED <<card, config, stream, chosen>> /\ UNCHANGED packVars

\* Software volume and PCM
PrefersLarger(s) == config.volume /\ s.type = "pcm"

\* The numbers of bits that are looked for among the formats: the larger ones first, if there is
\* software volume that would make use of them
Preferred(s) ==
    (IF ~PrefersLarger(s) \/ s.bits = 32 THEN <<>> ELSE IF s.bits = 24 THEN <<32>> ELSE <<32, 24>>)
        \o <<s.bits>>

\* The first of the formats that is there, or Refused
Found(s, formats) ==
    LET there == SelectSeq(Preferred(s), LAMBDA b : [s EXCEPT !.bits = b] \in formats)
    IN IF there = <<>> THEN Refused ELSE [s EXCEPT !.bits = Head(there)]

SetUp(s, choice) ==
    /\ chosen = None /\ stream' = s /\ chosen' = choice
    /\ packed' = 0 /\ out' = 0 /\ buffer' = <<>>
    /\ UNCHANGED <<card, config, listed>>

\* Mutant: the samples are put one after the other.
NoSkip(n) == 0

\* The channels that the stream does not have are left out behind each frame; with fewer
\* channels than the stream has, each frame begins on the last samples of the one before.
Skip(n) == IF n % stream.channels = 0 THEN chosen.channels - stream.channels ELSE 0

\* One sample after the other, in the order of the stream
PackSample ==
    /\ IsOpen /\ packed < Frames * stream.channels
    /\ buffer' = Append(buffer, out)
    /\ packed' = packed + 1
    /\ out' = out + 1 + Skip(packed')
    /\ UNCHANGED <<card, config, listed, stream, chosen>>

TearDown ==
    /\ chosen # None /\ chosen' = None /\ stream' = None
    /\ packed' = 0 /\ out' = 0 /\ buffer' = <<>>
    /\ UNCHANGED <<card, config, listed>>

-----------------------------------------------------------------------------
(***************************************************************************)
(* Where the bytes of a sample get to                                      *)
(***************************************************************************)
Z == -1     \* a byte of the output that is 0

\* output_buf[j] = input_buf[from[j + 1]], in a little or big endian word
ByBytes(from, order, bits) ==
    [k \in 1..bits \div 8 |->
        {8 * (IF order = "LE" THEN j - 1 ELSE Len(from) - j) :
            j \in {i \in 1..Len(from) : from[i] = k - 1}}]

\* sample = input_buf[k] << shifts[k + 1] ..., and then sample >> right
ByShifts(shifts, right) == [k \in 1..Len(shifts) |-> {shifts[k] - right}]

\* A wider word has zeros behind the sample: RAAT__stream_format_repack.
Repacked(from, to) ==
    ByBytes([i \in 1..(to - from) \div 8 |-> Z] \o [i \in 1..from \div 8 |-> i - 1], "LE", from)

\* RAAT__pack_dop_samples and RAAT__pack_dcs_samples make 24 bits of two bytes of a channel, with
\* a marker on top.  Here is where they are taken from, the lowest first.
Marker == -2
DopSample(c, ch) == IF c = 1 THEN <<0, 1, Marker>> ELSE <<c + ch, ch, Marker>>

Nowhere(bits) == [k \in 1..bits \div 8 |-> {}]

\* The sample as it has to be: its top bit is the top bit of the hardware's sample, which has
\* that many bits, and what does not fit is cut from below.
InPlace(bits, hwbits) ==
    [k \in 1..bits \div 8 |->
        LET at == hwbits - bits + 8 * (k - 1) IN IF at < 0 THEN {} ELSE {at}]

\* Of the bytes of DSD in a sample that is put at these places, the earlier one is on top, right
\* under the marker.  With one channel it is not: RAAT__pack_dop_samples swaps the two.
DopInOrder(places, hwbits, c) ==
    c > 1 => \A ch \in 0..c - 1 :
        LET At(byte) == UNION {places[k] : k \in {j \in 1..3 : DopSample(c, ch)[j] = byte}}
        IN At(Marker) = {hwbits - 8} /\ At(ch) = {hwbits - 16} /\ At(c + ch) = {hwbits - 24}

\* Every sample is in its channel of its frame, and no later one takes its place; if the hardware
\* has not got the channel, the sample is in the next frame until that one takes the place.
ChannelsKept ==
    \A i \in 1..Len(buffer) :
        LET frame == (i - 1) \div stream.channels
            channel == (i - 1) % stream.channels
        IN /\ buffer[i] = frame * chosen.channels + channel
           /\ \A j \in i + 1..Len(buffer) :
                 buffer[j] = buffer[i] =>
                     channel >= chosen.channels /\ j > (frame + 1) * stream.channels

=============================================================================
