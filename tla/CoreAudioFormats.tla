--------------------------- MODULE CoreAudioFormats ---------------------------
(***************************************************************************)
(* Formats of the CoreAudio output (raat_plugin_output_coreaudio.c).  A    *)
(* device has some channels and a list of formats of its first stream, of  *)
(* which each has a range of rates.                                        *)
(***************************************************************************)
EXTENDS AudioFormats

CONSTANTS CoreDevices, CoreConfigs

\* "treating a 1-ch stream as a 2-ch stream": mChannelsPerFrame
PerFrame == IF card.channels = 1 THEN 2 ELSE card.channels

\* Mutant: the range of the format's rates is left out.
UsableAtAnyRate(f, bits, r, c) == ~(f.float /\ bits = 32) /\ c <= PerFrame

\* The format is one for this rate and these channels; floats do not have 32 bits.
Usable(f, bits, r, c) == ~(f.float /\ bits = 32) /\ r \in f.low..f.high /\ c <= PerFrame

\* supports_pcm_format
Supports(bits, r, c) ==
    \E i \in 1..Len(card.formats) :
        Usable(card.formats[i], bits, r, c) /\ bits <= card.formats[i].bits

\* output_get_supported_formats asks for them each time; here they are probed at once.
CoreListed ==
    {s \in PcmStreams : Supports(s.bits, s.rate, s.channels)} \union
    {s \in DsdStreams : config.dsd # "none" /\ Supports(24, s.rate \div 16, s.channels)}

\* create_au: the first format with as many bits, or else the first one with more
CoreFormat(pcm) ==
    LET usable == SelectSeq(card.formats, LAMBDA f : Usable(f, pcm.bits, pcm.rate, pcm.channels))
        exact  == SelectSeq(usable, LAMBDA f : f.bits = pcm.bits)
        larger == SelectSeq(usable, LAMBDA f : f.bits >= pcm.bits)
    IN IF exact # <<>> THEN Head(exact) ELSE Head(larger)

\* set_sample_rate, in exclusive mode, fails if the device does not change to the rate.
CoreChoice(s, changes) ==
    LET proc == Found(s, Offered)
        pcm  == IF s.type = "dsd" THEN Encapsulated(s) ELSE proc
        bits == CoreFormat(pcm).bits
    IN IF proc = Refused \/ (config.exclusive /\ ~changes) THEN Refused
       ELSE IF bits \notin {16, 24, 32} THEN Refused
       ELSE [hw |-> "linear pcm", bits |-> bits, rate |-> pcm.rate, channels |-> card.channels]

\* pack_hw_samples: of so many bits into what the hardware has
CorePlaces(bits) == Repacked(bits, chosen.bits)

CoreFormatsInit == FormatsInit(CoreDevices, CoreConfigs)

CoreFormatsNext ==
    \/ Probe(CoreListed)
    \/ /\ listed # {}
       /\ \E s \in PcmStreams \union DsdStreams, changes \in BOOLEAN : SetUp(s, CoreChoice(s, changes))
    \/ PackSample \/ TearDown

-----------------------------------------------------------------------------
\* The format that the hardware is set to is one of the device, for this rate, and wide enough
\* for what is put into it, software volume included.
CoreFits ==
    IsOpen =>
        LET proc == IF stream.type = "dsd" THEN Encapsulated(stream) ELSE Found(stream, Offered) IN
        /\ chosen.rate = proc.rate
        /\ chosen.bits >= proc.bits /\ proc.bits >= stream.bits
        /\ \E i \in 1..Len(card.formats) :
               LET f == card.formats[i]
               IN f.bits = chosen.bits /\ chosen.rate \in f.low..f.high
        /\ PrefersLarger(stream) /\ proc.bits < 32 => [stream EXCEPT !.bits = 32] \notin Offered

\* Samples are put on top of the hardware's, and DSD in its order.
CorePacks ==
    IsOpen =>
        LET proc == IF stream.type = "dsd" THEN Encapsulated(stream) ELSE Found(stream, Offered) IN
        /\ CorePlaces(proc.bits) = InPlace(proc.bits, chosen.bits)
        /\ stream.type = "dsd" => DopInOrder(CorePlaces(24), chosen.bits, stream.channels)

\* Every sample is in its channel, but for a device with one channel, which takes streams with
\* two.
CoreChannelsKept == card.channels > 1 => ChannelsKept
=============================================================================
