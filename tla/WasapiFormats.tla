---------------------------- MODULE WasapiFormats ----------------------------
(***************************************************************************)
(* Formats of the WASAPI output (raat_plugin_output_wasapi.cpp).  A device *)
(* accepts a set of wave formats - a container, its rate and channels - if *)
(* it is asked by IsFormatSupported, and maybe others if it is initialized *)
(* with them.                                                              *)
(***************************************************************************)
EXTENDS AudioFormats

CONSTANTS WasapiDevices, WasapiConfigs

\* The wave formats: the extensible one has valid bits that may be fewer than the container's.
Waves ==
    [ext32 |-> [bits |-> 32, valid |-> 32],   plain32 |-> [bits |-> 32, valid |-> 32],
     ext24in32 |-> [bits |-> 32, valid |-> 24],
     ext24 |-> [bits |-> 24, valid |-> 24],   plain24 |-> [bits |-> 24, valid |-> 24],
     ext16 |-> [bits |-> 16, valid |-> 16],   plain16 |-> [bits |-> 16, valid |-> 16]]

\* The containers in the order in which they are tried; the plain ones with two channels at most
Tries(bits, c) ==
    SelectSeq(<<"ext32", "plain32">>
                  \o (IF bits < 32 THEN <<"ext24in32", "plain32", "ext24", "plain24">> ELSE <<>>)
                  \o (IF bits = 16 THEN <<"ext16", "plain16">> ELSE <<>>),
              LAMBDA w : w \in {"ext32", "ext24in32", "ext24", "ext16"} \/ c <= 2)

\* What is tried the hard way, by initializing the device, is tried after all of the rest.
Nasty == config.nasty /\ config.exclusive

Wave(w, r, c) == [hw |-> w, rate |-> r, channels |-> c]

\* probe_one_format: the wave format, or "none"
Probed(bits, r, c) ==
    LET asked == SelectSeq(Tries(bits, c), LAMBDA w : Wave(w, r, c) \in card.asked)
        tried == SelectSeq(Tries(bits, c), LAMBDA w : Wave(w, r, c) \in card.initialized)
    IN IF asked # <<>> THEN Head(asked)
       ELSE IF Nasty /\ tried # <<>> THEN Head(tried) ELSE "none"

\* probe_formats; there is no DSD in shared mode.
WasapiListed ==
    {s \in PcmStreams : Probed(s.bits, s.rate, s.channels) # "none"} \union
    {s \in DsdStreams : /\ config.exclusive /\ config.dsd # "none"
                        /\ Probed(24, s.rate \div 16, s.channels) # "none"}

\* output_setup: with the wave format that was found for the format
WasapiChoice(s) ==
    LET proc == Found(s, listed)
        pcm  == IF s.type = "dsd" THEN Encapsulated(s) ELSE proc
        w    == Probed(pcm.bits, pcm.rate, pcm.channels)
    IN IF proc = Refused THEN Refused
       ELSE [hw |-> w, bits |-> Waves[w].bits, rate |-> pcm.rate, channels |-> pcm.channels]

WasapiFormatsInit == FormatsInit(WasapiDevices, WasapiConfigs)

WasapiFormatsNext ==
    \/ Probe(WasapiListed)
    \/ listed # {} /\ \E s \in PcmStreams \union DsdStreams : SetUp(s, WasapiChoice(s))
    \/ PackSample \/ TearDown

-----------------------------------------------------------------------------
\* The device gets a wave format that it accepts, with as many bits as the stream has at least,
\* and as many as there may be for software volume; what is listed can be set up.
WasapiFits ==
    /\ IsOpen =>
        /\ Wave(chosen.hw, chosen.rate, chosen.channels) \in card.asked \union
               (IF Nasty THEN card.initialized ELSE {})
        /\ chosen.channels = stream.channels
        /\ chosen.rate * (IF stream.type = "dsd" THEN 16 ELSE 1) = stream.rate
        /\ Waves[chosen.hw].valid >= stream.bits
        /\ PrefersLarger(stream) =>
               \A b \in {24, 32} : [stream EXCEPT !.bits = b] \in listed =>
                   Waves[chosen.hw].bits >= b \/ Waves[chosen.hw].valid >= b
    /\ chosen = Refused => stream \notin Offered

\* Samples are put on top of the container, and DSD in its order (fill_buffer).
WasapiPacks ==
    IsOpen =>
        LET bits == IF stream.type = "dsd" THEN 24 ELSE stream.bits
            places == Repacked(bits, chosen.bits)
        IN /\ places = InPlace(bits, chosen.bits)
           /\ stream.type = "dsd" => DopInOrder(places, chosen.bits, stream.channels)
=============================================================================
