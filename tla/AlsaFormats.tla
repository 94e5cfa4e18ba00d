----------------------------- MODULE AlsaFormats -----------------------------
(***************************************************************************)
(* Formats and samples of the ALSA output (raat_plugin_output_alsa.c).     *)
(* The hardware is a set of combinations of format, rate and channels; the *)
(* parameters of a pcm are those that are left, and each call that sets    *)
(* one of them narrows them, or fails and leaves them as they are.         *)
(***************************************************************************)
EXTENDS AudioFormats

CONSTANTS AlsaDevices, AlsaConfigs

Modes == {"none", "native", "dop", "native or dop", "dop or native"}
SupportsNative == config.dsd \in {"native", "native or dop", "dop or native"}
Encapsulates   == config.dsd \in {"dop", "native or dop", "dop or native"}

WithFormat(p, f)   == {t \in p : t.hw = f}
WithRate(p, r)     == {t \in p : t.rate = r}
WithChannels(p, c) == {t \in p : t.channels = c}
ChMax(p) == CHOOSE c \in {t.channels : t \in p} : \A t \in p : t.channels <= c

-----------------------------------------------------------------------------
(***************************************************************************)
(* probe_formats tests the formats for a number of bits, and the rate, each *)
(* on its own                                                              *)
(***************************************************************************)
ByBits ==
    LET large == {"S32_LE", "S32_BE", "FLOAT64_LE", "FLOAT64_BE"}
        mid   == {"S24_LE", "S24_BE", "S24_3LE", "S24_3BE", "FLOAT_LE", "FLOAT_BE"}
    IN 32 :> large @@ 24 :> large \union mid @@ 16 :> large \union mid \union {"S16_LE", "S16_BE"}

Takes(f)  == WithFormat(card, f) # {}
AtRate(r) == WithRate(card, r) # {}
Fits(c)   == c <= ChMax(card)

PcmListed(s) ==
    /\ \E f \in ByBits[s.bits] : Takes(f)
    /\ AtRate(s.rate) /\ Fits(s.channels) /\ s.rate <= config.maxPcm

\* For native DSD the rate is tested with the first format that the hardware takes.
NativeListed(s, formats, per) ==
    LET taken == SelectSeq(formats, Takes) IN
    taken # <<>> /\ WithRate(WithFormat(card, Head(taken)), s.rate \div per) # {}

DsdListed(s) ==
    /\ Fits(s.channels)
    /\ \/ /\ SupportsNative
          /\ \/ NativeListed(s, <<"DSD_U32_LE", "DSD_U32_BE">>, 32)
             \/ NativeListed(s, <<"DSD_U16_LE", "DSD_U16_BE">>, 16)
             \/ NativeListed(s, <<"DSD_U8">>, 8)
       \/ /\ Encapsulates /\ s.rate <= config.maxDsd
          /\ \E f \in ByBits[24] : Takes(f)
          /\ AtRate(s.rate \div 16)

AlsaListed == {s \in PcmStreams : PcmListed(s)} \union {s \in DsdStreams : DsdListed(s)}

-----------------------------------------------------------------------------
(***************************************************************************)
(* output_setup                                                            *)
(***************************************************************************)
Narrow(p, q) == IF q = {} THEN p ELSE q

\* The channels of the stream, or as many as there are
SetChannels(p, c) == IF WithChannels(p, c) # {} THEN WithChannels(p, c) ELSE WithChannels(p, ChMax(p))

Native ==
    <<[hw |-> "DSD_U32_LE", per |-> 32], [hw |-> "DSD_U32_BE", per |-> 32],
      [hw |-> "DSD_U16_LE", per |-> 16], [hw |-> "DSD_U16_BE", per |-> 16],
      [hw |-> "DSD_U8", per |-> 8]>>

\* Each of the formats for native DSD in turn; a format whose rate does not fit stays set.
NativeChoice(p, s) ==
    FoldLeft(LAMBDA acc, n :
                 LET f == WithFormat(acc.left, n.hw)
                     r == WithRate(f, s.rate \div n.per)
                 IN IF r = {} THEN [acc EXCEPT !.left = Narrow(acc.left, f)]
                    ELSE [left |-> r, got |-> n.hw],
             [left |-> SetChannels(p, s.channels), got |-> "none"], Native)

\* prevent_native
PrefersPcm(s) == config.dsd = "dop or native" /\ Encapsulated(s) \in Offered

\* The formats in the order in which they are tried
Order(bits, larger) ==
    LET s16 == <<"S16_LE", "S16_BE">>     s32 == <<"S32_LE", "S32_BE">>
        s24 == <<"S24_LE", "S24_BE">>     s24p == <<"S24_3LE", "S24_3BE">>
        f32 == <<"FLOAT_LE", "FLOAT_BE">> f64 == <<"FLOAT64_LE", "FLOAT64_BE">>
        f   == <<"FLOAT_LE", "FLOAT64_LE", "FLOAT_BE", "FLOAT64_BE">>
    IN CASE bits = 16 -> IF larger THEN s32 \o s24 \o s24p \o f \o s16
                         ELSE s16 \o s32 \o s24 \o s24p \o f
         [] bits = 24 -> IF larger THEN s32 \o f32 \o f64 \o s24 \o s24p
                         ELSE s32 \o s24p \o s24 \o f32 \o f64
         [] bits = 32 -> s32 \o f64

\* bits_per_sample after software volume
Widened(hw) ==
    IF hw \in {"S24_LE", "S24_BE", "S24_3LE", "S24_3BE"} THEN 24
    ELSE IF hw \in {"S16_LE", "S16_BE"} THEN 16 ELSE 32

\* The format is the first one that the parameters allow; then format, rate and channels are set.
PcmChoice(p, s, larger) ==
    LET order == SelectSeq(Order(s.bits, larger),
                           LAMBDA f : WithFormat(p, f) # {})
        hw == Head(order)
        q  == WithRate(WithFormat(p, hw), s.rate)
        c  == SetChannels(q, s.channels)
    IN IF order = <<>> \/ q = {} THEN Refused
       ELSE [hw |-> hw, bits |-> IF larger THEN Widened(hw) ELSE s.bits,
             rate |-> s.rate, channels |-> ChMax(c)]

AlsaChoice(s) ==
    LET native == NativeChoice(card, s)
        tried  == s.type = "dsd" /\ SupportsNative /\ ~PrefersPcm(s)
        left   == IF tried THEN native.left ELSE card
    IN IF s \notin Offered THEN Refused
       ELSE IF tried /\ native.got # "none"
       THEN [hw |-> native.got, bits |-> 1, channels |-> ChMax(native.left),
             rate |-> (CHOOSE t \in native.left : TRUE).rate]
       ELSE IF s.type = "pcm" THEN PcmChoice(left, s, config.volume)
       ELSE IF Encapsulates THEN PcmChoice(left, Encapsulated(s), FALSE) ELSE Refused

-----------------------------------------------------------------------------
(***************************************************************************)
(* pack_hw_samples                                                         *)
(***************************************************************************)
AlsaBytes ==
    [S16_LE  |-> 16 :> <<0, 1>> @@ 24 :> <<1, 2>> @@ 32 :> <<2, 3>>,
     S16_BE  |-> 16 :> <<1, 0>> @@ 24 :> <<2, 1>> @@ 32 :> <<3, 2>>,
     S24_LE  |-> 16 :> <<Z, 0, 1, Z>> @@ 24 :> <<0, 1, 2, Z>>,
     S24_BE  |-> 16 :> <<Z, 1, 0, Z>> @@ 24 :> <<Z, 2, 1, 0>>,
     S24_3LE |-> 16 :> <<Z, 0, 1>> @@ 24 :> <<0, 1, 2>>,
     S24_3BE |-> 16 :> <<1, 0, Z>> @@ 24 :> <<2, 1, 0>>,
     S32_LE  |-> 16 :> <<Z, Z, 0, 1>> @@ 24 :> <<Z, 0, 1, 2>> @@ 32 :> <<0, 1, 2, 3>>,
     \* 24 has no break, and goes on with 32
     S32_BE  |-> 16 :> <<1, 0, Z, Z>> @@ 24 :> <<3, 2, 1, 0>> @@ 32 :> <<3, 2, 1, 0>>]

\* With 32 bits there is no case, and each sample is -1; flip_double repeats two of the bytes.
AlsaShifts ==
    [FLOAT_LE   |-> 16 :> <<16, 24>> @@ 24 :> <<8, 16, 24>>,
     FLOAT_BE   |-> 16 :> <<16, 24>> @@ 24 :> <<8, 16, 8>>,
     FLOAT64_LE |-> 16 :> <<16, 24>> @@ 24 :> <<8, 16, 8>>,
     FLOAT64_BE |-> [bits \in {} |-> <<>>]]

LittleEndian == {"S16_LE", "S24_LE", "S24_3LE", "S32_LE"}

AlsaPlaces(hw, bits) ==
    IF hw \in DOMAIN AlsaBytes /\ bits \in DOMAIN AlsaBytes[hw]
    THEN ByBytes(AlsaBytes[hw][bits], IF hw \in LittleEndian THEN "LE" ELSE "BE", bits)
    ELSE IF hw \in DOMAIN AlsaShifts /\ bits \in DOMAIN AlsaShifts[hw]
    THEN ByShifts(AlsaShifts[hw][bits], 0)
    ELSE Nowhere(bits)

\* Native DSD: each word has its bytes from as many frames of the stream, the first one on top.
DsdBytes ==
    [DSD_U8 |-> <<0>>, DSD_U16_LE |-> <<1, 0>>, DSD_U16_BE |-> <<0, 1>>,
     DSD_U32_LE |-> <<3, 2, 1, 0>>, DSD_U32_BE |-> <<0, 1, 2, 3>>]

DsdPlaces(hw) ==
    ByBytes(DsdBytes[hw], IF hw \in {"DSD_U16_LE", "DSD_U32_LE"} THEN "LE" ELSE "BE",
            8 * Len(DsdBytes[hw]))

HwBits(hw) ==
    IF hw \in {"S16_LE", "S16_BE"} THEN 16
    ELSE IF hw \in {"S24_LE", "S24_BE", "S24_3LE", "S24_3BE"} THEN 24 ELSE 32

\* What is not packed right: the note above pack_hw_samples says that the less common cases
\* "might have bugs".
AlsaMispacked ==
    {<<"S32_BE", 24>>, <<"FLOAT_BE", 24>>, <<"FLOAT64_LE", 24>>} \union
    {"FLOAT_LE", "FLOAT_BE", "FLOAT64_LE"} \X {32} \union {"FLOAT64_BE"} \X {16, 24, 32}

-----------------------------------------------------------------------------
AlsaFormatsInit == FormatsInit(AlsaDevices, AlsaConfigs)

AlsaFormatsNext ==
    \/ Probe(AlsaListed)
    \/ listed # {} /\ \E s \in PcmStreams \union DsdStreams : SetUp(s, AlsaChoice(s))
    \/ PackSample \/ TearDown

\* The channels of the hardware do not depend on the format or on the rate.
ChannelsApart == \A t, u \in card : [t EXCEPT !.channels = u.channels] \in card

\* The hardware is set up for what it can do: with the rate of the stream, as many bits at
\* least, and as many channels.  But the probe asks for channels, format and rate one by one:
\* where the channels depend on the others, the stream may get fewer than it has, which are then
\* all that there are with this format at this rate.
AlsaFits ==
    IsOpen =>
        LET per == IF stream.type = "pcm" THEN 1
                   ELSE IF chosen.hw \in DOMAIN DsdBytes THEN 8 * Len(DsdBytes[chosen.hw]) ELSE 16
        IN /\ [hw |-> chosen.hw, rate |-> chosen.rate, channels |-> chosen.channels] \in card
           /\ chosen.rate = stream.rate \div per
           /\ \/ chosen.channels >= stream.channels
              \/ /\ ~ChannelsApart
                 /\ chosen.channels = ChMax(WithRate(WithFormat(card, chosen.hw), chosen.rate))
           /\ chosen.hw \notin DOMAIN DsdBytes => HwBits(chosen.hw) >= stream.bits

\* Every byte of a sample gets to its place in the word of the hardware, except in the cases
\* that are known not to.
AlsaPacks ==
    IsOpen =>
        IF chosen.hw \in DOMAIN DsdBytes
        THEN DsdPlaces(chosen.hw) = [k \in 1..Len(DsdBytes[chosen.hw]) |->
                                        {8 * (Len(DsdBytes[chosen.hw]) - k)}]
        ELSE AlsaPlaces(chosen.hw, chosen.bits) = InPlace(chosen.bits, HwBits(chosen.hw))
                 <=> <<chosen.hw, chosen.bits>> \notin AlsaMispacked

=============================================================================
