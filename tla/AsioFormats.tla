----------------------------- MODULE AsioFormats -----------------------------
(***************************************************************************)
(* Formats of the ASIO output (raat_plugin_output_asio.cpp).  A driver has *)
(* a sample type for each of its channels and a set of rates, and maybe it *)
(* changes between PCM and DSD if it is asked to.                          *)
(***************************************************************************)
EXTENDS AudioFormats

CONSTANTS AsioDevices, AsioConfigs

VARIABLES
    io,         \* asio_format_type
    switches    \* supports_io_format

asioFormatVars == <<formatVars, io, switches>>

Natively     == config.dsd \in {"native", "native or dop", "native or dcs"}
AsDopOrDcs   == config.dsd \in {"dop", "dcs", "native or dop", "native or dcs"}

\* The bits that are put into a sample type; the types that have 18 and 20 take 16.
TypeBits ==
    [Int16 |-> 16, Int32_16 |-> 16, Int32_18 |-> 18, Int32_20 |-> 20,
     Int24 |-> 24, Int32_24 |-> 24, Int32 |-> 32, Float32 |-> 32, Float64 |-> 32]
TypeMax(t) == CHOOSE b \in {16, 24, 32} : b <= TypeBits[t] /\ TypeBits[t] < b + 8
BitsMax == CHOOSE b \in {TypeMax(card.types[i].type) : i \in 1..Len(card.types)} :
               \A i \in 1..Len(card.types) : b <= TypeMax(card.types[i].type)

-----------------------------------------------------------------------------
(***************************************************************************)
(* IN_ASIO_THREAD_probe_formats                                            *)
(***************************************************************************)
\* The driver takes the rates of DSD with any number of channels.
NativeDsd(changes) ==
    {s \in DsdStreams : Natively /\ (changes \/ card.assumed) /\ s.rate \in card.rates}

AsioPcm(s) == /\ s.channels <= Len(card.types) /\ s.bits <= BitsMax /\ s.rate \in card.rates

AsioListed(changes) ==
    {s \in PcmStreams : AsioPcm(s)} \union NativeDsd(changes) \union
    {s \in DsdStreams : AsDopOrDcs /\ config.maxDsd >= s.rate /\ AsioPcm(Encapsulated(s))}

\* A driver that changes to DSD, and not back, does not tell the types of PCM: there are no
\* formats then, and what is left here is the driver that does.
AsioProbe ==
    \E changes \in BOOLEAN :
        /\ Probe(AsioListed(changes))
        /\ switches' = (Natively /\ (changes \/ card.assumed))
        /\ io' = "pcm"

-----------------------------------------------------------------------------
(***************************************************************************)
(* output_setup, and IN_ASIO_THREAD_output_setup                           *)
(***************************************************************************)
\* The driver is asked for DSD or for PCM if it is not there yet; if it refuses, it is PCM.
IoFormat(proc, changes) ==
    LET needed == IF proc.type = "dsd" /\ Natively THEN "dsd" ELSE "pcm"
    IN IF needed = io \/ ~switches THEN io
       ELSE IF changes \/ card.assumed THEN needed ELSE "pcm"

AsioChoice(s, format) ==
    LET proc == Found(s, Offered)
        wire == IF proc.type = "dsd" /\ format = "pcm" THEN Encapsulated(s) ELSE proc
    IN IF s.type = "dsd" /\ format = "pcm" /\ ~AsDopOrDcs THEN Refused
       ELSE IF wire.rate \notin card.rates THEN Refused
       ELSE [hw |-> format, bits |-> wire.bits, rate |-> wire.rate, channels |-> wire.channels]

AsioSetUp ==
    \E s \in PcmStreams \union DsdStreams, changes \in BOOLEAN :
        LET proc == Found(s, Offered) IN
        /\ listed # {}
        /\ SetUp(s, IF proc = Refused THEN Refused ELSE AsioChoice(s, IoFormat(proc, changes)))
        /\ io' = IF proc = Refused THEN io ELSE IoFormat(proc, changes)
        /\ UNCHANGED switches

-----------------------------------------------------------------------------
(***************************************************************************)
(* fill_hw_buffer                                                          *)
(***************************************************************************)
AsioBytes ==
    [Int16 |-> 16 :> <<0, 1>>,
     Int24 |-> 16 :> <<Z, 0, 1>> @@ 24 :> <<0, 1, 2>>,
     Int32 |-> 16 :> <<Z, Z, 0, 1>> @@ 24 :> <<Z, 0, 1, 2>> @@ 32 :> <<0, 1, 2, 3>>]

Reversed(t) == [b \in DOMAIN AsioBytes[t] |-> Reverse(AsioBytes[t][b])]

\* The top byte of 24 bits is put where the lowest one is.
AsioShift == 16 :> <<16, 24>> @@ 24 :> <<8, 16, 8>>
FloatShift == 16 :> <<16, 24>> @@ 24 :> <<8, 16, 24>> @@ 32 :> <<0, 8, 16, 24>>

\* Mutant: the shift of the type with 18 bits is that of the one with 20.
FewerShifts(t) == IF t = "Int32_18" THEN 12 ELSE 32 - TypeBits[t]
RightShift(t) == 32 - TypeBits[t]

\* flip_endian of a double repeats two of its bytes.
AsioPlaces(t, order, bits) ==
    IF t \in DOMAIN AsioBytes
    THEN ByBytes(IF order = "LE" THEN AsioBytes[t][bits] ELSE Reversed(t)[bits], order, bits)
    ELSE IF t \in {"Int32_16", "Int32_18", "Int32_20", "Int32_24"}
    THEN ByShifts(AsioShift[bits], RightShift(t))
    ELSE IF t = "Float64" /\ order = "BE" THEN Nowhere(bits) ELSE ByShifts(FloatShift[bits], 0)

\* Of a byte of DSD, the bit that is played as the k-th
DsdBit(t, k) ==
    LET reverse == [j \in 0..7 |-> 7 - j]   \* the bit that gets to j
    IN CASE t = "LSB1" -> reverse[k]        \* the first sample is in the least significant bit
         [] t = "MSB1" -> 7 - k             \* in the most significant one
         [] t = "NER8" -> 7 - k             \* in the first byte

AsioFormatsInit == FormatsInit(AsioDevices, AsioConfigs) /\ io = "pcm" /\ switches = FALSE

AsioFormatsNext ==
    \/ AsioProbe \/ AsioSetUp
    \/ (PackSample \/ TearDown) /\ UNCHANGED <<io, switches>>

-----------------------------------------------------------------------------
\* The driver is set to a rate that it takes, and to DSD for nothing but DSD; PCM has no more
\* bits and channels than the driver's types.  That is not so for a stream of DSD that was listed
\* as a native one, if then the driver does not change to DSD.
AsioFits ==
    IsOpen =>
        /\ chosen.rate \in card.rates
        /\ chosen.hw = "dsd" => stream.type = "dsd" /\ chosen.rate = stream.rate
        /\ chosen.hw = "pcm" =>
            /\ chosen.rate * (IF stream.type = "dsd" THEN 16 ELSE 1) = stream.rate
            /\ chosen.bits >= stream.bits
            /\ \/ chosen.bits <= BitsMax /\ chosen.channels <= Len(card.types)
               \/ stream.type = "dsd" /\ Natively

\* Every byte gets to its place in every channel, except for two cases that do not; and the bits
\* of DSD are played in their order.
AsioMispacked == {<<"Int32_24", 24>>} \union {"Float64"} \X {16, 24, 32}

AsioPacks ==
    IsOpen =>
        IF chosen.hw = "dsd"
        THEN \A k \in 0..7 : DsdBit(card.dsd, k) = 7 - k
        ELSE \A ch \in 1..stream.channels :
                 ch <= Len(card.types) /\ chosen.bits <= BitsMax =>
                     LET t == card.types[ch].type
                         order == card.types[ch].order
                         places == AsioPlaces(t, order, chosen.bits)
                     IN IF <<t, chosen.bits>> \in AsioMispacked /\ (t = "Float64" => order = "BE")
                        THEN places # InPlace(chosen.bits, TypeBits[t])
                        ELSE /\ places = InPlace(chosen.bits, TypeBits[t])
                             /\ stream.type = "dsd" =>
                                    DopInOrder(places, TypeBits[t], stream.channels)
=============================================================================
