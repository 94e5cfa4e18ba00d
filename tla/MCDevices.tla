------------------------------- MODULE MCDevices -------------------------------
(***************************************************************************)
(* What is behind the outputs, on small instances: the volumes, the        *)
(* switching of sources, the formats and the samples of each platform, and *)
(* the playback clock.  They do not meet; an execution is one of the part  *)
(* that was chosen at first, and the other parts rest as they began.       *)
(***************************************************************************)
EXTENDS AlsaVolume, CoreAudioVolume, WasapiVolume, SourceSelection,
        AlsaFormats, WasapiFormats, CoreAudioFormats, AsioFormats, Playback

CONSTANT Parts

VARIABLE which

allVolumeVars == <<volumeVars, path, serialVars, mixerVars, coreVars, endpointVars>>
devicesVars   == <<which, allVolumeVars, selectionVars, asioFormatVars, playbackVars>>

-----------------------------------------------------------------------------
\* A device rounds a volume down to a multiple of 3 (99 is -1 dB, see CoreAudioVolume).
MCRounded(v) == v - (v % 3)

\* ALSA: hardware that takes each combination of some formats, rates and channels, and hardware
\* that does not take all of them, with channels that depend on the format or on the rate
Grid(formats, rates, counts) ==
    {[hw |-> f, rate |-> r, channels |-> c] : f \in formats, r \in rates, c \in counts}
Uneven ==
    {[hw |-> "S16_LE", rate |-> 1, channels |-> 2], [hw |-> "S24_LE", rate |-> 4, channels |-> 2],
     [hw |-> "S16_LE", rate |-> 4, channels |-> 1], [hw |-> "S24_3LE", rate |-> 4, channels |-> 1],
     [hw |-> "DSD_U32_BE", rate |-> 2, channels |-> 1], [hw |-> "DSD_U16_LE", rate |-> 4, channels |-> 3]}
HwFormats == DOMAIN AlsaBytes \union DOMAIN AlsaShifts \union DOMAIN DsdBytes
MCAlsaDevices ==
    {Grid(f, r, c) :
        f \in {{h} : h \in HwFormats}
                  \union {{"S16_LE", "S24_3LE"}, {"S32_BE", "DSD_U32_LE", "DSD_U16_BE"}},
        r \in {{1, 2}, {1, 2, 4}}, c \in {{1, 2}, {3}}}
        \union (SUBSET Uneven \ {{}})
MCAlsaConfigs == [dsd : Modes, volume : BOOLEAN, maxPcm : {1, 4}, maxDsd : {64}]

\* WASAPI: what it takes if it is asked, and what it takes if it is tried
MCWasapiDevices ==
    [asked : SUBSET {Wave("ext32", 1, 1), Wave("ext24in32", 4, 2), Wave("plain24", 4, 2),
                     Wave("ext24", 1, 2), Wave("plain16", 1, 1), Wave("ext16", 4, 2)},
     initialized : SUBSET {Wave("ext24in32", 4, 2), Wave("plain32", 1, 2)}]
MCWasapiConfigs == [dsd : {"none", "dop", "dcs"}, volume : BOOLEAN, exclusive : BOOLEAN, nasty : BOOLEAN]

\* CoreAudio: formats with a range of rates
Physical(b, f, l, h) == [bits |-> b, float |-> f, low |-> l, high |-> h]
MCCoreDevices ==
    [channels : 1..3,
     formats : {<<Physical(16, FALSE, 1, 4)>>,
                <<Physical(24, FALSE, 1, 2), Physical(32, TRUE, 1, 4)>>,
                <<Physical(32, FALSE, 1, 1), Physical(24, FALSE, 1, 4)>>,
                <<Physical(32, TRUE, 1, 4), Physical(16, FALSE, 1, 1)>>,
                <<Physical(32, FALSE, 1, 4), Physical(16, FALSE, 1, 4), Physical(24, FALSE, 2, 2)>>}]
MCCoreConfigs == [dsd : {"none", "dop", "dcs"}, volume : BOOLEAN, exclusive : BOOLEAN]

\* ASIO: a type for each channel
Type(t, o) == [type |-> t, order |-> o]
MCAsioDevices ==
    [types : {<<Type("Int16", "LE"), Type("Float32", "BE")>>,
              <<Type("Int32_18", "LE"), Type("Int32_20", "BE")>>,
              <<Type("Int24", "BE"), Type("Int32_24", "LE")>>,
              <<Type("Int32", "LE")>>,
              <<Type("Float64", "LE"), Type("Float64", "BE")>>,
              <<Type("Int32", "BE"), Type("Float32", "LE"), Type("Int24", "LE")>>,
              <<Type("Int16", "BE"), Type("Int32_16", "LE")>>},
     dsd : {"LSB1", "MSB1", "NER8"}, rates : {{1, 4}, {1, 64}, {1, 4, 64}}, assumed : BOOLEAN]
MCAsioConfigs ==
    [dsd : {"none", "native", "dop", "dcs", "native or dop", "native or dcs"},
     volume : BOOLEAN, maxDsd : {64}]

-----------------------------------------------------------------------------
DevicesInit ==
    /\ which \in Parts
    /\ VolumeInit /\ SoftInit /\ SerialInit /\ AlsaVolumeInit /\ WasapiVolumeInit
    /\ CoreVolumeInit /\ (which # "coreaudio volume" => scale = "number")
    /\ SelectionInit /\ (which # "source" => mpd = "absent")
    /\ PlaybackInit /\ (which # "playback" => type = "pcm")
    /\ io = "pcm" /\ switches = FALSE
    /\ CASE which = "alsa formats"      -> AlsaFormatsInit
         [] which = "wasapi formats"    -> WasapiFormatsInit
         [] which = "coreaudio formats" -> CoreFormatsInit
         [] which = "asio formats"      -> AsioFormatsInit
         [] OTHER                       -> FormatsInit({{}}, {{}})

VolumesNext ==
    \/ /\ which = "software volume" /\ SoftNext
       /\ UNCHANGED <<serialVars, mixerVars, coreVars, endpointVars>>
    \/ /\ which = "serial volume" /\ SerialNext
       /\ UNCHANGED <<path, mixerVars, coreVars, endpointVars>>
    \/ /\ which = "alsa volume" /\ AlsaVolumeNext
       /\ UNCHANGED <<path, serialVars, coreVars, endpointVars>>
    \/ /\ which = "coreaudio volume" /\ CoreVolumeNext
       /\ UNCHANGED <<path, serialVars, mixerVars, endpointVars>>
    \/ /\ which = "wasapi volume" /\ WasapiVolumeNext
       /\ UNCHANGED <<path, serialVars, mixerVars, coreVars>>

AllFormatsNext ==
    \/ which = "alsa formats" /\ AlsaFormatsNext /\ UNCHANGED <<io, switches>>
    \/ which = "wasapi formats" /\ WasapiFormatsNext /\ UNCHANGED <<io, switches>>
    \/ which = "coreaudio formats" /\ CoreFormatsNext /\ UNCHANGED <<io, switches>>
    \/ which = "asio formats" /\ AsioFormatsNext

DevicesNext ==
    /\ UNCHANGED which
    /\ \/ VolumesNext /\ UNCHANGED <<selectionVars, asioFormatVars, playbackVars>>
       \/ /\ which = "source" /\ SelectionNext
          /\ UNCHANGED <<allVolumeVars, asioFormatVars, playbackVars>>
       \/ AllFormatsNext /\ UNCHANGED <<allVolumeVars, selectionVars, playbackVars>>
       \/ /\ which = "playback" /\ PlaybackNext
          /\ UNCHANGED <<allVolumeVars, selectionVars, asioFormatVars>>

DevicesSpec == DevicesInit /\ [][DevicesNext]_devicesVars

-----------------------------------------------------------------------------
(***************************************************************************)
(* Properties: what each part states for itself                            *)
(***************************************************************************)

\* The listeners are not left behind: once the threads that tell them are through, what they
\* heard last is the volume, the mute and the source's status, unless two threads told them
\* at the same time.
ListenersHear ==
    /\ CASE which = "alsa volume"   -> TRUE
         [] which = "wasapi volume" -> WasapiToldIsCurrent
         [] OTHER                   -> ToldIsCurrent
    /\ SelectionIsTold

\* The device has the volume that the plugin says it has, once nothing is on its way between
\* them, whichever of the two changed it; CoreAudio's after a restart, too.
DeviceFollows ==
    CASE which = "serial volume"    -> SerialFollows
      [] which = "alsa volume"      -> AlsaFollows
      [] which = "coreaudio volume" -> CoreFollows
      [] which = "wasapi volume"    -> WasapiFollows
      [] OTHER                      -> TRUE

\* The hardware is set up with what it takes, at the rate of the stream, and with room for its
\* bits and for what software volume makes of them.
FormatsFit ==
    CASE which = "alsa formats"      -> AlsaFits
      [] which = "wasapi formats"    -> WasapiFits
      [] which = "coreaudio formats" -> CoreFits
      [] which = "asio formats"      -> AsioFits
      [] OTHER                       -> TRUE

\* Each byte of each sample gets to the place in the hardware's word and in its buffer where the
\* hardware looks for it, but for the formats that are listed as not packed right.
SamplesPacked ==
    CASE which = "alsa formats"      -> AlsaPacks /\ ChannelsKept
      [] which = "wasapi formats"    -> WasapiPacks /\ ChannelsKept
      [] which = "coreaudio formats" -> CorePacks /\ CoreChannelsKept
      [] which = "asio formats"      -> AsioPacks
      [] OTHER                       -> TRUE

=============================================================================
