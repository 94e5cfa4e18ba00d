SPECIFICATION DevicesSpec
CONSTANTS
    Parts = {"software volume", "serial volume", "alsa volume", "coreaudio volume", "wasapi volume",
             "source", "alsa formats", "wasapi formats", "coreaudio formats", "asio formats", "playback"}
    Callers = {c1, c2}
    Levels = {1, 99}
    MaxSets = 2
    MaxTurns = 3
    Rounded <- MCRounded
    MaxFailures = 1
    MaxSources = 2
    MaxStandbys = 2
    MaxPolls = 2
    MaxPlays = 1
    PcmRates = {1, 4}
    DsdRates = {64}
    ChannelCounts = {1, 2}
    Frames = 2
    AlsaDevices <- MCAlsaDevices
    AlsaConfigs <- MCAlsaConfigs
    WasapiDevices <- MCWasapiDevices
    WasapiConfigs <- MCWasapiConfigs
    CoreDevices <- MCCoreDevices
    CoreConfigs <- MCCoreConfigs
    AsioDevices <- MCAsioDevices
    AsioConfigs <- MCAsioConfigs
    PcmPeriod = 9
    DsdPeriod = 72
    Ticks = 2
    Leads = {0, 23, 31, 200}
    StartSamples = {3}
    RemoteOffsets = {0, 4}
    Threshold = 2
    Window = 30
    MaxErrors = 2
    MaxBuffers = 5
INVARIANTS
    ListenersHear
    DeviceFollows
    SourcesAreFree
    FormatsFit
    SamplesPacked
    PlaysOnTime
    CorrectionIsExact
CHECK_DEADLOCK FALSE
