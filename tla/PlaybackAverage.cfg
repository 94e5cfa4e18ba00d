SPECIFICATION PlaybackSpec
CONSTANTS
    PcmPeriod = 9
    DsdPeriod = 72
    Ticks = 2
    Leads = {0}
    StartSamples = {3}
    RemoteOffsets = {0, 4}
    Threshold = 2
    Window = 30
    MaxErrors = 2
    MaxBuffers = 5
INVARIANTS
    AverageIsOfTheErrors
CHECK_DEADLOCK FALSE
