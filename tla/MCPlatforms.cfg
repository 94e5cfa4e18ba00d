CONSTANTS
    Sessions = {s1, s2}
    Others = {o1}
    ResyncBufs = 1
    MaxSetups = 2
    MaxForces = 1
    Platforms = {"alsa", "wasapi", "coreaudio", "asio", "capture"}
SPECIFICATION PlatformsSpec
SYMMETRY PlatformSymmetry
INVARIANTS
    NoSilentLoss
    DeviceIsTheOwners
    PlaysOwnStream
    AnswersAreFinal
CHECK_DEADLOCK FALSE
