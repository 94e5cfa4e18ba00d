--------------------------- MODULE CoreAudioVolume ---------------------------
(***************************************************************************)
(* The volume of a CoreAudio device in exclusive mode                      *)
(* (raat_plugin_volume_coreaudio.c).  The device rounds what it is given;  *)
(* so that a volume does not creep, the plugin keeps what it has set and   *)
(* what the device made of it, in memory and in a file.                    *)
(***************************************************************************)
EXTENDS VolumePlugin

CONSTANTS
    Rounded(_),     \* what the device makes of a volume
    MaxFailures     \* bound on the steps in which something fails

ASSUME RoundedAssumption == \A l \in Volumes : Rounded(l) \in Volumes

VARIABLES
    actual,     \* actual_volume
    cache,      \* the file: volume, actual_volume and mute
    news,       \* on_prop_change is about to be called
    apart,      \* history: a volume that the device did not take, or was not asked for, or
                \* that did not get to the file
    blind,      \* history: the device's mute was not set, or not read, when it should have been
    scale,      \* volume_mode: from 0 to 100 ("number"), or in decibels ("dB")
    restarts,
    failures    \* the steps so far in which something failed

coreVars == <<actual, cache, news, apart, blind, scale, restarts, failures>>

CoreVolumeInit ==
    /\ actual = 100 /\ cache = [level |-> 100, actual |-> 100, muted |-> FALSE]
    /\ news = FALSE /\ apart = FALSE /\ blind = FALSE /\ restarts = 0
    /\ scale \in {"number", "dB"} /\ failures = 0

Failing(fails) ==
    /\ fails # {} => failures < MaxFailures
    /\ failures' = IF fails # {} THEN failures + 1 ELSE failures

\* Mutant: what the device made of the volume is not read back.
ActualUnread(l) == actual

ActualOf(l) == Rounded(l)

\* LOCKED_update_coreaudio: mute first, and with it set neither the volume nor the file.  Each
\* call to the device, and the file, may fail, which is logged; the listeners are told all the
\* same.
CoreSet(t, l, m, fails) ==
    /\ Called(t, news) /\ Failing(fails)
    /\ IF [level |-> l, muted |-> m] = State
       THEN Keep /\ UNCHANGED <<device, actual, cache, news, apart, blind>>
       ELSE /\ device' = [level |-> IF m \/ "setVolume" \in fails THEN device.level ELSE Rounded(l),
                          muted |-> IF "setMute" \in fails THEN device.muted ELSE m]
            /\ Change(t, l, IF "getMute" \in fails THEN m ELSE device'.muted)
            /\ actual' = IF m \/ fails \intersect {"setVolume", "getVolume"} # {} THEN actual
                         ELSE ActualOf(l)
            /\ cache' = IF m \/ "save" \in fails THEN cache
                        ELSE [level |-> l, actual |-> actual', muted |-> muted']
            /\ news' = (news \/ device' # device)
            /\ apart' = (m \/ fails \intersect {"setVolume", "getVolume", "save"} # {})
            /\ blind' = ({"setMute", "getMute"} \subseteq fails)
    /\ UNCHANGED <<told, turns, scale, restarts>>

\* load_coreaudio_state, which starts from what it was: a volume that is the one the plugin
\* made is not news.
Loaded(was, fails) ==
    LET other == "getVolume" \notin fails /\ device.level # was.actual IN
    [level  |-> IF other THEN device.level ELSE was.level,
     actual |-> IF other THEN device.level ELSE was.actual,
     muted  |-> IF "getMute" \in fails THEN was.muted ELSE device.muted]

Memory == [level |-> level, actual |-> actual, muted |-> muted]

Saved(now, was, fails) == IF now = was \/ "save" \in fails THEN cache ELSE now

CoreNews(fails) ==
    /\ news /\ say["device"] = Nothing
    /\ news' = FALSE /\ Failing(fails)
    /\ LET now == Loaded(Memory, fails) IN
       /\ actual' = now.actual
       /\ cache' = Saved(now, Memory, fails)
       /\ IF now = Memory THEN Keep /\ UNCHANGED raced ELSE Reports(now.level, now.muted)
       /\ apart' = \/ "getVolume" \in fails
                   \/ now # Memory /\ "save" \in fails
                   \/ apart /\ device.level = actual
    /\ blind' = ("getMute" \in fails)
    /\ UNCHANGED <<device, told, sets, turns, scale, restarts>>

CoreTurned(l, m) ==
    /\ Turned(l, m, FALSE) /\ news' = TRUE
    /\ UNCHANGED <<level, muted, say, told, sets, actual, cache, apart, blind, scale, restarts, failures>>

\* load_cached_data: -1 stands for a volume that is not known, which in decibels is one (99
\* here, as 100 is 0 dB).  In decibels the limits are not known yet, and the file is used only
\* if it says 0 dB.
Unset == [level |-> 100, actual |-> IF scale = "dB" THEN 99 ELSE -1, muted |-> FALSE]

Cached(fails) ==
    IF "load" \in fails THEN Unset
    ELSE IF scale = "dB" /\ cache.level # 100 THEN [Unset EXCEPT !.muted = cache.muted]
    ELSE cache

\* The process ends and starts: the file, corrected by what the device has (without its volume
\* there is no plugin); listeners come and read the state.
CoreRestart(fails) ==
    /\ restarts < 1 /\ restarts' = 1 /\ Failing(fails)
    /\ LET was == Cached(fails)
           now == Loaded(was, fails) IN
       /\ level' = now.level /\ muted' = now.muted /\ actual' = now.actual
       /\ told' = [level |-> now.level, muted |-> now.muted]
       /\ cache' = Saved(now, was, fails)
       /\ apart' = \/ now # was /\ "save" \in fails
                   \/ (apart \/ was # cache) /\ device.level = was.actual
    /\ blind' = ("getMute" \in fails)
    /\ say' = [t \in Threads |-> Nothing] /\ news' = FALSE /\ raced' = FALSE
    /\ UNCHANGED <<device, sets, turns, scale>>

\* What may fail in a call
Setting == {"setMute", "getMute", "setVolume", "getVolume", "save"}

CoreVolumeNext ==
    \/ \E t \in Callers, fails \in SUBSET Setting :
          (\E l \in Levels : CoreSet(t, l, muted, fails)) \/ CoreSet(t, level, ~muted, fails)
    \/ \E fails \in SUBSET {"getVolume", "getMute", "save"} : CoreNews(fails)
    \/ \E fails \in SUBSET {"load", "getMute", "save"} : CoreRestart(fails)
    \/ \E l \in Levels : CoreTurned(Rounded(l), device.muted)
    \/ CoreTurned(device.level, ~device.muted)
    \/ \E t \in Threads : Tell(t) /\ UNCHANGED coreVars

\* Without news the device has the mute that the plugin says, and what it makes of the volume,
\* and a restart finds the volume as it was; but for a mute that the device did not take and did
\* not say, and a volume that it was not given, refused or did not say, that could not be saved,
\* or that is taken for none.
CoreFollows ==
    ~news =>
        /\ ~blind => device.muted = muted
        /\ ~apart => /\ device.level \in {Rounded(level), level}
                     /\ cache.level = level /\ cache.actual = device.level

=============================================================================
