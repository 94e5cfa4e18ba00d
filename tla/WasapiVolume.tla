----------------------------- MODULE WasapiVolume -----------------------------
(***************************************************************************)
(* The volume of a WASAPI endpoint (raat_plugin_volume_wasapi.cpp).  A     *)
(* call leaves the value and a dirty flag for a thread that applies them;  *)
(* the system reports each change of the endpoint on a thread of its own.  *)
(***************************************************************************)
EXTENDS VolumePlugin

VARIABLES
    dirty,      \* volume_dirty and mute_dirty
    wake,       \* setvolume_event
    at,         \* where the thread is; "ended" when it could not open a device
    echo,       \* the changes of the endpoint that were not reported yet
    moved,      \* the default device is another one
    unset       \* history: the endpoint did not take a value, and has reported none since

endpointVars == <<dirty, wake, at, echo, moved, unset>>

WasapiVolumeInit ==
    /\ dirty = [level |-> FALSE, muted |-> FALSE]
    /\ wake = FALSE /\ at = "wait" /\ echo = <<>> /\ moved = FALSE /\ unset = FALSE

Busy == at # "wait" \/ wake \/ echo # <<>> \/ moved

\* set_volume compares the state, from 0 to 1, with its argument, from 0 to 100.
SameVolume(l) == level = 100 * l

WasapiSetVolume(t, l) ==
    /\ Called(t, Busy)
    /\ wake' = TRUE
    /\ IF SameVolume(l) THEN Keep /\ UNCHANGED dirty
       ELSE Change(t, l, muted) /\ dirty' = [dirty EXCEPT !.level = TRUE]
    /\ UNCHANGED <<device, told, turns, at, echo, moved, unset>>

WasapiSetMute(t) ==
    /\ Called(t, Busy)
    /\ wake' = TRUE /\ Change(t, level, ~muted) /\ dirty' = [dirty EXCEPT !.muted = TRUE]
    /\ UNCHANGED <<device, told, turns, at, echo, moved, unset>>

\* The thread reads flags and values without the lock, and clears a flag after it has applied
\* the value.
WasapiWakes ==
    /\ at = "wait" /\ wake
    /\ wake' = FALSE /\ at' = IF moved THEN "open" ELSE "level"
    /\ UNCHANGED volumeVars /\ UNCHANGED <<dirty, echo, moved, unset>>

\* Mutant: the thread applies the volume on a change of mute only.
WrongFlag == dirty.muted

LevelDirty == dirty.level

\* SetMasterVolume or SetMute, whose failure changes nothing else
Applies(d) ==
    \/ device' = d /\ echo' = Append(echo, d) /\ UNCHANGED unset
    \/ unset' = TRUE /\ UNCHANGED <<device, echo>>

WasapiAppliesLevel ==
    /\ at = "level"
    /\ IF LevelDirty THEN Applies([device EXCEPT !.level = level]) /\ at' = "level done"
       ELSE at' = "muted" /\ UNCHANGED <<device, echo, unset>>
    /\ UNCHANGED <<level, muted, say, told, raced, sets, turns, dirty, wake, moved>>

WasapiClearsLevel ==
    /\ at = "level done"
    /\ dirty' = [dirty EXCEPT !.level = FALSE] /\ at' = "muted"
    /\ UNCHANGED volumeVars /\ UNCHANGED <<wake, echo, moved, unset>>

WasapiAppliesMute ==
    /\ at = "muted"
    /\ IF dirty.muted THEN Applies([device EXCEPT !.muted = muted]) /\ at' = "muted done"
       ELSE at' = "wait" /\ UNCHANGED <<device, echo, unset>>
    /\ UNCHANGED <<level, muted, say, told, raced, sets, turns, dirty, wake, moved>>

WasapiClearsMute ==
    /\ at = "muted done"
    /\ dirty' = [dirty EXCEPT !.muted = FALSE] /\ at' = "wait"
    /\ UNCHANGED volumeVars /\ UNCHANGED <<wake, echo, moved, unset>>

\* OnNotify and OnSimpleVolumeChanged
WasapiEcho ==
    /\ echo # <<>> /\ say["device"] = Nothing
    /\ echo' = Tail(echo) /\ unset' = FALSE
    /\ IF Head(echo) = State THEN Keep /\ UNCHANGED raced
       ELSE Reports(Head(echo).level, Head(echo).muted)
    /\ UNCHANGED <<device, told, sets, turns, dirty, wake, at, moved>>

WasapiTurned(l, m) ==
    /\ Turned(l, m, at # "wait" \/ wake)
    /\ echo' = Append(echo, device')
    /\ UNCHANGED <<level, muted, say, told, sets, dirty, wake, at, moved, unset>>

\* The default device changes (in shared mode): the thread opens the new one, has its volume for
\* the state, tells it, and waits for a new event.
WasapiMoved(l) ==
    /\ Turned(l, device.muted, Busy) /\ moved' = TRUE /\ wake' = TRUE /\ echo' = <<>>
    /\ UNCHANGED <<level, muted, say, told, sets, dirty, at, unset>>

WasapiOpens ==
    /\ at = "open" /\ say["device"] = Nothing
    /\ Reports(device.level, device.muted)
    /\ moved' = FALSE /\ wake' = FALSE /\ unset' = FALSE /\ at' = "level"
    /\ UNCHANGED <<device, told, sets, turns, dirty, echo>>

\* It cannot, and ends; it may have got the volume, or the mute as well, and tells nobody.
WasapiFails ==
    /\ at = "open" /\ at' = "ended"
    /\ \/ UNCHANGED <<level, muted>>
       \/ level' = device.level /\ muted' \in {muted, device.muted}
    /\ UNCHANGED <<device, say, told, raced, sets, turns, dirty, wake, echo, moved, unset>>

WasapiVolumeNext ==
    \/ \E t \in Callers, l \in Levels : WasapiSetVolume(t, l)
    \/ \E t \in Callers : WasapiSetMute(t)
    \/ WasapiWakes \/ WasapiAppliesLevel \/ WasapiClearsLevel \/ WasapiAppliesMute
    \/ WasapiClearsMute \/ WasapiEcho \/ WasapiOpens \/ WasapiFails
    \/ \E l \in Levels : WasapiTurned(l, device.muted) \/ WasapiMoved(l)
    \/ WasapiTurned(device.level, ~device.muted)
    \/ \E t \in Threads : Tell(t) /\ UNCHANGED endpointVars

\* The endpoint is as the plugin says when the thread waits, unless a call came while a value
\* was being applied or reported, the endpoint did not take a value, or the thread has ended.
WasapiFollows == Quiet /\ ~raced /\ ~unset /\ ~Busy => device = State

\* A thread that has ended leaves the listeners with what was so before.
WasapiToldIsCurrent == at # "ended" => ToldIsCurrent

=============================================================================
