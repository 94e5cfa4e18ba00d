------------------------------ MODULE AlsaVolume ------------------------------
(***************************************************************************)
(* The volume of an ALSA mixer element (raat_plugin_volume_alsa.c): a call *)
(* that the mixer refuses opens the mixer again, which stops and starts    *)
(* the thread that waits for the mixer's events.                           *)
(***************************************************************************)
EXTENDS VolumePlugin

VARIABLES
    mixer,      \* the mixer is open with its element ("ready"), with that of a card that is gone
                \* or was meanwhile ("stale"), or without one ("bare")
    watching,   \* events_active
    watchers,   \* the threads for events that run
    event,      \* an event is waiting for them
    plugged,    \* the card is there
    redo,       \* what each caller still has to set, while and after it opens the mixer again
    refused,    \* history: a call returned with the mixer not opened again
    crashed     \* the mixer was closed while it was used, or used without its element

mixerVars == <<mixer, watching, watchers, event, plugged, redo, refused, crashed>>

NoRedo == [at |-> "none", is |-> "none", level |-> 0, muted |-> FALSE]

AlsaVolumeInit ==
    /\ mixer = "ready" /\ watching = TRUE /\ watchers = 1 /\ event = FALSE /\ plugged = TRUE
    /\ redo = [t \in Callers |-> NoRedo]
    /\ refused = FALSE /\ crashed = FALSE

\* set_volume leaves the mute as it is when it sets the volume again, set_mute the volume.
Wanted(t) ==
    [level |-> IF redo[t].is = "level" THEN redo[t].level ELSE level,
     muted |-> IF redo[t].is = "muted" THEN redo[t].muted ELSE muted]
Redoing   == \E t \in Callers : redo[t] # NoRedo

\* The element takes what is different, and the mixer gets an event for it.
Applied(t, l, m) ==
    /\ device' = [level |-> IF l # level THEN l ELSE device.level,
                  muted |-> IF m # muted THEN m ELSE device.muted]
    /\ event' = TRUE
    /\ Change(t, l, m)

\* set_volume and set_mute; the value is kept even if the mixer refuses it.
AlsaSet(t, l, m) ==
    /\ redo[t] = NoRedo
    /\ Called(t, event \/ Redoing)
    /\ crashed' = (mixer = "bare" /\ [level |-> l, muted |-> m] # State)
    /\ IF [level |-> l, muted |-> m] = State THEN Keep /\ UNCHANGED <<device, event, redo>>
       ELSE IF mixer = "ready" THEN Applied(t, l, m) /\ UNCHANGED redo
       ELSE /\ redo' = [redo EXCEPT ![t] = [at |-> "stop", is |-> IF l # level THEN "level" ELSE "muted",
                                            level |-> l, muted |-> m]]
            /\ level' = l /\ muted' = m
            /\ UNCHANGED <<device, say, event>>
    /\ UNCHANGED <<told, turns, mixer, watching, watchers, plugged, refused>>

\* init: the thread for events is told to end, by whoever still finds it active ...
AlsaStopEvents(t) ==
    /\ redo[t].at = "stop"
    /\ redo' = [redo EXCEPT ![t].at = IF watching THEN "join" ELSE "open"]
    /\ watching' = FALSE
    /\ UNCHANGED volumeVars /\ UNCHANGED <<mixer, watchers, event, plugged, refused, crashed>>

\* ... and joined, between two of its callbacks,
AlsaJoined(t) ==
    /\ redo[t].at = "join" /\ say["device"] = Nothing
    /\ watchers' = watchers - 1
    /\ redo' = [redo EXCEPT ![t].at = "open"]
    /\ UNCHANGED volumeVars /\ UNCHANGED <<mixer, watching, event, plugged, refused, crashed>>

\* LOCKED_update_state_from_alsa: what the mixer has becomes the state.
ReadMixer == level' = device.level /\ muted' = device.muted

\* the mixer is closed and opened, and on success its state is told to the listeners under the
\* lock; without success the caller returns, with the value that was not set as the state.
AlsaOpen(t) ==
    /\ redo[t].at = "open"
    /\ crashed' = (watchers > 0)
    /\ IF plugged
       THEN /\ mixer' = "ready" /\ watching' = TRUE /\ watchers' = watchers + 1
            /\ ReadMixer /\ told' = device
            /\ redo' = [redo EXCEPT ![t].at = "again"]
            /\ UNCHANGED refused
       ELSE /\ mixer' = "bare" /\ refused' = TRUE
            /\ redo' = [redo EXCEPT ![t] = NoRedo]
            /\ UNCHANGED <<level, muted, told, watching, watchers>>
    /\ event' = FALSE
    /\ UNCHANGED <<device, say, raced, sets, turns, plugged>>

\* The second attempt, whose failure is logged and told as if it had succeeded
AlsaSetAgain(t) ==
    /\ redo[t].at = "again"
    /\ redo' = [redo EXCEPT ![t] = NoRedo]
    /\ raced' = (raced \/ ~Quiet \/ event)
    /\ crashed' = (mixer = "bare" /\ Wanted(t) # State)
    /\ LET w == Wanted(t) IN
       IF w = State THEN Keep /\ UNCHANGED <<device, event, refused>>
       ELSE IF mixer = "ready" THEN Applied(t, w.level, w.muted) /\ UNCHANGED refused
       ELSE Change(t, w.level, w.muted) /\ refused' = TRUE /\ UNCHANGED <<device, event>>
    /\ UNCHANGED <<told, sets, turns, mixer, watching, watchers, plugged>>

\* mixer_element_callback
AlsaEvent ==
    /\ watching /\ event /\ say["device"] = Nothing
    /\ event' = FALSE
    /\ Reports(device.level, device.muted)
    /\ UNCHANGED <<device, told, sets, turns>>
    /\ UNCHANGED <<mixer, watching, watchers, plugged, redo, refused, crashed>>

\* Another program changes the mixer: there is an event if the mixer is that of the card.
AlsaTurned(l, m) ==
    /\ plugged /\ Turned(l, m, Redoing)
    /\ event' = (event \/ mixer = "ready")
    /\ UNCHANGED <<level, muted, say, told, sets>>
    /\ UNCHANGED <<mixer, watching, watchers, plugged, redo, refused, crashed>>

\* The card goes, with its events, or comes back; the mixer that was open has lost it for good.
AlsaPlug ==
    /\ turns < MaxTurns /\ turns' = turns + 1
    /\ plugged' = ~plugged
    /\ event' = FALSE /\ mixer' = IF mixer = "ready" THEN "stale" ELSE mixer
    /\ UNCHANGED <<level, muted, device, say, told, raced, sets>>
    /\ UNCHANGED <<watching, watchers, redo, refused, crashed>>

AlsaVolumeNext ==
    /\ ~crashed
    /\ \/ \E t \in Callers, l \in Levels : AlsaSet(t, l, muted)
       \/ \E t \in Callers : AlsaSet(t, level, ~muted)
       \/ \E t \in Callers : AlsaStopEvents(t) \/ AlsaJoined(t) \/ AlsaOpen(t) \/ AlsaSetAgain(t)
       \/ AlsaEvent \/ AlsaPlug
       \/ \E l \in Levels : AlsaTurned(l, device.muted)
       \/ AlsaTurned(device.level, ~device.muted)
       \/ \E t \in Threads : Tell(t) /\ UNCHANGED mixerVars

\* The state is what the listeners heard, when nothing is in progress, no calls overlapped and
\* the mixer took every value; and it is what the mixer has, unless the card was gone since the
\* mixer was opened.
AlsaFollows ==
    Quiet /\ ~raced /\ ~refused /\ ~Redoing /\ ~event =>
        told = State /\ (mixer = "ready" => device = State)

=============================================================================
