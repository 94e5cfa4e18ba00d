----------------------------- MODULE VolumePlugin -----------------------------
(***************************************************************************)
(* What the volume plugins have in common (raat_plugin_volume_*.c): the    *)
(* volume and the mute that a plugin keeps under its lock, the device that *)
(* it sets them on, and its listeners, which a thread calls with a         *)
(* snapshot after it has let the lock go.  The plugins for software volume *)
(* (raat_plugin_volume_software.c) and for a device on a serial line       *)
(* (raat_plugin_volume_dummy.c) are here as well.                          *)
(***************************************************************************)
EXTENDS Integers, Sequences, SequencesExt

CONSTANTS
    Callers,        \* the threads of the sessions that set the volume
    Levels,         \* the volumes that they set
    MaxSets,        \* bound on the calls
    MaxTurns        \* bound on what happens at the device

Volumes == 0..100

ASSUME LevelsAssumption == Levels \subseteq Volumes

VARIABLES
    level, muted,   \* volume and mute
    device,         \* the volume and the mute of the device
    say,            \* the snapshot that a thread is about to tell the listeners
    told,           \* history: what they were told last
    raced,          \* history: calls, or a call and news from the device, overlapped
    sets, turns     \* the calls so far, the changes at the device so far

volumeVars == <<level, muted, device, say, told, raced, sets, turns>>

Threads == Callers \union {"device"}
Nothing == [level |-> -1, muted |-> FALSE]
State   == [level |-> level, muted |-> muted]
Quiet   == \A t \in Threads : say[t] = Nothing

VolumeInit ==
    /\ level = 100 /\ muted = FALSE
    /\ device = State /\ told = State
    /\ say = [t \in Threads |-> Nothing]
    /\ raced = FALSE /\ sets = 0 /\ turns = 0

\* Mutant: the snapshot is what was before the change.
SnapshotBefore(l, m) == State

Snapshot(l, m) == [level |-> l, muted |-> m]

\* The state changes under the lock, and t takes a snapshot for the listeners.
Change(t, l, m) ==
    /\ level' = l /\ muted' = m
    /\ say' = [say EXCEPT ![t] = Snapshot(l, m)]

Keep == UNCHANGED <<level, muted, say>>

Tell(t) ==
    /\ say[t] # Nothing
    /\ told' = say[t] /\ say' = [say EXCEPT ![t] = Nothing]
    /\ UNCHANGED <<level, muted, device, raced, sets, turns>>

\* A caller's thread enters set_volume or set_mute; busy is what else may be going on.
Called(t, busy) ==
    /\ say[t] = Nothing /\ sets < MaxSets
    /\ sets' = sets + 1
    /\ raced' = (raced \/ ~Quiet \/ busy)

\* The device changes by itself.
Turned(l, m, busy) ==
    /\ turns < MaxTurns /\ [level |-> l, muted |-> m] # device
    /\ turns' = turns + 1 /\ device' = [level |-> l, muted |-> m]
    /\ raced' = (raced \/ ~Quiet \/ busy)

\* News from the device change the state as one caller would.
Reports(l, m) == Change("device", l, m) /\ raced' = (raced \/ ~Quiet)

-----------------------------------------------------------------------------
(***************************************************************************)
(* Software volume: the device is the gain that the output's thread        *)
(* applies to a period, path the signal path shown for it; 100 is 0 dB     *)
(***************************************************************************)
VARIABLE path

PathOf(l, m) == [gain |-> l, muted |-> m, lossless |-> l = 100]

SoftInit == path = PathOf(100, FALSE)

SoftSet(t, l, m) ==
    /\ Called(t, FALSE)
    /\ IF [level |-> l, muted |-> m] # State
       THEN Change(t, l, m) /\ path' = PathOf(l, m)
       ELSE Keep /\ UNCHANGED path
    /\ UNCHANGED <<device, told, turns>>

\* softvol_process, on the output's thread, without the lock
SoftProcess ==
    /\ device # State
    /\ device' = State
    /\ UNCHANGED <<level, muted, say, told, raced, sets, turns, path>>

SoftNext ==
    \/ \E t \in Callers, l \in Levels : SoftSet(t, l, muted)
    \/ \E t \in Callers : SoftSet(t, level, ~muted)
    \/ SoftProcess
    \/ \E t \in Threads : Tell(t) /\ UNCHANGED path

-----------------------------------------------------------------------------
(***************************************************************************)
(* The device on a serial line: line holds the bytes it has sent           *)
(***************************************************************************)
VARIABLES
    line,       \* the bytes that uart_read_thread has not read
    skipped     \* history: it used the last byte only of several

serialVars == <<line, skipped>>

ReadSize == 20

SerialInit == line = <<>> /\ skipped = FALSE

\* A byte of the device: a volume or a code for mute, and commands for standby, the signal
\* path or the balance, which change neither.
SendsVolume(l) == Turned(l, device.muted, FALSE) /\ line' = Append(line, [is |-> "volume", to |-> l])
SendsMute(m)   == Turned(device.level, m, FALSE) /\ line' = Append(line, [is |-> "mute", to |-> m])
SendsOther ==
    /\ turns < MaxTurns /\ turns' = turns + 1
    /\ line' = Append(line, [is |-> "other", to |-> 0]) /\ UNCHANGED <<device, raced>>

\* set_volume and set_mute write to the line, whatever is on the way from the device.
SerialSet(t, l, m) ==
    /\ Called(t, line # <<>>)
    /\ IF [level |-> l, muted |-> m] # State
       THEN /\ Change(t, l, m)
            /\ device' = IF l # level THEN [device EXCEPT !.level = l]
                         ELSE [device EXCEPT !.muted = m]
       ELSE Keep /\ UNCHANGED device
    /\ UNCHANGED <<told, turns>> /\ UNCHANGED serialVars

\* Mutant: the first byte of several is used.
FirstByte(bytes) == Head(bytes)

Used(bytes) == Last(bytes)

\* uart_read_thread reads up to 20 bytes and uses the last one.
SerialRead ==
    /\ line # <<>> /\ say["device"] = Nothing
    /\ \E n \in 1..Len(line) :
          LET byte == Used(SubSeq(line, 1, n)) IN
          /\ n <= ReadSize
          /\ Reports(IF byte.is = "volume" THEN byte.to ELSE level,
                     IF byte.is = "mute" THEN byte.to ELSE muted)
          /\ line' = SubSeq(line, n + 1, Len(line))
          /\ skipped' = (skipped \/ \E i \in 1..n - 1 : line[i].is \notin {byte.is, "other"})
    /\ UNCHANGED <<device, told, sets, turns>>

SerialNext ==
    \/ \E t \in Callers, l \in Levels : SerialSet(t, l, muted)
    \/ \E t \in Callers : SerialSet(t, level, ~muted)
    \/ /\ (\E l \in Levels : SendsVolume(l)) \/ SendsMute(~device.muted) \/ SendsOther
       /\ UNCHANGED <<level, muted, say, told, sets, skipped>>
    \/ SerialRead
    \/ \E t \in Threads : Tell(t) /\ UNCHANGED serialVars

-----------------------------------------------------------------------------

\* What the listeners heard last is the state, once nobody is about to tell them more, if no
\* two threads changed it at the same time.
ToldIsCurrent == Quiet /\ ~raced => told = State

\* The device is as the plugin says, if nothing is on the line and no byte was skipped.
SerialFollows == Quiet /\ ~raced /\ ~skipped /\ line = <<>> => device = State

=============================================================================
