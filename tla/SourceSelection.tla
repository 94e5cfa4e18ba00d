---------------------------- MODULE SourceSelection ----------------------------
(***************************************************************************)
(* Convenience switching (raat_plugin_source_selection_test.c): a request  *)
(* for the source runs on a thread of its own, which asks the player MPD   *)
(* to let the device go; standby is set by Roon's thread without the lock, *)
(* and by the thread of the serial line (raat_plugin_volume_dummy.c) with  *)
(* the output taken away first.                                            *)
(***************************************************************************)
EXTENDS Integers, Sequences

CONSTANTS
    MaxSources,     \* bound on the requests
    MaxStandbys,    \* bound on the standbys and the switches
    MaxPolls,       \* 20
    MaxPlays        \* bound on MPD's users that start to play

ASSUME SelectionAssumption == MaxSources \in Nat /\ MaxPolls \in Nat

VARIABLES
    status,         \* "selected", "deselected", "standby"
    seq,            \* request_source_seq
    request,        \* the threads: where each is, and the polls it has left
    standby,        \* Roon's thread in request_standby: the status that it is about to tell
    heard,          \* history: what the listeners were told last
    unlocked,       \* history: another thread told the listeners a status in between
    delay,          \* roon_stdby_delay
    tell,           \* g_roon_stdby_flag
    front,          \* history: what the front panel was told, and said, last
    mpd,            \* the player: "absent", "playing", "stopping", "stopped"
    answers,        \* history: what the callback of each request was told
    sure,           \* history: MPD said that it had stopped, or took no connection
    standbys, plays

selectionVars == <<status, seq, request, standby, heard, unlocked, delay, tell, front, mpd,
                   answers, sure, standbys, plays>>

sources == 1..MaxSources
Idle    == [at |-> "none", polls |-> 0]

SelectionInit ==
    /\ status = "deselected" /\ heard = "deselected" /\ unlocked = FALSE
    /\ seq = 0 /\ request = [r \in sources |-> Idle] /\ standby = "none"
    /\ delay = FALSE /\ tell = FALSE /\ front = "none"
    /\ mpd \in {"absent", "playing", "stopped"}
    /\ answers = [r \in sources |-> <<>>] /\ sure = {} /\ standbys = 0 /\ plays = 0

Goes(r, at) == request' = [request EXCEPT ![r].at = at]

\* The status changes under the lock, and the listeners are called under it.
Becomes(s) ==
    /\ status' = s /\ heard' = s
    /\ unlocked' = (unlocked \/ standby \notin {"none", "set"})

panelVars == <<delay, tell, front, standbys, plays>>

-----------------------------------------------------------------------------
\* request_source: what is asked for last has the number of the plugin.
RequestSource ==
    /\ seq < MaxSources
    /\ seq' = seq + 1
    /\ request' = [request EXCEPT ![seq + 1] = [at |-> "connect", polls |-> MaxPolls]]
    /\ UNCHANGED <<status, standby, heard, unlocked, mpd, answers, sure>> /\ UNCHANGED panelVars

\* Without an answer for five seconds, or refused, MPD is taken not to have the device.
ConnectMpd(r) ==
    /\ request[r].at = "connect"
    /\ \/ Goes(r, "success") /\ sure' = sure \union {r}
       \/ mpd # "absent" /\ Goes(r, "greeting") /\ UNCHANGED sure
       \/ Goes(r, "fail") /\ UNCHANGED sure
    /\ UNCHANGED <<status, seq, standby, heard, unlocked, mpd, answers>> /\ UNCHANGED panelVars

Asks == {"greeting", "status", "stop", "poll"}

\* MPD closes the connection, or refuses a command.  An MPD that says nothing is waited for:
\* the timeouts of the socket are given to fcntl, which takes SOL_SOCKET for F_GETFD.
TurnedAway(r) ==
    /\ request[r].at \in Asks /\ Goes(r, "fail")
    /\ UNCHANGED <<status, seq, standby, heard, unlocked, mpd, answers, sure>>
    /\ UNCHANGED panelVars

\* Mutant: any answer about the state counts as "stop".
AnyState == TRUE

Stopped == mpd = "stopped"

\* The lines up to "OK"; after "state: stop" nothing is left to be done.
Answers(r) ==
    /\ request[r].at \in Asks /\ mpd # "absent"
    /\ CASE request[r].at = "greeting" -> Goes(r, "status") /\ UNCHANGED <<mpd, sure>>
         [] request[r].at = "stop" ->
                /\ Goes(r, "poll")
                /\ mpd' = IF mpd = "playing" THEN "stopping" ELSE mpd
                /\ UNCHANGED sure
         [] OTHER ->
                /\ IF Stopped THEN Goes(r, "success")
                   ELSE IF request[r].at = "status" THEN Goes(r, "stop")
                   ELSE IF request[r].polls = 1 THEN Goes(r, "fail")
                   ELSE request' = [request EXCEPT ![r].polls = @ - 1]
                /\ sure' = IF mpd = "stopped" THEN sure \union {r} ELSE sure
                /\ UNCHANGED mpd
    /\ UNCHANGED <<status, seq, standby, heard, unlocked, answers>> /\ UNCHANGED panelVars

\* The panel is told to switch over, and after a standby the thread gives it some seconds.
SwitchPanel(r) ==
    /\ request[r].at = "success"
    /\ front' = "switch" /\ Goes(r, IF delay THEN "wait" ELSE "select")
    /\ UNCHANGED <<status, seq, standby, heard, unlocked, mpd, answers, sure, delay, tell,
                   standbys, plays>>

Waited(r) ==
    /\ request[r].at = "wait"
    /\ delay' = FALSE /\ Goes(r, "select")
    /\ UNCHANGED <<status, seq, standby, heard, unlocked, mpd, answers, sure, front, tell,
                   standbys, plays>>

LastRequest(r) == r = seq

\* The callback is told of success by a request that another one has replaced, too.
Selects(r) ==
    /\ request[r].at = "select"
    /\ IF LastRequest(r) THEN Becomes("selected") ELSE UNCHANGED <<status, heard, unlocked>>
    /\ answers' = [answers EXCEPT ![r] = Append(@, "success")] /\ Goes(r, "done")
    /\ UNCHANGED <<seq, standby, mpd, sure>> /\ UNCHANGED panelVars

Fails(r) ==
    /\ request[r].at = "fail"
    /\ answers' = [answers EXCEPT ![r] = Append(@, "error")] /\ Goes(r, "done")
    /\ UNCHANGED <<status, seq, standby, heard, unlocked, mpd, sure>> /\ UNCHANGED panelVars

-----------------------------------------------------------------------------
\* request_standby, which takes no lock and leaves the requests as they are
RequestStandby ==
    /\ standby = "none" /\ standbys < MaxStandbys
    /\ standbys' = standbys + 1
    /\ tell' = TRUE /\ delay' = TRUE
    /\ status' = "standby" /\ standby' = "set"
    /\ UNCHANGED <<seq, request, heard, unlocked, front, mpd, answers, sure, plays>>

ReadStandby ==
    /\ standby = "set" /\ standby' = status
    /\ UNCHANGED <<status, seq, request, heard, unlocked, mpd, answers, sure>>
    /\ UNCHANGED panelVars

TellStandby ==
    /\ standby \notin {"none", "set"}
    /\ standby' = "none" /\ heard' = standby
    /\ UNCHANGED <<status, seq, request, unlocked, mpd, answers, sure>> /\ UNCHANGED panelVars

\* The thread of the serial line tells the panel of Roon's standby
TellPanel ==
    /\ tell /\ tell' = FALSE /\ front' = "standby"
    /\ UNCHANGED <<status, seq, request, standby, heard, unlocked, delay, mpd, answers, sure,
                   standbys, plays>>

\* m1_stdby: the panel goes to standby, comes back from it, or switches to another source;
\* the output plugin has been told to take the output away.
PanelSays(s) ==
    /\ standbys < MaxStandbys
    /\ standbys' = standbys + 1 /\ front' = s
    /\ delay' = IF s = "switch away" THEN delay ELSE s = "standby"
    /\ Becomes(IF s = "standby" THEN "standby" ELSE "deselected")
    /\ UNCHANGED <<seq, request, standby, tell, mpd, answers, sure, plays>>

\* MPD stops when it was asked to, and somebody may start it again.
MpdStops == mpd = "stopping" /\ mpd' = "stopped" /\ UNCHANGED plays
MpdPlays == mpd \in {"stopped", "stopping"} /\ plays < MaxPlays /\ mpd' = "playing" /\ plays' = plays + 1

Mpd ==
    /\ MpdStops \/ MpdPlays
    /\ UNCHANGED <<status, seq, request, standby, heard, unlocked, delay, tell, front, answers,
                   sure, standbys>>

SelectionNext ==
    \/ RequestSource \/ RequestStandby \/ ReadStandby \/ TellStandby \/ TellPanel \/ Mpd
    \/ \E r \in sources : ConnectMpd(r) \/ TurnedAway(r) \/ Answers(r) \/ SwitchPanel(r)
                          \/ Waited(r) \/ Selects(r) \/ Fails(r)
    \/ \E s \in {"standby", "back", "switch away"} : PanelSays(s)

SelectionSpec == SelectionInit /\ [][SelectionNext]_selectionVars

\* The threads go on; MPD may say nothing.
SelectionFairSpec ==
    /\ SelectionSpec
    /\ \A r \in sources : WF_selectionVars(ConnectMpd(r) \/ SwitchPanel(r) \/ Waited(r)
                                           \/ Selects(r) \/ Fails(r))

-----------------------------------------------------------------------------
(***************************************************************************)
(* Properties                                                              *)
(***************************************************************************)

\* Once Roon's thread is through, the listeners have heard what the status is, unless another
\* thread told them something between its reading of the status and its telling.
SelectionIsTold == standby = "none" /\ ~unlocked => heard = status

\* A request is answered once, at its end, and with success only after MPD has said that it
\* does not play, or could not be reached.
SourcesAreFree ==
    \A r \in sources :
        /\ answers[r] # <<>> <=> request[r].at = "done"
        /\ Len(answers[r]) <= 1
        /\ answers[r] = <<"success">> => r \in sure

-----------------------------------------------------------------------------
(***************************************************************************)
(* What a comment says, and the code does not keep                         *)
(***************************************************************************)
\* raat_plugin_source_selection_test.c:159: "if things stop moving on the socket for 5 seconds,
\* we bail out and fail instead of potentially hanging forever".
StalledRequestsEnd == \A r \in sources : request[r].at \in Asks ~> request[r].at = "done"

=============================================================================
