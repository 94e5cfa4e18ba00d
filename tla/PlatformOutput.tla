---------------------------- MODULE PlatformOutput ----------------------------
(***************************************************************************)
(* What the platform outputs have beyond the reference plugin: a device    *)
(* that is opened and closed, and that may break.  A handle of the device  *)
(* is named by the token of the setup that opened it.                      *)
(***************************************************************************)
EXTENDS OutputPlugin

VARIABLES
    dev,        \* the plugin's handle of the device: pcm, audiounit, asio, file
    open,       \* the handles that are open
    closing,    \* the handle that a teardown closes when it has joined the thread
    hwCall,     \* the hardware thread that calls force_teardown as the caller o
    overlap,    \* history: a call was made while another one was in progress
    broken      \* history: the device failed under a hardware thread

history    == <<overlap, broken>>
deviceVars == <<dev, open, closing>>
platform   == <<deviceVars, hwCall, history>>
allVars    == <<vars, platform>>

PlatformInit ==
    /\ Init
    /\ dev = None /\ open = {} /\ closing = [c \in Callers |-> None]
    /\ hwCall = [o \in Others |-> None]
    /\ overlap = FALSE /\ broken = FALSE

\* A caller enters the plugin.
Enters ==
    /\ overlap' = (overlap \/ \E c \in Callers : ~Idle(c))
    /\ UNCHANGED <<deviceVars, hwCall, broken>>

\* A hardware thread uses the handle h: one that was closed is undefined behaviour.
Touch(h) == fault' \in IF h \in open THEN {"none"} ELSE {"none", "closed"}

ThreadGoes(t, pc) == thread' = [thread EXCEPT ![t].pc = pc]

\* The countdown of the resync delay, as one step (OutputPlugin has its race), and the call
\* of setup_cb when it is over.
Countdown(t, pc) ==
    /\ remaining' = IF remaining > 0 THEN remaining - 1 ELSE 0
    /\ IF remaining # 1 THEN ThreadGoes(t, pc) /\ UNCHANGED <<req, fault>>
       ELSE IF setupCb = None THEN fault' = "null" /\ UNCHANGED <<req, thread>>
       ELSE /\ req' = Answered(setupCb, t)
            /\ ThreadGoes(t, pc)
            /\ UNCHANGED fault

\* A hardware thread calls force_teardown, and goes on when it returns.
ThreadForces(t, o) ==
    /\ hwCall' = [hwCall EXCEPT ![o] = t]
    /\ overlap' = (overlap \/ \E c \in Callers : ~Idle(c))
    /\ broken' = TRUE

\* To join oneself returns at once.
SelfJoin(c) ==
    /\ c \in Others /\ call[c].pc = "join" /\ tid # None /\ hwCall[c] = tid
    /\ call' = [call EXCEPT ![c] = AfterJoin(@)]
    /\ UNCHANGED <<owned, remaining, setupCb, tid, thread, req, forces, fault>>

Join(c) ==
    \/ SelfJoin(c)
    \/ ~(c \in Others /\ hwCall[c] = tid /\ tid # None) /\ JoinBegin(c)
    \/ JoinEnd(c)

(***************************************************************************)
(* Outputs whose device calls the plugin back have no thread to join       *)
(***************************************************************************)

\* Mutant: the callback of the owner that is kicked off is dropped.
ForgetLost(k) == [k EXCEPT !.join = FALSE, !.lost = None, !.pc = "check"]

Unjoined(k) == [k EXCEPT !.join = FALSE, !.pc = IF k.lost # None THEN "lost" ELSE "check"]

KickUnjoined(c, k) ==
    /\ next' = next + 1 /\ current' = next + 1
    /\ state' = "IDLE"
    /\ lostCb' = IF state = "IDLE" THEN lostCb ELSE None
    /\ call' = [call EXCEPT ![c] = Unjoined(Kicked(k))]
    /\ UNCHANGED <<stream, new>>

NewRequest(s) == [by |-> s, token |-> None, told |-> {}, answers |-> 0, losses |-> 0,
                  teardowns |-> 0]

SetupKicks(s) ==
    /\ Idle(s) /\ Len(req) < MaxSetups
    /\ req' = Append(req, NewRequest(s))
    /\ KickUnjoined(s, [NoCall EXCEPT !.op = "setup", !.req = Len(req) + 1])

ForceKicks(o) ==
    /\ Idle(o) /\ forces < MaxForces
    /\ forces' = forces + 1
    /\ KickUnjoined(o, [NoCall EXCEPT !.op = "force"])

RetryKicks(o) ==
    /\ call[o].op = "force" /\ call[o].pc = "check" /\ ~StillCurrent(o)
    /\ KickUnjoined(o, call[o])

TornDown(t) == [r \in DOMAIN req |-> IF req[r].token = t
                                         THEN [req[r] EXCEPT !.teardowns = @ + 1] ELSE req[r]]

GivesUp(s, t) ==
    /\ Idle(s) /\ current = t
    /\ Vacate /\ DropStream
    /\ req' = TornDown(t)
    /\ UNCHANGED <<next, new>>

\* The callbacks of the device opened with the token t
CallbackThread(t, pc) ==
    [u \in DOMAIN thread \union {t} |->
        IF u = t THEN [pc |-> pc, stream |-> None, left |-> 0] ELSE thread[u]]

\* Who was granted the output owns it, or gave it up, or was told of the loss, or the call that
\* took the output still holds the callback that tells it.
LossReported(r) ==
    \/ state # "IDLE" /\ current = req[r].token /\ lostCb = r
    \/ req[r].teardowns = 1
    \/ req[r].losses > 0
    \/ \E c \in Callers : call[c].lost = r

LossesReported == \A r \in DOMAIN req : req[r].token # None => LossReported(r)

\* Each open handle is the plugin's or is about to be closed by the teardown that took it;
\* and who owns the output has a device and the thread that plays to it.
DeviceAccounted ==
    /\ open = ({dev} \union {closing[c] : c \in Callers}) \ {None}
    /\ state # "IDLE" => dev = current /\ tid = current

\* Nobody touches a handle after its close, unless calls overlap or the device breaks.
ClosedInTime == fault = "closed" => overlap \/ broken

=============================================================================
