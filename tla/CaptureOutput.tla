----------------------------- MODULE CaptureOutput -----------------------------
(***************************************************************************)
(* The capture output (raat_plugin_output_capture.c): the reference plugin *)
(* that writes what it plays to a file, one for each start.  The file is   *)
(* opened, written and closed under the lock.                              *)
(***************************************************************************)
EXTENDS PlatformOutput

\* Mutant: the file of the owner that is kicked off stays open.
ForgetFile == UNCHANGED <<dev, open>>

CloseFile == dev' = None /\ open' = open \ {dev}

KicksFile == IF state = "IDLE" THEN UNCHANGED <<dev, open>> ELSE CloseFile

NowOverlapping == overlap' = (overlap \/ \E c \in Callers : ~Idle(c))

CaptureSetupEnter(s) ==
    SetupEnter(s) /\ KicksFile /\ NowOverlapping /\ UNCHANGED <<closing, hwCall, broken>>

CaptureSetupRest(c) ==
    /\ \/ SetupRefused(c) \/ SetupGranted(c) \/ SetupResync(c) \/ SetupReturn(c) \/ SetupFail(c)
    /\ UNCHANGED platform

CaptureForceEnter(o) ==
    ForceEnter(o) /\ KicksFile /\ NowOverlapping /\ UNCHANGED <<closing, hwCall, broken>>

CaptureForceRetry(o) == ForceRetry(o) /\ KicksFile /\ UNCHANGED <<closing, hwCall, history>>

CaptureForceReturn(o) == ForceReturn(o) /\ UNCHANGED platform

CaptureTeardown(s, t) ==
    Teardown(s, t) /\ CloseFile /\ NowOverlapping /\ UNCHANGED <<closing, hwCall, broken>>

\* The result of fopen is not looked at.
CaptureStart(s, t) ==
    /\ Idle(s) /\ current = t /\ state = "STOPPED"
    /\ state' = "RUNNING" /\ stream' = t /\ new' = TRUE
    /\ \/ dev' = t /\ open' = (open \ {dev}) \union {t} /\ UNCHANGED <<fault, broken>>
       \/ fault' = "null" /\ broken' = TRUE /\ UNCHANGED <<dev, open>>
    /\ UNCHANGED <<current, next, lostCb, remaining, setupCb, tid, thread, call, req, forces,
                   closing, hwCall, overlap>>

CaptureStop(s, t) == Stop(s, t) /\ CloseFile /\ UNCHANGED <<closing, hwCall, history>>

CaptureJoin(c) == (JoinBegin(c) \/ JoinEnd(c)) /\ UNCHANGED platform
CaptureTell(c) == TellLost(c) /\ UNCHANGED platform

(***************************************************************************)
(* capture_output_thread                                                   *)
(***************************************************************************)
CaptureBegin(t) == ThreadBegin(t) /\ UNCHANGED platform

\* The thread lets go of its stream first.  While a new one waits for its start time, it goes
\* on with the one it has let go of, which may have been the last reference.
CapturePeriod(t) ==
    /\ thread[t].pc = "loop"
    /\ IF ~TokenCurrent(t) THEN ThreadGoes(t, "done") /\ UNCHANGED <<new, fault>>
       ELSE \/ /\ new' = (new /\ stream = None) /\ UNCHANGED fault
               /\ thread' = [thread EXCEPT ![t].pc = "play", ![t].stream = stream]
            \/ /\ new /\ stream # None /\ UNCHANGED new
               /\ fault' \in IF thread[t].stream = None THEN {"none"} ELSE {"none", "freed"}
               /\ ThreadGoes(t, "play")
    /\ UNCHANGED <<current, next, state, lostCb, stream, remaining, setupCb, tid, call, req,
                   forces, platform>>

CapturePlay(t) ==
    /\ thread[t].pc = "play"
    /\ Countdown(t, "write")
    /\ UNCHANGED <<owned, setupCb, tid, call, forces, platform>>

\* A second critical section writes to the file, if there is one.
CaptureWrite(t) ==
    /\ thread[t].pc = "write"
    /\ ThreadGoes(t, "loop")
    /\ IF dev = None THEN UNCHANGED fault ELSE Touch(dev)
    /\ UNCHANGED <<owned, remaining, setupCb, tid, call, req, forces, platform>>

-----------------------------------------------------------------------------

CaptureSession(s) ==
    \/ CaptureSetupEnter(s) \/ CaptureSetupRest(s)
    \/ \E t \in Knows(s) : CaptureTeardown(s, t) \/ CaptureStart(s, t) \/ CaptureStop(s, t)

CaptureThread(t) == CaptureBegin(t) \/ CapturePeriod(t) \/ CapturePlay(t) \/ CaptureWrite(t)

CaptureNext ==
    /\ fault = "none"
    /\ \/ \E s \in Sessions : CaptureSession(s)
       \/ \E o \in Others : CaptureForceEnter(o) \/ CaptureForceRetry(o) \/ CaptureForceReturn(o)
       \/ \E c \in Callers : CaptureJoin(c) \/ CaptureTell(c)
       \/ \E t \in DOMAIN thread : CaptureThread(t)

CaptureSpec == PlatformInit /\ [][CaptureNext]_allVars

-----------------------------------------------------------------------------

\* There is a file while the owner plays, and no other time; and what a thread is about to
\* write is its own owner's, unless calls overlap.
FileIsTheOwners ==
    /\ fault # "null" => (dev # None <=> state = "RUNNING")
    /\ open = {dev} \ {None}
    /\ dev # None => dev = current
    /\ \A t \in DOMAIN thread :
           thread[t].pc = "write" /\ dev # None /\ ~overlap => dev = t

=============================================================================
