------------------------------ MODULE AsioOutput ------------------------------
(***************************************************************************)
(* The ASIO output (raat_plugin_output_asio.cpp).  The driver is used by   *)
(* one thread only: setup has it started there, with the plugin's lock     *)
(* held, and everybody has it stopped there, without.  The driver calls    *)
(* the plugin back; a callback takes the lock, and has no token.           *)
(***************************************************************************)
EXTENDS PlatformOutput

\* Nobody is in the lock: a setup keeps it while the driver starts.
Unlocked == \A c \in Callers : call[c].pc # "hold"

\* The driver's thread is idle.  It stops the driver when no callback is in progress.
DriverFree == \A c \in Callers : call[c].pc # "stopping"
NoCallback == IF dev = None THEN TRUE ELSE thread[dev].pc = "idle"

Disposed ==
    /\ NoCallback
    /\ dev' = None /\ open' = {}
    /\ IF dev = None THEN UNCHANGED thread ELSE ThreadGoes(dev, "off")

NowOverlap == overlap' = (overlap \/ \E c \in Callers : ~Idle(c))

(***************************************************************************)
(* setup: the owner's callback that is still to be called is called, else  *)
(* the loss is told, and then the driver is stopped                        *)
(***************************************************************************)

SetupPending == state # "IDLE" /\ setupCb # None

AsioSetupKicks(k) ==
    IF SetupPending
    THEN [k EXCEPT !.pc = "cancel", !.join = TRUE, !.lost = setupCb, !.target = current]
    ELSE [k EXCEPT !.join = state # "IDLE",
                   !.pc = IF @ = "check" /\ state # "IDLE" THEN "stop" ELSE @]

AsioSetupEnter(s) ==
    /\ Unlocked /\ Idle(s) /\ Len(req) < MaxSetups
    /\ req' = Append(req, NewRequest(s))
    /\ next' = next + 1 /\ current' = next + 1
    /\ state' = "IDLE"
    /\ lostCb' = IF state = "IDLE" THEN lostCb ELSE None
    /\ setupCb' = IF SetupPending THEN None ELSE setupCb
    /\ call' = [call EXCEPT ![s] =
                  AsioSetupKicks(Unjoined(Kicked([NoCall EXCEPT !.op = "setup",
                                                                !.req = Len(req) + 1])))]
    /\ NowOverlap
    /\ UNCHANGED <<stream, new, remaining, tid, thread, forces, fault, deviceVars, hwCall, broken>>

\* old_setup_cb(..., CANCELED, old_token) tells of the loss
AsioCancel(c) ==
    /\ call[c].pc = "cancel"
    /\ req' = [Answered(call[c].lost, call[c].target) EXCEPT ![call[c].lost].losses = @ + 1]
    /\ Goto(c, "stop")
    /\ UNCHANGED <<owned, remaining, setupCb, tid, thread, forces, fault, platform>>

AsioTellLost(c) ==
    /\ call[c].pc = "lost"
    /\ req' = [req EXCEPT ![call[c].lost].losses = @ + 1]
    /\ Goto(c, IF call[c].op = "setup" /\ call[c].join THEN "stop" ELSE "check")
    /\ UNCHANGED <<owned, remaining, setupCb, tid, thread, forces, fault, platform>>

AsioStopBegin(c) ==
    /\ call[c].pc = "stop" /\ DriverFree
    /\ Goto(c, "stopping")
    /\ UNCHANGED <<owned, remaining, setupCb, tid, thread, req, forces, fault, platform>>

AsioStopEnd(c) ==
    /\ call[c].pc = "stopping" /\ Disposed
    /\ call' = [call EXCEPT ![c] =
                  IF call[c].op = "teardown" THEN NoCall
                  ELSE [@ EXCEPT !.pc = IF call[c].op = "force" /\ call[c].lost # None
                                        THEN "lost" ELSE "check"]]
    /\ UNCHANGED <<owned, remaining, setupCb, tid, req, forces, fault, closing, hwCall, history>>

AsioSetupRefused(c) == Unlocked /\ SetupRefused(c) /\ UNCHANGED platform

\* The setup takes the lock, and a new token, and waits for the driver's thread.
AsioSetupHolds(c) ==
    /\ Unlocked
    /\ call[c].op = "setup" /\ call[c].pc = "check" /\ StillCurrent(c)
    /\ next' = next + 1 /\ current' = next + 1
    /\ stream' = None
    /\ call' = [call EXCEPT ![c].pc = "hold", ![c].token = next + 1]
    /\ UNCHANGED <<state, lostCb, new, remaining, setupCb, tid, thread, req, forces, fault,
                   platform>>

\* A callback during start() does not lock, and finds no stream.  It counts the resync delay
\* that an earlier owner left; when it is over, it locks after all, and waits for start() to
\* return.  When start() returns first, it releases the lock it has not taken.
AsioCalledInStart ==
    \/ remaining' = (IF remaining > 1 THEN remaining - 1 ELSE 0) /\ remaining # 1 /\ UNCHANGED fault
    \/ remaining = 1 /\ fault' = "start" /\ UNCHANGED remaining
    \/ fault' = "unlock" /\ UNCHANGED remaining

AsioStarts(c) ==
    /\ call[c].pc = "hold" /\ DriverFree /\ NoCallback
    /\ lostCb' = call[c].req
    /\ UNCHANGED <<stream, new, setupCb, forces, closing, hwCall, overlap>>

AsioSetupGranted(c) ==
    /\ AsioStarts(c)
    /\ state' = "STOPPED" /\ UNCHANGED <<current, next, broken>>
    /\ tid' = current /\ dev' = current /\ open' = {current}
    /\ thread' = [CallbackThread(current, "idle") EXCEPT
                    ![IF dev = None THEN current ELSE dev].pc = IF dev = None THEN "idle" ELSE "off"]
    /\ UNCHANGED <<remaining, fault>> \/ AsioCalledInStart
    /\ req' = [req EXCEPT ![call[c].req].token = current]
    /\ Goto(c, "resync")

AsioSetupBroken(c) ==
    /\ AsioStarts(c) /\ Disposed
    /\ state' = "IDLE" /\ next' = next + 1 /\ current' = next + 1
    /\ broken' = TRUE
    /\ Goto(c, "refuse")
    /\ UNCHANGED <<remaining, fault, tid, req>>

\* outside of the lock
AsioSetupEnd(c) == (SetupResync(c) \/ SetupReturn(c) \/ SetupFail(c)) /\ UNCHANGED platform

(***************************************************************************)
(* force_teardown, teardown, start, stop                                   *)
(***************************************************************************)
AsioForceKicks(o, k) ==
    LET join == k.join \/ state # "IDLE"
        kicked == Unjoined(Kicked(k))
    IN  /\ Unlocked
        /\ next' = next + 1 /\ current' = next + 1 /\ state' = "IDLE"
        /\ lostCb' = IF state = "IDLE" THEN lostCb ELSE None
        /\ call' = [call EXCEPT ![o] = [kicked EXCEPT !.join = join,
                                                      !.pc = IF join THEN "stop" ELSE @]]
        /\ NowOverlap
        /\ UNCHANGED <<stream, new, remaining, setupCb, tid, thread, req, fault, deviceVars,
                       hwCall, broken>>

AsioForceEnter(o) ==
    /\ Idle(o) /\ forces < MaxForces /\ forces' = forces + 1
    /\ AsioForceKicks(o, [NoCall EXCEPT !.op = "force"])

AsioForceRetry(o) ==
    /\ call[o].op = "force" /\ call[o].pc = "check" /\ ~StillCurrent(o)
    /\ AsioForceKicks(o, call[o])
    /\ UNCHANGED forces

AsioForceReturn(o) == Unlocked /\ ForceReturn(o) /\ UNCHANGED platform

AsioTeardown(s, t) ==
    /\ Unlocked /\ GivesUp(s, t)
    /\ call' = [call EXCEPT ![s] = [NoCall EXCEPT !.op = "teardown", !.pc = "stop", !.join = TRUE]]
    /\ NowOverlap
    /\ UNCHANGED <<remaining, setupCb, tid, thread, forces, fault, deviceVars, hwCall, broken>>

AsioStart(s, t) == Unlocked /\ Start(s, t) /\ UNCHANGED platform
AsioStop(s, t)  == Unlocked /\ Stop(s, t) /\ UNCHANGED platform

(***************************************************************************)
(* bufferSwitchTimeInfo                                                    *)
(***************************************************************************)
AsioCalled(t) ==
    /\ t = dev /\ thread[t].pc = "idle" /\ ThreadGoes(t, "called")
    /\ UNCHANGED <<owned, remaining, setupCb, tid, call, req, forces, fault, platform>>

AsioPeriod(t) ==
    /\ thread[t].pc = "called" /\ Unlocked
    /\ \/ /\ new' = (new /\ stream = None)
          /\ thread' = [thread EXCEPT ![t].pc = "play", ![t].stream = stream]
       \/ /\ new /\ stream # None /\ UNCHANGED new
          /\ thread' = [thread EXCEPT ![t].pc = "play", ![t].stream = None]
    /\ UNCHANGED <<current, next, state, lostCb, stream, remaining, setupCb, tid, call, req,
                   forces, fault, platform>>

AsioPlay(t) ==
    /\ thread[t].pc = "play"
    /\ remaining' = IF remaining > 0 THEN remaining - 1 ELSE 0
    /\ ThreadGoes(t, IF remaining = 1 THEN "take" ELSE "idle")
    /\ UNCHANGED <<owned, setupCb, tid, call, req, forces, fault, platform>>

\* Mutant: setup_cb is called and kept.
TakeCopy == UNCHANGED setupCb

TakeCb == setupCb' = None

\* call_setup_cb: the callback is taken under the lock, if there is one, ...
AsioTake(t) ==
    /\ thread[t].pc = "take" /\ Unlocked
    /\ TakeCb
    /\ thread' = [thread EXCEPT ![t].pc = IF setupCb = None THEN "idle" ELSE "answer",
                                ![t].left = setupCb]
    /\ UNCHANGED <<owned, remaining, tid, call, req, forces, fault, platform>>

\* ... and called outside of it, with the token that is current by then
AsioAnswer(t) ==
    /\ thread[t].pc = "answer"
    /\ req' = Answered(thread[t].left, current)
    /\ thread' = [thread EXCEPT ![t].pc = "idle", ![t].left = 0]
    /\ UNCHANGED <<owned, remaining, setupCb, tid, call, forces, fault, platform>>

-----------------------------------------------------------------------------

AsioSession(s) ==
    \/ AsioSetupEnter(s) \/ AsioSetupRefused(s) \/ AsioSetupHolds(s) \/ AsioSetupGranted(s)
    \/ AsioSetupBroken(s) \/ AsioSetupEnd(s)
    \/ \E t \in Knows(s) : AsioTeardown(s, t) \/ AsioStart(s, t) \/ AsioStop(s, t)

AsioCallback(t) == AsioCalled(t) \/ AsioPeriod(t) \/ AsioPlay(t) \/ AsioTake(t) \/ AsioAnswer(t)

AsioNext ==
    /\ fault = "none"
    /\ \/ \E s \in Sessions : AsioSession(s)
       \/ \E o \in Others : AsioForceEnter(o) \/ AsioForceRetry(o) \/ AsioForceReturn(o)
       \/ \E c \in Callers : AsioCancel(c) \/ AsioTellLost(c) \/ AsioStopBegin(c) \/ AsioStopEnd(c)
       \/ \E t \in DOMAIN thread : AsioCallback(t)

AsioSpec == PlatformInit /\ [][AsioNext]_allVars

-----------------------------------------------------------------------------

\* A setup is answered once at most, whoever answers it.
AtMostOneAnswer == \A r \in DOMAIN req : req[r].answers <= 1

\* Who owns the output has a driver that runs, unless calls overlap.
DriverIsTheOwners == ~overlap /\ fault = "none" /\ state # "IDLE" => dev = current

\* raat_plugin_output_asio.cpp:1676: "don't call lost cb if we are calling setup cb too. It
\* will trash memory": a setup that was told of the loss of the output is not answered.
LostIsLast ==
    [][\A r \in DOMAIN req : req[r].losses > 0 => req'[r].answers = req[r].answers]_allVars

\* raat_plugin_output_asio.cpp: in_start is "used to prevent a deadlock in
\* bufferSwitchTimeInfo if it is called during start()".
NoDeadlockInStart == fault # "start"

=============================================================================
