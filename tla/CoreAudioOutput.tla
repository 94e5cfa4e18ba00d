---------------------------- MODULE CoreAudioOutput ----------------------------
(***************************************************************************)
(* The CoreAudio output (raat_plugin_output_coreaudio.c).  Each setup      *)
(* makes an audio unit, which calls the plugin back from a thread of the   *)
(* system.  The unit is stopped and disposed of under the plugin's lock,   *)
(* which the callback takes too.                                           *)
(***************************************************************************)
EXTENDS PlatformOutput

\* LOCKED_teardown_coreaudio, for the plugin's own unit: a callback that has the stream
\* already is waited for.  One that waits for the lock is waited for in vain, or it gets the
\* lock when the unit has gone.
DisposeUnit ==
    /\ dev' = None /\ open' = open \ {dev}
    /\ IF dev = None THEN UNCHANGED <<thread, fault>>
       ELSE CASE thread[dev].pc = "called" -> fault' \in {"none", "stuck"} /\ UNCHANGED thread
              [] thread[dev].pc = "idle"   -> ThreadGoes(dev, "off") /\ UNCHANGED fault
              [] thread[dev].pc = "off"    -> UNCHANGED <<thread, fault>>
              [] OTHER -> FALSE

KicksUnit == IF state = "IDLE" THEN UNCHANGED <<thread, fault, dev, open>> ELSE DisposeUnit

(***************************************************************************)
(* setup                                                                   *)
(***************************************************************************)
CoreSetupEnter(s) ==
    /\ SetupKicks(s) /\ KicksUnit
    /\ overlap' = (overlap \/ \E c \in Callers : ~Idle(c))
    /\ UNCHANGED <<remaining, setupCb, tid, forces, closing, hwCall, broken>>

\* The race is lost, or the format is not supported.
CoreSetupRefused(c) == SetupRefused(c) /\ UNCHANGED platform

\* The output has a new owner before the unit is made, and keeps it when that fails - with a
\* unit or without, which may have been given its callbacks.
CoreSetupOpens(c) ==
    /\ call[c].op = "setup" /\ call[c].pc = "check" /\ StillCurrent(c)
    /\ next' = next + 1 /\ current' = next + 1 /\ tid' = next + 1
    /\ state' = "STOPPED" /\ stream' = None
    /\ UNCHANGED <<new, forces, fault, closing, hwCall, overlap>>

CoreSetupBroken(c) ==
    /\ CoreSetupOpens(c)
    /\ \/ dev' = dev /\ UNCHANGED lostCb
       \/ dev' = next' /\ lostCb' \in {lostCb, call[c].req}
    /\ open' = open \union ({dev'} \ {None})
    /\ thread' = CallbackThread(next', "off")
    /\ call' = [call EXCEPT ![c].pc = "refuse", ![c].token = next']
    /\ broken' = TRUE
    /\ UNCHANGED <<remaining, setupCb, req>>

\* Mutant: the resync delay is begun outside of the lock, before the callback is stored.
CoreAnswerLater(c) == remaining' = ResyncBufs /\ UNCHANGED setupCb

CoreAnswerDue(c) == remaining' = ResyncBufs /\ setupCb' = call[c].req

CoreSetupGranted(c) ==
    /\ CoreSetupOpens(c)
    /\ lostCb' = call[c].req
    /\ dev' = next' /\ open' = open \union {next'}
    /\ thread' = CallbackThread(next', "idle")
    /\ CoreAnswerDue(c)
    /\ req' = [req EXCEPT ![call[c].req].token = next']
    /\ Return(c)
    /\ UNCHANGED broken

CoreSetupFail(c) == SetupFail(c) /\ UNCHANGED platform
CoreTellLost(c)  == TellLost(c) /\ UNCHANGED platform

(***************************************************************************)
(* force_teardown, teardown, start, stop                                   *)
(***************************************************************************)
CoreForceEnter(o) ==
    /\ ForceKicks(o) /\ KicksUnit
    /\ overlap' = (overlap \/ \E c \in Callers : ~Idle(c))
    /\ UNCHANGED <<remaining, setupCb, tid, req, closing, hwCall, broken>>

CoreForceRetry(o) ==
    /\ RetryKicks(o) /\ KicksUnit
    /\ UNCHANGED <<remaining, setupCb, tid, req, forces, closing, hwCall, history>>

CoreForceReturn(o) == ForceReturn(o) /\ UNCHANGED platform

CoreTeardown(s, t) ==
    /\ GivesUp(s, t) /\ DisposeUnit
    /\ UNCHANGED <<remaining, setupCb, tid, call, forces, closing, hwCall, history>>

CoreStart(s, t) == Start(s, t) /\ UNCHANGED platform
CoreStop(s, t)  == Stop(s, t) /\ UNCHANGED platform

(***************************************************************************)
(* ev_audiounits_datacb                                                    *)
(***************************************************************************)
CoreCalled(t) ==
    /\ thread[t].pc = "idle"
    /\ ThreadGoes(t, "called")
    /\ UNCHANGED <<owned, remaining, setupCb, tid, call, req, forces, fault, platform>>

CoreHasToken(t) == current = t

\* The critical section.  A callback whose token is not current returns with the lock held:
\* nobody gets into the plugin again.
CorePeriod(t) ==
    /\ thread[t].pc = "called"
    /\ IF ~CoreHasToken(t) THEN fault' = "locked" /\ UNCHANGED <<thread, new>>
       ELSE /\ UNCHANGED fault
            /\ \/ /\ new' = (new /\ stream = None)
                  /\ thread' = [thread EXCEPT ![t].pc = "play", ![t].stream = stream]
               \/ /\ new /\ stream # None /\ UNCHANGED new
                  /\ thread' = [thread EXCEPT ![t].pc = "play", ![t].stream = None]
    /\ UNCHANGED <<current, next, state, lostCb, stream, remaining, setupCb, tid, call, req,
                   forces, platform>>

CorePlay(t) ==
    /\ thread[t].pc = "play"
    /\ Countdown(t, "idle")
    /\ UNCHANGED <<owned, setupCb, tid, call, forces, platform>>

-----------------------------------------------------------------------------

CoreSession(s) ==
    \/ CoreSetupEnter(s) \/ CoreSetupRefused(s) \/ CoreSetupBroken(s) \/ CoreSetupGranted(s)
    \/ CoreSetupFail(s)
    \/ \E t \in Knows(s) : CoreTeardown(s, t) \/ CoreStart(s, t) \/ CoreStop(s, t)

CoreNext ==
    /\ fault = "none"
    /\ \/ \E s \in Sessions : CoreSession(s)
       \/ \E o \in Others : CoreForceEnter(o) \/ CoreForceRetry(o) \/ CoreForceReturn(o)
       \/ \E c \in Callers : CoreTellLost(c)
       \/ \E t \in DOMAIN thread : CoreCalled(t) \/ CorePeriod(t) \/ CorePlay(t)

CoreSpec == PlatformInit /\ [][CoreNext]_allVars

-----------------------------------------------------------------------------

\* While nobody owns the output there is no unit, and a unit belongs to the owner.
UnitIsTheOwners ==
    /\ open = {dev} \ {None}
    /\ state = "IDLE" => dev = None
    /\ dev # None => dev = current

\* A setup is answered once at most, with the token it was given, and not by a callback that
\* has no setup to answer.
AnsweredToOwner ==
    /\ fault # "null"
    /\ \A r \in DOMAIN req : req[r].answers <= 1
    /\ \A r \in DOMAIN req : req[r].token # None => req[r].told \subseteq {req[r].token}

=============================================================================
