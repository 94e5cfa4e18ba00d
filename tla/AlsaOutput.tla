------------------------------ MODULE AlsaOutput ------------------------------
(***************************************************************************)
(* The ALSA output (raat_plugin_output_alsa.c): the reference plugin with  *)
(* a pcm.  It is opened by setup under the lock, copied by the hardware    *)
(* thread, and closed by whoever has joined the thread - or by the next    *)
(* setup or force_teardown that finds it.  The thread gives up when the    *)
(* device is not ready, and takes the output away when it has gone.        *)
(* Formats are in AlsaFormats; software volume is outside.                 *)
(***************************************************************************)
EXTENDS PlatformOutput

(***************************************************************************)
(* setup                                                                   *)
(***************************************************************************)
AlsaSetupEnter(s) == SetupEnter(s) /\ Enters

\* The pcm that an earlier owner left is closed first.  A refused setup leaves its own open
\* when the device has not accepted the parameters.
Reopen(h) ==
    /\ dev' = h
    /\ open' = (open \ {dev}) \union ({h} \ {None})
    /\ UNCHANGED <<closing, hwCall, history>>

AlsaSetupRefused(c) ==
    /\ SetupRefused(c)
    /\ IF StillCurrent(c) THEN Reopen(None) \/ Reopen(call[c].token) ELSE UNCHANGED platform

AlsaSetupGranted(c) == SetupGranted(c) /\ Reopen(next')

AlsaSetupEnd(c) == (SetupResync(c) \/ SetupReturn(c) \/ SetupFail(c)) /\ UNCHANGED platform

(***************************************************************************)
(* force_teardown                                                          *)
(***************************************************************************)
AlsaForceEnter(o) == hwCall[o] = None /\ ForceEnter(o) /\ Enters

\* Mutant: the pcm is left to the next setup, and forgotten.
ForgetPcm == dev' = None /\ UNCHANGED open

ClosePcm == dev' = None /\ open' = open \ {dev}

AlsaForceEnd(o) ==
    \/ ForceRetry(o) /\ UNCHANGED platform
    \/ ForceReturn(o) /\ ClosePcm /\ UNCHANGED <<closing, hwCall, history>>

(***************************************************************************)
(* teardown takes the pcm with it, and closes it when the thread has ended *)
(***************************************************************************)
AlsaTeardown(s, t) ==
    /\ Teardown(s, t)
    /\ dev' = None /\ closing' = [closing EXCEPT ![s] = dev]
    /\ overlap' = (overlap \/ \E c \in Callers : ~Idle(c))
    /\ UNCHANGED <<open, hwCall, broken>>

AlsaJoin(c) ==
    /\ Join(c)
    /\ IF call'[c].pc \in {"join", "joining"} THEN UNCHANGED <<open, closing>>
       ELSE open' = open \ {closing[c]} /\ closing' = [closing EXCEPT ![c] = None]
    /\ UNCHANGED <<dev, hwCall, history>>

AlsaTellLost(c) == TellLost(c) /\ UNCHANGED platform

AlsaStart(s, t) == Start(s, t) /\ UNCHANGED platform
AlsaStop(s, t)  == Stop(s, t) /\ UNCHANGED platform

(***************************************************************************)
(* alsa_output_thread                                                      *)
(***************************************************************************)

\* The thread copies the pcm and waits for the device, which may not get ready: then it
\* ends, and the setup is neither answered nor undone.
AlsaBegin(t) ==
    /\ thread[t].pc = "new"
    /\ \/ current = t /\ ThreadGoes(t, "loop") /\ UNCHANGED broken
       \/ current = t /\ ThreadGoes(t, "done") /\ broken' = TRUE
       \/ current # t /\ ThreadGoes(t, "done") /\ UNCHANGED broken
    /\ UNCHANGED <<owned, remaining, setupCb, tid, call, req, forces, fault, deviceVars, hwCall,
                   overlap>>

\* Mutant: the thread goes on with the stream it has.
AnyToken(t) == TRUE

HasToken(t) == current = t

\* The top of the loop asks the pcm for its delay; then, under the lock, the thread takes the
\* stream, or none as long as the start time of a new one has not come.
AlsaPeriod(t) ==
    /\ thread[t].pc = "loop"
    /\ Touch(t)
    /\ IF ~HasToken(t) THEN ThreadGoes(t, "done") /\ UNCHANGED new
       ELSE \/ /\ new' = (new /\ stream = None)
               /\ thread' = [thread EXCEPT ![t].pc = "play", ![t].stream = stream]
            \/ /\ new /\ stream # None /\ UNCHANGED new
               /\ thread' = [thread EXCEPT ![t].pc = "play", ![t].stream = None]
    /\ UNCHANGED <<current, next, state, lostCb, stream, remaining, setupCb, tid, call, req,
                   forces, platform>>

AlsaPlay(t) ==
    /\ thread[t].pc = "play"
    /\ Countdown(t, "write")
    /\ UNCHANGED <<owned, setupCb, tid, call, forces, platform>>

\* snd_pcm_writei: an underrun is recovered from; when the device has gone, the thread
\* itself calls force_teardown, which joins it, closes the pcm, and comes back to the loop.
AlsaWrite(t) ==
    /\ thread[t].pc = "write"
    /\ \/ /\ Touch(t) /\ ThreadGoes(t, "loop")
          /\ UNCHANGED <<owned, call, forces, platform>>
       \/ \E o \in Others :
             /\ hwCall[o] = None
             /\ Idle(o) /\ forces < MaxForces /\ forces' = forces + 1
             /\ Kick(o, [NoCall EXCEPT !.op = "force"])
             /\ ThreadForces(t, o) /\ ThreadGoes(t, "gone")
             /\ UNCHANGED <<stream, new, fault, deviceVars>>
    /\ UNCHANGED <<remaining, setupCb, tid, req>>

AlsaResume(t) ==
    /\ thread[t].pc = "gone"
    /\ \E o \in Others : hwCall[o] = t /\ Idle(o) /\ hwCall' = [hwCall EXCEPT ![o] = None]
    /\ ThreadGoes(t, "loop")
    /\ UNCHANGED <<owned, remaining, setupCb, tid, call, req, forces, fault, deviceVars, history>>

-----------------------------------------------------------------------------

AlsaSession(s) ==
    \/ AlsaSetupEnter(s) \/ AlsaSetupRefused(s) \/ AlsaSetupGranted(s) \/ AlsaSetupEnd(s)
    \/ \E t \in Knows(s) : AlsaTeardown(s, t) \/ AlsaStart(s, t) \/ AlsaStop(s, t)

AlsaThread(t) ==
    AlsaBegin(t) \/ AlsaPeriod(t) \/ AlsaPlay(t) \/ AlsaWrite(t) \/ AlsaResume(t)

AlsaNext ==
    /\ fault = "none"
    /\ \/ \E s \in Sessions : AlsaSession(s)
       \/ \E o \in Others : AlsaForceEnter(o) \/ AlsaForceEnd(o)
       \/ \E c \in Callers : AlsaJoin(c) \/ AlsaTellLost(c)
       \/ \E t \in DOMAIN thread : AlsaThread(t)

AlsaSpec == PlatformInit /\ [][AlsaNext]_allVars

=============================================================================
