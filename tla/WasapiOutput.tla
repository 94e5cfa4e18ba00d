----------------------------- MODULE WasapiOutput -----------------------------
(***************************************************************************)
(* The WASAPI output (raat_plugin_output_wasapi.cpp).  The hardware thread *)
(* opens the audio client and closes it when it ends; setup holds the lock *)
(* till the thread has started or failed, so its second critical section   *)
(* and the start of the thread are one step.  setup_cb, cb_lost and the    *)
(* resync delay are the thread's own; it stores cb_lost in the plugin      *)
(* without the lock when it has called setup_cb.                           *)
(***************************************************************************)
EXTENDS PlatformOutput

\* fate is a history: what became of the setup's two callbacks.
WasapiThread(t, r, pc) ==
    [u \in DOMAIN thread \union {t} |->
        IF u = t THEN [pc |-> pc, stream |-> None, left |-> ResyncBufs, req |-> r,
                       cb |-> TRUE, lost |-> None, fate |-> "open"]
        ELSE thread[u]]

(***************************************************************************)
(* setup                                                                   *)
(***************************************************************************)
WasapiSetupEnter(s) == SetupEnter(s) /\ Enters

\* The thread opens the client with the negotiated format, ...
ClientOpens(t) == tid' = t /\ open' = open \union {t}

\* ... fills a first buffer and starts it: both may fail, and the failure is setup's.
ClientFails(t, r) == thread' = WasapiThread(t, r, "failed") /\ broken' = TRUE
ClientRuns(t, r)  == thread' = WasapiThread(t, r, "fill") /\ UNCHANGED broken

\* The race is lost, or the format is not supported, or the thread could not start.
WasapiSetupRefused(c) ==
    \/ SetupRefused(c) /\ UNCHANGED platform
    \/ /\ call[c].op = "setup" /\ call[c].pc = "check" /\ StillCurrent(c)
       /\ stream' = None
       /\ ClientOpens(call[c].token) /\ ClientFails(tid', call[c].req)
       /\ Goto(c, "refuse")
       /\ UNCHANGED <<current, next, state, lostCb, new, remaining, setupCb, req, forces, fault,
                      dev, closing, hwCall, overlap>>

WasapiSetupGranted(c) ==
    /\ call[c].op = "setup" /\ call[c].pc = "check" /\ StillCurrent(c)
    /\ state' = "STOPPED" /\ stream' = None
    /\ ClientOpens(call[c].token) /\ ClientRuns(tid', call[c].req)
    /\ req' = [req EXCEPT ![call[c].req].token = tid']
    /\ Return(c)
    /\ UNCHANGED <<current, next, lostCb, new, remaining, setupCb, forces, fault, dev, closing,
                   hwCall, overlap>>

WasapiSetupFail(c) == SetupFail(c) /\ UNCHANGED platform

(***************************************************************************)
(* force_teardown, teardown, start, stop                                   *)
(***************************************************************************)
WasapiForceEnter(o) == ForceEnter(o) /\ Enters
WasapiForceEnd(o)   == (ForceRetry(o) \/ ForceReturn(o)) /\ UNCHANGED platform

WasapiTeardown(s, t) == Teardown(s, t) /\ Enters
WasapiStart(s, t)    == Start(s, t) /\ UNCHANGED platform
WasapiStop(s, t)     == Stop(s, t) /\ UNCHANGED platform

WasapiJoin(c) == (JoinBegin(c) \/ JoinEnd(c)) /\ UNCHANGED platform
WasapiTell(c) == TellLost(c) /\ UNCHANGED platform

(***************************************************************************)
(* wasapi_output_thread, from its first buffer on                          *)
(***************************************************************************)

\* The critical section of fill_buffer
WasapiFill(t) ==
    /\ thread[t].pc = "fill"
    /\ IF current # t THEN ThreadGoes(t, "exit") /\ UNCHANGED new
       ELSE \/ /\ new' = (new /\ stream = None)
               /\ thread' = [thread EXCEPT ![t].pc = "play", ![t].stream = stream]
            \/ /\ new /\ stream # None /\ UNCHANGED new
               /\ thread' = [thread EXCEPT ![t].pc = "play", ![t].stream = None]
    /\ UNCHANGED <<current, next, state, lostCb, stream, remaining, setupCb, tid, call, req,
                   forces, fault, platform>>

\* Mutant: setup_cb stays set when it has been called.
KeepCb(k) == [k EXCEPT !.pc = "store"]

CbCalled(k) == [k EXCEPT !.pc = "store", !.cb = FALSE]

\* ... and the rest of it: the resync delay ends in this buffer, or not.
WasapiPlay(t) ==
    /\ thread[t].pc = "play"
    /\ IF thread[t].left = 1
       THEN /\ thread' = [thread EXCEPT ![t] = CbCalled([@ EXCEPT !.left = 0])]
            /\ req' = Answered(thread[t].req, t)
       ELSE /\ thread' = [thread EXCEPT ![t].pc = "buffer",
                                        ![t].left = IF @ > 0 THEN @ - 1 ELSE 0]
            /\ UNCHANGED req
    /\ UNCHANGED <<owned, remaining, setupCb, tid, call, forces, fault, platform>>

Owns(t) == state # "IDLE" /\ current = t

\* Whoever kicked the owner off since setup_cb was called found no cb_lost to call.
StoredAs(t) == IF Owns(t) THEN "open" ELSE "late"

WasapiStoreLost(t) ==
    /\ thread[t].pc = "store"
    /\ lostCb' = thread[t].req
    /\ thread' = [thread EXCEPT ![t].pc = "buffer", ![t].fate = StoredAs(t)]
    /\ UNCHANGED <<current, next, state, stream, new, remaining, setupCb, tid, call, req, forces,
                   fault, platform>>

\* The next buffer comes, or the device fails or is not the default device any more.
WasapiBuffer(t) ==
    /\ thread[t].pc = "buffer"
    /\ \/ ThreadGoes(t, "fill") /\ UNCHANGED broken
       \/ ThreadGoes(t, "exit") /\ broken' = TRUE
    /\ UNCHANGED <<owned, remaining, setupCb, tid, call, req, forces, fault, deviceVars, hwCall,
                   overlap>>

\* exit, within the resync delay: the setup fails.
WasapiExitEarly(t) ==
    /\ thread[t].pc = "exit" /\ thread[t].cb
    /\ req' = Answered(thread[t].req, t)
    /\ thread' = [thread EXCEPT ![t].pc = "end", ![t].cb = FALSE, ![t].fate = "failed"]
    /\ UNCHANGED <<owned, remaining, setupCb, tid, call, forces, fault, platform>>

\* exit, after it: on_output_lost, which takes the output from whoever has it ...
WasapiExitLost(t) ==
    /\ thread[t].pc = "exit" /\ ~thread[t].cb
    /\ IF state = "IDLE" THEN ThreadGoes(t, "end") /\ UNCHANGED <<state, lostCb, stream>>
       ELSE /\ state' = "IDLE" /\ lostCb' = None /\ stream' = None
            /\ thread' = [thread EXCEPT ![t].pc = IF lostCb = None THEN "end" ELSE "tell",
                                        ![t].lost = lostCb]
    /\ UNCHANGED <<current, next, new, remaining, setupCb, tid, call, req, forces, fault, platform>>

\* ... and tells them
WasapiTellLost(t) ==
    /\ thread[t].pc = "tell"
    /\ req' = [req EXCEPT ![thread[t].lost].losses = @ + 1]
    /\ thread' = [thread EXCEPT ![t].pc = "end", ![t].lost = None]
    /\ UNCHANGED <<owned, remaining, setupCb, tid, call, forces, fault, platform>>

\* The client is stopped and released; one that was never made is a NULL pointer.
WasapiEnd(t) ==
    /\ thread[t].pc \in {"end", "failed"}
    /\ ThreadGoes(t, "done")
    /\ open' = open \ {t}
    /\ fault' \in IF thread[t].pc = "failed" THEN {"none", "null"} ELSE {"none"}
    /\ UNCHANGED <<owned, remaining, setupCb, tid, call, req, forces, dev, closing, hwCall, history>>

-----------------------------------------------------------------------------

WasapiSession(s) ==
    \/ WasapiSetupEnter(s) \/ WasapiSetupRefused(s) \/ WasapiSetupGranted(s) \/ WasapiSetupFail(s)
    \/ \E t \in Knows(s) : WasapiTeardown(s, t) \/ WasapiStart(s, t) \/ WasapiStop(s, t)

WasapiThreadStep(t) ==
    \/ WasapiFill(t) \/ WasapiPlay(t) \/ WasapiStoreLost(t) \/ WasapiBuffer(t)
    \/ WasapiExitEarly(t) \/ WasapiExitLost(t) \/ WasapiTellLost(t) \/ WasapiEnd(t)

WasapiNext ==
    /\ fault = "none"
    /\ \/ \E s \in Sessions : WasapiSession(s)
       \/ \E o \in Others : WasapiForceEnter(o) \/ WasapiForceEnd(o)
       \/ \E c \in Callers : WasapiJoin(c) \/ WasapiTell(c)
       \/ \E t \in DOMAIN thread : WasapiThreadStep(t)

WasapiSpec == PlatformInit /\ [][WasapiNext]_allVars

-----------------------------------------------------------------------------

\* raat_plugin_output.h:228: cb_setup is called once for each setup: by setup itself or by
\* the thread, which never ends without having called it.
AnsweredOnce ==
    \A r \in DOMAIN req :
        /\ req[r].answers <= 1
        /\ req[r].answers = 0 =>
              \/ \E c \in Callers : call[c].req = r
              \/ \E t \in DOMAIN thread : thread[t].req = r /\ thread[t].cb
                                          /\ thread[t].pc \notin {"end", "done", "joined"}

\* Nobody is told of the loss of an output before it was told to have it.  Who owns the
\* output has a thread, or was told by the setup callback that there is none.
OwnersKnow ==
    /\ \A r \in DOMAIN req : req[r].losses > 0 => req[r].answers = 1
    /\ state # "IDLE" =>
          /\ current = tid
          /\ thread[tid].pc \in {"end", "done", "joined"} =>
                req[thread[tid].req].answers = 1 /\ broken

\* The loss of the output reaches whoever was granted it: through cb_lost, which its thread
\* stored or hands on itself when the device fails, or as the failure of the setup, which the
\* thread still has to answer or answered so.  A callback stored too late reaches nobody.
WasapiReported(r) ==
    LET t == req[r].token
    IN  \/ LossReported(r)
        \/ \E u \in DOMAIN thread : thread[u].lost = r
        \/ thread[t].cb \/ thread[t].pc = "store"
        \/ thread[t].fate \in {"failed", "late"}

WasapiLossesReported == \A r \in DOMAIN req : req[r].token # None => WasapiReported(r)

\* One client is open at a time, unless calls overlap or the device breaks.
OneClient == ~overlap /\ ~broken => Cardinality(open) <= 1

=============================================================================
