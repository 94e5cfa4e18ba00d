----------------------------- MODULE OutputPlugin -----------------------------
(***************************************************************************)
(* The reference output plugin (raat_plugin_output_null.c): who owns the   *)
(* audio hardware.  Sessions take it (setup), give it up (teardown), start *)
(* and stop playback; a source selection plugin takes it away from whoever *)
(* has it (force_teardown).  Each setup that succeeds starts a hardware    *)
(* thread, which plays until it finds that its token is not current.       *)
(*                                                                         *)
(* Every function may be called by several threads at once.  A critical    *)
(* section is one step; what is done outside of the lock - joining the     *)
(* hardware thread, the callbacks, the resync delay, the setup callback -  *)
(* are steps of their own.  The null plugin's timing and the samples are   *)
(* left out: a thread may find the start time reached or not.              *)
(***************************************************************************)
EXTENDS Integers, Sequences, FiniteSets

CONSTANTS
    Sessions,       \* threads that run scripts: setup, teardown, start, stop
    Others,         \* threads that call force_teardown
    ResyncBufs,     \* resync_delay_secs, in hardware buffers
    MaxSetups, MaxForces    \* bounds on the number of calls

Callers == Sessions \union Others

ASSUME CallersAssumption == Sessions \intersect Others = {}
ASSUME BoundsAssumption ==
    ResyncBufs \in Nat \ {0} /\ MaxSetups \in Nat /\ MaxForces \in Nat

Invalid == -1       \* RAAT__OUTPUT_TOKEN_INVALID
None    == 0        \* no token, no request, a NULL callback

VARIABLES
    current, next,      \* current_token, next_token
    state,              \* IDLE, STOPPED or RUNNING
    lostCb,             \* cb_lost: the request it belongs to
    stream, new,        \* the stream, named by the token it was started with; new_stream
    remaining,          \* resync_delay_remaining_ns, in buffers
    setupCb,            \* setup_cb: the request it belongs to
    tid,                \* the last hardware thread, named by its token
    thread,             \* the hardware threads
    call,               \* the calls in progress, by caller
    req,                \* history: each call of setup and what became of it
    forces,             \* history: the number of calls of force_teardown
    fault               \* how the process died: "join" or "null"

owned == <<current, next, state, lostCb, stream, new>>
vars  == <<owned, remaining, setupCb, tid, thread, call, req, forces, fault>>

NoCall == [op |-> "none", pc |-> "idle", token |-> None, req |-> None,
           join |-> FALSE, target |-> None, lost |-> None]

Init ==
    /\ current = Invalid /\ next = 1 /\ state = "IDLE" /\ lostCb = None
    /\ stream = None /\ new = FALSE
    /\ remaining = 0 /\ setupCb = None /\ tid = None
    /\ thread = [t \in {} |-> None]
    /\ call = [c \in Callers |-> NoCall]
    /\ req = <<>> /\ forces = 0 /\ fault = "none"

Idle(c) == call[c].pc = "idle"
Goto(c, pc) == call' = [call EXCEPT ![c].pc = pc]
Return(c)   == call' = [call EXCEPT ![c] = NoCall]

\* What a session may pass as a token: the invalid one, from a setup that was not
\* answered when the session is closed, or one that a setup callback told it.
Knows(s) == {Invalid} \union UNION {req[r].told : r \in {r \in DOMAIN req : req[r].by = s}}

(***************************************************************************)
(* setup and force_teardown kick off the present owner                     *)
(***************************************************************************)

\* Mutant: the owner's callback stays where it is.
KickSilently(c, k) ==
    /\ next' = next + 1 /\ current' = next + 1
    /\ state' = "IDLE" /\ UNCHANGED lostCb
    /\ call' = [call EXCEPT ![c] =
                  [k EXCEPT !.pc = IF state # "IDLE" \/ k.join THEN "join" ELSE "check",
                            !.token = next + 1, !.join = @ \/ state # "IDLE"]]

\* A call k that kicks takes a fresh token, and the owner's callback for itself; what it
\* owes from an earlier round (see ForceRetry) stays owed.
Kicked(k) ==
    LET join == k.join \/ state # "IDLE"
        lost == IF state = "IDLE" THEN k.lost ELSE lostCb
    IN  [op |-> k.op, req |-> k.req, token |-> next + 1, join |-> join, lost |-> lost,
         target |-> None,
         pc |-> IF join THEN "join" ELSE IF lost # None THEN "lost" ELSE "check"]

Kick(c, k) ==
    /\ next' = next + 1 /\ current' = next + 1
    /\ state' = "IDLE"
    /\ lostCb' = IF state = "IDLE" THEN lostCb ELSE None
    /\ call' = [call EXCEPT ![c] = Kicked(k)]

SetupEnter(s) ==
    /\ Idle(s) /\ Len(req) < MaxSetups
    /\ req' = Append(req, [by |-> s, token |-> None, told |-> {}, answers |-> 0,
                           losses |-> 0, teardowns |-> 0])
    /\ Kick(s, [NoCall EXCEPT !.op = "setup", !.req = Len(req) + 1])
    /\ UNCHANGED <<stream, new, remaining, setupCb, tid, thread, forces, fault>>

ForceEnter(o) ==
    /\ Idle(o) /\ forces < MaxForces
    /\ forces' = forces + 1
    /\ Kick(o, [NoCall EXCEPT !.op = "force"])
    /\ UNCHANGED <<stream, new, remaining, setupCb, tid, thread, req, fault>>

(***************************************************************************)
(* uv_thread_join(&self->tid), outside of the lock: the thread joined is   *)
(* the one that tid names by then.  To join a thread that was joined, is   *)
(* being joined or never was is undefined: it returns or the process dies. *)
(***************************************************************************)
Joinable(t) ==
    /\ t \in DOMAIN thread /\ thread[t].pc # "joined"
    /\ \A c \in Callers : ~(call[c].pc = "joining" /\ call[c].target = t)

AfterJoin(k) ==
    IF k.op = "teardown" THEN NoCall
    ELSE [k EXCEPT !.pc = IF k.lost # None THEN "lost" ELSE "check"]

JoinBegin(c) ==
    /\ call[c].pc = "join"
    /\ \/ /\ Joinable(tid)
          /\ call' = [call EXCEPT ![c].pc = "joining", ![c].target = tid]
          /\ UNCHANGED fault
       \/ /\ ~Joinable(tid)
          /\ \/ call' = [call EXCEPT ![c] = AfterJoin(@)] /\ UNCHANGED fault
             \/ fault' = "join" /\ UNCHANGED call
    /\ UNCHANGED <<owned, remaining, setupCb, tid, thread, req, forces>>

JoinEnd(c) ==
    /\ call[c].pc = "joining" /\ thread[call[c].target].pc = "done"
    /\ thread' = [thread EXCEPT ![call[c].target].pc = "joined"]
    /\ call' = [call EXCEPT ![c] = AfterJoin(@)]
    /\ UNCHANGED <<owned, remaining, setupCb, tid, req, forces, fault>>

\* old_cb_lost(...)
TellLost(c) ==
    /\ call[c].pc = "lost"
    /\ req' = [req EXCEPT ![call[c].lost].losses = @ + 1]
    /\ Goto(c, "check")
    /\ UNCHANGED <<owned, remaining, setupCb, tid, thread, forces, fault>>

(***************************************************************************)
(* The rest of setup                                                       *)
(***************************************************************************)

\* Mutant: a setup that lost the race goes on all the same.
AlwaysCurrent(c) == TRUE

StillCurrent(c) == current = call[c].token

\* The second critical section.  A setup that lost the race changes nothing; else the
\* format is supported or not.
SetupRefused(c) ==
    /\ call[c].op = "setup" /\ call[c].pc = "check"
    /\ stream' = IF StillCurrent(c) THEN None ELSE stream
    /\ Goto(c, "refuse")
    /\ UNCHANGED <<current, next, state, lostCb, new, remaining, setupCb, tid, thread, req,
                   forces, fault>>

NewThread == [pc |-> "new", stream |-> None, left |-> 0]

SetupGranted(c) ==
    /\ call[c].op = "setup" /\ call[c].pc = "check" /\ StillCurrent(c)
    /\ next' = next + 1 /\ current' = next + 1 /\ tid' = next + 1
    /\ state' = "STOPPED" /\ stream' = None
    /\ lostCb' = call[c].req
    /\ thread' = [t \in DOMAIN thread \union {next + 1} |->
                     IF t \in DOMAIN thread THEN thread[t] ELSE NewThread]
    /\ req' = [req EXCEPT ![call[c].req].token = next + 1]
    /\ call' = [call EXCEPT ![c].pc = "resync", ![c].token = next + 1]
    /\ UNCHANGED <<new, remaining, setupCb, forces, fault>>

\* outside of the lock
SetupResync(c) ==
    /\ call[c].pc = "resync"
    /\ remaining' = ResyncBufs
    /\ Goto(c, "callback")
    /\ UNCHANGED <<owned, setupCb, tid, thread, req, forces, fault>>

SetupReturn(c) ==
    /\ call[c].pc = "callback"
    /\ setupCb' = call[c].req
    /\ Return(c)
    /\ UNCHANGED <<owned, remaining, tid, thread, req, forces, fault>>

Answered(r, t) == [req EXCEPT ![r].answers = @ + 1, ![r].told = @ \union {t}]

\* cb_setup(..., status, token)
SetupFail(c) ==
    /\ call[c].pc = "refuse"
    /\ req' = Answered(call[c].req, call[c].token)
    /\ Return(c)
    /\ UNCHANGED <<owned, remaining, setupCb, tid, thread, forces, fault>>

(***************************************************************************)
(* The rest of force_teardown: it tries again when somebody took the       *)
(* hardware meanwhile, with needs_join and old_cb_lost as they are         *)
(***************************************************************************)
ForceRetry(o) ==
    /\ call[o].op = "force" /\ call[o].pc = "check" /\ ~StillCurrent(o)
    /\ Kick(o, call[o])
    /\ UNCHANGED <<stream, new, remaining, setupCb, tid, thread, req, forces, fault>>

ForceReturn(o) ==
    /\ call[o].op = "force" /\ call[o].pc = "check" /\ StillCurrent(o)
    /\ stream' = None
    /\ Return(o)
    /\ UNCHANGED <<current, next, state, lostCb, new, remaining, setupCb, tid, thread, req,
                   forces, fault>>

(***************************************************************************)
(* teardown, start, stop: for the holder of the current token              *)
(***************************************************************************)

\* Mutant: the stream is left for the next owner.
LeaveStream == UNCHANGED stream

DropStream == stream' = None

\* Mutant: the state is left as it is.
VacateTokenOnly == current' = Invalid /\ lostCb' = None /\ UNCHANGED state

Vacate == current' = Invalid /\ lostCb' = None /\ state' = "IDLE"

Teardown(s, t) ==
    /\ Idle(s) /\ current = t
    /\ Vacate
    /\ DropStream
    /\ req' = [r \in DOMAIN req |-> IF req[r].token = t
                                        THEN [req[r] EXCEPT !.teardowns = @ + 1] ELSE req[r]]
    /\ call' = [call EXCEPT ![s] = [NoCall EXCEPT !.op = "teardown", !.pc = "join"]]
    /\ UNCHANGED <<next, new, remaining, setupCb, tid, thread, forces, fault>>

Start(s, t) ==
    /\ Idle(s) /\ current = t /\ state = "STOPPED"
    /\ state' = "RUNNING" /\ stream' = t /\ new' = TRUE
    /\ UNCHANGED <<current, next, lostCb, remaining, setupCb, tid, thread, call, req, forces,
                   fault>>

Stop(s, t) ==
    /\ Idle(s) /\ current = t /\ state = "RUNNING"
    /\ state' = "STOPPED"
    /\ DropStream
    /\ UNCHANGED <<current, next, lostCb, new, remaining, setupCb, tid, thread, call, req,
                   forces, fault>>

(***************************************************************************)
(* null_output_thread                                                      *)
(***************************************************************************)

\* Mutant: the thread does not look at its token.
Unchecked(t) == TRUE

TokenCurrent(t) == current = t

ThreadBegin(t) ==
    /\ thread[t].pc = "new"
    /\ thread' = [thread EXCEPT ![t].pc = IF TokenCurrent(t) THEN "loop" ELSE "done"]
    /\ UNCHANGED <<owned, remaining, setupCb, tid, call, req, forces, fault>>

\* The critical section of one period: a new stream is taken when its start time has come,
\* till then the thread keeps the stream it has.  A thread that ends keeps its stream.
ThreadPeriod(t) ==
    /\ thread[t].pc = "loop"
    /\ \/ /\ TokenCurrent(t)
          /\ \/ /\ new /\ stream # None
                /\ \/ new' = FALSE /\ thread' = [thread EXCEPT ![t].pc = "play",
                                                               ![t].stream = stream]
                   \/ UNCHANGED new /\ thread' = [thread EXCEPT ![t].pc = "play"]
             \/ /\ ~(new /\ stream # None)
                /\ thread' = [thread EXCEPT ![t].pc = "play", ![t].stream = stream]
                /\ UNCHANGED new
       \/ /\ ~TokenCurrent(t)
          /\ thread' = [thread EXCEPT ![t].pc = "done"]
          /\ UNCHANGED new
    /\ UNCHANGED <<current, next, state, lostCb, stream, remaining, setupCb, tid, call, req,
                   forces, fault>>

Resyncing == remaining > 0

\* Outside of the lock: while it is not over, the resync delay is counted down, by a load
\* and a store that race with setup ...
ThreadPlay(t) ==
    /\ thread[t].pc = "play"
    /\ thread' = [thread EXCEPT ![t].pc = IF Resyncing THEN "count" ELSE "loop",
                                ![t].left = IF Resyncing THEN remaining - 1 ELSE 0]
    /\ UNCHANGED <<owned, remaining, setupCb, tid, call, req, forces, fault>>

ThreadCount(t) ==
    /\ thread[t].pc = "count"
    /\ remaining' = thread[t].left
    /\ thread' = [thread EXCEPT ![t].pc = "test"]
    /\ UNCHANGED <<owned, setupCb, tid, call, req, forces, fault>>

\* ... and when it is over, the setup callback is called.  The test may load the counter
\* once more or use the value just stored.
ThreadAnswer(t) ==
    /\ thread[t].pc = "test"
    /\ \/ /\ thread[t].left > 0 \/ remaining > 0
          /\ thread' = [thread EXCEPT ![t].pc = "loop", ![t].left = 0]
          /\ UNCHANGED <<req, fault>>
       \/ /\ thread[t].left = 0 \/ remaining = 0
          /\ \/ setupCb = None /\ fault' = "null" /\ UNCHANGED <<req, thread>>
             \/ /\ setupCb # None
                /\ req' = Answered(setupCb, t)
                /\ thread' = [thread EXCEPT ![t].pc = "loop", ![t].left = 0]
                /\ UNCHANGED fault
    /\ UNCHANGED <<owned, remaining, setupCb, tid, call, forces>>

ThreadStep(t) == ThreadBegin(t) \/ ThreadPeriod(t) \/ ThreadPlay(t) \/ ThreadCount(t)
                 \/ ThreadAnswer(t)

-----------------------------------------------------------------------------

SessionNext(s) ==
    \/ SetupEnter(s) \/ SetupRefused(s) \/ SetupGranted(s) \/ SetupResync(s)
    \/ SetupReturn(s) \/ SetupFail(s)
    \/ \E t \in Knows(s) : Teardown(s, t) \/ Start(s, t) \/ Stop(s, t)

OtherNext(o) == ForceEnter(o) \/ ForceRetry(o) \/ ForceReturn(o)

\* nothing happens in a process that died
Next ==
    /\ fault = "none"
    /\ \/ \E s \in Sessions : SessionNext(s)
       \/ \E o \in Others : OtherNext(o)
       \/ \E c \in Callers : JoinBegin(c) \/ JoinEnd(c) \/ TellLost(c)
       \/ \E t \in DOMAIN thread : ThreadStep(t)

Spec == Init /\ [][Next]_vars

\* The hardware threads are scheduled; a period ends.
MaxTokens == 2 * MaxSetups + MaxForces * (2 * MaxSetups + 1) + 1

HardwareStep(t) == fault = "none" /\ t \in DOMAIN thread /\ ThreadStep(t)

FairSpec == Spec /\ \A t \in 1..MaxTokens : WF_vars(HardwareStep(t))

-----------------------------------------------------------------------------
(***************************************************************************)
(* Properties                                                              *)
(***************************************************************************)

Token   == Nat \ {0}
Request == [by : Sessions, token : Nat, told : SUBSET Nat, answers : Nat, losses : Nat,
            teardowns : Nat]

Call    == [op : {"none", "setup", "force", "teardown"},
            pc : {"idle", "join", "joining", "lost", "check", "resync", "callback", "refuse"},
            token : Nat, req : Nat, join : BOOLEAN, target : Nat, lost : Nat]
Thread  == [pc : {"new", "loop", "play", "count", "test", "done", "joined"},
            stream : Nat, left : 0..ResyncBufs]

\* when n requests were made and the threads ts created
CallOK(k, n, ts) ==
    /\ k \in Call /\ k.req <= n /\ k.lost <= n
    /\ k.op = "setup" => k.req # None
    /\ k.op = "teardown" => k.lost = None
    /\ k.pc \in {"resync", "callback", "refuse"} => k.op = "setup"
    /\ k.pc = "lost" => k.lost # None
    /\ k.pc = "joining" => k.target \in ts

CallsOK(calls, n, ts) ==
    calls \in [Callers -> Call] /\ \A c \in Callers : CallOK(calls[c], n, ts)

TypeOK ==
    /\ next \in Token /\ current \in 1..next \union {Invalid}
    /\ state \in {"IDLE", "STOPPED", "RUNNING"}
    /\ req \in Seq(Request)
    /\ lostCb \in 0..Len(req) /\ setupCb \in 0..Len(req)
    /\ stream \in Nat /\ new \in BOOLEAN
    /\ remaining \in 0..ResyncBufs
    /\ DOMAIN thread \subseteq 1..next /\ tid \in DOMAIN thread \union {None}
    /\ thread \in [DOMAIN thread -> Thread]
    /\ CallsOK(call, Len(req), DOMAIN thread)
    /\ forces \in Nat /\ fault \in {"none", "join", "null"}

\* While somebody owns the hardware, the thread of its token runs and nobody has joined
\* it: an owner is never left with a dead device.
OwnerHasThread ==
    state # "IDLE" =>
        /\ current = tid /\ tid \in DOMAIN thread
        /\ thread[tid].pc \notin {"done", "joined"}

BeingTold(r) ==
    \E c \in Callers : call[c].lost = r /\ call[c].pc \in {"join", "joining", "lost"}

\* Nobody loses the hardware in silence, and nobody is told without having lost it: a
\* setup that was granted still owns the hardware, or was torn down by its owner, once, or
\* was told of the loss or is about to be - and only one of these.
Handover ==
    \A r \in DOMAIN req :
        LET owns == state # "IDLE" /\ current = req[r].token /\ lostCb = r
            torn == req[r].teardowns = 1
            lost == req[r].losses > 0 \/ BeingTold(r)
        IN  IF req[r].token = None THEN ~lost /\ req[r].teardowns = 0
            ELSE /\ owns \/ torn \/ lost
                 /\ owns \/ lost => req[r].teardowns = 0
                 /\ ~(owns /\ lost)

\* What plays is the owner's: a new owner begins with silence, whatever the owner before it
\* left, and a thread never has a stream that was started with another token than its own.
PlaysOwnStream ==
    /\ state = "STOPPED" => stream = None
    /\ state = "RUNNING" => stream = current
    /\ \A t \in DOMAIN thread : thread[t].stream \in {None, t}

Ended(t) == thread[t].pc \in {"done", "joined"} \/ fault # "none"

\* A hardware thread that lost its token ends.
LostThreadEnds ==
    \A t \in 1..MaxTokens :
        (t \in DOMAIN thread /\ current # t) ~> (t \in DOMAIN thread => Ended(t))

Ownership == INSTANCE OutputOwnership WITH
                 owner   <- IF state = "IDLE" THEN None ELSE current,
                 playing <- state = "RUNNING",
                 issued  <- tid

\* The plugin keeps the promise of the ownership token.
ImplementsOwnership == Ownership!Spec

-----------------------------------------------------------------------------
(***************************************************************************)
(* What the header says, and the null plugin does not keep                 *)
(***************************************************************************)
\* raat_plugin_output.h:228: "cb_setup must be called exactly once for each call to setup".
CbSetupOnce ==
    \A r \in DOMAIN req :
        /\ req[r].answers <= 1
        /\ (/\ req[r].token # None /\ thread[req[r].token].pc \in {"done", "joined"}
            /\ \A c \in Callers : call[c].req # r) => req[r].answers = 1

\* raat_plugin_output.h:314: "Before this function returns, Roon will have relinquished its
\* hold on the audio device".
ForceTeardownRelinquishes ==
    [][\A o \in Others : ForceReturn(o) =>
           \A t \in DOMAIN thread : thread[t].pc \in {"new", "done", "joined"}]_vars

=============================================================================
