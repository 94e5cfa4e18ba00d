------------------------------ MODULE RAATServer ------------------------------
(***************************************************************************)
(* The server (raat_server.c), the sessions of its clients                 *)
(* (raat_session.c) and the event loop of the device that runs them        *)
(* (raat_device.c).                                                        *)
(*                                                                         *)
(* A client has a socket on the loop and a session with a thread of its    *)
(* own.  Both threads have a queue of posted handlers and an async handle  *)
(* to wake them.  The loop calls the async handles that are pending in the *)
(* order they were initialised in; a handle that was initialised during    *)
(* the pass is still reached by it.  What happens between two callbacks of *)
(* the loop, or between two critical sections, is a step of its own; the   *)
(* loop thread is blocked while it joins a session's thread.               *)
(***************************************************************************)
EXTENDS Integers, SequencesExt

CONSTANTS
    Clients,        \* connections
    MaxInputs,      \* bound: what clients send, sessions post and the application asks to rebind
    MaxRuns         \* bound: calls of device_run

ASSUME BoundsAssumption == MaxInputs \in Nat /\ MaxRuns \in Nat

NoClient == "no client"     \* of work that belongs to no client
ASSUME ClientsAssumption == NoClient \notin Clients

VARIABLES
    running,        \* the device's is_running
    listener,       \* "none", "open", or "dead" after a rebind that failed
    life,           \* of each client: "new", "open", "destroying", "closing", "freed"
    session,        \* of each client: its session
    posts,          \* post_handlers of the server
    asyncs,         \* the async handles of the loop, in the order of their initialisation
    closing,        \* whether handles wait for their close callback
    loop,           \* what the loop thread does
    inputs, runs,   \* history
    fault           \* "freed": a client was used after it was freed; "close": a handle was
                    \* closed twice; "init": a handle in use was initialised

work == <<posts, asyncs>>
hist == <<inputs, runs>>
vars == <<running, listener, life, session, work, closing, loop, hist, fault>>

\* a post handler, and an async handle with its flag
Post(kind, c)  == [kind |-> kind, client |-> c]
Async(kind, c) == [kind |-> kind, client |-> c, pending |-> 0]

NoSession == [pc |-> "none", queue |-> <<>>, posted |-> 0, stop |-> 0]

Init ==
    /\ running = FALSE /\ listener = "none"
    /\ life = [c \in Clients |-> "new"]
    /\ session = [c \in Clients |-> NoSession]
    /\ posts = <<>> /\ asyncs = <<>> /\ closing = FALSE
    /\ loop = [pc |-> "out", at |-> 0, client |-> NoClient, ret |-> "poll"]
    /\ inputs = 0 /\ runs = 0 /\ fault = "none"

\* one more input
Input == inputs < MaxInputs /\ inputs' = inputs + 1

Polling == loop.pc = "poll"
Unused(c) == life[c] = "freed"

\* uv_async_send on the handles of that kind
Signaled(kind) ==
    [i \in DOMAIN asyncs |-> [asyncs[i] EXCEPT !.pending = IF asyncs[i].kind = kind THEN 1 ELSE @]]

Initialized(kind, c) == Append(asyncs, [Async(kind, c) EXCEPT !.pending = 1])

\* RAAT__server_post
ServerPost(kind, c) ==
    /\ posts' = Append(posts, Post(kind, c))
    /\ asyncs' = Signaled("post")

(***************************************************************************)
(* The application: device_run, device_stop and device_rebind              *)
(***************************************************************************)
Run ==
    /\ ~running /\ loop.pc = "out" /\ runs < MaxRuns
    /\ asyncs = <<>> /\ ~closing
    /\ running' = TRUE /\ listener' = "open"
    /\ asyncs' = <<Async("post", NoClient)>>
    /\ loop' = [loop EXCEPT !.pc = "poll"]
    /\ runs' = runs + 1
    /\ UNCHANGED <<life, session, posts, closing, inputs, fault>>

\* device_run fails in server_start, which leaves async_post behind, or after it, and server_stop
\* closes what was made; the loop does not run.
RunFails ==
    /\ ~running /\ loop.pc = "out" /\ runs < MaxRuns
    /\ asyncs = <<>> /\ ~closing
    /\ asyncs' \in {<<Async("post", NoClient)>>, <<>>}
    /\ closing' = TRUE
    /\ runs' = runs + 1
    /\ UNCHANGED <<running, listener, life, session, posts, loop, inputs, fault>>

\* device_run after one that failed initialises async_post again, which is still in the loop
RunAgain ==
    /\ ~running /\ loop.pc = "out" /\ runs < MaxRuns
    /\ asyncs # <<>> \/ closing
    /\ runs' = runs + 1 /\ fault' = "init"
    /\ UNCHANGED <<running, listener, life, session, work, closing, loop, inputs>>

Stop ==
    /\ running
    /\ running' = FALSE
    /\ asyncs' = Initialized("stop", NoClient)
    /\ UNCHANGED <<listener, life, session, posts, closing, loop, hist, fault>>

Rebind ==
    /\ runs > 0 /\ Input
    /\ ServerPost("rebind", NoClient)
    /\ UNCHANGED <<running, listener, life, session, closing, loop, runs, fault>>

(***************************************************************************)
(* Callbacks of the sockets                                                *)
(***************************************************************************)

\* connection_cb.  When a step of it fails, what it made is taken back.
Accept(c) ==
    /\ Polling /\ listener = "open" /\ life[c] = "new"
    /\ \/ /\ life' = [life EXCEPT ![c] = "open"]
          /\ session' = [session EXCEPT ![c].pc = "idle"]
       \/ /\ life' = [life EXCEPT ![c] = "freed"]
          /\ UNCHANGED session
    /\ UNCHANGED <<running, listener, work, closing, loop, hist, fault>>

\* RAAT__session_post
SessionPost(c, kind) ==
    session' = [session EXCEPT ![c].queue = Append(@, kind), ![c].posted = 1]

\* read_cb: a message for the session, or a request to load a script, whose answer gets an
\* async handle of its own
Read(c, kind) ==
    /\ Polling /\ life[c] = "open" /\ Input
    /\ SessionPost(c, kind)
    /\ asyncs' = IF kind = "script" THEN Append(asyncs, Async("script", c)) ELSE asyncs
    /\ UNCHANGED <<running, listener, life, posts, closing, loop, runs, fault>>

\* Mutant: whoever finds a reason destroys the client, again if need be.
DestroyAgain(c, ret) ==
    /\ life' = [life EXCEPT ![c] = IF @ = "open" THEN "destroying" ELSE @]
    /\ session' = [session EXCEPT ![c].stop = 1]
    /\ loop' = [loop EXCEPT !.pc = "join", !.client = c, !.ret = ret]

\* destroy_client up to the join in session_delete, which closes the session's async_post
\* and signals async_stop
DestroyClient(c, ret) ==
    \/ /\ life[c] = "open"
       /\ life' = [life EXCEPT ![c] = "destroying"]
       /\ session' = [session EXCEPT ![c].stop = 1]
       /\ loop' = [loop EXCEPT !.pc = "join", !.client = c, !.ret = ret]
    \/ /\ life[c] # "open"
       /\ loop' = [loop EXCEPT !.pc = ret]
       /\ UNCHANGED <<life, session>>

\* read_cb at the end of the connection, write_message_cb with an error, the timeout of
\* keepalive_timer_cb
Disconnect(c) ==
    /\ Polling /\ life[c] = "open"
    /\ DestroyClient(c, "poll")
    /\ UNCHANGED <<running, listener, work, closing, hist, fault>>

\* Mutant: the socket is closed as soon as the session is gone.
CloseAtOnce ==
    /\ loop.pc = "join" /\ session[loop.client].pc = "done"
    /\ life' = [life EXCEPT ![loop.client] = "closing"]
    /\ closing' = TRUE
    /\ loop' = [loop EXCEPT !.pc = loop.ret, !.client = NoClient]
    /\ UNCHANGED <<running, listener, session, work, hist, fault>>

\* Mutant: the session's thread is not waited for.
DoNotJoin ==
    /\ loop.pc = "join"
    /\ asyncs' = Initialized("finish", loop.client)
    /\ loop' = [loop EXCEPT !.pc = loop.ret, !.client = NoClient]
    /\ UNCHANGED <<running, listener, life, session, posts, closing, hist, fault>>

\* the rest of destroy_client, when the session's thread has ended
FinishDestroy ==
    /\ loop.pc = "join" /\ session[loop.client].pc = "done"
    /\ asyncs' = Initialized("finish", loop.client)
    /\ loop' = [loop EXCEPT !.pc = loop.ret, !.client = NoClient]
    /\ UNCHANGED <<running, listener, life, session, posts, closing, hist, fault>>

(***************************************************************************)
(* A pass over the async handles                                           *)
(***************************************************************************)
Pending(i) == i \in DOMAIN asyncs /\ i > loop.at /\ asyncs[i].pending = 1

PassBegin ==
    /\ Polling /\ \E i \in DOMAIN asyncs : asyncs[i].pending = 1
    /\ loop' = [loop EXCEPT !.pc = "pass", !.at = 0]
    /\ UNCHANGED <<running, listener, life, session, work, closing, hist, fault>>

PassEnd ==
    /\ loop.pc = "pass" /\ ~\E i \in DOMAIN asyncs : Pending(i)
    /\ loop' = [loop EXCEPT !.pc = "poll", !.at = 0]
    /\ UNCHANGED <<running, listener, life, session, work, closing, hist, fault>>

\* the pass comes to handle i
Visit(i, kind) ==
    /\ loop.pc = "pass" /\ Pending(i) /\ asyncs[i].kind = kind
    /\ \A j \in DOMAIN asyncs : Pending(j) => i <= j

\* cb_post begins to drain the queue ...
PassPost(i) ==
    /\ Visit(i, "post")
    /\ asyncs' = [asyncs EXCEPT ![i].pending = 0]
    /\ loop' = [loop EXCEPT !.pc = "posts", !.at = i]
    /\ UNCHANGED <<running, listener, life, session, posts, closing, hist, fault>>

PostsEnd ==
    /\ loop.pc = "posts" /\ posts = <<>>
    /\ loop' = [loop EXCEPT !.pc = "pass"]
    /\ UNCHANGED <<running, listener, life, session, work, closing, hist, fault>>

\* ... by one handler at a time: session_message_callback_async_cb,
PostSend ==
    /\ loop.pc = "posts" /\ posts # <<>> /\ Head(posts).kind = "send"
    /\ posts' = Tail(posts)
    /\ fault' = IF Unused(Head(posts).client) THEN "freed" ELSE fault
    /\ UNCHANGED <<running, listener, life, session, asyncs, closing, loop, hist>>

\* session_failure_callback_async_cb,
PostFail ==
    /\ loop.pc = "posts" /\ posts # <<>> /\ Head(posts).kind = "fail"
    /\ posts' = Tail(posts)
    /\ fault' = IF Unused(Head(posts).client) THEN "freed" ELSE fault
    /\ DestroyClient(Head(posts).client, "posts")
    /\ UNCHANGED <<running, listener, asyncs, closing, hist>>

\* rebind_cb: the old listener is closed, and the new one may fail to be bound
PostRebind ==
    /\ loop.pc = "posts" /\ posts # <<>> /\ Head(posts).kind = "rebind"
    /\ posts' = Tail(posts)
    /\ \/ /\ listener = "dead" /\ fault' = "close"
          /\ UNCHANGED listener
       \/ /\ listener = "open" /\ listener' \in {"open", "dead"}
          /\ UNCHANGED fault
    /\ closing' = TRUE
    /\ UNCHANGED <<running, life, session, asyncs, loop, hist>>

\* run_script_async_cb answers the client and closes the handle
PassScript(i) ==
    /\ Visit(i, "script")
    /\ fault' = IF Unused(asyncs[i].client) THEN "freed" ELSE fault
    /\ asyncs' = RemoveAt(asyncs, i)
    /\ closing' = TRUE
    /\ loop' = [loop EXCEPT !.at = i - 1]
    /\ UNCHANGED <<running, listener, life, session, posts, hist>>

\* finish_destroy_client_callback_async_cb closes the socket and the handle
PassFinish(i) ==
    /\ Visit(i, "finish")
    /\ life' = [life EXCEPT ![asyncs[i].client] = "closing"]
    /\ asyncs' = RemoveAt(asyncs, i)
    /\ closing' = TRUE
    /\ loop' = [loop EXCEPT !.at = i - 1]
    /\ UNCHANGED <<running, listener, session, posts, hist, fault>>

\* stop_callback_async_cb: server_stop destroys each client,
PassStop(i) ==
    /\ Visit(i, "stop")
    /\ loop' = [loop EXCEPT !.pc = "stop", !.at = i]
    /\ asyncs' = [asyncs EXCEPT ![i].pending = 0]
    /\ UNCHANGED <<running, listener, life, session, posts, closing, hist, fault>>

StopClient(c) ==
    /\ loop.pc = "stop" /\ life[c] = "open"
    /\ DestroyClient(c, "stop")
    /\ UNCHANGED <<running, listener, work, closing, hist, fault>>

\* Mutant: the server's async_post stays open.
KeepAsyncPost(handles) == handles

CloseAsyncPost(handles) ==
    RemoveAt(handles, CHOOSE i \in DOMAIN handles : handles[i].kind = "post")

\* and closes the listener and async_post.
StopServer ==
    /\ loop.pc = "stop" /\ \A c \in Clients : life[c] # "open"
    /\ \/ listener = "dead" /\ fault' = "close"
       \/ listener = "open" /\ UNCHANGED fault
    /\ listener' = "none"
    /\ asyncs' = CloseAsyncPost(RemoveAt(asyncs, loop.at))
    /\ closing' = TRUE
    /\ loop' = [loop EXCEPT !.pc = "pass", !.at = @ - 2]
    /\ UNCHANGED <<running, life, session, posts, hist>>

\* the close callbacks
Close ==
    /\ Polling /\ closing
    /\ closing' = FALSE
    /\ life' = [c \in Clients |-> IF life[c] = "closing" THEN "freed" ELSE life[c]]
    /\ UNCHANGED <<running, listener, session, work, loop, hist, fault>>

\* uv_run returns when no handle is left
LoopEnds ==
    /\ Polling /\ asyncs = <<>> /\ ~closing /\ listener = "none"
    /\ loop' = [loop EXCEPT !.pc = "out"]
    /\ UNCHANGED <<running, listener, life, session, work, closing, hist, fault>>

(***************************************************************************)
(* The thread of a session                                                 *)
(***************************************************************************)

\* cb_post of the session, which the deletion of the session closes, begins to drain ...
SessionWake(c) ==
    /\ session[c].pc = "idle" /\ session[c].posted = 1 /\ session[c].stop = 0
    /\ session' = [session EXCEPT ![c].pc = "drain", ![c].posted = 0]
    /\ UNCHANGED <<running, listener, life, work, closing, loop, hist, fault>>

\* the handle of the script that is run next: scripts are run in the order they came in
Waiting(i, c) ==
    /\ i \in DOMAIN asyncs
    /\ asyncs[i].kind = "script" /\ asyncs[i].client = c /\ asyncs[i].pending = 0
NextScript(i, c) == Waiting(i, c) /\ \A j \in 1..(i - 1) : ~Waiting(j, c)

\* run_script_cb signals the server when a script was run
RunHandler(c, handler) ==
    \/ handler = "message" /\ UNCHANGED asyncs
    \/ /\ handler = "script"
       /\ \E i \in DOMAIN asyncs :
              NextScript(i, c) /\ asyncs' = [asyncs EXCEPT ![i].pending = 1]

\* Mutant: one handler is run for each signal.
HandleOne(c) ==
    /\ session[c].pc = "drain"
    /\ \/ /\ session[c].queue = <<>>
          /\ session' = [session EXCEPT ![c].pc = "idle"]
          /\ UNCHANGED asyncs
       \/ /\ session[c].queue # <<>>
          /\ session' = [session EXCEPT ![c].queue = Tail(@), ![c].pc = "idle"]
          /\ RunHandler(c, Head(session[c].queue))
    /\ UNCHANGED <<running, listener, life, posts, closing, loop, hist, fault>>

\* ... and goes on till the queue is empty.
SessionHandle(c) ==
    /\ session[c].pc = "drain"
    /\ \/ /\ session[c].queue = <<>>
          /\ session' = [session EXCEPT ![c].pc = "idle"]
          /\ UNCHANGED asyncs
       \/ /\ session[c].queue # <<>>
          /\ session' = [session EXCEPT ![c].queue = Tail(@)]
          /\ RunHandler(c, Head(session[c].queue))
    /\ UNCHANGED <<running, listener, life, posts, closing, loop, hist, fault>>

\* Lua code sends a message to the client, or fails: in a handler, in a callback of its own
\* timers and streams, or in a shutdown handler.
SessionPosts(c, kind) ==
    /\ session[c].pc \in {"idle", "drain", "shutdown"} /\ Input
    /\ ServerPost(kind, c)
    /\ UNCHANGED <<running, listener, life, session, closing, loop, runs, fault>>

\* uv.run() ends with an error
SessionFails(c) ==
    /\ session[c].pc = "idle" /\ Input
    /\ session' = [session EXCEPT ![c].pc = "shutdown"]
    /\ ServerPost("fail", c)
    /\ UNCHANGED <<running, listener, life, closing, loop, runs, fault>>

\* async_stop_cb
SessionStop(c) ==
    /\ session[c].pc = "idle" /\ session[c].stop = 1
    /\ session' = [session EXCEPT ![c].pc = "shutdown"]
    /\ UNCHANGED <<running, listener, life, work, closing, loop, hist, fault>>

\* the shutdown handlers have run and the thread ends
SessionEnds(c) ==
    /\ session[c].pc = "shutdown"
    /\ session' = [session EXCEPT ![c].pc = "done"]
    /\ UNCHANGED <<running, listener, life, work, closing, loop, hist, fault>>

-----------------------------------------------------------------------------

PassStep ==
    \/ PassBegin \/ PassEnd
    \/ \E i \in DOMAIN asyncs : PassPost(i) \/ PassScript(i) \/ PassFinish(i) \/ PassStop(i)

LoopStep ==
    \/ PassStep \/ PostsEnd \/ PostSend \/ PostFail \/ PostRebind
    \/ \E c \in Clients : StopClient(c)
    \/ StopServer \/ FinishDestroy \/ Close \/ LoopEnds

SessionStep(c) == SessionWake(c) \/ SessionHandle(c) \/ SessionStop(c) \/ SessionEnds(c)

ClientNext(c) ==
    \/ Accept(c) \/ Disconnect(c) \/ SessionFails(c)
    \/ \E kind \in {"script", "message"} : Read(c, kind)
    \/ \E kind \in {"send", "fail"} : SessionPosts(c, kind)

\* nothing happens in a process that died
Next ==
    /\ fault = "none"
    /\ \/ Run \/ RunFails \/ RunAgain \/ Stop \/ Rebind
       \/ LoopStep
       \/ \E c \in Clients : ClientNext(c) \/ SessionStep(c)

Spec == Init /\ [][Next]_vars

\* the loop and the sessions' threads are scheduled
LoopGoesOn       == fault = "none" /\ LoopStep
SessionGoesOn(c) == fault = "none" /\ SessionStep(c)

FairSpec ==
    /\ Spec /\ WF_vars(LoopGoesOn)
    /\ \A c \in Clients : WF_vars(SessionGoesOn(c))

-----------------------------------------------------------------------------
(***************************************************************************)
(* Properties                                                              *)
(***************************************************************************)

Handle == [kind : {"post", "script", "finish", "stop"}, client : Clients \union {NoClient},
           pending : {0, 1}]
Work   == [kind : {"send", "fail", "rebind"}, client : Clients \union {NoClient}]
Session == [pc : {"none", "idle", "drain", "shutdown", "done"},
            queue : Seq({"script", "message"}), posted : {0, 1}, stop : {0, 1}]

\* Every variable has its type, and work that belongs to a client names it.
TypeOK ==
    /\ running \in BOOLEAN /\ closing \in BOOLEAN
    /\ listener \in {"none", "open", "dead"}
    /\ life \in [Clients -> {"new", "open", "destroying", "closing", "freed"}]
    /\ session \in [Clients -> Session]
    /\ posts \in Seq(Work) /\ asyncs \in Seq(Handle)
    /\ \A i \in DOMAIN posts : posts[i].client = NoClient <=> posts[i].kind = "rebind"
    /\ \A i \in DOMAIN asyncs : asyncs[i].client = NoClient <=> asyncs[i].kind \in {"post", "stop"}
    /\ loop \in [pc : {"out", "poll", "pass", "posts", "join", "stop"}, at : Nat,
                 client : Clients \union {NoClient}, ret : {"poll", "posts", "stop"}]
    /\ loop.pc = "join" <=> loop.client # NoClient
    /\ inputs \in Nat /\ runs \in Nat /\ fault \in {"none", "freed", "close", "init"}

\* The rest of a client's destruction comes after everything its session posted or answered: as
\* long as the server was not stopped, no handler meets a client that was freed.
NoUseAfterFree == (runs <= 1 /\ listener # "none") => fault # "freed"

\* raat_server.c:190 says so without a condition: "if session_delete posts anything into our
\* message queue, this comes later".
RestComesLater == runs <= 1 => fault # "freed"

Finishing(c) == {i \in DOMAIN asyncs : asyncs[i].kind = "finish" /\ asyncs[i].client = c}

\* Whoever finds a reason to destroy a client - a read, a failed write, a timer, a failed
\* script, stop - its socket is closed once.
DestroyedOnce ==
    \A c \in Clients : \A i \in Finishing(c) :
        /\ life[c] = "destroying"
        /\ \A j \in Finishing(c) : i = j

\* A session's thread, which uses its client in every callback, ends before the client is
\* given up, and a client of the device's list has a session.
NoThreadOutlivesItsClient ==
    \A c \in Clients :
        /\ (Finishing(c) # {} \/ life[c] \in {"closing", "freed"})
               => session[c].pc \in {"done", "none"}
        /\ life[c] = "open" => session[c].pc # "none"

Unanswered(c) == \E i \in DOMAIN asyncs : asyncs[i].kind = "script" /\ asyncs[i].client = c

\* A request to load a script is answered, unless its client is destroyed or its session ended.
LoadIsAnswered ==
    \A c \in Clients :
        (Unanswered(c) /\ life[c] = "open")
            ~> (~Unanswered(c) \/ life[c] # "open" \/ session[c].pc = "done" \/ fault # "none")

\* the device was stopped, and device_run has not returned
Stopping == ~running /\ loop.pc # "out"

\* A script whose session ended before it ran has a handle that nobody will close.
Abandoned == \E c \in Clients : Unanswered(c) /\ session[c].pc = "done"

\* After device_stop only such scripts keep device_run from returning.
OnlyScriptsKeepTheLoop == Stopping ~> (loop.pc = "out" \/ Abandoned \/ fault # "none")

\* raat_device.h:208: device_run "will not return until the device has been stopped" - and
\* then it does.
StopEndsTheLoop == Stopping ~> (loop.pc = "out" \/ fault # "none")

=============================================================================
