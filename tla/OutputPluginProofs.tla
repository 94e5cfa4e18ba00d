-------------------------- MODULE OutputPluginProofs --------------------------
(***************************************************************************)
(* Proofs about the output plugin, for every set of sessions and of other  *)
(* callers, every resync delay and every number of calls.                  *)
(***************************************************************************)
EXTENDS OutputPlugin, SequenceTheorems, TLAPS

-----------------------------------------------------------------------------
(***************************************************************************)
(* Types                                                                   *)
(***************************************************************************)

\* A step of one call leaves the calls well-formed: requests and threads only grow.
LEMMA CallSet ==
    ASSUME NEW f, NEW n \in Nat, NEW m \in Nat, n <= m, NEW D, NEW E, D \subseteq E,
           CallsOK(f, n, D), NEW c \in Callers, NEW k, CallOK(k, m, E)
    PROVE  CallsOK([f EXCEPT ![c] = k], m, E)
<1>1. f \in [Callers -> Call] /\ k \in Call
  BY DEF CallOK, CallsOK
<1>2. \A d \in Callers : CallOK(f[d], m, E)
  BY DEF CallOK, CallsOK, Call
<1> QED  BY <1>1, <1>2 DEF CallsOK

LEMMA NoCallOK ==
    ASSUME NEW n \in Nat, NEW ts
    PROVE  CallOK(NoCall, n, ts)
BY DEF CallOK, NoCall, Call, None

\* What a call is after it has kicked off the owner.
LEMMA KickedFields ==
    ASSUME NEW k
    PROVE  \E join \in BOOLEAN, lost \in {k.lost, lostCb}, pc \in {"join", "lost", "check"} :
              /\ state = "IDLE" => lost = k.lost
              /\ state # "IDLE" => lost = lostCb
              /\ state # "IDLE" => pc = "join"
              /\ pc = "lost" => lost # None
              /\ lost # None => pc # "check"
              /\ Kicked(k) = [op |-> k.op, pc |-> pc, token |-> next + 1, req |-> k.req,
                              join |-> join, target |-> None, lost |-> lost]
<1> DEFINE join == k.join \/ state # "IDLE"
           lost == IF state = "IDLE" THEN k.lost ELSE lostCb
           pc   == IF join THEN "join" ELSE IF lost # None THEN "lost" ELSE "check"
<1>1. join \in BOOLEAN /\ (state # "IDLE" => join)
  BY Zenon DEF join
<1>2. /\ lost \in {k.lost, lostCb} /\ (state = "IDLE" => lost = k.lost)
      /\ state # "IDLE" => lost = lostCb
  BY Zenon DEF lost
<1> HIDE DEF join, lost
<1>3. /\ pc \in {"join", "lost", "check"} /\ (pc = "lost" => lost # None)
      /\ join => pc = "join"
      /\ lost # None => pc # "check"
  BY <1>1, Zenon DEF pc
<1> HIDE DEF pc
<1>4. Kicked(k) = [op |-> k.op, pc |-> pc, token |-> next + 1, req |-> k.req, join |-> join,
                   target |-> None, lost |-> lost]
  BY Zenon DEF Kicked, pc, join, lost
<1> QED  BY <1>1, <1>2, <1>3, <1>4, Zenon

LEMMA KickedOK ==
    ASSUME TypeOK, NEW k, NEW n \in Nat, NEW ts, Len(req) <= n, CallOK(k, n, ts),
           k.op \in {"setup", "force"}
    PROVE  CallOK(Kicked(k), n, ts)
<1>1. /\ next + 1 \in Nat /\ lostCb \in Nat /\ lostCb <= n /\ k.lost \in Nat
      /\ k \in Call /\ k.req <= n /\ k.lost <= n /\ (k.op = "setup" => k.req # None)
      /\ k.op \in {"setup", "force"} /\ k.req \in Nat /\ k.target \in Nat
  BY LenProperties DEF TypeOK, Token, CallOK, Call
<1>2. PICK join \in BOOLEAN, lost \in {k.lost, lostCb}, pc \in {"join", "lost", "check"} :
        /\ pc = "lost" => lost # None
        /\ Kicked(k) = [op |-> k.op, pc |-> pc, token |-> next + 1, req |-> k.req,
                        join |-> join, target |-> None, lost |-> lost]
  BY <1>1, KickedFields, Zenon
<1>3. lost \in Nat /\ lost <= n
  BY <1>1, <1>2
<1> DEFINE new_k == [op |-> k.op, pc |-> pc, token |-> next + 1, req |-> k.req,
                     join |-> join, target |-> None, lost |-> lost]
<1>4. new_k \in Call
  BY <1>1, <1>2, <1>3 DEF Call, None
<1>5. /\ new_k.req <= n /\ new_k.lost <= n /\ (new_k.op = "setup" => new_k.req # None)
      /\ new_k.op \in {"setup", "force"}
      /\ new_k.pc \in {"join", "lost", "check"} /\ (new_k.pc = "lost" => new_k.lost # None)
  BY <1>1, <1>2, <1>3
<1>6. Kicked(k) = new_k
  BY <1>2
<1> HIDE DEF new_k
<1>7. CallOK(new_k, n, ts)
  BY <1>4, <1>5 DEF CallOK
<1> QED  BY <1>6, <1>7

\* What a call is after it has joined the thread.
LEMMA AfterJoinOK ==
    ASSUME NEW k, NEW n \in Nat, NEW ts, CallOK(k, n, ts)
    PROVE  CallOK(AfterJoin(k), n, ts)
<1>1. CASE k.op = "teardown"
  BY <1>1, NoCallOK DEF AfterJoin
<1>2. CASE k.op # "teardown" /\ k.lost = None
  BY <1>2 DEF AfterJoin, CallOK, Call
<1>3. CASE k.op # "teardown" /\ k.lost # None
  BY <1>3 DEF AfterJoin, CallOK, Call
<1> QED  BY <1>1, <1>2, <1>3

LEMMA TypeInit == Init => TypeOK
<1> SUFFICES ASSUME Init PROVE TypeOK
  OBVIOUS
<1>1. NoCall \in Call /\ CallOK(NoCall, 0, {})
  BY DEF CallOK, NoCall, Call, None
<1>2. CallsOK(call, 0, {})
  BY <1>1 DEF Init, CallsOK
<1>3. req = <<>> /\ Len(req) = 0 /\ req \in Seq(Request) /\ DOMAIN thread = {}
      /\ thread \in [DOMAIN thread -> Thread]
  BY DEF Init
<1>4. next \in Token /\ ResyncBufs \in Nat
  BY BoundsAssumption DEF Init, Token
<1>5. new \in BOOLEAN
  BY Zenon DEF Init
<1>6. CallsOK(call, Len(req), DOMAIN thread)
  BY <1>2, <1>3
<1>7. lostCb = 0 /\ setupCb = 0 /\ 0 \in 0..Len(req) /\ tid = None /\ remaining \in 0..ResyncBufs
      /\ stream \in Nat
  BY <1>3, <1>4 DEF Init, None
<1> QED  BY <1>3, <1>4, <1>5, <1>6, <1>7 DEF Init, TypeOK, Invalid, None

\* A request of the history whose counters or tokens change stays a request.
LEMMA RequestUpdates ==
    ASSUME NEW r \in Request, NEW t \in Nat, NEW u \in SUBSET Nat
    PROVE  /\ [r EXCEPT !.token = t] \in Request
           /\ [r EXCEPT !.losses = @ + 1] \in Request
           /\ [r EXCEPT !.teardowns = @ + 1] \in Request
           /\ [r EXCEPT !.answers = @ + 1, !.told = u] \in Request
<1>1. [r EXCEPT !.token = t] \in Request
  BY DEF Request
<1>2. [r EXCEPT !.losses = @ + 1] \in Request
  BY DEF Request
<1>3. [r EXCEPT !.teardowns = @ + 1] \in Request
  BY DEF Request
<1>4. [r EXCEPT !.answers = @ + 1, !.told = u] \in Request
  <2> DEFINE p == [r EXCEPT !.answers = @ + 1]
  <2>1. p \in Request
    BY DEF Request
  <2>2. [r EXCEPT !.answers = @ + 1, !.told = u] = [p EXCEPT !.told = u]
    BY DEF Request
  <2> HIDE DEF p
  <2>3. [p EXCEPT !.told = u] \in Request
    BY <2>1 DEF Request
  <2> QED  BY <2>2, <2>3
<1> QED  BY <1>1, <1>2, <1>3, <1>4

LEMMA ReqSet ==
    ASSUME NEW q \in Seq(Request), NEW i, NEW e, i \in DOMAIN q => e \in Request
    PROVE  [q EXCEPT ![i] = e] \in Seq(Request) /\ Len([q EXCEPT ![i] = e]) = Len(q)
<1>1. CASE i \in DOMAIN q
  BY <1>1, ExceptSeq
<1>2. CASE i \notin DOMAIN q
  <2>1. [q EXCEPT ![i] = e] = q
    BY <1>2
  <2> QED  BY <2>1
<1> QED  BY <1>1, <1>2

\* The types of everything but the calls and the threads.
PlainOK ==
    /\ next \in Token /\ current \in 1..next \union {Invalid}
    /\ state \in {"IDLE", "STOPPED", "RUNNING"}
    /\ req \in Seq(Request)
    /\ lostCb \in 0..Len(req) /\ setupCb \in 0..Len(req)
    /\ stream \in Nat
    /\ forces \in Nat /\ fault \in {"none", "join", "null"}

\* The types of the threads.
ThreadsOK ==
    /\ remaining \in 0..ResyncBufs
    /\ DOMAIN thread \subseteq 1..next /\ tid \in DOMAIN thread \union {None}
    /\ thread \in [DOMAIN thread -> Thread]

LEMMA TypeParts == TypeOK <=> /\ PlainOK /\ ThreadsOK /\ new \in BOOLEAN
                              /\ CallsOK(call, Len(req), DOMAIN thread)
BY Zenon DEF TypeOK, PlainOK, ThreadsOK

\* A call that only moves on stays well-formed.
LEMMA GotoOK ==
    ASSUME NEW k, NEW n, NEW ts, CallOK(k, n, ts),
           NEW pc \in {"check", "callback", "refuse"},
           pc \in {"callback", "refuse"} => k.op = "setup"
    PROVE  CallOK([k EXCEPT !.pc = pc], n, ts)
BY DEF CallOK, Call

\* The requests after the counters of one of them changed.
LEMMA AnsweredOK ==
    ASSUME NEW r, NEW t \in Nat, req \in Seq(Request)
    PROVE  Answered(r, t) \in Seq(Request) /\ Len(Answered(r, t)) = Len(req)
<1> DEFINE e == [req[r] EXCEPT !.answers = @ + 1, !.told = @ \union {t}]
<1>1. Answered(r, t) = [req EXCEPT ![r] = e]
  BY DEF Answered
<1>2. r \in DOMAIN req => e \in Request
  <2> SUFFICES ASSUME r \in DOMAIN req PROVE e \in Request
    OBVIOUS
  <2>1. req[r] \in Request
    BY ElementOfSeq
  <2> DEFINE u == req[r].told \union {t}
  <2>2. u \in SUBSET Nat
    BY <2>1 DEF Request
  <2> HIDE DEF u
  <2>3. [req[r] EXCEPT !.answers = @ + 1, !.told = u] \in Request
    BY <2>1, <2>2, RequestUpdates
  <2> QED  BY <2>3 DEF u
<1> HIDE DEF e
<1> QED  BY <1>1, <1>2, ReqSet

LEMMA PlainStep ==
    ASSUME TypeOK, OwnerHasThread, Next
    PROVE  PlainOK'
<1>0. PlainOK /\ Len(req) \in Nat /\ next + 1 \in Token /\ CallsOK(call, Len(req), DOMAIN thread)
      /\ \A r \in DOMAIN req : req[r] \in Request
  BY TypeParts, LenProperties, ElementOfSeq DEF PlainOK, Token
<1>1. ASSUME NEW s \in Sessions, SetupEnter(s) PROVE PlainOK'
  <2> DEFINE e == [by |-> s, token |-> None, told |-> {}, answers |-> 0, losses |-> 0,
                   teardowns |-> 0]
  <2>1. e \in Request
    BY DEF Request, None
  <2>2. req' = Append(req, e)
    BY <1>1 DEF SetupEnter
  <2> HIDE DEF e
  <2>3. req' \in Seq(Request) /\ Len(req') = Len(req) + 1
    BY <1>0, <2>1, <2>2, AppendProperties DEF PlainOK
  <2> QED  BY <1>0, <1>1, <2>3 DEF PlainOK, SetupEnter, Kick, Token, None
<1>2. ASSUME NEW o \in Others, ForceEnter(o) \/ ForceRetry(o) PROVE PlainOK'
  BY <1>0, <1>2 DEF PlainOK, ForceEnter, ForceRetry, Kick, Token, None
<1>3. ASSUME NEW o \in Others, ForceReturn(o) PROVE PlainOK'
  BY <1>0, <1>3 DEF PlainOK, ForceReturn, None
<1>4. ASSUME NEW c \in Callers, JoinBegin(c) PROVE PlainOK'
  BY <1>0, <1>4 DEF PlainOK, JoinBegin, owned
<1>5. ASSUME NEW c \in Callers, JoinEnd(c) PROVE PlainOK'
  BY <1>0, <1>5 DEF PlainOK, JoinEnd, owned
<1>6. ASSUME NEW c \in Callers, TellLost(c) PROVE PlainOK'
  <2> DEFINE r == call[c].lost
             e == [req[r] EXCEPT !.losses = @ + 1]
  <2>1. req' = [req EXCEPT ![r] = e]
    BY <1>6 DEF TellLost
  <2>2. r \in DOMAIN req => e \in Request
    BY <1>0, RequestUpdates
  <2> HIDE DEF r, e
  <2>3. req' \in Seq(Request) /\ Len(req') = Len(req)
    BY <1>0, <2>1, <2>2, ReqSet DEF PlainOK
  <2> QED  BY <1>0, <1>6, <2>3 DEF PlainOK, TellLost, owned
<1>7. ASSUME NEW s \in Sessions, SetupRefused(s) PROVE PlainOK'
  BY <1>0, <1>7 DEF PlainOK, SetupRefused, None
<1>8. ASSUME NEW s \in Sessions, SetupGranted(s) PROVE PlainOK'
  <2> DEFINE r == call[s].req
             e == [req[r] EXCEPT !.token = next + 1]
  <2>1. req' = [req EXCEPT ![r] = e]
    BY <1>8 DEF SetupGranted
  <2>2. r \in DOMAIN req => e \in Request
    BY <1>0, RequestUpdates DEF Token
  <2>3. s \in Callers /\ r \in 0..Len(req)
    BY <1>0 DEF Callers, CallsOK, CallOK, Call
  <2> HIDE DEF r, e
  <2>4. req' \in Seq(Request) /\ Len(req') = Len(req)
    BY <1>0, <2>1, <2>2, ReqSet DEF PlainOK
  <2>5. lostCb' \in 0..Len(req')
    BY <1>8, <2>3, <2>4 DEF SetupGranted, r
  <2> QED  BY <1>0, <1>8, <2>4, <2>5 DEF PlainOK, SetupGranted, Token, None
<1>9. ASSUME NEW s \in Sessions, SetupResync(s) PROVE PlainOK'
  BY <1>0, <1>9 DEF PlainOK, SetupResync, owned
<1>10. ASSUME NEW s \in Sessions, SetupReturn(s) PROVE PlainOK'
  <2>1. call[s].req \in 0..Len(req)
    BY <1>0 DEF Callers, CallsOK, CallOK, Call
  <2> QED  BY <1>0, <1>10, <2>1 DEF PlainOK, SetupReturn, owned
<1>11. ASSUME NEW s \in Sessions, SetupFail(s) PROVE PlainOK'
  <2>1. call[s].token \in Nat /\ req' = Answered(call[s].req, call[s].token)
    BY <1>0, <1>11 DEF Callers, CallsOK, CallOK, Call, SetupFail
  <2>2. req' \in Seq(Request) /\ Len(req') = Len(req)
    BY <1>0, <2>1, AnsweredOK DEF PlainOK
  <2> QED  BY <1>0, <1>11, <2>2 DEF PlainOK, SetupFail, owned
<1>12. ASSUME NEW s \in Sessions, NEW t, Teardown(s, t) PROVE PlainOK'
  <2> DEFINE e(r) == IF req[r].token = t THEN [req[r] EXCEPT !.teardowns = @ + 1] ELSE req[r]
  <2>1. req' = [r \in DOMAIN req |-> e(r)] /\ DOMAIN req = 1..Len(req)
    BY <1>0, <1>12, LenProperties DEF Teardown, PlainOK
  <2>2. \A r \in DOMAIN req : e(r) \in Request
    BY <1>0, RequestUpdates
  <2> HIDE DEF e
  <2>3. req' \in Seq(Request) /\ Len(req') = Len(req)
    BY <1>0, <2>1, <2>2, IsASeq
  <2> QED  BY <1>0, <1>12, <2>3 DEF PlainOK, Teardown, Vacate, DropStream, Invalid, None
<1>13. ASSUME NEW s \in Sessions, NEW t, Start(s, t) PROVE PlainOK'
  <2>1. t \in Nat
    BY <1>13, TypeParts DEF Start, OwnerHasThread, ThreadsOK
  <2> QED  BY <1>0, <1>13, <2>1 DEF PlainOK, Start
<1>14. ASSUME NEW s \in Sessions, NEW t, Stop(s, t) PROVE PlainOK'
  BY <1>0, <1>14 DEF PlainOK, Stop, DropStream, None
<1>15. ASSUME NEW t \in DOMAIN thread, ThreadBegin(t) \/ ThreadPlay(t) \/ ThreadCount(t)
       PROVE  PlainOK'
  BY <1>0, <1>15 DEF PlainOK, ThreadBegin, ThreadPlay, ThreadCount, owned
<1>16. ASSUME NEW t \in DOMAIN thread, ThreadPeriod(t) PROVE PlainOK'
  BY <1>0, <1>16 DEF PlainOK, ThreadPeriod
<1>17. ASSUME NEW t \in DOMAIN thread, ThreadAnswer(t) PROVE PlainOK'
  <2>1. t \in Nat
    BY TypeParts DEF ThreadsOK
  <2>2. CASE UNCHANGED req
    BY <1>0, <1>17, <2>2 DEF PlainOK, ThreadAnswer, owned
  <2>3. CASE req' = Answered(setupCb, t)
    <3>1. req' \in Seq(Request) /\ Len(req') = Len(req)
      BY <1>0, <2>1, <2>3, AnsweredOK DEF PlainOK
    <3> QED  BY <1>0, <1>17, <3>1 DEF PlainOK, ThreadAnswer, owned
  <2> QED  BY <1>17, <2>2, <2>3 DEF ThreadAnswer
<1> QED  BY <1>1, <1>2, <1>3, <1>4, <1>5, <1>6, <1>7, <1>8, <1>9, <1>10, <1>11, <1>12, <1>13,
            <1>14, <1>15, <1>16, <1>17, Zenon DEF Next, SessionNext, OtherNext, ThreadStep

\* A step that writes the record of one thread.
LEMMA ThreadsSet ==
    ASSUME ThreadsOK, NEW t \in DOMAIN thread, NEW e \in Thread,
           thread' = [thread EXCEPT ![t] = e], remaining' \in 0..ResyncBufs,
           UNCHANGED <<next, tid>>
    PROVE  ThreadsOK'
BY DEF ThreadsOK

LEMMA ThreadsStep ==
    ASSUME TypeOK, Next
    PROVE  ThreadsOK'
<1>0. /\ PlainOK /\ ThreadsOK /\ next \in Nat /\ CallsOK(call, Len(req), DOMAIN thread)
      /\ \A t \in DOMAIN thread : thread[t] \in Thread
      /\ ResyncBufs \in Nat /\ ResyncBufs \in 0..ResyncBufs /\ 0 \in 0..ResyncBufs
  BY TypeParts, BoundsAssumption DEF PlainOK, Token, ThreadsOK
<1>1. ASSUME NEW s \in Sessions, SetupEnter(s) PROVE ThreadsOK'
  BY <1>0, <1>1 DEF ThreadsOK, SetupEnter, Kick
<1>2. ASSUME NEW o \in Others, ForceEnter(o) \/ ForceRetry(o) PROVE ThreadsOK'
  BY <1>0, <1>2 DEF ThreadsOK, ForceEnter, ForceRetry, Kick
<1>3. ASSUME NEW o \in Others, ForceReturn(o) PROVE ThreadsOK'
  BY <1>0, <1>3 DEF ThreadsOK, ForceReturn
<1>4. ASSUME NEW c \in Callers, JoinBegin(c) \/ TellLost(c) PROVE ThreadsOK'
  BY <1>0, <1>4 DEF ThreadsOK, JoinBegin, TellLost, owned
<1>5. ASSUME NEW c \in Callers, JoinEnd(c) PROVE ThreadsOK'
  <2>1. call[c].target \in DOMAIN thread
    BY <1>0, <1>5 DEF CallsOK, CallOK, JoinEnd
  <2>2. [thread[call[c].target] EXCEPT !.pc = "joined"] \in Thread
    BY <1>0, <2>1 DEF Thread
  <2>3. thread' = [thread EXCEPT ![call[c].target] =
                     [thread[call[c].target] EXCEPT !.pc = "joined"]]
        /\ remaining' \in 0..ResyncBufs /\ UNCHANGED <<next, tid>>
    BY <1>0, <1>5 DEF JoinEnd, owned, ThreadsOK
  <2> QED  BY <1>0, <2>1, <2>2, <2>3, ThreadsSet
<1>7. ASSUME NEW s \in Sessions, SetupRefused(s) \/ SetupReturn(s) \/ SetupFail(s)
      PROVE  ThreadsOK'
  BY <1>0, <1>7 DEF ThreadsOK, SetupRefused, SetupReturn, SetupFail, owned
<1>8. ASSUME NEW s \in Sessions, SetupGranted(s) PROVE ThreadsOK'
  <2>1. NewThread \in Thread
    BY <1>0 DEF NewThread, Thread, None
  <2>2. /\ DOMAIN thread' = DOMAIN thread \union {next + 1}
        /\ next' = next + 1 /\ tid' = next + 1 /\ UNCHANGED remaining
        /\ \A t \in DOMAIN thread' : thread'[t] = IF t \in DOMAIN thread THEN thread[t]
                                                                        ELSE NewThread
        /\ thread' = [t \in DOMAIN thread' |-> thread'[t]]
    BY <1>8 DEF SetupGranted
  <2> QED  BY <1>0, <2>1, <2>2 DEF ThreadsOK
<1>9. ASSUME NEW s \in Sessions, SetupResync(s) PROVE ThreadsOK'
  BY <1>0, <1>9 DEF ThreadsOK, SetupResync, owned
<1>12. ASSUME NEW s \in Sessions, NEW t, Teardown(s, t) PROVE ThreadsOK'
  BY <1>0, <1>12 DEF ThreadsOK, Teardown
<1>13. ASSUME NEW s \in Sessions, NEW t, Start(s, t) \/ Stop(s, t) PROVE ThreadsOK'
  BY <1>0, <1>13 DEF ThreadsOK, Start, Stop
<1>14. ASSUME NEW t \in DOMAIN thread, ThreadBegin(t) PROVE ThreadsOK'
  <2> DEFINE pc == IF TokenCurrent(t) THEN "loop" ELSE "done"
  <2>1. pc \in {"loop", "done"} /\ thread' = [thread EXCEPT ![t] = [thread[t] EXCEPT !.pc = pc]]
    BY <1>14 DEF ThreadBegin
  <2> HIDE DEF pc
  <2>2. [thread[t] EXCEPT !.pc = pc] \in Thread
    BY <1>0, <2>1 DEF Thread
  <2> QED  BY <1>0, <1>14, <2>1, <2>2, ThreadsSet DEF ThreadBegin, owned, ThreadsOK
<1>15. ASSUME NEW t \in DOMAIN thread, ThreadPeriod(t) PROVE ThreadsOK'
  <2>1. stream \in Nat
    BY <1>0 DEF PlainOK
  <2>2. PICK e \in Thread : thread' = [thread EXCEPT ![t] = e]
    <3>1. CASE thread' = [thread EXCEPT ![t].pc = "play", ![t].stream = stream]
      <4>1. [thread[t] EXCEPT !.pc = "play", !.stream = stream] \in Thread
        BY <1>0, <2>1 DEF Thread
      <4> QED  BY <3>1, <4>1
    <3>2. CASE thread' = [thread EXCEPT ![t].pc = "play"]
      <4>1. [thread[t] EXCEPT !.pc = "play"] \in Thread
        BY <1>0 DEF Thread
      <4> QED  BY <3>2, <4>1
    <3>3. CASE thread' = [thread EXCEPT ![t].pc = "done"]
      <4>1. [thread[t] EXCEPT !.pc = "done"] \in Thread
        BY <1>0 DEF Thread
      <4> QED  BY <3>3, <4>1
    <3> QED  BY <1>15, <3>1, <3>2, <3>3 DEF ThreadPeriod
  <2> QED  BY <1>0, <1>15, <2>2, ThreadsSet DEF ThreadPeriod, ThreadsOK
<1>16. ASSUME NEW t \in DOMAIN thread, ThreadPlay(t) PROVE ThreadsOK'
  <2> DEFINE pc == IF Resyncing THEN "count" ELSE "loop"
             n  == IF Resyncing THEN remaining - 1 ELSE 0
  <2>1. thread' = [thread EXCEPT ![t] = [thread[t] EXCEPT !.pc = pc, !.left = n]]
    BY <1>16 DEF ThreadPlay
  <2>2. pc \in {"count", "loop"} /\ n \in 0..ResyncBufs
    BY <1>0 DEF Resyncing, ThreadsOK
  <2> HIDE DEF pc, n
  <2>3. [thread[t] EXCEPT !.pc = pc, !.left = n] \in Thread
    BY <1>0, <2>2 DEF Thread
  <2> QED  BY <1>0, <1>16, <2>1, <2>3, ThreadsSet DEF ThreadPlay, owned, ThreadsOK
<1>17. ASSUME NEW t \in DOMAIN thread, ThreadCount(t) PROVE ThreadsOK'
  <2>1. thread' = [thread EXCEPT ![t] = [thread[t] EXCEPT !.pc = "test"]]
    BY <1>17 DEF ThreadCount
  <2>2. remaining' \in 0..ResyncBufs
    BY <1>0, <1>17 DEF ThreadCount, Thread
  <2>3. [thread[t] EXCEPT !.pc = "test"] \in Thread
    BY <1>0 DEF Thread
  <2> QED  BY <1>0, <1>17, <2>1, <2>2, <2>3, ThreadsSet DEF ThreadCount, owned
<1>18. ASSUME NEW t \in DOMAIN thread, ThreadAnswer(t) PROVE ThreadsOK'
  <2>1. CASE UNCHANGED thread
    BY <1>0, <1>18, <2>1 DEF ThreadAnswer, owned, ThreadsOK
  <2>2. CASE thread' = [thread EXCEPT ![t] = [thread[t] EXCEPT !.pc = "loop", !.left = 0]]
    <3>1. [thread[t] EXCEPT !.pc = "loop", !.left = 0] \in Thread
      BY <1>0 DEF Thread
    <3> QED  BY <1>0, <1>18, <2>2, <3>1, ThreadsSet DEF ThreadAnswer, owned, ThreadsOK
  <2> QED  BY <1>18, <2>1, <2>2 DEF ThreadAnswer
<1> QED  BY <1>1, <1>2, <1>3, <1>4, <1>5, <1>7, <1>8, <1>9, <1>12, <1>13, <1>14, <1>15, <1>16,
            <1>17, <1>18, Zenon DEF Next, SessionNext, OtherNext, ThreadStep

LEMMA NewStep ==
    ASSUME TypeOK, Next
    PROVE  new' \in BOOLEAN
<1>1. new \in BOOLEAN
  BY TypeParts
<1>2. UNCHANGED new \/ new' = TRUE \/ new' = FALSE
  <2>1. ASSUME NEW s \in Sessions, SessionNext(s) PROVE UNCHANGED new \/ new' = TRUE
    BY <2>1, Zenon DEF SessionNext, SetupEnter, SetupRefused, SetupGranted, SetupResync,
       SetupReturn, SetupFail, Teardown, Start, Stop, owned
  <2>2. ASSUME NEW o \in Others, OtherNext(o) PROVE UNCHANGED new
    BY <2>2 DEF OtherNext, ForceEnter, ForceRetry, ForceReturn
  <2>3. ASSUME NEW c \in Callers, JoinBegin(c) \/ JoinEnd(c) \/ TellLost(c) PROVE UNCHANGED new
    BY <2>3 DEF JoinBegin, JoinEnd, TellLost, owned
  <2>4. ASSUME NEW t \in DOMAIN thread, ThreadStep(t) PROVE UNCHANGED new \/ new' = FALSE
    BY <2>4, Zenon DEF ThreadStep, ThreadBegin, ThreadPeriod, ThreadPlay, ThreadCount,
       ThreadAnswer, owned
  <2> QED  BY <2>1, <2>2, <2>3, <2>4, Zenon DEF Next
<1> QED  BY <1>1, <1>2, Zenon

\* Requests and threads are only added, never removed.
Grows == Len(req) <= Len(req') /\ Len(req') \in Nat /\ DOMAIN thread \subseteq DOMAIN thread'

LEMMA GrowStep ==
    ASSUME TypeOK, Next
    PROVE  Grows
<1>0. /\ req \in Seq(Request) /\ Len(req) \in Nat /\ DOMAIN req = 1..Len(req)
      /\ thread \in [DOMAIN thread -> Thread] /\ CallsOK(call, Len(req), DOMAIN thread)
  BY TypeParts, LenProperties DEF PlainOK, ThreadsOK
<1>1. DOMAIN thread \subseteq DOMAIN thread'
  <2>1. ASSUME NEW s \in Sessions, SessionNext(s) PROVE DOMAIN thread \subseteq DOMAIN thread'
    BY <2>1, Zenon DEF SessionNext, SetupEnter, SetupRefused, SetupGranted, SetupResync,
       SetupReturn, SetupFail, Teardown, Start, Stop
  <2>2. ASSUME NEW o \in Others, OtherNext(o) PROVE UNCHANGED thread
    BY <2>2 DEF OtherNext, ForceEnter, ForceRetry, ForceReturn
  <2>3. ASSUME NEW c \in Callers, JoinBegin(c) \/ JoinEnd(c) \/ TellLost(c)
        PROVE  DOMAIN thread \subseteq DOMAIN thread'
    BY <2>3 DEF JoinBegin, JoinEnd, TellLost
  <2>4. ASSUME NEW t \in DOMAIN thread, ThreadStep(t) PROVE DOMAIN thread \subseteq DOMAIN thread'
    BY <2>4 DEF ThreadStep, ThreadBegin, ThreadPeriod, ThreadPlay, ThreadCount, ThreadAnswer
  <2> QED  BY <2>1, <2>2, <2>3, <2>4, Zenon DEF Next
<1>2. CASE UNCHANGED req
  BY <1>0, <1>1, <1>2 DEF Grows
<1>3. CASE \E i, e : req' = [req EXCEPT ![i] = e]
  <2>1. DOMAIN req' = DOMAIN req
    BY <1>3
  <2>2. Len(req') = Len(req)
    BY <1>0, <2>1
  <2> QED  BY <1>0, <1>1, <2>2 DEF Grows
<1>4. CASE \E e : req' = Append(req, e)
  <2>1. Len(req') = Len(req) + 1
    BY <1>0, <1>4
  <2> QED  BY <1>0, <1>1, <2>1 DEF Grows
<1>5. CASE \E s \in Sessions : \E t : Teardown(s, t)
  <2>1. DOMAIN req' = DOMAIN req
    BY <1>5 DEF Teardown
  <2> QED  BY <1>0, <1>1, <2>1 DEF Grows
<1>6. UNCHANGED req \/ (\E i, e : req' = [req EXCEPT ![i] = e]) \/ (\E e : req' = Append(req, e))
      \/ \E s \in Sessions : \E t : Teardown(s, t)
  <2>1. ASSUME NEW s \in Sessions, SetupEnter(s) PROVE \E e : req' = Append(req, e)
    BY <2>1 DEF SetupEnter
  <2>2. ASSUME NEW s \in Sessions, SetupGranted(s) PROVE \E i, e : req' = [req EXCEPT ![i] = e]
    BY <2>2 DEF SetupGranted
  <2>3. ASSUME NEW s \in Sessions, SetupFail(s) PROVE \E i, e : req' = [req EXCEPT ![i] = e]
    <3>1. req' = [req EXCEPT ![call[s].req] =
                    [req[call[s].req] EXCEPT !.answers = @ + 1,
                                             !.told = @ \union {call[s].token}]]
      BY <2>3, Zenon DEF SetupFail, Answered
    <3> QED  BY <3>1, Zenon
  <2>4. ASSUME NEW c \in Callers, TellLost(c) PROVE \E i, e : req' = [req EXCEPT ![i] = e]
    BY <2>4 DEF TellLost
  <2>5. ASSUME NEW t \in DOMAIN thread, ThreadAnswer(t)
        PROVE  UNCHANGED req \/ \E i, e : req' = [req EXCEPT ![i] = e]
    BY <2>5 DEF ThreadAnswer, Answered
  <2>6. ASSUME NEW s \in Sessions, NEW t, SetupRefused(s) \/ SetupResync(s) \/ SetupReturn(s)
               \/ Start(s, t) \/ Stop(s, t)
        PROVE  UNCHANGED req
    BY <2>6 DEF SetupRefused, SetupResync, SetupReturn, Start, Stop
  <2>7. ASSUME NEW o \in Others, OtherNext(o) PROVE UNCHANGED req
    BY <2>7 DEF OtherNext, ForceEnter, ForceRetry, ForceReturn
  <2>8. ASSUME NEW c \in Callers, JoinBegin(c) \/ JoinEnd(c) PROVE UNCHANGED req
    BY <2>8 DEF JoinBegin, JoinEnd
  <2>9. ASSUME NEW t \in DOMAIN thread, ThreadBegin(t) \/ ThreadPeriod(t) \/ ThreadPlay(t)
               \/ ThreadCount(t)
        PROVE  UNCHANGED req
    BY <2>9 DEF ThreadBegin, ThreadPeriod, ThreadPlay, ThreadCount
  <2> QED  BY <2>1, <2>2, <2>3, <2>4, <2>5, <2>6, <2>7, <2>8, <2>9, Zenon
              DEF Next, SessionNext, ThreadStep
<1> QED  BY <1>2, <1>3, <1>4, <1>5, <1>6

\* A step that writes the record of one call.
LEMMA CallWrite ==
    ASSUME TypeOK, Grows, NEW c \in Callers, NEW k, CallOK(k, Len(req), DOMAIN thread),
           call' = [call EXCEPT ![c] = k]
    PROVE  CallsOK(call', Len(req'), DOMAIN thread')
<1>1. CallsOK(call, Len(req), DOMAIN thread) /\ Len(req) \in Nat
  BY TypeParts, LenProperties DEF PlainOK
<1>2. CallOK(k, Len(req'), DOMAIN thread')
  BY <1>1 DEF Grows, CallOK, Call
<1>3. Len(req) <= Len(req') /\ Len(req') \in Nat /\ DOMAIN thread \subseteq DOMAIN thread'
  BY DEF Grows
<1>4. CallsOK([call EXCEPT ![c] = k], Len(req'), DOMAIN thread')
  <2> DEFINE n == Len(req)
             m == Len(req')
             D == DOMAIN thread
             E == DOMAIN thread'
  <2>1. /\ n \in Nat /\ m \in Nat /\ n <= m /\ D \subseteq E /\ CallsOK(call, n, D)
        /\ CallOK(k, m, E)
    BY <1>1, <1>2, <1>3
  <2> HIDE DEF n, m, D, E
  <2>2. CallsOK([call EXCEPT ![c] = k], m, E)
    BY <2>1, CallSet
  <2> QED  BY <2>2 DEF m, E
<1> QED  BY <1>4

LEMMA CallsSame ==
    ASSUME TypeOK, Grows, UNCHANGED call
    PROVE  CallsOK(call', Len(req'), DOMAIN thread')
<1>1. CallsOK(call, Len(req), DOMAIN thread) /\ Len(req) \in Nat
  BY TypeParts, LenProperties DEF PlainOK
<1> QED  BY <1>1 DEF CallsOK, CallOK, Grows, Call

LEMMA CallsStep ==
    ASSUME TypeOK, Next
    PROVE  CallsOK(call', Len(req'), DOMAIN thread')
<1> DEFINE OK(k) == CallOK(k, Len(req), DOMAIN thread)
<1>0. /\ Grows /\ Len(req) \in Nat /\ \A c \in Callers : OK(call[c])
      /\ Sessions \subseteq Callers /\ Others \subseteq Callers /\ OK(NoCall)
      /\ next + 1 \in Nat /\ tid \in Nat
  BY GrowStep, TypeParts, LenProperties, NoCallOK
     DEF PlainOK, ThreadsOK, CallsOK, Callers, Token, None
<1>1. ASSUME NEW s \in Sessions, SetupEnter(s) PROVE CallsOK(call', Len(req'), DOMAIN thread')
  <2> DEFINE n == Len(req) + 1
             k == [NoCall EXCEPT !.op = "setup", !.req = n]
  <2>1. Len(req') = n /\ n \in Nat /\ Len(req) <= n /\ DOMAIN thread' = DOMAIN thread
        /\ call' = [call EXCEPT ![s] = Kicked(k)]
    <3>1. req \in Seq(Request)
      BY TypeParts DEF PlainOK
    <3> QED  BY <1>0, <1>1, <3>1 DEF SetupEnter, Kick
  <2>2. n \in Nat /\ n # 0
    BY <1>0
  <2> HIDE DEF n
  <2>6. NoCall \in Call /\ NoCall.pc = "idle" /\ NoCall.lost = None
    BY DEF NoCall, Call, None
  <2>7. k \in Call /\ k.op = "setup" /\ k.req = n /\ k.pc = "idle" /\ k.lost = None
    BY <2>2, <2>6 DEF Call
  <2> HIDE DEF k
  <2>8. k.op = "setup" /\ CallOK(k, n, DOMAIN thread)
    BY <2>2, <2>7 DEF CallOK, None
  <2>3. CallOK(Kicked(k), n, DOMAIN thread)
    BY <2>1, <2>8, KickedOK
  <2>4. CallsOK(call, Len(req), DOMAIN thread)
    BY TypeParts
  <2>5. CallsOK([call EXCEPT ![s] = Kicked(k)], n, DOMAIN thread)
    BY <1>0, <2>1, <2>3, <2>4, CallSet
  <2> QED  BY <2>1, <2>5
<1>2. ASSUME NEW o \in Others, ForceEnter(o) PROVE CallsOK(call', Len(req'), DOMAIN thread')
  <2> DEFINE k == [NoCall EXCEPT !.op = "force"]
  <2>1. k.op = "force" /\ OK(k) /\ call' = [call EXCEPT ![o] = Kicked(k)]
    BY <1>0, <1>2 DEF NoCall, CallOK, Call, None, ForceEnter, Kick
  <2> HIDE DEF k
  <2>2. OK(Kicked(k))
    BY <1>0, <2>1, KickedOK
  <2> QED  BY <1>0, <2>1, <2>2, CallWrite
<1>3. ASSUME NEW o \in Others, ForceRetry(o) PROVE CallsOK(call', Len(req'), DOMAIN thread')
  <2>1. call[o].op = "force" /\ OK(call[o]) /\ call' = [call EXCEPT ![o] = Kicked(call[o])]
    BY <1>0, <1>3 DEF ForceRetry, Kick
  <2>2. OK(Kicked(call[o]))
    BY <1>0, <2>1, KickedOK
  <2> QED  BY <1>0, <2>1, <2>2, CallWrite
<1>4. ASSUME NEW c \in Callers, call' = [call EXCEPT ![c] = NoCall]
      PROVE  CallsOK(call', Len(req'), DOMAIN thread')
  BY <1>0, <1>4, CallWrite
<1>5. ASSUME NEW c \in Callers, call' = [call EXCEPT ![c] = AfterJoin(@)]
      PROVE  CallsOK(call', Len(req'), DOMAIN thread')
  <2>1. OK(AfterJoin(call[c])) /\ call' = [call EXCEPT ![c] = AfterJoin(call[c])]
    BY <1>0, <1>5, AfterJoinOK
  <2> QED  BY <1>0, <2>1, CallWrite
<1>6. ASSUME NEW c \in Callers, tid \in DOMAIN thread,
             call' = [call EXCEPT ![c].pc = "joining", ![c].target = tid]
      PROVE  CallsOK(call', Len(req'), DOMAIN thread')
  <2> DEFINE k == [call[c] EXCEPT !.pc = "joining", !.target = tid]
  <2>1. OK(k)
    BY <1>0, <1>6 DEF CallOK, Call
  <2>2. call' = [call EXCEPT ![c] = k]
    BY <1>6
  <2> HIDE DEF k
  <2> QED  BY <1>0, <2>1, <2>2, CallWrite
<1>7. ASSUME NEW c \in Callers, NEW pc \in {"check", "refuse", "callback"},
             pc \in {"refuse", "callback"} => call[c].op = "setup",
             call' = [call EXCEPT ![c].pc = pc]
      PROVE  CallsOK(call', Len(req'), DOMAIN thread')
  <2>1. OK([call[c] EXCEPT !.pc = pc]) /\ call' = [call EXCEPT ![c] = [call[c] EXCEPT !.pc = pc]]
    BY <1>0, <1>7, GotoOK
  <2> QED  BY <1>0, <2>1, CallWrite
<1>8. ASSUME NEW s \in Sessions, SetupGranted(s) PROVE CallsOK(call', Len(req'), DOMAIN thread')
  <2> DEFINE k == [call[s] EXCEPT !.pc = "resync", !.token = next + 1]
  <2>1. OK(k)
    BY <1>0, <1>8 DEF CallOK, Call, SetupGranted
  <2>2. call' = [call EXCEPT ![s] = k]
    BY <1>8 DEF SetupGranted
  <2> HIDE DEF k
  <2> QED  BY <1>0, <2>1, <2>2, CallWrite
<1>9. ASSUME NEW s \in Sessions, NEW t, Teardown(s, t)
      PROVE  CallsOK(call', Len(req'), DOMAIN thread')
  <2> DEFINE k == [NoCall EXCEPT !.op = "teardown", !.pc = "join"]
  <2>1. OK(k)
    BY <1>0 DEF NoCall, CallOK, Call, None
  <2>2. call' = [call EXCEPT ![s] = k]
    BY <1>9 DEF Teardown
  <2> HIDE DEF k
  <2> QED  BY <1>0, <2>1, <2>2, CallWrite
<1>10. ASSUME UNCHANGED call PROVE CallsOK(call', Len(req'), DOMAIN thread')
  BY <1>0, <1>10, CallsSame
<1> HIDE DEF OK
<1>11. ASSUME NEW s \in Sessions, SessionNext(s) PROVE CallsOK(call', Len(req'), DOMAIN thread')
  <2>0. s \in Callers /\ (call[s].pc \in {"resync", "callback", "refuse"} => call[s].op = "setup")
    BY <1>0 DEF OK, CallOK
  <2>1. CASE SetupRefused(s)
    BY <2>0, <2>1, <1>7 DEF SetupRefused, Goto
  <2>2. CASE SetupResync(s)
    BY <2>0, <2>2, <1>7 DEF SetupResync, Goto
  <2>3. CASE SetupReturn(s) \/ SetupFail(s)
    BY <2>0, <2>3, <1>4 DEF SetupReturn, SetupFail, Return
  <2>4. CASE \E t : Start(s, t) \/ Stop(s, t)
    BY <2>4, <1>10 DEF Start, Stop
  <2> QED  BY <1>11, <1>1, <1>8, <1>9, <2>1, <2>2, <2>3, <2>4, Zenon DEF SessionNext
<1>12. ASSUME NEW o \in Others, OtherNext(o) PROVE CallsOK(call', Len(req'), DOMAIN thread')
  <2>1. CASE ForceReturn(o)
    BY <1>0, <2>1, <1>4 DEF ForceReturn, Return
  <2> QED  BY <1>12, <1>2, <1>3, <2>1, Zenon DEF OtherNext
<1>13. ASSUME NEW c \in Callers, JoinBegin(c) PROVE CallsOK(call', Len(req'), DOMAIN thread')
  BY <1>13, <1>5, <1>6, <1>10, Zenon DEF JoinBegin, Joinable
<1>14. ASSUME NEW c \in Callers, JoinEnd(c) PROVE CallsOK(call', Len(req'), DOMAIN thread')
  BY <1>14, <1>5, Zenon DEF JoinEnd
<1>15. ASSUME NEW c \in Callers, TellLost(c) PROVE CallsOK(call', Len(req'), DOMAIN thread')
  BY <1>15, <1>7 DEF TellLost, Goto
<1>16. ASSUME NEW t \in DOMAIN thread, ThreadStep(t)
       PROVE  CallsOK(call', Len(req'), DOMAIN thread')
  BY <1>16, <1>10, Zenon DEF ThreadStep, ThreadBegin, ThreadPeriod, ThreadPlay, ThreadCount,
     ThreadAnswer
<1> QED  BY <1>11, <1>12, <1>13, <1>14, <1>15, <1>16, Zenon DEF Next

-----------------------------------------------------------------------------
(***************************************************************************)
(* The owner and its thread.  A session may pass the invalid token, and it *)
(* is only because an owner has a thread that a stream is never started    *)
(* with it: the types need this invariant too.                             *)
(***************************************************************************)

LEMMA OwnerStep ==
    ASSUME TypeOK, OwnerHasThread, Next
    PROVE  OwnerHasThread'
<1>0. /\ next \in Nat /\ DOMAIN thread \subseteq 1..next
      /\ \A t \in DOMAIN thread : thread[t] \in Thread
      /\ \A c \in Callers : CallOK(call[c], Len(req), DOMAIN thread)
  BY TypeParts DEF PlainOK, Token, ThreadsOK, CallsOK
<1>1. ASSUME state' = "IDLE" PROVE OwnerHasThread'
  BY <1>1 DEF OwnerHasThread
<1>2. ASSUME UNCHANGED <<current, tid, thread>>, state' # "IDLE" => state # "IDLE"
      PROVE  OwnerHasThread'
  BY <1>2 DEF OwnerHasThread
<1>3. ASSUME NEW s \in Sessions, SetupGranted(s) PROVE OwnerHasThread'
  <2>1. next + 1 \notin DOMAIN thread
    BY <1>0
  <2>2. /\ current' = next + 1 /\ tid' = next + 1 /\ tid' \in DOMAIN thread'
        /\ thread'[tid'] = NewThread
    BY <1>3, <2>1 DEF SetupGranted
  <2> QED  BY <2>2 DEF OwnerHasThread, NewThread
<1>4. ASSUME NEW c \in Callers, JoinEnd(c) PROVE OwnerHasThread'
  <2> SUFFICES ASSUME state # "IDLE" PROVE OwnerHasThread'
    BY <1>1, <1>4 DEF JoinEnd, owned
  <2>1. call[c].target # tid
    BY <1>4 DEF JoinEnd, OwnerHasThread
  <2>2. UNCHANGED <<current, tid>> /\ DOMAIN thread' = DOMAIN thread
    BY <1>4 DEF JoinEnd, owned
  <2>3. thread'[tid] = thread[tid]
    BY <1>4, <2>1 DEF JoinEnd, OwnerHasThread
  <2> QED  BY <2>2, <2>3 DEF OwnerHasThread
<1>5. ASSUME NEW t \in DOMAIN thread, ThreadStep(t) PROVE OwnerHasThread'
  <2> SUFFICES ASSUME state # "IDLE" PROVE OwnerHasThread'
    BY <1>1, <1>5 DEF ThreadStep, ThreadBegin, ThreadPeriod, ThreadPlay, ThreadCount,
                      ThreadAnswer, owned
  <2>1. UNCHANGED <<current, tid>> /\ DOMAIN thread' = DOMAIN thread
    BY <1>5 DEF ThreadStep, ThreadBegin, ThreadPeriod, ThreadPlay, ThreadCount, ThreadAnswer,
                owned
  <2>2. CASE t # tid
    <3>1. thread'[tid] = thread[tid]
      BY <1>5, <2>2 DEF ThreadStep, ThreadBegin, ThreadPeriod, ThreadPlay, ThreadCount,
                        ThreadAnswer, OwnerHasThread
    <3> QED  BY <2>1, <3>1 DEF OwnerHasThread
  <2>3. CASE t = tid
    <3>0. TokenCurrent(t) /\ thread[t] \in Thread
      BY <1>0, <2>3 DEF OwnerHasThread, TokenCurrent
    <3>1. CASE ThreadBegin(t)
      BY <2>1, <2>3, <3>0, <3>1 DEF ThreadBegin, OwnerHasThread, Thread
    <3>2. CASE ThreadPeriod(t)
      BY <2>1, <2>3, <3>0, <3>2 DEF ThreadPeriod, OwnerHasThread, Thread
    <3>3. CASE ThreadPlay(t)
      BY <2>1, <2>3, <3>0, <3>3 DEF ThreadPlay, OwnerHasThread, Thread
    <3>4. CASE ThreadCount(t)
      BY <2>1, <2>3, <3>0, <3>4 DEF ThreadCount, OwnerHasThread, Thread
    <3>5. CASE ThreadAnswer(t)
      BY <2>1, <2>3, <3>0, <3>5 DEF ThreadAnswer, OwnerHasThread, Thread
    <3> QED  BY <1>5, <3>1, <3>2, <3>3, <3>4, <3>5, Zenon DEF ThreadStep
  <2> QED  BY <2>2, <2>3
<1>6. ASSUME NEW s \in Sessions, SessionNext(s) PROVE OwnerHasThread'
  <2>1. CASE SetupEnter(s) \/ \E t : Teardown(s, t)
    BY <1>1, <2>1 DEF SetupEnter, Kick, Teardown, Vacate
  <2>2. CASE SetupRefused(s) \/ SetupResync(s) \/ SetupReturn(s) \/ SetupFail(s)
    BY <1>2, <2>2 DEF SetupRefused, SetupResync, SetupReturn, SetupFail, owned
  <2>3. CASE \E t : Start(s, t) \/ Stop(s, t)
    BY <1>2, <2>3 DEF Start, Stop
  <2> QED  BY <1>3, <1>6, <2>1, <2>2, <2>3, Zenon DEF SessionNext
<1>7. ASSUME NEW o \in Others, OtherNext(o) PROVE OwnerHasThread'
  <2>1. CASE ForceEnter(o) \/ ForceRetry(o)
    BY <1>1, <2>1 DEF ForceEnter, ForceRetry, Kick
  <2>2. CASE ForceReturn(o)
    BY <1>2, <2>2 DEF ForceReturn
  <2> QED  BY <1>7, <2>1, <2>2 DEF OtherNext
<1>8. ASSUME NEW c \in Callers, JoinBegin(c) \/ TellLost(c) PROVE OwnerHasThread'
  BY <1>2, <1>8 DEF JoinBegin, TellLost, owned
<1> QED  BY <1>4, <1>5, <1>6, <1>7, <1>8, Zenon DEF Next

\* Both invariants survive a step that changes nothing.
LEMMA TypeOwnerStep ==
    ASSUME TypeOK, OwnerHasThread, [Next]_vars
    PROVE  TypeOK' /\ OwnerHasThread'
<1>1. CASE Next
  <2>1. PlainOK' /\ ThreadsOK' /\ (new \in BOOLEAN)'
        /\ CallsOK(call, Len(req), DOMAIN thread)'
    BY <1>1, PlainStep, ThreadsStep, NewStep, CallsStep
  <2>2. OwnerHasThread'
    BY <1>1, OwnerStep
  <2> QED  BY <2>1, <2>2, TypeParts DEF TypeOK, PlainOK, ThreadsOK
<1>2. CASE UNCHANGED vars
  <2>1. OwnerHasThread'
    BY <1>2 DEF vars, owned, OwnerHasThread
  <2>2. TypeOK'
    BY <1>2 DEF vars, owned, TypeOK, CallsOK, CallOK
  <2> QED  BY <2>1, <2>2
<1> QED  BY <1>1, <1>2

LEMMA OwnerInit == Init => OwnerHasThread
BY DEF Init, OwnerHasThread

\* Every reachable state of the output plugin is of its type.
THEOREM TypeCorrect == Spec => []TypeOK
<1>1. TypeOK /\ OwnerHasThread /\ [Next]_vars => (TypeOK /\ OwnerHasThread)'
  BY TypeOwnerStep
<1> QED  BY <1>1, TypeInit, OwnerInit, PTL DEF Spec

\* An owner of the hardware has a thread that runs and that nobody has joined.
THEOREM OwnerIsServed == Spec => []OwnerHasThread
<1>1. TypeOK /\ OwnerHasThread /\ [Next]_vars => (TypeOK /\ OwnerHasThread)'
  BY TypeOwnerStep
<1> QED  BY <1>1, TypeInit, OwnerInit, PTL DEF Spec

-----------------------------------------------------------------------------
(***************************************************************************)
(* One owner at a time.  A setup or force_teardown that has kicked off the *)
(* owner finds in its second critical section that its token is current    *)
(* only if nobody has become the owner in between (CallsBehind), and a     *)
(* token that is current while nobody owns the hardware is not the token   *)
(* of any thread (NoThreadYet).                                            *)
(***************************************************************************)

Kicking == {"join", "joining", "lost", "check"}

FreshTokens == \A c \in Callers : call[c].token <= next
CallsBehind ==
    state # "IDLE" => \A c \in Callers : call[c].pc \in Kicking => call[c].token # current
NoThreadYet == state = "IDLE" => current \notin DOMAIN thread

OwnershipInv == TypeOK /\ OwnerHasThread /\ FreshTokens /\ CallsBehind /\ NoThreadYet
                /\ PlaysOwnStream

\* What a step that neither kicks nor grants does to the calls.
CallFrame ==
    \A d \in Callers :
        \/ call'[d].token = None
        \/ /\ call'[d].token = call[d].token
           /\ call'[d].pc \in Kicking => call[d].pc \in Kicking

SomeKick == \E c \in Callers, k \in Call : Kick(c, k) /\ UNCHANGED <<stream, new, thread, tid>>

Vacates == current' = Invalid /\ state' = "IDLE"

\* The three kinds of steps.
LEMMA StepKinds ==
    ASSUME TypeOK, Next
    PROVE  \/ SomeKick
           \/ \E s \in Sessions : SetupGranted(s)
           \/ /\ CallFrame /\ UNCHANGED <<next, tid>> /\ DOMAIN thread' = DOMAIN thread
              /\ \/ Vacates
                 \/ UNCHANGED current /\ (state' = "IDLE" <=> state = "IDLE")
<1> DEFINE Quiet == /\ CallFrame /\ UNCHANGED <<next, tid>> /\ DOMAIN thread' = DOMAIN thread
                    /\ \/ Vacates
                       \/ UNCHANGED current /\ (state' = "IDLE" <=> state = "IDLE")
<1>0. /\ \A c \in Callers : call[c] \in Call
      /\ call \in [Callers -> Call]
      /\ Sessions \subseteq Callers /\ Others \subseteq Callers
  BY TypeParts DEF CallsOK, Callers
<1>n. NoCall \in Call /\ NoCall.token = None /\ NoCall.pc = "idle"
  BY DEF NoCall, Call, None
<1>1. ASSUME NEW s \in Sessions, SetupEnter(s) PROVE SomeKick
  <2> DEFINE n == Len(req) + 1
             k == [NoCall EXCEPT !.op = "setup", !.req = n]
  <2>1. n \in Nat
    BY TypeParts, LenProperties DEF PlainOK
  <2>2. Kick(s, k) /\ UNCHANGED <<stream, new, thread, tid>>
    BY <1>1 DEF SetupEnter
  <2> HIDE DEF n
  <2>3. k \in Call
    BY <1>n, <2>1 DEF Call
  <2> HIDE DEF k
  <2> QED  BY <1>0, <2>2, <2>3 DEF SomeKick
<1>2. ASSUME NEW o \in Others, ForceEnter(o) PROVE SomeKick
  <2> DEFINE k == [NoCall EXCEPT !.op = "force"]
  <2>1. k \in Call
    BY <1>n DEF Call
  <2>2. Kick(o, k) /\ UNCHANGED <<stream, new, thread, tid>>
    BY <1>2 DEF ForceEnter
  <2> HIDE DEF k
  <2> QED  BY <1>0, <2>1, <2>2 DEF SomeKick
<1>3. ASSUME NEW o \in Others, ForceRetry(o) PROVE SomeKick
  BY <1>0, <1>3 DEF ForceRetry, SomeKick
<1>4. ASSUME UNCHANGED call PROVE CallFrame
  BY <1>4 DEF CallFrame
<1>5. ASSUME NEW c \in Callers, NEW k, k.token = None, call' = [call EXCEPT ![c] = k]
      PROVE  CallFrame
  BY <1>0, <1>5 DEF CallFrame
<1>6. ASSUME NEW c \in Callers, call[c].pc \in Kicking \/ call[c].pc = "resync",
             NEW pc \in {"check", "refuse", "callback"}, pc = "check" => call[c].pc \in Kicking,
             call' = [call EXCEPT ![c].pc = pc]
      PROVE  CallFrame
  <2>1. /\ call'[c].token = call[c].token /\ call'[c].pc = pc
        /\ \A d \in Callers \ {c} : call'[d] = call[d]
    BY <1>0, <1>6 DEF Call
  <2> QED  BY <1>6, <2>1 DEF CallFrame, Kicking
<1>7. ASSUME NEW c \in Callers, call[c].pc \in Kicking, call' = [call EXCEPT ![c] = AfterJoin(@)]
      PROVE  CallFrame
  <2>1. CASE call[c].op = "teardown"
    BY <1>n, <1>5, <1>7, <2>1 DEF AfterJoin
  <2>2. CASE call[c].op # "teardown"
    <3> DEFINE pc == IF call[c].lost # None THEN "lost" ELSE "check"
    <3>1. call' = [call EXCEPT ![c] = [call[c] EXCEPT !.pc = pc]]
      BY <1>7, <2>2 DEF AfterJoin
    <3>2. pc \in Kicking
      BY DEF Kicking
    <3> HIDE DEF pc
    <3>3. /\ call'[c].token = call[c].token /\ call'[c].pc = pc
          /\ \A d \in Callers \ {c} : call'[d] = call[d]
      BY <1>0, <3>1 DEF Call
    <3> QED  BY <1>7, <3>3 DEF CallFrame
  <2> QED  BY <2>1, <2>2
<1>8. ASSUME NEW s \in Sessions, SetupRefused(s) PROVE Quiet
  BY <1>0, <1>6, <1>8 DEF SetupRefused, Goto, Kicking
<1>9. ASSUME NEW s \in Sessions, SetupResync(s) PROVE Quiet
  BY <1>0, <1>6, <1>9 DEF SetupResync, Goto, Kicking, owned
<1>10. ASSUME NEW s \in Sessions, SetupReturn(s) \/ SetupFail(s) PROVE Quiet
  BY <1>0, <1>n, <1>5, <1>10 DEF SetupReturn, SetupFail, Return, owned
<1>11. ASSUME NEW s \in Sessions, NEW t, Teardown(s, t) PROVE Quiet
  <2> DEFINE k == [NoCall EXCEPT !.op = "teardown", !.pc = "join"]
  <2>1. k.token = None
    BY <1>n DEF Call
  <2>2. call' = [call EXCEPT ![s] = k]
    BY <1>11 DEF Teardown
  <2> HIDE DEF k
  <2>3. CallFrame
    BY <1>0, <1>5, <2>1, <2>2
  <2> QED  BY <1>11, <2>3 DEF Teardown, Vacate, Vacates
<1>12. ASSUME NEW s \in Sessions, NEW t, Start(s, t) \/ Stop(s, t) PROVE Quiet
  BY <1>4, <1>12 DEF Start, Stop
<1>13. ASSUME NEW o \in Others, ForceReturn(o) PROVE Quiet
  BY <1>0, <1>n, <1>5, <1>13 DEF ForceReturn, Return
<1>14. ASSUME NEW c \in Callers, JoinBegin(c) PROVE Quiet
  <2>1. CallFrame
    <3>1. CASE call' = [call EXCEPT ![c].pc = "joining", ![c].target = tid]
      <4>1. /\ call'[c].token = call[c].token
            /\ \A d \in Callers \ {c} : call'[d] = call[d]
        BY <1>0, <3>1 DEF Call
      <4> QED  BY <1>14, <4>1 DEF CallFrame, JoinBegin, Kicking
    <3> QED  BY <1>14, <1>4, <1>7, <3>1 DEF JoinBegin, Kicking
  <2> QED  BY <1>14, <2>1 DEF JoinBegin, owned
<1>15. ASSUME NEW c \in Callers, JoinEnd(c) PROVE Quiet
  BY <1>7, <1>15 DEF JoinEnd, Kicking, owned
<1>16. ASSUME NEW c \in Callers, TellLost(c) PROVE Quiet
  BY <1>6, <1>16 DEF TellLost, Goto, Kicking, owned
<1>17. ASSUME NEW t \in DOMAIN thread, ThreadStep(t) PROVE Quiet
  BY <1>4, <1>17 DEF ThreadStep, ThreadBegin, ThreadPeriod, ThreadPlay, ThreadCount,
                     ThreadAnswer, owned
<1> HIDE DEF Quiet
<1>18. SomeKick \/ (\E s \in Sessions : SetupGranted(s)) \/ Quiet
  BY <1>1, <1>2, <1>3, <1>8, <1>9, <1>10, <1>11, <1>12, <1>13, <1>14, <1>15, <1>16, <1>17,
     Zenon DEF Next, SessionNext, OtherNext
<1> QED  BY <1>18 DEF Quiet

LEMMA TokensStep ==
    ASSUME OwnershipInv, Next
    PROVE  FreshTokens' /\ CallsBehind' /\ NoThreadYet'
<1>0. /\ next \in Nat \ {0} /\ \A c \in Callers : call[c] \in Call /\ call[c].token <= next
      /\ call \in [Callers -> Call] /\ DOMAIN thread \subseteq 1..next
      /\ current \in 1..next \union {Invalid}
  BY TypeParts DEF OwnershipInv, FreshTokens, CallsOK, PlainOK, ThreadsOK, Token
<1>1. CASE SomeKick
  <2>1. PICK c \in Callers, k \in Call : Kick(c, k) /\ UNCHANGED <<stream, new, thread, tid>>
    BY <1>1 DEF SomeKick
  <2>2. /\ next' = next + 1 /\ current' = next + 1 /\ state' = "IDLE" /\ UNCHANGED thread
        /\ \A d \in Callers \ {c} : call'[d] = call[d]
        /\ call'[c] = Kicked(k)
    BY <1>0, <2>1 DEF Kick
  <2>3. Kicked(k).token = next + 1
    BY KickedFields DEF OwnershipInv
  <2>4. FreshTokens'
    BY <1>0, <2>2, <2>3 DEF FreshTokens, Call
  <2> QED  BY <1>0, <2>2, <2>4 DEF CallsBehind, NoThreadYet
<1>2. ASSUME NEW s \in Sessions, SetupGranted(s) PROVE FreshTokens' /\ CallsBehind' /\ NoThreadYet'
  <2>1. /\ next' = next + 1 /\ current' = next + 1 /\ state' = "STOPPED"
        /\ \A d \in Callers \ {s} : call'[d] = call[d]
        /\ call'[s].token = next + 1 /\ call'[s].pc = "resync"
    BY <1>0, <1>2 DEF SetupGranted, Callers, Call
  <2> QED  BY <1>0, <2>1 DEF FreshTokens, CallsBehind, NoThreadYet, Kicking, Call
<1>3. CASE /\ CallFrame /\ UNCHANGED <<next, tid>> /\ DOMAIN thread' = DOMAIN thread
           /\ \/ Vacates
              \/ UNCHANGED current /\ (state' = "IDLE" <=> state = "IDLE")
  <2>1. FreshTokens'
    BY <1>0, <1>3 DEF FreshTokens, CallFrame, None
  <2>2. CASE Vacates
    BY <1>0, <1>3, <2>1, <2>2 DEF Vacates, CallsBehind, NoThreadYet, Invalid
  <2>3. CASE UNCHANGED current /\ (state' = "IDLE" <=> state = "IDLE")
    <3>1. NoThreadYet'
      BY <1>3, <2>3 DEF NoThreadYet, OwnershipInv
    <3>2. current # None
      BY <1>0 DEF Invalid, None
    <3>3. CallsBehind'
      BY <1>3, <2>3, <3>2 DEF CallsBehind, CallFrame, OwnershipInv
    <3> QED  BY <2>1, <3>1, <3>3
  <2> QED  BY <1>3, <2>2, <2>3
<1> QED  BY <1>1, <1>2, <1>3, StepKinds DEF OwnershipInv

\* A call in its second critical section whose token is current finds no owner.
LEMMA NobodyOwns ==
    ASSUME OwnershipInv, NEW c \in Callers, call[c].pc = "check", StillCurrent(c)
    PROVE  state = "IDLE"
BY DEF OwnershipInv, CallsBehind, Kicking, StillCurrent

LEMMA StreamStep ==
    ASSUME OwnershipInv, Next
    PROVE  PlaysOwnStream'
<1>0. /\ \A t \in DOMAIN thread : thread[t] \in Thread /\ thread[t].stream \in {None, t}
      /\ state \in {"IDLE", "STOPPED", "RUNNING"}
      /\ state = "STOPPED" => stream = None
      /\ state = "RUNNING" => stream = current
      /\ Sessions \subseteq Callers /\ Others \subseteq Callers
  BY TypeParts DEF OwnershipInv, PlaysOwnStream, PlainOK, ThreadsOK, Callers
<1>1. ASSUME UNCHANGED <<current, state, stream, thread>> PROVE PlaysOwnStream'
  BY <1>1 DEF PlaysOwnStream, OwnershipInv
<1>2. ASSUME UNCHANGED thread, state' = "IDLE" PROVE PlaysOwnStream'
  BY <1>0, <1>2 DEF PlaysOwnStream
<1>3. ASSUME NEW s \in Sessions, SetupRefused(s) PROVE PlaysOwnStream'
  <2>1. CASE StillCurrent(s)
    <3>1. state = "IDLE"
      BY <1>0, <1>3, <2>1, NobodyOwns DEF SetupRefused
    <3> QED  BY <1>2, <1>3, <3>1 DEF SetupRefused
  <2>2. CASE ~StillCurrent(s)
    BY <1>1, <1>3, <2>2 DEF SetupRefused
  <2> QED  BY <2>1, <2>2
<1>4. ASSUME NEW s \in Sessions, SetupGranted(s) PROVE PlaysOwnStream'
  BY <1>0, <1>4 DEF SetupGranted, PlaysOwnStream, NewThread
<1>5. ASSUME NEW o \in Others, ForceReturn(o) PROVE PlaysOwnStream'
  <2>1. state = "IDLE"
    BY <1>0, <1>5, NobodyOwns DEF ForceReturn
  <2> QED  BY <1>2, <1>5, <2>1 DEF ForceReturn
<1>6. ASSUME NEW s \in Sessions, NEW t, Start(s, t) PROVE PlaysOwnStream'
  BY <1>0, <1>6 DEF Start, PlaysOwnStream
<1>7. ASSUME NEW s \in Sessions, NEW t, Stop(s, t) PROVE PlaysOwnStream'
  BY <1>0, <1>7 DEF Stop, DropStream, PlaysOwnStream
<1>8. ASSUME UNCHANGED <<current, state, stream>>, DOMAIN thread' = DOMAIN thread,
             \A t \in DOMAIN thread : thread'[t].stream \in {None, t}
      PROVE  PlaysOwnStream'
  BY <1>0, <1>8 DEF PlaysOwnStream
<1>9. ASSUME NEW c \in Callers, JoinEnd(c) PROVE PlaysOwnStream'
  <2>1. \A t \in DOMAIN thread : thread'[t].stream = thread[t].stream
    BY <1>0, <1>9 DEF JoinEnd, Thread
  <2> QED  BY <1>0, <1>8, <1>9, <2>1 DEF JoinEnd, owned
<1>10. ASSUME NEW t \in DOMAIN thread, ThreadBegin(t) \/ ThreadPlay(t) \/ ThreadCount(t)
              \/ ThreadAnswer(t)
       PROVE  PlaysOwnStream'
  <2>1. \A u \in DOMAIN thread : thread'[u].stream = thread[u].stream
    BY <1>0, <1>10 DEF ThreadBegin, ThreadPlay, ThreadCount, ThreadAnswer, Thread
  <2> QED  BY <1>0, <1>8, <1>10, <2>1 DEF ThreadBegin, ThreadPlay, ThreadCount, ThreadAnswer, owned
<1>11. ASSUME NEW t \in DOMAIN thread, ThreadPeriod(t) PROVE PlaysOwnStream'
  <2>1. TokenCurrent(t) => stream \in {None, t}
    BY <1>0 DEF TokenCurrent, OwnershipInv, NoThreadYet
  <2>2. \A u \in DOMAIN thread : thread'[u].stream \in {None, u}
    BY <1>0, <1>11, <2>1 DEF ThreadPeriod, Thread
  <2> QED  BY <1>8, <1>11, <2>2 DEF ThreadPeriod
<1>12. ASSUME NEW s \in Sessions, SessionNext(s) PROVE PlaysOwnStream'
  <2>1. CASE SetupEnter(s)
    BY <1>2, <2>1 DEF SetupEnter, Kick
  <2>2. CASE SetupResync(s) \/ SetupReturn(s) \/ SetupFail(s)
    BY <1>1, <2>2 DEF SetupResync, SetupReturn, SetupFail, owned
  <2>3. CASE \E t : Teardown(s, t)
    BY <1>2, <2>3 DEF Teardown, Vacate
  <2> QED  BY <1>12, <1>3, <1>4, <1>6, <1>7, <2>1, <2>2, <2>3, Zenon DEF SessionNext
<1>13. ASSUME NEW o \in Others, ForceEnter(o) \/ ForceRetry(o) PROVE PlaysOwnStream'
  BY <1>2, <1>13 DEF ForceEnter, ForceRetry, Kick
<1>14. ASSUME NEW c \in Callers, JoinBegin(c) \/ TellLost(c) PROVE PlaysOwnStream'
  BY <1>1, <1>14 DEF JoinBegin, TellLost, owned
<1> QED  BY <1>5, <1>9, <1>10, <1>11, <1>12, <1>13, <1>14, Zenon DEF Next, OtherNext, ThreadStep

LEMMA OwnershipStep ==
    ASSUME OwnershipInv, [Next]_vars
    PROVE  OwnershipInv'
<1>1. TypeOK' /\ OwnerHasThread'
  BY TypeOwnerStep DEF OwnershipInv
<1>2. CASE Next
  BY <1>1, <1>2, TokensStep, StreamStep DEF OwnershipInv
<1>3. CASE UNCHANGED vars
  <2>1. FreshTokens' /\ CallsBehind' /\ NoThreadYet' /\ PlaysOwnStream'
    BY <1>3 DEF vars, owned, OwnershipInv, FreshTokens, CallsBehind, NoThreadYet, PlaysOwnStream
  <2> QED  BY <1>1, <2>1 DEF OwnershipInv
<1> QED  BY <1>2, <1>3

LEMMA OwnershipInit == Init => OwnershipInv
<1> SUFFICES ASSUME Init PROVE OwnershipInv
  OBVIOUS
<1>1. \A c \in Callers : call[c].token = None
  BY DEF Init, NoCall
<1>2. DOMAIN thread = {} /\ state = "IDLE" /\ next = 1
  BY DEF Init
<1> QED  BY <1>1, <1>2, TypeInit, OwnerInit
         DEF OwnershipInv, FreshTokens, CallsBehind, NoThreadYet, PlaysOwnStream, None

LEMMA OwnershipAlways == Spec => []OwnershipInv
BY OwnershipInit, OwnershipStep, PTL DEF Spec

\* Only the owner's stream plays: a new owner begins with silence, and a thread never has a
\* stream that was started with another token than its own.
THEOREM OnlyOwnStream == Spec => []PlaysOwnStream
<1>1. OwnershipInv => PlaysOwnStream
  BY DEF OwnershipInv
<1> QED  BY <1>1, OwnershipAlways, PTL

-----------------------------------------------------------------------------
(***************************************************************************)
(* The ownership token                                                     *)
(***************************************************************************)

\* Every step of the plugin is a step of the abstract ownership or leaves it alone.
LEMMA OwnershipRefinementStep ==
    ASSUME OwnershipInv, [Next]_vars
    PROVE  [Ownership!Next]_(Ownership!vars)
<1>0. /\ next \in Nat /\ tid \in Nat /\ tid <= next
      /\ state \in {"IDLE", "STOPPED", "RUNNING"}
      /\ current \in 1..next \union {Invalid}
      /\ Sessions \subseteq Callers /\ Others \subseteq Callers
  BY TypeParts DEF OwnershipInv, PlainOK, ThreadsOK, Token, None, Callers
<1>c. current # None
  BY <1>0 DEF Invalid, None
<1>1. ASSUME UNCHANGED <<current, state, tid>> PROVE UNCHANGED Ownership!vars
  BY <1>1 DEF Ownership!vars
<1>2. ASSUME state' = "IDLE", UNCHANGED tid PROVE [Ownership!Next]_(Ownership!vars)
  <2>1. CASE state = "IDLE"
    BY <1>2, <2>1 DEF Ownership!vars
  <2>2. CASE state # "IDLE"
    BY <1>2, <1>c, <2>2 DEF Ownership!Next, Ownership!GiveUp, Ownership!Nobody, None
  <2> QED  BY <2>1, <2>2
<1>3. ASSUME NEW s \in Sessions, SetupGranted(s) PROVE Ownership!Next
  <2>1. state = "IDLE"
    BY <1>0, <1>3, NobodyOwns DEF SetupGranted
  <2>2. /\ tid' = next + 1 /\ current' = next + 1 /\ state' = "STOPPED"
    BY <1>3 DEF SetupGranted
  <2>3. tid' \in Nat /\ tid' > tid /\ tid <= next
    BY <1>0, <2>2 DEF None
  <2> QED  BY <2>1, <2>2, <2>3 DEF Ownership!Next, Ownership!Take, Ownership!Nobody, None
<1>4. ASSUME NEW s \in Sessions, NEW t, Start(s, t) PROVE Ownership!Next
  BY <1>4, <1>c DEF Start, Ownership!Next, Ownership!Play, Ownership!Nobody, None
<1>5. ASSUME NEW s \in Sessions, NEW t, Stop(s, t) PROVE Ownership!Next
  BY <1>5 DEF Stop, Ownership!Next, Ownership!Pause
<1>6. ASSUME NEW s \in Sessions, SessionNext(s) PROVE [Ownership!Next]_(Ownership!vars)
  <2>1. CASE SetupEnter(s)
    BY <1>2, <2>1 DEF SetupEnter, Kick
  <2>2. CASE SetupRefused(s) \/ SetupResync(s) \/ SetupReturn(s) \/ SetupFail(s)
    BY <1>1, <2>2 DEF SetupRefused, SetupResync, SetupReturn, SetupFail, owned
  <2>3. CASE \E t : Teardown(s, t)
    BY <1>2, <2>3 DEF Teardown, Vacate
  <2> QED  BY <1>6, <1>3, <1>4, <1>5, <2>1, <2>2, <2>3, Zenon DEF SessionNext
<1>7. ASSUME NEW o \in Others, OtherNext(o) PROVE [Ownership!Next]_(Ownership!vars)
  <2>1. CASE ForceEnter(o) \/ ForceRetry(o)
    BY <1>2, <2>1 DEF ForceEnter, ForceRetry, Kick
  <2>2. CASE ForceReturn(o)
    BY <1>1, <2>2 DEF ForceReturn
  <2> QED  BY <1>7, <2>1, <2>2 DEF OtherNext
<1>8. ASSUME NEW c \in Callers, JoinBegin(c) \/ JoinEnd(c) \/ TellLost(c)
      PROVE  UNCHANGED Ownership!vars
  BY <1>1, <1>8 DEF JoinBegin, JoinEnd, TellLost, owned
<1>9. ASSUME NEW t \in DOMAIN thread, ThreadStep(t) PROVE UNCHANGED Ownership!vars
  BY <1>1, <1>9 DEF ThreadStep, ThreadBegin, ThreadPeriod, ThreadPlay, ThreadCount,
                    ThreadAnswer, owned
<1>10. CASE UNCHANGED vars
  BY <1>1, <1>10 DEF vars, owned
<1> QED  BY <1>6, <1>7, <1>8, <1>9, <1>10, Zenon DEF Next

\* The plugin implements the ownership token: one owner at a time, a token that is new for
\* every owner, and no change of hands but through nobody's.
THEOREM PluginImplementsOwnership == Spec => ImplementsOwnership
<1>1. Init => Ownership!Init
  BY DEF Init, Ownership!Init, Ownership!Nobody, None
<1>2. OwnershipInv /\ [Next]_vars => [Ownership!Next]_(Ownership!vars)
  BY OwnershipRefinementStep
<1> QED  BY <1>1, <1>2, OwnershipAlways, PTL DEF Spec, ImplementsOwnership, Ownership!Spec

-----------------------------------------------------------------------------
(***************************************************************************)
(* The handover.  The owner's callback is in the plugin exactly while      *)
(* somebody owns the hardware (OwnersCallback); the tokens of the granted  *)
(* setups are those of different threads (GrantedTokens); a setup that is  *)
(* on its way has no token yet (SetupsPending); and whoever a call has to  *)
(* tell of a loss, or has told, was granted the hardware, has not torn it  *)
(* down and does not own it (OwedLosses).                                  *)
(***************************************************************************)

OwnersCallback ==
    /\ lostCb # None <=> state # "IDLE"
    /\ state # "IDLE" => lostCb \in DOMAIN req /\ req[lostCb].token = current

GrantedTokens ==
    /\ \A r \in DOMAIN req : req[r].token # None => req[r].token \in DOMAIN thread
    /\ \A r, q \in DOMAIN req : r # q /\ req[r].token # None => req[r].token # req[q].token

SetupsPending ==
    /\ \A c \in Callers : call[c].op = "setup" /\ call[c].pc \in Kicking
                              => req[call[c].req].token = None
    /\ \A c, d \in Callers : c # d /\ call[c].op = "setup" /\ call[d].op = "setup"
                              => call[c].req # call[d].req

OwedLosses ==
    \A c \in Callers : call[c].lost # None =>
        /\ req[call[c].lost].token # None
        /\ req[call[c].lost].teardowns = 0
        /\ call[c].lost # lostCb

Lost(r) == req[r].losses > 0 \/ BeingTold(r)

\* What Handover says of one request, given OwnersCallback.
Fate(r) ==
    /\ req[r].token = None => ~Lost(r) /\ req[r].teardowns = 0
    /\ req[r].token # None =>
          /\ lostCb = r \/ req[r].teardowns = 1 \/ Lost(r)
          /\ lostCb = r \/ Lost(r) => req[r].teardowns = 0
          /\ ~(lostCb = r /\ Lost(r))

HandoverInv ==
    /\ OwnersCallback /\ GrantedTokens /\ SetupsPending /\ OwedLosses
    /\ \A r \in DOMAIN req : Fate(r)

LEMMA HandoverFollows ==
    ASSUME TypeOK, HandoverInv
    PROVE  Handover
<1> SUFFICES ASSUME NEW r \in DOMAIN req
             PROVE  LET owns == state # "IDLE" /\ current = req[r].token /\ lostCb = r
                        torn == req[r].teardowns = 1
                        lost == req[r].losses > 0 \/ BeingTold(r)
                    IN  IF req[r].token = None THEN ~lost /\ req[r].teardowns = 0
                        ELSE /\ owns \/ torn \/ lost
                             /\ owns \/ lost => req[r].teardowns = 0
                             /\ ~(owns /\ lost)
  BY DEF Handover
<1>1. r # None
  BY TypeParts, LenProperties DEF PlainOK, None
<1>2. (state # "IDLE" /\ current = req[r].token /\ lostCb = r) <=> lostCb = r
  BY <1>1 DEF HandoverInv, OwnersCallback
<1>3. Fate(r)
  BY DEF HandoverInv
<1> QED  BY <1>2, <1>3, Zenon DEF Fate, Lost

Telling == {"join", "joining", "lost"}

\* What a step does to a call that does not kick: it owes no more than before, and a setup
\* stays the setup it was.
CallKeeps ==
    \A d \in Callers :
        /\ call'[d].lost # None => call'[d].lost = call[d].lost
        /\ call'[d].op = "setup" =>
              /\ call[d].op = "setup" /\ call'[d].req = call[d].req
              /\ call'[d].pc \in Kicking => call[d].pc \in Kicking

ToldSame ==
    \A d \in Callers : \A r : r # None =>
        ((call'[d].lost = r /\ call'[d].pc \in Telling)
            <=> (call[d].lost = r /\ call[d].pc \in Telling))

\* What a step leaves of a request that neither grants it nor tells its loss.
ReqKeeps ==
    /\ DOMAIN req' = DOMAIN req
    /\ \A r \in DOMAIN req : /\ req'[r].token = req[r].token
                             /\ req'[r].losses = req[r].losses
                             /\ req'[r].teardowns = req[r].teardowns

QuietStep ==
    /\ CallKeeps /\ ToldSame /\ ReqKeeps
    /\ UNCHANGED <<current, lostCb>> /\ (state' = "IDLE" <=> state = "IDLE")
    /\ DOMAIN thread \subseteq DOMAIN thread'

LEMMA SameCalls ==
    ASSUME UNCHANGED call
    PROVE  CallKeeps /\ ToldSame
BY DEF CallKeeps, ToldSame

\* A call that ends.
LEMMA CallEnds ==
    ASSUME TypeOK, NEW c \in Callers, call' = [call EXCEPT ![c] = NoCall],
           call[c].pc \notin Telling \/ call[c].lost = None
    PROVE  CallKeeps /\ ToldSame
<1>1. call \in [Callers -> Call]
  BY TypeParts DEF CallsOK
<1>2. call'[c] = NoCall /\ \A d \in Callers \ {c} : call'[d] = call[d]
  BY <1>1
<1>3. NoCall.lost = None /\ NoCall.op = "none"
  BY DEF NoCall
<1> QED  BY <1>2, <1>3 DEF CallKeeps, ToldSame

\* A call that moves on, and has nobody to tell or goes on being about to.
LEMMA CallMoves ==
    ASSUME TypeOK, NEW c \in Callers, NEW pc, call' = [call EXCEPT ![c].pc = pc],
           pc \in Kicking => call[c].pc \in Kicking,
           (pc \in Telling <=> call[c].pc \in Telling) \/ call[c].lost = None
    PROVE  CallKeeps /\ ToldSame
<1>1. call \in [Callers -> Call]
  BY TypeParts DEF CallsOK
<1>2. /\ call'[c].lost = call[c].lost /\ call'[c].op = call[c].op /\ call'[c].req = call[c].req
      /\ call'[c].pc = pc
      /\ \A d \in Callers \ {c} : call'[d] = call[d]
  BY <1>1 DEF Call
<1> QED  BY <1>2 DEF CallKeeps, ToldSame

LEMMA CallJoined ==
    ASSUME TypeOK, NEW c \in Callers, call' = [call EXCEPT ![c] = AfterJoin(@)],
           call[c].pc \in {"join", "joining"}
    PROVE  CallKeeps /\ ToldSame
<1>1. CallOK(call[c], Len(req), DOMAIN thread)
  BY TypeParts DEF CallsOK
<1>2. CASE call[c].op = "teardown"
  <2>1. call' = [call EXCEPT ![c] = NoCall] /\ call[c].lost = None
    BY <1>1, <1>2 DEF AfterJoin, CallOK
  <2> QED  BY <2>1, CallEnds
<1>3. CASE call[c].op # "teardown" /\ call[c].lost = None
  <2>1. call' = [call EXCEPT ![c].pc = "check"]
    BY <1>3 DEF AfterJoin
  <2> QED  BY <1>3, <2>1, CallMoves DEF Kicking
<1>4. CASE call[c].op # "teardown" /\ call[c].lost # None
  <2>1. call' = [call EXCEPT ![c].pc = "lost"]
    BY <1>4 DEF AfterJoin
  <2> QED  BY <1>4, <2>1, CallMoves DEF Kicking, Telling
<1> QED  BY <1>2, <1>3, <1>4

LEMMA AnsweredKeeps ==
    ASSUME TypeOK, NEW r, NEW t, req' = Answered(r, t)
    PROVE  ReqKeeps
<1>1. \A q \in DOMAIN req : req[q] \in Request
  BY TypeParts, ElementOfSeq, LenProperties DEF PlainOK
<1>2. DOMAIN req' = DOMAIN req /\ \A q \in DOMAIN req \ {r} : req'[q] = req[q]
  BY DEF Answered
<1>3. ASSUME r \in DOMAIN req
      PROVE  /\ req'[r].token = req[r].token /\ req'[r].losses = req[r].losses
             /\ req'[r].teardowns = req[r].teardowns
  <2> DEFINE u == req[r].told \union {t}
  <2>1. req'[r] = [req[r] EXCEPT !.answers = @ + 1, !.told = u] /\ req[r] \in Request
    BY <1>1, <1>3 DEF Answered
  <2> HIDE DEF u
  <2> QED  BY <2>1 DEF Request
<1> QED  BY <1>2, <1>3 DEF ReqKeeps

SomeKicks ==
    \E c \in Callers, k \in Call :
        /\ Kick(c, k) /\ UNCHANGED thread
        /\ call[c].pc \notin Telling /\ k.lost \in {None, call[c].lost}
        /\ DOMAIN req \subseteq DOMAIN req'
        /\ \A r \in DOMAIN req : /\ req'[r].token = req[r].token
                                 /\ req'[r].losses = req[r].losses
                                 /\ req'[r].teardowns = req[r].teardowns
        /\ \A r \in DOMAIN req' \ DOMAIN req : /\ req'[r].token = None
                                               /\ req'[r].losses = 0
                                               /\ req'[r].teardowns = 0
        /\ k.op = "setup" => k.req \in DOMAIN req' \ DOMAIN req

\* The kinds of steps, for the handover.
LEMMA HandoverSteps ==
    ASSUME TypeOK, Next
    PROVE  \/ SomeKicks
           \/ \E s \in Sessions : SetupGranted(s) \/ \E t : Teardown(s, t)
           \/ \E c \in Callers : TellLost(c)
           \/ QuietStep
<1>0. /\ \A c \in Callers : call[c] \in Call /\ CallOK(call[c], Len(req), DOMAIN thread)
      /\ call \in [Callers -> Call] /\ req \in Seq(Request) /\ DOMAIN req = 1..Len(req)
      /\ Len(req) \in Nat /\ Sessions \subseteq Callers /\ Others \subseteq Callers
  BY TypeParts, LenProperties DEF CallsOK, Callers, PlainOK
<1>n. NoCall \in Call /\ NoCall.token = None /\ NoCall.pc = "idle" /\ NoCall.lost = None
  BY DEF NoCall, Call, None
<1>1. ASSUME NEW s \in Sessions, SetupEnter(s) PROVE SomeKicks
  <2> DEFINE n == Len(req) + 1
             k == [NoCall EXCEPT !.op = "setup", !.req = n]
             e == [by |-> s, token |-> None, told |-> {}, answers |-> 0, losses |-> 0,
                   teardowns |-> 0]
  <2>1. Kick(s, k) /\ UNCHANGED thread /\ req' = Append(req, e) /\ call[s].pc = "idle"
    BY <1>1 DEF SetupEnter, Idle
  <2>2. e.token = None /\ e.losses = 0 /\ e.teardowns = 0
    OBVIOUS
  <2> HIDE DEF e
  <2>3. /\ DOMAIN req' = DOMAIN req \union {n} /\ n \notin DOMAIN req /\ n \in Nat
        /\ \A r \in DOMAIN req : req'[r] = req[r]
        /\ req'[n] = e
    BY <1>0, <2>1
  <2> HIDE DEF n
  <2>4. k \in Call /\ k.lost = None /\ k.req = n
    BY <1>n, <2>3 DEF Call
  <2> HIDE DEF k
  <2> QED  BY <1>0, <2>1, <2>2, <2>3, <2>4 DEF SomeKicks, Telling
<1>2. ASSUME NEW o \in Others, ForceEnter(o) PROVE SomeKicks
  <2> DEFINE k == [NoCall EXCEPT !.op = "force"]
  <2>1. k \in Call /\ k.lost = None /\ k.op = "force"
    BY <1>n DEF Call
  <2>2. Kick(o, k) /\ UNCHANGED <<thread, req>> /\ call[o].pc = "idle"
    BY <1>2 DEF ForceEnter, Idle
  <2> HIDE DEF k
  <2> QED  BY <1>0, <2>1, <2>2 DEF SomeKicks, Telling
<1>3. ASSUME NEW o \in Others, ForceRetry(o) PROVE SomeKicks
  <2>1. Kick(o, call[o]) /\ UNCHANGED <<thread, req>> /\ call[o].pc = "check"
        /\ call[o].op = "force"
    BY <1>3 DEF ForceRetry
  <2> QED  BY <1>0, <2>1 DEF SomeKicks, Telling
<1>4. UNCHANGED req => ReqKeeps
  BY DEF ReqKeeps
<1>5. ASSUME NEW s \in Sessions, SetupRefused(s) PROVE QuietStep
  <2>1. CallKeeps /\ ToldSame
    BY <1>0, <1>5, CallMoves DEF SetupRefused, Goto, Kicking, Telling
  <2> QED  BY <1>4, <1>5, <2>1 DEF QuietStep, SetupRefused
<1>6. ASSUME NEW s \in Sessions, SetupResync(s) PROVE QuietStep
  <2>1. CallKeeps /\ ToldSame
    BY <1>0, <1>6, CallMoves DEF SetupResync, Goto, Kicking, Telling
  <2> QED  BY <1>4, <1>6, <2>1 DEF QuietStep, SetupResync, owned
<1>7. ASSUME NEW s \in Sessions, SetupReturn(s) PROVE QuietStep
  <2>1. CallKeeps /\ ToldSame
    BY <1>0, <1>7, CallEnds DEF SetupReturn, Return, Telling
  <2> QED  BY <1>4, <1>7, <2>1 DEF QuietStep, SetupReturn, owned
<1>8. ASSUME NEW s \in Sessions, SetupFail(s) PROVE QuietStep
  <2>1. CallKeeps /\ ToldSame
    BY <1>0, <1>8, CallEnds DEF SetupFail, Return, Telling
  <2>2. ReqKeeps
    BY <1>8, AnsweredKeeps DEF SetupFail
  <2> QED  BY <1>8, <2>1, <2>2 DEF QuietStep, SetupFail, owned
<1>9. ASSUME NEW s \in Sessions, NEW t, Start(s, t) \/ Stop(s, t) PROVE QuietStep
  BY <1>4, <1>9, SameCalls DEF QuietStep, Start, Stop
<1>10. ASSUME NEW o \in Others, ForceReturn(o) PROVE QuietStep
  <2>1. CallKeeps /\ ToldSame
    BY <1>0, <1>10, CallEnds DEF ForceReturn, Return, Telling
  <2> QED  BY <1>4, <1>10, <2>1 DEF QuietStep, ForceReturn
<1>11. ASSUME NEW c \in Callers, JoinBegin(c) PROVE QuietStep
  <2>1. CASE call' = [call EXCEPT ![c].pc = "joining", ![c].target = tid]
    <3>1. /\ call'[c].lost = call[c].lost /\ call'[c].op = call[c].op
          /\ call'[c].req = call[c].req /\ call'[c].pc = "joining"
          /\ \A d \in Callers \ {c} : call'[d] = call[d]
      BY <1>0, <2>1 DEF Call
    <3>2. CallKeeps /\ ToldSame
      BY <1>11, <3>1 DEF CallKeeps, ToldSame, JoinBegin, Kicking, Telling
    <3> QED  BY <1>4, <1>11, <3>2 DEF QuietStep, JoinBegin, owned
  <2>2. CASE call' = [call EXCEPT ![c] = AfterJoin(@)]
    <3>1. CallKeeps /\ ToldSame
      BY <1>11, <2>2, CallJoined DEF JoinBegin
    <3> QED  BY <1>4, <1>11, <3>1 DEF QuietStep, JoinBegin, owned
  <2>3. CASE UNCHANGED call
    BY <1>4, <1>11, <2>3, SameCalls DEF QuietStep, JoinBegin, owned
  <2> QED  BY <1>11, <2>1, <2>2, <2>3 DEF JoinBegin
<1>12. ASSUME NEW c \in Callers, JoinEnd(c) PROVE QuietStep
  <2>1. CallKeeps /\ ToldSame
    BY <1>12, CallJoined DEF JoinEnd
  <2> QED  BY <1>4, <1>12, <2>1 DEF QuietStep, JoinEnd, owned
<1>13. ASSUME NEW t \in DOMAIN thread, ThreadStep(t) PROVE QuietStep
  <2>1. CASE ThreadAnswer(t)
    <3>1. ReqKeeps
      BY <1>4, <2>1, AnsweredKeeps DEF ThreadAnswer
    <3> QED  BY <2>1, <3>1, SameCalls DEF QuietStep, ThreadAnswer, owned
  <2>2. CASE ThreadBegin(t) \/ ThreadPeriod(t) \/ ThreadPlay(t) \/ ThreadCount(t)
    BY <1>4, <2>2, SameCalls DEF QuietStep, ThreadBegin, ThreadPeriod, ThreadPlay, ThreadCount,
                                 owned
  <2> QED  BY <1>13, <2>1, <2>2 DEF ThreadStep
<1> QED  BY <1>1, <1>2, <1>3, <1>5, <1>6, <1>7, <1>8, <1>9, <1>10, <1>11, <1>12, <1>13, Zenon
         DEF Next, SessionNext, OtherNext

\* What is known of the calls and requests in a state.
LEMMA HandoverTypes ==
    ASSUME TypeOK
    PROVE  /\ \A c \in Callers :
                 /\ call[c].lost \in 0..Len(req) /\ call[c].req \in 0..Len(req)
                 /\ call[c].op = "setup" => call[c].req \in DOMAIN req
                 /\ call[c].lost # None => call[c].lost \in DOMAIN req
           /\ \A r \in DOMAIN req : /\ r # None /\ req[r].token \in Nat /\ req[r].losses \in Nat
                                    /\ req[r].teardowns \in Nat
           /\ DOMAIN thread \subseteq 1..next /\ next \in Nat /\ lostCb \in Nat
           /\ call \in [Callers -> Call]
<1>1. /\ req \in Seq(Request) /\ DOMAIN req = 1..Len(req) /\ Len(req) \in Nat
      /\ \A r \in DOMAIN req : req[r] \in Request
  BY TypeParts, LenProperties, ElementOfSeq DEF PlainOK
<1>2. \A c \in Callers : call[c] \in Call /\ CallOK(call[c], Len(req), DOMAIN thread)
  BY TypeParts DEF CallsOK
<1>3. \A c \in Callers :
         /\ call[c].lost \in 0..Len(req) /\ call[c].req \in 0..Len(req)
         /\ call[c].op = "setup" => call[c].req \in DOMAIN req
         /\ call[c].lost # None => call[c].lost \in DOMAIN req
  BY <1>1, <1>2 DEF CallOK, Call, None
<1>4. \A r \in DOMAIN req : /\ r # None /\ req[r].token \in Nat /\ req[r].losses \in Nat
                            /\ req[r].teardowns \in Nat
  BY <1>1 DEF Request, None
<1>5. /\ DOMAIN thread \subseteq 1..next /\ next \in Nat /\ lostCb \in Nat
      /\ call \in [Callers -> Call]
  BY <1>1, TypeParts DEF PlainOK, ThreadsOK, Token, CallsOK
<1> QED  BY <1>3, <1>4, <1>5

LEMMA BeingToldIff ==
    ASSUME NEW r
    PROVE  BeingTold(r) <=> \E c \in Callers : call[c].lost = r /\ call[c].pc \in Telling
BY Zenon DEF BeingTold, Telling

\* A step that tells nobody and starts to tell nobody.
LEMMA QuietHandover ==
    ASSUME TypeOK, HandoverInv, QuietStep
    PROVE  HandoverInv'
<1>0. /\ OwnersCallback /\ GrantedTokens /\ SetupsPending /\ OwedLosses
      /\ \A r \in DOMAIN req : Fate(r)
      /\ CallKeeps /\ ToldSame /\ ReqKeeps /\ UNCHANGED <<current, lostCb>>
      /\ (state' = "IDLE" <=> state = "IDLE") /\ DOMAIN thread \subseteq DOMAIN thread'
  BY DEF HandoverInv, QuietStep
<1>1. OwnersCallback'
  BY <1>0 DEF OwnersCallback, ReqKeeps
<1>2. GrantedTokens'
  BY <1>0 DEF GrantedTokens, ReqKeeps
<1>3. SetupsPending'
  BY <1>0, HandoverTypes DEF SetupsPending, ReqKeeps, CallKeeps
<1>4. OwedLosses'
  BY <1>0, HandoverTypes DEF OwedLosses, ReqKeeps, CallKeeps
<1>5. ASSUME NEW r \in DOMAIN req PROVE Fate(r)'
  <2>1. BeingTold(r)' <=> BeingTold(r)
    BY <1>0, HandoverTypes DEF BeingTold, ToldSame, Telling
  <2>2. Lost(r)' <=> Lost(r)
    BY <1>0, <2>1 DEF Lost, ReqKeeps
  <2>3. Fate(r) /\ lostCb' = lostCb /\ req'[r].token = req[r].token
        /\ req'[r].teardowns = req[r].teardowns
    BY <1>0, <1>5 DEF ReqKeeps
  <2> QED  BY <2>2, <2>3 DEF Fate
<1> QED  BY <1>0, <1>1, <1>2, <1>3, <1>4, <1>5 DEF HandoverInv, ReqKeeps

LEMMA RequestsFromOne ==
    ASSUME TypeOK', NEW r \in DOMAIN req'
    PROVE  r # None
BY LenProperties DEF TypeOK, None

\* The owner's callback moves into the hands of whoever kicked it off.
LEMMA KickHandover ==
    ASSUME OwnershipInv, TypeOK', HandoverInv, SomeKicks
    PROVE  HandoverInv'
<1>0. /\ OwnersCallback /\ GrantedTokens /\ SetupsPending /\ OwedLosses
      /\ \A r \in DOMAIN req : Fate(r)
      /\ TypeOK
  BY DEF HandoverInv, OwnershipInv
<1>1. PICK c \in Callers, k \in Call :
        /\ Kick(c, k) /\ UNCHANGED thread
        /\ call[c].pc \notin Telling /\ k.lost \in {None, call[c].lost}
        /\ DOMAIN req \subseteq DOMAIN req'
        /\ \A r \in DOMAIN req : /\ req'[r].token = req[r].token
                                 /\ req'[r].losses = req[r].losses
                                 /\ req'[r].teardowns = req[r].teardowns
        /\ \A r \in DOMAIN req' \ DOMAIN req : /\ req'[r].token = None
                                               /\ req'[r].losses = 0
                                               /\ req'[r].teardowns = 0
        /\ k.op = "setup" => k.req \in DOMAIN req' \ DOMAIN req
  BY DEF SomeKicks
<1>2. PICK join \in BOOLEAN, lost \in {k.lost, lostCb}, pc \in {"join", "lost", "check"} :
        /\ state = "IDLE" => lost = k.lost
        /\ state # "IDLE" => lost = lostCb
        /\ state # "IDLE" => pc = "join"
        /\ pc = "lost" => lost # None
        /\ lost # None => pc # "check"
        /\ Kicked(k) = [op |-> k.op, pc |-> pc, token |-> next + 1, req |-> k.req,
                        join |-> join, target |-> None, lost |-> lost]
  BY <1>0, KickedFields
<1>3. /\ call'[c].op = k.op /\ call'[c].pc = pc /\ call'[c].req = k.req /\ call'[c].lost = lost
      /\ \A d \in Callers \ {c} : call'[d] = call[d]
  BY <1>0, <1>1, <1>2, HandoverTypes DEF Kick
<1>4. /\ state' = "IDLE" /\ lostCb' = None
      /\ state = "IDLE" => lostCb = None
      /\ state # "IDLE" => lostCb # None /\ lostCb \in DOMAIN req /\ req[lostCb].token = current
      /\ state # "IDLE" => current # None
  BY <1>0, <1>1, HandoverTypes DEF Kick, OwnersCallback, OwnershipInv, OwnerHasThread, None
<1>5. lost # None => lost \in DOMAIN req /\ req[lost].token # None /\ req[lost].teardowns = 0
  <2>1. CASE state = "IDLE"
    BY <1>0, <1>1, <1>2, <2>1, HandoverTypes DEF OwedLosses
  <2>2. CASE state # "IDLE"
    BY <1>0, <1>2, <1>4, <2>2 DEF Fate
  <2> QED  BY <2>1, <2>2
<1>6. OwnersCallback'
  BY <1>4 DEF OwnersCallback
<1>7. GrantedTokens'
  BY <1>0, <1>1 DEF GrantedTokens
<1>8. SetupsPending'
  <2>1. \A d \in Callers \ {c} : call'[d].op = "setup" =>
           /\ call'[d].req = call[d].req /\ call[d].req \in DOMAIN req
           /\ call'[d].pc \in Kicking => req'[call'[d].req].token = None
    BY <1>0, <1>1, <1>3, HandoverTypes DEF SetupsPending
  <2>2. call'[c].op = "setup" => /\ call'[c].req \in DOMAIN req' \ DOMAIN req
                                 /\ req'[call'[c].req].token = None
    BY <1>1, <1>3
  <2>3. \A d, e \in Callers \ {c} : d # e /\ call'[d].op = "setup" /\ call'[e].op = "setup"
           => call'[d].req # call'[e].req
    BY <1>0, <1>3 DEF SetupsPending
  <2> QED  BY <2>1, <2>2, <2>3 DEF SetupsPending
<1>9. OwedLosses'
  BY <1>0, <1>1, <1>3, <1>4, <1>5, HandoverTypes DEF OwedLosses
<1>10. ASSUME NEW r \in DOMAIN req' PROVE Fate(r)'
  <2>1. r # None /\ (BeingTold(r)' <=> BeingTold(r) \/ lost = r)
    <3>1. r # None
      BY <1>10, RequestsFromOne
    <3>2. call'[c].lost = r => call'[c].pc \in Telling
      BY <1>2, <1>3, <3>1 DEF Telling
    <3> QED  BY <1>1, <1>3, <3>1, <3>2 DEF BeingTold, Telling
  <2>2. CASE r \in DOMAIN req
    <3>1. Lost(r)' <=> Lost(r) \/ lost = r
      BY <1>1, <2>1, <2>2 DEF Lost
    <3>2. Fate(r) /\ req'[r].token = req[r].token /\ req'[r].teardowns = req[r].teardowns
      BY <1>0, <1>1, <2>2
    <3>3. lostCb = r => lost = r
      BY <1>2, <1>4, <2>1
    <3> QED  BY <1>4, <1>5, <2>1, <3>1, <3>2, <3>3 DEF Fate
  <2>3. CASE r \notin DOMAIN req
    <3>1. ~BeingTold(r)'
      BY <1>0, <1>5, <2>1, <2>3, HandoverTypes DEF BeingTold
    <3>2. req'[r].token = None /\ req'[r].losses = 0 /\ req'[r].teardowns = 0
      BY <1>1, <1>10, <2>3
    <3> QED  BY <3>1, <3>2 DEF Fate, Lost
  <2> QED  BY <2>2, <2>3
<1> QED  BY <1>6, <1>7, <1>8, <1>9, <1>10 DEF HandoverInv

\* A setup that is granted owns the hardware: nobody did before, and it was told of no loss.
LEMMA GrantHandover ==
    ASSUME OwnershipInv, HandoverInv, NEW s \in Sessions, SetupGranted(s)
    PROVE  HandoverInv'
<1> DEFINE q == call[s].req
<1>0. /\ OwnersCallback /\ GrantedTokens /\ SetupsPending /\ OwedLosses
      /\ \A r \in DOMAIN req : Fate(r)
      /\ TypeOK /\ s \in Callers
  BY DEF HandoverInv, OwnershipInv, Callers
<1>1. state = "IDLE" /\ lostCb = None
  BY <1>0, NobodyOwns DEF SetupGranted, OwnersCallback
<1>2. /\ q \in DOMAIN req /\ q # None /\ req[q].token = None
      /\ \A d \in Callers \ {s} : call[d].op = "setup" => call[d].req # q
  BY <1>0, HandoverTypes DEF SetupGranted, SetupsPending, Kicking
<1>3. /\ state' = "STOPPED" /\ current' = next + 1 /\ lostCb' = q
      /\ DOMAIN thread' = DOMAIN thread \union {next + 1}
      /\ req' = [req EXCEPT ![q].token = next + 1]
      /\ call' = [call EXCEPT ![s].pc = "resync", ![s].token = next + 1]
  BY DEF SetupGranted
<1>4. /\ DOMAIN req' = DOMAIN req /\ req'[q].token = next + 1
      /\ \A r \in DOMAIN req : /\ req'[r].losses = req[r].losses
                               /\ req'[r].teardowns = req[r].teardowns
                               /\ r # q => req'[r].token = req[r].token
  <2>1. \A r \in DOMAIN req : req[r] \in Request
    BY <1>0, TypeParts, ElementOfSeq, LenProperties DEF PlainOK
  <2> QED  BY <1>2, <1>3, <2>1 DEF Request
<1>5. /\ call'[s].lost = call[s].lost /\ call'[s].op = call[s].op /\ call'[s].req = call[s].req
      /\ call'[s].pc = "resync" /\ call[s].pc = "check"
      /\ \A d \in Callers \ {s} : call'[d] = call[d]
  <2>1. call \in [Callers -> Call]
    BY <1>0, TypeParts DEF CallsOK
  <2> QED  BY <1>0, <1>3, <2>1 DEF Call, SetupGranted
<1> HIDE DEF q
<1>6. OwnersCallback'
  BY <1>2, <1>3, <1>4 DEF OwnersCallback
<1>7. GrantedTokens'
  <2>1. next + 1 \notin DOMAIN thread
    BY <1>0, HandoverTypes
  <2> QED  BY <1>0, <1>3, <1>4, <2>1 DEF GrantedTokens
<1>8. SetupsPending'
  <2>1. \A d \in Callers : call'[d].op = "setup" /\ call'[d].pc \in Kicking
           => d # s /\ call[d].op = "setup" /\ call[d].pc \in Kicking /\ call'[d].req = call[d].req
    BY <1>5 DEF Kicking
  <2>2. \A d \in Callers : call'[d].op = "setup" /\ call'[d].pc \in Kicking
           => req'[call'[d].req].token = None
    BY <1>0, <1>2, <1>4, <2>1, HandoverTypes DEF SetupsPending
  <2>3. \A d \in Callers : call'[d].op = call[d].op /\ call'[d].req = call[d].req
    BY <1>5
  <2> QED  BY <1>0, <2>2, <2>3 DEF SetupsPending
<1>9. \A d \in Callers : call'[d].lost = call[d].lost /\ (call[d].lost # None => call[d].lost # q)
  BY <1>0, <1>2, <1>5 DEF OwedLosses
<1>10. OwedLosses'
  BY <1>0, <1>3, <1>4, <1>9, HandoverTypes DEF OwedLosses
<1>11. ASSUME NEW r \in DOMAIN req PROVE Fate(r)'
  <2>1. BeingTold(r)' <=> BeingTold(r)
    BY <1>5 DEF BeingTold
  <2>2. Lost(r)' <=> Lost(r)
    BY <1>4, <2>1 DEF Lost
  <2>3. Fate(r) /\ lostCb # r
    BY <1>0, <1>1, HandoverTypes
  <2>4. CASE r = q
    BY <1>2, <1>3, <1>4, <2>2, <2>3, <2>4 DEF Fate
  <2>5. CASE r # q
    BY <1>3, <1>4, <2>2, <2>3, <2>5 DEF Fate
  <2> QED  BY <2>4, <2>5
<1> QED  BY <1>4, <1>6, <1>7, <1>8, <1>10, <1>11 DEF HandoverInv

\* A loss that was about to be told is told.
LEMMA TellHandover ==
    ASSUME TypeOK, HandoverInv, NEW c \in Callers, TellLost(c)
    PROVE  HandoverInv'
<1> DEFINE q == call[c].lost
<1>0. /\ OwnersCallback /\ GrantedTokens /\ SetupsPending /\ OwedLosses
      /\ \A r \in DOMAIN req : Fate(r)
  BY DEF HandoverInv
<1>1. q # None /\ q \in DOMAIN req
  <2>1. CallOK(call[c], Len(req), DOMAIN thread)
    BY TypeParts DEF CallsOK
  <2> QED  BY <2>1, HandoverTypes DEF CallOK, TellLost
<1>2. /\ DOMAIN req' = DOMAIN req /\ req'[q].losses = req[q].losses + 1
      /\ \A r \in DOMAIN req : /\ req'[r].token = req[r].token
                               /\ req'[r].teardowns = req[r].teardowns
                               /\ r # q => req'[r].losses = req[r].losses
  <2>1. \A r \in DOMAIN req : req[r] \in Request
    BY TypeParts, ElementOfSeq, LenProperties DEF PlainOK
  <2> QED  BY <1>1, <2>1 DEF Request, TellLost
<1>3. /\ call'[c].lost = call[c].lost /\ call'[c].op = call[c].op /\ call'[c].req = call[c].req
      /\ call'[c].pc = "check" /\ call[c].pc = "lost"
      /\ \A d \in Callers \ {c} : call'[d] = call[d]
  <2>1. call \in [Callers -> Call]
    BY TypeParts DEF CallsOK
  <2> QED  BY <2>1 DEF Call, TellLost, Goto
<1>4. UNCHANGED <<current, state, lostCb, thread>>
  BY DEF TellLost, owned
<1> HIDE DEF q
<1>5. OwnersCallback' /\ GrantedTokens'
  BY <1>0, <1>2, <1>4 DEF OwnersCallback, GrantedTokens
<1>6. \A d \in Callers : /\ call'[d].op = call[d].op /\ call'[d].req = call[d].req
                         /\ call'[d].lost = call[d].lost
                         /\ call'[d].pc \in Kicking => call[d].pc \in Kicking
  BY <1>3 DEF Kicking
<1>7. SetupsPending'
  BY <1>0, <1>2, <1>6, HandoverTypes, SMTT(30) DEF SetupsPending
<1>8. OwedLosses'
  BY <1>0, <1>2, <1>4, <1>6, HandoverTypes DEF OwedLosses
<1>9. ASSUME NEW r \in DOMAIN req PROVE Fate(r)'
  <2>1. Lost(r)' <=> Lost(r)
    <3>1. CASE r = q
      <4>1. BeingTold(r)
        BY <1>3, <3>1 DEF BeingTold, q
      <4>2. req'[r].losses > 0
        BY <1>1, <1>2, <3>1, HandoverTypes
      <4> QED  BY <4>1, <4>2 DEF Lost
    <3>2. CASE r # q
      <4>1. BeingTold(r)' <=> BeingTold(r)
        BY <1>3, <3>2 DEF BeingTold, q
      <4> QED  BY <1>2, <3>2, <4>1 DEF Lost
    <3> QED  BY <3>1, <3>2
  <2> QED  BY <1>0, <1>2, <1>4, <2>1 DEF Fate
<1> QED  BY <1>2, <1>5, <1>7, <1>8, <1>9 DEF HandoverInv

\* The owner gives the hardware up, or a session without it tears nothing down.
LEMMA TeardownHandover ==
    ASSUME OwnershipInv, HandoverInv, NEW s \in Sessions, NEW t, Teardown(s, t)
    PROVE  HandoverInv'
<1>0. /\ OwnersCallback /\ GrantedTokens /\ SetupsPending /\ OwedLosses
      /\ \A r \in DOMAIN req : Fate(r)
      /\ TypeOK /\ s \in Callers /\ current = t
  BY DEF HandoverInv, OwnershipInv, Callers, Teardown
<1>1. /\ state' = "IDLE" /\ lostCb' = None /\ UNCHANGED thread
      /\ call[s].pc = "idle" /\ DOMAIN req' = DOMAIN req
      /\ \A r \in DOMAIN req : req'[r] = IF req[r].token = t
                                          THEN [req[r] EXCEPT !.teardowns = @ + 1] ELSE req[r]
  BY DEF Teardown, Vacate, Idle
<1>2. /\ \A r \in DOMAIN req : /\ req'[r].token = req[r].token
                               /\ req'[r].losses = req[r].losses
                               /\ req'[r].teardowns = IF req[r].token = t THEN req[r].teardowns + 1
                                                      ELSE req[r].teardowns
  <2>1. \A r \in DOMAIN req : req[r] \in Request
    BY <1>0, TypeParts, ElementOfSeq, LenProperties DEF PlainOK
  <2> QED  BY <1>1, <2>1 DEF Request
<1>3. /\ call'[s].lost = None /\ call'[s].op = "teardown"
      /\ \A d \in Callers \ {s} : call'[d] = call[d]
  <2>1. call \in [Callers -> Call]
    BY <1>0, TypeParts DEF CallsOK
  <2>2. NoCall \in Call /\ NoCall.lost = None
    BY DEF NoCall, Call, None
  <2> QED  BY <1>0, <2>1, <2>2 DEF Teardown, Call
<1>4. ASSUME NEW r \in DOMAIN req, req[r].token = t
      PROVE  r = lostCb /\ lostCb # None
  <2>1. t # None
    BY <1>0, TypeParts DEF PlainOK, Invalid, None
  <2>2. t \in DOMAIN thread
    BY <1>0, <1>4, <2>1 DEF GrantedTokens
  <2>3. state # "IDLE"
    BY <1>0, <2>2 DEF OwnershipInv, NoThreadYet
  <2> QED  BY <1>0, <1>4, <2>1, <2>3 DEF OwnersCallback, GrantedTokens
<1>5. OwnersCallback' /\ GrantedTokens'
  BY <1>0, <1>1, <1>2 DEF OwnersCallback, GrantedTokens
<1>6. SetupsPending'
  BY <1>0, <1>1, <1>2, <1>3, HandoverTypes, SMTT(30) DEF SetupsPending
<1>7. OwedLosses'
  BY <1>0, <1>1, <1>2, <1>3, <1>4, HandoverTypes DEF OwedLosses
<1>8. ASSUME NEW r \in DOMAIN req PROVE Fate(r)'
  <2>1. r # None /\ (BeingTold(r)' <=> BeingTold(r))
    BY <1>0, <1>1, <1>3, HandoverTypes DEF BeingTold
  <2>2. Lost(r)' <=> Lost(r)
    BY <1>2, <2>1 DEF Lost
  <2>3. CASE req[r].token = t
    <3>1. r = lostCb /\ req[r].token # None
      BY <1>0, <1>4, <2>3, TypeParts DEF PlainOK, Invalid, None
    <3>2. ~Lost(r) /\ req[r].teardowns = 0
      BY <1>0, <3>1 DEF Fate
    <3> QED  BY <1>1, <1>2, <2>1, <2>2, <2>3, <3>1, <3>2 DEF Fate
  <2>4. CASE req[r].token # t
    <3>1. req[r].token # None => r # lostCb
      BY <1>0, <2>1, <2>4 DEF OwnersCallback
    <3> QED  BY <1>0, <1>1, <1>2, <2>1, <2>2, <2>4, <3>1 DEF Fate
  <2> QED  BY <2>3, <2>4
<1> QED  BY <1>1, <1>5, <1>6, <1>7, <1>8 DEF HandoverInv

LEMMA HandoverInit == Init => HandoverInv
<1> SUFFICES ASSUME Init PROVE HandoverInv
  OBVIOUS
<1>1. \A c \in Callers : call[c].lost = None /\ call[c].op = "none"
  BY DEF Init, NoCall
<1>2. DOMAIN req = {} /\ lostCb = None /\ state = "IDLE"
  BY DEF Init
<1> QED  BY <1>1, <1>2
         DEF HandoverInv, OwnersCallback, GrantedTokens, SetupsPending, OwedLosses

LEMMA HandoverStep ==
    ASSUME OwnershipInv, HandoverInv, [Next]_vars
    PROVE  HandoverInv'
<1>1. TypeOK /\ TypeOK'
  BY OwnershipStep DEF OwnershipInv
<1>2. CASE Next
  BY <1>1, <1>2, HandoverSteps, QuietHandover, KickHandover, GrantHandover, TellHandover,
     TeardownHandover
<1>3. CASE UNCHANGED vars
  <2>1. CallKeeps /\ ToldSame
    BY <1>3, SameCalls DEF vars
  <2>2. QuietStep
    BY <1>3, <2>1 DEF vars, owned, QuietStep, ReqKeeps
  <2> QED  BY <1>1, <2>2, QuietHandover
<1> QED  BY <1>2, <1>3

\* Nobody loses the hardware in silence or is told of a loss that was none: every setup that
\* was granted still owns the hardware, or was torn down once, or was or is being told that it
\* lost it, and only one of these.
THEOREM HandoverKept == Spec => []Handover
<1>1. OwnershipInv /\ HandoverInv => Handover
  BY HandoverFollows DEF OwnershipInv
<1>2. OwnershipInv /\ HandoverInv /\ [Next]_vars => HandoverInv'
  BY HandoverStep
<1> QED  BY <1>1, <1>2, HandoverInit, OwnershipAlways, PTL DEF Spec

=============================================================================
