---------------------------- MODULE PlatformsProofs ----------------------------
(***************************************************************************)
(* Proofs about the platform outputs, for every set of sessions and of     *)
(* other callers, every resync delay and every number of calls.            *)
(***************************************************************************)
EXTENDS OutputPluginProofs, MCPlatforms, FiniteSetTheorems

-----------------------------------------------------------------------------
(***************************************************************************)
(* What holds on every platform                                            *)
(***************************************************************************)

SetupRecord == [by : Sessions, token : Nat, told : SUBSET Int, answers : Nat, losses : Nat,
                teardowns : Nat]

\* Where a call has kicked off the owner and is not through with it
Behind == {"join", "joining", "cancel", "lost", "stop", "stopping", "check"}

\* The call is about to tell of the loss that it owes.
Tells(k) == \/ k.pc \in {"join", "joining", "lost", "cancel"}
            \/ k.op = "force" /\ k.pc \in {"stop", "stopping"}

\* What a call k is when the setups were q and the tokens 1..n: it owes a loss or has told it,
\* and a setup that may still be granted has no token in the history.
CallFits(k, q, n) ==
    /\ k = [op |-> k.op, pc |-> k.pc, token |-> k.token, req |-> k.req, join |-> k.join,
            target |-> k.target, lost |-> k.lost]
    /\ k.token \in 0..n
    /\ k.req \in DOMAIN q \union {None} /\ k.lost \in DOMAIN q \union {None}
    /\ k.op = "setup" => k.req # None
    /\ k.op = "teardown" => k.lost = None
    /\ k.pc \in {"resync", "callback", "refuse", "hold"} => k.op = "setup"
    /\ k.pc \in {"lost", "cancel"} => k.lost # None
    /\ k.pc = "idle" => k = NoCall
    /\ k.lost # None /\ ~Tells(k) => q[k.lost].losses > 0
    /\ k.op = "setup" /\ k.pc \in Behind \union {"hold"} => q[k.req].token = None

CallsFit ==
    /\ call = [c \in Callers |-> call[c]]
    /\ \A c \in Callers : CallFits(call[c], req, next)
    /\ \A c, d \in Callers : c # d /\ call[c].req # None => call[c].req # call[d].req

\* While somebody owns the output, no call that kicked holds the current token; and each has a
\* token of its own.
KicksBehind ==
    /\ state # "IDLE" => \A c \in Callers : call[c].pc \in Behind => call[c].token # current
    /\ \A c, d \in Callers :
          /\ c # d /\ call[c].pc \in Behind \union {"hold"} /\ call[d].pc \in Behind \union {"hold"}
          /\ call[c].token # None
          => call[c].token # call[d].token

\* A token is given up once at most, and not the current one.
SetupFits(r) ==
    /\ r.token <= next /\ r.teardowns \in {0, 1}
    /\ r.token = None => r.teardowns = 0
    /\ r.token = current => r.teardowns = 0

PlainFits ==
    /\ next \in Nat \ {0} /\ current \in Int /\ current <= next /\ current # None
    /\ state \in {"IDLE", "STOPPED", "RUNNING"}
    /\ req \in Seq(SetupRecord)
    /\ lostCb \in DOMAIN req \union {None} /\ setupCb \in DOMAIN req \union {None}
    /\ DOMAIN thread \subseteq 1..next /\ tid \in DOMAIN thread \union {None}
    /\ state # "IDLE" => current = tid
    /\ stream \in Nat /\ remaining \in Nat
    /\ \A t \in DOMAIN thread : {"pc", "stream", "left"} \subseteq DOMAIN thread[t]

StreamFits ==
    /\ PlaysOwnStream
    /\ state = "IDLE" /\ current \in DOMAIN thread => stream = None

CommonInv ==
    /\ PlainFits /\ CallsFit /\ KicksBehind /\ StreamFits
    /\ \A r \in DOMAIN req : SetupFits(req[r])

-----------------------------------------------------------------------------
(***************************************************************************)
(* What a step does to the history of the setups                           *)
(***************************************************************************)

\* Each setup but r is as it was.
OnlySetup(r) ==
    /\ req' \in Seq(SetupRecord) /\ DOMAIN req' = DOMAIN req
    /\ \A q \in DOMAIN req \ {r} : req'[q] = req[q]

\* The history of the setups is a sequence of records, and None names none of them.
LEMMA SetupsTyped ==
    ASSUME req \in Seq(SetupRecord)
    PROVE  /\ DOMAIN req = 1..Len(req) /\ Len(req) \in Nat /\ None \notin DOMAIN req
           /\ \A r \in DOMAIN req : req[r] \in SetupRecord
BY LenProperties, ElementOfSeq DEF None

\* A new setup is entered at the end.
LEMMA SetupEntered ==
    ASSUME req \in Seq(SetupRecord), NEW s \in Sessions, req' = Append(req, NewRequest(s))
    PROVE  /\ req' \in Seq(SetupRecord) /\ DOMAIN req' = DOMAIN req \union {Len(req) + 1}
           /\ Len(req) + 1 \notin DOMAIN req /\ Len(req) + 1 # None
           /\ \A r \in DOMAIN req : req'[r] = req[r]
           /\ req'[Len(req) + 1] = NewRequest(s)
<1>1. NewRequest(s) \in SetupRecord
  BY DEF NewRequest, SetupRecord, None
<1>2. /\ req' \in Seq(SetupRecord) /\ Len(req') = Len(req) + 1
      /\ \A r \in 1..Len(req) : req'[r] = req[r]
      /\ req'[Len(req) + 1] = NewRequest(s)
  <2> HIDE DEF NewRequest
  <2> QED  BY <1>1, AppendProperties
<1> QED  BY <1>2, SetupsTyped, LenProperties DEF None

\* The record of a setup with one field changed
LEMMA RecordUpdates ==
    ASSUME NEW e \in SetupRecord, NEW t \in Nat, NEW u \in SUBSET Int
    PROVE  /\ [e EXCEPT !.token = t] \in SetupRecord
           /\ [e EXCEPT !.losses = @ + 1] \in SetupRecord
           /\ [e EXCEPT !.teardowns = @ + 1] \in SetupRecord
           /\ [e EXCEPT !.answers = @ + 1, !.told = u] \in SetupRecord
<1>1. [e EXCEPT !.token = t] \in SetupRecord
  BY DEF SetupRecord
<1>2. [e EXCEPT !.losses = @ + 1] \in SetupRecord
  BY DEF SetupRecord
<1>3. [e EXCEPT !.teardowns = @ + 1] \in SetupRecord
  BY DEF SetupRecord
<1>4. [e EXCEPT !.answers = @ + 1, !.told = u] \in SetupRecord
  <2> DEFINE p == [e EXCEPT !.answers = @ + 1]
  <2>1. p \in SetupRecord
    BY DEF SetupRecord
  <2>2. [e EXCEPT !.answers = @ + 1, !.told = u] = [p EXCEPT !.told = u]
    BY DEF SetupRecord
  <2> HIDE DEF p
  <2>3. [p EXCEPT !.told = u] \in SetupRecord
    BY <2>1 DEF SetupRecord
  <2> QED  BY <2>2, <2>3
<1> QED  BY <1>1, <1>2, <1>3, <1>4

\* The record of one setup is written.
LEMMA SetupWritten ==
    ASSUME req \in Seq(SetupRecord), NEW r \in DOMAIN req, NEW e \in SetupRecord,
           req' = [req EXCEPT ![r] = e]
    PROVE  OnlySetup(r) /\ req'[r] = e
<1>1. r \in 1..Len(req)
  BY SetupsTyped
<1>2. req' \in Seq(SetupRecord) /\ Len(req') = Len(req)
  BY <1>1, ExceptSeq
<1>3. DOMAIN req' = DOMAIN req /\ req'[r] = e
  BY <1>2
<1>4. \A q \in DOMAIN req \ {r} : req'[q] = req[q]
  BY <1>2
<1> QED  BY <1>2, <1>3, <1>4 DEF OnlySetup

\* A setup is answered with the token t, and nothing else happens to the setups.
LEMMA SetupAnswered ==
    ASSUME req \in Seq(SetupRecord), NEW r \in DOMAIN req, NEW t \in Int, req' = Answered(r, t)
    PROVE  /\ OnlySetup(r)
           /\ req'[r].answers = req[r].answers + 1 /\ req'[r].told = req[r].told \union {t}
           /\ req'[r].token = req[r].token /\ req'[r].losses = req[r].losses
           /\ req'[r].teardowns = req[r].teardowns
<1> DEFINE u == req[r].told \union {t}
           e == [req[r] EXCEPT !.answers = @ + 1, !.told = u]
<1>1. req[r] \in SetupRecord /\ u \in SUBSET Int
  BY SetupsTyped DEF SetupRecord
<1>2. req' = [req EXCEPT ![r] = e]
  BY DEF Answered
<1> HIDE DEF u
<1>3. e \in SetupRecord
  BY <1>1, RecordUpdates
<1>4. /\ e.answers = req[r].answers + 1 /\ e.told = u /\ e.token = req[r].token
      /\ e.losses = req[r].losses /\ e.teardowns = req[r].teardowns
  BY <1>1 DEF SetupRecord
<1> HIDE DEF e
<1>5. OnlySetup(r) /\ req'[r] = e
  BY <1>2, <1>3, SetupWritten
<1> QED  BY <1>4, <1>5 DEF u

\* A setup is told of the loss of the output, and nothing else happens to the setups.
LEMMA SetupToldOfLoss ==
    ASSUME req \in Seq(SetupRecord), NEW r \in DOMAIN req,
           req' = [req EXCEPT ![r].losses = @ + 1]
    PROVE  /\ OnlySetup(r)
           /\ req'[r].losses = req[r].losses + 1
           /\ req'[r].token = req[r].token /\ req'[r].answers = req[r].answers
           /\ req'[r].teardowns = req[r].teardowns /\ req'[r].told = req[r].told
<1> DEFINE e == [req[r] EXCEPT !.losses = @ + 1]
<1>0. req[r] \in SetupRecord
  BY SetupsTyped
<1>1. e \in SetupRecord
  BY <1>0, RecordUpdates
<1>3. /\ e.losses = req[r].losses + 1 /\ e.token = req[r].token /\ e.answers = req[r].answers
      /\ e.teardowns = req[r].teardowns /\ e.told = req[r].told
  BY <1>0 DEF SetupRecord
<1>2. req' = [req EXCEPT ![r] = e]
  OBVIOUS
<1> HIDE DEF e
<1> QED  BY <1>1, <1>2, <1>3, SetupWritten

\* A setup gets the token t, and nothing else happens to the setups.
LEMMA SetupGivenToken ==
    ASSUME req \in Seq(SetupRecord), NEW r \in DOMAIN req, NEW t \in Nat,
           req' = [req EXCEPT ![r].token = t]
    PROVE  /\ OnlySetup(r)
           /\ req'[r].token = t
           /\ req'[r].losses = req[r].losses /\ req'[r].answers = req[r].answers
           /\ req'[r].teardowns = req[r].teardowns /\ req'[r].told = req[r].told
<1> DEFINE e == [req[r] EXCEPT !.token = t]
<1>1. /\ e \in SetupRecord
      /\ e.token = t /\ e.losses = req[r].losses /\ e.answers = req[r].answers
      /\ e.teardowns = req[r].teardowns /\ e.told = req[r].told
  BY SetupsTyped DEF SetupRecord
<1>2. req' = [req EXCEPT ![r] = e]
  OBVIOUS
<1> HIDE DEF e
<1> QED  BY <1>1, <1>2, SetupWritten

\* Every setup with the token t is given up.
LEMMA SetupsTornDown ==
    ASSUME req \in Seq(SetupRecord), NEW t, req' = TornDown(t)
    PROVE  /\ req' \in Seq(SetupRecord) /\ DOMAIN req' = DOMAIN req
           /\ \A r \in DOMAIN req :
                 /\ req'[r].teardowns = req[r].teardowns + (IF req[r].token = t THEN 1 ELSE 0)
                 /\ req'[r].token = req[r].token /\ req'[r].losses = req[r].losses
                 /\ req'[r].answers = req[r].answers /\ req'[r].told = req[r].told
<1> DEFINE e(r) == IF req[r].token = t THEN [req[r] EXCEPT !.teardowns = @ + 1] ELSE req[r]
<1>1. req' = [r \in 1..Len(req) |-> e(r)] /\ DOMAIN req = 1..Len(req) /\ Len(req) \in Nat
  BY SetupsTyped DEF TornDown
<1>2. \A r \in 1..Len(req) :
         /\ e(r) \in SetupRecord
         /\ e(r).teardowns = req[r].teardowns + (IF req[r].token = t THEN 1 ELSE 0)
         /\ e(r).token = req[r].token /\ e(r).losses = req[r].losses
         /\ e(r).answers = req[r].answers /\ e(r).told = req[r].told
  <2> SUFFICES ASSUME NEW r \in 1..Len(req)
               PROVE  /\ e(r) \in SetupRecord
                      /\ e(r).teardowns = req[r].teardowns + (IF req[r].token = t THEN 1 ELSE 0)
                      /\ e(r).token = req[r].token /\ e(r).losses = req[r].losses
                      /\ e(r).answers = req[r].answers /\ e(r).told = req[r].told
    OBVIOUS
  <2>1. req[r] \in SetupRecord
    BY SetupsTyped
  <2> DEFINE p == [req[r] EXCEPT !.teardowns = @ + 1]
  <2>2. p \in SetupRecord
    BY <2>1, RecordUpdates
  <2>3. /\ p.teardowns = req[r].teardowns + 1 /\ p.token = req[r].token
        /\ p.losses = req[r].losses /\ p.answers = req[r].answers /\ p.told = req[r].told
    BY <2>1 DEF SetupRecord
  <2>4. req[r].teardowns \in Nat
    BY <2>1 DEF SetupRecord
  <2> HIDE DEF p
  <2>5. CASE req[r].token = t
    BY <2>2, <2>3, <2>5 DEF p
  <2>6. CASE req[r].token # t
    BY <2>1, <2>4, <2>6
  <2> QED  BY <2>5, <2>6
<1> HIDE DEF e
<1>3. req' \in Seq(SetupRecord)
  BY <1>1, <1>2, IsASeq
<1> QED  BY <1>1, <1>2, <1>3

-----------------------------------------------------------------------------
(***************************************************************************)
(* Steps that change nothing of who owns the output                        *)
(***************************************************************************)

\* The setups keep their tokens, and nothing that they were told is taken back.
SetupsKept ==
    /\ req' \in Seq(SetupRecord) /\ DOMAIN req' = DOMAIN req
    /\ \A r \in DOMAIN req : /\ req'[r].token = req[r].token
                             /\ req'[r].teardowns = req[r].teardowns
                             /\ req'[r].losses >= req[r].losses

\* The call of c becomes k: it owes what it owed, or has told it.
CallKept(c, k) ==
    /\ call' = [call EXCEPT ![c] = k]
    /\ CallFits(k, req', next)
    /\ k.req \in {None, call[c].req}
    /\ k.pc \in Behind => \/ k.token = None
                          \/ call[c].pc \in Behind /\ k.token = call[c].token
    /\ k.pc # "hold"
    /\ \/ call[c].lost = None
       \/ k.lost = call[c].lost
       \/ k.lost = None /\ ~Tells(call[c])

CallsKept == UNCHANGED call \/ \E c \in Callers : \E k : CallKept(c, k)

ThreadsKept ==
    /\ DOMAIN thread' = DOMAIN thread
    /\ \A t \in DOMAIN thread : /\ thread'[t].stream \in {None, t}
                                /\ {"pc", "stream", "left"} \subseteq DOMAIN thread'[t]

\* The stream is left alone, or it is the owner's, or there is none.
StreamKept ==
    \/ UNCHANGED <<state, stream>>
    \/ state' = "IDLE" /\ stream' = None
    \/ state # "IDLE" /\ state' = "STOPPED" /\ stream' = None
    \/ state # "IDLE" /\ state' = "RUNNING" /\ stream' = current

Quiet ==
    /\ SetupsKept /\ CallsKept /\ ThreadsKept /\ StreamKept
    /\ UNCHANGED <<current, next, tid>>
    /\ remaining' \in Nat /\ setupCb' \in DOMAIN req \union {None}
    /\ lostCb' \in DOMAIN req \union {None}

\* Nobody loses the output in such a step.
Silent == Quiet /\ UNCHANGED lostCb /\ (state' = "IDLE" => state = "IDLE")

\* One call is written.
LEMMA CallWritten ==
    ASSUME CallsFit, NEW c \in Callers, NEW k, call' = [call EXCEPT ![c] = k],
           CallFits(k, req', next'), next \in Int, next' \in Int, next <= next',
           DOMAIN req \subseteq DOMAIN req', None \notin DOMAIN req,
           \A r \in DOMAIN req : /\ req[r].losses \in Nat /\ req'[r].losses \in Nat
                                 /\ req'[r].losses >= req[r].losses
                                 /\ r # call[c].req => req'[r].token = req[r].token,
           k.req \in {None, call[c].req} \/ k.req \notin DOMAIN req
    PROVE  /\ CallsFit'
           /\ call'[c] = k /\ \A d \in Callers \ {c} : call'[d] = call[d]
<1>1. /\ call = [d \in Callers |-> call[d]] /\ \A d \in Callers : CallFits(call[d], req, next)
      /\ \A d, e \in Callers : d # e /\ call[d].req # None => call[d].req # call[e].req
  BY DEF CallsFit
<1>2. /\ call' = [d \in Callers |-> call'[d]]
      /\ call'[c] = k /\ \A d \in Callers \ {c} : call'[d] = call[d]
  BY <1>1
<1>3. ASSUME NEW d \in Callers \ {c} PROVE CallFits(call[d], req', next')
  <2>1. call[d].req # None => call[d].req # call[c].req
    BY <1>1
  <2>2. CallFits(call[d], req, next)
    BY <1>1
  <2> QED  BY <2>1, <2>2 DEF CallFits
<1>4. \A d \in Callers : CallFits(call'[d], req', next')
  BY <1>2, <1>3
<1>5. ASSUME NEW d \in Callers, NEW e \in Callers, d # e, call'[d].req # None
      PROVE  call'[d].req # call'[e].req
  <2>1. \A f \in Callers : call[f].req \in DOMAIN req \union {None}
    BY <1>1 DEF CallFits
  <2> QED  BY <1>1, <1>2, <1>5, <2>1
<1> QED  BY <1>2, <1>4, <1>5 DEF CallsFit

\* The record of a call with one field changed
CallRecord(k) ==
    k = [op |-> k.op, pc |-> k.pc, token |-> k.token, req |-> k.req, join |-> k.join,
         target |-> k.target, lost |-> k.lost]

\* The record of a call at another place
LEMMA CallPc ==
    ASSUME NEW k, CallRecord(k), NEW x
    PROVE  /\ CallRecord([k EXCEPT !.pc = x]) /\ [k EXCEPT !.pc = x].pc = x
           /\ [k EXCEPT !.pc = x].op = k.op /\ [k EXCEPT !.pc = x].token = k.token
           /\ [k EXCEPT !.pc = x].req = k.req /\ [k EXCEPT !.pc = x].join = k.join
           /\ [k EXCEPT !.pc = x].target = k.target /\ [k EXCEPT !.pc = x].lost = k.lost
<1>1. PICK o, at, n, r, j, t, l :
         k = [op |-> o, pc |-> at, token |-> n, req |-> r, join |-> j, target |-> t, lost |-> l]
  BY DEF CallRecord
<1> DEFINE e == [k EXCEPT !.pc = x]
<1>2. e = [op |-> o, pc |-> x, token |-> n, req |-> r, join |-> j, target |-> t, lost |-> l]
  BY <1>1
<1> HIDE DEF e
<1>3. /\ CallRecord(e) /\ e.pc = x /\ e.op = k.op /\ e.token = k.token /\ e.req = k.req
      /\ e.join = k.join /\ e.target = k.target /\ e.lost = k.lost
  BY <1>1, <1>2 DEF CallRecord
<1> QED  BY <1>3 DEF e

\* The record of a call with another operation
LEMMA CallOp ==
    ASSUME NEW k, CallRecord(k), NEW x
    PROVE  /\ CallRecord([k EXCEPT !.op = x]) /\ [k EXCEPT !.op = x].op = x
           /\ [k EXCEPT !.op = x].pc = k.pc /\ [k EXCEPT !.op = x].token = k.token
           /\ [k EXCEPT !.op = x].req = k.req /\ [k EXCEPT !.op = x].join = k.join
           /\ [k EXCEPT !.op = x].target = k.target /\ [k EXCEPT !.op = x].lost = k.lost
<1>1. PICK o, at, n, r, j, t, l :
         k = [op |-> o, pc |-> at, token |-> n, req |-> r, join |-> j, target |-> t, lost |-> l]
  BY DEF CallRecord
<1> DEFINE e == [k EXCEPT !.op = x]
<1>2. e = [op |-> x, pc |-> at, token |-> n, req |-> r, join |-> j, target |-> t, lost |-> l]
  BY <1>1
<1> HIDE DEF e
<1>3. /\ CallRecord(e) /\ e.op = x /\ e.pc = k.pc /\ e.token = k.token /\ e.req = k.req
      /\ e.join = k.join /\ e.target = k.target /\ e.lost = k.lost
  BY <1>1, <1>2 DEF CallRecord
<1> QED  BY <1>3 DEF e

\* No call is written.
LEMMA CallsStay ==
    ASSUME CallsFit, UNCHANGED call, next \in Int, next' \in Int, next <= next',
           DOMAIN req \subseteq DOMAIN req', None \notin DOMAIN req,
           \A r \in DOMAIN req : /\ req[r].losses \in Nat /\ req'[r].losses \in Nat
                                 /\ req'[r].losses >= req[r].losses
                                 /\ req'[r].token = req[r].token
    PROVE  CallsFit'
<1>1. ASSUME NEW d \in Callers PROVE CallFits(call[d], req', next')
  <2>1. CallFits(call[d], req, next)
    BY DEF CallsFit
  <2> QED  BY <2>1 DEF CallFits
<1> QED  BY <1>1 DEF CallsFit

\* What the steps above keep.
LEMMA QuietCalls ==
    ASSUME CommonInv, SetupsKept, CallsKept, UNCHANGED next
    PROVE  /\ CallsFit'
           /\ \A d \in Callers :
                 /\ call'[d].pc \in Behind \union {"hold"} =>
                       \/ call'[d].token = None
                       \/ /\ call[d].pc \in Behind \union {"hold"}
                          /\ call'[d].pc \in Behind => call[d].pc \in Behind
                          /\ call'[d].token = call[d].token
                 /\ \/ call[d].lost = None
                    \/ call'[d].lost = call[d].lost
                    \/ req'[call[d].lost].losses > 0
<1>0. /\ CallsFit /\ req \in Seq(SetupRecord) /\ next \in Int
      /\ \A d \in Callers : CallFits(call[d], req, next)
  BY DEF CommonInv, PlainFits, CallsFit
<1>1. /\ None \notin DOMAIN req
      /\ \A r \in DOMAIN req : /\ req[r].losses \in Nat /\ req'[r].losses \in Nat
                               /\ req'[r].losses >= req[r].losses
                               /\ req'[r].token = req[r].token
  <2>1. \A r \in DOMAIN req : req[r] \in SetupRecord /\ req'[r] \in SetupRecord
    BY <1>0, SetupsTyped, ElementOfSeq, LenProperties DEF SetupsKept
  <2> QED  BY <1>0, <2>1, SetupsTyped DEF SetupsKept, SetupRecord
<1>2. CASE UNCHANGED call
  <2>1. CallsFit'
    BY <1>0, <1>1, <1>2, CallsStay DEF SetupsKept
  <2> QED  BY <1>2, <2>1
<1>3. ASSUME NEW c \in Callers, NEW k, CallKept(c, k)
      PROVE  /\ CallsFit'
             /\ \A d \in Callers :
                   /\ call'[d].pc \in Behind \union {"hold"} =>
                         \/ call'[d].token = None
                         \/ /\ call[d].pc \in Behind \union {"hold"}
                            /\ call'[d].pc \in Behind => call[d].pc \in Behind
                            /\ call'[d].token = call[d].token
                   /\ \/ call[d].lost = None
                      \/ call'[d].lost = call[d].lost
                      \/ req'[call[d].lost].losses > 0
  <2>1. /\ CallsFit'
        /\ call'[c] = k /\ \A d \in Callers \ {c} : call'[d] = call[d]
    <3>1. /\ call' = [call EXCEPT ![c] = k] /\ CallFits(k, req', next')
          /\ k.req \in {None, call[c].req} /\ DOMAIN req' = DOMAIN req
      BY <1>3 DEF CallKept, SetupsKept
    <3>2. next' \in Int /\ next <= next' /\ DOMAIN req \subseteq DOMAIN req'
          /\ (k.req \in {None, call[c].req} \/ k.req \notin DOMAIN req)
      BY <1>0, <3>1
    <3>3. \A r \in DOMAIN req : /\ req[r].losses \in Nat /\ req'[r].losses \in Nat
                                /\ req'[r].losses >= req[r].losses
                                /\ r # call[c].req => req'[r].token = req[r].token
      BY <1>1
    <3> HIDE DEF CallFits, CallsFit
    <3> QED  BY <1>0, <1>1, <3>1, <3>2, <3>3, CallWritten, Zenon
  <2>2. call[c].lost = None \/ k.lost = call[c].lost \/ req'[call[c].lost].losses > 0
    <3>1. CallFits(call[c], req, next)
      BY <1>0
    <3>2. /\ call[c].lost \in DOMAIN req \union {None}
          /\ call[c].lost # None /\ ~Tells(call[c]) => req[call[c].lost].losses > 0
      BY <3>1 DEF CallFits
    <3> QED  BY <1>1, <1>3, <3>2 DEF CallKept
  <2> QED  BY <1>3, <2>1, <2>2 DEF CallKept
<1> QED  BY <1>2, <1>3 DEF CallsKept

\* Such a step keeps what holds on every platform ...
LEMMA QuietCommon ==
    ASSUME CommonInv, Quiet
    PROVE  CommonInv'
<1>1. CallsFit'
  BY QuietCalls DEF Quiet
<1>0. CommonInv
  OBVIOUS
<1>2. PlainFits'
  <2>1. state # "IDLE" => current = tid /\ current \in Nat
    BY <1>0 DEF CommonInv, PlainFits, None
  <2> QED  BY <1>0, <2>1 DEF CommonInv, PlainFits, Quiet, SetupsKept, ThreadsKept, StreamKept, None
<1>3. KicksBehind'
  <2>1. \A d \in Callers :
           call'[d].pc \in Behind \union {"hold"} =>
              \/ call'[d].token = None
              \/ /\ call[d].pc \in Behind \union {"hold"}
                 /\ call'[d].pc \in Behind => call[d].pc \in Behind
                 /\ call'[d].token = call[d].token
    BY <1>0, QuietCalls DEF Quiet
  <2>2. current # None /\ KicksBehind /\ UNCHANGED current /\ (state' # "IDLE" => state # "IDLE")
    BY <1>0 DEF CommonInv, PlainFits, Quiet, StreamKept
  <2>3. ASSUME state' # "IDLE", NEW c \in Callers, call'[c].pc \in Behind
        PROVE  call'[c].token # current'
    BY <2>1, <2>2, <2>3 DEF KicksBehind
  <2>4. ASSUME NEW c \in Callers, NEW d \in Callers, c # d,
               call'[c].pc \in Behind \union {"hold"}, call'[d].pc \in Behind \union {"hold"},
               call'[c].token # None
        PROVE  call'[c].token # call'[d].token
    BY <2>1, <2>2, <2>4 DEF KicksBehind
  <2> QED  BY <2>3, <2>4 DEF KicksBehind
<1>4. StreamFits'
  BY <1>0 DEF CommonInv, StreamFits, PlaysOwnStream, Quiet, ThreadsKept, StreamKept
<1>5. (\A r \in DOMAIN req : SetupFits(req[r]))'
  BY DEF CommonInv, SetupFits, Quiet, SetupsKept
<1> QED  BY <1>1, <1>2, <1>3, <1>4, <1>5 DEF CommonInv

\* ... and, when it is silent, nobody loses the output in it.
LEMMA QuietLoss ==
    ASSUME CommonInv, Silent, NEW r \in DOMAIN req, LossReported(r)
    PROVE  LossReported(r)'
<1>0. Quiet /\ UNCHANGED lostCb /\ (state' = "IDLE" => state = "IDLE")
  BY DEF Silent
<1>1. \A q \in DOMAIN req : req'[q] \in SetupRecord /\ req[q] \in SetupRecord
  BY <1>0, SetupsTyped, ElementOfSeq, LenProperties DEF CommonInv, PlainFits, Quiet, SetupsKept
<1>3. r # None
  BY SetupsTyped DEF CommonInv, PlainFits
<1>4. CASE \E c \in Callers : call[c].lost = r
  <2>1. PICK c \in Callers : call[c].lost = r
    BY <1>4
  <2>2. call'[c].lost = r \/ req'[r].losses > 0
    BY <1>0, <1>3, <2>1, QuietCalls DEF Quiet
  <2> QED  BY <2>2 DEF LossReported
<1>5. CASE (state # "IDLE" /\ current = req[r].token /\ lostCb = r) \/ req[r].teardowns = 1
           \/ req[r].losses > 0
  BY <1>0, <1>1, <1>5 DEF LossReported, Quiet, SetupsKept, SetupRecord
<1> QED  BY <1>4, <1>5 DEF LossReported

\* ... whoever had it
LEMMA QuietLosses ==
    ASSUME CommonInv, LossesReported, Silent
    PROVE  LossesReported'
<1>1. DOMAIN req' = DOMAIN req /\ \A r \in DOMAIN req : req'[r].token = req[r].token
  BY DEF Silent, Quiet, SetupsKept
<1> QED  BY <1>1, QuietLoss DEF LossesReported

\* A call moves on, about to tell what it has not told.
Moves(c, pc) ==
    /\ call' = [call EXCEPT ![c].pc = pc]
    /\ call[c].pc # "idle" /\ pc \notin {"idle", "hold"}
    /\ pc \in Behind => call[c].pc \in Behind
    /\ pc \in {"resync", "callback", "refuse"} => call[c].op = "setup"
    /\ pc \in {"lost", "cancel"} => call[c].lost # None
    /\ \/ call[c].lost = None
       \/ req'[call[c].lost].losses > 0
       \/ pc \in {"join", "joining", "lost", "cancel"}
       \/ call[c].op = "force" /\ pc \in {"stop", "stopping"}

\* A call that moves on owes what it owed, or has told it.
LEMMA MoveKept ==
    ASSUME CommonInv, SetupsKept, NEW c \in Callers, NEW pc, Moves(c, pc)
    PROVE  CallsKept
<1> DEFINE k == [call[c] EXCEPT !.pc = pc]
<1>1. CallFits(call[c], req, next)
  BY DEF CommonInv, CallsFit
<1>2. k = [op |-> call[c].op, pc |-> pc, token |-> call[c].token, req |-> call[c].req,
           join |-> call[c].join, target |-> call[c].target, lost |-> call[c].lost]
  BY <1>1 DEF CallFits
<1>3. /\ k.op = call[c].op /\ k.pc = pc /\ k.token = call[c].token /\ k.req = call[c].req
      /\ k.join = call[c].join /\ k.target = call[c].target /\ k.lost = call[c].lost
  BY <1>2
<1>4. call' = [call EXCEPT ![c] = k]
  BY DEF Moves
<1> HIDE DEF k
<1>5. CallFits(k, req', next)
  BY <1>1, <1>2, <1>3 DEF CallFits, SetupsKept, Tells, Moves
<1> QED  BY <1>3, <1>4, <1>5 DEF CallsKept, CallKept, Moves

\* A call that ends, and owes nothing.
LEMMA EndKept ==
    ASSUME CommonInv, SetupsKept, NEW c \in Callers, call' = [call EXCEPT ![c] = NoCall],
           call[c].lost = None \/ ~Tells(call[c])
    PROVE  CallsKept
<1>1. CallFits(NoCall, req', next)
  BY DEF CallFits, NoCall, None, Behind, CommonInv, PlainFits
<1>2. NoCall.req = None /\ NoCall.lost = None /\ NoCall.token = None /\ NoCall.pc = "idle"
  BY DEF NoCall
<1> QED  BY <1>1, <1>2 DEF CallsKept, CallKept

\* A call that has joined.
LEMMA JoinKept ==
    ASSUME CommonInv, SetupsKept, NEW c \in Callers, call' = [call EXCEPT ![c] = AfterJoin(@)],
           call[c].pc \in {"join", "joining"}
    PROVE  CallsKept
<1>0. CallFits(call[c], req, next)
  BY DEF CommonInv, CallsFit
<1>1. CASE call[c].op = "teardown"
  <2>1. call' = [call EXCEPT ![c] = NoCall] /\ call[c].lost = None
    BY <1>0, <1>1 DEF AfterJoin, CallFits
  <2> QED  BY <2>1, EndKept
<1>2. CASE call[c].op # "teardown" /\ call[c].lost = None
  <2>1. call' = [call EXCEPT ![c].pc = "check"]
    BY <1>2 DEF AfterJoin
  <2>2. Moves(c, "check")
    BY <1>2, <2>1 DEF Behind, Moves
  <2> QED  BY <2>2, MoveKept
<1>3. CASE call[c].op # "teardown" /\ call[c].lost # None
  <2>1. call' = [call EXCEPT ![c].pc = "lost"]
    BY <1>3 DEF AfterJoin
  <2>2. Moves(c, "lost")
    BY <1>3, <2>1 DEF Behind, Moves
  <2> QED  BY <2>2, MoveKept
<1> QED  BY <1>1, <1>2, <1>3

\* What the setups were told is kept when one of them is answered or told of its loss.
LEMMA AnswerKept ==
    ASSUME CommonInv, NEW r \in DOMAIN req, NEW t \in Int, req' = Answered(r, t)
    PROVE  SetupsKept
<1>1. \A q \in DOMAIN req : req[q].losses \in Nat
  BY SetupsTyped DEF CommonInv, PlainFits, SetupRecord
<1>2. OnlySetup(r) /\ req'[r].token = req[r].token /\ req'[r].losses = req[r].losses
      /\ req'[r].teardowns = req[r].teardowns
  BY SetupAnswered DEF CommonInv, PlainFits
<1> QED  BY <1>1, <1>2 DEF OnlySetup, SetupsKept

\* The same for the loss
LEMMA ToldKept ==
    ASSUME CommonInv, NEW r \in DOMAIN req, req' = [req EXCEPT ![r].losses = @ + 1]
    PROVE  SetupsKept /\ req'[r].losses > 0
<1>1. \A q \in DOMAIN req : req[q].losses \in Nat
  BY SetupsTyped DEF CommonInv, PlainFits, SetupRecord
<1>2. OnlySetup(r) /\ req'[r].token = req[r].token /\ req'[r].losses = req[r].losses + 1
      /\ req'[r].teardowns = req[r].teardowns
  BY SetupToldOfLoss DEF CommonInv, PlainFits
<1> QED  BY <1>1, <1>2 DEF OnlySetup, SetupsKept

\* Nothing happens to the setups.
LEMMA NothingTold ==
    ASSUME CommonInv, UNCHANGED req
    PROVE  SetupsKept
<1>1. \A q \in DOMAIN req : req[q].losses \in Nat
  BY SetupsTyped DEF CommonInv, PlainFits, SetupRecord
<1> QED  BY <1>1 DEF SetupsKept, CommonInv, PlainFits

\* Nothing happens to the threads, or one of them goes on.
LEMMA ThreadsAsTheyWere ==
    ASSUME CommonInv, UNCHANGED thread
    PROVE  ThreadsKept
BY DEF CommonInv, PlainFits, StreamFits, PlaysOwnStream, ThreadsKept

-----------------------------------------------------------------------------
(***************************************************************************)
(* The steps of the reference plugin that the platforms take over          *)
(***************************************************************************)

\* The end of a setup, and the loss that is told
LEMMA EndsAreSilent ==
    ASSUME CommonInv, NEW c \in Callers,
           SetupResync(c) \/ SetupReturn(c) \/ SetupFail(c) \/ TellLost(c)
    PROVE  Silent
<1>0. /\ CallFits(call[c], req, next) /\ req \in Seq(SetupRecord)
      /\ remaining \in Nat /\ setupCb \in DOMAIN req \union {None} /\ ResyncBufs \in Nat
      /\ lostCb \in DOMAIN req \union {None}
  BY BoundsAssumption DEF CommonInv, CallsFit, PlainFits
<1>1. ThreadsKept
  BY ThreadsAsTheyWere DEF SetupResync, SetupReturn, SetupFail, TellLost
<1>2. CASE SetupResync(c)
  <2>1. SetupsKept
    BY <1>2, NothingTold DEF SetupResync
  <2>2. CallsKept
    <3>1. Moves(c, "callback")
      BY <1>0, <1>2 DEF SetupResync, Goto, CallFits, Tells, Behind, Moves
    <3> QED  BY <2>1, <3>1, MoveKept
  <2> QED  BY <1>0, <1>1, <1>2, <2>1, <2>2 DEF SetupResync, Silent, Quiet, StreamKept, owned
<1>3. CASE SetupReturn(c)
  <2>1. SetupsKept
    BY <1>3, NothingTold DEF SetupReturn
  <2>2. CallsKept
    BY <1>3, <2>1, EndKept DEF SetupReturn, Return, Tells
  <2> QED  BY <1>0, <1>1, <1>3, <2>1, <2>2 DEF SetupReturn, Silent, Quiet, StreamKept, owned, CallFits
<1>4. CASE SetupFail(c)
  <2>1. call[c].req \in DOMAIN req /\ call[c].token \in Int
    BY <1>0, <1>4 DEF SetupFail, CallFits
  <2>2. SetupsKept
    BY <1>4, <2>1, AnswerKept DEF SetupFail
  <2>3. CallsKept
    BY <1>4, <2>2, EndKept DEF SetupFail, Return, Tells
  <2> QED  BY <1>0, <1>1, <1>4, <2>2, <2>3 DEF SetupFail, Silent, Quiet, StreamKept, owned
<1>5. CASE TellLost(c)
  <2>1. call[c].lost \in DOMAIN req
    BY <1>0, <1>5 DEF TellLost, CallFits
  <2>2. SetupsKept /\ req'[call[c].lost].losses > 0
    BY <1>5, <2>1, ToldKept DEF TellLost
  <2>3. CallsKept
    <3>1. Moves(c, "check")
      BY <1>5, <2>2 DEF TellLost, Goto, Behind, Moves
    <3> QED  BY <2>2, <3>1, MoveKept
  <2> QED  BY <1>0, <1>1, <1>5, <2>2, <2>3 DEF TellLost, Silent, Quiet, StreamKept, owned
<1> QED  BY <1>2, <1>3, <1>4, <1>5

\* The join of a thread
LEMMA JoinsAreSilent ==
    ASSUME CommonInv, NEW c \in Callers, JoinBegin(c) \/ SelfJoin(c)
    PROVE  Silent
<1>0. /\ CallFits(call[c], req, next)
      /\ remaining \in Nat /\ setupCb \in DOMAIN req \union {None}
      /\ lostCb \in DOMAIN req \union {None}
  BY DEF CommonInv, CallsFit, PlainFits
<1>1. SetupsKept /\ ThreadsKept
  BY NothingTold, ThreadsAsTheyWere DEF JoinBegin, SelfJoin
<1>2. call[c].pc = "join"
  BY DEF JoinBegin, SelfJoin
<1>3. CASE call' = [call EXCEPT ![c] = AfterJoin(@)]
  <2>1. CallsKept
    BY <1>1, <1>2, <1>3, JoinKept
  <2> QED  BY <1>0, <1>1, <2>1 DEF JoinBegin, SelfJoin, Silent, Quiet, StreamKept, owned
<1>4. CASE call' = [call EXCEPT ![c].pc = "joining", ![c].target = tid]
  <2> DEFINE k == [call[c] EXCEPT !.pc = "joining", !.target = tid]
  <2>1. k = [op |-> call[c].op, pc |-> "joining", token |-> call[c].token, req |-> call[c].req,
             join |-> call[c].join, target |-> tid, lost |-> call[c].lost]
    <3> DEFINE p == [call[c] EXCEPT !.pc = "joining"]
    <3>1. p = [op |-> call[c].op, pc |-> "joining", token |-> call[c].token,
               req |-> call[c].req, join |-> call[c].join, target |-> call[c].target,
               lost |-> call[c].lost]
      BY <1>0 DEF CallFits
    <3>2. k = [p EXCEPT !.target = tid]
      BY <1>0 DEF CallFits
    <3> HIDE DEF p
    <3> QED  BY <3>1, <3>2
  <2>2. /\ k.op = call[c].op /\ k.pc = "joining" /\ k.token = call[c].token
        /\ k.req = call[c].req /\ k.join = call[c].join /\ k.target = tid
        /\ k.lost = call[c].lost
    BY <2>1
  <2>3. call' = [call EXCEPT ![c] = k]
    BY <1>4
  <2> HIDE DEF k
  <2>4. CallFits(k, req', next)
    BY <1>0, <1>1, <1>2, <2>1, <2>2 DEF CallFits, SetupsKept, Tells, Behind
  <2>5. CallsKept
    BY <1>2, <2>2, <2>3, <2>4 DEF CallsKept, CallKept, Behind
  <2> QED  BY <1>0, <1>1, <2>5 DEF JoinBegin, SelfJoin, Silent, Quiet, StreamKept, owned
<1>5. CASE UNCHANGED call
  BY <1>0, <1>1, <1>5 DEF JoinBegin, SelfJoin, Silent, Quiet, StreamKept, CallsKept, owned
<1> QED  BY <1>3, <1>4, <1>5 DEF JoinBegin, SelfJoin

\* A thread goes on.
LEMMA ThreadGoesOn ==
    ASSUME NEW t \in DOMAIN thread, {"pc", "stream", "left"} \subseteq DOMAIN thread[t],
           NEW pc, ThreadGoes(t, pc)
    PROVE  /\ DOMAIN thread' = DOMAIN thread
           /\ \A u \in DOMAIN thread \ {t} : thread'[u] = thread[u]
           /\ DOMAIN thread'[t] = DOMAIN thread[t]
           /\ \A f \in DOMAIN thread[t] \ {"pc"} : thread'[t][f] = thread[t][f]
           /\ thread'[t].pc = pc
           /\ thread'[t].stream = thread[t].stream /\ thread'[t].left = thread[t].left
BY DEF ThreadGoes

\* A thread that goes on keeps its stream.
LEMMA ThreadGoesKept ==
    ASSUME CommonInv, NEW t, NEW pc, ThreadGoes(t, pc)
    PROVE  ThreadsKept
<1>1. \A u \in DOMAIN thread : /\ thread[u].stream \in {None, u}
                               /\ {"pc", "stream", "left"} \subseteq DOMAIN thread[u]
  BY DEF CommonInv, PlainFits, StreamFits, PlaysOwnStream
<1>2. CASE t \in DOMAIN thread
  <2> HIDE DEF ThreadGoes
  <2> QED  BY <1>1, <1>2, ThreadGoesOn DEF ThreadsKept
<1>3. CASE t \notin DOMAIN thread
  <2>1. DOMAIN thread' = DOMAIN thread /\ \A u \in DOMAIN thread : thread'[u] = thread[u]
    BY <1>3 DEF ThreadGoes
  <2> QED  BY <1>1, <2>1 DEF ThreadsKept
<1> QED  BY <1>2, <1>3

\* The end of a join
LEMMA JoinEndIsSilent ==
    ASSUME CommonInv, NEW c \in Callers, JoinEnd(c)
    PROVE  Silent
<1>1. SetupsKept
  BY NothingTold DEF JoinEnd
<1>2. ThreadsKept
  BY ThreadGoesKept DEF JoinEnd, ThreadGoes
<1>3. CallsKept
  BY <1>1, JoinKept DEF JoinEnd
<1> QED  BY <1>1, <1>2, <1>3 DEF JoinEnd, Silent, Quiet, StreamKept, CommonInv, PlainFits, owned

\* A setup that is refused, and the end of force_teardown: the stream goes when nobody owns the
\* output.
LEMMA ReturnsAreSilent ==
    ASSUME CommonInv, NEW c \in Callers, SetupRefused(c) \/ ForceReturn(c)
    PROVE  Silent
<1>0. CallFits(call[c], req, next)
  BY DEF CommonInv, CallsFit
<1>1. SetupsKept /\ ThreadsKept
  BY NothingTold, ThreadsAsTheyWere DEF SetupRefused, ForceReturn
<1>2. call[c].pc = "check"
  BY DEF SetupRefused, ForceReturn
<1>3. StreamKept
  <2>1. StillCurrent(c) => state = "IDLE"
    BY <1>2 DEF CommonInv, KicksBehind, StillCurrent, Behind
  <2> QED  BY <2>1 DEF SetupRefused, ForceReturn, StreamKept
<1>4. CallsKept
  <2>1. CASE SetupRefused(c)
    <3>1. Moves(c, "refuse")
      BY <1>0, <1>2, <2>1 DEF SetupRefused, Goto, Moves, CallFits, Tells, Behind
    <3> QED  BY <1>1, <3>1, MoveKept
  <2>2. CASE ForceReturn(c)
    <3>1. call[c].lost = None \/ ~Tells(call[c])
      BY <1>2 DEF Tells
    <3> QED  BY <1>1, <2>2, <3>1, EndKept DEF ForceReturn, Return
  <2> QED  BY <2>1, <2>2
<1>5. UNCHANGED <<current, next, state, lostCb, tid, remaining, setupCb>>
  BY DEF SetupRefused, ForceReturn
<1> QED  BY <1>1, <1>3, <1>4, <1>5 DEF Silent, Quiet, CommonInv, PlainFits

\* Start and stop
LEMMA PlaysAreSilent ==
    ASSUME CommonInv, NEW s \in Sessions, NEW t, Start(s, t) \/ Stop(s, t)
    PROVE  Silent
<1>1. SetupsKept /\ ThreadsKept
  BY NothingTold, ThreadsAsTheyWere DEF Start, Stop
<1>2. CallsKept /\ StreamKept
  BY DEF Start, Stop, CallsKept, StreamKept, DropStream
<1>3. /\ UNCHANGED <<current, next, lostCb, tid, remaining, setupCb>>
      /\ state' = "IDLE" => state = "IDLE"
  BY DEF Start, Stop
<1> QED  BY <1>1, <1>2, <1>3 DEF Silent, Quiet, CommonInv, PlainFits

-----------------------------------------------------------------------------
(***************************************************************************)
(* A call kicks off the owner                                              *)
(***************************************************************************)

\* The call of c is now k, with a fresh token: it owes what it owed, or what the owner is due.
Kicks(c, k) ==
    /\ next' = next + 1 /\ current' = next + 1 /\ state' = "IDLE" /\ lostCb' \in {lostCb, None}
    /\ call' = [call EXCEPT ![c] = k]
    /\ call[c].pc \in {"idle", "check"}
    /\ CallFits(k, req', next + 1) /\ k.token = next + 1
    /\ \/ UNCHANGED req /\ k.req = call[c].req
       \/ \E s \in Sessions : req' = Append(req, NewRequest(s)) /\ k.req = Len(req) + 1
    /\ ThreadsKept
    /\ UNCHANGED <<stream, tid, remaining>> /\ setupCb' \in {setupCb, None}

\* A setup of which nothing was told
FreshSetup(e) ==
    e.token = None /\ e.teardowns = 0 /\ e.answers = 0 /\ e.told = {} /\ e.losses = 0

\* What that does to the setups and to the calls
LEMMA KicksRecords ==
    ASSUME CommonInv, NEW c \in Callers, NEW k, Kicks(c, k)
    PROVE  /\ req' \in Seq(SetupRecord) /\ DOMAIN req \subseteq DOMAIN req' /\ None \notin DOMAIN req
           /\ \A r \in DOMAIN req : req'[r] = req[r]
           /\ \A r \in DOMAIN req' \ DOMAIN req : FreshSetup(req'[r])
           /\ DOMAIN req' \in {DOMAIN req, DOMAIN req \union {k.req}}
           /\ k.req = call[c].req \/ k.req \notin DOMAIN req
           /\ CallsFit'
           /\ call'[c] = k /\ \A d \in Callers \ {c} : call'[d] = call[d]
<1>0. req \in Seq(SetupRecord) /\ None \notin DOMAIN req /\ CallsFit /\ next \in Nat
  BY SetupsTyped DEF CommonInv, PlainFits
<1>1. /\ req' \in Seq(SetupRecord) /\ DOMAIN req \subseteq DOMAIN req'
      /\ \A r \in DOMAIN req : req'[r] = req[r]
      /\ \A r \in DOMAIN req' \ DOMAIN req : FreshSetup(req'[r])
      /\ DOMAIN req' \in {DOMAIN req, DOMAIN req \union {k.req}}
      /\ k.req = call[c].req \/ k.req \notin DOMAIN req
  <2>1. CASE UNCHANGED req /\ k.req = call[c].req
    <3>1. req' \in Seq(SetupRecord) /\ DOMAIN req' = DOMAIN req /\ \A r \in DOMAIN req : req'[r] = req[r]
      BY <1>0, <2>1
    <3>2. DOMAIN req' \ DOMAIN req = {}
      BY <3>1
    <3> QED  BY <2>1, <3>1, <3>2
  <2>2. ASSUME NEW s \in Sessions, req' = Append(req, NewRequest(s)), k.req = Len(req) + 1
        PROVE  /\ req' \in Seq(SetupRecord) /\ DOMAIN req \subseteq DOMAIN req'
               /\ \A r \in DOMAIN req : req'[r] = req[r]
               /\ \A r \in DOMAIN req' \ DOMAIN req : FreshSetup(req'[r])
               /\ DOMAIN req' \in {DOMAIN req, DOMAIN req \union {k.req}}
               /\ k.req = call[c].req \/ k.req \notin DOMAIN req
    <3>1. FreshSetup(NewRequest(s))
      BY DEF NewRequest, FreshSetup
    <3> HIDE DEF NewRequest
    <3>2. /\ req' \in Seq(SetupRecord) /\ DOMAIN req' = DOMAIN req \union {k.req}
          /\ k.req \notin DOMAIN req /\ \A r \in DOMAIN req : req'[r] = req[r]
          /\ req'[k.req] = NewRequest(s)
      BY <1>0, <2>2, SetupEntered
    <3>3. \A r \in DOMAIN req' \ DOMAIN req : r = k.req
      BY <3>2
    <3> QED  BY <3>1, <3>2, <3>3
  <2> QED  BY <2>1, <2>2 DEF Kicks
<1>2. \A r \in DOMAIN req : /\ req[r].losses \in Nat /\ req'[r].losses \in Nat
                            /\ req'[r].losses >= req[r].losses
                            /\ r # call[c].req => req'[r].token = req[r].token
  <2>1. \A r \in DOMAIN req : req[r] \in SetupRecord
    BY <1>0, SetupsTyped
  <2> QED  BY <1>1, <2>1 DEF SetupRecord
<1>3. /\ call' = [call EXCEPT ![c] = k] /\ CallFits(k, req', next')
      /\ next' \in Int /\ next \in Int /\ next <= next'
  BY <1>0 DEF Kicks
<1>4. k.req \in {None, call[c].req} \/ k.req \notin DOMAIN req
  BY <1>1
<1> HIDE DEF CallFits, CallsFit
<1> QED  BY <1>0, <1>1, <1>2, <1>3, <1>4, CallWritten

\* A call that kicks off the owner keeps what holds on every platform.
LEMMA KicksCommon ==
    ASSUME CommonInv, NEW c \in Callers, NEW k, Kicks(c, k)
    PROVE  CommonInv'
<1>0. CommonInv /\ next' = next + 1 /\ current' = next + 1 /\ state' = "IDLE"
  BY DEF Kicks
<1>1. /\ req' \in Seq(SetupRecord) /\ DOMAIN req \subseteq DOMAIN req'
      /\ \A r \in DOMAIN req : req'[r] = req[r]
      /\ \A r \in DOMAIN req' \ DOMAIN req : req'[r].token = None /\ req'[r].teardowns = 0
      /\ CallsFit'
      /\ call'[c] = k /\ \A d \in Callers \ {c} : call'[d] = call[d]
  BY KicksRecords DEF FreshSetup
<1>2. PlainFits'
  <2>1. next \in Nat \ {0}
    BY <1>0 DEF CommonInv, PlainFits
  <2>2. /\ DOMAIN thread' = DOMAIN thread /\ tid' = tid /\ stream' = stream
        /\ remaining' = remaining /\ lostCb' \in {lostCb, None} /\ setupCb' \in {setupCb, None}
        /\ \A t \in DOMAIN thread : {"pc", "stream", "left"} \subseteq DOMAIN thread'[t]
    BY DEF Kicks, ThreadsKept
  <2> QED  BY <1>0, <1>1, <2>1, <2>2 DEF CommonInv, PlainFits, None
<1>3. KicksBehind'
  <2>1. \A d \in Callers : call[d].token <= next /\ call[d].token \in Int
    BY <1>0 DEF CommonInv, CallsFit, CallFits, PlainFits
  <2>2. k.token = next + 1 /\ next \in Int
    BY DEF Kicks, CommonInv, PlainFits
  <2> QED  BY <1>0, <1>1, <2>1, <2>2 DEF CommonInv, KicksBehind
<1>4. StreamFits'
  <2>1. current' \notin DOMAIN thread'
    BY <1>0 DEF Kicks, ThreadsKept, CommonInv, PlainFits
  <2> QED  BY <1>0, <2>1 DEF StreamFits, PlaysOwnStream, Kicks, ThreadsKept
<1>5. (\A r \in DOMAIN req : SetupFits(req[r]))'
  <2>1. \A r \in DOMAIN req : SetupFits(req[r]) /\ req[r].token \in Nat
    BY <1>0, SetupsTyped DEF CommonInv, PlainFits, SetupRecord
  <2>2. next \in Nat
    BY <1>0 DEF CommonInv, PlainFits
  <2> QED  BY <1>0, <1>1, <2>1, <2>2 DEF SetupFits, None
<1> QED  BY <1>2, <1>1, <1>3, <1>4, <1>5 DEF CommonInv

\* The owner is told by the call that kicks it off.
LEMMA KicksLoss ==
    ASSUME CommonInv, NEW c \in Callers, NEW k, Kicks(c, k),
           k.lost = IF state = "IDLE" THEN call[c].lost ELSE lostCb,
           NEW r \in DOMAIN req, LossReported(r)
    PROVE  LossReported(r)'
<1>1. /\ \A q \in DOMAIN req : req'[q] = req[q]
      /\ \A q \in DOMAIN req' \ DOMAIN req : req'[q].token = None
      /\ call'[c] = k /\ \A d \in Callers \ {c} : call'[d] = call[d]
      /\ None \notin DOMAIN req
  BY KicksRecords DEF FreshSetup
<1>3. CASE req[r].teardowns = 1 \/ req[r].losses > 0
  BY <1>1, <1>3 DEF LossReported
<1>4. CASE state # "IDLE" /\ lostCb = r
  BY <1>1, <1>4 DEF LossReported
<1>5. CASE \E d \in Callers \ {c} : call[d].lost = r
  BY <1>1, <1>5 DEF LossReported
<1>6. CASE call[c].lost = r
  <2>1. CASE state = "IDLE"
    BY <1>1, <1>6, <2>1 DEF LossReported
  <2>2. call[c].pc = "idle" => call[c].lost = None
    BY DEF CommonInv, CallsFit, CallFits, NoCall
  <2>3. CASE call[c].pc = "check"
    <3>1. ~Tells(call[c])
      BY <2>3 DEF Tells
    <3>2. req[r].losses > 0
      BY <1>1, <1>6, <3>1 DEF CommonInv, CallsFit, CallFits
    <3> QED  BY <1>3, <3>2
  <2> QED  BY <1>1, <1>6, <2>1, <2>2, <2>3 DEF Kicks
<1> QED  BY <1>3, <1>4, <1>5, <1>6 DEF LossReported

\* ... whoever that is
LEMMA KicksLosses ==
    ASSUME CommonInv, LossesReported, NEW c \in Callers, NEW k, Kicks(c, k),
           k.lost = IF state = "IDLE" THEN call[c].lost ELSE lostCb
    PROVE  LossesReported'
<1>1. /\ \A r \in DOMAIN req : req'[r] = req[r]
      /\ \A r \in DOMAIN req' \ DOMAIN req : req'[r].token = None
  BY KicksRecords DEF FreshSetup
<1> QED  BY <1>1, KicksLoss DEF LossesReported

\* What a call that kicks becomes
LEMMA KickedFits ==
    ASSUME CommonInv, NEW k, NEW q, k.op \in {"setup", "force"},
           k.req \in DOMAIN q \union {None}, k.lost \in DOMAIN req \union {None},
           DOMAIN req \subseteq DOMAIN q,
           k.op = "setup" => k.req # None /\ q[k.req].token = None
    PROVE  /\ CallFits(Kicked(k), q, next + 1)
           /\ Kicked(k).token = next + 1 /\ Kicked(k).req = k.req
           /\ Kicked(k).lost = IF state = "IDLE" THEN k.lost ELSE lostCb
           /\ Kicked(k).op = k.op /\ Kicked(k).pc \in {"join", "lost", "check"}
           /\ Kicked(k).pc = "check" => Kicked(k).lost = None
           /\ Kicked(k).pc = "lost" => Kicked(k).lost # None
           /\ Kicked(k).join = (k.join \/ state # "IDLE")
<1> DEFINE join == k.join \/ state # "IDLE"
           lost == IF state = "IDLE" THEN k.lost ELSE lostCb
           pc   == IF join THEN "join" ELSE IF lost # None THEN "lost" ELSE "check"
<1>1. Kicked(k) = [op |-> k.op, req |-> k.req, token |-> next + 1, join |-> join, lost |-> lost,
                   target |-> None, pc |-> pc]
  BY DEF Kicked
<1>2. lost \in DOMAIN q \union {None} /\ next \in Nat
  BY DEF CommonInv, PlainFits
<1>3. pc \in {"join", "lost", "check"} /\ (pc = "check" => lost = None) /\ (pc = "lost" => lost # None)
  OBVIOUS
<1>4. join = (k.join \/ state # "IDLE") /\ lost = IF state = "IDLE" THEN k.lost ELSE lostCb
  OBVIOUS
<1> HIDE DEF join, lost, pc
<1> DEFINE e == Kicked(k)
<1>5. /\ e = [op |-> e.op, pc |-> e.pc, token |-> e.token, req |-> e.req, join |-> e.join,
              target |-> e.target, lost |-> e.lost]
      /\ e.op = k.op /\ e.req = k.req /\ e.token = next + 1 /\ e.join = join /\ e.lost = lost
      /\ e.pc = pc
  BY <1>1
<1> HIDE DEF e
<1>6. CallFits(e, q, next + 1)
  BY <1>2, <1>3, <1>5 DEF CallFits, Tells
<1> QED  BY <1>3, <1>4, <1>5, <1>6 DEF e

\* Where there is no thread to join, a call that kicked goes on to tell the loss.
LEMMA UnjoinedFits ==
    ASSUME NEW k, NEW q, NEW n, CallFits(k, q, n), k.op \in {"setup", "force"},
           k.op = "setup" => q[k.req].token = None
    PROVE  /\ CallFits(Unjoined(k), q, n)
           /\ Unjoined(k).token = k.token /\ Unjoined(k).req = k.req /\ Unjoined(k).lost = k.lost
           /\ Unjoined(k).op = k.op /\ Unjoined(k).pc = (IF k.lost # None THEN "lost" ELSE "check")
           /\ Unjoined(k).target = k.target /\ Unjoined(k).join = FALSE
<1> DEFINE pc == IF k.lost # None THEN "lost" ELSE "check"
           no == FALSE
           p  == [k EXCEPT !.join = no]
           e  == [p EXCEPT !.pc = pc]
<1>0. k = [op |-> k.op, pc |-> k.pc, token |-> k.token, req |-> k.req, join |-> k.join,
           target |-> k.target, lost |-> k.lost]
  BY DEF CallFits
<1>1. PICK o, at, n1, r, j, t, l :
         k = [op |-> o, pc |-> at, token |-> n1, req |-> r, join |-> j, target |-> t, lost |-> l]
  BY <1>0
<1>2. Unjoined(k) = e
  BY <1>0 DEF Unjoined
<1> HIDE DEF pc, no
<1>3. p = [op |-> o, pc |-> at, token |-> n1, req |-> r, join |-> no, target |-> t, lost |-> l]
  BY <1>1
<1> HIDE DEF p
<1>6. e = [op |-> o, pc |-> pc, token |-> n1, req |-> r, join |-> no, target |-> t, lost |-> l]
  BY <1>3
<1> HIDE DEF e
<1>4. /\ e = [op |-> e.op, pc |-> e.pc, token |-> e.token, req |-> e.req, join |-> e.join,
              target |-> e.target, lost |-> e.lost]
      /\ e.op = k.op /\ e.req = k.req /\ e.token = k.token /\ e.join = no /\ e.lost = k.lost
      /\ e.pc = pc /\ e.target = k.target
  BY <1>1, <1>6
<1>5. CallFits(e, q, n)
  BY <1>4 DEF CallFits, Tells, pc
<1> QED  BY <1>2, <1>4, <1>5 DEF pc, no

\* The call of c, which was k, takes the output: it joins the thread, or there is none to join.
KickOf(c, k, e) ==
    /\ next' = next + 1 /\ current' = next + 1 /\ state' = "IDLE"
    /\ lostCb' = IF state = "IDLE" THEN lostCb ELSE None
    /\ call' = [call EXCEPT ![c] = e] /\ e \in {Kicked(k), Unjoined(Kicked(k))}
    /\ call[c].pc \in {"idle", "check"} /\ k.lost = call[c].lost
    /\ k.op \in {"setup", "force"} /\ (k.op = "setup" => k.req # None)
    /\ k.op = "setup" \/ (call[c].op # "setup" /\ k.req = call[c].req)
    /\ \/ UNCHANGED req /\ k.req = call[c].req
          /\ (k.op = "setup" => req[k.req].token = None)
       \/ /\ call[c].pc = "idle"
          /\ \E s \in Sessions : req' = Append(req, NewRequest(s)) /\ k.req = Len(req) + 1

\* Kicking off is what the modules' operators Kicked and Unjoined do.
LEMMA KickOfKicks ==
    ASSUME CommonInv, NEW c \in Callers, NEW k, NEW e, KickOf(c, k, e),
           ThreadsKept, UNCHANGED <<stream, tid, remaining>>, setupCb' \in {setupCb, None}
    PROVE  /\ Kicks(c, e)
           /\ e.lost = IF state = "IDLE" THEN call[c].lost ELSE lostCb
           /\ e.op = k.op /\ e.req = k.req
<1>0. /\ req \in Seq(SetupRecord) /\ CallFits(call[c], req, next)
      /\ Len(req) + 1 # None
  BY LenProperties DEF CommonInv, PlainFits, CallsFit, None
<1>1. /\ k.req \in DOMAIN req' \union {None} /\ DOMAIN req \subseteq DOMAIN req'
      /\ k.op = "setup" => req'[k.req].token = None
  <2>1. CASE UNCHANGED req /\ k.req = call[c].req /\ (k.op = "setup" => req[k.req].token = None)
    BY <1>0, <2>1 DEF CallFits
  <2>2. ASSUME NEW s \in Sessions, req' = Append(req, NewRequest(s)), k.req = Len(req) + 1
        PROVE  /\ k.req \in DOMAIN req' \union {None} /\ DOMAIN req \subseteq DOMAIN req'
               /\ k.op = "setup" => req'[k.req].token = None
    <3>1. NewRequest(s).token = None
      BY DEF NewRequest
    <3> HIDE DEF NewRequest
    <3> QED  BY <1>0, <2>2, <3>1, SetupEntered
  <2> QED  BY <2>1, <2>2 DEF KickOf
<1>2. k.lost \in DOMAIN req \union {None} /\ k.op \in {"setup", "force"}
      /\ (k.op = "setup" => k.req # None)
  BY <1>0 DEF KickOf, CallFits
<1>3. /\ CallFits(Kicked(k), req', next + 1)
      /\ Kicked(k).token = next + 1 /\ Kicked(k).req = k.req
      /\ Kicked(k).lost = IF state = "IDLE" THEN k.lost ELSE lostCb
      /\ Kicked(k).op = k.op
  BY <1>1, <1>2, KickedFits
<1> HIDE DEF Kicked, Unjoined, CallFits
<1>4. /\ CallFits(e, req', next + 1)
      /\ e.token = next + 1 /\ e.req = k.req /\ e.op = k.op
      /\ e.lost = IF state = "IDLE" THEN k.lost ELSE lostCb
  <2>1. CASE e = Kicked(k)
    BY <1>3, <2>1
  <2>2. CASE e = Unjoined(Kicked(k))
    <3> DEFINE f == Kicked(k)
    <3>1. /\ CallFits(f, req', next + 1)
          /\ f.token = next + 1 /\ f.req = k.req
          /\ f.lost = IF state = "IDLE" THEN k.lost ELSE lostCb
          /\ f.op \in {"setup", "force"} /\ (f.op = "setup" => req'[f.req].token = None)
          /\ f.op = k.op /\ e = Unjoined(f)
      BY <1>1, <1>2, <1>3, <2>2
    <3> HIDE DEF f
    <3> QED  BY <3>1, UnjoinedFits
  <2> QED  BY <2>1, <2>2 DEF KickOf
<1>5. e.lost = IF state = "IDLE" THEN call[c].lost ELSE lostCb
  BY <1>4 DEF KickOf
<1>6. Kicks(c, e)
  BY <1>4 DEF KickOf, Kicks
<1> QED  BY <1>4, <1>5, <1>6

\* The call with which setup or force_teardown begins
NewCall(op, r) == [NoCall EXCEPT !.op = op, !.req = r]

\* The record of a call that begins
LEMMA NewCallFields ==
    ASSUME NEW op, NEW r
    PROVE  /\ NewCall(op, r).op = op /\ NewCall(op, r).req = r
           /\ NewCall(op, r).lost = None /\ NewCall(op, r).join = FALSE
           /\ [NoCall EXCEPT !.op = op].op = op /\ [NoCall EXCEPT !.op = op].req = None
           /\ [NoCall EXCEPT !.op = op].lost = None /\ [NoCall EXCEPT !.op = op].join = FALSE
BY DEF NewCall, NoCall

\* What the steps that kick have in common
LEMMA KickOfCommon ==
    ASSUME CommonInv, NEW c \in Callers, NEW k, NEW e, KickOf(c, k, e),
           ThreadsKept, UNCHANGED <<stream, tid, remaining>>, setupCb' \in {setupCb, None}
    PROVE  CommonInv' /\ (LossesReported => LossesReported')
<1>1. Kicks(c, e) /\ e.lost = IF state = "IDLE" THEN call[c].lost ELSE lostCb
  BY KickOfKicks
<1> QED  BY <1>1, KicksCommon, KicksLosses

\* setup begins.
LEMMA SetupKicksOff ==
    ASSUME CommonInv, NEW s \in Sessions, SetupEnter(s) \/ SetupKicks(s)
    PROVE  \E e : KickOf(s, NewCall("setup", Len(req) + 1), e)
<1>0. s \in Callers /\ CallFits(call[s], req, next)
  BY DEF Callers, CommonInv, CallsFit
<1>1. call[s].pc = "idle" /\ call[s].lost = None
  BY <1>0 DEF SetupEnter, SetupKicks, Idle, CallFits, NoCall
<1>2. Len(req) + 1 # None
  BY LenProperties DEF CommonInv, PlainFits, None
<1>3. req' = Append(req, NewRequest(s))
  BY DEF SetupEnter, SetupKicks, NewRequest
<1> DEFINE k == NewCall("setup", Len(req) + 1)
<1>4. k.op = "setup" /\ k.req = Len(req) + 1 /\ k.lost = None
  BY DEF NewCall, NoCall
<1>5. \/ Kick(s, k)
      \/ KickUnjoined(s, k)
  BY DEF SetupEnter, SetupKicks, NewCall
<1> HIDE DEF k
<1>6. CASE Kick(s, k)
  <2>1. KickOf(s, k, Kicked(k))
    BY <1>1, <1>2, <1>3, <1>4, <1>6 DEF Kick, KickOf
  <2> QED  BY <2>1 DEF k
<1>7. CASE KickUnjoined(s, k)
  <2>1. KickOf(s, k, Unjoined(Kicked(k)))
    BY <1>1, <1>2, <1>3, <1>4, <1>7 DEF KickUnjoined, KickOf
  <2> QED  BY <2>1 DEF k
<1> QED  BY <1>5, <1>6, <1>7

\* force_teardown begins, or tries again.
LEMMA ForceKicksOff ==
    ASSUME CommonInv, NEW o \in Callers,
           \/ ForceEnter(o) \/ ForceRetry(o)
           \/ Idle(o) /\ Kick(o, [NoCall EXCEPT !.op = "force"]) /\ UNCHANGED req
           \/ (ForceKicks(o) \/ RetryKicks(o)) /\ UNCHANGED req
    PROVE  \E k, e : KickOf(o, k, e)
<1>1. call[o].pc = "idle" => call[o].lost = None /\ call[o].req = None
  BY DEF CommonInv, CallsFit, CallFits, NoCall
<1>3. call[o].pc = "idle" => call[o].op = "none"
  BY DEF CommonInv, CallsFit, CallFits, NoCall
<1>2. UNCHANGED req
  BY DEF ForceEnter, ForceRetry
<1> DEFINE k == [NoCall EXCEPT !.op = "force"]
<1>4. k.op = "force" /\ k.req = None /\ k.lost = None
  BY NewCallFields
<1>5. \/ call[o].pc = "idle" /\ Kick(o, k)
      \/ call[o].pc = "idle" /\ KickUnjoined(o, k)
      \/ call[o].op = "force" /\ call[o].pc = "check" /\ Kick(o, call[o])
      \/ call[o].op = "force" /\ call[o].pc = "check" /\ KickUnjoined(o, call[o])
  BY DEF ForceEnter, ForceRetry, ForceKicks, RetryKicks, Idle
<1> HIDE DEF k
<1>6. CASE call[o].pc = "idle" /\ Kick(o, k)
  <2>1. KickOf(o, k, Kicked(k))
    BY <1>1, <1>2, <1>3, <1>4, <1>6 DEF Kick, KickOf
  <2> QED  BY <2>1
<1>7. CASE call[o].pc = "idle" /\ KickUnjoined(o, k)
  <2>1. KickOf(o, k, Unjoined(Kicked(k)))
    BY <1>1, <1>2, <1>3, <1>4, <1>7 DEF KickUnjoined, KickOf
  <2> QED  BY <2>1
<1>8. CASE call[o].op = "force" /\ call[o].pc = "check" /\ Kick(o, call[o])
  <2>1. KickOf(o, call[o], Kicked(call[o]))
    BY <1>2, <1>8 DEF Kick, KickOf
  <2> QED  BY <2>1
<1>9. CASE call[o].op = "force" /\ call[o].pc = "check" /\ KickUnjoined(o, call[o])
  <2>1. KickOf(o, call[o], Unjoined(Kicked(call[o])))
    BY <1>2, <1>9 DEF KickUnjoined, KickOf
  <2> QED  BY <2>1
<1> QED  BY <1>5, <1>6, <1>7, <1>8, <1>9

-----------------------------------------------------------------------------
(***************************************************************************)
(* A setup is granted the output, and a teardown gives it up               *)
(***************************************************************************)

\* The setup of c is through, with the token t: it has the output, or it is refused though the
\* token was given out.
Grants(c, t, k) ==
    /\ t \in {current, next + 1} /\ current' = t /\ t <= next' /\ next' \in {next, next + 1}
    /\ t \in Nat \ {0}
    /\ tid' = t /\ state' \in {"IDLE", "STOPPED"} /\ stream' = None
    /\ lostCb' \in {None, lostCb, call[c].req}
    /\ call[c].op = "setup" /\ call[c].pc \in Behind \union {"hold"} /\ state = "IDLE"
    /\ ~Tells(call[c])
    /\ \A d \in Callers \ {c} : call[d].pc \in Behind => call[d].token # t
    /\ call' = [call EXCEPT ![c] = k] /\ CallFits(k, req', next')
    /\ k.pc \notin Behind \union {"hold"} /\ k.req \in {None, call[c].req}
    /\ req' \in {req, [req EXCEPT ![call[c].req].token = t]}
    /\ DOMAIN thread' = DOMAIN thread \union {t}
    /\ \A u \in DOMAIN thread' : /\ thread'[u].stream \in {None, u}
                                 /\ {"pc", "stream", "left"} \subseteq DOMAIN thread'[u]
    /\ remaining' \in Nat /\ setupCb' \in {setupCb, None, call[c].req}

\* What a grant writes of the setups and of the calls
LEMMA GrantsRecords ==
    ASSUME CommonInv, NEW c \in Callers, NEW t, NEW k, Grants(c, t, k)
    PROVE  /\ OnlySetup(call[c].req) /\ call[c].req \in DOMAIN req /\ t \in Nat \ {0}
           /\ req[call[c].req].token = None /\ req'[call[c].req].token \in {None, t}
           /\ req'[call[c].req].losses = req[call[c].req].losses
           /\ req'[call[c].req].answers = req[call[c].req].answers
           /\ req'[call[c].req].teardowns = req[call[c].req].teardowns
           /\ req'[call[c].req].told = req[call[c].req].told
           /\ CallsFit'
           /\ call'[c] = k /\ \A d \in Callers \ {c} : call'[d] = call[d]
<1> DEFINE r == call[c].req
<1>0. /\ req \in Seq(SetupRecord) /\ None \notin DOMAIN req /\ CallsFit /\ next \in Nat
      /\ CallFits(call[c], req, next) /\ current \in Int
  BY SetupsTyped DEF CommonInv, PlainFits, CallsFit
<1>1. r \in DOMAIN req /\ req[r].token = None
  BY <1>0 DEF Grants, CallFits
<1>2. t \in Nat \ {0}
  BY DEF Grants
<1> HIDE DEF r
<1>3. /\ OnlySetup(r) /\ req'[r].token \in {None, t}
      /\ req'[r].losses = req[r].losses /\ req'[r].answers = req[r].answers
      /\ req'[r].teardowns = req[r].teardowns /\ req'[r].told = req[r].told
  <2>1. CASE req' = req
    BY <1>0, <1>1, <2>1 DEF OnlySetup
  <2>2. CASE req' = [req EXCEPT ![r].token = t]
    BY <1>0, <1>1, <1>2, <2>2, SetupGivenToken
  <2> QED  BY <2>1, <2>2 DEF Grants, r
<1>4. \A q \in DOMAIN req : /\ req[q].losses \in Nat /\ req'[q].losses \in Nat
                            /\ req'[q].losses >= req[q].losses
                            /\ q # call[c].req => req'[q].token = req[q].token
  <2>1. \A q \in DOMAIN req : req[q].losses \in Nat
    BY <1>0, SetupsTyped DEF SetupRecord
  <2>2. \A q \in DOMAIN req \ {r} : req'[q] = req[q]
    BY <1>3 DEF OnlySetup
  <2> QED  BY <1>3, <2>1, <2>2 DEF r
<1>5. /\ call' = [call EXCEPT ![c] = k] /\ CallFits(k, req', next')
      /\ next' \in Int /\ next \in Int /\ next <= next'
      /\ k.req \in {None, call[c].req} \/ k.req \notin DOMAIN req
      /\ DOMAIN req \subseteq DOMAIN req'
  BY <1>0, <1>3 DEF Grants, OnlySetup
<1>6. /\ CallsFit' /\ call'[c] = k /\ \A d \in Callers \ {c} : call'[d] = call[d]
  <2> HIDE DEF CallFits, CallsFit
  <2> QED  BY <1>0, <1>4, <1>5, CallWritten
<1> QED  BY <1>1, <1>2, <1>3, <1>6 DEF r

\* A grant keeps what holds on every platform.
LEMMA GrantsCommon ==
    ASSUME CommonInv, NEW c \in Callers, NEW t, NEW k, Grants(c, t, k)
    PROVE  CommonInv'
<1> DEFINE r == call[c].req
<1>0. /\ CommonInv /\ next \in Nat /\ current \in Int /\ next' \in Nat /\ next <= next'
      /\ t \in Nat \ {0} /\ t \in {current, next + 1} /\ t <= next' /\ current' = t /\ tid' = t
      /\ DOMAIN thread' = DOMAIN thread \union {t}
  BY DEF CommonInv, PlainFits, Grants
<1>1. /\ OnlySetup(r) /\ r \in DOMAIN req
      /\ req[r].token = None /\ req'[r].token \in {None, t}
      /\ req'[r].teardowns = req[r].teardowns
      /\ CallsFit'
      /\ call'[c] = k /\ \A d \in Callers \ {c} : call'[d] = call[d]
  BY GrantsRecords
<1>2. PlainFits'
  <2>1. /\ req' \in Seq(SetupRecord) /\ DOMAIN req' = DOMAIN req
        /\ lostCb' \in DOMAIN req \union {None} /\ setupCb' \in DOMAIN req \union {None}
    BY <1>1 DEF OnlySetup, Grants, CommonInv, PlainFits
  <2>2. /\ state' \in {"IDLE", "STOPPED"} /\ stream' = None /\ remaining' \in Nat
        /\ \A u \in DOMAIN thread' : {"pc", "stream", "left"} \subseteq DOMAIN thread'[u]
    BY DEF Grants
  <2>3. DOMAIN thread' \subseteq 1..next'
    BY <1>0 DEF CommonInv, PlainFits
  <2> HIDE DEF r
  <2> QED  BY <1>0, <2>1, <2>2, <2>3 DEF PlainFits, None
<1>3. KicksBehind'
  <2>1. k.pc \notin Behind \union {"hold"} /\ \A d \in Callers \ {c} : call[d].pc \in Behind => call[d].token # t
    BY DEF Grants
  <2> QED  BY <1>0, <1>1, <2>1 DEF CommonInv, KicksBehind
<1>4. StreamFits'
  BY DEF StreamFits, PlaysOwnStream, Grants
<1>5. (\A q \in DOMAIN req : SetupFits(req[q]))'
  <2>1. \A q \in DOMAIN req : SetupFits(req[q]) /\ req[q].token \in Nat
    BY <1>0, SetupsTyped DEF CommonInv, PlainFits, SetupRecord
  <2> HIDE DEF r
  <2>2. \A q \in DOMAIN req \ {r} : req'[q] = req[q]
    BY <1>1 DEF OnlySetup
  <2>3. ASSUME NEW q \in DOMAIN req PROVE SetupFits(req[q])'
    <3>1. CASE q = r
      BY <1>0, <1>1, <2>1, <3>1 DEF SetupFits, None
    <3>2. CASE q # r
      BY <1>0, <2>1, <2>2, <2>3, <3>2 DEF SetupFits
    <3> QED  BY <3>1, <3>2
  <2> QED  BY <1>1, <2>3 DEF OnlySetup
<1> QED  BY <1>2, <1>1, <1>3, <1>4, <1>5 DEF CommonInv

\* Nobody had the output, and nobody else loses it.
LEMMA GrantsLoss ==
    ASSUME CommonInv, NEW c \in Callers, NEW t, NEW k, Grants(c, t, k),
           NEW q \in DOMAIN req, q # call[c].req, LossReported(q)
    PROVE  LossReported(q)'
<1>1. /\ OnlySetup(call[c].req)
      /\ \A d \in Callers \ {c} : call'[d] = call[d]
  BY GrantsRecords
<1>2. req'[q] = req[q] /\ state = "IDLE"
  BY <1>1 DEF OnlySetup, Grants
<1>3. call[c].lost = q => req[q].losses > 0
  <2>1. ~Tells(call[c]) /\ CallFits(call[c], req, next) /\ q # None
    BY SetupsTyped DEF Grants, CommonInv, CallsFit, PlainFits
  <2> QED  BY <2>1 DEF CallFits
<1> QED  BY <1>1, <1>2, <1>3 DEF LossReported

\* ... and the new owner has it.
LEMMA GrantsLosses ==
    ASSUME CommonInv, LossesReported, NEW c \in Callers, NEW t, NEW k, Grants(c, t, k),
           req'[call[c].req].token # None => state' # "IDLE" /\ lostCb' = call[c].req
    PROVE  LossesReported'
<1>1. /\ OnlySetup(call[c].req) /\ call[c].req \in DOMAIN req
      /\ req'[call[c].req].token \in {None, t}
      /\ \A d \in Callers \ {c} : call'[d] = call[d]
      /\ req[call[c].req].token = None
  BY GrantsRecords
<1>2. SUFFICES ASSUME NEW q \in DOMAIN req, req'[q].token # None
               PROVE  LossReported(q)'
  BY <1>1 DEF LossesReported, OnlySetup
<1>3. CASE q = call[c].req
  BY <1>1, <1>2, <1>3 DEF LossReported, Grants
<1>4. CASE q # call[c].req
  <2>1. req'[q] = req[q]
    BY <1>1, <1>4 DEF OnlySetup
  <2>2. LossReported(q)
    BY <1>2, <2>1 DEF LossesReported
  <2> QED  BY <1>4, <2>2, GrantsLoss
<1> QED  BY <1>3, <1>4

\* The present owner, or nobody, gives up the token t.
Yields(s, t) ==
    /\ current = t /\ current' = Invalid /\ lostCb' = None /\ state' = "IDLE" /\ stream' = None
    /\ UNCHANGED <<next, tid, remaining>> /\ setupCb' \in {setupCb, None}
    /\ req' = TornDown(t)
    /\ \/ UNCHANGED call
       \/ \E k : /\ call' = [call EXCEPT ![s] = k] /\ call[s].pc = "idle"
                 /\ CallFits(k, req', next') /\ k.token = None /\ k.req = None
    /\ ThreadsKept

\* Giving up keeps what holds on every platform.
LEMMA YieldsCommon ==
    ASSUME CommonInv, NEW s \in Callers, NEW t, Yields(s, t)
    PROVE  CommonInv'
<1>0. /\ CommonInv /\ req \in Seq(SetupRecord) /\ None \notin DOMAIN req /\ next \in Nat \ {0}
      /\ CallsFit /\ current \in Int
  BY SetupsTyped DEF CommonInv, PlainFits
<1>1. /\ req' \in Seq(SetupRecord) /\ DOMAIN req' = DOMAIN req
      /\ \A r \in DOMAIN req :
            /\ req'[r].teardowns = req[r].teardowns + (IF req[r].token = t THEN 1 ELSE 0)
            /\ req'[r].token = req[r].token /\ req'[r].losses = req[r].losses
  BY <1>0, SetupsTornDown DEF Yields
<1>2. \A r \in DOMAIN req : req[r] \in SetupRecord
  BY <1>0, SetupsTyped
<1>3. CallsFit' /\ \A d \in Callers : call'[d] = call[d] \/ call'[d].token = None
  <2>1. \A r \in DOMAIN req : /\ req[r].losses \in Nat /\ req'[r].losses \in Nat
                              /\ req'[r].losses >= req[r].losses
                              /\ req'[r].token = req[r].token
    BY <1>1, <1>2, SMTT(30) DEF SetupRecord
  <2>2. next' = next /\ DOMAIN req \subseteq DOMAIN req'
    BY <1>1 DEF Yields
  <2>3. CASE UNCHANGED call
    <3> HIDE DEF CallFits, CallsFit
    <3> QED  BY <1>0, <2>1, <2>2, <2>3, CallsStay
  <2>4. ASSUME NEW k, call' = [call EXCEPT ![s] = k], CallFits(k, req', next'), k.token = None,
               k.req = None
        PROVE  CallsFit' /\ \A d \in Callers : call'[d] = call[d] \/ call'[d].token = None
    <3>1. /\ k.req \in {None, call[s].req} \/ k.req \notin DOMAIN req
          /\ next \in Int /\ next' \in Int /\ next <= next'
          /\ \A r \in DOMAIN req : /\ req[r].losses \in Nat /\ req'[r].losses \in Nat
                                   /\ req'[r].losses >= req[r].losses
                                   /\ r # call[s].req => req'[r].token = req[r].token
      BY <1>0, <2>1, <2>2, <2>4
    <3>2. CallsFit' /\ call'[s] = k /\ \A d \in Callers \ {s} : call'[d] = call[d]
      <4> HIDE DEF CallFits, CallsFit
      <4> QED  BY <1>0, <2>2, <2>4, <3>1, CallWritten
    <3> QED  BY <2>4, <3>2
  <2> QED  BY <2>3, <2>4 DEF Yields
<1>4. PlainFits'
  <2>1. /\ DOMAIN thread' = DOMAIN thread
        /\ \A u \in DOMAIN thread : {"pc", "stream", "left"} \subseteq DOMAIN thread'[u]
    BY DEF Yields, ThreadsKept
  <2> QED  BY <1>0, <1>1, <2>1 DEF CommonInv, PlainFits, Yields, Invalid, None
<1>5. KicksBehind'
  <2>1. \A d \in Callers :
           /\ call'[d].pc \in Behind \union {"hold"} /\ call'[d].token # None => call'[d] = call[d]
    BY <1>3
  <2>2. \A d \in Callers : call[d].token \in Nat
    BY <1>0 DEF CallsFit, CallFits
  <2>3. ASSUME NEW c \in Callers, NEW d \in Callers, c # d,
               call'[c].pc \in Behind \union {"hold"}, call'[d].pc \in Behind \union {"hold"},
               call'[c].token # None
        PROVE  call'[c].token # call'[d].token
    BY <1>0, <2>1, <2>3 DEF CommonInv, KicksBehind
  <2> QED  BY <2>3 DEF KicksBehind, Yields
<1>6. StreamFits'
  BY DEF Yields, StreamFits, PlaysOwnStream, ThreadsKept
<1>7. (\A r \in DOMAIN req : SetupFits(req[r]))'
  <2>1. ASSUME NEW r \in DOMAIN req PROVE SetupFits(req[r])'
    <3>1. SetupFits(req[r]) /\ req[r].token \in Nat /\ current = t /\ t # None
      BY <1>0, <1>2 DEF CommonInv, PlainFits, SetupRecord, Yields
    <3>2. current' = -1 /\ next' = next
      BY DEF Yields, Invalid
    <3> QED  BY <1>1, <3>1, <3>2 DEF SetupFits, None
  <2> QED  BY <1>1, <2>1
<1> QED  BY <1>3, <1>4, <1>5, <1>6, <1>7 DEF CommonInv

\* Who gave the output up needs no report.
LEMMA YieldsLoss ==
    ASSUME CommonInv, NEW s \in Callers, NEW t, Yields(s, t),
           NEW r \in DOMAIN req, LossReported(r)
    PROVE  LossReported(r)'
<1>0. /\ req \in Seq(SetupRecord) /\ None \notin DOMAIN req
      /\ \A q \in DOMAIN req : SetupFits(req[q])
  BY SetupsTyped DEF CommonInv, PlainFits
<1>1. /\ DOMAIN req' = DOMAIN req
      /\ \A q \in DOMAIN req :
            /\ req'[q].teardowns = req[q].teardowns + (IF req[q].token = t THEN 1 ELSE 0)
            /\ req'[q].token = req[q].token /\ req'[q].losses = req[q].losses
  BY <1>0, SetupsTornDown DEF Yields
<1>3. CASE req[r].token = t
  <2>1. req[r].teardowns = 0 /\ req'[r].teardowns = req[r].teardowns + 1
    BY <1>0, <1>1, <1>3 DEF SetupFits, Yields
  <2> QED  BY <2>1 DEF LossReported
<1>4. CASE req[r].token # t
  <2>1. /\ req'[r].losses = req[r].losses
        /\ req'[r].teardowns = req[r].teardowns + 0 /\ req[r].teardowns \in {0, 1}
    BY <1>0, <1>1, <1>4 DEF SetupFits
  <2>2. current # req[r].token
    BY <1>4 DEF Yields
  <2>3. \A c \in Callers : call[c].lost = r => call'[c].lost = r
    <3>1. \A c \in Callers : call[c].pc = "idle" => call[c].lost = None
      BY DEF CommonInv, CallsFit, CallFits, NoCall
    <3>2. r # None /\ call = [c \in Callers |-> call[c]]
      BY <1>0 DEF CommonInv, CallsFit
    <3>3. CASE UNCHANGED call
      BY <3>3
    <3>4. ASSUME NEW k, call' = [call EXCEPT ![s] = k], call[s].pc = "idle",
                 NEW c \in Callers, call[c].lost = r
          PROVE  call'[c].lost = r
      BY <3>1, <3>2, <3>4
    <3> QED  BY <3>3, <3>4 DEF Yields
  <2> QED  BY <2>1, <2>2, <2>3 DEF LossReported
<1> QED  BY <1>3, <1>4

\* ... nor do the others.
LEMMA YieldsLosses ==
    ASSUME CommonInv, LossesReported, NEW s \in Callers, NEW t, Yields(s, t)
    PROVE  LossesReported'
<1>1. DOMAIN req' = DOMAIN req /\ \A r \in DOMAIN req : req'[r].token = req[r].token
  BY SetupsTornDown DEF Yields, CommonInv, PlainFits
<1> QED  BY <1>1, YieldsLoss DEF LossesReported

\* The second half of the reference plugin's setup
LEMMA SetupGrantedGrants ==
    ASSUME CommonInv, NEW c \in Callers, SetupGranted(c)
    PROVE  /\ \E k : Grants(c, next + 1, k)
           /\ lostCb' = call[c].req /\ state' = "STOPPED"
<1>0. /\ CallFits(call[c], req, next) /\ next \in Nat \ {0} /\ remaining \in Nat
      /\ call[c].op = "setup" /\ call[c].pc = "check" /\ current = call[c].token
      /\ req \in Seq(SetupRecord) /\ None \notin DOMAIN req
  BY SetupsTyped DEF SetupGranted, StillCurrent, CommonInv, CallsFit, PlainFits
<1> DEFINE t == next + 1
           p == [call[c] EXCEPT !.pc = "resync"]
           k == [p EXCEPT !.token = t]
           r == call[c].req
<1>1. p = [op |-> "setup", pc |-> "resync", token |-> call[c].token, req |-> call[c].req,
           join |-> call[c].join, target |-> call[c].target, lost |-> call[c].lost]
  BY <1>0 DEF CallFits
<1>2. call' = [call EXCEPT ![c] = k]
  BY DEF SetupGranted
<1> HIDE DEF p
<1>3. k = [op |-> "setup", pc |-> "resync", token |-> t, req |-> call[c].req,
           join |-> call[c].join, target |-> call[c].target, lost |-> call[c].lost]
  BY <1>1
<1> HIDE DEF k
<1>4. req' = [req EXCEPT ![r].token = t] /\ r \in DOMAIN req /\ t \in Nat \ {0}
  BY <1>0 DEF SetupGranted, CallFits
<1>5. \A q \in DOMAIN req : req'[q].losses = req[q].losses
  <2> HIDE DEF r, t
  <2>1. OnlySetup(r) /\ req'[r].losses = req[r].losses
    BY <1>0, <1>4, SetupGivenToken
  <2> QED  BY <2>1 DEF OnlySetup
<1>6. CallFits(k, req', next') /\ k.pc \notin Behind \union {"hold"} /\ k.req = call[c].req
  <2>1. next' = t /\ DOMAIN req' = DOMAIN req
    BY <1>4 DEF SetupGranted
  <2>2. /\ k.op = "setup" /\ k.pc = "resync" /\ k.token = t /\ k.req = call[c].req
        /\ k.join = call[c].join /\ k.target = call[c].target /\ k.lost = call[c].lost
    BY <1>3
  <2>3. call[c].lost # None => req[call[c].lost].losses > 0
    BY <1>0 DEF CallFits, Tells
  <2> QED  BY <1>0, <1>3, <1>5, <2>1, <2>2, <2>3 DEF CallFits, Tells, Behind
<1>7. /\ DOMAIN thread' = DOMAIN thread \union {t}
      /\ \A u \in DOMAIN thread' : /\ thread'[u].stream \in {None, u}
                                   /\ {"pc", "stream", "left"} \subseteq DOMAIN thread'[u]
  <2>1. thread' = [u \in DOMAIN thread \union {t} |->
                      IF u \in DOMAIN thread THEN thread[u] ELSE NewThread]
    BY DEF SetupGranted
  <2>2. \A u \in DOMAIN thread : /\ thread[u].stream \in {None, u}
                                 /\ {"pc", "stream", "left"} \subseteq DOMAIN thread[u]
    BY DEF CommonInv, PlainFits, StreamFits, PlaysOwnStream
  <2>3. NewThread.stream = None /\ {"pc", "stream", "left"} \subseteq DOMAIN NewThread
    BY DEF NewThread
  <2> QED  BY <2>1, <2>2, <2>3
<1>8. state = "IDLE" /\ ~Tells(call[c]) /\ call[c].pc \in Behind
  BY <1>0 DEF CommonInv, KicksBehind, Behind, Tells
<1>9. \A d \in Callers \ {c} : call[d].pc \in Behind => call[d].token # t
  BY <1>0 DEF CommonInv, CallsFit, CallFits
<1>10. /\ next' = t /\ current' = t /\ tid' = t /\ state' = "STOPPED" /\ stream' = None
       /\ lostCb' = r /\ remaining' = remaining /\ setupCb' = setupCb
  BY DEF SetupGranted
<1>11. t <= next' /\ next' \in {next, next + 1} /\ t \in {current, next + 1}
  BY <1>4, <1>10
<1> HIDE DEF t
<1>12. Grants(c, t, k)
  BY <1>0, <1>2, <1>4, <1>6, <1>7, <1>8, <1>9, <1>10, <1>11 DEF Grants
<1> QED  BY <1>10, <1>12 DEF t

\* teardown
LEMMA TeardownYields ==
    ASSUME CommonInv, NEW s \in Sessions, NEW t, Teardown(s, t)
    PROVE  /\ Yields(s, t) /\ s \in Callers
           /\ call'[s].op = "teardown" /\ call'[s].pc = "join"
           /\ \A d \in Callers \ {s} : call'[d] = call[d]
<1> DEFINE p == [NoCall EXCEPT !.op = "teardown"]
           k == [p EXCEPT !.pc = "join"]
<1>0. s \in Callers /\ call = [c \in Callers |-> call[c]] /\ next \in Nat
  BY DEF Callers, CommonInv, CallsFit, PlainFits
<1>1. call' = [call EXCEPT ![s] = k] /\ call[s].pc = "idle"
  BY DEF Teardown, Idle
<1>6. CallRecord(NoCall)
  BY DEF CallRecord, NoCall
<1>2. /\ k = [op |-> k.op, pc |-> k.pc, token |-> k.token, req |-> k.req, join |-> k.join,
              target |-> k.target, lost |-> k.lost]
      /\ k.op = "teardown" /\ k.pc = "join" /\ k.token = None /\ k.req = None /\ k.lost = None
  <2>1. /\ CallRecord(p) /\ p.op = "teardown" /\ p.token = NoCall.token /\ p.req = NoCall.req
        /\ p.lost = NoCall.lost
    BY <1>6, CallOp
  <2> HIDE DEF p
  <2>2. /\ CallRecord(k) /\ k.pc = "join" /\ k.op = p.op /\ k.token = p.token /\ k.req = p.req
        /\ k.lost = p.lost
    BY <2>1, CallPc
  <2>3. NoCall.token = None /\ NoCall.req = None /\ NoCall.lost = None
    BY DEF NoCall
  <2> HIDE DEF k
  <2> QED  BY <2>1, <2>2, <2>3 DEF CallRecord
<1> HIDE DEF k
<1>3. CallFits(k, req', next')
  BY <1>0, <1>2 DEF CallFits, Teardown, None
<1>4. ThreadsKept
  BY ThreadsAsTheyWere DEF Teardown
<1>5. Yields(s, t)
  BY <1>1, <1>2, <1>3, <1>4 DEF Teardown, Yields, Vacate, DropStream, TornDown
<1> QED  BY <1>0, <1>1, <1>2, <1>5

\* The first state
LEMMA CommonInit ==
    ASSUME Init
    PROVE  CommonInv /\ LossesReported
<1>1. PlainFits
  BY DEF Init, PlainFits, Invalid, None
<1>2. CallsFit
  <2>1. CallFits(NoCall, req, next)
    BY DEF CallFits, NoCall, None, Behind, Init, Tells
  <2> QED  BY <2>1 DEF CallsFit, Init, NoCall
<1>3. KicksBehind
  BY DEF KicksBehind, Behind, Init, NoCall
<1>4. StreamFits /\ (\A r \in DOMAIN req : SetupFits(req[r]))
  BY DEF StreamFits, PlaysOwnStream, Init
<1> QED  BY <1>1, <1>2, <1>3, <1>4 DEF CommonInv, LossesReported, Init

-----------------------------------------------------------------------------
(***************************************************************************)
(* Calls that do not overlap                                               *)
(***************************************************************************)

Joins(c) == call[c].pc \in {"join", "joining"}

\* One call is in progress at a time.
OneCaller == \A c, d \in Callers : ~Idle(c) /\ ~Idle(d) => c = d

Past == {"done", "joined"}

\* The thread t is at none of the places P, where it would be at rest.
Lives(P, t) == thread[t].pc \notin P

\* The one hardware thread that lives is the owner's, or somebody waits for its end.
Turns(P) ==
    /\ OneCaller
    /\ \A t \in DOMAIN thread :
          Lives(P, t) => t = tid /\ (state = "IDLE" => \E c \in Callers : Joins(c))
    /\ \A c \in Callers : call[c].pc = "joining" => call[c].target = tid

Live(t) == Lives(Past, t)

InTurn == Turns(Past)

\* The call of c is now k, and nobody owns the output.
LEMMA TurnKicks ==
    ASSUME NEW P, Past \subseteq P, Turns(P),
           NEW c \in Callers, NEW k, call' = [call EXCEPT ![c] = k],
           call = [d \in Callers |-> call[d]],
           \A d \in Callers \ {c} : Idle(d), ~Joins(c), UNCHANGED <<thread, tid>>,
           state # "IDLE" => k.pc = "join", k.pc # "joining"
    PROVE  Turns(P)'
<1>1. call'[c] = k /\ \A d \in Callers \ {c} : call'[d] = call[d]
  OBVIOUS
<1>2. \A d \in Callers : ~Joins(d)
  BY DEF Joins, Idle
<1>3. OneCaller' /\ (\A d \in Callers : call[d].pc = "joining" => call[d].target = tid)'
  BY <1>1 DEF OneCaller, Idle
<1>4. ASSUME NEW t \in DOMAIN thread, Lives(P, t)
      PROVE  t = tid /\ Joins(c)'
  BY <1>1, <1>2, <1>4 DEF Turns, Joins
<1> QED  BY <1>3, <1>4 DEF Turns, Lives

\* The call of c is now k, and the output has a new thread.
LEMMA TurnGrants ==
    ASSUME NEW P, Past \subseteq P, Turns(P),
           NEW c \in Callers, NEW k, call' = [call EXCEPT ![c] = k],
           call = [d \in Callers |-> call[d]],
           ~Idle(c), ~Joins(c), k.pc # "joining", state = "IDLE",
           NEW t, tid' = t, DOMAIN thread' = DOMAIN thread \union {t},
           state' # "IDLE" \/ ~Lives(P, t)',
           \A u \in DOMAIN thread \ {t} : thread'[u] = thread[u]
    PROVE  Turns(P)'
<1>1. call'[c] = k /\ \A d \in Callers \ {c} : call'[d] = call[d] /\ Idle(d)
  BY DEF Turns, OneCaller
<1>2. \A d \in Callers : ~Joins(d)
  BY <1>1 DEF Joins, Idle
<1>3. OneCaller' /\ (\A d \in Callers : call[d].pc = "joining" => call[d].target = tid)'
  BY <1>1 DEF OneCaller, Idle
<1>4. \A u \in DOMAIN thread : ~Lives(P, u)
  BY <1>2 DEF Turns
<1> QED  BY <1>3, <1>4 DEF Turns, Lives

\* Calls go on, threads end.
LEMMA TurnGoesOn ==
    ASSUME NEW P, Past \subseteq P, Turns(P), UNCHANGED tid, DOMAIN thread' = DOMAIN thread,
           state' = "IDLE" => state = "IDLE",
           \A t \in DOMAIN thread : Lives(P, t)' => Lives(P, t),
           \A c \in Callers : /\ Idle(c) => Idle(c)'
                              /\ Joins(c) => Joins(c)' \/ \A t \in DOMAIN thread : ~Lives(P, t)'
                              /\ call'[c].pc = "joining" => call'[c].target = tid
    PROVE  Turns(P)'
<1>1. OneCaller' /\ (\A d \in Callers : call[d].pc = "joining" => call[d].target = tid)'
  BY DEF Turns, OneCaller
<1>2. ASSUME NEW t \in DOMAIN thread, Lives(P, t)'
      PROVE  t = tid /\ (state' = "IDLE" => \E c \in Callers : Joins(c)')
  BY <1>2 DEF Turns
<1> QED  BY <1>1, <1>2 DEF Turns

\* A join brings no thread to life.
LEMMA JoinsEnd ==
    ASSUME NEW P, Past \subseteq P, CommonInv, NEW c \in Callers, JoinBegin(c) \/ JoinEnd(c)
    PROVE  /\ DOMAIN thread' = DOMAIN thread /\ UNCHANGED <<tid, state>>
           /\ \A t \in DOMAIN thread : Lives(P, t)' => Lives(P, t)
<1>1. CASE JoinBegin(c)
  BY <1>1 DEF JoinBegin, owned, Lives
<1>2. CASE JoinEnd(c) /\ call[c].target \in DOMAIN thread
  <2>1. /\ {"pc", "stream", "left"} \subseteq DOMAIN thread[call[c].target]
        /\ ThreadGoes(call[c].target, "joined")
    BY <1>2 DEF CommonInv, PlainFits, JoinEnd, ThreadGoes
  <2>2. /\ DOMAIN thread' = DOMAIN thread /\ thread'[call[c].target].pc = "joined"
        /\ \A u \in DOMAIN thread \ {call[c].target} : thread'[u] = thread[u]
    BY <1>2, <2>1, ThreadGoesOn
  <2> QED  BY <1>2, <2>2 DEF JoinEnd, owned, Lives, Past
<1>3. CASE JoinEnd(c) /\ call[c].target \notin DOMAIN thread
  BY <1>3 DEF JoinEnd, owned, Lives
<1> QED  BY <1>1, <1>2, <1>3

\* A join while calls are in turn
LEMMA TurnJoins ==
    ASSUME NEW P, Past \subseteq P, CommonInv, Turns(P),
           NEW c \in Callers, JoinBegin(c) \/ JoinEnd(c)
    PROVE  Turns(P)'
<1>0. /\ call = [d \in Callers |-> call[d]] /\ Joins(c)
      /\ \A d \in Callers \ {c} : Idle(d)
  BY DEF CommonInv, CallsFit, JoinBegin, JoinEnd, Joins, Turns, OneCaller, Idle
<1>1. /\ DOMAIN thread' = DOMAIN thread /\ UNCHANGED <<tid, state>>
      /\ state' = "IDLE" => state = "IDLE"
      /\ \A t \in DOMAIN thread : Lives(P, t)' => Lives(P, t)
  BY JoinsEnd
<1>2. AfterJoin(call[c]).pc \in {"idle", "check", "lost"}
  <2>1. CallRecord(call[c])
    BY DEF CommonInv, CallsFit, CallFits, CallRecord
  <2>2. [call[c] EXCEPT !.pc = "lost"].pc = "lost" /\ [call[c] EXCEPT !.pc = "check"].pc = "check"
    BY <2>1, CallPc
  <2> QED  BY <2>2 DEF AfterJoin, NoCall
<1>3. CASE call' = [call EXCEPT ![c] = AfterJoin(@)] /\ \A t \in DOMAIN thread : ~Lives(P, t)'
  <2>1. call'[c] = AfterJoin(call[c]) /\ \A d \in Callers \ {c} : call'[d] = call[d]
    BY <1>0, <1>3
  <2>2. \A d \in Callers : /\ Idle(d) => Idle(d)'
                           /\ call'[d].pc = "joining" => call'[d].target = tid
    BY <1>0, <1>2, <2>1 DEF Idle, Joins
  <2> QED  BY <1>1, <1>3, <2>2, TurnGoesOn
<1>4. CASE JoinEnd(c)
  <2>1. call[c].target = tid /\ thread[tid].pc = "done"
    BY <1>4 DEF JoinEnd, Turns
  <2>2. \A t \in DOMAIN thread : ~Lives(P, t)'
    BY <1>4, <2>1 DEF JoinEnd, Turns, Lives, Past
  <2> QED  BY <1>3, <1>4, <2>2 DEF JoinEnd
<1>5. CASE JoinBegin(c) /\ ~Joinable(tid)
  <2>1. \A t \in DOMAIN thread : ~Lives(P, t)
    BY <1>0, <1>5 DEF Joinable, Turns, Lives, Past, Idle, JoinBegin
  <2>2. UNCHANGED thread
    BY <1>5 DEF JoinBegin
  <2>3. CASE UNCHANGED call
    <3>1. \A d \in Callers : /\ Idle(d) => Idle(d)'
                             /\ Joins(d) => Joins(d)' \/ \A t \in DOMAIN thread : ~Lives(P, t)'
                             /\ call'[d].pc = "joining" => call'[d].target = tid
      BY <2>3 DEF Idle, Joins, Turns
    <3> QED  BY <1>1, <3>1, TurnGoesOn
  <2>4. CASE call' = [call EXCEPT ![c] = AfterJoin(@)]
    BY <1>3, <2>1, <2>2, <2>4 DEF Lives
  <2> QED  BY <1>5, <2>3, <2>4 DEF JoinBegin
<1>6. CASE JoinBegin(c) /\ Joinable(tid)
  <2>1. call' = [call EXCEPT ![c].pc = "joining", ![c].target = tid]
    BY <1>6 DEF JoinBegin
  <2>2. \A d \in Callers \ {c} : call'[d] = call[d]
    BY <1>0, <2>1
  <2>3. call'[c].pc = "joining" /\ call'[c].target = tid
    <3> DEFINE p == [call[c] EXCEPT !.pc = "joining"]
    <3>1. CallRecord(call[c])
      BY DEF CommonInv, CallsFit, CallFits, CallRecord
    <3>2. CallRecord(p) /\ p.pc = "joining"
      BY <3>1, CallPc
    <3>3. call'[c] = [p EXCEPT !.target = tid]
      BY <1>0, <2>1
    <3> HIDE DEF p
    <3> QED  BY <3>2, <3>3 DEF CallRecord
  <2>4. \A d \in Callers : /\ Idle(d) => Idle(d)'
                           /\ Joins(d) => Joins(d)' \/ \A t \in DOMAIN thread : ~Lives(P, t)'
                           /\ call'[d].pc = "joining" => call'[d].target = tid
    BY <1>0, <2>2, <2>3 DEF Idle, Joins
  <2> QED  BY <1>1, <2>4, TurnGoesOn
<1> QED  BY <1>4, <1>5, <1>6

\* A call that kicks when no other call is in progress
LEMMA TurnKick ==
    ASSUME NEW P, Past \subseteq P, CommonInv, Turns(P),
           NEW c \in Callers, NEW k, Kick(c, k), UNCHANGED <<thread, tid>>,
           \A d \in Callers \ {c} : Idle(d), ~Joins(c)
    PROVE  Turns(P)'
<1>1. call = [d \in Callers |-> call[d]]
  BY DEF CommonInv, CallsFit
<1>2. call' = [call EXCEPT ![c] = Kicked(k)]
  BY DEF Kick
<1>3. Kicked(k).pc # "joining" /\ (state # "IDLE" => Kicked(k).pc = "join")
  BY DEF Kicked
<1> HIDE DEF Kicked
<1> QED  BY <1>1, <1>2, <1>3, TurnKicks

\* A call goes on that does not join.
LEMMA TurnMoves ==
    ASSUME NEW P, Past \subseteq P, CommonInv, Turns(P),
           NEW c \in Callers, NEW k, call' = [call EXCEPT ![c] = k],
           ~Idle(c), ~Joins(c), k.pc # "joining", UNCHANGED <<thread, tid, state>>
    PROVE  Turns(P)'
<1>1. call'[c] = k /\ \A d \in Callers \ {c} : call'[d] = call[d]
  BY DEF CommonInv, CallsFit
<1>2. \A d \in Callers : /\ Idle(d) => Idle(d)'
                         /\ Joins(d) => Joins(d)' \/ \A t \in DOMAIN thread : ~Lives(P, t)'
                         /\ call'[d].pc = "joining" => call'[d].target = tid
  BY <1>1 DEF Idle, Joins, Turns
<1>3. \A t \in DOMAIN thread : Lives(P, t)' => Lives(P, t)
  BY DEF Lives
<1> QED  BY <1>2, <1>3, TurnGoesOn

\* The steps of the calls that the platforms share
LEMMA TurnCalls ==
    ASSUME NEW P, Past \subseteq P, CommonInv, Turns(P),
           NEW c \in Callers,
           \/ SetupRefused(c) \/ SetupResync(c) \/ SetupReturn(c) \/ SetupFail(c)
           \/ TellLost(c) \/ ForceReturn(c) \/ SetupGranted(c) \/ ForceRetry(c)
    PROVE  Turns(P)'
<1>0. CallRecord(call[c]) /\ call = [d \in Callers |-> call[d]]
  BY DEF CommonInv, CallsFit, CallFits, CallRecord
<1>1. /\ ~Idle(c) /\ ~Joins(c)
  BY DEF SetupRefused, SetupResync, SetupReturn, SetupFail, TellLost, ForceReturn, SetupGranted,
         ForceRetry, Idle, Joins
<1>2. \A d \in Callers \ {c} : Idle(d)
  BY <1>1 DEF Turns, OneCaller
<1>3. CASE SetupReturn(c) \/ SetupFail(c) \/ ForceReturn(c)
  <2>1. /\ call' = [call EXCEPT ![c] = NoCall] /\ NoCall.pc # "joining"
        /\ UNCHANGED <<thread, tid, state>>
    BY <1>3 DEF SetupReturn, SetupFail, ForceReturn, Return, NoCall, owned
  <2> HIDE DEF NoCall
  <2> QED  BY <1>1, <2>1, TurnMoves
<1>4. ASSUME NEW pc, pc # "joining", Goto(c, pc), UNCHANGED <<thread, tid, state>>
      PROVE  Turns(P)'
  <2> DEFINE k == [call[c] EXCEPT !.pc = pc]
  <2>1. call' = [call EXCEPT ![c] = k]
    BY <1>4 DEF Goto
  <2>2. k.pc = pc
    BY <1>0, CallPc
  <2> HIDE DEF k
  <2> QED  BY <1>1, <1>4, <2>1, <2>2, TurnMoves
<1>5. CASE SetupRefused(c) \/ SetupResync(c) \/ TellLost(c)
  BY <1>4, <1>5 DEF SetupRefused, SetupResync, TellLost, owned
<1>6. CASE SetupGranted(c)
  <2> DEFINE p == [call[c] EXCEPT !.pc = "resync"]
             k == [p EXCEPT !.token = next + 1]
  <2>1. call' = [call EXCEPT ![c] = k]
    BY <1>6 DEF SetupGranted
  <2>2. CallRecord(p) /\ p.pc = "resync"
    BY <1>0, CallPc
  <2> HIDE DEF p
  <2>3. k.pc # "joining"
    BY <2>2 DEF CallRecord
  <2> HIDE DEF k
  <2>4. state = "IDLE" /\ state' # "IDLE"
    BY <1>6 DEF SetupGranted, CommonInv, KicksBehind, StillCurrent, Behind
  <2>5. next \in Nat /\ DOMAIN thread \subseteq 1..next
    BY DEF CommonInv, PlainFits
  <2> DEFINE t == next + 1
  <2>6. /\ tid' = t /\ DOMAIN thread' = DOMAIN thread \union {t}
        /\ \A u \in DOMAIN thread \ {t} : thread'[u] = thread[u]
    BY <1>6, <2>5 DEF SetupGranted
  <2> HIDE DEF t
  <2> QED  BY <1>0, <1>1, <2>1, <2>3, <2>4, <2>6, TurnGrants
<1>7. CASE ForceRetry(c)
  BY <1>1, <1>2, <1>7, TurnKick DEF ForceRetry
<1> QED  BY <1>3, <1>5, <1>6, <1>7

\* The steps that enter the plugin when no call is in progress
LEMMA TurnEnters ==
    ASSUME NEW P, Past \subseteq P, CommonInv, Turns(P),
           \A d \in Callers : Idle(d), NEW c \in Callers,
           SetupEnter(c) \/ ForceEnter(c) \/ \E t \in Knows(c) : Teardown(c, t)
    PROVE  Turns(P)'
<1>1. ~Joins(c) /\ call = [d \in Callers |-> call[d]]
  BY DEF Joins, Idle, CommonInv, CallsFit
<1>2. ASSUME NEW k, Kick(c, k), UNCHANGED <<thread, tid>>
      PROVE  Turns(P)'
  BY <1>1, <1>2, TurnKick
<1>3. CASE SetupEnter(c) \/ ForceEnter(c)
  BY <1>2, <1>3 DEF SetupEnter, ForceEnter
<1>4. ASSUME NEW t, Teardown(c, t)
      PROVE  Turns(P)'
  <2> DEFINE p == [NoCall EXCEPT !.op = "teardown"]
             k == [p EXCEPT !.pc = "join"]
  <2>1. call' = [call EXCEPT ![c] = k] /\ UNCHANGED <<thread, tid>>
    BY <1>4 DEF Teardown
  <2>4. CallRecord(NoCall)
    BY DEF CallRecord, NoCall
  <2>2. CallRecord(p)
    BY <2>4, CallOp
  <2> HIDE DEF p
  <2>3. k.pc = "join"
    BY <2>2, CallPc
  <2> HIDE DEF k
  <2> QED  BY <1>1, <2>1, <2>3, TurnKicks
<1> QED  BY <1>3, <1>4

\* Start and stop, and the steps of the threads
LEMMA TurnThreads ==
    ASSUME NEW P, Past \subseteq P, Turns(P),
           UNCHANGED <<call, tid>>, DOMAIN thread' = DOMAIN thread,
           state' = "IDLE" => state = "IDLE", \A t \in DOMAIN thread : Lives(P, t)' => Lives(P, t)
    PROVE  Turns(P)'
<1>1. \A d \in Callers : /\ Idle(d) => Idle(d)'
                         /\ Joins(d) => Joins(d)' \/ \A t \in DOMAIN thread : ~Lives(P, t)'
                         /\ call'[d].pc = "joining" => call'[d].target = tid
  BY DEF Idle, Joins, Turns
<1> QED  BY <1>1, TurnGoesOn

-----------------------------------------------------------------------------
(***************************************************************************)
(* The capture output                                                      *)
(***************************************************************************)

\* There is a file while the owner plays, and it is the owner's.
FileFits ==
    /\ fault # "null" => (dev # None <=> state = "RUNNING")
    /\ dev # None => state = "RUNNING" /\ dev = current
    /\ open = {dev} \ {None}

CaptureInv ==
    /\ CommonInv /\ LossesReported /\ FileFits
    /\ ~overlap => InTurn

\* What the thread writes to is its own owner's file.
LEMMA CaptureFollows ==
    ASSUME CaptureInv
    PROVE  LossesReported /\ FileIsTheOwners /\ PlaysOwnStream
<1>1. ASSUME NEW t \in DOMAIN thread, thread[t].pc = "write", dev # None, ~overlap
      PROVE  dev = t
  BY <1>1 DEF CaptureInv, CommonInv, PlainFits, FileFits, InTurn, Turns, Live, Lives, Past
<1> QED  BY <1>1 DEF CaptureInv, CommonInv, StreamFits, FileFits, FileIsTheOwners

\* A period and the delay, as they are counted by the platforms
LEMMA CountdownSteps ==
    ASSUME CommonInv, NEW t \in DOMAIN thread, NEW pc, Countdown(t, pc)
    PROVE  /\ SetupsKept /\ ThreadsKept /\ remaining' \in Nat
           /\ ThreadGoes(t, pc) \/ UNCHANGED thread
           /\ UNCHANGED req \/ (setupCb # None /\ remaining = 1 /\ req' = Answered(setupCb, t))
<1>1. remaining \in Nat /\ setupCb \in DOMAIN req \union {None} /\ DOMAIN thread \subseteq Int
  BY DEF CommonInv, PlainFits
<1>2. CASE remaining # 1
  BY <1>1, <1>2, NothingTold, ThreadGoesKept DEF Countdown
<1>3. CASE remaining = 1 /\ setupCb = None
  BY <1>1, <1>3, NothingTold, ThreadsAsTheyWere DEF Countdown
<1>4. CASE remaining = 1 /\ setupCb # None
  <2>1. setupCb \in DOMAIN req /\ t \in Int /\ req' = Answered(setupCb, t)
    BY <1>1, <1>4 DEF Countdown
  <2>2. SetupsKept
    BY <2>1, AnswerKept
  <2> QED  BY <1>1, <1>4, <2>1, <2>2, ThreadGoesKept DEF Countdown
<1> QED  BY <1>2, <1>3, <1>4

\* A thread takes a stream that is its own, or none.
LEMMA StreamPlayed ==
    ASSUME CommonInv, NEW t \in DOMAIN thread, NEW pc, NEW u \in {None, t},
           thread' = [thread EXCEPT ![t].pc = pc, ![t].stream = u]
    PROVE  /\ ThreadsKept
           /\ thread'[t].pc = pc /\ thread'[t].stream = u /\ thread'[t].left = thread[t].left
           /\ \A v \in DOMAIN thread \ {t} : thread'[v] = thread[v]
<1>1. \A v \in DOMAIN thread : /\ {"pc", "stream", "left"} \subseteq DOMAIN thread[v]
                               /\ thread[v].stream \in {None, v}
  BY DEF CommonInv, PlainFits, StreamFits, PlaysOwnStream
<1> DEFINE p == [thread[t] EXCEPT !.pc = pc]
           k == [p EXCEPT !.stream = u]
<1>3. thread' = [thread EXCEPT ![t] = k]
  OBVIOUS
<1>4. p.pc = pc /\ {"pc", "stream", "left"} \subseteq DOMAIN p /\ p.left = thread[t].left
  BY <1>1
<1> HIDE DEF p
<1>5. k.pc = pc /\ k.stream = u /\ {"pc", "stream", "left"} \subseteq DOMAIN k
      /\ k.left = thread[t].left
  BY <1>4
<1> HIDE DEF k
<1> QED  BY <1>1, <1>3, <1>5 DEF ThreadsKept

\* The stream of the plugin is the one of the thread that is current.
LEMMA StreamTaken ==
    ASSUME CommonInv, NEW t \in DOMAIN thread, current = t, NEW pc, NEW u \in {None, stream},
           thread' = [thread EXCEPT ![t].pc = pc, ![t].stream = u]
    PROVE  /\ ThreadsKept
           /\ thread'[t].pc = pc /\ thread'[t].stream = u /\ thread'[t].left = thread[t].left
           /\ \A v \in DOMAIN thread \ {t} : thread'[v] = thread[v]
<1>1. u \in {None, t}
  BY DEF CommonInv, PlainFits, StreamFits, PlaysOwnStream
<1> QED  BY <1>1, StreamPlayed, ZenonT(60)

\* The two together
LEMMA SilentStep ==
    ASSUME CommonInv, Silent
    PROVE  CommonInv' /\ (LossesReported => LossesReported')
<1>1. Quiet
  BY DEF Silent
<1>2. CommonInv'
  BY <1>1, QuietCommon
<1>3. LossesReported => LossesReported'
  BY QuietLosses
<1> QED  BY <1>2, <1>3

\* The steps of a call that the platforms share
LEMMA SharedSteps ==
    ASSUME CommonInv, NEW c \in Callers,
           \/ c \in Sessions /\ SetupEnter(c)
           \/ c \in Sessions /\ \E t \in Knows(c) : Teardown(c, t) \/ Start(c, t) \/ Stop(c, t)
           \/ SetupRefused(c) \/ SetupGranted(c) \/ SetupResync(c) \/ SetupReturn(c) \/ SetupFail(c)
           \/ ForceEnter(c) \/ ForceRetry(c) \/ ForceReturn(c)
           \/ JoinBegin(c) \/ SelfJoin(c) \/ JoinEnd(c) \/ TellLost(c)
    PROVE  CommonInv' /\ (LossesReported => LossesReported')
<1>1. CASE c \in Sessions /\ SetupEnter(c)
  <2>1. PICK e : KickOf(c, NewCall("setup", Len(req) + 1), e)
    BY <1>1, SetupKicksOff
  <2>2. ThreadsKept /\ UNCHANGED <<stream, tid, remaining>> /\ setupCb' \in {setupCb, None}
    BY <1>1, ThreadsAsTheyWere DEF SetupEnter
  <2> HIDE DEF KickOf, NewCall
  <2> QED  BY <2>1, <2>2, KickOfCommon
<1>2. CASE ForceEnter(c) \/ ForceRetry(c)
  <2>1. PICK k, e : KickOf(c, k, e)
    BY <1>2, ForceKicksOff
  <2>2. ThreadsKept /\ UNCHANGED <<stream, tid, remaining>> /\ setupCb' \in {setupCb, None}
    BY <1>2, ThreadsAsTheyWere DEF ForceEnter, ForceRetry
  <2> HIDE DEF KickOf
  <2> QED  BY <2>1, <2>2, KickOfCommon
<1>3. CASE SetupGranted(c)
  <2>1. PICK k : Grants(c, next + 1, k)
    BY <1>3, SetupGrantedGrants
  <2>2. lostCb' = call[c].req /\ state' # "IDLE"
    BY <1>3, SetupGrantedGrants
  <2> HIDE DEF Grants
  <2>3. CommonInv'
    BY <2>1, GrantsCommon
  <2>4. LossesReported => LossesReported'
    BY <2>1, <2>2, GrantsLosses
  <2> QED  BY <2>3, <2>4
<1>4. ASSUME NEW t, c \in Sessions, Teardown(c, t)
      PROVE  CommonInv' /\ (LossesReported => LossesReported')
  <2>1. Yields(c, t)
    BY <1>4, TeardownYields
  <2> HIDE DEF Yields
  <2> QED  BY <2>1, YieldsCommon, YieldsLosses
<1>5. CASE SetupRefused(c) \/ SetupResync(c) \/ SetupReturn(c) \/ SetupFail(c) \/ TellLost(c)
           \/ ForceReturn(c) \/ JoinBegin(c) \/ SelfJoin(c) \/ JoinEnd(c)
  <2>1. Silent
    BY <1>5, EndsAreSilent, ReturnsAreSilent, JoinsAreSilent, JoinEndIsSilent
  <2> QED  BY <2>1, SilentStep
<1>6. ASSUME NEW t, c \in Sessions, Start(c, t) \/ Stop(c, t)
      PROVE  CommonInv' /\ (LossesReported => LossesReported')
  <2>1. Silent
    BY <1>6, PlaysAreSilent
  <2> QED  BY <2>1, SilentStep
<1> QED  BY <1>1, <1>2, <1>3, <1>4, <1>5, <1>6

\* The same for one setup, and for the steps that grant nothing
LEMMA SharedLoss ==
    ASSUME CommonInv, NEW c \in Callers,
           \/ c \in Sessions /\ SetupEnter(c)
           \/ c \in Sessions /\ \E t \in Knows(c) : Teardown(c, t) \/ Start(c, t) \/ Stop(c, t)
           \/ SetupRefused(c) \/ SetupFail(c)
           \/ ForceEnter(c) \/ ForceRetry(c) \/ ForceReturn(c)
           \/ JoinBegin(c) \/ JoinEnd(c) \/ TellLost(c),
           NEW r \in DOMAIN req
    PROVE  /\ r \in DOMAIN req' /\ req'[r].token = req[r].token
           /\ LossReported(r) => LossReported(r)'
           /\ \A q \in DOMAIN req' \ DOMAIN req : req'[q].token = None
<1>1. ASSUME NEW k, NEW e, KickOf(c, k, e), ThreadsKept, UNCHANGED <<stream, tid, remaining, setupCb>>
      PROVE  /\ r \in DOMAIN req' /\ req'[r].token = req[r].token
             /\ LossReported(r) => LossReported(r)'
             /\ \A q \in DOMAIN req' \ DOMAIN req : req'[q].token = None
  <2>1. Kicks(c, e) /\ e.lost = IF state = "IDLE" THEN call[c].lost ELSE lostCb
    BY <1>1, KickOfKicks
  <2> HIDE DEF Kicks
  <2>2. /\ r \in DOMAIN req' /\ req'[r].token = req[r].token
        /\ \A q \in DOMAIN req' \ DOMAIN req : req'[q].token = None
    BY <2>1, KicksRecords DEF FreshSetup
  <2> QED  BY <2>1, <2>2, KicksLoss
<1>2. CASE c \in Sessions /\ SetupEnter(c)
  <2>1. PICK e : KickOf(c, NewCall("setup", Len(req) + 1), e)
    BY <1>2, SetupKicksOff
  <2>2. ThreadsKept /\ UNCHANGED <<stream, tid, remaining, setupCb>>
    BY <1>2, ThreadsAsTheyWere DEF SetupEnter
  <2> HIDE DEF KickOf, NewCall
  <2> QED  BY <1>1, <2>1, <2>2
<1>3. CASE ForceEnter(c) \/ ForceRetry(c)
  <2>1. PICK k, e : KickOf(c, k, e)
    BY <1>3, ForceKicksOff
  <2>2. ThreadsKept /\ UNCHANGED <<stream, tid, remaining, setupCb>>
    BY <1>3, ThreadsAsTheyWere DEF ForceEnter, ForceRetry
  <2> HIDE DEF KickOf
  <2> QED  BY <1>1, <2>1, <2>2
<1>4. ASSUME NEW t, c \in Sessions, Teardown(c, t)
      PROVE  /\ r \in DOMAIN req' /\ req'[r].token = req[r].token
             /\ LossReported(r) => LossReported(r)'
             /\ \A q \in DOMAIN req' \ DOMAIN req : req'[q].token = None
  <2>1. Yields(c, t)
    BY <1>4, TeardownYields
  <2>2. DOMAIN req' = DOMAIN req /\ req'[r].token = req[r].token
    BY <2>1, SetupsTornDown DEF Yields, CommonInv, PlainFits
  <2> HIDE DEF Yields
  <2> QED  BY <2>1, <2>2, YieldsLoss
<1>5. CASE Silent
  <2>1. DOMAIN req' = DOMAIN req /\ req'[r].token = req[r].token
    BY <1>5 DEF Silent, Quiet, SetupsKept
  <2> QED  BY <1>5, <2>1, QuietLoss
<1>6. CASE SetupRefused(c) \/ SetupFail(c) \/ TellLost(c) \/ ForceReturn(c) \/ JoinBegin(c) \/ JoinEnd(c)
  BY <1>5, <1>6, EndsAreSilent, ReturnsAreSilent, JoinsAreSilent, JoinEndIsSilent
<1>7. ASSUME NEW t, c \in Sessions, Start(c, t) \/ Stop(c, t)
      PROVE  /\ r \in DOMAIN req' /\ req'[r].token = req[r].token
             /\ LossReported(r) => LossReported(r)'
             /\ \A q \in DOMAIN req' \ DOMAIN req : req'[q].token = None
  BY <1>5, <1>7, PlaysAreSilent
<1> QED  BY <1>2, <1>3, <1>4, <1>6, <1>7

\* A step of a hardware thread
LEMMA ThreadsAreSilent ==
    ASSUME CommonInv, ThreadsKept, UNCHANGED <<current, next, state, lostCb, stream, tid, call>>,
           SetupsKept, remaining' \in Nat, setupCb' \in DOMAIN req \union {None}
    PROVE  Silent
BY DEF Silent, Quiet, CallsKept, StreamKept, CommonInv, PlainFits

\* The capture file's first state
LEMMA CaptureInit ==
    ASSUME PlatformInit
    PROVE  CaptureInv
<1>1. CommonInv /\ LossesReported
  BY CommonInit DEF PlatformInit
<1>2. FileFits /\ InTurn
  BY DEF PlatformInit, Init, FileFits, InTurn, Turns, OneCaller, Idle, NoCall
<1> QED  BY <1>1, <1>2 DEF CaptureInv

\* Steps of the capture thread
LEMMA CaptureThreads ==
    ASSUME CaptureInv, NEW t \in DOMAIN thread, CaptureThread(t)
    PROVE  /\ Silent /\ UNCHANGED <<call, tid, state, current, dev, open, overlap>>
           /\ DOMAIN thread' = DOMAIN thread /\ \A u \in DOMAIN thread : Live(u)' => Live(u)
<1>0. /\ CommonInv /\ remaining \in Nat /\ setupCb \in DOMAIN req \union {None}
      /\ {"pc", "stream", "left"} \subseteq DOMAIN thread[t]
  BY DEF CaptureInv, CommonInv, PlainFits
<1>1. Live(t)
  BY DEF CaptureThread, CaptureBegin, CapturePeriod, CapturePlay, CaptureWrite, ThreadBegin, Live, Lives, Past
<1>2. ASSUME NEW pc, ThreadGoes(t, pc)
      PROVE  /\ ThreadsKept /\ DOMAIN thread' = DOMAIN thread
             /\ \A u \in DOMAIN thread : Live(u)' => Live(u)
  <2>1. \A u \in DOMAIN thread \ {t} : thread'[u] = thread[u]
    BY <1>0, <1>2, ThreadGoesOn
  <2>2. ThreadsKept
    BY <1>0, <1>2, ThreadGoesKept
  <2> QED  BY <1>1, <2>1, <2>2 DEF Live, Lives, Past, ThreadsKept
<1>3. CASE CaptureBegin(t) \/ CaptureWrite(t)
  <2>1. ThreadGoes(t, "loop") \/ ThreadGoes(t, "done")
    BY <1>3 DEF CaptureBegin, ThreadBegin, CaptureWrite, ThreadGoes
  <2>2. SetupsKept
    BY <1>0, <1>3, NothingTold DEF CaptureBegin, ThreadBegin, CaptureWrite
  <2>3. UNCHANGED <<current, next, state, lostCb, stream, tid, call, remaining, setupCb, dev, open,
                    overlap>>
    BY <1>3 DEF CaptureBegin, ThreadBegin, CaptureWrite, owned, platform, deviceVars, history
  <2>4. ThreadsKept /\ DOMAIN thread' = DOMAIN thread
        /\ \A u \in DOMAIN thread : Live(u)' => Live(u)
    BY <1>2, <2>1
  <2> QED  BY <1>0, <2>2, <2>3, <2>4, ThreadsAreSilent
<1>4. CASE CapturePeriod(t)
  <2>1. SetupsKept
    BY <1>0, <1>4, NothingTold DEF CapturePeriod
  <2>2. UNCHANGED <<current, next, state, lostCb, stream, tid, call, remaining, setupCb, dev, open,
                    overlap>>
    BY <1>4 DEF CapturePeriod, platform, deviceVars, history
  <2>3. ThreadsKept /\ DOMAIN thread' = DOMAIN thread
        /\ \A u \in DOMAIN thread : Live(u)' => Live(u)
    <3>1. CASE ThreadGoes(t, "done") \/ ThreadGoes(t, "play")
      BY <1>2, <3>1
    <3>2. CASE current = t /\ thread' = [thread EXCEPT ![t].pc = "play", ![t].stream = stream]
      <4>1. ThreadsKept /\ \A v \in DOMAIN thread \ {t} : thread'[v] = thread[v]
        BY <1>0, <3>2, StreamTaken
      <4> QED  BY <1>1, <4>1 DEF ThreadsKept, Live, Lives, Past
    <3> QED  BY <1>4, <3>1, <3>2 DEF CapturePeriod, TokenCurrent
  <2> QED  BY <1>0, <2>1, <2>2, <2>3, ThreadsAreSilent
<1>5. CASE CapturePlay(t)
  <2>1. /\ SetupsKept /\ ThreadsKept /\ remaining' \in Nat
        /\ ThreadGoes(t, "write") \/ UNCHANGED thread
    BY <1>0, <1>5, CountdownSteps DEF CapturePlay
  <2>2. UNCHANGED <<current, next, state, lostCb, stream, tid, call, setupCb, dev, open, overlap>>
    BY <1>5 DEF CapturePlay, owned, platform, deviceVars, history
  <2>3. DOMAIN thread' = DOMAIN thread /\ \A u \in DOMAIN thread : Live(u)' => Live(u)
    BY <1>2, <2>1 DEF Live, Lives, Past
  <2> QED  BY <1>0, <2>1, <2>2, <2>3, ThreadsAreSilent
<1> QED  BY <1>3, <1>4, <1>5 DEF CaptureThread

\* A file that is opened or closed by a call
LEMMA CaptureFiles ==
    ASSUME CaptureInv, CaptureNext
    PROVE  FileFits'
<1>0. /\ fault = "none" /\ FileFits /\ (dev # None <=> state = "RUNNING")
      /\ open = {dev} \ {None} /\ (dev # None => dev = current)
  BY DEF CaptureNext, CaptureInv, FileFits
<1>1. ASSUME dev' = None, open' = open \ {dev} \/ UNCHANGED <<dev, open>>, state' # "RUNNING"
      PROVE  FileFits'
  BY <1>0, <1>1 DEF FileFits
<1>2. ASSUME UNCHANGED <<dev, open, current, state>>
      PROVE  FileFits'
  BY <1>0, <1>2 DEF FileFits
<1>3. ASSUME KicksFile, state' = "IDLE"
      PROVE  FileFits'
  BY <1>0, <1>1, <1>3 DEF KicksFile, CloseFile
<1>4. ASSUME NEW s \in Sessions, CaptureSession(s)
      PROVE  FileFits'
  <2>1. CASE CaptureSetupEnter(s)
    BY <1>3, <2>1 DEF CaptureSetupEnter, SetupEnter, Kick
  <2>2. CASE CaptureSetupRest(s)
    <3>1. CASE SetupGranted(s)
      <4>1. state = "IDLE" /\ s \in Callers
        BY <3>1 DEF SetupGranted, CaptureInv, CommonInv, KicksBehind, StillCurrent, Behind, Callers
      <4>2. UNCHANGED <<dev, open>> /\ state' = "STOPPED"
        BY <2>2, <3>1 DEF CaptureSetupRest, SetupGranted, platform, deviceVars
      <4> QED  BY <1>0, <1>1, <4>1, <4>2
    <3>2. CASE SetupRefused(s) \/ SetupResync(s) \/ SetupReturn(s) \/ SetupFail(s)
      <4>1. UNCHANGED <<dev, open, current, state>>
        BY <2>2, <3>2 DEF CaptureSetupRest, SetupRefused, SetupResync, SetupReturn, SetupFail,
                          platform, deviceVars, owned
      <4> QED  BY <1>2, <4>1
    <3> QED  BY <2>2, <3>1, <3>2 DEF CaptureSetupRest
  <2>3. ASSUME NEW t \in Knows(s), CaptureTeardown(s, t) \/ CaptureStop(s, t)
        PROVE  FileFits'
    BY <1>1, <2>3 DEF CaptureTeardown, CaptureStop, Teardown, Vacate, Stop, CloseFile
  <2>4. ASSUME NEW t \in Knows(s), CaptureStart(s, t)
        PROVE  FileFits'
    <3>1. current = t /\ t # None /\ state = "STOPPED" /\ state' = "RUNNING" /\ current' = current
      BY <2>4 DEF CaptureStart, CaptureInv, CommonInv, PlainFits
    <3>2. \/ dev' = t /\ open' = (open \ {dev}) \union {t}
          \/ fault' = "null" /\ UNCHANGED <<dev, open>>
      BY <2>4 DEF CaptureStart
    <3> QED  BY <1>0, <3>1, <3>2 DEF FileFits
  <2> QED  BY <1>4, <2>1, <2>2, <2>3, <2>4 DEF CaptureSession
<1>5. ASSUME NEW o \in Others,
             CaptureForceEnter(o) \/ CaptureForceRetry(o) \/ CaptureForceReturn(o)
      PROVE  FileFits'
  <2>1. CASE CaptureForceEnter(o) \/ CaptureForceRetry(o)
    BY <1>3, <2>1 DEF CaptureForceEnter, CaptureForceRetry, ForceEnter, ForceRetry, Kick
  <2>2. CASE CaptureForceReturn(o)
    BY <1>2, <2>2 DEF CaptureForceReturn, ForceReturn, platform, deviceVars
  <2> QED  BY <1>5, <2>1, <2>2
<1>6. ASSUME NEW c \in Callers, CaptureJoin(c) \/ CaptureTell(c)
      PROVE  FileFits'
  BY <1>2, <1>6 DEF CaptureJoin, CaptureTell, JoinBegin, JoinEnd, TellLost, platform, deviceVars,
                    owned
<1>7. ASSUME NEW t \in DOMAIN thread, CaptureThread(t)
      PROVE  FileFits'
  BY <1>2, <1>7, CaptureThreads
<1> QED  BY <1>4, <1>5, <1>6, <1>7 DEF CaptureNext

\* Each of its steps
LEMMA CaptureStep ==
    ASSUME CaptureInv, CaptureNext
    PROVE  CaptureInv'
<1>0. CommonInv /\ LossesReported /\ (~overlap => InTurn)
  BY DEF CaptureInv
<1>1. FileFits'
  BY CaptureFiles
<1>2. ASSUME CommonInv' /\ (LossesReported => LossesReported'), ~overlap' => InTurn'
      PROVE  CaptureInv'
  BY <1>0, <1>1, <1>2 DEF CaptureInv
<1>3. ASSUME NEW c \in Callers,
             SetupEnter(c) \/ ForceEnter(c) \/ (\E t \in Knows(c) : Teardown(c, t)),
             NowOverlapping
      PROVE  ~overlap' => InTurn'
  BY <1>0, <1>3, TurnEnters DEF NowOverlapping, InTurn
<1>4. ASSUME NEW c \in Callers,
           \/ SetupRefused(c) \/ SetupResync(c) \/ SetupReturn(c) \/ SetupFail(c)
           \/ TellLost(c) \/ ForceReturn(c) \/ SetupGranted(c) \/ ForceRetry(c)
           \/ JoinBegin(c) \/ JoinEnd(c),
             UNCHANGED overlap
      PROVE  ~overlap' => InTurn'
  BY <1>0, <1>4, TurnCalls, TurnJoins DEF InTurn
<1>5. ASSUME NEW s \in Sessions, CaptureSession(s)
      PROVE  CaptureInv'
  <2>0. s \in Callers
    BY DEF Callers
  <2>1. CASE CaptureSetupEnter(s) \/ \E t \in Knows(s) : CaptureTeardown(s, t)
    <3>1. SetupEnter(s) \/ (\E t \in Knows(s) : Teardown(s, t))
      BY <2>1 DEF CaptureSetupEnter, CaptureTeardown
    <3>2. CommonInv' /\ (LossesReported => LossesReported')
      BY <1>0, <2>0, <3>1, SharedSteps
    <3>3. ~overlap' => InTurn'
      BY <1>3, <2>0, <2>1, <3>1 DEF CaptureSetupEnter, CaptureTeardown
    <3> QED  BY <1>2, <3>2, <3>3
  <2>2. CASE CaptureSetupRest(s)
    <3>1. CommonInv' /\ (LossesReported => LossesReported')
      BY <1>0, <2>0, <2>2, SharedSteps DEF CaptureSetupRest
    <3>2. ~overlap' => InTurn'
      BY <1>4, <2>0, <2>2 DEF CaptureSetupRest, platform, history
    <3> QED  BY <1>2, <3>1, <3>2
  <2>3. ASSUME NEW t \in Knows(s), CaptureStart(s, t) \/ CaptureStop(s, t)
        PROVE  CaptureInv'
    <3>1. /\ state # "IDLE" /\ state' # "IDLE" /\ UNCHANGED <<call, tid, thread, overlap>>
      BY <2>3 DEF CaptureStart, CaptureStop, Stop, history
    <3>2. ~overlap' => InTurn'
      BY <1>0, <3>1, TurnThreads DEF InTurn, Lives
    <3>3. Silent
      <4>1. CASE CaptureStop(s, t)
        BY <1>0, <4>1, PlaysAreSilent DEF CaptureStop
      <4>2. CASE CaptureStart(s, t)
        <5>1. SetupsKept /\ ThreadsKept
          BY <1>0, <4>2, NothingTold, ThreadsAsTheyWere DEF CaptureStart
        <5> QED  BY <1>0, <4>2, <5>1 DEF CaptureStart, Silent, Quiet, CallsKept, StreamKept, CommonInv,
                                        PlainFits
      <4> QED  BY <2>3, <4>1, <4>2
    <3> QED  BY <1>0, <1>2, <3>2, <3>3, SilentStep
  <2> QED  BY <1>5, <2>1, <2>2, <2>3 DEF CaptureSession
<1>6. ASSUME NEW o \in Others,
             CaptureForceEnter(o) \/ CaptureForceRetry(o) \/ CaptureForceReturn(o)
      PROVE  CaptureInv'
  <2>0. o \in Callers
    BY DEF Callers
  <2>1. CommonInv' /\ (LossesReported => LossesReported')
    BY <1>0, <1>6, <2>0, SharedSteps DEF CaptureForceEnter, CaptureForceRetry, CaptureForceReturn
  <2>2. CASE CaptureForceEnter(o)
    BY <1>2, <1>3, <2>0, <2>1, <2>2 DEF CaptureForceEnter
  <2>3. CASE CaptureForceRetry(o) \/ CaptureForceReturn(o)
    <3>1. ~overlap' => InTurn'
      BY <1>4, <2>0, <2>3 DEF CaptureForceRetry, CaptureForceReturn, platform, history
    <3> QED  BY <1>2, <2>1, <3>1
  <2> QED  BY <1>6, <2>2, <2>3
<1>7. ASSUME NEW c \in Callers, CaptureJoin(c) \/ CaptureTell(c)
      PROVE  CaptureInv'
  <2>1. CommonInv' /\ (LossesReported => LossesReported')
    BY <1>0, <1>7, SharedSteps DEF CaptureJoin, CaptureTell
  <2>2. ~overlap' => InTurn'
    BY <1>4, <1>7 DEF CaptureJoin, CaptureTell, platform, history
  <2> QED  BY <1>2, <2>1, <2>2
<1>8. ASSUME NEW t \in DOMAIN thread, CaptureThread(t)
      PROVE  CaptureInv'
  <2>1. /\ Silent /\ UNCHANGED <<call, tid, state, overlap>>
        /\ DOMAIN thread' = DOMAIN thread /\ \A u \in DOMAIN thread : Live(u)' => Live(u)
    BY <1>8, CaptureThreads
  <2>2. ~overlap' => InTurn'
    BY <1>0, <2>1, TurnThreads DEF InTurn, Live
  <2> QED  BY <1>0, <1>2, <2>1, <2>2, SilentStep
<1> QED  BY <1>5, <1>6, <1>7, <1>8 DEF CaptureNext

-----------------------------------------------------------------------------
(***************************************************************************)
(* The CoreAudio output                                                    *)
(***************************************************************************)

\* No call takes up another setup than its own in such a step.
LEMMA SilentCalls ==
    ASSUME CommonInv, CallsKept
    PROVE  \A d \in Callers : call'[d].req \in {None, call[d].req}
<1>1. call = [d \in Callers |-> call[d]]
  BY DEF CommonInv, CallsFit
<1> QED  BY <1>1 DEF CallsKept, CallKept

\* A unit that plays is the plugin's, and so is one that may be called with the current token.
UnitFits ==
    /\ UnitIsTheOwners
    /\ dev \in DOMAIN thread \union {None}
    /\ \A t \in DOMAIN thread : thread[t].pc = "play" => t = dev
    /\ \A t \in DOMAIN thread : t = current /\ thread[t].pc # "off" => t = dev

\* The setup callback that is to be called is the owner's, which was not answered; and a setup
\* that is in progress was not either.
AnswerFits ==
    /\ AnsweredToOwner
    /\ remaining > 0 => setupCb # None /\ req[setupCb].answers = 0
    /\ dev # None /\ thread[dev].pc # "off" => setupCb # None /\ req[setupCb].token = dev
    /\ \A c \in Callers : call[c].req # None =>
          /\ req[call[c].req].answers = 0 /\ req[call[c].req].told = {}
          /\ req[call[c].req].token = None /\ call[c].req # setupCb

CoreInv == CommonInv /\ LossesReported /\ UnitFits /\ AnswerFits

\* Nothing is answered, and no unit is made.
LEMMA AnswersStay ==
    ASSUME CommonInv, AnswerFits, DOMAIN req \subseteq DOMAIN req',
           \A r \in DOMAIN req : /\ req'[r].answers = req[r].answers /\ req'[r].told = req[r].told
                                 /\ req'[r].token = req[r].token,
           \A r \in DOMAIN req' \ DOMAIN req :
              req'[r].answers = 0 /\ req'[r].told = {} /\ req'[r].token = None,
           \A d \in Callers : call'[d].req \in {None, call[d].req} \union (DOMAIN req' \ DOMAIN req),
           UNCHANGED <<remaining, setupCb>>, fault' # "null",
           dev' # None /\ thread'[dev'].pc # "off" => dev' = dev /\ thread[dev].pc # "off"
    PROVE  AnswerFits'
<1>1. setupCb \in DOMAIN req \union {None} /\ \A d \in Callers : call[d].req \in DOMAIN req \union {None}
  BY DEF CommonInv, PlainFits, CallsFit, CallFits
<1>2. AnsweredToOwner'
  BY DEF AnswerFits, AnsweredToOwner
<1>3. ASSUME NEW d \in Callers, call'[d].req # None
      PROVE  /\ req'[call'[d].req].answers = 0 /\ req'[call'[d].req].told = {}
             /\ req'[call'[d].req].token = None /\ call'[d].req # setupCb'
  <2>1. CASE call'[d].req = call[d].req
    BY <1>1, <1>3, <2>1 DEF AnswerFits
  <2>2. CASE call'[d].req \in DOMAIN req' \ DOMAIN req
    <3>1. None \notin DOMAIN req'  \/ call'[d].req # None
      BY <1>3
    <3> QED  BY <1>1, <1>3, <2>2
  <2> QED  BY <1>3, <2>1, <2>2
<1>4. (remaining > 0 => setupCb # None /\ req[setupCb].answers = 0)'
  BY <1>1 DEF AnswerFits
<1>5. (dev # None /\ thread[dev].pc # "off" => setupCb # None /\ req[setupCb].token = dev)'
  BY <1>1 DEF AnswerFits
<1> QED  BY <1>2, <1>3, <1>4, <1>5 DEF AnswerFits

\* The unit is disposed of when its owner loses the output or gives it up.
LEMMA UnitDisposed ==
    ASSUME CoreInv, fault = "none", KicksUnit \/ DisposeUnit
    PROVE  /\ dev' = None /\ open' = {} /\ fault' # "null"
           /\ ThreadsKept
           /\ \A t \in DOMAIN thread : thread'[t].pc # "play"
<1>0. /\ UnitFits /\ CommonInv /\ open = {dev} \ {None} /\ (state = "IDLE" => dev = None)
      /\ \A t \in DOMAIN thread : {"pc", "stream", "left"} \subseteq DOMAIN thread[t]
      /\ None \notin DOMAIN thread
  BY DEF CoreInv, UnitFits, UnitIsTheOwners, CommonInv, PlainFits, None
<1>1. CASE dev = None /\ dev' = None /\ open' \in {open, open \ {dev}} /\ UNCHANGED <<thread, fault>>
  <2>1. ThreadsKept
    BY <1>0, <1>1, ThreadsAsTheyWere
  <2> QED  BY <1>0, <1>1, <2>1 DEF UnitFits, ThreadsKept
<1>2. CASE dev # None /\ DisposeUnit
  <2>1. dev \in DOMAIN thread /\ dev' = None /\ open' = {}
    BY <1>0, <1>2 DEF UnitFits, DisposeUnit
  <2>2. CASE thread[dev].pc \in {"called", "off"}
    <3>1. UNCHANGED thread /\ fault' # "null"
      BY <1>2, <2>2 DEF DisposeUnit
    <3>2. ThreadsKept
      BY <1>0, <3>1, ThreadsAsTheyWere
    <3> QED  BY <1>0, <2>1, <2>2, <3>1, <3>2 DEF UnitFits
  <2>3. CASE thread[dev].pc = "idle"
    <3>1. ThreadGoes(dev, "off") /\ fault' = fault
      BY <1>2, <2>3 DEF DisposeUnit
    <3>2. ThreadsKept
      BY <1>0, <3>1, ThreadGoesKept
    <3>3. thread'[dev].pc = "off" /\ \A t \in DOMAIN thread \ {dev} : thread'[t] = thread[t]
      BY <1>0, <2>1, <3>1, ThreadGoesOn
    <3> QED  BY <1>0, <2>1, <3>1, <3>2, <3>3 DEF UnitFits
  <2> QED  BY <1>2, <2>2, <2>3 DEF DisposeUnit
<1>3. CASE dev = None /\ DisposeUnit
  BY <1>1, <1>3 DEF DisposeUnit
<1>4. CASE KicksUnit
  BY <1>0, <1>1, <1>2, <1>3, <1>4 DEF KicksUnit
<1> QED  BY <1>2, <1>3, <1>4

\* A call of CoreAudio's kicks off the owner.
LEMMA CoreKicks ==
    ASSUME CoreInv, fault = "none", NEW c \in Callers, NEW k, NEW e, KickOf(c, k, e), KicksUnit,
           UNCHANGED <<stream, tid, remaining, setupCb>>
    PROVE  CoreInv'
<1>0. CommonInv /\ LossesReported /\ UnitFits /\ AnswerFits
  BY DEF CoreInv
<1>1. /\ dev' = None /\ open' = {} /\ fault' # "null" /\ ThreadsKept
      /\ \A t \in DOMAIN thread : thread'[t].pc # "play"
  BY UnitDisposed
<1> HIDE DEF KickOf
<1>2. CommonInv' /\ LossesReported'
  BY <1>0, <1>1, KickOfCommon
<1>3. Kicks(c, e)
  BY <1>0, <1>1, KickOfKicks
<1>4. UnitFits'
  <2>1. state' = "IDLE" /\ current' \notin DOMAIN thread /\ DOMAIN thread' = DOMAIN thread
    BY <1>0, <1>1, <1>3 DEF Kicks, CommonInv, PlainFits, ThreadsKept
  <2> QED  BY <1>1, <2>1 DEF UnitFits, UnitIsTheOwners
<1>5. AnswerFits'
  <2>1. /\ DOMAIN req \subseteq DOMAIN req'
        /\ \A r \in DOMAIN req : req'[r] = req[r]
        /\ \A r \in DOMAIN req' \ DOMAIN req :
              req'[r].answers = 0 /\ req'[r].told = {} /\ req'[r].token = None
        /\ \A d \in Callers \ {c} : call'[d] = call[d]
        /\ call'[c].req = call[c].req \/ call'[c].req \notin DOMAIN req
    BY <1>0, <1>3, KicksRecords DEF FreshSetup
  <2>2. call'[c].req \in DOMAIN req' \union {None}
    BY <1>2 DEF CommonInv, CallsFit, CallFits
  <2>3. \A d \in Callers : call'[d].req \in {None, call[d].req} \union (DOMAIN req' \ DOMAIN req)
    BY <2>1, <2>2
  <2> QED  BY <1>0, <1>1, <2>1, <2>3, AnswersStay
<1> QED  BY <1>2, <1>4, <1>5 DEF CoreInv

\* A step that answers nobody, and leaves the unit alone
LEMMA CoreSilent ==
    ASSUME CoreInv, Silent, \A r \in DOMAIN req : req'[r].answers = req[r].answers
                                                  /\ req'[r].told = req[r].told,
           UNCHANGED <<remaining, setupCb, dev, open>>, fault' # "null",
           dev # None => (thread'[dev].pc = "off" <=> thread[dev].pc = "off"),
           \A t \in DOMAIN thread : thread'[t].pc = "play" => t = dev,
           \A t \in DOMAIN thread : thread[t].pc = "off" => thread'[t].pc = "off"
    PROVE  CoreInv'
<1>0. CommonInv /\ LossesReported /\ UnitFits /\ AnswerFits /\ Quiet
  BY DEF CoreInv, Silent
<1>1. CommonInv' /\ LossesReported'
  BY <1>0, SilentStep
<1>2. UnitFits'
  <2>1. /\ DOMAIN thread' = DOMAIN thread /\ UNCHANGED current /\ (state' = "IDLE" => state = "IDLE")
    BY <1>0 DEF Quiet, ThreadsKept, Silent
  <2> QED  BY <1>0, <2>1 DEF UnitFits, UnitIsTheOwners
<1>3. AnswerFits'
  <2>1. /\ DOMAIN req' = DOMAIN req /\ DOMAIN req' \ DOMAIN req = {}
        /\ \A r \in DOMAIN req : req'[r].token = req[r].token
    BY <1>0 DEF Quiet, SetupsKept
  <2>2. \A d \in Callers : call'[d].req \in {None, call[d].req}
    BY <1>0, SilentCalls DEF Quiet
  <2>3. \A d \in Callers : call'[d].req \in {None, call[d].req} \union (DOMAIN req' \ DOMAIN req)
    BY <2>2
  <2>4. /\ \A r \in DOMAIN req : /\ req'[r].answers = req[r].answers /\ req'[r].told = req[r].told
                                 /\ req'[r].token = req[r].token
        /\ \A r \in DOMAIN req' \ DOMAIN req :
              req'[r].answers = 0 /\ req'[r].told = {} /\ req'[r].token = None
        /\ DOMAIN req \subseteq DOMAIN req'
    BY <2>1
  <2>5. dev' # None /\ thread'[dev'].pc # "off" => dev' = dev /\ thread[dev].pc # "off"
    OBVIOUS
  <2> QED  BY <1>0, <2>3, <2>4, <2>5, AnswersStay
<1> QED  BY <1>1, <1>2, <1>3 DEF CoreInv

\* CoreAudio's setup opens the device, and fails or not.
LEMMA CoreOpens ==
    ASSUME CoreInv, fault = "none", NEW c \in Callers, CoreSetupBroken(c) \/ CoreSetupGranted(c)
    PROVE  /\ \E k : Grants(c, next + 1, k)
           /\ CommonInv' /\ LossesReported'
<1>0. /\ CommonInv /\ LossesReported
      /\ CallFits(call[c], req, next) /\ next \in Nat \ {0} /\ remaining \in Nat
      /\ call[c].op = "setup" /\ call[c].pc = "check" /\ current = call[c].token
      /\ req \in Seq(SetupRecord) /\ None \notin DOMAIN req /\ ResyncBufs \in Nat
  BY SetupsTyped, BoundsAssumption
     DEF CoreSetupBroken, CoreSetupGranted, CoreSetupOpens, StillCurrent, CoreInv, CommonInv,
         CallsFit, PlainFits
<1> DEFINE t == next + 1
           r == call[c].req
<1>1. /\ next' = t /\ current' = t /\ tid' = t /\ state' = "STOPPED" /\ stream' = None
      /\ t \in Nat \ {0} /\ t <= next' /\ next' \in {next, next + 1} /\ t \in {current, next + 1}
  BY <1>0 DEF CoreSetupBroken, CoreSetupGranted, CoreSetupOpens
<1>2. state = "IDLE" /\ ~Tells(call[c]) /\ call[c].pc \in Behind
  BY <1>0 DEF CommonInv, KicksBehind, Behind, Tells
<1>3. \A d \in Callers \ {c} : call[d].pc \in Behind => call[d].token # t
  BY <1>0 DEF CommonInv, CallsFit, CallFits
<1>4. PICK pc : thread' = CallbackThread(t, pc)
  BY <1>1 DEF CoreSetupBroken, CoreSetupGranted
<1>5. /\ DOMAIN thread' = DOMAIN thread \union {t}
      /\ \A u \in DOMAIN thread' : /\ thread'[u].stream \in {None, u}
                                   /\ {"pc", "stream", "left"} \subseteq DOMAIN thread'[u]
  <2>1. \A u \in DOMAIN thread : /\ thread[u].stream \in {None, u}
                                 /\ {"pc", "stream", "left"} \subseteq DOMAIN thread[u]
    BY <1>0 DEF CommonInv, PlainFits, StreamFits, PlaysOwnStream
  <2> HIDE DEF t
  <2> QED  BY <1>4, <2>1 DEF CallbackThread
<1>6. CASE CoreSetupGranted(c)
  <2>1. req' = [req EXCEPT ![r].token = t] /\ lostCb' = r /\ call' = [call EXCEPT ![c] = NoCall]
        /\ remaining' = ResyncBufs /\ setupCb' = r
    BY <1>1, <1>6 DEF CoreSetupGranted, Return, CoreAnswerDue
  <2>2. DOMAIN req' = DOMAIN req
    BY <1>0, <2>1
  <2>3. CallFits(NoCall, req', next')
    BY <1>1 DEF CallFits, NoCall, None, Behind, Tells
  <2>4. NoCall.pc \notin Behind \union {"hold"} /\ NoCall.req = None
    BY DEF NoCall, Behind
  <2> HIDE DEF t, NoCall, CallFits
  <2>5. Grants(c, t, NoCall)
    BY <1>0, <1>1, <1>2, <1>3, <1>5, <2>1, <2>3, <2>4 DEF Grants
  <2> HIDE DEF Grants
  <2>6. CommonInv' /\ LossesReported'
    BY <1>0, <1>1, <2>1, <2>5, GrantsCommon, GrantsLosses
  <2> QED  BY <2>5, <2>6 DEF t
<1>7. CASE CoreSetupBroken(c)
  <2> DEFINE p == [call[c] EXCEPT !.pc = "refuse"]
             k == [p EXCEPT !.token = t]
  <2>1. /\ UNCHANGED <<req, remaining, setupCb>> /\ lostCb' \in {lostCb, r}
        /\ call' = [call EXCEPT ![c] = k]
    BY <1>1, <1>7 DEF CoreSetupBroken
  <2>2. CallRecord(p) /\ p.pc = "refuse" /\ p.op = "setup" /\ p.req = r /\ p.lost = call[c].lost
    <3>1. CallRecord(call[c])
      BY <1>0 DEF CallFits, CallRecord
    <3> QED  BY <1>0, <3>1, CallPc, SMTT(20)
  <2> HIDE DEF p
  <2>3. k = [op |-> p.op, pc |-> p.pc, token |-> t, req |-> p.req, join |-> p.join,
             target |-> p.target, lost |-> p.lost]
    BY <2>2 DEF CallRecord
  <2> HIDE DEF k
  <2>4. /\ CallRecord(k) /\ k.op = "setup" /\ k.pc = "refuse" /\ k.token = t
        /\ k.req = r /\ k.lost = call[c].lost
    BY <2>2, <2>3 DEF CallRecord
  <2>5. CallFits(k, req', next') /\ k.pc \notin Behind \union {"hold"}
    BY <1>0, <1>1, <1>2, <2>1, <2>4 DEF CallFits, CallRecord, Behind, Tells
  <2> HIDE DEF t, CallFits
  <2>6. Grants(c, t, k)
    BY <1>0, <1>1, <1>2, <1>3, <1>5, <2>1, <2>4, <2>5 DEF Grants
  <2>7. req'[r].token = None
    BY <1>0, <2>1 DEF CallFits, Behind
  <2> HIDE DEF Grants
  <2>8. CommonInv' /\ LossesReported'
    BY <1>0, <1>1, <2>6, <2>7, GrantsCommon, GrantsLosses
  <2> QED  BY <2>6, <2>8 DEF t
<1> QED  BY <1>6, <1>7

\* The unit and the callback of a setup that opened the device.  A setup that fails tells its
\* session of it later on, and a unit that has its callbacks already does not call them.
LEMMA CoreOpened ==
    ASSUME CoreInv, fault = "none", NEW c \in Callers, CoreSetupBroken(c) \/ CoreSetupGranted(c)
    PROVE  CoreInv'
<1> DEFINE t == next + 1
           r == call[c].req
<1>0. /\ CommonInv /\ UnitFits /\ AnswerFits /\ AnsweredToOwner
      /\ next \in Nat \ {0} /\ DOMAIN thread \subseteq 1..next
      /\ setupCb \in DOMAIN req \union {None} /\ None \notin DOMAIN req
      /\ None \notin DOMAIN thread
      /\ r \in DOMAIN req /\ CallFits(call[c], req, next)
      /\ \A d \in Callers \ {c} : call[d].req # None => call[d].req # r
      /\ \A d \in Callers : call[d].req \in DOMAIN req \union {None}
  BY SetupsTyped DEF CoreInv, AnswerFits, CommonInv, PlainFits, CallsFit, CallFits,
                     CoreSetupBroken, CoreSetupGranted, CoreSetupOpens, None
<1>1. PICK k : Grants(c, t, k)
  BY CoreOpens
<1>2. CommonInv' /\ LossesReported'
  BY CoreOpens
<1>3. /\ OnlySetup(r) /\ req[r].token = None
      /\ req'[r].answers = req[r].answers /\ req'[r].told = req[r].told
      /\ call'[c] = k /\ \A d \in Callers \ {c} : call'[d] = call[d]
  <2> HIDE DEF Grants
  <2> QED  BY <1>0, <1>1, GrantsRecords
<1>4. /\ state = "IDLE" /\ dev = None /\ open = {} /\ fault' # "null"
      /\ state' = "STOPPED" /\ current' = t /\ k.req \in {None, r}
  <2>1. state = "IDLE" /\ k.req \in {None, r}
    BY <1>1 DEF Grants
  <2>2. fault' # "null" /\ state' = "STOPPED" /\ current' = t
    BY DEF CoreSetupBroken, CoreSetupGranted, CoreSetupOpens
  <2> QED  BY <1>0, <2>1, <2>2 DEF UnitFits, UnitIsTheOwners
<1>5. /\ req[r].answers = 0 /\ req[r].told = {} /\ r # setupCb /\ r # None
      /\ DOMAIN req' = DOMAIN req /\ \A q \in DOMAIN req \ {r} : req'[q] = req[q]
  BY <1>0, <1>3 DEF AnswerFits, OnlySetup
<1>6. ASSUME NEW pc, pc # "play", thread' = CallbackThread(t, pc)
      PROVE  /\ DOMAIN thread' = DOMAIN thread \union {t} /\ t \notin DOMAIN thread
             /\ thread'[t].pc = pc /\ \A u \in DOMAIN thread : thread'[u] = thread[u]
  BY <1>0, <1>6 DEF CallbackThread
<1>7. AnsweredToOwner'
  <2>1. \A q \in DOMAIN req' : /\ req'[q].answers = req[q].answers /\ req'[q].told = req[q].told
                               /\ q = r \/ req'[q] = req[q]
    BY <1>3, <1>5
  <2> QED  BY <1>0, <1>4, <1>5, <2>1 DEF AnsweredToOwner
<1> HIDE DEF t
<1>8. CASE CoreSetupGranted(c)
  <2>1. /\ dev' = t /\ open' = open \union {t} /\ thread' = CallbackThread(t, "idle")
        /\ setupCb' = r /\ call' = [call EXCEPT ![c] = NoCall]
        /\ req' = [req EXCEPT ![r].token = t]
    BY <1>8 DEF CoreSetupGranted, CoreSetupOpens, CoreAnswerDue, Return, t
  <2>2. UnitFits'
    <3>1. \A u \in DOMAIN thread : thread'[u].pc # "play"
      BY <1>0, <1>4, <1>6, <2>1 DEF UnitFits
    <3> QED  BY <1>0, <1>4, <1>6, <2>1, <3>1 DEF UnitFits, UnitIsTheOwners, t, None
  <2>3. req'[r].token = t /\ k = NoCall
    <3>1. req[r] \in SetupRecord /\ call = [d \in Callers |-> call[d]]
      BY <1>0, SetupsTyped DEF CommonInv, PlainFits, CallsFit
    <3> QED  BY <1>0, <1>3, <2>1, <3>1 DEF SetupRecord
  <2>4. \A d \in Callers : call'[d].req # None => d # c /\ call'[d] = call[d] /\ call[d].req # r
    BY <1>0, <1>3, <2>3 DEF NoCall
  <2>5. ASSUME NEW d \in Callers, call'[d].req # None
        PROVE  /\ req'[call'[d].req].answers = 0 /\ req'[call'[d].req].told = {}
               /\ req'[call'[d].req].token = None /\ call'[d].req # setupCb'
    BY <1>0, <1>5, <2>1, <2>4, <2>5 DEF AnswerFits
  <2>6. /\ (remaining > 0 => setupCb # None /\ req[setupCb].answers = 0)'
        /\ (dev # None /\ thread[dev].pc # "off" => setupCb # None /\ req[setupCb].token = dev)'
    BY <1>3, <1>5, <2>1, <2>3
  <2> QED  BY <1>2, <1>7, <2>2, <2>5, <2>6 DEF CoreInv, AnswerFits
<1>9. CASE CoreSetupBroken(c)
  <2>1. /\ dev' \in {dev, t} /\ open' = open \union ({dev'} \ {None})
        /\ thread' = CallbackThread(t, "off") /\ UNCHANGED <<setupCb, remaining, req>>
    BY <1>9 DEF CoreSetupBroken, CoreSetupOpens, t
  <2>2. UnitFits'
    <3>1. \A u \in DOMAIN thread : thread'[u].pc # "play"
      BY <1>0, <1>4, <1>6, <2>1 DEF UnitFits
    <3> QED  BY <1>0, <1>4, <1>6, <2>1, <3>1 DEF UnitFits, UnitIsTheOwners, t, None
  <2>3. \A d \in Callers : call'[d].req \in {None, call[d].req}
    BY <1>3, <1>4
  <2>4. ASSUME NEW d \in Callers, call'[d].req # None
        PROVE  /\ req'[call'[d].req].answers = 0 /\ req'[call'[d].req].told = {}
               /\ req'[call'[d].req].token = None /\ call'[d].req # setupCb'
    BY <1>0, <2>1, <2>3, <2>4 DEF AnswerFits
  <2>5. /\ (remaining > 0 => setupCb # None /\ req[setupCb].answers = 0)'
        /\ (dev # None /\ thread[dev].pc # "off" => setupCb # None /\ req[setupCb].token = dev)'
    BY <1>0, <1>4, <1>6, <2>1 DEF AnswerFits
  <2> QED  BY <1>2, <1>7, <2>2, <2>4, <2>5 DEF CoreInv, AnswerFits
<1> QED  BY <1>8, <1>9

\* CoreAudio's teardown
LEMMA CoreTearsDown ==
    ASSUME CoreInv, fault = "none", NEW s \in Sessions, NEW t, CoreTeardown(s, t)
    PROVE  CoreInv'
<1>0. CommonInv /\ LossesReported /\ UnitFits /\ AnswerFits /\ s \in Callers
      /\ req \in Seq(SetupRecord) /\ DOMAIN thread \subseteq Nat
  BY DEF CoreInv, Callers, CommonInv, PlainFits
<1>1. /\ dev' = None /\ open' = {} /\ fault' # "null" /\ ThreadsKept
      /\ \A u \in DOMAIN thread : thread'[u].pc # "play"
  BY UnitDisposed DEF CoreTeardown
<1>2. Yields(s, t)
  BY <1>1 DEF CoreTeardown, GivesUp, Yields, Vacate, DropStream
<1>3. CommonInv' /\ LossesReported'
  <2> HIDE DEF Yields
  <2> QED  BY <1>0, <1>2, YieldsCommon, YieldsLosses
<1>4. UnitFits'
  <2>1. state' = "IDLE" /\ current' \notin DOMAIN thread /\ DOMAIN thread' = DOMAIN thread
    BY <1>0, <1>1, <1>2 DEF Yields, Invalid, ThreadsKept
  <2> QED  BY <1>1, <2>1 DEF UnitFits, UnitIsTheOwners
<1>5. AnswerFits'
  <2>1. /\ DOMAIN req' = DOMAIN req
        /\ \A r \in DOMAIN req : /\ req'[r].answers = req[r].answers /\ req'[r].told = req[r].told
                                 /\ req'[r].token = req[r].token
    BY <1>0, <1>2, SetupsTornDown DEF Yields
  <2>2. /\ DOMAIN req \subseteq DOMAIN req'
        /\ \A r \in DOMAIN req' \ DOMAIN req :
              req'[r].answers = 0 /\ req'[r].told = {} /\ req'[r].token = None
        /\ \A d \in Callers : call'[d].req \in {None, call[d].req} \union (DOMAIN req' \ DOMAIN req)
        /\ UNCHANGED <<remaining, setupCb>>
        /\ dev' # None /\ thread'[dev'].pc # "off" => dev' = dev /\ thread[dev].pc # "off"
    BY <1>1, <2>1 DEF CoreTeardown
  <2> QED  BY <1>0, <1>1, <2>1, <2>2, AnswersStay
<1> QED  BY <1>3, <1>4, <1>5 DEF CoreInv

\* Steps of a call that leave the unit alone, but for the answer of a setup that failed
LEMMA CoreCalls ==
    ASSUME CoreInv, fault = "none", NEW c \in Callers,
           \/ CoreSetupRefused(c) \/ CoreTellLost(c) \/ CoreForceReturn(c)
           \/ c \in Sessions /\ \E t : CoreStart(c, t) \/ CoreStop(c, t)
    PROVE  CoreInv'
<1>0. /\ CommonInv /\ UnitFits /\ CallFits(call[c], req, next) /\ req \in Seq(SetupRecord)
  BY DEF CoreInv, CommonInv, CallsFit, PlainFits
<1>1. UNCHANGED <<thread, remaining, setupCb, dev, open, fault>>
  BY DEF CoreSetupRefused, CoreTellLost, CoreForceReturn, CoreStart, CoreStop, SetupRefused,
         TellLost, ForceReturn, Start, Stop, platform, deviceVars, owned
<1>2. Silent
  <2>1. CASE CoreSetupRefused(c) \/ CoreForceReturn(c)
    BY <1>0, <2>1, ReturnsAreSilent DEF CoreSetupRefused, CoreForceReturn
  <2>2. CASE CoreTellLost(c)
    BY <1>0, <2>2, EndsAreSilent DEF CoreTellLost
  <2>3. ASSUME c \in Sessions, NEW t, CoreStart(c, t) \/ CoreStop(c, t)
        PROVE  Silent
    BY <1>0, <2>3, PlaysAreSilent DEF CoreStart, CoreStop
  <2> QED  BY <2>1, <2>2, <2>3
<1>3. \A r \in DOMAIN req : req'[r].answers = req[r].answers /\ req'[r].told = req[r].told
  <2>1. CASE CoreTellLost(c)
    <3>1. call[c].lost \in DOMAIN req /\ req' = [req EXCEPT ![call[c].lost].losses = @ + 1]
      BY <1>0, <2>1 DEF CoreTellLost, TellLost, CallFits
    <3> QED  BY <1>0, <3>1, SetupToldOfLoss DEF OnlySetup
  <2>2. CASE ~CoreTellLost(c)
    BY <2>2 DEF CoreSetupRefused, CoreForceReturn, CoreStart, CoreStop, SetupRefused, ForceReturn,
                Start, Stop
  <2> QED  BY <2>1, <2>2
<1>4. /\ dev # None => (thread'[dev].pc = "off" <=> thread[dev].pc = "off")
      /\ \A t \in DOMAIN thread : thread'[t].pc = "play" => t = dev
      /\ \A t \in DOMAIN thread : thread[t].pc = "off" => thread'[t].pc = "off"
  BY <1>0, <1>1 DEF UnitFits
<1> QED  BY <1>1, <1>2, <1>3, <1>4, CoreSilent

\* A setup that failed is answered, once.
LEMMA CoreFails ==
    ASSUME CoreInv, fault = "none", NEW s \in Sessions, CoreSetupFail(s)
    PROVE  CoreInv'
<1> DEFINE r == call[s].req
<1>0. /\ CommonInv /\ LossesReported /\ UnitFits /\ AnswerFits /\ CallFits(call[s], req, next)
      /\ s \in Callers /\ call = [d \in Callers |-> call[d]] /\ req \in Seq(SetupRecord)
      /\ r \in DOMAIN req /\ call[s].token \in Int /\ None \notin DOMAIN req
      /\ \A d \in Callers \ {s} : call[d].req # None => call[d].req # r
  <2>1. /\ CommonInv /\ LossesReported /\ UnitFits /\ AnswerFits /\ CallFits(call[s], req, next)
        /\ s \in Callers /\ call = [d \in Callers |-> call[d]] /\ req \in Seq(SetupRecord)
        /\ \A d \in Callers \ {s} : call[d].req # None => call[d].req # r
    BY DEF CoreInv, Callers, CommonInv, CallsFit, PlainFits
  <2>2. r \in DOMAIN req /\ call[s].token \in Int
    BY <2>1 DEF CallFits, CoreSetupFail, SetupFail, CommonInv, PlainFits
  <2> QED  BY <2>1, <2>2, SetupsTyped
<1>1. /\ req' = Answered(r, call[s].token) /\ call' = [call EXCEPT ![s] = NoCall]
      /\ UNCHANGED <<thread, remaining, setupCb, dev, open, fault, current, state>>
  BY DEF CoreSetupFail, SetupFail, Return, platform, deviceVars, owned
<1>2. CommonInv' /\ LossesReported'
  <2>1. SetupFail(s)
    BY DEF CoreSetupFail
  <2> QED  BY <1>0, <2>1, SharedSteps
<1>3. /\ OnlySetup(r) /\ req'[r].answers = req[r].answers + 1 /\ req'[r].token = req[r].token
  <2> HIDE DEF r
  <2> QED  BY <1>0, <1>1, SetupAnswered
<1>4. req[r].answers = 0 /\ req[r].token = None /\ r # setupCb
  BY <1>0 DEF AnswerFits
<1>5. /\ call'[s].req = None /\ \A d \in Callers \ {s} : call'[d] = call[d]
  BY <1>0, <1>1 DEF NoCall
<1>6. AnsweredToOwner'
  <2>1. \A q \in DOMAIN req' : q = r \/ req'[q] = req[q]
    BY <1>3 DEF OnlySetup
  <2>2. DOMAIN req' = DOMAIN req /\ fault' # "null"
    BY <1>1, <1>3 DEF OnlySetup
  <2> QED  BY <1>0, <1>3, <1>4, <2>1, <2>2 DEF AnswerFits, AnsweredToOwner
<1>7. \A q \in DOMAIN req \ {r} : req'[q] = req[q]
  BY <1>3 DEF OnlySetup
<1>8. ASSUME NEW d \in Callers, call'[d].req # None
      PROVE  /\ req'[call'[d].req].answers = 0 /\ req'[call'[d].req].told = {}
             /\ req'[call'[d].req].token = None /\ call'[d].req # setupCb'
  <2>1. d # s /\ call'[d] = call[d] /\ call[d].req \in DOMAIN req \ {r}
    BY <1>0, <1>5, <1>8 DEF CommonInv, CallsFit, CallFits
  <2> QED  BY <1>0, <1>1, <1>7, <1>8, <2>1 DEF AnswerFits
<1>9. setupCb \in (DOMAIN req \ {r}) \union {None}
  BY <1>0, <1>4 DEF CommonInv, PlainFits
<1>10. /\ (remaining > 0 => setupCb # None /\ req[setupCb].answers = 0)'
       /\ (dev # None /\ thread[dev].pc # "off" => setupCb # None /\ req[setupCb].token = dev)'
  BY <1>0, <1>1, <1>7, <1>9 DEF AnswerFits
<1>11. UnitFits'
  BY <1>0, <1>1 DEF UnitFits, UnitIsTheOwners
<1> QED  BY <1>2, <1>6, <1>8, <1>10, <1>11 DEF CoreInv, AnswerFits

\* The callback of the unit
LEMMA CoreThreads ==
    ASSUME CoreInv, fault = "none", NEW t \in DOMAIN thread,
           CoreCalled(t) \/ CorePeriod(t) \/ CorePlay(t)
    PROVE  CoreInv'
<1>0. /\ CommonInv /\ LossesReported /\ UnitFits /\ AnswerFits
      /\ remaining \in Nat /\ setupCb \in DOMAIN req \union {None}
      /\ {"pc", "stream", "left"} \subseteq DOMAIN thread[t] /\ t # None /\ t \in Int
      /\ req \in Seq(SetupRecord) /\ None \notin DOMAIN req
  BY SetupsTyped DEF CoreInv, CommonInv, PlainFits, None
<1>1. UNCHANGED <<current, next, state, lostCb, stream, tid, call, setupCb, dev, open>>
  BY DEF CoreCalled, CorePeriod, CorePlay, owned, platform, deviceVars
<1>2. ASSUME UNCHANGED <<req, remaining>>, fault' # "null", ThreadsKept,
             \A u \in DOMAIN thread \ {t} : thread'[u] = thread[u],
             (thread[t].pc # "off" /\ thread'[t].pc # "off") \/ UNCHANGED thread,
             thread'[t].pc = "play" => t = dev \/ UNCHANGED thread
      PROVE  CoreInv'
  <2>1. SetupsKept
    BY <1>0, <1>2, NothingTold
  <2>2. Silent
    BY <1>0, <1>1, <1>2, <2>1, ThreadsAreSilent
  <2>3. \A r \in DOMAIN req : req'[r].answers = req[r].answers /\ req'[r].told = req[r].told
    BY <1>2
  <2>4. \A u \in DOMAIN thread : thread'[u].pc = "off" <=> thread[u].pc = "off"
    BY <1>2
  <2>5. dev # None => (thread'[dev].pc = "off" <=> thread[dev].pc = "off")
    BY <1>0, <2>4 DEF UnitFits
  <2>6. \A u \in DOMAIN thread : thread'[u].pc = "play" => u = dev
    BY <1>0, <1>2 DEF UnitFits
  <2> QED  BY <1>1, <1>2, <2>2, <2>3, <2>4, <2>5, <2>6, CoreSilent
<1>3. ASSUME NEW pc, ThreadGoes(t, pc)
      PROVE  /\ ThreadsKept /\ thread'[t].pc = pc
             /\ \A u \in DOMAIN thread \ {t} : thread'[u] = thread[u]
  BY <1>0, <1>3, ThreadGoesOn, ThreadGoesKept
<1>4. CASE CoreCalled(t)
  <2>1. thread[t].pc = "idle" /\ ThreadGoes(t, "called") /\ UNCHANGED <<req, remaining, fault>>
    BY <1>4 DEF CoreCalled
  <2> QED  BY <1>2, <1>3, <2>1
<1>5. CASE CorePeriod(t)
  <2>1. thread[t].pc = "called" /\ UNCHANGED <<req, remaining>>
    BY <1>5 DEF CorePeriod
  <2>2. CASE ~CoreHasToken(t)
    <3>1. UNCHANGED thread /\ fault' # "null"
      BY <1>5, <2>2 DEF CorePeriod
    <3>2. ThreadsKept
      BY <1>0, <3>1, ThreadsAsTheyWere
    <3> QED  BY <1>2, <2>1, <3>1, <3>2
  <2>3. CASE CoreHasToken(t)
    <3>1. current = t /\ t = dev /\ fault' # "null"
      BY <1>0, <1>5, <2>1, <2>3 DEF CoreHasToken, UnitFits, CorePeriod
    <3>2. PICK u \in {None, stream} :
             thread' = [thread EXCEPT ![t].pc = "play", ![t].stream = u]
      BY <1>5, <2>3 DEF CorePeriod
    <3>3. /\ ThreadsKept /\ thread'[t].pc = "play"
          /\ \A v \in DOMAIN thread \ {t} : thread'[v] = thread[v]
      BY <1>0, <3>1, <3>2, StreamTaken
    <3> QED  BY <1>2, <2>1, <3>1, <3>3
  <2> QED  BY <2>2, <2>3
<1>6. CASE CorePlay(t)
  <2>1. thread[t].pc = "play" /\ Countdown(t, "idle") /\ t = dev
    BY <1>0, <1>6 DEF CorePlay, UnitFits
  <2>2. setupCb # None /\ setupCb \in DOMAIN req /\ req[setupCb].token = t
    BY <1>0, <2>1 DEF AnswerFits
  <2>3. ThreadGoes(t, "idle") /\ UNCHANGED fault
    BY <2>1, <2>2 DEF Countdown
  <2>4. /\ SetupsKept /\ ThreadsKept /\ remaining' \in Nat
        /\ UNCHANGED req \/ (setupCb # None /\ remaining = 1 /\ req' = Answered(setupCb, t))
    BY <1>0, <2>1, CountdownSteps
  <2>5. thread'[t].pc = "idle" /\ \A u \in DOMAIN thread \ {t} : thread'[u] = thread[u]
    BY <1>3, <2>3
  <2>6. CommonInv' /\ LossesReported'
    <3>1. Silent
      BY <1>0, <1>1, <2>4, ThreadsAreSilent
    <3> QED  BY <1>0, <3>1, SilentStep
  <2>7. UnitFits'
    <3>1. DOMAIN thread' = DOMAIN thread
      BY <2>4 DEF ThreadsKept
    <3> QED  BY <1>0, <1>1, <2>1, <2>5, <3>1 DEF UnitFits, UnitIsTheOwners
  <2>8. AnswerFits'
    <3>1. CASE UNCHANGED req /\ remaining # 1
      <4>1. remaining' > 0 => remaining > 0
        BY <1>0, <2>1, <3>1 DEF Countdown
      <4> QED  BY <1>0, <1>1, <2>1, <2>2, <2>3, <3>1, <4>1 DEF AnswerFits, AnsweredToOwner
    <3>2. CASE remaining = 1
      <4>1. remaining' = 0 /\ req' = Answered(setupCb, t)
        BY <2>1, <2>2, <3>2 DEF Countdown
      <4>2. /\ OnlySetup(setupCb) /\ req'[setupCb].token = t
            /\ req'[setupCb].answers = req[setupCb].answers + 1
            /\ req'[setupCb].told = req[setupCb].told \union {t}
        BY <1>0, <2>2, <4>1, SetupAnswered
      <4>3. req[setupCb].answers = 0 /\ req[setupCb].told \subseteq {t}
        BY <1>0, <2>2, <3>2 DEF AnswerFits, AnsweredToOwner
      <4>4. DOMAIN req' = DOMAIN req /\ \A q \in DOMAIN req \ {setupCb} : req'[q] = req[q]
        BY <4>2 DEF OnlySetup
      <4>5. AnsweredToOwner'
        <5>1. \A q \in DOMAIN req' : q = setupCb \/ req'[q] = req[q]
          BY <4>4
        <5> QED  BY <1>0, <2>3, <4>2, <4>3, <4>4, <5>1 DEF AnswerFits, AnsweredToOwner
      <4>6. ASSUME NEW d \in Callers, call'[d].req # None
            PROVE  /\ req'[call'[d].req].answers = 0 /\ req'[call'[d].req].told = {}
                   /\ req'[call'[d].req].token = None /\ call'[d].req # setupCb'
        <5>1. call[d].req \in DOMAIN req \ {setupCb}
          BY <1>0, <1>1, <4>6 DEF CommonInv, CallsFit, CallFits, AnswerFits
        <5> QED  BY <1>0, <1>1, <4>4, <4>6, <5>1 DEF AnswerFits
      <4> QED  BY <1>1, <2>1, <2>2, <4>1, <4>2, <4>5, <4>6 DEF AnswerFits
    <3> QED  BY <2>4, <3>1, <3>2
  <2> QED  BY <2>6, <2>7, <2>8 DEF CoreInv
<1> QED  BY <1>4, <1>5, <1>6

\* CoreAudio's first state
LEMMA CoreInit ==
    ASSUME PlatformInit
    PROVE  CoreInv
<1>1. CommonInv /\ LossesReported
  BY CommonInit DEF PlatformInit
<1>2. UnitFits /\ AnswerFits
  BY DEF PlatformInit, Init, UnitFits, UnitIsTheOwners, AnswerFits, AnsweredToOwner, NoCall
<1> QED  BY <1>1, <1>2 DEF CoreInv

\* Each of its steps
LEMMA CoreStep ==
    ASSUME CoreInv, CoreNext
    PROVE  CoreInv'
<1>0. fault = "none" /\ CommonInv /\ Sessions \subseteq Callers /\ Others \subseteq Callers
  BY DEF CoreNext, CoreInv, Callers
<1>1. ASSUME NEW s \in Sessions, CoreSession(s)
      PROVE  CoreInv'
  <2>1. CASE CoreSetupEnter(s)
    <3>1. SetupKicks(s) /\ KicksUnit /\ UNCHANGED <<remaining, setupCb, tid>>
      BY <2>1 DEF CoreSetupEnter
    <3>2. UNCHANGED stream
      BY <3>1 DEF SetupKicks, KickUnjoined
    <3>3. PICK e : KickOf(s, NewCall("setup", Len(req) + 1), e)
      BY <1>0, <3>1, SetupKicksOff
    <3> HIDE DEF KickOf, NewCall
    <3> QED  BY <1>0, <3>1, <3>2, <3>3, CoreKicks
  <2>2. CASE CoreSetupRefused(s)
    BY <1>0, <2>2, CoreCalls
  <2>3. CASE CoreSetupBroken(s) \/ CoreSetupGranted(s)
    BY <1>0, <2>3, CoreOpened
  <2>4. CASE CoreSetupFail(s)
    BY <1>0, <2>4, CoreFails
  <2>5. ASSUME NEW t, CoreTeardown(s, t) \/ CoreStart(s, t) \/ CoreStop(s, t)
        PROVE  CoreInv'
    BY <1>0, <2>5, CoreTearsDown, CoreCalls
  <2> QED  BY <1>1, <2>1, <2>2, <2>3, <2>4, <2>5 DEF CoreSession
<1>2. ASSUME NEW o \in Others, CoreForceEnter(o) \/ CoreForceRetry(o) \/ CoreForceReturn(o)
      PROVE  CoreInv'
  <2>1. CASE CoreForceEnter(o) \/ CoreForceRetry(o)
    <3>1. /\ ForceKicks(o) \/ (RetryKicks(o) /\ KicksUnit)
          /\ KicksUnit /\ UNCHANGED <<remaining, setupCb, tid, req>>
      BY <2>1 DEF CoreForceEnter, CoreForceRetry
    <3>2. UNCHANGED stream
      BY <3>1 DEF ForceKicks, RetryKicks, KickUnjoined
    <3>3. PICK k, e : KickOf(o, k, e)
      BY <1>0, <3>1, ForceKicksOff
    <3> HIDE DEF KickOf
    <3> QED  BY <1>0, <3>1, <3>2, <3>3, CoreKicks
  <2>2. CASE CoreForceReturn(o)
    BY <1>0, <2>2, CoreCalls
  <2> QED  BY <1>2, <2>1, <2>2
<1>3. ASSUME NEW c \in Callers, CoreTellLost(c)
      PROVE  CoreInv'
  BY <1>0, <1>3, CoreCalls
<1>4. ASSUME NEW t \in DOMAIN thread, CoreCalled(t) \/ CorePeriod(t) \/ CorePlay(t)
      PROVE  CoreInv'
  BY <1>0, <1>4, CoreThreads
<1> QED  BY <1>1, <1>2, <1>3, <1>4 DEF CoreNext

\* What it keeps
LEMMA CoreFollows ==
    ASSUME CoreInv
    PROVE  LossesReported /\ UnitIsTheOwners /\ AnsweredToOwner /\ PlaysOwnStream
BY DEF CoreInv, UnitFits, AnswerFits, CommonInv, StreamFits

-----------------------------------------------------------------------------
(***************************************************************************)
(* The ALSA output                                                         *)
(***************************************************************************)

\* The call of c goes on with what it has, or returns.
Onward(c) ==
    /\ \A d \in Callers \ {c} : call'[d] = call[d]
    /\ \/ /\ call'[c] = NoCall
          /\ call[c].op \in {"teardown", "force"} \/ call[c].pc \in {"callback", "refuse"}
       \/ /\ call'[c].token = call[c].token /\ call'[c].op = call[c].op
          /\ call'[c].req = call[c].req /\ call'[c].lost = call[c].lost
          /\ call'[c].pc \in Behind => call[c].pc \in Behind

\* Such are the steps of a call that neither kick nor are granted the output.
LEMMA CallsGoOn ==
    ASSUME CommonInv, NEW c \in Callers,
           \/ SetupRefused(c) \/ SetupResync(c) \/ SetupReturn(c) \/ SetupFail(c)
           \/ ForceReturn(c) \/ TellLost(c) \/ JoinBegin(c) \/ SelfJoin(c) \/ JoinEnd(c)
    PROVE  Onward(c)
<1>0. /\ call = [d \in Callers |-> call[d]] /\ CallRecord(call[c])
      /\ call[c].pc # "idle"
  BY DEF CommonInv, CallsFit, CallFits, CallRecord, SetupRefused, SetupResync, SetupReturn,
         SetupFail, ForceReturn, TellLost, JoinBegin, SelfJoin, JoinEnd
<1>1. ASSUME NEW pc, call' = [call EXCEPT ![c].pc = pc], pc \in Behind => call[c].pc \in Behind
      PROVE  Onward(c)
  <2> DEFINE k == [call[c] EXCEPT !.pc = pc]
  <2>1. /\ k.pc = pc /\ k.token = call[c].token /\ k.op = call[c].op /\ k.req = call[c].req
        /\ k.lost = call[c].lost
    BY <1>0, CallPc
  <2>2. call'[c] = k /\ \A d \in Callers \ {c} : call'[d] = call[d]
    BY <1>0, <1>1
  <2> HIDE DEF k
  <2> QED  BY <1>1, <2>1, <2>2 DEF Onward
<1>2. CASE /\ call' = [call EXCEPT ![c] = NoCall]
           /\ call[c].op \in {"teardown", "force"} \/ call[c].pc \in {"callback", "refuse"}
  BY <1>0, <1>2 DEF Onward
<1>3. CASE call' = [call EXCEPT ![c] = AfterJoin(@)] /\ call[c].pc \in Behind
  <2>1. CASE call' = [call EXCEPT ![c].pc = "lost"] \/ call' = [call EXCEPT ![c].pc = "check"]
    BY <1>1, <1>3, <2>1
  <2> QED  BY <1>2, <1>3, <2>1 DEF AfterJoin
<1>4. CASE call' = [call EXCEPT ![c].pc = "joining", ![c].target = tid] /\ call[c].pc \in Behind
  <2> DEFINE p == [call[c] EXCEPT !.pc = "joining"]
             k == [p EXCEPT !.target = tid]
  <2>1. /\ CallRecord(p) /\ p.token = call[c].token /\ p.op = call[c].op
        /\ p.req = call[c].req /\ p.lost = call[c].lost
    BY <1>0, CallPc
  <2>2. call'[c] = k /\ \A d \in Callers \ {c} : call'[d] = call[d]
    BY <1>0, <1>4
  <2> HIDE DEF p
  <2>3. k.token = p.token /\ k.op = p.op /\ k.req = p.req /\ k.lost = p.lost
    BY <2>1 DEF CallRecord
  <2> HIDE DEF k
  <2> QED  BY <1>4, <2>1, <2>2, <2>3 DEF Onward
<1>5. CASE UNCHANGED call
  BY <1>5 DEF Onward
<1>6. CASE SetupRefused(c) \/ SetupResync(c) \/ TellLost(c)
  BY <1>1, <1>6 DEF SetupRefused, SetupResync, TellLost, Goto, Behind
<1>7. CASE SetupReturn(c) \/ SetupFail(c) \/ ForceReturn(c)
  BY <1>2, <1>7 DEF SetupReturn, SetupFail, ForceReturn, Return
<1>8. CASE JoinBegin(c) \/ SelfJoin(c) \/ JoinEnd(c)
  <2>1. call[c].pc \in {"join", "joining"}
    BY <1>8 DEF JoinBegin, SelfJoin, JoinEnd
  <2> QED  BY <1>3, <1>4, <1>5, <1>8, <2>1 DEF JoinBegin, SelfJoin, JoinEnd, Behind
<1> QED  BY <1>6, <1>7, <1>8

\* A setup that may still open the device, for the token that it has
SetsUp(c) == call[c].op = "setup" /\ call[c].pc \in Behind

\* Each handle is open once, and none has the name that a setup in progress may give to its own.
PcmFits ==
    /\ DeviceAccounted
    /\ dev \in 0..next /\ closing = [c \in Callers |-> closing[c]]
    /\ \A c \in Callers : closing[c] \in 0..next
    /\ \A c \in Callers : closing[c] # None =>
          closing[c] # dev /\ Joins(c) /\ \A d \in Callers \ {c} : closing[d] # closing[c]
    /\ \A c \in Callers : SetsUp(c) =>
          /\ call[c].token # None /\ call[c].token # dev
          /\ \A d \in Callers : call[c].token # closing[d]

\* As long as nothing overlaps or breaks, a thread that lives has its pcm.
PcmInTurn ==
    /\ ~overlap /\ ~broken => InTurn /\ \A t \in DOMAIN thread : Live(t) => t \in open
    /\ ~broken => \A o \in Others : hwCall[o] = None
    /\ ClosedInTime

AlsaInv == CommonInv /\ LossesReported /\ PcmFits /\ PcmInTurn

\* The device is left alone.
LEMMA PcmStays ==
    ASSUME CommonInv, PcmFits, UNCHANGED <<dev, open, closing>>, next' \in Nat, next <= next',
           state' # "IDLE" => state # "IDLE" /\ UNCHANGED <<current, tid>>,
           \A d \in Callers : Joins(d) => Joins(d)' \/ closing[d] = None,
           \A d \in Callers : SetsUp(d)' => \/ SetsUp(d) /\ call'[d].token = call[d].token
                                            \/ call'[d].token = next + 1
    PROVE  PcmFits'
<1>0. next \in Nat
  BY DEF CommonInv, PlainFits
<1>1. DeviceAccounted'
  BY DEF PcmFits, DeviceAccounted
<1>2. dev' \in 0..next' /\ \A c \in Callers : closing'[c] \in 0..next'
  BY <1>0 DEF PcmFits
<1>3. ASSUME NEW c \in Callers, SetsUp(c)'
      PROVE  /\ call'[c].token # None /\ call'[c].token # dev'
             /\ \A d \in Callers : call'[c].token # closing'[d]
  BY <1>0, <1>3 DEF PcmFits, None
<1> QED  BY <1>1, <1>2, <1>3 DEF PcmFits

\* A call kicks off the owner, and leaves the device to it.
LEMMA PcmKicks ==
    ASSUME CommonInv, PcmFits, NEW c \in Callers, NEW k, NEW e, KickOf(c, k, e),
           ThreadsKept, UNCHANGED <<stream, tid, remaining, setupCb>>,
           UNCHANGED <<dev, open, closing>>
    PROVE  PcmFits'
<1>1. Kicks(c, e)
  <2> HIDE DEF KickOf
  <2> QED  BY KickOfKicks
<1>2. /\ call'[c] = e /\ \A d \in Callers \ {c} : call'[d] = call[d]
  BY <1>1, KicksRecords
<1>3. next \in Nat /\ next' = next + 1 /\ state' = "IDLE" /\ e.token = next + 1 /\ ~Joins(c)
  BY <1>1 DEF Kicks, CommonInv, PlainFits, Joins
<1> QED  BY <1>2, <1>3, PcmStays DEF Joins, SetsUp

\* A call goes on and leaves the device alone.
LEMMA PcmGoesOn ==
    ASSUME CommonInv, PcmFits, NEW c \in Callers, Onward(c), UNCHANGED <<dev, open, closing>>,
           UNCHANGED <<next, current, tid>>, state' # "IDLE" => state # "IDLE",
           Joins(c) => Joins(c)' \/ closing[c] = None
    PROVE  PcmFits'
<1>1. \A d \in Callers : SetsUp(d)' => SetsUp(d) /\ call'[d].token = call[d].token
  BY DEF Onward, SetsUp, NoCall
<1>2. \A d \in Callers : Joins(d) => Joins(d)' \/ closing[d] = None
  BY DEF Onward, Joins
<1>3. next' \in Nat /\ next <= next'
  BY DEF CommonInv, PlainFits
<1> QED  BY <1>1, <1>2, <1>3, PcmStays

\* A setup or force_teardown closes the device that it found, and a setup may open it again.
LEMMA PcmReopens ==
    ASSUME CommonInv, PcmFits, NEW c \in Callers, call[c].pc = "check", NEW h, h \in 0..next',
           dev' = h, open' = (open \ {dev}) \union ({h} \ {None}), UNCHANGED closing,
           next' \in Nat, next <= next',
           \/ h = None
           \/ h = call[c].token /\ SetsUp(c)
           \/ h = next + 1,
           state' # "IDLE" => h = current' /\ tid' = current',
           \A d \in Callers \ {c} : call'[d] = call[d], ~SetsUp(c)'
    PROVE  PcmFits'
<1>0. /\ next \in Nat /\ closing[c] = None /\ c \in Callers
      /\ open = ({dev} \union {closing[d] : d \in Callers}) \ {None}
      /\ \A d \in Callers : closing[d] # None => closing[d] # dev
      /\ \A d \in Callers : call[d].token \in 0..next
  BY DEF CommonInv, PlainFits, CallsFit, CallFits, PcmFits, DeviceAccounted, Joins
<1>1. \A d \in Callers : SetsUp(d) /\ d # c /\ h # None => call[d].token # h
  <2>1. CASE h = next + 1
    BY <1>0, <2>1
  <2>2. CASE h = call[c].token /\ SetsUp(c)
    BY <2>2 DEF CommonInv, KicksBehind, SetsUp
  <2> QED  BY <2>1, <2>2
<1>2. \A d \in Callers : closing[d] # None => closing[d] # h
  BY <1>0 DEF PcmFits
<1>3. DeviceAccounted'
  <2>1. open' = ({h} \union {closing[d] : d \in Callers}) \ {None}
    BY <1>0
  <2> QED  BY <2>1 DEF DeviceAccounted
<1>4. \A d \in Callers : closing[d] \in 0..next'
  BY <1>0 DEF PcmFits
<1>5. \A d \in Callers : closing[d] # None => d # c /\ Joins(d)'
  BY <1>0 DEF PcmFits, Joins
<1>6. ASSUME NEW d \in Callers, SetsUp(d)'
      PROVE  /\ call'[d].token # None /\ call'[d].token # dev'
             /\ \A u \in Callers : call'[d].token # closing'[u]
  <2>1. d # c /\ call'[d] = call[d] /\ SetsUp(d)
    BY <1>6 DEF SetsUp
  <2> QED  BY <1>1, <2>1 DEF PcmFits
<1> QED  BY <1>2, <1>3, <1>4, <1>5, <1>6 DEF PcmFits

\* teardown takes the pcm.
LEMMA PcmTaken ==
    ASSUME CommonInv, PcmFits, NEW s \in Sessions, NEW t, AlsaTeardown(s, t)
    PROVE  PcmFits'
<1>0. /\ s \in Callers /\ Teardown(s, t) /\ next \in Nat /\ next' = next
      /\ dev' = None /\ open' = open /\ closing' = [closing EXCEPT ![s] = dev]
      /\ state' = "IDLE"
  BY DEF AlsaTeardown, Teardown, Vacate, Callers, CommonInv, PlainFits
<1>1. /\ call'[s].op = "teardown" /\ call'[s].pc = "join"
      /\ \A d \in Callers \ {s} : call'[d] = call[d]
  BY <1>0, TeardownYields
<1>2. closing[s] = None /\ closing = [d \in Callers |-> closing[d]]
  BY <1>0 DEF PcmFits, Teardown, Idle, Joins
<1>3. closing'[s] = dev /\ \A d \in Callers \ {s} : closing'[d] = closing[d]
  BY <1>0, <1>2
<1>4. DeviceAccounted'
  <2>1. {closing'[d] : d \in Callers} \ {None} =
           ({dev} \union {closing[d] : d \in Callers}) \ {None}
    BY <1>0, <1>2, <1>3
  <2> QED  BY <1>0, <2>1 DEF DeviceAccounted, PcmFits
<1>5. \A d \in Callers : closing'[d] # None =>
         Joins(d)' /\ \A u \in Callers \ {d} : closing'[u] # closing'[d]
  BY <1>0, <1>1, <1>2, <1>3 DEF PcmFits, Joins
<1>6. ASSUME NEW d \in Callers, SetsUp(d)'
      PROVE  /\ call'[d].token # None
             /\ \A u \in Callers : call'[d].token # closing'[u]
  BY <1>0, <1>1, <1>3, <1>6 DEF PcmFits, SetsUp
<1>7. dev' \in 0..next' /\ closing' = [d \in Callers |-> closing'[d]]
      /\ \A d \in Callers : closing'[d] \in 0..next'
  BY <1>0, <1>2, <1>3 DEF PcmFits, None
<1> QED  BY <1>0, <1>4, <1>5, <1>6, <1>7 DEF PcmFits

\* The teardown has joined, and closes it.
LEMMA PcmClosed ==
    ASSUME CommonInv, PcmFits, NEW c \in Callers, Onward(c), ~Joins(c)',
           UNCHANGED <<next, current, tid, state, dev>>,
           open' = open \ {closing[c]}, closing' = [closing EXCEPT ![c] = None]
    PROVE  PcmFits'
<1>0. /\ next \in Nat /\ closing = [d \in Callers |-> closing[d]]
      /\ open = ({dev} \union {closing[d] : d \in Callers}) \ {None}
  BY DEF CommonInv, PlainFits, PcmFits, DeviceAccounted
<1>1. closing'[c] = None /\ \A d \in Callers \ {c} : closing'[d] = closing[d]
  BY <1>0
<1>2. DeviceAccounted'
  <2>1. closing[c] # None => closing[c] # dev /\ \A d \in Callers \ {c} : closing[d] # closing[c]
    BY DEF PcmFits
  <2>2. open' = ({dev} \union {closing'[d] : d \in Callers}) \ {None}
    BY <1>0, <1>1, <2>1
  <2> QED  BY <2>2 DEF DeviceAccounted, PcmFits
<1>3. \A d \in Callers : closing'[d] # None =>
         closing'[d] # dev /\ Joins(d)' /\ \A u \in Callers \ {d} : closing'[u] # closing'[d]
  BY <1>1 DEF PcmFits, Onward, Joins
<1>4. ASSUME NEW d \in Callers, SetsUp(d)'
      PROVE  /\ call'[d].token # None /\ call'[d].token # dev
             /\ \A u \in Callers : call'[d].token # closing'[u]
  <2>1. SetsUp(d) /\ call'[d].token = call[d].token
    BY <1>4 DEF Onward, SetsUp, NoCall
  <2> QED  BY <1>1, <2>1 DEF PcmFits
<1>5. dev' \in 0..next' /\ closing' = [d \in Callers |-> closing'[d]]
      /\ \A d \in Callers : closing'[d] \in 0..next'
  BY <1>0, <1>1 DEF PcmFits, None
<1> QED  BY <1>2, <1>3, <1>4, <1>5 DEF PcmFits

\* While a call is in progress that has nobody to wait for, no thread lives.
LEMMA NobodyLives ==
    ASSUME InTurn, NEW c \in Callers, ~Idle(c), ~Joins(c), state = "IDLE"
    PROVE  \A t \in DOMAIN thread : ~Live(t)
BY DEF InTurn, Turns, Live, OneCaller, Joins, Idle

\* The steps of ALSA's hardware thread, but for the one that calls force_teardown
LEMMA AlsaThreads ==
    ASSUME AlsaInv, fault = "none", NEW t \in DOMAIN thread,
           \/ AlsaBegin(t) \/ AlsaPeriod(t) \/ AlsaPlay(t) \/ AlsaResume(t)
           \/ /\ thread[t].pc = "write" /\ Touch(t) /\ ThreadGoes(t, "loop")
              /\ UNCHANGED <<owned, call, forces, platform, remaining, setupCb, tid, req>>
    PROVE  /\ Silent /\ UNCHANGED <<call, tid, current, next, state, dev, open, closing, overlap>>
           /\ DOMAIN thread' = DOMAIN thread /\ \A u \in DOMAIN thread : Live(u)' => Live(u)
           /\ fault' = "closed" => t \notin open /\ Live(t)
           /\ broken => broken'
           /\ UNCHANGED hwCall \/ \E o \in Others : hwCall[o] # None
<1>0. /\ CommonInv /\ remaining \in Nat /\ setupCb \in DOMAIN req \union {None}
      /\ {"pc", "stream", "left"} \subseteq DOMAIN thread[t] /\ t # None
  BY DEF AlsaInv, CommonInv, PlainFits, None
<1>1. Live(t)
  BY DEF AlsaBegin, AlsaPeriod, AlsaPlay, AlsaResume, Live, Lives, Past
<1>2. ASSUME NEW pc, ThreadGoes(t, pc)
      PROVE  /\ ThreadsKept /\ DOMAIN thread' = DOMAIN thread
             /\ \A u \in DOMAIN thread : Live(u)' => Live(u)
  <2>1. \A u \in DOMAIN thread \ {t} : thread'[u] = thread[u]
    BY <1>0, <1>2, ThreadGoesOn
  <2>2. ThreadsKept
    BY <1>0, <1>2, ThreadGoesKept
  <2> QED  BY <1>1, <2>1, <2>2 DEF Live, Lives, Past, ThreadsKept
<1>3. CASE AlsaBegin(t) \/ AlsaResume(t)
  <2>1. \E pc : ThreadGoes(t, pc)
    BY <1>3 DEF AlsaBegin, AlsaResume
  <2>2. SetupsKept
    BY <1>0, <1>3, NothingTold DEF AlsaBegin, AlsaResume
  <2>3. /\ UNCHANGED <<current, next, state, lostCb, stream, tid, call, remaining, setupCb, dev,
                       open, closing, overlap, fault>>
        /\ broken => broken'
    BY <1>3 DEF AlsaBegin, AlsaResume, owned, deviceVars, history
  <2>4. ThreadsKept /\ DOMAIN thread' = DOMAIN thread
        /\ \A u \in DOMAIN thread : Live(u)' => Live(u)
    BY <1>2, <2>1
  <2>5. UNCHANGED hwCall \/ \E o \in Others : hwCall[o] # None
    BY <1>0, <1>3 DEF AlsaBegin, AlsaResume
  <2> QED  BY <1>0, <2>2, <2>3, <2>4, <2>5, ThreadsAreSilent
<1>4. CASE AlsaPeriod(t)
  <2>1. SetupsKept
    BY <1>0, <1>4, NothingTold DEF AlsaPeriod
  <2>2. /\ UNCHANGED <<current, next, state, lostCb, stream, tid, call, remaining, setupCb, dev,
                       open, closing, overlap, broken, hwCall>>
        /\ fault' = "closed" => t \notin open
    BY <1>4 DEF AlsaPeriod, platform, deviceVars, history, Touch
  <2>3. ThreadsKept /\ DOMAIN thread' = DOMAIN thread
        /\ \A u \in DOMAIN thread : Live(u)' => Live(u)
    <3>1. CASE ThreadGoes(t, "done")
      BY <1>2, <3>1
    <3>2. ASSUME current = t, NEW u \in {None, stream},
                 thread' = [thread EXCEPT ![t].pc = "play", ![t].stream = u]
          PROVE  ThreadsKept /\ DOMAIN thread' = DOMAIN thread
                 /\ \A v \in DOMAIN thread : Live(v)' => Live(v)
      <4>1. ThreadsKept /\ \A v \in DOMAIN thread \ {t} : thread'[v] = thread[v]
        BY <1>0, <3>2, StreamTaken
      <4> QED  BY <1>1, <4>1 DEF ThreadsKept, Live, Lives, Past
    <3>3. CASE HasToken(t)
      <4>1. current = t /\ \E u \in {None, stream} :
                              thread' = [thread EXCEPT ![t].pc = "play", ![t].stream = u]
        BY <1>4, <3>3 DEF AlsaPeriod, HasToken
      <4> QED  BY <3>2, <4>1
    <3> QED  BY <1>4, <3>1, <3>3 DEF AlsaPeriod
  <2> QED  BY <1>0, <1>1, <2>1, <2>2, <2>3, ThreadsAreSilent
<1>5. CASE AlsaPlay(t)
  <2>1. /\ SetupsKept /\ ThreadsKept /\ remaining' \in Nat
        /\ ThreadGoes(t, "write") \/ UNCHANGED thread
    BY <1>0, <1>5, CountdownSteps DEF AlsaPlay
  <2>2. /\ UNCHANGED <<current, next, state, lostCb, stream, tid, call, setupCb, dev, open, closing,
                       overlap, broken, hwCall>>
        /\ fault' # "closed"
    BY <1>5 DEF AlsaPlay, owned, platform, deviceVars, history, Countdown
  <2>3. DOMAIN thread' = DOMAIN thread /\ \A u \in DOMAIN thread : Live(u)' => Live(u)
    BY <1>2, <2>1 DEF Live, Lives, Past
  <2> QED  BY <1>0, <2>1, <2>2, <2>3, ThreadsAreSilent
<1>6. CASE /\ thread[t].pc = "write" /\ Touch(t) /\ ThreadGoes(t, "loop")
           /\ UNCHANGED <<owned, call, forces, platform, remaining, setupCb, tid, req>>
  <2>1. SetupsKept
    BY <1>0, <1>6, NothingTold
  <2>2. /\ UNCHANGED <<current, next, state, lostCb, stream, tid, call, remaining, setupCb, dev,
                       open, closing, overlap, broken, hwCall>>
        /\ fault' = "closed" => t \notin open
    BY <1>6 DEF owned, platform, deviceVars, history, Touch
  <2>3. ThreadsKept /\ DOMAIN thread' = DOMAIN thread
        /\ \A u \in DOMAIN thread : Live(u)' => Live(u)
    BY <1>2, <1>6
  <2> QED  BY <1>0, <1>1, <2>1, <2>2, <2>3, ThreadsAreSilent
<1> QED  BY <1>3, <1>4, <1>5, <1>6

\* ALSA's first state
LEMMA AlsaInit ==
    ASSUME PlatformInit
    PROVE  AlsaInv
<1>1. CommonInv /\ LossesReported
  BY CommonInit DEF PlatformInit
<1>2. PcmFits
  BY DEF PlatformInit, Init, PcmFits, DeviceAccounted, SetsUp, NoCall, None
<1>3. PcmInTurn
  BY DEF PlatformInit, Init, PcmInTurn, ClosedInTime, InTurn, Turns, OneCaller, Idle, NoCall
<1> QED  BY <1>1, <1>2, <1>3 DEF AlsaInv

\* What it keeps
LEMMA AlsaFollows ==
    ASSUME AlsaInv
    PROVE  LossesReported /\ DeviceAccounted /\ ClosedInTime /\ PlaysOwnStream
BY DEF AlsaInv, PcmFits, PcmInTurn, CommonInv, StreamFits

\* Each of its steps
LEMMA AlsaStep ==
    ASSUME AlsaInv, AlsaNext
    PROVE  AlsaInv'
<1>0. /\ CommonInv /\ LossesReported /\ PcmFits /\ PcmInTurn /\ ClosedInTime /\ fault = "none"
      /\ Sessions \subseteq Callers /\ Others \subseteq Callers /\ next \in Nat
      /\ open = ({dev} \union {closing[d] : d \in Callers}) \ {None} /\ CallsFit
  BY DEF AlsaNext, AlsaInv, PcmInTurn, Callers, CommonInv, PlainFits, PcmFits, DeviceAccounted
<1>1. ASSUME CommonInv' /\ (LossesReported => LossesReported'), PcmFits', PcmInTurn'
      PROVE  AlsaInv'
  BY <1>0, <1>1 DEF AlsaInv
<1>2. ASSUME UNCHANGED <<hwCall, broken>>, fault' # "closed", overlap => overlap',
             ~overlap' /\ ~broken' => InTurn' /\ (\A t \in DOMAIN thread : Live(t) => t \in open)'
      PROVE  PcmInTurn'
  BY <1>0, <1>2 DEF PcmInTurn, ClosedInTime
\* A call enters and leaves the device alone.
<1>3. ASSUME NEW c \in Callers,
             SetupEnter(c) \/ ForceEnter(c) \/ (\E t \in Knows(c) : Teardown(c, t)),
             overlap' = (overlap \/ \E d \in Callers : ~Idle(d)), UNCHANGED <<open, hwCall, broken>>
      PROVE  PcmInTurn'
  <2>1. UNCHANGED <<thread, fault>>
    BY <1>3 DEF SetupEnter, ForceEnter, Teardown
  <2>2. ~overlap' /\ ~broken' => InTurn'
    BY <1>0, <1>3, TurnEnters DEF PcmInTurn, InTurn
  <2> QED  BY <1>0, <1>2, <1>3, <2>1, <2>2 DEF PcmInTurn, Live, Lives, Past
\* A call goes on that does not join.
<1>4. ASSUME NEW c \in Callers,
             \/ SetupRefused(c) \/ SetupResync(c) \/ SetupReturn(c) \/ SetupFail(c)
             \/ TellLost(c) \/ ForceReturn(c) \/ ForceRetry(c),
             open' = open \/ (StillCurrent(c) /\ call[c].pc = "check"),
             UNCHANGED <<hwCall, overlap, broken>>
      PROVE  PcmInTurn'
  <2>1. UNCHANGED <<thread, fault>>
    BY <1>4 DEF SetupRefused, SetupResync, SetupReturn, SetupFail, TellLost, ForceReturn, ForceRetry
  <2>2. ~overlap' /\ ~broken' => InTurn'
    BY <1>0, <1>4, TurnCalls DEF PcmInTurn, InTurn
  <2>3. CASE open' = open
    BY <1>0, <1>2, <1>4, <2>1, <2>2, <2>3 DEF PcmInTurn, Live, Lives, Past
  <2>4. CASE StillCurrent(c) /\ call[c].pc = "check"
    <3>1. state = "IDLE" /\ ~Idle(c) /\ ~Joins(c)
      BY <1>0, <2>4 DEF CommonInv, KicksBehind, StillCurrent, Behind, Idle, Joins
    <3>2. ~overlap /\ ~broken => \A t \in DOMAIN thread : ~Live(t)
      BY <1>0, <3>1, NobodyLives DEF PcmInTurn
    <3> QED  BY <1>0, <1>2, <1>4, <2>1, <2>2, <3>2 DEF Live, Lives, Past
  <2> QED  BY <1>4, <2>3, <2>4
<1>5. ASSUME NEW s \in Sessions, AlsaSession(s)
      PROVE  AlsaInv'
  <2>0. s \in Callers
    BY <1>0
  <2>1. CASE AlsaSetupEnter(s)
    <3>1. SetupEnter(s) /\ UNCHANGED <<dev, open, closing, hwCall, broken>>
          /\ overlap' = (overlap \/ \E d \in Callers : ~Idle(d))
      BY <2>1 DEF AlsaSetupEnter, Enters, deviceVars
    <3>2. CommonInv' /\ (LossesReported => LossesReported')
      BY <1>0, <2>0, <3>1, SharedSteps
    <3>3. PICK e : KickOf(s, NewCall("setup", Len(req) + 1), e)
      BY <1>0, <3>1, SetupKicksOff
    <3>4. ThreadsKept /\ UNCHANGED <<stream, tid, remaining, setupCb>>
      BY <1>0, <3>1, ThreadsAsTheyWere DEF SetupEnter
    <3> HIDE DEF KickOf, NewCall
    <3>5. PcmFits'
      BY <1>0, <2>0, <3>1, <3>3, <3>4, PcmKicks
    <3> QED  BY <1>1, <1>3, <2>0, <3>1, <3>2, <3>5
  <2>2. CASE AlsaSetupRefused(s)
    <3>1. SetupRefused(s) /\ call[s].pc = "check" /\ SetsUp(s) /\ UNCHANGED <<next, current, tid, state>>
      BY <2>2 DEF AlsaSetupRefused, SetupRefused, SetsUp, Behind
    <3>2. CommonInv' /\ (LossesReported => LossesReported')
      BY <1>0, <2>0, <3>1, SharedSteps
    <3>3. Onward(s)
      BY <1>0, <2>0, <3>1, CallsGoOn
    <3>4. PcmFits' /\ (open' = open \/ StillCurrent(s)) /\ UNCHANGED <<hwCall, overlap, broken>>
      <4>1. CASE UNCHANGED platform
        <5>1. UNCHANGED <<dev, open, closing, hwCall, overlap, broken>> /\ ~Joins(s)
          BY <3>1, <4>1 DEF platform, deviceVars, history, Joins
        <5> QED  BY <1>0, <2>0, <3>1, <3>3, <5>1, PcmGoesOn
      <4>2. ASSUME StillCurrent(s), NEW h \in {None, call[s].token}, Reopen(h)
            PROVE  /\ PcmFits' /\ (open' = open \/ StillCurrent(s))
                   /\ UNCHANGED <<hwCall, overlap, broken>>
        <5>1. state = "IDLE" /\ h \in 0..next'
          BY <1>0, <2>0, <3>1, <4>2 DEF CommonInv, KicksBehind, StillCurrent, Behind, CallsFit,
                                        CallFits, None
        <5>2. call'[s].pc = "refuse"
          <6>1. CallRecord(call[s]) /\ call = [d \in Callers |-> call[d]]
            BY <1>0, <2>0 DEF CallsFit, CallFits, CallRecord
          <6>2. call'[s] = [call[s] EXCEPT !.pc = "refuse"]
            BY <2>0, <3>1, <6>1 DEF SetupRefused, Goto
          <6> QED  BY <6>1, <6>2, CallPc
        <5>3. /\ dev' = h /\ open' = (open \ {dev}) \union ({h} \ {None})
              /\ UNCHANGED <<closing, hwCall, overlap, broken>>
              /\ ~SetsUp(s)' /\ next' \in Nat /\ next <= next'
              /\ \A d \in Callers \ {s} : call'[d] = call[d]
              /\ state' = "IDLE"
          BY <1>0, <3>1, <3>3, <4>2, <5>1, <5>2 DEF Reopen, history, SetsUp, Behind, Onward
        <5>4. h = None \/ (h = call[s].token /\ SetsUp(s))
          BY <3>1
        <5>5. PcmFits'
          BY <1>0, <2>0, <3>1, <5>1, <5>3, <5>4, PcmReopens
        <5> QED  BY <4>2, <5>3, <5>5
      <4> QED  BY <2>2, <4>1, <4>2 DEF AlsaSetupRefused
    <3> QED  BY <1>1, <1>4, <2>0, <3>1, <3>2, <3>4
  <2>3. CASE AlsaSetupGranted(s)
    <3>1. SetupGranted(s) /\ Reopen(next') /\ call[s].pc = "check"
      BY <2>3 DEF AlsaSetupGranted, SetupGranted
    <3>2. CommonInv' /\ (LossesReported => LossesReported')
      BY <1>0, <2>0, <3>1, SharedSteps
    <3>3. PICK k : Grants(s, next + 1, k)
      BY <1>0, <2>0, <3>1, SetupGrantedGrants
    <3>4. call'[s] = k /\ \A d \in Callers \ {s} : call'[d] = call[d]
      <4> HIDE DEF Grants
      <4> QED  BY <1>0, <2>0, <3>3, GrantsRecords
    <3>5. k.pc \notin Behind /\ next' = next + 1 /\ current' = next' /\ tid' = next'
          /\ UNCHANGED fault
      BY <3>1, <3>3 DEF Grants, SetupGranted
    <3>6. PcmFits'
      <4> DEFINE h == next'
      <4>1. /\ h \in 0..next' /\ dev' = h /\ open' = (open \ {dev}) \union ({h} \ {None})
            /\ UNCHANGED closing /\ next' \in Nat /\ next <= next' /\ h = next + 1
            /\ h = current' /\ tid' = current' /\ ~SetsUp(s)'
        BY <1>0, <3>1, <3>4, <3>5 DEF Reopen, SetsUp
      <4> HIDE DEF h
      <4> QED  BY <1>0, <2>0, <3>1, <3>4, <4>1, PcmReopens
    <3>7. ~overlap' /\ ~broken' => InTurn' /\ (\A t \in DOMAIN thread : Live(t) => t \in open)'
      <4>1. ~overlap' /\ ~broken' => InTurn'
        BY <1>0, <2>0, <3>1, TurnCalls DEF PcmInTurn, InTurn, Reopen, history
      <4>2. tid' \in open'
        BY <1>0, <3>1, <3>5 DEF Reopen, None
      <4>3. InTurn' => \A t \in DOMAIN thread' : Live(t)' => t = tid'
        BY DEF InTurn, Turns, Live
      <4> QED  BY <4>1, <4>2, <4>3
    <3>8. UNCHANGED <<hwCall, overlap, broken>> /\ fault' # "closed"
      BY <1>0, <3>1, <3>5 DEF Reopen, history
    <3>9. PcmInTurn'
      BY <1>2, <3>7, <3>8
    <3> QED  BY <1>1, <3>2, <3>6, <3>9
  <2>4. CASE AlsaSetupEnd(s)
    <3>1. /\ SetupResync(s) \/ SetupReturn(s) \/ SetupFail(s)
          /\ UNCHANGED <<dev, open, closing, hwCall, overlap, broken, next, current, tid, state>>
          /\ ~Joins(s)
      BY <2>4 DEF AlsaSetupEnd, platform, deviceVars, history, SetupResync, SetupReturn, SetupFail, owned, Joins
    <3>2. CommonInv' /\ (LossesReported => LossesReported')
      BY <1>0, <2>0, <3>1, SharedSteps
    <3>3. Onward(s)
      BY <1>0, <2>0, <3>1, CallsGoOn
    <3>4. PcmFits'
      BY <1>0, <2>0, <3>1, <3>3, PcmGoesOn
    <3>5. PcmInTurn'
      BY <1>4, <2>0, <3>1
    <3> QED  BY <1>1, <3>2, <3>4, <3>5
  <2>5. ASSUME NEW t \in Knows(s), AlsaTeardown(s, t)
        PROVE  AlsaInv'
    <3>1. /\ Teardown(s, t) /\ UNCHANGED <<open, hwCall, broken>>
          /\ overlap' = (overlap \/ \E d \in Callers : ~Idle(d))
      BY <2>5 DEF AlsaTeardown
    <3>2. CommonInv' /\ (LossesReported => LossesReported')
      BY <1>0, <2>0, <3>1, SharedSteps
    <3>3. PcmFits'
      BY <1>0, <2>5, PcmTaken
    <3> QED  BY <1>1, <1>3, <2>0, <3>1, <3>2, <3>3
  <2>6. ASSUME NEW t \in Knows(s), AlsaStart(s, t) \/ AlsaStop(s, t)
        PROVE  AlsaInv'
    <3>1. /\ Start(s, t) \/ Stop(s, t)
          /\ UNCHANGED <<dev, open, closing, hwCall, overlap, broken, next, current, tid, call, thread,
                         fault>>
          /\ state # "IDLE" /\ state' # "IDLE"
      BY <2>6 DEF AlsaStart, AlsaStop, Start, Stop, platform, deviceVars, history
    <3>2. CommonInv' /\ (LossesReported => LossesReported')
      BY <1>0, <2>0, <3>1, SharedSteps
    <3>3. PcmFits'
      BY <1>0, <3>1, PcmStays DEF Joins, SetsUp
    <3>4. PcmInTurn'
      <4>1. ~overlap /\ ~broken => InTurn'
        BY <1>0, <3>1, TurnThreads DEF PcmInTurn, InTurn, Live, Lives
      <4> QED  BY <1>0, <1>2, <3>1, <4>1 DEF PcmInTurn, Live, Lives, Past
    <3> QED  BY <1>1, <3>2, <3>3, <3>4
  <2> QED  BY <1>5, <2>1, <2>2, <2>3, <2>4, <2>5, <2>6 DEF AlsaSession
<1>6. ASSUME NEW o \in Others, AlsaForceEnter(o) \/ AlsaForceEnd(o)
      PROVE  AlsaInv'
  <2>0. o \in Callers
    BY <1>0
  <2>1. CASE (ForceEnter(o) /\ Enters) \/ (ForceRetry(o) /\ UNCHANGED platform)
    <3>1. CommonInv' /\ (LossesReported => LossesReported')
      BY <1>0, <2>0, <2>1, SharedSteps
    <3>2. PICK k, e : KickOf(o, k, e)
      BY <1>0, <2>0, <2>1, ForceKicksOff
    <3>3. /\ ThreadsKept /\ UNCHANGED <<stream, tid, remaining, setupCb>>
          /\ UNCHANGED <<dev, open, closing, hwCall, broken>>
      BY <1>0, <2>1, ThreadsAsTheyWere DEF ForceEnter, ForceRetry, Enters, platform, deviceVars, history
    <3> HIDE DEF KickOf
    <3>4. PcmFits'
      BY <1>0, <2>0, <3>2, <3>3, PcmKicks
    <3>5. CASE ForceEnter(o) /\ Enters
      <4>1. overlap' = (overlap \/ \E d \in Callers : ~Idle(d))
        BY <3>5 DEF Enters
      <4>2. PcmInTurn'
        BY <1>3, <2>0, <3>3, <3>5, <4>1
      <4> QED  BY <1>1, <3>1, <3>4, <4>2
    <3>6. CASE ForceRetry(o) /\ UNCHANGED platform
      <4>1. UNCHANGED <<open, hwCall, overlap, broken>>
        BY <3>6 DEF platform, deviceVars, history
      <4>2. PcmInTurn'
        BY <1>4, <2>0, <3>3, <3>6, <4>1
      <4> QED  BY <1>1, <3>1, <3>4, <4>2
    <3> QED  BY <2>1, <3>5, <3>6
  <2>2. CASE ForceReturn(o) /\ ClosePcm /\ UNCHANGED <<closing, hwCall, history>>
    <3>1. CommonInv' /\ (LossesReported => LossesReported')
      BY <1>0, <2>0, <2>2, SharedSteps
    <3>2. /\ StillCurrent(o) /\ call[o].pc = "check" /\ call[o].op = "force"
          /\ UNCHANGED <<next, current, state, tid>> /\ call' = [call EXCEPT ![o] = NoCall]
          /\ dev' = None /\ open' = open \ {dev}
      BY <2>2 DEF ForceReturn, ClosePcm, Return
    <3>3. state = "IDLE" /\ \A d \in Callers \ {o} : call'[d] = call[d]
      BY <1>0, <2>0, <3>2 DEF CommonInv, KicksBehind, StillCurrent, Behind, CallsFit
    <3>4. call'[o] = NoCall
      BY <1>0, <2>0, <3>2 DEF CallsFit
    <3>5. PcmFits'
      <4> DEFINE h == None
      <4>1. /\ h \in 0..next' /\ dev' = h /\ open' = (open \ {dev}) \union ({h} \ {None})
            /\ next' \in Nat /\ next <= next' /\ h = None /\ state' = "IDLE" /\ ~SetsUp(o)'
        BY <1>0, <3>2, <3>3, <3>4 DEF None, SetsUp, NoCall
      <4> HIDE DEF h
      <4> QED  BY <1>0, <2>0, <2>2, <3>2, <3>3, <4>1, PcmReopens
    <3>6. UNCHANGED <<hwCall, overlap, broken>>
      BY <2>2 DEF history
    <3>7. ForceReturn(o)
      BY <2>2
    <3>8. StillCurrent(o) /\ call[o].pc = "check"
      BY <3>2
    <3>9. PcmInTurn'
      BY <1>4, <2>0, <3>6, <3>7, <3>8
    <3> QED  BY <1>1, <3>1, <3>5, <3>9
  <2> QED  BY <1>6, <2>1, <2>2 DEF AlsaForceEnter, AlsaForceEnd
<1>7. ASSUME NEW c \in Callers, AlsaTellLost(c)
      PROVE  AlsaInv'
  <2>1. /\ TellLost(c) /\ ~Joins(c)
        /\ UNCHANGED <<dev, open, closing, hwCall, overlap, broken, next, current, tid, state>>
    BY <1>7 DEF AlsaTellLost, TellLost, platform, deviceVars, history, owned, Joins
  <2>2. CommonInv' /\ (LossesReported => LossesReported')
    BY <1>0, <2>1, SharedSteps
  <2>3. Onward(c)
    BY <1>0, <2>1, CallsGoOn
  <2>4. PcmFits'
    BY <1>0, <2>1, <2>3, PcmGoesOn
  <2>5. PcmInTurn'
    BY <1>4, <2>1
  <2> QED  BY <1>1, <2>2, <2>4, <2>5
<1>8. ASSUME NEW c \in Callers, AlsaJoin(c)
      PROVE  AlsaInv'
  <2>1. /\ (SelfJoin(c) \/ JoinBegin(c) \/ JoinEnd(c)) /\ Joins(c)
        /\ UNCHANGED <<dev, hwCall, overlap, broken, next, current, tid, state>> /\ fault' # "closed"
    BY <1>0, <1>8 DEF history, AlsaJoin, Join, SelfJoin, JoinBegin, JoinEnd, owned, Joins
  <2>2. CommonInv' /\ (LossesReported => LossesReported')
    BY <1>0, <2>1, SharedSteps
  <2>3. Onward(c)
    BY <1>0, <2>1, CallsGoOn
  <2>4. \/ Joins(c)' /\ UNCHANGED <<open, closing>>
        \/ ~Joins(c)' /\ open' = open \ {closing[c]} /\ closing' = [closing EXCEPT ![c] = None]
    BY <1>8 DEF AlsaJoin, Joins
  <2>5. PcmFits'
    BY <1>0, <2>1, <2>3, <2>4, PcmGoesOn, PcmClosed
  <2>6. ASSUME ~overlap, ~broken
        PROVE  InTurn' /\ (\A t \in DOMAIN thread : Live(t) => t \in open)'
    <3>1. ~SelfJoin(c)
      BY <1>0, <2>6 DEF PcmInTurn, SelfJoin
    <3>2. InTurn /\ InTurn' /\ \A t \in DOMAIN thread : Live(t) => t \in open
      BY <1>0, <2>1, <2>6, <3>1, TurnJoins DEF PcmInTurn, InTurn
    <3>3. DOMAIN thread' = DOMAIN thread /\ \A t \in DOMAIN thread : Live(t)' => Live(t)
      BY <1>0, <2>1, <3>1, JoinsEnd DEF Live
    <3>4. CASE Joins(c)'
      BY <2>4, <3>2, <3>3, <3>4
    <3>5. CASE ~Joins(c)' /\ state = "IDLE"
      <4>1. \A d \in Callers : ~Joins(d)'
        BY <2>1, <2>3, <3>2, <3>5 DEF InTurn, Turns, OneCaller, Onward, Joins, Idle
      <4> QED  BY <2>1, <3>2, <3>5, <4>1 DEF InTurn, Turns, Live
    <3>6. CASE ~Joins(c)' /\ state # "IDLE"
      <4>1. ASSUME NEW t \in DOMAIN thread', Live(t)' PROVE t \in open'
        <5>1. t = tid /\ t \in open
          BY <2>1, <3>2, <3>3, <4>1 DEF InTurn, Turns, Live
        <5>2. dev = tid
          BY <1>0, <3>6 DEF PcmFits, DeviceAccounted
        <5>3. closing[c] # dev \/ closing[c] = None
          BY <1>0 DEF PcmFits
        <5> QED  BY <1>0, <2>4, <3>6, <5>1, <5>2, <5>3
      <4> QED  BY <3>2, <4>1
    <3> QED  BY <3>4, <3>5, <3>6
  <2>7. PcmInTurn'
    BY <1>2, <2>1, <2>6
  <2> QED  BY <1>1, <2>2, <2>5, <2>7
<1>9. ASSUME NEW t \in DOMAIN thread, AlsaThread(t)
      PROVE  AlsaInv'
  <2>1. CASE \/ AlsaBegin(t) \/ AlsaPeriod(t) \/ AlsaPlay(t) \/ AlsaResume(t)
             \/ /\ thread[t].pc = "write" /\ Touch(t) /\ ThreadGoes(t, "loop")
                /\ UNCHANGED <<owned, call, forces, platform, remaining, setupCb, tid, req>>
    <3>1. /\ Silent /\ UNCHANGED <<call, tid, current, next, state, dev, open, closing, overlap>>
          /\ DOMAIN thread' = DOMAIN thread /\ \A u \in DOMAIN thread : Live(u)' => Live(u)
          /\ fault' = "closed" => t \notin open /\ Live(t)
          /\ broken => broken'
          /\ UNCHANGED hwCall \/ \E o \in Others : hwCall[o] # None
      BY <1>0, <2>1, AlsaThreads DEF AlsaInv
    <3>2. CommonInv' /\ (LossesReported => LossesReported')
      BY <1>0, <3>1, SilentStep
    <3>3. PcmFits'
      BY <1>0, <3>1, PcmStays DEF Joins, SetsUp
    <3>4. ASSUME ~overlap', ~broken'
          PROVE  InTurn' /\ (\A u \in DOMAIN thread : Live(u) => u \in open)'
      <4>1. InTurn'
        BY <1>0, <3>1, <3>4, TurnThreads DEF PcmInTurn, InTurn, Live
      <4> QED  BY <1>0, <3>1, <3>4, <4>1 DEF PcmInTurn
    <3>5. ClosedInTime' /\ (~broken' => \A o \in Others : hwCall'[o] = None)
      BY <1>0, <3>1 DEF PcmInTurn, ClosedInTime
    <3> QED  BY <1>1, <3>2, <3>3, <3>4, <3>5 DEF PcmInTurn
  <2>2. ASSUME NEW o \in Others, Idle(o), Kick(o, [NoCall EXCEPT !.op = "force"]), broken',
               ThreadGoes(t, "gone"), UNCHANGED <<stream, remaining, setupCb, tid, req, deviceVars>>
        PROVE  AlsaInv'
    <3>1. ThreadsKept
      BY <1>0, <2>2, ThreadGoesKept
    <3>2. PICK k, e : KickOf(o, k, e)
      BY <1>0, <2>2, ForceKicksOff
    <3>3. UNCHANGED <<dev, open, closing>>
      BY <2>2 DEF deviceVars
    <3> HIDE DEF KickOf
    <3>4. CommonInv' /\ (LossesReported => LossesReported')
      BY <1>0, <2>2, <3>1, <3>2, KickOfCommon
    <3>5. PcmFits'
      BY <1>0, <2>2, <3>1, <3>2, <3>3, PcmKicks
    <3>6. PcmInTurn'
      BY <2>2 DEF PcmInTurn, ClosedInTime
    <3> QED  BY <1>1, <3>4, <3>5, <3>6
  <2>3. CASE AlsaWrite(t)
    BY <2>1, <2>2, <2>3 DEF AlsaWrite, ThreadForces
  <2> QED  BY <1>9, <2>1, <2>3 DEF AlsaThread
<1> QED  BY <1>5, <1>6, <1>7, <1>8, <1>9 DEF AlsaNext

-----------------------------------------------------------------------------
(***************************************************************************)
(* WASAPI                                                                  *)
(***************************************************************************)

\* The thread t has not called the setup callback yet, and will.
Due(t) == thread[t].cb /\ thread[t].pc \in {"fill", "play", "buffer", "exit"}

\* The setup r was answered, if there is one.
Told(r) == r # None => req[r].answers = 1

ThreadRecord(k) ==
    k = [pc |-> k.pc, stream |-> k.stream, left |-> k.left, req |-> k.req, cb |-> k.cb,
         lost |-> k.lost, fate |-> k.fate]

\* What a thread is: it has called the setup callback before it tells or is told of a loss.
ClientThread(t) ==
    /\ ThreadRecord(thread[t])
    /\ thread[t].req \in DOMAIN req /\ thread[t].lost \in DOMAIN req \union {None}
    /\ thread[t].left \in Nat
    /\ thread[t].pc \in {"fill", "play", "store", "buffer", "exit", "tell", "end", "failed",
                         "done", "joined"}
    /\ thread[t].cb => thread[t].pc \notin {"store", "tell", "end"}
    /\ thread[t].left > 0 /\ thread[t].pc \in {"fill", "play", "buffer"} => thread[t].cb
    /\ thread[t].pc = "store" => thread[t].left = 0
    /\ thread[t].pc = "tell" => thread[t].lost # None
    /\ thread[t].pc = "failed" => broken
    /\ ~thread[t].cb => Told(thread[t].req)
    /\ Told(thread[t].lost)

\* A setup that was not answered is still to be, by one call or by one thread.
AnswersDue ==
    /\ \A r \in DOMAIN req :
          /\ req[r].answers \in {0, 1}
          /\ req[r].answers = 0 => \/ \E c \in Callers : call[c].req = r
                                   \/ \E t \in DOMAIN thread : Due(t) /\ thread[t].req = r
    /\ \A c \in Callers :
          /\ call[c].op # "setup" => call[c].req = None
          /\ call[c].req # None =>
                /\ req[call[c].req].answers = 0
                /\ \A t \in DOMAIN thread : Due(t) => thread[t].req # call[c].req
    /\ \A t \in DOMAIN thread : Due(t) =>
          /\ req[thread[t].req].answers = 0
          /\ \A u \in DOMAIN thread \ {t} : Due(u) => thread[u].req # thread[t].req

\* Only a setup that was answered is told of a loss.
LossesFit ==
    /\ \A r \in DOMAIN req : req[r].losses > 0 => Told(r)
    /\ Told(lostCb) /\ \A c \in Callers : Told(call[c].lost)

\* The owner's thread ends only when the device broke, and when it has called the callback.
OwnerPlays ==
    state # "IDLE" =>
        /\ thread[tid].pc # "failed"
        /\ thread[tid].pc \in {"exit", "tell", "end", "done", "joined"} => broken
        /\ thread[tid].pc \in {"done", "joined"} => ~thread[tid].cb

\* The threads that live have the clients; a setup in progress has none yet.
ClientsFit ==
    /\ open \subseteq {t \in DOMAIN thread : Live(t)}
    /\ \A c \in Callers : SetsUp(c) => call[c].token # None /\ call[c].token \notin DOMAIN thread

WasapiInv ==
    /\ CommonInv /\ AnswersDue /\ LossesFit /\ OwnerPlays /\ ClientsFit
    /\ \A t \in DOMAIN thread : ClientThread(t)
    /\ ~overlap /\ ~broken => InTurn

\* WASAPI's first state
LEMMA WasapiInit ==
    ASSUME PlatformInit
    PROVE  WasapiInv
<1>1. CommonInv
  BY CommonInit DEF PlatformInit
<1>2. AnswersDue /\ LossesFit /\ OwnerPlays /\ ClientsFit /\ InTurn /\ DOMAIN thread = {}
  BY DEF PlatformInit, Init, AnswersDue, LossesFit, OwnerPlays, ClientsFit, InTurn, Turns, OneCaller, Idle,
         NoCall, Told, SetsUp
<1> QED  BY <1>1, <1>2 DEF WasapiInv

\* What the properties of the module follow from: the threads that live are one at most
LEMMA WasapiFollows ==
    ASSUME WasapiInv
    PROVE  AnsweredOnce /\ OwnersKnow /\ OneClient /\ PlaysOwnStream
<1>0. /\ AnswersDue /\ LossesFit /\ OwnerPlays /\ ClientsFit /\ PlainFits /\ PlaysOwnStream
      /\ \A t \in DOMAIN thread : ClientThread(t)
      /\ None \notin DOMAIN req
  BY SetupsTyped DEF WasapiInv, CommonInv, StreamFits, PlainFits
<1>1. AnsweredOnce
  BY <1>0 DEF AnsweredOnce, AnswersDue, Due
<1>2. OwnersKnow
  <2>1. \A r \in DOMAIN req : req[r].losses > 0 => req[r].answers = 1
    BY <1>0 DEF LossesFit, Told
  <2>2. ASSUME state # "IDLE", thread[tid].pc \in {"end", "done", "joined"}
        PROVE  req[thread[tid].req].answers = 1 /\ broken
    <3>1. tid \in DOMAIN thread
      BY <1>0, <2>2 DEF PlainFits
    <3>2. ClientThread(tid) /\ broken /\ ~thread[tid].cb
      BY <1>0, <2>2, <3>1 DEF OwnerPlays, ClientThread
    <3> QED  BY <1>0, <3>2 DEF ClientThread, Told
  <2> QED  BY <1>0, <2>1, <2>2 DEF OwnersKnow, PlainFits
<1>3. OneClient
  <2>1. ASSUME ~overlap, ~broken
        PROVE  Cardinality(open) <= 1
    <3>1. open \subseteq {tid}
      BY <1>0, <2>1 DEF WasapiInv, InTurn, Turns, Live, ClientsFit
    <3>2. IsFiniteSet({tid}) /\ Cardinality({tid}) = 1
      BY FS_Singleton
    <3> QED  BY <3>1, <3>2, FS_Subset
  <2> QED  BY <2>1 DEF OneClient
<1> QED  BY <1>0, <1>1, <1>2, <1>3

\* The record of a thread with one field changed
LEMMA ThreadPc ==
    ASSUME NEW k, ThreadRecord(k), NEW x
    PROVE  /\ ThreadRecord([k EXCEPT !.pc = x]) /\ [k EXCEPT !.pc = x].pc = x
           /\ [k EXCEPT !.pc = x].stream = k.stream
           /\ [k EXCEPT !.pc = x].left = k.left
           /\ [k EXCEPT !.pc = x].req = k.req
           /\ [k EXCEPT !.pc = x].cb = k.cb
           /\ [k EXCEPT !.pc = x].lost = k.lost
           /\ [k EXCEPT !.pc = x].fate = k.fate
<1>1. PICK at, s, l, r, b, o, f :
         k = [pc |-> at, stream |-> s, left |-> l, req |-> r, cb |-> b, lost |-> o,
              fate |-> f]
  BY DEF ThreadRecord
<1> DEFINE e == [k EXCEPT !.pc = x]
<1>2. e = [pc |-> x, stream |-> s, left |-> l, req |-> r, cb |-> b, lost |-> o,
           fate |-> f]
  BY <1>1
<1> HIDE DEF e
<1>3. /\ ThreadRecord(e) /\ e.pc = x
      /\ e.stream = k.stream /\ e.left = k.left /\ e.req = k.req /\ e.cb = k.cb /\ e.lost = k.lost
      /\ e.fate = k.fate
  BY <1>1, <1>2 DEF ThreadRecord
<1> QED  BY <1>3 DEF e

\* ... its stream
LEMMA ThreadStream ==
    ASSUME NEW k, ThreadRecord(k), NEW x
    PROVE  /\ ThreadRecord([k EXCEPT !.stream = x]) /\ [k EXCEPT !.stream = x].stream = x
           /\ [k EXCEPT !.stream = x].pc = k.pc
           /\ [k EXCEPT !.stream = x].left = k.left
           /\ [k EXCEPT !.stream = x].req = k.req
           /\ [k EXCEPT !.stream = x].cb = k.cb
           /\ [k EXCEPT !.stream = x].lost = k.lost
           /\ [k EXCEPT !.stream = x].fate = k.fate
<1>1. PICK at, s, l, r, b, o, f :
         k = [pc |-> at, stream |-> s, left |-> l, req |-> r, cb |-> b, lost |-> o,
              fate |-> f]
  BY DEF ThreadRecord
<1> DEFINE e == [k EXCEPT !.stream = x]
<1>2. e = [pc |-> at, stream |-> x, left |-> l, req |-> r, cb |-> b, lost |-> o,
           fate |-> f]
  BY <1>1
<1> HIDE DEF e
<1>3. /\ ThreadRecord(e) /\ e.stream = x
      /\ e.pc = k.pc /\ e.left = k.left /\ e.req = k.req /\ e.cb = k.cb /\ e.lost = k.lost
      /\ e.fate = k.fate
  BY <1>1, <1>2 DEF ThreadRecord
<1> QED  BY <1>3 DEF e

\* ... what is left of the resync delay
LEMMA ThreadLeft ==
    ASSUME NEW k, ThreadRecord(k), NEW x
    PROVE  /\ ThreadRecord([k EXCEPT !.left = x]) /\ [k EXCEPT !.left = x].left = x
           /\ [k EXCEPT !.left = x].pc = k.pc
           /\ [k EXCEPT !.left = x].stream = k.stream
           /\ [k EXCEPT !.left = x].req = k.req
           /\ [k EXCEPT !.left = x].cb = k.cb
           /\ [k EXCEPT !.left = x].lost = k.lost
           /\ [k EXCEPT !.left = x].fate = k.fate
<1>1. PICK at, s, l, r, b, o, f :
         k = [pc |-> at, stream |-> s, left |-> l, req |-> r, cb |-> b, lost |-> o,
              fate |-> f]
  BY DEF ThreadRecord
<1> DEFINE e == [k EXCEPT !.left = x]
<1>2. e = [pc |-> at, stream |-> s, left |-> x, req |-> r, cb |-> b, lost |-> o,
           fate |-> f]
  BY <1>1
<1> HIDE DEF e
<1>3. /\ ThreadRecord(e) /\ e.left = x
      /\ e.pc = k.pc /\ e.stream = k.stream /\ e.req = k.req /\ e.cb = k.cb /\ e.lost = k.lost
      /\ e.fate = k.fate
  BY <1>1, <1>2 DEF ThreadRecord
<1> QED  BY <1>3 DEF e

\* ... whether it owes the callback
LEMMA ThreadCb ==
    ASSUME NEW k, ThreadRecord(k), NEW x
    PROVE  /\ ThreadRecord([k EXCEPT !.cb = x]) /\ [k EXCEPT !.cb = x].cb = x
           /\ [k EXCEPT !.cb = x].pc = k.pc
           /\ [k EXCEPT !.cb = x].stream = k.stream
           /\ [k EXCEPT !.cb = x].left = k.left
           /\ [k EXCEPT !.cb = x].req = k.req
           /\ [k EXCEPT !.cb = x].lost = k.lost
           /\ [k EXCEPT !.cb = x].fate = k.fate
<1>1. PICK at, s, l, r, b, o, f :
         k = [pc |-> at, stream |-> s, left |-> l, req |-> r, cb |-> b, lost |-> o,
              fate |-> f]
  BY DEF ThreadRecord
<1> DEFINE e == [k EXCEPT !.cb = x]
<1>2. e = [pc |-> at, stream |-> s, left |-> l, req |-> r, cb |-> x, lost |-> o,
           fate |-> f]
  BY <1>1
<1> HIDE DEF e
<1>3. /\ ThreadRecord(e) /\ e.cb = x
      /\ e.pc = k.pc /\ e.stream = k.stream /\ e.left = k.left /\ e.req = k.req /\ e.lost = k.lost
      /\ e.fate = k.fate
  BY <1>1, <1>2 DEF ThreadRecord
<1> QED  BY <1>3 DEF e

\* ... the loss that it tells
LEMMA ThreadLost ==
    ASSUME NEW k, ThreadRecord(k), NEW x
    PROVE  /\ ThreadRecord([k EXCEPT !.lost = x]) /\ [k EXCEPT !.lost = x].lost = x
           /\ [k EXCEPT !.lost = x].pc = k.pc
           /\ [k EXCEPT !.lost = x].stream = k.stream
           /\ [k EXCEPT !.lost = x].left = k.left
           /\ [k EXCEPT !.lost = x].req = k.req
           /\ [k EXCEPT !.lost = x].cb = k.cb
           /\ [k EXCEPT !.lost = x].fate = k.fate
<1>1. PICK at, s, l, r, b, o, f :
         k = [pc |-> at, stream |-> s, left |-> l, req |-> r, cb |-> b, lost |-> o,
              fate |-> f]
  BY DEF ThreadRecord
<1> DEFINE e == [k EXCEPT !.lost = x]
<1>2. e = [pc |-> at, stream |-> s, left |-> l, req |-> r, cb |-> b, lost |-> x,
           fate |-> f]
  BY <1>1
<1> HIDE DEF e
<1>3. /\ ThreadRecord(e) /\ e.lost = x
      /\ e.pc = k.pc /\ e.stream = k.stream /\ e.left = k.left /\ e.req = k.req /\ e.cb = k.cb
      /\ e.fate = k.fate
  BY <1>1, <1>2 DEF ThreadRecord
<1> QED  BY <1>3 DEF e

\* ... and what became of its callbacks
LEMMA ThreadFate ==
    ASSUME NEW k, ThreadRecord(k), NEW x
    PROVE  /\ ThreadRecord([k EXCEPT !.fate = x]) /\ [k EXCEPT !.fate = x].fate = x
           /\ [k EXCEPT !.fate = x].pc = k.pc
           /\ [k EXCEPT !.fate = x].stream = k.stream
           /\ [k EXCEPT !.fate = x].left = k.left
           /\ [k EXCEPT !.fate = x].req = k.req
           /\ [k EXCEPT !.fate = x].cb = k.cb
           /\ [k EXCEPT !.fate = x].lost = k.lost
<1>1. PICK at, s, l, r, b, o, f :
         k = [pc |-> at, stream |-> s, left |-> l, req |-> r, cb |-> b, lost |-> o,
              fate |-> f]
  BY DEF ThreadRecord
<1> DEFINE e == [k EXCEPT !.fate = x]
<1>2. e = [pc |-> at, stream |-> s, left |-> l, req |-> r, cb |-> b, lost |-> o,
           fate |-> x]
  BY <1>1
<1> HIDE DEF e
<1>3. /\ ThreadRecord(e) /\ e.fate = x
      /\ e.pc = k.pc /\ e.stream = k.stream /\ e.left = k.left /\ e.req = k.req /\ e.cb = k.cb
      /\ e.lost = k.lost
  BY <1>1, <1>2 DEF ThreadRecord
<1> QED  BY <1>3 DEF e

\* The thread t is at pc and has the stream s; it owes the callback or not, and tells a loss.
Becomes(t, at, s, l, due, lost) ==
    /\ DOMAIN thread' = DOMAIN thread /\ \A u \in DOMAIN thread \ {t} : thread'[u] = thread[u]
    /\ ThreadRecord(thread'[t]) /\ thread'[t].req = thread[t].req
    /\ thread'[t].pc = at /\ thread'[t].stream = s /\ thread'[t].left = l
    /\ thread'[t].cb = due /\ thread'[t].lost = lost

\* A thread that goes on becomes the same, at another place.
LEMMA ThreadMoves ==
    ASSUME NEW t \in DOMAIN thread, ThreadRecord(thread[t]), NEW pc, ThreadGoes(t, pc)
    PROVE  /\ Becomes(t, pc, thread[t].stream, thread[t].left, thread[t].cb, thread[t].lost)
           /\ thread'[t].fate = thread[t].fate
<1> DEFINE k == [thread[t] EXCEPT !.pc = pc]
<1>1. thread' = [thread EXCEPT ![t] = k]
  BY DEF ThreadGoes
<1>2. /\ ThreadRecord(k) /\ k.pc = pc /\ k.stream = thread[t].stream /\ k.left = thread[t].left
      /\ k.req = thread[t].req /\ k.cb = thread[t].cb /\ k.lost = thread[t].lost
      /\ k.fate = thread[t].fate
  BY ThreadPc
<1> HIDE DEF k, ThreadRecord
<1> QED  BY <1>1, <1>2 DEF Becomes

\* A thread that is as it was, while what was answered stays answered
LEMMA ClientStays ==
    ASSUME NEW t \in DOMAIN thread, ClientThread(t), thread'[t] = thread[t],
           DOMAIN req \subseteq DOMAIN req', broken => broken',
           \A r \in DOMAIN req : req[r].answers = 1 => req'[r].answers = 1
    PROVE  ClientThread(t)'
BY DEF ClientThread, Told

\* No answer is given, and the calls and the threads that owe one go on owing it.
LEMMA AnswersWait ==
    ASSUME AnswersDue, DOMAIN req' = DOMAIN req,
           \A r \in DOMAIN req : req'[r].answers = req[r].answers,
           \A c \in Callers : /\ call[c].req \in DOMAIN req \union {None}
                              /\ call'[c].req = call[c].req
                              /\ call'[c].op = call[c].op \/ call[c].req = None,
           DOMAIN thread' = DOMAIN thread,
           \A t \in DOMAIN thread : /\ thread[t].req \in DOMAIN req
                                    /\ thread'[t].req = thread[t].req
                                    /\ Due(t)' <=> Due(t)
    PROVE  AnswersDue'
<1> HIDE DEF Due
<1>1. ASSUME NEW r \in DOMAIN req'
      PROVE  (/\ req[r].answers \in {0, 1}
              /\ req[r].answers = 0 => \/ \E c \in Callers : call[c].req = r
                                       \/ \E t \in DOMAIN thread : Due(t) /\ thread[t].req = r)'
  BY DEF AnswersDue
<1>2. ASSUME NEW c \in Callers
      PROVE  (/\ call[c].op # "setup" => call[c].req = None
              /\ call[c].req # None =>
                    /\ req[call[c].req].answers = 0
                    /\ \A t \in DOMAIN thread : Due(t) => thread[t].req # call[c].req)'
  BY DEF AnswersDue
<1>3. ASSUME NEW t \in DOMAIN thread', Due(t)'
      PROVE  (/\ req[thread[t].req].answers = 0
              /\ \A u \in DOMAIN thread \ {t} : Due(u) => thread[u].req # thread[t].req)'
  BY <1>3 DEF AnswersDue
<1> QED  BY <1>1, <1>2, <1>3 DEF AnswersDue

\* A thread is as it was, or it was joined.
ClientsJoin ==
    /\ DOMAIN thread' = DOMAIN thread
    /\ \A t \in DOMAIN thread :
          /\ ThreadRecord(thread'[t])
          /\ thread'[t].req = thread[t].req /\ thread'[t].cb = thread[t].cb
          /\ thread'[t].lost = thread[t].lost /\ thread'[t].left = thread[t].left
          /\ thread'[t].fate = thread[t].fate
          /\ \/ thread'[t].pc = thread[t].pc
             \/ thread[t].pc = "done" /\ thread'[t].pc = "joined"

\* The calls leave the threads as they are, but that they join them.
LEMMA CallsLeaveClients ==
    ASSUME WasapiInv, NEW c \in Callers, UNCHANGED thread \/ JoinEnd(c)
    PROVE  ClientsJoin
<1>0. \A t \in DOMAIN thread : ClientThread(t)
  BY DEF WasapiInv
<1>1. CASE JoinEnd(c)
  <2> DEFINE t == call[c].target
  <2>1. ThreadGoes(t, "joined") /\ thread[t].pc = "done"
    BY <1>1 DEF JoinEnd, ThreadGoes
  <2>2. CASE t \in DOMAIN thread
    <3>1. ThreadRecord(thread[t])
      BY <1>0, <2>2 DEF ClientThread
    <3>2. /\ Becomes(t, "joined", thread[t].stream, thread[t].left, thread[t].cb, thread[t].lost)
          /\ thread'[t].fate = thread[t].fate
      BY <2>1, <2>2, <3>1, ThreadMoves
    <3> QED  BY <1>0, <2>1, <3>2 DEF Becomes, ClientsJoin, ClientThread
  <2>3. CASE t \notin DOMAIN thread
    <3>1. DOMAIN thread' = DOMAIN thread /\ \A u \in DOMAIN thread : thread'[u] = thread[u]
      BY <2>1, <2>3 DEF ThreadGoes
    <3> QED  BY <1>0, <2>1, <3>1 DEF ClientsJoin, ClientThread
  <2> QED  BY <2>2, <2>3
<1>2. CASE UNCHANGED thread
  BY <1>0, <1>2 DEF ClientsJoin, ClientThread
<1> QED  BY <1>1, <1>2

\* A step of a call that leaves the device alone
LEMMA WasapiRest ==
    ASSUME WasapiInv, CommonInv', ClientsJoin, UNCHANGED <<open, broken, tid>>,
           DOMAIN req \subseteq DOMAIN req',
           \A r \in DOMAIN req : req[r].answers = 1 => req'[r].answers = 1,
           \A r \in DOMAIN req' : req'[r].losses > 0 =>
               r \in DOMAIN req /\ (req[r].losses > 0 \/ Told(r)),
           lostCb' \in {lostCb, None},
           \A c \in Callers : call'[c].lost \in {call[c].lost, lostCb, None},
           \A c \in Callers : SetsUp(c)' => \/ call'[c].token = next + 1
                                            \/ SetsUp(c) /\ call'[c].token = call[c].token,
           state' = "IDLE" \/ state # "IDLE"
    PROVE  /\ LossesFit' /\ OwnerPlays' /\ ClientsFit'
           /\ \A t \in DOMAIN thread' : ClientThread(t)'
           /\ \A t \in DOMAIN thread : Due(t)' <=> Due(t)
<1>0. /\ LossesFit /\ OwnerPlays /\ ClientsFit /\ PlainFits /\ CallsFit
      /\ \A t \in DOMAIN thread : ClientThread(t)
      /\ None \notin DOMAIN req
  BY SetupsTyped DEF WasapiInv, CommonInv, PlainFits
<1>1. /\ lostCb \in DOMAIN req \union {None}
      /\ \A c \in Callers : call[c].lost \in DOMAIN req \union {None}
  BY <1>0 DEF PlainFits, CallsFit, CallFits
<1>2. \A r \in DOMAIN req \union {None} : Told(r) => Told(r)'
  BY DEF Told
<1>3. LossesFit'
  <2>1. \A r \in DOMAIN req' : req'[r].losses > 0 => Told(r)'
    BY <1>0, <1>2 DEF LossesFit
  <2>2. Told(lostCb)' /\ \A c \in Callers : Told(call[c].lost)'
    <3>1. Told(None)'
      BY DEF Told
    <3>2. Told(lostCb) /\ \A c \in Callers : Told(call[c].lost)
      BY <1>0 DEF LossesFit
    <3>3. \A x \in {lostCb, None} : (x # None => req'[x].answers = 1)
      BY <1>1, <3>2 DEF Told
    <3>4. \A c \in Callers : \A x \in {call[c].lost, lostCb, None} : (x # None => req'[x].answers = 1)
      BY <1>1, <3>2 DEF Told
    <3> QED  BY <3>3, <3>4 DEF Told
  <2> QED  BY <2>1, <2>2 DEF LossesFit
<1>4. ASSUME NEW t \in DOMAIN thread
      PROVE  ClientThread(t)' /\ (Due(t)' <=> Due(t))
  <2>1. ClientThread(t)
    BY <1>0
  <2>2. /\ ThreadRecord(thread'[t])
        /\ thread'[t].req = thread[t].req /\ thread'[t].cb = thread[t].cb
        /\ thread'[t].lost = thread[t].lost /\ thread'[t].left = thread[t].left
        /\ thread'[t].fate = thread[t].fate
        /\ \/ thread'[t].pc = thread[t].pc
           \/ thread[t].pc = "done" /\ thread'[t].pc = "joined"
    BY DEF ClientsJoin
  <2> HIDE DEF ThreadRecord
  <2> QED  BY <2>1, <2>2 DEF ClientThread, Due, Told
<1>5. OwnerPlays'
  <2>1. ASSUME state' # "IDLE"
        PROVE  tid \in DOMAIN thread /\ OwnerPlays'
    <3>1. tid \in DOMAIN thread
      BY <1>0, <2>1 DEF PlainFits
    <3> QED  BY <1>0, <2>1, <3>1 DEF OwnerPlays, ClientsJoin
  <2> QED  BY <2>1 DEF OwnerPlays
<1>6. ClientsFit'
  BY <1>0 DEF ClientsFit, ClientsJoin, PlainFits, Live, Lives, Past, None
<1> QED  BY <1>3, <1>4, <1>5, <1>6 DEF ClientsJoin

\* A call takes the output: if it is a setup, it is to be answered.
LEMMA WasapiKicks ==
    ASSUME WasapiInv, NEW c \in Callers, NEW k, NEW e, KickOf(c, k, e),
           UNCHANGED <<thread, stream, tid, remaining, setupCb, open, broken>>
    PROVE  /\ CommonInv' /\ AnswersDue' /\ LossesFit' /\ OwnerPlays' /\ ClientsFit'
           /\ \A t \in DOMAIN thread' : ClientThread(t)'
<1>0. /\ CommonInv /\ AnswersDue /\ CallsFit /\ next \in Nat
      /\ \A t \in DOMAIN thread : ClientThread(t)
      /\ \A d \in Callers : call[d].req \in DOMAIN req \union {None}
  BY DEF WasapiInv, CommonInv, PlainFits, CallsFit, CallFits
<1>1. /\ Kicks(c, e) /\ e.lost = IF state = "IDLE" THEN call[c].lost ELSE lostCb
      /\ e.op = k.op /\ e.req = k.req
  BY <1>0, ThreadsAsTheyWere, KickOfKicks
<1>2. /\ DOMAIN req \subseteq DOMAIN req' /\ None \notin DOMAIN req
      /\ \A r \in DOMAIN req : req'[r] = req[r]
      /\ \A r \in DOMAIN req' \ DOMAIN req : FreshSetup(req'[r])
      /\ DOMAIN req' \in {DOMAIN req, DOMAIN req \union {e.req}}
      /\ e.req = call[c].req \/ e.req \notin DOMAIN req
      /\ call'[c] = e /\ \A d \in Callers \ {c} : call'[d] = call[d]
  BY <1>0, <1>1, KicksRecords
<1>3. CommonInv'
  BY <1>0, <1>1, KicksCommon
<1>4. /\ next' = next + 1 /\ state' = "IDLE" /\ lostCb' \in {lostCb, None} /\ e.token = next + 1
  BY <1>1 DEF Kicks
<1>5. ClientsJoin
  BY <1>0 DEF ClientsJoin, ClientThread
<1>6. /\ \A r \in DOMAIN req : req[r].answers = 1 => req'[r].answers = 1
      /\ \A r \in DOMAIN req' : req'[r].losses > 0 => r \in DOMAIN req /\ req[r].losses > 0
      /\ \A d \in Callers : call'[d].lost \in {call[d].lost, lostCb, None}
      /\ \A d \in Callers : SetsUp(d)' => \/ call'[d].token = next + 1
                                          \/ SetsUp(d) /\ call'[d].token = call[d].token
  BY <1>1, <1>2, <1>4 DEF FreshSetup, SetsUp
<1>7. /\ LossesFit' /\ OwnerPlays' /\ ClientsFit' /\ \A t \in DOMAIN thread' : ClientThread(t)'
      /\ \A t \in DOMAIN thread : Due(t)' <=> Due(t)
  BY <1>3, <1>4, <1>5, <1>6, <1>2, WasapiRest
<1>8. AnswersDue'
  <2>1. e.req # None => e.op = "setup"
    BY <1>0, <1>1 DEF KickOf, AnswersDue
  <2>2. CASE e.req = call[c].req
    <3>1. \A d \in Callers : call'[d].req = call[d].req /\ (call'[d].req # None => call'[d].op = "setup")
      BY <1>0, <1>2, <2>1, <2>2 DEF AnswersDue
    <3>2. DOMAIN req' = DOMAIN req
      <4>1. None \notin DOMAIN req'
        <5>1. req' \in Seq(SetupRecord)
          BY <1>3 DEF CommonInv, PlainFits
        <5> QED  BY <5>1, LenProperties DEF None
      <4> QED  BY <1>0, <1>2, <2>2, <4>1
    <3> QED  BY <1>0, <1>2, <1>7, <3>1, <3>2 DEF AnswersDue, ClientThread
  <2>3. CASE e.req \notin DOMAIN req /\ e.req # None
    <3>1. call[c].req = None
      BY <1>0, <1>1, <2>3 DEF KickOf, CallsFit, CallFits, NoCall
    <3>2. /\ req'[e.req].answers = 0 \/ e.req \notin DOMAIN req'
          /\ \A r \in DOMAIN req' : r \in DOMAIN req \/ r = e.req
      BY <1>2, <2>3 DEF FreshSetup
    <3>3. e.req \in DOMAIN req'
      BY <1>1, <2>3 DEF Kicks, CallFits
    <3>4. \A t \in DOMAIN thread : thread[t].req \in DOMAIN req /\ thread' = thread
      BY <1>0 DEF ClientThread
    <3> HIDE DEF Due
    <3>5. (\A r \in DOMAIN req :
              /\ req[r].answers \in {0, 1}
              /\ req[r].answers = 0 => \/ \E d \in Callers : call[d].req = r
                                       \/ \E t \in DOMAIN thread : Due(t) /\ thread[t].req = r)'
      <4> SUFFICES ASSUME NEW r \in DOMAIN req'
                   PROVE  /\ req'[r].answers \in {0, 1}
                          /\ req'[r].answers = 0 =>
                                \/ \E d \in Callers : call'[d].req = r
                                \/ \E t \in DOMAIN thread' : Due(t)' /\ thread'[t].req = r
        OBVIOUS
      <4>1. CASE r = e.req
        BY <1>2, <3>2, <4>1
      <4>2. CASE r \in DOMAIN req
        <5>1. /\ req'[r] = req[r] /\ req[r].answers \in {0, 1}
              /\ req[r].answers = 0 => \/ \E d \in Callers : call[d].req = r
                                       \/ \E t \in DOMAIN thread : Due(t) /\ thread[t].req = r
          BY <1>0, <1>2, <4>2 DEF AnswersDue
        <5>2. \A d \in Callers : call[d].req = r => call'[d].req = r
          BY <1>2, <3>1, <4>2
        <5> QED  BY <1>7, <5>1, <5>2
      <4> QED  BY <3>2, <4>1, <4>2
    <3>6. (\A d \in Callers :
             /\ call[d].op # "setup" => call[d].req = None
             /\ call[d].req # None =>
                   /\ req[call[d].req].answers = 0
                   /\ \A t \in DOMAIN thread : Due(t) => thread[t].req # call[d].req)'
      <4> SUFFICES ASSUME NEW d \in Callers
                   PROVE  (/\ call[d].op # "setup" => call[d].req = None
                           /\ call[d].req # None =>
                                 /\ req[call[d].req].answers = 0
                                 /\ \A t \in DOMAIN thread : Due(t) => thread[t].req # call[d].req)'
        OBVIOUS
      <4>1. CASE d = c
        BY <1>2, <2>1, <2>3, <3>2, <3>3, <3>4, <4>1
      <4>2. CASE d # c
        BY <1>0, <1>2, <1>7, <3>4, <4>2 DEF AnswersDue
      <4> QED  BY <4>1, <4>2
    <3>7. (\A t \in DOMAIN thread : Due(t) =>
             /\ req[thread[t].req].answers = 0
             /\ \A u \in DOMAIN thread \ {t} : Due(u) => thread[u].req # thread[t].req)'
      BY <1>0, <1>2, <1>7, <3>4 DEF AnswersDue
    <3> QED  BY <3>5, <3>6, <3>7 DEF AnswersDue
  <2> QED  BY <1>0, <1>1, <1>2, <2>2, <2>3 DEF KickOf
<1> QED  BY <1>3, <1>7, <1>8

\* The other steps of the calls give no answer, but for the failure of a setup.
LEMMA WasapiGoes ==
    ASSUME WasapiInv, NEW c \in Callers,
           \/ SetupRefused(c) \/ ForceReturn(c) \/ TellLost(c) \/ JoinBegin(c) \/ JoinEnd(c)
           \/ c \in Sessions /\ \E t \in Knows(c) : Teardown(c, t) \/ Start(c, t) \/ Stop(c, t),
           UNCHANGED <<open, broken>>
    PROVE  /\ CommonInv' /\ AnswersDue' /\ LossesFit' /\ OwnerPlays' /\ ClientsFit'
           /\ \A t \in DOMAIN thread' : ClientThread(t)'
<1>0. /\ CommonInv /\ AnswersDue /\ CallsFit /\ req \in Seq(SetupRecord) /\ LossesFit
      /\ \A t \in DOMAIN thread : ClientThread(t)
      /\ \A d \in Callers : CallFits(call[d], req, next)
      /\ None \notin DOMAIN req
  BY SetupsTyped DEF WasapiInv, CommonInv, PlainFits, CallsFit
<1>1. CommonInv'
  BY <1>0, SharedSteps
<1>2. /\ ClientsJoin /\ UNCHANGED tid
  BY CallsLeaveClients DEF SetupRefused, ForceReturn, TellLost, JoinBegin, JoinEnd, Teardown, Start, Stop
<1>3. /\ DOMAIN req' = DOMAIN req
      /\ \A r \in DOMAIN req : /\ req'[r].answers = req[r].answers
                               /\ req'[r].losses > 0 => req[r].losses > 0 \/ Told(r)
  <2>1. CASE TellLost(c)
    <3>1. call[c].lost \in DOMAIN req /\ Told(call[c].lost)
      BY <1>0, <2>1 DEF TellLost, CallFits, LossesFit
    <3>2. req' = [req EXCEPT ![call[c].lost].losses = @ + 1]
      BY <2>1 DEF TellLost
    <3> QED  BY <1>0, <3>1, <3>2, SetupToldOfLoss DEF OnlySetup
  <2>2. ASSUME NEW t, Teardown(c, t)
        PROVE  /\ DOMAIN req' = DOMAIN req
               /\ \A r \in DOMAIN req : /\ req'[r].answers = req[r].answers
                                        /\ req'[r].losses > 0 => req[r].losses > 0 \/ Told(r)
    <3>1. req' = TornDown(t)
      BY <2>2 DEF Teardown, TornDown
    <3> QED  BY <1>0, <3>1, SetupsTornDown
  <2>3. CASE UNCHANGED req
    BY <2>3
  <2> QED  BY <2>1, <2>2, <2>3 DEF SetupRefused, ForceReturn, JoinBegin, JoinEnd, Start, Stop
<1>4. \A d \in Callers :
         /\ call'[d].req = call[d].req /\ call'[d].lost \in {call[d].lost, None}
         /\ call'[d].op = call[d].op \/ call[d].req = None
         /\ SetsUp(d)' => SetsUp(d) /\ call'[d].token = call[d].token
  <2>1. CASE SetupRefused(c) \/ ForceReturn(c) \/ TellLost(c) \/ JoinBegin(c) \/ JoinEnd(c)
    <3>1. Onward(c) /\ call[c].pc \notin {"callback", "refuse"}
      BY <1>0, <2>1, CallsGoOn DEF SetupRefused, ForceReturn, TellLost, JoinBegin, JoinEnd
    <3>2. call[c].op # "setup" => call[c].req = None
      BY <1>0 DEF AnswersDue
    <3> QED  BY <3>1, <3>2 DEF Onward, NoCall, SetsUp
  <2>2. ASSUME NEW t, c \in Sessions, Teardown(c, t)
        PROVE  \A d \in Callers :
                  /\ call'[d].req = call[d].req /\ call'[d].lost \in {call[d].lost, None}
                  /\ call'[d].op = call[d].op \/ call[d].req = None
                  /\ SetsUp(d)' => SetsUp(d) /\ call'[d].token = call[d].token
    <3>1. /\ call'[c].op = "teardown" /\ call'[c].pc = "join"
          /\ \A d \in Callers \ {c} : call'[d] = call[d]
      BY <1>0, <2>2, TeardownYields
    <3>2. call[c].req = None
      <4>1. call[c].pc = "idle"
        BY <2>2 DEF Teardown, Idle
      <4>2. CallFits(call[c], req, next)
        BY <1>0
      <4> QED  BY <4>1, <4>2 DEF CallFits, NoCall
    <3>3. call'[c].req = None /\ call'[c].lost = None
      <4>1. call' = [call EXCEPT ![c] = [NoCall EXCEPT !.op = "teardown", !.pc = "join"]]
        BY <2>2 DEF Teardown
      <4>2. [NoCall EXCEPT !.op = "teardown", !.pc = "join"].req = None
            /\ [NoCall EXCEPT !.op = "teardown", !.pc = "join"].lost = None
        BY DEF NoCall
      <4> QED  BY <1>0, <4>1, <4>2 DEF CallsFit
    <3> QED  BY <3>1, <3>2, <3>3 DEF SetsUp
  <2>3. CASE UNCHANGED call
    BY <2>3 DEF SetsUp
  <2> QED  BY <2>1, <2>2, <2>3 DEF Start, Stop
<1>5. /\ lostCb' \in {lostCb, None}
      /\ state' = "IDLE" \/ state # "IDLE"
  BY DEF SetupRefused, ForceReturn, TellLost, JoinBegin, JoinEnd, Teardown, Vacate, Start, Stop, owned
<1>6. /\ LossesFit' /\ OwnerPlays' /\ ClientsFit' /\ \A t \in DOMAIN thread' : ClientThread(t)'
      /\ \A t \in DOMAIN thread : Due(t)' <=> Due(t)
  BY <1>1, <1>2, <1>3, <1>4, <1>5, WasapiRest
<1>7. AnswersDue'
  <2>1. \A d \in Callers : call[d].req \in DOMAIN req \union {None}
    BY <1>0 DEF CallFits
  <2>2. \A t \in DOMAIN thread : thread[t].req \in DOMAIN req /\ thread'[t].req = thread[t].req
    BY <1>0, <1>2 DEF ClientThread, ClientsJoin
  <2> QED  BY <1>0, <1>2, <1>3, <1>4, <1>6, <2>1, <2>2, AnswersWait DEF ClientsJoin
<1> QED  BY <1>1, <1>6, <1>7

\* A setup fails: it is answered by the call.
LEMMA WasapiFails ==
    ASSUME WasapiInv, NEW c \in Callers, SetupFail(c), UNCHANGED <<open, broken>>
    PROVE  /\ CommonInv' /\ AnswersDue' /\ LossesFit' /\ OwnerPlays' /\ ClientsFit'
           /\ \A t \in DOMAIN thread' : ClientThread(t)'
<1> DEFINE r == call[c].req
<1>0. /\ CommonInv /\ AnswersDue /\ CallsFit /\ req \in Seq(SetupRecord) /\ LossesFit
      /\ \A t \in DOMAIN thread : ClientThread(t)
      /\ \A d \in Callers : CallFits(call[d], req, next)
      /\ \A d \in Callers \ {c} : call[d].req # None => call[d].req # r
      /\ None \notin DOMAIN req /\ next \in Nat
  BY SetupsTyped DEF WasapiInv, CommonInv, PlainFits, CallsFit
<1>1. CommonInv'
  BY <1>0, SharedSteps
<1>2. r # None /\ r \in DOMAIN req /\ call[c].token \in Int /\ req[r].answers = 0
  <2>1. CallFits(call[c], req, next) /\ call[c].pc = "refuse"
    BY <1>0 DEF SetupFail
  <2>2. r # None /\ r \in DOMAIN req /\ call[c].token \in Int
    BY <1>0, <2>1 DEF CallFits
  <2> QED  BY <1>0, <2>2 DEF AnswersDue
<1>3. OnlySetup(r) /\ req'[r].answers = 1 /\ req'[r].losses = req[r].losses
  BY <1>0, <1>2, SetupAnswered DEF SetupFail
<1>4. call'[c] = NoCall /\ \A d \in Callers \ {c} : call'[d] = call[d]
  BY <1>0 DEF SetupFail, Return, CallsFit
<1>5. /\ UNCHANGED <<thread, tid, state, lostCb>> /\ ClientsJoin
  BY <1>0 DEF SetupFail, owned, ClientsJoin, ClientThread
<1>6. /\ LossesFit' /\ OwnerPlays' /\ ClientsFit' /\ \A t \in DOMAIN thread' : ClientThread(t)'
      /\ \A t \in DOMAIN thread : Due(t)' <=> Due(t)
  <2>1. /\ \A d \in Callers : call'[d].lost \in {call[d].lost, None}
        /\ \A d \in Callers : SetsUp(d)' => SetsUp(d) /\ call'[d].token = call[d].token
    BY <1>4 DEF NoCall, SetsUp
  <2> QED  BY <1>1, <1>3, <1>5, <2>1, WasapiRest DEF OnlySetup
<1>7. AnswersDue'
  <2>1. \A t \in DOMAIN thread : thread[t].req \in DOMAIN req /\ (Due(t) => thread[t].req # r)
    BY <1>0, <1>2 DEF ClientThread, AnswersDue
  <2>2. \A d \in Callers : call[d].req \in DOMAIN req \union {None}
    BY <1>0 DEF CallFits
  <2>3. NoCall.req = None
    BY DEF NoCall
  <2> HIDE DEF r, Due
  <2> QED  BY <1>0, <1>2, <1>3, <1>4, <1>5, <1>6, <2>1, <2>2, <2>3, SMTT(30) DEF AnswersDue, OnlySetup, r
<1> QED  BY <1>1, <1>6, <1>7

\* The thread of a setup that goes on, or that failed
LEMMA ClientStarts ==
    ASSUME NEW t, NEW r, NEW pc, thread' = WasapiThread(t, r, pc)
    PROVE  /\ DOMAIN thread' = DOMAIN thread \union {t}
           /\ \A u \in DOMAIN thread \ {t} : thread'[u] = thread[u]
           /\ ThreadRecord(thread'[t]) /\ thread'[t].pc = pc /\ thread'[t].stream = None
           /\ thread'[t].left = ResyncBufs /\ thread'[t].req = r /\ thread'[t].cb
           /\ thread'[t].lost = None /\ thread'[t].fate = "open"
BY DEF WasapiThread, ThreadRecord

\* The thread of a setup starts, with the answer to give, or fails: the setup gives it then.
LEMMA WasapiOpens ==
    ASSUME WasapiInv, NEW c \in Callers, call[c].op = "setup", call[c].pc = "check",
           NEW r, NEW t, r = call[c].req, t = call[c].token,
           StillCurrent(c), stream' = None, ClientOpens(call[c].token),
           UNCHANGED <<current, next, lostCb, remaining, setupCb, overlap>>,
           \/ /\ ClientFails(call[c].token, call[c].req) /\ Goto(c, "refuse")
              /\ UNCHANGED <<state, req>>
           \/ /\ ClientRuns(call[c].token, call[c].req) /\ Return(c)
              /\ state' = "STOPPED"
              /\ req' = [req EXCEPT ![call[c].req].token = call[c].token]
    PROVE  WasapiInv' /\ \E k : Grants(c, t, k) /\ k.pc # "joining"
<1>0. /\ CommonInv /\ AnswersDue /\ CallsFit /\ req \in Seq(SetupRecord) /\ LossesFit /\ OwnerPlays
      /\ ClientsFit /\ KicksBehind
      /\ \A u \in DOMAIN thread : ClientThread(u)
      /\ \A d \in Callers : CallFits(call[d], req, next)
      /\ \A d \in Callers \ {c} : call[d].req # None => call[d].req # r
      /\ None \notin DOMAIN req /\ next \in Nat \ {0} /\ remaining \in Nat /\ CallRecord(call[c])
      /\ DOMAIN thread \subseteq 1..next /\ lostCb \in DOMAIN req \union {None}
  BY SetupsTyped DEF WasapiInv, CommonInv, PlainFits, CallsFit, CallFits, CallRecord
<1>1. /\ r \in DOMAIN req /\ r # None /\ t \in 1..next /\ t \notin DOMAIN thread /\ t = current
      /\ state = "IDLE" /\ req[r].answers = 0 /\ req[r].token = None
      /\ \A u \in DOMAIN thread : Due(u) => thread[u].req # r
      /\ \A d \in Callers \ {c} : call[d].pc \in Behind => call[d].token # t
  <2>1. CallFits(call[c], req, next) /\ call[c].pc \in Behind /\ SetsUp(c)
    BY <1>0 DEF Behind, SetsUp
  <2>2. r \in DOMAIN req /\ r # None /\ t \in 0..next /\ req[r].token = None
    BY <2>1 DEF CallFits
  <2>3. t # None /\ t \notin DOMAIN thread /\ t = current
    BY <1>0, <2>1 DEF ClientsFit, StillCurrent
  <2>4. state = "IDLE" /\ \A d \in Callers \ {c} : call[d].pc \in Behind => call[d].token # t
    BY <1>0, <2>1, <2>3 DEF KicksBehind
  <2>5. req[r].answers = 0 /\ \A u \in DOMAIN thread : Due(u) => thread[u].req # r
    BY <1>0, <2>2 DEF AnswersDue
  <2> QED  BY <1>0, <2>2, <2>3, <2>4, <2>5 DEF None
<1>2. /\ DOMAIN thread' = DOMAIN thread \union {t}
      /\ \A u \in DOMAIN thread : thread'[u] = thread[u]
      /\ ThreadRecord(thread'[t]) /\ thread'[t].stream = None
      /\ thread'[t].left = ResyncBufs /\ thread'[t].req = r /\ thread'[t].cb
      /\ thread'[t].lost = None
      /\ \/ ClientFails(t, r) /\ ~ClientRuns(t, r) /\ thread'[t].pc = "failed"
         \/ ClientRuns(t, r) /\ ~ClientFails(t, r) /\ thread'[t].pc = "fill"
  <2>0. ClientFails(t, r) \/ ClientRuns(t, r)
    OBVIOUS
  <2>3. ASSUME NEW pc, thread' = WasapiThread(t, r, pc)
        PROVE  /\ DOMAIN thread' = DOMAIN thread \union {t}
               /\ \A u \in DOMAIN thread : thread'[u] = thread[u]
               /\ ThreadRecord(thread'[t]) /\ thread'[t].stream = None
               /\ thread'[t].left = ResyncBufs /\ thread'[t].req = r /\ thread'[t].cb
               /\ thread'[t].lost = None /\ thread'[t].pc = pc
    <3>1. t \notin DOMAIN thread
      BY <1>1
    <3>2. thread' = WasapiThread(t, r, pc)
      BY <2>3
    <3>3. DOMAIN thread' = DOMAIN thread \union {t}
      BY <3>2, ClientStarts
    <3>4. \A u \in DOMAIN thread \ {t} : thread'[u] = thread[u]
      BY <3>2, ClientStarts
    <3>5. thread'[t].stream = None /\ thread'[t].lost = None /\ thread'[t].pc = pc
      BY <3>2 DEF WasapiThread
    <3>6. thread'[t].left = ResyncBufs /\ thread'[t].req = r
      BY <3>2 DEF WasapiThread
    <3>7. thread'[t].cb
      BY <3>2, ClientStarts
    <3>8. ThreadRecord(thread'[t])
      BY <3>2, ClientStarts
    <3> QED  BY <3>1, <3>3, <3>4, <3>5, <3>6, <3>7, <3>8
  <2>1. ClientFails(t, r) => thread' = WasapiThread(t, r, "failed")
    BY DEF ClientFails
  <2>2. ClientRuns(t, r) => thread' = WasapiThread(t, r, "fill")
    BY DEF ClientRuns
  <2>4. /\ ClientFails(t, r) => thread'[t].pc = "failed"
        /\ ClientRuns(t, r) => thread'[t].pc = "fill"
    BY <2>1, <2>2, <2>3
  <2> QED  BY <2>0, <2>1, <2>2, <2>3, <2>4
<1> DEFINE k == IF ClientRuns(t, r) THEN NoCall ELSE [call[c] EXCEPT !.pc = "refuse"]
<1>3. /\ call' = [call EXCEPT ![c] = k] /\ CallRecord(k)
      /\ k.pc \in {"idle", "refuse"} /\ k.req \in {None, r} /\ k.lost \in {None, call[c].lost}
      /\ k = NoCall \/ (k.op = "setup" /\ k.pc = "refuse" /\ k.req = r /\ k.token = t)
      /\ \/ ClientFails(t, r) /\ k.op = "setup" /\ k.pc = "refuse" /\ k.req = r /\ k.token = t
            /\ UNCHANGED <<state, req>>
         \/ ClientRuns(t, r) /\ k = NoCall /\ state' = "STOPPED"
            /\ req' = [req EXCEPT ![r].token = t]
  <2>0. \/ ClientFails(t, r) /\ Goto(c, "refuse") /\ UNCHANGED <<state, req>>
        \/ ClientRuns(t, r) /\ Return(c) /\ state' = "STOPPED" /\ req' = [req EXCEPT ![r].token = t]
    OBVIOUS
  <2>1. ~(ClientFails(t, r) /\ ClientRuns(t, r))
    <3> QED  BY <1>2
  <2> DEFINE e == [call[c] EXCEPT !.pc = "refuse"]
  <2>2. CallRecord(e) /\ e.pc = "refuse" /\ e.op = "setup" /\ e.req = r /\ e.token = t
        /\ e.lost = call[c].lost
    BY <1>0, CallPc
  <2>3. CallRecord(NoCall) /\ NoCall.pc = "idle" /\ NoCall.req = None /\ NoCall.lost = None
    BY DEF CallRecord, NoCall
  <2>4. CASE ClientRuns(t, r)
    <3>1. k = NoCall
      BY <2>4
    <3>2. call' = [call EXCEPT ![c] = NoCall] /\ state' = "STOPPED" /\ req' = [req EXCEPT ![r].token = t]
      BY <2>0, <2>1, <2>4 DEF Return
    <3> HIDE DEF k
    <3> QED  BY <2>3, <2>4, <3>1, <3>2
  <2>5. CASE ~ClientRuns(t, r)
    <3>1. k = e
      BY <2>5
    <3>2. call' = [call EXCEPT ![c] = e] /\ UNCHANGED <<state, req>> /\ ClientFails(t, r)
      BY <2>0, <2>5 DEF Goto
    <3> HIDE DEF k, e
    <3> QED  BY <2>2, <3>1, <3>2
  <2> QED  BY <2>4, <2>5
<1> HIDE DEF k
<1>4. Grants(c, t, k)
  <2>1. CallFits(k, req', next')
    <3>1. DOMAIN req' = DOMAIN req /\ \A q \in DOMAIN req : req'[q].losses = req[q].losses
      <4>1. CASE req' = [req EXCEPT ![r].token = t]
        <5>1. t \in Nat
          BY <1>1
        <5> QED  BY <1>0, <1>1, <4>1, <5>1, SetupGivenToken DEF OnlySetup
      <4> QED  BY <1>3, <4>1
    <3>2. CallFits(call[c], req, next) /\ ~Tells(call[c]) /\ next' = next
      BY <1>0 DEF Tells
    <3>3. CASE k = NoCall
      BY <1>0, <3>3 DEF CallFits, NoCall, None, Behind
    <3>4. CASE k.op = "setup" /\ k.pc = "refuse" /\ k.req = r /\ k.token = t
      BY <1>0, <1>1, <1>3, <3>1, <3>2, <3>4 DEF CallFits, CallRecord, Behind, Tells
    <3> QED  BY <1>3, <3>3, <3>4
  <2>2. /\ \A u \in DOMAIN thread' : /\ thread'[u].stream \in {None, u}
                                     /\ {"pc", "stream", "left"} \subseteq DOMAIN thread'[u]
    <3>1. \A u \in DOMAIN thread : /\ thread[u].stream \in {None, u}
                                   /\ {"pc", "stream", "left"} \subseteq DOMAIN thread[u]
      BY <1>0 DEF CommonInv, PlainFits, StreamFits, PlaysOwnStream
    <3>2. {"pc", "stream", "left"} \subseteq DOMAIN thread'[t]
      BY <1>2 DEF ThreadRecord
    <3> QED  BY <1>2, <3>1, <3>2
  <2>3. /\ tid' = t /\ ~Tells(call[c]) /\ call[c].pc \in Behind /\ state' \in {"IDLE", "STOPPED"}
        /\ req' \in {req, [req EXCEPT ![call[c].req].token = t]}
        /\ k.pc \notin Behind \union {"hold"} /\ k.req \in {None, call[c].req}
    BY <1>1, <1>3 DEF ClientOpens, Tells, Behind
  <2> QED  BY <1>0, <1>1, <1>2, <1>3, <2>1, <2>2, <2>3 DEF Grants
<1>5. CommonInv'
  BY <1>0, <1>4, GrantsCommon
<1>6. /\ OnlySetup(r) /\ req'[r].losses = req[r].losses /\ req'[r].answers = 0
      /\ call'[c] = k /\ \A d \in Callers \ {c} : call'[d] = call[d]
  BY <1>0, <1>1, <1>4, GrantsRecords
<1>7. /\ DOMAIN req' = DOMAIN req
      /\ \A q \in DOMAIN req : req'[q].answers = req[q].answers /\ req'[q].losses = req[q].losses
  BY <1>1, <1>6 DEF OnlySetup
<1>8. /\ \A u \in DOMAIN thread : (Due(u)' <=> Due(u)) /\ thread[u].req \in DOMAIN req
      /\ Due(t)' <=> ClientRuns(t, r)
  <2>1. \A u \in DOMAIN thread : (Due(u)' <=> Due(u)) /\ thread[u].req \in DOMAIN req
    BY <1>0, <1>2 DEF Due, ClientThread
  <2>2. CASE ClientRuns(t, r)
    <3>1. thread'[t].cb /\ thread'[t].pc = "fill"
      BY <1>2, <2>2
    <3> QED  BY <2>1, <2>2, <3>1 DEF Due
  <2>3. CASE ~ClientRuns(t, r)
    <3>1. thread'[t].pc = "failed"
      BY <1>2, <2>3
    <3> QED  BY <2>1, <2>3, <3>1 DEF Due
  <2> QED  BY <2>2, <2>3
<1> HIDE DEF Due
<1>9. AnswersDue'
  <2>0. \A d \in Callers : call[d].req \in DOMAIN req \union {None}
    BY <1>0 DEF CallFits
  <2>1. \A u \in DOMAIN thread' : u \in DOMAIN thread \/ u = t
    BY <1>2
  <2>2. CASE ClientRuns(t, r)
    <3>1. call'[c].req = None /\ call'[c].op = "none"
      BY <1>2, <1>3, <1>6, <2>2 DEF NoCall
    <3>2. Due(t)' /\ thread'[t].req = r /\ req'[r].answers = 0 /\ r # None
      BY <1>1, <1>2, <1>6, <1>8, <2>2
    <3>3. ASSUME NEW q \in DOMAIN req'
          PROVE  (/\ req[q].answers \in {0, 1}
                  /\ req[q].answers = 0 => \/ \E d \in Callers : call[d].req = q
                                           \/ \E u \in DOMAIN thread : Due(u) /\ thread[u].req = q)'
      <4>1. CASE q = r
        BY <1>1, <1>2, <3>2, <4>1
      <4>2. CASE q # r
        <5>1. /\ req'[q].answers \in {0, 1}
              /\ req'[q].answers = 0 => \/ \E d \in Callers \ {c} : call[d].req = q
                                        \/ \E u \in DOMAIN thread : Due(u) /\ thread[u].req = q
          BY <1>0, <1>7, <4>2 DEF AnswersDue
        <5> QED  BY <1>2, <1>6, <1>8, <5>1
      <4> QED  BY <4>1, <4>2
    <3>4. ASSUME NEW d \in Callers
          PROVE  (/\ call[d].op # "setup" => call[d].req = None
                  /\ call[d].req # None =>
                        /\ req[call[d].req].answers = 0
                        /\ \A u \in DOMAIN thread : Due(u) => thread[u].req # call[d].req)'
      <4>1. CASE d = c
        BY <3>1, <4>1
      <4>2. CASE d # c
        BY <1>0, <1>2, <1>6, <1>7, <1>8, <2>0, <2>1, <3>2, <4>2 DEF AnswersDue
      <4> QED  BY <4>1, <4>2
    <3>5. ASSUME NEW u \in DOMAIN thread', Due(u)'
          PROVE  (/\ req[thread[u].req].answers = 0
                  /\ \A v \in DOMAIN thread \ {u} : Due(v) => thread[v].req # thread[u].req)'
      BY <1>0, <1>1, <1>2, <1>7, <1>8, <2>1, <3>2, <3>5 DEF AnswersDue
    <3> QED  BY <3>3, <3>4, <3>5 DEF AnswersDue
  <2>3. CASE ~ClientRuns(t, r)
    <3>1. call'[c].req = r /\ call'[c].op = "setup"
      BY <1>2, <1>3, <1>6, <2>3
    <3>2. ~Due(t)' /\ req'[r].answers = 0 /\ r # None
      BY <1>1, <1>2, <1>6, <1>8, <2>3
    <3>3. ASSUME NEW q \in DOMAIN req'
          PROVE  (/\ req[q].answers \in {0, 1}
                  /\ req[q].answers = 0 => \/ \E d \in Callers : call[d].req = q
                                           \/ \E u \in DOMAIN thread : Due(u) /\ thread[u].req = q)'
      <4>1. /\ req'[q].answers \in {0, 1}
            /\ req'[q].answers = 0 => \/ \E d \in Callers : call[d].req = q
                                      \/ \E u \in DOMAIN thread : Due(u) /\ thread[u].req = q
        BY <1>0, <1>7 DEF AnswersDue
      <4>2. \A d \in Callers : call'[d].req = call[d].req
        BY <1>6, <3>1
      <4> QED  BY <1>2, <1>8, <4>1, <4>2
    <3>4. ASSUME NEW d \in Callers
          PROVE  (/\ call[d].op # "setup" => call[d].req = None
                  /\ call[d].req # None =>
                        /\ req[call[d].req].answers = 0
                        /\ \A u \in DOMAIN thread : Due(u) => thread[u].req # call[d].req)'
      <4>1. CASE d = c
        BY <1>1, <1>2, <1>8, <2>1, <3>1, <3>2, <4>1
      <4>2. CASE d # c
        BY <1>0, <1>2, <1>6, <1>7, <1>8, <2>0, <2>1, <3>2, <4>2 DEF AnswersDue
      <4> QED  BY <4>1, <4>2
    <3>5. ASSUME NEW u \in DOMAIN thread', Due(u)'
          PROVE  (/\ req[thread[u].req].answers = 0
                  /\ \A v \in DOMAIN thread \ {u} : Due(v) => thread[v].req # thread[u].req)'
      BY <1>0, <1>1, <1>2, <1>7, <1>8, <2>1, <3>2, <3>5 DEF AnswersDue
    <3> QED  BY <3>3, <3>4, <3>5 DEF AnswersDue
  <2> QED  BY <2>2, <2>3
<1>10. LossesFit'
  <2>1. /\ lostCb' = lostCb /\ lostCb \in DOMAIN req \union {None}
        /\ \A d \in Callers : call'[d].lost \in {None, call[d].lost}
        /\ \A d \in Callers : call[d].lost \in DOMAIN req \union {None}
    BY <1>0, <1>3, <1>6 DEF CallFits
  <2> QED  BY <1>0, <1>7, <2>1 DEF LossesFit, Told
<1>11. OwnerPlays'
  <2>1. tid' = t
    BY DEF ClientOpens
  <2> QED  BY <1>1, <1>2, <1>3, <2>1 DEF OwnerPlays
<1>12. ClientsFit'
  <2>1. open' = open \union {t}
    BY DEF ClientOpens
  <2>2. Live(t)' /\ \A u \in DOMAIN thread : Live(u)' <=> Live(u)
    BY <1>2 DEF Live, Lives, Past
  <2>3. \A d \in Callers : SetsUp(d)' => d # c /\ SetsUp(d) /\ call'[d].token = call[d].token
                                         /\ call[d].token # t
    BY <1>1, <1>3, <1>6 DEF SetsUp, Behind
  <2> QED  BY <1>0, <1>2, <2>1, <2>2, <2>3 DEF ClientsFit
<1>13. \A u \in DOMAIN thread' : ClientThread(u)'
  <2>1. broken => broken'
    BY <1>3 DEF ClientFails, ClientRuns
  <2>2. \A u \in DOMAIN thread : ClientThread(u)'
    BY <1>0, <1>2, <1>7, <2>1, ClientStays
  <2>3. thread'[t].pc = "failed" => broken'
    BY <1>2 DEF ClientFails
  <2>4. ClientThread(t)'
    BY <1>1, <1>2, <1>7, <2>3, BoundsAssumption DEF ClientThread, Told
  <2> QED  BY <1>2, <2>2, <2>4
<1>14. ASSUME ~overlap', ~broken'
       PROVE  InTurn'
  <2>1. ClientRuns(t, r) /\ ~broken
    BY <1>3, <1>14 DEF ClientFails, ClientRuns
  <2>2. InTurn
    BY <1>14, <2>1 DEF WasapiInv
  <2>3. /\ ~Idle(c) /\ ~Joins(c) /\ k.pc # "joining" /\ state' # "IDLE" /\ tid' = t
        /\ call = [d \in Callers |-> call[d]]
    BY <1>0, <1>2, <1>3, <2>1 DEF Idle, Joins, CallsFit, ClientOpens
  <2> QED  BY <1>1, <1>2, <1>3, <2>2, <2>3, TurnGrants DEF InTurn
<1>15. WasapiInv'
  BY <1>5, <1>9, <1>10, <1>11, <1>12, <1>13, <1>14 DEF WasapiInv
<1> HIDE DEF Grants
<1> QED  BY <1>3, <1>4, <1>15

\* What a step of the thread t keeps, whatever it is: who owns the output goes on playing.
LEMMA ClientActs ==
    ASSUME WasapiInv, NEW t \in DOMAIN thread, NEW at, NEW s, NEW l, NEW due, NEW lost,
           Becomes(t, at, s, l, due, lost), ClientThread(t)', Live(t),
           UNCHANGED <<call, tid, current, next, overlap, remaining, setupCb>>,
           broken => broken', SetupsKept, StreamKept,
           \A r \in DOMAIN req : /\ req[r].answers = 1 => req'[r].answers = 1
                                 /\ req'[r].losses > 0 => req[r].losses > 0 \/ Told(r),
           s \in {None, thread[t].stream} \/ (s = stream /\ current = t),
           lostCb' \in {None, lostCb} \/ (lostCb' \in DOMAIN req /\ Told(lostCb')),
           open' \subseteq open, at = "done" => t \notin open', at # "joined",
           state' # "IDLE" => state # "IDLE",
           state' # "IDLE" /\ t = tid => /\ at # "failed"
                                         /\ at \in {"exit", "tell", "end", "done"} => broken'
                                         /\ at = "done" => ~due,
           state' = "IDLE" /\ state # "IDLE" => broken' \/ overlap'
    PROVE  /\ CommonInv' /\ LossesFit' /\ OwnerPlays' /\ ClientsFit'
           /\ \A u \in DOMAIN thread' : ClientThread(u)'
           /\ ~overlap' /\ ~broken' => InTurn'
<1>0. /\ CommonInv /\ LossesFit /\ OwnerPlays /\ ClientsFit /\ PlainFits
      /\ \A u \in DOMAIN thread : ClientThread(u)
      /\ \A u \in DOMAIN thread : /\ thread[u].stream \in {None, u}
                                  /\ {"pc", "stream", "left"} \subseteq DOMAIN thread[u]
      /\ \A d \in Callers : call[d].lost \in DOMAIN req \union {None}
      /\ stream \in {None, current} \/ state = "IDLE"
      /\ DOMAIN req' = DOMAIN req /\ None \notin DOMAIN req
  BY SetupsTyped DEF WasapiInv, CommonInv, PlainFits, CallsFit, CallFits, StreamFits, PlaysOwnStream,
                     SetupsKept
<1>1. /\ DOMAIN thread' = DOMAIN thread /\ \A u \in DOMAIN thread \ {t} : thread'[u] = thread[u]
      /\ ThreadRecord(thread'[t]) /\ thread'[t].pc = at /\ thread'[t].stream = s
      /\ thread'[t].cb = due
  BY DEF Becomes
<1>2. ThreadsKept
  <2>1. s \in {None, t}
    BY <1>0 DEF CommonInv, StreamFits, PlaysOwnStream, PlainFits
  <2>2. {"pc", "stream", "left"} \subseteq DOMAIN thread'[t]
    BY <1>1 DEF ThreadRecord
  <2> QED  BY <1>0, <1>1, <2>1, <2>2 DEF ThreadsKept
<1>3. CommonInv'
  <2>1. Quiet
    BY <1>0, <1>2 DEF Quiet, CallsKept, PlainFits
  <2> QED  BY <1>0, <2>1, QuietCommon
<1>4. LossesFit'
  <2>1. \A r \in DOMAIN req \union {None} : Told(r) => Told(r)'
    BY DEF Told
  <2>2. Told(lostCb)'
    BY <1>0, <2>1 DEF LossesFit, Told, PlainFits
  <2>3. \A d \in Callers : Told(call[d].lost)'
    BY <1>0, <2>1 DEF LossesFit, Told
  <2>4. \A r \in DOMAIN req' : req'[r].losses > 0 => Told(r)'
    BY <1>0, <2>1 DEF LossesFit
  <2> QED  BY <2>2, <2>3, <2>4 DEF LossesFit
<1>5. \A u \in DOMAIN thread' : ClientThread(u)'
  <2>1. \A u \in DOMAIN thread \ {t} : ClientThread(u)'
    BY <1>0, <1>1, ClientStays
  <2> QED  BY <1>1, <2>1
<1>6. OwnerPlays'
  <2>1. CASE state' # "IDLE" /\ tid = t
    BY <1>1, <2>1 DEF OwnerPlays
  <2>2. CASE state' # "IDLE" /\ tid # t
    <3>1. tid \in DOMAIN thread
      BY <1>0, <2>2 DEF PlainFits
    <3> QED  BY <1>0, <1>1, <2>2, <3>1 DEF OwnerPlays
  <2> QED  BY <2>1, <2>2 DEF OwnerPlays
<1>7. \A u \in DOMAIN thread : /\ Live(u)' => Live(u)
                               /\ u \in open' /\ Live(u) => Live(u)'
  BY <1>1 DEF Live, Lives, Past
<1>8. ClientsFit'
  BY <1>0, <1>1, <1>7 DEF ClientsFit, SetsUp
<1>9. ASSUME ~overlap', ~broken'
      PROVE  InTurn'
  <2>1. InTurn /\ (state' = "IDLE" => state = "IDLE")
    BY <1>9 DEF WasapiInv
  <2> QED  BY <1>1, <1>7, <2>1, TurnThreads DEF InTurn, Live
<1> QED  BY <1>3, <1>4, <1>5, <1>6, <1>8, <1>9

\* The thread t gives the answer that it owes.
LEMMA ClientAnswers ==
    ASSUME WasapiInv, NEW t \in DOMAIN thread, Due(t), req' = Answered(thread[t].req, t),
           UNCHANGED call, DOMAIN thread' = DOMAIN thread,
           \A u \in DOMAIN thread \ {t} : thread'[u] = thread[u],
           thread'[t].req = thread[t].req, ~Due(t)'
    PROVE  /\ AnswersDue' /\ SetupsKept
           /\ req'[thread[t].req].answers = 1
           /\ \A r \in DOMAIN req : /\ req[r].answers = 1 => req'[r].answers = 1
                                    /\ req'[r].losses = req[r].losses
<1>0. /\ CommonInv /\ AnswersDue /\ req \in Seq(SetupRecord) /\ None \notin DOMAIN req
      /\ \A u \in DOMAIN thread : thread[u].req \in DOMAIN req
      /\ \A d \in Callers : call[d].req \in DOMAIN req \union {None}
      /\ t \in Int
  BY SetupsTyped DEF WasapiInv, CommonInv, PlainFits, CallsFit, CallFits, ClientThread
<1>1. PICK r : r = thread[t].req
  OBVIOUS
<1>2. /\ r \in DOMAIN req /\ req[r].answers = 0
      /\ \A u \in DOMAIN thread \ {t} : Due(u) => thread[u].req # r
      /\ \A d \in Callers : call[d].req # r
  BY <1>0, <1>1 DEF AnswersDue
<1>3. OnlySetup(r) /\ req'[r].answers = 1 /\ req'[r].losses = req[r].losses
  BY <1>0, <1>1, <1>2, SetupAnswered
<1>4. SetupsKept
  BY <1>0, <1>1, <1>2, AnswerKept
<1>5. \A u \in DOMAIN thread \ {t} : Due(u)' <=> Due(u)
  BY DEF Due
<1> HIDE DEF Due
<1>6. AnswersDue'
  <2>1. ASSUME NEW q \in DOMAIN req'
        PROVE  (/\ req[q].answers \in {0, 1}
                /\ req[q].answers = 0 => \/ \E d \in Callers : call[d].req = q
                                         \/ \E u \in DOMAIN thread : Due(u) /\ thread[u].req = q)'
    <3>1. CASE q = r
      BY <1>3, <3>1
    <3>2. CASE q # r
      <4>1. /\ req'[q] = req[q] /\ req[q].answers \in {0, 1}
            /\ req[q].answers = 0 => \/ \E d \in Callers : call[d].req = q
                                     \/ \E u \in DOMAIN thread \ {t} : Due(u) /\ thread[u].req = q
        BY <1>0, <1>1, <1>3, <3>2 DEF AnswersDue, OnlySetup
      <4> QED  BY <1>5, <4>1
    <3> QED  BY <3>1, <3>2
  <2>2. ASSUME NEW d \in Callers
        PROVE  (/\ call[d].op # "setup" => call[d].req = None
                /\ call[d].req # None =>
                      /\ req[call[d].req].answers = 0
                      /\ \A u \in DOMAIN thread : Due(u) => thread[u].req # call[d].req)'
    BY <1>0, <1>2, <1>3, <1>5 DEF AnswersDue, OnlySetup
  <2>3. ASSUME NEW u \in DOMAIN thread', Due(u)'
        PROVE  (/\ req[thread[u].req].answers = 0
                /\ \A v \in DOMAIN thread \ {u} : Due(v) => thread[v].req # thread[u].req)'
    <3>1. u \in DOMAIN thread /\ u # t /\ Due(u) /\ thread'[u] = thread[u]
      BY <1>5, <2>3
    <3>2. req'[thread[u].req].answers = 0
      BY <1>0, <1>2, <1>3, <3>1 DEF AnswersDue, OnlySetup
    <3>3. \A v \in DOMAIN thread \ {u} : Due(v)' => v # t /\ Due(v) /\ thread'[v] = thread[v]
      BY <1>5
    <3>4. \A v \in DOMAIN thread \ {u} : Due(v) => thread[v].req # thread[u].req
      BY <1>0, <3>1 DEF AnswersDue
    <3> QED  BY <3>1, <3>2, <3>3, <3>4
  <2> QED  BY <2>1, <2>2, <2>3 DEF AnswersDue
<1> QED  BY <1>1, <1>3, <1>4, <1>6 DEF OnlySetup

\* The thread t goes on without an answer.
LEMMA ClientWaits ==
    ASSUME WasapiInv, NEW t \in DOMAIN thread, NEW at, NEW s, NEW l, NEW lost,
           Becomes(t, at, s, l, thread[t].cb, lost), SetupsKept, UNCHANGED call,
           \A r \in DOMAIN req : req'[r].answers = req[r].answers,
           thread[t].cb => (thread[t].pc = "failed" <=> at = "done")
                           /\ thread[t].pc \in {"fill", "play", "buffer", "exit", "failed"}
                           /\ at \in {"fill", "play", "buffer", "exit", "done"}
    PROVE  AnswersDue'
<1>0. /\ AnswersDue /\ DOMAIN req' = DOMAIN req
      /\ \A u \in DOMAIN thread : thread[u].req \in DOMAIN req
      /\ \A d \in Callers : call[d].req \in DOMAIN req \union {None}
  BY DEF WasapiInv, CommonInv, CallsFit, CallFits, ClientThread, SetupsKept
<1>1. /\ DOMAIN thread' = DOMAIN thread /\ \A u \in DOMAIN thread \ {t} : thread'[u] = thread[u]
      /\ thread'[t].req = thread[t].req /\ thread'[t].cb = thread[t].cb /\ thread'[t].pc = at
  BY DEF Becomes
<1>2. \A u \in DOMAIN thread : Due(u)' <=> Due(u)
  <2>1. Due(t)' <=> Due(t)
    BY <1>1 DEF Due
  <2>2. \A u \in DOMAIN thread \ {t} : Due(u)' <=> Due(u)
    BY <1>1 DEF Due
  <2> QED  BY <2>1, <2>2
<1> HIDE DEF Due
<1> QED  BY <1>0, <1>1, <1>2, AnswersWait

\* The two fields that fill_buffer sets
LEMMA ClientFills ==
    ASSUME NEW t \in DOMAIN thread, ThreadRecord(thread[t]), NEW u,
           thread' = [thread EXCEPT ![t].pc = "play", ![t].stream = u]
    PROVE  /\ Becomes(t, "play", u, thread[t].left, thread[t].cb, thread[t].lost)
           /\ thread'[t].fate = thread[t].fate
<1> DEFINE p == [thread[t] EXCEPT !.pc = "play"]
           k == [p EXCEPT !.stream = u]
<1>1. thread' = [thread EXCEPT ![t] = k]
  OBVIOUS
<1>2. /\ ThreadRecord(p) /\ p.pc = "play" /\ p.left = thread[t].left
      /\ p.req = thread[t].req /\ p.cb = thread[t].cb /\ p.lost = thread[t].lost
      /\ p.fate = thread[t].fate
  BY ThreadPc
<1> HIDE DEF p, ThreadRecord
<1>3. /\ ThreadRecord(k) /\ k.pc = "play" /\ k.stream = u /\ k.left = thread[t].left
      /\ k.req = thread[t].req /\ k.cb = thread[t].cb /\ k.lost = thread[t].lost
      /\ k.fate = thread[t].fate
  BY <1>2, ThreadStream
<1> HIDE DEF k
<1> QED  BY <1>1, <1>3 DEF Becomes

\* The callback is called: what is left of the delay, the callback and the place are set ...
LEMMA ClientCalls ==
    ASSUME NEW t \in DOMAIN thread, ThreadRecord(thread[t]),
           thread' = [thread EXCEPT ![t] = CbCalled([@ EXCEPT !.left = 0])]
    PROVE  /\ Becomes(t, "store", thread[t].stream, 0, thread'[t].cb, thread[t].lost)
           /\ ~thread'[t].cb /\ thread'[t].fate = thread[t].fate
<1> DEFINE no == FALSE
           p == [thread[t] EXCEPT !.left = 0]
           q == [p EXCEPT !.pc = "store"]
           k == [q EXCEPT !.cb = no]
<1>1. thread' = [thread EXCEPT ![t] = k]
  BY DEF CbCalled
<1> HIDE DEF no
<1>2. /\ ThreadRecord(p) /\ p.stream = thread[t].stream /\ p.left = 0
      /\ p.req = thread[t].req /\ p.lost = thread[t].lost
      /\ p.fate = thread[t].fate
  BY ThreadLeft
<1> HIDE DEF p, ThreadRecord
<1>3. /\ ThreadRecord(q) /\ q.pc = "store" /\ q.stream = thread[t].stream /\ q.left = 0
      /\ q.req = thread[t].req /\ q.lost = thread[t].lost
      /\ q.fate = thread[t].fate
  BY <1>2, ThreadPc
<1> HIDE DEF q
<1>4. /\ ThreadRecord(k) /\ k.pc = "store" /\ k.stream = thread[t].stream /\ k.left = 0
      /\ k.req = thread[t].req /\ k.lost = thread[t].lost /\ k.cb = no
      /\ k.fate = thread[t].fate
  BY <1>3, ThreadCb
<1> HIDE DEF k
<1>5. thread'[t] = k /\ ~no
  BY <1>1 DEF no
<1>6. ~thread'[t].cb
  BY <1>4, <1>5
<1> QED  BY <1>1, <1>4, <1>5, <1>6 DEF Becomes

\* ... or the place and the callback, at exit.
LEMMA ClientExits ==
    ASSUME NEW t \in DOMAIN thread, ThreadRecord(thread[t]),
           thread' = [thread EXCEPT ![t].pc = "end", ![t].cb = FALSE, ![t].fate = "failed"]
    PROVE  /\ Becomes(t, "end", thread[t].stream, thread[t].left, thread'[t].cb, thread[t].lost)
           /\ ~thread'[t].cb /\ thread'[t].fate = "failed"
<1> DEFINE no == FALSE
           p == [thread[t] EXCEPT !.pc = "end"]
           q == [p EXCEPT !.cb = no]
           k == [q EXCEPT !.fate = "failed"]
<1>1. thread' = [thread EXCEPT ![t] = k]
  OBVIOUS
<1> HIDE DEF no
<1>2. /\ ThreadRecord(p) /\ p.stream = thread[t].stream /\ p.left = thread[t].left
      /\ p.req = thread[t].req /\ p.lost = thread[t].lost /\ p.pc = "end"
  BY ThreadPc
<1> HIDE DEF p, ThreadRecord
<1>3. /\ ThreadRecord(q) /\ q.pc = "end" /\ q.stream = thread[t].stream /\ q.left = thread[t].left
      /\ q.req = thread[t].req /\ q.lost = thread[t].lost /\ q.cb = no
  BY <1>2, ThreadCb
<1> HIDE DEF q
<1>4. /\ ThreadRecord(k) /\ k.pc = "end" /\ k.stream = thread[t].stream /\ k.left = thread[t].left
      /\ k.req = thread[t].req /\ k.lost = thread[t].lost /\ k.cb = no /\ k.fate = "failed"
  BY <1>3, ThreadFate
<1> HIDE DEF k
<1>5. thread'[t] = k /\ ~no
  BY <1>1 DEF no
<1>6. ~thread'[t].cb
  BY <1>4, <1>5
<1> QED  BY <1>1, <1>4, <1>5, <1>6 DEF Becomes

\* The thread is at its buffer again: it stored the callback in time or too late.
LEMMA ClientStores ==
    ASSUME NEW t \in DOMAIN thread, ThreadRecord(thread[t]), NEW f,
           thread' = [thread EXCEPT ![t].pc = "buffer", ![t].fate = f]
    PROVE  /\ Becomes(t, "buffer", thread[t].stream, thread[t].left, thread[t].cb, thread[t].lost)
           /\ thread'[t].fate = f
<1> DEFINE p == [thread[t] EXCEPT !.pc = "buffer"]
           k == [p EXCEPT !.fate = f]
<1>1. thread' = [thread EXCEPT ![t] = k]
  OBVIOUS
<1>2. /\ ThreadRecord(p) /\ p.pc = "buffer" /\ p.left = thread[t].left
      /\ p.stream = thread[t].stream
      /\ p.req = thread[t].req /\ p.cb = thread[t].cb /\ p.lost = thread[t].lost
  BY ThreadPc
<1> HIDE DEF p, ThreadRecord
<1>3. /\ ThreadRecord(k) /\ k.pc = "buffer" /\ k.stream = thread[t].stream
      /\ k.left = thread[t].left /\ k.fate = f
      /\ k.req = thread[t].req /\ k.cb = thread[t].cb /\ k.lost = thread[t].lost
  BY <1>2, ThreadFate
<1> HIDE DEF k
<1> QED  BY <1>1, <1>3 DEF Becomes

\* The resync delay goes on, by one buffer.
LEMMA ClientCounts ==
    ASSUME NEW t \in DOMAIN thread, ThreadRecord(thread[t]), NEW l,
           thread' = [thread EXCEPT ![t].pc = "buffer", ![t].left = l]
    PROVE  /\ Becomes(t, "buffer", thread[t].stream, l, thread[t].cb, thread[t].lost)
           /\ thread'[t].fate = thread[t].fate
<1> DEFINE p == [thread[t] EXCEPT !.pc = "buffer"]
           k == [p EXCEPT !.left = l]
<1>1. thread' = [thread EXCEPT ![t] = k]
  OBVIOUS
<1>2. /\ ThreadRecord(p) /\ p.pc = "buffer" /\ p.stream = thread[t].stream
      /\ p.req = thread[t].req /\ p.cb = thread[t].cb /\ p.lost = thread[t].lost
      /\ p.fate = thread[t].fate
  BY ThreadPc
<1> HIDE DEF p, ThreadRecord
<1>3. /\ ThreadRecord(k) /\ k.pc = "buffer" /\ k.left = l /\ k.stream = thread[t].stream
      /\ k.req = thread[t].req /\ k.cb = thread[t].cb /\ k.lost = thread[t].lost
      /\ k.fate = thread[t].fate
  BY <1>2, ThreadLeft
<1> HIDE DEF k
<1> QED  BY <1>1, <1>3 DEF Becomes

\* The loss to be told is taken, or was told.
LEMMA ClientTells ==
    ASSUME NEW t \in DOMAIN thread, ThreadRecord(thread[t]), NEW at, NEW r,
           thread' = [thread EXCEPT ![t].pc = at, ![t].lost = r]
    PROVE  /\ Becomes(t, at, thread[t].stream, thread[t].left, thread[t].cb, r)
           /\ thread'[t].fate = thread[t].fate
<1> DEFINE p == [thread[t] EXCEPT !.pc = at]
           k == [p EXCEPT !.lost = r]
<1>1. thread' = [thread EXCEPT ![t] = k]
  OBVIOUS
<1>2. /\ ThreadRecord(p) /\ p.pc = at /\ p.left = thread[t].left /\ p.stream = thread[t].stream
      /\ p.req = thread[t].req /\ p.cb = thread[t].cb
      /\ p.fate = thread[t].fate
  BY ThreadPc
<1> HIDE DEF p, ThreadRecord
<1>3. /\ ThreadRecord(k) /\ k.pc = at /\ k.left = thread[t].left /\ k.stream = thread[t].stream
      /\ k.req = thread[t].req /\ k.cb = thread[t].cb /\ k.lost = r
      /\ k.fate = thread[t].fate
  BY <1>2, ThreadLost
<1> HIDE DEF k
<1> QED  BY <1>1, <1>3 DEF Becomes

\* The steps of the WASAPI thread
LEMMA WasapiThreads ==
    ASSUME WasapiInv, NEW t \in DOMAIN thread, WasapiThreadStep(t)
    PROVE  WasapiInv'
<1> DEFINE k == thread[t]
<1>0. /\ CommonInv /\ AnswersDue /\ OwnerPlays /\ ClientsFit /\ ClientThread(t) /\ ThreadRecord(k)
      /\ \A r \in DOMAIN req : req[r].losses \in Nat
      /\ req \in Seq(SetupRecord) /\ None \notin DOMAIN req
      /\ lostCb \in DOMAIN req \union {None} /\ (state # "IDLE" => current = tid)
  BY SetupsTyped DEF WasapiInv, CommonInv, PlainFits, ClientThread, SetupRecord
<1>1. ASSUME CommonInv' /\ LossesFit' /\ OwnerPlays' /\ ClientsFit',
             \A u \in DOMAIN thread' : ClientThread(u)', ~overlap' /\ ~broken' => InTurn', AnswersDue'
      PROVE  WasapiInv'
  BY <1>1 DEF WasapiInv
<1>2. UNCHANGED req => /\ SetupsKept
                       /\ \A r \in DOMAIN req : /\ req'[r].answers = req[r].answers
                                                /\ req[r].answers = 1 => req'[r].answers = 1
                                                /\ req'[r].losses > 0 => req[r].losses > 0 \/ Told(r)
  BY <1>0, NothingTold
<1>3. ASSUME NEW u \in {None, stream}, current = t, k.pc = "fill",
             thread' = [thread EXCEPT ![t].pc = "play", ![t].stream = u],
             UNCHANGED <<current, next, state, lostCb, stream, remaining, setupCb, tid, call, req, open,
                         overlap, broken>>
      PROVE  WasapiInv'
  <2>1. Becomes(t, "play", u, k.left, k.cb, k.lost)
    BY <1>0, <1>3, ClientFills
  <2> HIDE DEF ThreadRecord
  <2>2. ClientThread(t)'
    BY <1>0, <1>3, <2>1 DEF Becomes, ClientThread, Told
  <2>3. StreamKept /\ Live(t)
    BY <1>3 DEF StreamKept, Live, Lives, Past
  <2>4. AnswersDue'
    BY <1>2, <1>3, <2>1, ClientWaits
  <2>5. /\ CommonInv' /\ LossesFit' /\ OwnerPlays' /\ ClientsFit'
        /\ \A w \in DOMAIN thread' : ClientThread(w)'
        /\ ~overlap' /\ ~broken' => InTurn'
    BY <1>2, <1>3, <2>1, <2>2, <2>3, ClientActs
  <2> QED  BY <1>1, <2>4, <2>5
\* A thread goes on from its place, and does nothing else.
<1>4. ASSUME NEW at, ThreadGoes(t, at),
             \/ k.pc = "fill" /\ current # t /\ at = "exit"
             \/ k.pc = "buffer" /\ at = "fill"
             \/ k.pc = "buffer" /\ at = "exit" /\ broken'
             \/ k.pc = "exit" /\ ~k.cb /\ state = "IDLE" /\ at = "end"
             \/ k.pc \in {"end", "failed"} /\ at = "done" /\ t \notin open',
             UNCHANGED <<current, next, state, lostCb, stream, remaining, setupCb, tid, call, req, overlap>>,
             open' \subseteq open, broken => broken'
      PROVE  WasapiInv'
  <2>1. Becomes(t, at, k.stream, k.left, k.cb, k.lost)
    BY <1>0, <1>4, ThreadMoves
  <2> HIDE DEF ThreadRecord
  <2>2. ClientThread(t)'
    BY <1>0, <1>4, <2>1 DEF Becomes, ClientThread, Told
  <2>3. StreamKept /\ Live(t)
    BY <1>4 DEF StreamKept, Live, Lives, Past
  <2>4. AnswersDue'
    <3>1. k.cb => /\ k.pc = "failed" <=> at = "done"
                  /\ k.pc \in {"fill", "play", "buffer", "exit", "failed"}
                  /\ at \in {"fill", "play", "buffer", "exit", "done"}
      BY <1>0, <1>4 DEF ClientThread
    <3> QED  BY <1>2, <1>4, <2>1, <3>1, ClientWaits
  <2>6. state' # "IDLE" /\ t = tid => /\ at # "failed"
                                      /\ at \in {"exit", "tell", "end", "done"} => broken'
                                      /\ at = "done" => ~k.cb
    BY <1>0, <1>4 DEF OwnerPlays, ClientThread
  <2>7. at # "joined" /\ (at = "done" => t \notin open')
    BY <1>4
  <2>5. /\ CommonInv' /\ LossesFit' /\ OwnerPlays' /\ ClientsFit'
        /\ \A w \in DOMAIN thread' : ClientThread(w)'
        /\ ~overlap' /\ ~broken' => InTurn'
    BY <1>2, <1>4, <2>1, <2>2, <2>3, <2>6, <2>7, ClientActs
  <2> QED  BY <1>1, <2>4, <2>5
<1>5. CASE WasapiFill(t)
  <2>1. UNCHANGED <<current, next, state, lostCb, stream, remaining, setupCb, tid, call, req, open,
                    overlap, broken>>
    BY <1>5 DEF WasapiFill, platform, deviceVars, history
  <2>2. k.pc = "fill"
    BY <1>5 DEF WasapiFill
  <2>3. CASE current # t
    BY <1>4, <1>5, <2>1, <2>2, <2>3 DEF WasapiFill
  <2>4. CASE current = t
    <3>1. \/ thread' = [thread EXCEPT ![t].pc = "play", ![t].stream = stream]
          \/ thread' = [thread EXCEPT ![t].pc = "play", ![t].stream = None]
      BY <1>5, <2>4 DEF WasapiFill
    <3> QED  BY <1>3, <2>1, <2>2, <2>4, <3>1
  <2> QED  BY <2>3, <2>4
<1>6. CASE WasapiBuffer(t)
  <2>1. UNCHANGED <<current, next, state, lostCb, stream, remaining, setupCb, tid, call, req, open,
                    overlap>>
    BY <1>6 DEF WasapiBuffer, deviceVars, owned
  <2>2. /\ k.pc = "buffer"
        /\ \/ ThreadGoes(t, "fill") /\ broken' = broken
           \/ ThreadGoes(t, "exit") /\ broken'
    BY <1>6 DEF WasapiBuffer
  <2> QED  BY <1>4, <2>1, <2>2
<1>7. CASE WasapiEnd(t)
  <2>1. UNCHANGED <<current, next, state, lostCb, stream, remaining, setupCb, tid, call, req,
                    overlap, broken>>
    BY <1>7 DEF WasapiEnd, history, owned
  <2>2. k.pc \in {"end", "failed"} /\ ThreadGoes(t, "done") /\ open' = open \ {t}
    BY <1>7 DEF WasapiEnd
  <2> QED  BY <1>4, <2>1, <2>2
\* The resync delay ends in this buffer: the setup callback is called.
<1>8. ASSUME k.pc = "play", k.left = 1, thread' = [thread EXCEPT ![t] = CbCalled([@ EXCEPT !.left = 0])],
             req' = Answered(k.req, t),
             UNCHANGED <<current, next, state, lostCb, stream, remaining, setupCb, tid, call, open,
                         overlap, broken>>
      PROVE  WasapiInv'
  <2>1. PICK due : Becomes(t, "store", k.stream, 0, due, k.lost) /\ ~due /\ due = thread'[t].cb
    BY <1>0, <1>8, ClientCalls
  <2> HIDE DEF ThreadRecord
  <2>2. Due(t)
    BY <1>0, <1>8 DEF Due, ClientThread
  <2>3. ~Due(t)' /\ thread'[t].req = k.req /\ DOMAIN thread' = DOMAIN thread
        /\ \A u \in DOMAIN thread \ {t} : thread'[u] = thread[u]
    BY <2>1 DEF Due, Becomes
  <2> HIDE DEF Due
  <2>4. /\ AnswersDue' /\ SetupsKept
        /\ req'[k.req].answers = 1
        /\ \A r \in DOMAIN req : /\ req[r].answers = 1 => req'[r].answers = 1
                                 /\ req'[r].losses = req[r].losses
    BY <1>8, <2>2, <2>3, ClientAnswers
  <2>5. ClientThread(t)'
    BY <1>0, <1>8, <2>1, <2>4 DEF Becomes, ClientThread, Told, SetupsKept
  <2>6. StreamKept /\ Live(t)
    BY <1>8 DEF StreamKept, Live, Lives, Past
  <2>7. /\ CommonInv' /\ LossesFit' /\ OwnerPlays' /\ ClientsFit'
        /\ \A w \in DOMAIN thread' : ClientThread(w)'
        /\ ~overlap' /\ ~broken' => InTurn'
    BY <1>8, <2>1, <2>4, <2>5, <2>6, ClientActs
  <2> QED  BY <1>1, <2>4, <2>7
\* The resync delay goes on, or is over since long.
<1>9. ASSUME NEW l, l = IF k.left > 0 THEN k.left - 1 ELSE 0, k.pc = "play", k.left # 1,
             thread' = [thread EXCEPT ![t].pc = "buffer", ![t].left = l],
             UNCHANGED <<current, next, state, lostCb, stream, remaining, setupCb, tid, call, req, open,
                         overlap, broken>>
      PROVE  WasapiInv'
  <2>1. Becomes(t, "buffer", k.stream, l, k.cb, k.lost)
    BY <1>0, <1>9, ClientCounts
  <2> HIDE DEF ThreadRecord
  <2>2. l \in Nat /\ (l > 0 => k.cb)
    BY <1>0, <1>9 DEF ClientThread
  <2>3. ClientThread(t)'
    BY <1>0, <1>9, <2>1, <2>2 DEF Becomes, ClientThread, Told
  <2>4. StreamKept /\ Live(t)
    BY <1>9 DEF StreamKept, Live, Lives, Past
  <2>5. AnswersDue'
    BY <1>2, <1>9, <2>1, ClientWaits
  <2>6. /\ CommonInv' /\ LossesFit' /\ OwnerPlays' /\ ClientsFit'
        /\ \A w \in DOMAIN thread' : ClientThread(w)'
        /\ ~overlap' /\ ~broken' => InTurn'
    BY <1>2, <1>9, <2>1, <2>3, <2>4, ClientActs
  <2> QED  BY <1>1, <2>5, <2>6
<1>10. CASE WasapiPlay(t)
  <2>1. UNCHANGED <<current, next, state, lostCb, stream, remaining, setupCb, tid, call, open,
                    overlap, broken>>
    BY <1>10 DEF WasapiPlay, owned, platform, deviceVars, history
  <2>2. k.pc = "play"
    BY <1>10 DEF WasapiPlay
  <2>3. CASE k.left = 1
    BY <1>8, <1>10, <2>1, <2>2, <2>3 DEF WasapiPlay
  <2>4. CASE k.left # 1
    <3>1. /\ req' = req
          /\ thread' = [thread EXCEPT ![t].pc = "buffer", ![t].left = IF @ > 0 THEN @ - 1 ELSE 0]
      BY <1>10, <2>4 DEF WasapiPlay
    <3>2. PICK l : l = IF k.left > 0 THEN k.left - 1 ELSE 0
      OBVIOUS
    <3>3. thread' = [thread EXCEPT ![t].pc = "buffer", ![t].left = l]
      BY <1>0, <3>1, <3>2 DEF ThreadRecord
    <3> QED  BY <1>9, <2>1, <2>2, <2>4, <3>1, <3>2, <3>3
  <2> QED  BY <2>3, <2>4
\* The thread that called the setup callback stores whom to tell of a loss.
<1>11. CASE WasapiStoreLost(t)
  <2>1. /\ UNCHANGED <<current, next, state, stream, remaining, setupCb, tid, call, req, open,
                       overlap, broken>>
        /\ k.pc = "store" /\ lostCb' = k.req
        /\ thread' = [thread EXCEPT ![t].pc = "buffer", ![t].fate = StoredAs(t)]
    BY <1>11 DEF WasapiStoreLost, platform, deviceVars, history
  <2>2. Becomes(t, "buffer", k.stream, k.left, k.cb, k.lost)
    BY <1>0, <2>1, ClientStores
  <2> HIDE DEF ThreadRecord
  <2>3. ClientThread(t)' /\ ~k.cb /\ Told(k.req) /\ k.req \in DOMAIN req
    BY <1>0, <2>1, <2>2 DEF Becomes, ClientThread, Told
  <2>4. lostCb' \in DOMAIN req /\ Told(lostCb')
    BY <2>1, <2>3 DEF Told
  <2>5. StreamKept /\ Live(t)
    BY <2>1 DEF StreamKept, Live, Lives, Past
  <2>6. AnswersDue'
    BY <1>2, <2>1, <2>2, <2>3, ClientWaits
  <2>7. /\ CommonInv' /\ LossesFit' /\ OwnerPlays' /\ ClientsFit'
        /\ \A w \in DOMAIN thread' : ClientThread(w)'
        /\ ~overlap' /\ ~broken' => InTurn'
    BY <1>2, <2>1, <2>2, <2>3, <2>4, <2>5, ClientActs
  <2> QED  BY <1>1, <2>6, <2>7
\* exit, within the resync delay: the setup callback is called with the failure.
<1>12. CASE WasapiExitEarly(t)
  <2>1. /\ UNCHANGED <<current, next, state, lostCb, stream, remaining, setupCb, tid, call, open,
                       overlap, broken>>
        /\ k.pc = "exit" /\ k.cb /\ req' = Answered(k.req, t)
        /\ thread' = [thread EXCEPT ![t].pc = "end", ![t].cb = FALSE, ![t].fate = "failed"]
    BY <1>12 DEF WasapiExitEarly, owned, platform, deviceVars, history
  <2>2. PICK due : Becomes(t, "end", k.stream, k.left, due, k.lost) /\ ~due /\ due = thread'[t].cb
    BY <1>0, <2>1, ClientExits
  <2> HIDE DEF ThreadRecord
  <2>3. Due(t)
    BY <2>1 DEF Due
  <2>4. ~Due(t)' /\ thread'[t].req = k.req /\ DOMAIN thread' = DOMAIN thread
        /\ \A u \in DOMAIN thread \ {t} : thread'[u] = thread[u]
    BY <2>2 DEF Due, Becomes
  <2> HIDE DEF Due
  <2>5. /\ AnswersDue' /\ SetupsKept
        /\ req'[k.req].answers = 1
        /\ \A r \in DOMAIN req : /\ req[r].answers = 1 => req'[r].answers = 1
                                 /\ req'[r].losses = req[r].losses
    BY <2>1, <2>3, <2>4, ClientAnswers
  <2>6. ClientThread(t)'
    BY <1>0, <2>1, <2>2, <2>5 DEF Becomes, ClientThread, Told, SetupsKept
  <2>7. StreamKept /\ Live(t) /\ (state # "IDLE" /\ t = tid => broken)
    BY <1>0, <2>1 DEF StreamKept, Live, Lives, Past, OwnerPlays
  <2>8. /\ CommonInv' /\ LossesFit' /\ OwnerPlays' /\ ClientsFit'
        /\ \A w \in DOMAIN thread' : ClientThread(w)'
        /\ ~overlap' /\ ~broken' => InTurn'
    BY <2>1, <2>2, <2>5, <2>6, <2>7, ClientActs
  <2> QED  BY <1>1, <2>5, <2>8
\* exit, after it: the output is taken from whoever has it.
<1>13. CASE WasapiExitLost(t)
  <2>1. /\ UNCHANGED <<current, next, remaining, setupCb, tid, call, req, open, overlap, broken>>
        /\ k.pc = "exit" /\ ~k.cb
    BY <1>13 DEF WasapiExitLost, owned, platform, deviceVars, history
  <2>2. CASE state = "IDLE"
    <3>1. ThreadGoes(t, "end") /\ UNCHANGED <<state, lostCb, stream>>
      BY <1>13, <2>2 DEF WasapiExitLost
    <3>2. open' \subseteq open /\ (broken => broken')
      BY <2>1
    <3> QED  BY <1>4, <2>1, <2>2, <3>1, <3>2
  <2>3. CASE state # "IDLE"
    <3>1. PICK at : at = IF lostCb = None THEN "end" ELSE "tell"
      OBVIOUS
    <3>2. /\ state' = "IDLE" /\ lostCb' = None /\ stream' = None
          /\ thread' = [thread EXCEPT ![t].pc = at, ![t].lost = lostCb]
      BY <1>13, <2>3, <3>1 DEF WasapiExitLost
    <3>3. PICK r : r = lostCb
      OBVIOUS
    <3>4. Becomes(t, at, k.stream, k.left, k.cb, r)
      BY <1>0, <3>2, <3>3, ClientTells
    <3> HIDE DEF ThreadRecord
    <3>5. Told(r) /\ r \in DOMAIN req \union {None}
      BY <1>0, <3>3 DEF WasapiInv, LossesFit
    <3>6. ClientThread(t)'
      BY <1>0, <2>1, <3>1, <3>3, <3>4, <3>5 DEF Becomes, ClientThread, Told
    <3>7. StreamKept /\ Live(t)
      BY <2>1, <3>2 DEF StreamKept, Live, Lives, Past
    <3>8. AnswersDue'
      BY <1>2, <2>1, <3>4, ClientWaits
    <3>9. broken' \/ overlap'
      <4>1. ASSUME ~broken, ~overlap
            PROVE  FALSE
        <5>1. t = tid
          BY <3>7, <4>1 DEF WasapiInv, InTurn, Turns, Live
        <5> QED  BY <1>0, <2>1, <2>3, <4>1, <5>1 DEF OwnerPlays
      <4> QED  BY <2>1, <4>1
    <3>10. at \in {"end", "tell"} /\ state' = "IDLE" /\ lostCb' = None /\ open' = open
      BY <2>1, <3>1, <3>2
    <3>11. /\ CommonInv' /\ LossesFit' /\ OwnerPlays' /\ ClientsFit'
           /\ \A w \in DOMAIN thread' : ClientThread(w)'
           /\ ~overlap' /\ ~broken' => InTurn'
      BY <1>2, <2>1, <3>4, <3>6, <3>7, <3>9, <3>10, ClientActs
    <3> QED  BY <1>1, <3>8, <3>11
  <2> QED  BY <2>2, <2>3
\* ... who is told.
<1>14. CASE WasapiTellLost(t)
  <2>1. /\ UNCHANGED <<current, next, state, lostCb, stream, remaining, setupCb, tid, call, open,
                       overlap, broken>>
        /\ k.pc = "tell" /\ req' = [req EXCEPT ![k.lost].losses = @ + 1]
        /\ thread' = [thread EXCEPT ![t].pc = "end", ![t].lost = None]
    BY <1>14 DEF WasapiTellLost, owned, platform, deviceVars, history
  <2>2. Becomes(t, "end", k.stream, k.left, k.cb, None)
    BY <1>0, <2>1, ClientTells
  <2> HIDE DEF ThreadRecord
  <2>3. k.lost \in DOMAIN req /\ req[k.lost].answers = 1 /\ ~k.cb
    BY <1>0, <2>1 DEF ClientThread, Told
  <2>4. PICK r : r = k.lost
    OBVIOUS
  <2>5. OnlySetup(r) /\ req'[r].answers = req[r].answers /\ SetupsKept
    BY <1>0, <2>1, <2>3, <2>4, SetupToldOfLoss, ToldKept
  <2>6. \A q \in DOMAIN req : /\ req'[q].answers = req[q].answers
                              /\ req[q].answers = 1 => req'[q].answers = 1
                              /\ req'[q].losses > 0 => req[q].losses > 0 \/ Told(q)
    BY <2>3, <2>4, <2>5 DEF OnlySetup, Told
  <2>7. ClientThread(t)'
    BY <1>0, <2>1, <2>2, <2>3, <2>5, <2>6 DEF Becomes, ClientThread, Told, SetupsKept
  <2>8. StreamKept /\ Live(t) /\ (state # "IDLE" /\ t = tid => broken)
    BY <1>0, <2>1 DEF StreamKept, Live, Lives, Past, OwnerPlays
  <2>9. AnswersDue'
    BY <2>1, <2>2, <2>3, <2>5, <2>6, ClientWaits
  <2>10. /\ CommonInv' /\ LossesFit' /\ OwnerPlays' /\ ClientsFit'
         /\ \A w \in DOMAIN thread' : ClientThread(w)'
         /\ ~overlap' /\ ~broken' => InTurn'
    BY <2>1, <2>2, <2>5, <2>6, <2>7, <2>8, ClientActs
  <2> QED  BY <1>1, <2>9, <2>10
<1> QED  BY <1>5, <1>6, <1>7, <1>10, <1>11, <1>12, <1>13, <1>14 DEF WasapiThreadStep

\* Every step of WASAPI keeps the invariant.
LEMMA WasapiStep ==
    ASSUME WasapiInv, WasapiNext
    PROVE  WasapiInv'
<1>0. /\ CommonInv /\ Sessions \subseteq Callers /\ Others \subseteq Callers
      /\ ~overlap /\ ~broken => InTurn
  BY DEF WasapiInv, Callers
\* A call enters.
<1>1. ASSUME NEW c \in Callers,
             /\ CommonInv' /\ AnswersDue' /\ LossesFit' /\ OwnerPlays' /\ ClientsFit'
             /\ \A t \in DOMAIN thread' : ClientThread(t)',
             \/ SetupEnter(c) \/ ForceEnter(c) \/ \E t \in Knows(c) : Teardown(c, t),
             UNCHANGED broken, overlap' = (overlap \/ \E d \in Callers : ~Idle(d))
      PROVE  WasapiInv'
  <2>1. ~overlap' /\ ~broken' => InTurn'
    BY <1>0, <1>1, TurnEnters DEF InTurn
  <2> QED  BY <1>1, <2>1 DEF WasapiInv
\* A call goes on.
<1>2. ASSUME NEW c \in Callers,
             /\ CommonInv' /\ AnswersDue' /\ LossesFit' /\ OwnerPlays' /\ ClientsFit'
             /\ \A t \in DOMAIN thread' : ClientThread(t)',
             \/ SetupRefused(c) \/ SetupFail(c) \/ TellLost(c) \/ ForceReturn(c) \/ ForceRetry(c)
             \/ JoinBegin(c) \/ JoinEnd(c),
             UNCHANGED <<overlap, broken>>
      PROVE  WasapiInv'
  <2>1. ~overlap' /\ ~broken' => InTurn'
    BY <1>0, <1>2, TurnCalls, TurnJoins DEF InTurn
  <2> QED  BY <1>2, <2>1 DEF WasapiInv
\* A call that takes the output
<1>3. ASSUME NEW c \in Callers,
             \/ SetupEnter(c) /\ c \in Sessions
             \/ ForceEnter(c)
             \/ ForceRetry(c),
             UNCHANGED <<open, broken>>
      PROVE  /\ CommonInv' /\ AnswersDue' /\ LossesFit' /\ OwnerPlays' /\ ClientsFit'
             /\ \A t \in DOMAIN thread' : ClientThread(t)'
  <2>1. UNCHANGED <<thread, stream, tid, remaining, setupCb>>
    BY <1>3 DEF SetupEnter, ForceEnter, ForceRetry
  <2>2. PICK k, e : KickOf(c, k, e)
    BY <1>0, <1>3, SetupKicksOff, ForceKicksOff
  <2> HIDE DEF KickOf
  <2> QED  BY <1>3, <2>1, <2>2, WasapiKicks
<1>4. ASSUME NEW s \in Sessions, WasapiSession(s)
      PROVE  WasapiInv'
  <2>0. s \in Callers
    BY <1>0
  <2>1. CASE WasapiSetupEnter(s)
    <3>1. /\ SetupEnter(s) /\ UNCHANGED <<open, broken>>
          /\ overlap' = (overlap \/ \E d \in Callers : ~Idle(d))
      BY <2>1 DEF WasapiSetupEnter, Enters, deviceVars
    <3> QED  BY <1>1, <1>3, <2>0, <3>1
  <2>2. CASE WasapiSetupRefused(s)
    <3>1. CASE SetupRefused(s) /\ UNCHANGED platform
      <4>1. SetupRefused(s) /\ UNCHANGED <<open, overlap, broken>>
        BY <3>1 DEF platform, deviceVars, history
      <4> QED  BY <1>2, <2>0, <4>1, WasapiGoes
    <3>2. CASE ~(SetupRefused(s) /\ UNCHANGED platform)
      <4>1. PICK r, t : r = call[s].req /\ t = call[s].token
        OBVIOUS
      <4>2. /\ call[s].op = "setup" /\ call[s].pc = "check" /\ StillCurrent(s) /\ stream' = None
            /\ ClientOpens(call[s].token) /\ ClientFails(call[s].token, call[s].req)
            /\ Goto(s, "refuse")
            /\ UNCHANGED <<current, next, state, lostCb, remaining, setupCb, req, overlap>>
        BY <2>2, <3>2 DEF WasapiSetupRefused, ClientOpens
      <4> HIDE DEF WasapiInv, ClientOpens, ClientFails, ClientRuns
      <4> QED  BY <2>0, <4>1, <4>2, WasapiOpens
    <3> QED  BY <3>1, <3>2
  <2>3. CASE WasapiSetupGranted(s)
    <3>1. PICK r, t : r = call[s].req /\ t = call[s].token
      OBVIOUS
    <3>2. /\ call[s].op = "setup" /\ call[s].pc = "check" /\ StillCurrent(s) /\ stream' = None
          /\ ClientOpens(call[s].token) /\ ClientRuns(call[s].token, call[s].req)
          /\ Return(s) /\ state' = "STOPPED"
          /\ req' = [req EXCEPT ![call[s].req].token = call[s].token]
          /\ UNCHANGED <<current, next, lostCb, remaining, setupCb, overlap>>
      BY <2>3 DEF WasapiSetupGranted, ClientOpens
    <3> HIDE DEF WasapiInv, ClientOpens, ClientFails, ClientRuns
    <3> QED  BY <2>0, <3>1, <3>2, WasapiOpens
  <2>4. CASE WasapiSetupFail(s)
    <3>1. SetupFail(s) /\ UNCHANGED <<open, overlap, broken>>
      BY <2>4 DEF WasapiSetupFail, platform, deviceVars, history
    <3> QED  BY <1>2, <2>0, <3>1, WasapiFails
  <2>5. ASSUME NEW t \in Knows(s), WasapiTeardown(s, t)
        PROVE  WasapiInv'
    <3>1. /\ Teardown(s, t) /\ UNCHANGED <<open, broken>>
          /\ overlap' = (overlap \/ \E d \in Callers : ~Idle(d))
      BY <2>5 DEF WasapiTeardown, Enters, deviceVars
    <3>2. /\ CommonInv' /\ AnswersDue' /\ LossesFit' /\ OwnerPlays' /\ ClientsFit'
          /\ \A u \in DOMAIN thread' : ClientThread(u)'
      BY <2>0, <3>1, WasapiGoes
    <3> QED  BY <1>1, <2>0, <3>1, <3>2
  <2>6. ASSUME NEW t \in Knows(s), WasapiStart(s, t) \/ WasapiStop(s, t)
        PROVE  WasapiInv'
    <3>1. (Start(s, t) \/ Stop(s, t)) /\ UNCHANGED <<open, overlap, broken>>
      BY <2>6 DEF WasapiStart, WasapiStop, platform, deviceVars, history
    <3>2. /\ CommonInv' /\ AnswersDue' /\ LossesFit' /\ OwnerPlays' /\ ClientsFit'
          /\ \A u \in DOMAIN thread' : ClientThread(u)'
      BY <2>0, <3>1, WasapiGoes
    <3>3. /\ UNCHANGED <<call, tid, thread>>
          /\ state' = "IDLE" => state = "IDLE"
      BY <3>1 DEF Start, Stop
    <3>4. DOMAIN thread' = DOMAIN thread /\ \A u \in DOMAIN thread : Live(u)' => Live(u)
      BY <3>3 DEF Live, Lives, Past
    <3>5. ~overlap' /\ ~broken' => InTurn'
      BY <1>0, <3>1, <3>3, <3>4, TurnThreads DEF InTurn, Live
    <3> QED  BY <3>2, <3>5 DEF WasapiInv
  <2> QED  BY <1>4, <2>1, <2>2, <2>3, <2>4, <2>5, <2>6 DEF WasapiSession
<1>5. ASSUME NEW o \in Others, WasapiForceEnter(o) \/ WasapiForceEnd(o)
      PROVE  WasapiInv'
  <2>0. o \in Callers
    BY <1>0
  <2>1. CASE WasapiForceEnter(o)
    <3>1. /\ ForceEnter(o) /\ UNCHANGED <<open, broken>>
          /\ overlap' = (overlap \/ \E d \in Callers : ~Idle(d))
      BY <2>1 DEF WasapiForceEnter, Enters, deviceVars
    <3> QED  BY <1>1, <1>3, <2>0, <3>1
  <2>2. CASE WasapiForceEnd(o)
    <3>1. (ForceRetry(o) \/ ForceReturn(o)) /\ UNCHANGED <<open, overlap, broken>>
      BY <2>2 DEF WasapiForceEnd, platform, deviceVars, history
    <3>2. CASE ForceRetry(o)
      BY <1>2, <1>3, <2>0, <3>1, <3>2
    <3>3. CASE ForceReturn(o)
      BY <1>2, <2>0, <3>1, <3>3, WasapiGoes
    <3> QED  BY <3>1, <3>2, <3>3
  <2> QED  BY <1>5, <2>1, <2>2
<1>6. ASSUME NEW c \in Callers, WasapiJoin(c) \/ WasapiTell(c)
      PROVE  WasapiInv'
  <2>1. (JoinBegin(c) \/ JoinEnd(c) \/ TellLost(c)) /\ UNCHANGED <<open, overlap, broken>>
    BY <1>6 DEF WasapiJoin, WasapiTell, platform, deviceVars, history
  <2> QED  BY <1>2, <2>1, WasapiGoes
<1> QED  BY <1>4, <1>5, <1>6, WasapiThreads DEF WasapiNext

\* Where a thread waits for its end, or has ended
Resting == {"done", "joined", "end", "tell", "failed"}

\* The thread of a granted setup is the setup's.
TokensFit ==
    \A r \in DOMAIN req : req[r].token # None =>
        req[r].token \in DOMAIN thread /\ thread[req[r].token].req = r

\* A thread holds a loss only where it tells it.
LossHeld == \A t \in DOMAIN thread : thread[t].pc # "tell" => thread[t].lost = None

\* What the report of a loss rests on: as long as calls do not overlap, the thread that
\* stores the callback, or that takes the output from its owner, is the owner's.
ReportInv ==
    /\ TokensFit /\ LossHeld
    /\ ~overlap => Turns(Resting) /\ WasapiLossesReported

\* A step of a call, or of a thread that reports as before, loses no report.
LEMMA ReportsKept ==
    ASSUME TokensFit, DOMAIN thread \subseteq DOMAIN thread',
           \A t \in DOMAIN thread :
              /\ thread'[t].req = thread[t].req /\ thread'[t].cb = thread[t].cb
              /\ thread'[t].lost = thread[t].lost /\ thread'[t].fate = thread[t].fate
              /\ thread[t].pc = "store" => thread'[t].pc = "store",
           NEW r \in DOMAIN req, req[r].token # None, WasapiReported(r),
           req'[r].token = req[r].token, LossReported(r) => LossReported(r)'
    PROVE  WasapiReported(r)'
<1> DEFINE t == req[r].token
<1>1. t \in DOMAIN thread /\ t = req'[r].token
  BY DEF TokensFit
<1>2. CASE LossReported(r)
  BY <1>2 DEF WasapiReported
<1>3. CASE \E u \in DOMAIN thread : thread[u].lost = r
  BY <1>3 DEF WasapiReported
<1>4. CASE thread[t].cb
  <2>1. thread'[t].cb
    BY <1>1, <1>4
  <2> QED  BY <1>1, <2>1 DEF WasapiReported
<1>5. CASE thread[t].pc = "store" \/ thread[t].fate \in {"failed", "late"}
  BY <1>1, <1>5 DEF WasapiReported
<1> QED  BY <1>2, <1>3, <1>4, <1>5 DEF WasapiReported

\* The steps of the calls that start no thread
LEMMA ReportCalls ==
    ASSUME WasapiInv, ReportInv, NEW c \in Callers,
           \/ /\ \/ c \in Sessions /\ SetupEnter(c)
                 \/ c \in Sessions /\ \E t \in Knows(c) : Teardown(c, t)
                 \/ ForceEnter(c)
              /\ overlap' = (overlap \/ \E d \in Callers : ~Idle(d))
           \/ /\ \/ SetupRefused(c) \/ SetupFail(c) \/ ForceRetry(c) \/ ForceReturn(c)
                 \/ JoinBegin(c) \/ JoinEnd(c) \/ TellLost(c)
                 \/ c \in Sessions /\ \E t \in Knows(c) : Start(c, t) \/ Stop(c, t)
              /\ UNCHANGED overlap
    PROVE  ReportInv'
<1>0. CommonInv /\ TokensFit /\ LossHeld /\ Past \subseteq Resting
  BY DEF WasapiInv, ReportInv, Past, Resting
<1>1. ClientsJoin
  <2>1. UNCHANGED thread \/ JoinEnd(c)
    BY DEF SetupEnter, Teardown, ForceEnter, SetupRefused, SetupFail, ForceRetry, ForceReturn,
           JoinBegin, TellLost, Start, Stop
  <2> QED  BY <2>1, CallsLeaveClients
<1>2. \A r \in DOMAIN req : /\ r \in DOMAIN req' /\ req'[r].token = req[r].token
                            /\ LossReported(r) => LossReported(r)'
                            /\ \A q \in DOMAIN req' \ DOMAIN req : req'[q].token = None
  BY <1>0, SharedLoss
<1>3. \A q \in DOMAIN req' \ DOMAIN req : req'[q].token = None
  <2>1. CASE c \in Sessions /\ SetupEnter(c)
    <3>1. req \in Seq(SetupRecord)
      BY <1>0 DEF CommonInv, PlainFits
    <3> QED  BY <2>1, <3>1 DEF SetupEnter
  <2>2. CASE ~(c \in Sessions /\ SetupEnter(c))
    <3>1. DOMAIN req' = DOMAIN req
      BY <2>2 DEF Teardown, ForceEnter, SetupRefused, SetupFail, Answered, ForceRetry, ForceReturn,
                  JoinBegin, JoinEnd, TellLost, Start, Stop
    <3> QED  BY <3>1
  <2> QED  BY <2>1, <2>2
<1>4. TokensFit' /\ LossHeld'
  BY <1>0, <1>1, <1>2, <1>3 DEF TokensFit, LossHeld, ClientsJoin
<1>5. ASSUME WasapiLossesReported
      PROVE  WasapiLossesReported'
  <2> SUFFICES ASSUME NEW r \in DOMAIN req', req'[r].token # None
               PROVE  WasapiReported(r)'
    BY DEF WasapiLossesReported
  <2>1. r \in DOMAIN req /\ req[r].token # None /\ req'[r].token = req[r].token
    BY <1>2, <1>3
  <2>2. WasapiReported(r)
    BY <1>5, <2>1 DEF WasapiLossesReported
  <2> QED  BY <1>0, <1>1, <1>2, <2>1, <2>2, ReportsKept DEF ClientsJoin
<1>6. ASSUME ~overlap', Turns(Resting)
      PROVE  Turns(Resting)'
  <2>1. CASE \/ SetupEnter(c) \/ ForceEnter(c) \/ \E t \in Knows(c) : Teardown(c, t)
    <3>1. CASE overlap' = (overlap \/ \E d \in Callers : ~Idle(d))
      <4>1. \A d \in Callers : Idle(d)
        BY <1>6, <3>1
      <4> QED  BY <1>0, <1>6, <2>1, <4>1, TurnEnters
    <3>2. CASE ForceRetry(c) \/ SetupRefused(c) \/ SetupFail(c) \/ ForceReturn(c) \/ TellLost(c)
      BY <1>0, <1>6, <3>2, TurnCalls
    <3>3. CASE JoinBegin(c) \/ JoinEnd(c)
      BY <1>0, <1>6, <3>3, TurnJoins
    <3>4. CASE \E t \in Knows(c) : Start(c, t) \/ Stop(c, t)
      <4>1. UNCHANGED <<call, tid, thread>> /\ (state' = "IDLE" => state = "IDLE")
        BY <3>4 DEF Start, Stop
      <4> QED  BY <1>0, <1>6, <4>1, TurnThreads DEF Lives
    <3> QED  BY <3>1, <3>2, <3>3, <3>4
  <2>2. CASE SetupRefused(c) \/ SetupFail(c) \/ ForceRetry(c) \/ ForceReturn(c) \/ TellLost(c)
    BY <1>0, <1>6, <2>2, TurnCalls
  <2>3. CASE JoinBegin(c) \/ JoinEnd(c)
    BY <1>0, <1>6, <2>3, TurnJoins
  <2>4. CASE \E t \in Knows(c) : Start(c, t) \/ Stop(c, t)
    <3>1. UNCHANGED <<call, tid, thread>> /\ (state' = "IDLE" => state = "IDLE")
      BY <2>4 DEF Start, Stop
    <3> QED  BY <1>0, <1>6, <3>1, TurnThreads DEF Lives
  <2> QED  BY <2>1, <2>2, <2>3, <2>4
<1>7. overlap => overlap'
  OBVIOUS
<1> QED  BY <1>4, <1>5, <1>6, <1>7 DEF ReportInv

\* The thread of a setup starts, and owes its callback, or fails.
LEMMA ReportOpens ==
    ASSUME WasapiInv, ReportInv, NEW c \in Callers, NEW t, NEW k, NEW pc, Grants(c, t, k),
           t = call[c].token, t # None, t \notin DOMAIN thread, k.pc # "joining",
           call[c].pc = "check",
           thread' = WasapiThread(t, call[c].req, pc), UNCHANGED overlap,
           \/ pc = "fill" /\ state' # "IDLE"
           \/ pc = "failed" /\ UNCHANGED <<state, req>>
    PROVE  ReportInv'
<1> DEFINE r == call[c].req
<1>0. CommonInv /\ TokensFit /\ LossHeld /\ Past \subseteq Resting
  BY DEF WasapiInv, ReportInv, Past, Resting
<1>1. /\ OnlySetup(r) /\ req[r].token = None /\ req'[r].token \in {None, t} /\ r \in DOMAIN req
  BY <1>0, GrantsRecords
<1>2. /\ DOMAIN thread' = DOMAIN thread \union {t}
      /\ \A u \in DOMAIN thread : thread'[u] = thread[u]
      /\ thread'[t].pc = pc /\ thread'[t].req = r /\ thread'[t].cb /\ thread'[t].lost = None
  BY ClientStarts
<1>3. DOMAIN req' = DOMAIN req /\ \A q \in DOMAIN req \ {r} : req'[q] = req[q]
  BY <1>1 DEF OnlySetup
<1>4. TokensFit' /\ LossHeld'
  <2> HIDE DEF r
  <2> QED  BY <1>0, <1>1, <1>2, <1>3 DEF TokensFit, LossHeld
<1>5. ASSUME WasapiLossesReported
      PROVE  WasapiLossesReported'
  <2> SUFFICES ASSUME NEW q \in DOMAIN req', req'[q].token # None
               PROVE  WasapiReported(q)'
    BY DEF WasapiLossesReported
  <2>1. CASE q = r
    <3>1. req'[q].token = t
      BY <1>1, <2>1
    <3>2. thread'[req'[q].token].cb
      BY <1>2, <3>1
    <3> QED  BY <3>2 DEF WasapiReported
  <2>2. CASE q # r
    <3>1. q \in DOMAIN req /\ req'[q].token = req[q].token /\ req[q].token # None
      BY <1>3, <2>2
    <3>2. WasapiReported(q)
      BY <1>5, <3>1 DEF WasapiLossesReported
    <3>3. LossReported(q) => LossReported(q)'
      BY <1>0, <2>2, <3>1, GrantsLoss
    <3> QED  BY <1>0, <1>2, <3>1, <3>2, <3>3, ReportsKept
  <2> QED  BY <2>1, <2>2
<1>6. ASSUME Turns(Resting)
      PROVE  Turns(Resting)'
  <2>1. /\ call' = [call EXCEPT ![c] = k] /\ call = [d \in Callers |-> call[d]]
        /\ ~Idle(c) /\ ~Joins(c) /\ state = "IDLE" /\ tid' = t
    BY <1>0 DEF CommonInv, CallsFit, Grants, Behind, Idle, Joins
  <2>2. state' # "IDLE" \/ ~Lives(Resting, t)'
    BY <1>2 DEF Lives, Resting
  <2>3. \A u \in DOMAIN thread \ {t} : thread'[u] = thread[u]
    BY <1>2
  <2> HIDE DEF Grants
  <2> QED  BY <1>0, <1>2, <1>6, <2>1, <2>2, <2>3, TurnGrants
<1> QED  BY <1>4, <1>5, <1>6 DEF ReportInv

\* A step of the thread t: it loses no report that rests on it.
LEMMA ClientReports ==
    ASSUME WasapiInv, ReportInv, NEW t \in DOMAIN thread, NEW at, NEW s, NEW l, NEW due, NEW lost,
           Becomes(t, at, s, l, due, lost), UNCHANGED <<call, current, tid, overlap>>,
           DOMAIN req' = DOMAIN req,
           \A r \in DOMAIN req : /\ req'[r].token = req[r].token
                                 /\ req'[r].teardowns = req[r].teardowns
                                 /\ req[r].losses > 0 => req'[r].losses > 0,
           at # "tell" => lost = None,
           thread[t].cb => thread'[t].cb \/ at = "store" \/ thread'[t].fate = "failed",
           thread[t].pc = "store" =>
               at = "store" \/ thread'[t].fate = "late" \/ (Owns(t)' /\ lostCb' = thread[t].req),
           thread[t].pc # "store" /\ thread[t].fate \in {"failed", "late"} =>
               thread'[t].fate \in {"failed", "late"},
           thread[t].lost # None => lost = thread[t].lost \/ req'[thread[t].lost].losses > 0,
           state # "IDLE" => \/ state' # "IDLE" /\ lostCb' = lostCb
                             \/ /\ state' # "IDLE" /\ lostCb' = thread[t].req
                                /\ thread[t].pc = "store"
                             \/ lost = lostCb,
           at \notin Resting => thread[t].pc \notin Resting,
           state' = "IDLE" => state = "IDLE" \/ (at \in Resting /\ thread[t].pc \notin Resting)
    PROVE  ReportInv'
<1>0. /\ CommonInv /\ TokensFit /\ LossHeld /\ Past \subseteq Resting /\ None \notin DOMAIN req
      /\ state # "IDLE" => current = tid
  BY SetupsTyped DEF WasapiInv, ReportInv, Past, Resting, CommonInv, PlainFits
<1>1. /\ DOMAIN thread' = DOMAIN thread /\ \A u \in DOMAIN thread \ {t} : thread'[u] = thread[u]
      /\ thread'[t].req = thread[t].req /\ thread'[t].pc = at /\ thread'[t].lost = lost
  BY DEF Becomes
<1>2. TokensFit' /\ LossHeld'
  BY <1>0, <1>1 DEF TokensFit, LossHeld
<1>3. ASSUME Turns(Resting), NEW r \in DOMAIN req, req[r].token # None, LossReported(r)
      PROVE  WasapiReported(r)'
  <2>1. CASE state # "IDLE" /\ current = req[r].token /\ lostCb = r
    <3>1. CASE state' # "IDLE" /\ lostCb' = lostCb
      BY <2>1, <3>1 DEF WasapiReported, LossReported
    <3>2. CASE state' # "IDLE" /\ lostCb' = thread[t].req /\ thread[t].pc = "store"
      <4>1. t = tid
        BY <1>3, <3>2 DEF Turns, Lives, Resting
      <4>2. thread[t].req = r
        BY <1>0, <1>3, <2>1, <4>1 DEF TokensFit
      <4> QED  BY <2>1, <3>2, <4>2 DEF WasapiReported, LossReported
    <3>3. CASE lost = lostCb
      BY <1>1, <2>1, <3>3 DEF WasapiReported
    <3> QED  BY <2>1, <3>1, <3>2, <3>3
  <2>2. CASE req[r].teardowns = 1 \/ req[r].losses > 0 \/ \E c \in Callers : call[c].lost = r
    BY <2>2 DEF WasapiReported, LossReported
  <2> QED  BY <1>3, <2>1, <2>2 DEF LossReported
<1>4. ASSUME NEW r \in DOMAIN req, req[r].token = t, req'[r].token = t
      PROVE  /\ thread[t].cb => WasapiReported(r)'
             /\ thread[t].pc = "store" => WasapiReported(r)'
             /\ thread[t].pc # "store" /\ thread[t].fate \in {"failed", "late"} =>
                   WasapiReported(r)'
  <2>1. thread'[t].cb \/ at = "store" \/ thread'[t].fate \in {"failed", "late"} => WasapiReported(r)'
    BY <1>1, <1>4 DEF WasapiReported
  <2>2. Owns(t)' /\ lostCb' = thread[t].req => WasapiReported(r)'
    <3>1. thread[t].req = r
      BY <1>0, <1>4 DEF TokensFit, CommonInv, PlainFits, None
    <3> QED  BY <1>4, <3>1 DEF Owns, WasapiReported, LossReported
  <2> QED  BY <2>1, <2>2
<1>5. ASSUME Turns(Resting), WasapiLossesReported
      PROVE  WasapiLossesReported'
  <2> SUFFICES ASSUME NEW r \in DOMAIN req, req[r].token # None, req'[r].token = req[r].token
               PROVE  WasapiReported(r)'
    BY DEF WasapiLossesReported
  <2> DEFINE u == req[r].token
  <2>1. WasapiReported(r) /\ u \in DOMAIN thread
    BY <1>0, <1>5 DEF WasapiLossesReported, TokensFit
  <2>2. CASE LossReported(r)
    BY <1>3, <1>5, <2>2
  <2>3. ASSUME NEW v \in DOMAIN thread, thread[v].lost = r
        PROVE  WasapiReported(r)'
    <3>1. CASE v = t
      <4>1. lost = r \/ req'[r].losses > 0
        BY <1>0, <2>3, <3>1
      <4> QED  BY <1>1, <4>1 DEF WasapiReported, LossReported
    <3>2. CASE v # t
      BY <1>1, <2>3, <3>2 DEF WasapiReported
    <3> QED  BY <3>1, <3>2
  <2>4. CASE thread[u].cb \/ thread[u].pc = "store" \/ thread[u].fate \in {"failed", "late"}
    <3>1. CASE u = t
      BY <1>4, <2>4, <3>1
    <3>2. CASE u # t
      <4>1. thread'[u] = thread[u]
        BY <1>1, <2>1, <3>2
      <4> QED  BY <2>4, <4>1 DEF WasapiReported
    <3> QED  BY <3>1, <3>2
  <2> QED  BY <2>1, <2>2, <2>3, <2>4 DEF WasapiReported
<1>6. ASSUME Turns(Resting)
      PROVE  Turns(Resting)'
  <2>1. \A u \in DOMAIN thread : Lives(Resting, u)' => Lives(Resting, u)
    BY <1>1 DEF Lives
  <2>2. CASE state' = "IDLE" => state = "IDLE"
    BY <1>0, <1>1, <1>6, <2>1, <2>2, TurnThreads
  <2>3. CASE at \in Resting /\ thread[t].pc \notin Resting
    <3>1. \A u \in DOMAIN thread : ~Lives(Resting, u)'
      BY <1>1, <1>6, <2>3 DEF Turns, Lives
    <3> QED  BY <1>1, <1>6, <3>1 DEF Turns, OneCaller, Idle
  <2> QED  BY <2>2, <2>3
<1> QED  BY <1>2, <1>5, <1>6 DEF ReportInv

\* The steps of the thread: what it owes or holds is reported till it told it.
LEMMA ReportThreads ==
    ASSUME WasapiInv, ReportInv, NEW t \in DOMAIN thread, WasapiThreadStep(t)
    PROVE  ReportInv'
<1> DEFINE k == thread[t]
<1>0. /\ CommonInv /\ LossHeld /\ ClientThread(t) /\ ThreadRecord(k)
      /\ req \in Seq(SetupRecord) /\ k.req \in DOMAIN req /\ None \notin DOMAIN req
      /\ \A r \in DOMAIN req : req[r].losses \in Nat
  BY SetupsTyped DEF WasapiInv, ReportInv, CommonInv, PlainFits, ClientThread, SetupRecord
<1>1. k.pc # "tell" => k.lost = None
  BY <1>0 DEF LossHeld
\* A thread goes on, and nothing else happens to what reports rest on.
<1>2. ASSUME NEW at, NEW s, NEW l, Becomes(t, at, s, l, k.cb, k.lost), thread'[t].fate = k.fate,
             UNCHANGED <<call, current, tid, overlap, state, lostCb, req>>,
             k.pc \notin {"store", "tell"}, at # "tell", at \notin Resting => k.pc \notin Resting
      PROVE  ReportInv'
  <2>1. PICK due : due = k.cb
    OBVIOUS
  <2>2. Becomes(t, at, s, l, due, k.lost)
    BY <1>2, <2>1
  <2>3. k.cb => thread'[t].cb
    BY <1>2 DEF Becomes
  <2>4. k.lost = None
    BY <1>1, <1>2
  <2> HIDE DEF Becomes, Resting
  <2> QED  BY <1>2, <2>2, <2>3, <2>4, ClientReports
<1>3. CASE WasapiFill(t)
  <2>1. k.pc = "fill" /\ UNCHANGED <<call, current, tid, overlap, state, lostCb, req>>
    BY <1>3 DEF WasapiFill, platform, deviceVars, history
  <2>2. CASE current # t
    <3>1. ThreadGoes(t, "exit")
      BY <1>3, <2>2 DEF WasapiFill
    <3>2. /\ Becomes(t, "exit", k.stream, k.left, k.cb, k.lost)
          /\ thread'[t].fate = k.fate
      BY <1>0, <3>1, ThreadMoves
    <3> QED  BY <1>2, <2>1, <3>2 DEF Resting
  <2>3. CASE current = t
    <3>1. PICK u : thread' = [thread EXCEPT ![t].pc = "play", ![t].stream = u]
      BY <1>3, <2>3 DEF WasapiFill
    <3>2. /\ Becomes(t, "play", u, k.left, k.cb, k.lost)
          /\ thread'[t].fate = k.fate
      BY <1>0, <3>1, ClientFills
    <3> QED  BY <1>2, <2>1, <3>2 DEF Resting
  <2> QED  BY <2>2, <2>3
<1>4. CASE WasapiPlay(t)
  <2>1. k.pc = "play" /\ UNCHANGED <<call, current, tid, overlap, state, lostCb>>
    BY <1>4 DEF WasapiPlay, owned, platform, deviceVars, history
  <2>2. CASE k.left = 1
    <3>1. /\ thread' = [thread EXCEPT ![t] = CbCalled([@ EXCEPT !.left = 0])]
          /\ req' = Answered(k.req, t)
      BY <1>4, <2>2 DEF WasapiPlay
    <3>2. PICK due : due = thread'[t].cb
      OBVIOUS
    <3>3. Becomes(t, "store", k.stream, 0, due, k.lost)
      BY <1>0, <3>1, <3>2, ClientCalls
    <3>4. t \in Int
      BY <1>0 DEF CommonInv, PlainFits
    <3>5. DOMAIN req' = DOMAIN req /\ \A r \in DOMAIN req :
              /\ req'[r].token = req[r].token /\ req'[r].teardowns = req[r].teardowns
              /\ req[r].losses > 0 => req'[r].losses > 0
      BY <1>0, <3>1, <3>4, SetupAnswered DEF OnlySetup
    <3>6. thread'[t].fate = k.fate
      BY <1>0, <3>1, ClientCalls
    <3> QED  BY <1>1, <2>1, <3>3, <3>5, <3>6, ClientReports DEF Resting
  <2>3. CASE k.left # 1
    <3>1. /\ req' = req
          /\ thread' = [thread EXCEPT ![t].pc = "buffer", ![t].left = IF @ > 0 THEN @ - 1 ELSE 0]
      BY <1>4, <2>3 DEF WasapiPlay
    <3>2. PICK l : l = IF k.left > 0 THEN k.left - 1 ELSE 0
      OBVIOUS
    <3>3. thread' = [thread EXCEPT ![t].pc = "buffer", ![t].left = l]
      BY <1>0, <3>1, <3>2 DEF ThreadRecord
    <3>4. /\ Becomes(t, "buffer", k.stream, l, k.cb, k.lost)
          /\ thread'[t].fate = k.fate
      BY <1>0, <3>3, ClientCounts
    <3> QED  BY <1>2, <2>1, <3>1, <3>4 DEF Resting
  <2> QED  BY <2>2, <2>3
\* The callback is stored for the owner, or too late.
<1>5. CASE WasapiStoreLost(t)
  <2>1. /\ k.pc = "store" /\ lostCb' = k.req
        /\ thread' = [thread EXCEPT ![t].pc = "buffer", ![t].fate = StoredAs(t)]
        /\ UNCHANGED <<call, current, tid, overlap, state, req>>
    BY <1>5 DEF WasapiStoreLost, platform, deviceVars, history
  <2>2. /\ Becomes(t, "buffer", k.stream, k.left, k.cb, k.lost)
        /\ thread'[t].fate = StoredAs(t)
    BY <1>0, <2>1, ClientStores
  <2>3. ~k.cb
    BY <1>0, <2>1 DEF ClientThread
  <2>4. thread'[t].fate = "late" \/ (Owns(t)' /\ lostCb' = k.req)
    BY <2>1, <2>2 DEF StoredAs, Owns
  <2> QED  BY <1>1, <2>1, <2>2, <2>3, <2>4, ClientReports DEF Resting
<1>6. CASE WasapiBuffer(t)
  <2>1. k.pc = "buffer" /\ UNCHANGED <<call, current, tid, overlap, state, lostCb, req>>
    BY <1>6 DEF WasapiBuffer, owned
  <2>2. PICK at \in {"fill", "exit"} : ThreadGoes(t, at)
    BY <1>6 DEF WasapiBuffer
  <2>3. /\ Becomes(t, at, k.stream, k.left, k.cb, k.lost)
        /\ thread'[t].fate = k.fate
    BY <1>0, <2>2, ThreadMoves
  <2> QED  BY <1>2, <2>1, <2>2, <2>3 DEF Resting
\* The setup fails: its callback says so.
<1>7. CASE WasapiExitEarly(t)
  <2>1. /\ k.pc = "exit" /\ UNCHANGED <<call, current, tid, overlap, state, lostCb>>
        /\ req' = Answered(k.req, t)
        /\ thread' = [thread EXCEPT ![t].pc = "end", ![t].cb = FALSE, ![t].fate = "failed"]
    BY <1>7 DEF WasapiExitEarly, owned, platform, deviceVars, history
  <2>2. PICK due : due = thread'[t].cb
    OBVIOUS
  <2>3. Becomes(t, "end", k.stream, k.left, due, k.lost) /\ thread'[t].fate = "failed"
    BY <1>0, <2>1, <2>2, ClientExits
  <2>4. t \in Int
    BY <1>0 DEF CommonInv, PlainFits
  <2>5. DOMAIN req' = DOMAIN req /\ \A r \in DOMAIN req :
            /\ req'[r].token = req[r].token /\ req'[r].teardowns = req[r].teardowns
            /\ req[r].losses > 0 => req'[r].losses > 0
    BY <1>0, <2>1, <2>4, SetupAnswered DEF OnlySetup
  <2> QED  BY <1>1, <2>1, <2>3, <2>5, ClientReports DEF Resting
\* The output is taken from its owner, whose loss is now the thread's to tell.
<1>8. CASE WasapiExitLost(t)
  <2>1. k.pc = "exit" /\ ~k.cb /\ UNCHANGED <<call, current, tid, overlap, req>>
    BY <1>8 DEF WasapiExitLost, platform, deviceVars, history
  <2>2. CASE state = "IDLE"
    <3>1. ThreadGoes(t, "end") /\ UNCHANGED <<state, lostCb>>
      BY <1>8, <2>2 DEF WasapiExitLost
    <3>2. /\ Becomes(t, "end", k.stream, k.left, k.cb, k.lost)
          /\ thread'[t].fate = k.fate
      BY <1>0, <3>1, ThreadMoves
    <3> QED  BY <1>2, <2>1, <3>1, <3>2 DEF Resting
  <2>3. CASE state # "IDLE"
    <3>1. PICK at : at = IF lostCb = None THEN "end" ELSE "tell"
      OBVIOUS
    <3>2. /\ state' = "IDLE" /\ lostCb' = None
          /\ thread' = [thread EXCEPT ![t].pc = at, ![t].lost = lostCb]
      BY <1>8, <2>3, <3>1 DEF WasapiExitLost
    <3>3. PICK r : r = lostCb
      OBVIOUS
    <3>4. Becomes(t, at, k.stream, k.left, k.cb, r) /\ thread'[t].fate = k.fate
      BY <1>0, <3>2, <3>3, ClientTells
    <3> QED  BY <1>1, <2>1, <3>1, <3>2, <3>3, <3>4, ClientReports DEF Resting
  <2> QED  BY <2>2, <2>3
<1>9. CASE WasapiTellLost(t)
  <2>1. /\ k.pc = "tell" /\ req' = [req EXCEPT ![k.lost].losses = @ + 1]
        /\ thread' = [thread EXCEPT ![t].pc = "end", ![t].lost = None]
        /\ UNCHANGED <<call, current, tid, overlap, state, lostCb>>
    BY <1>9 DEF WasapiTellLost, owned, platform, deviceVars, history
  <2>2. PICK due : Becomes(t, "end", k.stream, k.left, due, None) /\ thread'[t].fate = k.fate
    BY <1>0, <2>1, ClientTells
  <2>3. k.lost \in DOMAIN req /\ ~k.cb
    BY <1>0, <2>1 DEF ClientThread
  <2>4. PICK r : r = k.lost
    OBVIOUS
  <2>5. OnlySetup(r) /\ req'[r].losses = req[r].losses + 1 /\ req'[r].token = req[r].token
        /\ req'[r].teardowns = req[r].teardowns
    BY <1>0, <2>1, <2>3, <2>4, SetupToldOfLoss
  <2>6. /\ DOMAIN req' = DOMAIN req /\ req'[k.lost].losses > 0
        /\ \A q \in DOMAIN req : /\ req'[q].token = req[q].token
                                 /\ req'[q].teardowns = req[q].teardowns
                                 /\ req[q].losses > 0 => req'[q].losses > 0
    BY <1>0, <2>3, <2>4, <2>5, SMTT(30) DEF OnlySetup
  <2>7. k.pc # "store" /\ "end" \in Resting
    BY <2>1 DEF Resting
  <2> QED  BY <2>1, <2>2, <2>3, <2>6, <2>7, ClientReports
<1>10. CASE WasapiEnd(t)
  <2>1. /\ k.pc \in {"end", "failed"} /\ ThreadGoes(t, "done")
        /\ UNCHANGED <<call, current, tid, overlap, state, lostCb, req>>
    BY <1>10 DEF WasapiEnd, history, owned
  <2>2. /\ Becomes(t, "done", k.stream, k.left, k.cb, k.lost)
        /\ thread'[t].fate = k.fate
    BY <1>0, <2>1, ThreadMoves
  <2> QED  BY <1>2, <2>1, <2>2 DEF Resting
<1> QED  BY <1>3, <1>4, <1>5, <1>6, <1>7, <1>8, <1>9, <1>10 DEF WasapiThreadStep

\* Every step of WASAPI keeps the reports of the losses.
LEMMA ReportStep ==
    ASSUME WasapiInv, ReportInv, WasapiNext
    PROVE  ReportInv'
<1>0. Sessions \subseteq Callers /\ Others \subseteq Callers
  BY DEF Callers
<1>1. ASSUME NEW s \in Sessions, WasapiSession(s)
      PROVE  ReportInv'
  <2>0. s \in Callers
    BY <1>0
  <2>1. ASSUME \/ WasapiSetupEnter(s) \/ (SetupRefused(s) /\ UNCHANGED platform) \/ WasapiSetupFail(s)
               \/ \E t \in Knows(s) : WasapiTeardown(s, t) \/ WasapiStart(s, t) \/ WasapiStop(s, t)
        PROVE  ReportInv'
    <3>1. \/ /\ SetupEnter(s) \/ \E t \in Knows(s) : Teardown(s, t)
             /\ overlap' = (overlap \/ \E d \in Callers : ~Idle(d))
          \/ /\ SetupRefused(s) \/ SetupFail(s) \/ \E t \in Knows(s) : Start(s, t) \/ Stop(s, t)
             /\ UNCHANGED overlap
      BY <2>1 DEF WasapiSetupEnter, WasapiSetupFail, WasapiTeardown, WasapiStart, WasapiStop, Enters,
                  platform, history
    <3> QED  BY <2>0, <3>1, ReportCalls
  <2>2. ASSUME call[s].op = "setup", call[s].pc = "check", StillCurrent(s), stream' = None,
               ClientOpens(call[s].token),
               UNCHANGED <<current, next, lostCb, remaining, setupCb, overlap>>,
               \/ /\ ClientFails(call[s].token, call[s].req) /\ Goto(s, "refuse")
                  /\ UNCHANGED <<state, req>>
               \/ /\ ClientRuns(call[s].token, call[s].req) /\ Return(s)
                  /\ state' = "STOPPED"
                  /\ req' = [req EXCEPT ![call[s].req].token = call[s].token]
        PROVE  ReportInv'
    <3>1. PICK r, t : r = call[s].req /\ t = call[s].token
      OBVIOUS
    <3>2. PICK k : Grants(s, t, k) /\ k.pc # "joining"
      BY <2>0, <2>2, <3>1, WasapiOpens
    <3>3. t # None /\ t \notin DOMAIN thread
      BY <2>0, <2>2, <3>1 DEF WasapiInv, ClientsFit, SetsUp, Behind
    <3>4. \/ /\ thread' = WasapiThread(t, call[s].req, "failed")
             /\ UNCHANGED <<state, req>>
          \/ /\ thread' = WasapiThread(t, call[s].req, "fill")
             /\ state' # "IDLE"
      BY <2>2, <3>1 DEF ClientFails, ClientRuns
    <3> HIDE DEF Grants
    <3> QED  BY <2>0, <2>2, <3>1, <3>2, <3>3, <3>4, ReportOpens
  <2>3. CASE WasapiSetupRefused(s)
    BY <2>1, <2>2, <2>3 DEF WasapiSetupRefused, ClientOpens
  <2>4. CASE WasapiSetupGranted(s)
    <3>1. /\ call[s].op = "setup" /\ call[s].pc = "check" /\ StillCurrent(s) /\ stream' = None
          /\ ClientOpens(call[s].token) /\ ClientRuns(call[s].token, call[s].req)
          /\ Return(s) /\ state' = "STOPPED"
          /\ req' = [req EXCEPT ![call[s].req].token = call[s].token]
          /\ UNCHANGED <<current, next, lostCb, remaining, setupCb, overlap>>
      BY <2>4 DEF WasapiSetupGranted, ClientOpens
    <3> QED  BY <2>2, <3>1
  <2>5. CASE \/ WasapiSetupEnter(s) \/ WasapiSetupFail(s)
             \/ \E t \in Knows(s) : WasapiTeardown(s, t) \/ WasapiStart(s, t) \/ WasapiStop(s, t)
    BY <2>1, <2>5
  <2> QED  BY <1>1, <2>3, <2>4, <2>5 DEF WasapiSession
<1>2. ASSUME NEW o \in Others, WasapiForceEnter(o) \/ WasapiForceEnd(o)
      PROVE  ReportInv'
  <2>0. o \in Callers
    BY <1>0
  <2>1. \/ ForceEnter(o) /\ overlap' = (overlap \/ \E d \in Callers : ~Idle(d))
        \/ (ForceRetry(o) \/ ForceReturn(o)) /\ UNCHANGED overlap
    BY <1>2 DEF WasapiForceEnter, WasapiForceEnd, Enters, platform, history
  <2> QED  BY <2>0, <2>1, ReportCalls
<1>3. ASSUME NEW c \in Callers, WasapiJoin(c) \/ WasapiTell(c)
      PROVE  ReportInv'
  <2>1. (JoinBegin(c) \/ JoinEnd(c) \/ TellLost(c)) /\ UNCHANGED overlap
    BY <1>3 DEF WasapiJoin, WasapiTell, platform, history
  <2> QED  BY <2>1, ReportCalls
<1> QED  BY <1>1, <1>2, <1>3, ReportThreads DEF WasapiNext

\* No setup was entered yet.
LEMMA ReportInit ==
    ASSUME PlatformInit
    PROVE  ReportInv
BY DEF PlatformInit, Init, ReportInv, TokensFit, LossHeld, Turns, OneCaller, Idle, NoCall,
       WasapiLossesReported

-----------------------------------------------------------------------------
(***************************************************************************)
(* The ASIO output                                                         *)
(***************************************************************************)

\* The plugin's driver is the one opened with the token tid, and so is the stream; only its
\* callback is in progress, and holds the setup callback that it took.
DriverFits ==
    /\ dev \in {None, tid} /\ stream \in {None, tid}
    /\ \A t \in DOMAIN thread :
          /\ thread[t].pc \notin {"idle", "off"} => t = dev
          /\ thread[t].left \in DOMAIN req \union {None}
          /\ thread[t].left # None <=> thread[t].pc = "answer"

\* A setup that keeps the lock has the token that is current.
HoldFits ==
    \A c \in Callers : call[c].pc = "hold" =>
        state = "IDLE" /\ stream = None /\ call[c].token = current

\* Where the callback of the setup r is: with the call, with the plugin, with a call that is
\* about to cancel it, or with the driver's callback that is about to answer it
InCall(r)   == \E c \in Callers : call[c].req = r
InCb(r)     == setupCb = r
Cancels(c)  == call[c].pc = "cancel"
InCancel(r) == \E c \in Callers : Cancels(c) /\ call[c].lost = r
InThread(r) == \E t \in DOMAIN thread : thread[t].left = r

\* It is in one place, and nowhere once it was called.
PlacedOnce(r) ==
    /\ req[r].answers \in {0, 1}
    /\ InCall(r) => req[r].answers = 0 /\ ~InCb(r) /\ ~InCancel(r) /\ ~InThread(r)
    /\ InCb(r) => req[r].answers = 0 /\ ~InCancel(r) /\ ~InThread(r)
    /\ InCancel(r) => req[r].answers = 0 /\ ~InThread(r)
    /\ InThread(r) => req[r].answers = 0

PlacesFit ==
    /\ \A r \in DOMAIN req : PlacedOnce(r)
    /\ \A c \in Callers : Cancels(c) =>
          /\ call[c].target \in Int
          /\ \A d \in Callers : Cancels(d) /\ call[c].lost = call[d].lost => c = d

\* One call is in progress; till it is granted the output nobody owns it, and then the callbacks
\* of the owner are its own.
AsioInTurn ==
    /\ OneCaller
    /\ \A c \in Callers : call[c].pc \notin {"idle", "resync", "callback"} => state = "IDLE"
    /\ \A c \in Callers : call[c].pc \in {"resync", "callback"} => lostCb = call[c].req
    /\ state # "IDLE" => dev = current
    /\ state # "IDLE" /\ (\A c \in Callers : Idle(c)) => setupCb \in {None, lostCb}

AsioInv ==
    /\ CommonInv /\ DriverFits /\ HoldFits /\ PlacesFit
    /\ ~overlap => LossesReported /\ AsioInTurn

\* A setup goes on with the lock, or nobody has it.
LEMMA HoldStays ==
    ASSUME HoldFits,
           UNCHANGED <<state, stream, current>> \/ \A c \in Callers : call'[c].pc # "hold",
           \A c \in Callers : call'[c].pc = "hold" =>
              call[c].pc = "hold" /\ call'[c].token = call[c].token
    PROVE  HoldFits'
BY DEF HoldFits

\* The setup callbacks stay where they are, but for those of the setups of M, which are looked at.
LEMMA PlacesStay ==
    ASSUME CommonInv, DriverFits, PlacesFit, NEW M,
           DOMAIN req \subseteq DOMAIN req', DOMAIN req' \ DOMAIN req \subseteq M,
           \A r \in DOMAIN req \ M : req'[r].answers = req[r].answers,
           \A c \in Callers : call'[c].req \in {None, call[c].req} \union M,
           \A c \in Callers : Cancels(c)' =>
              \/ call'[c].lost \in M
              \/ Cancels(c) /\ call'[c].lost = call[c].lost,
           setupCb' \in {None, setupCb} \union M,
           \A t \in DOMAIN thread' :
              \/ thread'[t].left \in {None} \union M
              \/ t \in DOMAIN thread /\ thread'[t].left = thread[t].left,
           \A r \in DOMAIN req' \intersect M : PlacedOnce(r)',
           \A c \in Callers : Cancels(c)' => call'[c].target \in Int,
           \A c, d \in Callers :
              Cancels(c)' /\ Cancels(d)' /\ call'[c].lost = call'[d].lost
                 => c = d \/ call'[c].lost \notin M
    PROVE  PlacesFit'
<1>0. None \notin DOMAIN req'  \/ None \in M
  BY SetupsTyped DEF CommonInv, PlainFits
<1>1. ASSUME NEW r \in DOMAIN req'
      PROVE  PlacedOnce(r)'
  <2>1. CASE r \in M
    BY <2>1
  <2>2. CASE r \notin M
    <3>1. r \in DOMAIN req /\ r # None /\ req'[r].answers = req[r].answers /\ PlacedOnce(r)
      BY <2>2, SetupsTyped DEF PlacesFit, CommonInv, PlainFits
    <3>2. InCall(r)' => InCall(r)
      BY <2>2, <3>1 DEF InCall
    <3>3. InCb(r)' => InCb(r)
      BY <2>2, <3>1 DEF InCb
    <3>4. InCancel(r)' => InCancel(r)
      BY <2>2, <3>1 DEF InCancel
    <3>5. InThread(r)' => InThread(r)
      BY <2>2, <3>1 DEF InThread
    <3> QED  BY <3>1, <3>2, <3>3, <3>4, <3>5 DEF PlacedOnce
  <2> QED  BY <2>1, <2>2
<1>2. ASSUME NEW c \in Callers, Cancels(c)', NEW d \in Callers, Cancels(d)',
             call'[c].lost = call'[d].lost
      PROVE  c = d
  BY <1>2 DEF PlacesFit
<1> QED  BY <1>1, <1>2 DEF PlacesFit

\* A call goes on, or ends when nobody owns the output or the owner is told by its own callback.
LEMMA AsioGoesOn ==
    ASSUME AsioInTurn, \A c \in Callers : Idle(c) => Idle(c)',
           \A c \in Callers : call'[c].pc \in {"idle", "resync", "callback"}
                              \/ call[c].pc \notin {"idle", "resync", "callback"},
           \A c \in Callers : call'[c].pc \in {"resync", "callback"} =>
              /\ call[c].pc \in {"resync", "callback"} /\ call'[c].req = call[c].req
              /\ UNCHANGED lostCb,
           state' # "IDLE" => state # "IDLE" /\ UNCHANGED <<dev, current, lostCb>>,
           \/ setupCb' \in {None, setupCb}
              /\ \A c \in Callers : Idle(c)' => Idle(c) \/ call[c].pc \notin {"resync", "callback"}
           \/ \E c \in Callers : call[c].pc = "callback" /\ setupCb' = call[c].req
    PROVE  AsioInTurn'
<1>1. OneCaller'
  BY DEF AsioInTurn, OneCaller
<1>2. ASSUME NEW c \in Callers, call'[c].pc \notin {"idle", "resync", "callback"}
      PROVE  state' = "IDLE"
  BY <1>2 DEF AsioInTurn
<1>3. ASSUME NEW c \in Callers, call'[c].pc \in {"resync", "callback"}
      PROVE  lostCb' = call'[c].req
  BY <1>3 DEF AsioInTurn
<1>4. state' # "IDLE" => dev' = current'
  BY DEF AsioInTurn
<1>5. ASSUME state' # "IDLE", \A c \in Callers : Idle(c)'
      PROVE  setupCb' \in {None, lostCb'}
  <2>1. CASE \E c \in Callers : call[c].pc = "callback" /\ setupCb' = call[c].req
    BY <1>5, <2>1 DEF AsioInTurn
  <2>2. CASE /\ setupCb' \in {None, setupCb}
             /\ \A c \in Callers : Idle(c)' => Idle(c) \/ call[c].pc \notin {"resync", "callback"}
    <3>1. \A c \in Callers : Idle(c)
      BY <1>5, <2>2 DEF AsioInTurn, Idle
    <3> QED  BY <1>5, <2>2, <3>1 DEF AsioInTurn
  <2> QED  BY <2>1, <2>2
<1> QED  BY <1>1, <1>2, <1>3, <1>4, <1>5 DEF AsioInTurn

\* A call begins when none is in progress, and nobody owns the output.
LEMMA AsioBegins ==
    ASSUME CommonInv, \A d \in Callers : Idle(d), NEW c \in Callers, NEW k,
           call' = [call EXCEPT ![c] = k], k.pc \notin {"idle", "resync", "callback"},
           state' = "IDLE"
    PROVE  AsioInTurn'
<1>1. call'[c] = k /\ \A d \in Callers \ {c} : call'[d] = call[d]
  BY DEF CommonInv, CallsFit
<1> QED  BY <1>1 DEF AsioInTurn, OneCaller, Idle

\* A step that neither takes the output nor calls a setup callback
LEMMA AsioSilent ==
    ASSUME AsioInv, Silent, \A r \in DOMAIN req : req'[r].answers = req[r].answers,
           UNCHANGED <<dev, setupCb, overlap>>, stream' \in {None, tid},
           \A t \in DOMAIN thread :
              /\ thread'[t].pc \notin {"idle", "off"} => t = dev
              /\ thread'[t].left = thread[t].left
              /\ thread'[t].pc = "answer" <=> thread[t].pc = "answer",
           UNCHANGED <<state, stream>> \/ \A c \in Callers : call'[c].pc # "hold",
           \A c \in Callers :
              /\ Idle(c) => Idle(c)'
              /\ call'[c].pc \in {"hold", "cancel"} => call'[c] = call[c]
              /\ \/ call'[c].pc \in {"idle", "resync", "callback"}
                 \/ call[c].pc \notin {"idle", "resync", "callback"}
              /\ call'[c].pc \in {"resync", "callback"} =>
                    call[c].pc \in {"resync", "callback"} /\ call'[c].req = call[c].req
              /\ Idle(c)' => Idle(c) \/ call[c].pc \notin {"resync", "callback"}
    PROVE  AsioInv'
<1>0. /\ CommonInv /\ DriverFits /\ HoldFits /\ PlacesFit /\ Quiet /\ UNCHANGED lostCb
      /\ (state' = "IDLE" => state = "IDLE")
      /\ DOMAIN req' = DOMAIN req /\ DOMAIN thread' = DOMAIN thread
      /\ UNCHANGED <<current, tid>> /\ (state' # "IDLE" => state # "IDLE")
  BY DEF AsioInv, Silent, Quiet, SetupsKept, ThreadsKept, StreamKept
<1>1. CommonInv' /\ (LossesReported => LossesReported')
  BY <1>0, SilentStep
<1>2. DriverFits'
  BY <1>0 DEF DriverFits
<1>3. HoldFits'
  BY <1>0, HoldStays
<1>4. PlacesFit'
  <2>1. \A c \in Callers : call'[c].req \in {None, call[c].req}
    BY <1>0, SilentCalls DEF Quiet
  <2> DEFINE M == {}
  <2>2. /\ DOMAIN req \subseteq DOMAIN req' /\ DOMAIN req' \ DOMAIN req \subseteq M
        /\ \A r \in DOMAIN req \ M : req'[r].answers = req[r].answers
        /\ \A c \in Callers : call'[c].req \in {None, call[c].req} \union M
        /\ setupCb' \in {None, setupCb} \union M
        /\ \A r \in DOMAIN req' \intersect M : PlacedOnce(r)'
    BY <1>0, <2>1
  <2>3. /\ \A c \in Callers : Cancels(c)' =>
              \/ call'[c].lost \in M
              \/ Cancels(c) /\ call'[c].lost = call[c].lost
        /\ \A c \in Callers : Cancels(c)' => call'[c].target \in Int
    BY <1>0 DEF Cancels, PlacesFit
  <2>4. \A c, d \in Callers :
              Cancels(c)' /\ Cancels(d)' /\ call'[c].lost = call'[d].lost
                 => c = d \/ call'[c].lost \notin M
    OBVIOUS
  <2>5. \A t \in DOMAIN thread' :
              \/ thread'[t].left \in {None} \union M
              \/ t \in DOMAIN thread /\ thread'[t].left = thread[t].left
    BY <1>0
  <2> HIDE DEF M
  <2> QED  BY <1>0, <2>2, <2>3, <2>4, <2>5, PlacesStay
<1>5. ~overlap' => LossesReported' /\ AsioInTurn'
  <2>1. SUFFICES ASSUME ~overlap PROVE LossesReported' /\ AsioInTurn'
    OBVIOUS
  <2>2. LossesReported /\ AsioInTurn
    BY <2>1 DEF AsioInv
  <2>3. AsioInTurn'
    BY <1>0, <2>2, AsioGoesOn
  <2> QED  BY <1>1, <2>2, <2>3
<1> QED  BY <1>1, <1>2, <1>3, <1>4, <1>5 DEF AsioInv

\* The record of a call with several fields changed
LEMMA CallWith ==
    ASSUME NEW k, CallRecord(k), NEW a, NEW b, NEW l, NEW t
    PROVE  /\ [k EXCEPT !.pc = a, !.join = b, !.lost = l, !.target = t]
                 = [op |-> k.op, pc |-> a, token |-> k.token, req |-> k.req, join |-> b,
                    target |-> t, lost |-> l]
           /\ [k EXCEPT !.join = b, !.pc = a]
                 = [op |-> k.op, pc |-> a, token |-> k.token, req |-> k.req, join |-> b,
                    target |-> k.target, lost |-> k.lost]
<1>1. PICK o, at, n, r, j, g, m :
         k = [op |-> o, pc |-> at, token |-> n, req |-> r, join |-> j, target |-> g, lost |-> m]
  BY DEF CallRecord
<1> DEFINE p == [k EXCEPT !.pc = a]
           q == [p EXCEPT !.join = b]
           s == [q EXCEPT !.lost = l]
           u == [s EXCEPT !.target = t]
           v == [k EXCEPT !.join = b]
           w == [v EXCEPT !.pc = a]
<1>2. /\ [k EXCEPT !.pc = a, !.join = b, !.lost = l, !.target = t] = u
      /\ [k EXCEPT !.join = b, !.pc = a] = w
  OBVIOUS
<1>3. /\ p = [op |-> o, pc |-> a, token |-> n, req |-> r, join |-> j, target |-> g, lost |-> m]
      /\ v = [op |-> o, pc |-> at, token |-> n, req |-> r, join |-> b, target |-> g, lost |-> m]
  BY <1>1
<1> HIDE DEF p, v
<1>4. /\ q = [op |-> o, pc |-> a, token |-> n, req |-> r, join |-> b, target |-> g, lost |-> m]
      /\ w = [op |-> o, pc |-> a, token |-> n, req |-> r, join |-> b, target |-> g, lost |-> m]
  BY <1>3
<1> HIDE DEF q, w
<1>5. s = [op |-> o, pc |-> a, token |-> n, req |-> r, join |-> b, target |-> g, lost |-> l]
  BY <1>4
<1> HIDE DEF s
<1>6. u = [op |-> o, pc |-> a, token |-> n, req |-> r, join |-> b, target |-> t, lost |-> l]
  BY <1>5
<1> HIDE DEF u
<1>7. k.op = o /\ k.token = n /\ k.req = r /\ k.target = g /\ k.lost = m
  BY <1>1
<1> QED  BY <1>2, <1>4, <1>6, <1>7

\* A call kicks off the owner: its setup callback is canceled, or it is told of the loss.
LEMMA AsioKicks ==
    ASSUME AsioInv, NEW c \in Callers, NEW e, Kicks(c, e), Unlocked, UNCHANGED <<dev, thread>>,
           overlap' = (overlap \/ \E d \in Callers : ~Idle(d)),
           e.pc \notin {"hold", "idle", "resync", "callback"},
           ~overlap' => e.lost = IF state = "IDLE" THEN call[c].lost ELSE lostCb,
           \/ setupCb' = setupCb /\ e.pc # "cancel"
           \/ /\ e.pc = "cancel" /\ setupCb # None /\ setupCb' = None
              /\ e.lost = setupCb /\ e.target \in Int
    PROVE  AsioInv'
<1>0. /\ CommonInv /\ DriverFits /\ HoldFits /\ PlacesFit
      /\ state' = "IDLE" /\ UNCHANGED <<tid, stream>> /\ call' = [call EXCEPT ![c] = e]
      /\ call[c].pc \in {"idle", "check"}
  BY DEF AsioInv, Kicks
<1>1. /\ req' \in Seq(SetupRecord) /\ DOMAIN req \subseteq DOMAIN req' /\ None \notin DOMAIN req
      /\ \A r \in DOMAIN req : req'[r] = req[r]
      /\ \A r \in DOMAIN req' \ DOMAIN req : FreshSetup(req'[r])
      /\ DOMAIN req' \in {DOMAIN req, DOMAIN req \union {e.req}}
      /\ e.req = call[c].req \/ e.req \notin DOMAIN req
      /\ call'[c] = e /\ \A d \in Callers \ {c} : call'[d] = call[d]
  BY <1>0, KicksRecords
<1>2. CommonInv'
  BY <1>0, KicksCommon
<1>3. DriverFits'
  BY <1>0, <1>1 DEF DriverFits
<1>4. HoldFits'
  <2>1. \A d \in Callers : call'[d].pc # "hold"
    BY <1>1 DEF Unlocked
  <2> QED  BY <1>0, <2>1, HoldStays
<1>5. PlacesFit'
  <2> DEFINE M == (DOMAIN req' \ DOMAIN req)
                    \union (IF e.pc = "cancel" THEN {setupCb} ELSE {})
  <2>0. /\ e.req \in DOMAIN req' \union {None}
        /\ setupCb \in DOMAIN req \union {None}
        /\ \A d \in Callers : /\ call[d].req \in DOMAIN req \union {None}
                              /\ call[d].lost \in DOMAIN req \union {None}
        /\ \A t \in DOMAIN thread : thread[t].left \in DOMAIN req \union {None}
    BY <1>0, <1>1, <1>2 DEF CommonInv, PlainFits, CallsFit, CallFits, DriverFits
  <2>1. /\ DOMAIN req' \ DOMAIN req \subseteq M
        /\ \A r \in DOMAIN req \ M : req'[r].answers = req[r].answers
    BY <1>1
  <2>2. \A d \in Callers : call'[d].req \in {None, call[d].req} \union M
    BY <1>1, <2>0
  <2>3. \A d \in Callers : Cancels(d)' =>
           /\ call'[d].lost \in M \/ (Cancels(d) /\ call'[d].lost = call[d].lost)
           /\ call'[d].target \in Int
    BY <1>0, <1>1 DEF Cancels, PlacesFit
  <2>4. setupCb' \in {None, setupCb} \union M
    OBVIOUS
  <2>5. \A t \in DOMAIN thread' :
           \/ thread'[t].left \in {None} \union M
           \/ t \in DOMAIN thread /\ thread'[t].left = thread[t].left
    OBVIOUS
  <2>6. ASSUME NEW r \in DOMAIN req' \ DOMAIN req
        PROVE  PlacedOnce(r)'
    <3>0. r # None
      BY <1>1, <2>6, LenProperties DEF None
    <3>1. req'[r].answers = 0 /\ r # None
      BY <1>1, <2>6, <3>0 DEF FreshSetup
    <3>2. ~InCb(r)'
      BY <2>0, <2>6, <3>1 DEF InCb
    <3>3. ~InCancel(r)'
      BY <1>1, <2>0, <2>6, <3>1 DEF InCancel, Cancels
    <3>4. ~InThread(r)'
      BY <2>0, <2>6, <3>1 DEF InThread
    <3> QED  BY <3>1, <3>2, <3>3, <3>4 DEF PlacedOnce
  <2>7. ASSUME NEW r, r = setupCb, e.pc = "cancel"
        PROVE  PlacedOnce(r)' /\ \A d \in Callers \ {c} : Cancels(d)' => call'[d].lost # r
    <3>1. /\ r \in DOMAIN req /\ r # None /\ setupCb' = None /\ e.lost = r
          /\ req'[r] = req[r] /\ PlacedOnce(r) /\ InCb(r)
      BY <1>0, <1>1, <2>0, <2>7 DEF PlacesFit, InCb
    <3>2. req[r].answers = 0 /\ ~InCall(r) /\ ~InCancel(r) /\ ~InThread(r)
      BY <3>1 DEF PlacedOnce
    <3>3. ~InCall(r)'
      BY <1>1, <3>1, <3>2 DEF InCall
    <3>4. ~InThread(r)'
      BY <3>2 DEF InThread
    <3>5. ~InCb(r)'
      BY <3>1 DEF InCb
    <3>6. \A d \in Callers \ {c} : Cancels(d)' => call'[d].lost # r
      BY <1>1, <3>2 DEF InCancel, Cancels
    <3> QED  BY <3>1, <3>2, <3>3, <3>4, <3>5, <3>6 DEF PlacedOnce
  <2>8. \A r \in DOMAIN req' \intersect M : PlacedOnce(r)'
    BY <2>6, <2>7
  <2>9. ASSUME NEW d1 \in Callers, NEW d2 \in Callers, Cancels(d1)', Cancels(d2)',
               call'[d1].lost = call'[d2].lost, call'[d1].lost \in M
        PROVE  d1 = d2
    <3>1. \A d \in Callers : Cancels(d)' => call'[d].lost \in DOMAIN req
      BY <1>1, <2>0 , <1>2 DEF Cancels, CommonInv, CallsFit, CallFits
    <3>2. e.pc = "cancel" /\ call'[d1].lost = setupCb
      BY <2>9, <3>1
    <3> QED  BY <2>7, <2>9, <3>2
  <2> HIDE DEF M
  <2> QED  BY <1>0, <1>1, <2>1, <2>2, <2>3, <2>4, <2>5, <2>8, <2>9, PlacesStay
<1>6. ~overlap' => LossesReported' /\ AsioInTurn'
  <2>1. SUFFICES ASSUME ~overlap'
                 PROVE  LossesReported' /\ AsioInTurn'
    OBVIOUS
  <2>2. /\ LossesReported /\ \A d \in Callers : Idle(d)
        /\ e.lost = IF state = "IDLE" THEN call[c].lost ELSE lostCb
    BY <2>1 DEF AsioInv
  <2>3. LossesReported'
    <3> HIDE DEF Kicks
    <3> QED  BY <1>0, <2>2, KicksLosses
  <2>4. AsioInTurn'
    BY <1>0, <2>2, AsioBegins
  <2> QED  BY <2>3, <2>4
<1> QED  BY <1>2, <1>3, <1>4, <1>5, <1>6 DEF AsioInv

\* A call k that takes the output has a fresh token, and owes what it owed or what is due.
LEMMA KickedUnjoined ==
    ASSUME CommonInv, NEW k, NEW q, k.op \in {"setup", "force"},
           k.req \in DOMAIN q \union {None}, k.lost \in DOMAIN req \union {None},
           DOMAIN req \subseteq DOMAIN q,
           k.op = "setup" => k.req # None /\ q[k.req].token = None
    PROVE  /\ CallFits(Unjoined(Kicked(k)), q, next + 1)
           /\ Unjoined(Kicked(k)).token = next + 1 /\ Unjoined(Kicked(k)).req = k.req
           /\ Unjoined(Kicked(k)).lost = (IF state = "IDLE" THEN k.lost ELSE lostCb)
           /\ Unjoined(Kicked(k)).op = k.op
           /\ Unjoined(Kicked(k)).pc
                 = (IF Unjoined(Kicked(k)).lost # None THEN "lost" ELSE "check")
<1> DEFINE e == Kicked(k)
<1>1. /\ CallFits(e, q, next + 1) /\ e.token = next + 1 /\ e.req = k.req /\ e.op = k.op
      /\ e.lost = IF state = "IDLE" THEN k.lost ELSE lostCb
  <2> HIDE DEF CallFits, Kicked
  <2> QED  BY KickedFits
<1> HIDE DEF e, CallFits, Unjoined
<1>2. /\ CallFits(Unjoined(e), q, next + 1)
      /\ Unjoined(e).token = e.token /\ Unjoined(e).req = e.req /\ Unjoined(e).lost = e.lost
      /\ Unjoined(e).op = e.op /\ Unjoined(e).pc = (IF e.lost # None THEN "lost" ELSE "check")
  BY <1>1, UnjoinedFits
<1> QED  BY <1>1, <1>2 DEF e

\* setup begins.
LEMMA AsioEnters ==
    ASSUME AsioInv, NEW s \in Sessions, AsioSetupEnter(s)
    PROVE  AsioInv'
<1> DEFINE k == NewCall("setup", Len(req) + 1)
           u == Unjoined(Kicked(k))
           e == AsioSetupKicks(u)
<1>0. /\ CommonInv /\ s \in Callers /\ CallFits(call[s], req, next) /\ req \in Seq(SetupRecord)
      /\ call[s].pc = "idle" /\ call[s].lost = None /\ Len(req) + 1 # None
      /\ setupCb \in DOMAIN req \union {None} /\ current \in Int
      /\ lostCb \in DOMAIN req \union {None}
  <2>1. /\ CommonInv /\ s \in Callers /\ CallFits(call[s], req, next) /\ req \in Seq(SetupRecord)
        /\ setupCb \in DOMAIN req \union {None} /\ current \in Int
        /\ lostCb \in DOMAIN req \union {None}
    BY DEF AsioInv, Callers, CommonInv, CallsFit, PlainFits
  <2>2. call[s].pc = "idle" /\ call[s].lost = None
    BY <2>1 DEF AsioSetupEnter, Idle, CallFits, NoCall
  <2> QED  BY <2>1, <2>2, LenProperties DEF None
<1>1. /\ Unlocked /\ req' = Append(req, NewRequest(s)) /\ call' = [call EXCEPT ![s] = e]
      /\ next' = next + 1 /\ current' = next + 1 /\ state' = "IDLE"
      /\ lostCb' = (IF state = "IDLE" THEN lostCb ELSE None)
      /\ setupCb' = (IF SetupPending THEN None ELSE setupCb)
      /\ overlap' = (overlap \/ \E d \in Callers : ~Idle(d))
      /\ UNCHANGED <<stream, remaining, tid, thread, dev>>
  BY DEF AsioSetupEnter, NowOverlap, NewCall, deviceVars
<1>2. /\ DOMAIN req' = DOMAIN req \union {Len(req) + 1} /\ req'[Len(req) + 1] = NewRequest(s)
      /\ NewRequest(s).token = None
  <2>1. NewRequest(s).token = None
    BY DEF NewRequest
  <2> HIDE DEF NewRequest
  <2> QED  BY <1>0, <1>1, <2>1, SetupEntered
<1>3. k.op = "setup" /\ k.req = Len(req) + 1 /\ k.lost = None
  BY DEF NewCall, NoCall
<1> HIDE DEF k, NewRequest
<1>4. /\ CallFits(u, req', next + 1) /\ u.token = next + 1 /\ u.req = Len(req) + 1
      /\ u.lost = (IF state = "IDLE" THEN None ELSE lostCb) /\ u.op = "setup"
      /\ u.pc = (IF u.lost # None THEN "lost" ELSE "check")
  <2>1. /\ k.req \in DOMAIN req' \union {None} /\ k.lost \in DOMAIN req \union {None}
        /\ DOMAIN req \subseteq DOMAIN req' /\ k.op \in {"setup", "force"}
        /\ k.op = "setup" => k.req # None /\ req'[k.req].token = None
    BY <1>0, <1>2, <1>3
  <2> HIDE DEF CallFits, Kicked, Unjoined
  <2> QED  BY <1>0, <1>3, <2>1, KickedUnjoined
<1> HIDE DEF u
<1>5. CallRecord(u)
  BY <1>4 DEF CallFits, CallRecord
<1>6. CASE SetupPending
  <2> DEFINE yes == TRUE
  <2>1. e = [u EXCEPT !.pc = "cancel", !.join = yes, !.lost = setupCb, !.target = current]
    BY <1>6 DEF AsioSetupKicks
  <2> HIDE DEF yes, e
  <2>2. e = [op |-> u.op, pc |-> "cancel", token |-> u.token, req |-> u.req, join |-> yes,
             target |-> current, lost |-> setupCb]
    BY <1>5, <2>1, CallWith, ZenonT(60)
  <2>3. /\ CallRecord(e) /\ e.op = "setup" /\ e.pc = "cancel" /\ e.token = next + 1
        /\ e.req = Len(req) + 1 /\ e.lost = setupCb /\ e.target = current
    BY <1>4, <2>2 DEF CallRecord
  <2>4. setupCb # None /\ state # "IDLE" /\ setupCb' = None
    BY <1>1, <1>6 DEF SetupPending
  <2>5. CallFits(e, req', next + 1)
    BY <1>0, <1>2, <1>4, <2>3, <2>4 DEF CallFits, CallRecord, Tells, Behind
  <2>6. Kicks(s, e)
    <3>1. ThreadsKept
      BY <1>0, <1>1, ThreadsAsTheyWere
    <3> HIDE DEF CallFits
    <3> QED  BY <1>0, <1>1, <2>3, <2>4, <2>5, <3>1 DEF Kicks
  <2>7. ~overlap' => e.lost = IF state = "IDLE" THEN call[s].lost ELSE lostCb
    BY <1>1, <2>3, <2>4 DEF AsioInv, AsioInTurn
  <2> HIDE DEF Kicks
  <2> QED  BY <1>0, <1>1, <2>3, <2>4, <2>6, <2>7, AsioKicks
<1>7. CASE ~SetupPending
  <2> DEFINE joins == state # "IDLE"
             pc == IF u.pc = "check" /\ state # "IDLE" THEN "stop" ELSE u.pc
  <2>1. e = [u EXCEPT !.join = joins, !.pc = pc]
    BY <1>5, <1>7 DEF AsioSetupKicks, CallRecord
  <2>0. pc \in {"lost", "check", "stop"} /\ (pc = "lost" <=> u.lost # None)
    BY <1>4
  <2> HIDE DEF joins, pc, e
  <2>2. e = [op |-> u.op, pc |-> pc, token |-> u.token, req |-> u.req, join |-> joins,
             target |-> u.target, lost |-> u.lost]
    BY <1>5, <2>1, CallWith, ZenonT(60)
  <2>3. /\ CallRecord(e) /\ e.op = "setup" /\ e.pc = pc /\ e.token = next + 1
        /\ e.req = Len(req) + 1 /\ e.lost = u.lost
    BY <1>4, <2>2 DEF CallRecord
  <2>5. CallFits(e, req', next + 1)
    BY <1>4, <2>0, <2>3 DEF CallFits, CallRecord, Tells, Behind
  <2>6. Kicks(s, e)
    <3>1. ThreadsKept
      BY <1>0, <1>1, ThreadsAsTheyWere
    <3> HIDE DEF CallFits
    <3> QED  BY <1>0, <1>1, <2>3, <2>5, <3>1 DEF Kicks
  <2>7. e.lost = IF state = "IDLE" THEN call[s].lost ELSE lostCb
    BY <1>0, <1>4, <2>3
  <2>8. setupCb' = setupCb /\ e.pc \notin {"cancel", "hold", "idle", "resync", "callback"}
    BY <1>1, <1>7, <2>0, <2>3
  <2> HIDE DEF Kicks
  <2> QED  BY <1>0, <1>1, <2>6, <2>7, <2>8, AsioKicks
<1> QED  BY <1>6, <1>7

\* force_teardown begins, or tries again.
LEMMA AsioForces ==
    ASSUME AsioInv, NEW o \in Callers, NEW k, AsioForceKicks(o, k),
           \/ k = [NoCall EXCEPT !.op = "force"] /\ Idle(o)
           \/ k = call[o] /\ call[o].op = "force" /\ call[o].pc = "check"
    PROVE  AsioInv'
<1> DEFINE u == Unjoined(Kicked(k))
           joins == k.join \/ state # "IDLE"
           pc == IF joins THEN "stop" ELSE u.pc
           e == [u EXCEPT !.join = joins, !.pc = pc]
<1>0. /\ CommonInv /\ CallFits(call[o], req, next)
      /\ call[o].pc = "idle" => call[o] = NoCall
  BY DEF AsioInv, CommonInv, CallsFit, CallFits
<1>1. /\ Unlocked /\ UNCHANGED req
      /\ next' = next + 1 /\ current' = next + 1 /\ state' = "IDLE"
      /\ lostCb' = (IF state = "IDLE" THEN lostCb ELSE None)
      /\ overlap' = (overlap \/ \E d \in Callers : ~Idle(d))
      /\ UNCHANGED <<stream, remaining, tid, thread, dev, setupCb>>
  BY DEF AsioForceKicks, NowOverlap, deviceVars
<1>2. /\ k.op = "force" /\ k.req = call[o].req /\ k.lost = call[o].lost
      /\ call[o].pc \in {"idle", "check"}
  <2>1. CASE k = [NoCall EXCEPT !.op = "force"] /\ Idle(o)
    <3>1. k.op = "force" /\ k.req = None /\ k.lost = None /\ call[o] = NoCall
      BY <1>0, <2>1, NewCallFields DEF Idle
    <3> QED  BY <2>1, <3>1 DEF NoCall
  <2> QED  BY <2>1
<1>3. k.req \in DOMAIN req \union {None} /\ k.lost \in DOMAIN req \union {None}
  BY <1>0, <1>2 DEF CallFits
<1>4. /\ CallFits(u, req, next + 1) /\ u.token = next + 1 /\ u.req = k.req
      /\ u.lost = (IF state = "IDLE" THEN k.lost ELSE lostCb) /\ u.op = "force"
      /\ u.pc = (IF u.lost # None THEN "lost" ELSE "check")
  <2> HIDE DEF CallFits, Kicked, Unjoined
  <2> QED  BY <1>0, <1>2, <1>3, KickedUnjoined
<1>5. CallRecord(u) /\ call' = [call EXCEPT ![o] = e]
  <2>1. CallRecord(u)
    BY <1>4 DEF CallFits, CallRecord
  <2>2. call' = [call EXCEPT ![o] = [u EXCEPT !.join = joins,
                                              !.pc = IF joins THEN "stop" ELSE @]]
    BY DEF AsioForceKicks
  <2> HIDE DEF u, joins
  <2>3. [u EXCEPT !.join = joins, !.pc = IF joins THEN "stop" ELSE @] = e
    BY <2>1 DEF CallRecord
  <2> QED  BY <2>1, <2>2, <2>3
<1> HIDE DEF u
<1>6. pc \in {"lost", "check", "stop"} /\ (pc = "lost" => u.lost # None)
      /\ (pc = "check" => u.lost = None)
  BY <1>4
<1> HIDE DEF joins, pc
<1>7. e = [op |-> u.op, pc |-> pc, token |-> u.token, req |-> u.req, join |-> joins,
           target |-> u.target, lost |-> u.lost]
  BY <1>5, CallWith, ZenonT(60)
<1> HIDE DEF e
<1>8. /\ CallRecord(e) /\ e.op = "force" /\ e.pc = pc /\ e.token = next + 1
      /\ e.req = k.req /\ e.lost = u.lost
  BY <1>4, <1>7 DEF CallRecord
<1>9. CallFits(e, req', next + 1)
  BY <1>1, <1>4, <1>6, <1>8 DEF CallFits, CallRecord, Tells, Behind
<1>10. Kicks(o, e)
  <2>1. ThreadsKept
    BY <1>0, <1>1, ThreadsAsTheyWere
  <2> HIDE DEF CallFits
  <2> QED  BY <1>0, <1>1, <1>2, <1>5, <1>8, <1>9, <2>1 DEF Kicks
<1>11. /\ e.lost = IF state = "IDLE" THEN call[o].lost ELSE lostCb
       /\ e.pc \notin {"cancel", "hold", "idle", "resync", "callback"}
  BY <1>2, <1>4, <1>6, <1>8
<1> HIDE DEF Kicks
<1> QED  BY <1>1, <1>10, <1>11, AsioKicks

\* A step in which nobody takes the output
LEMMA AsioFrame ==
    ASSUME AsioInv, Silent, UNCHANGED overlap, DriverFits', PlacesFit',
           UNCHANGED <<state, stream>> \/ \A c \in Callers : call'[c].pc # "hold",
           \A c \in Callers : call'[c].pc = "hold" => call'[c] = call[c],
           ~overlap => AsioInTurn'
    PROVE  AsioInv'
<1>0. CommonInv /\ HoldFits /\ UNCHANGED current
  BY DEF AsioInv, Silent, Quiet
<1>1. CommonInv' /\ (LossesReported => LossesReported')
  BY <1>0, SilentStep
<1>2. HoldFits'
  BY <1>0, HoldStays
<1> QED  BY <1>1, <1>2 DEF AsioInv

\* The call of c goes to pc, and neither the device nor who is answered depends on it.
LEMMA AsioGoes ==
    ASSUME AsioInv, Silent, NEW c \in Callers, NEW pc, Goto(c, pc),
           call[c].pc \notin {"idle", "resync", "callback"} \/ pc \in {"resync", "callback"},
           pc \in {"resync", "callback"} => call[c].pc \in {"resync", "callback"},
           pc \notin {"hold", "cancel", "idle"},
           \A r \in DOMAIN req : req'[r].answers = req[r].answers,
           UNCHANGED <<dev, setupCb, overlap, thread, state>>, stream' \in {None, tid},
           UNCHANGED stream \/ Unlocked
    PROVE  AsioInv'
<1>0. DriverFits /\ CommonInv /\ call = [d \in Callers |-> call[d]] /\ CallRecord(call[c])
  BY DEF AsioInv, CommonInv, CallsFit, CallFits, CallRecord
<1> DEFINE k == [call[c] EXCEPT !.pc = pc]
<1>1. k.pc = pc /\ k.req = call[c].req
  BY <1>0, CallPc
<1>2. call' = [call EXCEPT ![c] = k]
  BY DEF Goto
<1> HIDE DEF k
<1>3. call'[c] = k /\ \A d \in Callers \ {c} : call'[d] = call[d]
  BY <1>0, <1>2
<1>4. UNCHANGED <<state, stream>> \/ \A d \in Callers : call'[d].pc # "hold"
  BY <1>1, <1>3 DEF Unlocked
<1>5. \A d \in Callers :
         /\ Idle(d) => Idle(d)'
         /\ call'[d].pc \in {"hold", "cancel"} => call'[d] = call[d]
         /\ \/ call'[d].pc \in {"idle", "resync", "callback"}
            \/ call[d].pc \notin {"idle", "resync", "callback"}
         /\ call'[d].pc \in {"resync", "callback"} =>
               call[d].pc \in {"resync", "callback"} /\ call'[d].req = call[d].req
         /\ Idle(d)' => Idle(d) \/ call[d].pc \notin {"resync", "callback"}
  <2>1. call[c].pc # "idle"
    OBVIOUS
  <2> QED  BY <1>1, <1>3, <2>1 DEF Idle
<1>6. \A t \in DOMAIN thread :
         /\ thread'[t].pc \notin {"idle", "off"} => t = dev
         /\ thread'[t].left = thread[t].left
         /\ thread'[t].pc = "answer" <=> thread[t].pc = "answer"
  BY <1>0 DEF DriverFits
<1> QED  BY <1>4, <1>5, <1>6, AsioSilent

\* The calls stay as they are.
LEMMA AsioWaits ==
    ASSUME AsioInv, Silent, UNCHANGED call,
           \A r \in DOMAIN req : req'[r].answers = req[r].answers,
           UNCHANGED <<dev, setupCb, overlap>>, stream' \in {None, tid},
           \A t \in DOMAIN thread :
              /\ thread'[t].pc \notin {"idle", "off"} => t = dev
              /\ thread'[t].left = thread[t].left
              /\ thread'[t].pc = "answer" <=> thread[t].pc = "answer",
           UNCHANGED <<state, stream>> \/ Unlocked
    PROVE  AsioInv'
<1>1. \A d \in Callers :
         /\ Idle(d) => Idle(d)'
         /\ call'[d].pc \in {"hold", "cancel"} => call'[d] = call[d]
         /\ \/ call'[d].pc \in {"idle", "resync", "callback"}
            \/ call[d].pc \notin {"idle", "resync", "callback"}
         /\ call'[d].pc \in {"resync", "callback"} =>
               call[d].pc \in {"resync", "callback"} /\ call'[d].req = call[d].req
         /\ Idle(d)' => Idle(d) \/ call[d].pc \notin {"resync", "callback"}
  BY DEF Idle
<1>2. UNCHANGED <<state, stream>> \/ \A d \in Callers : call'[d].pc # "hold"
  BY DEF Unlocked
<1> QED  BY <1>1, <1>2, AsioSilent

\* Steps of a call that answer nobody and leave the driver alone
LEMMA AsioCalls ==
    ASSUME AsioInv, NEW c \in Callers,
           \/ AsioTellLost(c) \/ AsioStopBegin(c) \/ AsioSetupRefused(c)
           \/ SetupResync(c) /\ UNCHANGED platform
           \/ c \in Sessions /\ \E t : AsioStart(c, t) \/ AsioStop(c, t)
    PROVE  AsioInv'
<1>0. /\ CommonInv /\ DriverFits /\ CallFits(call[c], req, next) /\ req \in Seq(SetupRecord)
      /\ stream \in {None, tid} /\ setupCb \in DOMAIN req \union {None}
      /\ lostCb \in DOMAIN req \union {None} /\ remaining \in Nat
  BY DEF AsioInv, CommonInv, CallsFit, PlainFits, DriverFits
<1>1. CASE AsioTellLost(c)
  <2> DEFINE pc == IF call[c].op = "setup" /\ call[c].join THEN "stop" ELSE "check"
  <2>1. /\ call[c].pc = "lost" /\ Goto(c, pc) /\ req' = [req EXCEPT ![call[c].lost].losses = @ + 1]
        /\ UNCHANGED <<dev, setupCb, overlap, thread, state, stream, current, next, lostCb, tid,
                       remaining>>
    BY <1>1 DEF AsioTellLost, owned, platform, deviceVars, history
  <2>2. pc \in {"stop", "check"}
    OBVIOUS
  <2> HIDE DEF pc
  <2>3. call[c].lost \in DOMAIN req
    BY <1>0, <2>1 DEF CallFits
  <2>4. SetupsKept /\ req'[call[c].lost].losses > 0
    BY <1>0, <2>1, <2>3, ToldKept
  <2>5. CallsKept
    <3>1. Moves(c, pc)
      BY <2>1, <2>2, <2>4 DEF Goto, Behind, Moves
    <3> QED  BY <1>0, <2>4, <3>1, MoveKept
  <2>6. ThreadsKept
    BY <1>0, <2>1, ThreadsAsTheyWere
  <2>7. Silent
    BY <1>0, <2>1, <2>4, <2>5, <2>6 DEF Silent, Quiet, StreamKept
  <2>8. \A r \in DOMAIN req : req'[r].answers = req[r].answers
    BY <1>0, <2>1, <2>3, SetupToldOfLoss DEF OnlySetup
  <2> QED  BY <1>0, <2>1, <2>2, <2>7, <2>8, AsioGoes
<1>2. CASE AsioStopBegin(c)
  <2>1. /\ call[c].pc = "stop" /\ Goto(c, "stopping")
        /\ UNCHANGED <<dev, setupCb, overlap, thread, state, stream, current, next, lostCb, tid,
                       remaining, req>>
    BY <1>2 DEF AsioStopBegin, owned, platform, deviceVars, history
  <2>2. SetupsKept /\ ThreadsKept
    BY <1>0, <2>1, NothingTold, ThreadsAsTheyWere
  <2>3. Moves(c, "stopping")
    BY <1>0, <2>1 DEF Goto, Behind, Moves, CallFits, Tells
  <2>4. CallsKept
    BY <1>0, <2>2, <2>3, MoveKept
  <2>5. Silent
    BY <1>0, <2>1, <2>2, <2>4 DEF Silent, Quiet, StreamKept
  <2> QED  BY <1>0, <2>1, <2>5, AsioGoes
<1>3. CASE AsioSetupRefused(c)
  <2>1. /\ call[c].pc = "check" /\ Goto(c, "refuse") /\ Unlocked /\ stream' \in {None, stream}
        /\ UNCHANGED <<dev, setupCb, overlap, thread, state, req>>
    BY <1>3 DEF AsioSetupRefused, SetupRefused, platform, deviceVars, history
  <2>2. Silent
    BY <1>0, <1>3, ReturnsAreSilent DEF AsioSetupRefused
  <2> QED  BY <1>0, <2>1, <2>2, AsioGoes
<1>4. CASE SetupResync(c) /\ UNCHANGED platform
  <2>1. /\ call[c].pc = "resync" /\ Goto(c, "callback")
        /\ UNCHANGED <<dev, setupCb, overlap, thread, state, stream, req>>
    BY <1>4 DEF SetupResync, owned, platform, deviceVars, history
  <2>2. Silent
    BY <1>0, <1>4, EndsAreSilent
  <2> QED  BY <1>0, <2>1, <2>2, AsioGoes
<1>5. ASSUME c \in Sessions, NEW t, AsioStart(c, t) \/ AsioStop(c, t)
      PROVE  AsioInv'
  <2>1. Silent
    BY <1>0, <1>5, PlaysAreSilent DEF AsioStart, AsioStop
  <2>2. /\ UNCHANGED <<call, req, thread, dev, setupCb, overlap>> /\ Unlocked
        /\ stream' \in {None, t} /\ t = current /\ state # "IDLE"
    BY <1>5 DEF AsioStart, AsioStop, Start, Stop, DropStream, platform, deviceVars, history
  <2>3. stream' \in {None, tid}
    BY <1>0, <2>2 DEF CommonInv, PlainFits
  <2>4. \A u \in DOMAIN thread :
           /\ thread'[u].pc \notin {"idle", "off"} => u = dev
           /\ thread'[u].left = thread[u].left
           /\ thread'[u].pc = "answer" <=> thread[u].pc = "answer"
    BY <1>0, <2>2 DEF DriverFits
  <2>5. \A r \in DOMAIN req : req'[r].answers = req[r].answers
    BY <2>2
  <2> QED  BY <2>1, <2>2, <2>3, <2>4, <2>5, AsioWaits
<1> QED  BY <1>1, <1>2, <1>3, <1>4, <1>5

\* A setup callback that was called is nowhere.
LEMMA NowherePlaced ==
    ASSUME NEW r, req'[r].answers \in {0, 1},
           ~InCall(r)', ~InCb(r)', ~InCancel(r)', ~InThread(r)'
    PROVE  PlacedOnce(r)'
BY DEF PlacedOnce

\* Calls that return: a setup that failed, or that leaves its callback with the plugin, and
\* force_teardown
LEMMA AsioReturns ==
    ASSUME AsioInv, NEW c \in Callers,
           \/ (SetupReturn(c) \/ SetupFail(c)) /\ UNCHANGED platform
           \/ AsioForceReturn(c)
    PROVE  AsioInv'
<1>0. /\ CommonInv /\ DriverFits /\ PlacesFit /\ CallFits(call[c], req, next)
      /\ req \in Seq(SetupRecord) /\ None \notin DOMAIN req
      /\ stream \in {None, tid} /\ call = [d \in Callers |-> call[d]]
      /\ \A d \in Callers \ {c} : call[c].req # None => call[d].req # call[c].req
      /\ \A d \in Callers : call[d].req \in DOMAIN req \union {None}
  BY SetupsTyped DEF AsioInv, CommonInv, CallsFit, CallFits, PlainFits, DriverFits
<1>1. /\ call' = [call EXCEPT ![c] = NoCall] /\ stream' \in {None, stream}
      /\ UNCHANGED <<dev, overlap, thread, state, current, lostCb, tid>>
      /\ UNCHANGED stream \/ Unlocked
      /\ call[c].pc \in {"callback", "refuse", "check"}
  BY DEF SetupReturn, SetupFail, AsioForceReturn, ForceReturn, Return, owned, platform, deviceVars,
         history
<1>2. Silent
  BY <1>0, EndsAreSilent, ReturnsAreSilent DEF AsioForceReturn
<1>3. /\ call'[c] = NoCall /\ \A d \in Callers \ {c} : call'[d] = call[d]
      /\ NoCall.pc = "idle" /\ NoCall.req = None
  BY <1>0, <1>1 DEF NoCall
<1> HIDE DEF NoCall
<1>4. DOMAIN req' = DOMAIN req /\ DOMAIN thread' = DOMAIN thread
  BY <1>1, <1>2 DEF Silent, Quiet, SetupsKept
<1>5. DriverFits'
  BY <1>0, <1>1, <1>4 DEF DriverFits
<1>6. UNCHANGED <<state, stream>> \/ \A d \in Callers : call'[d].pc # "hold"
  BY <1>1, <1>3 DEF Unlocked
<1>7. \A d \in Callers : call'[d].pc = "hold" => call'[d] = call[d]
  BY <1>3
<1>8. ASSUME NEW M, UNCHANGED setupCb \/ setupCb' \in M,
             \A r \in DOMAIN req \ M : req'[r].answers = req[r].answers,
             \A r \in DOMAIN req \intersect M : PlacedOnce(r)',
             \A d \in Callers : Cancels(d) => call[d].lost \notin M
      PROVE  PlacesFit'
  <2>1. /\ DOMAIN req \subseteq DOMAIN req' /\ DOMAIN req' \ DOMAIN req \subseteq M
        /\ \A d \in Callers : call'[d].req \in {None, call[d].req} \union M
        /\ setupCb' \in {None, setupCb} \union M
        /\ \A r \in DOMAIN req' \intersect M : PlacedOnce(r)'
        /\ \A t \in DOMAIN thread' :
              \/ thread'[t].left \in {None} \union M
              \/ t \in DOMAIN thread /\ thread'[t].left = thread[t].left
    BY <1>1, <1>3, <1>4, <1>8
  <2>2. \A d \in Callers : Cancels(d)' => Cancels(d) /\ call'[d].lost = call[d].lost
                                          /\ call'[d].target = call[d].target
    BY <1>3 DEF Cancels
  <2>3. /\ \A d \in Callers : Cancels(d)' =>
              \/ call'[d].lost \in M
              \/ Cancels(d) /\ call'[d].lost = call[d].lost
        /\ \A d \in Callers : Cancels(d)' => call'[d].target \in Int
        /\ \A d, e \in Callers :
              Cancels(d)' /\ Cancels(e)' /\ call'[d].lost = call'[e].lost
                 => d = e \/ call'[d].lost \notin M
    BY <1>0, <1>8, <2>2 DEF PlacesFit
  <2> QED  BY <1>0, <1>8, <2>1, <2>3, PlacesStay
<1>9. CASE SetupReturn(c) \/ SetupFail(c)
  <2>1. PICK r \in DOMAIN req : r = call[c].req
    BY <1>0, <1>9 DEF SetupReturn, SetupFail, CallFits
  <2>2. /\ InCall(r) /\ req[r].answers = 0 /\ ~InCb(r) /\ ~InCancel(r) /\ ~InThread(r)
    BY <1>0, <2>1 DEF PlacesFit, PlacedOnce, InCall
  <2>3. ~InCall(r)' /\ ~InThread(r)' /\ ~InCancel(r)'
    <3>1. r # None
      BY <1>0
    <3>2. \A d \in Callers : call'[d].req # r
      BY <1>0, <1>3, <2>1, <3>1
    <3>3. ~InCall(r)'
      BY <3>2 DEF InCall
    <3>4. ~InThread(r)'
      BY <1>1, <2>2 DEF InThread
    <3>5. ~InCancel(r)'
      BY <1>3, <2>2 DEF InCancel, Cancels
    <3> QED  BY <3>3, <3>4, <3>5
  <2>4. \A d \in Callers : Cancels(d) => call[d].lost # r
    BY <2>2 DEF InCancel
  <2>5. CASE SetupReturn(c)
    <3>1. setupCb' = r /\ UNCHANGED req /\ call[c].pc = "callback"
      BY <2>1, <2>5 DEF SetupReturn
    <3>2. PlacedOnce(r)'
      BY <2>2, <2>3, <3>1 DEF PlacedOnce
    <3>3. PlacesFit'
      <4> DEFINE M == {r}
      <4>1. /\ UNCHANGED setupCb \/ setupCb' \in M
            /\ \A q \in DOMAIN req \ M : req'[q].answers = req[q].answers
            /\ \A q \in DOMAIN req \intersect M : PlacedOnce(q)'
            /\ \A d \in Callers : Cancels(d) => call[d].lost \notin M
        BY <2>4, <3>1, <3>2
      <4> HIDE DEF M
      <4> QED  BY <1>8, <4>1
    <3>4. ~overlap => AsioInTurn'
      <4>1. SUFFICES ASSUME AsioInTurn PROVE AsioInTurn'
        BY DEF AsioInv
      <4>2. \E d \in Callers : call[d].pc = "callback" /\ setupCb' = call[d].req
        BY <2>1, <3>1
      <4>3. \A d \in Callers :
               /\ Idle(d) => Idle(d)'
               /\ call'[d].pc \in {"idle", "resync", "callback"}
                     \/ call[d].pc \notin {"idle", "resync", "callback"}
               /\ call'[d].pc \in {"resync", "callback"} =>
                     /\ call[d].pc \in {"resync", "callback"} /\ call'[d].req = call[d].req
                     /\ UNCHANGED lostCb
        BY <1>1, <1>3, <3>1 DEF Idle
      <4> QED  BY <1>1, <4>1, <4>2, <4>3, AsioGoesOn
    <3> QED  BY <1>1, <1>2, <1>5, <1>6, <1>7, <3>3, <3>4, AsioFrame
  <2>6. CASE SetupFail(c)
    <3>1. req' = Answered(r, call[c].token) /\ UNCHANGED setupCb /\ call[c].token \in Int
          /\ call[c].pc = "refuse"
      BY <1>0, <2>1, <2>6 DEF SetupFail, CallFits
    <3>2. OnlySetup(r) /\ req'[r].answers = req[r].answers + 1
      BY <1>0, <2>1, <3>1, SetupAnswered
    <3>3. PlacedOnce(r)'
      <4>1. ~InCb(r)' /\ req'[r].answers = 1
        BY <2>2, <3>1, <3>2 DEF InCb
      <4> QED  BY <2>3, <4>1, NowherePlaced
    <3>4. PlacesFit'
      <4> DEFINE M == {r}
      <4>1. /\ UNCHANGED setupCb \/ setupCb' \in M
            /\ \A q \in DOMAIN req \ M : req'[q].answers = req[q].answers
            /\ \A q \in DOMAIN req \intersect M : PlacedOnce(q)'
            /\ \A d \in Callers : Cancels(d) => call[d].lost \notin M
        BY <2>4, <3>1, <3>2, <3>3 DEF OnlySetup
      <4> HIDE DEF M
      <4> QED  BY <1>8, <4>1
    <3>5. ~overlap => AsioInTurn'
      <4>1. SUFFICES ASSUME AsioInTurn PROVE AsioInTurn'
        BY DEF AsioInv
      <4>2. /\ \A d \in Callers :
                  /\ Idle(d) => Idle(d)'
                  /\ call'[d].pc \in {"idle", "resync", "callback"}
                        \/ call[d].pc \notin {"idle", "resync", "callback"}
                  /\ call'[d].pc \in {"resync", "callback"} =>
                        /\ call[d].pc \in {"resync", "callback"} /\ call'[d].req = call[d].req
                        /\ UNCHANGED lostCb
            /\ \A d \in Callers : Idle(d)' => Idle(d) \/ call[d].pc \notin {"resync", "callback"}
        BY <1>1, <1>3, <3>1 DEF Idle
      <4> QED  BY <1>1, <3>1, <4>1, <4>2, AsioGoesOn
    <3> QED  BY <1>1, <1>2, <1>5, <1>6, <1>7, <3>4, <3>5, AsioFrame
  <2> QED  BY <1>9, <2>5, <2>6
<1>10. CASE AsioForceReturn(c)
  <2>1. UNCHANGED <<setupCb, req>> /\ call[c].pc = "check"
    BY <1>10 DEF AsioForceReturn, ForceReturn
  <2>2. \A d \in Callers :
           /\ Idle(d) => Idle(d)'
           /\ call'[d].pc \in {"hold", "cancel"} => call'[d] = call[d]
           /\ \/ call'[d].pc \in {"idle", "resync", "callback"}
              \/ call[d].pc \notin {"idle", "resync", "callback"}
           /\ call'[d].pc \in {"resync", "callback"} =>
                 call[d].pc \in {"resync", "callback"} /\ call'[d].req = call[d].req
           /\ Idle(d)' => Idle(d) \/ call[d].pc \notin {"resync", "callback"}
    BY <1>3, <2>1 DEF Idle
  <2>3. \A t \in DOMAIN thread :
           /\ thread'[t].pc \notin {"idle", "off"} => t = dev
           /\ thread'[t].left = thread[t].left
           /\ thread'[t].pc = "answer" <=> thread[t].pc = "answer"
    BY <1>0, <1>1 DEF DriverFits
  <2>4. \A r \in DOMAIN req : req'[r].answers = req[r].answers
    BY <2>1
  <2>5. stream' \in {None, tid}
    BY <1>0, <1>1
  <2> QED  BY <1>1, <1>2, <1>6, <2>1, <2>2, <2>3, <2>4, <2>5, AsioSilent
<1> QED  BY <1>9, <1>10

\* The setup callback of an owner that was kicked off is canceled.
LEMMA AsioCancels ==
    ASSUME AsioInv, NEW c \in Callers, AsioCancel(c)
    PROVE  AsioInv'
<1> DEFINE k == [call[c] EXCEPT !.pc = "stop"]
<1>0. /\ CommonInv /\ DriverFits /\ PlacesFit /\ CallFits(call[c], req, next)
      /\ req \in Seq(SetupRecord) /\ None \notin DOMAIN req
      /\ stream \in {None, tid} /\ call = [d \in Callers |-> call[d]]
      /\ CallRecord(call[c]) /\ remaining \in Nat
      /\ setupCb \in DOMAIN req \union {None} /\ lostCb \in DOMAIN req \union {None}
      /\ \A d \in Callers : call[d].req \in DOMAIN req \union {None}
  BY SetupsTyped DEF AsioInv, CommonInv, CallsFit, CallFits, CallRecord, PlainFits, DriverFits
<1>1. /\ call[c].pc = "cancel" /\ Goto(c, "stop")
      /\ UNCHANGED <<dev, overlap, thread, state, stream, current, next, lostCb, tid, setupCb,
                     remaining>>
  BY DEF AsioCancel, owned, platform, deviceVars, history
<1>2. PICK r \in DOMAIN req : r = call[c].lost
  BY <1>0, <1>1 DEF CallFits
<1>3. PICK g \in Int : g = call[c].target
  BY <1>0, <1>1 DEF PlacesFit, Cancels
<1>4. /\ OnlySetup(r) /\ req'[r].answers = req[r].answers + 1
      /\ req'[r].losses = req[r].losses + 1 /\ req'[r].token = req[r].token
      /\ req'[r].teardowns = req[r].teardowns
  <2> DEFINE p == Answered(r, g)
             e == [req[r] EXCEPT !.answers = @ + 1, !.told = @ \union {g}]
             f == [e EXCEPT !.losses = @ + 1]
  <2>1. req[r] \in SetupRecord
    BY <1>0, SetupsTyped
  <2>2. req' = [p EXCEPT ![r].losses = @ + 1]
    BY <1>2, <1>3 DEF AsioCancel
  <2>3. p = [req EXCEPT ![r] = e]
    BY DEF Answered
  <2>4. e \in SetupRecord
    <3> DEFINE u == req[r].told \union {g}
    <3>1. u \in SUBSET Int
      BY <2>1 DEF SetupRecord
    <3>2. e = [req[r] EXCEPT !.answers = @ + 1, !.told = u]
      BY <2>1 DEF SetupRecord
    <3> HIDE DEF e, u
    <3> QED  BY <2>1, <3>1, <3>2, RecordUpdates
  <2>5. e.answers = req[r].answers + 1 /\ e.losses = req[r].losses /\ e.token = req[r].token
        /\ e.teardowns = req[r].teardowns
    BY <2>1 DEF SetupRecord
  <2> HIDE DEF e, p
  <2>6. f \in SetupRecord
    BY <2>4, RecordUpdates
  <2>7. f.answers = e.answers /\ f.losses = e.losses + 1 /\ f.token = e.token
        /\ f.teardowns = e.teardowns
    BY <2>4 DEF SetupRecord
  <2>8. req' = [req EXCEPT ![r] = f]
    <3>1. p[r] = e
      BY <2>3
    <3>2. req' = [p EXCEPT ![r] = f]
      BY <2>2, <3>1
    <3> HIDE DEF f
    <3> QED  BY <2>3, <3>2
  <2> HIDE DEF f
  <2>9. OnlySetup(r) /\ req'[r] = f
    BY <1>0, <2>6, <2>8, SetupWritten
  <2> QED  BY <2>5, <2>7, <2>9
<1>5. SetupsKept /\ req'[r].losses > 0
  <2>1. \A q \in DOMAIN req : req[q].losses \in Nat
    BY <1>0, SetupsTyped DEF SetupRecord
  <2> QED  BY <1>4, <2>1 DEF OnlySetup, SetupsKept
<1>6. Silent
  <2>1. Moves(c, "stop")
    BY <1>1, <1>2, <1>5 DEF Goto, Behind, Moves
  <2>2. CallsKept
    BY <1>0, <1>5, <2>1, MoveKept
  <2>3. ThreadsKept
    BY <1>0, <1>1, ThreadsAsTheyWere
  <2> QED  BY <1>0, <1>1, <1>5, <2>2, <2>3 DEF Silent, Quiet, StreamKept
<1>7. k.pc = "stop" /\ k.req = call[c].req
  BY <1>0, CallPc
<1>8. call' = [call EXCEPT ![c] = k]
  BY <1>1 DEF Goto
<1> HIDE DEF k
<1>9. call'[c] = k /\ \A d \in Callers \ {c} : call'[d] = call[d]
  BY <1>0, <1>8
<1>10. DOMAIN req' = DOMAIN req
  BY <1>4 DEF OnlySetup
<1>11. DriverFits'
  BY <1>0, <1>1, <1>10 DEF DriverFits
<1>12. PlacesFit'
  <2>1. InCancel(r) /\ PlacedOnce(r)
    BY <1>0, <1>1, <1>2 DEF PlacesFit, InCancel, Cancels
  <2>2. req[r].answers = 0 /\ ~InCall(r) /\ ~InCb(r) /\ ~InThread(r)
    BY <2>1 DEF PlacedOnce
  <2>3. \A d \in Callers : Cancels(d)' => /\ Cancels(d) /\ d # c /\ call[d].lost # r
                                          /\ call'[d] = call[d]
    BY <1>0, <1>1, <1>2, <1>7, <1>9 DEF PlacesFit, Cancels
  <2>4. ~InCancel(r)'
    BY <2>3 DEF InCancel
  <2>5. ~InCall(r)' /\ ~InCb(r)' /\ ~InThread(r)'
    <3>1. ~InCall(r)'
      BY <1>7, <1>9, <2>2 DEF InCall
    <3>2. ~InThread(r)'
      BY <1>1, <2>2 DEF InThread
    <3> QED  BY <1>1, <2>2, <3>1, <3>2 DEF InCb
  <2>6. PlacedOnce(r)'
    BY <1>4, <2>2, <2>4, <2>5, NowherePlaced
  <2> DEFINE M == {r}
  <2>7. /\ DOMAIN req \subseteq DOMAIN req' /\ DOMAIN req' \ DOMAIN req \subseteq M
        /\ \A d \in Callers : call'[d].req \in {None, call[d].req} \union M
        /\ setupCb' \in {None, setupCb} \union M
        /\ \A q \in DOMAIN req' \intersect M : PlacedOnce(q)'
        /\ \A t \in DOMAIN thread' :
              \/ thread'[t].left \in {None} \union M
              \/ t \in DOMAIN thread /\ thread'[t].left = thread[t].left
        /\ \A q \in DOMAIN req \ M : req'[q].answers = req[q].answers
    BY <1>1, <1>4, <1>7, <1>9, <1>10, <2>6 DEF OnlySetup
  <2>8. /\ \A d \in Callers : Cancels(d)' =>
              \/ call'[d].lost \in M
              \/ Cancels(d) /\ call'[d].lost = call[d].lost
        /\ \A d \in Callers : Cancels(d)' => call'[d].target \in Int
        /\ \A d, e \in Callers :
              Cancels(d)' /\ Cancels(e)' /\ call'[d].lost = call'[e].lost
                 => d = e \/ call'[d].lost \notin M
    BY <1>0, <2>3 DEF PlacesFit
  <2> HIDE DEF M
  <2> QED  BY <1>0, <2>7, <2>8, PlacesStay
<1>13. \A d \in Callers : call'[d].pc = "hold" => call'[d] = call[d]
  BY <1>7, <1>9
<1>14. ~overlap => AsioInTurn'
  <2>1. SUFFICES ASSUME AsioInTurn PROVE AsioInTurn'
    BY DEF AsioInv
  <2>2. /\ \A d \in Callers :
              /\ Idle(d) => Idle(d)'
              /\ call'[d].pc \in {"idle", "resync", "callback"}
                    \/ call[d].pc \notin {"idle", "resync", "callback"}
              /\ call'[d].pc \in {"resync", "callback"} =>
                    /\ call[d].pc \in {"resync", "callback"} /\ call'[d].req = call[d].req
                    /\ UNCHANGED lostCb
        /\ \A d \in Callers : Idle(d)' => Idle(d) \/ call[d].pc \notin {"resync", "callback"}
    BY <1>1, <1>7, <1>9 DEF Idle
  <2> QED  BY <1>1, <2>1, <2>2, AsioGoesOn
<1> QED  BY <1>1, <1>6, <1>11, <1>12, <1>13, <1>14, AsioFrame

\* When no callback of the driver is in progress, its thread is as idle as the old ones.
LEMMA NoneCalled ==
    ASSUME CommonInv, DriverFits, NoCallback
    PROVE  \A t \in DOMAIN thread : thread[t].pc \in {"idle", "off"} /\ thread[t].left = None
<1>1. dev # None => thread[dev].pc = "idle"
  BY DEF NoCallback
<1> QED  BY <1>1 DEF DriverFits, CommonInv, PlainFits, None

\* The driver is stopped and its thread ends.
LEMMA DriverDisposed ==
    ASSUME CommonInv, DriverFits, Disposed
    PROVE  /\ dev' = None /\ ThreadsKept
           /\ \A t \in DOMAIN thread :
                 /\ thread'[t].pc \in {"idle", "off"} /\ thread'[t].left = thread[t].left
                 /\ thread[t].left = None
<1>0. /\ \A t \in DOMAIN thread : {"pc", "stream", "left"} \subseteq DOMAIN thread[t]
      /\ dev \in DOMAIN thread \union {None}
  BY DEF CommonInv, PlainFits, DriverFits
<1>1. \A t \in DOMAIN thread : thread[t].pc \in {"idle", "off"} /\ thread[t].left = None
  BY NoneCalled DEF Disposed
<1>2. CASE dev = None
  <2>1. ThreadsKept /\ UNCHANGED thread /\ dev' = None
    BY <1>2, ThreadsAsTheyWere DEF Disposed
  <2> QED  BY <1>1, <2>1
<1>3. CASE dev # None
  <2>1. ThreadGoes(dev, "off") /\ dev' = None /\ dev \in DOMAIN thread
    BY <1>0, <1>3 DEF Disposed
  <2>2. ThreadsKept
    BY <2>1, ThreadGoesKept
  <2>3. /\ \A u \in DOMAIN thread \ {dev} : thread'[u] = thread[u]
        /\ thread'[dev].pc = "off" /\ thread'[dev].left = thread[dev].left
    BY <1>0, <2>1, ThreadGoesOn
  <2> QED  BY <1>1, <2>1, <2>2, <2>3
<1> QED  BY <1>2, <1>3

\* Nothing is answered, canceled or left behind.
LEMMA PlacesAsTheyWere ==
    ASSUME CommonInv, DriverFits, PlacesFit, UNCHANGED setupCb, DOMAIN req' = DOMAIN req,
           \A r \in DOMAIN req : req'[r].answers = req[r].answers,
           \A d \in Callers : call'[d].req \in {None, call[d].req},
           \A d \in Callers : Cancels(d)' => call'[d] = call[d],
           \A t \in DOMAIN thread' :
              \/ thread'[t].left = None
              \/ t \in DOMAIN thread /\ thread'[t].left = thread[t].left
    PROVE  PlacesFit'
<1> DEFINE M == {}
<1>1. /\ DOMAIN req \subseteq DOMAIN req' /\ DOMAIN req' \ DOMAIN req \subseteq M
      /\ \A d \in Callers : call'[d].req \in {None, call[d].req} \union M
      /\ setupCb' \in {None, setupCb} \union M
      /\ \A q \in DOMAIN req' \intersect M : PlacedOnce(q)'
      /\ \A t \in DOMAIN thread' :
            \/ thread'[t].left \in {None} \union M
            \/ t \in DOMAIN thread /\ thread'[t].left = thread[t].left
      /\ \A q \in DOMAIN req \ M : req'[q].answers = req[q].answers
  OBVIOUS
<1>2. /\ \A d \in Callers : Cancels(d)' =>
            \/ call'[d].lost \in M
            \/ Cancels(d) /\ call'[d].lost = call[d].lost
      /\ \A d \in Callers : Cancels(d)' => call'[d].target \in Int
      /\ \A d, e \in Callers :
            Cancels(d)' /\ Cancels(e)' /\ call'[d].lost = call'[e].lost
               => d = e \/ call'[d].lost \notin M
  BY DEF PlacesFit, Cancels
<1> HIDE DEF M
<1> QED  BY <1>1, <1>2, PlacesStay

\* The driver stops.
LEMMA AsioStops ==
    ASSUME AsioInv, NEW c \in Callers, AsioStopEnd(c)
    PROVE  AsioInv'
<1> DEFINE pc == IF call[c].op = "force" /\ call[c].lost # None THEN "lost" ELSE "check"
<1>0. /\ CommonInv /\ DriverFits /\ PlacesFit /\ CallFits(call[c], req, next)
      /\ None \notin DOMAIN thread /\ DOMAIN thread \subseteq Nat
      /\ \A t \in DOMAIN thread : {"pc", "stream", "left"} \subseteq DOMAIN thread[t]
      /\ call = [d \in Callers |-> call[d]] /\ CallRecord(call[c]) /\ remaining \in Nat
      /\ setupCb \in DOMAIN req \union {None} /\ lostCb \in DOMAIN req \union {None}
      /\ tid \in DOMAIN thread \union {None}
      /\ \A d \in Callers : call[d].req \in DOMAIN req \union {None}
  BY DEF AsioInv, CommonInv, CallsFit, CallFits, CallRecord, PlainFits, DriverFits, None
<1>1. /\ call[c].pc = "stopping" /\ Disposed
      /\ UNCHANGED <<overlap, state, stream, current, next, lostCb, tid, setupCb, remaining, req>>
  BY DEF AsioStopEnd, owned, history
<1>2. /\ dev' = None /\ ThreadsKept /\ DOMAIN thread' = DOMAIN thread
      /\ \A t \in DOMAIN thread :
            /\ thread'[t].pc \in {"idle", "off"} /\ thread'[t].left = thread[t].left
            /\ thread[t].left = None
  BY <1>0, <1>1, DriverDisposed DEF ThreadsKept
<1>3. DriverFits'
  BY <1>0, <1>1, <1>2 DEF DriverFits
<1>4. SetupsKept
  BY <1>0, <1>1, NothingTold
<1>5. /\ CallsKept
      /\ \A d \in Callers \ {c} : call'[d] = call[d]
      /\ call'[c].pc \in {"idle", "lost", "check"} /\ call'[c].req \in {None, call[c].req}
  <2>1. CASE call[c].op = "teardown"
    <3>1. call' = [call EXCEPT ![c] = NoCall] /\ call[c].lost = None
      BY <1>0, <2>1 DEF AsioStopEnd, CallFits
    <3>2. CallsKept
      BY <1>0, <1>4, <3>1, EndKept
    <3> QED  BY <1>0, <3>1, <3>2 DEF NoCall
  <2>2. CASE call[c].op # "teardown"
    <3> DEFINE k == [call[c] EXCEPT !.pc = pc]
    <3>1. call' = [call EXCEPT ![c] = k]
      BY <2>2 DEF AsioStopEnd
    <3>2. pc \in {"lost", "check"} /\ (pc = "lost" => call[c].lost # None)
          /\ (call[c].op = "force" /\ call[c].lost # None => pc = "lost")
      OBVIOUS
    <3> HIDE DEF pc
    <3>3. call[c].lost = None \/ req'[call[c].lost].losses > 0 \/ pc = "lost"
      BY <1>0, <1>1, <3>2 DEF CallFits, Tells
    <3>4. Moves(c, pc)
      BY <1>1, <3>1, <3>2, <3>3 DEF Behind, Moves
    <3>5. CallsKept
      BY <1>0, <1>4, <3>4, MoveKept
    <3>6. k.pc = pc /\ k.req = call[c].req
      BY <1>0, CallPc
    <3> HIDE DEF k
    <3> QED  BY <1>0, <3>1, <3>2, <3>5, <3>6
  <2> QED  BY <2>1, <2>2
<1>6. Silent
  BY <1>0, <1>1, <1>2, <1>4, <1>5 DEF Silent, Quiet, StreamKept
<1>7. PlacesFit'
  <2>1. /\ \A d \in Callers : call'[d].req \in {None, call[d].req}
        /\ \A d \in Callers : Cancels(d)' => call'[d] = call[d]
    BY <1>5 DEF Cancels
  <2> QED  BY <1>0, <1>1, <1>2, <2>1, PlacesAsTheyWere
<1>8. \A d \in Callers : call'[d].pc = "hold" => call'[d] = call[d]
  BY <1>5
<1>9. ~overlap => AsioInTurn'
  <2>1. SUFFICES ASSUME AsioInTurn PROVE AsioInTurn'
    BY DEF AsioInv
  <2>2. /\ \A d \in Callers :
              /\ Idle(d) => Idle(d)'
              /\ call'[d].pc \in {"idle", "resync", "callback"}
                    \/ call[d].pc \notin {"idle", "resync", "callback"}
              /\ call'[d].pc \in {"resync", "callback"} =>
                    /\ call[d].pc \in {"resync", "callback"} /\ call'[d].req = call[d].req
                    /\ UNCHANGED lostCb
        /\ \A d \in Callers : Idle(d)' => Idle(d) \/ call[d].pc \notin {"resync", "callback"}
    BY <1>1, <1>5 DEF Idle
  <2>3. state = "IDLE"
    BY <1>1, <2>1 DEF AsioInTurn
  <2> QED  BY <1>1, <2>1, <2>2, <2>3, AsioGoesOn
<1> QED  BY <1>1, <1>3, <1>6, <1>7, <1>8, <1>9, AsioFrame

\* A setup that nobody overtook takes a fresh token, or fails with it.
Renews(c, k) ==
    /\ next' = next + 1 /\ current' = next + 1 /\ state = "IDLE" /\ state' = "IDLE"
    /\ stream' = None /\ UNCHANGED <<tid, req, setupCb, remaining>>
    /\ lostCb' \in {lostCb, call[c].req}
    /\ call[c].op = "setup" /\ call[c].pc \in {"check", "hold"}
    /\ call' = [call EXCEPT ![c] = k] /\ CallFits(k, req, next + 1)
    /\ k.req = call[c].req /\ k.lost = call[c].lost
    /\ k.pc \notin Behind /\ (k.pc = "hold" => k.token = next + 1)
    /\ ThreadsKept

\* Nobody had the output, and nobody gets it.
LEMMA RenewsKeeps ==
    ASSUME CommonInv, NEW c \in Callers, NEW k, Renews(c, k)
    PROVE  /\ CommonInv' /\ (LossesReported => LossesReported')
           /\ call'[c] = k /\ \A d \in Callers \ {c} : call'[d] = call[d]
<1>0. /\ CommonInv /\ req \in Seq(SetupRecord) /\ None \notin DOMAIN req /\ next \in Nat \ {0}
      /\ CallsFit /\ CallFits(call[c], req, next)
      /\ \A r \in DOMAIN req : req[r] \in SetupRecord
  BY SetupsTyped DEF CommonInv, PlainFits, CallsFit
<1>1. /\ CallsFit' /\ call'[c] = k /\ \A d \in Callers \ {c} : call'[d] = call[d]
  <2>1. /\ call' = [call EXCEPT ![c] = k] /\ CallFits(k, req', next')
        /\ next \in Int /\ next' \in Int /\ next <= next' /\ DOMAIN req \subseteq DOMAIN req'
        /\ k.req \in {None, call[c].req} \/ k.req \notin DOMAIN req
    BY <1>0 DEF Renews
  <2>2. \A r \in DOMAIN req : /\ req[r].losses \in Nat /\ req'[r].losses \in Nat
                              /\ req'[r].losses >= req[r].losses
                              /\ r # call[c].req => req'[r].token = req[r].token
    BY <1>0 DEF Renews, SetupRecord
  <2> HIDE DEF CallFits, CallsFit
  <2> QED  BY <1>0, <2>1, <2>2, CallWritten
<1>2. PlainFits'
  <2>1. /\ DOMAIN thread' = DOMAIN thread /\ call[c].req \in DOMAIN req
        /\ \A t \in DOMAIN thread : {"pc", "stream", "left"} \subseteq DOMAIN thread'[t]
    BY <1>0 DEF Renews, ThreadsKept, CallFits
  <2> QED  BY <1>0, <2>1 DEF CommonInv, PlainFits, Renews, None
<1>3. KicksBehind'
  <2>1. \A d \in Callers : call[d].token <= next /\ call[d].token \in Int
    BY <1>0 DEF CallsFit, CallFits
  <2>2. state' = "IDLE" /\ k.pc \notin Behind /\ (k.pc = "hold" => k.token = next + 1)
    BY DEF Renews
  <2> QED  BY <1>0, <1>1, <2>1, <2>2 DEF CommonInv, KicksBehind
<1>4. StreamFits'
  BY DEF Renews, StreamFits, PlaysOwnStream, ThreadsKept
<1>5. (\A r \in DOMAIN req : SetupFits(req[r]))'
  <2>1. \A r \in DOMAIN req : SetupFits(req[r]) /\ req[r].token \in Nat
    BY <1>0 DEF CommonInv, SetupRecord
  <2> QED  BY <1>0, <2>1 DEF SetupFits, None, Renews
<1>6. ASSUME LossesReported, NEW r \in DOMAIN req, req[r].token # None
      PROVE  LossReported(r)'
  <2>1. LossReported(r) /\ state = "IDLE" /\ k.lost = call[c].lost /\ UNCHANGED req
    BY <1>6 DEF LossesReported, Renews
  <2> QED  BY <1>1, <2>1 DEF LossReported
<1>7. LossesReported => LossesReported'
  <2>1. UNCHANGED req
    BY DEF Renews
  <2> QED  BY <1>6, <2>1 DEF LossesReported
<1> QED  BY <1>1, <1>2, <1>3, <1>4, <1>5, <1>7 DEF CommonInv

\* One setup has the lock, and with it the current token.
LEMMA HoldsAlone ==
    ASSUME CommonInv, HoldFits, NEW c \in Callers, call[c].pc = "hold"
    PROVE  /\ state = "IDLE" /\ stream = None /\ call[c].token = current
           /\ current \in Nat \ {0} /\ current <= next
           /\ \A d \in Callers \ {c} :
                 /\ call[d].pc # "hold"
                 /\ call[d].pc \in Behind => call[d].token # current
<1>1. /\ state = "IDLE" /\ stream = None /\ call[c].token = current
      /\ \A d \in Callers : call[d].pc = "hold" => call[d].token = current
  BY DEF HoldFits
<1>2. /\ current # None /\ current <= next /\ call[c].token \in 0..next /\ next \in Nat
  BY DEF CommonInv, PlainFits, CallsFit, CallFits
<1>3. \A d \in Callers : c # d /\ call[d].pc \in Behind \union {"hold"} =>
         call[c].token # call[d].token
  BY <1>1, <1>2 DEF CommonInv, KicksBehind
<1> QED  BY <1>1, <1>2, <1>3 DEF None

\* The record of a call with its place and its token changed
LEMMA CallRenewed ==
    ASSUME NEW k, CallRecord(k), NEW pc, NEW t
    PROVE  [k EXCEPT !.pc = pc, !.token = t]
              = [op |-> k.op, pc |-> pc, token |-> t, req |-> k.req, join |-> k.join,
                 target |-> k.target, lost |-> k.lost]
<1>1. PICK o, at, n, r, j, g, m :
         k = [op |-> o, pc |-> at, token |-> n, req |-> r, join |-> j, target |-> g, lost |-> m]
  BY DEF CallRecord
<1> DEFINE p == [k EXCEPT !.pc = pc]
           q == [p EXCEPT !.token = t]
<1>2. [k EXCEPT !.pc = pc, !.token = t] = q
  OBVIOUS
<1>3. p = [op |-> o, pc |-> pc, token |-> n, req |-> r, join |-> j, target |-> g, lost |-> m]
  BY <1>1
<1> HIDE DEF p
<1>4. q = [op |-> o, pc |-> pc, token |-> t, req |-> r, join |-> j, target |-> g, lost |-> m]
  BY <1>3
<1> HIDE DEF q
<1> QED  BY <1>1, <1>2, <1>4

\* A setup takes the lock and keeps it while the driver starts, or the driver does not start.
LEMMA AsioRenews ==
    ASSUME AsioInv, NEW c \in Callers, AsioSetupHolds(c) \/ AsioSetupBroken(c)
    PROVE  AsioInv'
<1>0. /\ CommonInv /\ DriverFits /\ HoldFits /\ PlacesFit /\ CallFits(call[c], req, next)
      /\ CallRecord(call[c]) /\ next \in Nat \ {0} /\ call = [d \in Callers |-> call[d]]
  BY DEF AsioInv, CommonInv, CallsFit, CallFits, CallRecord, PlainFits
<1>1. /\ UNCHANGED <<tid, req, setupCb, remaining, overlap>>
      /\ next' = next + 1 /\ current' = next + 1 /\ state' = "IDLE"
  <2>1. CASE AsioSetupBroken(c)
    BY <2>1 DEF AsioSetupBroken, AsioStarts
  <2>2. CASE AsioSetupHolds(c)
    <3>1. state = "IDLE"
      BY <1>0, <2>2 DEF AsioSetupHolds, StillCurrent, CommonInv, KicksBehind, Behind
    <3> QED  BY <2>2, <3>1 DEF AsioSetupHolds, platform, deviceVars, history
  <2> QED  BY <2>1, <2>2
<1>2. /\ state = "IDLE" /\ call[c].op = "setup" /\ call[c].pc \in {"check", "hold"}
      /\ stream' = None /\ lostCb' \in {lostCb, call[c].req}
      /\ \A d \in Callers \ {c} : call[d].pc # "hold"
      /\ ThreadsKept /\ dev' \in {None, dev}
      /\ \A t \in DOMAIN thread :
            /\ thread'[t].pc = thread[t].pc \/ thread'[t].pc \in {"idle", "off"}
            /\ thread'[t].left = thread[t].left
            /\ thread'[t].pc = "answer" <=> thread[t].pc = "answer"
            /\ thread'[t].pc \in {"idle", "off"} \/ UNCHANGED dev
  <2>1. CASE AsioSetupBroken(c)
    <3>1. call[c].pc = "hold" /\ Disposed /\ stream' = stream /\ lostCb' = call[c].req
      BY <2>1 DEF AsioSetupBroken, AsioStarts
    <3>2. call[c].op = "setup"
      BY <1>0, <3>1 DEF CallFits
    <3>3. state = "IDLE" /\ stream = None /\ \A d \in Callers \ {c} : call[d].pc # "hold"
      BY <1>0, <3>1, HoldsAlone
    <3>4. /\ dev' = None /\ ThreadsKept
          /\ \A t \in DOMAIN thread :
                /\ thread'[t].pc \in {"idle", "off"} /\ thread'[t].left = thread[t].left
                /\ thread[t].left = None
      BY <1>0, <3>1, DriverDisposed
    <3>5. \A t \in DOMAIN thread : thread[t].pc # "answer"
      BY <1>0, <3>4 DEF DriverFits
    <3> QED  BY <3>1, <3>2, <3>3, <3>4, <3>5
  <2>2. CASE AsioSetupHolds(c)
    <3>1. /\ call[c].op = "setup" /\ call[c].pc = "check" /\ Unlocked /\ StillCurrent(c)
          /\ stream' = None /\ UNCHANGED <<lostCb, thread, dev>>
      BY <2>2 DEF AsioSetupHolds, platform, deviceVars
    <3>2. ThreadsKept
      BY <1>0, <3>1, ThreadsAsTheyWere
    <3>3. state = "IDLE"
      BY <1>0, <3>1 DEF StillCurrent, CommonInv, KicksBehind, Behind
    <3> QED  BY <3>1, <3>2, <3>3 DEF Unlocked
  <2> QED  BY <2>1, <2>2
<1>3. PICK k : /\ call' = [call EXCEPT ![c] = k] /\ CallFits(k, req, next + 1)
               /\ k.req = call[c].req /\ k.lost = call[c].lost
               /\ k.pc \in {"hold", "refuse"} /\ (k.pc = "hold" => k.token = next + 1)
  <2>1. /\ call[c].lost # None => req[call[c].lost].losses > 0
        /\ req[call[c].req].token = None
    BY <1>0, <1>2 DEF CallFits, Tells, Behind
  <2>2. CASE AsioSetupBroken(c)
    <3> DEFINE k == [call[c] EXCEPT !.pc = "refuse"]
    <3>1. call' = [call EXCEPT ![c] = k]
      BY <2>2 DEF AsioSetupBroken, Goto
    <3>2. /\ CallRecord(k) /\ k.pc = "refuse" /\ k.op = call[c].op /\ k.token = call[c].token
          /\ k.req = call[c].req /\ k.lost = call[c].lost
      BY <1>0, CallPc
    <3> HIDE DEF k
    <3>3. CallFits(k, req, next + 1)
      BY <1>0, <1>2, <2>1, <3>2 DEF CallFits, CallRecord, Tells, Behind
    <3> QED  BY <3>1, <3>2, <3>3
  <2>3. CASE AsioSetupHolds(c)
    <3> DEFINE k == [call[c] EXCEPT !.pc = "hold", !.token = next + 1]
    <3>1. call' = [call EXCEPT ![c] = k]
      BY <2>3 DEF AsioSetupHolds
    <3> HIDE DEF k
    <3>2. k = [op |-> call[c].op, pc |-> "hold", token |-> next + 1, req |-> call[c].req,
               join |-> call[c].join, target |-> call[c].target, lost |-> call[c].lost]
      BY <1>0, CallRenewed DEF k
    <3>3. /\ CallRecord(k) /\ k.pc = "hold" /\ k.op = call[c].op /\ k.token = next + 1
          /\ k.req = call[c].req /\ k.lost = call[c].lost
      BY <3>2 DEF CallRecord
    <3>4. CallFits(k, req, next + 1)
      BY <1>0, <1>2, <2>1, <3>3 DEF CallFits, CallRecord, Tells, Behind
    <3> QED  BY <3>1, <3>3, <3>4
  <2> QED  BY <2>2, <2>3
<1>4. Renews(c, k)
  <2> HIDE DEF CallFits
  <2> QED  BY <1>1, <1>2, <1>3 DEF Renews, Behind
<1>5. /\ CommonInv' /\ (LossesReported => LossesReported')
      /\ call'[c] = k /\ \A d \in Callers \ {c} : call'[d] = call[d]
  <2> HIDE DEF Renews
  <2> QED  BY <1>0, <1>4, RenewsKeeps
<1>6. DriverFits'
  <2>1. DOMAIN thread' = DOMAIN thread
    BY <1>2 DEF ThreadsKept
  <2> QED  BY <1>0, <1>1, <1>2, <2>1 DEF DriverFits
<1>7. HoldFits'
  BY <1>1, <1>2, <1>3, <1>5 DEF HoldFits
<1>8. PlacesFit'
  <2>1. /\ \A d \in Callers : call'[d].req \in {None, call[d].req}
        /\ \A d \in Callers : Cancels(d)' => call'[d] = call[d]
        /\ \A t \in DOMAIN thread' :
              \/ thread'[t].left = None
              \/ t \in DOMAIN thread /\ thread'[t].left = thread[t].left
    BY <1>2, <1>3, <1>5 DEF Cancels, ThreadsKept
  <2> QED  BY <1>0, <1>1, <2>1, PlacesAsTheyWere
<1>9. ~overlap' => AsioInTurn'
  <2>1. SUFFICES ASSUME AsioInTurn PROVE AsioInTurn'
    BY <1>1 DEF AsioInv
  <2>2. \A d \in Callers \ {c} : Idle(d)
    BY <1>2, <2>1 DEF AsioInTurn, OneCaller, Idle
  <2>3. /\ \A d \in Callers :
              /\ Idle(d) => Idle(d)'
              /\ call'[d].pc \in {"idle", "resync", "callback"}
                    \/ call[d].pc \notin {"idle", "resync", "callback"}
              /\ call'[d].pc \in {"resync", "callback"} =>
                    /\ call[d].pc \in {"resync", "callback"} /\ call'[d].req = call[d].req
                    /\ UNCHANGED lostCb
        /\ \A d \in Callers : Idle(d)' => Idle(d) \/ call[d].pc \notin {"resync", "callback"}
    BY <1>2, <1>3, <1>5, <2>2 DEF Idle
  <2> QED  BY <1>1, <2>1, <2>3, AsioGoesOn
<1> QED  BY <1>1, <1>5, <1>6, <1>7, <1>8, <1>9 DEF AsioInv

\* The driver started: its callbacks are those of the new token.
LEMMA AsioGranted ==
    ASSUME AsioInv, NEW c \in Callers, AsioSetupGranted(c)
    PROVE  AsioInv'
<1> DEFINE k == [call[c] EXCEPT !.pc = "resync"]
           old == IF dev = None THEN current ELSE dev
           pc == IF dev = None THEN "idle" ELSE "off"
           r == call[c].req
<1>0. /\ CommonInv /\ DriverFits /\ HoldFits /\ PlacesFit /\ CallFits(call[c], req, next)
      /\ req \in Seq(SetupRecord) /\ remaining \in Nat /\ CallRecord(call[c])
      /\ call = [d \in Callers |-> call[d]]
  BY DEF AsioInv, CommonInv, CallsFit, CallFits, CallRecord, PlainFits
<1>1. /\ call[c].pc = "hold" /\ NoCallback /\ lostCb' = r /\ state' = "STOPPED"
      /\ UNCHANGED <<stream, setupCb, overlap, current, next>>
      /\ tid' = current /\ dev' = current
      /\ thread' = [CallbackThread(current, "idle") EXCEPT ![old].pc = pc]
      /\ req' = [req EXCEPT ![r].token = current] /\ Goto(c, "resync")
  BY DEF AsioSetupGranted, AsioStarts
<1>2. call[c].op = "setup" /\ r \in DOMAIN req /\ ~Tells(call[c])
  BY <1>0, <1>1 DEF CallFits, Tells
<1>3. PICK t \in Nat \ {0} : t = current
  BY <1>0, <1>1, HoldsAlone
<1>4. /\ state = "IDLE" /\ stream = None /\ t <= next
      /\ \A d \in Callers \ {c} : call[d].pc # "hold" /\ (call[d].pc \in Behind => call[d].token # t)
  BY <1>0, <1>1, <1>3, HoldsAlone
<1>5. remaining' \in Nat
  BY <1>0 DEF AsioSetupGranted, AsioCalledInStart
<1>6. /\ DOMAIN thread' = DOMAIN thread \union {t}
      /\ \A u \in DOMAIN thread' :
            /\ thread'[u].stream \in {None, u} /\ {"pc", "stream", "left"} \subseteq DOMAIN thread'[u]
            /\ thread'[u].pc \in {"idle", "off"} /\ thread'[u].left = None
  <2> DEFINE f == CallbackThread(t, "idle")
  <2>1. \A u \in DOMAIN thread : /\ thread[u].pc \in {"idle", "off"} /\ thread[u].left = None
                                 /\ thread[u].stream \in {None, u}
                                 /\ {"pc", "stream", "left"} \subseteq DOMAIN thread[u]
    BY <1>0, <1>1, NoneCalled DEF CommonInv, PlainFits, StreamFits, PlaysOwnStream
  <2>2. /\ f = [u \in DOMAIN thread \union {t} |-> f[u]]
        /\ \A u \in DOMAIN thread \union {t} :
              /\ f[u].pc \in {"idle", "off"} /\ f[u].left = None /\ f[u].stream \in {None, u}
              /\ {"pc", "stream", "left"} \subseteq DOMAIN f[u]
    BY <2>1 DEF CallbackThread, None
  <2> HIDE DEF f
  <2>3. pc \in {"idle", "off"} /\ thread' = [f EXCEPT ![old].pc = pc]
    BY <1>1, <1>3 DEF f
  <2> HIDE DEF pc, old
  <2>4. thread' = [u \in DOMAIN thread \union {t} |->
                     IF u = old THEN [f[u] EXCEPT !.pc = pc] ELSE f[u]]
    BY <2>2, <2>3
  <2>5. \A u \in DOMAIN thread \union {t} :
          LET g == [f[u] EXCEPT !.pc = pc]
          IN  /\ g.pc = pc /\ g.left = f[u].left /\ g.stream = f[u].stream
              /\ DOMAIN g = DOMAIN f[u]
    BY <2>2
  <2> QED  BY <2>2, <2>3, <2>4, <2>5
<1>7. \A q \in DOMAIN req : req'[q].losses = req[q].losses
  <2> HIDE DEF r
  <2>1. OnlySetup(r) /\ req'[r].losses = req[r].losses
    BY <1>0, <1>1, <1>2, <1>3, SetupGivenToken
  <2> QED  BY <2>1 DEF OnlySetup
<1>8. /\ CallRecord(k) /\ k.pc = "resync" /\ k.op = "setup" /\ k.token = call[c].token
      /\ k.req = r /\ k.lost = call[c].lost
  <2>1. CallRecord(call[c]) /\ call[c].op = "setup"
    BY <1>0, <1>2
  <2> QED  BY <2>1, CallPc
<1>9. call' = [call EXCEPT ![c] = k]
  BY <1>1 DEF Goto
<1> HIDE DEF k
<1>10. CallFits(k, req', next')
  <2>1. next' = next /\ DOMAIN req' = DOMAIN req
    BY <1>1
  <2>2. call[c].lost # None => req[call[c].lost].losses > 0
    BY <1>0, <1>2 DEF CallFits
  <2>3. /\ call[c].token \in 0..next /\ call[c].lost \in DOMAIN req \union {None}
        /\ r \in DOMAIN req /\ r # None
    BY <1>0, <1>2 DEF CallFits
  <2> QED  BY <1>2, <1>7, <1>8, <2>1, <2>2, <2>3 DEF CallFits, CallRecord, Tells, Behind
<1>11. Grants(c, t, k)
  <2> HIDE DEF CallFits
  <2>1. next' = next /\ t <= next' /\ k.pc \notin Behind \union {"hold"}
    BY <1>1, <1>4, <1>8 DEF Behind
  <2> QED  BY <1>1, <1>2, <1>3, <1>4, <1>5, <1>6, <1>8, <1>9, <1>10, <2>1 DEF Grants
<1>12. /\ OnlySetup(r) /\ req'[r].answers = req[r].answers
       /\ call'[c] = k /\ \A d \in Callers \ {c} : call'[d] = call[d]
  <2> HIDE DEF Grants
  <2> QED  BY <1>0, <1>11, GrantsRecords
<1>13. CommonInv' /\ (LossesReported => LossesReported')
  <2> HIDE DEF Grants
  <2> QED  BY <1>0, <1>1, <1>11, GrantsCommon, GrantsLosses
<1>14. DriverFits'
  BY <1>1, <1>4, <1>6 DEF DriverFits, None
<1>15. HoldFits'
  BY <1>4, <1>8, <1>12 DEF HoldFits
<1>16. PlacesFit'
  <2>1. /\ DOMAIN req' = DOMAIN req /\ \A q \in DOMAIN req : req'[q].answers = req[q].answers
        /\ \A d \in Callers : call'[d].req \in {None, call[d].req}
        /\ \A d \in Callers : Cancels(d)' => call'[d] = call[d]
    BY <1>8, <1>12 DEF OnlySetup, Cancels
  <2> QED  BY <1>0, <1>1, <1>6, <2>1, PlacesAsTheyWere
<1>17. ~overlap' => AsioInTurn'
  <2>1. SUFFICES ASSUME OneCaller PROVE AsioInTurn'
    BY <1>1 DEF AsioInv, AsioInTurn
  <2>2. \A d \in Callers \ {c} : Idle(d) /\ call'[d] = call[d]
    BY <1>1, <1>12, <2>1 DEF OneCaller, Idle
  <2>3. dev' = current' /\ call'[c].pc = "resync" /\ lostCb' = call'[c].req
    BY <1>1, <1>8, <1>12
  <2> QED  BY <2>2, <2>3 DEF AsioInTurn, OneCaller, Idle
<1> QED  BY <1>1, <1>13, <1>14, <1>15, <1>16, <1>17 DEF AsioInv

\* The owner, or nobody, gives up the output; the call goes on to stop the driver.
LEMMA AsioTornDown ==
    ASSUME AsioInv, NEW s \in Sessions, NEW t, AsioTeardown(s, t)
    PROVE  AsioInv'
<1> DEFINE yes == TRUE
<1> HIDE DEF yes
<1> DEFINE p == [NoCall EXCEPT !.op = "teardown"]
           k == [p EXCEPT !.pc = "stop", !.join = yes]
<1>0. /\ CommonInv /\ DriverFits /\ HoldFits /\ PlacesFit /\ s \in Callers /\ next \in Nat
      /\ req \in Seq(SetupRecord) /\ call = [d \in Callers |-> call[d]]
  BY DEF AsioInv, CommonInv, PlainFits, CallsFit, Callers
<1>1. /\ Unlocked /\ Idle(s) /\ current = t /\ req' = TornDown(t)
      /\ current' = Invalid /\ lostCb' = None /\ state' = "IDLE" /\ stream' = None
      /\ UNCHANGED <<next, tid, remaining, setupCb, thread, dev>> /\ NowOverlap
  BY DEF AsioTeardown, GivesUp, Vacate, DropStream, deviceVars
<1>2. call' = [call EXCEPT ![s] = k]
  BY DEF AsioTeardown, yes
<1>3. /\ CallRecord(p) /\ p.op = "teardown" /\ p.token = None /\ p.req = None /\ p.lost = None
      /\ p.target = None
  <2>1. /\ CallRecord(NoCall) /\ NoCall.token = None /\ NoCall.req = None /\ NoCall.lost = None
        /\ NoCall.target = None
    BY DEF CallRecord, NoCall
  <2> HIDE DEF NoCall
  <2> QED  BY <2>1, CallOp
<1> HIDE DEF p
<1>4. k = [p EXCEPT !.join = yes, !.pc = "stop"]
  BY <1>3 DEF CallRecord
<1> HIDE DEF k
<1>5. k = [op |-> p.op, pc |-> "stop", token |-> p.token, req |-> p.req, join |-> yes,
           target |-> p.target, lost |-> p.lost]
  BY <1>3, <1>4, CallWith, ZenonT(60)
<1>6. /\ CallRecord(k) /\ k.op = "teardown" /\ k.pc = "stop" /\ k.token = None /\ k.req = None
      /\ k.lost = None
  BY <1>3, <1>5 DEF CallRecord
<1>7. CallFits(k, req', next')
  BY <1>0, <1>1, <1>6 DEF CallFits, CallRecord, None
<1>8. ThreadsKept
  BY <1>0, <1>1, ThreadsAsTheyWere
<1>9. Yields(s, t)
  <2> HIDE DEF CallFits
  <2> QED  BY <1>1, <1>2, <1>6, <1>7, <1>8 DEF Yields, Idle
<1>10. CommonInv' /\ (LossesReported => LossesReported')
  <2> HIDE DEF Yields
  <2> QED  BY <1>0, <1>9, YieldsCommon, YieldsLosses
<1>11. call'[s] = k /\ \A d \in Callers \ {s} : call'[d] = call[d]
  BY <1>0, <1>2
<1>12. DOMAIN req' = DOMAIN req /\ \A q \in DOMAIN req : req'[q].answers = req[q].answers
  BY <1>0, <1>1, SetupsTornDown
<1>13. DriverFits'
  BY <1>0, <1>1, <1>12 DEF DriverFits
<1>14. HoldFits'
  BY <1>1, <1>6, <1>11 DEF HoldFits, Unlocked
<1>15. PlacesFit'
  <2>1. /\ \A d \in Callers : call'[d].req \in {None, call[d].req}
        /\ \A d \in Callers : Cancels(d)' => call'[d] = call[d]
    BY <1>6, <1>11 DEF Cancels
  <2> QED  BY <1>0, <1>1, <1>12, <2>1, PlacesAsTheyWere
<1>16. ~overlap' => LossesReported /\ AsioInTurn'
  <2>1. SUFFICES ASSUME ~overlap' PROVE LossesReported /\ AsioInTurn'
    OBVIOUS
  <2>2. ~overlap /\ \A d \in Callers : Idle(d)
    BY <1>1, <2>1 DEF NowOverlap
  <2>3. LossesReported
    BY <2>2 DEF AsioInv
  <2> QED  BY <1>0, <1>1, <1>2, <1>6, <2>2, <2>3, AsioBegins
<1> QED  BY <1>10, <1>13, <1>14, <1>15, <1>16 DEF AsioInv

\* A step of the driver's callback
LEMMA AsioBacks ==
    ASSUME AsioInv, ThreadsKept, SetupsKept, remaining' \in Nat, setupCb' \in {None, setupCb},
           UNCHANGED <<current, next, state, lostCb, stream, tid, call, dev, overlap>>,
           DriverFits', PlacesFit'
    PROVE  AsioInv'
<1>1. CommonInv /\ setupCb \in DOMAIN req \union {None}
  BY DEF AsioInv, CommonInv, PlainFits
<1>2. Silent
  BY <1>1, ThreadsAreSilent
<1>3. \A d \in Callers : call'[d].pc = "hold" => call'[d] = call[d]
  OBVIOUS
<1>4. ~overlap => AsioInTurn'
  <2>1. SUFFICES ASSUME AsioInTurn PROVE AsioInTurn'
    BY DEF AsioInv
  <2>2. /\ \A d \in Callers :
              /\ Idle(d) => Idle(d)'
              /\ call'[d].pc \in {"idle", "resync", "callback"}
                    \/ call[d].pc \notin {"idle", "resync", "callback"}
              /\ call'[d].pc \in {"resync", "callback"} =>
                    /\ call[d].pc \in {"resync", "callback"} /\ call'[d].req = call[d].req
                    /\ UNCHANGED lostCb
        /\ \A d \in Callers : Idle(d)' => Idle(d) \/ call[d].pc \notin {"resync", "callback"}
    BY DEF Idle
  <2> QED  BY <2>1, <2>2, AsioGoesOn
<1> QED  BY <1>2, <1>3, <1>4, AsioFrame

\* The driver calls back, and the callback plays.
LEMMA AsioPlays ==
    ASSUME AsioInv, NEW t \in DOMAIN thread, AsioCalled(t) \/ AsioPeriod(t) \/ AsioPlay(t)
    PROVE  AsioInv'
<1>0. /\ CommonInv /\ DriverFits /\ PlacesFit /\ remaining \in Nat /\ None \notin DOMAIN thread
      /\ {"pc", "stream", "left"} \subseteq DOMAIN thread[t]
  BY DEF AsioInv, CommonInv, PlainFits, None
<1>1. /\ UNCHANGED <<current, next, state, lostCb, stream, tid, call, dev, overlap, setupCb, req>>
      /\ remaining' \in Nat
  BY <1>0 DEF AsioCalled, AsioPeriod, AsioPlay, owned, platform, deviceVars, history
<1>2. t = dev /\ tid = t /\ thread[t].pc \in {"idle", "called", "play"}
  BY <1>0 DEF AsioCalled, AsioPeriod, AsioPlay, DriverFits
<1>3. /\ ThreadsKept /\ thread'[t].pc \in {"called", "play", "take", "idle"}
      /\ thread'[t].left = thread[t].left
      /\ \A u \in DOMAIN thread \ {t} : thread'[u] = thread[u]
  <2>1. ASSUME NEW pc \in {"called", "take", "idle"}, ThreadGoes(t, pc)
        PROVE  /\ ThreadsKept /\ thread'[t].pc = pc /\ thread'[t].left = thread[t].left
               /\ \A u \in DOMAIN thread \ {t} : thread'[u] = thread[u]
    BY <1>0, <2>1, ThreadGoesOn, ThreadGoesKept
  <2>2. CASE AsioPeriod(t)
    <3>1. stream \in {None, t}
      BY <1>0, <1>2 DEF DriverFits
    <3>2. PICK u \in {None, t} : thread' = [thread EXCEPT ![t].pc = "play", ![t].stream = u]
      BY <2>2, <3>1 DEF AsioPeriod
    <3> QED  BY <1>0, <3>2, StreamPlayed
  <2>3. CASE AsioCalled(t)
    BY <2>1, <2>3 DEF AsioCalled
  <2>4. CASE AsioPlay(t)
    BY <2>1, <2>4 DEF AsioPlay
  <2> QED  BY <2>2, <2>3, <2>4
<1>4. SetupsKept
  BY <1>0, <1>1, NothingTold
<1>5. DriverFits'
  BY <1>0, <1>1, <1>2, <1>3 DEF DriverFits, ThreadsKept
<1>6. PlacesFit'
  <2>1. /\ \A u \in DOMAIN thread' :
              \/ thread'[u].left = None
              \/ u \in DOMAIN thread /\ thread'[u].left = thread[u].left
        /\ DOMAIN req' = DOMAIN req /\ \A r \in DOMAIN req : req'[r].answers = req[r].answers
        /\ \A d \in Callers : call'[d].req \in {None, call[d].req}
        /\ \A d \in Callers : Cancels(d)' => call'[d] = call[d]
    BY <1>1, <1>3 DEF ThreadsKept
  <2> QED  BY <1>0, <1>1, <2>1, PlacesAsTheyWere
<1> QED  BY <1>1, <1>3, <1>4, <1>5, <1>6, AsioBacks

\* The setup callbacks stay where they are, but for that of r.
LEMMA OnePlaced ==
    ASSUME CommonInv, DriverFits, PlacesFit, NEW r, UNCHANGED call, DOMAIN req' = DOMAIN req,
           \A q \in DOMAIN req \ {r} : req'[q].answers = req[q].answers,
           setupCb' \in {None, setupCb},
           \A t \in DOMAIN thread' :
              \/ thread'[t].left \in {None, r}
              \/ t \in DOMAIN thread /\ thread'[t].left = thread[t].left,
           PlacedOnce(r)'
    PROVE  PlacesFit'
<1> DEFINE M == {r}
<1>1. /\ DOMAIN req \subseteq DOMAIN req' /\ DOMAIN req' \ DOMAIN req \subseteq M
      /\ \A d \in Callers : call'[d].req \in {None, call[d].req} \union M
      /\ setupCb' \in {None, setupCb} \union M
      /\ \A q \in DOMAIN req' \intersect M : PlacedOnce(q)'
      /\ \A t \in DOMAIN thread' :
            \/ thread'[t].left \in {None} \union M
            \/ t \in DOMAIN thread /\ thread'[t].left = thread[t].left
      /\ \A q \in DOMAIN req \ M : req'[q].answers = req[q].answers
  OBVIOUS
<1>2. /\ \A d \in Callers : Cancels(d)' =>
            \/ call'[d].lost \in M
            \/ Cancels(d) /\ call'[d].lost = call[d].lost
      /\ \A d \in Callers : Cancels(d)' => call'[d].target \in Int
      /\ \A d, e \in Callers :
            Cancels(d)' /\ Cancels(e)' /\ call'[d].lost = call'[e].lost
               => d = e \/ call'[d].lost \notin M
  BY DEF PlacesFit, Cancels
<1> HIDE DEF M
<1> QED  BY <1>1, <1>2, PlacesStay

\* The callback takes the setup callback of the plugin, if there is one.
LEMMA AsioTakes ==
    ASSUME AsioInv, NEW t \in DOMAIN thread, AsioTake(t)
    PROVE  AsioInv'
<1> DEFINE pc == IF setupCb = None THEN "idle" ELSE "answer"
           p == [thread[t] EXCEPT !.pc = pc]
           k == [p EXCEPT !.left = setupCb]
<1>0. /\ CommonInv /\ DriverFits /\ PlacesFit /\ remaining \in Nat /\ None \notin DOMAIN thread
      /\ setupCb \in DOMAIN req \union {None}
      /\ \A u \in DOMAIN thread : /\ {"pc", "stream", "left"} \subseteq DOMAIN thread[u]
                                  /\ thread[u].stream \in {None, u}
  BY DEF AsioInv, CommonInv, PlainFits, StreamFits, PlaysOwnStream, None
<1>1. /\ UNCHANGED <<current, next, state, lostCb, stream, tid, call, dev, overlap, req, remaining>>
      /\ setupCb' = None /\ thread[t].pc = "take"
      /\ thread' = [thread EXCEPT ![t] = k]
  BY DEF AsioTake, TakeCb, owned, platform, deviceVars, history
<1>2. t = dev /\ thread[t].left = None
  BY <1>0, <1>1 DEF DriverFits
<1>3. p.pc = pc /\ {"pc", "stream", "left"} \subseteq DOMAIN p /\ p.stream = thread[t].stream
  BY <1>0
<1>4. pc \in {"idle", "answer"} /\ (pc = "answer" <=> setupCb # None)
  OBVIOUS
<1> HIDE DEF pc, p
<1>5. /\ k.pc = pc /\ k.left = setupCb /\ {"pc", "stream", "left"} \subseteq DOMAIN k
      /\ k.stream = thread[t].stream
  BY <1>3
<1> HIDE DEF k
<1>6. /\ DOMAIN thread' = DOMAIN thread /\ thread'[t] = k
      /\ \A u \in DOMAIN thread \ {t} : thread'[u] = thread[u]
  BY <1>1
<1>7. ThreadsKept
  BY <1>0, <1>5, <1>6 DEF ThreadsKept
<1>8. SetupsKept
  BY <1>0, <1>1, NothingTold
<1>9. DriverFits'
  BY <1>0, <1>1, <1>2, <1>4, <1>5, <1>6 DEF DriverFits
<1>10. PlacesFit'
  <2>1. CASE setupCb = None
    <3>1. /\ UNCHANGED setupCb
          /\ \A u \in DOMAIN thread' :
                \/ thread'[u].left = None
                \/ u \in DOMAIN thread /\ thread'[u].left = thread[u].left
          /\ DOMAIN req' = DOMAIN req /\ \A r \in DOMAIN req : req'[r].answers = req[r].answers
          /\ \A d \in Callers : call'[d].req \in {None, call[d].req}
          /\ \A d \in Callers : Cancels(d)' => call'[d] = call[d]
      BY <1>1, <1>5, <1>6, <2>1
    <3> QED  BY <1>0, <3>1, PlacesAsTheyWere
  <2>2. CASE setupCb # None
    <3>1. PICK r \in DOMAIN req : r = setupCb /\ r # None
      BY <1>0, <2>2
    <3>2. req[r].answers = 0 /\ ~InCall(r) /\ ~InCancel(r)
      BY <1>0, <3>1 DEF PlacesFit, PlacedOnce, InCb
    <3>3. ~InCall(r)' /\ ~InCancel(r)' /\ ~InCb(r)'
      BY <1>1, <3>1, <3>2 DEF InCall, InCancel, InCb, Cancels
    <3>4. req'[r].answers = 0
      BY <1>1, <3>2
    <3>5. PlacedOnce(r)'
      BY <3>3, <3>4 DEF PlacedOnce
    <3>6. /\ \A u \in DOMAIN thread' :
                \/ thread'[u].left \in {None, r}
                \/ u \in DOMAIN thread /\ thread'[u].left = thread[u].left
          /\ DOMAIN req' = DOMAIN req /\ \A q \in DOMAIN req \ {r} : req'[q].answers = req[q].answers
          /\ setupCb' \in {None, setupCb} /\ UNCHANGED call
      BY <1>1, <1>5, <1>6, <3>1
    <3> QED  BY <1>0, <3>5, <3>6, OnePlaced
  <2> QED  BY <2>1, <2>2
<1> QED  BY <1>0, <1>1, <1>7, <1>8, <1>9, <1>10, AsioBacks

\* It is called.
LEMMA AsioAnswers ==
    ASSUME AsioInv, NEW t \in DOMAIN thread, AsioAnswer(t)
    PROVE  AsioInv'
<1> DEFINE p == [thread[t] EXCEPT !.pc = "idle"]
           k == [p EXCEPT !.left = None]
<1>0. /\ CommonInv /\ DriverFits /\ PlacesFit /\ remaining \in Nat /\ None \notin DOMAIN thread
      /\ setupCb \in DOMAIN req \union {None} /\ req \in Seq(SetupRecord) /\ None \notin DOMAIN req
      /\ \A u \in DOMAIN thread : /\ {"pc", "stream", "left"} \subseteq DOMAIN thread[u]
                                  /\ thread[u].stream \in {None, u}
  BY SetupsTyped DEF AsioInv, CommonInv, PlainFits, StreamFits, PlaysOwnStream, None
<1>1. /\ UNCHANGED <<current, next, state, lostCb, stream, tid, call, dev, overlap, setupCb,
                     remaining>>
      /\ req' = Answered(thread[t].left, current) /\ thread[t].pc = "answer"
      /\ thread' = [thread EXCEPT ![t] = k]
  BY DEF AsioAnswer, owned, platform, deviceVars, history, None
<1>2. t = dev /\ thread[t].left # None
  BY <1>0, <1>1 DEF DriverFits
<1>3. PICK r \in DOMAIN req : r = thread[t].left
  BY <1>0, <1>2 DEF DriverFits
<1>4. PICK g \in Int : g = current
  BY <1>0 DEF CommonInv, PlainFits
<1>5. p.pc = "idle" /\ {"pc", "stream", "left"} \subseteq DOMAIN p /\ p.stream = thread[t].stream
  BY <1>0
<1> HIDE DEF p
<1>6. /\ k.pc = "idle" /\ k.left = None /\ {"pc", "stream", "left"} \subseteq DOMAIN k
      /\ k.stream = thread[t].stream
  BY <1>5
<1> HIDE DEF k
<1>7. /\ DOMAIN thread' = DOMAIN thread /\ thread'[t] = k
      /\ \A u \in DOMAIN thread \ {t} : thread'[u] = thread[u]
  BY <1>1
<1>8. ThreadsKept
  BY <1>0, <1>6, <1>7 DEF ThreadsKept
<1>9. OnlySetup(r) /\ req'[r].answers = req[r].answers + 1 /\ SetupsKept
  BY <1>0, <1>1, <1>3, <1>4, SetupAnswered, AnswerKept
<1>10. DOMAIN req' = DOMAIN req /\ \A q \in DOMAIN req \ {r} : req'[q].answers = req[q].answers
  BY <1>9 DEF OnlySetup
<1>11. DriverFits'
  BY <1>0, <1>1, <1>2, <1>6, <1>7, <1>10 DEF DriverFits
<1>12. PlacesFit'
  <2>1. InThread(r) /\ PlacedOnce(r)
    BY <1>0, <1>3 DEF PlacesFit, InThread
  <2>2. req[r].answers = 0 /\ ~InCall(r) /\ ~InCb(r) /\ ~InCancel(r)
    BY <2>1 DEF PlacedOnce
  <2>3. ~InCall(r)' /\ ~InCb(r)' /\ ~InCancel(r)'
    BY <1>1, <2>2 DEF InCall, InCb, InCancel, Cancels
  <2>4. ~InThread(r)'
    <3>1. \A u \in DOMAIN thread \ {t} : thread[u].left = None
      BY <1>0, <1>2 DEF DriverFits
    <3>2. r # None
      BY <1>0
    <3> QED  BY <1>6, <1>7, <3>1, <3>2 DEF InThread
  <2>5. PlacedOnce(r)'
    BY <1>9, <2>2, <2>3, <2>4, NowherePlaced
  <2>6. \A u \in DOMAIN thread' :
           \/ thread'[u].left \in {None, r}
           \/ u \in DOMAIN thread /\ thread'[u].left = thread[u].left
    BY <1>6, <1>7
  <2> QED  BY <1>0, <1>1, <1>10, <2>5, <2>6, OnePlaced
<1> QED  BY <1>0, <1>1, <1>8, <1>9, <1>11, <1>12, AsioBacks

\* ASIO's first state
LEMMA AsioInit ==
    ASSUME PlatformInit
    PROVE  AsioInv
<1>1. CommonInv /\ LossesReported
  BY CommonInit DEF PlatformInit
<1>2. DriverFits /\ HoldFits /\ PlacesFit /\ AsioInTurn
  BY DEF PlatformInit, Init, DriverFits, HoldFits, PlacesFit, Cancels, AsioInTurn, OneCaller, Idle,
         NoCall
<1> QED  BY <1>1, <1>2 DEF AsioInv

\* Each of its steps
LEMMA AsioStep ==
    ASSUME AsioInv, AsioNext
    PROVE  AsioInv'
<1>0. Sessions \subseteq Callers /\ Others \subseteq Callers /\ CommonInv
  BY DEF AsioInv, Callers
<1>1. ASSUME NEW s \in Sessions, AsioSession(s)
      PROVE  AsioInv'
  <2>1. CASE AsioSetupEnter(s)
    BY <1>0, <2>1, AsioEnters
  <2>2. CASE AsioSetupRefused(s)
    BY <1>0, <2>2, AsioCalls
  <2>3. CASE AsioSetupHolds(s) \/ AsioSetupBroken(s)
    BY <1>0, <2>3, AsioRenews
  <2>4. CASE AsioSetupGranted(s)
    BY <1>0, <2>4, AsioGranted
  <2>5. CASE AsioSetupEnd(s)
    BY <1>0, <2>5, AsioCalls, AsioReturns DEF AsioSetupEnd
  <2>6. ASSUME NEW t, AsioTeardown(s, t) \/ AsioStart(s, t) \/ AsioStop(s, t)
        PROVE  AsioInv'
    BY <1>0, <2>6, AsioTornDown, AsioCalls
  <2> QED  BY <1>1, <2>1, <2>2, <2>3, <2>4, <2>5, <2>6 DEF AsioSession
<1>2. ASSUME NEW o \in Others, AsioForceEnter(o) \/ AsioForceRetry(o) \/ AsioForceReturn(o)
      PROVE  AsioInv'
  <2>1. o \in Callers
    BY <1>0
  <2>2. CASE AsioForceReturn(o)
    BY <2>1, <2>2, AsioReturns
  <2>3. CASE AsioForceEnter(o) \/ AsioForceRetry(o)
    BY <2>1, <2>3, AsioForces DEF AsioForceEnter, AsioForceRetry
  <2> QED  BY <1>2, <2>2, <2>3
<1>3. ASSUME NEW c \in Callers,
             AsioCancel(c) \/ AsioTellLost(c) \/ AsioStopBegin(c) \/ AsioStopEnd(c)
      PROVE  AsioInv'
  BY <1>3, AsioCancels, AsioCalls, AsioStops
<1>4. ASSUME NEW t \in DOMAIN thread, AsioCallback(t)
      PROVE  AsioInv'
  BY <1>4, AsioPlays, AsioTakes, AsioAnswers DEF AsioCallback
<1> QED  BY <1>1, <1>2, <1>3, <1>4 DEF AsioNext

\* What it keeps
LEMMA AsioFollows ==
    ASSUME AsioInv
    PROVE  /\ ~overlap => LossesReported
           /\ DriverIsTheOwners /\ AtMostOneAnswer /\ PlaysOwnStream
<1>1. DriverIsTheOwners
  BY DEF AsioInv, AsioInTurn, DriverIsTheOwners
<1>2. AtMostOneAnswer
  BY DEF AsioInv, PlacesFit, PlacedOnce, AtMostOneAnswer
<1> QED  BY <1>1, <1>2 DEF AsioInv, CommonInv, StreamFits

-----------------------------------------------------------------------------
(***************************************************************************)
(* The theorems: whichever platform was chosen                             *)
(***************************************************************************)

\* Each platform keeps its own invariant.
PlatformsInv ==
    /\ which \in Platforms
    /\ which = "alsa" => AlsaInv
    /\ which = "wasapi" => WasapiInv /\ ReportInv
    /\ which = "coreaudio" => CoreInv
    /\ which = "asio" => AsioInv
    /\ which = "capture" => CaptureInv

\* A step of somebody else leaves what all platforms keep as it is.
LEMMA CommonStutters ==
    ASSUME CommonInv, UNCHANGED allVars
    PROVE  /\ CommonInv' /\ (LossesReported => LossesReported') /\ (OneCaller => OneCaller')
           /\ (InTurn => InTurn')
<1>1. /\ UNCHANGED <<current, next, state, lostCb, stream, remaining, setupCb, tid>>
      /\ UNCHANGED <<thread, call, req, fault, dev, open, closing, hwCall, overlap, broken>>
  BY DEF allVars, vars, owned, platform, deviceVars, history
<1>2. PlainFits' /\ CallsFit' /\ KicksBehind' /\ StreamFits'
  BY <1>1 DEF CommonInv, PlainFits, CallsFit, CallFits, KicksBehind, StreamFits, PlaysOwnStream
<1>3. (\A r \in DOMAIN req : SetupFits(req[r]))'
  BY <1>1 DEF CommonInv, SetupFits
<1>4. LossesReported => LossesReported'
  BY <1>1 DEF LossesReported, LossReported
<1>5. (OneCaller => OneCaller') /\ (InTurn => InTurn')
  BY <1>1 DEF InTurn, Turns, OneCaller, Idle, Live, Lives, Past, Joins
<1> QED  BY <1>2, <1>3, <1>4, <1>5 DEF CommonInv

\* The same for what each of them keeps
LEMMA PlatformsStutter ==
    ASSUME PlatformsInv, UNCHANGED <<which, allVars>>
    PROVE  PlatformsInv'
<1>1. /\ UNCHANGED <<current, next, state, lostCb, stream, remaining, setupCb, tid, which>>
      /\ UNCHANGED <<thread, call, req, fault, dev, open, closing, hwCall, overlap, broken>>
      /\ UNCHANGED allVars
  BY DEF allVars, vars, owned, platform, deviceVars, history
<1>2. CASE which = "alsa"
  <2>1. CommonInv' /\ LossesReported' /\ (InTurn => InTurn')
    BY <1>1, <1>2, CommonStutters DEF PlatformsInv, AlsaInv
  <2>2. PcmFits /\ PcmInTurn
    BY <1>2 DEF PlatformsInv, AlsaInv
  <2>3. PcmFits'
    BY <1>1, <2>2 DEF PcmFits, DeviceAccounted, Joins, SetsUp
  <2>4. PcmInTurn'
    BY <1>1, <2>1, <2>2 DEF PcmInTurn, Live, Lives, Past, ClosedInTime
  <2> QED  BY <1>1, <1>2, <2>1, <2>3, <2>4 DEF PlatformsInv, AlsaInv
<1>3. CASE which = "wasapi"
  <2>1. CommonInv' /\ (InTurn => InTurn')
    BY <1>1, <1>3, CommonStutters DEF PlatformsInv, WasapiInv
  <2>2. /\ AnswersDue /\ LossesFit /\ OwnerPlays /\ ClientsFit
        /\ \A t \in DOMAIN thread : ClientThread(t)
    BY <1>3 DEF PlatformsInv, WasapiInv
  <2>3. AnswersDue' /\ LossesFit'
    BY <1>1, <2>2 DEF AnswersDue, LossesFit, Told, Due
  <2>4. OwnerPlays' /\ ClientsFit'
    BY <1>1, <2>2 DEF OwnerPlays, ClientsFit, SetsUp, Live, Lives, Past
  <2>5. (\A t \in DOMAIN thread : ClientThread(t))'
    BY <1>1, <2>2 DEF ClientThread, ThreadRecord, Told
  <2>6. ReportInv
    BY <1>3 DEF PlatformsInv
  <2>7. TokensFit' /\ LossHeld' /\ (Turns(Resting) => Turns(Resting)')
    BY <1>1, <2>6 DEF ReportInv, TokensFit, LossHeld, Turns, OneCaller, Idle, Lives, Joins
  <2>8. WasapiLossesReported => WasapiLossesReported'
    BY <1>1 DEF WasapiLossesReported, WasapiReported, LossReported
  <2>9. ReportInv'
    BY <1>1, <2>6, <2>7, <2>8 DEF ReportInv
  <2> QED  BY <1>1, <1>3, <2>1, <2>3, <2>4, <2>5, <2>9 DEF PlatformsInv, WasapiInv
<1>4. CASE which = "coreaudio"
  <2>1. CommonInv' /\ LossesReported'
    BY <1>1, <1>4, CommonStutters DEF PlatformsInv, CoreInv
  <2>2. UnitFits /\ AnswerFits
    BY <1>4 DEF PlatformsInv, CoreInv
  <2>3. UnitFits' /\ AnswerFits'
    BY <1>1, <2>2 DEF UnitFits, UnitIsTheOwners, AnswerFits, AnsweredToOwner
  <2> QED  BY <1>1, <1>4, <2>1, <2>3 DEF PlatformsInv, CoreInv
<1>5. CASE which = "asio"
  <2>1. CommonInv' /\ (LossesReported => LossesReported') /\ (OneCaller => OneCaller')
    BY <1>1, <1>5, CommonStutters DEF PlatformsInv, AsioInv
  <2>2. DriverFits /\ HoldFits /\ PlacesFit /\ (~overlap => LossesReported /\ AsioInTurn)
    BY <1>5 DEF PlatformsInv, AsioInv
  <2>3. DriverFits' /\ HoldFits'
    BY <1>1, <2>2 DEF DriverFits, HoldFits
  <2>4. PlacesFit'
    BY <1>1, <2>2 DEF PlacesFit, PlacedOnce, InCall, InCb, InCancel, InThread, Cancels
  <2>5. AsioInTurn => AsioInTurn'
    BY <1>1, <2>1 DEF AsioInTurn, Idle
  <2> QED  BY <1>1, <1>5, <2>1, <2>2, <2>3, <2>4, <2>5 DEF PlatformsInv, AsioInv
<1>6. CASE which = "capture"
  <2>1. CommonInv' /\ LossesReported' /\ (InTurn => InTurn')
    BY <1>1, <1>6, CommonStutters DEF PlatformsInv, CaptureInv
  <2>2. FileFits /\ (~overlap => InTurn)
    BY <1>6 DEF PlatformsInv, CaptureInv
  <2>3. FileFits'
    BY <1>1, <2>2 DEF FileFits
  <2> QED  BY <1>1, <1>6, <2>1, <2>2, <2>3 DEF PlatformsInv, CaptureInv
<1>7. which \in {"alsa", "wasapi", "coreaudio", "asio", "capture"}
  BY PlatformsAssumption DEF PlatformsInv
<1> QED  BY <1>2, <1>3, <1>4, <1>5, <1>6, <1>7

\* The platform that was chosen at first keeps its invariant.
LEMMA PlatformsKeep == PlatformsSpec => []PlatformsInv
<1>1. PlatformsInit => PlatformsInv
  BY AlsaInit, WasapiInit, ReportInit, CoreInit, AsioInit, CaptureInit
     DEF PlatformsInit, PlatformsInv
<1>2. PlatformsInv /\ [PlatformsNext]_<<which, allVars>> => PlatformsInv'
  <2>1. ASSUME PlatformsInv, PlatformsNext PROVE PlatformsInv'
    BY <2>1, AlsaStep, WasapiStep, ReportStep, CoreStep, AsioStep, CaptureStep
       DEF PlatformsNext, PlatformsInv
  <2> QED  BY <2>1, PlatformsStutter
<1> QED  BY <1>1, <1>2, PTL DEF PlatformsSpec

\* Who was granted the output never loses it in silence: it gave the output up, or was told of the
\* loss, or is about to be told (the handover of setup and force_teardown); on ASIO and WASAPI as
\* long as calls do not overlap, and on WASAPI unless the thread stores the loss callback only
\* when the output is taken already (wasapi.cpp:549-552).
THEOREM LossesTold == PlatformsSpec => []NoSilentLoss
<1>1. ASSUME PlatformsInv
      PROVE  which = "wasapi" => OwnersKnow /\ (~overlap => WasapiLossesReported)
  BY <1>1, WasapiFollows DEF PlatformsInv, ReportInv
<1>2. PlatformsInv => NoSilentLoss
  BY <1>1, PlatformsAssumption, AlsaFollows, CoreFollows, AsioFollows, CaptureFollows
     DEF PlatformsInv, NoSilentLoss
<1> QED  BY <1>2, PlatformsKeep, PTL

\* The device that the plugin holds is that of the owner, neither kept from a former owner nor
\* closed under the present one; WASAPI, ASIO and the threads of ALSA and of the capture file
\* promise it as long as calls do not overlap.
THEOREM OwnersHaveTheDevice == PlatformsSpec => []DeviceIsTheOwners
<1>1. PlatformsInv => DeviceIsTheOwners
  BY PlatformsAssumption, AlsaFollows, WasapiFollows, CoreFollows, AsioFollows, CaptureFollows
     DEF PlatformsInv, DeviceIsTheOwners
<1> QED  BY <1>1, PlatformsKeep, PTL

\* On every platform, the stream that a thread or a callback has is one that was started with its
\* own token, and a new owner begins with silence.
THEOREM OwnStreamsPlay == PlatformsSpec => []PlaysOwnStream
<1>1. PlatformsInv => PlaysOwnStream
  BY PlatformsAssumption, AlsaFollows, WasapiFollows, CoreFollows, AsioFollows, CaptureFollows
     DEF PlatformsInv
<1> QED  BY <1>1, PlatformsKeep, PTL

\* WASAPI, CoreAudio and ASIO answer a setup once at most, whatever calls and callbacks race;
\* CoreAudio answers it with the token it was granted.
THEOREM AnsweredForGood == PlatformsSpec => []AnswersAreFinal
<1>1. PlatformsInv => AnswersAreFinal
  BY PlatformsAssumption, WasapiFollows, CoreFollows, AsioFollows
     DEF PlatformsInv, AnswersAreFinal
<1> QED  BY <1>1, PlatformsKeep, PTL

=============================================================================
