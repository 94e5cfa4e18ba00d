------------------------- MODULE RAATDiscoveryProofs -------------------------
(***************************************************************************)
(* What holds of discovery for any numbers of addresses, interfaces,       *)
(* starts, and operations.                                                 *)
(***************************************************************************)
EXTENDS RAATDiscovery, FiniteSetTheorems, TLAPS

\* What an operation keeps: it waits for its sends or, when they are done, for its timer.
OpOK(p) ==
    /\ p \in Operation
    /\ IF p.life = "listed"
       THEN /\ p.active = p.reqs /\ p.timer = p.armed
            /\ p.reqs > 0 \/ p.armed
            /\ p.armed => p.pc = "slow"
            /\ p.pc = "slow" => p.reqs = 0
       ELSE p.reqs = 0 /\ ~p.armed

Types ==
    /\ running \in BOOLEAN /\ seq \in 0..MaxSeq
    /\ mcast \in Nat /\ uni \in 0..MaxSeq
    /\ sock \in [Seqs -> {"unused", "open", "closing", "freed"}]

\* The sockets in use are those of the present start, and one more is left for its stop.
SocketsOK == running => uni = seq /\ seq \in Seqs /\ seq < MaxSeq /\ sock[seq] = "open"

\* The operations are numbered, and those of the present start are there while it is running.
OpsOK ==
    /\ op = [o \in DOMAIN op |-> op[o]]
    /\ DOMAIN op = 1..Cardinality(DOMAIN op) /\ Cardinality(DOMAIN op) \in Nat
    /\ \A o \in DOMAIN op :
          OpOK(op[o]) /\ op[o].seq <= seq /\ (op[o].seq = seq => running)

FaultOK == fault # "op" /\ (fault = "null" => failed)

IInv == Types /\ SocketsOK /\ OpsOK /\ FaultOK

-----------------------------------------------------------------------------
(***************************************************************************)
(* An operation                                                            *)
(***************************************************************************)

\* A record with one component replaced, as broadcast_op_step and its callbacks replace them.
LEMMA SentIsOperation ==
    ASSUME NEW p \in Operation, p.reqs > 0, p.active = p.reqs
    PROVE  LET q == [p EXCEPT !.reqs = @ - 1, !.active = @ - 1]
           IN  /\ q \in Operation
               /\ q.reqs = p.reqs - 1 /\ q.active = p.active - 1
               /\ q.pc = p.pc /\ q.timer = p.timer /\ q.armed = p.armed
               /\ q.life = p.life /\ q.seq = p.seq /\ q.fast = p.fast
<1> DEFINE r == [p EXCEPT !.reqs = @ - 1]
           q == [p EXCEPT !.reqs = @ - 1, !.active = @ - 1]
<1>1. r \in Operation /\ r.reqs = p.reqs - 1 /\ r.active = p.active
      /\ r.pc = p.pc /\ r.timer = p.timer /\ r.armed = p.armed
      /\ r.life = p.life /\ r.seq = p.seq /\ r.fast = p.fast
  BY DEF Operation
<1>2. q = [r EXCEPT !.active = @ - 1]
  BY DEF Operation
<1> HIDE DEF r
<1> QED BY <1>1, <1>2 DEF Operation

\* The timer's callback disarms the operation.
LEMMA ExpiredIsOperation ==
    ASSUME NEW p \in Operation
    PROVE  LET q == Expired(p)
           IN  /\ q \in Operation
               /\ q.timer = FALSE /\ q.armed = FALSE
               /\ q.pc = p.pc /\ q.life = p.life /\ q.seq = p.seq
               /\ q.reqs = p.reqs /\ q.active = p.active
BY DEF Operation, Expired

\* One that is at rest, without a send or a timer to come, has one of them after its step or
\* is destroyed.
LEMMA StepKeepsOpOK ==
    ASSUME NEW p \in Operation, mcast \in Nat, FastIps \in Nat,
           p.life = "listed", p.reqs = 0, p.active = 0, p.timer = FALSE, p.armed = FALSE
    PROVE  OpOK(OpStep(p)) /\ OpStep(p).seq = p.seq
<1>1. CASE Stale(p)
  <2>1. OpStep(p) = Destroyed(p)
    BY <1>1 DEF OpStep, Deferred
  <2>2. Destroyed(p) \in Operation /\ Destroyed(p).life = "closing" /\ Destroyed(p).reqs = 0
        /\ Destroyed(p).armed = FALSE /\ Destroyed(p).seq = p.seq
    BY DEF Destroyed, Operation
  <2> QED BY <2>1, <2>2 DEF OpOK
<1>2. CASE ~Stale(p) /\ p.pc = "slow"
  <2>1. OpStep(p) = Destroyed(p)
    BY <1>2 DEF OpStep
  <2>2. Destroyed(p) \in Operation /\ Destroyed(p).life = "closing" /\ Destroyed(p).reqs = 0
        /\ Destroyed(p).armed = FALSE /\ Destroyed(p).seq = p.seq
    BY DEF Destroyed, Operation
  <2> QED BY <2>1, <2>2 DEF OpOK
<1>3. CASE ~Stale(p) /\ p.pc # "slow" /\ p.fast > 0
  <2>1. OpStep(p) = SendAll(p)
    BY <1>3 DEF OpStep
  <2> DEFINE q == [p EXCEPT !.fast = @ - 1]
             r == [q EXCEPT !.active = @ + mcast + 1]
  <2>2. q \in Operation /\ q.reqs = 0 /\ q.active = 0 /\ q.armed = FALSE /\ q.timer = FALSE
        /\ q.pc = p.pc /\ q.seq = p.seq /\ q.life = "listed"
    BY <1>3 DEF Operation
  <2>3. SendAll(p) = [r EXCEPT !.reqs = @ + mcast + 1]
    BY DEF SendAll, Operation
  <2> HIDE DEF q
  <2>4. r \in Operation /\ r.reqs = 0 /\ r.active = mcast + 1 /\ r.armed = FALSE
        /\ r.timer = FALSE /\ r.pc = p.pc /\ r.seq = p.seq /\ r.life = "listed"
    BY <2>2 DEF Operation
  <2> HIDE DEF r
  <2>5. SendAll(p) \in Operation /\ SendAll(p).reqs = mcast + 1
        /\ SendAll(p).active = mcast + 1 /\ SendAll(p).armed = FALSE
        /\ SendAll(p).timer = FALSE /\ SendAll(p).pc = p.pc /\ SendAll(p).seq = p.seq
        /\ SendAll(p).life = "listed"
    BY <2>3, <2>4 DEF Operation
  <2>6. mcast + 1 > 0
    OBVIOUS
  <2>7. OpOK(SendAll(p))
    BY <1>3, <2>5, <2>6 DEF OpOK
  <2> QED BY <2>1, <2>5, <2>7
<1>4. CASE ~Stale(p) /\ p.pc # "slow" /\ ~(p.fast > 0)
  <2>1. OpStep(p) = StartTimer(p)
    BY <1>4 DEF OpStep
  <2>2. StartTimer(p) \in Operation /\ StartTimer(p).reqs = 0 /\ StartTimer(p).active = 0
        /\ StartTimer(p).armed = TRUE /\ StartTimer(p).timer = TRUE
        /\ StartTimer(p).pc = "slow" /\ StartTimer(p).seq = p.seq /\ StartTimer(p).life = "listed"
    BY DEF StartTimer, Operation
  <2>3. OpOK(StartTimer(p))
    BY <2>2 DEF OpOK
  <2> QED BY <2>1, <2>2, <2>3
<1> QED BY <1>1, <1>2, <1>3, <1>4

\* The operations after one of them has changed.
LEMMA OneOpKeepsOpsOK ==
    ASSUME OpsOK, seq' = seq, running' = running,
           NEW o \in DOMAIN op, NEW q, OpOK(q), q.seq = op[o].seq,
           op' = [op EXCEPT ![o] = q]
    PROVE  OpsOK'
<1>1. DOMAIN op' = DOMAIN op /\ op' = [x \in DOMAIN op' |-> op'[x]]
  BY DEF OpsOK
<1>2. ASSUME NEW x \in DOMAIN op
      PROVE  OpOK(op'[x]) /\ op'[x].seq = op[x].seq
  BY DEF OpsOK
<1> QED BY <1>1, <1>2 DEF OpsOK, OpOK

\* The operations when none has changed: their start is the present one, or older than it.
LEMMA NoOpKeepsOpsOK ==
    ASSUME OpsOK, Types, op' = op,
           \/ seq' = seq /\ running' = running
           \/ seq' \in Nat /\ seq' > seq
    PROVE  OpsOK'
<1>1. ASSUME NEW x \in DOMAIN op
      PROVE  op[x].seq <= seq' /\ (op[x].seq = seq' => running')
  BY DiscoveryBounds DEF OpsOK, OpOK, Operation, Seqs, Types
<1> QED BY <1>1 DEF OpsOK, OpOK

\* A new operation waits for its first sends.
LEMMA NewOpIsOK ==
    ASSUME NEW n \in Seqs, NEW m \in Nat
    PROVE  OpOK(NewOp(n, m)) /\ NewOp(n, m).seq = n
<1>1. FastIps - 1 \in 0..FastIps /\ m + 1 \in Nat /\ m + 1 > 0
  BY DiscoveryBounds
<1>2. NewOp(n, m) \in Operation
  BY <1>1 DEF NewOp, Operation
<1>3. /\ NewOp(n, m).life = "listed" /\ NewOp(n, m).pc = "fast" /\ NewOp(n, m).seq = n
      /\ NewOp(n, m).active = m + 1 /\ NewOp(n, m).reqs = m + 1
      /\ NewOp(n, m).timer = FALSE /\ NewOp(n, m).armed = FALSE
  BY DEF NewOp
<1> QED BY <1>1, <1>2, <1>3 DEF OpOK

\* One is added, of the start that discovery is then in.
LEMMA NewOpKeepsOpsOK ==
    ASSUME OpsOK, Types, seq' \in Seqs, seq' >= seq, running' = TRUE, mcast' \in Nat,
           op' = Grown(op, Cardinality(DOMAIN op) + 1, NewOp(seq', mcast'))
    PROVE  OpsOK'
<1> DEFINE k == Cardinality(DOMAIN op)
           p == NewOp(seq', mcast')
<1>1. OpOK(p) /\ p.seq = seq'
  BY NewOpIsOK
<1> HIDE DEF p
<1>2. DOMAIN op = 1..k /\ k \in Nat
  BY DEF OpsOK
<1>3. op' = [y \in 1..(k + 1) |-> IF y = k + 1 THEN p ELSE op[y]]
  <2>1. DOMAIN op \union {k + 1} = 1..(k + 1)
    BY <1>2
  <2>2. op' = Grown(op, k + 1, p)
    BY DEF p
  <2> QED BY <2>1, <2>2 DEF Grown
<1>4. Cardinality(1..(k + 1)) = k + 1
  BY <1>2, FS_Interval
<1> HIDE DEF k
<1>5. DOMAIN op' = 1..(k + 1)
  BY <1>3
<1>6. ASSUME NEW y \in DOMAIN op'
      PROVE  OpOK(op'[y]) /\ op'[y].seq <= seq' /\ (op'[y].seq = seq' => running')
  <2>1. CASE y = k + 1
    <3>1. op'[y] = p
      BY <2>1, <1>2, <1>3
    <3>2. seq' <= seq'
      BY DiscoveryBounds DEF Seqs
    <3> QED BY <3>1, <3>2, <1>1
  <2>2. CASE y # k + 1
    <3>1. y \in DOMAIN op /\ op'[y] = op[y]
      BY <2>2, <1>2, <1>3, <1>5
    <3> QED BY <3>1, DiscoveryBounds, SMTT(30) DEF OpsOK, OpOK, Operation, Seqs, Types
  <2> QED BY <2>1, <2>2
<1>7. DOMAIN op' = 1..Cardinality(DOMAIN op') /\ Cardinality(DOMAIN op') \in Nat
  BY <1>2, <1>4, <1>5
<1>8. op' = [y \in DOMAIN op' |-> op'[y]]
  BY <1>3
<1> QED BY <1>6, <1>7, <1>8 DEF OpsOK, OpOK

-----------------------------------------------------------------------------
(***************************************************************************)
(* The invariant holds of every reachable state                            *)
(***************************************************************************)

\* The first state has no operations.
THEOREM InitKeeps == Init => IInv
<1> SUFFICES ASSUME Init PROVE IInv
  OBVIOUS
<1>1. DOMAIN op = {} /\ op = [o \in DOMAIN op |-> op[o]]
  BY DEF Init
<1>2. Cardinality(DOMAIN op) = 0 /\ 1..0 = {}
  BY <1>1, FS_EmptySet
<1>3. OpsOK
  BY <1>1, <1>2 DEF OpsOK
<1>4. Types
  <2>1. sock \in [Seqs -> {"unused", "open", "closing", "freed"}]
    BY DEF Init
  <2>2. 0 \in 0..MaxSeq
    BY DiscoveryBounds
  <2> QED BY <2>1, <2>2 DEF Init, Types, None
<1>5. SocketsOK /\ FaultOK
  BY DEF Init, SocketsOK, FaultOK
<1> QED BY <1>3, <1>4, <1>5 DEF IInv

\* The step of an operation whose callback has left it at rest finds the sockets it needs.
LEMMA StepOpKeeps ==
    ASSUME IInv, fault = "none", UNCHANGED <<running, seq, mcast, uni, sock, failed>>,
           NEW o \in DOMAIN op, NEW p \in Operation, p.seq = op[o].seq, p.life = "listed",
           p.reqs = 0, p.active = 0, p.timer = FALSE, p.armed = FALSE,
           StepOp(o, p)
    PROVE  IInv'
<1>1. ~SendsOnNothing(p)
  <2> SUFFICES ASSUME p.seq = seq PROVE ~(uni = None \/ sock[uni] # "open")
    BY DEF SendsOnNothing, Stale
  <2>1. running
    BY DEF IInv, OpsOK
  <2>2. uni = seq /\ seq \in Seqs /\ sock[seq] = "open"
    BY <2>1 DEF IInv, SocketsOK
  <2> QED BY <2>2, DiscoveryBounds DEF Seqs, None
<1>2. op' = [op EXCEPT ![o] = OpStep(p)] /\ fault' = fault
  BY <1>1 DEF StepOp
<1>3. OpOK(OpStep(p)) /\ OpStep(p).seq = op[o].seq
  BY StepKeepsOpOK, DiscoveryBounds DEF IInv, Types
<1>4. OpsOK'
  BY <1>2, <1>3, OneOpKeepsOpsOK DEF IInv
<1> QED BY <1>2, <1>4 DEF IInv, Types, SocketsOK, FaultOK

\* What else an operation's callback leaves.
LEMMA OpCallbackKeeps ==
    ASSUME IInv, fault = "none", NEW o, OpCallback(o)
    PROVE  IInv'
<1>1. o \in DOMAIN op /\ OpOK(op[o]) /\ op[o] \in Operation
  BY DEF OpCallback, IInv, OpsOK, OpOK
<1>2. CASE SendDone(o)
  <2> DEFINE p == [op[o] EXCEPT !.reqs = @ - 1, !.active = @ - 1]
  <2>1. op[o].reqs > 0 /\ op[o].life = "listed" /\ op[o].active = op[o].reqs
        /\ op[o].pc # "slow" /\ op[o].armed = FALSE /\ op[o].timer = FALSE
    BY <1>1, <1>2 DEF SendDone, OpOK, Operation
  <2>2. /\ p \in Operation
        /\ p.reqs = op[o].reqs - 1 /\ p.active = op[o].active - 1
        /\ p.pc = op[o].pc /\ p.timer = op[o].timer /\ p.armed = op[o].armed
        /\ p.life = op[o].life /\ p.seq = op[o].seq
    BY <1>1, <2>1, SentIsOperation
  <2>3. UNCHANGED <<running, seq, mcast, uni, sock, failed>>
        /\ IF LastSend(p) THEN StepOp(o, p) ELSE op' = [op EXCEPT ![o] = p] /\ UNCHANGED fault
    BY <1>2, <2>1 DEF SendDone, net
  <2> HIDE DEF p
  <2>4. CASE LastSend(p)
    <3>1. p.active = 0 /\ p.reqs = 0 /\ p.armed = FALSE /\ p.timer = FALSE /\ p.life = "listed"
      BY <2>1, <2>2, <2>4 DEF LastSend
    <3> QED BY <1>1, <2>2, <2>3, <2>4, <3>1, StepOpKeeps
  <2>5. CASE ~LastSend(p)
    <3>1. p.reqs \in Nat /\ p.active \in Nat /\ p.reqs > 0 /\ p.active = p.reqs
      <4>1. p.reqs \in Nat /\ p.active \in Nat
        BY <2>2 DEF Operation
      <4>2. p.active # 0
        BY <2>5 DEF LastSend
      <4>3. p.active = p.reqs
        BY <2>1, <2>2
      <4> QED BY <4>1, <4>2, <4>3
    <3>2. OpOK(p)
      BY <2>1, <2>2, <3>1 DEF OpOK
    <3>3. op' = [op EXCEPT ![o] = p] /\ UNCHANGED fault
      BY <2>3, <2>5
    <3>4. OpsOK'
      BY <1>1, <2>2, <2>3, <3>2, <3>3, OneOpKeepsOpsOK DEF IInv
    <3> QED BY <2>3, <3>3, <3>4 DEF IInv, Types, SocketsOK, FaultOK
  <2> QED BY <2>4, <2>5
<1>3. CASE TimerFires(o)
  <2> DEFINE p == Expired(op[o])
  <2>1. op[o].life = "listed" /\ op[o].reqs = 0 /\ op[o].active = 0
    BY <1>1, <1>3 DEF TimerFires, OpOK, Operation
  <2>2. /\ p \in Operation
        /\ p.timer = FALSE /\ p.armed = FALSE
        /\ p.life = op[o].life /\ p.seq = op[o].seq
        /\ p.reqs = op[o].reqs /\ p.active = op[o].active
    BY <1>1, ExpiredIsOperation
  <2>3. UNCHANGED <<running, seq, mcast, uni, sock, failed>> /\ StepOp(o, p)
    BY <1>3 DEF TimerFires, net
  <2> HIDE DEF p
  <2> QED BY <1>1, <2>1, <2>2, <2>3, StepOpKeeps
<1>4. CASE OpFreed(o)
  <2> DEFINE p == [op[o] EXCEPT !.life = "freed"]
  <2>1. p \in Operation /\ p.life = "freed" /\ p.seq = op[o].seq /\ p.reqs = op[o].reqs
        /\ p.armed = op[o].armed
    BY <1>1 DEF Operation
  <2>2. op[o].life = "closing" /\ op' = [op EXCEPT ![o] = p]
    BY <1>4 DEF OpFreed
  <2>3. UNCHANGED <<running, seq, mcast, uni, sock, failed, fault>>
    BY <1>4 DEF OpFreed, net
  <2> HIDE DEF p
  <2>4. OpOK(p)
    BY <1>1, <2>1, <2>2 DEF OpOK
  <2>5. OpsOK'
    BY <1>1, <2>1, <2>2, <2>3, <2>4, OneOpKeepsOpsOK DEF IInv
  <2> QED BY <2>3, <2>5 DEF IInv, Types, SocketsOK, FaultOK
<1> QED BY <1>2, <1>3, <1>4 DEF OpCallback

\* A broadcast adds an operation, or fails and adds none.
LEMMA BroadcastKeepsOps ==
    ASSUME OpsOK, Types, seq' \in Seqs, seq' >= seq, running' = TRUE, mcast' \in Nat,
           fault = "none", FaultOK,
           \/ seq' = seq /\ running' = running
           \/ seq' > seq,
           Broadcast(seq', mcast')
    PROVE  OpsOK' /\ (fault' = "null" => failed') /\ fault' # "op"
<1>1. CASE op' = Grown(op, Cardinality(DOMAIN op) + 1, NewOp(seq', mcast'))
           /\ UNCHANGED <<failed, fault>>
  BY <1>1, NewOpKeepsOpsOK
<1>2. CASE failed' = TRUE /\ fault' \in {"none", "closing"} /\ UNCHANGED op
  <2>1. seq' \in Nat
    BY DEF Seqs
  <2> QED BY <1>2, <2>1, NoOpKeepsOpsOK
<1> QED BY <1>1, <1>2 DEF Broadcast

\* The start of discovery that takes the number s + 1, and one that fails.
LEMMA StartKeeps ==
    ASSUME NEW s \in Nat, s + 1 < MaxSeq,
           NEW socks \in [Seqs -> {"unused", "open", "closing", "freed"}]
    PROVE  /\ StartsAs(s, socks) => Types' /\ SocketsOK' /\ running' = TRUE /\ seq' = s + 1
                                    /\ mcast' \in Nat /\ seq' \in Seqs
           /\ FailsAs(s, socks) => Types' /\ SocketsOK' /\ running' = FALSE /\ seq' = s + 1
<1>1. s + 1 \in Seqs /\ s + 1 \in 0..MaxSeq /\ 0 \in 0..MaxSeq
  BY DiscoveryBounds DEF Seqs
<1>2. ASSUME StartsAs(s, socks)
      PROVE  Types' /\ SocketsOK' /\ running' = TRUE /\ seq' = s + 1 /\ mcast' \in Nat
             /\ seq' \in Seqs
  <2>1. running' = TRUE /\ seq' = s + 1 /\ uni' = s + 1 /\ mcast' \in 0..Interfaces
        /\ sock' = [socks EXCEPT ![s + 1] = "open"]
    BY <1>2 DEF StartsAs, BindMulticast
  <2>2. mcast' \in Nat
    BY <2>1, DiscoveryBounds
  <2>3. sock' \in [Seqs -> {"unused", "open", "closing", "freed"}] /\ sock'[s + 1] = "open"
    BY <1>1, <2>1
  <2> QED BY <1>1, <2>1, <2>2, <2>3 DEF Types, SocketsOK
<1>3. ASSUME FailsAs(s, socks)
      PROVE  Types' /\ SocketsOK' /\ running' = FALSE /\ seq' = s + 1
  <2>1. running' = FALSE /\ seq' = s + 1 /\ uni' = 0 /\ mcast' = 0
        /\ sock' = [socks EXCEPT ![s + 1] = "closing"]
    BY <1>3 DEF FailsAs, None
  <2>2. sock' \in [Seqs -> {"unused", "open", "closing", "freed"}]
    BY <1>1, <2>1
  <2> QED BY <1>1, <2>1, <2>2 DEF Types, SocketsOK
<1> QED BY <1>2, <1>3

\* Each step keeps the invariant.
THEOREM StepKeeps == IInv /\ [Next]_vars => IInv'
<1> SUFFICES ASSUME IInv, [Next]_vars PROVE IInv'
  OBVIOUS
<1> DEFINE Same == UNCHANGED <<running, seq, mcast, uni, sock>>
<1>1. ASSUME Same, UNCHANGED op, fault' = fault \/ fault' \notin {"op", "null"},
             failed => failed'
      PROVE  IInv'
  BY <1>1 DEF IInv, Types, SocketsOK, OpsOK, OpOK, FaultOK
<1>2. CASE UNCHANGED vars
  BY <1>1, <1>2 DEF vars, net
<1> SUFFICES ASSUME Next, fault = "none" PROVE IInv'
  BY <1>2 DEF Next
<1>3. ASSUME NEW o, OpCallback(o) PROVE IInv'
  BY <1>3, OpCallbackKeeps
<1>4. ASSUME NEW g \in Seqs, SocketCallback(g) PROVE IInv'
  <2>1. CASE AuxDone(g)
    BY <2>1, <1>1 DEF AuxDone, net
  <2>2. CASE SocketFreed(g)
    <3>1. sock[g] = "closing" /\ sock' = [sock EXCEPT ![g] = "freed"]
          /\ UNCHANGED <<running, seq, mcast, uni, op, failed, fault>>
      BY <2>2 DEF SocketFreed
    <3>2. sock' \in [Seqs -> {"unused", "open", "closing", "freed"}]
      BY <3>1 DEF IInv, Types
    <3>3. SocketsOK'
      BY <3>1 DEF IInv, Types, SocketsOK
    <3>4. OpsOK'
      BY <3>1 DEF IInv, OpsOK, OpOK
    <3> QED BY <3>1, <3>2, <3>3, <3>4 DEF IInv, Types, FaultOK
  <2> QED BY <1>4, <2>1, <2>2 DEF SocketCallback
<1>5. CASE TransactionExpires
  BY <1>1, <1>5 DEF TransactionExpires, net
<1>6. CASE Notified
  BY <1>1, <1>6 DEF Notified, net
<1>7. CASE Refresh
  <2>1. CASE dev # "run"
    BY <1>1, <1>7, <2>1 DEF Refresh, net
  <2>2. CASE dev = "run"
    <3> DEFINE s == IF running THEN seq + 1 ELSE seq
    <3>1. seq \in Nat /\ s \in Nat /\ s + 1 < MaxSeq /\ s + 1 > seq
      BY <1>7, <2>2, DiscoveryBounds DEF Refresh, IInv, Types
    <3>2. Closed(sock) \in [Seqs -> {"unused", "open", "closing", "freed"}]
      BY DEF Closed, CloseSockets, IInv, Types
    <3> HIDE DEF s
    <3>3. CASE StartsAs(s, Closed(sock)) /\ Broadcast(seq', mcast')
      <4>1. Types' /\ SocketsOK' /\ running' = TRUE /\ seq' = s + 1 /\ mcast' \in Nat
            /\ seq' \in Seqs
        BY <3>1, <3>2, <3>3, StartKeeps
      <4>2. OpsOK' /\ (fault' = "null" => failed') /\ fault' # "op"
        BY <3>1, <3>3, <4>1, BroadcastKeepsOps DEF IInv
      <4> QED BY <4>1, <4>2 DEF IInv, FaultOK
    <3>4. CASE FailsAs(s, Closed(sock)) /\ failed' = TRUE /\ UNCHANGED op /\ fault' # "op"
      <4>1. Types' /\ SocketsOK' /\ running' = FALSE /\ seq' = s + 1
        BY <3>1, <3>2, <3>4, StartKeeps
      <4>2. OpsOK'
        BY <3>1, <3>4, <4>1, NoOpKeepsOpsOK DEF IInv
      <4> QED BY <3>4, <4>1, <4>2 DEF IInv, FaultOK
    <3>5. \/ StartsAs(s, Closed(sock)) /\ Broadcast(seq', mcast')
          \/ FailsAs(s, Closed(sock)) /\ failed' = TRUE /\ UNCHANGED op /\ fault' # "op"
      BY <1>7, <2>2 DEF Refresh, s
    <3> QED BY <3>3, <3>4, <3>5
  <2> QED BY <2>1, <2>2
<1>8. CASE Query
  <2>1. Same /\ running = TRUE
    BY <1>8 DEF Query, net, IInv, Types
  <2>2. seq \in Seqs /\ seq >= seq /\ mcast \in Nat
    BY <2>1, DiscoveryBounds DEF IInv, SocketsOK, Types, Seqs
  <2>3. Broadcast(seq', mcast')
    BY <1>8, <2>1 DEF Query
  <2>4. OpsOK' /\ (fault' = "null" => failed') /\ fault' # "op"
    BY <2>1, <2>2, <2>3, BroadcastKeepsOps DEF IInv
  <2> QED BY <2>1, <2>4 DEF IInv, Types, SocketsOK, FaultOK
<1>9. ASSUME NEW d \in air, Receive(d) PROVE IInv'
  BY <1>1, <1>9 DEF Receive, net
<1>10. CASE Run
  <2>1. seq \in Nat /\ seq + 1 < MaxSeq /\ seq + 1 > seq
    BY <1>10, DiscoveryBounds DEF Run, IInv, Types
  <2>2. sock \in [Seqs -> {"unused", "open", "closing", "freed"}]
    BY DEF IInv, Types
  <2>3. CASE StartsAs(seq, sock) /\ Broadcast(seq', mcast')
    <3>1. Types' /\ SocketsOK' /\ running' = TRUE /\ seq' = seq + 1 /\ mcast' \in Nat
          /\ seq' \in Seqs
      BY <2>1, <2>2, <2>3, StartKeeps
    <3>2. OpsOK' /\ (fault' = "null" => failed') /\ fault' # "op"
      BY <2>1, <2>3, <3>1, BroadcastKeepsOps DEF IInv
    <3> QED BY <3>1, <3>2 DEF IInv, FaultOK
  <2>4. CASE FailsAs(seq, sock) /\ UNCHANGED <<op, failed, fault>>
    <3>1. Types' /\ SocketsOK' /\ running' = FALSE /\ seq' = seq + 1
      BY <2>1, <2>2, <2>4, StartKeeps
    <3>2. OpsOK'
      BY <2>1, <2>4, <3>1, NoOpKeepsOpsOK DEF IInv
    <3> QED BY <2>4, <3>1, <3>2 DEF IInv, FaultOK
  <2> QED BY <1>10, <2>3, <2>4 DEF Run
<1>11. CASE NetworkChanges
  BY <1>1, <1>11 DEF NetworkChanges, net
<1>12. CASE DeviceStop
  BY <1>1, <1>12 DEF DeviceStop, net
<1>13. CASE EndWatch
  BY <1>1, <1>13 DEF EndWatch, net
<1>14. CASE StopCallback
  <2>1. CASE ~running
    BY <1>1, <1>14, <2>1 DEF StopCallback, StopDiscovery, net
  <2>2. CASE running
    <3>1. running' = FALSE /\ seq' = seq + 1 /\ mcast' = 0 /\ uni' = 0 /\ sock' = Closed(sock)
          /\ UNCHANGED <<op, failed, fault>>
      BY <1>14, <2>2 DEF StopCallback, StopDiscovery, Stopped, NextSeq, None
    <3>2. seq \in Nat /\ seq + 1 \in 0..MaxSeq /\ seq + 1 > seq /\ 0 \in 0..MaxSeq
      BY <2>2, DiscoveryBounds DEF IInv, Types, SocketsOK
    <3>3. Closed(sock) \in [Seqs -> {"unused", "open", "closing", "freed"}]
      BY DEF Closed, CloseSockets, IInv, Types
    <3>4. OpsOK'
      BY <3>1, <3>2, NoOpKeepsOpsOK DEF IInv
    <3> QED BY <3>1, <3>2, <3>3, <3>4 DEF IInv, Types, SocketsOK, FaultOK
  <2> QED BY <2>1, <2>2
<1>15. CASE RunReturns
  BY <1>1, <1>15 DEF RunReturns, net
<1> QED
  BY <1>3, <1>4, <1>5, <1>6, <1>7, <1>8, <1>9, <1>10, <1>11, <1>12, <1>13, <1>14, <1>15
  DEF Next, TimerCallback

\* The invariant holds throughout.
THEOREM Invariant == Spec => []IInv
BY InitKeeps, StepKeeps, PTL DEF Spec

-----------------------------------------------------------------------------
(***************************************************************************)
(* What it says of discovery                                               *)
(***************************************************************************)

\* However many operations, starts and failures there are, an operation that is listed has a
\* send or a timer to come, and none is called back when it was freed (broadcast_op_step).
THEOREM OpsServed == Spec => []OpsAreServed
<1>1. IInv => OpsAreServed
  BY DEF IInv, OpsOK, OpOK, FaultOK, OpsAreServed
<1> QED BY <1>1, Invariant, PTL

\* A broadcast finds unicast_send missing only after a restart of discovery has failed.
THEOREM SocketKept == Spec => []SocketUnlessFailed
<1>1. IInv => SocketUnlessFailed
  BY DEF IInv, FaultOK, SocketUnlessFailed
<1> QED BY <1>1, Invariant, PTL

\* A step of an operation sends only if it is of the present start.
LEMMA OnlyTheCurrentSends ==
    ASSUME OpsOK, NEW o \in DOMAIN op, NEW p \in Operation, p.seq = op[o].seq,
           p.reqs <= op[o].reqs, StepOp(o, p), op'[o].reqs > op[o].reqs
    PROVE  running /\ op[o].seq = seq
<1>1. op[o].reqs \in Nat /\ p.reqs \in Nat
  BY DEF OpsOK, OpOK, Operation
<1>2. op' = [op EXCEPT ![o] = OpStep(p)]
  BY <1>1 DEF StepOp
<1>3. OpStep(p).reqs > op[o].reqs
  BY <1>1, <1>2 DEF OpsOK
<1>4. ~Stale(p)
  <2> SUFFICES ASSUME Stale(p) PROVE FALSE
    OBVIOUS
  <2>1. Destroyed(p).reqs = p.reqs
    BY DEF Destroyed, Operation
  <2>2. OpStep(p) = p \/ OpStep(p) = Destroyed(p)
    BY DEF OpStep
  <2> QED BY <1>1, <1>3, <2>1, <2>2
<1> QED BY <1>4 DEF Stale, OpsOK

\* An operation that outlived its start sends nothing, whatever the callbacks that come after
\* a stop, a restart, or several of them (broadcast_op_step compares start_seq).
THEOREM OldOpsSilent == Spec => OldOpsAreSilent
<1> DEFINE Silent == \A o \in DOMAIN op :
                        op'[o].reqs > op[o].reqs => running /\ op[o].seq = seq
<1>1. ASSUME IInv, Next PROVE Silent
  <2> SUFFICES ASSUME NEW o \in DOMAIN op, op'[o].reqs > op[o].reqs
               PROVE  running /\ op[o].seq = seq
    OBVIOUS
  <2>1. OpsOK /\ op[o] \in Operation /\ op[o].reqs \in Nat
    BY <1>1 DEF IInv, OpsOK, OpOK, Operation
  <2>2. op'[o] # op[o]
    BY <2>1
  <2>3. ASSUME NEW x, OpCallback(x) PROVE running /\ op[o].seq = seq
    <3>1. x = o
      BY <2>1, <2>2, <2>3 DEF OpCallback, SendDone, TimerFires, OpFreed, StepOp, OpsOK
    <3>2. CASE SendDone(o)
      <4> DEFINE p == [op[o] EXCEPT !.reqs = @ - 1, !.active = @ - 1]
      <4>1. op[o].reqs > 0 /\ op[o].life = "listed" /\ op[o].active = op[o].reqs
        BY <1>1, <2>1, <3>2 DEF SendDone, OpsOK, OpOK
      <4>2. p \in Operation /\ p.reqs = op[o].reqs - 1 /\ p.seq = op[o].seq
        BY <2>1, <4>1, SentIsOperation
      <4>3. StepOp(o, p) \/ op' = [op EXCEPT ![o] = p]
        BY <3>2, <4>1 DEF SendDone
      <4> HIDE DEF p
      <4>4. op' # [op EXCEPT ![o] = p]
        BY <2>1, <4>2
      <4> QED BY <2>1, <4>2, <4>3, <4>4, OnlyTheCurrentSends
    <3>3. CASE TimerFires(o)
      <4>1. StepOp(o, Expired(op[o]))
        BY <3>3 DEF TimerFires
      <4>2. Expired(op[o]) \in Operation /\ Expired(op[o]).seq = op[o].seq
            /\ Expired(op[o]).reqs = op[o].reqs
        BY <2>1, ExpiredIsOperation
      <4> QED BY <2>1, <4>1, <4>2, OnlyTheCurrentSends
    <3>4. CASE OpFreed(o)
      <4>1. op'[o].reqs = op[o].reqs
        BY <2>1, <3>4 DEF OpFreed, OpsOK, Operation
      <4> QED BY <2>1, <4>1
    <3> QED BY <2>3, <3>1, <3>2, <3>3, <3>4 DEF OpCallback
  <2>4. ASSUME Broadcast(seq', mcast') PROVE op'[o] = op[o]
    <3>1. CASE op' = Grown(op, Cardinality(DOMAIN op) + 1, NewOp(seq', mcast'))
      <4>1. o # Cardinality(DOMAIN op) + 1
        BY <2>1 DEF OpsOK
      <4> QED BY <3>1, <4>1 DEF Grown
    <3> QED BY <2>4, <3>1 DEF Broadcast
  <2>5. \/ \E x : OpCallback(x)
        \/ op' = op
        \/ Broadcast(seq', mcast')
    <3>1. ASSUME NEW g, SocketCallback(g) PROVE op' = op
      BY <3>1 DEF SocketCallback, AuxDone, SocketFreed
    <3>2. ASSUME TimerCallback PROVE op' = op \/ Broadcast(seq', mcast')
      BY <3>2 DEF TimerCallback, TransactionExpires, Notified, Refresh
    <3>3. ASSUME Query PROVE Broadcast(seq', mcast')
      BY <3>3 DEF Query, net
    <3>4. ASSUME NEW d, Receive(d) PROVE op' = op
      BY <3>4 DEF Receive
    <3>5. ASSUME Run PROVE op' = op \/ Broadcast(seq', mcast')
      BY <3>5 DEF Run
    <3>6. ASSUME NetworkChanges \/ DeviceStop \/ EndWatch \/ StopCallback \/ RunReturns
          PROVE  op' = op
      BY <3>6 DEF NetworkChanges, DeviceStop, EndWatch, StopCallback, RunReturns
    <3> QED BY <1>1, <3>1, <3>2, <3>3, <3>4, <3>5, <3>6 DEF Next
  <2> QED BY <2>2, <2>3, <2>4, <2>5
<1>2. IInv /\ [Next]_vars => [Silent]_vars
  BY <1>1
<1> QED BY <1>2, Invariant, PTL DEF Spec, OldOpsAreSilent

=============================================================================
