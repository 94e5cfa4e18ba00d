---------------------------- MODULE RAATDiscovery ----------------------------
(***************************************************************************)
(* Discovery (raat_discovery.c) and the device that starts, stops and      *)
(* refreshes it (raat_device.c, rc_netutil.c).  Every callback runs in the *)
(* device's libuv loop and is one step; device_stop and the thread that    *)
(* watches the network run beside it.                                      *)
(*                                                                         *)
(* A start of discovery is known by the value of start_seq it set; its     *)
(* sockets open and close together.  libuv answers every send, with an     *)
(* error when the socket is closed first, before it frees the socket.      *)
(* A handle whose memory is freed while libuv still has to close it is     *)
(* undefined behaviour: the process dies ("closing") or nothing happens.   *)
(***************************************************************************)
EXTENDS Integers, FiniteSets

CONSTANTS
    FastIps,        \* addresses a broadcast goes to: multicast, loopback, one per interface
    Interfaces,     \* interfaces a multicast socket may be bound to
    MaxSeq,         \* bound on start_seq: starts and stops
    MaxOps,         \* bound on broadcasts
    MaxQueue        \* bound on answers and queries under way

ASSUME DiscoveryBounds ==
    /\ FastIps \in Nat \ {0, 1} /\ Interfaces \in Nat
    /\ MaxSeq \in Nat /\ MaxOps \in Nat /\ MaxQueue \in Nat

None == 0

VARIABLES
    dev,        \* the device: off, run, in device_stop (ending), stopping (its stop handle
                \* is signaled) or stopped
    running, seq,           \* is_running, start_seq
    mcast, uni, local,      \* the number of multicast_send_interfaces; the starts that
                            \* unicast_send and localhost_send_sock are from
    sock,       \* the sockets of each start: unused, open, closing or freed
    op,         \* the broadcast operations that were begun
    aux,        \* answers and rebroadcasts under way, by the start of their socket
    txs,        \* pending_transactions whose timer has not expired
    air,        \* queries in the network, by how often they were rebroadcast
    watch,      \* the network watch: off or on
    notices,    \* its async handles that wait, and its timer, in the loop
    tick,
    failed,     \* history: a restart of discovery, or a broadcast, has failed
    fault       \* how the process died

net   == <<running, seq, mcast, uni, local, sock>>
watchVars == <<watch, notices, tick>>
vars  == <<dev, net, op, aux, txs, air, watchVars, failed, fault>>

Seqs == 1..MaxSeq

Init ==
    /\ dev = "off" /\ running = FALSE /\ seq = 0
    /\ mcast = 0 /\ uni = None /\ local = None
    /\ sock = [g \in Seqs |-> "unused"]
    /\ op = [o \in {} |-> None]
    /\ aux = [g \in Seqs |-> 0]
    /\ txs = 0 /\ air = {0}
    /\ watch = "off" /\ notices = 0 /\ tick = FALSE
    /\ failed = FALSE /\ fault = "none"

(***************************************************************************)
(* One step of a broadcast operation: sends to the next address on every   *)
(* multicast socket and on the unicast one, then waits for a timer, then   *)
(* ends (slow_ips is never filled).  An operation of an old start sends no *)
(* more and ends with the last of its sends and its timer.                 *)
(***************************************************************************)
Destroyed(p) == [p EXCEPT !.life = "closing", !.armed = FALSE]

Deferred(p) == p.active > 0 \/ p.timer

SendAll(p) == [p EXCEPT !.fast = @ - 1, !.active = @ + mcast + 1, !.reqs = @ + mcast + 1]

StartTimer(p) == [p EXCEPT !.pc = "slow", !.timer = TRUE, !.armed = TRUE]

\* Mutant: the start of the operation is not looked at.
AnyStart(p) == FALSE

Stale(p) == p.seq # seq

OpStep(p) ==
    IF Stale(p) THEN (IF Deferred(p) THEN p ELSE Destroyed(p))
    ELSE IF p.pc = "slow" THEN Destroyed(p)
    ELSE IF p.fast > 0 THEN SendAll(p) ELSE StartTimer(p)

\* unicast_send is NULL, or its socket is gone, when the operation sends.
SendsOnNothing(p) ==
    ~Stale(p) /\ p.pc = "fast" /\ p.fast > 0 /\ (uni = None \/ sock[uni] # "open")

\* broadcast_op_step: the counts of p are those the callback has left.
StepOp(o, p) ==
    IF SendsOnNothing(p)
    THEN fault' = "null" /\ UNCHANGED op
    ELSE op' = [op EXCEPT ![o] = OpStep(p)] /\ UNCHANGED fault

\* A new operation of the start n, when it has sent to its first address on m multicast
\* sockets and on the unicast one.
NewOp(n, m) ==
    [seq |-> n, pc |-> "fast", fast |-> FastIps - 1, active |-> m + 1, timer |-> FALSE,
     reqs |-> m + 1, armed |-> FALSE, life |-> "listed"]

Grown(f, x, v) == [y \in DOMAIN f \union {x} |-> IF y = x THEN v ELSE f[y]]

(***************************************************************************)
(* Callbacks of the operations                                             *)
(***************************************************************************)

LastSend(p) == p.active = 0

SendDone(o) ==
    /\ op[o].reqs > 0
    /\ IF op[o].life = "freed"
       THEN fault' = "op" /\ UNCHANGED op
       ELSE LET p == [op[o] EXCEPT !.reqs = @ - 1, !.active = @ - 1]
            IN  IF LastSend(p) THEN StepOp(o, p)
                ELSE op' = [op EXCEPT ![o] = p] /\ UNCHANGED fault
    /\ UNCHANGED <<dev, net, aux, txs, air, watchVars, failed>>

\* Mutant: the flag stays set.
TimerExpired(p) == [p EXCEPT !.armed = FALSE]

Expired(p) == [p EXCEPT !.armed = FALSE, !.timer = FALSE]

TimerFires(o) ==
    /\ op[o].armed
    /\ StepOp(o, Expired(op[o]))
    /\ UNCHANGED <<dev, net, aux, txs, air, watchVars, failed>>

OpFreed(o) ==
    /\ op[o].life = "closing"
    /\ op' = [op EXCEPT ![o].life = "freed"]
    /\ UNCHANGED <<dev, net, aux, txs, air, watchVars, failed, fault>>

(***************************************************************************)
(* Start and stop.  Start binds the multicast sockets it can; the one of   *)
(* the loopback interface, if there is one, becomes localhost_send_sock.   *)
(***************************************************************************)

NextSeq == seq' = seq + 1

CloseSockets(s) == [g \in Seqs |-> IF s[g] = "open" THEN "closing" ELSE s[g]]

\* Mutant: the sockets stay open.
LeaveSockets(s) == s

Closed(s) == CloseSockets(s)

Stopped ==      \* what discovery_stop leaves
    /\ sock' = Closed(sock) /\ mcast' = 0 /\ uni' = None
    /\ running' = FALSE
    /\ UNCHANGED local

StopDiscovery == IF running THEN Stopped /\ NextSeq ELSE UNCHANGED net

\* bind_multicast, in the start g: an interface whose socket cannot be set up is passed over.
BindMulticast(g) ==
    /\ mcast' \in 0..Interfaces
    /\ local' \in {local} \union (IF mcast' > 0 THEN {g} ELSE {})

\* discovery_start, from a state in which s is the value of start_seq and socks the sockets
StartsAs(s, socks) ==
    /\ running' = TRUE /\ seq' = s + 1
    /\ BindMulticast(s + 1)
    /\ uni' = s + 1
    /\ sock' = [socks EXCEPT ![s + 1] = "open"]

FailsAs(s, socks) ==
    /\ running' = FALSE /\ seq' = s + 1
    /\ mcast' = 0 /\ uni' = None
    /\ sock' = [socks EXCEPT ![s + 1] = "closing"]
    /\ local' \in {local, s + 1}

(***************************************************************************)
(* discovery_query and discovery_broadcast                                 *)
(***************************************************************************)

\* broadcast_message.  When the interfaces cannot be enumerated the operation is freed
\* with its timer still to be closed.  n and m: start_seq, the multicast sockets.
Broadcast(n, m) ==
    \/ /\ op' = Grown(op, Cardinality(DOMAIN op) + 1, NewOp(n, m))
       /\ UNCHANGED <<failed, fault>>
    \/ failed' = TRUE /\ fault' \in {"none", "closing"} /\ UNCHANGED op

MoreOps == Cardinality(DOMAIN op) < MaxOps

\* An application asks who is there, and waits for answers for ten seconds.
Query ==
    /\ running /\ MoreOps /\ txs < MaxQueue
    /\ Broadcast(seq, mcast)
    /\ txs' = IF op' # op THEN txs + 1 ELSE txs
    /\ UNCHANGED <<dev, net, aux, air, watchVars>>

\* transaction_timer_cb closes the timer and frees it at once.
TransactionExpires ==
    /\ txs > 0 /\ txs' = txs - 1
    /\ fault' \in {"none", "closing"}
    /\ UNCHANGED <<dev, net, op, aux, air, watchVars, failed>>

(***************************************************************************)
(* A query comes in on a socket.  It is sent once more, to the applications*)
(* on this host that could not bind the port, with the address to reply to *)
(* added; the device answers it.                                           *)
(***************************************************************************)

Rebroadcasts(d) == d = 0

Queued(f, g) == [f EXCEPT ![g] = @ + 1]

\* message_cb and discovery_respond: the answer goes out on unicast_send.
Answered(f) == Queued(f, uni)

Receive(d) ==
    /\ d \in air
    /\ running /\ aux[seq] < MaxQueue
    /\ IF Rebroadcasts(d) /\ local # None
       THEN IF sock[local] # "open"
            THEN fault' = "local" /\ UNCHANGED <<aux, air>>
            ELSE /\ aux' = Answered(Queued(aux, local))
                 /\ air' = air \union {d + 1}
                 /\ UNCHANGED fault
       ELSE aux' = Answered(aux) /\ UNCHANGED <<air, fault>>
    /\ UNCHANGED <<dev, net, op, txs, watchVars, failed>>

\* respond_cb, rebroadcast_cb
AuxDone(g) ==
    /\ aux[g] > 0 /\ aux' = [aux EXCEPT ![g] = @ - 1]
    /\ UNCHANGED <<dev, net, op, txs, air, watchVars, failed, fault>>

\* libuv closes a socket: what it had to send has been answered.
SocketFreed(g) ==
    /\ sock[g] = "closing" /\ aux[g] = 0
    /\ \A o \in DOMAIN op : op[o].seq = g => op[o].reqs = 0
    /\ sock' = [sock EXCEPT ![g] = "freed"]
    /\ UNCHANGED <<dev, running, seq, mcast, uni, local, op, aux, txs, air, watchVars, failed,
                   fault>>

(***************************************************************************)
(* The device                                                              *)
(***************************************************************************)

\* device_run_phase0: a start that fails leaves the device off.
Run ==
    /\ dev = "off" /\ seq + 2 <= MaxSeq /\ MoreOps
    /\ \/ /\ StartsAs(seq, sock)
          /\ Broadcast(seq', mcast')
          /\ dev' = "run" /\ watch' \in {"off", "on"}
          /\ UNCHANGED <<notices, tick>>
       \/ /\ FailsAs(seq, sock)
          /\ UNCHANGED <<dev, op, watchVars, failed, fault>>
    /\ UNCHANGED <<aux, txs, air>>

\* The watch's thread saw a change; it makes an async handle in the loop ...
NetworkChanges ==
    /\ watch = "on" /\ notices < MaxQueue /\ notices' = notices + 1
    /\ UNCHANGED <<dev, net, op, aux, txs, air, watch, tick, failed, fault>>

\* ... which starts the watch's timer, five seconds.
Notified ==
    /\ notices > 0 /\ notices' = notices - 1
    /\ \/ watch = "on" /\ tick' = TRUE /\ UNCHANGED fault
       \/ watch = "off" /\ tick' = tick /\ fault' \in {"none", "watch"}
    /\ UNCHANGED <<dev, net, op, aux, txs, air, watch, failed>>

\* networkstatus_cb: discovery is stopped and started; whether it started is not looked at.
Refresh ==
    /\ tick /\ tick' = FALSE
    /\ IF dev # "run" THEN UNCHANGED <<net, op, failed, fault>>
       ELSE /\ seq + 3 <= MaxSeq /\ MoreOps
            /\ LET s == IF running THEN seq + 1 ELSE seq
               IN  \/ /\ StartsAs(s, Closed(sock))
                      /\ Broadcast(seq', mcast')
                   \/ /\ FailsAs(s, Closed(sock))
                      /\ failed' = TRUE
                      /\ \/ fault' = "null" /\ UNCHANGED op
                         \/ fault' \in {"none", "closing"} /\ UNCHANGED op
    /\ UNCHANGED <<dev, aux, txs, air, watch, notices>>

\* device_stop, in another thread: it ends the watch, whose memory it frees, and signals.
DeviceStop ==
    /\ dev = "run" /\ dev' = "ending"
    /\ UNCHANGED <<net, op, aux, txs, air, watchVars, failed, fault>>

EndWatch ==
    /\ dev = "ending" /\ dev' = "stopping"
    /\ watch' = "off" /\ tick' = FALSE
    /\ IF watch = "on" THEN fault' \in {"none", "closing"} ELSE UNCHANGED fault
    /\ UNCHANGED <<net, op, aux, txs, air, notices, failed>>

StopCallback ==
    /\ dev = "stopping" /\ dev' = "stopped"
    /\ StopDiscovery
    /\ UNCHANGED <<op, aux, txs, air, watchVars, failed, fault>>

\* What keeps uv_run in the loop
Active ==
    \/ \E o \in DOMAIN op : op[o].reqs > 0 \/ op[o].armed \/ op[o].life = "closing"
    \/ \E g \in Seqs : aux[g] > 0 \/ sock[g] \in {"open", "closing"}
    \/ txs > 0 \/ notices > 0 \/ tick

RunReturns ==
    /\ dev = "stopped" /\ ~Active
    /\ dev' = "off"
    /\ UNCHANGED <<net, op, aux, txs, air, watchVars, failed, fault>>

-----------------------------------------------------------------------------

LoopIs == dev # "off"   \* callbacks only run in uv_run

OpCallback(o) == LoopIs /\ o \in DOMAIN op /\ (SendDone(o) \/ TimerFires(o) \/ OpFreed(o))
SocketCallback(g) == LoopIs /\ (AuxDone(g) \/ SocketFreed(g))
TimerCallback == LoopIs /\ (TransactionExpires \/ Notified \/ Refresh)

Next ==
    /\ fault = "none"
    /\ \/ \E o \in 1..MaxOps : OpCallback(o)
       \/ \E g \in Seqs : SocketCallback(g)
       \/ TimerCallback
       \/ LoopIs /\ (Query \/ \E d \in air : Receive(d))
       \/ Run \/ NetworkChanges \/ DeviceStop \/ EndWatch \/ StopCallback \/ RunReturns

Spec == Init /\ [][Next]_vars

\* The loop thread is scheduled and the kernel takes what it is given: each callback that
\* is due is called.  Nothing makes a query come in, the network change or the device run.
FairSpec ==
    /\ Spec
    /\ \A o \in 1..MaxOps : WF_vars(fault = "none" /\ OpCallback(o))
    /\ \A g \in Seqs : WF_vars(fault = "none" /\ SocketCallback(g))
    /\ WF_vars(fault = "none" /\ LoopIs /\ TransactionExpires)
    /\ WF_vars(fault = "none" /\ LoopIs /\ Notified)
    /\ WF_vars(fault = "none" /\ LoopIs /\ Refresh)
    /\ WF_vars(fault = "none" /\ StopCallback) /\ WF_vars(fault = "none" /\ RunReturns)

-----------------------------------------------------------------------------
(***************************************************************************)
(* Properties                                                              *)
(***************************************************************************)

Operation == [seq : Seqs, pc : {"fast", "slow"}, fast : 0..FastIps, active : Nat, timer : BOOLEAN,
              reqs : Nat, armed : BOOLEAN, life : {"listed", "closing", "freed"}]

TypeOK ==
    /\ dev \in {"off", "run", "ending", "stopping", "stopped"}
    /\ running \in BOOLEAN /\ seq \in 0..MaxSeq
    /\ mcast \in 0..Interfaces /\ {uni, local} \subseteq 0..MaxSeq
    /\ sock \in [Seqs -> {"unused", "open", "closing", "freed"}]
    /\ op \in [DOMAIN op -> Operation]
    /\ aux \in [Seqs -> Nat] /\ txs \in Nat /\ air \subseteq Nat
    /\ watch \in {"off", "on"} /\ notices \in Nat /\ tick \in BOOLEAN
    /\ failed \in BOOLEAN /\ fault \in {"none", "op", "null", "local", "closing", "watch"}

\* The flags of an operation tell what libuv still has to do for it; an operation that is
\* listed has a send or its timer to come, which steps it or, when it is of an old start,
\* ends it: none is forgotten.  One that ended has nothing to come that would find it freed.
OpsAreServed ==
    /\ fault # "op"
    /\ \A o \in DOMAIN op :
          IF op[o].life = "listed"
          THEN /\ op[o].active = op[o].reqs /\ op[o].timer = op[o].armed
               /\ op[o].reqs > 0 \/ op[o].armed
          ELSE op[o].reqs = 0 /\ ~op[o].armed

\* An operation that outlived the start it was begun in sends nothing: neither into closed
\* sockets nor, after a restart, an old announcement into the new ones.
OldOpsAreSilent ==
    [][\A o \in DOMAIN op : op'[o].reqs > op[o].reqs => running /\ op[o].seq = seq]_vars

\* A send finds no socket only after a restart of discovery has failed.
SocketUnlessFailed == fault = "null" => failed

\* device_stop ends the loop: all that discovery has under way is answered, and when the
\* loop ends every operation and every socket has been freed.
StopDrains ==
    dev = "stopping" ~>
        \/ fault # "none"
        \/ /\ dev = "off"
           /\ \A o \in DOMAIN op : op[o].life = "freed"
           /\ \A g \in Seqs : sock[g] \in {"unused", "freed"}

-----------------------------------------------------------------------------
(***************************************************************************)
(* What a comment says, and the code does not keep                         *)
(***************************************************************************)
\* raat_discovery.c:46: localhost_send_sock "is also  in the multicast_send_interfaces array,
\* and is resource-managed there": a query is rebroadcast on a socket of that array.
RebroadcastsOnListedSocket == fault # "local"

=============================================================================
