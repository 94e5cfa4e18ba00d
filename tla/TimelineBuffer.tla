---------------------------- MODULE TimelineBuffer ----------------------------
(***************************************************************************)
(* What a stream promises to the thread that fills it and to the thread    *)
(* that drains it, without lists, locks or memory: a set of packets on a   *)
(* timeline, at most one at each stream time, whose members leave in the   *)
(* order of the timeline, one at a time, or all at once when the stream is *)
(* cleared or destroyed.                                                   *)
(***************************************************************************)
EXTENDS Integers

CONSTANT Packets

VARIABLE buffered

Init == buffered = {}

\* a packet enters only where the timeline is still free
Accept(p) ==
    /\ \A q \in buffered : q.start # p.start
    /\ buffered' = buffered \union {p}

\* only the earliest packet may leave, whether it was played or discarded
RetireEarliest ==
    \E p \in buffered :
        /\ \A q \in buffered : p.start <= q.start
        /\ buffered' = buffered \ {p}

Empty == buffered' = {}

Next == (\E p \in Packets : Accept(p)) \/ RetireEarliest \/ Empty

Spec == Init /\ [][Next]_buffered
=============================================================================
