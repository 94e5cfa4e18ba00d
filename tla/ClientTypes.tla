----------------------------- MODULE ClientTypes -----------------------------
(***************************************************************************)
(* Which types of clients are connected (raat_device.c,                    *)
(* device_notify_client_type), as the sessions announce them               *)
(* (raat_session.c, session_set_client_type and session_delete).           *)
(*                                                                         *)
(* A session's script sets its type on the session's thread; the server    *)
(* deletes the session on the loop thread, which announces that the type   *)
(* is gone before it joins the session's thread.  The critical section of  *)
(* notify_client_type is one step; the listener is called after it, with a *)
(* snapshot.                                                               *)
(***************************************************************************)
EXTENDS Integers, FiniteSets

CONSTANTS
    Sessions,
    Types, NoType,      \* the types of clients, and a NULL client_type
    MaxCalls            \* bound on the calls of set_client_type

ASSUME TypesAssumption == IsFiniteSet(Sessions) /\ NoType \notin Types

VARIABLES
    count,      \* client_types: the count of each type, 0 if it is not in the list
    type,       \* client_type of each session
    gone,       \* history: the memory of client_type was freed and not replaced
    call,       \* set_client_type on the session's thread
    del,        \* session_delete on the loop thread
    present,    \* history: the snapshots made, oldest first
    heard,      \* history: the snapshots that the listener was called with
    last,       \* history: the snapshot that it was called with last
    calls,      \* the number of calls of set_client_type
    raced,      \* history: a session was deleted while it set its type
    misused       \* the process used or freed memory that was freed

typesVars == <<count, type, gone, call, del, present, heard, last, calls, raced, misused>>

NoCall == [pc |-> "idle", new |-> NoType, snap |-> 0]

\* The list of the types is empty, and so is what the listener knows.
TypesInit ==
    /\ count = [t \in Types |-> 0]
    /\ type = [s \in Sessions |-> NoType] /\ gone = [s \in Sessions |-> FALSE]
    /\ call = [s \in Sessions |-> NoCall]
    /\ del = [s \in Sessions |-> NoCall]
    /\ present = [n \in {} |-> {}] /\ heard = {} /\ last = 0
    /\ calls = 0 /\ raced = FALSE /\ misused = FALSE

Newest == Cardinality(DOMAIN present)

\* Mutant: a type is taken off the list while other clients have it.
DropType(t) == [count EXCEPT ![t] = 0]

Decremented(t) == [count EXCEPT ![t] = @ - 1]

\* The list after a client of type t has come or gone.  A type that is not in the list is
\* added, whichever it was.
Notified(t, connected) ==
    IF count[t] = 0 THEN [count EXCEPT ![t] = 1]
    ELSE IF connected THEN [count EXCEPT ![t] = @ + 1] ELSE Decremented(t)

TypesOf(c) == {t \in Types : c[t] > 0}

\* Mutant: a type that leaves changes nothing.
GrewOnly(c) == TypesOf(c) \ TypesOf(count) # {}

Changed(c) == TypesOf(c) # TypesOf(count)

\* The critical section of notify_client_type; n is the caller's snapshot, 0 for none.
Notify(t, connected, n) ==
    /\ count' = Notified(t, connected)
    /\ IF Changed(count')
       THEN /\ n = Newest + 1
            /\ present' = [m \in 1..n |-> IF m = n THEN TypesOf(count') ELSE present[m]]
       ELSE n = 0 /\ UNCHANGED present

Tell(n) ==
    IF n = 0 THEN UNCHANGED <<heard, last>> ELSE heard' = heard \union {n} /\ last' = n

\* Memory that was freed is read or freed again.
Dead(s) == gone[s] /\ type[s] # NoType

(***************************************************************************)
(* session_set_client_type, on the thread of session s                     *)
(***************************************************************************)
Runs(s) == del[s].pc \notin {"joined"}

SetEnter(s, t) ==
    /\ Runs(s) /\ call[s].pc = "idle" /\ calls < MaxCalls
    /\ calls' = calls + 1
    /\ call' = [call EXCEPT ![s] = [pc |-> IF type[s] # NoType THEN "leave" ELSE "assign",
                                    new |-> t, snap |-> 0]]
    /\ raced' = (raced \/ del[s].pc # "idle")
    /\ UNCHANGED <<count, type, gone, del, present, heard, last, misused>>

SetLeave(s) ==
    /\ call[s].pc = "leave"
    /\ \E n \in 0..Newest + 1 :
          /\ Notify(type[s], FALSE, n)
          /\ call' = [call EXCEPT ![s].pc = "free", ![s].snap = n]
    /\ misused' = Dead(s)
    /\ UNCHANGED <<type, gone, del, heard, last, calls, raced>>

SetFree(s) ==
    /\ call[s].pc = "free"
    /\ Tell(call[s].snap)
    /\ gone' = [gone EXCEPT ![s] = TRUE] /\ misused' = Dead(s)
    /\ call' = [call EXCEPT ![s].pc = "assign", ![s].snap = 0]
    /\ UNCHANGED <<count, type, del, present, calls, raced>>

Assign(s) == type' = [type EXCEPT ![s] = call[s].new]

SetAssign(s) ==
    /\ call[s].pc = "assign"
    /\ Assign(s) /\ gone' = [gone EXCEPT ![s] = FALSE]
    /\ call' = [call EXCEPT ![s].pc = IF call[s].new = NoType THEN "idle" ELSE "come"]
    /\ UNCHANGED <<count, del, present, heard, last, calls, raced, misused>>

SetCome(s) ==
    /\ call[s].pc = "come"
    /\ \E n \in 0..Newest + 1 :
          /\ Notify(type[s], TRUE, n)
          /\ call' = [call EXCEPT ![s].pc = "told", ![s].snap = n]
    /\ misused' = Dead(s)
    /\ UNCHANGED <<type, gone, del, heard, last, calls, raced>>

SetReturn(s) ==
    /\ call[s].pc = "told"
    /\ Tell(call[s].snap)
    /\ call' = [call EXCEPT ![s] = NoCall]
    /\ UNCHANGED <<count, type, gone, del, present, calls, raced, misused>>

(***************************************************************************)
(* session_delete, on the loop thread                                      *)
(***************************************************************************)
DeleteEnter(s) ==
    /\ del[s].pc = "idle"
    /\ \A r \in Sessions : del[r].pc \in {"idle", "joined"}
    /\ raced' = (raced \/ call[s].pc # "idle")
    /\ IF type[s] = NoType
       THEN del' = [del EXCEPT ![s].pc = "join"] /\ UNCHANGED <<count, present, misused>>
       ELSE /\ \E n \in 0..Newest + 1 :
                  /\ Notify(type[s], FALSE, n)
                  /\ del' = [del EXCEPT ![s].pc = "free", ![s].snap = n]
            /\ misused' = Dead(s)
    /\ UNCHANGED <<type, gone, call, heard, last, calls>>

DeleteFree(s) ==
    /\ del[s].pc = "free"
    /\ Tell(del[s].snap)
    /\ gone' = [gone EXCEPT ![s] = TRUE] /\ misused' = Dead(s)
    /\ del' = [del EXCEPT ![s].pc = "join", ![s].snap = 0]
    /\ UNCHANGED <<count, type, call, present, calls, raced>>

\* the session's thread ends in its loop, between two calls
DeleteJoin(s) ==
    /\ del[s].pc = "join" /\ call[s].pc = "idle"
    /\ del' = [del EXCEPT ![s].pc = "joined"]
    /\ UNCHANGED <<count, type, gone, call, present, heard, last, calls, raced, misused>>

-----------------------------------------------------------------------------

SetStep(s) == SetLeave(s) \/ SetFree(s) \/ SetAssign(s) \/ SetCome(s) \/ SetReturn(s)
DeleteStep(s)  == DeleteEnter(s) \/ DeleteFree(s) \/ DeleteJoin(s)

TypesNext ==
    /\ ~misused
    /\ \E s \in Sessions :
          \/ \E t \in Types \union {NoType} : SetEnter(s, t)
          \/ SetStep(s) \/ DeleteStep(s)

TypesSpec == TypesInit /\ [][TypesNext]_typesVars

-----------------------------------------------------------------------------
(***************************************************************************)
(* Properties                                                              *)
(***************************************************************************)

CallState == [pc : {"idle", "leave", "free", "assign", "come", "told"},
           new : Types \union {NoType}, snap : Nat]
Deletion == [pc : {"idle", "free", "join", "joined"}, new : {NoType}, snap : Nat]

TypesOK ==
    /\ count \in [Types -> Nat]
    /\ type \in [Sessions -> Types \union {NoType}] /\ gone \in [Sessions -> BOOLEAN]
    /\ call \in [Sessions -> CallState] /\ del \in [Sessions -> Deletion]
    /\ last \in Nat /\ heard \subseteq Nat /\ calls \in Nat
    /\ raced \in BOOLEAN /\ misused \in BOOLEAN

\* The type that session s has announced and not taken back
Announced(s) ==
    IF del[s].pc # "idle" \/ call[s].pc \in {"free", "assign", "come"} THEN NoType ELSE type[s]

\* Each type counts the sessions that have announced it, and its memory is used and freed in
\* time, unless a session is deleted while its script sets the type.
CountsMatch ==
    ~raced => /\ ~misused
              /\ \A t \in Types :
                    count[t] = Cardinality({s \in Sessions : Announced(s) = t})

\* No change of the set of types is lost: the newest snapshot is the set as it is, and each
\* snapshot was told to the listener or is about to be, by one call.
NoChangeIsLost ==
    /\ TypesOf(count) = IF Newest = 0 THEN {} ELSE present[Newest]
    /\ \A n \in DOMAIN present :
          n \in heard <=> \A s \in Sessions : call[s].snap # n /\ del[s].snap # n

-----------------------------------------------------------------------------
(***************************************************************************)
(* What the header says, and the code does not keep                        *)
(***************************************************************************)
\* raat_device.h:66: the listener gets "a list of client types that are currently connected
\* to this device": when no call is in progress, what it heard last is how it is.
ListenerIsCurrent ==
    (\A s \in Sessions : call[s].snap = 0 /\ del[s].snap = 0) => last = Newest

=============================================================================
