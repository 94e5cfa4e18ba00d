------------------------------ MODULE RaatClient ------------------------------
(***************************************************************************)
(* The client side of a connection (raat_client.c): its state, the two     *)
(* libuv handles inside it, the requests that wait for an answer and the   *)
(* callbacks of the application, which may call the client again.          *)
(*                                                                         *)
(* Everything runs on the thread of one loop.  stack holds the calls that  *)
(* are in progress, innermost first: a frame is a callback of the          *)
(* application, or what a function of the client still has to do.          *)
(***************************************************************************)
EXTENDS Integers, Sequences, SequencesExt

CONSTANTS
    MaxRequests,        \* bound on the requests
    MaxConnects,        \* bound on the calls of connect
    MaxWrites,          \* bound on the writes in progress
    Timeout             \* keepalive periods without input that end a connection

ASSUME BoundsAssumption == MaxRequests \in Nat /\ MaxWrites \in Nat

VARIABLES
    conn,       \* state
    sock,       \* the handle sock: "none" (not in the loop), "open" or "closing"
    timer,      \* the handle keepalive_timer, as sock
    joining,    \* the connect request is with libuv
    pending,    \* pending_requests
    listed,     \* pending_requests has its allocator
    writes,     \* the writes with libuv
    silent,     \* keepalive periods since last_active_ms
    stack,      \* the calls in progress
    freed,      \* the client was deleted
    connects,   \* calls of connect
    asked,      \* history of each request: what its callback was told
    wire,       \* the requests that the server has not given a final answer to
    answer,     \* the last answer: the JSON was valid, the callback was told it was not
    lost,       \* history: disconnected_cb was called for an attempt that failed
    polite,     \* history: the application kept to the calls that are safe
    late,       \* history: requests sent from the last callback of a walk through the list
    starved,    \* history: a write found no memory in a callback that ends a request
    died        \* freed memory or a NULL allocator was used, or libuv aborted

clientVars == <<conn, sock, timer, joining, pending, listed, writes, silent, stack, freed,
                connects, asked, wire, answer, lost, polite, late, starved, died>>

ids == 1..MaxRequests

ClientInit ==
    /\ conn = "disconnected" /\ sock = "none" /\ timer = "none" /\ joining = FALSE
    /\ pending = <<>> /\ listed = TRUE /\ writes = 0 /\ silent = 0 /\ stack = <<>>
    /\ freed = FALSE /\ connects = 0
    /\ asked = [r \in ids |-> "unsent"] /\ wire = {}
    /\ answer = [valid |-> TRUE, flagged |-> FALSE]
    /\ lost = FALSE /\ polite = TRUE /\ late = {} /\ starved = FALSE /\ died = FALSE

Frame(f, r) == [f |-> f, r |-> r, last |-> FALSE]
Callbacks   == {"cancel", "lost", "connected", "response", "answer"}
Innermost   == IF stack = <<>> THEN Frame("none", 0) ELSE Head(stack)

\* The application is in control: in a callback, or outside of the loop's.
AppRuns == Innermost.f \in Callbacks \union {"none"}
Nested  == stack # <<>>

\* What a call of its callback makes of a request.
Told(r, final) ==
    asked' = [asked EXCEPT ![r] = IF @ # "open" THEN "told too often"
                                  ELSE IF final THEN "ended" ELSE "open"]

-----------------------------------------------------------------------------
(***************************************************************************)
(* close_connection; k is what its caller still has to do                  *)
(***************************************************************************)
CloseHandles ==
    /\ died' = (sock = "closing")
    /\ sock' = "closing" /\ timer' = IF conn = "connected" THEN "closing" ELSE timer

\* The list has lost its allocator before anyone hears of the loss.
Lost(k) ==
    /\ pending' = <<>> /\ listed' = FALSE /\ conn' = "disconnected"
    /\ lost' = (conn = "connecting")
    /\ stack' = <<Frame("lost", 0)>> \o k
    /\ UNCHANGED asked

\* Mutant: the requests are freed without a word.
SkipToEnd(i) == Len(pending) + 1

From(i) == i

\* The node after the last one is read before the callback of the last one runs.
CancelFrom(j, k) ==
    LET i == From(j) IN
    IF i > Len(pending) THEN Lost(k)
    ELSE /\ Told(pending[i], TRUE)
         /\ stack' = <<[f |-> "cancel", r |-> i, last |-> i = Len(pending)]>> \o k
         /\ UNCHANGED <<pending, listed, conn, lost>>

CloseConnection(k) ==
    IF conn = "disconnected"
    THEN /\ stack' = k
         /\ UNCHANGED <<conn, sock, timer, pending, listed, asked, lost, died>>
    ELSE CloseHandles /\ CancelFrom(1, k)

closeVars == <<conn, sock, timer, pending, listed, asked, lost, died, stack>>
restOf    == <<joining, writes, silent, freed, connects, wire, answer, polite, late, starved>>

Cancelled ==
    /\ Innermost.f = "cancel" /\ ~freed
    /\ IF Innermost.last THEN Lost(Tail(stack)) ELSE CancelFrom(Innermost.r + 1, Tail(stack))
    /\ UNCHANGED <<sock, timer, died>> /\ UNCHANGED restOf

-----------------------------------------------------------------------------
(***************************************************************************)
(* write_message; k is what its caller still has to do                     *)
(***************************************************************************)
EndsRequest == Innermost.f = "cancel" \/ (Innermost.f = "response" /\ Innermost.last)

\* A socket that closes takes no write, and nobody is told.  Without memory the connection is
\* closed before the caller goes on.
WriteMessage(k) ==
    \/ /\ sock = "open" /\ writes < MaxWrites
       /\ writes' = writes + 1 /\ stack' = k /\ UNCHANGED starved
    \/ sock # "open" /\ stack' = k /\ UNCHANGED <<writes, starved>>
    \/ /\ stack' = <<Frame("unsent", 0)>> \o k /\ UNCHANGED writes
       /\ starved' = (starved \/ EndsRequest)

Unsent ==
    /\ Innermost.f = "unsent" /\ CloseConnection(Tail(stack))
    /\ UNCHANGED restOf

-----------------------------------------------------------------------------
(***************************************************************************)
(* The application's calls                                                 *)
(***************************************************************************)
\* connect_cb and the handles are initialised whatever is left of the last connection;
\* started is the result of uv_tcp_connect, without which the state stays as it is now.
Connect(started) ==
    /\ AppRuns /\ ~freed /\ conn = "disconnected" /\ connects < MaxConnects
    /\ connects' = connects + 1 /\ polite' = (polite /\ connects = 0)
    /\ died' = (sock # "none" \/ timer = "closing")
    /\ sock' = "open" /\ conn' = "connecting" /\ joining' = started
    /\ UNCHANGED <<timer, pending, listed, writes, silent, stack, freed, asked, wire, answer, lost,
                   late, starved>>

Disconnect ==
    /\ AppRuns /\ ~freed /\ conn = "connected"
    /\ CloseConnection(stack)
    /\ polite' = (polite /\ ~Nested)
    /\ UNCHANGED <<joining, writes, silent, freed, connects, wire, answer, late, starved>>

InUse == sock # "none" \/ timer # "none" \/ writes > 0

Delete ==
    /\ AppRuns /\ ~freed
    /\ CloseConnection(<<Frame("delete", 0)>> \o stack)
    /\ polite' = (polite /\ ~Nested /\ ~InUse)
    /\ UNCHANGED <<joining, writes, silent, freed, connects, wire, answer, late, starved>>

Deleted ==
    /\ Innermost.f = "delete"
    /\ freed' = TRUE /\ died' = freed /\ stack' = Tail(stack)
    /\ UNCHANGED <<conn, sock, timer, joining, pending, listed, writes, silent, connects, asked,
                   wire, answer, lost, polite, late, starved>>

\* The request waits before it is written, and its writing may end it.
Request(r) ==
    /\ AppRuns /\ ~freed /\ conn = "connected" /\ asked[r] = "unsent"
    /\ \A q \in ids : q < r => asked[q] # "unsent"
    /\ died' = ~listed
    /\ asked' = [asked EXCEPT ![r] = "open"] /\ pending' = Append(pending, r)
    /\ WriteMessage(stack)
    /\ wire' = IF writes' > writes THEN wire \union {r} ELSE wire
    /\ late' = IF Innermost.f = "cancel" /\ Innermost.last THEN late \union {r} ELSE late
    /\ UNCHANGED <<conn, sock, timer, joining, listed, silent, freed, connects, answer, lost, polite>>

RequestForget ==
    /\ AppRuns /\ ~freed /\ conn = "connected"
    /\ WriteMessage(stack)
    /\ UNCHANGED <<conn, sock, timer, joining, pending, listed, silent, freed, connects,
                   asked, wire, answer, lost, polite, late, died>>

-----------------------------------------------------------------------------
(***************************************************************************)
(* Callbacks of the loop                                                   *)
(***************************************************************************)
LoopRuns == stack = <<>> /\ ~freed

\* connect_cb with an error
ConnectFails ==
    /\ LoopRuns /\ joining
    /\ joining' = FALSE /\ CloseConnection(<<Frame("answer", 0)>>)
    /\ UNCHANGED <<writes, silent, freed, connects, wire, answer, polite, late, starved>>

\* The application hears of success even if the first message could not be written.
Connected ==
    /\ LoopRuns /\ joining
    /\ joining' = FALSE /\ conn' = "connected" /\ timer' = "open" /\ silent' = 0
    /\ WriteMessage(<<Frame("connected", 0)>>)
    /\ UNCHANGED <<sock, pending, listed, freed, connects, asked, wire, answer, lost, polite, late,
                   died>>

\* uv_read_start failed: the socket is kept, and so is connect_cb
ReadFails ==
    /\ LoopRuns /\ joining
    /\ joining' = FALSE /\ conn' = "disconnected" /\ stack' = <<Frame("answer", 0)>>
    /\ UNCHANGED <<sock, timer, pending, listed, writes, silent, freed, connects, asked, wire,
                   answer, lost, polite, late, starved, died>>

WriteDone(ok) ==
    /\ LoopRuns /\ writes > 0
    /\ writes' = writes - 1
    /\ IF ok /\ sock = "open" THEN UNCHANGED closeVars ELSE CloseConnection(<<>>)
    /\ UNCHANGED <<joining, silent, freed, connects, wire, answer, polite, late, starved>>

TimedOut == silent > Timeout

KeepaliveTimer ==
    /\ LoopRuns /\ timer = "open"
    /\ IF TimedOut THEN CloseConnection(<<>>) /\ UNCHANGED <<writes, silent, starved>>
       ELSE /\ silent' = silent + 1 /\ WriteMessage(<<>>)
            /\ UNCHANGED <<conn, sock, timer, pending, listed, asked, lost, died>>
    /\ UNCHANGED <<joining, freed, connects, wire, answer, polite, late>>

Reads == LoopRuns /\ conn = "connected" /\ sock = "open"

\* the end of the stream, an error, a message that is too long, no memory for its body
ReadEnds ==
    /\ Reads /\ CloseConnection(<<>>)
    /\ UNCHANGED restOf

ReadKeepalive ==
    /\ Reads /\ silent' = 0
    /\ UNCHANGED closeVars
    /\ UNCHANGED <<joining, writes, freed, connects, wire, answer, polite, late, starved>>

\* The flags that the callback gets are the first byte of the JSON, which for an object has
\* the bit of FINAL_RESPONSE set and that of INVALID_JSON not; the latter is added if the
\* JSON is valid.
FlagsOf(valid, byte) ==
    IF valid THEN [final |-> TRUE, flagged |-> TRUE] ELSE [final |-> byte, flagged |-> byte]

\* ev_response: the answer to r, the last one or not, with a first byte that has the bits or not
ReadResponse(r, final, valid, byte) ==
    /\ Reads /\ r \in wire
    /\ silent' = 0
    /\ wire' = IF final THEN wire \ {r} ELSE wire
    /\ IF Contains(pending, r)
       THEN LET flags == FlagsOf(valid, byte) IN
            /\ Told(r, flags.final)
            /\ answer' = [valid |-> valid, flagged |-> flags.flagged]
            /\ stack' = <<[f |-> "response", r |-> r, last |-> flags.final]>>
       ELSE UNCHANGED <<asked, answer, stack>>
    /\ UNCHANGED <<conn, sock, timer, joining, pending, listed, writes, freed, connects, lost,
                   polite, late, starved, died>>

PlaceOf(r) == CHOOSE i \in DOMAIN pending : pending[i] = r
Without(r) == RemoveAt(pending, PlaceOf(r))

\* The node that is removed may be gone with the list; the rest of the input is read from
\* the client, which may be gone as well.
ResponseReturns ==
    /\ Innermost.f = "response"
    /\ died' = (freed \/ (Innermost.last /\ ~Contains(pending, Innermost.r)))
    /\ pending' = IF Innermost.last /\ Contains(pending, Innermost.r)
                   THEN Without(Innermost.r) ELSE pending
    /\ stack' = Tail(stack)
    /\ UNCHANGED <<conn, sock, timer, listed, asked, lost>> /\ UNCHANGED restOf

\* disconnected_cb and connect_cb return to functions that use the client once more.
CallbackReturns ==
    /\ Innermost.f \in {"lost", "connected", "answer"}
    /\ died' = (freed /\ Innermost.f # "lost") /\ stack' = Tail(stack)
    /\ UNCHANGED <<conn, sock, timer, pending, listed, asked, lost>> /\ UNCHANGED restOf

-----------------------------------------------------------------------------
\* libuv is done with a handle; it calls back for what was in progress on a socket first.
HandleCloses ==
    /\ stack = <<>>
    /\ died' = freed
    /\ \/ /\ sock = "closing" /\ (writes = 0 \/ freed) /\ sock' = "none" /\ UNCHANGED timer
       \/ timer = "closing" /\ timer' = "none" /\ UNCHANGED sock
    /\ UNCHANGED <<conn, pending, listed, asked, lost, stack>> /\ UNCHANGED restOf

\* A connection, a timer or a write that is left calls back into freed memory.
CalledBackFreed ==
    /\ stack = <<>> /\ freed
    /\ joining \/ writes > 0 \/ sock = "open" \/ timer = "open"
    /\ died' = TRUE
    /\ UNCHANGED <<conn, sock, timer, pending, listed, asked, lost, stack>> /\ UNCHANGED restOf

ClientNext ==
    /\ ~died
    /\ \/ \E started \in BOOLEAN : Connect(started)
       \/ Unsent \/ Disconnect \/ Delete \/ Deleted \/ RequestForget \/ \E r \in ids : Request(r)
       \/ ConnectFails \/ Connected \/ ReadFails
       \/ \E ok \in BOOLEAN : WriteDone(ok)
       \/ KeepaliveTimer \/ ReadEnds \/ ReadKeepalive
       \/ \E r \in ids, final, valid, byte \in BOOLEAN : ReadResponse(r, final, valid, byte)
       \/ Cancelled \/ ResponseReturns \/ CallbackReturns \/ HandleCloses \/ CalledBackFreed

ClientSpec == ClientInit /\ [][ClientNext]_clientVars

-----------------------------------------------------------------------------
(***************************************************************************)
(* Properties                                                              *)
(***************************************************************************)

\* The request whose callback is running, by the list that is being walked
BeingEnded(r) ==
    \E i \in DOMAIN stack :
        \/ stack[i].f = "response" /\ stack[i].r = r
        \/ stack[i].f = "cancel" /\ stack[i].r >= PlaceOf(r)

\* An application that connects once, closes and deletes outside of callbacks and deletes when
\* libuv is done does not crash the client, and each of its requests ends exactly once, a
\* connection that a write closes for want of memory included: it waits in the list until
\* then, and none waits when there is no connection.  The code keeps that but in two cases,
\* which are named: a request that is sent from the last callback of a connection that is
\* being closed (late) is forgotten without a call, and a write without memory inside of the
\* callback that ends a request (starved) ends the request again, or closes the socket again.
RequestsEndOnce ==
    polite /\ ~starved =>
        /\ ~died
        /\ \A r \in ids :
              /\ asked[r] # "told too often"
              /\ asked[r] = "open" => Contains(pending, r) \/ r \in late
              /\ asked[r] = "ended" /\ Contains(pending, r) => BeingEnded(r)
        /\ conn = "disconnected" => pending = <<>>

-----------------------------------------------------------------------------
(***************************************************************************)
(* What the headers say, and the code does not keep                        *)
(***************************************************************************)
\* raat_base.h:68: INVALID_JSON "Indicates that a response contained invalid JSON".
InvalidJsonIsFlagged == answer.flagged => ~answer.valid

\* raat_client.h: the disconnected callback "will be invoked when a previously successful
\* connection is lost".
OnlySuccessIsLost == ~lost

=============================================================================
