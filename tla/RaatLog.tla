-------------------------------- MODULE RaatLog --------------------------------
(***************************************************************************)
(* The log of a device (raat_log.c): links of different sizes in a         *)
(* circular buffer, written by any thread and read by the server.  Each    *)
(* operation holds the lock, and is one step.  A link is known by its      *)
(* address; what a write overlaps is gone from the buffer.                 *)
(***************************************************************************)
EXTENDS Integers, FiniteSets

CONSTANTS
    LogSize,        \* log_buffer_size
    LinkSize,       \* sizeof(LogLink)
    Align,          \* the alignment of a link
    BufSize,        \* sizeof(buf), what a message is cut to
    Lengths,        \* the lengths of the messages
    MaxSeq,         \* INT_MAX
    MaxWritten,     \* bound on the messages
    Listeners

VARIABLES
    links,          \* the links in the buffer that are whole, by address
    oldest, newest, \* their addresses, or Null
    written,        \* history: the number of messages written; seq is its remainder
    callbacks,      \* the listeners
    clears,         \* RAAT__log_clear was called: the list of callbacks has no allocator
    crashed         \* a NULL or overwritten link, or the NULL allocator, was used

logVars == <<links, oldest, newest, written, callbacks, clears, crashed>>

Null == -1

LogInit ==
    /\ links = [a \in {} |-> 0] /\ oldest = Null /\ newest = Null /\ written = 0
    /\ callbacks = {} /\ clears = FALSE /\ crashed = FALSE

SeqNo(n) == n % (MaxSeq + 1)
End(a) == a + LinkSize + links[a].size

RoundUp(a) == ((a + Align - 1) \div Align) * Align

\* Where a link of this size goes, directly after the newest one or at the start.
Place(size) ==
    LET after == RoundUp(End(newest)) IN
    IF after + LinkSize + size > LogSize THEN 0 ELSE after

Apart(a, at, size) == a > at + LinkSize + size \/ End(a) < at

\* The first link from a on that is apart from the new one; Null if none is.
FirstApart(at, size) ==
    LET from[i \in 0..LogSize] ==
            IF i = 0 THEN oldest
            ELSE LET a == from[i - 1] IN
                 IF a \notin DOMAIN links \/ Apart(a, at, size) THEN a ELSE links[a].next
    IN from[LogSize]

Survivor(at, size) == FirstApart(at, size)

\* What is whole after the write; the new link is linked from the newest one.
Overlaps(a, at, size) == a < at + LinkSize + size /\ at < End(a)

\* LOCKED_append_link
AppendLink(size) ==
    LET at   == IF newest = Null THEN 0 ELSE Place(size)
        kept == {a \in DOMAIN links : ~Overlaps(a, at, size)}
    IN /\ oldest' = IF newest = Null THEN at ELSE Survivor(at, size)
       /\ crashed' = (oldest' # at /\ oldest' \notin DOMAIN links)
       /\ newest' = at
       /\ links' = [a \in kept \union {at} |->
                        IF a = at THEN [n |-> written, size |-> size, next |-> Null]
                        ELSE IF a = newest THEN [links[a] EXCEPT !.next = at] ELSE links[a]]

\* One message that just does not fit is not cut: its final 0 is written past buf.
Cut(length) == IF length > BufSize THEN BufSize - 1 ELSE length

LogWrite(length) ==
    /\ written < MaxWritten
    /\ written' = written + 1
    /\ AppendLink(Cut(length) + 1)
    /\ UNCHANGED <<callbacks, clears>>

LogClear ==
    /\ oldest' = Null /\ newest' = Null /\ callbacks' = {} /\ clears' = TRUE
    /\ UNCHANGED <<links, written, crashed>>

AddCallback(l) ==
    /\ l \notin callbacks
    /\ callbacks' = callbacks \union {l} /\ crashed' = clears
    /\ UNCHANGED <<links, oldest, newest, written, clears>>

RemoveCallback(l) ==
    /\ l \in callbacks
    /\ callbacks' = callbacks \ {l}
    /\ UNCHANGED <<links, oldest, newest, written, clears, crashed>>

LogNext ==
    /\ ~crashed
    /\ \/ \E length \in Lengths : LogWrite(length)
       \/ LogClear
       \/ \E l \in Listeners : AddCallback(l) \/ RemoveCallback(l)

LogSpec == LogInit /\ [][LogNext]_logVars

\* The addresses that RAAT__log_iterate visits, from the oldest link on
Visited ==
    LET at[i \in 0..LogSize] ==
            IF i = 0 THEN oldest
            ELSE IF at[i - 1] \in DOMAIN links THEN links[at[i - 1]].next ELSE Null
    IN {at[i] : i \in 0..LogSize} \ {Null}

Kept == {links[a].n : a \in Visited}

\* Mutant: a poller whose last entry was before the counter wrapped gets only what is not.
NoWrap(a, min) == SeqNo(links[a].n) >= min

Reported(a, min) ==
    \/ SeqNo(links[a].n) >= min
    \/ min > MaxSeq \div 2 /\ SeqNo(links[a].n) < MaxSeq \div 2

-----------------------------------------------------------------------------
(***************************************************************************)
(* Properties                                                              *)
(***************************************************************************)

\* Every link that is visited is whole, no two of them overlap, and the last is the newest:
\* no message is written over a link that is still in the list.
ListIsWhole ==
    ~crashed =>
        /\ Visited \subseteq DOMAIN links
        /\ newest # Null => newest \in Visited /\ links[newest].next = Null
                            /\ links[newest].n = written - 1
        /\ \A a, b \in Visited : a # b => End(a) <= b \/ End(b) <= a
        /\ \A a \in Visited : End(a) <= LogSize
                              /\ links[a].next # Null => links[a].n < links[links[a].next].n

\* get_log with min_seq: a poller that has seen the first n messages, and is less than half
\* the range of the counter behind, misses none of those that are kept.
PollMissesNothing ==
    ~crashed =>
        \A n \in 0..written : written - n <= MaxSeq \div 2 =>
            \A a \in Visited : links[a].n >= n => Reported(a, SeqNo(n))

\* Who reads the log gets what it keeps: the links in the list are whole, and a poller that is
\* not too far behind is given all that it has not seen.
LogServes == ListIsWhole /\ PollMissesNothing

-----------------------------------------------------------------------------
(***************************************************************************)
(* What the header says, and the code does not keep                        *)
(***************************************************************************)
\* raat_log.h:30: "The RAAT log is a 256kb in-memory circular buffer": what it keeps are the
\* last messages, without a gap.
KeepsTheLast == \A n \in 0..written - 1 : (\E m \in Kept : m < n) => n \in Kept

=============================================================================
