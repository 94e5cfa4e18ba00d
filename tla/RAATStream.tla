------------------------------ MODULE RAATStream ------------------------------
(***************************************************************************)
(* The jitter buffer between the network and the audio hardware            *)
(* (raat_stream.c): a list of "alive" regions in timeline order, a list of *)
(* dead regions that the next writer frees, two allocation pools, and a    *)
(* metadata array lent to the reader.                                      *)
(*                                                                         *)
(* One writer: a stream is a userdata of one Lua state, run by one session *)
(* thread, which writes and clears.  One reader: the output plugin's       *)
(* thread.  A set of consumers, which take whole packets.  A critical      *)
(* section with a loop is a sequence of steps under `lock', one without is *)
(* a single step, and what the code does outside of the lock are steps of  *)
(* their own.  A sample is represented by its stream time.                 *)
(***************************************************************************)
EXTENDS Integers, SequencesExt

CONSTANTS
    Consumers,      \* threads that call stream_consume_packet
    Packets,        \* what the writer may write: [start, len]
    Windows,        \* what the reader may ask for: [start, len]
    Capacity,       \* sample_capacity
    PoolSize,       \* POOL_SIZE
    MetadataChunk   \* first allocation of the metadata array

Span == [start : Nat, len : Nat]
EndOf(p) == p.start + p.len

\* A packet that starts later does not end earlier: the packets cut up one timeline.
\* The server chooses them; the code relies on this and never checks it.
ASSUME PacketsAssumption ==
    /\ Packets \subseteq Span
    /\ \A p, q \in Packets : p.start < q.start => EndOf(p) <= EndOf(q)

ASSUME SizesAssumption ==
    /\ IsFiniteSet(Consumers) /\ Windows \subseteq Span
    /\ Capacity \in Nat /\ PoolSize \in Nat /\ MetadataChunk \in Nat \ {0}

VARIABLES
    lock,       \* who is inside a critical section that has a loop
    live,       \* head .. tail
    dead,       \* dead_head, most recently killed first
    fill,       \* sample_fill
    meta,       \* the metadata array: its length (0 if NULL), and metadata_capacity
    pool,       \* both pools; of a buffer the size on record and the true one;
                \* and what the allocator has given out in all
    refcnt, holds,      \* the count, and the threads that own a reference
    wr, rd, con,        \* arguments and locals of the calls in progress
    fault,      \* how the process died: "assert", "null", "memcpy" or "oom"
    cleared     \* history: stream_clear was called

list == <<live, dead, fill>>
vars == <<lock, live, dead, fill, meta, pool, refcnt, holds, wr, rd, con, fault, cleared>>

Writer == "writer"
Reader == "reader"
Threads == {Writer, Reader} \union Consumers

ASSUME NamesAssumption == {Writer, Reader} \intersect Consumers = {}

NULL    == -1       \* a region whose buffer a consumer took
Silence == -1       \* a zero-filled sample
Unset   == -2       \* a sample of out_buf that nobody has written

Filled   == [start : Nat, len : Nat, buf : Nat]
Region   == [start : Nat, len : Nat, buf : Nat \union {NULL}]
NoSpan   == [start |-> 0, len |-> 0]
NoPacket == [start |-> 0, len |-> 0, buf |-> NULL]

Resting  == [pc |-> "idle", pkt |-> NoSpan, scrap |-> <<>>, fresh |-> NULL]
NotReading(view) == [pc |-> "idle", win |-> NoSpan, cur |-> 0, idx |-> 1,
                     out |-> [k \in {} |-> Unset], n |-> 0, view |-> view]
NotConsuming == [pc |-> "idle", pkt |-> NoPacket]

Init ==
    /\ lock = "none"
    /\ live = <<>> /\ dead = <<>> /\ fill = 0
    /\ meta = [len |-> 0, cap |-> 0]
    /\ pool = [regions |-> 0, bufs |-> <<>>, heapRegions |-> 0, heapBufs |-> 0]
    /\ refcnt = 1 /\ holds = {Writer}
    /\ wr = Resting /\ rd = NotReading("none") /\ con = [c \in Consumers |-> NotConsuming]
    /\ fault = "none" /\ cleared = FALSE

(***************************************************************************)
(* Pools: operators from a pool to a pool                                  *)
(***************************************************************************)

\* Mutant: the pool takes buffers without a limit.
FreeBufUnbounded(p, len, buf) ==
    [p EXCEPT !.bufs = Append(@, [size |-> len, real |-> buf])]

\* free_databuf: the size put on record is computed from the packet's length.
FreeBuf(p, len, buf) ==
    IF Len(p.bufs) = PoolSize
    THEN [p EXCEPT !.heapBufs = @ - 1]
    ELSE [p EXCEPT !.bufs = Append(@, [size |-> len, real |-> buf])]

FreeRegion(p) ==
    IF p.regions = PoolSize THEN [p EXCEPT !.heapRegions = @ - 1]
                            ELSE [p EXCEPT !.regions = @ + 1]

\* Mutant: the region is freed and its buffer forgotten.
ForgetBuf(p, r) == FreeRegion(p)

DestroyRegion(p, r) ==
    FreeRegion(IF r.buf = NULL THEN p ELSE FreeBuf(p, r.len, r.buf))

\* Mutant: the last pooled buffer, large enough or not.
LastPooledBuf(i, len) == i = Len(pool.bufs)

\* alloc_databuf settles on the last pooled buffer on record as large enough
PooledBuf(i, len) ==
    /\ pool.bufs[i].size >= len
    /\ \A j \in (i + 1)..Len(pool.bufs) : pool.bufs[j].size < len

(***************************************************************************)
(* stream_write                                                            *)
(***************************************************************************)

\* 1. the scan from the tail meets a region of this stream time before an earlier one
IsDuplicate(p) ==
    \E i \in 1..Len(live) :
        /\ live[i].start = p.start
        /\ \A j \in (i + 1)..Len(live) : live[j].start > p.start

WriteEnter(p) ==
    /\ Writer \in holds /\ wr.pc = "idle" /\ lock = "none"
    /\ \/ IsDuplicate(p) /\ UNCHANGED <<lock, wr>>
       \/ ~IsDuplicate(p) /\ lock' = Writer /\ wr' = [wr EXCEPT !.pc = "evict", !.pkt = p]
    /\ UNCHANGED <<list, meta, pool, refcnt, holds, rd, con, fault, cleared>>

\* Mutant: room is made for what is in the buffer, not for the new packet.
FitsWithoutPacket == fill <= Capacity

PacketFits == fill + wr.pkt.len <= Capacity

\* 2. discard the oldest region of a full buffer; head->prev is set to NULL whether or
\*    not there is a head left
WriteEvict ==
    /\ wr.pc = "evict" /\ ~PacketFits
    /\ \/ live = <<>> /\ fault' = "assert" /\ UNCHANGED list
       \/ /\ live # <<>>
          /\ fill' = fill - Head(live).len
          /\ live' = Tail(live)
          /\ IF Len(live) = 1 THEN fault' = "null" /\ UNCHANGED dead
                              ELSE dead' = Cons(Head(live), dead) /\ UNCHANGED fault
    /\ UNCHANGED <<lock, meta, pool, refcnt, holds, wr, rd, con, cleared>>

WriteUnlock ==
    /\ wr.pc = "evict" /\ PacketFits
    /\ wr' = [wr EXCEPT !.pc = "reclaim", !.scrap = dead]
    /\ dead' = <<>> /\ lock' = "none"
    /\ UNCHANGED <<live, fill, meta, pool, refcnt, holds, rd, con, fault, cleared>>

\* 3. destroy_regions, one region at a time
Reclaim ==
    /\ wr.pc \in {"reclaim", "purge"} /\ wr.scrap # <<>>
    /\ pool' = DestroyRegion(pool, Head(wr.scrap))
    /\ wr' = [wr EXCEPT !.scrap = Tail(@)]
    /\ UNCHANGED <<lock, list, meta, refcnt, holds, rd, con, fault, cleared>>

\* 4. the region ...  The allocator may fail, which ends the call with OUT_OF_MEMORY
WriteAllocRegion ==
    /\ wr.pc = "reclaim" /\ wr.scrap = <<>>
    /\ \/ /\ pool' = IF pool.regions > 0 THEN [pool EXCEPT !.regions = @ - 1]
                                         ELSE [pool EXCEPT !.heapRegions = @ + 1]
          /\ wr' = [wr EXCEPT !.pc = "allocbuf"]
       \/ pool.regions = 0 /\ wr' = Resting /\ UNCHANGED pool
    /\ UNCHANGED <<lock, list, meta, refcnt, holds, rd, con, fault, cleared>>

\* ... and its buffer
WriteAllocBuf ==
    /\ wr.pc = "allocbuf"
    /\ \/ \E i \in 1..Len(pool.bufs) :
             /\ PooledBuf(i, wr.pkt.len)
             /\ pool' = [pool EXCEPT !.bufs = RemoveAt(@, i)]
             /\ wr' = [wr EXCEPT !.pc = "insert", !.fresh = pool.bufs[i].real]
       \/ /\ \A i \in 1..Len(pool.bufs) : pool.bufs[i].size < wr.pkt.len
          /\ \/ /\ pool' = [pool EXCEPT !.heapBufs = @ + 1]
                /\ wr' = [wr EXCEPT !.pc = "insert", !.fresh = wr.pkt.len]
             \/ pool' = FreeRegion(pool) /\ wr' = Resting
    /\ UNCHANGED <<lock, list, meta, refcnt, holds, rd, con, fault, cleared>>

\* Mutant: packets are appended in the order of their arrival.
Appends(i, p) == i = Len(live)

\* the scan from the tail stops at position i: whatever is behind it is not earlier
InsertsAfter(i, p) ==
    /\ i > 0 => live[i].start < p.start
    /\ \A j \in (i + 1)..Len(live) : live[j].start >= p.start

Waiting == {c \in Consumers : con[c].pc = "waiting"}
Woken   == {c \in Consumers : con[c].pc \in {"signaled", "canceled"}}

\* Mutant: signals only when the buffer was empty.
SignalWhenEmpty ==
    IF Waiting = {} \/ live # <<>> THEN UNCHANGED con
    ELSE \E c \in Waiting : con' = [con EXCEPT ![c].pc = "signaled"]

\* uv_cond_signal
Signal ==
    IF Waiting = {} THEN UNCHANGED con
    ELSE \E c \in Waiting : con' = [con EXCEPT ![c].pc = "signaled"]

\* 5. insert and signal
WriteInsert ==
    /\ wr.pc = "insert" /\ lock = "none"
    /\ \E i \in 0..Len(live) :
          /\ InsertsAfter(i, wr.pkt)
          /\ live' = InsertAt(live, i + 1, [start |-> wr.pkt.start, len |-> wr.pkt.len,
                                            buf |-> wr.fresh])
    /\ fill' = fill + wr.pkt.len
    /\ Signal
    /\ wr' = Resting
    /\ UNCHANGED <<lock, dead, meta, pool, refcnt, holds, rd, fault, cleared>>

(***************************************************************************)
(* stream_clear: takes both lists and the metadata array away, but leaves  *)
(* sample_fill and metadata_capacity as they are                           *)
(***************************************************************************)
Clear ==
    /\ Writer \in holds /\ wr.pc = "idle" /\ lock = "none"
    /\ wr' = [wr EXCEPT !.pc = "purge", !.scrap = live \o dead]
    /\ live' = <<>> /\ dead' = <<>>
    /\ meta' = [meta EXCEPT !.len = 0]
    /\ rd' = [rd EXCEPT !.view = IF @ = "valid" THEN "dangling" ELSE @]
    /\ cleared' = TRUE
    /\ UNCHANGED <<lock, fill, pool, refcnt, holds, con, fault>>

\* free_pools, once every region is back in them
ClearPools ==
    /\ wr.pc = "purge" /\ wr.scrap = <<>>
    /\ pool' = [regions |-> 0, bufs |-> <<>>, heapRegions |-> pool.heapRegions - pool.regions,
                heapBufs |-> pool.heapBufs - Len(pool.bufs)]
    /\ wr' = Resting
    /\ UNCHANGED <<lock, list, meta, refcnt, holds, rd, con, fault, cleared>>

(***************************************************************************)
(* stream_read                                                             *)
(***************************************************************************)
ReadEnd == EndOf(rd.win)

ReadEnter(w) ==
    /\ Reader \in holds /\ rd.pc = "idle" /\ lock = "none"
    /\ lock' = Reader
    /\ rd' = [pc |-> "past", win |-> w, cur |-> w.start, idx |-> 1,
              out |-> [k \in 0..(w.len - 1) |-> Unset], n |-> 0, view |-> "none"]
    /\ UNCHANGED <<list, meta, pool, refcnt, holds, wr, con, fault, cleared>>

\* Mutant: the region leaves the list and stays in sample_fill.
DropHeadUncounted ==
    live' = Tail(live) /\ dead' = Cons(Head(live), dead) /\ UNCHANGED fill

DropHead ==
    /\ live' = Tail(live)
    /\ fill' = fill - Head(live).len
    /\ dead' = Cons(Head(live), dead)

\* Mutant: no region is thought to be in the past.
NothingPast == FALSE

HeadPast == live # <<>> /\ rd.win.start > EndOf(Head(live))
HeadUsed == live # <<>> /\ ReadEnd > EndOf(Head(live))

\* one iteration of the loop before the copy or of the loop after it
ReadDrop ==
    /\ (rd.pc = "past" /\ HeadPast) \/ (rd.pc = "used" /\ HeadUsed)
    /\ DropHead
    /\ UNCHANGED <<lock, meta, pool, refcnt, holds, wr, rd, con, fault, cleared>>

\* ensure_metadata_capacity(n + 1) and the store into the array: after a clear the
\* capacity promises an array that is gone
GrowMetadata ==
    \/ /\ meta.cap > rd.n
       /\ fault' = IF meta.len > rd.n THEN "none" ELSE "null"
       /\ UNCHANGED meta
    \/ /\ meta.cap <= rd.n
       /\ meta' = IF meta.cap = 0 THEN [len |-> MetadataChunk, cap |-> MetadataChunk]
                                  ELSE [len |-> 2 * meta.cap, cap |-> 2 * meta.cap]
       /\ UNCHANGED fault
    \/ meta.cap <= rd.n /\ fault' = "oom" /\ UNCHANGED meta

Later(a, b)   == IF a < b THEN b ELSE a
Earlier(a, b) == IF a < b THEN a ELSE b
CopyStart(r) == Later(rd.cur, r.start)
CopyEnd(r)   == Earlier(ReadEnd, EndOf(r))

\* Mutant: a region is copied from its first sample, wherever the cursor is.
FirstSample(r) == 0

\* copy_read_sample_off
ReadOffset(r) == CopyStart(r) - r.start

\* out_buf after the gap before r was zero-filled and r's part was copied; sample i of
\* r's buffer is stream time r.start + i
CopyInto(r) ==
    LET writeOff == CopyStart(r) - rd.win.start
    IN  [k \in DOMAIN rd.out |->
            IF rd.cur - rd.win.start <= k /\ k < writeOff THEN Silence
            ELSE IF writeOff <= k /\ k < writeOff + (CopyEnd(r) - CopyStart(r))
                 THEN r.start + ReadOffset(r) + (k - writeOff)
                 ELSE rd.out[k]]

Copying == rd.pc = "copy" \/ (rd.pc = "past" /\ ~HeadPast)

\* the list is at its end, or past the end of the read, or the read is complete
NothingToCopy ==
    rd.idx <= Len(live) =>
        live[rd.idx].start > ReadEnd \/ (rd.idx > 1 /\ rd.cur = ReadEnd)

\* one iteration of the copy loop; a region that ends before the cursor would be copied
\* with a negative length
ReadCopy ==
    /\ Copying /\ ~NothingToCopy
    /\ LET r == live[rd.idx]
       IN  IF CopyEnd(r) < CopyStart(r)
           THEN fault' = "memcpy" /\ UNCHANGED <<meta, rd>>
           ELSE /\ GrowMetadata
                /\ rd' = [rd EXCEPT !.pc = "copy", !.n = @ + 1, !.out = CopyInto(r),
                                    !.cur = CopyEnd(r), !.idx = @ + 1]
    /\ UNCHANGED <<lock, list, pool, refcnt, holds, wr, con, cleared>>

\* Mutant: the end of the output buffer is left as it is.
LeaveTail == rd.out

ZeroTail == [k \in DOMAIN rd.out |-> IF rd.cur - rd.win.start <= k THEN Silence ELSE rd.out[k]]

\* a dropout from the cursor to the end of the buffer
ReadFill ==
    /\ Copying /\ NothingToCopy
    /\ rd' = [rd EXCEPT !.pc = "used", !.out = ZeroTail]
    /\ UNCHANGED <<lock, list, meta, pool, refcnt, holds, wr, con, fault, cleared>>

ReadUnlock ==
    /\ rd.pc = "used" /\ ~HeadUsed
    /\ lock' = "none"
    /\ rd' = [rd EXCEPT !.pc = "return"]
    /\ UNCHANGED <<list, meta, pool, refcnt, holds, wr, con, fault, cleared>>

\* the metadata pointer is fetched after the lock was released
ReadReturn ==
    /\ rd.pc = "return"
    /\ rd' = NotReading(IF rd.n = 0 THEN "none" ELSE IF meta.len > 0 THEN "valid" ELSE "null")
    /\ UNCHANGED <<lock, list, meta, pool, refcnt, holds, wr, con, fault, cleared>>

(***************************************************************************)
(* stream_consume_packet, stream_destroy_packet, stream_cancel_consume     *)
(***************************************************************************)

\* Mutant: the newest packet is taken.
TakeNewest(c) ==
    /\ con' = [con EXCEPT ![c] = [pc |-> "holding", pkt |-> Last(live)]]
    /\ live' = Front(live)
    /\ fill' = fill - Last(live).len
    /\ dead' = Cons([Last(live) EXCEPT !.buf = NULL], dead)

\* the head's buffer moves to the packet, the bare region to the dead list
TakeHead(c) ==
    /\ con' = [con EXCEPT ![c] = [pc |-> "holding", pkt |-> Head(live)]]
    /\ live' = Tail(live)
    /\ fill' = fill - Head(live).len
    /\ dead' = Cons([Head(live) EXCEPT !.buf = NULL], dead)

\* a call with nothing to take sleeps; uv_cond_wait is called once and not in a loop, so
\* a call that wakes up with nothing to take returns RC__STATUS_CANCELED
Consume(c, from, otherwise) ==
    /\ con[c].pc \in from /\ lock = "none"
    /\ \/ live # <<>> /\ TakeHead(c)
       \/ live = <<>> /\ con' = [con EXCEPT ![c].pc = otherwise] /\ UNCHANGED list
    /\ UNCHANGED <<lock, meta, pool, refcnt, holds, wr, rd, fault, cleared>>

ConsumeEnter(c) == c \in holds /\ Consume(c, {"idle"}, "waiting")
ConsumeWake(c)  == Consume(c, {"signaled", "canceled"}, "idle")

\* uv_cond_wait may return without a signal
SpuriousWakeup(c) ==
    /\ con[c].pc = "waiting"
    /\ con' = [con EXCEPT ![c].pc = "signaled"]
    /\ UNCHANGED <<lock, list, meta, pool, refcnt, holds, wr, rd, fault, cleared>>

DestroyPacket(c) ==
    /\ con[c].pc = "holding"
    /\ pool' = FreeBuf(pool, con[c].pkt.len, con[c].pkt.buf)
    /\ con' = [con EXCEPT ![c] = NotConsuming]
    /\ UNCHANGED <<lock, list, meta, refcnt, holds, wr, rd, fault, cleared>>

\* uv_cond_broadcast; a call that was already on its way out counts as canceled too
CancelConsume ==
    /\ Waiting \union Woken # {} /\ lock = "none"
    /\ con' = [c \in Consumers |-> IF c \in Waiting \union Woken
                                   THEN [con[c] EXCEPT !.pc = "canceled"] ELSE con[c]]
    /\ UNCHANGED <<lock, list, meta, pool, refcnt, holds, wr, rd, fault, cleared>>

(***************************************************************************)
(* stream_incref, stream_decref                                            *)
(***************************************************************************)

\* the writer's session hands the stream to an output (the plugin's start)
Incref(t) ==
    /\ Writer \in holds /\ wr.pc = "idle" /\ t \notin holds /\ lock = "none"
    /\ refcnt' = refcnt + 1
    /\ holds' = holds \union {t}
    /\ UNCHANGED <<lock, list, meta, pool, wr, rd, con, fault, cleared>>

AtRest(t) == IF t = Writer THEN wr.pc = "idle"
             ELSE IF t = Reader THEN rd.pc = "idle" ELSE con[t].pc = "idle"

WithBuf(s) == Cardinality({i \in DOMAIN s : s[i].buf # NULL})

\* a thread at rest gives its reference up; the last one destroys the stream
Decref(t) ==
    /\ t \in holds /\ AtRest(t) /\ lock = "none"
    /\ refcnt' = refcnt - 1
    /\ holds' = holds \ {t}
    /\ rd' = IF t = Reader THEN NotReading("none") ELSE rd
    /\ IF refcnt = 1
       THEN /\ live' = <<>> /\ dead' = <<>> /\ fill' = 0
            /\ meta' = [len |-> 0, cap |-> 0]
            /\ pool' = [regions |-> 0, bufs |-> <<>>,
                        heapRegions |-> pool.heapRegions
                                        - (Len(live) + Len(dead) + pool.regions),
                        heapBufs |-> pool.heapBufs
                                     - (WithBuf(live) + WithBuf(dead) + Len(pool.bufs))]
       ELSE UNCHANGED <<list, meta, pool>>
    /\ UNCHANGED <<lock, wr, con, fault, cleared>>

-----------------------------------------------------------------------------

\* what a thread does inside a call it has begun
WriterContinues ==
    WriteEvict \/ WriteUnlock \/ Reclaim \/ WriteAllocRegion \/ WriteAllocBuf
    \/ WriteInsert \/ ClearPools

ReaderContinues == ReadDrop \/ ReadCopy \/ ReadFill \/ ReadUnlock \/ ReadReturn

WriterNext == (\E p \in Packets : WriteEnter(p)) \/ Clear \/ WriterContinues
ReaderNext == (\E w \in Windows : ReadEnter(w)) \/ ReaderContinues
ConsumerNext(c) == ConsumeEnter(c) \/ SpuriousWakeup(c) \/ ConsumeWake(c) \/ DestroyPacket(c)

\* nothing happens in a process that died, or to a stream that was destroyed
Next ==
    /\ fault = "none" /\ refcnt > 0
    /\ \/ WriterNext
       \/ ReaderNext
       \/ \E c \in Consumers : ConsumerNext(c)
       \/ CancelConsume
       \/ \E t \in Threads : Incref(t) \/ Decref(t)

Spec == Init /\ [][Next]_vars

Step(A) == fault = "none" /\ refcnt > 0 /\ A

\* A call in progress finishes: its thread is scheduled, and the mutex does not starve
\* it (a step that takes the lock is enabled only while the lock is free, hence strong
\* fairness).  Nothing makes a thread begin a call.
FairSpec ==
    /\ Spec
    /\ SF_vars(Step(WriterContinues))
    /\ WF_vars(Step(ReaderContinues))
    /\ \A c \in Consumers : SF_vars(Step(ConsumeWake(c)))

-----------------------------------------------------------------------------
(***************************************************************************)
(* Properties                                                              *)
(***************************************************************************)

ListsOK == live \in Seq(Filled) /\ dead \in Seq(Region) /\ fill \in Int

PoolOK(p) ==
    /\ p \in [regions : Nat, bufs : Seq([size : Nat, real : Nat]),
              heapRegions : Int, heapBufs : Int]
    /\ p.regions <= PoolSize /\ Len(p.bufs) <= PoolSize

WriterOK ==
    /\ wr \in [pc : {"idle", "evict", "reclaim", "allocbuf", "insert", "purge"},
               pkt : Span, scrap : Seq(Region), fresh : Nat \union {NULL}]
    /\ wr.pc = "insert" => wr.fresh \in Nat

ReadOf(n) == [pc : {"idle", "past", "copy", "used", "return"}, win : Span, cur : Nat,
              idx : Nat \ {0}, out : [0..(n - 1) -> Int], n : Nat,
              view : {"none", "valid", "dangling", "null"}]

ReaderOK ==
    /\ rd \in ReadOf(rd.win.len)
    /\ meta \in [len : Nat, cap : Nat]

ConsumersOK ==
    /\ con \in [Consumers -> [pc : {"idle", "waiting", "signaled", "canceled", "holding"},
                              pkt : Region]]
    /\ \A c \in Consumers : con[c].pc = "holding" => con[c].pkt \in Filled

TypeOK ==
    /\ ListsOK /\ PoolOK(pool) /\ WriterOK /\ ReaderOK /\ ConsumersOK
    /\ lock \in {"none", Writer, Reader}
    /\ refcnt \in Nat /\ holds \subseteq Threads
    /\ fault \in {"none", "assert", "null", "memcpy", "oom"} /\ cleared \in BOOLEAN

\* the samples of a list, each by its region and its place in it
Samples(s) == UNION {{i} \X (0..(s[i].len - 1)) : i \in DOMAIN s}

\* sample_fill counts exactly the samples of the regions on the list, through every
\* overrun, read, consume and late insert -- as long as nobody calls stream_clear.
FillAccounting == ~cleared => fill = Cardinality(Samples(live))

\* The buffer never holds more than sample_capacity, although the writer makes room in
\* one critical section and inserts in another, with reads and consumes in between.
CapacityBound == fill <= Capacity

\* The list stays in strict timeline order: the duplicate check of one critical section
\* still holds when the packet is inserted by the next.
LiveSorted == \A i, j \in 1..Len(live) : i < j => live[i].start < live[j].start

Covers(r, t) == r.start <= t /\ t < EndOf(r)
Buffered(t)  == \E i \in 1..Len(live) : Covers(live[i], t)

\* When the copy loop is over, a sample of the output buffer is the stream's sample at
\* that time if any region holds it, and what is left to the tail dropout is not in the
\* buffer: no region is skipped, doubled or shifted by a gap, an overlap or a late packet.
ReadExact ==
    (Copying /\ NothingToCopy) =>
        \A k \in DOMAIN rd.out :
            LET t == rd.win.start + k
            IN  IF Buffered(t) THEN t < rd.cur /\ rd.out[k] = t
                               ELSE t >= rd.cur \/ rd.out[k] = Silence

\* stream_read returns a buffer all of whose samples were written, each with the sample
\* that belongs there or with silence.
ReadFilled ==
    rd.pc \in {"used", "return"} =>
        \A k \in DOMAIN rd.out : rd.out[k] \in {Silence, rd.win.start + k}

\* Every region and every sample buffer obtained from the allocator is in exactly one
\* place: the live list, the dead list, the writer's hands, a pool, a consumer's packet.
\* With refcnt = 0 this says that destroy has returned them all.
MemoryConserved ==
    fault = "none" =>
        /\ pool.heapRegions = Len(live) + Len(dead) + Len(wr.scrap) + pool.regions
                              + (IF wr.pc \in {"allocbuf", "insert"} THEN 1 ELSE 0)
        /\ pool.heapBufs = WithBuf(live) + WithBuf(dead) + WithBuf(wr.scrap) + Len(pool.bufs)
                           + (IF wr.pc = "insert" THEN 1 ELSE 0)
                           + Cardinality({c \in Consumers : con[c].pc = "holding"})

\* A recycled buffer is never smaller than the packet copied into it, although the pool
\* records the size of a buffer's last packet rather than the buffer's own.
BufferFits == wr.pc = "insert" => wr.fresh >= wr.pkt.len

\* It is never for ever that a consumer sleeps while the buffer has a packet to take: one signal
\* for each insert is enough, whoever takes the packet.
SleeperServed == []<>(Waiting = {} \/ live = <<>> \/ fault # "none")

\* Any two packets fit in the buffer together.
Roomy == \A p, q \in Packets : p.len + q.len <= Capacity

\* With room for two packets, an overrun never unlinks the last region, and as no packet lies
\* within another (PacketsAssumption) the copy loop never runs backwards: no assertion fails
\* and no NULL pointer is used before the first stream_clear.
NoCrash == (Roomy /\ ~cleared) => fault \notin {"assert", "null", "memcpy"}

\* Nothing that the stream holds is lost count of: neither samples nor memory.
Accounted == FillAccounting /\ MemoryConserved

\* Nothing is written or read beyond a buffer or through NULL, and no assertion fails.
MemorySafe == BufferFits /\ NoCrash

SpanOf(r) == [start |-> r.start, len |-> r.len]
Spans(l)  == {SpanOf(l[i]) : i \in DOMAIN l}

Timeline == INSTANCE TimelineBuffer WITH buffered <- Spans(live)

\* The stream implements the abstract timeline buffer.
ImplementsTimeline == Timeline!Spec

\* raat_stream.c:266 asserts that a full buffer has a region to discard.
OverrunHasARegion == fault # "assert"

-----------------------------------------------------------------------------
(***************************************************************************)
(* What the header says, and the code does not keep                        *)
(***************************************************************************)
\* raat_stream.h:146 says of the metadata that stream_read returns: "This pointer is valid
\* until stream_read is called again or the stream is destroyed".
MetadataStaysValid == rd.view \notin {"dangling", "null"}

\* raat_stream.h:215 says that a consume call "can be canceled", "Otherwise the method will
\* return RC__STATUS_SUCCESS".
CanceledOnlyByCancel ==
    [][\A c \in Consumers : con[c].pc = "signaled" => con'[c].pc # "idle"]_con

=============================================================================
