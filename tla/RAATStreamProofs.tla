--------------------------- MODULE RAATStreamProofs ---------------------------
(***************************************************************************)
(* Proofs about the stream, for every number of consumers, every set of    *)
(* packets and windows, and every size of buffer and pools.                *)
(***************************************************************************)
EXTENDS RAATStream, ListLemmas

-----------------------------------------------------------------------------
(***************************************************************************)
(* Types                                                                   *)
(***************************************************************************)

\* free_databuf keeps the pool within its size.
LEMMA FreeBufType ==
    ASSUME NEW p, PoolOK(p), NEW len \in Nat, NEW buf \in Nat
    PROVE  PoolOK(FreeBuf(p, len, buf))
<1> DEFINE b == [size |-> len, real |-> buf]
<1>1. b \in [size : Nat, real : Nat] /\ p.bufs \in Seq([size : Nat, real : Nat])
      /\ Len(p.bufs) \in Nat /\ PoolSize \in Nat
  BY SizesAssumption, LenProperties DEF PoolOK
<1>2. CASE Len(p.bufs) = PoolSize
  <2> DEFINE n == p.heapBufs - 1
  <2>1. FreeBuf(p, len, buf) = [p EXCEPT !.heapBufs = n]
    BY <1>2, Zenon DEF FreeBuf
  <2>2. n \in Int
    BY DEF PoolOK
  <2> HIDE DEF b, n
  <2> QED  BY <2>1, <2>2 DEF PoolOK
<1>3. CASE Len(p.bufs) # PoolSize
  <2>1. Append(p.bufs, b) \in Seq([size : Nat, real : Nat])
        /\ Len(Append(p.bufs, b)) = Len(p.bufs) + 1
    BY <1>1, AppendProperties
  <2>2. Len(p.bufs) + 1 <= PoolSize
    BY <1>1, <1>3 DEF PoolOK
  <2>3. FreeBuf(p, len, buf) = [p EXCEPT !.bufs = Append(p.bufs, b)]
    BY <1>3 DEF FreeBuf
  <2> HIDE DEF b
  <2> QED  BY <2>1, <2>2, <2>3 DEF PoolOK
<1> QED  BY <1>2, <1>3

\* free_region keeps the pool within its size.
LEMMA FreeRegionType ==
    ASSUME NEW p, PoolOK(p)
    PROVE  PoolOK(FreeRegion(p))
BY SizesAssumption DEF PoolOK, FreeRegion

\* So does destroy_region.
LEMMA DestroyRegionType ==
    ASSUME NEW p, PoolOK(p), NEW r \in Region
    PROVE  PoolOK(DestroyRegion(p, r))
<1>1. CASE r.buf = NULL
  BY <1>1, FreeRegionType DEF DestroyRegion
<1>2. CASE r.buf # NULL
  <2>1. r.len \in Nat /\ r.buf \in Nat
    BY <1>2 DEF Region
  <2> QED  BY <1>2, <2>1, FreeBufType, FreeRegionType DEF DestroyRegion
<1> QED  BY <1>1, <1>2

\* What the type invariant says of the head of the list.
LEMMA HeadType ==
    ASSUME ListsOK, live # <<>>
    PROVE  /\ Head(live) \in Filled /\ Head(live) \in Region /\ Head(live).len \in Nat
           /\ Tail(live) \in Seq(Filled)
<1>1. Head(live) \in Filled /\ Tail(live) \in Seq(Filled)
  BY HeadTailProperties DEF ListsOK
<1>2. \A r \in Filled : r \in Region /\ r.len \in Nat
  BY DEF Filled, Region
<1> QED  BY <1>1, <1>2

\* What the type invariant says of the members of the list.
LEMMA LiveTypes ==
    ASSUME ListsOK
    PROVE  /\ Len(live) \in Nat
           /\ \A i \in 1..Len(live) :
                 live[i] \in Filled /\ live[i].start \in Nat /\ live[i].len \in Nat
<1>1. \A i \in 1..Len(live) : live[i] \in Filled
  BY ElementOfSeq DEF ListsOK
<1>2. \A r \in Filled : r.start \in Nat /\ r.len \in Nat
  BY DEF Filled
<1> QED  BY <1>1, <1>2, LenProperties DEF ListsOK

\* A part of the state that a step leaves alone keeps its type.
LEMMA Kept ==
    ASSUME TypeOK
    PROVE  /\ UNCHANGED list => ListsOK'
           /\ UNCHANGED pool => PoolOK(pool)'
           /\ UNCHANGED wr => WriterOK'
           /\ UNCHANGED <<rd, meta>> => ReaderOK'
           /\ UNCHANGED con => ConsumersOK'
           /\ UNCHANGED <<lock, refcnt, holds, fault, cleared>> =>
                /\ lock' \in {"none", Writer, Reader}
                /\ refcnt' \in Nat /\ holds' \subseteq Threads
                /\ fault' \in {"none", "assert", "null", "memcpy", "oom"}
                /\ cleared' \in BOOLEAN
BY DEF TypeOK, list, ListsOK, PoolOK, WriterOK, ReaderOK, ConsumersOK

\* The writer's calls keep every part of the state in its type.
LEMMA WriterTypeStep ==
    ASSUME TypeOK, WriterNext
    PROVE  TypeOK'
<1>1. ASSUME NEW p \in Packets, WriteEnter(p) PROVE TypeOK'
  <2>1. WriterOK'
    BY <1>1, PacketsAssumption DEF WriteEnter, TypeOK, WriterOK
  <2> QED  BY <1>1, <2>1, Kept DEF WriteEnter, TypeOK, list
<1>2. CASE WriteEvict
  <2>1. ListsOK'
    <3>1. CASE live = <<>>
      BY <1>2, <3>1 DEF WriteEvict, TypeOK, ListsOK, list
    <3>2. CASE live # <<>>
      <4>1. dead' = dead \/ dead' = Cons(Head(live), dead)
        BY <1>2, <3>2 DEF WriteEvict
      <4>2. dead' \in Seq(Region)
        BY <4>1, <3>2, HeadType, ConsProperties DEF TypeOK, ListsOK
      <4>3. live' = Tail(live) /\ fill' = fill - Head(live).len
        BY <1>2, <3>2 DEF WriteEvict
      <4>4. fill \in Int /\ Head(live).len \in Nat /\ Tail(live) \in Seq(Filled)
        BY <3>2, HeadType DEF TypeOK, ListsOK
      <4> QED  BY <4>2, <4>3, <4>4 DEF ListsOK
    <3> QED  BY <3>1, <3>2
  <2>2. fault' \in {"none", "assert", "null", "memcpy", "oom"}
    BY <1>2 DEF WriteEvict, TypeOK
  <2> QED  BY <1>2, <2>1, <2>2, Kept DEF WriteEvict, TypeOK
<1>3. CASE WriteUnlock
  <2>1. ListsOK' /\ WriterOK'
    BY <1>3, EmptySeq DEF WriteUnlock, TypeOK, ListsOK, WriterOK
  <2> QED  BY <1>3, <2>1, Kept DEF WriteUnlock, TypeOK
<1>4. CASE Reclaim
  <2>1. Head(wr.scrap) \in Region /\ Tail(wr.scrap) \in Seq(Region)
    BY <1>4, HeadTailProperties DEF Reclaim, TypeOK, WriterOK
  <2>2. PoolOK(pool)' /\ WriterOK'
    BY <1>4, <2>1, DestroyRegionType DEF Reclaim, TypeOK, WriterOK
  <2> QED  BY <1>4, <2>2, Kept DEF Reclaim, TypeOK
<1>5. CASE WriteAllocRegion
  <2>1. WriterOK'
    BY <1>5, EmptySeq DEF WriteAllocRegion, TypeOK, WriterOK, Resting, NoSpan, Span, NULL
  <2>2. PoolOK(pool)'
    <3>1. \/ pool' = [pool EXCEPT !.regions = @ - 1] /\ pool.regions > 0
          \/ pool' = [pool EXCEPT !.heapRegions = @ + 1]
          \/ pool' = pool
      BY <1>5 DEF WriteAllocRegion
    <3> QED  BY <3>1, SizesAssumption DEF TypeOK, PoolOK
  <2> QED  BY <1>5, <2>1, <2>2, Kept DEF WriteAllocRegion, TypeOK
<1>6. CASE WriteAllocBuf
  <2>1. ASSUME NEW i \in 1..Len(pool.bufs),
               pool' = [pool EXCEPT !.bufs = RemoveAt(@, i)],
               wr' = [wr EXCEPT !.pc = "insert", !.fresh = pool.bufs[i].real]
        PROVE  PoolOK(pool)' /\ WriterOK'
    <3>1. pool.bufs \in Seq([size : Nat, real : Nat])
      BY DEF TypeOK, PoolOK
    <3>2. pool.bufs[i].real \in Nat
      <4>1. pool.bufs[i] \in [size : Nat, real : Nat]
        BY <3>1, ElementOfSeq
      <4> QED  BY <4>1
    <3>3. RemoveAt(pool.bufs, i) \in Seq([size : Nat, real : Nat])
          /\ Len(RemoveAt(pool.bufs, i)) = Len(pool.bufs) - 1 /\ Len(pool.bufs) \in Nat
      BY <3>1, RemoveAtProperties, LenProperties
    <3>4. Len(pool.bufs) - 1 <= PoolSize
      BY <3>3, SizesAssumption DEF TypeOK, PoolOK
    <3>5. PoolOK(pool)'
      BY <2>1, <3>3, <3>4 DEF TypeOK, PoolOK
    <3>6. WriterOK'
      BY <2>1, <3>2 DEF TypeOK, WriterOK
    <3> QED  BY <3>5, <3>6
  <2>2. ASSUME pool' = [pool EXCEPT !.heapBufs = @ + 1],
               wr' = [wr EXCEPT !.pc = "insert", !.fresh = wr.pkt.len]
        PROVE  PoolOK(pool)' /\ WriterOK'
    <3>1. wr.pkt.len \in Nat
      BY DEF TypeOK, WriterOK, Span
    <3>2. PoolOK(pool)'
      BY <2>2, SMTT(30) DEF TypeOK, PoolOK
    <3>3. WriterOK'
      BY <2>2, <3>1 DEF TypeOK, WriterOK
    <3> QED  BY <3>2, <3>3
  <2>3. ASSUME pool' = FreeRegion(pool), wr' = Resting
        PROVE  PoolOK(pool)' /\ WriterOK'
    BY <2>3, FreeRegionType, EmptySeq DEF TypeOK, WriterOK, Resting, NoSpan, Span, NULL
  <2>4. PoolOK(pool)' /\ WriterOK'
    BY <1>6, <2>1, <2>2, <2>3 DEF WriteAllocBuf
  <2> QED  BY <1>6, <2>4, Kept DEF WriteAllocBuf, TypeOK
<1>7. CASE WriteInsert
  <2>1. ListsOK'
    <3>1. PICK i \in 0..Len(live) :
            live' = InsertAt(live, i + 1, [start |-> wr.pkt.start, len |-> wr.pkt.len,
                                           buf |-> wr.fresh])
      BY <1>7 DEF WriteInsert
    <3>2. [start |-> wr.pkt.start, len |-> wr.pkt.len, buf |-> wr.fresh] \in Filled
          /\ wr.pkt.len \in Nat
      BY <1>7 DEF WriteInsert, TypeOK, WriterOK, Span, Filled
    <3>3. live' \in Seq(Filled)
      BY <3>1, <3>2, InsertAtProperties DEF TypeOK, ListsOK
    <3> QED  BY <1>7, <3>2, <3>3 DEF WriteInsert, TypeOK, ListsOK
  <2>2. WriterOK'
    BY <1>7, EmptySeq DEF WriteInsert, WriterOK, Resting, NoSpan, Span, NULL
  <2>3. ConsumersOK'
    BY <1>7 DEF WriteInsert, Signal, Waiting, TypeOK, ConsumersOK
  <2> QED  BY <1>7, <2>1, <2>2, <2>3, Kept DEF WriteInsert, TypeOK
<1>8. CASE Clear
  <2>1. live \o dead \in Seq(Region)
    <3>1. Filled \subseteq Region
      BY DEF Filled, Region
    <3>2. live \in Seq(Region) /\ dead \in Seq(Region)
      BY <3>1, SeqMonotonic DEF TypeOK, ListsOK
    <3> QED  BY <3>2, ConcatProperties
  <2>2. ListsOK'
    BY <1>8, EmptySeq DEF Clear, TypeOK, ListsOK
  <2>3. WriterOK'
    BY <1>8, <2>1 DEF Clear, TypeOK, WriterOK
  <2>4. ReaderOK'
    BY <1>8 DEF Clear, TypeOK, ReaderOK, ReadOf
  <2> QED  BY <1>8, <2>2, <2>3, <2>4, Kept DEF Clear, TypeOK
<1>9. CASE ClearPools
  <2>1. Len(pool.bufs) \in Nat
    BY LenProperties DEF TypeOK, PoolOK
  <2>2. PoolOK(pool)'
    BY <1>9, <2>1, EmptySeq, SizesAssumption DEF ClearPools, TypeOK, PoolOK
  <2>3. WriterOK'
    BY <1>9, EmptySeq DEF ClearPools, WriterOK, Resting, NoSpan, Span, NULL
  <2> QED  BY <1>9, <2>2, <2>3, Kept DEF ClearPools, TypeOK
<1> QED  BY <1>1, <1>2, <1>3, <1>4, <1>5, <1>6, <1>7, <1>8, <1>9
         DEF WriterNext, WriterContinues

\* A reader outside of stream_read is of its type.
LEMMA NotReadingType ==
    ASSUME NEW view \in {"none", "valid", "dangling", "null"}
    PROVE  /\ NotReading(view) \in ReadOf(0)
           /\ NotReading(view).win.len = 0
<1>1. 0..(0 - 1) = {}
  OBVIOUS
<1>2. [k \in {} |-> Unset] \in [0..(0 - 1) -> Int]
  BY <1>1
<1> QED  BY <1>2 DEF NotReading, ReadOf, NoSpan, Span

\* Copying and dropping keep the reader's part of the state in its type.
LEMMA CopyType ==
    ASSUME TypeOK, NEW r \in Filled
    PROVE  /\ CopyStart(r) \in Nat /\ CopyEnd(r) \in Nat
           /\ CopyInto(r) \in [0..(rd.win.len - 1) -> Int]
           /\ rd.win.start \in Nat /\ rd.win.len \in Nat
           /\ rd.out \in [0..(rd.win.len - 1) -> Int]
<1>1. /\ rd.win.start \in Nat /\ rd.win.len \in Nat /\ rd.cur \in Nat
      /\ rd.out \in [0..(rd.win.len - 1) -> Int]
  BY DEF TypeOK, ReaderOK, ReadOf, Span
<1>2. r.start \in Nat /\ r.len \in Nat
  BY DEF Filled
<1>3. CopyStart(r) \in Nat /\ CopyEnd(r) \in Nat
  BY <1>1, <1>2 DEF CopyStart, CopyEnd, Later, Earlier, ReadEnd, EndOf
<1>4. ASSUME NEW k \in DOMAIN rd.out PROVE CopyInto(r)[k] \in Int
  <2>1. /\ k \in Int /\ rd.out[k] \in Int /\ Silence \in Int
        /\ r.start + ReadOffset(r) + (k - (CopyStart(r) - rd.win.start)) \in Int
    <3>1. DOMAIN rd.out = 0..(rd.win.len - 1)
      BY <1>1
    <3>2. k \in Int /\ rd.out[k] \in Int
      BY <3>1, <1>1
    <3> QED  BY <1>1, <1>2, <1>3, <3>2, SMTT(30) DEF ReadOffset, Silence
  <2> QED  BY <2>1 DEF CopyInto
<1>5. CopyInto(r) = [k \in DOMAIN rd.out |-> CopyInto(r)[k]]
  BY DEF CopyInto
<1> QED  BY <1>1, <1>3, <1>4, <1>5

\* The reader's calls keep every part of the state in its type.
LEMMA ReaderTypeStep ==
    ASSUME TypeOK, ReaderNext
    PROVE  TypeOK'
<1>1. ASSUME NEW w \in Windows, ReadEnter(w) PROVE TypeOK'
  <2>1. w \in Span /\ w.start \in Nat /\ w.len \in Nat
    BY SizesAssumption DEF Span
  <2>2. [k \in 0..(w.len - 1) |-> Unset] \in [0..(w.len - 1) -> Int]
    BY DEF Unset
  <2>3. ReaderOK'
    <3> DEFINE new == [pc |-> "past", win |-> w, cur |-> w.start, idx |-> 1,
                       out |-> [k \in 0..(w.len - 1) |-> Unset], n |-> 0, view |-> "none"]
    <3>1. new \in ReadOf(w.len) /\ new.win = w
      BY <2>1, <2>2 DEF ReadOf
    <3>2. rd' = new /\ meta' = meta
      BY <1>1 DEF ReadEnter
    <3> HIDE DEF new
    <3> QED  BY <3>1, <3>2 DEF TypeOK, ReaderOK
  <2> QED  BY <1>1, <2>3, Kept DEF ReadEnter, TypeOK, list
<1>2. CASE ReadDrop
  <2>1. live # <<>>
    BY <1>2 DEF ReadDrop, HeadPast, HeadUsed
  <2>2. ListsOK'
    <3>1. /\ live' = Tail(live) /\ dead' = Cons(Head(live), dead)
          /\ fill' = fill - Head(live).len
      BY <1>2 DEF ReadDrop, DropHead
    <3>2. dead' \in Seq(Region)
      BY <3>1, <2>1, HeadType, ConsProperties DEF TypeOK, ListsOK
    <3> QED  BY <3>1, <3>2, <2>1, HeadType DEF TypeOK, ListsOK
  <2> QED  BY <1>2, <2>2, Kept DEF ReadDrop, TypeOK
<1>3. CASE ReadCopy
  <2>1. rd.idx \in 1..Len(live)
    <3>1. Len(live) \in Nat /\ rd.idx \in Nat \ {0}
      BY LenProperties DEF TypeOK, ListsOK, ReaderOK, ReadOf
    <3>2. rd.idx <= Len(live)
      BY <1>3 DEF ReadCopy, NothingToCopy
    <3> QED  BY <3>1, <3>2
  <2>2. live[rd.idx] \in Filled
    BY <2>1, ElementOfSeq DEF TypeOK, ListsOK
  <2> DEFINE r == live[rd.idx]
  <2>3. \/ fault' = "memcpy" /\ UNCHANGED <<meta, rd>>
        \/ /\ GrowMetadata
           /\ rd' = [rd EXCEPT !.pc = "copy", !.n = @ + 1, !.out = CopyInto(r),
                               !.cur = CopyEnd(r), !.idx = @ + 1]
    BY <1>3 DEF ReadCopy
  <2>4. fault' \in {"none", "assert", "null", "memcpy", "oom"}
    BY <2>3 DEF GrowMetadata, TypeOK
  <2>5. CASE UNCHANGED <<meta, rd>>
    BY <1>3, <2>4, <2>5, Kept DEF ReadCopy, TypeOK
  <2>6. CASE /\ GrowMetadata
             /\ rd' = [rd EXCEPT !.pc = "copy", !.n = @ + 1, !.out = CopyInto(r),
                                 !.cur = CopyEnd(r), !.idx = @ + 1]
    <3>1. meta' \in [len : Nat, cap : Nat]
      BY <2>6, SizesAssumption DEF GrowMetadata, TypeOK, ReaderOK
    <3>2. /\ rd'.win = rd.win /\ CopyInto(r) \in [0..(rd.win.len - 1) -> Int]
          /\ CopyEnd(r) \in Nat
      BY <2>2, <2>6, CopyType DEF TypeOK, ReaderOK, ReadOf
    <3> HIDE DEF r
    <3>3. rd' \in ReadOf(rd.win.len)
      <4>1. rd.n \in Nat /\ rd.idx \in Nat \ {0} /\ rd \in ReadOf(rd.win.len)
        BY DEF TypeOK, ReaderOK, ReadOf
      <4> DEFINE out == CopyInto(r)
                 cur == CopyEnd(r)
      <4>2. rd' = [rd EXCEPT !.pc = "copy", !.n = @ + 1, !.out = out, !.cur = cur, !.idx = @ + 1]
        BY <2>6
      <4>3. out \in [0..(rd.win.len - 1) -> Int] /\ cur \in Nat
        BY <3>2
      <4> DEFINE T == [0..(rd.win.len - 1) -> Int]
      <4>4. /\ rd \in [pc : {"idle", "past", "copy", "used", "return"}, win : Span, cur : Nat,
                       idx : Nat \ {0}, out : T, n : Nat,
                       view : {"none", "valid", "dangling", "null"}]
            /\ out \in T
        BY <4>1, <4>3 DEF ReadOf
      <4> HIDE DEF out, cur, T
      <4>5. rd' \in [pc : {"idle", "past", "copy", "used", "return"}, win : Span, cur : Nat,
                     idx : Nat \ {0}, out : T, n : Nat,
                     view : {"none", "valid", "dangling", "null"}]
        <5>1. rd' = [pc |-> "copy", win |-> rd.win, cur |-> cur, idx |-> rd.idx + 1,
                     out |-> out, n |-> rd.n + 1, view |-> rd.view]
          BY <4>2, <4>4
        <5>2. rd.idx + 1 \in Nat \ {0} /\ rd.n + 1 \in Nat /\ rd.win \in Span
              /\ rd.view \in {"none", "valid", "dangling", "null"}
          BY <4>1, <4>4
        <5> QED  BY <5>1, <5>2, <4>3, <4>4
      <4> QED  BY <4>5 DEF ReadOf, T
    <3>4. ReaderOK'
      BY <3>1, <3>2, <3>3 DEF ReaderOK
    <3> QED  BY <1>3, <2>4, <3>4, Kept DEF ReadCopy, TypeOK
  <2> QED  BY <2>3, <2>5, <2>6
<1>4. CASE ReadFill
  <2>1. ZeroTail \in [0..(rd.win.len - 1) -> Int]
    <3>1. rd.out \in [0..(rd.win.len - 1) -> Int]
      BY DEF TypeOK, ReaderOK, ReadOf
    <3>2. ASSUME NEW k \in DOMAIN rd.out PROVE ZeroTail[k] \in Int
      <4>1. DOMAIN rd.out = 0..(rd.win.len - 1)
        BY <3>1
      <4>2. rd.out[k] \in Int
        BY <3>1, <4>1
      <4> QED  BY <4>2 DEF ZeroTail, Silence
    <3>3. ZeroTail = [k \in DOMAIN rd.out |-> ZeroTail[k]]
      BY DEF ZeroTail
    <3> QED  BY <3>1, <3>2, <3>3
  <2>2. ReaderOK'
    BY <1>4, <2>1 DEF ReadFill, TypeOK, ReaderOK, ReadOf
  <2> QED  BY <1>4, <2>2, Kept DEF ReadFill, TypeOK
<1>5. CASE ReadUnlock
  <2>1. ReaderOK'
    BY <1>5 DEF ReadUnlock, TypeOK, ReaderOK, ReadOf
  <2> QED  BY <1>5, <2>1, Kept DEF ReadUnlock, TypeOK
<1>6. CASE ReadReturn
  <2>1. ReaderOK'
    BY <1>6, NotReadingType DEF ReadReturn, TypeOK, ReaderOK
  <2> QED  BY <1>6, <2>1, Kept DEF ReadReturn, TypeOK
<1> QED  BY <1>1, <1>2, <1>3, <1>4, <1>5, <1>6 DEF ReaderNext, ReaderContinues

\* Consumers, cancellation and reference counting keep every part of the state in its type.
LEMMA OthersTypeStep ==
    ASSUME TypeOK, refcnt > 0,
           \/ \E c \in Consumers : ConsumerNext(c)
           \/ CancelConsume
           \/ \E t \in Threads : Incref(t) \/ Decref(t)
    PROVE  TypeOK'
<1>1. ASSUME NEW c \in Consumers, NEW from, NEW otherwise \in {"idle", "waiting"},
             Consume(c, from, otherwise)
      PROVE  TypeOK'
  <2>1. CASE live # <<>> /\ TakeHead(c)
    <3>1. [Head(live) EXCEPT !.buf = NULL] \in Region /\ Head(live) \in Filled
          /\ Head(live) \in Region
      BY <2>1, HeadType DEF TypeOK, Region
    <3>2. ListsOK'
      <4> DEFINE bare == [Head(live) EXCEPT !.buf = NULL]
      <4>1. /\ live' = Tail(live) /\ dead' = Cons(bare, dead)
            /\ fill' = fill - Head(live).len
        BY <2>1 DEF TakeHead
      <4>2. bare \in Region
        BY <3>1
      <4> HIDE DEF bare
      <4>3. dead' \in Seq(Region)
        BY <4>1, <4>2, ConsProperties DEF TypeOK, ListsOK
      <4> QED  BY <4>1, <4>3, <2>1, HeadType DEF TypeOK, ListsOK
    <3>3. ConsumersOK'
      BY <2>1, <3>1 DEF TakeHead, TypeOK, ConsumersOK
    <3> QED  BY <1>1, <3>2, <3>3, Kept DEF Consume, TypeOK
  <2>2. CASE con' = [con EXCEPT ![c].pc = otherwise] /\ UNCHANGED list
    <3>1. ConsumersOK'
      BY <2>2 DEF TypeOK, ConsumersOK
    <3> QED  BY <1>1, <2>2, <3>1, Kept DEF Consume, TypeOK
  <2> QED  BY <1>1, <2>1, <2>2 DEF Consume
<1>2. ASSUME NEW c \in Consumers, ConsumerNext(c) PROVE TypeOK'
  <2>1. CASE ConsumeEnter(c) \/ ConsumeWake(c)
    BY <1>1, <2>1 DEF ConsumeEnter, ConsumeWake
  <2>2. CASE SpuriousWakeup(c)
    <3>1. ConsumersOK'
      BY <2>2 DEF SpuriousWakeup, TypeOK, ConsumersOK
    <3> QED  BY <2>2, <3>1, Kept DEF SpuriousWakeup, TypeOK
  <2>3. CASE DestroyPacket(c)
    <3>1. con[c].pkt \in Filled /\ con[c].pkt.len \in Nat /\ con[c].pkt.buf \in Nat
      BY <2>3 DEF DestroyPacket, TypeOK, ConsumersOK, Filled
    <3>2. PoolOK(pool)'
      BY <2>3, <3>1, FreeBufType DEF DestroyPacket, TypeOK
    <3>3. ConsumersOK'
      BY <2>3 DEF DestroyPacket, TypeOK, ConsumersOK, NotConsuming, NoPacket, Region, NULL
    <3> QED  BY <2>3, <3>2, <3>3, Kept DEF DestroyPacket, TypeOK
  <2> QED  BY <1>2, <2>1, <2>2, <2>3 DEF ConsumerNext
<1>3. CASE CancelConsume
  <2>1. ConsumersOK'
    BY <1>3 DEF CancelConsume, TypeOK, ConsumersOK, Waiting, Woken
  <2> QED  BY <1>3, <2>1, Kept DEF CancelConsume, TypeOK
<1>4. ASSUME NEW t \in Threads, Incref(t) PROVE TypeOK'
  BY <1>4, Kept DEF Incref, TypeOK
<1>5. ASSUME NEW t \in Threads, Decref(t) PROVE TypeOK'
  <2>1. Len(live) \in Nat /\ Len(dead) \in Nat /\ Len(pool.bufs) \in Nat
    BY LenProperties DEF TypeOK, ListsOK, PoolOK
  <2>2. \A s \in {live, dead} : WithBuf(s) \in Nat
    <3>1. ASSUME NEW S, NEW s \in Seq(S) PROVE WithBuf(s) \in Nat
      <4>1. IsFiniteSet(1..Len(s)) /\ DOMAIN s = 1..Len(s)
        BY LenProperties, FS_Interval
      <4>2. IsFiniteSet({i \in DOMAIN s : s[i].buf # NULL})
        BY <4>1, FS_Subset
      <4> QED  BY <4>2, FS_CardinalityType DEF WithBuf
    <3> QED  BY <3>1 DEF TypeOK, ListsOK
  <2>3. ListsOK' /\ ReaderOK' /\ PoolOK(pool)'
    <3>1. meta' \in [len : Nat, cap : Nat]
      BY <1>5 DEF Decref, TypeOK, ReaderOK
    <3>2. ReaderOK'
      BY <1>5, <3>1, NotReadingType DEF Decref, TypeOK, ReaderOK
    <3>3. CASE refcnt = 1
      <4>1. ListsOK'
        BY <1>5, <3>3, EmptySeq DEF Decref, ListsOK
      <4>2. PoolOK(pool)'
        <5> DEFINE nr == Len(live) + Len(dead) + pool.regions
                   nb == WithBuf(live) + WithBuf(dead) + Len(pool.bufs)
        <5>1. nr \in Int /\ nb \in Int /\ pool.heapRegions \in Int /\ pool.heapBufs \in Int
          BY <2>1, <2>2 DEF TypeOK, PoolOK
        <5>2. pool' = [regions |-> 0, bufs |-> <<>>, heapRegions |-> pool.heapRegions - nr,
                       heapBufs |-> pool.heapBufs - nb]
          BY <1>5, <3>3 DEF Decref
        <5> HIDE DEF nr, nb
        <5> QED  BY <5>1, <5>2, EmptySeq, SizesAssumption DEF PoolOK
      <4> QED  BY <3>2, <4>1, <4>2
    <3>4. CASE refcnt # 1
      BY <1>5, <3>2, <3>4, Kept DEF Decref
    <3> QED  BY <3>3, <3>4
  <2>4. refcnt' \in Nat /\ holds' \subseteq Threads
    BY <1>5 DEF Decref, TypeOK
  <2> QED  BY <1>5, <2>3, <2>4, Kept DEF Decref, TypeOK
<1> QED  BY <1>2, <1>3, <1>4, <1>5

\* The initial state has the types.
LEMMA TypeInit == Init => TypeOK
<1> SUFFICES ASSUME Init PROVE TypeOK
  OBVIOUS
<1> USE DEF Init
<1>1. ListsOK
  BY EmptySeq DEF ListsOK
<1>2. PoolOK(pool)
  BY EmptySeq, SizesAssumption DEF PoolOK
<1>3. WriterOK
  BY EmptySeq DEF WriterOK, Resting, NoSpan, Span, NULL
<1>4. ReaderOK
  BY NotReadingType DEF ReaderOK
<1>5. ConsumersOK
  BY DEF ConsumersOK, NotConsuming, NoPacket, Region, NULL
<1> QED  BY <1>1, <1>2, <1>3, <1>4, <1>5 DEF TypeOK, Threads, Writer

\* The type invariant is inductive.
LEMMA TypeStep ==
    ASSUME TypeOK, [Next]_vars
    PROVE  TypeOK'
<1>1. CASE UNCHANGED vars
  BY <1>1, Kept DEF vars, list, TypeOK
<1>2. CASE Next
  BY <1>2, WriterTypeStep, ReaderTypeStep, OthersTypeStep DEF Next
<1> QED  BY <1>1, <1>2

\* Every variable keeps its type: the pools stay within POOL_SIZE, a live region always
\* has a buffer, a consumer that holds a packet holds a buffer.
THEOREM TypeCorrect == Spec => []TypeOK
BY TypeInit, TypeStep, PTL DEF Spec

-----------------------------------------------------------------------------
(***************************************************************************)
(* The timeline: order, capacity, and what the writer may rely on between  *)
(* its two critical sections                                               *)
(***************************************************************************)

Sorted(l) == \A i, j \in 1..Len(l) : i < j => l[i].start < l[j].start
FromPackets(l) == \A i \in 1..Len(l) : [start |-> l[i].start, len |-> l[i].len] \in Packets
Absent(l, p) == \A i \in 1..Len(l) : l[i].start # p.start

InWrite == {"evict", "reclaim", "allocbuf", "insert"}

\* Who is inside of a critical section with a loop is who holds the lock.
LockInv ==
    /\ lock = Writer <=> wr.pc = "evict"
    /\ lock = Reader <=> rd.pc \in {"past", "copy", "used"}

\* From the moment the writer has found room and no duplicate until it inserts, there is
\* room and no duplicate: nobody else adds to the list.
TimelineInv ==
    /\ Sorted(live) /\ FromPackets(live)
    /\ wr.pc \in InWrite => wr.pkt \in Packets /\ Absent(live, wr.pkt)
    /\ fill <= Capacity
    /\ wr.pc \in InWrite \ {"evict"} => PacketFits

\* Whoever is inside of a call owns a reference, and refcnt counts the owners.
RefInv ==
    /\ IsFiniteSet(holds) /\ refcnt = Cardinality(holds)
    /\ wr.pc # "idle" => Writer \in holds
    /\ rd.pc # "idle" => Reader \in holds
    /\ \A c \in Consumers : con[c].pc # "idle" => c \in holds

\* Who gives up the last reference is the only owner, and nobody is inside of a call.
LEMMA LastOwner ==
    ASSUME RefInv, refcnt = 1, NEW t \in Threads, Decref(t)
    PROVE  wr.pc = "idle" /\ rd.pc = "idle" /\ \A c \in Consumers : con[c].pc = "idle"
<1>1. PICK x : holds = {x}
  BY FS_Singleton DEF RefInv
<1>2. holds = {t}
  BY <1>1 DEF Decref
<1> QED  BY <1>2, NamesAssumption DEF RefInv, Decref, AtRest, Writer, Reader

\* The reference count is inductive.
LEMMA RefStep ==
    ASSUME TypeOK, RefInv, [Next]_vars
    PROVE  RefInv'
<1>1. ASSUME NEW t \in Threads, Incref(t) PROVE RefInv'
  <2>1. IsFiniteSet(holds') /\ refcnt' = Cardinality(holds')
    BY <1>1, FS_AddElement DEF Incref, RefInv
  <2> QED  BY <1>1, <2>1 DEF Incref, RefInv
<1>2. ASSUME NEW t \in Threads, Decref(t) PROVE RefInv'
  <2>1. IsFiniteSet(holds') /\ refcnt' = Cardinality(holds')
    BY <1>2, FS_RemoveElement DEF Decref, RefInv
  <2>2. wr'.pc # "idle" => Writer \in holds'
    BY <1>2 DEF Decref, AtRest, RefInv
  <2>3. rd'.pc # "idle" => Reader \in holds'
    BY <1>2 DEF Decref, AtRest, RefInv, NotReading
  <2>4. ASSUME NEW c \in Consumers, con'[c].pc # "idle" PROVE c \in holds'
    BY <1>2, <2>4, NamesAssumption DEF Decref, AtRest, RefInv
  <2> QED  BY <2>1, <2>2, <2>3, <2>4 DEF RefInv
<1>3. CASE WriterNext
  <2>1. UNCHANGED <<refcnt, holds>> /\ (UNCHANGED rd \/ Clear) /\ (UNCHANGED con \/ WriteInsert)
    BY <1>3 DEF WriterNext, WriterContinues, WriteEnter, WriteEvict, WriteUnlock, Reclaim,
        WriteAllocRegion, WriteAllocBuf, WriteInsert, Clear, ClearPools
  <2>2. Writer \in holds
    BY <1>3 DEF RefInv, WriterNext, WriterContinues, WriteEnter, WriteEvict, WriteUnlock,
        Reclaim, WriteAllocRegion, WriteAllocBuf, WriteInsert, Clear, ClearPools
  <2>3. rd'.pc = rd.pc
    BY <2>1 DEF Clear, TypeOK, ReaderOK, ReadOf
  <2>4. \A c \in Consumers : con'[c].pc # "idle" => con[c].pc # "idle"
    BY <2>1 DEF WriteInsert, Signal, Waiting, TypeOK, ConsumersOK
  <2> QED  BY <2>1, <2>2, <2>3, <2>4 DEF RefInv
<1>4. CASE ReaderNext
  <2>1. UNCHANGED <<refcnt, holds, wr, con>>
    BY <1>4 DEF ReaderNext, ReaderContinues, ReadEnter, ReadDrop, ReadCopy, ReadFill,
                ReadUnlock, ReadReturn
  <2>2. Reader \in holds
    BY <1>4 DEF RefInv, ReaderNext, ReaderContinues, ReadEnter, ReadDrop, ReadCopy, ReadFill,
                ReadUnlock, ReadReturn, Copying
  <2> QED  BY <2>1, <2>2 DEF RefInv
<1>5. ASSUME NEW c \in Consumers, ConsumerNext(c) PROVE RefInv'
  <2>1. UNCHANGED <<refcnt, holds, wr, rd>>
    BY <1>5 DEF ConsumerNext, ConsumeEnter, ConsumeWake, Consume, SpuriousWakeup, DestroyPacket
  <2>2. c \in holds
    BY <1>5 DEF RefInv, ConsumerNext, ConsumeEnter, ConsumeWake, Consume, SpuriousWakeup,
                DestroyPacket
  <2>3. \A d \in Consumers \ {c} : con'[d] = con[d]
    BY <1>5 DEF ConsumerNext, ConsumeEnter, ConsumeWake, Consume, TakeHead, SpuriousWakeup,
                DestroyPacket, TypeOK, ConsumersOK
  <2> QED  BY <2>1, <2>2, <2>3 DEF RefInv
<1>6. CASE CancelConsume
  BY <1>6 DEF CancelConsume, RefInv, Waiting, Woken, TypeOK, ConsumersOK
<1>7. CASE UNCHANGED vars
  BY <1>7 DEF vars, RefInv
<1> QED  BY <1>1, <1>2, <1>3, <1>4, <1>5, <1>6, <1>7 DEF Next

\* The writer's allocations lead on to the next step with the packet, or out of the call.
LEMMA AllocMoves ==
    ASSUME TypeOK, WriteAllocRegion \/ WriteAllocBuf
    PROVE  \/ wr'.pc = "idle"
           \/ wr'.pc \in {"allocbuf", "insert"} /\ wr'.pkt = wr.pkt
<1> DEFINE With(b) == [wr EXCEPT !.pc = "insert", !.fresh = b]
<1>1. \/ wr' = Resting
      \/ wr' = [wr EXCEPT !.pc = "allocbuf"]
      \/ \E b : wr' = With(b)
  <2>1. CASE WriteAllocRegion
    BY <2>1 DEF WriteAllocRegion
  <2>2. CASE WriteAllocBuf
    <3>1. \/ \E i \in 1..Len(pool.bufs) : wr' = With(pool.bufs[i].real)
          \/ wr' = With(wr.pkt.len)
          \/ wr' = Resting
      BY <2>2 DEF WriteAllocBuf
    <3> HIDE DEF With
    <3> QED  BY <3>1
  <2> QED  BY <2>1, <2>2
<1>2. ASSUME NEW b, wr' = With(b)
      PROVE  wr'.pc = "insert" /\ wr'.pkt = wr.pkt
  BY <1>2 DEF TypeOK, WriterOK
<1>3. ASSUME wr' = [wr EXCEPT !.pc = "allocbuf"]
      PROVE  wr'.pc = "allocbuf" /\ wr'.pkt = wr.pkt
  BY <1>3 DEF TypeOK, WriterOK
<1> HIDE DEF With
<1> QED  BY <1>1, <1>2, <1>3 DEF Resting

\* The lock invariant is inductive.
LEMMA LockStep ==
    ASSUME TypeOK, LockInv, [Next]_vars
    PROVE  LockInv'
<1> USE DEF LockInv, Writer, Reader
<1>0. wr.pc \in {"idle", "evict", "reclaim", "allocbuf", "insert", "purge"}
  BY DEF TypeOK, WriterOK
<1>1. ASSUME NEW p \in Packets, WriteEnter(p) PROVE LockInv'
  BY <1>1 DEF WriteEnter, TypeOK, WriterOK
<1>2. CASE WriteEvict
  BY <1>2 DEF WriteEvict
<1>13. CASE Clear
  <2>1. wr'.pc = "purge" /\ rd'.pc = rd.pc
    BY <1>13 DEF Clear, TypeOK, WriterOK, ReaderOK, ReadOf
  <2> QED  BY <1>13, <2>1 DEF Clear
<1>14. CASE ClearPools
  BY <1>14 DEF ClearPools, Resting
<1>15. CASE Reclaim
  <2>1. wr'.pc = wr.pc
    BY <1>15 DEF Reclaim, TypeOK, WriterOK
  <2> QED  BY <1>15, <2>1 DEF Reclaim
<1>3. CASE WriteUnlock
  BY <1>3 DEF WriteUnlock, TypeOK, WriterOK
<1>4. CASE WriteAllocRegion
  BY <1>4 DEF WriteAllocRegion, Resting, TypeOK, WriterOK
<1>16. CASE WriteAllocBuf
  BY <1>16, AllocMoves DEF WriteAllocBuf
<1>5. CASE WriteInsert
  BY <1>5 DEF WriteInsert, Resting
<1>6. ASSUME NEW w \in Windows, ReadEnter(w) PROVE LockInv'
  BY <1>6 DEF ReadEnter
<1>7. CASE ReadDrop
  BY <1>7 DEF ReadDrop
<1>17. CASE ReadFill
  BY <1>17 DEF ReadFill, Copying, TypeOK, ReaderOK, ReadOf
<1>18. CASE ReadUnlock
  BY <1>18 DEF ReadUnlock, TypeOK, ReaderOK, ReadOf
<1>19. CASE ReadReturn
  BY <1>19 DEF ReadReturn, NotReading
<1>8. CASE ReadCopy
  BY <1>8 DEF ReadCopy, Copying, TypeOK, ReaderOK, ReadOf
<1>9. ASSUME NEW c \in Consumers, ConsumerNext(c) PROVE LockInv'
  BY <1>9 DEF ConsumerNext, ConsumeEnter, ConsumeWake, Consume, SpuriousWakeup, DestroyPacket
<1>10. CASE CancelConsume
  BY <1>10 DEF CancelConsume
<1>11. ASSUME NEW t \in Threads, Incref(t) \/ Decref(t) PROVE LockInv'
  BY <1>11 DEF Incref, Decref, AtRest, NotReading
<1>12. CASE UNCHANGED vars
  BY <1>12 DEF vars
<1> QED  BY <1>1, <1>2, <1>3, <1>4, <1>5, <1>6, <1>7, <1>8, <1>9, <1>10, <1>11, <1>12,
            <1>13, <1>14, <1>15, <1>16, <1>17, <1>18, <1>19
         DEF Next, WriterNext, WriterContinues, ReaderNext, ReaderContinues

\* The four ways in which a step changes the live list.
LEMMA LiveChanges ==
    ASSUME TypeOK, RefInv, [Next]_vars
    PROVE  \/ UNCHANGED <<live, fill>>
           \/ live # <<>> /\ live' = Tail(live) /\ fill' = fill - Head(live).len
           \/ live' = <<>> /\ ((fill' = fill /\ Clear) \/ (fill' = 0 /\ wr.pc = "idle"))
           \/ WriteInsert
<1>7. CASE Clear
  BY <1>7 DEF Clear
<1>1. CASE WriterNext
  BY <1>1, <1>7 DEF WriterNext, WriterContinues, WriteEnter, WriteEvict, WriteUnlock, Reclaim,
              WriteAllocRegion, WriteAllocBuf, ClearPools, list
<1>2. CASE ReaderNext
  BY <1>2 DEF ReaderNext, ReaderContinues, ReadEnter, ReadDrop, DropHead, HeadPast, HeadUsed,
              ReadCopy, ReadFill, ReadUnlock, ReadReturn, list
<1>3. ASSUME NEW c \in Consumers, ConsumerNext(c)
      PROVE  \/ UNCHANGED <<live, fill>>
             \/ live # <<>> /\ live' = Tail(live) /\ fill' = fill - Head(live).len
  BY <1>3 DEF ConsumerNext, ConsumeEnter, ConsumeWake, Consume, TakeHead, SpuriousWakeup,
              DestroyPacket, list
<1>4. CASE CancelConsume \/ \E t \in Threads : Incref(t)
  BY <1>4 DEF CancelConsume, Incref, list
<1>6. ASSUME NEW t \in Threads, Decref(t)
      PROVE  UNCHANGED <<live, fill>> \/ (live' = <<>> /\ fill' = 0 /\ wr.pc = "idle")
  <2>1. CASE refcnt = 1
    BY <1>6, <2>1, LastOwner DEF Decref, AtRest, Threads
  <2>2. CASE refcnt # 1
    BY <1>6, <2>2 DEF Decref, list
  <2> QED  BY <2>1, <2>2
<1>5. CASE UNCHANGED vars
  BY <1>5 DEF vars
<1> QED  BY <1>1, <1>2, <1>3, <1>4, <1>5, <1>6 DEF Next

\* Only the writer's own steps change the writer's state.
LEMMA WriterOnly ==
    ASSUME [Next]_vars, ~WriterNext
    PROVE  UNCHANGED wr
<1>1. CASE ReaderNext
  BY <1>1 DEF ReaderNext, ReaderContinues, ReadEnter, ReadDrop, ReadCopy, ReadFill,
              ReadUnlock, ReadReturn
<1>2. ASSUME NEW c \in Consumers, ConsumerNext(c) PROVE UNCHANGED wr
  BY <1>2 DEF ConsumerNext, ConsumeEnter, ConsumeWake, Consume, SpuriousWakeup, DestroyPacket
<1>3. CASE CancelConsume \/ \E t \in Threads : Incref(t) \/ Decref(t)
  BY <1>3 DEF CancelConsume, Incref, Decref
<1>4. CASE UNCHANGED vars
  BY <1>4 DEF vars
<1> QED  BY <1>1, <1>2, <1>3, <1>4 DEF Next

\* A list that loses its head stays sorted, from the packets, and free of what it lacked.
LEMMA TailKeeps ==
    ASSUME NEW l \in Seq(Filled), l # <<>>
    PROVE  /\ Sorted(l) => Sorted(Tail(l))
           /\ FromPackets(l) => FromPackets(Tail(l))
           /\ \A p : Absent(l, p) => Absent(Tail(l), p)
<1>1. /\ Len(l) \in Nat /\ Len(Tail(l)) = Len(l) - 1
      /\ \A i \in 1..(Len(l) - 1) : Tail(l)[i] = l[i + 1] /\ i + 1 \in 1..Len(l)
  BY HeadTailProperties, LenProperties
<1>2. Sorted(l) => Sorted(Tail(l))
  BY <1>1 DEF Sorted
<1>3. FromPackets(l) => FromPackets(Tail(l))
  BY <1>1 DEF FromPackets
<1>4. \A p : Absent(l, p) => Absent(Tail(l), p)
  BY <1>1 DEF Absent
<1> QED  BY <1>2, <1>3, <1>4

\* What the list is after an insertion.
LEMMA Inserted ==
    ASSUME TypeOK, WriteInsert
    PROVE  \E i \in 0..Len(live), new \in Filled :
              /\ InsertsAfter(i, wr.pkt)
              /\ new.start = wr.pkt.start /\ SpanOf(new) = wr.pkt
              /\ live' \in Seq(Filled) /\ Len(live') = Len(live) + 1
              /\ \A j \in 1..i : live'[j] = live[j]
              /\ live'[i + 1] = new
              /\ \A j \in (i + 2)..(Len(live) + 1) : live'[j] = live[j - 1]
<1> DEFINE new == [start |-> wr.pkt.start, len |-> wr.pkt.len, buf |-> wr.fresh]
<1>1. PICK i \in 0..Len(live) : InsertsAfter(i, wr.pkt) /\ live' = InsertAt(live, i + 1, new)
  BY DEF WriteInsert
<1>2. /\ wr.pkt = [start |-> wr.pkt.start, len |-> wr.pkt.len]
      /\ wr.pkt.start \in Nat /\ wr.pkt.len \in Nat /\ wr.fresh \in Nat
  BY DEF WriteInsert, TypeOK, WriterOK, Span
<1>3. /\ new \in Filled /\ live \in Seq(Filled)
      /\ new.start = wr.pkt.start /\ SpanOf(new) = wr.pkt
  BY <1>2 DEF Filled, SpanOf, TypeOK, ListsOK
<1> HIDE DEF new
<1>4. /\ live' \in Seq(Filled) /\ Len(live') = Len(live) + 1
      /\ \A j \in 1..i : live'[j] = live[j]
      /\ live'[i + 1] = new
      /\ \A j \in (i + 2)..(Len(live) + 1) : live'[j] = live[j - 1]
  <2>1. i \in 0..Len(live) /\ live' = InsertAt(live, i + 1, new)
    BY <1>1
  <2>2. live \in Seq(Filled) /\ new \in Filled
    BY <1>3
  <2>3. /\ InsertAt(live, i + 1, new) \in Seq(Filled)
        /\ Insertion(InsertAt(live, i + 1, new), live, i, new)
    BY <2>1, <2>2, InsertAtProperties
  <2>4. live' \in Seq(Filled) /\ Insertion(live', live, i, new)
    BY <2>1, <2>3
  <2> QED  BY <2>4 DEF Insertion
<1> QED  BY <1>1, <1>3, <1>4

\* The insertion of a new packet at the place the scan from the tail finds keeps the order.
LEMMA InsertKeeps ==
    ASSUME TypeOK, TimelineInv, WriteInsert
    PROVE  Sorted(live') /\ FromPackets(live')
<1>1. PICK i \in 0..Len(live), new \in Filled :
         /\ InsertsAfter(i, wr.pkt)
         /\ new.start = wr.pkt.start /\ SpanOf(new) = wr.pkt
         /\ live' \in Seq(Filled) /\ Len(live') = Len(live) + 1
         /\ \A j \in 1..i : live'[j] = live[j]
         /\ live'[i + 1] = new
         /\ \A j \in (i + 2)..(Len(live) + 1) : live'[j] = live[j - 1]
  BY Inserted
<1>2. wr.pkt.start \in Nat
  BY DEF TypeOK, WriterOK, Span
<1>3. /\ [start |-> new.start, len |-> new.len] \in Packets /\ Absent(live, wr.pkt)
      /\ new.start = wr.pkt.start
  BY <1>1 DEF WriteInsert, TimelineInv, InWrite, SpanOf
<1>4. /\ Len(live) \in Nat /\ Len(live') = Len(live) + 1 /\ i \in Nat /\ i <= Len(live)
      /\ \A j \in 1..i : live'[j] = live[j]
      /\ live'[i + 1] = new
      /\ \A j \in (i + 2)..(Len(live) + 1) : live'[j] = live[j - 1]
  BY <1>1, LiveTypes DEF TypeOK
<1>5. \A j \in 1..Len(live) : live[j].start \in Nat
  BY LiveTypes DEF TypeOK
<1>6. \A j \in 1..i : live[j].start < wr.pkt.start
  <2>1. i > 0 => live[i].start < wr.pkt.start
    BY <1>1 DEF InsertsAfter
  <2>2. \A j \in 1..i : j = i \/ live[j].start < live[i].start
    BY <1>4 DEF TimelineInv, Sorted
  <2> QED  BY <2>1, <2>2, <1>2, <1>4, <1>5
<1>7. \A j \in (i + 1)..Len(live) : wr.pkt.start < live[j].start
  BY <1>1, <1>2, <1>3, <1>4, <1>5 DEF InsertsAfter, Absent
<1>8. Sorted(live')
  <2> SUFFICES ASSUME NEW a \in 1..(Len(live) + 1), NEW b \in 1..(Len(live) + 1), a < b
               PROVE  live'[a].start < live'[b].start
    BY <1>4 DEF Sorted
  <2>1. \A x, y \in 1..Len(live) : x < y => live[x].start < live[y].start
    BY DEF TimelineInv, Sorted
  <2>2. CASE b <= i
    BY <2>1, <2>2, <1>4
  <2>3. CASE b = i + 1
    BY <2>3, <1>3, <1>4, <1>6
  <2>4. CASE b > i + 1 /\ a <= i
    <3>1. /\ b - 1 \in 1..Len(live) /\ a \in 1..Len(live) /\ a < b - 1
          /\ live'[b] = live[b - 1] /\ live'[a] = live[a]
      BY <2>4, <1>4
    <3>2. live[a].start < live[b - 1].start
      BY <2>1, <3>1
    <3> QED  BY <3>1, <3>2, Zenon
  <2>5. CASE b > i + 1 /\ a = i + 1
    <3>1. b - 1 \in (i + 1)..Len(live) /\ live'[b] = live[b - 1] /\ live'[a] = new
      BY <2>5, <1>4
    <3>2. wr.pkt.start < live[b - 1].start
      BY <1>7, <3>1
    <3> QED  BY <1>3, <3>1, <3>2, Zenon
  <2>6. CASE a > i + 1
    <3>1. /\ a - 1 \in 1..Len(live) /\ b - 1 \in 1..Len(live) /\ a - 1 < b - 1
          /\ live'[a] = live[a - 1] /\ live'[b] = live[b - 1]
      BY <2>6, <1>4
    <3>2. live[a - 1].start < live[b - 1].start
      BY <2>1, <3>1
    <3> QED  BY <3>1, <3>2, Zenon
  <2> QED  BY <2>2, <2>3, <2>4, <2>5, <2>6, <1>4
<1>9. FromPackets(live')
  <2> SUFFICES ASSUME NEW a \in 1..(Len(live) + 1)
               PROVE  [start |-> live'[a].start, len |-> live'[a].len] \in Packets
    BY <1>4 DEF FromPackets
  <2>1. CASE a <= i
    BY <2>1, <1>4 DEF TimelineInv, FromPackets
  <2>2. CASE a = i + 1
    BY <2>2, <1>3, <1>4
  <2>3. CASE a > i + 1
    <3>1. a - 1 \in 1..Len(live) /\ live'[a] = live[a - 1]
      BY <2>3, <1>4
    <3> QED  BY <3>1 DEF TimelineInv, FromPackets
  <2> QED  BY <2>1, <2>2, <2>3, <1>4
<1> QED  BY <1>8, <1>9

\* The timeline invariant is inductive.
LEMMA TimelineStep ==
    ASSUME TypeOK, RefInv, TimelineInv, [Next]_vars
    PROVE  TimelineInv'
<1>1. fill \in Int /\ Capacity \in Nat /\ wr.pkt.len \in Nat /\ live \in Seq(Filled)
  BY SizesAssumption DEF TypeOK, ListsOK, WriterOK, Span
<1>2. live # <<>> => Head(live).len \in Nat
  BY HeadType DEF TypeOK
<1>3. CASE WriteInsert
  <2>1. fill' <= Capacity /\ wr'.pc = "idle"
    BY <1>1, <1>3 DEF WriteInsert, TimelineInv, PacketFits, InWrite, Resting
  <2> QED  BY <1>3, <2>1, InsertKeeps DEF TimelineInv, InWrite
<1>4. CASE ~WriteInsert
  <2>1. /\ Sorted(live') /\ FromPackets(live')
        /\ \A p : Absent(live, p) => Absent(live', p)
    <3>1. CASE live' = <<>>
      BY <3>1 DEF Sorted, FromPackets, Absent
    <3>2. CASE live' # <<>>
      BY <1>1, <1>4, <3>2, LiveChanges, TailKeeps DEF TimelineInv
    <3> QED  BY <3>1, <3>2
  <2>2. fill' \in Int /\ (fill' <= fill \/ (fill' = 0 /\ wr.pc = "idle"))
    BY <1>1, <1>2, <1>4, LiveChanges
  <2>3. fill' <= Capacity
    BY <1>1, <2>2 DEF TimelineInv
  <2>4. /\ wr'.pc \in InWrite => wr'.pkt \in Packets /\ Absent(live', wr'.pkt)
        /\ wr'.pc \in InWrite \ {"evict"} => PacketFits'
    <3>1. CASE UNCHANGED wr
      BY <1>1, <2>1, <2>2, <3>1 DEF TimelineInv, PacketFits, InWrite
    <3>2. ASSUME NEW p \in Packets, WriteEnter(p)
          PROVE  /\ wr'.pc \in InWrite => wr'.pkt \in Packets /\ Absent(live', wr'.pkt)
                 /\ wr'.pc \in InWrite \ {"evict"} => PacketFits'
      <4>1. CASE UNCHANGED wr
        BY <3>1, <4>1
      <4>2. CASE ~IsDuplicate(p) /\ wr' = [wr EXCEPT !.pc = "evict", !.pkt = p]
        <5>1. Absent(live, p)
          <6> SUFFICES ASSUME NEW i \in 1..Len(live), live[i].start = p.start PROVE FALSE
            BY DEF Absent
          <6>1. \A j \in (i + 1)..Len(live) : live[j].start > p.start
            <7>1. Len(live) \in Nat /\ \A j \in 1..Len(live) : live[j].start \in Nat
              BY LiveTypes DEF TypeOK
            <7> QED  BY <7>1 DEF TimelineInv, Sorted
          <6> QED  BY <4>2, <6>1 DEF IsDuplicate
        <5>2. wr'.pc = "evict" /\ wr'.pkt = p
          BY <4>2 DEF TypeOK, WriterOK
        <5> QED  BY <2>1, <5>1, <5>2
      <4> QED  BY <3>2, <4>1, <4>2 DEF WriteEnter
    <3>3. CASE WriteUnlock
      <4>1. wr'.pc = "reclaim" /\ wr'.pkt = wr.pkt /\ fill' = fill /\ PacketFits
        BY <3>3 DEF WriteUnlock, TypeOK, WriterOK
      <4> QED  BY <2>1, <3>3, <4>1 DEF WriteUnlock, TimelineInv, InWrite, PacketFits
    <3>4. CASE WriteEvict
      BY <3>1, <3>4 DEF WriteEvict
    <3>5. CASE Reclaim \/ WriteAllocRegion \/ WriteAllocBuf \/ Clear \/ ClearPools
      <4>1. /\ fill' = fill
            /\ wr'.pc \in InWrite => wr'.pkt = wr.pkt /\ wr.pc \in InWrite \ {"evict"}
        <5>1. CASE Reclaim
          BY <5>1 DEF Reclaim, InWrite, list, TypeOK, WriterOK
        <5>2. CASE WriteAllocRegion \/ WriteAllocBuf
          BY <5>2, AllocMoves DEF WriteAllocRegion, WriteAllocBuf, list, InWrite
        <5>4. CASE Clear
          BY <1>1, <5>4 DEF Clear, InWrite, TypeOK, WriterOK
        <5>5. CASE ClearPools
          BY <5>5 DEF ClearPools, InWrite, Resting, list
        <5> QED  BY <3>5, <5>1, <5>2, <5>4, <5>5
      <4> QED  BY <2>1, <4>1 DEF TimelineInv, PacketFits, InWrite
    <3> QED  BY <1>4, <3>1, <3>2, <3>3, <3>4, <3>5, WriterOnly DEF WriterNext, WriterContinues
  <2> QED  BY <2>1, <2>3, <2>4 DEF TimelineInv
<1> QED  BY <1>3, <1>4
\* The conjunction of the invariants so far, for every reachable state.
LEMMA StreamInvariant == Spec => [](TypeOK /\ RefInv /\ LockInv /\ TimelineInv)
<1> DEFINE Inv == TypeOK /\ RefInv /\ LockInv /\ TimelineInv
<1>1. Init => TypeOK /\ RefInv /\ LockInv /\ TimelineInv
  <2> SUFFICES ASSUME Init PROVE RefInv /\ LockInv /\ TimelineInv
    BY TypeInit
  <2>1. RefInv
    BY FS_Singleton DEF Init, RefInv, Resting, NotReading, NotConsuming
  <2>2. LockInv
    BY DEF Init, LockInv, Resting, NotReading, Writer, Reader
  <2>3. TimelineInv
    BY SizesAssumption DEF Init, TimelineInv, InWrite, Resting, Sorted, FromPackets
  <2> QED  BY <2>1, <2>2, <2>3
<1>2. TypeOK /\ RefInv /\ LockInv /\ TimelineInv /\ [Next]_vars
      => (TypeOK /\ RefInv /\ LockInv /\ TimelineInv)'
  BY TypeStep, RefStep, LockStep, TimelineStep
<1> QED  BY <1>1, <1>2, PTL DEF Spec

\* stream_write never exceeds sample_capacity, whatever readers and consumers do between
\* the critical section that makes room and the one that inserts.
THEOREM CapacityNeverExceeded == Spec => []CapacityBound
<1>1. TimelineInv => CapacityBound
  BY DEF TimelineInv, CapacityBound
<1> QED  BY <1>1, StreamInvariant, PTL

\* The list is in strict timeline order: what the duplicate check of the first critical
\* section established still holds in the second.
THEOREM TimelineSorted == Spec => []LiveSorted
<1>1. TimelineInv => LiveSorted
  BY DEF TimelineInv, LiveSorted, Sorted
<1> QED  BY <1>1, StreamInvariant, PTL

-----------------------------------------------------------------------------
(***************************************************************************)
(* The abstract timeline buffer                                            *)
(***************************************************************************)

\* Every step of the stream is a step of the timeline buffer or leaves it alone.
LEMMA TimelineRefinementStep ==
    ASSUME TypeOK, RefInv, TimelineInv, [Next]_vars
    PROVE  [Timeline!Next]_(Spans(live))
<1> DEFINE B == Spans(live)
<1>1. live \in Seq(Filled) /\ Len(live) \in Nat /\ DOMAIN live = 1..Len(live)
  BY LenProperties DEF TypeOK, ListsOK
<1>2. CASE UNCHANGED live
  BY <1>2 DEF Spans
<1>3. CASE live' = <<>>
  BY <1>3 DEF Spans, Timeline!Next, Timeline!Empty
<1>4. CASE live # <<>> /\ live' = Tail(live)
  <2>1. /\ DOMAIN live' = 1..(Len(live) - 1) /\ Len(live) >= 1
        /\ \A i \in 1..(Len(live) - 1) : live'[i] = live[i + 1] /\ i + 1 \in 1..Len(live)
    BY <1>1, <1>4, HeadTailProperties, LenProperties, EmptySeq
  <2>2. \A i \in 2..Len(live) : live[1].start < live[i].start
    BY <1>1, <2>1 DEF TimelineInv, Sorted
  <2>3. Spans(live') = Spans(live) \ {SpanOf(live[1])}
    <3>1. \A i \in 2..Len(live) : SpanOf(live[i]) # SpanOf(live[1])
      BY <2>2, LiveTypes DEF SpanOf, TypeOK
    <3>2. Spans(live') = {SpanOf(live[i]) : i \in 2..Len(live)}
      <4>1. ASSUME NEW i \in 2..Len(live)
            PROVE  i - 1 \in 1..(Len(live) - 1) /\ live'[i - 1] = live[i]
        BY <1>1, <2>1
      <4>2. ASSUME NEW i \in 1..(Len(live) - 1)
            PROVE  i + 1 \in 2..Len(live) /\ live'[i] = live[i + 1]
        BY <1>1, <2>1
      <4>3. Spans(live') \subseteq {SpanOf(live[i]) : i \in 2..Len(live)}
        BY <2>1, <4>2 DEF Spans
      <4>4. {SpanOf(live[i]) : i \in 2..Len(live)} \subseteq Spans(live')
        BY <2>1, <4>1 DEF Spans
      <4> QED  BY <4>3, <4>4
    <3>3. Spans(live) = {SpanOf(live[i]) : i \in 2..Len(live)} \union {SpanOf(live[1])}
      BY <1>1, <2>1 DEF Spans
    <3> QED  BY <3>1, <3>2, <3>3
  <2>4. SpanOf(live[1]) \in Spans(live)
    BY <1>1, <2>1 DEF Spans
  <2>5. \A q \in Spans(live) : SpanOf(live[1]).start <= q.start
    BY <1>1, <2>1, <2>2, LiveTypes DEF Spans, SpanOf, TypeOK
  <2> QED  BY <2>3, <2>4, <2>5 DEF Timeline!Next, Timeline!RetireEarliest
<1>5. CASE WriteInsert
  <2>1. wr.pkt \in Packets /\ Absent(live, wr.pkt)
    BY <1>5 DEF WriteInsert, TimelineInv, InWrite
  <2>2. Spans(live') = Spans(live) \union {wr.pkt}
    <3>1. PICK i \in 0..Len(live), new \in Filled :
             /\ SpanOf(new) = wr.pkt
             /\ live' \in Seq(Filled) /\ Len(live') = Len(live) + 1
             /\ \A j \in 1..i : live'[j] = live[j]
             /\ live'[i + 1] = new
             /\ \A j \in (i + 2)..(Len(live) + 1) : live'[j] = live[j - 1]
      BY <1>5, Inserted
    <3>2. SpanOf(new) = wr.pkt
      BY <3>1
    <3>3. /\ i \in Nat /\ i <= Len(live) /\ DOMAIN live' = 1..(Len(live) + 1)
          /\ \A j \in 1..i : live'[j] = live[j]
          /\ live'[i + 1] = new
          /\ \A j \in (i + 2)..(Len(live) + 1) : live'[j] = live[j - 1]
      BY <1>1, <3>1, LenProperties
    <3>4. \A j \in 1..(Len(live) + 1) :
             j = i + 1 \/ (j \in DOMAIN live /\ live'[j] = live[j])
                       \/ (j - 1 \in DOMAIN live /\ live'[j] = live[j - 1])
      BY <1>1, <3>3
    <3>5. \A j \in DOMAIN live : \E k \in 1..(Len(live) + 1) : live'[k] = live[j]
      <4> TAKE j \in DOMAIN live
      <4>1. CASE j <= i
        BY <1>1, <3>3, <4>1
      <4>2. CASE j > i
        <5>1. j + 1 \in (i + 2)..(Len(live) + 1) /\ j + 1 \in 1..(Len(live) + 1)
              /\ (j + 1) - 1 = j
          BY <1>1, <3>3, <4>2
        <5> QED  BY <3>3, <5>1
      <4> QED  BY <1>1, <3>3, <4>1, <4>2
    <3>6. Spans(live') \subseteq Spans(live) \union {wr.pkt}
      BY <3>2, <3>3, <3>4 DEF Spans
    <3>7. Spans(live) \subseteq Spans(live')
      BY <3>3, <3>5 DEF Spans
    <3>8. wr.pkt \in Spans(live')
      BY <1>1, <3>2, <3>3 DEF Spans
    <3> QED  BY <3>6, <3>7, <3>8
  <2>3. \A q \in Spans(live) : q.start # wr.pkt.start
    BY <1>1, <2>1 DEF Absent, Spans, SpanOf
  <2> QED  BY <2>1, <2>2, <2>3 DEF Timeline!Next, Timeline!Accept
<1> QED  BY <1>2, <1>3, <1>4, <1>5, LiveChanges

\* The stream implements the abstract timeline buffer: packets are buffered at most once,
\* and leave earliest first or all together.
THEOREM StreamImplementsTimeline == Spec => ImplementsTimeline
<1>1. Init => Timeline!Init
  BY DEF Init, Timeline!Init, Spans
<1>2. TypeOK /\ RefInv /\ LockInv /\ TimelineInv /\ [Next]_vars => [Timeline!Next]_(Spans(live))
  BY TimelineRefinementStep
<1> QED  BY <1>1, <1>2, StreamInvariant, PTL DEF Spec, ImplementsTimeline, Timeline!Spec

-----------------------------------------------------------------------------
(***************************************************************************)
(* What stream_read returns, for every interleaving with the writer and    *)
(* the consumers                                                           *)
(***************************************************************************)

Time(k) == rd.win.start + k

\* What belongs at a time of the timeline: the sample if a region has it, else silence.
Expected(t) == IF Buffered(t) THEN t ELSE Silence

\* Below the cursor every sample is the one that belongs there; the cursor is where the
\* last region copied ends.
CopyInv ==
    /\ rd.pc = "past" => rd.idx = 1 /\ rd.cur = rd.win.start
    /\ rd.pc = "copy" =>
         /\ rd.idx > 1 /\ rd.idx - 1 <= Len(live)
         /\ rd.win.start <= rd.cur
         /\ rd.cur = Earlier(ReadEnd, EndOf(live[rd.idx - 1]))
         /\ \A k \in DOMAIN rd.out : Time(k) < rd.cur => rd.out[k] = Expected(Time(k))

\* A region later in the list does not end earlier.
LEMMA EndsOrdered ==
    ASSUME TypeOK, TimelineInv, NEW i \in 1..Len(live), NEW j \in i..Len(live)
    PROVE  EndOf(live[i]) <= EndOf(live[j])
<1>1. live[i].start \in Nat /\ live[i].len \in Nat /\ j \in 1..Len(live)
  BY LiveTypes DEF TypeOK
<1>2. CASE i = j
  BY <1>1, <1>2 DEF EndOf
<1>3. CASE i < j
  <2>1. live[i].start < live[j].start
    BY <1>1, <1>3 DEF TimelineInv, Sorted
  <2>2. SpanOf(live[i]) \in Packets /\ SpanOf(live[j]) \in Packets
    BY <1>1 DEF TimelineInv, FromPackets, SpanOf
  <2> QED  BY <2>1, <2>2, PacketsAssumption DEF SpanOf, EndOf
<1> QED  BY <1>1, <1>2, <1>3, LiveTypes DEF TypeOK

\* What the copy loop knows before an iteration, about the regions it has left behind and
\* the ones to come.
LEMMA AtCursor ==
    ASSUME TypeOK, TimelineInv, CopyInv, Copying
    PROVE  /\ rd.win.start \in Nat /\ rd.win.len \in Nat /\ rd.cur \in Nat
           /\ ReadEnd = rd.win.start + rd.win.len
           /\ DOMAIN rd.out = 0..(rd.win.len - 1)
           /\ rd.idx \in Nat \ {0} /\ Len(live) \in Nat
           /\ rd.win.start <= rd.cur /\ rd.cur <= ReadEnd
           /\ \A j \in 1..Len(live) : j < rd.idx =>
                 rd.cur = ReadEnd \/ EndOf(live[j]) <= rd.cur
           /\ \A j \in 1..Len(live) : j >= rd.idx => rd.cur <= EndOf(live[j])
           /\ \A k \in DOMAIN rd.out : Time(k) < rd.cur => rd.out[k] = Expected(Time(k))
<1>1. /\ rd.win.start \in Nat /\ rd.win.len \in Nat /\ rd.cur \in Nat
      /\ rd.idx \in Nat \ {0} /\ rd.out \in [0..(rd.win.len - 1) -> Int]
      /\ ReadEnd = rd.win.start + rd.win.len
  BY DEF TypeOK, ReaderOK, ReadOf, Span, ReadEnd, EndOf
<1>2. DOMAIN rd.out = 0..(rd.win.len - 1)
  BY <1>1
<1>3. /\ Len(live) \in Nat
      /\ \A j \in 1..Len(live) : EndOf(live[j]) \in Nat
  BY LiveTypes DEF TypeOK, EndOf
<1>4. CASE rd.pc = "past"
  <2>1. rd.idx = 1 /\ rd.cur = rd.win.start /\ ~HeadPast
    BY <1>4 DEF CopyInv, Copying
  <2>2. \A j \in 1..Len(live) : rd.cur <= EndOf(live[j])
    <3> TAKE j \in 1..Len(live)
    <3>1. 1 \in 1..Len(live) /\ j \in 1..Len(live) /\ live # <<>>
      BY <1>3, EmptySeq DEF TypeOK, ListsOK
    <3>2. Head(live) = live[1]
      BY <3>1 DEF TypeOK, ListsOK
    <3>3. rd.win.start <= EndOf(live[1])
      BY <1>1, <1>3, <2>1, <3>1, <3>2 DEF HeadPast
    <3>4. EndOf(live[1]) <= EndOf(live[j])
      BY <3>1, EndsOrdered
    <3> QED  BY <1>1, <1>3, <2>1, <3>1, <3>3, <3>4
  <2>3. \A k \in DOMAIN rd.out : ~(Time(k) < rd.cur)
    BY <1>1, <1>2, <2>1 DEF Time
  <2> QED  BY <1>1, <1>2, <1>3, <2>1, <2>2, <2>3
<1>5. CASE rd.pc = "copy"
  <2>1. /\ rd.idx > 1 /\ rd.idx - 1 \in 1..Len(live) /\ rd.win.start <= rd.cur
        /\ rd.cur = Earlier(ReadEnd, EndOf(live[rd.idx - 1]))
    BY <1>1, <1>3, <1>5 DEF CopyInv
  <2>2. /\ rd.cur <= ReadEnd /\ rd.cur <= EndOf(live[rd.idx - 1])
        /\ rd.cur = ReadEnd \/ rd.cur = EndOf(live[rd.idx - 1])
    BY <1>1, <1>3, <2>1 DEF Earlier
  <2>3. ASSUME NEW j \in 1..Len(live), j < rd.idx
        PROVE  rd.cur = ReadEnd \/ EndOf(live[j]) <= rd.cur
    <3>1. rd.idx - 1 \in j..Len(live)
      BY <1>1, <1>3, <2>1, <2>3
    <3>2. EndOf(live[j]) <= EndOf(live[rd.idx - 1])
      BY <3>1, EndsOrdered
    <3> QED  BY <2>2, <3>2
  <2>4. ASSUME NEW j \in 1..Len(live), j >= rd.idx
        PROVE  rd.cur <= EndOf(live[j])
    <3>1. j \in (rd.idx - 1)..Len(live)
      BY <1>1, <1>3, <2>1, <2>4
    <3>2. EndOf(live[rd.idx - 1]) <= EndOf(live[j])
      BY <2>1, <3>1, EndsOrdered
    <3> QED  BY <1>1, <1>3, <2>1, <2>2, <3>2
  <2> QED  BY <1>1, <1>2, <1>3, <1>5, <2>1, <2>2, <2>3, <2>4 DEF CopyInv
<1> QED  BY <1>4, <1>5 DEF Copying

\* One iteration of the copy loop keeps the buffer exact below the cursor, and never
\* copies backwards.
LEMMA CopyIterationExact ==
    ASSUME TypeOK, TimelineInv, CopyInv, Copying, ~NothingToCopy,
           NEW r, r = live[rd.idx]
    PROVE  /\ rd.idx \in 1..Len(live)
           /\ CopyStart(r) <= CopyEnd(r) /\ rd.cur <= CopyEnd(r)
           /\ \A k \in DOMAIN rd.out :
                 Time(k) < CopyEnd(r) => CopyInto(r)[k] = Expected(Time(k))
<1>1. rd.idx \in 1..Len(live) /\ r.start <= ReadEnd
  <2>1. rd.idx <= Len(live) /\ ~(live[rd.idx].start > ReadEnd)
    BY DEF NothingToCopy
  <2>2. rd.idx \in 1..Len(live)
    BY <2>1, AtCursor
  <2> QED  BY <2>1, <2>2, AtCursor, LiveTypes, SMTT(30) DEF TypeOK
<1>2. /\ r.start \in Nat /\ r.len \in Nat /\ EndOf(r) = r.start + r.len
      /\ rd.cur <= EndOf(r)
  <2>1. r.start \in Nat /\ r.len \in Nat
    BY <1>1, LiveTypes DEF TypeOK
  <2>2. rd.cur <= EndOf(live[rd.idx])
    <3>1. /\ rd.idx \in Nat
          /\ \A j \in 1..Len(live) : j >= rd.idx => rd.cur <= EndOf(live[j])
      BY AtCursor
    <3> QED  BY <1>1, <3>1
  <2> QED  BY <2>1, <2>2 DEF EndOf
<1>3. /\ rd.win.start \in Nat /\ rd.cur \in Nat /\ ReadEnd \in Nat
      /\ rd.win.start <= rd.cur /\ rd.cur <= ReadEnd
      /\ DOMAIN rd.out \subseteq Int
      /\ \A k \in DOMAIN rd.out : 0 <= k /\ Time(k) < ReadEnd /\ Time(k) = rd.win.start + k
  BY AtCursor, SMTT(30) DEF Time
<1>4. /\ CopyStart(r) \in Nat /\ CopyEnd(r) \in Nat
      /\ rd.cur <= CopyStart(r) /\ r.start <= CopyStart(r)
      /\ CopyStart(r) = rd.cur \/ CopyStart(r) = r.start
      /\ CopyStart(r) <= CopyEnd(r) /\ rd.cur <= CopyEnd(r) /\ CopyEnd(r) <= EndOf(r)
  <2>1. EndOf(r) \in Nat /\ r.start <= EndOf(r)
    BY <1>2
  <2>2. /\ CopyStart(r) = IF rd.cur < r.start THEN r.start ELSE rd.cur
        /\ CopyEnd(r) = IF ReadEnd < EndOf(r) THEN ReadEnd ELSE EndOf(r)
    BY DEF CopyStart, CopyEnd, Later, Earlier
  <2> QED  BY <1>1, <1>2, <1>3, <2>1, <2>2
<1>5. ASSUME NEW k \in DOMAIN rd.out, Time(k) < CopyEnd(r)
      PROVE  CopyInto(r)[k] = Expected(Time(k))
  <2> DEFINE t == Time(k)
             off == CopyStart(r) - rd.win.start
  <2>1. /\ k \in Int /\ 0 <= k /\ t \in Int /\ t < ReadEnd /\ t = rd.win.start + k
        /\ off \in Int
    BY <1>3, <1>4
  <2>2. CopyInto(r)[k] =
           IF rd.cur - rd.win.start <= k /\ k < off THEN Silence
           ELSE IF off <= k /\ k < off + (CopyEnd(r) - CopyStart(r))
                THEN r.start + ReadOffset(r) + (k - off)
                ELSE rd.out[k]
    BY DEF CopyInto
  <2>3. CASE t < rd.cur
    <3>1. ~(rd.cur - rd.win.start <= k) /\ ~(off <= k)
      BY <1>3, <1>4, <2>1, <2>3
    <3> QED  BY <2>2, <2>3, <3>1, AtCursor
  <2>4. CASE rd.cur <= t /\ t < CopyStart(r)
    <3>1. rd.cur - rd.win.start <= k /\ k < off
      BY <1>3, <1>4, <2>1, <2>4
    <3>2. r.start = CopyStart(r)
      BY <1>3, <1>4, <2>1, <2>4
    <3>3. ASSUME NEW j \in 1..Len(live), Covers(live[j], t) PROVE FALSE
      <4>1. live[j].start <= t /\ t < EndOf(live[j]) /\ live[j].start \in Nat
            /\ EndOf(live[j]) \in Nat
        BY <3>3, LiveTypes DEF Covers, TypeOK, EndOf
      <4>2. CASE j < rd.idx
        <5>1. rd.cur = ReadEnd \/ EndOf(live[j]) <= rd.cur
          BY <4>2, AtCursor
        <5> QED  BY <1>3, <2>1, <2>4, <4>1, <5>1
      <4>3. CASE j >= rd.idx
        <5>1. r.start <= live[j].start
          BY <1>1, <1>2, <4>1, <4>3 DEF TimelineInv, Sorted
        <5> QED  BY <1>2, <1>4, <2>1, <2>4, <3>2, <4>1, <5>1
      <4> QED  BY <1>1, <4>2, <4>3
    <3> QED  BY <2>2, <3>1, <3>3 DEF Expected, Buffered
  <2>5. CASE CopyStart(r) <= t
    <3>1. ~(k < off) /\ off <= k /\ k < off + (CopyEnd(r) - CopyStart(r))
      BY <1>3, <1>4, <1>5, <2>1, <2>5
    <3>2. CopyInto(r)[k] = t
      BY <1>2, <1>3, <1>4, <2>1, <2>2, <3>1 DEF ReadOffset
    <3>3. Covers(live[rd.idx], t)
      BY <1>2, <1>4, <1>5, <2>1, <2>5 DEF Covers
    <3> QED  BY <1>1, <3>2, <3>3 DEF Expected, Buffered
  <2> QED  BY <1>3, <1>4, <2>1, <2>3, <2>4, <2>5
<1> QED  BY <1>1, <1>4, <1>5

\* While the reader holds the lock, nobody else touches the list or the read.
LEMMA ReaderAlone ==
    ASSUME TypeOK, LockInv, [Next]_vars, ~ReaderNext, rd.pc \in {"past", "copy", "used"}
    PROVE  UNCHANGED <<live, rd>>
<1>1. lock = Reader /\ wr.pc # "evict" /\ lock # "none"
  BY DEF LockInv, Writer, Reader
<1>2. CASE WriterNext
  BY <1>1, <1>2 DEF WriterNext, WriterContinues, WriteEnter, WriteEvict, WriteUnlock, Reclaim,
                    WriteAllocRegion, WriteAllocBuf, WriteInsert, Clear, ClearPools, list
<1>3. ASSUME NEW c \in Consumers, ConsumerNext(c) PROVE UNCHANGED <<live, rd>>
  BY <1>1, <1>3 DEF ConsumerNext, ConsumeEnter, ConsumeWake, Consume, SpuriousWakeup,
                    DestroyPacket, list
<1>4. CASE CancelConsume
  BY <1>4 DEF CancelConsume, list
<1>5. ASSUME NEW t \in Threads, Incref(t) \/ Decref(t) PROVE UNCHANGED <<live, rd>>
  BY <1>1, <1>5 DEF Incref, Decref
<1>6. CASE UNCHANGED vars
  BY <1>6 DEF vars
<1> QED  BY <1>2, <1>3, <1>4, <1>5, <1>6 DEF Next

\* Outside of the critical section, others can do no more to the read than to invalidate
\* the metadata pointer or, when the reader gives up the stream, to forget it.
LEMMA ReaderLeftAlone ==
    ASSUME TypeOK, [Next]_vars, ~ReaderNext
    PROVE  \/ rd'.pc = rd.pc /\ rd'.win = rd.win /\ rd'.out = rd.out
           \/ rd'.pc = "idle"
<1>1. CASE WriterNext
  <2>1. UNCHANGED rd \/ Clear
    BY <1>1 DEF WriterNext, WriterContinues, WriteEnter, WriteEvict, WriteUnlock, Reclaim,
                WriteAllocRegion, WriteAllocBuf, WriteInsert, Clear, ClearPools
  <2>2. CASE Clear
    <3> DEFINE view == IF rd.view = "valid" THEN "dangling" ELSE rd.view
    <3>1. rd' = [rd EXCEPT !.view = view]
      BY <2>2 DEF Clear
    <3> HIDE DEF view
    <3> QED  BY <3>1 DEF TypeOK, ReaderOK, ReadOf
  <2> QED  BY <2>1, <2>2
<1>2. ASSUME NEW c \in Consumers, ConsumerNext(c) PROVE UNCHANGED rd
  BY <1>2 DEF ConsumerNext, ConsumeEnter, ConsumeWake, Consume, SpuriousWakeup, DestroyPacket
<1>3. ASSUME CancelConsume \/ \E t \in Threads : Incref(t)
      PROVE  UNCHANGED rd
  BY <1>3 DEF CancelConsume, Incref
<1>4. ASSUME NEW t \in Threads, Decref(t) PROVE UNCHANGED rd \/ rd'.pc = "idle"
  BY <1>4 DEF Decref, NotReading
<1>5. CASE UNCHANGED vars
  BY <1>5 DEF vars
<1> QED  BY <1>1, <1>2, <1>3, <1>4, <1>5 DEF Next

\* The zero-filled tail completes a buffer that is exact below the cursor.
LEMMA TailFilled ==
    ASSUME TypeOK, TimelineInv, CopyInv, Copying, NEW k \in DOMAIN rd.out
    PROVE  ZeroTail[k] \in {Silence, Time(k)}
<1>1. /\ rd.cur \in Nat /\ rd.win.start \in Nat /\ k \in Int /\ Time(k) = rd.win.start + k
      /\ Time(k) < rd.cur => rd.out[k] = Expected(Time(k))
  BY AtCursor DEF Time
<1>2. ZeroTail[k] = IF rd.cur - rd.win.start <= k THEN Silence ELSE rd.out[k]
  BY DEF ZeroTail
<1>3. ~(rd.cur - rd.win.start <= k) => Time(k) < rd.cur
  BY <1>1
<1> QED  BY <1>1, <1>2, <1>3 DEF Expected

\* The reader's invariants are inductive.
LEMMA ReadStep ==
    ASSUME TypeOK, LockInv, TimelineInv, CopyInv, ReadFilled, [Next]_vars
    PROVE  CopyInv' /\ ReadFilled'
<1>0. rd.pc \in {"idle", "past", "copy", "used", "return"} /\ rd \in ReadOf(rd.win.len)
  BY DEF TypeOK, ReaderOK, ReadOf
<1>1. ASSUME NEW w \in Windows, ReadEnter(w) PROVE CopyInv' /\ ReadFilled'
  BY <1>1 DEF ReadEnter, CopyInv, ReadFilled
<1>2. CASE ReadDrop
  BY <1>2 DEF ReadDrop, CopyInv, ReadFilled
<1>3. CASE ReadCopy
  <2> DEFINE r == live[rd.idx]
  <2>1. Copying /\ ~NothingToCopy /\ live' = live
    BY <1>3 DEF ReadCopy, list
  <2>2. /\ rd.idx \in 1..Len(live)
        /\ CopyStart(r) <= CopyEnd(r) /\ rd.cur <= CopyEnd(r)
        /\ \A k \in DOMAIN rd.out :
              Time(k) < CopyEnd(r) => CopyInto(r)[k] = Expected(Time(k))
    BY <2>1, CopyIterationExact
  <2>3. CopyStart(r) \in Nat /\ CopyEnd(r) \in Nat
    BY <2>2, LiveTypes, CopyType DEF TypeOK
  <2>4. rd' = [rd EXCEPT !.pc = "copy", !.n = @ + 1, !.out = CopyInto(r),
                         !.cur = CopyEnd(r), !.idx = @ + 1]
    BY <1>3, <2>2, <2>3 DEF ReadCopy
  <2>5. /\ rd'.pc = "copy" /\ rd'.win = rd.win /\ rd'.idx = rd.idx + 1
        /\ rd'.cur = CopyEnd(r) /\ rd'.out = CopyInto(r)
    BY <1>0, <2>4 DEF ReadOf
  <2>6. DOMAIN rd'.out = DOMAIN rd.out
    BY <2>5 DEF CopyInto
  <2>7. /\ rd.win.start <= rd.cur /\ rd.win.start \in Nat /\ rd.cur \in Nat
        /\ rd.idx \in Nat \ {0} /\ Len(live) \in Nat
    BY <2>1, AtCursor
  <2>8. \A k : Time(k)' = Time(k) /\ Expected(Time(k))' = Expected(Time(k))
    BY <2>1, <2>5 DEF Expected, Buffered, Time
  <2> HIDE DEF r
  <2>9. /\ rd'.idx > 1 /\ rd'.idx - 1 = rd.idx /\ rd.idx <= Len(live')
        /\ rd'.win.start <= rd'.cur
    BY <2>1, <2>2, <2>3, <2>5, <2>7
  <2>10. rd'.cur = Earlier(ReadEnd', EndOf(live'[rd'.idx - 1]))
    BY <2>1, <2>5, <2>9 DEF CopyEnd, ReadEnd, r
  <2>11. \A k \in DOMAIN rd'.out : Time(k)' < rd'.cur => rd'.out[k] = Expected(Time(k))'
    BY <2>2, <2>5, <2>6, <2>8
  <2>12. CopyInv'
    BY <2>5, <2>9, <2>10, <2>11 DEF CopyInv
  <2> QED  BY <2>5, <2>12 DEF ReadFilled
<1>4. CASE ReadFill
  <2>1. Copying /\ rd' = [rd EXCEPT !.pc = "used", !.out = ZeroTail]
    BY <1>4 DEF ReadFill
  <2>2. rd'.pc = "used" /\ rd'.out = ZeroTail /\ rd'.win = rd.win
    BY <1>0, <2>1 DEF ReadOf
  <2>3. DOMAIN ZeroTail = DOMAIN rd.out
    BY DEF ZeroTail
  <2>4. \A k \in DOMAIN rd.out : ZeroTail[k] \in {Silence, Time(k)}
    BY <2>1, TailFilled
  <2> QED  BY <2>2, <2>3, <2>4 DEF CopyInv, ReadFilled, Time
<1>5. CASE ReadUnlock
  <2>1. rd'.pc = "return" /\ rd'.out = rd.out /\ rd'.win = rd.win
    BY <1>0, <1>5 DEF ReadUnlock, ReadOf
  <2> QED  BY <1>5, <2>1 DEF ReadUnlock, CopyInv, ReadFilled
<1>6. CASE ReadReturn
  BY <1>6 DEF ReadReturn, NotReading, CopyInv, ReadFilled
<1>7. CASE ~ReaderNext
  <2>1. CASE rd.pc \in {"past", "copy", "used"}
    <3>1. UNCHANGED <<live, rd>>
      BY <1>7, <2>1, ReaderAlone
    <3> QED  BY <3>1 DEF CopyInv, ReadFilled, Expected, Buffered, Time, ReadEnd
  <2>2. CASE rd.pc \in {"idle", "return"}
    BY <1>7, <2>2, ReaderLeftAlone DEF CopyInv, ReadFilled
  <2> QED  BY <1>0, <2>1, <2>2
<1> QED  BY <1>1, <1>2, <1>3, <1>4, <1>5, <1>6, <1>7 DEF ReaderNext, ReaderContinues

\* The invariants of the reader hold in every reachable state.
LEMMA ReadInvariant ==
    Spec => [](TypeOK /\ RefInv /\ LockInv /\ TimelineInv /\ CopyInv /\ ReadFilled)
<1>1. Init => CopyInv /\ ReadFilled
  BY DEF Init, NotReading, CopyInv, ReadFilled
<1>2. TypeOK /\ RefInv /\ LockInv /\ TimelineInv /\ CopyInv /\ ReadFilled /\ [Next]_vars
      => CopyInv' /\ ReadFilled'
  BY ReadStep
<1> QED  BY <1>1, <1>2, StreamInvariant, PTL DEF Spec

\* stream_read leaves no sample of the output buffer unwritten, and none with a sample that
\* belongs elsewhere.
THEOREM ReadReturnsFilled == Spec => []ReadFilled
BY ReadInvariant, PTL

\* When the copy loop is over, each sample of the output buffer is the stream's sample of
\* that time if a region has it, and silence or still to be zero-filled if none has.
THEOREM ReadIsExact == Spec => []ReadExact
<1>1. ASSUME TypeOK, TimelineInv, CopyInv PROVE ReadExact
  <2> SUFFICES ASSUME Copying, NothingToCopy, NEW k \in DOMAIN rd.out
               PROVE  IF Buffered(Time(k)) THEN Time(k) < rd.cur /\ rd.out[k] = Time(k)
                      ELSE Time(k) >= rd.cur \/ rd.out[k] = Silence
    BY DEF ReadExact, Time
  <2> DEFINE t == Time(k)
  <2>1. /\ rd.cur \in Nat /\ rd.idx \in Nat \ {0} /\ Len(live) \in Nat
        /\ t \in Int /\ ReadEnd \in Nat /\ t < ReadEnd
        /\ t < rd.cur => rd.out[k] = Expected(t)
    BY <1>1, AtCursor, SMTT(30) DEF Time
  <2>2. ASSUME NEW j \in 1..Len(live), Covers(live[j], t) PROVE t < rd.cur
    <3>1. /\ live[j].start <= t /\ t < EndOf(live[j])
          /\ live[j].start \in Nat /\ EndOf(live[j]) \in Nat
      BY <1>1, <2>2, LiveTypes DEF Covers, TypeOK, EndOf
    <3>2. CASE j < rd.idx
      <4>1. rd.cur = ReadEnd \/ EndOf(live[j]) <= rd.cur
        BY <1>1, <3>2, AtCursor
      <4> QED  BY <2>1, <3>1, <4>1
    <3>3. CASE j >= rd.idx
      <4>1. rd.idx \in 1..Len(live)
        BY <2>1, <3>3
      <4>2. CASE live[rd.idx].start > ReadEnd
        <5>1. live[rd.idx].start \in Nat
          BY <1>1, <4>1, LiveTypes DEF TypeOK
        <5>2. rd.idx = j \/ live[rd.idx].start < live[j].start
          BY <1>1, <2>1, <3>3, <4>1 DEF TimelineInv, Sorted
        <5> QED  BY <2>1, <3>1, <4>2, <5>1, <5>2
      <4>3. CASE rd.cur = ReadEnd
        BY <2>1, <4>3
      <4> QED  BY <4>1, <4>2, <4>3 DEF NothingToCopy
    <3> QED  BY <2>1, <3>2, <3>3
  <2>3. CASE Buffered(t)
    BY <2>1, <2>2, <2>3 DEF Expected, Buffered
  <2>4. CASE ~Buffered(t)
    BY <2>1, <2>4 DEF Expected
  <2> QED  BY <2>3, <2>4
<1> QED  BY <1>1, ReadInvariant, PTL

-----------------------------------------------------------------------------
(***************************************************************************)
(* Counting samples                                                        *)
(***************************************************************************)

SamplesOf(s, i) == {i} \X (0..(s[i].len - 1))

\* A region of a list has a length.
LEMMA RegionLen ==
    ASSUME NEW s \in Seq(Region)
    PROVE  Len(s) \in Nat /\ \A i \in 1..Len(s) : s[i] \in Region /\ s[i].len \in Nat
<1>1. \A i \in 1..Len(s) : s[i] \in Region
  BY ElementOfSeq
<1>2. \A r \in Region : r.len \in Nat
  BY DEF Region
<1> QED  BY <1>1, <1>2, LenProperties

\* The members of Samples.
LEMMA InSamples ==
    ASSUME NEW s \in Seq(Region), NEW x
    PROVE  x \in Samples(s) <=> \E i \in 1..Len(s), k \in Nat : k < s[i].len /\ x = <<i, k>>
<1>1. DOMAIN s = 1..Len(s)
  OBVIOUS
<1>2. x \in Samples(s) <=> \E i \in 1..Len(s) : x \in {i} \X (0..(s[i].len - 1))
  BY <1>1 DEF Samples
<1>3. \A i \in 1..Len(s) : s[i].len \in Nat
  BY RegionLen
<1>4. \A i \in 1..Len(s) : x \in {i} \X (0..(s[i].len - 1))
                              <=> \E k \in Nat : k < s[i].len /\ x = <<i, k>>
  <2> TAKE i \in 1..Len(s)
  <2>1. \A k : k \in 0..(s[i].len - 1) <=> k \in Nat /\ k < s[i].len
    BY <1>3
  <2> QED  BY <2>1
<1> QED  BY <1>2, <1>4

\* A list has finitely many samples.
LEMMA SamplesFinite ==
    ASSUME NEW s \in Seq(Region)
    PROVE  IsFiniteSet(Samples(s)) /\ Cardinality(Samples(s)) \in Nat
<1> DEFINE U == {SamplesOf(s, i) : i \in 1..Len(s)}
           f == [i \in 1..Len(s) |-> SamplesOf(s, i)]
<1>1. Len(s) \in Nat /\ \A i \in 1..Len(s) : s[i].len \in Nat
  BY RegionLen
<1>2. IsFiniteSet(U)
  <2>1. f \in Surjection(1..Len(s), U)
    BY DEF Surjection
  <2>2. IsFiniteSet(1..Len(s))
    BY <1>1, FS_Interval
  <2> HIDE DEF U, f
  <2> QED  BY <2>1, <2>2, FS_Surjection
<1>3. ASSUME NEW i \in 1..Len(s) PROVE IsFiniteSet(SamplesOf(s, i))
  <2>1. IsFiniteSet(0..(s[i].len - 1)) /\ IsFiniteSet({i})
    <3>1. 0 \in Int /\ s[i].len - 1 \in Int
      BY <1>1
    <3> QED  BY <3>1, FS_Interval, FS_Singleton
  <2> QED  BY <2>1, FS_Product DEF SamplesOf
<1>4. \A T \in U : IsFiniteSet(T)
  BY <1>3
<1>5. Samples(s) = UNION U
  BY DEF Samples, SamplesOf
<1>6. IsFiniteSet(UNION U)
  <2> HIDE DEF U
  <2> QED  BY <1>2, <1>4, FS_UNION
<1> QED  BY <1>5, <1>6, FS_CardinalityType

\* An insertion adds the samples of the new region.
LEMMA SamplesInserted ==
    ASSUME NEW s \in Seq(Region), NEW t \in Seq(Region), NEW e \in Region,
           NEW i \in 0..Len(s), Insertion(t, s, i, e)
    PROVE  Cardinality(Samples(t)) = Cardinality(Samples(s)) + e.len
<1> DEFINE E == SamplesOf(t, i + 1)
           A == Samples(s)
           B == Samples(t) \ E
           f == [x \in A |-> <<IF x[1] <= i THEN x[1] ELSE x[1] + 1, x[2]>>]
<1>1. /\ i \in Nat /\ i <= Len(s) /\ Len(s) \in Nat /\ Len(t) = Len(s) + 1 /\ t[i + 1] = e
      /\ \A j \in 1..i : t[j] = s[j]
      /\ \A j \in (i + 2)..(Len(s) + 1) : t[j] = s[j - 1]
      /\ e.len \in Nat
  BY LenProperties DEF Insertion, Region
<1>2. ASSUME NEW j \in 1..Len(s)
      PROVE  IF j <= i THEN j \in 1..Len(t) /\ j # i + 1 /\ t[j] = s[j]
                       ELSE j + 1 \in 1..Len(t) /\ j + 1 # i + 1 /\ t[j + 1] = s[j]
  <2>1. CASE j <= i
    BY <1>1, <2>1
  <2>2. CASE ~(j <= i)
    <3>1. j + 1 \in (i + 2)..(Len(s) + 1) /\ (j + 1) - 1 = j
      BY <1>1, <2>2
    <3>2. t[j + 1] = s[(j + 1) - 1]
      BY <1>1, <3>1
    <3> QED  BY <1>1, <2>2, <3>1, <3>2
  <2> QED  BY <2>1, <2>2
<1>3. ASSUME NEW x \in A PROVE f[x] \in B
  <2>1. PICK j \in 1..Len(s), k \in Nat : k < s[j].len /\ x = <<j, k>>
    BY InSamples
  <2> DEFINE m == IF j <= i THEN j ELSE j + 1
  <2>2. f[x] = <<m, k>>
    BY <2>1
  <2>3. m \in 1..Len(t) /\ m # i + 1 /\ t[m] = s[j]
    BY <1>2
  <2> HIDE DEF m, f
  <2>4. f[x] \in Samples(t)
    BY <2>1, <2>2, <2>3, InSamples
  <2>5. f[x] \notin E
    BY <2>2, <2>3 DEF SamplesOf
  <2> QED  BY <2>4, <2>5
<1>4. ASSUME NEW x \in A, NEW y \in A, f[x] = f[y] PROVE x = y
  <2>1. PICK j \in 1..Len(s), k \in Nat : k < s[j].len /\ x = <<j, k>>
    BY InSamples
  <2>2. PICK l \in 1..Len(s), n \in Nat : n < s[l].len /\ y = <<l, n>>
    BY InSamples
  <2>3. /\ (IF j <= i THEN j ELSE j + 1) = (IF l <= i THEN l ELSE l + 1)
        /\ k = n
    BY <1>4, <2>1, <2>2
  <2> QED  BY <1>1, <2>1, <2>2, <2>3
<1>5. ASSUME NEW b \in B PROVE \E x \in A : f[x] = b
  <2>1. PICK l \in 1..Len(t), k \in Nat : k < t[l].len /\ b = <<l, k>>
    BY InSamples
  <2>2. l # i + 1
    <3>1. t[l].len \in Nat
      BY RegionLen
    <3>2. k \in 0..(t[l].len - 1)
      BY <2>1, <3>1
    <3> QED  BY <2>1, <3>2 DEF SamplesOf
  <2> DEFINE j == IF l <= i THEN l ELSE l - 1
  <2>3. j \in 1..Len(s) /\ s[j] = t[l] /\ (IF j <= i THEN j ELSE j + 1) = l
    <3>1. CASE l <= i
      BY <1>1, <3>1
    <3>2. CASE ~(l <= i)
      BY <1>1, <2>2, <3>2
    <3> QED  BY <3>1, <3>2
  <2> HIDE DEF j
  <2>4. <<j, k>> \in A
    BY <2>1, <2>3, InSamples
  <2>5. f[<<j, k>>] = b
    BY <2>1, <2>3, <2>4
  <2> QED  BY <2>4, <2>5
<1>6. IsFiniteSet(A) /\ IsFiniteSet(Samples(t)) /\ Cardinality(Samples(t)) \in Nat
      /\ Cardinality(A) \in Nat
  BY SamplesFinite
<1>7. Cardinality(B) = Cardinality(A)
  <2>1. f \in [A -> B]
    BY <1>3
  <2> HIDE DEF A, B, f
  <2> QED  BY <1>4, <1>5, <1>6, <2>1, SameSize
<1>8. Cardinality(E) = e.len /\ E \subseteq Samples(t)
  <2>1. Cardinality(0..(e.len - 1)) = e.len /\ IsFiniteSet(0..(e.len - 1))
    <3>1. 0 \in Int /\ e.len - 1 \in Int /\ (0 > e.len - 1 <=> e.len = 0)
      BY <1>1
    <3>2. /\ IsFiniteSet(0..(e.len - 1))
          /\ Cardinality(0..(e.len - 1)) = IF 0 > e.len - 1 THEN 0 ELSE (e.len - 1) - 0 + 1
      BY <3>1, FS_Interval
    <3> QED  BY <1>1, <3>2
  <2>2. Cardinality({i + 1}) = 1 /\ IsFiniteSet({i + 1})
    BY FS_Singleton
  <2>3. E = {i + 1} \X (0..(e.len - 1))
    BY <1>1 DEF SamplesOf
  <2>4. Cardinality(E) = 1 * e.len
    BY <2>1, <2>2, <2>3, FS_Product, ZenonT(60)
  <2>5. E \subseteq Samples(t)
    <3>1. i + 1 \in 1..Len(t)
      BY <1>1
    <3> SUFFICES ASSUME NEW x \in E PROVE x \in Samples(t)
      OBVIOUS
    <3>2. PICK k \in 0..(t[i + 1].len - 1) : x = <<i + 1, k>>
      BY DEF SamplesOf
    <3>3. k \in Nat /\ k < t[i + 1].len
      BY <1>1
    <3> QED  BY <3>1, <3>2, <3>3, InSamples
  <2> QED  BY <1>1, <2>4, <2>5
<1>9. Cardinality(B) = Cardinality(Samples(t)) - Cardinality(E)
  <2>1. Samples(t) \cap E = E
    BY <1>8
  <2>2. Cardinality(Samples(t) \ E) = Cardinality(Samples(t)) - Cardinality(Samples(t) \cap E)
    <3> HIDE DEF E
    <3> QED  BY <1>6, FS_Difference
  <2> QED  BY <2>1, <2>2
<1> HIDE DEF A, B, E, f
<1>10. Cardinality(Samples(t)) = Cardinality(A) + e.len
  BY <1>1, <1>6, <1>7, <1>8, <1>9
<1> QED  BY <1>10 DEF A

\* An empty list has none.
LEMMA SamplesEmpty == Cardinality(Samples(<<>>)) = 0
<1>1. Samples(<<>>) = {}
  BY DEF Samples
<1> QED  BY <1>1, FS_EmptySet

\* A list of regions with buffers is a list of regions.
LEMMA FilledRegions == Filled \subseteq Region /\ Seq(Filled) \subseteq Seq(Region)
<1>1. Filled \subseteq Region
  BY DEF Filled, Region
<1> QED  BY <1>1, SeqMonotonic

\* What the loss of its head takes from a list.
LEMMA SamplesTail ==
    ASSUME NEW s \in Seq(Region), s # <<>>
    PROVE  Cardinality(Samples(s)) = Cardinality(Samples(Tail(s))) + Head(s).len
<1>1. Insertion(s, Tail(s), 0, Head(s)) /\ Len(Tail(s)) \in Nat /\ Tail(s) \in Seq(Region)
      /\ Head(s) \in Region
  BY TailInsertion, HeadTailProperties
<1>2. 0 \in 0..Len(Tail(s))
  BY <1>1
<1> QED  BY <1>1, <1>2, SamplesInserted

\* sample_fill is right as long as nobody clears the stream.
LEMMA FillStep ==
    ASSUME TypeOK, RefInv, FillAccounting, [Next]_vars
    PROVE  FillAccounting'
<1>1. live \in Seq(Region) /\ fill \in Int
  BY FilledRegions DEF TypeOK, ListsOK
<1>2. SUFFICES ASSUME ~cleared' PROVE fill' = Cardinality(Samples(live'))
  BY DEF FillAccounting
<1>3. ~cleared
  BY <1>2 DEF Next, vars, WriterNext, WriterContinues, WriteEnter, WriteEvict, WriteUnlock, Reclaim,
        WriteAllocRegion, WriteAllocBuf, WriteInsert, Clear, ClearPools, ReaderNext, ReaderContinues,
        ReadEnter, ReadDrop, ReadCopy, ReadFill, ReadUnlock, ReadReturn, ConsumerNext, ConsumeEnter,
        ConsumeWake, Consume, SpuriousWakeup, DestroyPacket, CancelConsume, Incref, Decref
<1>4. fill = Cardinality(Samples(live))
  BY <1>3 DEF FillAccounting
<1>5. CASE UNCHANGED <<live, fill>>
  BY <1>4, <1>5
<1>6. CASE live # <<>> /\ live' = Tail(live) /\ fill' = fill - Head(live).len
  <2>1. Cardinality(Samples(live)) = Cardinality(Samples(Tail(live))) + Head(live).len
    BY <1>1, <1>6, SamplesTail
  <2>2. Head(live).len \in Nat /\ Tail(live) \in Seq(Region)
    BY <1>6, HeadType, FilledRegions DEF TypeOK
  <2>3. Cardinality(Samples(Tail(live))) \in Nat
    BY <2>2, SamplesFinite
  <2> QED  BY <1>4, <1>6, <2>1, <2>2, <2>3
<1>7. CASE live' = <<>> /\ fill' = 0
  BY <1>7, SamplesEmpty
<1>8. CASE WriteInsert
  <2> DEFINE new == [start |-> wr.pkt.start, len |-> wr.pkt.len, buf |-> wr.fresh]
  <2>1. PICK i \in 0..Len(live) : live' = InsertAt(live, i + 1, new)
    BY <1>8 DEF WriteInsert
  <2>2. new \in Region /\ new.len = wr.pkt.len /\ fill' = fill + wr.pkt.len
    BY <1>8 DEF WriteInsert, TypeOK, WriterOK, Span, Region
  <2> HIDE DEF new
  <2>3. live' \in Seq(Region) /\ Insertion(live', live, i, new)
    BY <1>1, <2>1, <2>2, InsertAtProperties
  <2> QED  BY <1>1, <1>4, <2>2, <2>3, SamplesInserted
<1>9. UNCHANGED <<live, fill>> \/ (live # <<>> /\ live' = Tail(live) /\ fill' = fill - Head(live).len)
      \/ (live' = <<>> /\ fill' = 0) \/ WriteInsert
  <2>1. ~Clear
    BY <1>2 DEF Clear
  <2> QED  BY <2>1, LiveChanges
<1> QED  BY <1>5, <1>6, <1>7, <1>8, <1>9

-----------------------------------------------------------------------------
(***************************************************************************)
(* Counting regions and buffers                                            *)
(***************************************************************************)

\* The length of a list of regions, under a name that hides it from the arithmetic.
Size(s) == Len(s)

HasBuffer == {r \in Region : r.buf # NULL}
BufferOf(r) == IF r.buf = NULL THEN 0 ELSE 1

\* WithBuf is a count of list elements.
LEMMA WithBufPlaces ==
    ASSUME NEW s \in Seq(Region)
    PROVE  WithBuf(s) = Cardinality(Places(s, HasBuffer)) /\ WithBuf(s) \in Nat /\ Size(s) \in Nat
<1>1. Size(s) \in Nat /\ DOMAIN s = 1..Len(s) /\ \A i \in 1..Len(s) : s[i] \in Region
  BY LenProperties, ElementOfSeq DEF Size
<1>2. {i \in DOMAIN s : s[i].buf # NULL} = Places(s, HasBuffer)
  BY <1>1 DEF Places, HasBuffer
<1> QED  BY <1>1, <1>2, PlacesFinite DEF WithBuf, Size

\* An empty list has no buffers.
LEMMA WithBufEmpty == WithBuf(<<>>) = 0 /\ Size(<<>>) = 0 /\ <<>> \in Seq(Region)
<1>1. <<>> \in Seq(Region) /\ Size(<<>>) = 0
  BY EmptySeq DEF Size
<1> QED  BY <1>1, WithBufPlaces, PlacesEmpty

\* A list has the buffers of what is inserted into it.
LEMMA WithBufInserted ==
    ASSUME NEW s \in Seq(Region), NEW t \in Seq(Region), NEW e \in Region,
           NEW i \in 0..Len(s), Insertion(t, s, i, e)
    PROVE  WithBuf(t) = WithBuf(s) + BufferOf(e)
<1>1. Cardinality(Places(t, HasBuffer))
         = Cardinality(Places(s, HasBuffer)) + (IF e \in HasBuffer THEN 1 ELSE 0)
  BY LenProperties, PlacesInserted
<1>2. e \in HasBuffer <=> e.buf # NULL
  BY DEF HasBuffer
<1> QED  BY <1>1, <1>2, WithBufPlaces DEF BufferOf

\* A list has the buffers of its head and of its tail.
LEMMA WithBufTail ==
    ASSUME NEW s \in Seq(Region), s # <<>>
    PROVE  /\ Head(s) \in Region /\ Tail(s) \in Seq(Region) /\ Size(Tail(s)) = Size(s) - 1
           /\ WithBuf(s) = WithBuf(Tail(s)) + BufferOf(Head(s))
           /\ WithBuf(Tail(s)) \in Nat /\ BufferOf(Head(s)) \in Nat
<1>1. /\ Insertion(s, Tail(s), 0, Head(s)) /\ Size(Tail(s)) \in Nat /\ Tail(s) \in Seq(Region)
      /\ Head(s) \in Region /\ Size(Tail(s)) = Size(s) - 1
  BY TailInsertion, HeadTailProperties DEF Size
<1>2. 0 \in 0..Len(Tail(s))
  BY <1>1
<1>3. WithBuf(Tail(s)) \in Nat /\ BufferOf(Head(s)) \in Nat
  BY <1>1, WithBufPlaces DEF BufferOf
<1> QED  BY <1>1, <1>2, <1>3, WithBufInserted

\* The dead list, as it grows, has the buffers of what it is given.
LEMMA WithBufCons ==
    ASSUME NEW s \in Seq(Region), NEW e \in Region
    PROVE  /\ Cons(e, s) \in Seq(Region) /\ Size(Cons(e, s)) = Size(s) + 1
           /\ WithBuf(Cons(e, s)) = WithBuf(s) + BufferOf(e)
<1>1. Insertion(Cons(e, s), s, 0, e) /\ Cons(e, s) \in Seq(Region) /\ 0 \in 0..Len(s)
  BY EndInsertions
<1> QED  BY <1>1, WithBufInserted, ConsProperties DEF Size

\* Two lists in a row have the buffers of both.
LEMMA WithBufConcat ==
    ASSUME NEW s \in Seq(Region), NEW t \in Seq(Region)
    PROVE  /\ s \o t \in Seq(Region) /\ Size(s \o t) = Size(s) + Size(t)
           /\ WithBuf(s \o t) = WithBuf(s) + WithBuf(t)
<1>1. s \o t \in Seq(Region) /\ Size(s \o t) = Size(s) + Size(t)
  BY ConcatProperties DEF Size
<1>2. Cardinality(Places(s \o t, HasBuffer))
         = Cardinality(Places(s, HasBuffer)) + Cardinality(Places(t, HasBuffer))
  BY PlacesConcat
<1> QED  BY <1>1, <1>2, WithBufPlaces

\* What is out of the pools: regions, and buffers.
RegionsOut(p) == p.heapRegions - p.regions
BufsOut(p)    == p.heapBufs - Size(p.bufs)

\* free_databuf gives back a buffer.
LEMMA FreeBufCounts ==
    ASSUME NEW p, PoolOK(p), NEW len \in Nat, NEW buf \in Nat
    PROVE  /\ RegionsOut(FreeBuf(p, len, buf)) = RegionsOut(p)
           /\ BufsOut(FreeBuf(p, len, buf)) = BufsOut(p) - 1
<1> DEFINE b == [size |-> len, real |-> buf]
<1>1. /\ b \in [size : Nat, real : Nat] /\ p.bufs \in Seq([size : Nat, real : Nat])
      /\ Size(p.bufs) \in Nat /\ p.heapBufs \in Int
  BY LenProperties DEF PoolOK, Size
<1>2. CASE Size(p.bufs) = PoolSize
  <2> DEFINE n == p.heapBufs - 1
  <2>1. FreeBuf(p, len, buf) = [p EXCEPT !.heapBufs = n]
    BY <1>2, Zenon DEF FreeBuf, Size
  <2>2. n \in Int /\ n = p.heapBufs - 1
    BY <1>1
  <2> HIDE DEF b, n
  <2> QED  BY <1>1, <2>1, <2>2 DEF PoolOK, RegionsOut, BufsOut
<1>3. CASE Size(p.bufs) # PoolSize
  <2> DEFINE a == Append(p.bufs, b)
  <2>1. Size(a) = Size(p.bufs) + 1
    BY <1>1, AppendProperties DEF Size
  <2>2. FreeBuf(p, len, buf) = [p EXCEPT !.bufs = a]
    BY <1>3 DEF FreeBuf, Size
  <2> HIDE DEF a, b
  <2> QED  BY <1>1, <2>1, <2>2 DEF PoolOK, RegionsOut, BufsOut
<1> QED  BY <1>2, <1>3

\* free_region gives back a region.
LEMMA FreeRegionCounts ==
    ASSUME NEW p, PoolOK(p)
    PROVE  /\ RegionsOut(FreeRegion(p)) = RegionsOut(p) - 1
           /\ BufsOut(FreeRegion(p)) = BufsOut(p)
BY DEF PoolOK, FreeRegion, RegionsOut, BufsOut

\* destroy_region gives back a region, and the buffer if it has one.
LEMMA DestroyRegionCounts ==
    ASSUME NEW p, PoolOK(p), NEW r \in Region
    PROVE  /\ RegionsOut(DestroyRegion(p, r)) = RegionsOut(p) - 1
           /\ BufsOut(DestroyRegion(p, r)) = BufsOut(p) - BufferOf(r)
<1>0. Size(p.bufs) \in Nat /\ p.heapBufs \in Int
  BY LenProperties DEF PoolOK, Size
<1>1. CASE r.buf = NULL
  BY <1>0, <1>1, FreeRegionCounts DEF DestroyRegion, BufferOf, BufsOut
<1>2. CASE r.buf # NULL
  <2>1. r.len \in Nat /\ r.buf \in Nat
    BY <1>2 DEF Region
  <2> DEFINE q == FreeBuf(p, r.len, r.buf)
  <2>2. PoolOK(q) /\ RegionsOut(q) = RegionsOut(p) /\ BufsOut(q) = BufsOut(p) - 1
    BY <2>1, FreeBufType, FreeBufCounts
  <2>3. DestroyRegion(p, r) = FreeRegion(q)
    BY <1>2 DEF DestroyRegion
  <2> HIDE DEF q
  <2> QED  BY <1>2, <2>2, <2>3, FreeRegionCounts DEF BufferOf
<1> QED  BY <1>1, <1>2

Holding == {c \in Consumers : con[c].pc = "holding"}
RegionInHand == IF wr.pc \in {"allocbuf", "insert"} THEN 1 ELSE 0
BufInHand    == IF wr.pc = "insert" THEN 1 ELSE 0

RegionsHeld == Size(live) + Size(dead) + Size(wr.scrap) + RegionInHand
BufsHeld    == WithBuf(live) + WithBuf(dead) + WithBuf(wr.scrap) + BufInHand + Cardinality(Holding)

\* The strengthening of MemoryConserved: the writer has regions to destroy only while it is
\* destroying them.
MemoryInv ==
    fault = "none" =>
        /\ wr.pc \notin {"reclaim", "purge"} => wr.scrap = <<>>
        /\ RegionsOut(pool) = RegionsHeld /\ BufsOut(pool) = BufsHeld

\* The types of what is counted.
LEMMA CountTypes ==
    ASSUME TypeOK
    PROVE  /\ live \in Seq(Region) /\ dead \in Seq(Region) /\ wr.scrap \in Seq(Region)
           /\ PoolOK(pool) /\ pool.bufs \in Seq([size : Nat, real : Nat])
           /\ pool.regions \in Nat /\ pool.heapRegions \in Int /\ pool.heapBufs \in Int
           /\ IsFiniteSet(Holding)
<1>1. live \in Seq(Region) /\ dead \in Seq(Region) /\ wr.scrap \in Seq(Region)
  BY FilledRegions DEF TypeOK, ListsOK, WriterOK
<1>2. /\ pool.regions \in Nat /\ pool.heapRegions \in Int /\ pool.heapBufs \in Int
      /\ pool.bufs \in Seq([size : Nat, real : Nat]) /\ PoolOK(pool)
  BY DEF TypeOK, PoolOK
<1>3. IsFiniteSet(Holding)
  BY SizesAssumption, FS_Subset DEF Holding
<1> QED  BY <1>1, <1>2, <1>3

\* The counts are numbers.
LEMMA CountNumbers ==
    ASSUME TypeOK
    PROVE  /\ Size(live) \in Nat /\ Size(dead) \in Nat /\ Size(wr.scrap) \in Nat
           /\ WithBuf(live) \in Nat /\ WithBuf(dead) \in Nat /\ WithBuf(wr.scrap) \in Nat
           /\ Size(pool.bufs) \in Nat /\ Cardinality(Holding) \in Nat
           /\ RegionInHand \in Nat /\ BufInHand \in Nat
           /\ RegionsOut(pool) \in Int /\ BufsOut(pool) \in Int
<1>1. /\ live \in Seq(Region) /\ dead \in Seq(Region) /\ wr.scrap \in Seq(Region)
      /\ IsFiniteSet(Holding) /\ pool.bufs \in Seq([size : Nat, real : Nat])
  BY CountTypes
<1>2. Size(pool.bufs) \in Nat
  BY <1>1, LenProperties DEF Size
<1>3. Cardinality(Holding) \in Nat
  BY <1>1, FS_CardinalityType
<1>4. RegionInHand \in Nat /\ BufInHand \in Nat
  BY DEF RegionInHand, BufInHand
<1>5. RegionsOut(pool) \in Int /\ BufsOut(pool) \in Int
  BY <1>2, CountTypes DEF RegionsOut, BufsOut
<1> QED  BY <1>1, <1>2, <1>3, <1>4, <1>5, WithBufPlaces

\* What the writer has in its hands.
LEMMA HandsOf ==
    /\ wr.pc \notin {"allocbuf", "insert"} => RegionInHand = 0 /\ BufInHand = 0
    /\ wr.pc = "allocbuf" => RegionInHand = 1 /\ BufInHand = 0
    /\ wr.pc = "insert" => RegionInHand = 1 /\ BufInHand = 1
BY DEF RegionInHand, BufInHand

\* A step that leaves alone what is counted.
LEMMA CountsKept ==
    ASSUME MemoryInv, fault = "none", UNCHANGED <<live, dead, pool, Holding>>,
           wr'.scrap = wr.scrap,
           wr'.pc \notin {"reclaim", "purge"} => wr'.scrap = <<>>,
           wr.pc \in {"allocbuf", "insert"} <=> wr'.pc \in {"allocbuf", "insert"},
           wr.pc = "insert" <=> wr'.pc = "insert"
    PROVE  MemoryInv'
<1>1. RegionInHand' = RegionInHand /\ BufInHand' = BufInHand
  BY DEF RegionInHand, BufInHand
<1>2. RegionsHeld' = RegionsHeld /\ BufsHeld' = BufsHeld
  BY <1>1 DEF RegionsHeld, BufsHeld
<1>3. RegionsOut(pool)' = RegionsOut(pool) /\ BufsOut(pool)' = BufsOut(pool)
  OBVIOUS
<1> QED  BY <1>2, <1>3 DEF MemoryInv

\* Whoever takes the head of the list moves a region to the dead list, and its buffer unless
\* the region that goes there is bare.
LEMMA HeadCounts ==
    ASSUME TypeOK, live # <<>>, NEW r \in Region, r.buf = NULL \/ r = Head(live),
           live' = Tail(live), dead' = Cons(r, dead)
    PROVE  /\ Size(live') = Size(live) - 1 /\ Size(dead') = Size(dead) + 1
           /\ WithBuf(live') = WithBuf(live) - 1
           /\ WithBuf(dead') = WithBuf(dead) + (IF r.buf = NULL THEN 0 ELSE 1)
<1>1. live \in Seq(Region) /\ dead \in Seq(Region)
  BY CountTypes
<1>2. /\ Tail(live) \in Seq(Region) /\ Size(Tail(live)) = Size(live) - 1
      /\ WithBuf(live) = WithBuf(Tail(live)) + BufferOf(Head(live))
      /\ WithBuf(Tail(live)) \in Nat
  BY <1>1, WithBufTail
<1>3. BufferOf(Head(live)) = 1
  <2>1. Head(live) \in Filled
    BY HeadType DEF TypeOK
  <2> QED  BY <2>1 DEF Filled, NULL, BufferOf
<1>4. WithBuf(live) \in Nat /\ WithBuf(Tail(live)) = WithBuf(live) - 1
  BY <1>2, <1>3
<1>5. Size(Cons(r, dead)) = Size(dead) + 1 /\ WithBuf(Cons(r, dead)) = WithBuf(dead) + BufferOf(r)
  BY <1>1, WithBufCons
<1> QED  BY <1>2, <1>4, <1>5 DEF BufferOf

\* What an allocation takes from a pool.
LEMMA AllocCounts ==
    ASSUME NEW p, PoolOK(p)
    PROVE  /\ \A q \in {[p EXCEPT !.regions = @ - 1], [p EXCEPT !.heapRegions = @ + 1]} :
                 RegionsOut(q) = RegionsOut(p) + 1 /\ BufsOut(q) = BufsOut(p)
           /\ RegionsOut([p EXCEPT !.heapBufs = @ + 1]) = RegionsOut(p)
           /\ BufsOut([p EXCEPT !.heapBufs = @ + 1]) = BufsOut(p) + 1
           /\ \A i \in 1..Len(p.bufs) :
                 /\ RegionsOut([p EXCEPT !.bufs = RemoveAt(@, i)]) = RegionsOut(p)
                 /\ BufsOut([p EXCEPT !.bufs = RemoveAt(@, i)]) = BufsOut(p) + 1
<1>1. /\ p.bufs \in Seq([size : Nat, real : Nat]) /\ p.regions \in Nat
      /\ p.heapBufs \in Int /\ p.heapRegions \in Int
      /\ p = [regions |-> p.regions, bufs |-> p.bufs, heapRegions |-> p.heapRegions,
              heapBufs |-> p.heapBufs]
  BY DEF PoolOK
<1>2. Size(p.bufs) \in Nat
  BY <1>1, LenProperties DEF Size
<1>3. ASSUME NEW i \in 1..Len(p.bufs)
      PROVE  /\ RegionsOut([p EXCEPT !.bufs = RemoveAt(@, i)]) = RegionsOut(p)
             /\ BufsOut([p EXCEPT !.bufs = RemoveAt(@, i)]) = BufsOut(p) + 1
  <2> DEFINE rest == RemoveAt(p.bufs, i)
             q == [p EXCEPT !.bufs = rest]
  <2>1. Size(rest) = Size(p.bufs) - 1
    BY <1>1, RemoveAtProperties DEF Size
  <2> HIDE DEF rest
  <2>2. q.regions = p.regions /\ q.heapRegions = p.heapRegions /\ q.heapBufs = p.heapBufs
        /\ q.bufs = rest
    BY <1>1
  <2> HIDE DEF q
  <2>3. RegionsOut(q) = RegionsOut(p) /\ BufsOut(q) = BufsOut(p) + 1
    <3> DEFINE m == Size(p.bufs)
               n == Size(rest)
    <3>1. m \in Nat /\ n = m - 1
      BY <1>2, <2>1
    <3>2. RegionsOut(q) = RegionsOut(p) /\ BufsOut(q) = p.heapBufs - n /\ BufsOut(p) = p.heapBufs - m
      BY <2>2 DEF RegionsOut, BufsOut
    <3> HIDE DEF m, n
    <3> QED  BY <1>1, <3>1, <3>2
  <2> QED  BY <2>3 DEF q, rest
<1>4. \A q \in {[p EXCEPT !.regions = @ - 1], [p EXCEPT !.heapRegions = @ + 1]} :
         RegionsOut(q) = RegionsOut(p) + 1 /\ BufsOut(q) = BufsOut(p)
  BY <1>1 DEF RegionsOut, BufsOut
<1>5. /\ RegionsOut([p EXCEPT !.heapBufs = @ + 1]) = RegionsOut(p)
      /\ BufsOut([p EXCEPT !.heapBufs = @ + 1]) = BufsOut(p) + 1
  BY <1>1, <1>2 DEF RegionsOut, BufsOut
<1> QED  BY <1>3, <1>4, <1>5

\* The writer's own calls keep count of what they allocate, move and free.
LEMMA WriterMemoryStep ==
    ASSUME TypeOK, MemoryInv, fault = "none", fault' = "none", WriterNext
    PROVE  MemoryInv'
<1>t. /\ live \in Seq(Region) /\ dead \in Seq(Region) /\ wr.scrap \in Seq(Region)
      /\ PoolOK(pool) /\ wr.pc \in {"idle", "evict", "reclaim", "allocbuf", "insert", "purge"}
  BY CountTypes DEF TypeOK, WriterOK
<1>n. /\ Size(live) \in Nat /\ Size(dead) \in Nat /\ Size(wr.scrap) \in Nat
      /\ WithBuf(live) \in Nat /\ WithBuf(dead) \in Nat /\ WithBuf(wr.scrap) \in Nat
      /\ Cardinality(Holding) \in Nat /\ RegionInHand \in Nat /\ BufInHand \in Nat
      /\ RegionsOut(pool) \in Int /\ BufsOut(pool) \in Int
  BY CountNumbers
<1>0. /\ wr.pc \notin {"reclaim", "purge"} => wr.scrap = <<>>
      /\ RegionsOut(pool) = RegionsHeld /\ BufsOut(pool) = BufsHeld
  BY DEF MemoryInv
<1>h. UNCHANGED con => Holding' = Holding
  BY DEF Holding
<1>i. /\ wr'.pc \notin {"allocbuf", "insert"} => RegionInHand' = 0 /\ BufInHand' = 0
      /\ wr'.pc = "allocbuf" => RegionInHand' = 1 /\ BufInHand' = 0
      /\ wr'.pc = "insert" => RegionInHand' = 1 /\ BufInHand' = 1
  BY DEF RegionInHand, BufInHand
<1>1. ASSUME NEW p \in Packets, WriteEnter(p) PROVE MemoryInv'
  <2>1. \/ UNCHANGED wr
        \/ wr.pc = "idle" /\ wr'.pc = "evict" /\ wr'.scrap = wr.scrap
    BY <1>1 DEF WriteEnter, TypeOK, WriterOK
  <2> QED  BY <1>0, <1>1, <1>h, <2>1, CountsKept DEF WriteEnter, list
<1>2. CASE WriteEvict
  <2>1. live # <<>> /\ live' = Tail(live) /\ dead' = Cons(Head(live), dead)
        /\ UNCHANGED <<pool, wr, con>>
    BY <1>2 DEF WriteEvict
  <2>2. Head(live) \in Region /\ Head(live).buf # NULL
    <3>1. Head(live) \in Filled /\ Head(live) \in Region
      BY <2>1, HeadType DEF TypeOK
    <3> QED  BY <3>1 DEF Filled, NULL
  <2>3. /\ Size(live') = Size(live) - 1 /\ Size(dead') = Size(dead) + 1
        /\ WithBuf(live') = WithBuf(live) - 1 /\ WithBuf(dead') = WithBuf(dead) + 1
    BY <2>1, <2>2, HeadCounts
  <2>4. RegionInHand' = RegionInHand /\ BufInHand' = BufInHand /\ Holding' = Holding
        /\ wr' = wr
    BY <1>h, <2>1 DEF RegionInHand, BufInHand
  <2>5. RegionsHeld' = RegionsHeld /\ BufsHeld' = BufsHeld
    BY <1>n, <2>3, <2>4 DEF RegionsHeld, BufsHeld
  <2> QED  BY <1>0, <2>1, <2>5 DEF MemoryInv
<1>3. CASE WriteUnlock
  <2>1. /\ wr.pc = "evict" /\ wr'.pc = "reclaim" /\ wr'.scrap = dead /\ dead' = <<>>
        /\ UNCHANGED <<live, pool, con>>
    BY <1>3 DEF WriteUnlock, TypeOK, WriterOK
  <2>2. /\ Size(dead') = 0 /\ WithBuf(dead') = 0 /\ Size(wr.scrap) = 0 /\ WithBuf(wr.scrap) = 0
        /\ Size(wr'.scrap) = Size(dead) /\ WithBuf(wr'.scrap) = WithBuf(dead)
        /\ live' = live /\ Holding' = Holding
    BY <1>0, <1>h, <2>1, WithBufEmpty
  <2>3. RegionInHand = 0 /\ BufInHand = 0 /\ RegionInHand' = 0 /\ BufInHand' = 0
    BY <1>i, <2>1, HandsOf
  <2>4. RegionsHeld' = RegionsHeld /\ BufsHeld' = BufsHeld
    BY <1>n, <2>2, <2>3 DEF RegionsHeld, BufsHeld
  <2> QED  BY <1>0, <2>1, <2>4 DEF MemoryInv
<1>4. CASE Reclaim
  <2>1. /\ wr.scrap # <<>> /\ wr'.pc = wr.pc /\ wr'.scrap = Tail(wr.scrap)
        /\ pool' = DestroyRegion(pool, Head(wr.scrap)) /\ wr.pc \in {"reclaim", "purge"}
        /\ UNCHANGED <<live, dead, con>>
    BY <1>4 DEF Reclaim, TypeOK, WriterOK, list
  <2>2. /\ Head(wr.scrap) \in Region /\ BufferOf(Head(wr.scrap)) \in Nat
        /\ Size(Tail(wr.scrap)) = Size(wr.scrap) - 1 /\ WithBuf(Tail(wr.scrap)) \in Nat
        /\ WithBuf(wr.scrap) = WithBuf(Tail(wr.scrap)) + BufferOf(Head(wr.scrap))
    BY <1>t, <2>1, WithBufTail
  <2>3. RegionsOut(pool') = RegionsOut(pool) - 1
        /\ BufsOut(pool') = BufsOut(pool) - BufferOf(Head(wr.scrap))
    BY <1>t, <2>1, <2>2, DestroyRegionCounts
  <2>4. /\ RegionInHand' = RegionInHand /\ BufInHand' = BufInHand /\ Holding' = Holding
        /\ live' = live /\ dead' = dead
        /\ Size(wr'.scrap) = Size(Tail(wr.scrap)) /\ WithBuf(wr'.scrap) = WithBuf(Tail(wr.scrap))
    BY <1>h, <2>1 DEF RegionInHand, BufInHand
  <2>5. RegionsHeld' = RegionsHeld - 1 /\ BufsHeld' = BufsHeld - BufferOf(Head(wr.scrap))
    BY <1>n, <2>2, <2>4 DEF RegionsHeld, BufsHeld
  <2> QED  BY <1>0, <2>1, <2>3, <2>5 DEF MemoryInv
<1>5. CASE WriteAllocRegion
  <2>1. wr.scrap = <<>> /\ UNCHANGED <<live, dead, con>> /\ wr.pc = "reclaim"
    BY <1>5 DEF WriteAllocRegion, list
  <2>2. \/ /\ wr' = [wr EXCEPT !.pc = "allocbuf"]
           /\ pool' \in {[pool EXCEPT !.regions = @ - 1], [pool EXCEPT !.heapRegions = @ + 1]}
        \/ wr' = Resting /\ UNCHANGED pool
    BY <1>5 DEF WriteAllocRegion
  <2>3. ASSUME wr' = [wr EXCEPT !.pc = "allocbuf"],
               pool' \in {[pool EXCEPT !.regions = @ - 1], [pool EXCEPT !.heapRegions = @ + 1]}
        PROVE  MemoryInv'
    <3>1. wr'.pc = "allocbuf" /\ wr'.scrap = wr.scrap
      BY <2>3 DEF TypeOK, WriterOK
    <3>2. RegionsOut(pool') = RegionsOut(pool) + 1 /\ BufsOut(pool') = BufsOut(pool)
      BY <1>t, <2>3, AllocCounts
    <3>3. /\ RegionInHand = 0 /\ BufInHand = 0 /\ RegionInHand' = 1 /\ BufInHand' = 0
          /\ Holding' = Holding
      BY <1>h, <1>i, <2>1, <3>1, HandsOf
    <3>4. live' = live /\ dead' = dead /\ wr'.scrap = wr.scrap
      BY <2>1, <3>1
    <3>5. RegionsHeld' = RegionsHeld + 1 /\ BufsHeld' = BufsHeld
      BY <1>n, <3>3, <3>4 DEF RegionsHeld, BufsHeld
    <3> QED  BY <1>0, <2>1, <3>1, <3>2, <3>5 DEF MemoryInv
  <2>4. CASE wr' = Resting /\ UNCHANGED pool
    BY <1>0, <1>h, <2>1, <2>4, CountsKept DEF Resting
  <2> QED  BY <2>2, <2>3, <2>4
<1>6. CASE WriteAllocBuf
  <2>1. wr.pc = "allocbuf" /\ wr.scrap = <<>> /\ UNCHANGED <<live, dead, con>>
    BY <1>0, <1>6 DEF WriteAllocBuf, list
  <2> DEFINE With(b) == [wr EXCEPT !.pc = "insert", !.fresh = b]
  <2>2. ASSUME NEW b, wr' = With(b) PROVE wr'.pc = "insert" /\ wr'.scrap = wr.scrap
    BY <2>2 DEF TypeOK, WriterOK
  <2>3. ASSUME wr'.pc = "insert", wr'.scrap = wr.scrap,
               RegionsOut(pool') = RegionsOut(pool), BufsOut(pool') = BufsOut(pool) + 1
        PROVE  MemoryInv'
    <3>1. /\ RegionInHand = 1 /\ BufInHand = 0 /\ RegionInHand' = 1 /\ BufInHand' = 1
          /\ Holding' = Holding /\ live' = live /\ dead' = dead
      BY <1>h, <1>i, <2>1, <2>3, HandsOf
    <3>2. RegionsHeld' = RegionsHeld /\ BufsHeld' = BufsHeld + 1
      BY <1>n, <2>3, <3>1 DEF RegionsHeld, BufsHeld
    <3> QED  BY <1>0, <2>1, <2>3, <3>2 DEF MemoryInv
  <2>4. ASSUME NEW i \in 1..Len(pool.bufs), wr' = With(pool.bufs[i].real),
               pool' = [pool EXCEPT !.bufs = RemoveAt(@, i)]
        PROVE  MemoryInv'
    <3>1. RegionsOut(pool') = RegionsOut(pool) /\ BufsOut(pool') = BufsOut(pool) + 1
      BY <1>t, <2>4, AllocCounts
    <3> HIDE DEF With
    <3> QED  BY <2>2, <2>3, <2>4, <3>1
  <2>5. ASSUME pool' = [pool EXCEPT !.heapBufs = @ + 1], wr' = With(wr.pkt.len)
        PROVE  MemoryInv'
    <3>1. RegionsOut(pool') = RegionsOut(pool) /\ BufsOut(pool') = BufsOut(pool) + 1
      BY <1>t, <2>5, AllocCounts
    <3> HIDE DEF With
    <3> QED  BY <2>2, <2>3, <2>5, <3>1
  <2>6. ASSUME pool' = FreeRegion(pool), wr' = Resting PROVE MemoryInv'
    <3>1. RegionsOut(pool') = RegionsOut(pool) - 1 /\ BufsOut(pool') = BufsOut(pool)
      BY <1>t, <2>6, FreeRegionCounts
    <3>2. wr'.pc = "idle" /\ wr'.scrap = <<>>
      BY <2>6 DEF Resting
    <3>3. /\ RegionInHand = 1 /\ BufInHand = 0 /\ RegionInHand' = 0 /\ BufInHand' = 0
          /\ Holding' = Holding /\ live' = live /\ dead' = dead /\ wr'.scrap = wr.scrap
      BY <1>h, <1>i, <2>1, <3>2, HandsOf
    <3>4. RegionsHeld' = RegionsHeld - 1 /\ BufsHeld' = BufsHeld
      BY <1>n, <3>3 DEF RegionsHeld, BufsHeld
    <3> QED  BY <1>0, <3>1, <3>2, <3>4 DEF MemoryInv
  <2> QED  BY <1>6, <2>4, <2>5, <2>6 DEF WriteAllocBuf
<1>7. CASE WriteInsert
  <2> DEFINE new == [start |-> wr.pkt.start, len |-> wr.pkt.len, buf |-> wr.fresh]
  <2>1. PICK i \in 0..Len(live) : live' = InsertAt(live, i + 1, new)
    BY <1>7 DEF WriteInsert
  <2>2. /\ wr.pc = "insert" /\ wr.scrap = <<>> /\ wr' = Resting
        /\ UNCHANGED <<dead, pool>>
    BY <1>0, <1>7 DEF WriteInsert
  <2>3. new \in Region /\ BufferOf(new) = 1
    <3>1. wr.fresh \in Nat
      BY <2>2 DEF TypeOK, WriterOK
    <3> QED  BY <3>1 DEF TypeOK, WriterOK, Span, Region, BufferOf, NULL
  <2> HIDE DEF new
  <2>4. live' \in Seq(Region) /\ Insertion(live', live, i, new)
    BY <1>t, <2>1, <2>3, InsertAtProperties
  <2>5. WithBuf(live') = WithBuf(live) + BufferOf(new)
    BY <1>t, <2>3, <2>4, WithBufInserted
  <2>6. Size(live') = Size(live) + 1
    BY <2>4 DEF Insertion, Size
  <2>7. Holding' = Holding
    BY <1>7 DEF WriteInsert, Signal, Waiting, Holding, TypeOK, ConsumersOK
  <2>8. /\ RegionInHand = 1 /\ BufInHand = 1 /\ RegionInHand' = 0 /\ BufInHand' = 0
        /\ wr'.scrap = wr.scrap /\ wr'.scrap = <<>> /\ dead' = dead
    BY <1>i, <2>2, HandsOf DEF Resting
  <2>9. RegionsHeld' = RegionsHeld /\ BufsHeld' = BufsHeld
    <3>1. Size(wr'.scrap) = Size(wr.scrap) /\ WithBuf(wr'.scrap) = WithBuf(wr.scrap)
          /\ WithBuf(live') = WithBuf(live) + 1
      BY <2>3, <2>5, <2>8
    <3>2. RegionInHand = 1 /\ BufInHand = 1 /\ RegionInHand' = 0 /\ BufInHand' = 0 /\ dead' = dead
      BY <2>8
    <3>3. Cardinality(Holding') = Cardinality(Holding)
      BY <2>7
    <3>4. RegionsHeld' = RegionsHeld
      BY <1>n, <2>6, <3>1, <3>2, SMTT(30) DEF RegionsHeld
    <3>5. BufsHeld' = BufsHeld
      BY <1>n, <3>1, <3>2, <3>3 DEF BufsHeld
    <3> QED  BY <3>4, <3>5
  <2> QED  BY <1>0, <2>2, <2>8, <2>9 DEF MemoryInv
<1>8. CASE Clear
  <2>1. /\ wr.pc = "idle" /\ wr.scrap = <<>> /\ live' = <<>> /\ dead' = <<>>
        /\ UNCHANGED <<pool, con>> /\ wr'.pc = "purge" /\ wr'.scrap = live \o dead
    BY <1>0, <1>8 DEF Clear, TypeOK, WriterOK
  <2>2. Size(wr'.scrap) = Size(live) + Size(dead) /\ WithBuf(wr'.scrap) = WithBuf(live) + WithBuf(dead)
    BY <1>t, <2>1, WithBufConcat
  <2>3. /\ Size(live') = 0 /\ WithBuf(live') = 0 /\ Size(dead') = 0 /\ WithBuf(dead') = 0
        /\ Size(wr.scrap) = 0 /\ WithBuf(wr.scrap) = 0
    BY <2>1, WithBufEmpty
  <2>4. RegionInHand = 0 /\ BufInHand = 0 /\ RegionInHand' = 0 /\ BufInHand' = 0 /\ Holding' = Holding
    BY <1>h, <1>i, <2>1, HandsOf
  <2>5. RegionsHeld' = RegionsHeld /\ BufsHeld' = BufsHeld
    BY <1>n, <2>2, <2>3, <2>4 DEF RegionsHeld, BufsHeld
  <2> QED  BY <1>0, <2>1, <2>5 DEF MemoryInv
<1>9. CASE ClearPools
  <2>1. /\ wr.pc = "purge" /\ wr.scrap = <<>> /\ wr' = Resting /\ UNCHANGED <<live, dead, con>>
        /\ pool' = [regions |-> 0, bufs |-> <<>>, heapRegions |-> pool.heapRegions - pool.regions,
                    heapBufs |-> pool.heapBufs - Size(pool.bufs)]
    BY <1>9 DEF ClearPools, list, Size
  <2>2. RegionsOut(pool') = RegionsOut(pool) /\ BufsOut(pool') = BufsOut(pool)
    <3>1. /\ pool'.regions = 0 /\ Size(pool'.bufs) = 0 /\ pool'.heapRegions = RegionsOut(pool)
          /\ pool'.heapBufs = BufsOut(pool)
      BY <2>1, WithBufEmpty DEF RegionsOut, BufsOut
    <3> QED  BY <1>n, <3>1 DEF RegionsOut, BufsOut
  <2>3. wr'.pc = "idle" /\ wr'.scrap = wr.scrap /\ wr'.scrap = <<>> /\ live' = live /\ dead' = dead
    BY <2>1 DEF Resting
  <2>4. RegionInHand' = RegionInHand /\ BufInHand' = BufInHand /\ Holding' = Holding
    BY <1>h, <1>i, <2>1, <2>3, HandsOf
  <2>5. RegionsHeld' = RegionsHeld /\ BufsHeld' = BufsHeld
    BY <2>3, <2>4 DEF RegionsHeld, BufsHeld
  <2> QED  BY <1>0, <2>2, <2>3, <2>5 DEF MemoryInv
<1> QED  BY <1>1, <1>2, <1>3, <1>4, <1>5, <1>6, <1>7, <1>8, <1>9
         DEF WriterNext, WriterContinues

\* Everybody else: the reader moves regions to the dead list, a consumer moves a region there
\* and its buffer to a packet, and the last owner gives everything back.
LEMMA OthersMemoryStep ==
    ASSUME TypeOK, RefInv, MemoryInv, fault = "none", fault' = "none",
           \/ ReaderNext
           \/ \E c \in Consumers : ConsumerNext(c)
           \/ CancelConsume
           \/ \E t \in Threads : Incref(t) \/ Decref(t)
    PROVE  MemoryInv'
<1>t. /\ live \in Seq(Region) /\ dead \in Seq(Region) /\ PoolOK(pool) /\ IsFiniteSet(Holding)
      /\ pool.heapRegions \in Int /\ pool.heapBufs \in Int /\ pool.regions \in Nat
      /\ con \in [Consumers -> [pc : {"idle", "waiting", "signaled", "canceled", "holding"},
                                pkt : Region]]
  BY CountTypes DEF TypeOK, ConsumersOK
<1>n. /\ Size(live) \in Nat /\ Size(dead) \in Nat /\ Size(wr.scrap) \in Nat
      /\ WithBuf(live) \in Nat /\ WithBuf(dead) \in Nat /\ WithBuf(wr.scrap) \in Nat
      /\ Size(pool.bufs) \in Nat /\ Cardinality(Holding) \in Nat
      /\ RegionInHand \in Nat /\ BufInHand \in Nat
      /\ RegionsOut(pool) \in Int /\ BufsOut(pool) \in Int
  BY CountNumbers
<1>0. /\ wr.pc \notin {"reclaim", "purge"} => wr.scrap = <<>>
      /\ RegionsOut(pool) = RegionsHeld /\ BufsOut(pool) = BufsHeld
  BY DEF MemoryInv
<1>h. UNCHANGED con => Holding' = Holding
  BY DEF Holding
<1>w. UNCHANGED wr => RegionInHand' = RegionInHand /\ BufInHand' = BufInHand
  BY DEF RegionInHand, BufInHand
<1>1. ASSUME UNCHANGED <<list, pool, wr>>, Holding' = Holding PROVE MemoryInv'
  BY <1>0, <1>1, CountsKept DEF list
<1>2. CASE ReadDrop
  <2>1. /\ live # <<>> /\ live' = Tail(live) /\ dead' = Cons(Head(live), dead)
        /\ UNCHANGED <<pool, wr, con>>
    BY <1>2 DEF ReadDrop, DropHead, HeadPast, HeadUsed
  <2>2. Head(live) \in Region /\ Head(live).buf # NULL
    <3>1. Head(live) \in Filled /\ Head(live) \in Region
      BY <2>1, HeadType DEF TypeOK
    <3> QED  BY <3>1 DEF Filled, NULL
  <2>3. /\ Size(live') = Size(live) - 1 /\ Size(dead') = Size(dead) + 1
        /\ WithBuf(live') = WithBuf(live) - 1 /\ WithBuf(dead') = WithBuf(dead) + 1
    BY <2>1, <2>2, HeadCounts
  <2>4. RegionInHand' = RegionInHand /\ BufInHand' = BufInHand /\ Holding' = Holding /\ wr' = wr
    BY <1>h, <1>w, <2>1
  <2>5. RegionsHeld' = RegionsHeld /\ BufsHeld' = BufsHeld
    BY <1>n, <2>3, <2>4 DEF RegionsHeld, BufsHeld
  <2> QED  BY <1>0, <2>1, <2>5 DEF MemoryInv
<1>3. CASE ReaderNext /\ ~ReadDrop
  <2>1. UNCHANGED <<list, pool, wr, con>>
    BY <1>3 DEF ReaderNext, ReaderContinues, ReadEnter, ReadCopy, ReadFill, ReadUnlock, ReadReturn
  <2> QED  BY <1>1, <1>h, <2>1
<1>4. ASSUME NEW c \in Consumers, con[c].pc # "holding", live # <<>>, TakeHead(c),
             UNCHANGED <<pool, wr>>
      PROVE  MemoryInv'
  <2> DEFINE bare == [Head(live) EXCEPT !.buf = NULL]
  <2>1. bare \in Region /\ bare.buf = NULL
    <3>1. Head(live) \in Region
      BY <1>4, HeadType DEF TypeOK
    <3> QED  BY <3>1 DEF Region
  <2>2. live' = Tail(live) /\ dead' = Cons(bare, dead)
    BY <1>4 DEF TakeHead
  <2> HIDE DEF bare
  <2>3. /\ Size(live') = Size(live) - 1 /\ Size(dead') = Size(dead) + 1
        /\ WithBuf(live') = WithBuf(live) - 1 /\ WithBuf(dead') = WithBuf(dead) + 0
    BY <1>4, <2>1, <2>2, HeadCounts
  <2>4. c \notin Holding /\ Holding' = Holding \union {c}
    BY <1>4, <1>t DEF TakeHead, Holding
  <2>5. Cardinality(Holding') = Cardinality(Holding) + 1
    BY <1>t, <2>4, FS_AddElement
  <2>6. RegionInHand' = RegionInHand /\ BufInHand' = BufInHand /\ wr' = wr
    BY <1>4, <1>w
  <2>7. RegionsHeld' = RegionsHeld /\ BufsHeld' = BufsHeld
    BY <1>n, <2>3, <2>5, <2>6 DEF RegionsHeld, BufsHeld
  <2> QED  BY <1>0, <1>4, <2>7 DEF MemoryInv
<1>5. ASSUME NEW c \in Consumers, ConsumeEnter(c) \/ ConsumeWake(c) PROVE MemoryInv'
  <2>1. con[c].pc # "holding" /\ UNCHANGED <<pool, wr>>
    BY <1>5 DEF ConsumeEnter, ConsumeWake, Consume
  <2>2. \/ live # <<>> /\ TakeHead(c)
        \/ UNCHANGED list /\ con' = [con EXCEPT ![c].pc = "waiting"]
        \/ UNCHANGED list /\ con' = [con EXCEPT ![c].pc = "idle"]
    BY <1>5 DEF ConsumeEnter, ConsumeWake, Consume
  <2>3. CASE UNCHANGED list /\ \/ con' = [con EXCEPT ![c].pc = "waiting"]
                               \/ con' = [con EXCEPT ![c].pc = "idle"]
    <3>1. Holding' = Holding
      BY <1>t, <2>1, <2>3 DEF Holding
    <3> QED  BY <1>1, <2>1, <2>3, <3>1
  <2> QED  BY <1>4, <2>1, <2>2, <2>3
<1>6. ASSUME NEW c \in Consumers, SpuriousWakeup(c) PROVE MemoryInv'
  <2>1. Holding' = Holding
    BY <1>6, <1>t DEF SpuriousWakeup, Holding
  <2> QED  BY <1>1, <1>6, <2>1 DEF SpuriousWakeup
<1>7. ASSUME NEW c \in Consumers, DestroyPacket(c) PROVE MemoryInv'
  <2>1. con[c].pc = "holding" /\ UNCHANGED <<live, dead, wr>>
        /\ pool' = FreeBuf(pool, con[c].pkt.len, con[c].pkt.buf)
    BY <1>7 DEF DestroyPacket, list
  <2>2. con[c].pkt.len \in Nat /\ con[c].pkt.buf \in Nat
    BY <2>1 DEF TypeOK, ConsumersOK, Filled
  <2>3. RegionsOut(pool') = RegionsOut(pool) /\ BufsOut(pool') = BufsOut(pool) - 1
    BY <1>t, <2>1, <2>2, FreeBufCounts
  <2>4. c \in Holding /\ Holding' = Holding \ {c}
    BY <1>7, <1>t DEF DestroyPacket, NotConsuming, Holding
  <2>5. Cardinality(Holding') = Cardinality(Holding) - 1
    BY <1>t, <2>4, FS_RemoveElement
  <2>6. RegionInHand' = RegionInHand /\ BufInHand' = BufInHand /\ wr' = wr
        /\ live' = live /\ dead' = dead
    BY <1>w, <2>1
  <2>7. RegionsHeld' = RegionsHeld /\ BufsHeld' = BufsHeld - 1
    BY <1>n, <2>5, <2>6 DEF RegionsHeld, BufsHeld
  <2> QED  BY <1>0, <2>1, <2>3, <2>7 DEF MemoryInv
<1>8. CASE CancelConsume
  <2>1. Holding' = Holding
    BY <1>8, <1>t DEF CancelConsume, Waiting, Woken, Holding
  <2> QED  BY <1>1, <1>8, <2>1 DEF CancelConsume
<1>9. ASSUME NEW t \in Threads, Incref(t) PROVE MemoryInv'
  BY <1>1, <1>9, <1>h DEF Incref
<1>10. ASSUME NEW t \in Threads, Decref(t) PROVE MemoryInv'
  <2>1. CASE refcnt = 1
    <3>1. /\ live' = <<>> /\ dead' = <<>> /\ UNCHANGED <<wr, con>>
          /\ pool' = [regions |-> 0, bufs |-> <<>>,
                      heapRegions |-> pool.heapRegions
                                      - (Size(live) + Size(dead) + pool.regions),
                      heapBufs |-> pool.heapBufs
                                   - (WithBuf(live) + WithBuf(dead) + Size(pool.bufs))]
      BY <1>10, <2>1 DEF Decref, Size
    <3>2. RegionsOut(pool') = RegionsOut(pool) - (Size(live) + Size(dead))
          /\ BufsOut(pool') = BufsOut(pool) - (WithBuf(live) + WithBuf(dead))
      <4>1. /\ pool'.regions = 0 /\ Size(pool'.bufs) = 0
            /\ pool'.heapRegions = pool.heapRegions - (Size(live) + Size(dead) + pool.regions)
            /\ pool'.heapBufs = pool.heapBufs - (WithBuf(live) + WithBuf(dead) + Size(pool.bufs))
        BY <3>1, WithBufEmpty
      <4>2. pool.heapRegions \in Int /\ pool.heapBufs \in Int /\ pool.regions \in Nat
        BY <1>t
      <4> QED  BY <1>n, <4>1, <4>2 DEF RegionsOut, BufsOut
    <3>3. wr.pc = "idle" /\ wr.scrap = <<>> /\ Holding = {} /\ Cardinality(Holding) = 0
      BY <1>0, <1>10, <2>1, LastOwner, FS_EmptySet DEF Holding
    <3>4. /\ Size(live') = 0 /\ WithBuf(live') = 0 /\ Size(dead') = 0 /\ WithBuf(dead') = 0
          /\ Size(wr.scrap) = 0 /\ WithBuf(wr.scrap) = 0
          /\ RegionInHand = 0 /\ BufInHand = 0 /\ RegionInHand' = 0 /\ BufInHand' = 0
          /\ Cardinality(Holding) = 0 /\ Holding' = Holding /\ wr' = wr
      BY <1>h, <1>w, <3>1, <3>3, WithBufEmpty, HandsOf
    <3>5. RegionsHeld' = 0 /\ BufsHeld' = 0
      BY <3>4 DEF RegionsHeld, BufsHeld
    <3>6. RegionsHeld = Size(live) + Size(dead) /\ BufsHeld = WithBuf(live) + WithBuf(dead)
      BY <1>n, <3>4 DEF RegionsHeld, BufsHeld
    <3>7. RegionsOut(pool') = 0 /\ BufsOut(pool') = 0
      BY <1>0, <1>n, <3>2, <3>6
    <3> QED  BY <3>3, <3>4, <3>5, <3>7 DEF MemoryInv
  <2>2. CASE refcnt # 1
    BY <1>1, <1>10, <1>h, <2>2 DEF Decref
  <2> QED  BY <2>1, <2>2
<1> QED  BY <1>2, <1>3, <1>5, <1>6, <1>7, <1>8, <1>9, <1>10 DEF ConsumerNext

\* The accounts are inductive.
LEMMA MemoryStep ==
    ASSUME TypeOK, RefInv, MemoryInv, [Next]_vars
    PROVE  MemoryInv'
<1>1. CASE fault' = "none" /\ Next
  <2>1. fault = "none"
    BY <1>1 DEF Next
  <2> QED  BY <1>1, <2>1, WriterMemoryStep, OthersMemoryStep DEF Next
<1>2. CASE fault' # "none"
  BY <1>2 DEF MemoryInv
<1>3. CASE UNCHANGED vars
  BY <1>3 DEF vars, MemoryInv, RegionsOut, BufsOut, RegionsHeld, BufsHeld, RegionInHand, BufInHand, Holding
<1> QED  BY <1>1, <1>2, <1>3

\* The accounts balance at first.
LEMMA AccountsInit == Init => MemoryInv /\ FillAccounting
<1> SUFFICES ASSUME Init PROVE MemoryInv /\ FillAccounting
  OBVIOUS
<1>1. Holding = {} /\ Cardinality(Holding) = 0
  BY FS_EmptySet DEF Init, Holding, NotConsuming
<1>2. RegionsOut(pool) = 0 /\ BufsOut(pool) = 0
  BY WithBufEmpty DEF Init, RegionsOut, BufsOut
<1>3. MemoryInv
  BY <1>1, <1>2, WithBufEmpty DEF Init, Resting, RegionInHand, BufInHand, RegionsHeld, BufsHeld,
     MemoryInv
<1>4. FillAccounting
  BY SamplesEmpty DEF Init, FillAccounting
<1> QED  BY <1>3, <1>4

\* The accounts hold in every reachable state.
LEMMA AccountsInvariant == Spec => [](FillAccounting /\ MemoryInv)
<1>1. TypeOK /\ RefInv /\ FillAccounting /\ MemoryInv /\ [Next]_vars
      => (FillAccounting /\ MemoryInv)'
  BY FillStep, MemoryStep
<1> QED  BY <1>1, AccountsInit, StreamInvariant, PTL DEF Spec

\* The stream loses count of nothing: sample_fill is the number of samples on the list until
\* the first stream_clear, and every region and every buffer of the allocator's is in exactly
\* one place, whoever evicts, drops, consumes, recycles or destroys it.
THEOREM NothingUnaccounted == Spec => []Accounted
<1>1. ASSUME TypeOK, FillAccounting, MemoryInv PROVE Accounted
  <2> SUFFICES ASSUME fault = "none" PROVE MemoryConserved
    BY <1>1 DEF Accounted, MemoryConserved
  <2>1. /\ pool.heapRegions \in Int /\ pool.regions \in Nat /\ pool.heapBufs \in Int
        /\ Size(pool.bufs) \in Nat
        /\ Size(live) \in Nat /\ Size(dead) \in Nat /\ Size(wr.scrap) \in Nat
        /\ WithBuf(live) \in Nat /\ WithBuf(dead) \in Nat /\ WithBuf(wr.scrap) \in Nat
        /\ Cardinality(Holding) \in Nat
    BY <1>1, CountTypes, CountNumbers
  <2>2. RegionsOut(pool) = RegionsHeld /\ BufsOut(pool) = BufsHeld
    BY <1>1 DEF MemoryInv
  <2>3. pool.heapRegions = Size(live) + Size(dead) + Size(wr.scrap) + pool.regions + RegionInHand
    BY <2>1, <2>2 DEF RegionsOut, RegionsHeld, RegionInHand
  <2>4. pool.heapBufs = WithBuf(live) + WithBuf(dead) + WithBuf(wr.scrap) + Size(pool.bufs)
                        + BufInHand + Cardinality(Holding)
    BY <2>1, <2>2 DEF BufsOut, BufsHeld, BufInHand
  <2>5. pool.heapBufs = WithBuf(live) + WithBuf(dead) + WithBuf(wr.scrap) + Size(pool.bufs)
                        + BufInHand + Cardinality(Holding)
        <=> pool.heapBufs = WithBuf(live) + WithBuf(dead) + WithBuf(wr.scrap) + Size(pool.bufs)
                            + BufInHand + Cardinality({c \in Consumers : con[c].pc = "holding"})
    BY DEF Holding
  <2> QED  BY <1>1, <2>3, <2>4, Zenon DEF MemoryConserved, RegionInHand, BufInHand, Holding, Size
<1> QED  BY <1>1, StreamInvariant, AccountsInvariant, PTL

-----------------------------------------------------------------------------
(***************************************************************************)
(* The bounds of the buffers                                               *)
(***************************************************************************)

\* A region whose buffer holds its samples, and a pooled buffer no smaller than its record.
SoundRegion == {r \in Region : r.buf # NULL => r.len <= r.buf}
SoundBuf    == {b \in [size : Nat, real : Nat] : b.size <= b.real}

\* The size on record never exceeds the buffer's own, wherever the buffer goes.
SizeInv ==
    /\ live \in Seq(SoundRegion) /\ dead \in Seq(SoundRegion) /\ wr.scrap \in Seq(SoundRegion)
    /\ pool.bufs \in Seq(SoundBuf)
    /\ BufferFits
    /\ \A c \in Consumers : con[c].pc = "holding" => con[c].pkt \in SoundRegion

\* A buffer goes to the pool under the length of its last packet.
LEMMA FreeBufSound ==
    ASSUME NEW p, PoolOK(p), p.bufs \in Seq(SoundBuf), NEW len \in Nat, NEW buf \in Nat, len <= buf
    PROVE  FreeBuf(p, len, buf).bufs \in Seq(SoundBuf)
<1> DEFINE b == [size |-> len, real |-> buf]
<1>1. b \in SoundBuf
  BY DEF SoundBuf
<1>2. CASE Len(p.bufs) = PoolSize
  <2> DEFINE n == p.heapBufs - 1
  <2>1. FreeBuf(p, len, buf) = [p EXCEPT !.heapBufs = n]
    BY <1>2, Zenon DEF FreeBuf
  <2> HIDE DEF b, n
  <2> QED  BY <2>1 DEF PoolOK
<1>3. CASE Len(p.bufs) # PoolSize
  <2> DEFINE a == Append(p.bufs, b)
  <2>1. a \in Seq(SoundBuf)
    BY <1>1, AppendProperties
  <2>2. FreeBuf(p, len, buf) = [p EXCEPT !.bufs = a]
    BY <1>3 DEF FreeBuf
  <2> HIDE DEF a, b
  <2> QED  BY <2>1, <2>2 DEF PoolOK
<1> QED  BY <1>2, <1>3

\* So does the buffer of a region that is destroyed.
LEMMA DestroyRegionSound ==
    ASSUME NEW p, PoolOK(p), p.bufs \in Seq(SoundBuf), NEW r \in SoundRegion
    PROVE  DestroyRegion(p, r).bufs \in Seq(SoundBuf)
<1>1. ASSUME NEW q, PoolOK(q) PROVE FreeRegion(q).bufs = q.bufs
  BY <1>1 DEF FreeRegion, PoolOK
<1>2. CASE r.buf = NULL
  BY <1>1, <1>2 DEF DestroyRegion
<1>3. CASE r.buf # NULL
  <2>1. r.len \in Nat /\ r.buf \in Nat /\ r.len <= r.buf
    BY <1>3 DEF SoundRegion, Region
  <2> DEFINE q == FreeBuf(p, r.len, r.buf)
  <2>2. PoolOK(q) /\ q.bufs \in Seq(SoundBuf)
    BY <2>1, FreeBufType, FreeBufSound
  <2>3. DestroyRegion(p, r) = FreeRegion(q)
    BY <1>3 DEF DestroyRegion
  <2> HIDE DEF q
  <2> QED  BY <1>1, <2>2, <2>3
<1> QED  BY <1>2, <1>3

\* The writer's calls keep every record within its buffer.
LEMMA WriterSizeStep ==
    ASSUME TypeOK, SizeInv, WriterNext
    PROVE  SizeInv'
<1>0. /\ live \in Seq(SoundRegion) /\ dead \in Seq(SoundRegion) /\ wr.scrap \in Seq(SoundRegion)
      /\ pool.bufs \in Seq(SoundBuf) /\ PoolOK(pool)
      /\ wr.pc = "insert" => wr.fresh >= wr.pkt.len
      /\ \A c \in Consumers : con[c].pc = "holding" => con[c].pkt \in SoundRegion
  BY DEF SizeInv, TypeOK, BufferFits
<1>1. ASSUME NEW p \in Packets, WriteEnter(p) PROVE SizeInv'
  <2>1. \/ UNCHANGED wr
        \/ wr'.pc = "evict" /\ wr'.scrap = wr.scrap
    BY <1>1 DEF WriteEnter, TypeOK, WriterOK
  <2> QED  BY <1>0, <1>1, <2>1 DEF WriteEnter, list, SizeInv, BufferFits
<1>2. CASE WriteEvict
  <2>1. /\ \/ UNCHANGED <<live, dead>>
           \/ live # <<>> /\ live' = Tail(live) /\ (dead' = dead \/ dead' = Cons(Head(live), dead))
        /\ UNCHANGED <<pool, wr, con>>
    BY <1>2 DEF WriteEvict, list
  <2>2. live # <<>> => /\ Head(live) \in SoundRegion /\ Tail(live) \in Seq(SoundRegion)
                       /\ Cons(Head(live), dead) \in Seq(SoundRegion)
    BY <1>0, HeadTailProperties, ConsProperties
  <2> QED  BY <1>0, <2>1, <2>2 DEF SizeInv, BufferFits
<1>3. CASE WriteUnlock
  <2>1. wr'.pc = "reclaim" /\ wr'.scrap = dead /\ dead' = <<>> /\ UNCHANGED <<live, pool, con>>
    BY <1>3 DEF WriteUnlock, TypeOK, WriterOK
  <2> QED  BY <1>0, <2>1, EmptySeq DEF SizeInv, BufferFits
<1>4. CASE Reclaim
  <2>1. /\ wr.scrap # <<>> /\ wr'.pc = wr.pc /\ wr'.scrap = Tail(wr.scrap)
        /\ pool' = DestroyRegion(pool, Head(wr.scrap)) /\ wr.pc \in {"reclaim", "purge"}
        /\ UNCHANGED <<live, dead, con>>
    BY <1>4 DEF Reclaim, TypeOK, WriterOK, list
  <2>2. Head(wr.scrap) \in SoundRegion /\ Tail(wr.scrap) \in Seq(SoundRegion)
    BY <1>0, <2>1, HeadTailProperties
  <2>3. pool'.bufs \in Seq(SoundBuf)
    BY <1>0, <2>1, <2>2, DestroyRegionSound
  <2> QED  BY <1>0, <2>1, <2>2, <2>3 DEF SizeInv, BufferFits
<1>5. CASE WriteAllocRegion
  <2>1. /\ UNCHANGED <<live, dead, con>> /\ pool'.bufs = pool.bufs
        /\ wr' = Resting \/ (wr'.pc = "allocbuf" /\ wr'.scrap = wr.scrap)
    BY <1>5 DEF WriteAllocRegion, list, TypeOK, PoolOK, WriterOK
  <2>2. wr'.scrap \in Seq(SoundRegion) /\ wr'.pc # "insert"
    <3>1. CASE wr' = Resting
      BY <3>1, EmptySeq DEF Resting
    <3>2. CASE wr'.pc = "allocbuf" /\ wr'.scrap = wr.scrap
      BY <1>0, <3>2
    <3> QED  BY <2>1, <3>1, <3>2
  <2> QED  BY <1>0, <2>1, <2>2 DEF SizeInv, BufferFits
<1>6. CASE WriteAllocBuf
  <2>1. UNCHANGED <<live, dead, con>> /\ wr.pkt.len \in Nat
    BY <1>6 DEF WriteAllocBuf, list, TypeOK, WriterOK, Span
  <2> DEFINE With(b) == [wr EXCEPT !.pc = "insert", !.fresh = b]
  <2>2. ASSUME NEW b, wr' = With(b)
        PROVE  wr'.pc = "insert" /\ wr'.scrap = wr.scrap /\ wr'.pkt = wr.pkt /\ wr'.fresh = b
    BY <2>2 DEF TypeOK, WriterOK
  <2>3. ASSUME NEW i \in 1..Len(pool.bufs), PooledBuf(i, wr.pkt.len),
               wr' = With(pool.bufs[i].real), pool' = [pool EXCEPT !.bufs = RemoveAt(@, i)]
        PROVE  SizeInv'
    <3> DEFINE rest == RemoveAt(pool.bufs, i)
    <3>1. rest \in Seq(SoundBuf) /\ pool' = [pool EXCEPT !.bufs = rest]
      BY <1>0, <2>3, RemoveAtProperties
    <3>2. pool.bufs[i] \in SoundBuf
      BY <1>0, ElementOfSeq
    <3>3. pool.bufs[i].real >= wr.pkt.len
      BY <2>1, <2>3, <3>2 DEF PooledBuf, SoundBuf
    <3> HIDE DEF With, rest
    <3>4. /\ wr'.scrap = wr.scrap /\ wr'.pkt = wr.pkt /\ wr'.fresh = pool.bufs[i].real
          /\ pool'.bufs = rest
      BY <2>2, <2>3, <3>1 DEF TypeOK, PoolOK
    <3> QED  BY <1>0, <2>1, <3>1, <3>3, <3>4 DEF SizeInv, BufferFits
  <2>4. ASSUME pool' = [pool EXCEPT !.heapBufs = @ + 1], wr' = With(wr.pkt.len)
        PROVE  SizeInv'
    <3>1. pool'.bufs = pool.bufs
      BY <2>4 DEF TypeOK, PoolOK
    <3> HIDE DEF With
    <3>2. wr'.scrap = wr.scrap /\ wr'.pkt = wr.pkt /\ wr'.fresh = wr.pkt.len
      BY <2>2, <2>4
    <3> QED  BY <1>0, <2>1, <3>1, <3>2 DEF SizeInv, BufferFits
  <2>5. ASSUME pool' = FreeRegion(pool), wr' = Resting PROVE SizeInv'
    <3>1. pool'.bufs = pool.bufs
      BY <2>5 DEF TypeOK, PoolOK, FreeRegion
    <3> QED  BY <1>0, <2>1, <2>5, <3>1, EmptySeq DEF SizeInv, BufferFits, Resting
  <2> QED  BY <1>6, <2>3, <2>4, <2>5 DEF WriteAllocBuf
<1>7. CASE WriteInsert
  <2> DEFINE new == [start |-> wr.pkt.start, len |-> wr.pkt.len, buf |-> wr.fresh]
  <2>1. PICK i \in 0..Len(live) : live' = InsertAt(live, i + 1, new)
    BY <1>7 DEF WriteInsert
  <2>2. new \in SoundRegion
    <3>1. wr.pc = "insert" /\ wr.fresh \in Nat /\ wr.pkt \in Span
      BY <1>7 DEF WriteInsert, TypeOK, WriterOK
    <3> QED  BY <1>0, <3>1 DEF Span, Region, SoundRegion
  <2> HIDE DEF new
  <2>3. live' \in Seq(SoundRegion)
    BY <1>0, <2>1, <2>2, InsertAtProperties
  <2>4. \A c \in Consumers : con'[c].pc = "holding" => con[c].pc = "holding" /\ con'[c] = con[c]
    BY <1>7 DEF WriteInsert, Signal, Waiting, TypeOK, ConsumersOK
  <2>5. UNCHANGED <<dead, pool>> /\ wr' = Resting
    BY <1>7 DEF WriteInsert
  <2> QED  BY <1>0, <2>3, <2>4, <2>5, EmptySeq DEF SizeInv, BufferFits, Resting
<1>8. CASE Clear
  <2>1. /\ live' = <<>> /\ dead' = <<>> /\ UNCHANGED <<pool, con>>
        /\ wr'.pc = "purge" /\ wr'.scrap = live \o dead
    BY <1>8 DEF Clear, TypeOK, WriterOK
  <2>2. live \o dead \in Seq(SoundRegion)
    BY <1>0, ConcatProperties
  <2> QED  BY <1>0, <2>1, <2>2, EmptySeq DEF SizeInv, BufferFits
<1>9. CASE ClearPools
  <2>1. UNCHANGED <<live, dead, con>> /\ wr' = Resting /\ pool'.bufs = <<>>
    BY <1>9 DEF ClearPools, list
  <2> QED  BY <1>0, <2>1, EmptySeq DEF SizeInv, BufferFits, Resting
<1> QED  BY <1>1, <1>2, <1>3, <1>4, <1>5, <1>6, <1>7, <1>8, <1>9
         DEF WriterNext, WriterContinues

\* So do everybody else's.
LEMMA OthersSizeStep ==
    ASSUME TypeOK, SizeInv,
           \/ ReaderNext
           \/ \E c \in Consumers : ConsumerNext(c)
           \/ CancelConsume
           \/ \E t \in Threads : Incref(t) \/ Decref(t)
    PROVE  SizeInv'
<1>0. /\ live \in Seq(SoundRegion) /\ dead \in Seq(SoundRegion) /\ wr.scrap \in Seq(SoundRegion)
      /\ pool.bufs \in Seq(SoundBuf) /\ PoolOK(pool)
      /\ wr.pc = "insert" => wr.fresh >= wr.pkt.len
      /\ \A c \in Consumers : con[c].pc = "holding" => con[c].pkt \in SoundRegion
      /\ con \in [Consumers -> [pc : {"idle", "waiting", "signaled", "canceled", "holding"},
                                pkt : Region]]
  BY DEF SizeInv, TypeOK, ConsumersOK, BufferFits
<1>1. CASE ReaderNext
  <2>1. /\ \/ UNCHANGED <<live, dead>>
           \/ live # <<>> /\ live' = Tail(live) /\ dead' = Cons(Head(live), dead)
        /\ UNCHANGED <<pool, wr, con>>
    BY <1>1 DEF ReaderNext, ReaderContinues, ReadEnter, ReadDrop, DropHead, HeadPast, HeadUsed,
                ReadCopy, ReadFill, ReadUnlock, ReadReturn, list
  <2>2. live # <<>> => /\ Tail(live) \in Seq(SoundRegion)
                       /\ Cons(Head(live), dead) \in Seq(SoundRegion)
    BY <1>0, HeadTailProperties, ConsProperties
  <2> QED  BY <1>0, <2>1, <2>2 DEF SizeInv, BufferFits
<1>2. ASSUME NEW c \in Consumers, live # <<>>, TakeHead(c), UNCHANGED <<pool, wr>>
      PROVE  SizeInv'
  <2> DEFINE bare == [Head(live) EXCEPT !.buf = NULL]
  <2>1. Head(live) \in SoundRegion /\ Tail(live) \in Seq(SoundRegion)
    BY <1>0, <1>2, HeadTailProperties
  <2>2. bare \in SoundRegion
    BY <2>1 DEF SoundRegion, Region
  <2> HIDE DEF bare
  <2>3. Cons(bare, dead) \in Seq(SoundRegion)
    BY <1>0, <2>2, ConsProperties
  <2>4. live' = Tail(live) /\ dead' = Cons(bare, dead)
    BY <1>2 DEF TakeHead, bare
  <2>5. \A d \in Consumers : con'[d] = con[d] \/ con'[d].pkt = Head(live)
    BY <1>0, <1>2 DEF TakeHead
  <2> QED  BY <1>0, <1>2, <2>1, <2>3, <2>4, <2>5 DEF SizeInv, BufferFits
<1>3. ASSUME UNCHANGED <<live, dead, wr>>, pool'.bufs \in Seq(SoundBuf),
             \A c \in Consumers : con'[c].pc = "holding" => con'[c] = con[c]
      PROVE  SizeInv'
  BY <1>0, <1>3 DEF SizeInv, BufferFits
<1>4. ASSUME NEW c \in Consumers, ConsumeEnter(c) \/ ConsumeWake(c) PROVE SizeInv'
  <2>1. UNCHANGED <<pool, wr>>
    BY <1>4 DEF ConsumeEnter, ConsumeWake, Consume
  <2>2. \/ live # <<>> /\ TakeHead(c)
        \/ UNCHANGED list /\ con' = [con EXCEPT ![c].pc = "waiting"]
        \/ UNCHANGED list /\ con' = [con EXCEPT ![c].pc = "idle"]
    BY <1>4 DEF ConsumeEnter, ConsumeWake, Consume
  <2>3. CASE UNCHANGED list /\ \/ con' = [con EXCEPT ![c].pc = "waiting"]
                               \/ con' = [con EXCEPT ![c].pc = "idle"]
    BY <1>0, <1>3, <2>1, <2>3 DEF list
  <2> QED  BY <1>2, <2>1, <2>2, <2>3
<1>5. ASSUME NEW c \in Consumers, SpuriousWakeup(c) PROVE SizeInv'
  BY <1>0, <1>3, <1>5 DEF SpuriousWakeup, list
<1>6. ASSUME NEW c \in Consumers, DestroyPacket(c) PROVE SizeInv'
  <2>1. /\ con[c].pc = "holding" /\ UNCHANGED <<live, dead, wr>>
        /\ pool' = FreeBuf(pool, con[c].pkt.len, con[c].pkt.buf)
    BY <1>6 DEF DestroyPacket, list
  <2>2. con[c].pkt.len \in Nat /\ con[c].pkt.buf \in Nat /\ con[c].pkt.len <= con[c].pkt.buf
    <3>1. con[c].pkt \in Filled /\ con[c].pkt \in SoundRegion
      BY <1>0, <2>1 DEF TypeOK, ConsumersOK
    <3> QED  BY <3>1 DEF Filled, SoundRegion, NULL
  <2>3. pool'.bufs \in Seq(SoundBuf)
    BY <1>0, <2>1, <2>2, FreeBufSound
  <2>4. \A d \in Consumers : con'[d].pc = "holding" => con'[d] = con[d]
    BY <1>0, <1>6 DEF DestroyPacket, NotConsuming
  <2> QED  BY <1>3, <2>1, <2>3, <2>4
<1>7. CASE CancelConsume
  <2>1. \A d \in Consumers : con'[d].pc = "holding" => con'[d] = con[d]
    BY <1>0, <1>7 DEF CancelConsume, Waiting, Woken
  <2> QED  BY <1>0, <1>3, <1>7, <2>1 DEF CancelConsume, list
<1>8. ASSUME NEW t \in Threads, Incref(t) PROVE SizeInv'
  BY <1>0, <1>3, <1>8 DEF Incref, list
<1>9. ASSUME NEW t \in Threads, Decref(t) PROVE SizeInv'
  <2>1. /\ UNCHANGED <<wr, con>>
        /\ \/ UNCHANGED <<live, dead, pool>>
           \/ live' = <<>> /\ dead' = <<>> /\ pool'.bufs = <<>>
    BY <1>9 DEF Decref, list
  <2> QED  BY <1>0, <2>1, EmptySeq DEF SizeInv, BufferFits
<1> QED  BY <1>1, <1>4, <1>5, <1>6, <1>7, <1>8, <1>9 DEF ConsumerNext

\* The records of the buffers are inductive.
LEMMA SizeStep ==
    ASSUME TypeOK, SizeInv, [Next]_vars
    PROVE  SizeInv'
<1>1. CASE Next
  BY <1>1, WriterSizeStep, OthersSizeStep DEF Next
<1>2. CASE UNCHANGED vars
  BY <1>2 DEF vars, SizeInv, BufferFits
<1> QED  BY <1>1, <1>2

-----------------------------------------------------------------------------
(***************************************************************************)
(* What does not happen: an assertion that fails, NULL used, a negative    *)
(* copy                                                                    *)
(***************************************************************************)

\* metadata_capacity is the length of the array until stream_clear frees it.
MetaInv == ~cleared => meta.len = meta.cap

\* A buffer without room for the packet has at least two regions, if any two packets fit.
LEMMA OverrunHasTwo ==
    ASSUME TypeOK, TimelineInv, FillAccounting, Roomy, ~cleared, WriteEvict
    PROVE  live # <<>> /\ Len(live) # 1
<1>1. /\ wr.pkt \in Packets /\ wr.pkt.len \in Nat /\ ~(fill + wr.pkt.len <= Capacity)
      /\ fill = Cardinality(Samples(live)) /\ Capacity \in Nat
      /\ live \in Seq(Region) /\ live \in Seq(Filled)
  BY FilledRegions, SizesAssumption
     DEF WriteEvict, TimelineInv, InWrite, PacketFits, TypeOK, WriterOK, Span, FillAccounting, ListsOK
<1>2. CASE live = <<>>
  <2>1. fill = 0 /\ wr.pkt.len + wr.pkt.len <= Capacity
    BY <1>1, <1>2, SamplesEmpty DEF Roomy
  <2> QED  BY <1>1, <2>1
<1>3. CASE live # <<>> /\ Len(live) = 1
  <2>1. Tail(live) = <<>>
    <3>1. Tail(live) \in Seq(Region) /\ Len(Tail(live)) = 0
      BY <1>1, <1>3, HeadTailProperties
    <3> QED  BY <3>1, EmptySeq
  <2>2. Head(live) = live[1] /\ Head(live).len \in Nat
    BY <1>1, <1>3, HeadTailProperties, HeadType DEF TypeOK
  <2>3. fill = Head(live).len
    <3>1. Cardinality(Samples(live)) = Cardinality(Samples(<<>>)) + Head(live).len
      BY <1>1, <1>3, <2>1, SamplesTail
    <3> QED  BY <1>1, <2>2, <3>1, SamplesEmpty
  <2>4. [start |-> live[1].start, len |-> live[1].len] \in Packets
    BY <1>3 DEF TimelineInv, FromPackets
  <2>5. live[1].len + wr.pkt.len <= Capacity
    BY <1>1, <2>4 DEF Roomy
  <2> QED  BY <1>1, <2>2, <2>3, <2>5
<1> QED  BY <1>2, <1>3

\* The metadata array and what does not happen are inductive.
LEMMA NoCrashStep ==
    ASSUME TypeOK, TimelineInv, CopyInv, FillAccounting, MetaInv, NoCrash, [Next]_vars
    PROVE  MetaInv' /\ NoCrash'
<1> SUFFICES ASSUME ~cleared' PROVE MetaInv' /\ NoCrash'
  BY DEF MetaInv, NoCrash
<1>1. ~cleared
  BY DEF Next, vars, WriterNext, WriterContinues, WriteEnter, WriteEvict, WriteUnlock, Reclaim,
        WriteAllocRegion, WriteAllocBuf, WriteInsert, Clear, ClearPools, ReaderNext, ReaderContinues,
        ReadEnter, ReadDrop, ReadCopy, ReadFill, ReadUnlock, ReadReturn, ConsumerNext, ConsumeEnter,
        ConsumeWake, Consume, SpuriousWakeup, DestroyPacket, CancelConsume, Incref, Decref
<1>2. meta.len = meta.cap /\ meta \in [len : Nat, cap : Nat]
  BY <1>1 DEF MetaInv, TypeOK, ReaderOK
<1>3. CASE UNCHANGED <<meta, fault>>
  BY <1>1, <1>2, <1>3 DEF MetaInv, NoCrash
<1>4. CASE WriteEvict
  <2>1. UNCHANGED meta /\ (Roomy => fault' = fault)
    BY <1>1, <1>4, OverrunHasTwo DEF WriteEvict
  <2> QED  BY <1>1, <1>2, <2>1 DEF MetaInv, NoCrash
<1>5. CASE ReadCopy
  <2>1. Copying /\ ~NothingToCopy
    BY <1>5 DEF ReadCopy
  <2> DEFINE r == live[rd.idx]
  <2>2. CopyStart(r) \in Nat /\ CopyEnd(r) \in Nat /\ CopyStart(r) <= CopyEnd(r)
    BY <2>1, CopyIterationExact, CopyType, LiveTypes DEF TypeOK
  <2>3. GrowMetadata
    <3> HIDE DEF r
    <3>1. ~(CopyEnd(r) < CopyStart(r))
      BY <2>2
    <3> QED  BY <1>5, <3>1 DEF ReadCopy, r
  <2>4. meta'.len = meta'.cap /\ fault' \in {fault, "none", "oom"}
    BY <1>2, <2>3 DEF GrowMetadata
  <2> QED  BY <1>1, <2>4 DEF MetaInv, NoCrash
<1>6. ASSUME NEW t \in Threads, Decref(t) PROVE MetaInv' /\ NoCrash'
  <2>1. UNCHANGED fault /\ (UNCHANGED meta \/ meta' = [len |-> 0, cap |-> 0])
    BY <1>6 DEF Decref
  <2> QED  BY <1>1, <1>2, <2>1 DEF MetaInv, NoCrash
<1>7. \/ UNCHANGED <<meta, fault>> \/ WriteEvict \/ ReadCopy
      \/ \E t \in Threads : Decref(t)
  <2>1. ~Clear
    BY DEF Clear
  <2> QED  BY <2>1 DEF Next, vars, WriterNext, WriterContinues, WriteEnter, WriteUnlock, Reclaim,
        WriteAllocRegion, WriteAllocBuf, WriteInsert, ClearPools, ReaderNext, ReaderContinues,
        ReadEnter, ReadDrop, ReadFill, ReadUnlock, ReadReturn, ConsumerNext, ConsumeEnter,
        ConsumeWake, Consume, SpuriousWakeup, DestroyPacket, CancelConsume, Incref
<1> QED  BY <1>3, <1>4, <1>5, <1>6, <1>7

\* A writer never copies a packet into a buffer smaller than it, recycled or new, although the
\* pool records the length of a buffer's last packet only; and before the first stream_clear,
\* with room for any two packets, the assertion of the overrun holds, no NULL pointer is used,
\* and the copy loop never computes a negative length.
THEOREM BuffersRespected == Spec => []MemorySafe
<1> DEFINE I == SizeInv /\ MetaInv /\ NoCrash
           K == TypeOK /\ RefInv /\ LockInv /\ TimelineInv /\ CopyInv /\ FillAccounting
<1>1. Init => I
  BY EmptySeq DEF Init, SizeInv, BufferFits, MetaInv, NoCrash, Resting, NotConsuming
<1>2. K /\ I /\ [Next]_vars => I'
  BY SizeStep, NoCrashStep
<1>3. I => MemorySafe
  BY DEF MemorySafe, SizeInv
<1>4. Spec => []K
  BY ReadInvariant, AccountsInvariant, PTL
<1> HIDE DEF I, K
<1> QED  BY <1>1, <1>2, <1>3, <1>4, PTL DEF Spec

=============================================================================
