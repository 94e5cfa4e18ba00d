--------------------------- MODULE RAATServerProofs ---------------------------
(***************************************************************************)
(* Proofs about the server, for every set of clients, every number of      *)
(* inputs and every number of runs of the device.                          *)
(***************************************************************************)
EXTENDS RAATServer, ListLemmas

-----------------------------------------------------------------------------
(***************************************************************************)
(* What happens to the list of async handles                               *)
(***************************************************************************)

\* Nothing but flags has changed from s to t.
SameHandles(t, s) ==
    /\ t \in Seq(Handle) /\ Len(t) = Len(s)
    /\ \A i \in 1..Len(s) : t[i].kind = s[i].kind /\ t[i].client = s[i].client

\* A pending handle was added at the end of s.
NewHandle(t, s, kind, c) ==
    /\ t \in Seq(Handle) /\ Len(t) = Len(s) + 1
    /\ \A i \in 1..Len(s) : t[i] = s[i]
    /\ t[Len(s) + 1].kind = kind /\ t[Len(s) + 1].client = c

\* Handle i of s was closed.
LessHandle(t, s, i) ==
    /\ t \in Seq(Handle) /\ Len(t) = Len(s) - 1
    /\ \A j \in 1..(i - 1) : t[j] = s[j]
    /\ \A j \in i..(Len(s) - 1) : t[j] = s[j + 1]

LEMMA HandleList ==
    ASSUME NEW s \in Seq(Handle)
    PROVE  /\ Len(s) \in Nat /\ DOMAIN s = 1..Len(s)
           /\ \A i \in 1..Len(s) : s[i] \in Handle
BY LenProperties, ElementOfSeq

LEMMA FunctionIsSeq ==
    ASSUME NEW S, NEW n \in Nat, NEW f \in [1..n -> S]
    PROVE  f \in Seq(S) /\ Len(f) = n
OBVIOUS

LEMMA SignaledHandles ==
    ASSUME asyncs \in Seq(Handle), NEW kind
    PROVE  /\ SameHandles(Signaled(kind), asyncs)
           /\ \A i \in 1..Len(asyncs) :
                 Signaled(kind)[i].pending = IF asyncs[i].kind = kind THEN 1 ELSE asyncs[i].pending
<1> DEFINE flag(h) == IF h.kind = kind THEN 1 ELSE h.pending
           t == [i \in 1..Len(asyncs) |-> [asyncs[i] EXCEPT !.pending = flag(asyncs[i])]]
<1>1. Len(asyncs) \in Nat /\ DOMAIN asyncs = 1..Len(asyncs)
      /\ \A i \in 1..Len(asyncs) : asyncs[i] \in Handle
  BY HandleList
<1>2. Signaled(kind) = t
  BY <1>1 DEF Signaled
<1>3. ASSUME NEW h \in Handle
      PROVE  /\ [h EXCEPT !.pending = flag(h)] \in Handle
             /\ [h EXCEPT !.pending = flag(h)].kind = h.kind
             /\ [h EXCEPT !.pending = flag(h)].client = h.client
             /\ [h EXCEPT !.pending = flag(h)].pending = flag(h)
  <2>1. flag(h) \in {0, 1}
    BY DEF Handle
  <2> HIDE DEF flag
  <2> QED  BY <2>1 DEF Handle
<1>4. \A i \in 1..Len(asyncs) :
        t[i] \in Handle /\ t[i].kind = asyncs[i].kind /\ t[i].client = asyncs[i].client
        /\ t[i].pending = flag(asyncs[i])
  BY <1>1, <1>3
<1>5. t \in Seq(Handle) /\ Len(t) = Len(asyncs)
  <2>1. t \in [1..Len(asyncs) -> Handle]
    BY <1>4
  <2> HIDE DEF t
  <2> QED  BY <1>1, <2>1, FunctionIsSeq
<1> HIDE DEF t
<1> QED  BY <1>2, <1>4, <1>5 DEF SameHandles

LEMMA FlaggedHandle ==
    ASSUME asyncs \in Seq(Handle), NEW k \in DOMAIN asyncs, NEW p \in {0, 1}
    PROVE  /\ SameHandles([asyncs EXCEPT ![k].pending = p], asyncs)
           /\ \A i \in 1..Len(asyncs) :
                 [asyncs EXCEPT ![k].pending = p][i].pending = IF i = k THEN p ELSE asyncs[i].pending
<1> DEFINE h == [asyncs[k] EXCEPT !.pending = p]
           t == [asyncs EXCEPT ![k] = h]
<1>1. Len(asyncs) \in Nat /\ DOMAIN asyncs = 1..Len(asyncs)
      /\ \A i \in 1..Len(asyncs) : asyncs[i] \in Handle
  BY HandleList
<1>2. h \in Handle /\ h.kind = asyncs[k].kind /\ h.client = asyncs[k].client /\ h.pending = p
  BY <1>1 DEF Handle
<1>3. [asyncs EXCEPT ![k].pending = p] = t
  OBVIOUS
<1> HIDE DEF h
<1>4. t \in Seq(Handle) /\ Len(t) = Len(asyncs)
      /\ \A i \in 1..Len(asyncs) : t[i] = IF i = k THEN h ELSE asyncs[i]
  BY <1>1, <1>2, ExceptSeq
<1> HIDE DEF t
<1> QED  BY <1>2, <1>3, <1>4 DEF SameHandles

LEMMA InitializedHandle ==
    ASSUME asyncs \in Seq(Handle), NEW kind \in {"post", "script", "finish", "stop"},
           NEW c \in Clients \union {NoClient}, NEW t,
           t = Initialized(kind, c) \/ t = Append(asyncs, Async(kind, c))
    PROVE  NewHandle(t, asyncs, kind, c)
<1>1. Len(asyncs) \in Nat
  BY HandleList
<1>2. PICK p \in {0, 1} : t = Append(asyncs, [kind |-> kind, client |-> c, pending |-> p])
  BY DEF Initialized, Async
<1> DEFINE h == [kind |-> kind, client |-> c, pending |-> p]
<1>3. h \in Handle /\ h.kind = kind /\ h.client = c
  BY DEF Handle
<1>4. t = Append(asyncs, h)
  BY <1>2
<1> HIDE DEF h
<1>5. /\ t \in Seq(Handle) /\ Len(t) = Len(asyncs) + 1
      /\ \A i \in 1..Len(asyncs) : t[i] = asyncs[i]
      /\ t[Len(asyncs) + 1] = h
  BY <1>1, <1>3, <1>4, AppendProperties
<1> QED  BY <1>3, <1>5 DEF NewHandle

LEMMA RemovedHandle ==
    ASSUME NEW s \in Seq(Handle), NEW i \in DOMAIN s
    PROVE  LessHandle(RemoveAt(s, i), s, i)
<1>1. Len(s) \in Nat /\ DOMAIN s = 1..Len(s)
  BY HandleList
<1> DEFINE t == RemoveAt(s, i)
<1>2. /\ t \in Seq(Handle) /\ Len(t) = Len(s) - 1
      /\ \A j \in 1..(Len(s) - 1) : t[j] = IF j < i THEN s[j] ELSE s[j + 1]
  BY <1>1, RemoveAtProperties
<1> HIDE DEF t
<1>3. LessHandle(t, s, i)
  <2>1. /\ \A j \in 1..(i - 1) : j \in 1..(Len(s) - 1) /\ j < i
        /\ \A j \in i..(Len(s) - 1) : j \in 1..(Len(s) - 1) /\ ~(j < i)
    BY <1>1
  <2>2. \A j \in 1..(i - 1) : t[j] = s[j]
    BY <1>2, <2>1
  <2>3. \A j \in i..(Len(s) - 1) : t[j] = s[j + 1]
    BY <1>2, <2>1
  <2> QED  BY <1>2, <2>2, <2>3 DEF LessHandle
<1> QED  BY <1>3 DEF t

\* The handles of clients name their client.
HandlesOK(s) ==
    /\ s \in Seq(Handle)
    /\ \A i \in 1..Len(s) : s[i].client = NoClient <=> s[i].kind \in {"post", "stop"}

\* async_post is the oldest handle.
PostFirst(s) ==
    /\ Len(s) >= 1 /\ s[1].kind = "post"
    /\ \A i \in 1..Len(s) : s[i].kind = "post" => i = 1

NoStop(s)    == \A i \in 1..Len(s) : s[i].kind # "stop"
OneStop(s)   == \A i, j \in 1..Len(s) : s[i].kind = "stop" /\ s[j].kind = "stop" => i = j
StopAt(s, k) == k \in 1..Len(s) /\ s[k].kind = "stop"

LEMMA SameKeeps ==
    ASSUME NEW s \in Seq(Handle), NEW t, SameHandles(t, s)
    PROVE  /\ HandlesOK(s) => HandlesOK(t)
           /\ PostFirst(s) => PostFirst(t)
           /\ NoStop(s) <=> NoStop(t)
           /\ OneStop(s) => OneStop(t)
           /\ \A k : StopAt(s, k) => StopAt(t, k)
<1>1. /\ Len(t) = Len(s) /\ t \in Seq(Handle) /\ Len(s) \in Nat
      /\ \A i \in 1..Len(s) : t[i].kind = s[i].kind /\ t[i].client = s[i].client
  BY HandleList DEF SameHandles
<1>2. HandlesOK(s) => HandlesOK(t)
  BY <1>1 DEF HandlesOK
<1>3. PostFirst(s) => PostFirst(t)
  BY <1>1 DEF PostFirst
<1>4. NoStop(s) <=> NoStop(t)
  BY <1>1 DEF NoStop
<1>5. OneStop(s) => OneStop(t)
  BY <1>1 DEF OneStop
<1>6. \A k : StopAt(s, k) => StopAt(t, k)
  BY <1>1 DEF StopAt
<1> QED  BY <1>2, <1>3, <1>4, <1>5, <1>6

LEMMA NewKeeps ==
    ASSUME NEW s \in Seq(Handle), NEW t, NEW kind, NEW c, NewHandle(t, s, kind, c)
    PROVE  /\ HandlesOK(s) /\ (c = NoClient <=> kind \in {"post", "stop"}) => HandlesOK(t)
           /\ PostFirst(s) /\ kind # "post" => PostFirst(t)
           /\ NoStop(s) /\ kind # "stop" => NoStop(t)
           /\ OneStop(s) /\ (kind # "stop" \/ NoStop(s)) => OneStop(t)
           /\ \A k : StopAt(s, k) => StopAt(t, k)
<1>1. /\ Len(t) = Len(s) + 1 /\ t \in Seq(Handle) /\ Len(s) \in Nat
      /\ \A i \in 1..Len(t) : i \in 1..Len(s) \/ i = Len(s) + 1
      /\ \A i \in 1..Len(s) : t[i] = s[i]
      /\ t[Len(s) + 1].kind = kind /\ t[Len(s) + 1].client = c
  BY HandleList DEF NewHandle
<1>2. HandlesOK(s) /\ (c = NoClient <=> kind \in {"post", "stop"}) => HandlesOK(t)
  <2> SUFFICES ASSUME HandlesOK(s), c = NoClient <=> kind \in {"post", "stop"},
                      NEW i \in 1..Len(t)
               PROVE  t[i].client = NoClient <=> t[i].kind \in {"post", "stop"}
    BY <1>1, Zenon DEF HandlesOK
  <2>1. CASE i \in 1..Len(s)
    BY <2>1, <1>1 DEF HandlesOK
  <2>2. CASE i = Len(s) + 1
    BY <2>2, <1>1
  <2> QED  BY <2>1, <2>2, <1>1
<1>3. PostFirst(s) /\ kind # "post" => PostFirst(t)
  BY <1>1 DEF PostFirst
<1>4. NoStop(s) /\ kind # "stop" => NoStop(t)
  BY <1>1 DEF NoStop
<1>5. OneStop(s) /\ (kind # "stop" \/ NoStop(s)) => OneStop(t)
  BY <1>1 DEF OneStop, NoStop
<1>6. \A k : StopAt(s, k) => StopAt(t, k)
  BY <1>1 DEF StopAt
<1> QED  BY <1>2, <1>3, <1>4, <1>5, <1>6

LEMMA LessKeeps ==
    ASSUME NEW s \in Seq(Handle), NEW t, NEW i \in 1..Len(s), LessHandle(t, s, i)
    PROVE  /\ HandlesOK(s) => HandlesOK(t)
           /\ PostFirst(s) /\ s[i].kind # "post" => PostFirst(t)
           /\ NoStop(s) => NoStop(t)
           /\ OneStop(s) => OneStop(t)
           /\ OneStop(s) /\ s[i].kind = "stop" => NoStop(t)
<1>1. Len(t) = Len(s) - 1 /\ t \in Seq(Handle) /\ Len(s) \in Nat
  BY HandleList DEF LessHandle
<1>2. ASSUME NEW j \in 1..Len(t)
      PROVE  \/ j < i /\ j \in 1..Len(s) /\ t[j] = s[j]
             \/ j >= i /\ j + 1 \in 1..Len(s) /\ t[j] = s[j + 1]
  BY <1>1 DEF LessHandle
<1> DEFINE o(j) == IF j < i THEN j ELSE j + 1
<1>3. ASSUME NEW j \in 1..Len(t)
      PROVE  o(j) \in 1..Len(s) /\ t[j] = s[o(j)] /\ o(j) # i /\ (o(j) = 1 => j = 1)
  BY <1>2, <1>1
<1>4. ASSUME NEW j \in 1..Len(t), NEW k \in 1..Len(t), o(j) = o(k)
      PROVE  j = k
  BY <1>4, <1>1
<1> HIDE DEF o
<1>5. HandlesOK(s) => HandlesOK(t)
  BY <1>1, <1>3 DEF HandlesOK
<1>6. PostFirst(s) /\ s[i].kind # "post" => PostFirst(t)
  <2> SUFFICES ASSUME PostFirst(s), s[i].kind # "post"
               PROVE  PostFirst(t)
    OBVIOUS
  <2>1. i # 1 /\ Len(t) >= 1 /\ 1 < i
    BY <1>1 DEF PostFirst
  <2>2. t[1] = s[1]
    BY <2>1, <1>1, <1>2
  <2> QED  BY <2>1, <2>2, <1>3 DEF PostFirst
<1>7. NoStop(s) => NoStop(t)
  BY <1>3 DEF NoStop
<1>8. OneStop(s) => OneStop(t)
  BY <1>3, <1>4 DEF OneStop
<1>9. OneStop(s) /\ s[i].kind = "stop" => NoStop(t)
  BY <1>3 DEF OneStop, NoStop
<1> QED  BY <1>5, <1>6, <1>7, <1>8, <1>9

-----------------------------------------------------------------------------
(***************************************************************************)
(* Types, and where the handles of the server and of device_stop are       *)
(***************************************************************************)
InStop == loop.pc = "stop" \/ (loop.pc = "join" /\ loop.ret = "stop")

\* async_post is there while the server runs; there is at most one handle of device_stop, which is
\* made by the stop of a running server, and the loop is at it inside server_stop.
HandleInv ==
    /\ listener # "none" => PostFirst(asyncs)
    /\ OneStop(asyncs)
    /\ ~NoStop(asyncs) => ~running /\ listener # "none"
    /\ running => listener # "none"
    /\ loop.pc = "out" => listener = "none"
    /\ InStop => StopAt(asyncs, loop.at)

Loop == [pc : {"out", "poll", "pass", "posts", "join", "stop"}, at : Nat,
         client : Clients \union {NoClient}, ret : {"poll", "posts", "stop"}]

PostsOK(s) ==
    /\ s \in Seq(Work)
    /\ \A i \in 1..Len(s) : s[i].client = NoClient <=> s[i].kind = "rebind"

\* TypeOK in parts
FlagsOK == /\ running \in BOOLEAN /\ closing \in BOOLEAN
           /\ listener \in {"none", "open", "dead"}
           /\ inputs \in Nat /\ runs \in Nat /\ fault \in {"none", "freed", "close", "init"}
LifeOK    == life \in [Clients -> {"new", "open", "destroying", "closing", "freed"}]
SessionOK == session \in [Clients -> Session]
LoopOK    == loop \in Loop /\ (loop.pc = "join" <=> loop.client # NoClient)

LEMMA TypeParts ==
    TypeOK <=> FlagsOK /\ LifeOK /\ SessionOK /\ LoopOK /\ PostsOK(posts) /\ HandlesOK(asyncs)
<1>1. ASSUME NEW S, NEW s \in Seq(S)
      PROVE  DOMAIN s = 1..Len(s)
  BY <1>1, LenProperties
<1>2. posts \in Seq(Work) => DOMAIN posts = 1..Len(posts)
  BY <1>1
<1>3. asyncs \in Seq(Handle) => DOMAIN asyncs = 1..Len(asyncs)
  BY <1>1
<1> QED  BY <1>2, <1>3, Zenon
         DEF TypeOK, FlagsOK, LifeOK, SessionOK, LoopOK, Loop, PostsOK, HandlesOK

LEMMA PostsAppend ==
    ASSUME PostsOK(posts), NEW kind \in {"send", "fail", "rebind"},
           NEW c \in Clients \union {NoClient}, c = NoClient <=> kind = "rebind"
    PROVE  /\ PostsOK(Append(posts, Post(kind, c)))
           /\ Len(Append(posts, Post(kind, c))) = Len(posts) + 1
           /\ \A i \in 1..Len(posts) : Append(posts, Post(kind, c))[i] = posts[i]
           /\ Append(posts, Post(kind, c))[Len(posts) + 1].client = c
<1> DEFINE p == Post(kind, c)
           t == Append(posts, p)
<1>1. Len(posts) \in Nat
  BY LenProperties DEF PostsOK
<1>2. p \in Work /\ p.kind = kind /\ p.client = c
  BY DEF Post, Work
<1> HIDE DEF p
<1>3. /\ t \in Seq(Work) /\ Len(t) = Len(posts) + 1
      /\ \A i \in 1..Len(posts) : t[i] = posts[i]
      /\ t[Len(posts) + 1] = p
  BY <1>1, <1>2, AppendProperties DEF PostsOK
<1>4. \A i \in 1..Len(t) : i \in 1..Len(posts) \/ i = Len(posts) + 1
  BY <1>1, <1>3
<1> HIDE DEF t
<1>5. PostsOK(t)
  BY <1>2, <1>3, <1>4 DEF PostsOK
<1> QED  BY <1>2, <1>3, <1>5 DEF t, p

LEMMA PostsTail ==
    ASSUME PostsOK(posts), posts # <<>>
    PROVE  /\ PostsOK(Tail(posts)) /\ Len(Tail(posts)) = Len(posts) - 1 /\ Len(posts) \in Nat \ {0}
           /\ \A i \in 1..Len(Tail(posts)) : i + 1 \in 1..Len(posts) /\ Tail(posts)[i] = posts[i + 1]
           /\ Head(posts) = posts[1] /\ Head(posts) \in Work /\ 1 \in 1..Len(posts)
           /\ Head(posts).client = NoClient <=> Head(posts).kind = "rebind"
<1>1. posts \in Seq(Work) /\ Len(posts) \in Nat
  BY LenProperties DEF PostsOK
<1>2. /\ Head(posts) \in Work /\ Tail(posts) \in Seq(Work)
      /\ Head(posts) = posts[1] /\ Len(Tail(posts)) = Len(posts) - 1 /\ Len(posts) # 0
      /\ \A i \in 1..Len(Tail(posts)) : Tail(posts)[i] = posts[i + 1]
  BY <1>1, HeadTailProperties, EmptySeq
<1>3. \A i \in 1..Len(Tail(posts)) : i + 1 \in 1..Len(posts)
  BY <1>1, <1>2
<1>4. 1 \in 1..Len(posts) /\ Len(posts) \in Nat \ {0}
  BY <1>1, <1>2
<1>5. PostsOK(Tail(posts))
  BY <1>2, <1>3 DEF PostsOK
<1>6. Head(posts).client = NoClient <=> Head(posts).kind = "rebind"
  BY <1>2, <1>4 DEF PostsOK
<1> QED  BY <1>2, <1>3, <1>4, <1>5, <1>6

LEMMA TypePartsNext ==
    (FlagsOK /\ LifeOK /\ SessionOK /\ LoopOK /\ PostsOK(posts) /\ HandlesOK(asyncs))' => TypeOK'
BY TypeParts, PTL

\* What a step keeps of the other variables' types.
LEMMA TypeFrame ==
    ASSUME TypeOK
    PROVE  /\ FlagsOK /\ LifeOK /\ SessionOK /\ LoopOK /\ PostsOK(posts) /\ HandlesOK(asyncs)
           /\ asyncs \in Seq(Handle) /\ DOMAIN asyncs = 1..Len(asyncs) /\ Len(asyncs) \in Nat
BY TypeParts, HandleList, Zenon DEF HandlesOK

LEMMA ServerPostTypes ==
    ASSUME TypeOK, NEW kind \in {"send", "fail", "rebind"}, NEW c \in Clients \union {NoClient},
           c = NoClient <=> kind = "rebind", ServerPost(kind, c)
    PROVE  /\ PostsOK(posts)' /\ HandlesOK(asyncs)' /\ SameHandles(asyncs', asyncs)
<1>1. PostsOK(posts')
  BY TypeFrame, PostsAppend DEF ServerPost
<1>2. SameHandles(asyncs', asyncs)
  BY TypeFrame, SignaledHandles DEF ServerPost
<1>3. HandlesOK(asyncs')
  BY <1>2, TypeFrame, SameKeeps
<1> QED  BY <1>1, <1>2, <1>3

LEMMA DestroyTypes ==
    ASSUME TypeOK, NEW c \in Clients, NEW ret \in {"poll", "posts", "stop"}, loop.pc # "join",
           DestroyClient(c, ret)
    PROVE  /\ LifeOK' /\ SessionOK' /\ LoopOK'
<1>1. LifeOK /\ SessionOK /\ LoopOK /\ c # NoClient
  BY TypeFrame, ClientsAssumption
<1>2. CASE life[c] # "open" /\ loop' = [loop EXCEPT !.pc = ret] /\ UNCHANGED <<life, session>>
  BY <1>1, <1>2 DEF LifeOK, SessionOK, LoopOK, Loop
<1>3. CASE /\ life[c] = "open"
           /\ life' = [life EXCEPT ![c] = "destroying"]
           /\ session' = [session EXCEPT ![c].stop = 1]
           /\ loop' = [loop EXCEPT !.pc = "join", !.client = c, !.ret = ret]
  <2>1. LifeOK'
    BY <1>1, <1>3 DEF LifeOK
  <2>2. SessionOK'
    BY <1>1, <1>3 DEF SessionOK, Session
  <2>3. LoopOK'
    BY <1>1, <1>3 DEF LoopOK, Loop
  <2> QED  BY <2>1, <2>2, <2>3
<1> QED  BY <1>2, <1>3 DEF DestroyClient

\* server_stop closes the handle of device_stop, and async_post, which is older.
LEMMA StopServerHandles ==
    ASSUME TypeOK, HandleInv, StopServer
    PROVE  /\ StopAt(asyncs, loop.at) /\ loop.at \in 2..Len(asyncs)
           /\ \E rest \in Seq(Handle) :
                 /\ LessHandle(rest, asyncs, loop.at)
                 /\ \E k \in 1..Len(rest) : LessHandle(asyncs', rest, k)
<1>1. asyncs \in Seq(Handle) /\ Len(asyncs) \in Nat /\ DOMAIN asyncs = 1..Len(asyncs)
  BY TypeFrame
<1>2. StopAt(asyncs, loop.at) /\ PostFirst(asyncs)
  BY DEF StopServer, HandleInv, InStop
<1>3. loop.at \in 2..Len(asyncs)
  BY <1>1, <1>2 DEF StopAt, PostFirst
<1> DEFINE rest == RemoveAt(asyncs, loop.at)
<1>4. LessHandle(rest, asyncs, loop.at) /\ PostFirst(rest)
  BY <1>1, <1>2, <1>3, RemovedHandle, LessKeeps DEF StopAt
<1>5. rest \in Seq(Handle)
  BY <1>4 DEF LessHandle
<1>6. asyncs' = CloseAsyncPost(rest)
  BY DEF StopServer
<1> HIDE DEF rest
<1>7. DOMAIN rest = 1..Len(rest)
  BY <1>5, HandleList
<1>8. PICK k \in DOMAIN rest : asyncs' = RemoveAt(rest, k)
  <2>1. \E k \in DOMAIN rest : rest[k].kind = "post"
    BY <1>4, <1>7 DEF PostFirst
  <2>2. (CHOOSE k \in DOMAIN rest : rest[k].kind = "post") \in DOMAIN rest
    BY <2>1
  <2> QED  BY <1>6, <2>2 DEF CloseAsyncPost
<1>9. LessHandle(asyncs', rest, k)
  BY <1>5, <1>8, RemovedHandle
<1> QED  BY <1>2, <1>3, <1>4, <1>5, <1>7, <1>9

LEMMA TypeStep ==
    ASSUME TypeOK, HandleInv, [Next]_vars
    PROVE  TypeOK'
<1> USE DEF work, hist
<1>0. /\ FlagsOK /\ LifeOK /\ SessionOK /\ LoopOK /\ PostsOK(posts) /\ HandlesOK(asyncs)
      /\ asyncs \in Seq(Handle) /\ DOMAIN asyncs = 1..Len(asyncs) /\ Len(asyncs) \in Nat
  BY TypeFrame
<1> SUFFICES (FlagsOK /\ LifeOK /\ SessionOK /\ LoopOK)' /\ PostsOK(posts)' /\ HandlesOK(asyncs)'
  BY TypePartsNext
<1>e. HandlesOK(<<>>) /\ HandlesOK(<<Async("post", NoClient)>>)
  BY ClientsAssumption DEF HandlesOK, Async, Handle
<1>1. CASE UNCHANGED vars
  BY <1>0, <1>1 DEF vars, FlagsOK, LifeOK, SessionOK, LoopOK
<1>2. CASE Run
  <2>1. FlagsOK' /\ LifeOK' /\ SessionOK'
    BY <1>0, <1>2 DEF Run, FlagsOK, LifeOK, SessionOK
  <2>2. LoopOK'
    BY <1>0, <1>2 DEF Run, LoopOK, Loop
  <2> QED  BY <1>0, <1>2, <1>e, <2>1, <2>2 DEF Run
<1>3. CASE RunFails
  <2>1. FlagsOK' /\ LifeOK' /\ SessionOK' /\ LoopOK'
    BY <1>0, <1>3 DEF RunFails, FlagsOK, LifeOK, SessionOK, LoopOK
  <2> QED  BY <1>0, <1>3, <1>e, <2>1 DEF RunFails
<1>4. CASE RunAgain
  BY <1>0, <1>4 DEF RunAgain, FlagsOK, LifeOK, SessionOK, LoopOK
<1>5. CASE Stop
  <2>1. FlagsOK' /\ LifeOK' /\ SessionOK' /\ LoopOK'
    BY <1>0, <1>5 DEF Stop, FlagsOK, LifeOK, SessionOK, LoopOK
  <2>2. HandlesOK(asyncs')
    BY <1>0, <1>5, InitializedHandle, NewKeeps DEF Stop
  <2> QED  BY <1>0, <1>5, <2>1, <2>2 DEF Stop
<1>6. CASE Rebind
  <2>1. FlagsOK' /\ LifeOK' /\ SessionOK' /\ LoopOK'
    BY <1>0, <1>6 DEF Rebind, Input, FlagsOK, LifeOK, SessionOK, LoopOK
  <2>2. PostsOK(posts') /\ HandlesOK(asyncs')
    BY <1>6, ServerPostTypes DEF Rebind
  <2> QED  BY <2>1, <2>2
<1>7. CASE PassBegin
  BY <1>0, <1>7 DEF PassBegin, Polling, FlagsOK, LifeOK, SessionOK, LoopOK, Loop
<1>8. CASE PassEnd
  BY <1>0, <1>8 DEF PassEnd, FlagsOK, LifeOK, SessionOK, LoopOK, Loop
<1>9. ASSUME NEW i \in DOMAIN asyncs, PassPost(i)
      PROVE  (FlagsOK /\ LifeOK /\ SessionOK /\ LoopOK)' /\ PostsOK(posts)' /\ HandlesOK(asyncs)'
  <2>1. FlagsOK' /\ LifeOK' /\ SessionOK'
    BY <1>0, <1>9 DEF PassPost, FlagsOK, LifeOK, SessionOK
  <2>3. LoopOK'
    <3>1. i \in Nat
      BY <1>0
    <3>2. loop.pc = "pass" /\ loop' = [loop EXCEPT !.pc = "posts", !.at = i]
      BY <1>9 DEF PassPost, Visit
    <3> QED  BY <1>0, <3>1, <3>2 DEF LoopOK, Loop
  <2>2. HandlesOK(asyncs')
    BY <1>0, <1>9, FlaggedHandle, SameKeeps DEF PassPost
  <2> QED  BY <1>0, <1>9, <2>1, <2>2, <2>3 DEF PassPost
<1>10. ASSUME NEW i \in DOMAIN asyncs, PassScript(i)
       PROVE  (FlagsOK /\ LifeOK /\ SessionOK /\ LoopOK)' /\ PostsOK(posts)' /\ HandlesOK(asyncs)'
  <2>1. FlagsOK' /\ LifeOK' /\ SessionOK'
    BY <1>0, <1>10 DEF PassScript, FlagsOK, LifeOK, SessionOK
  <2>2. LoopOK'
    BY <1>0, <1>10 DEF PassScript, Visit, LoopOK, Loop
  <2>3. HandlesOK(asyncs')
    BY <1>0, <1>10, RemovedHandle, LessKeeps DEF PassScript
  <2> QED  BY <1>0, <1>10, <2>1, <2>2, <2>3 DEF PassScript
<1>11. ASSUME NEW i \in DOMAIN asyncs, PassFinish(i)
       PROVE  (FlagsOK /\ LifeOK /\ SessionOK /\ LoopOK)' /\ PostsOK(posts)' /\ HandlesOK(asyncs)'
  <2>1. FlagsOK' /\ LifeOK' /\ SessionOK'
    BY <1>0, <1>11 DEF PassFinish, FlagsOK, LifeOK, SessionOK
  <2>2. LoopOK'
    BY <1>0, <1>11 DEF PassFinish, Visit, LoopOK, Loop
  <2>3. HandlesOK(asyncs')
    BY <1>0, <1>11, RemovedHandle, LessKeeps DEF PassFinish
  <2> QED  BY <1>0, <1>11, <2>1, <2>2, <2>3 DEF PassFinish
<1>12. ASSUME NEW i \in DOMAIN asyncs, PassStop(i)
       PROVE  (FlagsOK /\ LifeOK /\ SessionOK /\ LoopOK)' /\ PostsOK(posts)' /\ HandlesOK(asyncs)'
  <2>1. FlagsOK' /\ LifeOK' /\ SessionOK'
    BY <1>0, <1>12 DEF PassStop, FlagsOK, LifeOK, SessionOK
  <2>3. LoopOK'
    <3>1. i \in Nat
      BY <1>0
    <3>2. loop.pc = "pass" /\ loop' = [loop EXCEPT !.pc = "stop", !.at = i]
      BY <1>12 DEF PassStop, Visit
    <3> QED  BY <1>0, <3>1, <3>2 DEF LoopOK, Loop
  <2>2. HandlesOK(asyncs')
    BY <1>0, <1>12, FlaggedHandle, SameKeeps DEF PassStop
  <2> QED  BY <1>0, <1>12, <2>1, <2>2, <2>3 DEF PassStop
<1>13. CASE PostsEnd
  BY <1>0, <1>13 DEF PostsEnd, FlagsOK, LifeOK, SessionOK, LoopOK, Loop
<1>14. CASE PostSend
  <2>1. FlagsOK' /\ LifeOK' /\ SessionOK' /\ LoopOK'
    BY <1>0, <1>14 DEF PostSend, FlagsOK, LifeOK, SessionOK, LoopOK
  <2>2. PostsOK(posts')
    BY <1>0, <1>14, PostsTail DEF PostSend
  <2> QED  BY <1>0, <1>14, <2>1, <2>2 DEF PostSend
<1>15. CASE PostFail
  <2>1. FlagsOK'
    BY <1>0, <1>15 DEF PostFail, FlagsOK
  <2>2. Head(posts).client \in Clients
    BY <1>0, <1>15, PostsTail DEF PostFail, Work
  <2>3. LifeOK' /\ SessionOK' /\ LoopOK'
    BY <2>2, <1>15, DestroyTypes DEF PostFail
  <2>4. PostsOK(posts')
    BY <1>0, <1>15, PostsTail DEF PostFail
  <2> QED  BY <1>0, <1>15, <2>1, <2>3, <2>4 DEF PostFail
<1>16. CASE PostRebind
  <2>1. FlagsOK' /\ LifeOK' /\ SessionOK' /\ LoopOK'
    BY <1>0, <1>16 DEF PostRebind, FlagsOK, LifeOK, SessionOK, LoopOK
  <2>2. PostsOK(posts')
    BY <1>0, <1>16, PostsTail DEF PostRebind
  <2> QED  BY <1>0, <1>16, <2>1, <2>2 DEF PostRebind
<1>17. ASSUME NEW c \in Clients, StopClient(c)
       PROVE  (FlagsOK /\ LifeOK /\ SessionOK /\ LoopOK)' /\ PostsOK(posts)' /\ HandlesOK(asyncs)'
  <2>1. FlagsOK'
    BY <1>0, <1>17 DEF StopClient, FlagsOK
  <2>2. LifeOK' /\ SessionOK' /\ LoopOK'
    BY <1>17, DestroyTypes DEF StopClient
  <2> QED  BY <1>0, <1>17, <2>1, <2>2 DEF StopClient
<1>18. CASE StopServer
  <2>1. FlagsOK' /\ LifeOK' /\ SessionOK'
    BY <1>0, <1>18 DEF StopServer, FlagsOK, LifeOK, SessionOK
  <2>2. loop.at \in 2..Len(asyncs)
    BY <1>18, StopServerHandles
  <2>3. LoopOK'
    <3>1. loop.at - 2 \in Nat /\ loop.at \in Nat
      BY <2>2, <1>0
    <3>2. loop.pc = "stop" /\ loop' = [loop EXCEPT !.pc = "pass", !.at = loop.at - 2]
      BY <1>18 DEF StopServer
    <3> QED  BY <1>0, <3>1, <3>2 DEF LoopOK, Loop
  <2>4. HandlesOK(asyncs')
    <3>1. PICK rest \in Seq(Handle) :
            /\ LessHandle(rest, asyncs, loop.at)
            /\ \E k \in 1..Len(rest) : LessHandle(asyncs', rest, k)
      BY <1>18, StopServerHandles
    <3>2. HandlesOK(rest)
      BY <1>0, <2>2, <3>1, LessKeeps
    <3> QED  BY <3>1, <3>2, LessKeeps
  <2> QED  BY <1>0, <1>18, <2>1, <2>3, <2>4 DEF StopServer
<1>19. CASE FinishDestroy
  <2>1. FlagsOK' /\ LifeOK' /\ SessionOK'
    BY <1>0, <1>19 DEF FinishDestroy, FlagsOK, LifeOK, SessionOK
  <2>2. LoopOK'
    BY <1>0, <1>19, ClientsAssumption DEF FinishDestroy, LoopOK, Loop
  <2>3. loop.client \in Clients /\ loop.client # NoClient
    BY <1>0, <1>19 DEF FinishDestroy, LoopOK, Loop
  <2>4. HandlesOK(asyncs')
    BY <1>0, <1>19, <2>3, InitializedHandle, NewKeeps DEF FinishDestroy
  <2> QED  BY <1>0, <1>19, <2>1, <2>2, <2>4 DEF FinishDestroy
<1>20. CASE Close
  BY <1>0, <1>20 DEF Close, FlagsOK, LifeOK, SessionOK, LoopOK
<1>21. CASE LoopEnds
  BY <1>0, <1>21 DEF LoopEnds, Polling, FlagsOK, LifeOK, SessionOK, LoopOK, Loop
<1>22. ASSUME NEW c \in Clients, Accept(c)
       PROVE  (FlagsOK /\ LifeOK /\ SessionOK /\ LoopOK)' /\ PostsOK(posts)' /\ HandlesOK(asyncs)'
  BY <1>0, <1>22, ZenonT(60) DEF Accept, FlagsOK, LifeOK, SessionOK, Session, LoopOK
<1>23. ASSUME NEW c \in Clients, Disconnect(c)
       PROVE  (FlagsOK /\ LifeOK /\ SessionOK /\ LoopOK)' /\ PostsOK(posts)' /\ HandlesOK(asyncs)'
  <2>1. FlagsOK'
    BY <1>0, <1>23 DEF Disconnect, FlagsOK
  <2>2. LifeOK' /\ SessionOK' /\ LoopOK'
    BY <1>23, DestroyTypes DEF Disconnect, Polling
  <2> QED  BY <1>0, <1>23, <2>1, <2>2 DEF Disconnect
<1>24. ASSUME NEW c \in Clients, NEW kind \in {"script", "message"}, Read(c, kind)
       PROVE  (FlagsOK /\ LifeOK /\ SessionOK /\ LoopOK)' /\ PostsOK(posts)' /\ HandlesOK(asyncs)'
  <2>1. FlagsOK' /\ LifeOK' /\ LoopOK'
    BY <1>0, <1>24 DEF Read, Input, FlagsOK, LifeOK, LoopOK
  <2>2. SessionOK'
    <3>1. Append(session[c].queue, kind) \in Seq({"script", "message"})
      BY <1>0, AppendProperties DEF SessionOK, Session
    <3> QED  BY <1>0, <1>24, <3>1, ZenonT(60) DEF Read, SessionPost, SessionOK, Session
  <2>3. HandlesOK(asyncs')
    BY <1>0, <1>24, InitializedHandle, NewKeeps, ClientsAssumption DEF Read
  <2> QED  BY <1>0, <1>24, <2>1, <2>2, <2>3 DEF Read
<1>25. ASSUME NEW c \in Clients, NEW kind \in {"send", "fail"}, SessionPosts(c, kind)
       PROVE  (FlagsOK /\ LifeOK /\ SessionOK /\ LoopOK)' /\ PostsOK(posts)' /\ HandlesOK(asyncs)'
  <2>1. FlagsOK' /\ LifeOK' /\ SessionOK' /\ LoopOK'
    BY <1>0, <1>25 DEF SessionPosts, Input, FlagsOK, LifeOK, SessionOK, LoopOK
  <2>2. PostsOK(posts') /\ HandlesOK(asyncs')
    BY <1>25, ServerPostTypes, ClientsAssumption DEF SessionPosts
  <2> QED  BY <2>1, <2>2
<1>26. ASSUME NEW c \in Clients, SessionFails(c)
       PROVE  (FlagsOK /\ LifeOK /\ SessionOK /\ LoopOK)' /\ PostsOK(posts)' /\ HandlesOK(asyncs)'
  <2>1. FlagsOK' /\ LifeOK' /\ LoopOK'
    BY <1>0, <1>26 DEF SessionFails, Input, FlagsOK, LifeOK, LoopOK
  <2>2. SessionOK'
    BY <1>0, <1>26 DEF SessionFails, SessionOK, Session
  <2>3. PostsOK(posts') /\ HandlesOK(asyncs')
    BY <1>26, ServerPostTypes, ClientsAssumption DEF SessionFails
  <2> QED  BY <2>1, <2>2, <2>3
<1>27. ASSUME NEW c \in Clients, SessionWake(c)
       PROVE  (FlagsOK /\ LifeOK /\ SessionOK /\ LoopOK)' /\ PostsOK(posts)' /\ HandlesOK(asyncs)'
  BY <1>0, <1>27 DEF SessionWake, FlagsOK, LifeOK, SessionOK, Session, LoopOK
<1>28. ASSUME NEW c \in Clients, SessionHandle(c)
       PROVE  (FlagsOK /\ LifeOK /\ SessionOK /\ LoopOK)' /\ PostsOK(posts)' /\ HandlesOK(asyncs)'
  <2>1. FlagsOK' /\ LifeOK' /\ LoopOK'
    BY <1>0, <1>28 DEF SessionHandle, FlagsOK, LifeOK, LoopOK
  <2>2. SessionOK'
    <3>1. session[c].queue # <<>> => Tail(session[c].queue) \in Seq({"script", "message"})
      BY <1>0, HeadTailProperties DEF SessionOK, Session
    <3> QED  BY <1>0, <1>28, <3>1, ZenonT(60) DEF SessionHandle, SessionOK, Session
  <2>3. asyncs' = asyncs \/ \E i \in DOMAIN asyncs : asyncs' = [asyncs EXCEPT ![i].pending = 1]
    BY <1>28 DEF SessionHandle, RunHandler
  <2>4. HandlesOK(asyncs')
    BY <1>0, <2>3, FlaggedHandle, SameKeeps
  <2> QED  BY <1>0, <1>28, <2>1, <2>2, <2>4 DEF SessionHandle
<1>29. ASSUME NEW c \in Clients, SessionStop(c)
       PROVE  (FlagsOK /\ LifeOK /\ SessionOK /\ LoopOK)' /\ PostsOK(posts)' /\ HandlesOK(asyncs)'
  BY <1>0, <1>29 DEF SessionStop, FlagsOK, LifeOK, SessionOK, Session, LoopOK
<1>30. ASSUME NEW c \in Clients, SessionEnds(c)
       PROVE  (FlagsOK /\ LifeOK /\ SessionOK /\ LoopOK)' /\ PostsOK(posts)' /\ HandlesOK(asyncs)'
  BY <1>0, <1>30 DEF SessionEnds, FlagsOK, LifeOK, SessionOK, Session, LoopOK
<1> QED
  BY <1>1, <1>2, <1>3, <1>4, <1>5, <1>6, <1>7, <1>8, <1>9, <1>10, <1>11, <1>12, <1>13, <1>14,
     <1>15, <1>16, <1>17, <1>18, <1>19, <1>20, <1>21, <1>22, <1>23, <1>24, <1>25, <1>26, <1>27,
     <1>28, <1>29, <1>30, Zenon
  DEF Next, LoopStep, PassStep, ClientNext, SessionStep

LEMMA TypeInit == Init => TypeOK /\ HandleInv
<1> SUFFICES ASSUME Init PROVE TypeOK /\ HandleInv
  OBVIOUS
<1>1. asyncs = <<>> /\ posts = <<>> /\ Len(<<>>) = 0
  BY DEF Init
<1>2. HandleInv
  BY <1>1 DEF Init, HandleInv, OneStop, NoStop, InStop
<1>3. FlagsOK /\ LifeOK
  BY DEF Init, FlagsOK, LifeOK
<1>4. SessionOK
  BY DEF Init, SessionOK, Session, NoSession
<1>5. LoopOK
  BY DEF Init, LoopOK, Loop
<1>6. PostsOK(posts) /\ HandlesOK(asyncs)
  BY <1>1 DEF PostsOK, HandlesOK
<1> QED  BY <1>2, <1>3, <1>4, <1>5, <1>6, TypeParts

\* Steps that leave the handles of the server and of device_stop alone.
LEMMA HandleFrame ==
    ASSUME TypeOK, HandleInv, running' = running, listener' = "none" <=> listener = "none",
           loop'.pc = "out" => loop.pc = "out", InStop' => InStop /\ loop'.at = loop.at,
           \/ asyncs' = asyncs \/ SameHandles(asyncs', asyncs)
           \/ \E kind \in {"script", "finish"}, c \in Clients : NewHandle(asyncs', asyncs, kind, c)
    PROVE  HandleInv'
<1>1. asyncs \in Seq(Handle)
  BY TypeFrame
<1>2. /\ PostFirst(asyncs) => PostFirst(asyncs')
      /\ OneStop(asyncs) => OneStop(asyncs')
      /\ NoStop(asyncs) => NoStop(asyncs')
      /\ \A k : StopAt(asyncs, k) => StopAt(asyncs', k)
  <2>1. CASE asyncs' = asyncs
    BY <2>1
  <2>2. CASE SameHandles(asyncs', asyncs)
    BY <1>1, <2>2, SameKeeps
  <2>3. ASSUME NEW kind \in {"script", "finish"}, NEW c \in Clients,
               NewHandle(asyncs', asyncs, kind, c)
        PROVE  /\ PostFirst(asyncs) => PostFirst(asyncs')
               /\ OneStop(asyncs) => OneStop(asyncs')
               /\ NoStop(asyncs) => NoStop(asyncs')
               /\ \A k : StopAt(asyncs, k) => StopAt(asyncs', k)
    <3>1. kind # "post" /\ kind # "stop"
      OBVIOUS
    <3> QED  BY <1>1, <2>3, <3>1, NewKeeps
  <2> QED  BY <2>1, <2>2, <2>3
<1>3. InStop => StopAt(asyncs, loop.at)
  BY DEF HandleInv
<1>4. InStop' => StopAt(asyncs', loop'.at)
  BY <1>2, <1>3
<1> QED  BY <1>2, <1>4 DEF HandleInv

\* Handle i, of a client, is closed in a pass.
LEMMA HandleClosed ==
    ASSUME TypeOK, HandleInv, UNCHANGED <<running, listener>>, NEW i \in DOMAIN asyncs,
           asyncs[i].kind \in {"script", "finish"}, asyncs' = RemoveAt(asyncs, i), loop'.pc = "pass"
    PROVE  HandleInv'
<1>1. asyncs \in Seq(Handle) /\ i \in 1..Len(asyncs)
  BY TypeFrame
<1>2. LessHandle(asyncs', asyncs, i)
  BY <1>1, RemovedHandle
<1>3. /\ PostFirst(asyncs) => PostFirst(asyncs')
      /\ OneStop(asyncs) => OneStop(asyncs')
      /\ NoStop(asyncs) => NoStop(asyncs')
  <2>1. asyncs[i].kind # "post"
    OBVIOUS
  <2> QED  BY <1>1, <1>2, <2>1, LessKeeps
<1>4. ~InStop'
  BY DEF InStop
<1> QED  BY <1>3, <1>4 DEF HandleInv

LEMMA HandleDestroy ==
    ASSUME TypeOK, HandleInv, NEW c \in Clients, NEW ret \in {"poll", "posts", "stop"},
           UNCHANGED <<running, listener, asyncs>>, DestroyClient(c, ret), ret = "stop" => loop.pc = "stop"
    PROVE  HandleInv'
<1>1. loop \in Loop
  BY TypeFrame DEF LoopOK
<1>2. \/ loop' = [loop EXCEPT !.pc = "join", !.client = c, !.ret = ret]
      \/ loop' = [loop EXCEPT !.pc = ret]
  BY DEF DestroyClient
<1>3. loop'.pc # "out" /\ loop'.at = loop.at /\ (InStop' => ret = "stop")
  BY <1>1, <1>2 DEF Loop, InStop
<1> QED  BY <1>3, HandleFrame DEF InStop

LEMMA HandleStep ==
    ASSUME TypeOK, HandleInv, [Next]_vars
    PROVE  HandleInv'
<1> USE DEF work, hist
<1>0. /\ loop \in Loop
      /\ loop.pc = "join" <=> loop.client # NoClient
      /\ asyncs \in Seq(Handle) /\ DOMAIN asyncs = 1..Len(asyncs) /\ Len(asyncs) \in Nat
  BY TypeFrame DEF LoopOK
<1>1. CASE UNCHANGED vars
  BY <1>1 DEF vars, HandleInv, InStop
<1>2. CASE Run
  <2>1. asyncs' = <<Async("post", NoClient)>> /\ loop'.pc = "poll" /\ listener' = "open" /\ ~InStop'
    BY <1>0, <1>2 DEF Run, Loop, InStop
  <2>2. Len(asyncs') = 1 /\ asyncs'[1].kind = "post" /\ \A i \in 1..Len(asyncs') : i = 1
    BY <2>1 DEF Async
  <2> QED  BY <2>1, <2>2 DEF HandleInv, PostFirst, NoStop, OneStop
<1>3. CASE RunFails
  <2>1. /\ asyncs' \in {<<Async("post", NoClient)>>, <<>>} /\ loop' = loop /\ listener' = "none"
        /\ ~running' /\ ~InStop'
    BY <1>3 DEF RunFails, HandleInv, InStop
  <2>2. \A i \in 1..Len(asyncs') : i = 1 /\ asyncs'[i].kind = "post"
    <3>1. CASE asyncs' = <<>>
      BY <3>1
    <3>2. CASE asyncs' = <<Async("post", NoClient)>>
      BY <3>2 DEF Async
    <3> QED  BY <2>1, <3>1, <3>2
  <2> QED  BY <2>1, <2>2 DEF HandleInv, NoStop, OneStop
<1>4. CASE RunAgain
  BY <1>4 DEF RunAgain, HandleInv, InStop
<1>5. CASE Stop
  <2>1. NewHandle(asyncs', asyncs, "stop", NoClient)
    BY <1>0, <1>5, InitializedHandle DEF Stop
  <2>2. NoStop(asyncs) /\ OneStop(asyncs) /\ PostFirst(asyncs) /\ listener # "none" /\ loop.pc # "out"
        /\ ~InStop
    BY <1>5 DEF Stop, HandleInv, NoStop, StopAt
  <2>3. PostFirst(asyncs') /\ OneStop(asyncs')
    BY <1>0, <2>1, <2>2, NewKeeps
  <2>4. ~running' /\ listener' = listener /\ loop' = loop
    BY <1>5 DEF Stop
  <2> QED  BY <2>2, <2>3, <2>4 DEF HandleInv, InStop
<1>6. CASE Rebind
  <2>1. SameHandles(asyncs', asyncs)
    BY <1>0, <1>6, SignaledHandles DEF Rebind, ServerPost
  <2> QED  BY <1>6, <2>1, HandleFrame DEF Rebind, InStop
<1>7. CASE PassBegin
  BY <1>0, <1>7, HandleFrame DEF PassBegin, InStop, Loop
<1>8. CASE PassEnd
  BY <1>0, <1>8, HandleFrame DEF PassEnd, InStop, Loop
<1>9. ASSUME NEW i \in DOMAIN asyncs, PassPost(i)
      PROVE  HandleInv'
  <2>1. SameHandles(asyncs', asyncs)
    BY <1>0, <1>9, FlaggedHandle DEF PassPost
  <2>2. loop'.pc = "posts"
    BY <1>0, <1>9 DEF PassPost, Loop
  <2> QED  BY <1>9, <2>1, <2>2, HandleFrame DEF PassPost, InStop
<1>10. ASSUME NEW i \in DOMAIN asyncs, PassScript(i)
       PROVE  HandleInv'
  <2>1. loop'.pc = "pass" /\ asyncs[i].kind = "script"
    BY <1>0, <1>10 DEF PassScript, Visit, Loop
  <2> QED  BY <1>10, <2>1, HandleClosed DEF PassScript
<1>11. ASSUME NEW i \in DOMAIN asyncs, PassFinish(i)
       PROVE  HandleInv'
  <2>1. loop'.pc = "pass" /\ asyncs[i].kind = "finish"
    BY <1>0, <1>11 DEF PassFinish, Visit, Loop
  <2> QED  BY <1>11, <2>1, HandleClosed DEF PassFinish
<1>12. ASSUME NEW i \in DOMAIN asyncs, PassStop(i)
       PROVE  HandleInv'
  <2>1. SameHandles(asyncs', asyncs)
    BY <1>0, <1>12, FlaggedHandle DEF PassStop
  <2>2. StopAt(asyncs, i)
    BY <1>0, <1>12 DEF PassStop, Visit, StopAt
  <2>3. PostFirst(asyncs) => PostFirst(asyncs')
    BY <1>0, <2>1, SameKeeps
  <2>4. OneStop(asyncs') /\ StopAt(asyncs', i) /\ (NoStop(asyncs) => NoStop(asyncs'))
    BY <1>0, <2>1, <2>2, SameKeeps DEF HandleInv
  <2>5. i \in Nat /\ loop' = [loop EXCEPT !.pc = "stop", !.at = i]
    BY <1>0, <1>12 DEF PassStop
  <2>6. loop'.pc = "stop" /\ loop'.at = i
    BY <1>0, <2>5 DEF Loop
  <2>7. UNCHANGED <<running, listener>>
    BY <1>12 DEF PassStop
  <2> QED  BY <2>3, <2>4, <2>6, <2>7 DEF HandleInv, InStop
<1>13. CASE PostsEnd
  BY <1>0, <1>13, HandleFrame DEF PostsEnd, InStop, Loop
<1>14. CASE PostSend
  BY <1>14, HandleFrame DEF PostSend, InStop
<1>15. CASE PostFail
  <2>1. Head(posts).client \in Clients
    BY <1>15, PostsTail, TypeFrame DEF PostFail, Work
  <2> QED  BY <1>15, <2>1, HandleDestroy DEF PostFail
<1>16. CASE PostRebind
  <2>1. listener' = "none" <=> listener = "none"
    BY <1>16 DEF PostRebind
  <2> QED  BY <1>16, <2>1, HandleFrame DEF PostRebind, InStop
<1>17. ASSUME NEW c \in Clients, StopClient(c)
       PROVE  HandleInv'
  BY <1>17, HandleDestroy DEF StopClient
<1>18. CASE StopServer
  <2>1. StopAt(asyncs, loop.at)
    BY <1>18, StopServerHandles
  <2>2. NoStop(asyncs')
    <3>1. PICK rest \in Seq(Handle) :
            /\ LessHandle(rest, asyncs, loop.at)
            /\ \E k \in 1..Len(rest) : LessHandle(asyncs', rest, k)
      BY <1>18, StopServerHandles
    <3>2. NoStop(rest)
      BY <1>0, <2>1, <3>1, LessKeeps DEF StopAt, HandleInv
    <3> QED  BY <3>1, <3>2, LessKeeps
  <2>3. listener' = "none" /\ running' = running /\ ~running
    BY <1>18, <2>1 DEF StopServer, HandleInv, StopAt, NoStop
  <2>4. ~InStop'
    BY <1>0, <1>18 DEF StopServer, InStop, Loop
  <2> QED  BY <2>2, <2>3, <2>4 DEF HandleInv, OneStop, NoStop
<1>19. CASE FinishDestroy
  <2>1. loop.client \in Clients
    <3>1. loop.pc = "join"
      BY <1>19 DEF FinishDestroy
    <3> QED  BY <1>0, <3>1 DEF Loop
  <2>2. NewHandle(asyncs', asyncs, "finish", loop.client)
    BY <1>0, <1>19, <2>1, InitializedHandle DEF FinishDestroy
  <2>3. /\ loop'.pc = loop.ret /\ loop'.at = loop.at
        /\ loop.pc = "join" /\ loop.ret # "join" /\ loop.ret # "out"
    <3>1. loop.pc = "join" /\ loop' = [loop EXCEPT !.pc = loop.ret, !.client = NoClient]
      BY <1>19 DEF FinishDestroy
    <3> QED  BY <1>0, <3>1 DEF Loop
  <2>4. InStop' => InStop /\ loop'.at = loop.at
    BY <2>3 DEF InStop
  <2> QED  BY <1>19, <2>1, <2>2, <2>3, <2>4, HandleFrame DEF FinishDestroy
<1>20. CASE Close
  BY <1>20, HandleFrame DEF Close, InStop
<1>21. CASE LoopEnds
  <2>1. loop'.pc = "out" /\ UNCHANGED <<running, listener, asyncs>> /\ listener = "none"
    BY <1>0, <1>21 DEF LoopEnds, Loop
  <2> QED  BY <2>1 DEF HandleInv, InStop
<1>22. ASSUME NEW c \in Clients, Accept(c)
       PROVE  HandleInv'
  BY <1>22, HandleFrame DEF Accept, InStop
<1>23. ASSUME NEW c \in Clients, Disconnect(c)
       PROVE  HandleInv'
  BY <1>23, HandleDestroy DEF Disconnect
<1>24. ASSUME NEW c \in Clients, NEW kind \in {"script", "message"}, Read(c, kind)
       PROVE  HandleInv'
  <2>1. asyncs' = asyncs \/ NewHandle(asyncs', asyncs, "script", c)
    BY <1>0, <1>24, InitializedHandle DEF Read
  <2> QED  BY <1>24, <2>1, HandleFrame DEF Read, InStop
<1>25. ASSUME NEW c \in Clients, NEW kind \in {"send", "fail"}, SessionPosts(c, kind)
       PROVE  HandleInv'
  <2>1. SameHandles(asyncs', asyncs)
    BY <1>0, <1>25, SignaledHandles DEF SessionPosts, ServerPost
  <2> QED  BY <1>25, <2>1, HandleFrame DEF SessionPosts, InStop
<1>26. ASSUME NEW c \in Clients, SessionFails(c)
       PROVE  HandleInv'
  <2>1. SameHandles(asyncs', asyncs)
    BY <1>0, <1>26, SignaledHandles DEF SessionFails, ServerPost
  <2> QED  BY <1>26, <2>1, HandleFrame DEF SessionFails, InStop
<1>27. ASSUME NEW c \in Clients, SessionWake(c)
       PROVE  HandleInv'
  BY <1>27, HandleFrame DEF SessionWake, InStop
<1>28. ASSUME NEW c \in Clients, SessionHandle(c)
       PROVE  HandleInv'
  <2>1. asyncs' = asyncs \/ \E i \in DOMAIN asyncs : asyncs' = [asyncs EXCEPT ![i].pending = 1]
    BY <1>28 DEF SessionHandle, RunHandler
  <2>2. asyncs' = asyncs \/ SameHandles(asyncs', asyncs)
    BY <1>0, <2>1, FlaggedHandle
  <2> QED  BY <1>28, <2>2, HandleFrame DEF SessionHandle, InStop
<1>29. ASSUME NEW c \in Clients, SessionStop(c)
       PROVE  HandleInv'
  BY <1>29, HandleFrame DEF SessionStop, InStop
<1>30. ASSUME NEW c \in Clients, SessionEnds(c)
       PROVE  HandleInv'
  BY <1>30, HandleFrame DEF SessionEnds, InStop
<1> QED
  BY <1>1, <1>2, <1>3, <1>4, <1>5, <1>6, <1>7, <1>8, <1>9, <1>10, <1>11, <1>12, <1>13, <1>14,
     <1>15, <1>16, <1>17, <1>18, <1>19, <1>20, <1>21, <1>22, <1>23, <1>24, <1>25, <1>26, <1>27,
     <1>28, <1>29, <1>30, Zenon
  DEF Next, LoopStep, PassStep, ClientNext, SessionStep

\* Every variable has its type, whatever the clients, the inputs and the runs.
THEOREM TypeCorrect == Spec => []TypeOK
<1>1. Init => TypeOK /\ HandleInv
  BY TypeInit
<1>2. TypeOK /\ HandleInv /\ [Next]_vars => (TypeOK /\ HandleInv)'
  BY TypeStep, HandleStep
<1> QED  BY <1>1, <1>2, PTL DEF Spec

-----------------------------------------------------------------------------
(***************************************************************************)
(* The destruction of a client                                             *)
(***************************************************************************)
FinishOf(s, i, c) == s[i].kind = "finish" /\ s[i].client = c
NoFinish(s, c)  == \A i \in 1..Len(s) : ~FinishOf(s, i, c)
OneFinish(s, c) == \A i, j \in 1..Len(s) : FinishOf(s, i, c) /\ FinishOf(s, j, c) => i = j

\* The rest of the destruction of c waits at most once, for a client whose session's thread was
\* joined and which the loop is not joining any more.
Destruction(c) ==
    /\ OneFinish(asyncs, c)
    /\ ~NoFinish(asyncs, c)
           => life[c] = "destroying" /\ session[c].pc = "done" /\ loop.client # c
    /\ loop.client = c => life[c] = "destroying"
    /\ life[c] \in {"closing", "freed"} => session[c].pc \in {"done", "none"}
    /\ life[c] = "new" => session[c].pc = "none"
    /\ life[c] \in {"open", "destroying"} => session[c].pc # "none"

\* Handles of another kind, or of other clients, come; any may go.
LEMMA FinishKeeps ==
    ASSUME NEW s \in Seq(Handle), NEW t, NEW c,
           \/ t = s \/ SameHandles(t, s)
           \/ \E kind, d : (kind # "finish" \/ d # c) /\ NewHandle(t, s, kind, d)
           \/ \E i \in 1..Len(s) : LessHandle(t, s, i)
    PROVE  /\ NoFinish(s, c) => NoFinish(t, c)
           /\ OneFinish(s, c) => OneFinish(t, c)
<1>0. Len(s) \in Nat
  BY HandleList
<1>1. CASE t = s
  BY <1>1
<1>2. CASE SameHandles(t, s)
  BY <1>2 DEF SameHandles, NoFinish, OneFinish, FinishOf
<1>3. ASSUME NEW kind, NEW d, kind # "finish" \/ d # c, NewHandle(t, s, kind, d)
      PROVE  /\ NoFinish(s, c) => NoFinish(t, c)
             /\ OneFinish(s, c) => OneFinish(t, c)
  <2>1. \A i \in 1..Len(t) : FinishOf(t, i, c) => i \in 1..Len(s) /\ FinishOf(s, i, c)
    BY <1>0, <1>3 DEF NewHandle, FinishOf
  <2> QED  BY <2>1 DEF NoFinish, OneFinish
<1>4. ASSUME NEW i \in 1..Len(s), LessHandle(t, s, i)
      PROVE  /\ NoFinish(s, c) => NoFinish(t, c)
             /\ OneFinish(s, c) => OneFinish(t, c)
  <2> DEFINE o(j) == IF j < i THEN j ELSE j + 1
  <2>1. ASSUME NEW j \in 1..Len(t)
        PROVE  o(j) \in 1..Len(s) /\ t[j] = s[o(j)]
    BY <1>0, <1>4 DEF LessHandle
  <2>2. ASSUME NEW j \in 1..Len(t), NEW k \in 1..Len(t), o(j) = o(k)
        PROVE  j = k
    <3>1. i \in Int /\ j \in Int /\ k \in Int
      BY <1>0, <1>4 DEF LessHandle
    <3> QED  BY <2>2, <3>1
  <2> HIDE DEF o
  <2> QED  BY <2>1, <2>2, SMTT(30) DEF NoFinish, OneFinish, FinishOf
<1> QED  BY <1>1, <1>2, <1>3, <1>4

LEMMA FinishComes ==
    ASSUME NEW s \in Seq(Handle), NEW t, NEW c, NewHandle(t, s, "finish", c), NoFinish(s, c)
    PROVE  OneFinish(t, c)
<1>1. \A i \in 1..Len(t) : FinishOf(t, i, c) => i = Len(s) + 1
  BY HandleList DEF NewHandle, FinishOf, NoFinish
<1> QED  BY <1>1 DEF OneFinish

LEMMA FinishGoes ==
    ASSUME NEW s \in Seq(Handle), NEW c, NEW i \in 1..Len(s), NEW t, LessHandle(t, s, i),
           FinishOf(s, i, c), OneFinish(s, c)
    PROVE  NoFinish(t, c)
<1>1. \A j \in 1..Len(t) : \E k \in 1..Len(s) : k # i /\ t[j] = s[k]
  <2> TAKE j \in 1..Len(t)
  <2>1. Len(s) \in Nat /\ i \in Nat /\ j \in Nat /\ Len(t) = Len(s) - 1
    BY HandleList DEF LessHandle
  <2>2. CASE j < i
    BY <2>1, <2>2 DEF LessHandle
  <2>3. CASE ~(j < i)
    <3>1. j \in i..(Len(s) - 1) /\ j + 1 \in 1..Len(s) /\ j + 1 # i
      BY <2>1, <2>3
    <3> QED  BY <3>1 DEF LessHandle
  <2> QED  BY <2>2, <2>3
<1> QED  BY <1>1 DEF NoFinish, OneFinish, FinishOf

\* Steps that leave the destruction of c alone.
LEMMA DestructionFrame ==
    ASSUME TypeOK, NEW c \in Clients, Destruction(c), life'[c] = life[c], loop'.client = c => loop.client = c,
           \/ session'[c].pc = session[c].pc
           \/ session[c].pc \notin {"none", "done"} /\ session'[c].pc # "none",
           \/ asyncs' = asyncs \/ SameHandles(asyncs', asyncs)
           \/ \E kind, d : (kind # "finish" \/ d # c) /\ NewHandle(asyncs', asyncs, kind, d)
           \/ \E i \in 1..Len(asyncs) : LessHandle(asyncs', asyncs, i)
    PROVE  Destruction(c)'
<1>1. /\ NoFinish(asyncs, c) => NoFinish(asyncs', c)
      /\ OneFinish(asyncs, c) => OneFinish(asyncs', c)
  BY TypeFrame, FinishKeeps
<1> QED  BY <1>1 DEF Destruction

LEMMA DestroyDestruction ==
    ASSUME TypeOK, NEW c \in Clients, NEW d \in Clients, NEW ret \in {"poll", "posts", "stop"},
           Destruction(c), DestroyClient(d, ret), UNCHANGED asyncs
    PROVE  Destruction(c)'
<1>0. LifeOK /\ SessionOK /\ loop \in Loop
  BY TypeFrame DEF LoopOK
<1>1. CASE UNCHANGED <<life, session>> /\ loop' = [loop EXCEPT !.pc = ret]
  <2>1. loop'.client = loop.client
    BY <1>0, <1>1 DEF Loop
  <2> QED  BY <1>1, <2>1, DestructionFrame
<1>2. CASE /\ life[d] = "open"
           /\ life' = [life EXCEPT ![d] = "destroying"]
           /\ session' = [session EXCEPT ![d].stop = 1]
           /\ loop' = [loop EXCEPT !.pc = "join", !.client = d, !.ret = ret]
  <2>1. loop'.client = d /\ session'[c].pc = session[c].pc
        /\ life'[c] = (IF c = d THEN "destroying" ELSE life[c])
    BY <1>0, <1>2 DEF LifeOK, SessionOK, Session, Loop
  <2>2. CASE c = d
    BY <1>2, <2>1, <2>2 DEF Destruction
  <2>3. CASE c # d
    BY <2>1, <2>3, DestructionFrame
  <2> QED  BY <2>2, <2>3
<1> QED  BY <1>1, <1>2 DEF DestroyClient

LEMMA DestructionStep ==
    ASSUME TypeOK, HandleInv, [Next]_vars, NEW c \in Clients, Destruction(c)
    PROVE  Destruction(c)'
<1> USE DEF work, hist
<1>0. /\ LifeOK /\ SessionOK /\ loop \in Loop
      /\ loop.pc = "join" <=> loop.client # NoClient
      /\ asyncs \in Seq(Handle) /\ DOMAIN asyncs = 1..Len(asyncs) /\ Len(asyncs) \in Nat
      /\ c # NoClient
  BY TypeFrame, ClientsAssumption DEF LoopOK
<1>n. ASSUME asyncs' \in {<<Async("post", NoClient)>>, <<>>}
      PROVE  NoFinish(asyncs', c) /\ OneFinish(asyncs', c)
  <2>1. \A i \in 1..Len(asyncs') : asyncs'[i].kind # "finish"
    <3>1. CASE asyncs' = <<>>
      BY <3>1
    <3>2. CASE asyncs' = <<Async("post", NoClient)>>
      BY <3>2 DEF Async
    <3> QED  BY <1>n, <3>1, <3>2
  <2> QED  BY <2>1 DEF NoFinish, OneFinish, FinishOf
<1>1. CASE UNCHANGED vars
  BY <1>1, DestructionFrame DEF vars
<1>2. CASE Run
  <2>1. loop'.client = loop.client /\ UNCHANGED <<life, session>> /\ asyncs' = <<Async("post", NoClient)>>
    BY <1>0, <1>2 DEF Run, Loop
  <2> QED  BY <1>n, <2>1 DEF Destruction
<1>3. CASE RunFails
  <2>1. UNCHANGED <<loop, life, session>> /\ asyncs' \in {<<Async("post", NoClient)>>, <<>>}
    BY <1>3 DEF RunFails
  <2> QED  BY <1>n, <2>1 DEF Destruction
<1>4. CASE RunAgain
  BY <1>4, DestructionFrame DEF RunAgain
<1>5. CASE Stop
  <2>1. NewHandle(asyncs', asyncs, "stop", NoClient)
    BY <1>0, <1>5, InitializedHandle DEF Stop
  <2>2. UNCHANGED <<life, session, loop>> /\ "stop" # "finish"
    BY <1>5 DEF Stop
  <2> QED  BY <2>1, <2>2, DestructionFrame
<1>6. CASE Rebind
  <2>1. SameHandles(asyncs', asyncs)
    BY <1>0, <1>6, SignaledHandles DEF Rebind, ServerPost
  <2> QED  BY <1>6, <2>1, DestructionFrame DEF Rebind
<1>7. CASE PassBegin
  <2>1. loop'.client = loop.client
    BY <1>0, <1>7 DEF PassBegin, Loop
  <2> QED  BY <1>7, <2>1, DestructionFrame DEF PassBegin
<1>8. CASE PassEnd
  <2>1. loop'.client = loop.client
    BY <1>0, <1>8 DEF PassEnd, Loop
  <2> QED  BY <1>8, <2>1, DestructionFrame DEF PassEnd
<1>9. ASSUME NEW i \in DOMAIN asyncs, PassPost(i)
      PROVE  Destruction(c)'
  <2>1. SameHandles(asyncs', asyncs)
    BY <1>0, <1>9, FlaggedHandle DEF PassPost
  <2>2. loop'.client = loop.client
    BY <1>0, <1>9 DEF PassPost, Loop
  <2> QED  BY <1>9, <2>1, <2>2, DestructionFrame DEF PassPost
<1>10. ASSUME NEW i \in DOMAIN asyncs, PassScript(i)
       PROVE  Destruction(c)'
  <2>1. LessHandle(asyncs', asyncs, i)
    BY <1>0, <1>10, RemovedHandle DEF PassScript
  <2>2. loop'.client = loop.client
    BY <1>0, <1>10 DEF PassScript, Loop
  <2> QED  BY <1>0, <1>10, <2>1, <2>2, DestructionFrame DEF PassScript
<1>11. ASSUME NEW i \in DOMAIN asyncs, PassFinish(i)
       PROVE  Destruction(c)'
  <2>1. LessHandle(asyncs', asyncs, i)
    BY <1>0, <1>11, RemovedHandle DEF PassFinish
  <2>2. loop'.client = loop.client /\ UNCHANGED session /\ asyncs[i].kind = "finish"
        /\ life' = [life EXCEPT ![asyncs[i].client] = "closing"]
    BY <1>0, <1>11 DEF PassFinish, Visit, Loop
  <2>3. CASE c = asyncs[i].client
    <3>1. FinishOf(asyncs, i, c) /\ i \in 1..Len(asyncs)
      BY <1>0, <2>2, <2>3 DEF FinishOf
    <3>2. NoFinish(asyncs', c)
      BY <1>0, <2>1, <3>1, FinishGoes DEF Destruction
    <3>3. life[c] = "destroying" /\ session[c].pc = "done" /\ loop.client # c
      BY <3>1 DEF Destruction, NoFinish
    <3>4. life'[c] = "closing"
      BY <1>0, <2>2, <2>3 DEF LifeOK
    <3> QED  BY <2>2, <3>2, <3>3, <3>4 DEF Destruction, NoFinish, OneFinish
  <2>4. CASE c # asyncs[i].client
    <3>1. life'[c] = life[c]
      BY <1>0, <2>2, <2>4 DEF LifeOK
    <3> QED  BY <1>0, <2>1, <2>2, <3>1, DestructionFrame
  <2> QED  BY <2>3, <2>4
<1>12. ASSUME NEW i \in DOMAIN asyncs, PassStop(i)
       PROVE  Destruction(c)'
  <2>1. SameHandles(asyncs', asyncs)
    BY <1>0, <1>12, FlaggedHandle DEF PassStop
  <2>2. loop'.client = loop.client
    BY <1>0, <1>12 DEF PassStop, Loop
  <2> QED  BY <1>12, <2>1, <2>2, DestructionFrame DEF PassStop
<1>13. CASE PostsEnd
  <2>1. loop'.client = loop.client
    BY <1>0, <1>13 DEF PostsEnd, Loop
  <2> QED  BY <1>13, <2>1, DestructionFrame DEF PostsEnd
<1>14. CASE PostSend
  BY <1>14, DestructionFrame DEF PostSend
<1>15. CASE PostFail
  <2>1. Head(posts).client \in Clients
    BY <1>15, PostsTail, TypeFrame DEF PostFail, Work
  <2> QED  BY <1>15, <2>1, DestroyDestruction DEF PostFail
<1>16. CASE PostRebind
  BY <1>16, DestructionFrame DEF PostRebind
<1>17. ASSUME NEW d \in Clients, StopClient(d)
       PROVE  Destruction(c)'
  BY <1>17, DestroyDestruction DEF StopClient
<1>18. CASE StopServer
  <2>1. UNCHANGED <<life, session>> /\ loop'.client = loop.client
    BY <1>0, <1>18 DEF StopServer, Loop
  <2>2. PICK rest \in Seq(Handle) :
          /\ LessHandle(rest, asyncs, loop.at)
          /\ \E k \in 1..Len(rest) : LessHandle(asyncs', rest, k)
    BY <1>18, StopServerHandles
  <2>3. loop.at \in 1..Len(asyncs)
    BY <1>18, StopServerHandles DEF StopAt
  <2>4. /\ NoFinish(asyncs, c) => NoFinish(rest, c)
        /\ OneFinish(asyncs, c) => OneFinish(rest, c)
    BY <1>0, <2>2, <2>3, FinishKeeps
  <2>5. /\ NoFinish(rest, c) => NoFinish(asyncs', c)
        /\ OneFinish(rest, c) => OneFinish(asyncs', c)
    BY <2>2, FinishKeeps
  <2> QED  BY <2>1, <2>4, <2>5 DEF Destruction
<1>19. CASE FinishDestroy
  <2>1. /\ loop.pc = "join" /\ session[loop.client].pc = "done" /\ UNCHANGED <<life, session>>
        /\ loop' = [loop EXCEPT !.pc = loop.ret, !.client = NoClient]
        /\ asyncs' = Initialized("finish", loop.client)
    BY <1>19 DEF FinishDestroy
  <2>2. loop.client \in Clients
    BY <1>0, <2>1 DEF Loop
  <2>3. NewHandle(asyncs', asyncs, "finish", loop.client)
    BY <1>0, <2>1, <2>2, InitializedHandle
  <2>4. loop'.client = NoClient
    BY <1>0, <2>1 DEF Loop
  <2>5. CASE c = loop.client
    <3>1. NoFinish(asyncs, c) /\ life[c] = "destroying"
      BY <2>5 DEF Destruction
    <3>2. OneFinish(asyncs', c)
      BY <1>0, <2>3, <2>5, <3>1, FinishComes
    <3> QED  BY <1>0, <2>1, <2>4, <2>5, <3>1, <3>2 DEF Destruction
  <2>6. CASE c # loop.client
    BY <1>0, <2>1, <2>3, <2>4, <2>6, DestructionFrame
  <2> QED  BY <2>5, <2>6
<1>20. CASE Close
  <2>1. life'[c] = IF life[c] = "closing" THEN "freed" ELSE life[c]
    BY <1>20 DEF Close
  <2>2. UNCHANGED <<session, asyncs, loop>>
    BY <1>20 DEF Close
  <2> QED  BY <2>1, <2>2 DEF Destruction
<1>21. CASE LoopEnds
  <2>1. loop'.client = loop.client
    BY <1>0, <1>21 DEF LoopEnds, Loop
  <2> QED  BY <1>21, <2>1, DestructionFrame DEF LoopEnds
<1>22. ASSUME NEW d \in Clients, Accept(d)
       PROVE  Destruction(c)'
  <2>1. UNCHANGED <<asyncs, loop>> /\ life[d] = "new"
    BY <1>22 DEF Accept
  <2>2. \/ life'[c] = life[c] /\ session'[c].pc = session[c].pc
        \/ c = d /\ life'[c] = "open" /\ session'[c].pc = "idle"
        \/ c = d /\ life'[c] = "freed" /\ session'[c].pc = session[c].pc
    BY <1>0, <1>22 DEF Accept, LifeOK, SessionOK, Session
  <2> QED  BY <2>1, <2>2 DEF Destruction
<1>23. ASSUME NEW d \in Clients, Disconnect(d)
       PROVE  Destruction(c)'
  BY <1>23, DestroyDestruction DEF Disconnect
<1>24. ASSUME NEW d \in Clients, NEW kind \in {"script", "message"}, Read(d, kind)
       PROVE  Destruction(c)'
  <2>1. asyncs' = asyncs \/ NewHandle(asyncs', asyncs, "script", d)
    BY <1>0, <1>24, InitializedHandle DEF Read
  <2>2. session'[c].pc = session[c].pc /\ UNCHANGED <<life, loop>> /\ "script" # "finish"
    BY <1>0, <1>24 DEF Read, SessionPost, SessionOK, Session
  <2> QED  BY <2>1, <2>2, DestructionFrame
<1>25. ASSUME NEW d \in Clients, NEW kind \in {"send", "fail"}, SessionPosts(d, kind)
       PROVE  Destruction(c)'
  <2>1. SameHandles(asyncs', asyncs)
    BY <1>0, <1>25, SignaledHandles DEF SessionPosts, ServerPost
  <2> QED  BY <1>25, <2>1, DestructionFrame DEF SessionPosts
<1>26. ASSUME NEW d \in Clients, SessionFails(d)
       PROVE  Destruction(c)'
  <2>1. SameHandles(asyncs', asyncs)
    BY <1>0, <1>26, SignaledHandles DEF SessionFails, ServerPost
  <2>2. \/ session'[c].pc = session[c].pc
        \/ session[c].pc = "idle" /\ session'[c].pc = "shutdown"
    BY <1>0, <1>26 DEF SessionFails, SessionOK, Session
  <2> QED  BY <1>26, <2>1, <2>2, DestructionFrame DEF SessionFails
<1>27. ASSUME NEW d \in Clients, SessionWake(d)
       PROVE  Destruction(c)'
  <2>1. \/ session'[c].pc = session[c].pc
        \/ session[c].pc = "idle" /\ session'[c].pc = "drain"
    BY <1>0, <1>27 DEF SessionWake, SessionOK, Session
  <2> QED  BY <1>27, <2>1, DestructionFrame DEF SessionWake
<1>28. ASSUME NEW d \in Clients, SessionHandle(d)
       PROVE  Destruction(c)'
  <2>1. asyncs' = asyncs \/ \E i \in DOMAIN asyncs : asyncs' = [asyncs EXCEPT ![i].pending = 1]
    BY <1>28 DEF SessionHandle, RunHandler
  <2>2. asyncs' = asyncs \/ SameHandles(asyncs', asyncs)
    BY <1>0, <2>1, FlaggedHandle
  <2>3. \/ session'[c].pc = session[c].pc
        \/ session[c].pc = "drain" /\ session'[c].pc = "idle"
    BY <1>0, <1>28 DEF SessionHandle, SessionOK, Session
  <2> QED  BY <1>28, <2>2, <2>3, DestructionFrame DEF SessionHandle
<1>29. ASSUME NEW d \in Clients, SessionStop(d)
       PROVE  Destruction(c)'
  <2>1. \/ session'[c].pc = session[c].pc
        \/ session[c].pc = "idle" /\ session'[c].pc = "shutdown"
    BY <1>0, <1>29 DEF SessionStop, SessionOK, Session
  <2> QED  BY <1>29, <2>1, DestructionFrame DEF SessionStop
<1>30. ASSUME NEW d \in Clients, SessionEnds(d)
       PROVE  Destruction(c)'
  <2>1. \/ session'[c].pc = session[c].pc
        \/ session[c].pc = "shutdown" /\ session'[c].pc = "done"
    BY <1>0, <1>30 DEF SessionEnds, SessionOK, Session
  <2> QED  BY <1>30, <2>1, DestructionFrame DEF SessionEnds
<1> QED
  BY <1>1, <1>2, <1>3, <1>4, <1>5, <1>6, <1>7, <1>8, <1>9, <1>10, <1>11, <1>12, <1>13, <1>14,
     <1>15, <1>16, <1>17, <1>18, <1>19, <1>20, <1>21, <1>22, <1>23, <1>24, <1>25, <1>26, <1>27,
     <1>28, <1>29, <1>30, Zenon
  DEF Next, LoopStep, PassStep, ClientNext, SessionStep

LEMMA DestructionInit == Init => \A c \in Clients : Destruction(c)
<1> SUFFICES ASSUME Init, NEW c \in Clients
             PROVE  Destruction(c)
  OBVIOUS
<1>1. NoFinish(asyncs, c) /\ OneFinish(asyncs, c)
  BY DEF Init, NoFinish, OneFinish
<1>2. life[c] = "new" /\ session[c].pc = "none" /\ loop.client = NoClient /\ c # NoClient
  BY ClientsAssumption DEF Init, NoSession
<1> QED  BY <1>1, <1>2 DEF Destruction

\* A client's socket is closed once, and what its session's thread uses outlives the thread.
LEMMA DestructionInvariant == Spec => [](TypeOK /\ HandleInv /\ \A c \in Clients : Destruction(c))
<1> DEFINE Inv == TypeOK /\ HandleInv /\ \A c \in Clients : Destruction(c)
<1>1. Init => Inv
  BY TypeInit, DestructionInit
<1>2. Inv /\ [Next]_vars => Inv'
  BY TypeStep, HandleStep, DestructionStep
<1> HIDE DEF Inv
<1>3. Spec => []Inv
  BY <1>1, <1>2, PTL DEF Spec
<1> QED  BY <1>3 DEF Inv

\* Whoever finds a reason to destroy a client, its socket is closed once.
THEOREM DestructionHappensOnce == Spec => []DestroyedOnce
<1>1. TypeOK /\ (\A c \in Clients : Destruction(c)) => DestroyedOnce
  <2> SUFFICES ASSUME TypeOK, \A c \in Clients : Destruction(c), NEW c \in Clients,
                      NEW i \in Finishing(c)
               PROVE  life[c] = "destroying" /\ \A j \in Finishing(c) : i = j
    BY DEF DestroyedOnce
  <2>1. \A j \in Finishing(c) : j \in 1..Len(asyncs) /\ FinishOf(asyncs, j, c)
    BY TypeFrame DEF Finishing, FinishOf
  <2> QED  BY <2>1 DEF Destruction, OneFinish, NoFinish
<1> QED  BY <1>1, DestructionInvariant, PTL

\* A session's thread ends before its client is given up.
THEOREM ThreadEndsFirst == Spec => []NoThreadOutlivesItsClient
<1>1. TypeOK /\ (\A c \in Clients : Destruction(c)) => NoThreadOutlivesItsClient
  <2> SUFFICES ASSUME TypeOK, \A c \in Clients : Destruction(c), NEW c \in Clients
               PROVE  /\ (Finishing(c) # {} \/ life[c] \in {"closing", "freed"})
                             => session[c].pc \in {"done", "none"}
                      /\ life[c] = "open" => session[c].pc # "none"
    BY DEF NoThreadOutlivesItsClient
  <2>1. Finishing(c) # {} => ~NoFinish(asyncs, c)
    BY TypeFrame DEF Finishing, FinishOf, NoFinish
  <2> QED  BY <2>1 DEF Destruction
<1> QED  BY <1>1, DestructionInvariant, PTL

-----------------------------------------------------------------------------
(***************************************************************************)
(* The rest of a client's destruction comes after its posts and answers,   *)
(* as long as the server was not stopped                                   *)
(***************************************************************************)

\* cb_post drains the queue, perhaps while it waits for a session's thread ...
Draining == loop.pc = "posts" \/ (loop.pc = "join" /\ loop.ret = "posts")
\* ... or will, before the loop comes to any other handle.
Soon == Draining \/ (loop.at = 0 /\ asyncs[1].pending = 1)

\* the first run of the device, until server_stop
Up == listener # "none" /\ ~InStop /\ runs <= 1

FirstRun ==
    runs = 0 => /\ loop.pc = "out" /\ loop.at = 0 /\ posts = <<>> /\ listener = "none"
                /\ \A c \in Clients : life[c] = "new"

\* Outside a pass the loop is at no handle, while it drains the queue it is at async_post, and
\* async_post is signaled when the queue is not empty.
LoopAt ==
    /\ Polling \/ (loop.pc = "join" /\ loop.ret = "poll") => loop.at = 0
    /\ Draining => loop.at = 1
    /\ posts # <<>> => Draining \/ asyncs[1].pending = 1

\* A client that has posts is not given up before them.
HasPost(c) == \E i \in 1..Len(posts) : posts[i].client = c
PostsOrdered(c) ==
    /\ HasPost(c) => life[c] \in {"open", "destroying"}
    /\ HasPost(c) /\ ~NoFinish(asyncs, c) => Soon

\* The answer of a script comes before the rest of the destruction of its client.
ScriptOf(s, j, c) == s[j].kind = "script" /\ s[j].client = c
ScriptsOrdered(c) ==
    \A j \in 1..Len(asyncs) : ScriptOf(asyncs, j, c) =>
        /\ life[c] # "new"
        /\ asyncs[j].pending = 1 =>
              /\ life[c] \notin {"closing", "freed"}
              /\ \A k \in 1..Len(asyncs) : FinishOf(asyncs, k, c) => loop.at < j /\ j < k

Order == LoopAt /\ \A c \in Clients : PostsOrdered(c) /\ ScriptsOrdered(c)

\* what the lives of clients do but for the rest of a destruction
LifeGoesOn(c) ==
    \/ life'[c] = life[c] \/ life[c] = "new" \/ life'[c] = "destroying"
    \/ life[c] = "closing" /\ life'[c] = "freed"

LEMMA PostsFrame ==
    ASSUME NEW c \in Clients, PostsOrdered(c), HasPost(c)' => HasPost(c), LifeGoesOn(c),
           NoFinish(asyncs, c) => NoFinish(asyncs', c), HasPost(c)' /\ Soon => Soon'
    PROVE  PostsOrdered(c)'
BY DEF PostsOrdered, LifeGoesOn

LEMMA ScriptsFrame ==
    ASSUME TypeOK, PostFirst(asyncs), NEW c \in Clients, ScriptsOrdered(c), LifeGoesOn(c),
           asyncs' = asyncs \/ SameHandles(asyncs', asyncs),
           \A j \in 1..Len(asyncs) : ScriptOf(asyncs, j, c) => asyncs'[j].pending = asyncs[j].pending,
           loop'.at \in {loop.at, 0, 1}
    PROVE  ScriptsOrdered(c)'
<1>1. /\ Len(asyncs') = Len(asyncs) /\ Len(asyncs) \in Nat /\ loop.at \in Nat
      /\ \A j \in 1..Len(asyncs) : /\ ScriptOf(asyncs', j, c) <=> ScriptOf(asyncs, j, c)
                                   /\ FinishOf(asyncs', j, c) <=> FinishOf(asyncs, j, c)
  BY TypeFrame DEF SameHandles, ScriptOf, FinishOf, LoopOK, Loop
<1> SUFFICES ASSUME NEW j \in 1..Len(asyncs), ScriptOf(asyncs, j, c)
             PROVE  /\ life'[c] # "new"
                    /\ asyncs'[j].pending = 1 =>
                          /\ life'[c] \notin {"closing", "freed"}
                          /\ \A k \in 1..Len(asyncs) :
                                FinishOf(asyncs, k, c) => loop'.at < j /\ j < k
  BY <1>1 DEF ScriptsOrdered
<1>2. life[c] # "new" /\ life'[c] # "new"
  BY DEF ScriptsOrdered, LifeGoesOn
<1>3. ASSUME asyncs'[j].pending = 1
      PROVE  /\ life'[c] \notin {"closing", "freed"}
             /\ \A k \in 1..Len(asyncs) : FinishOf(asyncs, k, c) => loop'.at < j /\ j < k
  <2>1. asyncs[j].pending = 1 /\ j # 1
    BY <1>3 DEF PostFirst, ScriptOf
  <2>2. life'[c] \notin {"closing", "freed"}
    BY <1>2, <2>1 DEF ScriptsOrdered, LifeGoesOn
  <2>3. ASSUME NEW k \in 1..Len(asyncs), FinishOf(asyncs, k, c)
        PROVE  loop'.at < j /\ j < k
    <3>1. loop.at < j /\ j < k
      BY <2>1, <2>3 DEF ScriptsOrdered
    <3> QED  BY <1>1, <2>1, <3>1
  <2> QED  BY <2>2, <2>3
<1> QED  BY <1>2, <1>3

\* A handle comes: one of a script not pending, that of the destruction of c only while no pass
\* has come beyond async_post.
LEMMA ScriptsNew ==
    ASSUME TypeOK, PostFirst(asyncs), NEW c \in Clients, ScriptsOrdered(c), life'[c] = life[c],
           loop'.at = loop.at, NEW kind, NEW d, NewHandle(asyncs', asyncs, kind, d),
           kind = "script" => asyncs'[Len(asyncs) + 1].pending = 0,
           kind = "script" /\ d = c => life[c] # "new",
           kind = "finish" /\ d = c => loop.at \in {0, 1}
    PROVE  ScriptsOrdered(c)'
<1> DEFINE n == Len(asyncs)
<1>1. /\ n \in Nat /\ Len(asyncs') = n + 1 /\ loop.at \in Nat
      /\ \A j \in 1..n : asyncs'[j] = asyncs[j]
      /\ asyncs'[n + 1].kind = kind /\ asyncs'[n + 1].client = d
      /\ \A j \in 1..(n + 1) : j \in 1..n \/ j = n + 1
  BY TypeFrame DEF NewHandle, LoopOK, Loop
<1> SUFFICES ASSUME NEW j \in 1..(n + 1), ScriptOf(asyncs', j, c)
             PROVE  /\ life[c] # "new"
                    /\ asyncs'[j].pending = 1 =>
                          /\ life[c] \notin {"closing", "freed"}
                          /\ \A k \in 1..(n + 1) :
                                FinishOf(asyncs', k, c) => loop.at < j /\ j < k
  BY <1>1 DEF ScriptsOrdered
<1>2. CASE j = n + 1
  <2>1. kind = "script" /\ d = c
    BY <1>1, <1>2 DEF ScriptOf
  <2> QED  BY <1>2, <2>1
<1>3. CASE j \in 1..n
  <2>1. ScriptOf(asyncs, j, c) /\ asyncs'[j].pending = asyncs[j].pending
    BY <1>1, <1>3 DEF ScriptOf
  <2>2. life[c] # "new" /\ (asyncs[j].pending = 1 => life[c] \notin {"closing", "freed"})
    BY <1>3, <2>1 DEF ScriptsOrdered
  <2>3. ASSUME asyncs[j].pending = 1, NEW k \in 1..(n + 1), FinishOf(asyncs', k, c)
        PROVE  loop.at < j /\ j < k
    <3>1. CASE k \in 1..n
      <4>1. FinishOf(asyncs, k, c)
        BY <1>1, <2>3, <3>1 DEF FinishOf
      <4> QED  BY <1>3, <2>1, <2>3, <3>1, <4>1 DEF ScriptsOrdered
    <3>2. CASE k = n + 1
      <4>1. loop.at \in {0, 1}
        BY <1>1, <2>3, <3>2 DEF FinishOf
      <4>2. j # 1
        BY <2>1 DEF PostFirst, ScriptOf
      <4> QED  BY <1>1, <1>3, <3>2, <4>1, <4>2
    <3> QED  BY <1>1, <3>1, <3>2
  <2> QED  BY <2>1, <2>2, <2>3
<1> QED  BY <1>1, <1>2, <1>3

\* Handle i, the first that is pending, goes.
LEMMA ScriptsLess ==
    ASSUME TypeOK, NEW c \in Clients, ScriptsOrdered(c),
           NEW i \in 1..Len(asyncs), LessHandle(asyncs', asyncs, i),
           i > loop.at, \A j \in 1..Len(asyncs) : Pending(j) => i <= j, loop'.at = i - 1,
           life'[c] = life[c] \/ (life'[c] = "closing" /\ FinishOf(asyncs, i, c))
    PROVE  ScriptsOrdered(c)'
<1>1. /\ Len(asyncs) \in Nat /\ DOMAIN asyncs = 1..Len(asyncs) /\ loop.at \in Nat
      /\ Len(asyncs') = Len(asyncs) - 1
  BY TypeFrame DEF LessHandle, LoopOK, Loop
<1> DEFINE o(j) == IF j < i THEN j ELSE j + 1
<1>2. ASSUME NEW j \in 1..Len(asyncs')
      PROVE  o(j) \in 1..Len(asyncs) /\ asyncs'[j] = asyncs[o(j)] /\ o(j) # i /\ (o(j) > i => j > i - 1)
  BY <1>1 DEF LessHandle
<1>3. ASSUME NEW j \in 1..Len(asyncs'), NEW k \in 1..Len(asyncs'), o(j) < o(k)
      PROVE  j < k
  BY <1>1, <1>3
<1> HIDE DEF o
<1>4. ASSUME NEW j \in 1..Len(asyncs), ScriptOf(asyncs, j, c), asyncs[j].pending = 1,
             NEW k \in 1..Len(asyncs), FinishOf(asyncs, k, c)
      PROVE  j >= i /\ j < k
  <2>1. loop.at < j /\ j < k
    BY <1>4 DEF ScriptsOrdered
  <2>2. Pending(j)
    BY <1>1, <1>4, <2>1 DEF Pending
  <2> QED  BY <1>1, <2>1, <2>2
<1> SUFFICES ASSUME NEW j \in 1..Len(asyncs'), ScriptOf(asyncs', j, c)
             PROVE  /\ life'[c] # "new"
                    /\ asyncs'[j].pending = 1 =>
                          /\ life'[c] \notin {"closing", "freed"}
                          /\ \A k \in 1..Len(asyncs') :
                                FinishOf(asyncs', k, c) => loop'.at < j /\ j < k
  BY DEF ScriptsOrdered
<1>5. o(j) \in 1..Len(asyncs) /\ ScriptOf(asyncs, o(j), c)
  BY <1>2 DEF ScriptOf
<1>6. life'[c] # "new"
  BY <1>5 DEF ScriptsOrdered
<1>7. ASSUME asyncs'[j].pending = 1
      PROVE  life'[c] \notin {"closing", "freed"}
  <2>1. asyncs[o(j)].pending = 1
    BY <1>2, <1>7
  <2>2. ~FinishOf(asyncs, i, c)
    <3>1. FinishOf(asyncs, i, c) => o(j) >= i /\ o(j) < i
      BY <1>4, <1>5, <2>1
    <3> QED  BY <1>1, <1>5, <3>1
  <2> QED  BY <1>5, <2>1, <2>2 DEF ScriptsOrdered
<1>8. ASSUME asyncs'[j].pending = 1, NEW k \in 1..Len(asyncs'), FinishOf(asyncs', k, c)
      PROVE  loop'.at < j /\ j < k
  <2>1. asyncs[o(j)].pending = 1 /\ o(k) \in 1..Len(asyncs) /\ FinishOf(asyncs, o(k), c)
    BY <1>2, <1>8 DEF FinishOf
  <2>2. o(j) >= i /\ o(j) < o(k)
    BY <1>4, <1>5, <2>1
  <2>3. j > i - 1
    BY <1>1, <1>2, <1>5, <2>2
  <2> QED  BY <1>1, <1>3, <2>2, <2>3
<1> QED  BY <1>6, <1>7, <1>8

\* Steps that leave the handles alone.
LEMMA OrderSame ==
    ASSUME TypeOK, HandleInv, Up, Order, asyncs' = asyncs, \A c \in Clients : LifeGoesOn(c),
           \A c \in Clients : HasPost(c)' => HasPost(c), loop'.at \in {loop.at, 0},
           posts' # <<>> /\ Soon => Soon', LoopAt'
    PROVE  Order'
<1>1. PostFirst(asyncs)
  BY DEF HandleInv, Up
<1> SUFFICES ASSUME NEW c \in Clients
             PROVE  PostsOrdered(c)' /\ ScriptsOrdered(c)'
  BY DEF Order
<1>2. PostsOrdered(c) /\ ScriptsOrdered(c) /\ LifeGoesOn(c)
  BY DEF Order
<1>3. HasPost(c)' => posts' # <<>>
  <2>1. posts' = <<>> => Len(posts') = 0
    OBVIOUS
  <2> QED  BY <2>1 DEF HasPost
<1>4. PostsOrdered(c)'
  BY <1>2, <1>3, PostsFrame
<1>5. ScriptsOrdered(c)'
  BY <1>1, <1>2, ScriptsFrame
<1> QED  BY <1>4, <1>5

\* A session whose thread runs has its client.
LEMMA SessionLives ==
    ASSUME TypeOK, NEW c \in Clients, Destruction(c), session[c].pc \notin {"none", "done"}
    PROVE  life[c] \in {"open", "destroying"} /\ NoFinish(asyncs, c)
BY TypeFrame DEF Destruction, LifeOK

LEMMA OrderPost ==
    ASSUME TypeOK, HandleInv, Up, Order, UNCHANGED <<life, loop>>, NEW kind \in {"send", "fail", "rebind"},
           NEW d \in Clients \union {NoClient}, d = NoClient <=> kind = "rebind", ServerPost(kind, d),
           d # NoClient => life[d] \in {"open", "destroying"} /\ NoFinish(asyncs, d)
    PROVE  Order'
<1>1. /\ PostFirst(asyncs) /\ LoopAt /\ asyncs \in Seq(Handle) /\ Len(asyncs) \in Nat
      /\ posts \in Seq(Work) /\ Len(posts) \in Nat
  BY TypeFrame, LenProperties DEF HandleInv, Up, Order, PostsOK
<1>2. /\ SameHandles(asyncs', asyncs)
      /\ \A j \in 1..Len(asyncs) :
            asyncs'[j].pending = IF asyncs[j].kind = "post" THEN 1 ELSE asyncs[j].pending
  BY <1>1, SignaledHandles DEF ServerPost
<1>3. asyncs'[1].pending = 1
  BY <1>1, <1>2 DEF PostFirst
<1>4. LoopAt'
  BY <1>1, <1>3 DEF LoopAt, Draining, Polling
<1> SUFFICES ASSUME NEW c \in Clients
             PROVE  PostsOrdered(c)' /\ ScriptsOrdered(c)'
  BY <1>4 DEF Order
<1>5. PostsOrdered(c) /\ ScriptsOrdered(c)
  BY DEF Order
<1>6. ScriptsOrdered(c)'
  <2>1. \A j \in 1..Len(asyncs) : ScriptOf(asyncs, j, c) => asyncs'[j].pending = asyncs[j].pending
    BY <1>2 DEF ScriptOf
  <2> QED  BY <1>1, <1>2, <1>5, <2>1, ScriptsFrame DEF LifeGoesOn
<1>7. NoFinish(asyncs, c) => NoFinish(asyncs', c)
  BY <1>1, <1>2, FinishKeeps
<1>8. PostsOrdered(c)'
  <2>1. CASE c = d
    <3>1. c # NoClient
      BY ClientsAssumption
    <3> QED  BY <1>7, <2>1, <3>1 DEF PostsOrdered
  <2>2. CASE c # d
    <3>1. HasPost(c)' => HasPost(c)
      <4>1. /\ Len(posts') = Len(posts) + 1 /\ posts'[Len(posts) + 1].client = d
            /\ \A i \in 1..Len(posts) : posts'[i] = posts[i]
        BY TypeFrame, PostsAppend DEF ServerPost
      <4>2. \A i \in 1..Len(posts') : i \in 1..Len(posts) \/ i = Len(posts) + 1
        BY <1>1, <4>1
      <4> QED  BY <2>2, <4>1, <4>2 DEF HasPost
    <3>2. Soon => Soon'
      BY <1>3 DEF Soon, Draining
    <3> QED  BY <1>5, <1>7, <3>1, <3>2, PostsFrame DEF LifeGoesOn
  <2> QED  BY <2>1, <2>2
<1> QED  BY <1>6, <1>8

\* The handlers drained from the queue are those of their clients.
LEMMA PostsShrink ==
    ASSUME TypeOK, posts # <<>>, posts' = Tail(posts)
    PROVE  \A c \in Clients : HasPost(c)' => HasPost(c)
<1>1. \A i \in 1..Len(posts') : i + 1 \in 1..Len(posts) /\ posts'[i] = posts[i + 1]
  BY TypeFrame, PostsTail
<1> QED  BY <1>1 DEF HasPost

LEMMA OrderQuiet ==
    ASSUME TypeOK, HandleInv, Up, Order, UNCHANGED <<posts, asyncs, loop>>,
           \A c \in Clients : LifeGoesOn(c)
    PROVE  Order'
<1>1. (Soon => Soon') /\ (LoopAt => LoopAt') /\ \A c \in Clients : HasPost(c)' => HasPost(c)
  BY DEF Soon, LoopAt, Draining, Polling, HasPost
<1> QED  BY <1>1, OrderSame DEF Order

\* A handle comes that is not the rest of a destruction.
LEMMA OrderNew ==
    ASSUME TypeOK, HandleInv, Up, Order, UNCHANGED <<posts, loop, life>>, NEW kind, NEW d,
           NewHandle(asyncs', asyncs, kind, d), kind # "finish",
           kind = "script" => asyncs'[Len(asyncs) + 1].pending = 0 /\ life[d] # "new"
    PROVE  Order'
<1>1. PostFirst(asyncs) /\ asyncs \in Seq(Handle) /\ asyncs'[1] = asyncs[1]
  BY TypeFrame DEF HandleInv, Up, PostFirst, NewHandle
<1>2. (Soon => Soon') /\ (LoopAt => LoopAt') /\ \A c \in Clients : HasPost(c)' => HasPost(c)
  BY <1>1 DEF Soon, LoopAt, Draining, Polling, HasPost
<1>3. ASSUME NEW c \in Clients
      PROVE  PostsOrdered(c)' /\ ScriptsOrdered(c)'
  <2>1. PostsOrdered(c) /\ ScriptsOrdered(c)
    BY DEF Order
  <2>2. NoFinish(asyncs, c) => NoFinish(asyncs', c)
    BY <1>1, FinishKeeps
  <2>3. PostsOrdered(c)'
    BY <1>2, <2>1, <2>2, PostsFrame DEF LifeGoesOn
  <2>4. ScriptsOrdered(c)'
    BY <1>1, <2>1, ScriptsNew
  <2> QED  BY <2>3, <2>4
<1> QED  BY <1>2, <1>3 DEF Order

\* run_script_async_cb or finish_destroy_client_callback_async_cb closes handle i.
LEMMA OrderClosed ==
    ASSUME TypeOK, HandleInv, Up, Order, UNCHANGED posts, NEW kind \in {"script", "finish"},
           NEW i \in DOMAIN asyncs, Visit(i, kind), asyncs' = RemoveAt(asyncs, i),
           loop' = [loop EXCEPT !.at = i - 1],
           \/ UNCHANGED life
           \/ kind = "finish" /\ life' = [life EXCEPT ![asyncs[i].client] = "closing"]
    PROVE  Order'
<1>1. /\ PostFirst(asyncs) /\ LoopAt /\ asyncs \in Seq(Handle)
      /\ DOMAIN asyncs = 1..Len(asyncs) /\ Len(asyncs) \in Nat /\ loop \in Loop /\ LifeOK
  BY TypeFrame DEF HandleInv, Up, Order, LoopOK
<1>2. /\ loop.pc = "pass" /\ Pending(i) /\ asyncs[i].kind = kind
      /\ \A j \in 1..Len(asyncs) : Pending(j) => i <= j
  BY <1>1 DEF Visit
<1>3. i \in 2..Len(asyncs) /\ i > loop.at
  BY <1>1, <1>2 DEF PostFirst, Pending
<1>4. LessHandle(asyncs', asyncs, i)
  BY <1>1, RemovedHandle
<1>5. asyncs'[1] = asyncs[1]
  BY <1>1, <1>3, <1>4 DEF LessHandle
<1>6. ~Soon
  <2>1. ~Draining
    BY <1>2 DEF Draining
  <2>2. ~(loop.at = 0 /\ asyncs[1].pending = 1)
    <3>1. loop.at = 0 /\ asyncs[1].pending = 1 => Pending(1)
      BY <1>1, <1>3 DEF Pending
    <3>2. ~(i <= 1) /\ 1 \in 1..Len(asyncs)
      BY <1>1, <1>3
    <3> QED  BY <1>2, <3>1, <3>2
  <2> QED  BY <2>1, <2>2 DEF Soon
<1>7. loop'.pc = "pass" /\ loop'.at = i - 1
  BY <1>1, <1>2, <1>3 DEF Loop
<1>8. LoopAt'
  <2>1. posts # <<>> => asyncs[1].pending = 1
    BY <1>1, <1>2 DEF LoopAt, Draining
  <2> QED  BY <1>5, <1>7, <2>1 DEF LoopAt, Draining, Polling
<1>9. ASSUME NEW c \in Clients
      PROVE  PostsOrdered(c)' /\ ScriptsOrdered(c)'
  <2>1. PostsOrdered(c) /\ ScriptsOrdered(c)
    BY DEF Order
  <2>2. NoFinish(asyncs, c) => NoFinish(asyncs', c)
    BY <1>1, <1>4, FinishKeeps
  <2>3. life'[c] = life[c] \/ (life'[c] = "closing" /\ FinishOf(asyncs, i, c))
    BY <1>1, <1>2 DEF LifeOK, FinishOf
  <2>4. ScriptsOrdered(c)'
    BY <1>1, <1>2, <1>3, <1>4, <1>7, <2>1, <2>3, ScriptsLess
  <2>5. HasPost(c)' => HasPost(c)
    BY DEF HasPost
  <2>6. PostsOrdered(c)'
    <3>1. CASE life'[c] = life[c]
      BY <1>6, <2>1, <2>2, <2>5, <3>1, PostsFrame DEF LifeGoesOn
    <3>2. CASE FinishOf(asyncs, i, c)
      <4>1. ~NoFinish(asyncs, c)
        BY <1>1, <3>2 DEF NoFinish
      <4> QED  BY <1>6, <2>1, <2>5, <4>1 DEF PostsOrdered
    <3> QED  BY <2>3, <3>1, <3>2
  <2> QED  BY <2>4, <2>6
<1> QED  BY <1>8, <1>9 DEF Order

\* destroy_client begins the destruction of a client, unless it has begun.
LEMMA OrderDestroy ==
    ASSUME TypeOK, HandleInv, Up, Order, NEW d \in Clients, NEW ret \in {"poll", "posts"}, loop.pc = ret,
           DestroyClient(d, ret), UNCHANGED asyncs, \A c \in Clients : HasPost(c)' => HasPost(c),
           posts' # <<>> => posts # <<>>
    PROVE  Order'
<1>1. loop \in Loop /\ LifeOK /\ LoopAt
  BY TypeFrame DEF LoopOK, Order
<1>2. /\ loop'.at = loop.at
      /\ loop'.pc = ret \/ (loop'.pc = "join" /\ loop'.ret = ret)
      /\ \A c \in Clients : LifeGoesOn(c)
  BY <1>1 DEF DestroyClient, Loop, LifeOK, LifeGoesOn
<1>3. (Draining <=> ret = "posts") /\ (Draining' <=> ret = "posts")
  BY <1>2 DEF Draining
<1>4. Soon => Soon'
  BY <1>2, <1>3 DEF Soon
<1>5. LoopAt'
  <2>1. ret = "poll" => loop.at = 0
    BY <1>1 DEF LoopAt, Polling
  <2>2. ret = "posts" => loop.at = 1
    BY <1>1, <1>3 DEF LoopAt
  <2> QED  BY <1>1, <1>2, <1>3, <2>1, <2>2 DEF LoopAt, Polling
<1> QED  BY <1>2, <1>4, <1>5, OrderSame

\* The rest of a destruction is left to a handle of its own, which comes after all posts and
\* answers of the client.
LEMMA OrderFinish ==
    ASSUME TypeOK, HandleInv, Up, Order, FinishDestroy
    PROVE  Order'
<1>1. /\ PostFirst(asyncs) /\ LoopAt /\ asyncs \in Seq(Handle)
      /\ loop \in Loop /\ loop.client # NoClient
  BY TypeFrame DEF HandleInv, Up, Order, LoopOK, FinishDestroy
<1>2. /\ loop.pc = "join" /\ asyncs' = Initialized("finish", loop.client) /\ UNCHANGED <<posts, life>>
      /\ loop' = [loop EXCEPT !.pc = loop.ret, !.client = NoClient]
  BY DEF FinishDestroy, hist
<1>3. loop'.pc = loop.ret /\ loop'.at = loop.at /\ loop.client \in Clients
      /\ loop.ret \in {"poll", "posts"}
  BY <1>1, <1>2 DEF Loop, Up, InStop
<1>4. NewHandle(asyncs', asyncs, "finish", loop.client)
  BY <1>1, <1>2, <1>3, InitializedHandle
<1>5. asyncs'[1] = asyncs[1]
  BY <1>1, <1>4 DEF PostFirst, NewHandle
<1>6. /\ Draining <=> loop.ret = "posts"
      /\ Draining' <=> loop.ret = "posts"
      /\ loop.ret = "poll" => loop.at = 0
      /\ loop.ret = "posts" => loop.at = 1
  BY <1>1, <1>2, <1>3 DEF Draining, LoopAt
<1>7. LoopAt'
  BY <1>1, <1>2, <1>3, <1>5, <1>6 DEF LoopAt, Polling
<1>8. (Soon => Soon') /\ (posts # <<>> => Soon')
  BY <1>1, <1>3, <1>5, <1>6 DEF Soon, LoopAt
<1>9. ASSUME NEW c \in Clients
      PROVE  PostsOrdered(c)' /\ ScriptsOrdered(c)'
  <2>1. PostsOrdered(c) /\ ScriptsOrdered(c)
    BY DEF Order
  <2>2. ScriptsOrdered(c)'
    BY <1>1, <1>2, <1>3, <1>4, <1>6, <2>1, ScriptsNew
  <2>3. PostsOrdered(c)'
    <3>1. HasPost(c) => posts # <<>>
      <4>1. posts = <<>> => Len(posts) = 0
        OBVIOUS
      <4> QED  BY <4>1 DEF HasPost
    <3> QED  BY <1>2, <1>8, <2>1, <3>1 DEF PostsOrdered, HasPost
  <2> QED  BY <2>2, <2>3
<1> QED  BY <1>7, <1>9 DEF Order

\* cb_post begins with the queue.
LEMMA OrderPass ==
    ASSUME TypeOK, HandleInv, Up, Order, NEW i \in DOMAIN asyncs, PassPost(i)
    PROVE  Order'
<1>1. /\ PostFirst(asyncs) /\ asyncs \in Seq(Handle) /\ DOMAIN asyncs = 1..Len(asyncs) /\ loop \in Loop
  BY TypeFrame DEF HandleInv, Up, LoopOK
<1>2. i = 1
  BY <1>1 DEF PostFirst, PassPost, Visit
<1>3. /\ SameHandles(asyncs', asyncs)
      /\ \A j \in 1..Len(asyncs) : j # i => asyncs'[j].pending = asyncs[j].pending
  BY <1>1, FlaggedHandle DEF PassPost
<1>4. loop'.pc = "posts" /\ loop'.at = 1 /\ UNCHANGED <<posts, life>>
  BY <1>1, <1>2 DEF PassPost, Loop
<1>5. LoopAt' /\ Soon'
  BY <1>4 DEF LoopAt, Soon, Draining, Polling
<1>6. ASSUME NEW c \in Clients
      PROVE  PostsOrdered(c)' /\ ScriptsOrdered(c)'
  <2>1. PostsOrdered(c) /\ ScriptsOrdered(c)
    BY DEF Order
  <2>2. PostsOrdered(c)'
    BY <1>4, <1>5, <2>1 DEF PostsOrdered, HasPost
  <2>3. \A j \in 1..Len(asyncs) : ScriptOf(asyncs, j, c) => asyncs'[j].pending = asyncs[j].pending
    BY <1>1, <1>2, <1>3 DEF ScriptOf, PostFirst
  <2>4. ScriptsOrdered(c)'
    BY <1>1, <1>3, <1>4, <2>1, <2>3, ScriptsFrame DEF LifeGoesOn
  <2> QED  BY <2>2, <2>4
<1> QED  BY <1>5, <1>6 DEF Order

\* A session's thread signals the answer of a script.
LEMMA OrderAnswer ==
    ASSUME TypeOK, HandleInv, Up, Order, NEW d \in Clients, Destruction(d), SessionHandle(d)
    PROVE  Order'
<1>1. /\ PostFirst(asyncs) /\ LoopAt /\ asyncs \in Seq(Handle) /\ DOMAIN asyncs = 1..Len(asyncs)
  BY TypeFrame DEF HandleInv, Up, Order
<1>2. UNCHANGED <<life, posts, loop>> /\ session[d].pc = "drain"
  BY DEF SessionHandle
<1>3. CASE asyncs' = asyncs
  BY <1>2, <1>3, OrderQuiet DEF LifeGoesOn
<1>4. ASSUME NEW i \in DOMAIN asyncs, asyncs[i].kind = "script", asyncs[i].client = d,
             asyncs' = [asyncs EXCEPT ![i].pending = 1]
      PROVE  Order'
  <2>1. /\ SameHandles(asyncs', asyncs)
        /\ \A j \in 1..Len(asyncs) : j # i => asyncs'[j].pending = asyncs[j].pending
    BY <1>1, <1>4, FlaggedHandle
  <2>2. asyncs'[1].pending = asyncs[1].pending
    BY <1>1, <1>4, <2>1 DEF PostFirst
  <2>3. LoopAt' /\ (Soon => Soon')
    BY <1>1, <1>2, <2>2 DEF LoopAt, Soon, Draining, Polling
  <2>4. ASSUME NEW c \in Clients
        PROVE  PostsOrdered(c)' /\ ScriptsOrdered(c)'
    <3>1. PostsOrdered(c) /\ ScriptsOrdered(c)
      BY DEF Order
    <3>2. NoFinish(asyncs, c) => NoFinish(asyncs', c)
      BY <1>1, <2>1, FinishKeeps
    <3>3. PostsOrdered(c)'
      BY <1>2, <2>3, <3>1, <3>2, PostsFrame DEF HasPost, LifeGoesOn
    <3>4. CASE c = d
      <4>1. life[c] \in {"open", "destroying"} /\ NoFinish(asyncs', c)
        BY <1>2, <3>2, <3>4, SessionLives
      <4>2. ScriptsOrdered(c)'
        BY <1>2, <4>1 DEF ScriptsOrdered, NoFinish
      <4> QED  BY <3>3, <4>2
    <3>5. CASE c # d
      <4>1. \A j \in 1..Len(asyncs) :
                ScriptOf(asyncs, j, c) => asyncs'[j].pending = asyncs[j].pending
        BY <1>4, <2>1, <3>5 DEF ScriptOf
      <4>2. ScriptsOrdered(c)'
        BY <1>1, <1>2, <2>1, <3>1, <4>1, ScriptsFrame DEF LifeGoesOn
      <4> QED  BY <3>3, <4>2
    <3> QED  BY <3>4, <3>5
  <2> QED  BY <2>3, <2>4 DEF Order
<1>5. \/ asyncs' = asyncs
      \/ \E i \in DOMAIN asyncs : /\ asyncs[i].kind = "script" /\ asyncs[i].client = d
                                  /\ asyncs' = [asyncs EXCEPT ![i].pending = 1]
  BY DEF SessionHandle, RunHandler, NextScript, Waiting
<1> QED  BY <1>3, <1>4, <1>5

LEMMA OrderStep ==
    ASSUME TypeOK, HandleInv, \A c \in Clients : Destruction(c), FirstRun, Up => Order,
           [Next]_vars, Up'
    PROVE  Order'
<1> USE DEF work, hist
<1>0. /\ loop \in Loop /\ LifeOK /\ runs \in Nat
      /\ asyncs \in Seq(Handle) /\ DOMAIN asyncs = 1..Len(asyncs) /\ Len(asyncs) \in Nat
      /\ listener' # "none" /\ runs' <= 1 /\ ~InStop'
      /\ loop.pc = "out" => listener = "none"
  BY TypeFrame DEF FlagsOK, LoopOK, Up, HandleInv
<1>u. ASSUME listener # "none", runs' = runs, ~InStop
      PROVE  Up /\ Order
  BY <1>0, <1>u DEF Up
<1>q. ASSUME UNCHANGED <<listener, runs, posts, asyncs, loop>>, \A c \in Clients : LifeGoesOn(c)
      PROVE  Order'
  BY <1>0, <1>u, <1>q, OrderQuiet DEF InStop
<1>1. CASE UNCHANGED vars
  BY <1>1, <1>q DEF vars, LifeGoesOn
<1>2. CASE Run
  <2>1. runs = 0
    BY <1>0, <1>2 DEF Run
  <2>2. /\ posts' = <<>> /\ asyncs' = <<Async("post", NoClient)>>
        /\ loop' = [loop EXCEPT !.pc = "poll"] /\ loop.at = 0
    BY <1>2, <2>1 DEF Run, FirstRun
  <2>3. LoopAt'
    BY <1>0, <2>2 DEF LoopAt, Draining, Polling, Loop
  <2>4. Len(posts') = 0 /\ \A j \in 1..Len(asyncs') : asyncs'[j].kind = "post"
    BY <2>2 DEF Async
  <2> QED  BY <2>3, <2>4 DEF Order, PostsOrdered, HasPost, ScriptsOrdered, ScriptOf
<1>3. CASE RunFails
  BY <1>0, <1>3 DEF RunFails
<1>4. CASE RunAgain
  BY <1>0, <1>4 DEF RunAgain
<1>5. CASE Stop
  <2>1. NewHandle(asyncs', asyncs, "stop", NoClient) /\ "stop" # "finish" /\ "stop" # "script"
    BY <1>0, <1>5, InitializedHandle DEF Stop
  <2>2. Up /\ Order /\ UNCHANGED <<posts, loop, life>>
    BY <1>0, <1>5, <1>u DEF Stop, InStop
  <2> QED  BY <2>1, <2>2, OrderNew
<1>6. CASE Rebind
  <2>1. Up /\ Order
    BY <1>0, <1>6, <1>u DEF Rebind, InStop
  <2> QED  BY <1>6, <2>1, OrderPost DEF Rebind
<1>7. CASE PassBegin
  <2>1. loop' = [loop EXCEPT !.pc = "pass", !.at = 0] /\ loop.pc = "poll" /\ UNCHANGED <<posts, asyncs, life>>
    BY <1>7 DEF PassBegin, Polling
  <2>2. Up /\ Order
    BY <1>0, <1>7, <1>u, <2>1 DEF PassBegin, InStop
  <2>3. loop'.pc = "pass" /\ loop'.at = 0
    BY <1>0, <2>1 DEF Loop
  <2>4. LoopAt' /\ (Soon => Soon')
    BY <2>1, <2>2, <2>3 DEF Order, LoopAt, Soon, Draining, Polling
  <2> QED  BY <2>1, <2>2, <2>3, <2>4, OrderSame DEF LifeGoesOn, HasPost
<1>8. CASE PassEnd
  <2>1. loop' = [loop EXCEPT !.pc = "poll", !.at = 0] /\ loop.pc = "pass" /\ UNCHANGED <<posts, asyncs, life>>
    BY <1>8 DEF PassEnd
  <2>2. Up /\ Order
    BY <1>0, <1>8, <1>u, <2>1 DEF PassEnd, InStop
  <2>3. loop'.pc = "poll" /\ loop'.at = 0
    BY <1>0, <2>1 DEF Loop
  <2>4. LoopAt' /\ (Soon => Soon')
    BY <2>1, <2>2, <2>3 DEF Order, LoopAt, Soon, Draining, Polling
  <2> QED  BY <2>1, <2>2, <2>3, <2>4, OrderSame DEF LifeGoesOn, HasPost
<1>9. ASSUME NEW i \in DOMAIN asyncs, PassPost(i)
      PROVE  Order'
  <2>1. Up /\ Order
    BY <1>0, <1>9, <1>u DEF PassPost, Visit, InStop
  <2> QED  BY <1>9, <2>1, OrderPass
<1>10. ASSUME NEW i \in DOMAIN asyncs, PassScript(i)
       PROVE  Order'
  <2>1. Up /\ Order
    BY <1>0, <1>10, <1>u DEF PassScript, Visit, InStop
  <2> QED  BY <1>10, <2>1, OrderClosed DEF PassScript
<1>11. ASSUME NEW i \in DOMAIN asyncs, PassFinish(i)
       PROVE  Order'
  <2>1. Up /\ Order
    BY <1>0, <1>11, <1>u DEF PassFinish, Visit, InStop
  <2> QED  BY <1>11, <2>1, OrderClosed DEF PassFinish
<1>12. ASSUME NEW i \in DOMAIN asyncs, PassStop(i)
       PROVE  Order'
  <2>1. loop' = [loop EXCEPT !.pc = "stop", !.at = i]
    BY <1>12 DEF PassStop
  <2>2. loop'.pc = "stop"
    BY <1>0, <2>1 DEF Loop
  <2> QED  BY <1>0, <2>2 DEF InStop
<1>13. CASE PostsEnd
  <2>1. Up /\ Order
    BY <1>0, <1>13, <1>u DEF PostsEnd, InStop
  <2>2. /\ loop' = [loop EXCEPT !.pc = "pass"] /\ UNCHANGED <<posts, asyncs, life>> /\ posts = <<>>
    BY <1>13 DEF PostsEnd
  <2>3. loop'.pc = "pass" /\ loop'.at = loop.at
    BY <1>0, <2>2 DEF Loop
  <2>4. LoopAt'
    BY <2>2, <2>3 DEF LoopAt, Draining, Polling
  <2> QED  BY <2>1, <2>2, <2>3, <2>4, OrderSame DEF LifeGoesOn, HasPost
<1>14. CASE PostSend
  <2>1. Up /\ Order
    BY <1>0, <1>14, <1>u DEF PostSend, InStop
  <2>2. UNCHANGED <<asyncs, life, loop>> /\ loop.pc = "posts" /\ \A c \in Clients : HasPost(c)' => HasPost(c)
    BY <1>14, PostsShrink DEF PostSend
  <2>3. LoopAt' /\ Soon'
    BY <2>1, <2>2 DEF Order, LoopAt, Soon, Draining, Polling
  <2> QED  BY <2>1, <2>2, <2>3, OrderSame DEF LifeGoesOn
<1>15. CASE PostFail
  <2>1. Up /\ Order
    BY <1>0, <1>15, <1>u DEF PostFail, InStop
  <2>2. Head(posts).client \in Clients
    BY <1>15, PostsTail, TypeFrame DEF PostFail, Work
  <2>3. \A c \in Clients : HasPost(c)' => HasPost(c)
    BY <1>15, PostsShrink DEF PostFail
  <2> QED  BY <1>15, <2>1, <2>2, <2>3, OrderDestroy DEF PostFail
<1>16. CASE PostRebind
  <2>1. listener # "none"
    BY <1>16 DEF PostRebind
  <2>2. Up /\ Order
    BY <1>0, <1>16, <1>u, <2>1 DEF PostRebind, InStop
  <2>3. UNCHANGED <<asyncs, life, loop>> /\ loop.pc = "posts" /\ \A c \in Clients : HasPost(c)' => HasPost(c)
    BY <1>16, PostsShrink DEF PostRebind
  <2>4. LoopAt' /\ Soon'
    BY <2>2, <2>3 DEF Order, LoopAt, Soon, Draining, Polling
  <2> QED  BY <2>2, <2>3, <2>4, OrderSame DEF LifeGoesOn
<1>17. ASSUME NEW d \in Clients, StopClient(d)
       PROVE  Order'
  <2>1. loop' = [loop EXCEPT !.pc = "join", !.client = d, !.ret = "stop"]
    BY <1>17 DEF StopClient, DestroyClient
  <2>2. loop'.pc = "join" /\ loop'.ret = "stop"
    BY <1>0, <2>1 DEF Loop
  <2> QED  BY <1>0, <2>2 DEF InStop
<1>18. CASE StopServer
  BY <1>0, <1>18 DEF StopServer
<1>19. CASE FinishDestroy
  <2>1. loop' = [loop EXCEPT !.pc = loop.ret, !.client = NoClient] /\ loop.pc = "join"
    BY <1>19 DEF FinishDestroy
  <2>2. loop'.pc = loop.ret
    BY <1>0, <2>1 DEF Loop
  <2>3. ~InStop
    BY <1>0, <2>1, <2>2 DEF InStop
  <2>4. Up /\ Order
    BY <1>0, <1>19, <1>u, <2>3 DEF FinishDestroy
  <2> QED  BY <1>19, <2>4, OrderFinish
<1>20. CASE Close
  <2>1. \A c \in Clients : LifeGoesOn(c)
    BY <1>20 DEF Close, LifeGoesOn
  <2> QED  BY <1>20, <1>q, <2>1 DEF Close
<1>21. CASE LoopEnds
  BY <1>0, <1>21 DEF LoopEnds
<1>22. ASSUME NEW d \in Clients, Accept(d)
       PROVE  Order'
  <2>1. \A c \in Clients : LifeGoesOn(c)
    BY <1>0, <1>22 DEF Accept, LifeGoesOn, LifeOK
  <2> QED  BY <1>22, <1>q, <2>1 DEF Accept
<1>23. ASSUME NEW d \in Clients, Disconnect(d)
       PROVE  Order'
  <2>1. Up /\ Order
    BY <1>0, <1>23, <1>u DEF Disconnect, Polling, InStop
  <2> QED  BY <1>23, <2>1, OrderDestroy DEF Disconnect, Polling, HasPost
<1>24. ASSUME NEW d \in Clients, NEW kind \in {"script", "message"}, Read(d, kind)
       PROVE  Order'
  <2>1. Up /\ Order /\ UNCHANGED <<listener, runs, posts, loop, life>> /\ life[d] = "open"
    BY <1>0, <1>24, <1>u DEF Read, Polling, InStop
  <2>2. CASE asyncs' = asyncs
    BY <1>q, <2>1, <2>2 DEF LifeGoesOn
  <2>3. CASE asyncs' = Append(asyncs, Async("script", d))
    <3>1. NewHandle(asyncs', asyncs, "script", d) /\ "script" # "finish"
      BY <1>0, <2>3, InitializedHandle
    <3>2. Async("script", d) \in Handle /\ Async("script", d).pending = 0
      BY DEF Async, Handle
    <3>3. asyncs'[Len(asyncs) + 1] = Async("script", d)
      BY <1>0, <2>3, <3>2, AppendProperties
    <3> QED  BY <2>1, <3>1, <3>2, <3>3, OrderNew
  <2> QED  BY <1>24, <2>2, <2>3 DEF Read
<1>25. ASSUME NEW d \in Clients, NEW kind \in {"send", "fail"}, SessionPosts(d, kind)
       PROVE  Order'
  <2>1. Up /\ Order
    BY <1>0, <1>25, <1>u DEF SessionPosts, InStop
  <2>2. life[d] \in {"open", "destroying"} /\ NoFinish(asyncs, d) /\ d # NoClient
    BY <1>25, SessionLives, ClientsAssumption DEF SessionPosts
  <2> QED  BY <1>25, <2>1, <2>2, OrderPost DEF SessionPosts
<1>26. ASSUME NEW d \in Clients, SessionFails(d)
       PROVE  Order'
  <2>1. Up /\ Order
    BY <1>0, <1>26, <1>u DEF SessionFails, InStop
  <2>2. life[d] \in {"open", "destroying"} /\ NoFinish(asyncs, d) /\ d # NoClient
    BY <1>26, SessionLives, ClientsAssumption DEF SessionFails
  <2> QED  BY <1>26, <2>1, <2>2, OrderPost DEF SessionFails
<1>27. ASSUME NEW d \in Clients, SessionWake(d)
       PROVE  Order'
  BY <1>27, <1>q DEF SessionWake, LifeGoesOn
<1>28. ASSUME NEW d \in Clients, SessionHandle(d)
       PROVE  Order'
  <2>1. Up /\ Order
    BY <1>0, <1>28, <1>u DEF SessionHandle, InStop
  <2> QED  BY <1>28, <2>1, OrderAnswer
<1>29. ASSUME NEW d \in Clients, SessionStop(d)
       PROVE  Order'
  BY <1>29, <1>q DEF SessionStop, LifeGoesOn
<1>30. ASSUME NEW d \in Clients, SessionEnds(d)
       PROVE  Order'
  BY <1>30, <1>q DEF SessionEnds, LifeGoesOn
<1> QED
  BY <1>1, <1>2, <1>3, <1>4, <1>5, <1>6, <1>7, <1>8, <1>9, <1>10, <1>11, <1>12, <1>13, <1>14,
     <1>15, <1>16, <1>17, <1>18, <1>19, <1>20, <1>21, <1>22, <1>23, <1>24, <1>25, <1>26, <1>27,
     <1>28, <1>29, <1>30, Zenon
  DEF Next, LoopStep, PassStep, ClientNext, SessionStep

\* Before the first run there is nothing.
LEMMA FirstRunStep ==
    ASSUME TypeOK, HandleInv, \A c \in Clients : Destruction(c), FirstRun, [Next]_vars
    PROVE  FirstRun'
<1> USE DEF work, hist
<1> SUFFICES ASSUME runs' = 0, ~UNCHANGED vars
             PROVE  FALSE
  BY DEF FirstRun, vars
<1>1. runs \in Nat
  BY TypeFrame DEF FlagsOK
<1>2. ~(Run \/ RunFails \/ RunAgain)
  BY <1>1 DEF Run, RunFails, RunAgain
<1>3. ~Rebind
  BY <1>1 DEF Rebind
<1>4. CASE runs # 0
  <2>1. runs' # runs
    BY <1>4
  <2>2. ~Stop /\ ~PostsEnd /\ ~PostSend /\ ~PostFail /\ ~PostRebind /\ ~StopServer /\ ~FinishDestroy
        /\ ~Close /\ ~LoopEnds /\ ~PassBegin /\ ~PassEnd
    BY <2>1 DEF Stop, PostsEnd, PostSend, PostFail, PostRebind, StopServer, FinishDestroy, Close,
                LoopEnds, PassBegin, PassEnd
  <2>3. \A i : ~PassPost(i) /\ ~PassScript(i) /\ ~PassFinish(i) /\ ~PassStop(i)
    BY <2>1 DEF PassPost, PassScript, PassFinish, PassStop
  <2>4. \A c : /\ ~StopClient(c) /\ ~Accept(c) /\ ~Disconnect(c) /\ ~SessionFails(c)
               /\ \A kind : ~Read(c, kind) /\ ~SessionPosts(c, kind)
    BY <2>1 DEF StopClient, Accept, Disconnect, SessionFails, Read, SessionPosts
  <2>5. \A c : ~SessionWake(c) /\ ~SessionHandle(c) /\ ~SessionStop(c) /\ ~SessionEnds(c)
    BY <2>1 DEF SessionWake, SessionHandle, SessionStop, SessionEnds
  <2> QED  BY <1>2, <1>3, <2>2, <2>3, <2>4, <2>5, Zenon
           DEF Next, LoopStep, PassStep, ClientNext, SessionStep
<1>5. CASE runs = 0
  <2>1. /\ loop.pc = "out" /\ listener = "none" /\ ~running
        /\ \A c \in Clients : life[c] = "new" /\ session[c].pc = "none"
    BY <1>5 DEF FirstRun, HandleInv, Destruction
  <2>2. ~Stop /\ ~PostsEnd /\ ~PostSend /\ ~PostFail /\ ~PostRebind /\ ~StopServer /\ ~FinishDestroy
        /\ ~Close /\ ~LoopEnds /\ ~PassBegin /\ ~PassEnd
    BY <2>1 DEF Stop, PostsEnd, PostSend, PostFail, PostRebind, StopServer, FinishDestroy, Close,
                LoopEnds, PassBegin, PassEnd, Polling
  <2>3. \A i : ~PassPost(i) /\ ~PassScript(i) /\ ~PassFinish(i) /\ ~PassStop(i)
    BY <2>1 DEF PassPost, PassScript, PassFinish, PassStop, Visit
  <2>4. \A c \in Clients : /\ ~StopClient(c) /\ ~Accept(c) /\ ~Disconnect(c) /\ ~SessionFails(c)
                           /\ \A kind : ~Read(c, kind) /\ ~SessionPosts(c, kind)
    BY <2>1 DEF StopClient, Accept, Disconnect, SessionFails, Read, SessionPosts, Polling
  <2>5. \A c \in Clients :
            ~SessionWake(c) /\ ~SessionHandle(c) /\ ~SessionStop(c) /\ ~SessionEnds(c)
    BY <2>1 DEF SessionWake, SessionHandle, SessionStop, SessionEnds
  <2> QED  BY <1>2, <1>3, <2>2, <2>3, <2>4, <2>5, Zenon
           DEF Next, LoopStep, PassStep, ClientNext, SessionStep
<1> QED  BY <1>4, <1>5

\* No handler meets a client that was freed.
LEMMA UseStep ==
    ASSUME TypeOK, HandleInv, Up => Order, NoUseAfterFree, [Next]_vars
    PROVE  NoUseAfterFree'
<1> USE DEF work, hist
<1>0. asyncs \in Seq(Handle) /\ DOMAIN asyncs = 1..Len(asyncs)
  BY TypeFrame
<1>1. CASE UNCHANGED vars
  BY <1>1 DEF vars, NoUseAfterFree
<1>2. ASSUME posts # <<>>, Head(posts).client \in Clients, loop.pc = "posts", UNCHANGED <<listener, runs>>,
             fault = "none", fault' = IF Unused(Head(posts).client) THEN "freed" ELSE fault
      PROVE  NoUseAfterFree'
  <2> SUFFICES ASSUME runs <= 1, listener # "none"
               PROVE  ~Unused(Head(posts).client)
    BY <1>2 DEF NoUseAfterFree
  <2>1. Order
    BY <1>2 DEF Up, InStop
  <2>2. HasPost(Head(posts).client)
    <3>1. 1 \in 1..Len(posts) /\ Head(posts) = posts[1]
      BY <1>2, TypeFrame, PostsTail
    <3> QED  BY <3>1 DEF HasPost
  <2> QED  BY <1>2, <2>1, <2>2 DEF Order, PostsOrdered, Unused
<1>3. CASE PostSend /\ fault = "none"
  <2>1. Head(posts).client \in Clients
    BY <1>3, PostsTail, TypeFrame DEF PostSend, Work
  <2> QED  BY <1>2, <1>3, <2>1 DEF PostSend
<1>4. CASE PostFail /\ fault = "none"
  <2>1. Head(posts).client \in Clients
    BY <1>4, PostsTail, TypeFrame DEF PostFail, Work
  <2> QED  BY <1>2, <1>4, <2>1 DEF PostFail
<1>5. ASSUME NEW i \in DOMAIN asyncs, PassScript(i), fault = "none"
      PROVE  NoUseAfterFree'
  <2> SUFFICES ASSUME runs <= 1, listener # "none"
               PROVE  ~Unused(asyncs[i].client)
    BY <1>5 DEF PassScript, NoUseAfterFree
  <2>1. loop.pc = "pass" /\ asyncs[i].pending = 1 /\ asyncs[i].kind = "script"
    BY <1>5 DEF PassScript, Visit, Pending
  <2>2. Order
    BY <2>1 DEF Up, InStop
  <2>3. asyncs[i].client \in Clients
    <3>1. asyncs[i] \in Handle /\ (asyncs[i].client = NoClient <=> asyncs[i].kind \in {"post", "stop"})
      BY <1>0, TypeFrame, HandleList DEF HandlesOK
    <3> QED  BY <2>1, <3>1 DEF Handle
  <2> QED  BY <1>0, <2>1, <2>2, <2>3 DEF Order, ScriptsOrdered, ScriptOf, Unused
<1>6. fault = "none" /\ fault' # "freed" => NoUseAfterFree'
  BY DEF NoUseAfterFree
<1>7. ASSUME fault = "none",
             \/ Run \/ RunFails \/ RunAgain \/ Stop \/ Rebind \/ PassBegin \/ PassEnd \/ PostsEnd
             \/ PostRebind \/ StopServer \/ FinishDestroy \/ Close \/ LoopEnds
      PROVE  fault' # "freed"
  BY <1>7 DEF Run, RunFails, RunAgain, Stop, Rebind, PassBegin, PassEnd, PostsEnd, PostRebind,
              StopServer, FinishDestroy, Close, LoopEnds
<1>8. ASSUME fault = "none", NEW i \in DOMAIN asyncs, PassPost(i) \/ PassFinish(i) \/ PassStop(i)
      PROVE  fault' # "freed"
  BY <1>8 DEF PassPost, PassFinish, PassStop
<1>9. ASSUME fault = "none", NEW c \in Clients, StopClient(c) \/ ClientNext(c) \/ SessionStep(c)
      PROVE  fault' # "freed"
  BY <1>9 DEF StopClient, ClientNext, SessionStep, Accept, Disconnect, SessionFails, Read, SessionPosts,
              SessionWake, SessionHandle, SessionStop, SessionEnds
<1> QED
  BY <1>1, <1>3, <1>4, <1>5, <1>6, <1>7, <1>8, <1>9, Zenon DEF Next, LoopStep, PassStep

\* As long as the server was not stopped, no handler meets a client that was freed.
THEOREM RestComesLast == Spec => []NoUseAfterFree
<1> DEFINE Inv == /\ TypeOK /\ HandleInv /\ (\A c \in Clients : Destruction(c))
                  /\ FirstRun /\ (Up => Order) /\ NoUseAfterFree
<1>1. Init => Inv
  <2>1. Init => FirstRun /\ ~Up /\ NoUseAfterFree
    BY DEF Init, FirstRun, Up, NoUseAfterFree
  <2> QED  BY <2>1, TypeInit, DestructionInit
<1>2. Inv /\ [Next]_vars => Inv'
  <2> SUFFICES ASSUME Inv, [Next]_vars
               PROVE  Inv'
    OBVIOUS
  <2>1. TypeOK' /\ HandleInv' /\ \A c \in Clients : Destruction(c)'
    BY TypeStep, HandleStep, DestructionStep
  <2>2. FirstRun' /\ NoUseAfterFree'
    BY FirstRunStep, UseStep
  <2>3. Up' => Order'
    BY OrderStep
  <2> QED  BY <2>1, <2>2, <2>3
<1>3. Inv => NoUseAfterFree
  OBVIOUS
<1> HIDE DEF Inv
<1> QED  BY <1>1, <1>2, <1>3, PTL DEF Spec

=============================================================================
