------------------------------ MODULE PartsProofs ------------------------------
(***************************************************************************)
(* Proofs about the parts that keep books.  That each request of a client  *)
(* ends once, for every number of requests, of calls of connect and of     *)
(* writes, and every timeout: an application that keeps to the calls that  *)
(* are safe finds PoliteInv in every state.  What holds of the list of     *)
(* client types for any sessions and any types.  And of a session's        *)
(* scripts at the output plugin, for any number of setups: a state is      *)
(* counted right and outlives its use, and a session that is closed leaves *)
(* the output.                                                             *)
(***************************************************************************)
EXTENDS RaatClient, ClientTypes, ScriptOutput, ListLemmas


-----------------------------------------------------------------------------
(***************************************************************************)
(* The inductive invariant                                                 *)
(***************************************************************************)

States   == {"disconnected", "connecting", "connected"}
Handles  == {"none", "open", "closing"}
Statuses == {"unsent", "open", "ended", "told too often"}
Calls    == Callbacks \union {"delete", "unsent"}
Frames   == [f : Calls, r : Nat, last : BOOLEAN]

\* What the variables range over.
TypeInv ==
    /\ conn \in States /\ sock \in Handles /\ timer \in Handles
    /\ joining \in BOOLEAN /\ listed \in BOOLEAN /\ freed \in BOOLEAN
    /\ polite \in BOOLEAN /\ starved \in BOOLEAN /\ died \in BOOLEAN
    /\ pending \in Seq(ids) /\ asked \in [ids -> Statuses]
    /\ writes \in Nat /\ connects \in Nat

\* The calls that a connection may be closed under
Outers == {y \in Frames : y.f \in {"answer", "connected"} \/ (y.f = "response" /\ ~y.last)}

\* One frame is alone on the stack, but for the end of a connection under such a call.
StackInv ==
    \/ stack = <<>>
    \/ \E x \in Frames : stack = <<x>>
    \/ \E x \in Frames, y \in Outers : x.f \in {"unsent", "cancel", "lost"} /\ stack = <<x, y>>

\* Before the first connection there is nothing to clean up, and the client is deleted when
\* there is nothing either.
EdgesInv ==
    /\ freed => stack = <<>>
    /\ freed \/ Innermost.f = "delete" =>
          sock = "none" /\ timer = "none" /\ writes = 0 /\ conn = "disconnected"
    /\ connects = 0 =>
          /\ sock = "none" /\ timer = "none" /\ writes = 0 /\ conn = "disconnected" /\ listed
          /\ stack = <<>> \/ Innermost.f = "delete"

\* The socket of a connection is open, but while its requests are told of the end.
ConnInv ==
    /\ conn # "disconnected" => listed /\ (Innermost.f # "cancel" => sock = "open")
    /\ joining => conn = "connecting"
    /\ conn = "connecting" => stack = <<>> /\ writes = 0 /\ timer = "none"
    /\ timer = "open" => conn = "connected" /\ Innermost.f # "cancel"
    /\ conn # "connected" => pending = <<>>
    /\ Innermost.f = "unsent" \/ EndsRequest => conn = "connected"
    /\ Innermost.f \in {"lost", "answer"} => conn = "disconnected"
    /\ Innermost.f = "cancel" => sock # "open"

\* The places of the list whose requests have had their last call
Over(i) ==
    \/ Innermost.f = "cancel" /\ i <= Innermost.r
    \/ Innermost.f = "response" /\ Innermost.last /\ pending[i] = Innermost.r

\* The list holds each request that waits, once; what is over of it is what the innermost
\* call is about.
WaitInv ==
    /\ \A i, j \in 1..Len(pending) : pending[i] = pending[j] => i = j
    /\ \A i \in 1..Len(pending) : asked[pending[i]] = IF Over(i) THEN "ended" ELSE "open"
    /\ \A r \in ids : asked[r] = "open" => Contains(pending, r) \/ r \in late
    /\ \A r \in ids : asked[r] # "told too often"

\* How far the innermost call has come in the list
WalkInv ==
    /\ Innermost.f = "cancel" =>
          /\ Innermost.r \in 1..Len(pending)
          /\ Innermost.last => \A i \in 1..Len(pending) : i <= Innermost.r \/ pending[i] \in late
          /\ Innermost.last \/ Innermost.r # Len(pending)
    /\ Innermost.f = "response" /\ Innermost.last => Contains(pending, Innermost.r)

PoliteInv == ~died /\ StackInv /\ EdgesInv /\ ConnInv /\ WaitInv /\ WalkInv

ClientInv == TypeInv /\ (polite /\ ~starved => PoliteInv)

-----------------------------------------------------------------------------
(***************************************************************************)
(* The stack                                                               *)
(***************************************************************************)

\* The innermost of no call, of one, and of two.
LEMMA Inner ==
    ASSUME NEW x, NEW y
    PROVE  /\ stack = <<>> => Innermost = Frame("none", 0)
           /\ stack = <<x>> => Innermost = x /\ Tail(stack) = <<>> /\ stack # <<>>
           /\ stack = <<x, y>> => Innermost = x /\ Tail(stack) = <<y>> /\ stack # <<>>
<1>1. /\ <<x>> # <<>> /\ Head(<<x>>) = x /\ Tail(<<x>>) = <<>>
      /\ <<x, y>> # <<>> /\ Head(<<x, y>>) = x /\ Tail(<<x, y>>) = <<y>>
  OBVIOUS
<1> QED  BY <1>1 DEF Innermost

\* The same for the stack after a step.
LEMMA InnerNext ==
    ASSUME NEW x, NEW y
    PROVE  /\ stack' = <<>> => Innermost' = Frame("none", 0)
           /\ stack' = <<x>> => Innermost' = x
           /\ stack' = <<x, y>> => Innermost' = x
<1>1. /\ <<x>> # <<>> /\ Head(<<x>>) = x
      /\ <<x, y>> # <<>> /\ Head(<<x, y>>) = x
  OBVIOUS
<1> QED  BY <1>1 DEF Innermost

\* What is under the innermost call
Under(k) == k = <<>> \/ \E y \in Outers : k = <<y>>

\* A call that is not about the end of a connection is alone on the stack.
LEMMA Alone ==
    ASSUME StackInv, stack # <<>>
    PROVE  /\ Innermost \in Frames /\ Under(Tail(stack))
           /\ Innermost.f \notin {"unsent", "cancel", "lost"} =>
                 stack = <<Innermost>> /\ Tail(stack) = <<>>
           /\ 1 \in DOMAIN stack /\ stack[1] = Innermost
<1>1. CASE \E x \in Frames : stack = <<x>>
  <2>1. PICK x \in Frames : stack = <<x>>
    BY <1>1
  <2>2. Innermost = x /\ Tail(stack) = <<>>
    BY <2>1, Inner
  <2>3. 1 \in DOMAIN <<x>> /\ <<x>>[1] = x
    OBVIOUS
  <2> QED  BY <2>1, <2>2, <2>3 DEF Under
<1>2. CASE \E x \in Frames, y \in Outers :
              x.f \in {"unsent", "cancel", "lost"} /\ stack = <<x, y>>
  <2>1. PICK x \in Frames, y \in Outers :
           x.f \in {"unsent", "cancel", "lost"} /\ stack = <<x, y>>
    BY <1>2
  <2>2. Innermost = x /\ Tail(stack) = <<y>>
    BY <2>1, Inner
  <2>3. 1 \in DOMAIN <<x, y>> /\ <<x, y>>[1] = x
    OBVIOUS
  <2> QED  BY <2>1, <2>2, <2>3 DEF Under
<1> QED  BY <1>1, <1>2 DEF StackInv

-----------------------------------------------------------------------------
(***************************************************************************)
(* Types                                                                   *)
(***************************************************************************)

\* What an application is told is one of the statuses.
LEMMA ToldTypes ==
    ASSUME TypeInv, NEW r, NEW final, Told(r, final)
    PROVE  asked' \in [ids -> Statuses]
BY DEF TypeInv, Told, Statuses

\* The variables of a connection that is lost
LEMMA LostTypes ==
    ASSUME TypeInv, NEW k, Lost(k)
    PROVE  /\ conn' \in States /\ listed' \in BOOLEAN
           /\ pending' \in Seq(ids) /\ asked' \in [ids -> Statuses]
<1>1. <<>> \in Seq(ids)
  BY EmptySeq
<1> QED  BY <1>1 DEF TypeInv, Lost, States

\* The variables of a connection whose requests are told of its end
LEMMA CancelTypes ==
    ASSUME TypeInv, NEW j, NEW k, CancelFrom(j, k)
    PROVE  /\ conn' \in States /\ listed' \in BOOLEAN
           /\ pending' \in Seq(ids) /\ asked' \in [ids -> Statuses]
<1>1. CASE From(j) > Len(pending)
  BY <1>1, LostTypes DEF CancelFrom
<1>2. CASE ~(From(j) > Len(pending))
  <2>1. Told(pending[From(j)], TRUE) /\ UNCHANGED <<pending, listed, conn>>
    BY <1>2 DEF CancelFrom
  <2> QED  BY <2>1, ToldTypes DEF TypeInv
<1> QED  BY <1>1, <1>2

\* The variables that close_connection changes
LEMMA CloseTypes ==
    ASSUME TypeInv, NEW k, CloseConnection(k)
    PROVE  /\ conn' \in States /\ sock' \in Handles /\ timer' \in Handles
           /\ listed' \in BOOLEAN /\ died' \in BOOLEAN
           /\ pending' \in Seq(ids) /\ asked' \in [ids -> Statuses]
<1>1. CASE conn = "disconnected"
  BY <1>1 DEF CloseConnection, TypeInv
<1>2. CASE conn # "disconnected"
  <2>1. CloseHandles /\ CancelFrom(1, k)
    BY <1>2 DEF CloseConnection
  <2>2. sock' \in Handles /\ timer' \in Handles /\ died' \in BOOLEAN
    BY <2>1 DEF CloseHandles, TypeInv, Handles
  <2> QED  BY <2>1, <2>2, CancelTypes
<1> QED  BY <1>1, <1>2

\* What a write leaves of the variables that it changes
LEMMA WriteTypes ==
    ASSUME TypeInv, NEW k, WriteMessage(k)
    PROVE  writes' \in Nat /\ starved' \in BOOLEAN
<1>1. writes' \in Nat
  BY DEF TypeInv, WriteMessage
<1>2. starved' = starved \/ starved' = (starved \/ EndsRequest)
  BY DEF WriteMessage
<1>3. (starved \/ EndsRequest) \in BOOLEAN
  OBVIOUS
<1>4. starved \in BOOLEAN
  BY DEF TypeInv
<1> QED  BY <1>1, <1>2, <1>3, <1>4

\* The place of a request that is in the list
LEMMA PlaceProperties ==
    ASSUME TypeInv, NEW r, Contains(pending, r)
    PROVE  PlaceOf(r) \in 1..Len(pending) /\ pending[PlaceOf(r)] = r
<1>1. \E i \in 1..Len(pending) : pending[i] = r
  BY DEF Contains
<1>2. DOMAIN pending = 1..Len(pending)
  BY LenProperties DEF TypeInv
<1> QED  BY <1>1, <1>2 DEF PlaceOf

\* Each step of the client keeps the types.
LEMMA TypesKept ==
    ASSUME TypeInv, [ClientNext]_clientVars
    PROVE  TypeInv'
<1> USE DEF closeVars, restOf
<1>1. ASSUME NEW started \in BOOLEAN, Connect(started) PROVE TypeInv'
  BY <1>1 DEF Connect, TypeInv, States, Handles
<1>2. CASE Disconnect
  BY <1>2, CloseTypes DEF Disconnect, TypeInv
<1>3. CASE Delete
  BY <1>3, CloseTypes DEF Delete, TypeInv
<1>4. CASE Deleted
  BY <1>4 DEF Deleted, TypeInv
<1>5. CASE RequestForget
  BY <1>5, WriteTypes DEF RequestForget, TypeInv
<1>6. ASSUME NEW r \in ids, Request(r) PROVE TypeInv'
  <2>1. pending' \in Seq(ids) /\ asked' \in [ids -> Statuses]
    BY <1>6, AppendProperties DEF Request, TypeInv, Statuses
  <2>2. writes' \in Nat /\ starved' \in BOOLEAN
    BY <1>6, WriteTypes DEF Request
  <2>3. polite' \in BOOLEAN /\ died' \in BOOLEAN
    BY <1>6 DEF Request, TypeInv
  <2> QED  BY <1>6, <2>1, <2>2, <2>3 DEF Request, TypeInv
<1>7. CASE ConnectFails
  BY <1>7, CloseTypes DEF ConnectFails, TypeInv
<1>8. CASE Connected
  <2>1. writes' \in Nat /\ starved' \in BOOLEAN
    BY <1>8, WriteTypes DEF Connected
  <2>2. conn' \in States /\ timer' \in Handles /\ joining' \in BOOLEAN
    BY <1>8 DEF Connected, States, Handles
  <2> QED  BY <1>8, <2>1, <2>2 DEF Connected, TypeInv
<1>9. CASE ReadFails
  BY <1>9 DEF ReadFails, TypeInv, States
<1>10. ASSUME NEW ok \in BOOLEAN, WriteDone(ok) PROVE TypeInv'
  <2>1. writes' \in Nat
    BY <1>10 DEF WriteDone, TypeInv
  <2>2. CASE UNCHANGED closeVars
    BY <1>10, <2>1, <2>2 DEF WriteDone, TypeInv
  <2>3. CASE CloseConnection(<<>>)
    BY <1>10, <2>1, <2>3, CloseTypes DEF WriteDone, TypeInv
  <2> QED  BY <1>10, <2>2, <2>3 DEF WriteDone
<1>11. CASE KeepaliveTimer
  <2>1. CASE TimedOut
    BY <1>11, <2>1, CloseTypes DEF KeepaliveTimer, TypeInv
  <2>2. CASE ~TimedOut
    <3>1. writes' \in Nat /\ starved' \in BOOLEAN
      BY <1>11, <2>2, WriteTypes DEF KeepaliveTimer
    <3> QED  BY <1>11, <2>2, <3>1 DEF KeepaliveTimer, TypeInv
  <2> QED  BY <2>1, <2>2
<1>12. CASE ReadEnds
  BY <1>12, CloseTypes DEF ReadEnds, TypeInv
<1>13. CASE ReadKeepalive
  BY <1>13 DEF ReadKeepalive, TypeInv
<1>14. ASSUME NEW r \in ids, NEW final \in BOOLEAN, NEW valid \in BOOLEAN,
              NEW byte \in BOOLEAN, ReadResponse(r, final, valid, byte)
       PROVE  TypeInv'
  <2>1. asked' \in [ids -> Statuses]
    <3>1. CASE Contains(pending, r)
      <4>1. PICK final2 : Told(r, final2)
        BY <1>14, <3>1 DEF ReadResponse
      <4> QED  BY <4>1, ToldTypes
    <3>2. CASE ~Contains(pending, r)
      BY <1>14, <3>2 DEF ReadResponse, TypeInv
    <3> QED  BY <3>1, <3>2
  <2> QED  BY <1>14, <2>1 DEF ReadResponse, TypeInv
<1>15. CASE Cancelled
  <2>1. CASE Innermost.last
    BY <1>15, <2>1, LostTypes DEF Cancelled, TypeInv
  <2>2. CASE ~Innermost.last
    BY <1>15, <2>2, CancelTypes DEF Cancelled, TypeInv
  <2> QED  BY <2>1, <2>2
<1>16. CASE ResponseReturns
  <2>1. pending' \in Seq(ids)
    <3>1. CASE Innermost.last /\ Contains(pending, Innermost.r)
      <4>1. PlaceOf(Innermost.r) \in 1..Len(pending)
        BY <3>1, PlaceProperties
      <4>2. pending \in Seq(ids)
        BY DEF TypeInv
      <4>3. RemoveAt(pending, PlaceOf(Innermost.r)) \in Seq(ids)
        BY <4>1, <4>2, RemoveAtProperties
      <4> QED  BY <1>16, <3>1, <4>3 DEF ResponseReturns, Without
    <3>2. CASE ~(Innermost.last /\ Contains(pending, Innermost.r))
      BY <1>16, <3>2 DEF ResponseReturns, TypeInv
    <3> QED  BY <3>1, <3>2
  <2>2. died' \in BOOLEAN
    BY <1>16 DEF ResponseReturns
  <2> QED  BY <1>16, <2>1, <2>2 DEF ResponseReturns, TypeInv
<1>17. CASE CallbackReturns
  BY <1>17 DEF CallbackReturns, TypeInv
<1>18. CASE HandleCloses
  BY <1>18 DEF HandleCloses, TypeInv, Handles
<1>19. CASE CalledBackFreed
  BY <1>19 DEF CalledBackFreed, TypeInv
<1>20. CASE Unsent
  BY <1>20, CloseTypes DEF Unsent, TypeInv
<1>21. CASE UNCHANGED clientVars
  BY <1>21 DEF clientVars, TypeInv
<1> QED  BY <1>1, <1>2, <1>3, <1>4, <1>5, <1>6, <1>7, <1>8, <1>9, <1>10, <1>11, <1>12, <1>13,
            <1>14, <1>15, <1>16, <1>17, <1>18, <1>19, <1>20, <1>21 DEF ClientNext

-----------------------------------------------------------------------------
(***************************************************************************)
(* The list of requests when no callback ends one of them                  *)
(***************************************************************************)

\* Without such a callback, the requests of the list are the open ones.
LEMMA Resting ==
    ASSUME WaitInv, ~EndsRequest
    PROVE  \A i \in 1..Len(pending) : asked[pending[i]] = "open"
BY DEF WaitInv, Over, EndsRequest

\* A step from such a state to such a state that leaves the list alone
LEMMA RestingStep ==
    ASSUME WaitInv, ~EndsRequest, ~EndsRequest', UNCHANGED <<pending, asked, late>>
    PROVE  WaitInv' /\ WalkInv'
<1>1. \A i \in 1..Len(pending) : asked[pending[i]] = "open"
  BY Resting
<1>2. \A i : ~Over(i)'
  BY DEF Over, EndsRequest
<1>3. WaitInv'
  BY <1>1, <1>2 DEF WaitInv, Contains
<1> QED  BY <1>3 DEF WalkInv, EndsRequest

\* The empty list has no place.
LEMMA NoPlace ==
    ASSUME NEW s, s = <<>>
    PROVE  \A i \in 1..Len(s) : FALSE
<1>1. Len(s) = 0
  BY EmptySeq
<1> QED  BY <1>1

\* With an empty list, no request is open but the late ones.
LEMMA EmptyList ==
    ASSUME pending' = <<>>, ~EndsRequest',
           \A r \in ids : /\ asked'[r] # "told too often"
                          /\ asked'[r] = "open" => r \in late'
    PROVE  WaitInv' /\ WalkInv'
<1>1. \A i \in 1..Len(pending') : FALSE
  BY NoPlace
<1> QED  BY <1>1 DEF WaitInv, WalkInv, EndsRequest

\* Calls that end no request
LEMMA EndsNone ==
    /\ Innermost.f \notin {"cancel", "response"} => ~EndsRequest
    /\ Innermost'.f \notin {"cancel", "response"} => ~EndsRequest'
BY DEF EndsRequest

-----------------------------------------------------------------------------
(***************************************************************************)
(* close_connection                                                        *)
(***************************************************************************)

\* The types of the frames that the functions push
LEMMA FrameTypes ==
    /\ \A f \in Calls, r \in Nat : Frame(f, r) \in Frames /\ Frame(f, r).f = f
    /\ \A f : Frame(f, 0).f = f /\ Frame(f, 0).r = 0 /\ ~Frame(f, 0).last
    /\ {"lost", "answer", "connected", "delete", "cancel", "response", "unsent"} \subseteq Calls
BY DEF Frame, Frames, Calls, Callbacks

\* One call before another
LEMMA InARow ==
    ASSUME NEW x, NEW y
    PROVE  <<x>> \o <<>> = <<x>> /\ <<x>> \o <<y>> = <<x, y>>
<1> DEFINE S == {x, y}
<1>1. /\ <<x>> \in Seq(S) /\ Len(<<x>>) = 1 /\ <<x>>[1] = x
      /\ <<y>> \in Seq(S) /\ Len(<<y>>) = 1 /\ <<y>>[1] = y
      /\ <<x, y>> \in Seq(S) /\ Len(<<x, y>>) = 2 /\ <<x, y>>[1] = x /\ <<x, y>>[2] = y
  OBVIOUS
<1> DEFINE c == <<x>> \o <<y>>
<1> HIDE DEF S
<1>2. /\ c \in Seq(S) /\ Len(c) = 1 + 1
      /\ \A i \in 1..(1 + 1) : c[i] = IF i <= 1 THEN <<x>>[i] ELSE <<y>>[i - 1]
  BY <1>1, ConcatProperties
<1> HIDE DEF c
<1>3. c[1] = x /\ c[2] = y /\ Len(c) = 2
  BY <1>1, <1>2
<1>4. \A i \in 1..Len(c) : c[i] = <<x, y>>[i]
  <2>1. \A i \in 1..2 : i = 1 \/ i = 2
    OBVIOUS
  <2> QED  BY <1>1, <1>3, <2>1
<1>5. c = <<x, y>>
  BY <1>1, <1>2, <1>3, <1>4, SeqEqual
<1>6. <<x>> \o <<>> = <<x>>
  OBVIOUS
<1> QED  BY <1>5, <1>6 DEF c

\* A call that is about the end of a connection comes to stand on what its caller has to do.
LEMMA Pushed ==
    ASSUME NEW x \in Frames, NEW k, Under(k), x.f \in {"unsent", "cancel", "lost"},
           stack' = <<x>> \o k
    PROVE  StackInv' /\ Innermost' = x
<1>1. CASE k = <<>>
  <2>1. stack' = <<x>>
    BY <1>1, InARow
  <2> QED  BY <2>1, InnerNext DEF StackInv
<1>2. CASE \E y \in Outers : k = <<y>>
  <2>1. PICK y \in Outers : k = <<y>>
    BY <1>2
  <2>2. stack' = <<x, y>>
    BY <2>1, InARow
  <2> QED  BY <2>2, InnerNext DEF StackInv
<1> QED  BY <1>1, <1>2 DEF Under

\* The loss of a connection, when each of its requests has ended but the late ones
LEMMA LossStep ==
    ASSUME TypeInv, WaitInv, NEW k, Lost(k), Under(k),
           \A i \in 1..Len(pending) : asked[pending[i]] = "ended" \/ pending[i] \in late,
           late' = late, timer' # "open", ~died', ~joining', ~freed', connects' # 0
    PROVE  PoliteInv'
<1>1. /\ pending' = <<>> /\ conn' = "disconnected" /\ asked' = asked
      /\ stack' = <<Frame("lost", 0)>> \o k
  BY DEF Lost
<1>2. Frame("lost", 0) \in Frames /\ Frame("lost", 0).f = "lost"
  BY FrameTypes
<1>3. StackInv' /\ Innermost' = Frame("lost", 0)
  BY <1>1, <1>2, Pushed
<1>4. Innermost'.f = "lost" /\ ~EndsRequest'
  BY <1>2, <1>3, EndsNone
<1>5. \A r \in ids : asked[r] # "told too often" /\ (asked[r] = "open" => r \in late)
  BY DEF WaitInv, Contains
<1>6. WaitInv' /\ WalkInv'
  BY <1>1, <1>4, <1>5, EmptyList
<1>7. EdgesInv'
  BY <1>4 DEF EdgesInv
<1>8. ConnInv'
  BY <1>1, <1>4 DEF ConnInv
<1> QED  BY <1>3, <1>6, <1>7, <1>8 DEF PoliteInv

\* The call of the callback of the request at place j, when those before it have ended and
\* the others wait
LEMMA CancelStep ==
    ASSUME TypeInv, WaitInv, NEW j \in 1..Len(pending), NEW k, Under(k), CancelFrom(j, k),
           conn = "connected", listed, sock' # "open", timer' # "open", late' = late,
           \A i \in 1..Len(pending) : asked[pending[i]] = IF i < j THEN "ended" ELSE "open",
           ~died', ~joining', ~freed', connects' # 0
    PROVE  PoliteInv'
<1> DEFINE x == [f |-> "cancel", r |-> j, last |-> j = Len(pending)]
<1>1. Len(pending) \in Nat /\ pending[j] \in ids /\ asked \in [ids -> Statuses]
  BY LenProperties, ElementOfSeq DEF TypeInv
<1>2. Told(pending[j], TRUE) /\ stack' = <<x>> \o k /\ UNCHANGED <<pending, listed, conn>>
  <2>1. From(j) = j /\ ~(j > Len(pending))
    BY <1>1 DEF From
  <2> QED  BY <2>1 DEF CancelFrom
<1>3. x \in Frames /\ x.f = "cancel"
  BY <1>1 DEF Frames, Calls, Callbacks
<1>4. StackInv' /\ Innermost' = x
  <2> HIDE DEF x
  <2> QED  BY <1>2, <1>3, Pushed
<1>5. Innermost'.f = "cancel" /\ Innermost'.r = j /\ (Innermost'.last <=> j = Len(pending))
  BY <1>4
<1>6. asked' = [asked EXCEPT ![pending[j]] = "ended"]
  <2>1. ~(j < j)
    BY <1>1
  <2>2. asked[pending[j]] = "open"
    BY <2>1
  <2> QED  BY <1>2, <2>2 DEF Told
<1>7. \A i \in 1..Len(pending) : pending[i] = pending[j] <=> i = j
  BY DEF WaitInv
<1>8. \A i \in 1..Len(pending) : pending[i] \in ids
  BY ElementOfSeq DEF TypeInv
<1>9. \A i \in 1..Len(pending) : asked'[pending[i]] = IF i <= j THEN "ended" ELSE "open"
  <2> SUFFICES ASSUME NEW i \in 1..Len(pending)
               PROVE  asked'[pending[i]] = IF i <= j THEN "ended" ELSE "open"
    OBVIOUS
  <2>1. CASE i = j
    BY <1>1, <1>6, <2>1
  <2>2. CASE i # j
    <3>1. asked'[pending[i]] = asked[pending[i]]
      BY <1>1, <1>6, <1>7, <1>8, <2>2
    <3>2. i < j <=> i <= j
      BY <1>1, <2>2
    <3> QED  BY <3>1, <3>2
  <2> QED  BY <2>1, <2>2
<1>10. \A i \in 1..Len(pending) : Over(i)' <=> i <= j
  BY <1>5 DEF Over
<1>11. \A r \in ids : /\ asked'[r] = "open" => asked[r] = "open"
                      /\ asked'[r] # "told too often"
  BY <1>1, <1>6 DEF WaitInv
<1>12. WaitInv'
  <2>1. \A i \in 1..Len(pending) :
          asked'[pending[i]] = IF Over(i)' THEN "ended" ELSE "open"
    BY <1>9, <1>10
  <2> QED  BY <1>2, <1>11, <2>1 DEF WaitInv, Contains
<1>13. WalkInv'
  <2>1. j = Len(pending) => \A i \in 1..Len(pending) : i <= j
    OBVIOUS
  <2> QED  BY <1>2, <1>5, <2>1 DEF WalkInv
<1>14. EdgesInv'
  BY <1>5 DEF EdgesInv
<1>15. ConnInv'
  BY <1>2, <1>5 DEF ConnInv
<1> QED  BY <1>4, <1>12, <1>13, <1>14, <1>15 DEF PoliteInv

\* close_connection while no callback ends a request
LEMMA CloseStep ==
    ASSUME TypeInv, PoliteInv, ~EndsRequest, conn # "disconnected", NEW k, Under(k),
           CloseConnection(k), late' = late, ~joining', ~freed', connects' # 0
    PROVE  PoliteInv'
<1>1. Innermost.f # "cancel"
  BY DEF EndsRequest
<1>2. \A i \in 1..Len(pending) : asked[pending[i]] = "open"
  BY Resting DEF PoliteInv
<1>3. Len(pending) \in Nat
  BY LenProperties DEF TypeInv
<1>4. CloseHandles /\ CancelFrom(1, k)
  BY DEF CloseConnection
<1>5. sock = "open" /\ listed
  BY <1>1 DEF PoliteInv, ConnInv
<1>6. conn = "connected" \/ timer = "none"
  BY DEF TypeInv, States, PoliteInv, ConnInv
<1>7. ~died' /\ sock' # "open" /\ timer' # "open"
  BY <1>4, <1>5, <1>6 DEF CloseHandles
<1>8. CASE Len(pending) = 0
  <2>1. Lost(k)
    BY <1>4, <1>8 DEF CancelFrom, From
  <2>2. \A i \in 1..Len(pending) : asked[pending[i]] = "ended"
    BY <1>8
  <2> QED  BY <1>7, <2>1, <2>2, LossStep DEF PoliteInv
<1>9. CASE Len(pending) # 0
  <2>1. pending # <<>>
    BY <1>9, EmptySeq
  <2>2. conn = "connected"
    BY <2>1 DEF PoliteInv, ConnInv
  <2>3. 1 \in 1..Len(pending) /\ \A i \in 1..Len(pending) : ~(i < 1)
    BY <1>3, <1>9
  <2>4. \A i \in 1..Len(pending) : asked[pending[i]] = IF i < 1 THEN "ended" ELSE "open"
    BY <1>2, <2>3
  <2> QED  BY <1>4, <1>5, <1>7, <2>2, <2>3, <2>4, CancelStep DEF PoliteInv
<1> QED  BY <1>8, <1>9

\* The same from the loop, when nothing is left to do after it
LEMMA CloseNow ==
    ASSUME TypeInv, PoliteInv, stack = <<>>, CloseConnection(<<>>), late' = late,
           ~joining', ~freed', connects' # 0
    PROVE  PoliteInv'
<1>1. Innermost.f = "none" /\ ~EndsRequest
  BY Inner, FrameTypes, EndsNone
<1>2. CASE conn = "disconnected"
  <2>1. stack' = <<>> /\ UNCHANGED <<conn, sock, timer, pending, asked, died>>
    BY <1>2 DEF CloseConnection
  <2>2. Innermost'.f = "none" /\ ~EndsRequest'
    BY <2>1, InnerNext, FrameTypes, EndsNone
  <2>3. WaitInv' /\ WalkInv'
    BY <1>1, <2>1, <2>2, RestingStep DEF PoliteInv
  <2>4. StackInv' /\ EdgesInv'
    BY <2>1, <2>2 DEF StackInv, EdgesInv
  <2>5. ConnInv'
    BY <1>2, <2>1, <2>2 DEF ConnInv, PoliteInv
  <2> QED  BY <2>1, <2>3, <2>4, <2>5 DEF PoliteInv
<1>3. CASE conn # "disconnected"
  <2>1. ASSUME NEW k, k = <<>>, CloseConnection(k)
        PROVE  PoliteInv'
    BY <1>1, <1>3, <2>1, CloseStep DEF Under
  <2> QED  BY <2>1
<1> QED  BY <1>2, <1>3

-----------------------------------------------------------------------------
(***************************************************************************)
(* write_message                                                           *)
(***************************************************************************)

\* A connection is going to be closed for want of memory.
LEMMA PushStep ==
    ASSUME NEW k, Under(k), stack' = <<Frame("unsent", 0)>> \o k, conn' = "connected",
           sock' = "open", listed', ~joining', ~freed', connects' # 0
    PROVE  StackInv' /\ EdgesInv' /\ ConnInv' /\ ~EndsRequest'
<1>1. Frame("unsent", 0) \in Frames /\ Frame("unsent", 0).f = "unsent"
  BY FrameTypes
<1>2. StackInv' /\ Innermost' = Frame("unsent", 0)
  BY <1>1, Pushed
<1>3. Innermost'.f = "unsent" /\ ~EndsRequest'
  BY <1>1, <1>2, EndsNone
<1>4. EdgesInv'
  BY <1>3 DEF EdgesInv
<1>5. ConnInv'
  BY <1>3 DEF ConnInv
<1> QED  BY <1>2, <1>3, <1>4, <1>5

\* It is closed.
LEMMA UnsentStep ==
    ASSUME TypeInv, PoliteInv, Unsent
    PROVE  PoliteInv'
<1>1. /\ Innermost.f = "unsent" /\ CloseConnection(Tail(stack))
      /\ UNCHANGED <<joining, freed, connects, late>>
  BY DEF Unsent, restOf
<1>2. stack # <<>> /\ Innermost.f # "delete"
  BY <1>1, Inner, FrameTypes
<1>3. Under(Tail(stack))
  BY <1>2, Alone DEF PoliteInv
<1>4. conn = "connected" /\ ~joining /\ ~freed /\ connects # 0
  BY <1>1, <1>2 DEF PoliteInv, ConnInv, EdgesInv
<1>5. ~EndsRequest
  BY <1>1, EndsNone
<1> QED  BY <1>1, <1>3, <1>4, <1>5, CloseStep

-----------------------------------------------------------------------------
(***************************************************************************)
(* The application's calls                                                 *)
(***************************************************************************)

\* The first call of connect
LEMMA ConnectStep ==
    ASSUME TypeInv, PoliteInv, polite', NEW started \in BOOLEAN, Connect(started)
    PROVE  PoliteInv'
<1>1. connects = 0 /\ connects' # 0 /\ Innermost.f # "delete"
  <2>1. polite' = (polite /\ connects = 0) /\ connects' = connects + 1 /\ AppRuns
    BY DEF Connect
  <2>2. connects = 0 /\ connects' = 0 + 1
    BY <2>1
  <2> QED  BY <2>1, <2>2 DEF AppRuns, Callbacks
<1>2. /\ stack = <<>> /\ sock = "none" /\ timer = "none" /\ writes = 0 /\ listed
      /\ pending = <<>>
  BY <1>1 DEF PoliteInv, EdgesInv, ConnInv
<1>3. /\ stack' = <<>> /\ timer' = "none" /\ writes' = 0 /\ listed' /\ pending' = <<>>
      /\ sock' = "open" /\ conn' = "connecting" /\ ~died' /\ ~freed' /\ asked' = asked
  BY <1>2 DEF Connect
<1>4. Innermost.f = "none" /\ Innermost'.f = "none" /\ late' = late
  BY <1>2, <1>3, Inner, InnerNext, FrameTypes DEF Connect
<1>5. WaitInv' /\ WalkInv'
  BY <1>2, <1>3, <1>4, EndsNone, RestingStep DEF PoliteInv
<1>6. StackInv' /\ EdgesInv'
  BY <1>1, <1>3, <1>4 DEF StackInv, EdgesInv
<1>7. ConnInv'
  BY <1>3, <1>4, EndsNone DEF ConnInv
<1> QED  BY <1>3, <1>5, <1>6, <1>7 DEF PoliteInv

\* disconnect outside of callbacks
LEMMA DisconnectStep ==
    ASSUME TypeInv, PoliteInv, polite', Disconnect
    PROVE  PoliteInv'
<1>1. stack = <<>> /\ ~freed /\ conn = "connected" /\ CloseConnection(<<>>)
  BY DEF Disconnect, Nested
<1>2. ~joining /\ connects # 0
  BY <1>1 DEF PoliteInv, ConnInv, EdgesInv
<1>3. ~joining' /\ ~freed' /\ connects' # 0 /\ late' = late
  BY <1>1, <1>2 DEF Disconnect
<1> QED  BY <1>1, <1>3, CloseNow

\* delete when nothing is in use
LEMMA DeleteCallStep ==
    ASSUME TypeInv, PoliteInv, polite', Delete
    PROVE  PoliteInv'
<1>1. /\ stack = <<>> /\ ~freed /\ sock = "none" /\ timer = "none" /\ ~(writes > 0)
      /\ CloseConnection(<<Frame("delete", 0)>> \o <<>>)
  BY DEF Delete, Nested, InUse
<1>2. Innermost.f = "none" /\ writes = 0
  BY <1>1, Inner, FrameTypes DEF TypeInv
<1>3. conn = "disconnected"
  BY <1>1, <1>2 DEF PoliteInv, ConnInv
<1>4. /\ stack' = <<Frame("delete", 0)>>
      /\ UNCHANGED <<conn, sock, timer, pending, listed, asked, died>>
  BY <1>1, <1>3, InARow DEF CloseConnection
<1>5. Innermost'.f = "delete" /\ Frame("delete", 0) \in Frames
  BY <1>4, InnerNext, FrameTypes
<1>6. UNCHANGED <<joining, writes, freed, connects, late>>
  BY DEF Delete
<1>7. WaitInv' /\ WalkInv'
  BY <1>2, <1>4, <1>5, <1>6, EndsNone, RestingStep DEF PoliteInv
<1>8. StackInv'
  BY <1>4, <1>5 DEF StackInv
<1>9. EdgesInv'
  BY <1>1, <1>2, <1>3, <1>4, <1>5, <1>6 DEF EdgesInv, PoliteInv
<1>10. ConnInv'
  BY <1>3, <1>4, <1>5, <1>6, EndsNone DEF ConnInv, PoliteInv
<1> QED  BY <1>4, <1>7, <1>8, <1>9, <1>10 DEF PoliteInv

\* What is left of delete
LEMMA DeletedStep ==
    ASSUME TypeInv, PoliteInv, Deleted
    PROVE  PoliteInv'
<1>1. Innermost.f = "delete"
  BY DEF Deleted
<1>2. stack # <<>>
  BY <1>1, Inner, FrameTypes
<1>3. stack' = <<>> /\ ~freed /\ ~died'
  BY <1>1, <1>2, Alone DEF Deleted, PoliteInv, EdgesInv
<1>4. Innermost'.f = "none"
  BY <1>3, InnerNext, FrameTypes
<1>5. UNCHANGED <<conn, sock, timer, joining, pending, listed, writes, connects, asked, late>>
  BY DEF Deleted
<1>6. WaitInv' /\ WalkInv'
  BY <1>1, <1>4, <1>5, EndsNone, RestingStep DEF PoliteInv
<1>7. StackInv' /\ EdgesInv'
  BY <1>1, <1>3, <1>4, <1>5 DEF StackInv, EdgesInv, PoliteInv
<1>8. ConnInv'
  BY <1>1, <1>4, <1>5, EndsNone DEF ConnInv, PoliteInv, EdgesInv
<1> QED  BY <1>3, <1>6, <1>7, <1>8 DEF PoliteInv

\* The list with one more request, which was not sent before
LEMMA WaitAppended ==
    ASSUME TypeInv, WaitInv, WalkInv,
           Innermost' = Innermost \/ (~EndsRequest /\ ~EndsRequest'),
           NEW q \in ids, asked[q] = "unsent",
           pending' = Append(pending, q), asked' = [asked EXCEPT ![q] = "open"],
           late \subseteq late', Innermost.f = "cancel" /\ Innermost.last => q \in late'
    PROVE  WaitInv' /\ WalkInv'
<1>0. PICK n \in Nat : n = Len(pending)
  BY LenProperties DEF TypeInv
<1>1. /\ n \in Nat /\ Len(pending') = n + 1 /\ pending'[n + 1] = q
      /\ \A i \in 1..n : pending'[i] = pending[i] /\ pending[i] \in ids
  BY <1>0, ElementOfSeq, AppendProperties DEF TypeInv
<1>2. asked'[q] = "open" /\ \A r \in ids : r # q => asked'[r] = asked[r]
  BY DEF TypeInv
<1>3. \A i \in 1..n : pending[i] # q
  BY <1>0 DEF WaitInv
<1>4. \A i \in 1..(n + 1) : i \in 1..n \/ i = n + 1
  BY <1>1
<1>5. \A i \in 1..n : i \in 1..(n + 1) /\ i # n + 1
  BY <1>1
<1>6. n + 1 \in 1..(n + 1)
  BY <1>1
<1>7. \A i \in 1..n : Over(i)' <=> Over(i)
  BY <1>1 DEF Over, EndsRequest
<1>8. ~Over(n + 1)'
  <2>1. CASE Innermost' = Innermost
    <3>1. Innermost.f = "response" /\ Innermost.last => Innermost.r # q
      BY <1>0, <1>3 DEF WalkInv, Contains
    <3>2. Innermost.f = "cancel" => Innermost.r \in 1..n /\ ~(n + 1 <= Innermost.r)
      BY <1>0 DEF WalkInv
    <3> QED  BY <1>1, <2>1, <3>1, <3>2 DEF Over
  <2>2. CASE ~EndsRequest'
    BY <2>2 DEF Over, EndsRequest
  <2> QED  BY <2>1, <2>2
<1>9. \A i, j \in 1..(n + 1) : pending'[i] = pending'[j] => i = j
  <2>1. \A i, j \in 1..n : pending[i] = pending[j] => i = j
    BY <1>0 DEF WaitInv
  <2> QED  BY <1>1, <1>3, <1>4, <2>1
<1>10. \A i \in 1..(n + 1) :
          asked'[pending'[i]] = IF Over(i)' THEN "ended" ELSE "open"
  <2>1. \A i \in 1..n : asked[pending[i]] = IF Over(i) THEN "ended" ELSE "open"
    BY <1>0 DEF WaitInv
  <2>2. \A i \in 1..n : asked'[pending'[i]] = asked[pending[i]]
    BY <1>1, <1>2, <1>3
  <2>3. \A i \in 1..n : asked'[pending'[i]] = IF Over(i)' THEN "ended" ELSE "open"
    BY <1>7, <2>1, <2>2
  <2>4. asked'[pending'[n + 1]] = "open"
    BY <1>1, <1>2
  <2>5. ASSUME NEW i \in 1..(n + 1), i = n + 1
        PROVE  asked'[pending'[i]] = IF Over(i)' THEN "ended" ELSE "open"
    <3>1. ~Over(i)'
      BY <1>8, <2>5
    <3> QED  BY <2>4, <2>5, <3>1
  <2> QED  BY <1>4, <2>3, <2>5
<1>11. \A r \in ids : Contains(pending, r) => Contains(pending, r)'
  <2> SUFFICES ASSUME NEW r \in ids, NEW i \in 1..n, pending[i] = r
               PROVE  \E j \in 1..(n + 1) : pending'[j] = r
    BY <1>0, <1>1 DEF Contains
  <2> QED  BY <1>1, <1>5
<1>12. Contains(pending, q)'
  BY <1>1, <1>6 DEF Contains
<1>13. WaitInv'
  <2>1. \A r \in ids : asked'[r] = "open" => Contains(pending, r)' \/ r \in late'
    BY <1>2, <1>11, <1>12 DEF WaitInv
  <2>2. \A r \in ids : asked'[r] # "told too often"
    BY <1>2 DEF WaitInv
  <2> QED  BY <1>1, <1>9, <1>10, <2>1, <2>2 DEF WaitInv
<1>14. WalkInv'
  <2>1. ASSUME Innermost.f = "response", Innermost.last
        PROVE  \E i \in 1..(n + 1) : pending'[i] = Innermost.r
    <3>1. PICK i \in 1..n : pending[i] = Innermost.r
      BY <1>0, <2>1 DEF WalkInv, Contains
    <3> QED  BY <1>1, <1>5, <3>1
  <2>2. ASSUME Innermost.f = "cancel"
        PROVE  /\ Innermost.r \in 1..(n + 1) /\ Innermost.r # n + 1
               /\ Innermost.last =>
                     \A i \in 1..(n + 1) : i <= Innermost.r \/ pending'[i] \in late'
    <3>1. /\ Innermost.r \in 1..n
          /\ Innermost.last => \A i \in 1..n : i <= Innermost.r \/ pending[i] \in late
      BY <1>0, <2>2 DEF WalkInv
    <3>2. ASSUME Innermost.last, NEW i \in 1..(n + 1)
          PROVE  i <= Innermost.r \/ pending'[i] \in late'
      <4>1. CASE i \in 1..n
        BY <1>1, <3>1, <3>2, <4>1
      <4>2. CASE i = n + 1
        BY <1>1, <2>2, <3>2, <4>2
      <4> QED  BY <1>4, <4>1, <4>2
    <3> QED  BY <1>5, <3>1, <3>2
  <2>3. CASE Innermost' = Innermost
    BY <1>1, <2>1, <2>2, <2>3 DEF WalkInv, Contains
  <2>4. CASE ~EndsRequest'
    BY <2>4 DEF WalkInv, EndsRequest
  <2> QED  BY <2>3, <2>4
<1> QED  BY <1>13, <1>14

\* The stack of an application that calls while there is a connection
LEMMA AppStack ==
    ASSUME TypeInv, PoliteInv, AppRuns, conn = "connected"
    PROVE  Innermost.f # "delete" /\ connects # 0 /\ ~joining /\ listed /\ ~freed
<1>1. Innermost.f # "delete"
  BY DEF AppRuns, Callbacks
<1> QED  BY <1>1 DEF PoliteInv, EdgesInv, ConnInv

\* A call that sends and ends no request may find its connection closed when it goes on.
LEMMA Senders ==
    ASSUME TypeInv, PoliteInv, AppRuns, conn = "connected", ~EndsRequest
    PROVE  Under(stack)
<1>1. CASE stack = <<>>
  BY <1>1 DEF Under
<1>2. CASE stack # <<>>
  <2>1. Innermost.f \in {"connected", "response"} /\ Innermost \in Frames
    <3>1. Innermost \in Frames
      BY <1>2, Alone DEF PoliteInv
    <3>2. Innermost.f \in Calls /\ Innermost.f \notin {"cancel", "lost", "answer"}
      BY <3>1 DEF Frames, PoliteInv, ConnInv, EndsRequest
    <3> QED  BY <3>1, <3>2 DEF AppRuns, Calls, Callbacks
  <2>2. stack = <<Innermost>>
    BY <1>2, <2>1, Alone DEF PoliteInv
  <2>3. Innermost \in Outers
    BY <2>1 DEF Outers, EndsRequest
  <2> QED  BY <2>2, <2>3 DEF Under
<1> QED  BY <1>1, <1>2

\* What a write makes of the stack
LEMMA Written ==
    ASSUME ~starved', NEW k, WriteMessage(k)
    PROVE  \/ stack' = k
           \/ stack' = <<Frame("unsent", 0)>> \o k /\ ~EndsRequest
BY DEF WriteMessage

\* A request, from outside or from a callback
LEMMA RequestStep ==
    ASSUME TypeInv, PoliteInv, ~starved', NEW q \in ids, Request(q)
    PROVE  PoliteInv'
<1>1. /\ conn = "connected" /\ asked[q] = "unsent" /\ AppRuns /\ WriteMessage(stack)
      /\ pending' = Append(pending, q)
      /\ asked' = [asked EXCEPT ![q] = "open"]
      /\ late \subseteq late' /\ (Innermost.f = "cancel" /\ Innermost.last => q \in late')
  BY DEF Request
<1>2. Innermost.f # "delete" /\ connects # 0 /\ ~joining /\ listed /\ ~freed
  BY <1>1, AppStack
<1>3. ~died' /\ UNCHANGED <<conn, sock, timer, joining, listed, freed, connects>>
  BY <1>2 DEF Request
<1>4. CASE stack' = stack
  <2>1. Innermost' = Innermost
    BY <1>4 DEF Innermost
  <2>2. EndsRequest' <=> EndsRequest
    BY <2>1 DEF EndsRequest
  <2>3. WaitInv' /\ WalkInv'
    BY <1>1, <2>1, WaitAppended DEF PoliteInv
  <2>4. StackInv'
    BY <1>4 DEF PoliteInv, StackInv
  <2>5. EdgesInv'
    BY <1>1, <1>2, <1>3, <2>1 DEF EdgesInv
  <2>6. ConnInv'
    BY <1>1, <1>2, <1>3, <2>1, <2>2 DEF ConnInv, PoliteInv
  <2> QED  BY <1>3, <2>3, <2>4, <2>5, <2>6 DEF PoliteInv
<1>5. CASE stack' = <<Frame("unsent", 0)>> \o stack /\ ~EndsRequest
  <2>1. Under(stack)
    BY <1>1, <1>5, Senders
  <2>2. sock = "open"
    BY <1>1, <1>5 DEF PoliteInv, ConnInv, EndsRequest
  <2>3. StackInv' /\ EdgesInv' /\ ConnInv' /\ ~EndsRequest'
    BY <1>1, <1>2, <1>3, <1>5, <2>1, <2>2, PushStep
  <2>4. WaitInv' /\ WalkInv'
    BY <1>1, <1>5, <2>3, WaitAppended DEF PoliteInv
  <2> QED  BY <1>3, <2>3, <2>4 DEF PoliteInv
<1> QED  BY <1>1, <1>4, <1>5, Written

-----------------------------------------------------------------------------
(***************************************************************************)
(* Steps that leave the list alone                                         *)
(***************************************************************************)

\* The stack, the list and the state of the connection stay as they are.
LEMMA SameCalls ==
    ASSUME PoliteInv, ~died', UNCHANGED <<stack, pending, asked, late>>
    PROVE  StackInv' /\ WaitInv' /\ WalkInv' /\ Innermost' = Innermost
<1>1. Innermost' = Innermost
  BY DEF Innermost
<1>2. \A i : Over(i)' <=> Over(i)
  BY <1>1 DEF Over
<1>3. WaitInv'
  BY <1>2 DEF PoliteInv, WaitInv, Contains
<1>4. WalkInv'
  BY <1>1 DEF PoliteInv, WalkInv, Contains
<1> QED  BY <1>1, <1>3, <1>4 DEF PoliteInv, StackInv

\* The same with a connection that is not lost
LEMMA Unmoved ==
    ASSUME TypeInv, PoliteInv, ~died',
           UNCHANGED <<stack, pending, asked, conn, sock, timer, joining, listed, freed, connects,
                       late>>,
           writes' = writes \/ (conn = "connected" /\ AppRuns)
    PROVE  PoliteInv'
<1>1. StackInv' /\ WaitInv' /\ WalkInv' /\ Innermost' = Innermost
  BY SameCalls
<1>2. conn = "connected" /\ AppRuns => Innermost.f # "delete" /\ connects # 0 /\ ~freed
  BY AppStack
<1>3. EdgesInv'
  BY <1>1, <1>2 DEF PoliteInv, EdgesInv
<1>4. ConnInv'
  BY <1>1 DEF PoliteInv, ConnInv, EndsRequest
<1> QED  BY <1>1, <1>3, <1>4 DEF PoliteInv

\* The application sends without a callback.
LEMMA ForgetStep ==
    ASSUME TypeInv, PoliteInv, ~starved', RequestForget
    PROVE  PoliteInv'
<1>1. /\ conn = "connected" /\ AppRuns /\ WriteMessage(stack)
      /\ UNCHANGED <<pending, asked, conn, sock, timer, joining, listed, freed, connects, late,
                     died>>
  BY DEF RequestForget
<1>2. connects # 0 /\ ~joining /\ listed /\ ~freed
  BY <1>1, AppStack
<1>3. CASE stack' = stack
  BY <1>1, <1>3, Unmoved DEF PoliteInv
<1>4. CASE stack' = <<Frame("unsent", 0)>> \o stack /\ ~EndsRequest
  <2>1. Under(stack)
    BY <1>1, <1>4, Senders
  <2>2. sock = "open"
    BY <1>1, <1>4 DEF PoliteInv, ConnInv, EndsRequest
  <2>3. StackInv' /\ EdgesInv' /\ ConnInv' /\ ~EndsRequest'
    BY <1>1, <1>2, <1>4, <2>1, <2>2, PushStep
  <2>4. WaitInv' /\ WalkInv'
    BY <1>1, <1>4, <2>3, RestingStep DEF PoliteInv
  <2> QED  BY <1>1, <2>3, <2>4 DEF PoliteInv
<1> QED  BY <1>1, <1>3, <1>4, Written

\* No call is in progress when the loop calls back.
LEMMA LoopStack ==
    ASSUME stack = <<>>
    PROVE  Innermost.f = "none" /\ ~EndsRequest /\ Innermost.f # "delete"
<1>1. Innermost.f = "none"
  BY Inner, FrameTypes
<1> QED  BY <1>1, EndsNone

\* connect_cb finds that there is no connection.
LEMMA ConnectFailsStep ==
    ASSUME TypeInv, PoliteInv, ConnectFails
    PROVE  PoliteInv'
<1>1. stack = <<>> /\ joining /\ ~joining' /\ ~freed /\ UNCHANGED <<freed, connects, late>>
  BY DEF ConnectFails, LoopRuns
<1>2. conn = "connecting" /\ connects # 0 /\ ~EndsRequest
  BY <1>1, LoopStack DEF PoliteInv, ConnInv, EdgesInv
<1>3. ASSUME NEW k, k = <<Frame("answer", 0)>>, CloseConnection(k)
      PROVE  PoliteInv'
  <2>1. Frame("answer", 0) \in Outers
    BY FrameTypes DEF Outers
  <2>2. Under(k)
    BY <1>3, <2>1 DEF Under
  <2> QED  BY <1>1, <1>2, <1>3, <2>2, CloseStep
<1> QED  BY <1>3 DEF ConnectFails

\* connect_cb finds a connection; the list is empty.
LEMMA ConnectedStep ==
    ASSUME TypeInv, PoliteInv, ~starved', Connected
    PROVE  PoliteInv'
<1>1. /\ stack = <<>> /\ joining /\ ~joining' /\ ~freed /\ conn' = "connected"
      /\ WriteMessage(<<Frame("connected", 0)>>)
      /\ UNCHANGED <<sock, pending, listed, freed, connects, asked, late, died>>
  BY DEF Connected, LoopRuns
<1>2. conn = "connecting" /\ connects # 0
  BY <1>1 DEF PoliteInv, ConnInv, EdgesInv
<1>3. Innermost.f = "none" /\ ~EndsRequest
  BY <1>1, LoopStack
<1>4. sock = "open" /\ listed
  BY <1>2, <1>3 DEF PoliteInv, ConnInv
<1>5. CASE stack' = <<Frame("connected", 0)>>
  <2>1. Innermost'.f = "connected" /\ Frame("connected", 0) \in Frames /\ ~EndsRequest'
    BY <1>5, InnerNext, FrameTypes, EndsNone
  <2>2. WaitInv' /\ WalkInv'
    BY <1>1, <1>3, <2>1, RestingStep DEF PoliteInv
  <2>3. StackInv' /\ EdgesInv'
    BY <1>1, <1>2, <1>5, <2>1 DEF StackInv, EdgesInv
  <2>4. ConnInv'
    BY <1>1, <1>4, <2>1 DEF ConnInv
  <2> QED  BY <1>1, <2>2, <2>3, <2>4 DEF PoliteInv
<1>6. ASSUME NEW k, k = <<Frame("connected", 0)>>, stack' = <<Frame("unsent", 0)>> \o k
      PROVE  PoliteInv'
  <2>1. Frame("connected", 0) \in Outers
    BY FrameTypes DEF Outers
  <2>2. Under(k)
    BY <1>6, <2>1 DEF Under
  <2>3. StackInv' /\ EdgesInv' /\ ConnInv' /\ ~EndsRequest'
    BY <1>1, <1>2, <1>4, <1>6, <2>2, PushStep
  <2>4. WaitInv' /\ WalkInv'
    BY <1>1, <1>3, <2>3, RestingStep DEF PoliteInv
  <2> QED  BY <1>1, <2>3, <2>4 DEF PoliteInv
<1>7. \/ stack' = <<Frame("connected", 0)>>
      \/ stack' = <<Frame("unsent", 0)>> \o <<Frame("connected", 0)>>
  BY <1>1 DEF WriteMessage
<1> QED  BY <1>5, <1>6, <1>7

\* The connection cannot be read from.
LEMMA ReadFailsStep ==
    ASSUME TypeInv, PoliteInv, ReadFails
    PROVE  PoliteInv'
<1>1. /\ stack = <<>> /\ joining /\ ~joining' /\ ~freed /\ conn' = "disconnected"
      /\ stack' = <<Frame("answer", 0)>>
      /\ UNCHANGED <<timer, pending, freed, connects, asked, late, died>>
  BY DEF ReadFails, LoopRuns
<1>2. conn = "connecting" /\ connects # 0
  BY <1>1 DEF PoliteInv, ConnInv, EdgesInv
<1>3. ~EndsRequest
  BY <1>1, LoopStack
<1>4. Innermost'.f = "answer" /\ Frame("answer", 0) \in Frames /\ ~EndsRequest'
  BY <1>1, InnerNext, FrameTypes, EndsNone
<1>5. WaitInv' /\ WalkInv'
  BY <1>1, <1>3, <1>4, RestingStep DEF PoliteInv
<1>6. StackInv' /\ EdgesInv'
  BY <1>1, <1>2, <1>4 DEF StackInv, EdgesInv
<1>7. ConnInv'
  BY <1>1, <1>2, <1>4 DEF PoliteInv, ConnInv
<1> QED  BY <1>1, <1>5, <1>6, <1>7 DEF PoliteInv

\* A write is over, well or not.
LEMMA WriteDoneStep ==
    ASSUME TypeInv, PoliteInv, NEW ok \in BOOLEAN, WriteDone(ok)
    PROVE  PoliteInv'
<1>1. /\ stack = <<>> /\ ~freed /\ writes > 0 /\ UNCHANGED <<joining, freed, connects, late>>
      /\ writes' = writes - 1
      /\ UNCHANGED closeVars \/ CloseConnection(<<>>)
  BY DEF WriteDone, LoopRuns
<1>2. writes # 0
  BY <1>1 DEF TypeInv
<1>3. conn # "connecting" /\ connects # 0 /\ ~joining
  BY <1>2 DEF PoliteInv, ConnInv, EdgesInv
<1>4. CASE CloseConnection(<<>>)
  BY <1>1, <1>3, <1>4, CloseNow
<1>5. CASE UNCHANGED closeVars
  <2>1. UNCHANGED <<conn, sock, timer, pending, listed, asked, lost, died, stack>>
    BY <1>5 DEF closeVars
  <2>2. StackInv' /\ WaitInv' /\ WalkInv' /\ Innermost' = Innermost
    BY <1>1, <2>1, SameCalls DEF PoliteInv
  <2>3. Innermost.f # "delete"
    BY <1>1, LoopStack
  <2>4. EdgesInv'
    BY <1>1, <1>3, <2>1, <2>2, <2>3 DEF EdgesInv
  <2>5. ConnInv'
    BY <1>1, <1>3, <2>1, <2>2 DEF PoliteInv, ConnInv, EndsRequest
  <2> QED  BY <2>1, <2>2, <2>4, <2>5 DEF PoliteInv
<1> QED  BY <1>1, <1>4, <1>5

\* The timer ends the connection or sends.
LEMMA KeepaliveStep ==
    ASSUME TypeInv, PoliteInv, ~starved', KeepaliveTimer
    PROVE  PoliteInv'
<1>1. stack = <<>> /\ ~freed /\ timer = "open" /\ UNCHANGED <<joining, freed, connects, late>>
  BY DEF KeepaliveTimer, LoopRuns
<1>2. conn = "connected" /\ connects # 0 /\ ~joining /\ ~EndsRequest
  BY <1>1, LoopStack DEF PoliteInv, ConnInv, EdgesInv
<1>3. CASE TimedOut
  <2>1. CloseConnection(<<>>)
    BY <1>3 DEF KeepaliveTimer
  <2> QED  BY <1>1, <1>2, <2>1, CloseNow
<1>4. CASE ~TimedOut
  <2>1. /\ UNCHANGED <<conn, sock, timer, pending, listed, asked, lost, died>>
        /\ WriteMessage(<<>>)
    BY <1>4 DEF KeepaliveTimer
  <2>2. CASE stack' = <<>>
    <3>1. AppRuns /\ UNCHANGED <<stack, conn, sock, timer, pending, listed, asked, died>>
      BY <1>1, <2>1, <2>2, LoopStack DEF AppRuns
    <3> QED  BY <1>1, <1>2, <3>1, Unmoved DEF PoliteInv
  <2>3. ASSUME NEW k, k = <<>>, stack' = <<Frame("unsent", 0)>> \o k
        PROVE  PoliteInv'
    <3>1. sock = "open" /\ listed
      BY <1>2 DEF PoliteInv, ConnInv, EndsRequest
    <3>2. StackInv' /\ EdgesInv' /\ ConnInv' /\ ~EndsRequest'
      BY <1>1, <1>2, <2>1, <2>3, <3>1, PushStep DEF Under
    <3>3. WaitInv' /\ WalkInv'
      BY <1>1, <1>2, <2>1, <3>2, RestingStep DEF PoliteInv
    <3> QED  BY <2>1, <3>2, <3>3 DEF PoliteInv
  <2>4. stack' = <<>> \/ stack' = <<Frame("unsent", 0)>> \o <<>>
    BY <2>1 DEF WriteMessage
  <2> QED  BY <2>2, <2>3, <2>4
<1> QED  BY <1>3, <1>4

\* The input ends.
LEMMA ReadEndsStep ==
    ASSUME TypeInv, PoliteInv, ReadEnds
    PROVE  PoliteInv'
<1>1. /\ stack = <<>> /\ ~freed /\ conn = "connected" /\ CloseConnection(<<>>)
      /\ UNCHANGED <<joining, freed, connects, late>>
  BY DEF ReadEnds, Reads, LoopRuns, restOf
<1>2. connects # 0 /\ ~joining
  BY <1>1 DEF PoliteInv, ConnInv, EdgesInv
<1> QED  BY <1>1, <1>2, CloseNow

\* The server is alive.
LEMMA ReadKeepaliveStep ==
    ASSUME TypeInv, PoliteInv, ReadKeepalive
    PROVE  PoliteInv'
BY Unmoved DEF ReadKeepalive, closeVars, PoliteInv

\* libuv is done with a handle.
LEMMA HandleClosesStep ==
    ASSUME TypeInv, PoliteInv, HandleCloses
    PROVE  PoliteInv'
<1>1. /\ stack = <<>> /\ died' = freed
      /\ UNCHANGED <<conn, pending, listed, asked, stack, joining, writes, freed, connects, late>>
      /\ \/ sock = "closing" /\ sock' = "none" /\ UNCHANGED timer
         \/ timer = "closing" /\ timer' = "none" /\ UNCHANGED sock
  BY DEF HandleCloses, restOf
<1>2. ~freed /\ connects # 0
  BY <1>1 DEF PoliteInv, EdgesInv
<1>3. StackInv' /\ WaitInv' /\ WalkInv' /\ Innermost' = Innermost
  BY <1>1, <1>2, SameCalls
<1>4. Innermost.f = "none"
  BY <1>1, LoopStack
<1>5. EdgesInv'
  BY <1>1, <1>2, <1>3, <1>4 DEF EdgesInv
<1>6. ConnInv'
  BY <1>1, <1>3, <1>4 DEF PoliteInv, ConnInv, EndsRequest
<1> QED  BY <1>1, <1>2, <1>3, <1>5, <1>6 DEF PoliteInv

\* A deleted client has nothing that could call back.
LEMMA NoFreedCall ==
    ASSUME TypeInv, PoliteInv, CalledBackFreed
    PROVE  FALSE
<1>1. freed /\ (joining \/ writes > 0 \/ sock = "open" \/ timer = "open")
  BY DEF CalledBackFreed
<1>2. sock = "none" /\ timer = "none" /\ writes = 0 /\ conn = "disconnected"
  BY <1>1 DEF PoliteInv, EdgesInv
<1>3. ~joining /\ ~(writes > 0)
  BY <1>2 DEF PoliteInv, ConnInv
<1> QED  BY <1>1, <1>2, <1>3

-----------------------------------------------------------------------------
(***************************************************************************)
(* Callbacks about requests                                                *)
(***************************************************************************)

\* What is known in the callback of a request
LEMMA WalkState ==
    ASSUME TypeInv, PoliteInv, Innermost.f \in {"cancel", "response"}
    PROVE  /\ conn # "connecting" /\ ~joining /\ ~freed /\ connects # 0
           /\ Innermost \in Frames /\ Under(Tail(stack))
           /\ stack # <<>> /\ 1 \in DOMAIN stack /\ stack[1] = Innermost
           /\ Innermost.f = "response" => Tail(stack) = <<>>
<1>1. stack # <<>>
  BY LoopStack
<1>2. Innermost.f # "delete"
  OBVIOUS
<1>3. conn # "connecting" /\ ~joining /\ ~freed /\ connects # 0
  BY <1>1, <1>2 DEF PoliteInv, ConnInv, EdgesInv
<1> QED  BY <1>1, <1>3, Alone DEF PoliteInv

\* A callback that was told of the end of its request returns.
LEMMA CancelledStep ==
    ASSUME TypeInv, PoliteInv, Cancelled
    PROVE  PoliteInv'
<1>1. /\ Innermost.f = "cancel" /\ died' = died
      /\ UNCHANGED <<sock, timer, joining, freed, connects, late>>
  BY DEF Cancelled, restOf
<1>2. /\ conn = "connected" /\ listed /\ ~joining /\ ~freed /\ connects # 0
      /\ Innermost \in Frames /\ Under(Tail(stack))
  BY <1>1, WalkState DEF EndsRequest, PoliteInv, ConnInv
<1>3. /\ Innermost.r \in 1..Len(pending)
      /\ Innermost.last => \A i \in 1..Len(pending) : i <= Innermost.r \/ pending[i] \in late
      /\ Innermost.last \/ Innermost.r # Len(pending)
      /\ sock # "open" /\ timer # "open"
  BY <1>1 DEF PoliteInv, WalkInv, ConnInv
<1>4. PICK n \in Nat : n = Len(pending)
  BY LenProperties DEF TypeInv
<1>5. PICK k \in 1..n : k = Innermost.r
  BY <1>3, <1>4
<1>6. \A i \in 1..n : asked[pending[i]] = IF i <= k THEN "ended" ELSE "open"
  <2>1. \A i : Over(i) <=> i <= k
    BY <1>1, <1>5 DEF Over
  <2> QED  BY <1>4, <2>1 DEF PoliteInv, WaitInv
<1>7. CASE Innermost.last
  <2>1. \A i \in 1..n : i <= k \/ pending[i] \in late
    BY <1>3, <1>4, <1>5, <1>7
  <2>2. \A i \in 1..n : asked[pending[i]] = "ended" \/ pending[i] \in late
    BY <1>6, <2>1
  <2>3. Lost(Tail(stack))
    BY <1>7 DEF Cancelled
  <2> QED  BY <1>1, <1>2, <1>3, <1>4, <2>2, <2>3, LossStep DEF PoliteInv
<1>8. CASE ~Innermost.last
  <2>1. k # n
    BY <1>3, <1>4, <1>5, <1>8
  <2>2. k + 1 \in 1..n /\ \A i \in 1..n : i <= k <=> i < k + 1
    BY <2>1
  <2>3. \A i \in 1..n : asked[pending[i]] = IF i < k + 1 THEN "ended" ELSE "open"
    BY <1>6, <2>2
  <2>4. CancelFrom(k + 1, Tail(stack))
    BY <1>5, <1>8 DEF Cancelled
  <2>5. ASSUME NEW j \in 1..n, j = k + 1 PROVE PoliteInv'
    <3>1. /\ CancelFrom(j, Tail(stack)) /\ j \in 1..Len(pending)
          /\ \A i \in 1..Len(pending) :
                asked[pending[i]] = IF i < j THEN "ended" ELSE "open"
      BY <1>4, <2>3, <2>4, <2>5
    <3>2. /\ sock' # "open" /\ timer' # "open" /\ late' = late
          /\ ~died' /\ ~joining' /\ ~freed' /\ connects' # 0
      BY <1>1, <1>2, <1>3 DEF PoliteInv
    <3> QED  BY <1>2, <3>1, <3>2, CancelStep DEF PoliteInv
  <2> QED  BY <2>2, <2>5
<1> QED  BY <1>7, <1>8

\* An answer to a request of the list
LEMMA AnswerStep ==
    ASSUME TypeInv, PoliteInv, stack = <<>>, conn = "connected", sock = "open",
           NEW r \in ids, Contains(pending, r), NEW final \in BOOLEAN, Told(r, final),
           stack' = <<[f |-> "response", r |-> r, last |-> final]>>,
           UNCHANGED <<conn, sock, timer, joining, pending, listed, writes, freed, connects, late,
                       died>>
    PROVE  PoliteInv'
<1> DEFINE x == [f |-> "response", r |-> r, last |-> final]
<1>1. x \in Frames
  <2>1. r \in Nat
    BY BoundsAssumption DEF ids
  <2> QED  BY <2>1 DEF Frames, Calls, Callbacks
<1>2. Innermost' = x
  BY InnerNext
<1>3. Innermost'.f = "response" /\ Innermost'.r = r /\ (Innermost'.last <=> final)
  BY <1>2
<1>4. \A i \in 1..Len(pending) : asked[pending[i]] = "open"
  BY LoopStack, Resting DEF PoliteInv
<1>5. asked[r] = "open"
  BY <1>4 DEF Contains
<1>6. /\ asked'[r] = IF final THEN "ended" ELSE "open"
      /\ \A q \in ids : q # r => asked'[q] = asked[q]
  BY <1>5 DEF Told, TypeInv
<1>7. \A i \in 1..Len(pending) : pending[i] \in ids
  BY ElementOfSeq DEF TypeInv
<1>8. \A i \in 1..Len(pending) : Over(i)' <=> final /\ pending[i] = r
  BY <1>3 DEF Over
<1>9. \A i \in 1..Len(pending) :
          asked'[pending[i]] = IF Over(i)' THEN "ended" ELSE "open"
  <2> TAKE i \in 1..Len(pending)
  <2>1. CASE pending[i] = r
    BY <1>6, <1>8, <2>1
  <2>2. CASE pending[i] # r
    BY <1>4, <1>6, <1>7, <1>8, <2>2
  <2> QED  BY <2>1, <2>2
<1>10. \A q \in ids : /\ asked'[q] = "open" => asked[q] = "open"
                      /\ asked'[q] # "told too often"
  BY <1>5, <1>6 DEF PoliteInv, WaitInv
<1>11. WaitInv'
  BY <1>9, <1>10 DEF PoliteInv, WaitInv, Contains
<1>12. WalkInv'
  BY <1>3 DEF WalkInv, Contains
<1>13. StackInv'
  BY <1>1 DEF StackInv, Outers
<1>14. EdgesInv'
  BY <1>3 DEF PoliteInv, EdgesInv
<1>15. ConnInv'
  BY <1>3 DEF PoliteInv, ConnInv
<1> QED  BY <1>11, <1>12, <1>13, <1>14, <1>15 DEF PoliteInv

\* Any answer
LEMMA ReadResponseStep ==
    ASSUME TypeInv, PoliteInv, NEW r \in ids, NEW final \in BOOLEAN, NEW valid \in BOOLEAN,
           NEW byte \in BOOLEAN, ReadResponse(r, final, valid, byte)
    PROVE  PoliteInv'
<1>1. /\ stack = <<>> /\ conn = "connected" /\ sock = "open"
      /\ UNCHANGED <<conn, sock, timer, joining, pending, listed, writes, freed, connects, late,
                     died>>
  BY DEF ReadResponse, Reads, LoopRuns
<1>2. CASE Contains(pending, r)
  <2>1. FlagsOf(valid, byte).final \in BOOLEAN
    BY DEF FlagsOf
  <2>2. /\ Told(r, FlagsOf(valid, byte).final)
        /\ stack' = <<[f |-> "response", r |-> r, last |-> FlagsOf(valid, byte).final]>>
    BY <1>2 DEF ReadResponse
  <2> QED  BY <1>1, <1>2, <2>1, <2>2, AnswerStep
<1>3. CASE ~Contains(pending, r)
  <2>1. UNCHANGED <<asked, stack>>
    BY <1>3 DEF ReadResponse
  <2> QED  BY <1>1, <2>1, Unmoved DEF PoliteInv
<1> QED  BY <1>2, <1>3

\* A list that loses the one request that has ended holds the open ones.
LEMMA WaitRemoved ==
    ASSUME TypeInv, WaitInv, NEW p \in 1..Len(pending), pending' = RemoveAt(pending, p),
           \A i \in 1..Len(pending) : asked[pending[i]] = IF i = p THEN "ended" ELSE "open",
           asked' = asked, late' = late, ~EndsRequest'
    PROVE  WaitInv' /\ WalkInv'
<1>1. PICK n \in Nat : n = Len(pending)
  BY LenProperties DEF TypeInv
<1>2. /\ Len(pending') = n - 1
      /\ \A i \in 1..(n - 1) : pending'[i] = IF i < p THEN pending[i] ELSE pending[i + 1]
  BY <1>1, RemoveAtProperties DEF TypeInv
<1>3. p \in 1..n
  BY <1>1
<1>4. PICK from \in [1..(n - 1) -> 1..n] :
         \A i \in 1..(n - 1) : from[i] = IF i < p THEN i ELSE i + 1
  <2>1. \A i \in 1..(n - 1) : (IF i < p THEN i ELSE i + 1) \in 1..n
    BY <1>3
  <2> DEFINE f == [i \in 1..(n - 1) |-> IF i < p THEN i ELSE i + 1]
  <2>2. f \in [1..(n - 1) -> 1..n]
    BY <2>1
  <2>3. \A i \in 1..(n - 1) : f[i] = IF i < p THEN i ELSE i + 1
    OBVIOUS
  <2> QED  BY <2>2, <2>3
<1>5. /\ \A i \in 1..(n - 1) : from[i] \in 1..n /\ from[i] # p
      /\ \A i, j \in 1..(n - 1) : from[i] = from[j] => i = j
      /\ \A j \in 1..n : j # p => \E i \in 1..(n - 1) : from[i] = j
  <2>1. \A i \in 1..(n - 1) : from[i] # p
    BY <1>3, <1>4
  <2>2. \A i, j \in 1..(n - 1) : from[i] = from[j] => i = j
    BY <1>3, <1>4, SMTT(30)
  <2>3. ASSUME NEW j \in 1..n, j # p PROVE \E i \in 1..(n - 1) : from[i] = j
    <3>1. CASE j < p
      <4>1. j \in 1..(n - 1)
        BY <1>3, <3>1
      <4> QED  BY <1>4, <3>1, <4>1
    <3>2. CASE ~(j < p)
      <4>1. j - 1 \in 1..(n - 1) /\ ~(j - 1 < p) /\ (j - 1) + 1 = j
        BY <1>3, <2>3, <3>2
      <4> QED  BY <1>4, <4>1
    <3> QED  BY <3>1, <3>2
  <2> QED  BY <2>1, <2>2, <2>3
<1>6. \A i \in 1..(n - 1) : pending'[i] = pending[from[i]]
  BY <1>2, <1>4
<1>7. \A i \in 1..(n - 1) : asked[pending'[i]] = "open"
  BY <1>1, <1>5, <1>6
<1>8. \A i, j \in 1..(n - 1) : pending'[i] = pending'[j] => i = j
  <2>1. \A i, j \in 1..n : pending[i] = pending[j] => i = j
    BY <1>1 DEF WaitInv
  <2>2. \A i, j \in 1..(n - 1) : pending[from[i]] = pending[from[j]] => from[i] = from[j]
    BY <1>5, <2>1
  <2> QED  BY <1>5, <1>6, <2>2
<1>9. ASSUME NEW q \in ids, asked[q] = "open", q \notin late
      PROVE  \E i \in 1..(n - 1) : pending'[i] = q
  <2>1. PICK j \in 1..n : pending[j] = q
    BY <1>1, <1>9 DEF WaitInv, Contains
  <2>2. j # p
    BY <1>1, <1>3, <1>9, <2>1
  <2>3. PICK i \in 1..(n - 1) : from[i] = j
    BY <1>5, <2>2
  <2>4. pending'[i] = q
    BY <1>6, <2>1, <2>3
  <2> QED  BY <2>4
<1>10. \A i : ~Over(i)'
  BY DEF Over, EndsRequest
<1>11. WaitInv'
  <2>1. \A i \in 1..Len(pending') :
          asked'[pending'[i]] = IF Over(i)' THEN "ended" ELSE "open"
    BY <1>2, <1>7, <1>10
  <2>2. \A q \in ids : asked'[q] = "open" => Contains(pending, q)' \/ q \in late'
    BY <1>2, <1>9 DEF Contains
  <2> QED  BY <1>2, <1>8, <2>1, <2>2 DEF WaitInv
<1> QED  BY <1>11 DEF WalkInv, EndsRequest

\* The callback of an answer returns; a request that has its last answer leaves the list.
LEMMA ResponseReturnsStep ==
    ASSUME TypeInv, PoliteInv, ResponseReturns
    PROVE  PoliteInv'
<1>1. /\ Innermost.f = "response"
      /\ UNCHANGED <<conn, sock, timer, listed, asked, joining, writes, freed, connects, late>>
  BY DEF ResponseReturns, restOf
<1>2. /\ conn # "connecting" /\ ~joining /\ ~freed /\ connects # 0
      /\ Innermost \in Frames /\ Tail(stack) = <<>>
  BY <1>1, WalkState
<1>3. Innermost.last => Contains(pending, Innermost.r) /\ conn = "connected"
  BY <1>1 DEF PoliteInv, WalkInv, ConnInv, EndsRequest
<1>4. stack' = <<>> /\ ~died'
  BY <1>2, <1>3 DEF ResponseReturns
<1>5. Innermost'.f = "none" /\ ~EndsRequest'
  BY <1>4, InnerNext, FrameTypes, EndsNone
<1>6. WaitInv' /\ WalkInv'
  <2>1. \A i : Over(i) <=> Innermost.last /\ pending[i] = Innermost.r
    BY <1>1 DEF Over
  <2>2. CASE Innermost.last
    <3>1. PICK p \in 1..Len(pending) : p = PlaceOf(Innermost.r) /\ pending[p] = Innermost.r
      BY <1>3, <2>2, PlaceProperties
    <3>2. pending' = RemoveAt(pending, p)
      BY <1>3, <2>2, <3>1 DEF ResponseReturns, Without
    <3>3. \A i \in 1..Len(pending) : Over(i) <=> i = p
      BY <2>1, <2>2, <3>1 DEF PoliteInv, WaitInv
    <3>4. \A i \in 1..Len(pending) :
             asked[pending[i]] = IF i = p THEN "ended" ELSE "open"
      BY <3>3 DEF PoliteInv, WaitInv
    <3> QED  BY <1>1, <1>5, <3>2, <3>4, WaitRemoved DEF PoliteInv
  <2>3. CASE ~Innermost.last
    <3>1. pending' = pending
      BY <2>3 DEF ResponseReturns
    <3>2. \A i : ~Over(i)
      BY <2>1, <2>3
    <3>3. \A i : ~Over(i)'
      BY <1>5 DEF Over
    <3>4. WaitInv'
      BY <1>1, <3>1, <3>2, <3>3 DEF PoliteInv, WaitInv, Contains
    <3> QED  BY <1>5, <3>4 DEF WalkInv
  <2> QED  BY <2>2, <2>3
<1>7. StackInv' /\ EdgesInv'
  BY <1>1, <1>2, <1>4, <1>5 DEF StackInv, EdgesInv
<1>8. ConnInv'
  <2>1. conn # "disconnected" => listed /\ sock = "open"
    BY <1>1 DEF PoliteInv, ConnInv
  <2>2. conn # "connected" => pending = <<>> /\ pending' = pending
    BY <1>3 DEF PoliteInv, ConnInv, ResponseReturns
  <2>3. timer = "open" => conn = "connected"
    BY DEF PoliteInv, ConnInv
  <2> QED  BY <1>1, <1>2, <1>5, <2>1, <2>2, <2>3 DEF ConnInv
<1> QED  BY <1>4, <1>6, <1>7, <1>8 DEF PoliteInv

\* Another callback returns, to the function that called it or to the loop.
LEMMA CallbackReturnsStep ==
    ASSUME TypeInv, PoliteInv, CallbackReturns
    PROVE  PoliteInv'
<1>1. /\ Innermost.f \in {"lost", "connected", "answer"} /\ stack' = Tail(stack)
      /\ died' = (freed /\ Innermost.f # "lost")
      /\ UNCHANGED <<conn, sock, timer, pending, listed, asked>>
      /\ UNCHANGED <<joining, writes, freed, connects, late>>
  BY DEF CallbackReturns, restOf
<1>2. stack # <<>> /\ ~EndsRequest /\ Innermost.f # "delete"
  BY <1>1, LoopStack, EndsNone
<1>3. ~freed /\ connects # 0
  BY <1>2 DEF PoliteInv, EdgesInv
<1>4. Under(stack') /\ (stack' # <<>> => Innermost.f = "lost")
  BY <1>1, <1>2, Alone DEF PoliteInv
<1>5. /\ Innermost'.f \in {"none", "answer", "connected", "response"} /\ ~EndsRequest'
      /\ StackInv' /\ (Innermost'.f = "answer" => Innermost.f = "lost")
  <2>1. CASE stack' = <<>>
    <3>1. Innermost'.f = "none"
      BY <2>1, InnerNext, FrameTypes
    <3> QED  BY <2>1, <3>1, EndsNone DEF StackInv
  <2>2. CASE \E y \in Outers : stack' = <<y>>
    <3>1. PICK y \in Outers : stack' = <<y>>
      BY <2>2
    <3>2. Innermost' = y /\ stack' # <<>>
      BY <3>1, InnerNext
    <3>3. y \in Frames /\ y.f \in {"answer", "connected", "response"}
          /\ (y.f = "response" => ~y.last)
      BY DEF Outers
    <3>4. ~EndsRequest'
      BY <3>2, <3>3 DEF EndsRequest
    <3> QED  BY <1>4, <3>1, <3>2, <3>3, <3>4 DEF StackInv
  <2> QED  BY <1>4, <2>1, <2>2 DEF Under
<1>6. WaitInv' /\ WalkInv'
  BY <1>1, <1>2, <1>5, RestingStep DEF PoliteInv
<1>7. EdgesInv'
  BY <1>1, <1>3, <1>5 DEF EdgesInv
<1>8. conn # "connecting" /\ (Innermost.f = "lost" => conn = "disconnected")
  BY <1>2 DEF PoliteInv, ConnInv
<1>9. ConnInv'
  BY <1>1, <1>5, <1>8 DEF PoliteInv, ConnInv
<1> QED  BY <1>1, <1>3, <1>5, <1>6, <1>7, <1>9 DEF PoliteInv

-----------------------------------------------------------------------------
(***************************************************************************)
(* The theorem                                                             *)
(***************************************************************************)

\* Politeness is never regained, and a want of memory is not forgotten.
LEMMA OncePolite ==
    ASSUME [ClientNext]_clientVars
    PROVE  (polite' => polite) /\ (starved => starved')
<1>1. \A k : WriteMessage(k) /\ starved => starved'
  BY DEF WriteMessage
<1>2. polite' => polite
  BY DEF ClientNext, clientVars, closeVars, restOf, Connect, Disconnect, Delete, Deleted, Unsent,
         RequestForget, Request, ConnectFails, Connected, ReadFails, WriteDone, KeepaliveTimer,
         ReadEnds, ReadKeepalive, ReadResponse, Cancelled, ResponseReturns, CallbackReturns,
         HandleCloses, CalledBackFreed
<1>3. starved => starved'
  BY <1>1
     DEF ClientNext, clientVars, restOf, Connect, Disconnect, Delete, Deleted, Unsent,
         RequestForget, Request, ConnectFails, Connected, ReadFails, WriteDone, KeepaliveTimer,
         ReadEnds, ReadKeepalive, ReadResponse, Cancelled, ResponseReturns, CallbackReturns,
         HandleCloses, CalledBackFreed
<1> QED  BY <1>2, <1>3

\* Each step of a polite application or of the loop keeps PoliteInv.
LEMMA PoliteKept ==
    ASSUME TypeInv, PoliteInv, polite', ~starved', [ClientNext]_clientVars
    PROVE  PoliteInv'
<1>1. ASSUME NEW started \in BOOLEAN, Connect(started) PROVE PoliteInv'
  BY <1>1, ConnectStep
<1>2. ASSUME NEW r \in ids, Request(r) PROVE PoliteInv'
  BY <1>2, RequestStep
<1>3. ASSUME NEW ok \in BOOLEAN, WriteDone(ok) PROVE PoliteInv'
  BY <1>3, WriteDoneStep
<1>4. ASSUME NEW r \in ids, NEW final \in BOOLEAN, NEW valid \in BOOLEAN,
             NEW byte \in BOOLEAN, ReadResponse(r, final, valid, byte)
      PROVE  PoliteInv'
  BY <1>4, ReadResponseStep
<1>5. CASE Disconnect \/ Delete \/ Deleted \/ RequestForget
  BY <1>5, DisconnectStep, DeleteCallStep, DeletedStep, ForgetStep
<1>6. CASE ConnectFails \/ Connected \/ ReadFails
  BY <1>6, ConnectFailsStep, ConnectedStep, ReadFailsStep
<1>7. CASE KeepaliveTimer \/ ReadEnds \/ ReadKeepalive
  BY <1>7, KeepaliveStep, ReadEndsStep, ReadKeepaliveStep
<1>8. CASE Cancelled \/ ResponseReturns \/ CallbackReturns
  BY <1>8, CancelledStep, ResponseReturnsStep, CallbackReturnsStep
<1>9. CASE HandleCloses \/ CalledBackFreed \/ Unsent
  BY <1>9, HandleClosesStep, NoFreedCall, UnsentStep
<1>10. CASE UNCHANGED clientVars
  <2>1. UNCHANGED <<stack, pending, asked, conn, sock, timer, joining, listed, freed, connects,
                    late, died, writes>>
    BY <1>10 DEF clientVars
  <2> QED  BY <2>1, Unmoved DEF PoliteInv
<1> QED  BY <1>1, <1>2, <1>3, <1>4, <1>5, <1>6, <1>7, <1>8, <1>9, <1>10 DEF ClientNext

\* A new client
LEMMA ClientStarts ==
    ASSUME ClientInit
    PROVE  ClientInv
<1>1. /\ stack = <<>> /\ pending = <<>> /\ conn = "disconnected" /\ sock = "none"
      /\ timer = "none" /\ writes = 0 /\ listed /\ ~joining /\ ~freed /\ ~died
      /\ asked = [r \in ids |-> "unsent"]
  BY DEF ClientInit
<1>2. TypeInv
  <2>1. <<>> \in Seq(ids)
    BY EmptySeq
  <2> QED  BY <2>1 DEF ClientInit, TypeInv, States, Handles, Statuses
<1>3. Innermost.f = "none"
  BY <1>1, LoopStack
<1>4. \A i \in 1..Len(pending) : FALSE
  BY <1>1, NoPlace
<1>5. WaitInv
  BY <1>1, <1>4 DEF WaitInv
<1>6. WalkInv /\ StackInv /\ EdgesInv
  BY <1>1, <1>3 DEF WalkInv, StackInv, EdgesInv
<1>7. ConnInv
  BY <1>1, <1>3, EndsNone DEF ConnInv
<1> QED  BY <1>1, <1>2, <1>5, <1>6, <1>7 DEF ClientInv, PoliteInv

\* A request that has ended and is still in the list is the one whose callback runs.
LEMMA EndingIsRunning ==
    ASSUME TypeInv, PoliteInv, NEW r \in ids, asked[r] = "ended", Contains(pending, r)
    PROVE  BeingEnded(r)
<1>1. PICK i \in 1..Len(pending) : i = PlaceOf(r) /\ pending[i] = r
  BY PlaceProperties
<1>2. Over(i)
  BY <1>1 DEF PoliteInv, WaitInv
<1>3. Innermost.f \in {"cancel", "response"}
  BY <1>2 DEF Over
<1>4. Innermost \in Frames
  BY <1>3, WalkState
<1>5. 1 \in DOMAIN stack /\ stack[1] = Innermost
  BY <1>3, WalkState
<1>6. CASE Innermost.f = "response" /\ Innermost.last /\ pending[i] = Innermost.r
  BY <1>1, <1>5, <1>6 DEF BeingEnded
<1>7. CASE Innermost.f = "cancel" /\ i <= Innermost.r
  <2>1. Innermost.r >= PlaceOf(r)
    BY <1>1, <1>4, <1>7 DEF Frames
  <2> QED  BY <1>5, <1>7, <2>1 DEF BeingEnded
<1> QED  BY <1>2, <1>6, <1>7 DEF Over

\* A client that is connected once, closed and deleted outside of callbacks, and deleted when
\* libuv is done with it, does not crash, and each of its requests ends exactly once, however
\* many there are, whatever the callbacks send and wherever a write finds no memory, but for
\* the two cases that the property names: a request that the last callback of a closing sends,
\* and a write without memory inside of the callback that ends a request.
THEOREM RequestsEnd == ClientSpec => []RequestsEndOnce
<1>1. ClientInit => ClientInv
  BY ClientStarts
<1>2. ClientInv /\ [ClientNext]_clientVars => ClientInv'
  BY TypesKept, OncePolite, PoliteKept DEF ClientInv
<1>3. ClientInv => RequestsEndOnce
  <2> SUFFICES ASSUME TypeInv, PoliteInv PROVE RequestsEndOnce
    BY DEF ClientInv, RequestsEndOnce
  <2>1. \A r \in ids : /\ asked[r] # "told too often"
                       /\ asked[r] = "open" => Contains(pending, r) \/ r \in late
                       /\ asked[r] = "ended" /\ Contains(pending, r) => BeingEnded(r)
    BY EndingIsRunning DEF PoliteInv, WaitInv
  <2>2. ~died /\ (conn = "disconnected" => pending = <<>>)
    BY DEF PoliteInv, ConnInv
  <2> QED  BY <2>1, <2>2 DEF RequestsEndOnce
<1> QED  BY <1>1, <1>2, <1>3, PTL DEF ClientSpec

-----------------------------------------------------------------------------
(***************************************************************************)
(* The list of client types: the inductive invariant                       *)
(***************************************************************************)

TypesTyped ==
    /\ count \in [Types -> Nat]
    /\ type \in [Sessions -> Types \union {NoType}] /\ gone \in [Sessions -> BOOLEAN]
    /\ call \in [Sessions -> CallState] /\ del \in [Sessions -> Deletion]
    /\ raced \in BOOLEAN

\* Each type counts the sessions that have announced it.
Counted == \A t \in Types : count[t] = Cardinality({s \in Sessions : Announced(s) = t})

\* Where session s is in its calls, when it was not deleted during one: the memory of its
\* type is gone only while the type is about to be replaced, and when the session is.
PlaceOK(s) ==
    /\ del[s].pc = "idle" \/ call[s].pc = "idle"
    /\ call[s].pc \in {"leave", "free"} => type[s] # NoType
    /\ del[s].pc = "free" => type[s] # NoType
    /\ call[s].pc = "come" => type[s] = call[s].new /\ type[s] # NoType
    /\ gone[s] => call[s].pc = "assign" \/ del[s].pc \in {"join", "joined"}

CountInv ==
    /\ TypesTyped
    /\ ~raced => ~misused /\ Counted /\ \A s \in Sessions : PlaceOK(s)

-----------------------------------------------------------------------------
\* A snapshot is held by a call of set_client_type or by the deletion of a session.
Holders == {"script", "loop"} \X Sessions

Held == [h \in Holders |-> IF h[1] = "script" THEN call[h[2]].snap ELSE del[h[2]].snap]

\* Each snapshot was told, or is held once, and the newest is the set of the types.
SnapsOK ==
    /\ Newest \in Nat /\ DOMAIN present = 1..Newest
    /\ TypesOf(count) = IF Newest = 0 THEN {} ELSE present[Newest]
    /\ \A h \in Holders : Held[h] \in 0..Newest
    /\ \A h, i \in Holders : Held[h] = Held[i] /\ Held[h] # 0 => h = i
    /\ \A n \in DOMAIN present : n \in heard <=> \A h \in Holders : Held[h] # n
    /\ heard \subseteq 1..Newest

\* A call holds one only between the critical section and the listener.
HeldOK(s) ==
    /\ call[s].snap # 0 => call[s].pc \in {"free", "told"}
    /\ del[s].snap # 0 => del[s].pc = "free"

LostInv ==
    /\ call \in [Sessions -> CallState] /\ del \in [Sessions -> Deletion]
    /\ SnapsOK
    /\ \A s \in Sessions : HeldOK(s)

-----------------------------------------------------------------------------
(***************************************************************************)
(* The states of the calls                                                 *)
(***************************************************************************)

\* A call that moves on, with snapshot n.
LEMMA CallMoves ==
    ASSUME call \in [Sessions -> CallState], NEW s \in Sessions, NEW n \in Nat,
           NEW pc \in {"idle", "leave", "free", "assign", "come", "told"},
           call' = [call EXCEPT ![s].pc = pc, ![s].snap = n]
    PROVE  /\ call' \in [Sessions -> CallState]
           /\ call'[s].pc = pc /\ call'[s].snap = n /\ call'[s].new = call[s].new
           /\ \A r \in Sessions \ {s} : call'[r] = call[r]
<1> DEFINE c == [call EXCEPT ![s].pc = pc]
<1>1. c \in [Sessions -> CallState] /\ c[s].pc = pc /\ c[s].snap = call[s].snap
      /\ c[s].new = call[s].new /\ \A r \in Sessions \ {s} : c[r] = call[r]
  BY DEF CallState
<1>2. call' = [c EXCEPT ![s].snap = n]
  BY DEF CallState
<1> HIDE DEF c
<1>3. call'[s] = [c[s] EXCEPT !.snap = n] /\ \A r \in Sessions \ {s} : call'[r] = c[r]
  BY <1>1, <1>2
<1>4. /\ [c[s] EXCEPT !.snap = n] \in CallState
      /\ [c[s] EXCEPT !.snap = n].pc = c[s].pc /\ [c[s] EXCEPT !.snap = n].snap = n
      /\ [c[s] EXCEPT !.snap = n].new = c[s].new
  BY <1>1 DEF CallState
<1>5. call' \in [Sessions -> CallState]
  BY <1>1, <1>2, <1>4
<1> QED BY <1>1, <1>3, <1>4, <1>5

\* A call that moves on with the snapshot it has.
LEMMA CallGoes ==
    ASSUME call \in [Sessions -> CallState], NEW s \in Sessions,
           NEW pc \in {"idle", "leave", "free", "assign", "come", "told"},
           call' = [call EXCEPT ![s].pc = pc]
    PROVE  /\ call' \in [Sessions -> CallState]
           /\ call'[s].pc = pc /\ call'[s].snap = call[s].snap /\ call'[s].new = call[s].new
           /\ \A r \in Sessions \ {s} : call'[r] = call[r]
BY DEF CallState

\* The same of a deletion.
LEMMA DeletionMoves ==
    ASSUME del \in [Sessions -> Deletion], NEW s \in Sessions, NEW n \in Nat,
           NEW pc \in {"idle", "free", "join", "joined"},
           del' = [del EXCEPT ![s].pc = pc, ![s].snap = n]
    PROVE  /\ del' \in [Sessions -> Deletion]
           /\ del'[s].pc = pc /\ del'[s].snap = n
           /\ \A r \in Sessions \ {s} : del'[r] = del[r]
<1> DEFINE d == [del EXCEPT ![s].pc = pc]
<1>1. d \in [Sessions -> Deletion] /\ d[s].pc = pc /\ d[s].snap = del[s].snap
      /\ \A r \in Sessions \ {s} : d[r] = del[r]
  BY DEF Deletion
<1>2. del' = [d EXCEPT ![s].snap = n]
  BY DEF Deletion
<1> HIDE DEF d
<1>3. del'[s] = [d[s] EXCEPT !.snap = n] /\ \A r \in Sessions \ {s} : del'[r] = d[r]
  BY <1>1, <1>2
<1>4. /\ [d[s] EXCEPT !.snap = n] \in Deletion
      /\ [d[s] EXCEPT !.snap = n].pc = d[s].pc /\ [d[s] EXCEPT !.snap = n].snap = n
  BY <1>1 DEF Deletion
<1>5. del' \in [Sessions -> Deletion]
  BY <1>1, <1>2, <1>4
<1> QED BY <1>1, <1>3, <1>4, <1>5

\* A deletion that moves on with the snapshot it has.
LEMMA DeletionGoes ==
    ASSUME del \in [Sessions -> Deletion], NEW s \in Sessions,
           NEW pc \in {"idle", "free", "join", "joined"},
           del' = [del EXCEPT ![s].pc = pc]
    PROVE  /\ del' \in [Sessions -> Deletion]
           /\ del'[s].pc = pc /\ del'[s].snap = del[s].snap
           /\ \A r \in Sessions \ {s} : del'[r] = del[r]
BY DEF Deletion

\* set_client_type is called.
LEMMA CallEnters ==
    ASSUME call \in [Sessions -> CallState], NEW s \in Sessions,
           NEW t \in Types \union {NoType}, SetEnter(s, t)
    PROVE  /\ call' \in [Sessions -> CallState]
           /\ call'[s].pc = IF type[s] # NoType THEN "leave" ELSE "assign"
           /\ call'[s].new = t /\ call'[s].snap = 0
           /\ \A r \in Sessions \ {s} : call'[r] = call[r]
<1> DEFINE c == [pc |-> IF type[s] # NoType THEN "leave" ELSE "assign", new |-> t, snap |-> 0]
<1>1. c \in CallState
  BY DEF CallState
<1>2. call' = [call EXCEPT ![s] = c]
  BY DEF SetEnter
<1> QED BY <1>1, <1>2

\* set_client_type returns.
LEMMA CallReturns ==
    ASSUME call \in [Sessions -> CallState], NEW s \in Sessions, SetReturn(s)
    PROVE  /\ call' \in [Sessions -> CallState]
           /\ call'[s].pc = "idle" /\ call'[s].snap = 0
           /\ \A r \in Sessions \ {s} : call'[r] = call[r]
<1>1. NoCall \in CallState
  BY DEF CallState, NoCall
<1>2. call' = [call EXCEPT ![s] = NoCall]
  BY DEF SetReturn
<1> QED BY <1>1, <1>2 DEF NoCall

-----------------------------------------------------------------------------
(***************************************************************************)
(* Counting                                                                *)
(***************************************************************************)

\* Nothing is announced or taken back.
LEMMA CountStays ==
    ASSUME Counted, count' = count,
           \A r \in Sessions : Announced(r)' = Announced(r)
    PROVE  Counted'
<1>1. ASSUME NEW t \in Types
      PROVE  {r \in Sessions : Announced(r)' = t} = {r \in Sessions : Announced(r) = t}
  OBVIOUS
<1> QED BY <1>1 DEF Counted

\* One session announces a type.
LEMMA CountGrows ==
    ASSUME Counted, count \in [Types -> Nat], NEW s \in Sessions, NEW t \in Types,
           Announced(s) = NoType, Announced(s)' = t,
           \A r \in Sessions \ {s} : Announced(r)' = Announced(r),
           count' = Notified(t, TRUE)
    PROVE  Counted' /\ count' \in [Types -> Nat]
<1>1. count' = [count EXCEPT ![t] = @ + 1]
  <2>1. CASE count[t] = 0
    <3>1. count[t] + 1 = 1 /\ count' = [count EXCEPT ![t] = 1]
      BY <2>1 DEF Notified
    <3> QED BY <3>1
  <2>2. CASE count[t] # 0
    BY <2>2 DEF Notified
  <2> QED BY <2>1, <2>2
<1>2. ASSUME NEW u \in Types
      PROVE  count'[u] = Cardinality({r \in Sessions : Announced(r)' = u})
  <2> DEFINE A == {r \in Sessions : Announced(r) = u}
             B == {r \in Sessions : Announced(r)' = u}
  <2>1. IsFiniteSet(A) /\ count[u] = Cardinality(A)
    BY TypesAssumption, FS_Subset DEF Counted
  <2>2. CASE u = t
    <3>1. s \notin A /\ B = A \union {s}
      BY <2>2, TypesAssumption
    <3>2. Cardinality(B) = Cardinality(A) + 1
      BY <2>1, <3>1, FS_AddElement
    <3> QED BY <1>1, <2>1, <2>2, <3>2
  <2>3. CASE u # t
    <3>1. B = A
      BY <2>3, TypesAssumption
    <3> QED BY <1>1, <2>1, <2>3, <3>1
  <2> QED BY <2>2, <2>3
<1>3. count' \in [Types -> Nat]
  <2>1. count[t] + 1 \in Nat
    OBVIOUS
  <2> QED BY <1>1, <2>1
<1> QED BY <1>2, <1>3 DEF Counted

\* One session takes its type back.
LEMMA CountShrinks ==
    ASSUME Counted, count \in [Types -> Nat], NEW s \in Sessions, NEW t \in Types,
           Announced(s) = t, Announced(s)' = NoType,
           \A r \in Sessions \ {s} : Announced(r)' = Announced(r),
           count' = Notified(t, FALSE)
    PROVE  Counted' /\ count' \in [Types -> Nat]
<1> DEFINE A(u) == {r \in Sessions : Announced(r) = u}
           B(u) == {r \in Sessions : Announced(r)' = u}
<1>1. ASSUME NEW u \in Types
      PROVE  IsFiniteSet(A(u)) /\ count[u] = Cardinality(A(u)) /\ Cardinality(A(u)) \in Nat
  BY TypesAssumption, FS_Subset, FS_CardinalityType DEF Counted
<1>2. s \in A(t) /\ B(t) = A(t) \ {s}
  BY TypesAssumption
<1>3. Cardinality(B(t)) = Cardinality(A(t)) - 1
  BY <1>1, <1>2, FS_RemoveElement
<1>4. IsFiniteSet(B(t))
  BY TypesAssumption, FS_Subset
<1>5. Cardinality(B(t)) \in Nat
  BY <1>4, FS_CardinalityType
<1>6. count[t] # 0
  BY <1>1, <1>3, <1>5
<1>7. count' = [count EXCEPT ![t] = @ - 1]
  BY <1>6 DEF Notified, Decremented
<1>8. ASSUME NEW u \in Types, u # t
      PROVE  B(u) = A(u)
  BY <1>8, TypesAssumption
<1>9. ASSUME NEW u \in Types
      PROVE  count'[u] = Cardinality(B(u)) /\ count'[u] \in Nat
  <2>1. CASE u = t
    BY <1>1, <1>3, <1>5, <1>7, <2>1
  <2>2. CASE u # t
    <3>1. count'[u] = count[u]
      BY <1>7, <2>2
    <3> QED BY <1>1, <1>8, <2>2, <3>1
  <2> QED BY <2>1, <2>2
<1> QED BY <1>7, <1>9 DEF Counted

-----------------------------------------------------------------------------
(***************************************************************************)
(* The snapshots are kept                                                  *)
(***************************************************************************)

\* What is held after a step of session s's call ...
LEMMA CallHolds ==
    ASSUME NEW s \in Sessions, UNCHANGED del,
           \A r \in Sessions \ {s} : call'[r] = call[r]
    PROVE  /\ <<"script", s>> \in Holders
           /\ Held'[<<"script", s>>] = call'[s].snap /\ Held[<<"script", s>>] = call[s].snap
           /\ \A h \in Holders \ {<<"script", s>>} : Held'[h] = Held[h]
<1>1. ASSUME NEW h \in Holders, h # <<"script", s>>
      PROVE  Held'[h] = Held[h]
  <2>1. PICK a \in {"script", "loop"}, r \in Sessions : h = <<a, r>>
    BY DEF Holders
  <2>2. a = "script" => r # s
    BY <1>1, <2>1
  <2> QED BY <2>1, <2>2 DEF Held
<1> QED BY <1>1 DEF Held, Holders

\* ... and of its deletion.
LEMMA DeletionHolds ==
    ASSUME NEW s \in Sessions, UNCHANGED call,
           \A r \in Sessions \ {s} : del'[r] = del[r]
    PROVE  /\ <<"loop", s>> \in Holders
           /\ Held'[<<"loop", s>>] = del'[s].snap /\ Held[<<"loop", s>>] = del[s].snap
           /\ \A h \in Holders \ {<<"loop", s>>} : Held'[h] = Held[h]
<1>1. ASSUME NEW h \in Holders, h # <<"loop", s>>
      PROVE  Held'[h] = Held[h]
  <2>1. PICK a \in {"script", "loop"}, r \in Sessions : h = <<a, r>>
    BY DEF Holders
  <2>2. a = "loop" => r # s
    BY <1>1, <2>1
  <2> QED BY <2>1, <2>2 DEF Held
<1> QED BY <1>1 DEF Held, Holders

\* No snapshot is made or told.
LEMMA SnapsStay ==
    ASSUME SnapsOK, UNCHANGED <<count, present, heard>>,
           \A h \in Holders : Held'[h] = Held[h]
    PROVE  SnapsOK'
BY DEF SnapsOK, Newest, TypesOf

\* The critical section makes a snapshot when the set changes, which its caller then holds.
LEMMA NotifyKeeps ==
    ASSUME SnapsOK, NEW t, NEW c, NEW n, Notify(t, c, n), UNCHANGED heard,
           NEW h \in Holders, Held[h] = 0, Held'[h] = n,
           \A i \in Holders \ {h} : Held'[i] = Held[i]
    PROVE  SnapsOK'
<1>1. Newest \in Nat /\ DOMAIN present = 1..Newest
  BY DEF SnapsOK
<1>2. CASE ~Changed(count')
  <2>1. n = 0 /\ present' = present /\ TypesOf(count') = TypesOf(count)
    BY <1>2 DEF Notify, Changed
  <2>2. \A i \in Holders : Held'[i] = Held[i]
    BY <2>1
  <2>3. Newest' = Newest
    BY <2>1 DEF Newest
  <2> QED BY <2>1, <2>2, <2>3 DEF SnapsOK, TypesOf
<1>3. CASE Changed(count')
  <2>1. n = Newest + 1
        /\ present' = [m \in 1..n |-> IF m = n THEN TypesOf(count') ELSE present[m]]
    BY <1>3 DEF Notify
  <2>2. Newest' = n /\ DOMAIN present' = 1..n /\ present'[n] = TypesOf(count') /\ n \in Nat \ {0}
    <3>1. n \in Nat \ {0} /\ n \in 1..n /\ DOMAIN present' = 1..n
      BY <1>1, <2>1
    <3>2. Cardinality(1..n) = n
      BY <3>1, FS_Interval
    <3> QED BY <2>1, <3>1, <3>2 DEF Newest
  <2>3. \A i \in Holders : Held[i] \in 0..Newest
    BY DEF SnapsOK
  <2>4. \A i \in Holders : Held'[i] \in 0..n /\ (i # h => Held'[i] # n)
    BY <1>1, <2>1, <2>2, <2>3
  <2>5. \A i, j \in Holders : Held'[i] = Held'[j] /\ Held'[i] # 0 => i = j
    <3> SUFFICES ASSUME NEW i \in Holders, NEW j \in Holders, Held'[i] = Held'[j], Held'[i] # 0
                 PROVE  i = j
      OBVIOUS
    <3>1. CASE i # h /\ j # h
      BY <3>1 DEF SnapsOK
    <3>2. CASE i = h
      BY <2>4, <3>2
    <3>3. CASE j = h
      BY <2>4, <3>3
    <3> QED BY <3>1, <3>2, <3>3
  <2>6. heard \subseteq 1..n /\ n \notin heard
    BY <1>1, <2>1 DEF SnapsOK
  <2>7. ASSUME NEW m \in 1..n
        PROVE  m \in heard <=> \A i \in Holders : Held'[i] # m
    <3>1. CASE m = n
      BY <2>6, <3>1
    <3>2. CASE m # n
      <4>1. m \in 1..Newest /\ Held[h] # m /\ Held'[h] # m
        BY <1>1, <2>1, <3>2
      <4>2. m \in heard <=> \A i \in Holders : Held[i] # m
        BY <1>1, <4>1 DEF SnapsOK
      <4> QED BY <4>1, <4>2
    <3> QED BY <3>1, <3>2
  <2> QED BY <2>2, <2>4, <2>5, <2>6, <2>7 DEF SnapsOK, TypesOf
<1> QED BY <1>2, <1>3

\* The listener is called with what is held, and it is held no more.
LEMMA TellKeeps ==
    ASSUME SnapsOK, UNCHANGED <<count, present>>, NEW h \in Holders, Tell(Held[h]),
           Held'[h] = 0, \A i \in Holders \ {h} : Held'[i] = Held[i]
    PROVE  SnapsOK'
<1>1. CASE Held[h] = 0
  <2>1. \A i \in Holders : Held'[i] = Held[i]
    BY <1>1
  <2>2. UNCHANGED heard
    BY <1>1 DEF Tell
  <2> QED BY <2>1, <2>2, SnapsStay
<1>2. CASE Held[h] # 0
  <2>1. heard' = heard \union {Held[h]}
    BY <1>2 DEF Tell
  <2>2. Newest \in Nat /\ DOMAIN present = 1..Newest /\ Held[h] \in 1..Newest
    BY <1>2 DEF SnapsOK
  <2>3. ASSUME NEW m \in 1..Newest
        PROVE  m \in heard' <=> \A i \in Holders : Held'[i] # m
    <3>1. m \in heard <=> \A i \in Holders : Held[i] # m
      BY <2>2 DEF SnapsOK
    <3>2. CASE m = Held[h]
      <4>1. \A i \in Holders \ {h} : Held[i] # m
        BY <1>2, <3>2 DEF SnapsOK
      <4> QED BY <1>2, <2>1, <3>2, <4>1
    <3>3. CASE m # Held[h]
      <4>1. Held'[h] # m
        BY <2>2
      <4> QED BY <2>1, <3>1, <3>3, <4>1
    <3> QED BY <3>2, <3>3
  <2>4. \A i \in Holders : Held'[i] \in 0..Newest
    BY <2>2 DEF SnapsOK
  <2>5. \A i, j \in Holders : Held'[i] = Held'[j] /\ Held'[i] # 0 => i = j
    BY DEF SnapsOK
  <2>6. Newest' = Newest /\ DOMAIN present' = 1..Newest /\ TypesOf(count)' = TypesOf(count)
    BY <2>2 DEF Newest, TypesOf
  <2>7. heard' \subseteq 1..Newest
    BY <2>1, <2>2 DEF SnapsOK
  <2>8. TypesOf(count') = IF Newest' = 0 THEN {} ELSE present'[Newest']
    BY <2>6 DEF SnapsOK, TypesOf
  <2> QED BY <2>2, <2>3, <2>4, <2>5, <2>6, <2>7, <2>8 DEF SnapsOK, TypesOf
<1> QED BY <1>1, <1>2

\* No snapshot is made at first.
THEOREM LostInit == TypesInit => LostInv
<1> SUFFICES ASSUME TypesInit PROVE LostInv
  OBVIOUS
<1>1. call \in [Sessions -> CallState] /\ del \in [Sessions -> Deletion]
  <2>1. NoCall \in CallState /\ NoCall \in Deletion
    BY DEF NoCall, CallState, Deletion
  <2> QED BY <2>1 DEF TypesInit
<1>2. ASSUME NEW s \in Sessions PROVE HeldOK(s)
  BY <1>2 DEF TypesInit, HeldOK, NoCall
<1>3. \A h \in Holders : Held[h] = 0
  <2> SUFFICES ASSUME NEW h \in Holders PROVE Held[h] = 0
    OBVIOUS
  <2>1. PICK a \in {"script", "loop"}, r \in Sessions : h = <<a, r>>
    BY DEF Holders
  <2> QED BY <2>1 DEF TypesInit, Held, NoCall
<1>4. Newest = 0 /\ DOMAIN present = {} /\ 1..0 = {}
  BY FS_EmptySet DEF TypesInit, Newest
<1>5. TypesOf(count) = {} /\ heard = {}
  BY DEF TypesInit, TypesOf
<1>6. SnapsOK
  <2>1. \A h, i \in Holders : Held[h] # 0 => h = i
    BY <1>3
  <2>2. \A h \in Holders : Held[h] \in 0..Newest
    BY <1>3, <1>4
  <2>3. Newest \in Nat /\ DOMAIN present = 1..Newest
    BY <1>4
  <2> QED BY <1>4, <1>5, <2>1, <2>2, <2>3 DEF SnapsOK
<1> QED BY <1>1, <1>2, <1>6 DEF LostInv

\* Each step keeps them, however the sessions and the loop race.
THEOREM LostStep == LostInv /\ [TypesNext]_typesVars => LostInv'
<1> SUFFICES ASSUME LostInv, [TypesNext]_typesVars PROVE LostInv'
  OBVIOUS
<1>u. CASE UNCHANGED typesVars
  <2>1. \A h \in Holders : Held'[h] = Held[h]
    BY <1>u DEF Held, typesVars
  <2>2. SnapsOK'
    BY <1>u, <2>1, SnapsStay DEF LostInv, typesVars
  <2>3. ASSUME NEW s \in Sessions PROVE HeldOK(s)'
    BY <1>u DEF LostInv, HeldOK, typesVars
  <2> QED BY <1>u, <2>2, <2>3 DEF LostInv, typesVars
<1> SUFFICES ASSUME TypesNext PROVE LostInv'
  BY <1>u
<1> PICK s \in Sessions :
        \/ \E t \in Types \union {NoType} : SetEnter(s, t)
        \/ SetStep(s) \/ DeleteStep(s)
  BY DEF TypesNext
<1>0. /\ call[s] \in CallState /\ del[s] \in Deletion /\ SnapsOK
      /\ call \in [Sessions -> CallState] /\ del \in [Sessions -> Deletion]
      /\ \A r \in Sessions : HeldOK(r)
      /\ Newest \in Nat
  BY DEF LostInv, SnapsOK
<1>c. ASSUME UNCHANGED del, call' \in [Sessions -> CallState],
             \A r \in Sessions \ {s} : call'[r] = call[r],
             \/ /\ call'[s].snap = call[s].snap /\ UNCHANGED <<count, present, heard>>
             \/ /\ call[s].snap = 0 /\ UNCHANGED heard
                /\ \E t, c : Notify(t, c, call'[s].snap)
             \/ Tell(call[s].snap) /\ call'[s].snap = 0 /\ UNCHANGED <<count, present>>,
             call'[s].snap # 0 => call'[s].pc \in {"free", "told"}
      PROVE  LostInv'
  <2> DEFINE h == <<"script", s>>
  <2>1. /\ h \in Holders /\ Held'[h] = call'[s].snap /\ Held[h] = call[s].snap
        /\ \A i \in Holders \ {h} : Held'[i] = Held[i]
    BY <1>c, CallHolds
  <2>2. SnapsOK'
    <3> HIDE DEF h
    <3>1. CASE call'[s].snap = call[s].snap /\ UNCHANGED <<count, present, heard>>
      <4>1. \A i \in Holders : Held'[i] = Held[i]
        BY <2>1, <3>1
      <4> QED BY <1>0, <3>1, <4>1, SnapsStay
    <3>2. CASE call[s].snap = 0 /\ UNCHANGED heard /\ \E t, c : Notify(t, c, call'[s].snap)
      BY <1>0, <2>1, <3>2, NotifyKeeps
    <3>3. CASE Tell(call[s].snap) /\ call'[s].snap = 0 /\ UNCHANGED <<count, present>>
      BY <1>0, <2>1, <3>3, TellKeeps
    <3> QED BY <1>c, <3>1, <3>2, <3>3
  <2>3. ASSUME NEW r \in Sessions PROVE HeldOK(r)'
    <3>1. CASE r = s
      BY <1>0, <1>c, <3>1 DEF HeldOK
    <3>2. CASE r # s
      BY <1>0, <1>c, <3>2 DEF HeldOK
    <3> QED BY <3>1, <3>2
  <2> QED BY <1>0, <1>c, <2>2, <2>3 DEF LostInv
<1>d. ASSUME UNCHANGED call, del' \in [Sessions -> Deletion],
             \A r \in Sessions \ {s} : del'[r] = del[r],
             \/ /\ del'[s].snap = del[s].snap /\ UNCHANGED <<count, present, heard>>
             \/ /\ del[s].snap = 0 /\ UNCHANGED heard
                /\ \E t, c : Notify(t, c, del'[s].snap)
             \/ Tell(del[s].snap) /\ del'[s].snap = 0 /\ UNCHANGED <<count, present>>,
             del'[s].snap # 0 => del'[s].pc = "free"
      PROVE  LostInv'
  <2> DEFINE h == <<"loop", s>>
  <2>1. /\ h \in Holders /\ Held'[h] = del'[s].snap /\ Held[h] = del[s].snap
        /\ \A i \in Holders \ {h} : Held'[i] = Held[i]
    BY <1>d, DeletionHolds
  <2>2. SnapsOK'
    <3> HIDE DEF h
    <3>1. CASE del'[s].snap = del[s].snap /\ UNCHANGED <<count, present, heard>>
      <4>1. \A i \in Holders : Held'[i] = Held[i]
        BY <2>1, <3>1
      <4> QED BY <1>0, <3>1, <4>1, SnapsStay
    <3>2. CASE del[s].snap = 0 /\ UNCHANGED heard /\ \E t, c : Notify(t, c, del'[s].snap)
      BY <1>0, <2>1, <3>2, NotifyKeeps
    <3>3. CASE Tell(del[s].snap) /\ del'[s].snap = 0 /\ UNCHANGED <<count, present>>
      BY <1>0, <2>1, <3>3, TellKeeps
    <3> QED BY <1>d, <3>1, <3>2, <3>3
  <2>3. ASSUME NEW r \in Sessions PROVE HeldOK(r)'
    <3>1. CASE r = s
      BY <1>0, <1>d, <3>1 DEF HeldOK
    <3>2. CASE r # s
      BY <1>0, <1>d, <3>2 DEF HeldOK
    <3> QED BY <3>1, <3>2
  <2> QED BY <1>0, <1>d, <2>2, <2>3 DEF LostInv
<1>1. ASSUME NEW t \in Types \union {NoType}, SetEnter(s, t) PROVE LostInv'
  <2>1. /\ call' \in [Sessions -> CallState] /\ call'[s].snap = 0
        /\ \A r \in Sessions \ {s} : call'[r] = call[r]
    BY <1>0, <1>1, CallEnters
  <2>2. UNCHANGED <<count, present, heard, del>> /\ call[s].pc = "idle"
    BY <1>1 DEF SetEnter
  <2>3. call[s].snap = 0
    BY <1>0, <2>2 DEF HeldOK
  <2> QED BY <1>c, <2>1, <2>2, <2>3
<1>2. CASE SetLeave(s)
  <2>1. PICK n \in 0..Newest + 1 :
            Notify(type[s], FALSE, n) /\ call' = [call EXCEPT ![s].pc = "free", ![s].snap = n]
    BY <1>2 DEF SetLeave
  <2>8. n \in Nat
    BY <1>0, <2>1
  <2>2. /\ call' \in [Sessions -> CallState] /\ call'[s].snap = n /\ call'[s].pc = "free"
        /\ \A r \in Sessions \ {s} : call'[r] = call[r]
    BY <1>0, <2>1, <2>8, CallMoves
  <2>9. \E t, c : Notify(t, c, call'[s].snap)
    <3>1. Notify(type[s], FALSE, call'[s].snap)
      BY <2>1, <2>2
    <3> QED BY <3>1
  <2>3. UNCHANGED <<heard, del>> /\ call[s].pc = "leave"
    BY <1>2 DEF SetLeave
  <2>4. call[s].snap = 0
    BY <1>0, <2>3 DEF HeldOK
  <2> QED BY <1>c, <2>1, <2>2, <2>3, <2>4, <2>9
<1>3. CASE SetFree(s)
  <2>1. call' = [call EXCEPT ![s].pc = "assign", ![s].snap = 0] /\ Tell(call[s].snap)
        /\ UNCHANGED <<count, present, del>>
    BY <1>3 DEF SetFree
  <2>2. /\ call' \in [Sessions -> CallState] /\ call'[s].snap = 0
        /\ \A r \in Sessions \ {s} : call'[r] = call[r]
    BY <1>0, <2>1, CallMoves
  <2> QED BY <1>c, <2>1, <2>2
<1>4. CASE SetAssign(s)
  <2>1. call' = [call EXCEPT ![s].pc = IF call[s].new = NoType THEN "idle" ELSE "come"]
        /\ call[s].pc = "assign" /\ UNCHANGED <<count, present, heard, del>>
    BY <1>4 DEF SetAssign
  <2>2. /\ call' \in [Sessions -> CallState] /\ call'[s].snap = call[s].snap
        /\ \A r \in Sessions \ {s} : call'[r] = call[r]
    BY <1>0, <2>1, CallGoes
  <2>3. call[s].snap = 0
    BY <1>0, <2>1 DEF HeldOK
  <2> QED BY <1>c, <2>1, <2>2, <2>3
<1>5. CASE SetCome(s)
  <2>1. PICK n \in 0..Newest + 1 :
            Notify(type[s], TRUE, n) /\ call' = [call EXCEPT ![s].pc = "told", ![s].snap = n]
    BY <1>5 DEF SetCome
  <2>8. n \in Nat
    BY <1>0, <2>1
  <2>2. /\ call' \in [Sessions -> CallState] /\ call'[s].snap = n /\ call'[s].pc = "told"
        /\ \A r \in Sessions \ {s} : call'[r] = call[r]
    BY <1>0, <2>1, <2>8, CallMoves
  <2>9. \E t, c : Notify(t, c, call'[s].snap)
    <3>1. Notify(type[s], TRUE, call'[s].snap)
      BY <2>1, <2>2
    <3> QED BY <3>1
  <2>3. UNCHANGED <<heard, del>> /\ call[s].pc = "come"
    BY <1>5 DEF SetCome
  <2>4. call[s].snap = 0
    BY <1>0, <2>3 DEF HeldOK
  <2> QED BY <1>c, <2>1, <2>2, <2>3, <2>4, <2>9
<1>6. CASE SetReturn(s)
  <2>1. Tell(call[s].snap) /\ UNCHANGED <<count, present, del>>
    BY <1>6 DEF SetReturn
  <2>2. /\ call' \in [Sessions -> CallState] /\ call'[s].snap = 0
        /\ \A r \in Sessions \ {s} : call'[r] = call[r]
    BY <1>0, <1>6, CallReturns
  <2> QED BY <1>c, <2>1, <2>2
<1>7. CASE DeleteEnter(s)
  <2>1. UNCHANGED <<heard, call>> /\ del[s].pc = "idle"
    BY <1>7 DEF DeleteEnter
  <2>2. del[s].snap = 0
    BY <1>0, <2>1 DEF HeldOK
  <2>3. CASE type[s] = NoType
    <3>1. del' = [del EXCEPT ![s].pc = "join"] /\ UNCHANGED <<count, present>>
      BY <1>7, <2>3 DEF DeleteEnter
    <3>2. /\ del' \in [Sessions -> Deletion] /\ del'[s].snap = del[s].snap
          /\ \A r \in Sessions \ {s} : del'[r] = del[r]
      BY <1>0, <3>1, DeletionGoes
    <3> QED BY <1>d, <2>1, <2>2, <3>1, <3>2
  <2>4. CASE type[s] # NoType
    <3>1. PICK n \in 0..Newest + 1 :
              Notify(type[s], FALSE, n) /\ del' = [del EXCEPT ![s].pc = "free", ![s].snap = n]
      BY <1>7, <2>4 DEF DeleteEnter
    <3>8. n \in Nat
      BY <1>0, <3>1
    <3>2. /\ del' \in [Sessions -> Deletion] /\ del'[s].snap = n /\ del'[s].pc = "free"
          /\ \A r \in Sessions \ {s} : del'[r] = del[r]
      BY <1>0, <3>1, <3>8, DeletionMoves
    <3>9. \E t, c : Notify(t, c, del'[s].snap)
      <4>1. Notify(type[s], FALSE, del'[s].snap)
        BY <3>1, <3>2
      <4> QED BY <4>1
    <3> QED BY <1>d, <2>1, <2>2, <3>1, <3>2, <3>9
  <2> QED BY <2>3, <2>4
<1>8. CASE DeleteFree(s)
  <2>1. del' = [del EXCEPT ![s].pc = "join", ![s].snap = 0] /\ Tell(del[s].snap)
        /\ UNCHANGED <<count, present, call>>
    BY <1>8 DEF DeleteFree
  <2>2. /\ del' \in [Sessions -> Deletion] /\ del'[s].snap = 0
        /\ \A r \in Sessions \ {s} : del'[r] = del[r]
    BY <1>0, <2>1, DeletionMoves
  <2> QED BY <1>d, <2>1, <2>2
<1>9. CASE DeleteJoin(s)
  <2>1. del' = [del EXCEPT ![s].pc = "joined"] /\ del[s].pc = "join"
        /\ UNCHANGED <<count, present, heard, call>>
    BY <1>9 DEF DeleteJoin
  <2>2. /\ del' \in [Sessions -> Deletion] /\ del'[s].snap = del[s].snap
        /\ \A r \in Sessions \ {s} : del'[r] = del[r]
    BY <1>0, <2>1, DeletionGoes
  <2>3. del[s].snap = 0
    BY <1>0, <2>1 DEF HeldOK
  <2> QED BY <1>d, <2>1, <2>2, <2>3
<1> QED BY <1>1, <1>2, <1>3, <1>4, <1>5, <1>6, <1>7, <1>8, <1>9 DEF SetStep, DeleteStep

-----------------------------------------------------------------------------
(***************************************************************************)
(* The counts are kept                                                     *)
(***************************************************************************)

\* The lists of the types and of the calls are empty at first.
THEOREM CountInit == TypesInit => CountInv
<1> SUFFICES ASSUME TypesInit PROVE CountInv
  OBVIOUS
<1>1. TypesTyped
  <2>1. NoCall \in CallState /\ NoCall \in Deletion
    BY DEF NoCall, CallState, Deletion
  <2> QED BY <2>1 DEF TypesInit, TypesTyped
<1>2. ASSUME NEW t \in Types PROVE count[t] = Cardinality({s \in Sessions : Announced(s) = t})
  <2>1. {s \in Sessions : Announced(s) = t} = {}
    BY TypesAssumption DEF TypesInit, Announced
  <2> QED BY <2>1, FS_EmptySet DEF TypesInit
<1>3. ASSUME NEW s \in Sessions PROVE PlaceOK(s)
  BY <1>3 DEF TypesInit, PlaceOK, NoCall
<1> QED BY <1>1, <1>2, <1>3 DEF CountInv, Counted, TypesInit

\* A step of session s leaves the other sessions where they are.
LEMMA OthersStay ==
    ASSUME NEW s \in Sessions,
           \A r \in Sessions \ {s} : /\ call'[r] = call[r] /\ del'[r] = del[r]
                                     /\ type'[r] = type[r] /\ gone'[r] = gone[r]
    PROVE  \A r \in Sessions \ {s} :
              Announced(r)' = Announced(r) /\ (PlaceOK(r) => PlaceOK(r)')
BY DEF Announced, PlaceOK

\* A step of session s that announces nothing and takes nothing back.
LEMMA QuietStep ==
    ASSUME CountInv, TypesTyped', NEW s \in Sessions, raced' \/ ~raced, count' = count,
           \A r \in Sessions \ {s} : /\ call'[r] = call[r] /\ del'[r] = del[r]
                                     /\ type'[r] = type[r] /\ gone'[r] = gone[r],
           ~raced' /\ ~misused /\ PlaceOK(s) =>
              ~misused' /\ PlaceOK(s)' /\ Announced(s)' = Announced(s)
    PROVE  CountInv'
<1> SUFFICES ASSUME ~raced' PROVE ~misused' /\ Counted' /\ \A r \in Sessions : PlaceOK(r)'
  BY DEF CountInv
<1>1. ~misused /\ Counted /\ \A r \in Sessions : PlaceOK(r)
  BY DEF CountInv
<1>2. ~misused' /\ PlaceOK(s)' /\ Announced(s)' = Announced(s)
  BY <1>1
<1>3. \A r \in Sessions \ {s} : Announced(r)' = Announced(r) /\ (PlaceOK(r) => PlaceOK(r)')
  BY OthersStay
<1>4. Counted'
  BY <1>1, <1>2, <1>3, CountStays
<1> QED BY <1>1, <1>2, <1>3, <1>4

\* A step of session s that announces its type, or takes it back.
LEMMA AnnouncingStep ==
    ASSUME CountInv, NEW s \in Sessions, raced' \/ ~raced,
           UNCHANGED type, NEW c \in BOOLEAN, count' = Notified(type[s], c),
           \A r \in Sessions \ {s} : call'[r] = call[r] /\ del'[r] = del[r] /\ gone'[r] = gone[r],
           call' \in [Sessions -> CallState], del' \in [Sessions -> Deletion],
           gone' \in [Sessions -> BOOLEAN], raced' \in BOOLEAN, type[s] # NoType,
           ~raced' /\ ~misused /\ PlaceOK(s) =>
              /\ ~misused' /\ PlaceOK(s)'
              /\ Announced(s) = (IF c THEN NoType ELSE type[s])
              /\ Announced(s)' = (IF c THEN type[s] ELSE NoType)
    PROVE  CountInv'
<1>1. type[s] \in Types /\ count \in [Types -> Nat]
      /\ type \in [Sessions -> Types \union {NoType}]
  BY DEF CountInv, TypesTyped
<1>2. count' \in [Types -> Nat]
  <2>1. \A t \in Types : count[t] # 0 => count[t] - 1 \in Nat
    BY <1>1
  <2> QED BY <1>1, <2>1 DEF Notified, Decremented
<1>3. TypesTyped'
  BY <1>1, <1>2 DEF TypesTyped
<1> SUFFICES ASSUME ~raced' PROVE ~misused' /\ Counted' /\ \A r \in Sessions : PlaceOK(r)'
  BY <1>3 DEF CountInv
<1>4. ~misused /\ Counted /\ \A r \in Sessions : PlaceOK(r)
  BY DEF CountInv
<1>5. /\ ~misused' /\ PlaceOK(s)'
      /\ Announced(s) = (IF c THEN NoType ELSE type[s])
      /\ Announced(s)' = (IF c THEN type[s] ELSE NoType)
  BY <1>4
<1>6. \A r \in Sessions \ {s} : Announced(r)' = Announced(r) /\ (PlaceOK(r) => PlaceOK(r)')
  BY OthersStay
<1>7. Counted'
  <2>1. CASE c = TRUE
    BY <1>1, <1>4, <1>5, <1>6, <2>1, CountGrows
  <2>2. CASE c = FALSE
    BY <1>1, <1>4, <1>5, <1>6, <2>2, CountShrinks
  <2> QED BY <2>1, <2>2
<1> QED BY <1>4, <1>5, <1>6, <1>7

\* A step in which no session races keeps them.
THEOREM CountStep == CountInv /\ LostInv /\ [TypesNext]_typesVars => CountInv'
<1> SUFFICES ASSUME CountInv, LostInv, [TypesNext]_typesVars PROVE CountInv'
  OBVIOUS
<1>u. CASE UNCHANGED typesVars
  <2>1. TypesTyped'
    BY <1>u DEF CountInv, TypesTyped, typesVars
  <2>2. ASSUME NEW s \in Sessions PROVE Announced(s)' = Announced(s) /\ PlaceOK(s)' = PlaceOK(s)
    BY <1>u DEF Announced, PlaceOK, typesVars
  <2>3. Counted => Counted'
    BY <1>u, <2>2, CountStays DEF typesVars
  <2> QED BY <1>u, <2>1, <2>2, <2>3 DEF CountInv, typesVars
<1> SUFFICES ASSUME TypesNext PROVE CountInv'
  BY <1>u
<1> PICK s \in Sessions :
        \/ \E t \in Types \union {NoType} : SetEnter(s, t)
        \/ SetStep(s) \/ DeleteStep(s)
  BY DEF TypesNext
<1>0. /\ type[s] \in Types \union {NoType}
      /\ call[s] \in CallState /\ del[s] \in Deletion
      /\ count \in [Types -> Nat] /\ type \in [Sessions -> Types \union {NoType}]
      /\ gone \in [Sessions -> BOOLEAN] /\ raced \in BOOLEAN
      /\ call \in [Sessions -> CallState] /\ del \in [Sessions -> Deletion]
      /\ Newest \in Nat
  BY DEF CountInv, TypesTyped, LostInv, SnapsOK
<1>n. ASSUME type[s] = NoType, NEW c \in BOOLEAN PROVE Notified(type[s], c) = count
  BY <1>0, <1>n, TypesAssumption DEF Notified, Decremented
<1>1. ASSUME NEW t \in Types \union {NoType}, SetEnter(s, t) PROVE CountInv'
  <2>1. /\ call' \in [Sessions -> CallState]
        /\ call'[s].pc = IF type[s] # NoType THEN "leave" ELSE "assign"
        /\ \A r \in Sessions \ {s} : call'[r] = call[r]
    BY <1>0, <1>1, CallEnters
  <2>2. /\ call[s].pc = "idle" /\ raced' = (raced \/ del[s].pc # "idle")
        /\ UNCHANGED <<count, type, gone, del, misused>>
    BY <1>1 DEF SetEnter
  <2>3. TypesTyped'
    BY <1>0, <2>1, <2>2 DEF TypesTyped
  <2>4. ASSUME ~raced', PlaceOK(s) PROVE PlaceOK(s)' /\ Announced(s)' = Announced(s)
    BY <1>0, <2>1, <2>2, <2>4 DEF Announced, PlaceOK
  <2> QED BY <2>1, <2>2, <2>3, <2>4, QuietStep
<1>2. CASE SetLeave(s)
  <2>1. PICK n \in 0..Newest + 1 :
            Notify(type[s], FALSE, n) /\ call' = [call EXCEPT ![s].pc = "free", ![s].snap = n]
    BY <1>2 DEF SetLeave
  <2>8. n \in Nat
    BY <1>0, <2>1
  <2>2. call[s].pc = "leave" /\ misused' = Dead(s) /\ UNCHANGED <<type, gone, del, raced>>
    BY <1>2 DEF SetLeave
  <2>3. /\ call' \in [Sessions -> CallState] /\ call'[s].pc = "free"
        /\ \A r \in Sessions \ {s} : call'[r] = call[r]
    BY <1>0, <2>1, <2>8, CallMoves
  <2>4. count' = Notified(type[s], FALSE)
    BY <2>1 DEF Notify
  <2>5. CASE type[s] = NoType
    <3>1. count' = count /\ ~PlaceOK(s)
      BY <1>n, <2>2, <2>4, <2>5 DEF PlaceOK
    <3>2. TypesTyped'
      BY <1>0, <2>2, <2>3, <3>1 DEF TypesTyped
    <3> QED BY <2>2, <2>3, <3>1, <3>2, QuietStep
  <2>6. CASE type[s] # NoType
    <3>1. ASSUME PlaceOK(s)
          PROVE  ~misused' /\ PlaceOK(s)' /\ Announced(s) = type[s] /\ Announced(s)' = NoType
      BY <1>0, <2>2, <2>3, <2>6, <3>1 DEF Announced, PlaceOK, Dead
    <3> QED BY <1>0, <2>2, <2>3, <2>4, <2>6, <3>1, AnnouncingStep
  <2> QED BY <2>5, <2>6
<1>3. CASE SetFree(s)
  <2>1. call' = [call EXCEPT ![s].pc = "assign", ![s].snap = 0]
        /\ call[s].pc = "free" /\ gone' = [gone EXCEPT ![s] = TRUE] /\ misused' = Dead(s)
        /\ UNCHANGED <<count, type, del, raced>>
    BY <1>3 DEF SetFree
  <2>2. /\ call' \in [Sessions -> CallState] /\ call'[s].pc = "assign"
        /\ \A r \in Sessions \ {s} : call'[r] = call[r]
    BY <1>0, <2>1, CallMoves
  <2>3. TypesTyped' /\ \A r \in Sessions \ {s} : gone'[r] = gone[r]
    BY <1>0, <2>1, <2>2 DEF TypesTyped
  <2>4. ASSUME PlaceOK(s) PROVE ~misused' /\ PlaceOK(s)' /\ Announced(s)' = Announced(s)
    BY <1>0, <2>1, <2>2, <2>4 DEF Announced, PlaceOK, Dead
  <2> QED BY <2>1, <2>2, <2>3, <2>4, QuietStep
<1>4. CASE SetAssign(s)
  <2>1. /\ call[s].pc = "assign"
        /\ type' = [type EXCEPT ![s] = call[s].new] /\ gone' = [gone EXCEPT ![s] = FALSE]
        /\ call' = [call EXCEPT ![s].pc = IF call[s].new = NoType THEN "idle" ELSE "come"]
        /\ UNCHANGED <<count, del, raced, misused>>
    BY <1>4 DEF SetAssign, Assign
  <2>2. /\ call' \in [Sessions -> CallState] /\ call'[s].new = call[s].new
        /\ call'[s].pc = IF call[s].new = NoType THEN "idle" ELSE "come"
        /\ \A r \in Sessions \ {s} : call'[r] = call[r]
    BY <1>0, <2>1, CallGoes
  <2>3. call[s].new \in Types \union {NoType}
    BY <1>0 DEF CallState
  <2>4. TypesTyped' /\ type'[s] = call[s].new /\ gone'[s] = FALSE
        /\ \A r \in Sessions \ {s} : gone'[r] = gone[r] /\ type'[r] = type[r]
    BY <1>0, <2>1, <2>2, <2>3 DEF TypesTyped
  <2>5. ASSUME PlaceOK(s) PROVE PlaceOK(s)' /\ Announced(s)' = Announced(s)
    BY <1>0, <2>1, <2>2, <2>4, <2>5 DEF Announced, PlaceOK
  <2> QED BY <2>1, <2>2, <2>4, <2>5, QuietStep
<1>5. CASE SetCome(s)
  <2>1. PICK n \in 0..Newest + 1 :
            Notify(type[s], TRUE, n) /\ call' = [call EXCEPT ![s].pc = "told", ![s].snap = n]
    BY <1>5 DEF SetCome
  <2>8. n \in Nat
    BY <1>0, <2>1
  <2>2. call[s].pc = "come" /\ misused' = Dead(s) /\ UNCHANGED <<type, gone, del, raced>>
    BY <1>5 DEF SetCome
  <2>3. /\ call' \in [Sessions -> CallState] /\ call'[s].pc = "told"
        /\ \A r \in Sessions \ {s} : call'[r] = call[r]
    BY <1>0, <2>1, <2>8, CallMoves
  <2>4. count' = Notified(type[s], TRUE)
    BY <2>1 DEF Notify
  <2>5. CASE type[s] = NoType
    <3>1. count' = count /\ ~PlaceOK(s)
      BY <1>n, <2>2, <2>4, <2>5 DEF PlaceOK
    <3>2. TypesTyped'
      BY <1>0, <2>2, <2>3, <3>1 DEF TypesTyped
    <3> QED BY <2>2, <2>3, <3>1, <3>2, QuietStep
  <2>6. CASE type[s] # NoType
    <3>1. ASSUME PlaceOK(s)
          PROVE  ~misused' /\ PlaceOK(s)' /\ Announced(s) = NoType /\ Announced(s)' = type[s]
      BY <1>0, <2>2, <2>3, <2>6, <3>1 DEF Announced, PlaceOK, Dead
    <3> QED BY <1>0, <2>2, <2>3, <2>4, <2>6, <3>1, AnnouncingStep
  <2> QED BY <2>5, <2>6
<1>6. CASE SetReturn(s)
  <2>1. call[s].pc = "told" /\ UNCHANGED <<count, type, gone, del, raced, misused>>
    BY <1>6 DEF SetReturn
  <2>2. /\ call' \in [Sessions -> CallState] /\ call'[s].pc = "idle"
        /\ \A r \in Sessions \ {s} : call'[r] = call[r]
    BY <1>0, <1>6, CallReturns
  <2>3. TypesTyped'
    BY <1>0, <2>1, <2>2 DEF TypesTyped
  <2>4. ASSUME PlaceOK(s) PROVE PlaceOK(s)' /\ Announced(s)' = Announced(s)
    BY <1>0, <2>1, <2>2, <2>4 DEF Announced, PlaceOK
  <2> QED BY <2>1, <2>2, <2>3, <2>4, QuietStep
<1>7. CASE DeleteEnter(s)
  <2>1. /\ del[s].pc = "idle" /\ raced' = (raced \/ call[s].pc # "idle")
        /\ UNCHANGED <<type, gone, call>>
    BY <1>7 DEF DeleteEnter
  <2>2. CASE type[s] = NoType
    <3>1. del' = [del EXCEPT ![s].pc = "join"] /\ UNCHANGED <<count, misused>>
      BY <1>7, <2>2 DEF DeleteEnter
    <3>2. /\ del' \in [Sessions -> Deletion] /\ del'[s].pc = "join"
          /\ \A r \in Sessions \ {s} : del'[r] = del[r]
      BY <1>0, <3>1, DeletionGoes
    <3>3. TypesTyped'
      BY <1>0, <2>1, <3>1, <3>2 DEF TypesTyped
    <3>4. ASSUME ~raced', PlaceOK(s) PROVE PlaceOK(s)' /\ Announced(s)' = Announced(s)
      BY <1>0, <2>1, <2>2, <3>2, <3>4 DEF Announced, PlaceOK
    <3> QED BY <2>1, <3>1, <3>2, <3>3, <3>4, QuietStep
  <2>3. CASE type[s] # NoType
    <3>1. PICK n \in 0..Newest + 1 :
              Notify(type[s], FALSE, n) /\ del' = [del EXCEPT ![s].pc = "free", ![s].snap = n]
      BY <1>7, <2>3 DEF DeleteEnter
    <3>8. n \in Nat
      BY <1>0, <3>1
    <3>2. /\ del' \in [Sessions -> Deletion] /\ del'[s].pc = "free"
          /\ \A r \in Sessions \ {s} : del'[r] = del[r]
      BY <1>0, <3>1, <3>8, DeletionMoves
    <3>3. count' = Notified(type[s], FALSE) /\ misused' = Dead(s)
      BY <1>7, <2>3, <3>1 DEF Notify, DeleteEnter
    <3>4. ASSUME ~raced', PlaceOK(s)
          PROVE  ~misused' /\ PlaceOK(s)' /\ Announced(s) = type[s] /\ Announced(s)' = NoType
      BY <1>0, <2>1, <2>3, <3>2, <3>3, <3>4 DEF Announced, PlaceOK, Dead
    <3> QED BY <1>0, <2>1, <2>3, <3>2, <3>3, <3>4, AnnouncingStep
  <2> QED BY <2>2, <2>3
<1>8. CASE DeleteFree(s)
  <2>1. del' = [del EXCEPT ![s].pc = "join", ![s].snap = 0]
        /\ del[s].pc = "free" /\ gone' = [gone EXCEPT ![s] = TRUE] /\ misused' = Dead(s)
        /\ UNCHANGED <<count, type, call, raced>>
    BY <1>8 DEF DeleteFree
  <2>2. /\ del' \in [Sessions -> Deletion] /\ del'[s].pc = "join"
        /\ \A r \in Sessions \ {s} : del'[r] = del[r]
    BY <1>0, <2>1, DeletionMoves
  <2>3. TypesTyped' /\ \A r \in Sessions \ {s} : gone'[r] = gone[r]
    BY <1>0, <2>1, <2>2 DEF TypesTyped
  <2>4. ASSUME PlaceOK(s) PROVE ~misused' /\ PlaceOK(s)' /\ Announced(s)' = Announced(s)
    BY <1>0, <2>1, <2>2, <2>4 DEF Announced, PlaceOK, Dead
  <2> QED BY <2>1, <2>2, <2>3, <2>4, QuietStep
<1>9. CASE DeleteJoin(s)
  <2>1. del' = [del EXCEPT ![s].pc = "joined"] /\ del[s].pc = "join"
        /\ UNCHANGED <<count, type, gone, call, raced, misused>>
    BY <1>9 DEF DeleteJoin
  <2>2. /\ del' \in [Sessions -> Deletion] /\ del'[s].pc = "joined"
        /\ \A r \in Sessions \ {s} : del'[r] = del[r]
    BY <1>0, <2>1, DeletionGoes
  <2>3. TypesTyped'
    BY <1>0, <2>1, <2>2 DEF TypesTyped
  <2>4. ASSUME PlaceOK(s) PROVE PlaceOK(s)' /\ Announced(s)' = Announced(s)
    BY <1>0, <2>1, <2>2, <2>4 DEF Announced, PlaceOK
  <2> QED BY <2>1, <2>2, <2>3, <2>4, QuietStep
<1> QED BY <1>1, <1>2, <1>3, <1>4, <1>5, <1>6, <1>7, <1>8, <1>9 DEF SetStep, DeleteStep

-----------------------------------------------------------------------------
(***************************************************************************)
(* What this says of the list of the types                                 *)
(***************************************************************************)

\* The two invariants hold throughout.
THEOREM TypesInvariant == TypesSpec => [](CountInv /\ LostInv)
<1>1. TypesInit => CountInv /\ LostInv
  BY CountInit, LostInit
<1>2. CountInv /\ LostInv /\ [TypesNext]_typesVars => (CountInv /\ LostInv)'
  BY CountStep, LostStep
<1> QED BY <1>1, <1>2, PTL DEF TypesSpec

\* Unless a session is deleted while its script sets the type, each type counts the sessions
\* that have announced it, and no memory is used after it was freed (device_notify_client_type).
THEOREM CountsKept == TypesSpec => []CountsMatch
<1>1. CountInv => CountsMatch
  BY DEF CountInv, Counted, CountsMatch
<1> QED BY <1>1, TypesInvariant, PTL

\* Even when it is, no change of the set of types is lost: the newest snapshot is the set, and
\* each snapshot was told to the listener or one call is about to (device_notify_client_type).
THEOREM ChangesKept == TypesSpec => []NoChangeIsLost
<1>1. ASSUME LostInv PROVE NoChangeIsLost
  <2>1. ASSUME NEW n \in DOMAIN present
        PROVE  (\A h \in Holders : Held[h] # n) <=>
                  \A s \in Sessions : call[s].snap # n /\ del[s].snap # n
    <3>1. ASSUME \A h \in Holders : Held[h] # n, NEW s \in Sessions
          PROVE  call[s].snap # n /\ del[s].snap # n
      <4>1. <<"script", s>> \in Holders /\ <<"loop", s>> \in Holders
        BY DEF Holders
      <4>2. Held[<<"script", s>>] = call[s].snap /\ Held[<<"loop", s>>] = del[s].snap
        BY <4>1 DEF Held
      <4> QED BY <3>1, <4>1, <4>2
    <3>2. ASSUME \A s \in Sessions : call[s].snap # n /\ del[s].snap # n, NEW h \in Holders
          PROVE  Held[h] # n
      <4>1. PICK a \in {"script", "loop"}, r \in Sessions : h = <<a, r>>
        BY DEF Holders
      <4> QED BY <3>2, <4>1 DEF Held
    <3> QED BY <3>1, <3>2
  <2> QED BY <1>1, <2>1 DEF LostInv, SnapsOK, NoChangeIsLost
<1> QED BY <1>1, TypesInvariant, PTL


-----------------------------------------------------------------------------
(***************************************************************************)
(* The handlers that are posted                                            *)
(***************************************************************************)

PostRecord == [kind : {"setup", "lost"}, state : Nat]

Posted(ps)     == {ps[i] : i \in 1..Len(ps)}
CountIn(ps, n) == Cardinality({i \in 1..Len(ps) : ps[i].state = n})

\* An answer is the first post of its setup and a loss the last.
Follows(x, y) == x.state = y.state => x.kind = "setup" /\ y.kind = "lost"
Ordered(ps)   == \A i, j \in 1..Len(ps) : i < j => Follows(ps[i], ps[j])

\* What is posted for a setup, as places of a list.
LEMMA CountPlaces ==
    ASSUME NEW ps \in Seq(PostRecord), NEW n
    PROVE  /\ CountIn(ps, n) = Cardinality(Places(ps, {x \in PostRecord : x.state = n}))
           /\ CountIn(ps, n) \in Nat
<1> DEFINE T == {x \in PostRecord : x.state = n}
<1>1. Len(ps) \in Nat /\ \A i \in 1..Len(ps) : ps[i] \in PostRecord
  BY LenProperties, ElementOfSeq
<1>2. {i \in 1..Len(ps) : ps[i].state = n} = Places(ps, T)
  BY <1>1 DEF Places
<1> QED  BY <1>1, <1>2, PlacesFinite DEF CountIn

\* What is posted are posts.
LEMMA PostedType ==
    ASSUME NEW ps \in Seq(PostRecord)
    PROVE  \A x \in Posted(ps) : x \in PostRecord /\ x.state \in Nat /\ x.kind \in {"setup", "lost"}
<1>1. \A i \in 1..Len(ps) : ps[i] \in PostRecord
  BY ElementOfSeq
<1> QED  BY <1>1 DEF Posted, PostRecord

\* A post behind the others.
LEMMA PostedAppend ==
    ASSUME NEW ps \in Seq(PostRecord), NEW e \in PostRecord
    PROVE  /\ Append(ps, e) \in Seq(PostRecord)
           /\ Posted(Append(ps, e)) = Posted(ps) \union {e}
           /\ \A n : CountIn(Append(ps, e), n) = CountIn(ps, n) + (IF e.state = n THEN 1 ELSE 0)
           /\ Ordered(ps) /\ (\A x \in Posted(ps) : Follows(x, e)) => Ordered(Append(ps, e))
<1> DEFINE q == Append(ps, e)
<1>1. /\ q \in Seq(PostRecord) /\ Len(ps) \in Nat /\ Len(q) = Len(ps) + 1
      /\ (\A i \in 1..Len(ps) : q[i] = ps[i]) /\ q[Len(ps) + 1] = e
  BY AppendProperties, LenProperties
<1>2. Insertion(q, ps, Len(ps), e)
  BY EndInsertions
<1> HIDE DEF q
<1>3. Posted(q) = Posted(ps) \union {e}
  BY <1>1 DEF Posted
<1>4. ASSUME NEW n PROVE CountIn(q, n) = CountIn(ps, n) + (IF e.state = n THEN 1 ELSE 0)
  <2> DEFINE T == {x \in PostRecord : x.state = n}
  <2>1. e \in T <=> e.state = n
    OBVIOUS
  <2> HIDE DEF T
  <2>2. Len(ps) \in 0..Len(ps)
    BY <1>1
  <2>3. Cardinality(Places(q, T)) = Cardinality(Places(ps, T)) + (IF e \in T THEN 1 ELSE 0)
    BY <1>1, <1>2, <2>2, PlacesInserted
  <2> QED  BY <1>1, <2>1, <2>3, CountPlaces DEF T
<1>5. ASSUME Ordered(ps), \A x \in Posted(ps) : Follows(x, e) PROVE Ordered(q)
  <2> SUFFICES ASSUME NEW i \in 1..Len(q), NEW j \in 1..Len(q), i < j PROVE Follows(q[i], q[j])
    BY DEF Ordered
  <2>1. i \in 1..Len(ps) /\ q[i] = ps[i]
    BY <1>1
  <2>2. CASE j = Len(q)
    <3>1. q[j] = e /\ q[i] \in Posted(ps)
      BY <1>1, <2>1, <2>2 DEF Posted
    <3> QED  BY <1>5, <3>1
  <2>3. CASE j # Len(q)
    <3>1. j \in 1..Len(ps) /\ q[j] = ps[j]
      BY <1>1, <2>3
    <3> QED  BY <1>5, <2>1, <3>1 DEF Ordered
  <2> QED  BY <2>2, <2>3
<1> QED  BY <1>1, <1>3, <1>4, <1>5 DEF q

\* The first post is lost.
LEMMA PostedTail ==
    ASSUME NEW ps \in Seq(PostRecord), ps # <<>>
    PROVE  /\ Tail(ps) \in Seq(PostRecord) /\ Head(ps) \in PostRecord
           /\ Posted(ps) = Posted(Tail(ps)) \union {Head(ps)}
           /\ \A n : CountIn(ps, n) = CountIn(Tail(ps), n) + (IF Head(ps).state = n THEN 1 ELSE 0)
           /\ Ordered(ps) => Ordered(Tail(ps)) /\ \A x \in Posted(Tail(ps)) : Follows(Head(ps), x)
<1> DEFINE q == Tail(ps)
           h == Head(ps)
<1>1. /\ q \in Seq(PostRecord) /\ h \in PostRecord /\ Len(ps) \in Nat /\ Len(ps) # 0
      /\ Len(q) = Len(ps) - 1 /\ h = ps[1] /\ \A i \in 1..Len(q) : q[i] = ps[i + 1]
  BY HeadTailProperties, LenProperties, EmptySeq
<1>2. Insertion(ps, q, 0, h) /\ Len(q) \in Nat
  BY TailInsertion
<1> HIDE DEF q, h
<1>3. Posted(ps) = Posted(q) \union {h}
  <2>1. ASSUME NEW i \in 1..Len(ps) PROVE ps[i] = h \/ \E j \in 1..Len(q) : ps[i] = q[j]
    <3>1. CASE i = 1
      BY <1>1, <3>1
    <3>2. CASE i # 1
      <4>1. i - 1 \in 1..Len(q) /\ q[i - 1] = ps[i]
        BY <1>1, <3>2
      <4> QED  BY <4>1
    <3> QED  BY <3>1, <3>2
  <2>2. 1 \in 1..Len(ps) /\ \A j \in 1..Len(q) : j + 1 \in 1..Len(ps) /\ q[j] = ps[j + 1]
    BY <1>1
  <2>3. h \in Posted(ps) /\ Posted(q) \subseteq Posted(ps)
    BY <1>1, <2>2 DEF Posted
  <2>4. Posted(ps) \subseteq Posted(q) \union {h}
    BY <2>1 DEF Posted
  <2> QED  BY <2>3, <2>4
<1>4. ASSUME NEW n PROVE CountIn(ps, n) = CountIn(q, n) + (IF h.state = n THEN 1 ELSE 0)
  <2> DEFINE T == {x \in PostRecord : x.state = n}
  <2>1. h \in T <=> h.state = n
    BY <1>1
  <2> HIDE DEF T
  <2>2. 0 \in 0..Len(q)
    BY <1>2
  <2>3. Cardinality(Places(ps, T)) = Cardinality(Places(q, T)) + (IF h \in T THEN 1 ELSE 0)
    BY <1>2, <2>2, PlacesInserted
  <2> QED  BY <1>1, <2>1, <2>3, CountPlaces DEF T
<1>5. ASSUME Ordered(ps) PROVE Ordered(q) /\ \A x \in Posted(q) : Follows(h, x)
  <2>1. \A i \in 1..Len(q) : i + 1 \in 1..Len(ps) /\ 1 < i + 1 /\ q[i] = ps[i + 1]
    BY <1>1
  <2>2. Ordered(q)
    <3> SUFFICES ASSUME NEW i \in 1..Len(q), NEW j \in 1..Len(q), i < j PROVE Follows(q[i], q[j])
      BY DEF Ordered
    <3>1. i + 1 < j + 1
      OBVIOUS
    <3> QED  BY <1>5, <2>1, <3>1 DEF Ordered
  <2>3. ASSUME NEW i \in 1..Len(q) PROVE Follows(h, q[i])
    <3>1. 1 \in 1..Len(ps)
      BY <1>1
    <3> QED  BY <1>1, <1>5, <2>1, <3>1 DEF Ordered
  <2> QED  BY <2>2, <2>3 DEF Posted
<1> QED  BY <1>1, <1>3, <1>4, <1>5 DEF q, h

\* Nothing is posted.
LEMMA PostedNone ==
    <<>> \in Seq(PostRecord) /\ Posted(<<>>) = {} /\ Ordered(<<>>) /\ \A n : CountIn(<<>>, n) = 0
<1>1. <<>> \in Seq(PostRecord) /\ Len(<<>>) = 0
  BY EmptySeq
<1>2. 1..0 = {}
  OBVIOUS
<1>3. ASSUME NEW n PROVE CountIn(<<>>, n) = 0
  BY <1>1, PlacesEmpty, CountPlaces
<1> QED  BY <1>1, <1>2, <1>3 DEF Posted, Ordered

-----------------------------------------------------------------------------
(***************************************************************************)
(* The states                                                              *)
(***************************************************************************)

SetupStatuses == {"none", "ok", "failed"}

\* A list of states, by element.
LEMMA StateList ==
    ASSUME NEW f \in Seq(State)
    PROVE  /\ Len(f) \in Nat /\ DOMAIN f = 1..Len(f)
           /\ \A m \in 1..Len(f) : /\ f[m] \in State /\ f[m].refs \in Nat
                                  /\ f[m].dead \in BOOLEAN /\ f[m].status \in SetupStatuses
<1>1. \A m \in 1..Len(f) : f[m] \in State
  BY ElementOfSeq
<1>2. \A c \in State : c.refs \in Nat /\ c.dead \in BOOLEAN /\ c.status \in SetupStatuses
  BY DEF State, SetupStatuses
<1> QED  BY <1>1, <1>2, LenProperties

\* One element of a list is replaced.
LEMMA Replaced ==
    ASSUME NEW f \in Seq(State), NEW n \in 1..Len(f), NEW c \in State
    PROVE  /\ [f EXCEPT ![n] = c] \in Seq(State) /\ Len([f EXCEPT ![n] = c]) = Len(f)
           /\ \A m \in 1..Len(f) : [f EXCEPT ![n] = c][m] = IF m = n THEN c ELSE f[m]
BY ExceptSeq

\* A reference more.
LEMMA RefGives ==
    ASSUME NEW f \in Seq(State), NEW n \in 1..Len(f)
    PROVE  /\ Ref(f, n) \in Seq(State) /\ Len(Ref(f, n)) = Len(f)
           /\ \A m \in 1..Len(f) :
                 /\ Ref(f, n)[m].refs = f[m].refs + (IF m = n THEN 1 ELSE 0)
                 /\ Ref(f, n)[m].dead = f[m].dead /\ Ref(f, n)[m].status = f[m].status
<1> DEFINE c == [f[n] EXCEPT !.refs = @ + 1]
<1>1. f[n] \in State
  BY StateList
<1>2. c \in State /\ c.refs = f[n].refs + 1 /\ c.dead = f[n].dead /\ c.status = f[n].status
  BY <1>1 DEF State
<1>3. Ref(f, n) = [f EXCEPT ![n] = c]
  BY DEF Ref
<1> HIDE DEF c
<1>4. /\ Ref(f, n) \in Seq(State) /\ Len(Ref(f, n)) = Len(f)
      /\ \A m \in 1..Len(f) : Ref(f, n)[m] = IF m = n THEN c ELSE f[m]
  BY <1>2, <1>3, Replaced
<1>5. \A m \in 1..Len(f) : f[m].refs \in Nat
  BY StateList
<1> QED  BY <1>2, <1>4, <1>5

\* A reference less.
LEMMA UnrefGives ==
    ASSUME NEW f \in Seq(State), NEW n \in 1..Len(f), f[n].refs > 0
    PROVE  /\ Unref(f, n) \in Seq(State) /\ Len(Unref(f, n)) = Len(f)
           /\ \A m \in 1..Len(f) :
                 /\ Unref(f, n)[m].refs = f[m].refs - (IF m = n THEN 1 ELSE 0)
                 /\ Unref(f, n)[m].dead = f[m].dead /\ Unref(f, n)[m].status = f[m].status
<1> DEFINE c == [f[n] EXCEPT !.refs = @ - 1]
<1>1. f[n] \in State
  BY StateList
<1>2. c \in State /\ c.refs = f[n].refs - 1 /\ c.dead = f[n].dead /\ c.status = f[n].status
  BY <1>1 DEF State
<1>3. Unref(f, n) = [f EXCEPT ![n] = c]
  BY DEF Unref
<1> HIDE DEF c
<1>4. /\ Unref(f, n) \in Seq(State) /\ Len(Unref(f, n)) = Len(f)
      /\ \A m \in 1..Len(f) : Unref(f, n)[m] = IF m = n THEN c ELSE f[m]
  BY <1>2, <1>3, Replaced
<1>5. \A m \in 1..Len(f) : f[m].refs \in Nat
  BY StateList
<1> QED  BY <1>2, <1>4, <1>5

\* The end of a setup takes its reference, once.
LEMMA DropGives ==
    ASSUME NEW f \in Seq(State), NEW n \in 1..Len(f), ~f[n].dead => f[n].refs > 0
    PROVE  /\ Drop(f, n) \in Seq(State) /\ Len(Drop(f, n)) = Len(f)
           /\ \A m \in 1..Len(f) :
                 /\ Drop(f, n)[m].refs = f[m].refs - (IF m = n /\ ~f[n].dead THEN 1 ELSE 0)
                 /\ Drop(f, n)[m].dead <=> (f[m].dead \/ m = n)
                 /\ Drop(f, n)[m].status = f[m].status
<1>1. \A m \in 1..Len(f) : f[m] \in State /\ f[m].refs \in Nat /\ f[m].dead \in BOOLEAN
  BY StateList
<1>2. CASE f[n].dead
  <2>1. Drop(f, n) = f
    BY <1>2 DEF Drop
  <2> QED  BY <1>1, <1>2, <2>1
<1>3. CASE ~f[n].dead
  <2> DEFINE r == f[n].refs - 1
             c == [f[n] EXCEPT !.dead = TRUE, !.refs = r]
  <2>0. r \in Nat /\ f[n] \in State
    BY <1>1, <1>3
  <2> HIDE DEF r
  <2>1. c \in State /\ c.refs = r /\ c.dead /\ c.status = f[n].status
    BY <2>0 DEF State
  <2>2. Drop(f, n) = [f EXCEPT ![n] = c]
    BY <1>3 DEF Drop, r
  <2> HIDE DEF c
  <2>3. /\ Drop(f, n) \in Seq(State) /\ Len(Drop(f, n)) = Len(f)
        /\ \A m \in 1..Len(f) : Drop(f, n)[m] = IF m = n THEN c ELSE f[m]
    BY <2>1, <2>2, Replaced
  <2>4. ASSUME NEW m \in 1..Len(f)
        PROVE  /\ Drop(f, n)[m].refs = f[m].refs - (IF m = n THEN 1 ELSE 0)
               /\ Drop(f, n)[m].dead <=> (f[m].dead \/ m = n)
               /\ Drop(f, n)[m].status = f[m].status
    <3>1. CASE m = n
      BY <2>1, <2>3, <3>1 DEF r
    <3>2. CASE m # n
      BY <1>1, <2>3, <3>2
    <3> QED  BY <3>1, <3>2
  <2> QED  BY <1>3, <2>3, <2>4
<1> QED  BY <1>2, <1>3

-----------------------------------------------------------------------------
(***************************************************************************)
(* The inductive invariant                                                 *)
(***************************************************************************)

Plugs == {"asked", "granted", "losing", "done"}

TypesInv ==
    /\ cs \in Seq(State) /\ plug \in Seq(Plugs) /\ Len(plug) = Len(cs)
    /\ keys \subseteq Setups /\ slot \in Setups \union {None} /\ told \subseteq Setups
    /\ posts \in Seq(PostRecord)
    /\ lua \in [pc : {"idle", "callback", "closed"}, kind : {"none", "setup", "lost"}, state : Nat]
    /\ overlaid \in BOOLEAN /\ inFlight \in BOOLEAN /\ fault \in {"none", "freed", "nil"}

Open       == lua.pc # "closed"
InCallback == lua.pc = "callback"

\* A reference is there for the setup, for each post and for the callback that runs.
RefsCounted(n) ==
    cs[n].refs = (IF cs[n].dead THEN 0 ELSE 1) + CountIn(posts, n)
                 + (IF InCallback /\ lua.state = n THEN 1 ELSE 0)

\* The plugin has the last setup at most.  Until a setup is over its state is alive and in the
\* registry, and until it is answered nothing is posted for it.
Known(n) ==
    /\ plug[n] \in {"asked", "granted"} => n = Len(cs)
    /\ plug[n] = "asked" => /\ n \notin told /\ cs[n].status = "none"
                            /\ \A x \in Posted(posts) : x.state # n
    /\ plug[n] # "done" /\ Open => n \in keys /\ ~cs[n].dead
    /\ cs[n].status = "failed" => plug[n] = "done"

\* A post finds its callbacks; an answer comes before the script knows the token, and a loss
\* when the plugin is done with the setup.
Due(x) ==
    /\ x.state \in Setups /\ x.state \in keys
    /\ x.kind = "setup" => x.state \notin told
    /\ x.kind = "lost" => plug[x.state] = "done" /\ cs[x.state].status # "failed"

\* Nothing but the loss is posted for a setup whose callback runs.
CallbackInv ==
    InCallback =>
        /\ lua.state \in Setups /\ lua.kind # "none" /\ plug[lua.state] # "asked"
        /\ lua.kind = "lost" => plug[lua.state] = "done"
        /\ \A x \in Posted(posts) : Follows([kind |-> lua.kind, state |-> lua.state], x)

\* As long as setups do not overlap, the slot is the owner's, and a setup whose failure the
\* script has still to hear of is the last one.
SlotInv ==
    ~overlaid /\ Open =>
        /\ \A n \in Setups : plug[n] \in {"asked", "granted"} => slot = n
        /\ \A x \in Posted(posts) :
              x.kind = "setup" /\ cs[x.state].status = "failed" => x.state = Len(cs)
        /\ InCallback /\ lua.kind = "setup" /\ cs[lua.state].status = "failed"
           => lua.state = Len(cs)

\* A session that is closed has nothing posted, and has left.
ClosedInv ==
    /\ ~Open => posts = <<>>
    /\ ~Open /\ ~inFlight /\ ~overlaid => \A n \in Setups : plug[n] = "done"
    /\ fault # "none" => ~Open /\ (inFlight \/ overlaid)

ScriptInv ==
    /\ TypesInv /\ (Open => \A n \in Setups : RefsCounted(n))
    /\ \A n \in Setups : Known(n)
    /\ Ordered(posts) /\ \A x \in Posted(posts) : Due(x)
    /\ CallbackInv /\ SlotInv /\ ClosedInv

\* What the types say of setups and posts.
LEMMA Basics ==
    ASSUME TypesInv
    PROVE  /\ Len(cs) \in Nat /\ Setups = 1..Len(cs) /\ None \notin Setups
           /\ DOMAIN plug = Setups
           /\ \A n \in Setups : /\ cs[n] \in State /\ cs[n].refs \in Nat /\ cs[n].dead \in BOOLEAN
                                /\ cs[n].status \in SetupStatuses /\ plug[n] \in Plugs
           /\ \A n : CountIn(posts, n) \in Nat
           /\ \A x \in Posted(posts) : x \in PostRecord /\ x.state \in Nat
                                       /\ x.kind \in {"setup", "lost"}
<1>1. cs \in Seq(State) /\ plug \in Seq(Plugs) /\ Len(plug) = Len(cs) /\ posts \in Seq(PostRecord)
  BY DEF TypesInv
<1>2. /\ Len(cs) \in Nat /\ Setups = 1..Len(cs) /\ DOMAIN plug = Setups
      /\ \A n \in Setups : plug[n] \in Plugs
  BY <1>1, StateList, LenProperties, ElementOfSeq DEF Setups
<1>3. \A n \in Setups : /\ cs[n] \in State /\ cs[n].refs \in Nat /\ cs[n].dead \in BOOLEAN
                        /\ cs[n].status \in SetupStatuses
  BY <1>1, <1>2, StateList
<1>4. \A n : CountIn(posts, n) \in Nat
  BY <1>1, CountPlaces
<1>5. \A x \in Posted(posts) : x \in PostRecord /\ x.state \in Nat /\ x.kind \in {"setup", "lost"}
  BY <1>1, PostedType
<1>6. None \notin Setups
  BY <1>2 DEF None
<1> QED  BY <1>2, <1>3, <1>4, <1>5, <1>6

\* One element of plug is replaced.
LEMMA PlugGives ==
    ASSUME TypesInv, NEW n \in Setups, NEW v \in Plugs, plug' = [plug EXCEPT ![n] = v]
    PROVE  /\ plug' \in Seq(Plugs) /\ Len(plug') = Len(plug)
           /\ \A m \in Setups : plug'[m] = IF m = n THEN v ELSE plug[m]
<1>1. plug \in Seq(Plugs) /\ 1..Len(plug) = Setups
  BY Basics DEF TypesInv
<1> QED  BY <1>1, ExceptSeq

\* A setup that is not over has its state.
LEMMA AliveState ==
    ASSUME ScriptInv, NEW n \in Setups, Open, ~cs[n].dead
    PROVE  cs[n].refs > 0 /\ ~Freed(cs[n])
<1>1. cs[n].refs \in Nat /\ CountIn(posts, n) \in Nat /\ RefsCounted(n)
  BY Basics DEF ScriptInv
<1> QED  BY <1>1 DEF RefsCounted, Freed

\* A thread of the plugin posts an answer or a loss.
LEMMA PostStep ==
    ASSUME ScriptInv, fault = "none", Open, NEW n \in Setups, NEW kind \in {"setup", "lost"},
           NEW status \in SetupStatuses,
           \/ /\ kind = "setup" /\ plug[n] = "asked" /\ plug' = [plug EXCEPT ![n] = "granted"]
              /\ status = "ok"
           \/ /\ kind = "lost" /\ plug[n] = "losing" /\ plug' = [plug EXCEPT ![n] = "done"]
              /\ status = cs[n].status,
           cs' \in Seq(State), Len(cs') = Len(cs),
           \A m \in Setups : /\ cs'[m].refs = cs[m].refs + (IF m = n THEN 1 ELSE 0)
                             /\ cs'[m].dead = cs[m].dead
                             /\ cs'[m].status = IF m = n THEN status ELSE cs[m].status,
           posts' = Append(posts, Post(kind, n)),
           UNCHANGED <<keys, slot, lua, told, overlaid, inFlight, fault>>
    PROVE  ScriptInv'
<1> DEFINE e == Post(kind, n)
<1>0. TypesInv
  BY DEF ScriptInv
<1>1. /\ Setups = 1..Len(cs) /\ Setups \subseteq Nat /\ Setups' = Setups
      /\ \A m \in Setups : /\ cs[m].refs \in Nat /\ cs[m].dead \in BOOLEAN /\ plug[m] \in Plugs
                           /\ CountIn(posts, m) \in Nat
  <2>1. DOMAIN cs' = 1..Len(cs')
    BY StateList
  <2> QED  BY <1>0, <2>1, Basics DEF Setups
<1>2. /\ plug' \in Seq(Plugs) /\ Len(plug') = Len(plug)
      /\ \A m \in Setups : plug'[m] = IF m = n THEN (IF kind = "setup" THEN "granted" ELSE "done")
                                      ELSE plug[m]
  BY <1>0, PlugGives DEF Plugs
<1>3. e \in PostRecord /\ e.kind = kind /\ e.state = n
  BY <1>1 DEF Post, PostRecord
<1>4. \A x \in Posted(posts) : Follows(x, e) /\ Due(x) /\ x.state \in Setups
                               /\ x.kind \in {"setup", "lost"}
  <2>1. \A x \in Posted(posts) : Due(x) /\ x.kind \in {"setup", "lost"}
    BY <1>0, Basics DEF ScriptInv
  <2>2. Known(n)
    BY DEF ScriptInv
  <2> QED  BY <1>3, <2>1, <2>2 DEF Follows, Due, Known
<1>5. /\ posts' \in Seq(PostRecord) /\ Posted(posts') = Posted(posts) \union {e} /\ Ordered(posts')
      /\ \A m \in Setups : CountIn(posts', m) = CountIn(posts, m) + (IF n = m THEN 1 ELSE 0)
  <2>1. posts \in Seq(PostRecord) /\ Ordered(posts)
    BY DEF ScriptInv, TypesInv
  <2> QED  BY <1>3, <1>4, <2>1, PostedAppend
<1> HIDE DEF e
<1>6. TypesInv'
  BY <1>0, <1>1, <1>2, <1>5 DEF TypesInv
<1>7. ASSUME NEW m \in Setups PROVE RefsCounted(m)'
  <2>1. /\ cs[m].refs = (IF cs[m].dead THEN 0 ELSE 1) + CountIn(posts, m)
                        + (IF lua.pc = "callback" /\ lua.state = m THEN 1 ELSE 0)
        /\ cs'[m].dead = cs[m].dead /\ lua' = lua
        /\ cs'[m].refs = cs[m].refs + (IF m = n THEN 1 ELSE 0)
        /\ CountIn(posts', m) = CountIn(posts, m) + (IF n = m THEN 1 ELSE 0)
        /\ cs[m].refs \in Nat /\ CountIn(posts, m) \in Nat
    BY <1>1, <1>5 DEF ScriptInv, RefsCounted, InCallback
  <2> QED  BY <2>1 DEF RefsCounted, InCallback
<1>8. ASSUME NEW m \in Setups PROVE Known(m)'
  <2>1. Known(m) /\ Known(n)
    BY DEF ScriptInv
  <2> QED  BY <1>1, <1>2, <1>3, <1>5, <2>1 DEF Known, Open
<1>9. ASSUME NEW x \in Posted(posts') PROVE Due(x)'
  <2>1. Known(n) /\ n \in keys
    BY DEF ScriptInv, Known
  <2>2. CASE x = e
    BY <1>1, <1>2, <1>3, <2>1, <2>2 DEF Due, Known
  <2>3. CASE x # e
    <3>1. x \in Posted(posts) /\ Due(x) /\ x.state \in Setups
      BY <1>4, <1>5, <2>3
    <3> QED  BY <1>1, <1>2, <1>4, <3>1 DEF Due
  <2> QED  BY <2>2, <2>3
<1>10. CallbackInv'
  <2> SUFFICES ASSUME InCallback' PROVE CallbackInv'
    BY DEF CallbackInv
  <2>1. CallbackInv /\ lua' = lua /\ InCallback
    BY DEF ScriptInv, InCallback
  <2>2. lua.state = n => kind = "lost" /\ lua.kind = "setup"
    BY <1>0, <2>1 DEF CallbackInv, TypesInv
  <2>3. ASSUME NEW x \in Posted(posts')
        PROVE  Follows([kind |-> lua.kind, state |-> lua.state], x)
    BY <1>3, <1>5, <2>1, <2>2 DEF CallbackInv, Follows
  <2>4. lua.state \in Setups /\ lua.kind # "none" /\ plug'[lua.state] # "asked"
        /\ (lua.kind = "lost" => plug'[lua.state] = "done")
    BY <1>2, <2>1, <2>2 DEF CallbackInv
  <2> QED  BY <1>1, <2>1, <2>3, <2>4 DEF CallbackInv
<1>11. SlotInv'
  <2>1. SlotInv /\ Known(n)
    BY DEF ScriptInv
  <2>2. status = "failed" => kind = "lost" /\ cs[n].status = "failed"
    BY <2>1 DEF Known
  <2> SUFFICES ASSUME ~overlaid PROVE SlotInv'
    BY DEF SlotInv
  <2>3. \A m \in Setups : plug'[m] \in {"asked", "granted"} => slot' = m
    BY <1>2, <2>1 DEF SlotInv, Known
  <2>4. ASSUME NEW x \in Posted(posts'), x.kind = "setup", cs'[x.state].status = "failed"
        PROVE  x.state = Len(cs')
    <3>1. x # e
      BY <1>3, <2>2, <2>4
    <3>2. x \in Posted(posts) /\ x.state \in Setups
      BY <1>4, <1>5, <3>1
    <3>3. cs[x.state].status = "failed"
      BY <2>2, <2>4, <3>2
    <3> QED  BY <2>1, <2>4, <3>2, <3>3 DEF SlotInv
  <2>5. ASSUME InCallback', lua'.kind = "setup", cs'[lua'.state].status = "failed"
        PROVE  lua'.state = Len(cs')
    <3>1. InCallback /\ lua' = lua /\ lua.state \in Setups
      BY <2>5 DEF InCallback, ScriptInv, CallbackInv
    <3>2. cs[lua.state].status = "failed"
      BY <2>2, <2>5, <3>1
    <3> QED  BY <2>1, <2>5, <3>1, <3>2 DEF SlotInv
  <2> QED  BY <1>1, <2>3, <2>4, <2>5 DEF SlotInv
<1>12. ClosedInv'
  BY DEF ClosedInv, Open
<1> QED  BY <1>1, <1>5, <1>6, <1>7, <1>8, <1>9, <1>10, <1>11, <1>12 DEF ScriptInv

\* What is left unchanged but for the plugin's end of a setup: the output is taken away, or the
\* plugin calls back after the session was closed.
LEMMA PlugStep ==
    ASSUME ScriptInv, fault = "none", NEW n \in Setups, NEW v \in Plugs,
           plug' = [plug EXCEPT ![n] = v],
           \/ plug[n] \in {"asked", "granted"} /\ v = "losing" /\ fault' = fault
           \/ ~Open /\ plug[n] = "asked" /\ v = "granted" /\ fault' = "freed"
           \/ ~Open /\ plug[n] = "losing" /\ v = "done" /\ fault' = "freed",
           UNCHANGED <<cs, posts, keys, slot, lua, told, overlaid, inFlight>>
    PROVE  ScriptInv'
<1>0. TypesInv
  BY DEF ScriptInv
<1>1. /\ Setups' = Setups /\ plug[n] # "done"
      /\ plug' \in Seq(Plugs) /\ Len(plug') = Len(plug)
      /\ \A m \in Setups : plug'[m] = IF m = n THEN v ELSE plug[m]
  BY <1>0, PlugGives DEF Setups
<1>2. TypesInv'
  BY <1>0, <1>1 DEF TypesInv
<1>3. ASSUME NEW m \in Setups PROVE Known(m)'
  <2>1. Known(m) /\ Known(n)
    BY DEF ScriptInv
  <2> QED  BY <1>1, <2>1 DEF Known, Open
<1>4. ASSUME NEW x \in Posted(posts) PROVE Due(x)'
  <2>1. Due(x)
    BY DEF ScriptInv
  <2> QED  BY <1>1, <2>1 DEF Due
<1>5. CallbackInv'
  <2>1. CallbackInv
    BY DEF ScriptInv
  <2>2. InCallback' = InCallback /\ (InCallback => Open)
    BY DEF InCallback, Open
  <2> QED  BY <1>1, <2>1, <2>2 DEF CallbackInv
<1>6. SlotInv'
  <2>1. SlotInv
    BY DEF ScriptInv
  <2>2. InCallback' = InCallback /\ Open' = Open
    BY DEF InCallback, Open
  <2> QED  BY <1>1, <2>1, <2>2 DEF SlotInv
<1>7. ClosedInv'
  <2>1. ClosedInv
    BY DEF ScriptInv
  <2>2. ~Open => inFlight \/ overlaid
    BY <1>1, <2>1 DEF ClosedInv
  <2> QED  BY <2>1, <2>2 DEF ClosedInv, Open
<1>8. (Open => \A m \in Setups : RefsCounted(m))'
  <2>1. Open => \A m \in Setups : RefsCounted(m)
    BY DEF ScriptInv
  <2> QED  BY <1>1, <2>1 DEF RefsCounted, InCallback, Open
<1> QED  BY <1>1, <1>2, <1>3, <1>4, <1>5, <1>6, <1>7, <1>8 DEF ScriptInv

Result(f, n, v) == [f EXCEPT ![n].status = v, ![n].token = TRUE]

\* A result is noted in a state.
LEMMA ResultGives ==
    ASSUME NEW f \in Seq(State), NEW n \in 1..Len(f), NEW v \in SetupStatuses
    PROVE  /\ Result(f, n, v) \in Seq(State) /\ Len(Result(f, n, v)) = Len(f)
           /\ \A m \in 1..Len(f) : /\ Result(f, n, v)[m].refs = f[m].refs
                                   /\ Result(f, n, v)[m].dead = f[m].dead
                                   /\ Result(f, n, v)[m].status = IF m = n THEN v ELSE f[m].status
<1> DEFINE c == [f[n] EXCEPT !.status = v, !.token = TRUE]
<1>1. f[n] \in State
  BY StateList
<1>2. c \in State /\ c.refs = f[n].refs /\ c.dead = f[n].dead /\ c.status = v
  BY <1>1 DEF State, SetupStatuses
<1>3. Result(f, n, v) = [f EXCEPT ![n] = c]
  <2>1. f \in [1..Len(f) -> State]
    BY LenProperties
  <2> QED  BY <2>1 DEF Result
<1> HIDE DEF c
<1>4. /\ [f EXCEPT ![n] = c] \in Seq(State) /\ Len([f EXCEPT ![n] = c]) = Len(f)
      /\ \A m \in 1..Len(f) : [f EXCEPT ![n] = c][m] = IF m = n THEN c ELSE f[m]
  BY <1>2, Replaced
<1> QED  BY <1>2, <1>3, <1>4, Zenon

\* output_setup_cb
LEMMA ScriptAnswerStep ==
    ASSUME ScriptInv, fault = "none", NEW n \in Setups, Answer(n)
    PROVE  ScriptInv'
<1>1. cs \in Seq(State) /\ n \in 1..Len(cs) /\ Known(n)
  BY Basics DEF ScriptInv, TypesInv
<1>2. CASE ~Open
  BY <1>2, PlugStep DEF Answer, Gone, Open, Plugs
<1>3. CASE Open
  <2>1. ~Gone(n) /\ plug[n] = "asked"
    BY <1>1, <1>3, AliveState DEF Known, Gone, Open, Answer
  <2>2. /\ plug' = [plug EXCEPT ![n] = "granted"] /\ posts' = Append(posts, Post("setup", n))
        /\ cs' = [PostRef(cs, n) EXCEPT ![n].status = "ok", ![n].token = TRUE]
        /\ UNCHANGED <<keys, slot, lua, told, overlaid, inFlight, fault>>
    BY <2>1 DEF Answer
  <2> DEFINE f == Ref(cs, n)
  <2>3. /\ f \in Seq(State) /\ Len(f) = Len(cs)
        /\ \A m \in Setups : /\ f[m].refs = cs[m].refs + (IF m = n THEN 1 ELSE 0)
                             /\ f[m].dead = cs[m].dead /\ f[m].status = cs[m].status
    BY <1>1, RefGives, Basics DEF ScriptInv
  <2>4. cs' = Result(f, n, "ok")
    BY <2>2 DEF PostRef, Result
  <2> HIDE DEF f
  <2>5. /\ cs' \in Seq(State) /\ Len(cs') = Len(f)
        /\ \A m \in 1..Len(f) : /\ cs'[m].refs = f[m].refs /\ cs'[m].dead = f[m].dead
                                /\ cs'[m].status = IF m = n THEN "ok" ELSE f[m].status
    <3>1. n \in 1..Len(f) /\ f \in Seq(State) /\ "ok" \in SetupStatuses
      BY <1>1, <2>3 DEF SetupStatuses
    <3> QED  BY <2>4, <3>1, ResultGives
  <2>6. Setups = 1..Len(cs)
    BY Basics DEF ScriptInv
  <2>7. /\ cs' \in Seq(State) /\ Len(cs') = Len(cs)
        /\ \A m \in Setups : /\ cs'[m].refs = cs[m].refs + (IF m = n THEN 1 ELSE 0)
                             /\ cs'[m].dead = cs[m].dead
                             /\ cs'[m].status = IF m = n THEN "ok" ELSE cs[m].status
    BY <2>3, <2>5, <2>6
  <2> QED  BY <1>3, <2>1, <2>2, <2>7, PostStep DEF SetupStatuses
<1> QED  BY <1>2, <1>3

\* output_lost_cb
LEMMA OutputLostStep ==
    ASSUME ScriptInv, fault = "none", NEW n \in Setups, OutputLost(n)
    PROVE  ScriptInv'
<1>1. cs \in Seq(State) /\ n \in 1..Len(cs) /\ Known(n) /\ cs[n].status \in SetupStatuses
  BY Basics DEF ScriptInv, TypesInv
<1>2. CASE ~Open
  BY <1>2, PlugStep DEF OutputLost, Gone, Open, Plugs
<1>3. CASE Open
  <2>1. ~Gone(n) /\ plug[n] = "losing"
    BY <1>1, <1>3, AliveState DEF Known, Gone, Open, OutputLost
  <2>2. /\ plug' = [plug EXCEPT ![n] = "done"] /\ posts' = Append(posts, Post("lost", n))
        /\ cs' = Ref(cs, n)
        /\ UNCHANGED <<keys, slot, lua, told, overlaid, inFlight, fault>>
    BY <2>1 DEF OutputLost, PostRef
  <2>3. /\ cs' \in Seq(State) /\ Len(cs') = Len(cs)
        /\ \A m \in Setups : /\ cs'[m].refs = cs[m].refs + (IF m = n THEN 1 ELSE 0)
                             /\ cs'[m].dead = cs[m].dead
                             /\ cs'[m].status = IF m = n THEN cs[n].status ELSE cs[m].status
    BY <1>1, <2>2, RefGives, Basics DEF ScriptInv
  <2> QED  BY <1>1, <1>3, <2>1, <2>2, <2>3, PostStep
<1> QED  BY <1>2, <1>3

\* Somebody else takes the output.
LEMMA TakenStep ==
    ASSUME ScriptInv, fault = "none", NEW n \in Setups, Taken(n)
    PROVE  ScriptInv'
BY PlugStep DEF Taken, Owners, Plugs

\* The session's thread ends setups: what it frees nobody will use.
LEMMA EndStep ==
    ASSUME ScriptInv, fault = "none", Open, UNCHANGED <<posts, told, overlaid, inFlight, fault>>,
           lua' = lua \/ lua' = Idle,
           cs' \in Seq(State), Len(cs') = Len(cs), plug' \in Seq(Plugs), Len(plug') = Len(plug),
           \A m \in Setups : cs'[m].status = cs[m].status /\ RefsCounted(m)',
           \A m \in Setups : plug'[m] = plug[m] \/ plug'[m] = "done",
           \A m \in Setups : cs'[m].dead => cs[m].dead \/ plug'[m] = "done",
           keys' \subseteq keys,
           \A m \in keys \ keys' : plug'[m] = "done" /\ \A x \in Posted(posts) : x.state # m,
           slot' \in Setups \union {None},
           ~overlaid => \A m \in Setups : plug'[m] \in {"asked", "granted"} => slot' = m
    PROVE  ScriptInv'
<1>0. /\ TypesInv /\ Setups = 1..Len(cs) /\ Setups' = Setups /\ Open'
      /\ \A m \in Setups : cs'[m].dead \in BOOLEAN
  <2>1. Setups = 1..Len(cs) /\ Setups' = 1..Len(cs')
    BY Basics, StateList DEF ScriptInv, Setups
  <2> QED  BY <2>1, StateList DEF ScriptInv, Open, Idle
<1>1. TypesInv'
  <2>1. lua' \in [pc : {"idle", "callback", "closed"}, kind : {"none", "setup", "lost"}, state : Nat]
    BY <1>0 DEF TypesInv, Idle, None
  <2> QED  BY <1>0, <2>1 DEF TypesInv
<1>2. ASSUME NEW m \in Setups PROVE Known(m)'
  <2>1. Known(m)
    BY DEF ScriptInv
  <2>2. plug'[m] # "done" => m \in keys' /\ ~cs'[m].dead
    BY <2>1 DEF Known
  <2> QED  BY <1>0, <2>1, <2>2 DEF Known
<1>3. ASSUME NEW x \in Posted(posts) PROVE Due(x)'
  <2>1. Due(x)
    BY DEF ScriptInv
  <2> QED  BY <1>0, <2>1 DEF Due
<1>4. CallbackInv'
  <2>1. CallbackInv /\ (InCallback' => InCallback /\ lua' = lua)
    BY DEF ScriptInv, InCallback, Idle
  <2> SUFFICES ASSUME InCallback' PROVE CallbackInv'
    BY DEF CallbackInv
  <2> QED  BY <1>0, <2>1 DEF CallbackInv
<1>5. SlotInv'
  <2>1. SlotInv /\ (InCallback' => InCallback /\ lua' = lua /\ lua.state \in Setups)
    BY DEF ScriptInv, CallbackInv, InCallback, Idle
  <2> SUFFICES ASSUME ~overlaid PROVE SlotInv'
    BY DEF SlotInv
  <2>2. \A x \in Posted(posts) : x.state \in Setups
    BY DEF ScriptInv, Due
  <2> QED  BY <1>0, <2>1, <2>2 DEF SlotInv
<1>6. ClosedInv'
  BY <1>0 DEF ClosedInv
<1>7. Ordered(posts)
  BY DEF ScriptInv
<1> QED  BY <1>0, <1>1, <1>2, <1>3, <1>4, <1>5, <1>6, <1>7 DEF ScriptInv

\* raat.output.teardown
LEMMA TeardownStep ==
    ASSUME ScriptInv, fault = "none", NEW n \in Setups, Teardown(n)
    PROVE  ScriptInv'
<1>0. /\ TypesInv /\ Known(n) /\ n \in told /\ plug[n] = "granted" /\ lua' = lua
      /\ plug' = [plug EXCEPT ![n] = "done"] /\ Open /\ n \in 1..Len(cs) /\ Setups = 1..Len(cs)
      /\ UNCHANGED <<posts, told, overlaid, inFlight, fault>>
  BY Basics DEF Teardown, ScriptInv, InLua, Open
<1>1. /\ plug' \in Seq(Plugs) /\ Len(plug') = Len(plug)
      /\ \A m \in Setups : plug'[m] = IF m = n THEN "done" ELSE plug[m]
  BY <1>0, PlugGives DEF Plugs
<1>2. ASSUME NEW x \in Posted(posts) PROVE x.state # n
  <2>1. Due(x) /\ x.kind \in {"setup", "lost"}
    BY <1>0, Basics DEF ScriptInv
  <2> QED  BY <1>0, <2>1 DEF Due
<1>3. ~overlaid => \A m \in Setups : plug[m] \in {"asked", "granted"} => slot = m
  BY <1>0 DEF ScriptInv, SlotInv
<1>4. \A m \in Setups : /\ RefsCounted(m) /\ cs[m].refs \in Nat /\ cs[m].dead \in BOOLEAN
                        /\ CountIn(posts, m) \in Nat
  BY <1>0, Basics DEF ScriptInv
<1>5. slot \in Setups \union {None} /\ cs \in Seq(State) /\ ~cs[n].dead
  BY <1>0 DEF TypesInv, Known
<1>6. CASE slot = n
  <2>1. keys' = keys \ {n} /\ slot' = None /\ cs' = Drop(cs, n)
    BY <1>6 DEF Teardown
  <2>2. /\ cs' \in Seq(State) /\ Len(cs') = Len(cs)
        /\ \A m \in Setups : /\ cs'[m].refs = cs[m].refs - (IF m = n /\ ~cs[n].dead THEN 1 ELSE 0)
                             /\ cs'[m].dead <=> (cs[m].dead \/ m = n)
                             /\ cs'[m].status = cs[m].status
    BY <1>0, <1>5, <2>1, AliveState, DropGives
  <2>3. \A m \in Setups : RefsCounted(m)'
    BY <1>0, <1>4, <1>5, <2>2 DEF RefsCounted, InCallback
  <2>4. ~overlaid => \A m \in Setups : plug'[m] \in {"asked", "granted"} => slot' = m
    BY <1>1, <1>3, <1>6
  <2> QED  BY <1>0, <1>1, <1>2, <2>1, <2>2, <2>3, <2>4, EndStep
<1>7. CASE slot # n
  <2>1. UNCHANGED <<keys, slot, cs>>
    BY <1>7 DEF Teardown
  <2>2. \A m \in Setups : RefsCounted(m)'
    BY <1>0, <1>4, <2>1 DEF RefsCounted, InCallback
  <2>4. ~overlaid => \A m \in Setups : plug'[m] \in {"asked", "granted"} => slot' = m
    BY <1>1, <1>3, <2>1
  <2> QED  BY <1>0, <1>1, <1>5, <2>1, <2>2, <2>4, EndStep
<1> QED  BY <1>6, <1>7

\* The end of a setup and of the callback that told of it.
LEMMA DropUnrefGives ==
    ASSUME NEW f \in Seq(State), NEW n \in 1..Len(f), f[n].refs > (IF f[n].dead THEN 0 ELSE 1)
    PROVE  /\ Unref(Drop(f, n), n) \in Seq(State) /\ Len(Unref(Drop(f, n), n)) = Len(f)
           /\ \A m \in 1..Len(f) :
                 /\ Unref(Drop(f, n), n)[m].refs
                      = f[m].refs - (IF m # n THEN 0 ELSE IF f[n].dead THEN 1 ELSE 2)
                 /\ Unref(Drop(f, n), n)[m].dead <=> (f[m].dead \/ m = n)
                 /\ Unref(Drop(f, n), n)[m].status = f[m].status
<1> DEFINE g == Drop(f, n)
<1>1. \A m \in 1..Len(f) : f[m].refs \in Nat
  BY StateList
<1>2. /\ g \in Seq(State) /\ Len(g) = Len(f)
      /\ \A m \in 1..Len(f) : /\ g[m].refs = f[m].refs - (IF m = n /\ ~f[n].dead THEN 1 ELSE 0)
                              /\ g[m].dead <=> (f[m].dead \/ m = n)
                              /\ g[m].status = f[m].status
  <2>1. ~f[n].dead => f[n].refs > 0
    BY <1>1
  <2> QED  BY <2>1, DropGives
<1> HIDE DEF g
<1>3. g[n].refs > 0
  BY <1>1, <1>2
<1>4. /\ Unref(g, n) \in Seq(State) /\ Len(Unref(g, n)) = Len(g)
      /\ \A m \in 1..Len(g) : /\ Unref(g, n)[m].refs = g[m].refs - (IF m = n THEN 1 ELSE 0)
                              /\ Unref(g, n)[m].dead = g[m].dead
                              /\ Unref(g, n)[m].status = g[m].status
  BY <1>2, <1>3, UnrefGives
<1> QED  BY <1>1, <1>2, <1>4 DEF g

\* What is known when a callback returns.
LEMMA CallbackFacts ==
    ASSUME ScriptInv, InCallback
    PROVE  /\ TypesInv /\ CallbackInv /\ Open /\ Setups = 1..Len(cs) /\ lua.state \in Setups
           /\ cs \in Seq(State) /\ plug \in Seq(Plugs) /\ slot \in Setups \union {None}
           /\ Known(lua.state)
           /\ cs[lua.state].refs > (IF cs[lua.state].dead THEN 0 ELSE 1)
           /\ \A m \in Setups : /\ RefsCounted(m) /\ cs[m].refs \in Nat /\ cs[m].dead \in BOOLEAN
                                /\ CountIn(posts, m) \in Nat /\ plug[m] \in Plugs
           /\ \A x \in Posted(posts) : Due(x) /\ x.kind \in {"setup", "lost"}
<1>1. TypesInv /\ CallbackInv /\ Open /\ lua.state \in Setups /\ Known(lua.state)
  BY DEF ScriptInv, InCallback, Open, CallbackInv
<1>2. /\ \A m \in Setups : /\ RefsCounted(m) /\ cs[m].refs \in Nat /\ cs[m].dead \in BOOLEAN
                           /\ CountIn(posts, m) \in Nat /\ plug[m] \in Plugs
      /\ \A x \in Posted(posts) : Due(x) /\ x.kind \in {"setup", "lost"}
  BY <1>1, Basics DEF ScriptInv
<1>3. cs[lua.state].refs > (IF cs[lua.state].dead THEN 0 ELSE 1)
  BY <1>1, <1>2 DEF RefsCounted
<1> QED  BY <1>1, <1>2, <1>3, Basics DEF TypesInv

\* output_setup_cb_inthread, after the callback
LEMMA SetupHandledStep ==
    ASSUME ScriptInv, fault = "none", SetupHandled
    PROVE  ScriptInv'
<1> DEFINE n == lua.state
<1>0. /\ InCallback /\ lua.kind = "setup" /\ lua' = Idle
      /\ UNCHANGED <<posts, plug, told, overlaid, inFlight, fault>>
  BY DEF SetupHandled, InCallback
<1>1. /\ TypesInv /\ CallbackInv /\ Open /\ Setups = 1..Len(cs) /\ n \in Setups
      /\ cs \in Seq(State) /\ plug \in Seq(Plugs) /\ slot \in Setups \union {None}
      /\ Known(n) /\ cs[n].refs > (IF cs[n].dead THEN 0 ELSE 1)
      /\ \A m \in Setups : /\ RefsCounted(m) /\ cs[m].refs \in Nat /\ cs[m].dead \in BOOLEAN
                           /\ CountIn(posts, m) \in Nat /\ plug[m] \in Plugs
      /\ \A x \in Posted(posts) : Due(x) /\ x.kind \in {"setup", "lost"}
  BY <1>0, CallbackFacts
<1>2. ~InCallback' /\ InCallback /\ lua.state = n
  BY <1>0 DEF InCallback, Idle
<1>3. CASE cs[n].status = "failed"
  <2>1. keys' = keys \ {n} /\ slot' = None /\ cs' = Unref(Drop(cs, n), n)
    BY <1>3 DEF SetupHandled
  <2>2. /\ cs' \in Seq(State) /\ Len(cs') = Len(cs)
        /\ \A m \in Setups : /\ cs'[m].refs = cs[m].refs - (IF m # n THEN 0
                                                            ELSE IF cs[n].dead THEN 1 ELSE 2)
                             /\ cs'[m].dead <=> (cs[m].dead \/ m = n)
                             /\ cs'[m].status = cs[m].status
    BY <1>1, <2>1, DropUnrefGives, SMTT(30)
  <2>3. plug[n] = "done"
    BY <1>1, <1>3 DEF Known
  <2>4. \A x \in Posted(posts) : x.state # n
    BY <1>1, <1>2, <1>3 DEF CallbackInv, Follows, Due
  <2>5. ~overlaid => \A m \in Setups : plug[m] \notin {"asked", "granted"}
    <3>1. SlotInv /\ \A m \in Setups : Known(m)
      BY DEF ScriptInv
    <3> QED  BY <1>0, <1>1, <1>3, <2>3, <3>1 DEF SlotInv, Known
  <2>6. \A m \in Setups : RefsCounted(m)'
    <3> HIDE DEF n
    <3> SUFFICES ASSUME NEW m \in Setups PROVE RefsCounted(m)'
      OBVIOUS
    <3>1. RefsCounted(m) /\ posts' = posts /\ cs[m].refs \in Nat /\ CountIn(posts, m) \in Nat
          /\ cs[m].dead \in BOOLEAN /\ InCallback /\ ~InCallback' /\ lua.state = n
      BY <1>0, <1>1, <1>2
    <3>2. /\ cs'[m].refs = cs[m].refs - (IF m # n THEN 0 ELSE IF cs[n].dead THEN 1 ELSE 2)
          /\ cs'[m].dead <=> (cs[m].dead \/ m = n)
      BY <2>2
    <3>3. CASE m = n
      BY <3>1, <3>2, <3>3 DEF RefsCounted
    <3>4. CASE m # n
      BY <3>1, <3>2, <3>4 DEF RefsCounted
    <3> QED  BY <3>3, <3>4
  <2> HIDE DEF n
  <2> QED  BY <1>0, <1>1, <2>1, <2>2, <2>3, <2>4, <2>5, <2>6, EndStep
<1>4. CASE cs[n].status # "failed"
  <2>1. UNCHANGED <<keys, slot>> /\ cs' = Unref(cs, n)
    BY <1>4 DEF SetupHandled
  <2>2. /\ cs' \in Seq(State) /\ Len(cs') = Len(cs)
        /\ \A m \in Setups : /\ cs'[m].refs = cs[m].refs - (IF m = n THEN 1 ELSE 0)
                             /\ cs'[m].dead = cs[m].dead /\ cs'[m].status = cs[m].status
    <3>1. cs[n].refs > 0
      BY <1>1
    <3> QED  BY <1>1, <2>1, <3>1, UnrefGives
  <2>3. \A m \in Setups : RefsCounted(m)'
    <3> HIDE DEF n
    <3> SUFFICES ASSUME NEW m \in Setups PROVE RefsCounted(m)'
      OBVIOUS
    <3>1. /\ RefsCounted(m) /\ posts' = posts /\ cs[m].refs \in Nat /\ CountIn(posts, m) \in Nat
          /\ cs[m].dead \in BOOLEAN /\ InCallback /\ ~InCallback' /\ lua.state = n
          /\ cs'[m].refs = cs[m].refs - (IF m = n THEN 1 ELSE 0) /\ cs'[m].dead = cs[m].dead
      BY <1>0, <1>1, <1>2, <2>2
    <3>2. CASE m # n
      BY <3>1, <3>2 DEF RefsCounted
    <3>3. CASE m = n
      BY <3>1, <3>3 DEF RefsCounted
    <3> QED  BY <3>2, <3>3
  <2>4. ~overlaid => \A m \in Setups : plug'[m] \in {"asked", "granted"} => slot' = m
    BY <1>0, <1>1, <2>1 DEF ScriptInv, SlotInv
  <2> HIDE DEF n
  <2> QED  BY <1>0, <1>1, <2>1, <2>2, <2>3, <2>4, EndStep
<1> QED  BY <1>3, <1>4

\* output_lost_cb_inthread, after the callback
LEMMA LostHandledStep ==
    ASSUME ScriptInv, fault = "none", LostHandled
    PROVE  ScriptInv'
<1> DEFINE n == lua.state
<1>0. /\ InCallback /\ lua.kind = "lost" /\ lua' = Idle /\ cs' = Unref(Drop(cs, n), n)
      /\ UNCHANGED <<posts, told, overlaid, inFlight, fault>>
  BY DEF LostHandled, InCallback
<1>1. /\ TypesInv /\ CallbackInv /\ Open /\ Setups = 1..Len(cs) /\ n \in Setups
      /\ cs \in Seq(State) /\ plug \in Seq(Plugs) /\ slot \in Setups \union {None}
      /\ Known(n) /\ cs[n].refs > (IF cs[n].dead THEN 0 ELSE 1)
      /\ \A m \in Setups : /\ RefsCounted(m) /\ cs[m].refs \in Nat /\ cs[m].dead \in BOOLEAN
                           /\ CountIn(posts, m) \in Nat /\ plug[m] \in Plugs
      /\ \A x \in Posted(posts) : Due(x) /\ x.kind \in {"setup", "lost"}
  BY <1>0, CallbackFacts
<1>2. ~InCallback' /\ InCallback /\ lua.state = n
  BY <1>0 DEF InCallback, Idle
<1>3. plug[n] = "done" /\ \A x \in Posted(posts) : x.state # n
  BY <1>0, <1>1, <1>2 DEF CallbackInv, Follows
<1>4. /\ cs' \in Seq(State) /\ Len(cs') = Len(cs)
      /\ \A m \in Setups : /\ cs'[m].refs = cs[m].refs - (IF m # n THEN 0
                                                          ELSE IF cs[n].dead THEN 1 ELSE 2)
                           /\ cs'[m].dead <=> (cs[m].dead \/ m = n)
                           /\ cs'[m].status = cs[m].status
  BY <1>0, <1>1, DropUnrefGives
<1>5. \A m \in Setups : RefsCounted(m)'
  <2> HIDE DEF n
  <2> SUFFICES ASSUME NEW m \in Setups PROVE RefsCounted(m)'
    OBVIOUS
  <2>1. RefsCounted(m) /\ posts' = posts /\ cs[m].refs \in Nat /\ CountIn(posts, m) \in Nat
        /\ cs[m].dead \in BOOLEAN /\ InCallback /\ ~InCallback' /\ lua.state = n
    BY <1>0, <1>1, <1>2
  <2>2. /\ cs'[m].refs = cs[m].refs - (IF m # n THEN 0 ELSE IF cs[n].dead THEN 1 ELSE 2)
        /\ cs'[m].dead <=> (cs[m].dead \/ m = n)
    BY <1>4
  <2>3. CASE m = n
    BY <2>1, <2>2, <2>3 DEF RefsCounted
  <2>4. CASE m # n
    BY <2>1, <2>2, <2>4 DEF RefsCounted
  <2> QED  BY <2>3, <2>4
<1>6. plug' = plug
  <2>1. CASE slot = n
    <3>1. plug' = [plug EXCEPT ![n] = IF @ = "granted" THEN "done" ELSE @]
      BY <2>1 DEF LostHandled
    <3>2. plug \in [1..Len(plug) -> Plugs]
      BY <1>1, LenProperties
    <3> HIDE DEF n
    <3> QED  BY <1>3, <3>1, <3>2
  <2>2. CASE slot # n
    BY <2>2 DEF LostHandled
  <2> QED  BY <2>1, <2>2
<1>7. (keys' = keys \ {n} /\ slot' = None /\ slot = n) \/ UNCHANGED <<keys, slot>>
  BY DEF LostHandled
<1>8. ~overlaid => \A m \in Setups : plug'[m] \in {"asked", "granted"} => slot' = m
  BY <1>1, <1>3, <1>6, <1>7 DEF ScriptInv, SlotInv
<1> HIDE DEF n
<1> QED  BY <1>0, <1>1, <1>3, <1>4, <1>5, <1>6, <1>7, <1>8, EndStep

\* Nothing is counted where nothing is posted.
LEMMA CountNothing ==
    ASSUME NEW ps \in Seq(PostRecord), NEW n, \A x \in Posted(ps) : x.state # n
    PROVE  CountIn(ps, n) = 0
<1>1. {i \in 1..Len(ps) : ps[i].state = n} = {}
  BY DEF Posted
<1> QED  BY <1>1, FS_EmptySet DEF CountIn

\* output_setup_cb_inthread and output_lost_cb_inthread, before the callback
LEMMA HandleStep ==
    ASSUME ScriptInv, fault = "none", Handle
    PROVE  ScriptInv'
<1> DEFINE h == Head(posts)
           q == Tail(posts)
<1>0. TypesInv /\ posts \in Seq(PostRecord) /\ posts # <<>> /\ Open /\ lua.pc = "idle" /\ posts' = q
      /\ Setups' = Setups /\ UNCHANGED <<cs, keys, slot, plug, overlaid, inFlight>>
  BY DEF ScriptInv, TypesInv, Handle, Open, Setups
<1>1. /\ q \in Seq(PostRecord) /\ h \in PostRecord /\ Posted(posts) = Posted(q) \union {h}
      /\ \A m : CountIn(posts, m) = CountIn(q, m) + (IF h.state = m THEN 1 ELSE 0)
      /\ Ordered(q) /\ \A x \in Posted(q) : Follows(h, x)
  BY <1>0, PostedTail DEF ScriptInv
<1>2. Due(h) /\ h.state \in Setups /\ h.state \in keys /\ h.state \in Nat /\ h.kind \in {"setup", "lost"}
  BY <1>1 DEF ScriptInv, Due, PostRecord
<1>3. \A m \in Setups : /\ RefsCounted(m) /\ Known(m) /\ cs[m].refs \in Nat /\ CountIn(posts, m) \in Nat
                        /\ CountIn(q, m) \in Nat
  BY <1>0, <1>1, Basics, CountPlaces DEF ScriptInv
<1>4. ~Freed(cs[h.state])
  <2>1. /\ CountIn(posts, h.state) = CountIn(q, h.state) + 1 /\ CountIn(q, h.state) \in Nat
        /\ RefsCounted(h.state)
    BY <1>1, <1>2, <1>3
  <2> QED  BY <2>1 DEF RefsCounted, Freed
<1>5. /\ lua' = [pc |-> "callback", kind |-> h.kind, state |-> h.state] /\ fault' = fault
      /\ told' = IF h.kind = "setup" /\ cs[h.state].status = "ok" THEN told \union {h.state} ELSE told
  BY <1>2, <1>4 DEF Handle
<1> HIDE DEF h, q
<1>6. Open' /\ InCallback' /\ ~InCallback /\ lua'.state = h.state /\ lua'.kind = h.kind
  BY <1>0, <1>5 DEF Open, InCallback
<1>7. TypesInv'
  <2>1. lua' \in [pc : {"idle", "callback", "closed"}, kind : {"none", "setup", "lost"}, state : Nat]
    BY <1>2, <1>5
  <2>2. told' \subseteq Setups
    BY <1>0, <1>2, <1>5 DEF TypesInv
  <2> QED  BY <1>0, <1>1, <1>5, <2>1, <2>2 DEF TypesInv
<1>8. ASSUME NEW m \in Setups PROVE RefsCounted(m)'
  <2>1. /\ cs[m].refs = (IF cs[m].dead THEN 0 ELSE 1) + CountIn(posts, m)
        /\ CountIn(posts, m) = CountIn(q, m) + (IF h.state = m THEN 1 ELSE 0)
        /\ cs[m].refs \in Nat /\ CountIn(q, m) \in Nat
    BY <1>1, <1>3, <1>6 DEF RefsCounted
  <2> QED  BY <1>0, <1>6, <2>1 DEF RefsCounted
<1>9. ASSUME NEW m \in Setups PROVE Known(m)'
  <2>1. Known(m) /\ h \in Posted(posts) /\ Posted(q) \subseteq Posted(posts)
    BY <1>1, <1>3
  <2> QED  BY <1>0, <1>5, <1>6, <2>1 DEF Known
<1>10. ASSUME NEW x \in Posted(q) PROVE Due(x)'
  <2>1. Due(x) /\ Follows(h, x)
    BY <1>1 DEF ScriptInv
  <2> QED  BY <1>0, <1>5, <2>1 DEF Due, Follows
<1>11. CallbackInv'
  <2>1. h \in Posted(posts) /\ Known(h.state)
    BY <1>1, <1>2, <1>3
  <2> QED  BY <1>0, <1>1, <1>2, <1>6, <2>1 DEF CallbackInv, Follows, Due, Known
<1>12. SlotInv'
  <2>1. SlotInv /\ h \in Posted(posts) /\ Posted(q) \subseteq Posted(posts)
    BY <1>1 DEF ScriptInv
  <2> QED  BY <1>0, <1>5, <1>6, <2>1 DEF SlotInv
<1>13. ClosedInv'
  BY <1>5, <1>6 DEF ClosedInv
<1> QED  BY <1>0, <1>1, <1>7, <1>8, <1>9, <1>10, <1>11, <1>12, <1>13 DEF ScriptInv

\* The session's Lua state is closed.
LEMMA ScriptCloseStep ==
    ASSUME ScriptInv, fault = "none", Close
    PROVE  ScriptInv'
<1>0. /\ TypesInv /\ Open /\ ~Open' /\ ~InCallback' /\ posts' = <<>> /\ Setups = 1..Len(cs)
      /\ inFlight' = (\E n \in Setups : plug[n] = "asked" \/ plug[n] = "losing")
      /\ UNCHANGED <<told, overlaid, fault>> /\ lua' = [lua EXCEPT !.pc = "closed"]
      /\ cs \in Seq(State) /\ plug \in Seq(Plugs) /\ Len(plug) = Len(cs) /\ DOMAIN plug = Setups
      /\ slot \in Setups \union {None} /\ None \notin Setups
  <2>1. TypesInv
    BY DEF ScriptInv
  <2>2. lua' = [lua EXCEPT !.pc = "closed"] /\ lua'.pc = "closed" /\ lua.pc = "idle"
    BY <2>1 DEF Close, TypesInv
  <2> QED  BY <2>1, <2>2, Basics DEF Close, Open, InCallback, TypesInv
<1>1. /\ cs' \in Seq(State) /\ Len(cs') = Len(cs)
      /\ \A m \in Setups : cs'[m].status = cs[m].status
  <2>1. CASE slot = None
    BY <1>0, <2>1 DEF Close
  <2>2. CASE slot # None
    <3>1. slot \in 1..Len(cs) /\ cs' = Drop(cs, slot) /\ (~cs[slot].dead => cs[slot].refs > 0)
      BY <1>0, <2>2, AliveState DEF Close
    <3> QED  BY <1>0, <3>1, DropGives
  <2> QED  BY <2>1, <2>2
<1>2. Setups' = Setups
  BY <1>0, <1>1, StateList DEF Setups
<1>3. /\ plug' \in Seq(Plugs) /\ Len(plug') = Len(plug)
      /\ \A m \in Setups : plug'[m] = IF m = slot /\ plug[m] = "granted" THEN "done" ELSE plug[m]
  <2>1. CASE slot = None
    BY <1>0, <2>1 DEF Close
  <2>2. CASE slot # None
    <3> DEFINE v == IF plug[slot] = "granted" THEN "done" ELSE plug[slot]
    <3>1. slot \in Setups /\ v \in Plugs
      BY <1>0, <2>2, Basics DEF Plugs
    <3>2. plug' = [plug EXCEPT ![slot] = v]
      BY <1>0, <2>2, <3>1 DEF Close, GiveUp
    <3>3. /\ plug' \in Seq(Plugs) /\ Len(plug') = Len(plug)
          /\ \A m \in Setups : plug'[m] = IF m = slot THEN v ELSE plug[m]
      <4> HIDE DEF v
      <4> QED  BY <1>0, <3>1, <3>2, PlugGives
    <3> QED  BY <3>1, <3>3
  <2> QED  BY <2>1, <2>2
<1>4. TypesInv'
  <2>1. keys' \subseteq Setups /\ slot' \in Setups \union {None}
    BY <1>0 DEF Close, TypesInv
  <2>2. lua' \in [pc : {"idle", "callback", "closed"}, kind : {"none", "setup", "lost"}, state : Nat]
    BY <1>0 DEF TypesInv
  <2> QED  BY <1>0, <1>1, <1>2, <1>3, <2>1, <2>2, PostedNone DEF TypesInv
<1>5. ASSUME NEW m \in Setups PROVE Known(m)'
  <2>1. Known(m)
    BY DEF ScriptInv
  <2>2. plug'[m] \in {"asked", "granted"} => plug[m] = plug'[m]
    BY <1>3
  <2>3. plug[m] = "done" => plug'[m] = "done"
    BY <1>3
  <2> QED  BY <1>0, <1>1, <1>2, <2>1, <2>2, <2>3, PostedNone DEF Known
<1>6. Ordered(posts') /\ Posted(posts') = {}
  BY <1>0, PostedNone
<1>7. CallbackInv' /\ SlotInv'
  BY <1>0 DEF CallbackInv, SlotInv
<1>8. ClosedInv'
  <2>1. SlotInv /\ \A m \in Setups : plug[m] \in Plugs
    BY <1>0, Basics DEF ScriptInv
  <2>2. ~inFlight' /\ ~overlaid => \A m \in Setups : plug'[m] = "done"
    BY <1>0, <1>3, <2>1 DEF SlotInv, Plugs
  <2> QED  BY <1>0, <1>2, <2>2 DEF ClosedInv
<1> QED  BY <1>0, <1>2, <1>4, <1>5, <1>6, <1>7, <1>8 DEF ScriptInv

LastSetup == Len(cs)
NewSetup  == Len(cs) + 1
LossPost  == Post("lost", LastSetup)
SomeLoss  == Owners # {}

\* The owner whom a setup takes the output from is the last setup.
LEMMA OwnersAre ==
    ASSUME ScriptInv, Open
    PROVE  /\ SomeLoss => /\ Owners = {LastSetup} /\ LastSetup \in Setups /\ LastSetup \in keys
                      /\ (CHOOSE p \in Owners : TRUE) = LastSetup /\ LossPost \in PostRecord
                      /\ plug[LastSetup] \in {"asked", "granted"} /\ cs[LastSetup].status # "failed"
           /\ \A m \in Setups : m \in Owners <=> plug[m] \in {"asked", "granted"}
<1>1. \A m \in Owners : m = LastSetup /\ m \in Setups /\ m \in keys /\ m \in Nat /\ cs[m].status # "failed"
  <2>1. \A m \in Setups : Known(m) /\ m \in Nat
    BY Basics DEF ScriptInv
  <2> QED  BY <2>1 DEF Known, Owners, LastSetup
<1>2. ASSUME SomeLoss PROVE Owners = {LastSetup} /\ LastSetup \in Owners /\ LossPost \in PostRecord
  <2>1. Owners = {LastSetup} /\ LastSetup \in Nat
    BY <1>1, <1>2 DEF SomeLoss
  <2> QED  BY <2>1 DEF LossPost, Post, PostRecord
<1> QED  BY <1>1, <1>2 DEF Owners

Made     == Append(cs, NewState)
WithMade == [p \in 1..NewSetup |-> IF p \in Owners THEN PostRef(Made, p)[p] ELSE Made[p]]
WithLoss == IF SomeLoss THEN Append(posts, LossPost) ELSE posts

\* What a setup adds to the states, before the plugin answers.
LEMMA SetupStates ==
    ASSUME ScriptInv, Open
    PROVE  /\ WithMade \in Seq(State) /\ Len(WithMade) = NewSetup
           /\ WithMade[NewSetup].refs = 1 /\ ~WithMade[NewSetup].dead
           /\ WithMade[NewSetup].status = "none"
           /\ \A m \in Setups : /\ WithMade[m].refs = cs[m].refs + (IF m \in Owners THEN 1 ELSE 0)
                                /\ WithMade[m].dead = cs[m].dead
                                /\ WithMade[m].status = cs[m].status
<1> DEFINE f == WithMade
           made == Made
<1>1. /\ cs \in Seq(State) /\ Len(cs) \in Nat /\ Setups = 1..Len(cs) /\ NewSetup \in Nat
      /\ Setups \subseteq 1..NewSetup /\ Owners \subseteq Setups /\ NewSetup \notin Setups
      /\ NewSetup \in 1..NewSetup
  BY Basics DEF ScriptInv, TypesInv, NewSetup, Owners
<1>2. NewState \in State
  BY DEF NewState, State
<1>3. /\ made \in Seq(State) /\ Len(made) = NewSetup /\ made[NewSetup] = NewState
      /\ \A m \in Setups : made[m] = cs[m]
  BY <1>1, <1>2, AppendProperties DEF NewSetup, Made
<1>4. ASSUME NEW p \in 1..NewSetup
      PROVE  f[p] = (IF p \in Owners THEN PostRef(made, p)[p] ELSE made[p]) /\ f[p] \in State
  <2>1. made[p] \in State /\ (p \in Owners => PostRef(made, p)[p] \in State)
    BY <1>1, <1>3, RefGives, StateList DEF PostRef
  <2> QED  BY <2>1 DEF WithMade
<1>5. f \in Seq(State) /\ Len(f) = NewSetup
  <2>1. f \in [1..NewSetup -> State]
    BY <1>4 DEF WithMade
  <2>2. f \in Seq(State)
    <3> HIDE DEF f
    <3> QED  BY <1>1, <2>1, SeqDef
  <2> QED  BY <1>1, <2>1, <2>2, LenProperties
<1> HIDE DEF f, made
<1>6. f[NewSetup] = NewState
  BY <1>1, <1>3, <1>4
<1>7. ASSUME NEW m \in Setups
      PROVE  /\ f[m].refs = cs[m].refs + (IF m \in Owners THEN 1 ELSE 0)
             /\ f[m].dead = cs[m].dead /\ f[m].status = cs[m].status
  <2>1. cs[m].refs \in Nat
    BY Basics DEF ScriptInv
  <2>2. /\ PostRef(made, m)[m].refs = made[m].refs + 1
        /\ PostRef(made, m)[m].dead = made[m].dead /\ PostRef(made, m)[m].status = made[m].status
    BY <1>1, <1>3, RefGives DEF PostRef
  <2>3. f[m] = IF m \in Owners THEN PostRef(made, m)[m] ELSE made[m]
    BY <1>1, <1>4
  <2> QED  BY <1>1, <1>3, <2>1, <2>2, <2>3
<1> QED  BY <1>5, <1>6, <1>7 DEF NewState, f

\* What a setup posts, before the plugin answers.
LEMMA SetupPosts ==
    ASSUME ScriptInv, Open
    PROVE  /\ WithLoss \in Seq(PostRecord) /\ Ordered(WithLoss)
           /\ Posted(WithLoss) = Posted(posts) \union (IF SomeLoss THEN {LossPost} ELSE {})
           /\ \A x \in Posted(WithLoss) : x.state \in Setups
           /\ \A m \in Setups : CountIn(WithLoss, m)
                                  = CountIn(posts, m) + (IF m \in Owners THEN 1 ELSE 0)
<1>1. /\ posts \in Seq(PostRecord) /\ Ordered(posts)
      /\ \A x \in Posted(posts) : Due(x) /\ x.state \in Setups /\ x.kind \in {"setup", "lost"}
      /\ \A m \in Setups : CountIn(posts, m) \in Nat
  BY Basics DEF ScriptInv, TypesInv, Due
<1>2. CASE ~SomeLoss
  <2>1. WithLoss = posts /\ Owners = {}
    BY <1>2 DEF SomeLoss, WithLoss
  <2> QED  BY <1>1, <1>2, <2>1
<1>3. CASE SomeLoss
  <2>1. /\ Owners = {LastSetup} /\ LastSetup \in Setups /\ LossPost \in PostRecord /\ plug[LastSetup] # "done"
        /\ LossPost.state = LastSetup /\ LossPost.kind = "lost"
    BY <1>3, OwnersAre DEF LossPost, Post
  <2>2. \A x \in Posted(posts) : Follows(x, LossPost)
    BY <1>1, <2>1 DEF Follows, Due
  <2> HIDE DEF LossPost
  <2>3. WithLoss = Append(posts, LossPost)
    BY <1>3 DEF WithLoss
  <2>4. /\ WithLoss \in Seq(PostRecord) /\ Ordered(WithLoss)
        /\ Posted(WithLoss) = Posted(posts) \union {LossPost}
        /\ \A m : CountIn(WithLoss, m) = CountIn(posts, m) + (IF LossPost.state = m THEN 1 ELSE 0)
    BY <1>1, <2>1, <2>2, <2>3, PostedAppend
  <2> QED  BY <1>1, <1>3, <2>1, <2>4
<1> QED  BY <1>2, <1>3

\* raat.output.setup, by what it makes of each setup and each post; fails says that the plugin
\* refuses the format.
LEMMA SetupEffect ==
    ASSUME ScriptInv, Open, Setup
    PROVE  \E fails \in BOOLEAN :
             /\ cs' \in Seq(State) /\ Len(cs') = NewSetup
             /\ cs'[NewSetup].refs = (IF fails THEN 2 ELSE 1) /\ ~cs'[NewSetup].dead
             /\ cs'[NewSetup].status = (IF fails THEN "failed" ELSE "none")
             /\ \A m \in Setups : /\ cs'[m].refs = cs[m].refs + (IF m \in Owners THEN 1 ELSE 0)
                                  /\ cs'[m].dead = cs[m].dead /\ cs'[m].status = cs[m].status
             /\ plug' \in Seq(Plugs) /\ Len(plug') = NewSetup
             /\ plug'[NewSetup] = (IF fails THEN "done" ELSE "asked")
             /\ \A m \in Setups : plug'[m] = IF m \in Owners THEN "done" ELSE plug[m]
             /\ posts' \in Seq(PostRecord) /\ Ordered(posts')
             /\ Posted(posts') = Posted(posts) \union (IF SomeLoss THEN {LossPost} ELSE {})
                                 \union (IF fails THEN {Post("setup", NewSetup)} ELSE {})
             /\ CountIn(posts', NewSetup) = (IF fails THEN 1 ELSE 0)
             /\ \A m \in Setups : CountIn(posts', m) = CountIn(posts, m)
                                                       + (IF m \in Owners THEN 1 ELSE 0)
<1> DEFINE n == Len(cs) + 1
           taken == [p \in Setups |-> IF p \in Owners THEN "done" ELSE plug[p]]
           f == WithMade
           first == WithLoss
<1>0. first = IF Owners = {} THEN posts
              ELSE Append(posts, Post("lost", CHOOSE p \in Owners : TRUE))
  BY OwnersAre DEF SomeLoss, LossPost, WithLoss
<1>1. \/ cs' = f /\ posts' = first /\ plug' = Append(taken, "asked")
      \/ /\ cs' = [PostRef(f, n) EXCEPT ![n].status = "failed", ![n].token = TRUE]
         /\ posts' = Append(first, Post("setup", n))
         /\ plug' = Append(taken, "done")
  BY <1>0 DEF Setup, WithMade, Made, NewSetup
<1>2. /\ n = NewSetup /\ n \in Nat /\ Setups = 1..Len(cs) /\ Len(cs) \in Nat /\ n \notin Setups
      /\ \A m \in Setups : plug[m] \in Plugs /\ cs[m].refs \in Nat /\ CountIn(posts, m) \in Nat
  BY Basics DEF NewSetup, ScriptInv
<1>3. /\ f \in Seq(State) /\ Len(f) = n
      /\ f[n].refs = 1 /\ ~f[n].dead /\ f[n].status = "none"
      /\ \A m \in Setups : /\ f[m].refs = cs[m].refs + (IF m \in Owners THEN 1 ELSE 0)
                           /\ f[m].dead = cs[m].dead /\ f[m].status = cs[m].status
  BY <1>2, SetupStates DEF f
<1>5. /\ taken \in Seq(Plugs) /\ Len(taken) = Len(cs)
      /\ \A m \in Setups : taken[m] = IF m \in Owners THEN "done" ELSE plug[m]
  <2>1. taken \in [1..Len(cs) -> Plugs]
    BY <1>2 DEF Plugs
  <2>2. taken \in Seq(Plugs)
    <3> HIDE DEF taken
    <3> QED  BY <1>2, <2>1, SeqDef
  <2>3. Len(taken) = Len(cs)
    BY <1>2, <2>1, <2>2, LenProperties
  <2> QED  BY <2>2, <2>3
<1> HIDE DEF taken, f, first
<1>6. /\ first \in Seq(PostRecord) /\ Ordered(first)
      /\ Posted(first) = Posted(posts) \union (IF SomeLoss THEN {LossPost} ELSE {})
      /\ \A x \in Posted(first) : x.state \in Setups
      /\ \A m \in Setups : CountIn(first, m) = CountIn(posts, m) + (IF m \in Owners THEN 1 ELSE 0)
  BY SetupPosts DEF first
<1>7. CountIn(first, n) = 0
  BY <1>2, <1>6, CountNothing
<1>8. \A v \in Plugs : /\ Append(taken, v) \in Seq(Plugs) /\ Len(Append(taken, v)) = n
                       /\ Append(taken, v)[n] = v
                       /\ \A m \in Setups : Append(taken, v)[m] = IF m \in Owners THEN "done" ELSE plug[m]
  BY <1>2, <1>5, AppendProperties
<1>9. CASE cs' = f /\ posts' = first /\ plug' = Append(taken, "asked")
  <2>1. "asked" \in Plugs
    BY DEF Plugs
  <2> HIDE DEF n
  <2> WITNESS FALSE \in BOOLEAN
  <2> QED  BY <1>2, <1>3, <1>6, <1>7, <1>8, <1>9, <2>1
<1>10. CASE /\ cs' = [PostRef(f, n) EXCEPT ![n].status = "failed", ![n].token = TRUE]
            /\ posts' = Append(first, Post("setup", n))
            /\ plug' = Append(taken, "done")
  <2> DEFINE e == Post("setup", n)
             g == Ref(f, n)
  <2>1. "done" \in Plugs /\ "failed" \in SetupStatuses /\ n \in 1..Len(f) /\ e \in PostRecord
        /\ e.state = n /\ e.kind = "setup"
    BY <1>2, <1>3 DEF Plugs, SetupStatuses, Post, PostRecord
  <2>2. cs' = Result(g, n, "failed")
    BY <1>10 DEF Result, PostRef
  <2>3. /\ g \in Seq(State) /\ Len(g) = n /\ n \in 1..Len(g)
        /\ \A m \in 1..n : /\ g[m].refs = f[m].refs + (IF m = n THEN 1 ELSE 0)
                           /\ g[m].dead = f[m].dead
    BY <1>3, <2>1, RefGives
  <2>4. \A m \in 1..n : g[m].status = f[m].status
    BY <1>3, <2>1, RefGives
  <2>5. posts' = Append(first, e) /\ \A x \in Posted(first) : Follows(x, e)
    BY <1>2, <1>6, <1>10, <2>1 DEF Follows
  <2> HIDE DEF e, g, n
  <2>6. /\ cs' \in Seq(State) /\ Len(cs') = n
        /\ \A m \in 1..n : /\ cs'[m].refs = g[m].refs /\ cs'[m].dead = g[m].dead
                           /\ cs'[m].status = IF m = n THEN "failed" ELSE g[m].status
    <3>1. /\ cs' \in Seq(State) /\ Len(cs') = Len(g)
          /\ \A m \in 1..Len(g) : /\ cs'[m].refs = g[m].refs /\ cs'[m].dead = g[m].dead
                                  /\ cs'[m].status = IF m = n THEN "failed" ELSE g[m].status
      <4>1. g \in Seq(State) /\ n \in 1..Len(g) /\ "failed" \in SetupStatuses
        BY <2>1, <2>3
      <4> QED  BY <2>2, <4>1, ResultGives, SMTT(30)
    <3> QED  BY <2>3, <3>1
  <2>7. /\ posts' \in Seq(PostRecord) /\ Ordered(posts') /\ Posted(posts') = Posted(first) \union {e}
        /\ \A m : CountIn(posts', m) = CountIn(first, m) + (IF e.state = m THEN 1 ELSE 0)
    BY <1>6, <2>1, <2>5, PostedAppend
  <2>8. n \in 1..n /\ \A m \in Setups : m \in 1..n /\ m # n
    BY <1>2 DEF n
  <2>9. /\ cs'[n].refs = 2 /\ ~cs'[n].dead /\ cs'[n].status = "failed"
        /\ \A m \in Setups : /\ cs'[m].refs = cs[m].refs + (IF m \in Owners THEN 1 ELSE 0)
                             /\ cs'[m].dead = cs[m].dead /\ cs'[m].status = cs[m].status
    <3>1. cs'[n].refs = 2 /\ ~cs'[n].dead /\ cs'[n].status = "failed"
      <4>1. cs'[n].refs = g[n].refs /\ g[n].refs = f[n].refs + 1 /\ f[n].refs = 1
        BY <1>3, <2>3, <2>6, <2>8
      <4>2. cs'[n].dead = f[n].dead /\ ~f[n].dead /\ cs'[n].status = "failed"
        BY <1>3, <2>3, <2>6, <2>8
      <4> QED  BY <4>1, <4>2
    <3>2. ASSUME NEW m \in Setups
          PROVE  /\ cs'[m].refs = cs[m].refs + (IF m \in Owners THEN 1 ELSE 0)
                 /\ cs'[m].dead = cs[m].dead /\ cs'[m].status = cs[m].status
      <4>1. /\ cs'[m].refs = g[m].refs /\ g[m].refs = f[m].refs + 0
            /\ f[m].refs = cs[m].refs + (IF m \in Owners THEN 1 ELSE 0) /\ cs[m].refs \in Nat
        BY <1>2, <1>3, <2>3, <2>6, <2>8
      <4>2. cs'[m].dead = cs[m].dead /\ cs'[m].status = cs[m].status
        BY <1>3, <2>3, <2>4, <2>6, <2>8
      <4> QED  BY <4>1, <4>2
    <3> QED  BY <3>1, <3>2
  <2>10. /\ CountIn(posts', n) = 1
         /\ \A m \in Setups : CountIn(posts', m) = CountIn(posts, m) + (IF m \in Owners THEN 1 ELSE 0)
    <3>1. CountIn(posts', n) = 1
      BY <1>7, <2>1, <2>7
    <3>2. ASSUME NEW m \in Setups
          PROVE  CountIn(posts', m) = CountIn(posts, m) + (IF m \in Owners THEN 1 ELSE 0)
      <4>1. CountIn(posts', m) = CountIn(first, m) + 0 /\ CountIn(posts, m) \in Nat
            /\ CountIn(first, m) = CountIn(posts, m) + (IF m \in Owners THEN 1 ELSE 0)
        BY <1>2, <1>6, <2>1, <2>7, <2>8
      <4> QED  BY <4>1
    <3> QED  BY <3>1, <3>2
  <2>11. e = Post("setup", NewSetup)
    BY <1>2 DEF e
  <2>12. /\ plug' \in Seq(Plugs) /\ Len(plug') = n /\ plug'[n] = "done"
         /\ \A m \in Setups : plug'[m] = IF m \in Owners THEN "done" ELSE plug[m]
    BY <1>8, <1>10, <2>1
  <2> WITNESS TRUE \in BOOLEAN
  <2> QED  BY <1>2, <1>6, <2>6, <2>7, <2>9, <2>10, <2>11, <2>12
<1> QED  BY <1>1, <1>9, <1>10

\* raat.output.setup
LEMMA SetupStep ==
    ASSUME ScriptInv, fault = "none", Setup
    PROVE  ScriptInv'
<1> DEFINE n == NewSetup
           e == Post("setup", n)
<1>0. Open /\ TypesInv
  BY DEF Setup, InLua, Open, ScriptInv
<1>1. PICK fails \in BOOLEAN :
         /\ cs' \in Seq(State) /\ Len(cs') = n
         /\ cs'[n].refs = (IF fails THEN 2 ELSE 1) /\ ~cs'[n].dead
         /\ cs'[n].status = (IF fails THEN "failed" ELSE "none")
         /\ \A m \in Setups : /\ cs'[m].refs = cs[m].refs + (IF m \in Owners THEN 1 ELSE 0)
                              /\ cs'[m].dead = cs[m].dead /\ cs'[m].status = cs[m].status
         /\ plug' \in Seq(Plugs) /\ Len(plug') = n
         /\ plug'[n] = (IF fails THEN "done" ELSE "asked")
         /\ \A m \in Setups : plug'[m] = IF m \in Owners THEN "done" ELSE plug[m]
         /\ posts' \in Seq(PostRecord) /\ Ordered(posts')
         /\ Posted(posts') = Posted(posts) \union (IF SomeLoss THEN {LossPost} ELSE {})
                             \union (IF fails THEN {e} ELSE {})
         /\ CountIn(posts', n) = (IF fails THEN 1 ELSE 0)
         /\ \A m \in Setups : CountIn(posts', m) = CountIn(posts, m)
                                                   + (IF m \in Owners THEN 1 ELSE 0)
  BY <1>0, SetupEffect
<1>2. /\ keys' = keys \union {n} /\ slot' = n
      /\ overlaid' = (overlaid \/ Unanswered
                      \/ (lua.pc = "callback" /\ cs[lua.state].status = "failed"))
      /\ UNCHANGED <<lua, told, inFlight, fault>>
  BY DEF Setup, SetSlot, NewSetup
<1>3. /\ n \in Nat /\ n \notin Setups /\ Setups = 1..Len(cs) /\ Setups' = Setups \union {n}
      /\ \A m \in Setups : /\ cs[m].refs \in Nat /\ cs[m].dead \in BOOLEAN /\ plug[m] \in Plugs
                           /\ CountIn(posts, m) \in Nat
  <2>1. Len(cs) \in Nat /\ Setups = 1..Len(cs) /\ Setups' = 1..n
    BY <1>0, <1>1, Basics, StateList DEF Setups
  <2>2. n \in Nat /\ n \notin Setups /\ 1..n = 1..Len(cs) \union {n}
    BY <2>1 DEF NewSetup
  <2> QED  BY <1>0, <2>1, <2>2, Basics
<1>4. e.kind = "setup" /\ e.state = n /\ LossPost.kind = "lost" /\ LossPost.state = LastSetup
  BY DEF Post, LossPost
<1>5. /\ SomeLoss => /\ Owners = {LastSetup} /\ LastSetup \in Setups /\ LastSetup \in keys
                 /\ plug[LastSetup] \in {"asked", "granted"} /\ cs[LastSetup].status # "failed"
      /\ \A m \in Setups : m \in Owners <=> plug[m] \in {"asked", "granted"}
  BY <1>0, OwnersAre
<1>6. Open' /\ InCallback' = InCallback /\ (~overlaid' => ~overlaid)
  BY <1>0, <1>2 DEF Open, InCallback
<1>7. \A x \in Posted(posts) : Due(x) /\ x.state \in Setups /\ x.kind \in {"setup", "lost"}
  BY <1>0, Basics DEF ScriptInv, Due
<1> HIDE DEF e, n
<1>8. TypesInv'
  BY <1>0, <1>1, <1>2, <1>3 DEF TypesInv
<1>9. ASSUME NEW m \in Setups' PROVE RefsCounted(m)'
  <2>1. CASE m = n
    <3>1. ~(InCallback /\ lua.state = n)
      BY <1>3 DEF ScriptInv, CallbackInv
    <3>2. /\ cs'[n].refs = (IF fails THEN 2 ELSE 1) /\ ~cs'[n].dead
          /\ CountIn(posts', n) = (IF fails THEN 1 ELSE 0)
      BY <1>1
    <3>3. lua' = lua /\ InCallback' = InCallback
      BY <1>2, <1>6
    <3> QED  BY <2>1, <3>1, <3>2, <3>3 DEF RefsCounted
  <2>2. CASE m # n
    <3>1. m \in Setups /\ RefsCounted(m)
      BY <1>0, <1>3, <2>2 DEF ScriptInv
    <3>2. /\ cs'[m].refs = cs[m].refs + (IF m \in Owners THEN 1 ELSE 0) /\ cs'[m].dead = cs[m].dead
          /\ CountIn(posts', m) = CountIn(posts, m) + (IF m \in Owners THEN 1 ELSE 0)
          /\ cs[m].refs \in Nat /\ CountIn(posts, m) \in Nat
      BY <1>1, <1>3, <3>1
    <3>3. lua' = lua /\ InCallback' = InCallback
      BY <1>2, <1>6
    <3> QED  BY <3>1, <3>2, <3>3 DEF RefsCounted
  <2> QED  BY <2>1, <2>2
<1>10. ASSUME NEW x \in Posted(posts')
       PROVE  x \in Posted(posts) \/ (SomeLoss /\ x = LossPost) \/ (fails /\ x = e)
  <2>1. Posted(posts') = Posted(posts) \union (IF SomeLoss THEN {LossPost} ELSE {})
                         \union (IF fails THEN {e} ELSE {})
    BY <1>1
  <2> HIDE DEF SomeLoss, LossPost
  <2> QED  BY <2>1, Zenon
<1>11. ASSUME NEW m \in Setups' PROVE Known(m)'
  <2>1. CASE m = n
    <3>1. \A x \in Posted(posts') : ~fails => x.state # n
      BY <1>3, <1>4, <1>5, <1>7, <1>10
    <3>2. n \notin told
      BY <1>0, <1>3 DEF TypesInv
    <3> QED  BY <1>1, <1>2, <2>1, <3>1, <3>2 DEF Known
  <2>2. CASE m # n
    <3>1. m \in Setups /\ Known(m)
      BY <1>3, <2>2 DEF ScriptInv
    <3>2. plug'[m] \notin {"asked", "granted"} /\ (plug'[m] # "done" => plug'[m] = plug[m])
      BY <1>1, <1>5, <3>1
    <3>3. plug[m] = "done" => plug'[m] = "done"
      BY <1>1, <3>1
    <3> QED  BY <1>0, <1>1, <1>2, <3>1, <3>2, <3>3 DEF Known
  <2> QED  BY <2>1, <2>2
<1>12. ASSUME NEW x \in Posted(posts') PROVE Due(x)'
  <2>1. CASE x \in Posted(posts)
    <3>1. Due(x) /\ x.state \in Setups
      BY <1>7, <2>1
    <3>2. x.state \in Setups' /\ cs'[x.state].status = cs[x.state].status
          /\ (plug[x.state] = "done" => plug'[x.state] = "done")
      BY <1>1, <1>3, <3>1
    <3> QED  BY <1>2, <3>1, <3>2 DEF Due
  <2>2. CASE SomeLoss /\ x = LossPost
    <3>1. x.state \in Setups' /\ x.state \in keys' /\ x.kind = "lost" /\ plug'[x.state] = "done"
          /\ cs'[x.state].status # "failed"
      BY <1>1, <1>2, <1>3, <1>4, <1>5, <2>2
    <3> QED  BY <3>1 DEF Due
  <2>3. CASE x = e
    <3>1. x.state \in Setups' /\ x.state \in keys' /\ x.kind = "setup" /\ x.state \notin told'
      BY <1>0, <1>2, <1>3, <1>4, <2>3 DEF TypesInv
    <3> QED  BY <3>1 DEF Due
  <2> QED  BY <1>10, <2>1, <2>2, <2>3
<1>13. CallbackInv'
  <2> SUFFICES ASSUME InCallback' PROVE CallbackInv'
    BY DEF CallbackInv
  <2>1. CallbackInv /\ InCallback /\ lua' = lua
    BY <1>2, <1>6 DEF ScriptInv
  <2>2. lua.state \in Setups /\ lua.kind # "none" /\ plug[lua.state] # "asked"
        /\ (lua.kind = "lost" => plug[lua.state] = "done") /\ lua.kind \in {"none", "setup", "lost"}
    BY <1>0, <2>1 DEF CallbackInv, TypesInv
  <2>3. ASSUME NEW x \in Posted(posts')
        PROVE  Follows([kind |-> lua.kind, state |-> lua.state], x)
    <3>1. CASE x \in Posted(posts)
      BY <2>1, <3>1 DEF CallbackInv
    <3>2. CASE SomeLoss /\ x = LossPost
      BY <1>4, <1>5, <2>2, <3>2 DEF Follows
    <3>3. CASE x = e
      BY <1>3, <1>4, <2>2, <3>3 DEF Follows
    <3> QED  BY <1>10, <3>1, <3>2, <3>3
  <2>4. lua.state \in Setups' /\ plug'[lua.state] # "asked"
        /\ (lua.kind = "lost" => plug'[lua.state] = "done")
    BY <1>1, <1>3, <2>2
  <2> QED  BY <2>1, <2>2, <2>3, <2>4 DEF CallbackInv
<1>14. SlotInv'
  <2> SUFFICES ASSUME ~overlaid' PROVE SlotInv'
    BY DEF SlotInv
  <2>1. ~Unanswered /\ ~(InCallback /\ cs[lua.state].status = "failed")
    BY <1>2 DEF InCallback
  <2>2. \A x \in Posted(posts) : x.kind # "setup"
    BY <2>1 DEF Unanswered, Posted
  <2>3. ASSUME NEW m \in Setups', plug'[m] \in {"asked", "granted"} PROVE slot' = m
    BY <1>1, <1>2, <1>3, <1>5, <2>3
  <2>4. ASSUME NEW x \in Posted(posts'), x.kind = "setup" PROVE x.state = Len(cs')
    BY <1>1, <1>4, <1>10, <2>2, <2>4
  <2>5. InCallback' => lua' = lua /\ lua.state \in Setups /\ cs'[lua.state].status # "failed"
    BY <1>1, <1>2, <1>6, <2>1 DEF ScriptInv, CallbackInv
  <2> QED  BY <2>3, <2>4, <2>5 DEF SlotInv
<1>15. ClosedInv'
  BY <1>2, <1>6 DEF ClosedInv
<1> QED  BY <1>1, <1>8, <1>9, <1>11, <1>12, <1>13, <1>14, <1>15 DEF ScriptInv

-----------------------------------------------------------------------------
(***************************************************************************)
(* The theorems                                                            *)
(***************************************************************************)

\* The invariant holds at first.
LEMMA ScriptInvInit == ScriptInit => ScriptInv
<1> SUFFICES ASSUME ScriptInit PROVE ScriptInv
  OBVIOUS
<1>1. /\ cs = <<>> /\ plug = <<>> /\ posts = <<>> /\ Setups = {} /\ Open /\ ~InCallback
      /\ <<>> \in Seq(State) /\ <<>> \in Seq(Plugs) /\ Len(<<>>) = 0
  BY EmptySeq DEF ScriptInit, Setups, Open, InCallback, Idle
<1>2. TypesInv
  BY <1>1, PostedNone DEF ScriptInit, TypesInv, Idle, None
<1>3. CallbackInv /\ SlotInv /\ ClosedInv
  BY <1>1, PostedNone DEF ScriptInit, CallbackInv, SlotInv, ClosedInv
<1> QED  BY <1>1, <1>2, <1>3, PostedNone DEF ScriptInv

\* The invariant is inductive.
LEMMA ScriptInvStep ==
    ASSUME ScriptInv, [ScriptNext]_scriptVars
    PROVE  ScriptInv'
<1>1. CASE ScriptNext
  <2>1. fault = "none" /\ (PluginNext \/ LuaNext)
    BY <1>1 DEF ScriptNext
  <2> QED  BY <2>1, ScriptAnswerStep, TakenStep, OutputLostStep, SetupStep, TeardownStep, HandleStep,
              SetupHandledStep, LostHandledStep, ScriptCloseStep DEF PluginNext, LuaNext
<1>2. CASE UNCHANGED scriptVars
  BY <1>2 DEF scriptVars, ScriptInv, TypesInv, RefsCounted, Known, Due, CallbackInv, SlotInv, ClosedInv,
     Open, InCallback, Setups
<1> QED  BY <1>1, <1>2

\* The invariant of every reachable state.
LEMMA ScriptInvariant == ScriptSpec => []ScriptInv
BY ScriptInvInit, ScriptInvStep, PTL DEF ScriptSpec

\* Whatever the plugin's threads and the scripts do, and however often setups overlap: a state
\* has as many references as uses, so that it is freed with the last of them, and no answer, no
\* loss and no posted handler meets a state that was freed or callbacks that were let go before
\* the session was closed.
THEOREM StatesKept == ScriptSpec => []StatesAreKept
<1>1. ScriptInv => StatesAreKept
  <2> SUFFICES ASSUME ScriptInv PROVE StatesAreKept
    OBVIOUS
  <2>1. \A n \in Setups : Open => RefsCounted(n)
    BY DEF ScriptInv
  <2>2. \A n : PostsOf(n) = CountIn(posts, n)
    BY DEF PostsOf, CountIn
  <2>3. RefsAreUses
    BY <2>1, <2>2 DEF RefsAreUses, RefsCounted, Open, InCallback
  <2>4. StatesOutliveTheirUse
    BY DEF ScriptInv, ClosedInv, StatesOutliveTheirUse, Open
  <2> QED  BY <2>3, <2>4 DEF StatesAreKept
<1> QED  BY <1>1, ScriptInvariant, PTL

\* A session that is closed has given up the output, unless setups overlapped, or an answer or a
\* loss was on its way.
THEOREM ClosedSessionsHaveLeft == ScriptSpec => []ClosedSessionsLeave
<1>1. ScriptInv => ClosedSessionsLeave
  BY DEF ScriptInv, ClosedInv, ClosedSessionsLeave, Open
<1> QED  BY <1>1, ScriptInvariant, PTL

=============================================================================
