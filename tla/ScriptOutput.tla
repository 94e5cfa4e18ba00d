----------------------------- MODULE ScriptOutput -----------------------------
(***************************************************************************)
(* A session's scripts at the output plugin (raat_script_plugin_output.c): *)
(* the callback state that lives from a setup to its end, its reference    *)
(* count, the registry slot of the last setup, and the posts through which *)
(* the plugin's threads reach the session's thread.                        *)
(*                                                                         *)
(* The plugin is the one of raat_plugin_output.h: it answers a setup once, *)
(* unless the output is lost before; it tells of a loss once, from the     *)
(* thread of whoever takes the output, some time after the owner has lost  *)
(* it; and it tells nothing after a teardown that succeeds.  A Lua         *)
(* callback may call setup and teardown before it returns.                 *)
(***************************************************************************)
EXTENDS Integers, Sequences, FiniteSets

CONSTANT MaxSetups      \* bound on the calls of setup

None == 0

VARIABLES
    cs,         \* the callback states, by the setup that made them
    keys,       \* the states whose callbacks the Lua registry holds
    slot,       \* raat_output_plugin_setup_token: the state of the last setup
    posts,      \* the handlers posted to the session that have not begun
    lua,        \* the session's thread: idle, in a Lua callback, closed
    plug,       \* the plugin's end of each setup
    told,       \* the setups whose token the script was given
    overlaid,   \* history: a setup was called before the last one was answered
    inFlight,    \* history: the session was closed while an answer or a loss was on its way
    fault

scriptVars == <<cs, keys, slot, posts, lua, plug, told, overlaid, inFlight, fault>>

Setups == DOMAIN cs
Idle   == [pc |-> "idle", kind |-> "none", state |-> None]

ScriptInit ==
    /\ cs = <<>> /\ keys = {} /\ slot = None /\ posts = <<>>
    /\ lua = Idle /\ plug = <<>> /\ told = {}
    /\ overlaid = FALSE /\ inFlight = FALSE /\ fault = "none"

(***************************************************************************)
(* References                                                              *)
(***************************************************************************)
Freed(c) == c.refs = 0

Ref(f, n) == [f EXCEPT ![n].refs = @ + 1]

Unref(f, n) == [f EXCEPT ![n].refs = @ - 1]

\* Mutant: the state is not marked dead.
DropTwice(f, n) == Unref(f, n)

\* The reference of the setup itself is given up once.
Drop(f, n) == IF f[n].dead THEN f ELSE [f EXCEPT ![n].dead = TRUE, ![n].refs = @ - 1]

\* Mutant: a posted handler has no reference of its own.
PostBare(f, n) == f

PostRef(f, n) == Ref(f, n)

Post(kind, n) == [kind |-> kind, state |-> n]

Owners == {n \in Setups : plug[n] \in {"asked", "granted"}}

(***************************************************************************)
(* The plugin's threads                                                    *)
(***************************************************************************)

\* The state was freed, or the session that it posts to.
Gone(n) == Freed(cs[n]) \/ lua.pc = "closed"

\* output_setup_cb, with success
Answer(n) ==
    /\ plug[n] = "asked"
    /\ plug' = [plug EXCEPT ![n] = "granted"]
    /\ IF Gone(n) THEN fault' = "freed" /\ UNCHANGED <<cs, posts>>
       ELSE /\ cs' = [PostRef(cs, n) EXCEPT ![n].status = "ok", ![n].token = TRUE]
            /\ posts' = Append(posts, Post("setup", n))
            /\ UNCHANGED fault
    /\ UNCHANGED <<keys, slot, lua, told, overlaid, inFlight>>

\* Somebody takes the output; the owner is told later ...
Taken(n) ==
    /\ n \in Owners
    /\ plug' = [plug EXCEPT ![n] = "losing"]
    /\ UNCHANGED <<cs, keys, slot, posts, lua, told, overlaid, inFlight, fault>>

\* ... by output_lost_cb
OutputLost(n) ==
    /\ plug[n] = "losing"
    /\ plug' = [plug EXCEPT ![n] = "done"]
    /\ IF Gone(n) THEN fault' = "freed" /\ UNCHANGED <<cs, posts>>
       ELSE /\ cs' = PostRef(cs, n)
            /\ posts' = Append(posts, Post("lost", n))
            /\ UNCHANGED fault
    /\ UNCHANGED <<keys, slot, lua, told, overlaid, inFlight>>

(***************************************************************************)
(* Functions that scripts call                                             *)
(***************************************************************************)
InLua == lua.pc \in {"idle", "callback"}

NewState == [refs |-> 1, dead |-> FALSE, token |-> FALSE, status |-> "none"]

\* a setup whose answer the script has still to see
Unanswered ==
    \/ \E n \in Setups : plug[n] = "asked"
    \/ \E i \in 1..Len(posts) : posts[i].kind = "setup"

SetSlot(n) == slot' = n

\* raat.output.setup: whoever owns the output loses it in the call; the plugin refuses the
\* format at once, or answers later.
Setup ==
    /\ InLua /\ Len(cs) < MaxSetups
    /\ LET n    == Len(cs) + 1
           made == Append(cs, NewState)
           lost == [p \in Setups |-> IF p \in Owners THEN "done" ELSE plug[p]]
           told1 == [p \in 1..n |-> IF p \in Owners THEN PostRef(made, p)[p] ELSE made[p]]
           first == IF Owners = {} THEN posts
                    ELSE Append(posts, Post("lost", CHOOSE p \in Owners : TRUE))
       IN  /\ keys' = keys \union {n}
           /\ SetSlot(n)
           /\ \/ /\ cs' = told1 /\ posts' = first
                 /\ plug' = Append(lost, "asked")
              \/ /\ cs' = [PostRef(told1, n) EXCEPT ![n].status = "failed", ![n].token = TRUE]
                 /\ posts' = Append(first, Post("setup", n))
                 /\ plug' = Append(lost, "done")
    /\ overlaid' = (overlaid \/ Unanswered
                    \/ (lua.pc = "callback" /\ cs[lua.state].status = "failed"))
    /\ UNCHANGED <<lua, told, inFlight, fault>>

\* raat.output.teardown, for a token that a callback was given: an error when the token is
\* not current, and else the end of the setup.
Teardown(n) ==
    /\ InLua /\ n \in told
    /\ plug[n] = "granted"
    /\ plug' = [plug EXCEPT ![n] = "done"]
    /\ IF slot = n
       THEN keys' = keys \ {n} /\ slot' = None /\ cs' = Drop(cs, n)
       ELSE UNCHANGED <<keys, slot, cs>>
    /\ UNCHANGED <<posts, lua, told, overlaid, inFlight, fault>>

(***************************************************************************)
(* Posted handlers, on the session's thread, with the Lua callback between *)
(***************************************************************************)
Handle ==
    /\ lua.pc = "idle" /\ posts # <<>>
    /\ posts' = Tail(posts)
    /\ LET n == Head(posts).state
       IN  IF Freed(cs[n]) THEN fault' = "freed" /\ UNCHANGED <<lua, told>>
           ELSE IF n \notin keys THEN fault' = "nil" /\ UNCHANGED <<lua, told>>
           ELSE /\ lua' = [pc |-> "callback", kind |-> Head(posts).kind, state |-> n]
                /\ told' = IF Head(posts).kind = "setup" /\ cs[n].status = "ok"
                           THEN told \union {n} ELSE told
                /\ UNCHANGED fault
    /\ UNCHANGED <<cs, keys, slot, plug, overlaid, inFlight>>

\* output_setup_cb_inthread, after the callback: a setup that failed is cleaned up.
SetupHandled ==
    /\ lua.pc = "callback" /\ lua.kind = "setup"
    /\ LET n == lua.state
       IN  IF cs[n].status = "failed"
           THEN /\ keys' = keys \ {n} /\ slot' = None
                /\ cs' = Unref(Drop(cs, n), n)
           ELSE cs' = Unref(cs, n) /\ UNCHANGED <<keys, slot>>
    /\ lua' = Idle
    /\ UNCHANGED <<posts, plug, told, overlaid, inFlight, fault>>

\* output_lost_cb_inthread, after the callback: if no other setup was called since, the
\* plugin is told as well (and refuses, as a rule).
LostHandled ==
    /\ lua.pc = "callback" /\ lua.kind = "lost"
    /\ LET n == lua.state
       IN  /\ cs' = Unref(Drop(cs, n), n)
           /\ IF slot = n
              THEN /\ keys' = keys \ {n} /\ slot' = None
                   /\ plug' = [plug EXCEPT ![n] = IF @ = "granted" THEN "done" ELSE @]
              ELSE UNCHANGED <<keys, slot, plug>>
    /\ lua' = Idle
    /\ UNCHANGED <<posts, told, overlaid, inFlight, fault>>

\* Mutant: the session is closed without the output being given up.
Leave(n) == UNCHANGED plug

\* The plugin ends a setup whose token the state holds.
GiveUp(n) == plug' = [plug EXCEPT ![n] = IF @ = "granted" THEN "done" ELSE @]

\* The session's Lua state is closed (output_plugin_gc); what was posted is dropped.
Close ==
    /\ lua.pc = "idle"
    /\ lua' = [lua EXCEPT !.pc = "closed"]
    /\ posts' = <<>>
    /\ inFlight' = \E n \in Setups : plug[n] = "asked" \/ plug[n] = "losing"
    /\ IF slot = None THEN UNCHANGED <<cs, keys, slot, plug>>
       ELSE /\ GiveUp(slot)
            /\ keys' = keys \ {slot} /\ slot' = None
            /\ cs' = Drop(cs, slot)
    /\ UNCHANGED <<told, overlaid, fault>>

-----------------------------------------------------------------------------

PluginNext == \E n \in Setups : Answer(n) \/ Taken(n) \/ OutputLost(n)

LuaNext == Setup \/ (\E n \in Setups : Teardown(n)) \/ Handle \/ SetupHandled \/ LostHandled \/ Close

ScriptNext == fault = "none" /\ (PluginNext \/ LuaNext)

ScriptSpec == ScriptInit /\ [][ScriptNext]_scriptVars

-----------------------------------------------------------------------------
(***************************************************************************)
(* Properties                                                              *)
(***************************************************************************)

State == [refs : Nat, dead : BOOLEAN, token : BOOLEAN, status : {"none", "ok", "failed"}]

ScriptTypeOK ==
    /\ cs \in Seq(State) /\ plug \in Seq({"asked", "granted", "losing", "done"})
    /\ Len(plug) = Len(cs)
    /\ keys \subseteq Setups /\ slot \in Setups \union {None} /\ told \subseteq Setups
    /\ posts \in Seq([kind : {"setup", "lost"}, state : Setups])
    /\ lua.pc \in {"idle", "callback", "closed"}
    /\ overlaid \in BOOLEAN /\ inFlight \in BOOLEAN /\ fault \in {"none", "freed", "nil"}

PostsOf(n) == Cardinality({i \in 1..Len(posts) : posts[i].state = n})

\* A state is referenced by its setup until it is dropped, by each handler that is posted
\* and by the one that runs, and it is freed with the last of them.
RefsAreUses ==
    lua.pc # "closed" =>
        \A n \in Setups :
            cs[n].refs = (IF cs[n].dead THEN 0 ELSE 1) + PostsOf(n)
                         + (IF lua.pc = "callback" /\ lua.state = n THEN 1 ELSE 0)

\* No callback of the plugin and no posted handler finds a state that was freed, or
\* callbacks that the registry has let go, unless the session was closed while an answer or a
\* loss was on its way, or setups overlapped.
StatesOutliveTheirUse == fault # "none" => lua.pc = "closed" /\ (inFlight \/ overlaid)

\* The state of a setup is there as long as somebody may use it, and not any longer.
StatesAreKept == RefsAreUses /\ StatesOutliveTheirUse

\* A session that is closed leaves the output: the plugin has nothing of it any more, unless
\* an answer or a loss was on its way, or setups overlapped.
ClosedSessionsLeave ==
    lua.pc = "closed" /\ ~inFlight /\ ~overlaid => \A n \in Setups : plug[n] = "done"

=============================================================================
