--------------------------- MODULE OutputOwnership ---------------------------
(***************************************************************************)
(* What an output plugin promises about the audio hardware                 *)
(* (raat_plugin_output.h, "The setup token"): it has one owner at a time,  *)
(* an owner is known by a token that was never anyone's before, it changes *)
(* hands only by being given up first, and only music of its owner plays.  *)
(***************************************************************************)
EXTENDS Integers

VARIABLES
    owner,      \* the token of the owner, or Nobody
    playing,    \* the owner has started playback
    issued      \* the last token that made somebody the owner

Nobody == 0
vars == <<owner, playing, issued>>

Init == owner = Nobody /\ playing = FALSE /\ issued = 0

Take ==
    /\ owner = Nobody
    /\ issued' \in Nat /\ issued' > issued
    /\ owner' = issued' /\ playing' = FALSE

GiveUp == owner # Nobody /\ owner' = Nobody /\ playing' = FALSE /\ UNCHANGED issued

Play  == owner # Nobody /\ ~playing /\ playing' = TRUE /\ UNCHANGED <<owner, issued>>
Pause == playing /\ playing' = FALSE /\ UNCHANGED <<owner, issued>>

Next == Take \/ GiveUp \/ Play \/ Pause

Spec == Init /\ [][Next]_vars

=============================================================================
