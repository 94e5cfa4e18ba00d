---------------------------- MODULE MCOutputPlugin ----------------------------
(***************************************************************************)
(* Instances of the output plugin.  MCOutputPlugin.cfg: two sessions and a *)
(* source selection; whoever owns the hardware, another setup and a        *)
(* force_teardown may race for it.  MCOutputPluginFair.cfg: one session    *)
(* and a source selection, for the property that needs fairness.           *)
(***************************************************************************)
EXTENDS OutputPlugin, TLC

\* nothing tells one session from another
SessionSymmetry == Permutations(Sessions)

=============================================================================
