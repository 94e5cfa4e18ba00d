-------------------------------- MODULE MCParts --------------------------------
(***************************************************************************)
(* Parts of the core that keep books - the list of client types, a         *)
(* script's references to its setups, a client's requests, the log - each  *)
(* on a small instance: an execution is one of the part that was chosen at *)
(* first.                                                                  *)
(***************************************************************************)
EXTENDS ClientTypes, ScriptOutput, RaatClient, RaatLog, TLC

CONSTANT Parts

VARIABLE which

PartsInit ==
    which \in Parts /\ TypesInit /\ ScriptInit /\ ClientInit /\ LogInit

PartsNext ==
    /\ UNCHANGED which
    /\ \/ which = "types" /\ TypesNext /\ UNCHANGED <<scriptVars, clientVars, logVars>>
       \/ which = "script" /\ ScriptNext /\ UNCHANGED <<typesVars, clientVars, logVars>>
       \/ which = "client" /\ ClientNext /\ UNCHANGED <<typesVars, scriptVars, logVars>>
       \/ which = "log" /\ LogNext /\ UNCHANGED <<typesVars, scriptVars, clientVars>>

PartsSpec ==
    PartsInit /\ [][PartsNext]_<<which, typesVars, scriptVars, clientVars, logVars>>

\* nothing tells one session from another, or one type of clients
PartsSymmetry == Permutations(Sessions) \union Permutations(Types)

=============================================================================
