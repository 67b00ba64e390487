--------------------------- MODULE MCPolicyChange ---------------------------
(***************************************************************************)
(* The execution of one failure of a dataset, of a pipeline or of a        *)
(* setting, and the reconciliation of an owned connector.  One of them     *)
(* moves in a behaviour.                                                   *)
(***************************************************************************)
EXTENDS MCActionFence, PolicyChange

CONSTANTS p1, p2    \* two pipelines

VARIABLE part    \* the action the safety review of the target allows, or the connector

AllSettings == [t \in Targets |-> "configuration"]

Refresh == INSTANCE ActionFence WITH ActionOf <- AllRefresh
Setting == INSTANCE ActionFence WITH ActionOf <- AllSettings

\* The first pipeline alone, or both.
OneOrBoth == {{p1}, {p1, p2}}

connVars == <<policy, scope, tp, present, able, conn, desired, fresh, delivered, definition,
              flight, changes, ids, tasks, wk, handoff, cfaults, drifted>>

PolicyInit ==
  /\ part \in {"powerbi_refresh", "pipeline_rerun", "configuration", "connector"}
  /\ Init /\ Connector!Init
  /\ part # "connector" => scope = {p1}

PolicyNext ==
  /\ UNCHANGED part
  /\ \/ part = "pipeline_rerun" /\ Next /\ UNCHANGED connVars
     \/ part = "powerbi_refresh" /\ Refresh!Next /\ UNCHANGED connVars
     \/ part = "configuration" /\ Setting!Next /\ UNCHANGED connVars
     \/ part = "connector" /\ Connector!Next /\ UNCHANGED vars

PolicySpec == PolicyInit /\ [][PolicyNext]_<<part, vars, connVars>>

Rivals == Permutations(Controllers) \cup Permutations(Provisioners)
=============================================================================
