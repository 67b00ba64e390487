--------------------------- MODULE MCActionFence ---------------------------
(* Failures of one refreshed dataset, seen in any order.                   *)
EXTENDS ActionFence, TLC

OneTarget == [s \in Sources |-> CHOOSE t \in Targets : TRUE]
OneIncident == [s \in Sources |-> CHOOSE i \in Incidents : TRUE]
AllRefresh == [t \in Targets |-> "powerbi_refresh"]
AllPipeline == [t \in Targets |-> "pipeline_rerun"]

Interchangeable == Permutations(Controllers)
=============================================================================
