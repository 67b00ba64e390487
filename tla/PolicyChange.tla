---------------------------- MODULE PolicyChange ----------------------------
(***************************************************************************)
(* What a change of policy overtakes: executions of monitoring work, and   *)
(* the reconciliation of the connector that brings events of pipelines.    *)
(***************************************************************************)
EXTENDS ActionFence

CONSTANTS
  Pipelines, Owned, Provisioners, Scopes, MaxPolicy, MaxRev, MaxFaults   \* ConnectorTopology

VARIABLES
  policy, scope, tp, present, able, conn, desired, fresh, delivered, definition, flight,
  changes, ids, tasks, wk, handoff, cfaults, drifted

Connector == INSTANCE ConnectorTopology WITH
  Targets <- Pipelines, Workers <- Provisioners, Policies <- Scopes,
  remote <- definition, ops <- changes, work <- tasks, faults <- cfaults

ASSUME ProvisioningAssumption == Connector!ConnectorAssumption

-----------------------------------------------------------------------------
\* Whatever stalls, is lost or is retried, and whichever worker took the work
\* over, at most one definition update can still reach the Eventstream, and it
\* leaves out no source the controller wants (_process).
UpdatesSafe == Connector!UpdatesSafe

\* Every bound source is the node the manifest names until its removal is asked
\* for; a ready connector has its topology and an event accepted since; while
\* something is to be changed the connector is blocked or work is left.
ManifestTruthful == Connector!ManifestTruthful
=============================================================================
