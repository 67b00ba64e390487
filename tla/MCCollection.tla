---------------------------- MODULE MCCollection ----------------------------
(***************************************************************************)
(* The two ways evidence is collected: the receivers of one partition of   *)
(* the stream, and the polling windows of one target.  They share no state *)
(* before the controller, so one of them moves in a behaviour.             *)
(***************************************************************************)
EXTENDS Collection, TLC

VARIABLE part

\* The first and the last position carry the same event, the last with a
\* defect; the envelopes between them have no identity.
SharedKey ==
  [s \in 1 .. MaxPosition |->
     [key |-> CHOOSE k \in Keys : TRUE,
      defects |-> IF s = 1 THEN {}
                  ELSE IF s = MaxPosition THEN {"before cutoff"} ELSE {"anonymous", "no data"}]]

windowVars == <<now, runs, policy, admitted, schedule, poll, progress, pages, rows, ambiguous,
                status, coverage, ingested, col, wfaults>>
allVars == <<part, vars, windowVars>>

CollectionInit == part \in {"stream", "windows"} /\ Init /\ Windows!Init

CollectionNext ==
  /\ UNCHANGED part
  /\ \/ part = "stream" /\ Next /\ UNCHANGED windowVars
     \/ part = "windows" /\ Windows!Next /\ UNCHANGED vars

InStream == part = "stream" /\ UNCHANGED <<part, windowVars>>

\* The fairness of FairSpec in PartitionStream and in CollectionWindow.
CollectionFairness ==
  /\ \A r \in Receivers : WF_allVars(InStream /\ Balance(r)) /\ WF_allVars(InStream /\ Receive(r))
  /\ WF_allVars(InStream /\ Recovered)
  /\ WF_allVars(InStream /\ lease.owner = None /\ LeaseExpires)
  /\ WF_allVars(InStream /\ \E i \in 1 .. Len(handoff) : Reconcile(i))
  /\ WF_allVars(part = "windows" /\ Windows!SystemStep /\ UNCHANGED <<part, vars>>)

CollectionSpec == CollectionInit /\ [][CollectionNext]_allVars /\ CollectionFairness

-----------------------------------------------------------------------------
\* Whatever is collected is decided in the end: every position is covered or
\* reported, every handoff is reconciled, and no window keeps its target fenced,
\* whichever pages went stale and whatever the policy did.
EverythingDecided == EveryPositionCovered /\ EveryHandoffDecided /\ Windows!EveryWindowResolved
=============================================================================
