---------------------------- MODULE TargetFence ----------------------------
(***************************************************************************)
(* What the action fence promises, without works, leases, executions,      *)
(* receipts or polls: at any time at most one change of a target is open;  *)
(* it is requested at most once, and a job only while it is open; a job    *)
(* counts as verified only if it was requested; and what was closed stays  *)
(* closed.                                                                 *)
(***************************************************************************)
CONSTANTS
  Changes,      \* the changes anybody may ever attempt
  Targets,
  TargetOf,     \* change -> the target it is made to
  Jobs,         \* the changes that are runs of a job, not settings
  None

VARIABLES
  owner,        \* target -> the change that is open on it
  fate,         \* change -> what became of it
  sent          \* the changes that were requested from the service

vars == <<owner, fate, sent>>

Verdicts == {"succeeded", "failed"}

Init ==
  /\ owner = [t \in Targets |-> None]
  /\ fate = [a \in Changes |-> "none"]
  /\ sent = {}

Take(a) ==
  /\ fate[a] = "none"
  /\ owner[TargetOf[a]] = None
  /\ owner' = [owner EXCEPT ![TargetOf[a]] = a]
  /\ fate' = [fate EXCEPT ![a] = "open"]
  /\ UNCHANGED sent

\* A setting may be requested late, after it was found to be in force.
Send(a) ==
  /\ fate[a] # "none"
  /\ a \notin sent
  /\ a \in Jobs => owner[TargetOf[a]] = a
  /\ sent' = sent \cup {a}
  /\ UNCHANGED <<owner, fate>>

Close(a, verdict) ==
  /\ fate[a] = "open"
  /\ owner[TargetOf[a]] = a
  /\ verdict \in Verdicts /\ a \in Jobs => a \in sent
  /\ owner' = [owner EXCEPT ![TargetOf[a]] = None]
  /\ fate' = [fate EXCEPT ![a] = verdict]
  /\ UNCHANGED sent

Next ==
  \E a \in Changes :
    \/ Take(a)
    \/ Send(a)
    \/ \E verdict \in Verdicts \cup {"rejected"} : Close(a, verdict)

Spec == Init /\ [][Next]_vars
=============================================================================
