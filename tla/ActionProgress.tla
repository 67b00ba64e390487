--------------------------- MODULE ActionProgress ---------------------------
(***************************************************************************)
(* What finally happens to a failure when executions fail and lose their   *)
(* leases only finitely often.                                             *)
(***************************************************************************)
EXTENDS ActionFence

CONSTANT MaxFaults    \* bound: stops and lease losses of a working execution

ASSUME MaxFaultsAssumption == MaxFaults \in Nat

VARIABLE faults

progressVars == <<vars, faults>>

ProgressInit == Init /\ faults = 0

\* The execution holds the lease of the work it is executing.
Holding(c) == ~At(c, "idle") /\ OwnedWork(c, WorkOf(c))

\* A working execution stops, or is too slow to renew its lease.
Fault ==
  /\ faults < MaxFaults
  /\ faults' = faults + 1
  /\ \E c \in Controllers :
       /\ Holding(c)
       /\ Abandon(c) \/ LeaseExpires(Target(AttemptOf(c)))

\* An execution whose store call was refused ends.
GiveUp(c) ==
  /\ ~At(c, "idle")
  /\ ~Holding(c) \/ (At(c, "finalizing") /\ FinalizationConflicts(WorkOf(c)))
  /\ Abandon(c)

\* The lease of an execution that has ended runs out.
Lapse(t) ==
  /\ \A c \in Controllers : Holding(c) => Target(AttemptOf(c)) # t
  /\ LeaseExpires(t)

Calm ==
  /\ \/ \E c \in Controllers :
          \E w \in Works : Claim(c, w)
     \/ \E c \in Controllers : WorkStep(c) \/ GiveUp(c)
     \/ Intake
     \/ \E t \in Targets : Lapse(t)
     \/ \E a \in Attempts : RunEnds(a)
  /\ UNCHANGED faults

ProgressNext == Fault \/ Calm

(***************************************************************************)
(* Fairness.  drain_monitoring_work is called again and again and          *)
(* claim_work takes due work in order, so no work is passed over for ever; *)
(* it competes with others for its target, hence SF.  A lease runs out by  *)
(* the database clock, and the service ends every run.  A verification is  *)
(* tried again every interval, and reading a run that has ended finally    *)
(* succeeds.                                                               *)
(***************************************************************************)
Fairness ==
  /\ \A c \in Controllers :
       /\ WF_progressVars(WorkStep(c) /\ UNCHANGED faults)
       /\ WF_progressVars(GiveUp(c) /\ UNCHANGED faults)
       /\ SF_progressVars(BeginPoll(c) /\ UNCHANGED faults)
       /\ SF_progressVars((\E v \in Verified : RecordOutcome(c, v)) /\ UNCHANGED faults)
  /\ \A w \in Works : SF_progressVars((\E c \in Controllers : Claim(c, w)) /\ UNCHANGED faults)
  /\ \A t \in Targets : WF_progressVars(Lapse(t) /\ UNCHANGED faults)
  /\ \A a \in Attempts : WF_progressVars(RunEnds(a) /\ UNCHANGED faults)

FairSpec == ProgressInit /\ [][ProgressNext]_progressVars /\ Fairness

\* A submitted run whose id was recorded is finally verified, and with it
\* its target released, whoever is left to poll it (verify_refresh,
\* verify_pipeline, claim_work's promotion to verify_action).
CorrelatedIsVerified == \A a \in Attempts :
  action[a].known ~> action[a].state \in Verified

\* Every attempt is finally closed, unless the answer to its submission was
\* lost and no run can be correlated with it: then it stays uncertain and
\* keeps its target fenced.
AttemptIsClosed == \A a \in Attempts :
  work[SourceWork(a)].state \in {"queued", "leased"} ~>
    \/ work[SourceWork(a)].state \in Finished
    \/ action[a].state \in Active /\ ~action[a].known
=============================================================================
