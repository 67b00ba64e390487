---------------------------- MODULE MCOperations ----------------------------
(***************************************************************************)
(* What must eventually happen, in three jobs that meet in no row: a       *)
(* controller's drain of the Command Center's commands, a gated triage run *)
(* and a silent sweep.  One of them moves in a behaviour.                  *)
(***************************************************************************)
EXTENDS CommandQueue

CONSTANTS Sweepers, Runs, Proposals, Responders, None

VARIABLES
  part,
  reading, lease, sw, inc, posted, streak, overlapped, sfaults,
  row, binding, page, answers, run, holder, receipt, effect, effects, flags, finished

Silent == INSTANCE SilentSweep WITH
  OwnerOf <- [s \in Sweepers |-> s], Confirm <- 1, MaxErrors <- 1, Cooldown <- 1,
  LeaseTicks <- 1, Watch <- {"stale"}, Levels <- {1}, Drop <- 1, Figures <- {1},
  MaxFaults <- 0, row <- reading, faults <- sfaults

Triage == INSTANCE TriageRun WITH
  Redacted <- {}, MaxTurns <- 2, MaxToolCalls <- 3, MaxWrites <- 1, Tables <- 1,
  MaxBatch <- 2, Gated <- TRUE, HasDuplicates <- TRUE, Faults <- TRUE

silentVars == <<reading, lease, sw, inc, posted, streak, overlapped, sfaults>>
triageVars == <<row, binding, page, answers, run, holder, receipt, effect, effects, flags, finished>>
allVars == <<part, vars, silentVars, triageVars>>

OperationsInit ==
  /\ part \in {"commands", "silent", "triage"}
  /\ Init /\ Silent!Init /\ Triage!Init

InCommands == part = "commands" /\ UNCHANGED <<part, silentVars, triageVars>>
InSilent == part = "silent" /\ UNCHANGED <<part, vars, triageVars>>
InTriage == part = "triage" /\ UNCHANGED <<part, vars, silentVars>>

OperationsNext ==
  \/ InCommands /\ Next
  \/ InSilent /\ Silent!Next
  \/ InTriage /\ Triage!Next

\* The fairness of CommandQueue, of SilentSweep and of TriageRun.
OperationsFairness ==
  /\ \A w \in Workers : WF_allVars(InCommands /\ WorkerStep(w))
  /\ WF_allVars(InCommands /\ ExpireCommands) /\ WF_allVars(InCommands /\ Tick)
  /\ WF_allVars(InSilent /\ \E s \in Sweepers : Silent!Step(s))
  /\ WF_allVars(InSilent /\ Silent!LeaseTick) /\ WF_allVars(InSilent /\ Silent!CooldownTick)
  /\ \A r \in Runs : WF_allVars(InTriage /\ Triage!RunStep(r))
  /\ WF_allVars(InTriage /\ Triage!RowExpires)

OperationsSpec == OperationsInit /\ [][OperationsNext]_allVars /\ OperationsFairness

-----------------------------------------------------------------------------
\* Nothing hangs: a queued command is served or waits for an administrator, a
\* parked probe is asked again whatever sweeps look at it, and a triage run that
\* starts ends, whatever the model asks for and however long nobody answers
\* (drain, _circuit_open, TriageAgent.run).
JobsEnd == QueuedIsServed /\ Silent!ParkedIsRetried /\ Triage!RunEnds
=============================================================================
