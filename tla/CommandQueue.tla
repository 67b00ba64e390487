---------------------------- MODULE CommandQueue ----------------------------
(***************************************************************************)
(* Operator commands of the Command Center: the web tier records them      *)
(* (store/command_center.py), controllers drain them                       *)
(* (command_center/worker.py), an administrator reconciles the ones whose  *)
(* outcome is not known.  Commands are numbered in the order of their      *)
(* created_at.                                                             *)
(*                                                                         *)
(* A worker holds the claim of the command's target while it works         *)
(* (ClaimStore), and the command row carries a lease of its own.  Time     *)
(* runs in ticks: Budget is the execution budget, Lease the budget and its *)
(* slack, and spent is what monotonic() shows since the worker began.  A   *)
(* tick that takes a worker past its budget before it has dispatched is a  *)
(* stall, and stalls, crashes and lost answers are bounded by MaxFaults.   *)
(***************************************************************************)
EXTENDS Naturals, FiniteSets, FiniteSetsExt

CONSTANTS
  Commands,   \* idempotency keys, 1 .. n
  Targets,    \* registered targets
  Workers,    \* controllers that drain commands
  Nobody,     \* no worker
  Budget,     \* triage and approval timeouts, in ticks
  Lease,      \* lease_seconds, in ticks
  MaxFaults   \* stalls, crashes and unconfirmed writes

ASSUME BudgetAssumption == Budget \in Nat /\ Lease \in Nat /\ Budget < Lease

ASSUME QueueAssumption ==
  /\ Commands \subseteq Nat \ {0} /\ Targets # {}
  /\ Nobody \notin Workers /\ MaxFaults \in Nat

VARIABLES
  rows, held,  \* the target claims
  cmd,         \* the command rows
  wk,          \* the workers
  entered,     \* how often a command's execution was entered
  done,        \* commands whose execution ran to its end
  faults

Claims == INSTANCE ClaimStore WITH Instances <- Workers, Keys <- Targets, NoInstance <- Nobody

claimVars == <<rows, held>>
vars == <<rows, held, cmd, wk, entered, done, faults>>

CommandStates == {"absent", "queued", "running", "completed", "failed", "interrupted"}

Steps == {"idle", "take", "check", "claim", "write", "resolve", "execute",
          "finish", "interrupt", "refuse", "release"}

NoCommand == [state |-> "absent", target |-> CHOOSE t \in Targets : TRUE, worker |-> Nobody,
              left |-> 0, reconciled |-> FALSE]

Idle == [pc |-> "idle", todo |-> {}, spent |-> 0, now |-> 0]

TypeOK ==
  /\ Claims!ClaimTypeOK
  /\ cmd \in [Commands -> [state: CommandStates, target: Targets, worker: Workers \cup {Nobody},
                           left: 0 .. Lease, reconciled: BOOLEAN]]
  /\ wk \in [Workers -> [pc: Steps, todo: SUBSET Commands, spent: 0 .. Lease + 1, now: Commands \cup {0}]]
  /\ entered \in [Commands -> Nat] /\ done \subseteq Commands /\ faults \in 0 .. MaxFaults
  /\ \A c \in Commands : cmd[c].state = "running" => cmd[c].worker # Nobody

Init ==
  /\ Claims!ClaimInit
  /\ cmd = [c \in Commands |-> NoCommand] /\ wk = [w \in Workers |-> Idle]
  /\ entered = [c \in Commands |-> 0] /\ done = {} /\ faults = 0

Fault == faults < MaxFaults /\ faults' = faults + 1

(***************************************************************************)
(* The web tier.                                                           *)
(***************************************************************************)

\* The row of a new command.
Enter(c, t) == [cmd EXCEPT ![c] = [@ EXCEPT !.state = "queued", !.target = t]]

\* CommandCenterService.enqueue: a known key is a replay, which changes
\* nothing, or another request, which is refused.
Enqueue(c, t) ==
  /\ cmd[c].state = "absent" /\ \A b \in Commands : b < c => cmd[b].state # "absent"
  /\ cmd' = Enter(c, t)
  /\ UNCHANGED <<claimVars, wk, entered, done, faults>>

\* Mutant: an expired command is put back into the queue.
Expired_Requeued(c) == [c EXCEPT !.state = "queued", !.worker = Nobody]

\* What expiry makes of a running command.
Expired(c) == [c EXCEPT !.state = "interrupted"]

\* expire_commands: by every drain and every snapshot of the web page.
ExpireCommands ==
  LET late == {c \in Commands : cmd[c].state = "running" /\ cmd[c].left = 0} IN
  /\ late # {}
  /\ cmd' = [c \in Commands |-> IF c \in late THEN Expired(cmd[c]) ELSE cmd[c]]
  /\ UNCHANGED <<claimVars, wk, entered, done, faults>>

Reconciled(c) == [c EXCEPT !.state = "failed", !.reconciled = TRUE]

\* reconcile_command: an administrator has settled what an interrupted
\* command did.
Reconcile(c) ==
  /\ cmd[c].state = "interrupted"
  /\ cmd' = [cmd EXCEPT ![c] = Reconciled(@)]
  /\ UNCHANGED <<claimVars, wk, entered, done, faults>>

(***************************************************************************)
(* drain_commands.                                                         *)
(***************************************************************************)

\* target_blocked: a command whose effect may be under way or is not known.
TargetBlocked(t) ==
  \E c \in Commands : cmd[c].target = t /\ cmd[c].state \in {"running", "interrupted"}

\* eligible_commands: the queued commands of targets that are not blocked.
Eligible == {c \in Commands : cmd[c].state = "queued" /\ ~TargetBlocked(cmd[c].target)}

Go(w, pc) == wk' = [wk EXCEPT ![w].pc = pc]
TargetOf(w) == cmd[wk[w].now].target

ListCommands(w) ==
  /\ wk[w].pc = "idle" /\ Eligible # {}
  /\ wk' = [wk EXCEPT ![w] = [Idle EXCEPT !.pc = "take", !.todo = Eligible]]
  /\ UNCHANGED <<claimVars, cmd, entered, done, faults>>

\* The next candidate, oldest first: its target is claimed, or it is skipped.
TakeNext(w) ==
  LET c == Min(wk[w].todo)
      t == cmd[c].target IN
  /\ wk[w].pc = "take" /\ wk[w].todo # {}
  /\ \/ /\ Claims!InsertClaim(w, t) \/ Claims!StealClaim(w, t)
        /\ wk' = [wk EXCEPT ![w] = [@ EXCEPT !.pc = "check", !.todo = wk[w].todo \ {c}, !.now = c, !.spent = 0]]
        /\ UNCHANGED faults
     \/ /\ Claims!HasRow(t) /\ rows[t].left > 0 /\ wk' = [wk EXCEPT ![w].todo = @ \ {c}]
        /\ UNCHANGED <<claimVars, faults>>
     \/ Fault /\ Claims!InsertUnconfirmed(w, t) /\ wk' = [wk EXCEPT ![w].todo = @ \ {c}]
  /\ UNCHANGED <<cmd, entered, done>>

EndDrain(w) ==
  /\ wk[w].pc = "take" /\ wk[w].todo = {} /\ wk' = [wk EXCEPT ![w] = Idle]
  /\ UNCHANGED <<claimVars, cmd, entered, done, faults>>

\* The target is read again under its claim.
CheckTarget(w) ==
  /\ wk[w].pc = "check" /\ Go(w, IF TargetBlocked(TargetOf(w)) THEN "release" ELSE "claim")
  /\ UNCHANGED <<claimVars, cmd, entered, done, faults>>

InBudget(w) == wk[w].spent <= Budget

\* A worker that has no time left does not claim the command.
CheckBudget(w) ==
  /\ wk[w].pc = "claim" /\ Go(w, IF InBudget(w) THEN "write" ELSE "release")
  /\ UNCHANGED <<claimVars, cmd, entered, done, faults>>

Claimed(w) ==
  [cmd EXCEPT ![wk[w].now] = [@ EXCEPT !.state = "running", !.worker = w, !.left = Lease]]

\* claim_command: one statement decides which worker gets a queued command.
ClaimCommand(w) ==
  LET queued == cmd[wk[w].now].state = "queued" IN
  /\ wk[w].pc = "write"
  /\ cmd' = IF queued THEN Claimed(w) ELSE cmd
  /\ Go(w, IF queued THEN "resolve" ELSE "release")
  /\ UNCHANGED <<claimVars, entered, done, faults>>

\* Its answer is lost, or its lease is over when read back: the drain ends.
ClaimUnconfirmed(w) ==
  /\ wk[w].pc = "write" /\ Fault
  /\ cmd' \in {cmd, IF cmd[wk[w].now].state = "queued" THEN Claimed(w) ELSE cmd}
  /\ wk' = [wk EXCEPT ![w] = [@ EXCEPT !.pc = "release", !.todo = {}]]
  /\ UNCHANGED <<claimVars, entered, done>>

\* The target is resolved against the registry; it may not be admitted any
\* more.  Nothing is awaited between the last look at the clock and the
\* dispatch, so the two are one step.
Dispatch(w) ==
  /\ wk[w].pc = "resolve"
  /\ \/ /\ InBudget(w) /\ Go(w, "execute") /\ entered' = [entered EXCEPT ![wk[w].now] = @ + 1]
     \/ Go(w, "refuse") /\ UNCHANGED entered
  /\ UNCHANGED <<claimVars, cmd, done, faults>>

\* _execute returns, or raises: a timeout, an incomplete report, a
\* remediation without a verified resolution.
Execute(w) ==
  /\ wk[w].pc = "execute"
  /\ \/ Go(w, "finish") /\ done' = done \cup {wk[w].now}
     \/ Go(w, "interrupt") /\ UNCHANGED done
  /\ UNCHANGED <<claimVars, cmd, entered, faults>>

\* finish_command: only the worker's own running row under a live lease.
Finished(w, state) ==
  LET c == wk[w].now
      own == cmd[c].state = "running" /\ cmd[c].worker = w /\ cmd[c].left > 0 IN
  IF own THEN [cmd EXCEPT ![c].state = state] ELSE cmd

FinishCommand(w) ==
  /\ wk[w].pc \in {"finish", "refuse"} /\ Go(w, "release")
  /\ cmd' = Finished(w, IF wk[w].pc = "finish" THEN "completed" ELSE "failed")
  /\ UNCHANGED <<claimVars, entered, done, faults>>

\* interrupt_command: needs no lease, only the row.
InterruptCommand(w) ==
  LET c == wk[w].now IN
  /\ wk[w].pc = "interrupt" /\ Go(w, "release")
  /\ cmd' = IF cmd[c].state = "running" /\ cmd[c].worker = w
              THEN [cmd EXCEPT ![c].state = "interrupted"] ELSE cmd
  /\ UNCHANGED <<claimVars, entered, done, faults>>

\* The write of the outcome fails; it is logged and not tried again.
OutcomeLost(w) ==
  /\ wk[w].pc \in {"finish", "interrupt", "refuse"} /\ Fault /\ Go(w, "release")
  /\ UNCHANGED <<claimVars, cmd, entered, done>>

\* The claim is given back, if it is still this worker's.
ReleaseTarget(w) ==
  /\ wk[w].pc = "release" /\ Claims!ReleaseClaim(w, TargetOf(w))
  /\ wk' = [wk EXCEPT ![w] = [@ EXCEPT !.pc = "take", !.now = 0, !.spent = 0]]
  /\ IF rows' = rows /\ rows[TargetOf(w)].owner = w THEN Fault ELSE UNCHANGED faults
  /\ UNCHANGED <<cmd, entered, done>>

\* The controller process ends; what it dispatched may have had its effect.
Crash(w) ==
  /\ wk[w].pc # "idle" /\ Fault /\ Claims!LoseInstance(w) /\ wk' = [wk EXCEPT ![w] = Idle]
  /\ UNCHANGED <<cmd, entered, done>>

PreDispatch == {"check", "claim", "write", "resolve"}

\* Time passes for the claims, the leases and the workers alike.
Tick ==
  LET stalled == {w \in Workers : wk[w].pc \in PreDispatch /\ wk[w].spent = Budget} IN
  /\ Claims!ClockTick
  /\ cmd' = [c \in Commands |-> [cmd[c] EXCEPT !.left = Claims!Ticked(@)]]
  /\ wk' = [w \in Workers |-> IF wk[w].now = 0 \/ wk[w].spent > Lease THEN wk[w]
                             ELSE [wk[w] EXCEPT !.spent = @ + 1]]
  /\ IF stalled # {} THEN Fault ELSE UNCHANGED faults
  /\ UNCHANGED <<entered, done>>

WorkerStep(w) ==
  \/ ListCommands(w) \/ TakeNext(w) \/ EndDrain(w) \/ CheckTarget(w) \/ CheckBudget(w)
  \/ ClaimCommand(w) \/ ClaimUnconfirmed(w) \/ Dispatch(w) \/ Execute(w) \/ FinishCommand(w)
  \/ InterruptCommand(w) \/ OutcomeLost(w) \/ ReleaseTarget(w)

Next ==
  \/ \E c \in Commands : (\E t \in Targets : Enqueue(c, t)) \/ Reconcile(c)
  \/ \E w \in Workers : WorkerStep(w) \/ Crash(w)
  \/ ExpireCommands \/ Tick

\* Controllers keep draining, sweeps keep expiring, time passes.
Fairness == (\A w \in Workers : WF_vars(WorkerStep(w))) /\ WF_vars(ExpireCommands) /\ WF_vars(Tick)

Spec == Init /\ [][Next]_vars /\ Fairness

(***************************************************************************)
(* Properties.                                                             *)
(***************************************************************************)

\* No two controllers execute commands of one target at the same time, even
\* when a worker stalls and its claim is stolen, unless an administrator has
\* declared the earlier of the two settled.
OneExecutionPerTarget ==
  \A v, w \in Workers :
    v # w /\ wk[v].pc = "execute" /\ wk[w].pc = "execute" /\ TargetOf(v) = TargetOf(w) =>
      cmd[wk[v].now].reconciled \/ cmd[wk[w].now].reconciled

\* A command is dispatched at most once, whatever crashes, expires or is lost.
DispatchedOnce == \A c \in Commands : entered[c] <= 1

\* The recorded outcome is the truth: completed commands ran to their end,
\* and one that was dispatched is not reported failed before an
\* administrator has reconciled it.
OutcomeTruthful ==
  \A c \in Commands :
    /\ cmd[c].state = "completed" => c \in done
    /\ cmd[c].state = "failed" /\ entered[c] > 0 => cmd[c].reconciled

\* A queued command is claimed, or waits behind a command of its target that
\* an administrator has to reconcile.
QueuedIsServed ==
  \A c \in Commands :
    cmd[c].state = "queued" ~>
      cmd[c].state # "queued" \/ \E b \in Commands : cmd[b].target = cmd[c].target /\ cmd[b].state = "interrupted"

\* One execution of a target at a time, one dispatch of a command, and the
\* outcome the administrator reads is what happened.
CommandsSafe ==
  /\ TypeOK
  /\ OneExecutionPerTarget
  /\ DispatchedOnce
  /\ OutcomeTruthful

(***************************************************************************)
(* Why they hold: the inductive invariant.                                 *)
(***************************************************************************)

\* The steps at which a worker has a command of its own.
Working == {"resolve", "execute", "finish", "interrupt", "refuse"}

\* A worker looks only at commands that were enqueued.
CommandsKnown == \A w \in Workers :
  /\ \A c \in wk[w].todo : cmd[c].state # "absent"
  /\ wk[w].pc \notin {"idle", "take"} =>
       wk[w].now \in Commands /\ cmd[wk[w].now].state # "absent"

\* Until its budget is spent a worker's claim is live: nobody steals it.
ClaimLive == \A w \in Workers :
  wk[w].pc \in PreDispatch /\ InBudget(w) =>
    rows[TargetOf(w)] = [owner |-> w, left |-> Lease - wk[w].spent]

\* The row of a worker's command stays its own, and open unless settled.
RowOwned == \A w \in Workers : wk[w].pc \in Working =>
  LET c == cmd[wk[w].now] IN
  c.worker = w /\ (c.state \in {"running", "interrupted"} \/ (c.state = "failed" /\ c.reconciled))

\* What a worker knows of the dispatch is true.
DispatchKnown ==
  /\ \A w \in Workers : wk[w].pc \in {"resolve", "refuse"} => entered[wk[w].now] = 0
  /\ \A w \in Workers : wk[w].pc = "finish" => wk[w].now \in done
  /\ \A c \in Commands : cmd[c].state \in {"absent", "queued"} => entered[c] = 0

Executing(w) == wk[w].pc = "execute" /\ ~cmd[wk[w].now].reconciled

\* Past the check, with time left to dispatch.
Dispatching(w) == wk[w].pc \in {"claim", "write", "resolve"} /\ InBudget(w)

\* While a command executes nobody who can still dispatch is past the check.
Undisturbed == \A v, w \in Workers :
  v # w /\ Executing(v) /\ (Executing(w) \/ Dispatching(w)) => TargetOf(v) # TargetOf(w)

QueueInv ==
  /\ TypeOK /\ CommandsKnown /\ ClaimLive /\ RowOwned /\ DispatchKnown /\ Undisturbed
  /\ DispatchedOnce /\ OutcomeTruthful
=============================================================================
