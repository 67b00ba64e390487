-------------------------- MODULE DeploymentReset --------------------------
(***************************************************************************)
(* The operators of a deployment (scripts/reset_monitoring_state.py,       *)
(* monitoring/deployment_registry.py): the first baseline of the database, *)
(* the protected registration of the services that write to it, and the    *)
(* reset that deletes every operational row and replaces the epoch.        *)
(*                                                                         *)
(* Each operation is prepared by a read-only plan, kept in a file, and     *)
(* carried out later by whoever presents the file.  The services, the      *)
(* external job they may have started and the owner of the SQL authority   *)
(* go on meanwhile.  The operational rows are one action and one item of   *)
(* work; ver counts the writes, so that equal rows mean equal content.     *)
(***************************************************************************)
EXTENDS Naturals, FiniteSets, Sequences

CONSTANTS
  Operators,  \* runs of the two scripts
  Nobody,
  Limit,      \* plans that are made for each purpose
  MaxWrites,  \* writes of the services
  MaxChanges, \* changes of the authority and of the deployed bindings
  MaxFaults   \* crashes and commits that are not acknowledged

\* The plans of a database that has a baseline were made too.
ResetAssumption ==
  /\ Nobody \notin Operators
  /\ Limit \in [{"initialize", "register", "reset"} -> Nat]
  /\ Limit["initialize"] > 0 /\ Limit["register"] > 0
  /\ {MaxWrites, MaxChanges, MaxFaults} \subseteq Nat

VARIABLES
  control,    \* the baseline: its epoch, by which plan it came, maintenance
  rows,       \* the operational rows
  reg,        \* the latest registration, and the plans registered so far
  receipts,   \* what survives a reset: baselines and resets, by plan
  world,      \* services running, a request on its way, the job, authority, bindings
  plans,      \* the files
  op,         \* the operators
  answer,     \* what the last of them to end was told of its plan
  lock,       \* who has a transaction open, and whether it locks the rows
  faults

vars == <<control, rows, reg, receipts, world, plans, op, answer, lock, faults>>
sql == <<control, rows, reg, receipts>>
ops == <<op, answer>>

NoRows == [ver |-> 0, act |-> "none", work |-> "none"]
NoControl == [epoch |-> 0, by |-> 0, maint |-> TRUE]
NoReg == [rev |-> 0, auth |-> 0, bind |-> 0, fresh |-> FALSE, by |-> {}]
Idle == [pc |-> "idle", plan |-> 0, erased |-> FALSE]
NoAnswer == [plan |-> 0, told |-> "nothing", erased |-> FALSE]
Unlocked == [who |-> Nobody, rows |-> FALSE]
ActStates == {"none", "reserved", "submitted", "rejected", "verified"}
Told == {"nothing", "refused", "uncertain", "reset", "unverified", "initialized", "registered", "unreadable"}
Purposes == {"initialize", "register", "reset"}
MaxPlans == Limit["initialize"] + Limit["register"] + Limit["reset"]
PlanIds == 1 .. MaxPlans

TypeOK ==
  /\ control \in [epoch: 0 .. MaxPlans, by: 0 .. MaxPlans, maint: BOOLEAN]
  /\ rows \in [ver: 0 .. MaxWrites, act: ActStates, work: {"none", "queued", "leased", "done"}]
  /\ reg \in [rev: Nat, auth: Nat, bind: Nat, fresh: BOOLEAN, by: SUBSET PlanIds]
  /\ reg.rev = Cardinality(reg.by)
  /\ \A r \in receipts : r.plan \in PlanIds /\ r.kind \in {"baseline", "reset"}
  /\ world \in [running: BOOLEAN, post: BOOLEAN, job: {"idle", "active", "ended"}, auth: Nat, bind: Nat, changes: Nat]
  /\ op \in [Operators -> [pc: {"idle", "lock", "first", "second", "commit", "verify", "reconcile", "schema", "adopt",
                                "collect", "quiet", "append"},
                           plan: 0 .. MaxPlans, erased: BOOLEAN]]
  /\ answer.told \in Told
  /\ lock \in [who: Operators \cup {Nobody}, rows: BOOLEAN] /\ Len(plans) <= MaxPlans /\ faults \in 0 .. MaxFaults

\* _snapshot: the state a manifest approves, the retained tables included.
Snapshot == [control |-> control, rows |-> rows, rev |-> reg.rev, receipts |-> receipts]

\* read_authority: the principals, permissions and modules of the database.
\* Only that they are protected and the same as before matters here.
Authority == world.auth

\* collect: the services, identities and settings that can reach it.
Deployed == world.bind

\* The registration a plan was made under, and what is deployed.
Inventory == [rev |-> reg.rev, auth |-> Authority, bind |-> Deployed]

\* A database without a baseline, or one with a baseline and a registration.
Init ==
  /\ rows = NoRows /\ op = [o \in Operators |-> Idle] /\ answer = NoAnswer /\ lock = Unlocked /\ faults = 0
  /\ world = [running |-> FALSE, post |-> FALSE, job |-> "idle", auth |-> 0, bind |-> 0, changes |-> 0]
  /\ \/ control = NoControl /\ reg = NoReg /\ receipts = {} /\ plans = <<>>
     \/ /\ \E m \in BOOLEAN : control = [epoch |-> 1, by |-> 1, maint |-> m]
        /\ reg = [NoReg EXCEPT !.rev = 1, !.fresh = TRUE, !.by = {2}]
        /\ receipts = {[plan |-> 1, kind |-> "baseline", old |-> 0]}
        /\ plans = <<[purpose |-> "initialize", snap |-> [control |-> NoControl], inv |-> Inventory, blocked |-> FALSE],
                     [purpose |-> "register", snap |-> [control |-> NoControl], inv |-> [Inventory EXCEPT !.rev = 0], blocked |-> FALSE]>>

Fault == faults < MaxFaults /\ faults' = faults + 1
Go(o, pc) == op' = [op EXCEPT ![o].pc = pc] /\ UNCHANGED answer
\* The operation is over for this operator, who is told so.
Tell(o, n, what) ==
  /\ op' = [op EXCEPT ![o] = Idle]
  /\ answer' = [plan |-> n, told |-> what, erased |-> op[o].erased]
Free == lock.who = Nobody
P(o) == plans[op[o].plan]

(***************************************************************************)
(* What the scripts read.                                                  *)
(***************************************************************************)

\* _hazards: a row that is not over and whose state the reader does not know
\* stops the inventory.
Readable == rows.act # "rejected"

\* The hazards: leased or queued work, and actions without a verdict.
Hazards == (IF rows.work \in {"queued", "leased"} THEN {"work"} ELSE {})
           \cup (IF rows.act \in {"reserved", "submitted"} THEN {rows.act} ELSE {})

\* RegisteredDeploymentInventoryReader.read: the latest registration, recent,
\* under the present authority, of the services as they are deployed and stopped.
Stopped == ~world.running
InventoryProved ==
  reg.rev > 0 /\ reg.fresh /\ reg.auth = Authority /\ reg.bind = Deployed /\ Stopped

\* The run history of the registered targets.
NoActiveRun == world.job # "active"

\* Mutant: the history of the target is not read.
Quiescent_RowsOnly(hazards) == Stopped /\ hazards \subseteq {"submitted"}

\* observe and validate_observation: every service stopped, no job active on
\* a registered target, and every hazard a known execution that has ended.
Quiescent(hazards) == Stopped /\ hazards \subseteq {"submitted"} /\ NoActiveRun

Blocked(purpose) == purpose = "reset" /\ (control.epoch = 0 \/ ~control.maint \/ ~InventoryProved)

Made(purpose) == Cardinality({n \in DOMAIN plans : plans[n].purpose = purpose})
CanPlan(o, purpose) == op[o].pc = "idle" /\ Free /\ Made(purpose) < Limit[purpose]

\* plan, plan_initialization: a read-only transaction.
Plan(o, purpose) ==
  /\ CanPlan(o, purpose)
  /\ IF Readable
       THEN /\ plans' = Append(plans, [purpose |-> purpose, snap |-> Snapshot, inv |-> Inventory, blocked |-> Blocked(purpose)])
            /\ UNCHANGED ops
       ELSE Tell(o, 0, "unreadable") /\ UNCHANGED plans
  /\ UNCHANGED <<sql, world, lock, faults>>

(***************************************************************************)
(* The first baseline.                                                     *)
(***************************************************************************)
Presents(o, n, purpose) == op[o].pc = "idle" /\ Free /\ plans[n].purpose = purpose
Start(o, n, pc) == op' = [op EXCEPT ![o] = [Idle EXCEPT !.pc = pc, !.plan = n]] /\ UNCHANGED answer

HasReceipt(n, kind) == \E r \in receipts : r.plan = n /\ r.kind = kind

\* initialize, its first transaction: another baseline is never adopted.
Initialize(o, n) ==
  /\ Presents(o, n, "initialize")
  /\ IF plans[n].snap.control.epoch # 0 \/ (control.epoch # 0 /\ control.by # n)
       THEN Tell(o, n, "refused") ELSE Start(o, n, "schema")
  /\ UNCHANGED <<sql, world, plans, lock, faults>>

\* initialize_monitoring_schema: the control row, unless it is there.
InitializeSchema(o) ==
  LET n == op[o].plan IN
  /\ op[o].pc = "schema" /\ Free
  /\ \/ /\ control.epoch = 0 /\ control' = [epoch |-> n, by |-> n, maint |-> TRUE] /\ Go(o, "adopt")
     \/ control.epoch # 0 /\ control.by = n /\ Go(o, "adopt") /\ UNCHANGED control
     \/ control.epoch # 0 /\ control.by # n /\ Tell(o, op[o].plan, "refused") /\ UNCHANGED control
  /\ UNCHANGED <<rows, reg, receipts, world, plans, lock, faults>>

\* Its commit is not acknowledged: the snapshot says whether it is there.
SchemaUnconfirmed(o) ==
  LET n == op[o].plan IN
  /\ op[o].pc = "schema" /\ Free /\ control.epoch = 0 /\ Fault
  /\ \/ control' = [epoch |-> n, by |-> n, maint |-> TRUE] /\ Go(o, "adopt")
     \/ Tell(o, op[o].plan, "uncertain") /\ UNCHANGED control
  /\ UNCHANGED <<rows, reg, receipts, world, plans, lock>>

\* The last transaction: the baseline is read again and its receipt written.
RecordBaseline(o) ==
  LET n == op[o].plan IN
  /\ op[o].pc = "adopt" /\ Free
  /\ IF control.by = n /\ control.maint
       THEN receipts' = receipts \cup {[plan |-> n, kind |-> "baseline", old |-> 0]} /\ Tell(o, op[o].plan, "initialized")
       ELSE Tell(o, op[o].plan, "refused") /\ UNCHANGED receipts
  /\ UNCHANGED <<control, rows, reg, world, plans, lock, faults>>

(***************************************************************************)
(* The registration of the services.                                       *)
(***************************************************************************)

\* DeploymentRegistrationOperator.prepare; blocked while a service runs.
Prepare(o) ==
  /\ CanPlan(o, "register")
  /\ plans' = Append(plans, [purpose |-> "register", snap |-> Snapshot, inv |-> Inventory, blocked |-> ~Stopped])
  /\ UNCHANGED <<sql, world, ops, lock, faults>>

\* accept: the original registration, or a transaction of its own.
Accept(o, n) ==
  /\ Presents(o, n, "register")
  /\ IF n \in reg.by THEN Tell(o, n, "registered") /\ UNCHANGED lock
     ELSE IF plans[n].blocked THEN Tell(o, n, "refused") /\ UNCHANGED lock
     ELSE Start(o, n, "collect") /\ lock' = [who |-> o, rows |-> FALSE]
  /\ UNCHANGED <<sql, world, plans, faults>>

Rollback(o, what) == Tell(o, op[o].plan, what) /\ lock' = Unlocked

\* The authority and the revision are the ones prepared, and what is deployed
\* is collected again.
Collect(o) ==
  /\ op[o].pc = "collect"
  /\ IF P(o).inv = Inventory /\ Stopped
       THEN Go(o, "quiet") /\ UNCHANGED lock ELSE Rollback(o, "refused")
  /\ UNCHANGED <<sql, world, plans, faults>>

\* live_quiescence_guard: the inventory of the reset, under shared locks.
VerifyQuiescence(o) ==
  /\ op[o].pc = "quiet"
  /\ IF control.epoch # 0 /\ control.maint /\ Readable /\ Quiescent(Hazards)
       THEN Go(o, "append") /\ lock' = [lock EXCEPT !.rows = TRUE] ELSE Rollback(o, "refused")
  /\ UNCHANGED <<sql, world, plans, faults>>

Registered(o) == [rev |-> reg.rev + 1, auth |-> P(o).inv.auth, bind |-> P(o).inv.bind, fresh |-> TRUE, by |-> reg.by \cup {op[o].plan}]

\* The authority is read a last time; header, services and capture commit together.
AppendRegistration(o) ==
  /\ op[o].pc = "append" /\ lock' = Unlocked
  /\ IF P(o).inv.auth = Authority
       THEN \/ reg' = Registered(o) /\ Tell(o, op[o].plan, "registered") /\ UNCHANGED faults
            \/ Fault /\ reg' = Registered(o) /\ Tell(o, op[o].plan, "registered")
            \/ Fault /\ Tell(o, op[o].plan, "uncertain") /\ UNCHANGED reg
       ELSE Tell(o, op[o].plan, "refused") /\ UNCHANGED <<reg, faults>>
  /\ UNCHANGED <<control, rows, receipts, world, plans>>

(***************************************************************************)
(* The reset.                                                              *)
(***************************************************************************)

Replayed(n) == HasReceipt(n, "reset")

\* A reset that is found again must still be the baseline.
Replay(o, n) == IF control.epoch = n THEN "reset" ELSE "refused"

\* execute: the confirmation, and a first look for the receipt.
Execute(o, n) ==
  /\ Presents(o, n, "reset")
  /\ IF Replayed(n) THEN Tell(o, n, Replay(o, n))
     ELSE IF plans[n].blocked THEN Tell(o, n, "refused")
     ELSE Start(o, n, "lock")
  /\ UNCHANGED <<sql, world, plans, lock, faults>>

\* Mutant: the rows are not compared with the approved ones.
Approved_Epoch(o) == P(o).snap.control = control

\* Mutant: the baseline is not compared with the approved one.
Approved_Rows(o) == P(o).snap.rows = rows

Approved(o) == P(o).snap = Snapshot

\* Every owned table is locked and the state is read again.
LockTables(o) ==
  /\ op[o].pc = "lock" /\ Free
  /\ IF Replayed(op[o].plan) THEN Tell(o, op[o].plan, Replay(o, op[o].plan)) /\ UNCHANGED lock
     ELSE IF Readable /\ Approved(o) THEN Go(o, "first") /\ lock' = [who |-> o, rows |-> TRUE]
     ELSE Tell(o, op[o].plan, "refused") /\ UNCHANGED lock
  /\ UNCHANGED <<sql, world, plans, faults>>

Preflight(o) == InventoryProved /\ P(o).inv = Inventory /\ Quiescent(Hazards)

\* _live_preflight, before the rows are deleted and again after.
FirstPreflight(o) ==
  /\ op[o].pc = "first"
  /\ IF Preflight(o) THEN Go(o, "second") /\ UNCHANGED lock ELSE Rollback(o, "refused")
  /\ UNCHANGED <<sql, world, plans, faults>>

SecondPreflight(o) ==
  /\ op[o].pc = "second"
  /\ IF Preflight(o) THEN Go(o, "commit") /\ UNCHANGED lock ELSE Rollback(o, "refused")
  /\ UNCHANGED <<sql, world, plans, faults>>

\* The rows go, the control row is replaced and the receipt is written.
Erase(o) ==
  LET n == op[o].plan IN
  /\ rows' = [NoRows EXCEPT !.ver = rows.ver] /\ control' = [epoch |-> n, by |-> n, maint |-> TRUE]
  /\ receipts' = receipts \cup {[plan |-> n, kind |-> "reset", old |-> control.epoch]}

Commit(o) ==
  /\ op[o].pc = "commit" /\ Erase(o) /\ lock' = Unlocked
  /\ op' = [op EXCEPT ![o] = [@ EXCEPT !.pc = "verify", !.erased = TRUE]] /\ UNCHANGED answer
  /\ UNCHANGED <<reg, world, plans, faults>>

CommitUnconfirmed(o) ==
  /\ op[o].pc = "commit" /\ Fault /\ lock' = Unlocked
  /\ \/ Erase(o) /\ op' = [op EXCEPT ![o] = [@ EXCEPT !.pc = "reconcile", !.erased = TRUE]] /\ UNCHANGED answer
     \/ Go(o, "reconcile") /\ UNCHANGED <<rows, control, receipts>>
  /\ UNCHANGED <<reg, world, plans>>

\* What an operator is told when the receipt does not settle it.
Unestablished == "uncertain"

\* The receipt and the control row decide; nothing is deleted again.
Reconcile(o) ==
  /\ op[o].pc = "reconcile" /\ Free
  /\ Tell(o, op[o].plan, IF Replayed(op[o].plan) /\ control.epoch = op[o].plan THEN "reset" ELSE Unestablished)
  /\ UNCHANGED <<sql, world, plans, lock, faults>>

\* initialize_monitoring_schema again, to verify the new baseline.
Verify(o) ==
  /\ op[o].pc = "verify" /\ Free /\ Tell(o, op[o].plan, IF control.by = op[o].plan THEN "reset" ELSE "unverified")
  /\ UNCHANGED <<sql, world, plans, lock, faults>>

Crash(o) ==
  /\ op[o].pc # "idle" /\ Fault /\ op' = [op EXCEPT ![o] = Idle] /\ UNCHANGED answer
  /\ lock' = IF lock.who = o THEN Unlocked ELSE lock
  /\ UNCHANGED <<sql, world, plans>>

(***************************************************************************)
(* Everything else: the services, the job, the owners of the deployment.   *)
(***************************************************************************)
Write(act, work) ==
  /\ world.running /\ ~lock.rows /\ rows.ver < MaxWrites
  /\ rows' = [ver |-> rows.ver + 1, act |-> act, work |-> work]
  /\ UNCHANGED <<control, reg, receipts, plans, ops, lock, faults>>

\* A service takes work, reserves, records and verifies the one action.
\* The next action waits for the verdict on the last, and its request has no
\* job yet, whatever job there was before.
Queue == control.epoch # 0 /\ ~control.maint /\ rows.work \in {"none", "done"} /\ rows.act \notin {"reserved", "submitted"} /\ Write("none", "queued") /\ UNCHANGED world
Reserve == ~control.maint /\ rows.work = "queued" /\ rows.act = "none" /\ Write("reserved", "leased") /\ world' = [world EXCEPT !.post = TRUE, !.job = "idle"]
RecordSubmission == rows.act = "reserved" /\ world.job # "idle" /\ (\E w \in {"leased", "done"} : Write("submitted", w)) /\ UNCHANGED world
RecordRejection == rows.act = "reserved" /\ ~world.post /\ world.job = "idle" /\ Write("rejected", "done") /\ UNCHANGED world
RecordOutcome == rows.act = "submitted" /\ world.job = "ended" /\ Write("verified", "done") /\ UNCHANGED world

\* The request takes effect, whoever still runs, or is refused.
Arrive ==
  /\ world.post /\ \E j \in {"active", "idle"} : world' = [world EXCEPT !.post = FALSE, !.job = j]
  /\ UNCHANGED <<sql, plans, ops, lock, faults>>
JobEnds == world.job = "active" /\ world' = [world EXCEPT !.job = "ended"] /\ UNCHANGED <<sql, plans, ops, lock, faults>>
StartStop == world' = [world EXCEPT !.running = ~@] /\ UNCHANGED <<sql, plans, ops, lock, faults>>

\* An administrator changes maintenance, the authority or what is deployed.
SetMaintenance ==
  /\ control.epoch # 0 /\ ~lock.rows /\ world.changes < MaxChanges /\ control' = [control EXCEPT !.maint = ~@]
  /\ world' = [world EXCEPT !.changes = @ + 1] /\ UNCHANGED <<rows, reg, receipts, plans, ops, lock, faults>>
Redeploy ==
  /\ world.changes < MaxChanges
  /\ \/ world' = [world EXCEPT !.auth = @ + 1, !.changes = @ + 1]
     \/ world' = [world EXCEPT !.bind = @ + 1, !.changes = @ + 1]
  /\ UNCHANGED <<sql, plans, ops, lock, faults>>

\* A registration is good for an hour.
Age ==
  /\ reg.fresh /\ world.changes < MaxChanges /\ reg' = [reg EXCEPT !.fresh = FALSE]
  /\ world' = [world EXCEPT !.changes = @ + 1] /\ UNCHANGED <<control, rows, receipts, plans, ops, lock, faults>>

Services == Queue \/ Reserve \/ RecordSubmission \/ RecordRejection \/ RecordOutcome
Outside == Arrive \/ JobEnds \/ StartStop \/ SetMaintenance \/ Redeploy \/ Age

Begin(o) ==
  \/ Plan(o, "initialize") \/ Plan(o, "reset") \/ Prepare(o)
  \/ \E n \in DOMAIN plans : Initialize(o, n) \/ Accept(o, n) \/ Execute(o, n)

Continue(o) ==
  \/ InitializeSchema(o) \/ SchemaUnconfirmed(o) \/ RecordBaseline(o) \/ Collect(o) \/ VerifyQuiescence(o) \/ AppendRegistration(o)
  \/ LockTables(o) \/ FirstPreflight(o) \/ SecondPreflight(o) \/ Commit(o) \/ CommitUnconfirmed(o) \/ Reconcile(o) \/ Verify(o)

Next == (\E o \in Operators : Begin(o) \/ Continue(o) \/ Crash(o)) \/ Services \/ Outside

Spec == Init /\ [][Next]_vars

(***************************************************************************)
(* Properties.                                                             *)
(***************************************************************************)
Resets == {r \in receipts : r.kind = "reset"}

\* No reset forgets an effect: when the rows go, no request of a service is
\* on its way and the job of the target is not running.
NoEffectForgotten ==
  [][\A r \in receipts' \ receipts : r.kind = "reset" => ~world.post /\ world.job # "active"]_vars

\* A reset deletes what its manifest described and nothing written since.
OnlyWhatWasApproved ==
  [][\A r \in receipts' \ receipts : r.kind = "reset" => rows = plans[r.plan].snap.rows]_vars

\* The epochs are a chain: a reset replaces the baseline its manifest was
\* made for, every baseline is replaced once, and the present one is the end.
EpochChain ==
  /\ \A r \in Resets : r.old = plans[r.plan].snap.control.epoch
  /\ \A r, s \in Resets : r.old = s.old => r = s
  /\ \A r \in Resets : r.plan = control.epoch \/ \E s \in Resets : s.old = r.plan

\* What an operator is told is so: done is durable, refused deleted nothing.
ToldTheTruth ==
  /\ answer.told \in {"reset", "unverified"} => Replayed(answer.plan)
  /\ answer.told = "registered" => answer.plan \in reg.by
  /\ answer.told = "initialized" => HasReceipt(answer.plan, "baseline")
  /\ answer.told = "refused" => ~answer.erased

\* Baselines follow each other, and what an operator is told is so.
AnswersTrue == TypeOK /\ EpochChain /\ ToldTheTruth

(***************************************************************************)
(* Why they hold: the inductive invariant.                                 *)
(***************************************************************************)

\* A plan describes a baseline older than itself, and baselines come by plans.
PlansMade ==
  /\ plans \in Seq({plans[n] : n \in DOMAIN plans})
  /\ \A n \in DOMAIN plans :
       /\ plans[n].purpose \in Purposes /\ plans[n].inv \in [rev: Nat, auth: Nat, bind: Nat]
       /\ plans[n].snap.control.epoch \in 0 .. n - 1
  /\ \A p \in Purposes : Made(p) <= Limit[p]
  /\ {control.epoch, control.by} \subseteq {0} \cup DOMAIN plans
  /\ \A o \in Operators : op[o].pc # "idle" => op[o].plan \in DOMAIN plans

\* An operator has the one transaction from its first lock to its last step.
Locking == {"first", "second", "commit", "collect", "quiet", "append"}
LockHeld == \A o \in Operators : op[o].pc \in Locking <=> lock.who = o

\* In the transaction of a reset the approved state stands still, and so does
\* the service once its job was seen to be over.
ApprovedStill == \A o \in Operators :
  op[o].pc \in {"first", "second", "commit"} => lock.rows /\ Approved(o)

EffectsRecorded ==
  /\ world.post => rows.act = "reserved" /\ world.job = "idle"
  /\ world.job = "active" => rows.act \in {"reserved", "submitted"}
  /\ \A o \in Operators : op[o].pc \in {"second", "commit"} => ~world.post /\ world.job # "active"

\* A plan is registered once.
RegisteredOnce == \A o \in Operators : op[o].pc \in {"collect", "quiet", "append"} => op[o].plan \notin reg.by

\* Every reset names a plan, and replaced a baseline older than the present one.
ResetsFollow ==
  /\ \A r \in receipts : r.plan \in DOMAIN plans
  /\ \A r \in Resets : r.old \in Nat /\ r.old < control.epoch

\* Who has deleted the rows has a receipt for it.
ErasedIsDone == \A o \in Operators :
  /\ op[o].erased => op[o].pc \in {"verify", "reconcile"} /\ Replayed(op[o].plan)
  /\ op[o].pc = "verify" => op[o].erased

ResetInv ==
  /\ TypeOK /\ PlansMade /\ LockHeld /\ ApprovedStill /\ EffectsRecorded /\ RegisteredOnce
  /\ ResetsFollow /\ ErasedIsDone /\ EpochChain /\ ToldTheTruth
=============================================================================
