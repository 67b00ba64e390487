# Formal model of the Fabric triage accelerator

The accelerator watches Microsoft Fabric and Power BI workloads, turns failures
into work, lets a bounded agent triage each one, performs at most a small number
of remedial writes (some only after a person agrees), verifies them and records
the outcome. This directory holds TLA+ modules translated from that code, TLC
configurations that check them on small instances, and TLAPS proofs of the
properties that matter most for instances of any size.

Source paths are relative to the repository; `triage/` stands for `src/triage/`,
and `engine.py`, `memory.py` and `sql_*.py` for files of `triage/monitoring/`.
`PROJECT.json` maps every definition to the lines it models.

## 1. Inventory

| Component | Source | State | Operations | What is hard | What makes it correct |
|---|---|---|---|---|---|
| Claim store | `triage/store/claims.py` | a row per key (owner, expiry); the tokens an instance holds | `claim`, `release` | two statements with others in between; unconfirmed statements; a release after a steal | within its lease an owner is alone |
| Mailbox sweep | `src/app.py`, `triage/tools/inbox.py`, `triage/store/processed.py` | the processed log | fetch, claim, triage, mark, release | overlapping invocations; crashes; a processed log read early | no alert lost, none triaged twice at once |
| Monitoring store | `engine.py`, `memory.py` | work, leases, action owners, reservations, budgets, source heads, dispositions, receipts | `claim_work`, `reserve_action`, `record_action_*`, `finalize_work`, ... | leases that expire under a running execution; policy changes at every point | one unverified change per target; no effect forgotten |
| SQL kernel | `sql_store.py`, `sql_kernel_*.py` | the same in tables, with two lease rows | the same, as stored procedures | two lease rows that expire apart; a second implementation of one contract | the same fence; each failure counted once |
| Controller | `triage/runner.py`, `controller.py` | what an execution knows of its work | claim, triage, submit, verify, finalize | a stalled or stopped execution; answers that are lost; takeovers | one request per reservation; records match the service |
| Triage agent, ledger, dispatcher | `triage/agents/`, `triage/policy.py`, `triage/tools/registry.py` | turns, calls, writes; what the tools have shown | the loop, `dispatch`, `_seek_approval`, `_validate_outcome` | a model that asks for anything and claims anything | bounded; outcomes earned; refusals free |
| Approval channel | `triage/store/approvals.py`, `triage/approvals.py` | one row per request: proposal, answer, consumption, deadline | open, bind, poll, decide, consume | people, runs and the clock meet in one row; two opens per attempt | nothing without a matching, timely, unused yes |
| Command Center commands | `triage/store/command_center.py`, `triage/command_center/worker.py` | commands and their leases | create, claim, finish, interrupt, expire, reconcile | execution that cannot be confirmed | at most one execution; blocked until reconciled |
| Stream intake | `engine.py`, `events.py`, `worker.py` | partition ownership, positions, checkpoints, frontiers | claim, accept, checkpoint, reconcile | rebalancing, redelivery | no position skipped |
| Polling windows | `engine.py`, `polling.py` | windows, staged rows, pages, coverage | accept a page, publish or reject a window | continuation, partial windows, purged runs | coverage never skips |
| Inventory and scope | `engine.py`, `inventory.py`, `polling.py` | passes, generations, capabilities, targets, policies | record, activate, publish, retire | evidence that is out of date when used | authority only from complete evidence |
| Connectors | `provisioning.py` | desired and observed topology, operations, managed resources | plan, update, observe, supersede, settle | updates whose request is uncertain | no wanted source is dropped; the manifest is true |
| Shared REST budgets | `rate_limit.py` | counters and backoffs per bucket | acquire, defer | several buckets at once | all charged or none; promises kept |
| Deferred retries | `triage/store/retries.py`, `sql_kernel_retries.py`, `runner.py` | a row per signature; the work it is linked to | defer, drain, complete, project | two drains and late projections | one request per attempt; no row without its work |
| Incidents and their journal | `triage/store/incidents.py`, `incident_workflow.py` | an incident per signature; notes, closures, questions | record, reopen, close, ask | lost updates; a question whose observer stops | no occurrence lost or hidden; one call per question |
| Silent failure detector | `triage/detectors/silent_failures.py`, `triage/store/semantic_health.py` | a row per probe, the sweep lease | sweep, confirm, announce, accept | a row written back as a whole | findings confirmed; a collapse never learned |
| Reset and registration | `scripts/reset_monitoring_state.py` | epochs, plans, receipts | inventory, plan, approve, execute, verify | services that write between the steps | exactly what was approved; no effect forgotten |
| Bootstrap of the database | `scripts/bootstrap_azure_sql.py` | receipts, recovery records | run, recover, reconcile | a commit without its receipt | receipts are true |

How they interact. A hosted invocation (`src/app.py`) sweeps the mailbox under
claims and drains monitoring work and operator commands. The collector and the
stream receiver feed source evidence to the monitoring store, whose `_ingest`
queues triage work. A controller execution claims work, runs the triage agent on
it, and passes the agent's remediation through the dispatcher, the approval
channel and `reserve_action` to the service; later executions verify what was
submitted. A throttled remediation is postponed as a retry and drained by a later
invocation. Inventory passes decide which targets are admitted, and connectors
bring their events into the stream. Everything shared is in the database; each
store method is one transaction, or one stored procedure.

Parts without control of their own (record models, service clients, prompts,
views, browser applications, templates) are listed in `PROJECT.json` with the
reason they are left out.

## 2. Modules

| Module | Role | Run |
|---|---|---|
| `ClaimStore` | the claim table, statement by statement | with `MailboxSweep` |
| `MailboxSweep` | overlapping sweeps; extends `ClaimStore` | `shared_rows`, `mailbox_liveness` |
| `MonitoringStore` | the transactions around work, leases and actions | with `ActionFence` |
| `ActionFence` | controller executions against the service; extends `MonitoringStore` | `action_refresh`, `policy_change` |
| `TargetFence` | what the fence promises, abstractly | refined in `action_refresh`, `sql_kernel` |
| `ActionProgress` | `ActionFence` with finitely many faults | `action_liveness` |
| `SqlKernel` | the guarded SQL procedures; a second implementation of `TargetFence` | `sql_kernel` |
| `ApprovalChannel` | the approval row, the people and its deadline | with `TriageRun` |
| `TriageRun` | the agent's runs over it; extends `ApprovalChannel` | `triage`, `operations` |
| `SilentSweep` | the detector of failures without an alert | `triage`, `operations` |
| `CommandQueue` | operator commands, their workers and administrators | `operations` |
| `PartitionStream` | receivers of one partition, its journal and its frontier | `collection` |
| `CollectionWindow` | the polling windows of one target | `collection` |
| `SourceAdmission` | inventory passes, probes and policies over one workspace | `source_admission` |
| `ConnectorTopology` | the Eventstream of one connector | `policy_change` |
| `RetryQueue` | postponed retries, drains and controllers | `shared_rows`, `retry_deferral` |
| `RateBudget` | request budgets and backoffs | `shared_rows` |
| `IncidentCase` | incidents, closures and questions | `shared_rows` |
| `DeploymentReset` | registrations and resets beside services that write | `deployment` |
| `SqlBootstrap` | the bootstrap script, interrupted anywhere | `deployment` |

Composing modules put components side by side that share a kind of hazard, so
that one run checks them and one module proves about them: `SharedRows`
(`MailboxSweep` with `RetryQueue`, `RateBudget`, `IncidentCase`), `Deployment`
(`DeploymentReset` with `SqlBootstrap`), `Assessment` (`TriageRun` with
`SilentSweep`), `Collection` (`PartitionStream` with `CollectionWindow`) and
`PolicyChange` (`ActionFence` with `ConnectorTopology`). `MC*` modules give instances
for TLC.
Components that share no state in the code are checked in one run with a variable
`part` that says which of them moves in a behaviour; the others keep their initial
state, so nothing is lost and the product of their state spaces is avoided.

`*Proofs` modules hold theorems: `PolicyChangeProofs` (the action fence and the
connector), `TriageRunProofs`,
`CommandQueueProofs`, `PartitionStreamProofs` (with `CollectionWindow`),
`SqlKernelProofs`, `DeploymentProofs`, `SharedRowsProofs` (with `MailboxSweep`),
`SourceAdmissionProofs`.

Definitions commented as *a slip* or *mutant* are single plausible mistakes. They
are not used by any specification; replacing the definition that follows by one
of them must break the property `PROJECT.json` pairs it with, which shows that
the property depends on that line of code.

## 3. Rows that several processes share (`SharedRows`)

### The mailbox sweep

`ClaimStore` keeps `rows` (the table) and `held` (the tokens in an object's
memory). A claim is an INSERT, and on a duplicate key a second statement that
steals an expired row; other instances run in between. A statement that raises
may have committed. Time is what is left of each lease, so that no clock value
grows. `MailboxSweep` has one action per step of `_drain_mailbox`: listing,
classifying each message against the processed log, the claim, `run_request`,
`mark_processed`, and the release of the `finally` clause. An instance may die at
any step. Left out: the Graph identity and scope checks that refuse a whole sweep,
the subject filter and page limit, and the retry drain before the loop.

Bounds: two invocations and two alerts are what a race for a key and an
independent key need; a lease of two ticks has a live, an expiring and an expired
state; one crash (two in the liveness run, with one alert and a lease of one
tick). Fairness of `mailbox_liveness`: sweeps are scheduled again and again and
continue once started (WF); the database clock advances (WF); and no fault is
permanent: a read, statement or triage that is tried again and again finally
succeeds (SF on the succeeding alternatives). Without the last assumption a
permanently failing database trivially prevents progress.

### Postponed retries

Rows are written by load and compare-and-swap; the `deferred_retry` work they are
linked to belongs to the monitoring store. Controllers execute due work and
project it into the row; operators and the controller drain rows that are due.
Production drains take no claims, so two of them meet in one row. Bounds: two
failures of one signature, two attempts, two drains. Due times are dropped.

### Request budgets

A request charges the buckets of its API and of its client in one transaction or
is refused with a time to come back. A throttled read defers the two buckets in
two transactions, and others ask in between. A commit whose answer is lost charges
without a request, so budgets overcount and never undercount. Windows are fixed,
not sliding: a burst at a window's end and one at the next one's start are both
granted, which is why the proved bound of a sliding interval is twice the limit.
Bounds: two clients of two routes, limits of one request, windows of two and three
ticks, four ticks of time, delays of one and three.

### Incidents and their journal

Two controllers and two operators read and write the row of a signature against
the payload they read; closures and questions go to an append-only journal.
Bounds: two records, two requests, one fault. The text of payloads is left out: a
revision is its payload, as in the code, where it is the payload's hash.

## 4. Work, leases and the action fence

### In the engine (`MonitoringStore`, `ActionFence`)

A source failure has *attempts*: its triage work and, for each confirmed
throttling, one deferred successor. An attempt reserves at most one action, since
the idempotency id is derived from the work; it has a source work and up to three
verification works, named after the action revision in their ids.

An execution claims one work (`Claim`) and then takes one action per store call
or request. The store's transactions (`ReserveAction`, `RecordActionSubmission`,
`RecordActionRejection`, `RecordActionOutcome`, `FinalizeWork`, ...) are guarded
by the code's own conditions: the lease is current (`OwnedWork`), the revision is
the one the caller has read, the target is free, admitted and has no newer
execution, and the budget has room. Between any two steps the lease may expire,
another execution may claim the work, policy may change, or the execution may
stop (`Abandon`). `Post` is the request: the service takes it or not, and its
answer arrives or not, independently. Pipeline submissions have no answer the code
reads as a definite rejection; Power BI submissions have two.

Abstractions, each on the safe side (more behaviours, or equal ones):

* the lease of a work and the controller lease of its target are taken, renewed
  and released together for the same time, so one variable holds both;
* a lease token is the pair of work and execution, since an execution claims once;
* a revision that a caller expects is the state it read;
* due times are dropped: what is runnable may run at once or much later;
* what triage decides, and the denials for review, freshness, fingerprint,
  approval and pending validation, are nondeterministic;
* the activation cutoff, historical evidence, the schedule-restoration rule for
  source heads and retries deferred without a rejection are not modelled.

`TargetFence` is the contract in ten lines of state change: a target is taken by
one change at a time, a change is requested at most once and a job only while it
is open, a verified job was requested, and what is closed stays closed.
`ActionFence` implements it (`ImplementsFence`) under the mapping *owner = fence*,
*fate = the action's state with reserved, submitted and uncertain merged to open*,
*sent = the attempts with a request*.

Bounds: two executions are needed for a takeover, and no property relates three.
Two failures of one target compete for its fence. One successor shows the budget
hand-over (`MaxAttempts = 1`; the code's limit is 3), and a budget of one makes it
binding (`action_refresh`). One policy change can fall between any two steps
(`policy_change`). The theorems depend on none of these.
`CHECK_DEADLOCK FALSE`: the system stops when every failure is handled.

Fairness of `ActionProgress`: a working execution stops or loses its lease only
finitely often (`MaxFaults`; the code renews leases while it works, and a system
in which every execution is always interrupted makes no progress). Executions take
their steps (WF); abandoned leases run out by the database clock (WF); the service
ends every run (WF); `drain_monitoring_work` is called again and again and takes
due work in order, so a work that is claimable again and again is claimed (SF: it
competes for its target's lease); and polling an ended run finally reads it (SF).

`SubmitInsideFence` does not cover configuration changes: a stalled configuration
request may leave after a takeover has found the setting in force and released
the target (`controller.py:835`). It repeats a setting that is already in force.

### In SQL (`SqlKernel`)

The deployed store repeats the engine in guarded procedures, with differences that
a reader of one would not expect in the other: a work lease and a target lease in
two rows that expire apart, verification work that exists only once a submission
is recorded, a claimed work promoted by the state of its action, and a `finalizing`
state under a live lease. Every procedure locks the control row, so it is one
step; its answer may be lost (`Reply`). Approvals, argument guards, the refusal of
a pending frontier and expired validations appear as `Abandon`; the compare on the
work's revision is implied by the token, since while a token is valid nobody else
changes the work; `reconcile_state` work belongs to the environment. Bounds: two
failed runs of one target, one retry each, two executions, one policy change. It
refines the same `TargetFence`.

## 5. The other components

### Triage runs and approvals (`TriageRun`, `ApprovalChannel`)

The language model is the environment: any tool, any order, any claimed outcome. A
run keeps its ledger (turns, calls, writes), the facts its tools have shown, what
it knows of its remediation, and its place. `ApprovalChannel` keeps the one row
that all runs of a work share for an action, its binding, the page in front of
each person, and every answer ever given. A proposal stands for the fingerprint of
a request, the model's justification included; those that redaction rewrites are a
constant set. The path of a gated remediation follows `dispatch`: preconditions,
open, bind, open again inside the gate, wait, preconditions and reference again,
then the reservation, which consumes the consent in its own transaction, and the
request. An exception that no handler catches ends the run as `agent_crashed`.

Abstractions: one work with one gated action, hence one row (the request id is
derived from both); web delivery; the deadline and the token budget may strike at
any of their checks; policy, review and freshness denials are nondeterministic; a
tool exception is that tool's failed answer; a throttled effect leaves a deferred
retry, kept as a fact. Live mode refuses `reset`, so rows are not deleted. The
fixture gates, Teams delivery, the exemption of deferred retries from the
known-incident precondition and the review checks of `approval_request` are not
modelled.

Bounds of `triage`: two runs and two proposals, one of which redaction rewrites,
are what a takeover with a new justification needs; two people can answer against
each other; two turns with two calls reach a second proposal after a first one was
refused. The ungated part allows two writes per run, so that the one reservation,
not the ledger, must hold. Fairness in `operations`: a run that can take a step
does (asyncio runs what is ready, and the provider answers or raises within its
timeout), and time passes (`RowExpires`). Nothing is assumed of the people or the
model.

### Silent failures (`SilentSweep`)

One action per statement of a sweep: the lease, the read of the probe's row, the
circuit breaker, the query, the write-back of the whole row, and the report after
the lease is gone. Row counts and schemas are levels. An operator may accept the
present state at any time, also amid a sweep, and a sweep may outlive its lease:
`overlapped` records that two writers were at work together, which is where the
code promises nothing. Bounds: two sweeps, two confirming readings, one fault.

### Operator commands (`CommandQueue`)

Workers pick the oldest queued command of a free target, claim the target
(`ClaimStore`'s statements), mark the command running, dispatch and record the
end. Stalls, crashes and lost answers are faults. A command whose end is unknown is
interrupted by another worker's sweep and blocks its target until an administrator
reconciles it. Bounds: two commands of one target, two workers, a budget of one
tick in a lease of two. Fairness: workers are called again and again (WF),
commands expire and time passes (WF).

### The stream (`PartitionStream`) and polling (`CollectionWindow`)

Receivers balance one partition through broker and store; a former owner still
holds prefetched positions. Acceptance, the journal and the checkpoint are one
transaction each; reconciliation decides what was accepted. Bounds: two receivers,
three positions of which two carry one event, one disturbance, and processes that end
at the first failure of a receiver and are started again. The
polling of one target goes page by page; the last page opens a window, published when
it is complete. Bounds: pages of one run, two retained runs, three ticks of which the
last two end a run each, one policy change, one fault. Fairness: the load balancer and receivers run, disturbances
end, a lease nobody holds expires, and handoffs are reconciled (WF each). Left
out: a reset of the broker's namespace.

### Admission (`SourceAdmission`) and connectors (`ConnectorTopology`)

Inventory passes of two pages overlap over one workspace; probes prove access;
policies are previewed and activated; passes are retired. Bounds: one item, three
passes, seven ticks, two policies, one fault: the third pass is needed for one that
starts earlier and ends later than another. The connector brings an Eventstream to
the wanted topology with one outstanding update, which may time out, be repeated or
be superseded. Bounds: two pipelines of which one is owned from the start, two
workers, one policy change, one fault, five revisions. Left out: the safety review
of a target, deletion of connectors, the bootstrap registrar.

### Deployment (`DeploymentReset`, `SqlBootstrap`)

An operator inventories, plans, gets an approval, executes and reads back a
registration or a reset, beside services that reserve, submit and finish meanwhile
and a second operator. Azure's queries behind a plan are one read. The bootstrap
script commits bundles and their receipts in two steps, and may stop between any
two; a person adjudicates what it left. Bounds: two operators; rival
baselines of an empty database, which no service writes to yet, or one registration
and two resets of a registered one, beside three writes of services; one change of
the deployment, one fault; three bundles, three runs.

## 6. What the runs show

| Run | Question | Distinct states |
|---|---|---|
| `shared_rows` | the four tables of section 3, one at a time | 1.2 million |
| `mailbox_liveness` | progress of the mailbox under two crashes | 3 thousand |
| `action_refresh` | two controllers, two refresh failures of one target and incident, a throttled retry | 1.5 million |
| `policy_change` | a change of policy overtakes a refresh, a rerun, a configuration, a connector | 1.3 million |
| `action_liveness` | progress of attempts under finitely many faults | 10 thousand |
| `triage` | gated runs, ungated runs, silent sweeps | 2.3 million |
| `collection` | a rebalanced partition; polling with purged runs and a policy change | 626 thousand |
| `operations` | commands, silent probes and triage runs come to their end | 311 thousand |
| `source_admission` | overlapping passes, probes and policy changes | 849 thousand |
| `deployment` | resets and bootstrap, interrupted anywhere | 1.5 million |
| `sql_kernel` | the SQL procedures under the same disturbances as the engine | 1.5 million |
| `retry_deferral` | a retry that the agent postpones (violated) | 6 thousand |

| Property | Meaning |
|---|---|
| `IInv`, `OverlapNeedsOverrun` | mailbox: marked alerts have recorded outcomes; two invocations are inside one alert only past the lease of one of them |
| `RetriesSafe`, `LateProjectionsHarmless` | an attempt sends one request, a row's work exists; a late projection takes nothing back |
| `GrantsBounded`, `PromisesKept` | every grant of a window is counted; nobody is served before an announced backoff or the time he was told |
| `CasesTruthful`, `RecurrenceReopens` | no occurrence lost or counted twice, closures are of seen evidence, one call per question; a new occurrence is never hidden by an earlier closure |
| `EveryAlertHandled` | every alert is finally handled |
| `IInv`, `SubmitInsideFence`, `EffectsWithinBudget`, `UnverifiedIsPolled`, `ImplementsFence` | engine: one request per reservation and inside the fence, effects within `max_write_actions` although a rejected attempt passes its slot on, an unverified effect has work that can run, the abstract fence is implemented |
| `CorrelatedIsVerified`, `AttemptIsClosed` | a run whose id is known is finally verified; every attempt is closed, or stays uncertain because its submission cannot be correlated |
| `UpdatesSafe`, `ManifestTruthful` | one update in flight that drops no wanted source; the manifest is true, ready is proven, a change is watched |
| `IInv`, `EffectsAuthorized`, `ConsentSpentInTime` | gated runs: what is sent was approved by somebody who saw exactly that, declined by nobody, in time and once |
| `LedgerSafe` | ungated runs: one remediation, outcomes that are earned |
| `FindingsEarned`, `CollapseNotLearned` | findings are confirmed, announced and learned from as the detector says |
| `StreamSafe`, `CoverageTruthful`, `PollingContinues`, `EverythingDecided` | only the owner writes; nothing is lost behind checkpoint or watermark; polling goes on; everything handed over is decided |
| `CommandsSafe`, `JobsEnd` | one execution of a target at a time, one dispatch, true outcomes; every command, parked probe and triage run comes to its end |
| `AdmissionSafe`, `PassesHarmless`, `NewsReachesTargets` | no item is deleted that was seen; retirement and refresh change no verdict; evidence, access and policy reach the targets |
| `AnswersTrue`, `NoEffectForgotten`, `OnlyWhatWasApproved`, `BootstrapSafe` | receipts and answers are true; a reset deletes what was approved and never an outstanding effect |
| `WorkSafe`, `EffectsTruthful` | SQL: lease rows agree, an open effect keeps its work, one change per incident, failures counted once |

Bounds are given with the components. Symmetry is used for processes, people and
rows that the specification treats alike, and never in a run with a liveness
property.

**The violation.** *"A later sweep picks it up when the window has passed"*
(`triage/store/retries.py:9`). The agent's `defer_retry` (`registry.py:1194`)
writes a row without monitoring work. In the deployed store a row without work is
never due (`sql_kernel_retries.py:198`, `runner.py:645`): `retry_deferral` shows
that it is never picked up, and that triage of a recurrence only uses up its
attempts. Fair drains and the absence of crashes are assumed, so nothing else
explains it.

### Observations

Met while modelling; no run checks them, and the models contain the behaviour.

* Mailbox: *"The message is marked processed on success, so releasing cannot cause
  a re-run"* (`src/app.py:385`). The processed log is read at the fetch and not
  again under the claim; an invocation that fetched earlier takes the released key
  and triages the alert again.
* Engine: *"Queued work lost current admission; no effect was submitted."*
  (`engine.py:3647`). Source work whose action is already verified, and whose
  execution stopped before finalizing, is dispositioned with this text after a
  policy change. The SQL kernel looks for a reservation first, and keeps the
  promise (`NoEffectIsTrue`).
* Approvals: *"agent proposed a bounded fix; a human said no"*
  (`triage/models.py:24`). A person may approve between the two opens of one
  request (`tools/registry.py:690`, `approvals.py:478`); the second open fails, and
  the run reports `approval_denied`. The first open and the binding are outside any
  handler: proposing an answered action again, or a justification that redaction
  rewrites, ends the run as crashed.
* `finalize_work` (`engine.py:5355`) schedules a verification for every action
  that is not verified, rejected ones included, although
  `record_action_rejection` has just ended the polling of it (`engine.py:5201`).
* A denial with `lease_lost` is the receipt of a work's only reservation request
  (`engine.py:4898`): the execution that takes over gets the same denial.
* SQL kernel: a failure whose source work stopped after its reservation is
  finalized as `verify_action`, which counts no occurrence
  (`sql_kernel_history.py:25`); renewing with an old receipt returns the original
  lease even after it was lost.
* Polling: coverage can pass runs accepted under a policy that was replaced while
  the window was open, and a rejected window can have a published last page.
  `memory.request_reconciliation` looks for `window_rejection` where the engine
  writes `window_resolution`; in the memory adapter a stale last page leaves its
  window pending.
* Admission: every policy change supersedes queued periodic inventory work
  (`polling.py:1160`), and nothing queues it again; a capability handoff rejected
  by a policy change is not probed again; an incomplete pass leaves membership that
  an older pass verified; a slow pass that started earlier stamps its workspace
  after a newer complete one; an item of unknown state makes `_enqueue` raise and
  blocks the publication.
* Connectors: an item that is wanted again while its removal is pending never
  succeeds (`provisioning.py:1064`); a policy change between the saved intent and
  the request leaves the SQL connector waiting; a lapse of capability leaves a
  blocked connector without work.
* Silent sweep: parked findings fall through to `_record_silent_finding`
  (`silent_failures.py:502`); `health --accept` keeps `last_row_count`
  (`cli.py:1197`), although it prints that *"the next reading becomes the
  baseline"*: a lower row count is judged a collapse again; the report follows the release of the lease, so
  two sweeps can announce one finding; a signature includes figures, so a standing
  finding announces itself again.
* Retries: `complete` keeps `attempts`, and a done row with more attempts hides a
  new linked retry of another failure of its signature; `complete` after a newer
  projection closes the newer row; a drain that claims deferred work without a due
  row raises and keeps the lease.
* Incidents: `flagged_data_quality` on an open `sig:` row suppresses; an open
  `usig:` row is not closed by a later resolution of its `sig:` row.
* Reset: the hazard list (`reset_monitoring_state.py:1146`) refuses work in
  terminal states as well. Bootstrap: only the very first operation can be
  recovered.

## 7. What is proved

All theorems hold for arbitrary constants that satisfy the ASSUMEs of the modules:
any number of processes, failures, targets, rows, requests, proposals and people,
any lease, limit and budget. Each component has one inductive invariant, named in
the module of the component under *why they hold*, checked by TLC before it was
proved, with one lemma per action; its safety properties follow from it.

| Module | Theorems | Property |
|---|---|---|
| `PolicyChangeProofs` | `FenceInvariant`, `FenceIsExact`, `SubmissionIsUnique`, `SubmissionIsFenced`, `NoEffectForgotten`, `RecordsAreReal`, `TerminalStates`, `FenceRefinement`, `BudgetIsKept`, `TopologyInvariant`, `UpdatesAreSafe`, `ManifestIsTruthful` | `IInv`, `SubmitInsideFence`, `UnverifiedIsPolled`, `ImplementsFence`, `EffectsWithinBudget`, `UpdatesSafe`, `ManifestTruthful` |
| `TriageRunProofs` | `Invariance`, `Authorization`, `FreeRefusals`, `SingleEffect`, `EarnedOutcomes`, `FinalAnswers`, `TimelyConsent`, `SweepsInvariant`, `FindingsAreEarned`, `CollapsesAreNotLearned` | `IInv`, `EffectsAuthorized`, `ConsentSpentInTime`, `FindingsEarned`, `CollapseNotLearned` |
| `CommandQueueProofs` | `QueueInvariant`, `CommandsAreSafe` | `CommandsSafe` |
| `PartitionStreamProofs` | `StreamIsSafe`, `BoundariesNeverShrink`, `WindowsInvariant`, `CoverageIsTruthful`, `PollingNeverStops` | `StreamSafe`, `CoverageTruthful`, `PollingContinues` |
| `SqlKernelProofs` | `KernelInvariant`, `WorkIsSafe`, `EffectsAreTruthful`, `SqlFenceRefinement` | `WorkSafe`, `EffectsTruthful`, `ImplementsFence` |
| `DeploymentProofs` | `ResetInvariant`, `AnswersAreTrue`, `NoEffectIsForgotten`, `OnlyTheApprovedIsDeleted`, `BootstrapIsSafe` | the four of `deployment` |
| `SourceAdmissionProofs` | `AdmissionInvariant`, `AdmissionIsSafe`, `PassesAreHarmless` | `AdmissionSafe`, `PassesHarmless` |
| `SharedRowsProofs` | `SweepInvariant`, `SweepExclusion`, `NoAlertLost`, `RetryInvariant`, `RetriesAreSafe`, `LateProjectionsAreHarmless`, `BudgetInvariant`, `GrantsAreBounded`, `PromisesAreKept`, `IncidentInvariant`, `CasesAreTruthful`, `RecurrencesReopen` | `IInv`, `OverlapNeedsOverrun`, the six of `shared_rows` that are not the mailbox's |

The arguments:

* **Mailbox.** While an invocation's lease lasts, the row of its alert is its own
  with the same time left (`LeaseIsRow`); one row cannot belong to two. It needs
  the time in it, because a steal is allowed by the row's time, not by the
  invocation's.
* **Action fence.** The safety properties are not inductive alone, because an
  execution that has lost its lease goes on. What it may still rely on is added:
  the request of its reservation is unsent, or was sent by it alone (`Working`,
  `OneSubmitter`); nothing happens before a reservation (`NothingBefore`); and
  verification works never become triage work (`VerificationKind`). For the budget,
  the attempts of a source form a chain in which all but the last are rejected and
  unsent (`RejectedBefore`, `RejectedUnsent`), so the effects of an incident are no more than
  the writes counted for it (`WritesCounted`).
* **SQL kernel.** A live work lease is named by the target's row (`LeasesNamed`),
  which is why the two rows agree; an action that is not verified has work in a
  state that will come back to it (`WorkBacked`); sessions know only what is true of
  their attempt (`SessionsExact`, `NothingLater`); the attempts of an incident form
  one chain in which only the last can have had an effect (`OneChain`).
* **Triage.** The invariant ties the row to every answer ever given (`RowExact`),
  the posting run to the reservation and the row (`PostingExact`), the effects to
  the reservation (`EffectExact`), and what a run knows to what is true
  (`KnowledgeExact`). `LedgerSafe` is these theorems' conclusion (`Invariance`,
  `SingleEffect`, `EarnedOutcomes`) for the ungated instance of the run.
* **Silent sweeps.** A scanning sweep's lease is its own (`LeaseHeld`); what a sweep
  that is alone will write follows from the row as it is (`Current`), because nobody
  else may write meanwhile; the suspicions of a row are backed by as many readings
  in a row (`Counted`); what was called announced was delivered (`Delivered`). It
  assumes one sweep per process, as `app.py`'s lock and `cli.py` have it, so that
  the owner on the lease tells sweeps apart.
* **Commands.** A claim that has not run out is a row of the worker's own
  (`ClaimLive`, `RowOwned`), and nobody who can still dispatch is past the check of
  a target that is being executed (`Undisturbed`). Budgets smaller than leases are
  what makes it true: an execution ends before its claim does, or it stalls and
  does not dispatch.
* **Stream.** Fences grow with every change of hands, so a receiver's token is
  current or old for good (`OneToken`); what a receiver has in hand continues the
  journal (`ReceiversSound`); handoffs are the journal's (`HandoffsOfJournal`).
* **Polling windows.** `CoverageTruthful` speaks of a window only when it is
  published; the invariant follows its runs until then. A run of the window being
  read is still in the continuation, in the collector's page, staged, or was dropped
  by the source before the listing (`Kept`), and if the closing page is complete and
  current, all of them are staged (`WindowsKept`). That needs the owner of a poll to
  work on the progress as it is (`SessionSound`), hence one live poll per policy, the
  latest (`PollSound`), and no poll that is due inside a window already read
  (`WindowPassed`). `PollingContinues` follows from `Continues`: the latest poll is live, or its
  closing page is undecided and will schedule the next.
* **Admission.** A page that was read whole misses an item only if the source was
  without it at the time, which is after the pass began (`PageSound`); a record is
  as new as the latest sighting of its item (`ItemSound`). A pass therefore deletes
  nothing that was seen after it began, also when another pass started later and
  recorded first. For retirement: passes are totally ordered, so the one a pass
  still collecting defers to is unique, and the last condition of
  `_inventory_pass_superseded` says that it is never the retired one.
* **Connector.** An update needs a *licence*: a worker whose recheck will still find
  its own intent, a request that is being sent, or one that is in flight. There is one
  licence at a time, it is for the saved marker, and the Eventstream does not match
  the marker while it lasts (`OneLicence`, `LicenceMarked`). That is what makes a read
  after an uncertain request conclusive: a worker that finds the marker applied, with
  the manifest's revision unchanged, knows that nothing is outstanding
  (`InspectionHolds`). The marker names every owned source whose removal is not asked
  for (`MarkerOwned`), so what is late does no harm. An inspected baseline is the
  Eventstream's (`BaseTrue`) and exists only while there is neither a marker nor a
  blockage (`BaseClear`). Two reports never share a revision, and a report's
  re-observation is not queued before it is rejected (`ReportsFresh`); hence whatever
  ends the last open work of a change leaves a report that will be decided or other
  work (`ChangeOpen`). What is said of
  the Eventstream holds until somebody else edits it (`drifted`); that a change is
  watched holds then as well.
* **Reset.** What an operator has locked stands still (`LockHeld`,
  `ApprovedStill`), and what he saw to be over under the lock stays over
  (`ErasedIsDone`). The proof found a defect of the model that the run's bound had
  hidden: a new action inherited the ended job of the one before, which let a reset
  forget a running effect from the sixth write on.
* **Bootstrap.** A receipt is written in the transaction that applies the bundle,
  and a recovery record turns an open receipt's fate into a decided one.
* **Retries.** Rows and drains' copies describe the work they stand for
  (`RowsDescribe`), attempts of a source are chained (`Chained`), and whoever
  executes has the lease (`Executors`).
* **Budgets.** Grants lie in the open window or in earlier ones that were full at
  most (`WindowsFollow`); a backoff reaches the client's bucket before the API's
  (`Deferring`); a time that was told is backed by a bucket that stays closed until
  then (`ToldBacked`).
* **Incidents.** A row that was loaded was in the table and a write replaces it by
  one occurrence more (`Loaded`); a closure's version counts the closures before it
  (`Submitted`); a key that may be asked is one session's own (`Reserved`).

**Only model-checked.** The liveness properties (`EveryAlertHandled`,
`CorrelatedIsVerified`, `AttemptIsClosed`, `JobsEnd`, `EverythingDecided`, the
violation): fairness and ENABLED are outside the proof system's reach. `LedgerSafe` as
the run states it: an instance of a module brings no theorems with it in this
prover, so its three parts are proved where they are defined.

## 8. Not modelled

See `PROJECT.json`. In particular: the matching of definitions and the text of
signatures, fingerprints and contracts; HTTP, DAX and Azure clients; the tasks that
supervise collectors and receivers; pipeline sweeps and replays that only the
fixture mode reaches; views and browser applications.

## 9. Plan

1. The classification of `triage/knowledge/` and the matching of definitions as
   operators, checked against a reference definition.
2. The refinement of an abstract consent specification by `TriageRun`.
