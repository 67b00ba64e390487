-------------------------- MODULE MonitoringStore --------------------------
(***************************************************************************)
(* The part of the monitoring engine that decides who may change a target: *)
(* work items and their leases, the fence a reservation puts around a      *)
(* target, the incident's write budget, the verification work that follows *)
(* an effect, and the disposition of each source failure                   *)
(* (src/triage/monitoring/engine.py with its adapter memory.py).           *)
(*                                                                         *)
(* Every operator below that changes state is one transaction of the       *)
(* store, a method under @atomic(write=True): it commits as a whole, or    *)
(* raises and changes nothing (the caller then gives up its execution).    *)
(*                                                                         *)
(* Abstractions.  A work lease and the controller lease of its target are  *)
(* taken, renewed and released together and for the same time, so one      *)
(* variable holds both and an expiry ends both.  A lease token, owner and  *)
(* fence, is the pair of the work and the execution that claimed it: an    *)
(* execution claims once, so an expired token never becomes valid again.   *)
(* A revision that a caller expects is the state the caller has read.  Due *)
(* times are not kept: whatever is runnable may run at once or much later. *)
(***************************************************************************)
EXTENDS Integers, FiniteSets

CONSTANTS
  Sources,          \* failed source executions, numbered in start order
  Targets,          \* the monitored items
  TargetOf,         \* source -> its target
  Incidents,
  IncidentOf,       \* source -> the incident its signature belongs to
  ActionOf,         \* target -> the action its safety review allows
  Controllers,      \* executions of the controller
  MaxAttempts,      \* retries.MAX_ATTEMPTS
  MaxWriteActions,  \* the controller policy's max_write_actions
  MaxChanges,       \* bound: policy, admission and maintenance changes
  None              \* no controller, no work, no action

Actions == {"powerbi_refresh", "pipeline_rerun", "configuration"}

ASSUME SourcesAssumption == Sources \subseteq Nat
ASSUME TargetsAssumption ==
  /\ TargetOf \in [Sources -> Targets]
  /\ IncidentOf \in [Sources -> Incidents]
  /\ ActionOf \in [Targets -> Actions]
ASSUME BoundsAssumption ==
  /\ MaxAttempts \in Nat
  /\ MaxWriteActions \in Nat
  /\ MaxChanges \in Nat

(***************************************************************************)
(* A source failure has one triage work and, for each confirmed throttling *)
(* rejection, one deferred successor: its attempts.  An attempt reserves   *)
(* at most one action (the idempotency id is derived from the work), so    *)
(* the attempt also names the reservation.  Work <<a, 0>> is the source    *)
(* work of attempt a, <<a, r>> the verification work whose id was formed   *)
(* at revision r of its action: 1 when it is reserved, 2 once it has been  *)
(* rejected, 3 when its successor has reserved.                            *)
(***************************************************************************)
Attempts == Sources \X (0 .. MaxAttempts)
Works == Attempts \X (0 .. 3)

Source(a) == a[1]
Target(a) == TargetOf[a[1]]
Incident(a) == IncidentOf[a[1]]
Predecessor(a) == <<a[1], a[2] - 1>>
Successor(a) == <<a[1], a[2] + 1>>
Attempt(w) == w[1]
IsSource(w) == w[2] = 0
SourceWork(a) == <<a, 0>>
Verifications(a) == {<<a, r>> : r \in 1 .. 3}

ASSUME NoneAssumption == None \notin (Works \X Controllers) \cup Works \cup Attempts

VARIABLES
  control,      \* [revision, maintenance, changes]
  admitted,     \* the targets _target() resolves
  head,         \* target -> start of the newest execution recorded for it
  disposed,     \* source -> its terminal disposition
  work,         \* work -> [state, kind, revision]
  lease,        \* target -> the live token on it: <<work, controller>>
  action,       \* attempt -> [state, known, throttled]
  fence,        \* target -> the attempt whose action_owner is active
  writes,       \* incident -> action_count
  denied        \* attempts whose reservation receipt is a denial

storeVars == <<control, admitted, head, disposed, work, lease,
               action, fence, writes, denied>>

WorkStates == {"absent", "queued", "leased", "completed", "dispositioned"}
Finished == {"completed", "dispositioned"}
Kinds == {"triage", "deferred_retry", "verify_action", "finalize"}
Active == {"reserved", "submitted", "uncertain"}
Verified == {"verified_succeeded", "verified_failed"}
ActionStates == Active \cup Verified \cup {"none", "rejected"}

\* A source starts at an even time, a submitted run between two sources.
StartOf(s) == 2 * s

StoreTypeOK ==
  /\ control \in [revision: Nat, maintenance: BOOLEAN, changes: 0 .. MaxChanges]
  /\ admitted \subseteq Targets
  /\ head \in [Targets -> Int]
  /\ disposed \in [Sources -> {"none", "triaged", "out_of_scope"}]
  /\ work \in [Works -> [state: WorkStates, kind: Kinds, revision: Nat]]
  /\ lease \in [Targets -> (Works \X Controllers) \cup {None}]
  /\ action \in [Attempts -> [state: ActionStates, known: BOOLEAN, throttled: BOOLEAN]]
  /\ fence \in [Targets -> Attempts \cup {None}]
  /\ writes \in [Incidents -> Nat]
  /\ denied \subseteq Attempts

KindOf(w) ==
  IF ~IsSource(w) THEN "verify_action"
  ELSE IF Attempt(w)[2] = 0 THEN "triage" ELSE "deferred_retry"

StoreInit ==
  /\ control = [revision |-> 1, maintenance |-> FALSE, changes |-> 0]
  /\ admitted = Targets
  /\ head = [t \in Targets |-> -1]
  /\ disposed = [s \in Sources |-> "none"]
  /\ work = [w \in Works |-> [state |-> "absent", kind |-> KindOf(w), revision |-> 0]]
  /\ lease = [t \in Targets |-> None]
  /\ action = [a \in Attempts |-> [state |-> "none", known |-> FALSE, throttled |-> FALSE]]
  /\ fence = [t \in Targets |-> None]
  /\ writes = [i \in Incidents |-> 0]
  /\ denied = {}

-----------------------------------------------------------------------------
(* Control, admission and source evidence. *)

\* A policy is published, a capability or review lapses or comes back, or
\* maintenance starts or ends.
ChangePolicy ==
  /\ control.changes < MaxChanges
  /\ \E bump \in {0, 1}, m \in BOOLEAN, A \in SUBSET Targets :
       /\ control' = [revision |-> control.revision + bump, maintenance |-> m,
                      changes |-> control.changes + 1]
       /\ admitted' = IF m THEN {} ELSE A
  /\ UNCHANGED <<head, disposed, work, lease, action, fence, writes, denied>>

Queued(w) == [state |-> "queued", kind |-> KindOf(w), revision |-> control.revision]

\* source_disposition: the first disposition of a source is kept.
Dispose(s, d) ==
  disposed' = [disposed EXCEPT ![s] = IF @ = "none" THEN d ELSE @]

NewHead(t, start) == head' = [head EXCEPT ![t] = IF start >= @ THEN start ELSE @]

\* _ingest of an authoritative failure, in whatever order failures are seen.
IngestFailure(s) ==
  LET w == SourceWork(<<s, 0>>)  t == TargetOf[s] IN
  /\ ~control.maintenance
  /\ disposed[s] = "none"
  /\ work[w].state = "absent"
  /\ \/ /\ t \in admitted
        /\ work' = [work EXCEPT ![w] = Queued(w)]
        /\ NewHead(t, StartOf(s))
        /\ UNCHANGED disposed
     \/ /\ t \notin admitted
        /\ Dispose(s, "out_of_scope")
        /\ UNCHANGED <<work, head>>
  /\ UNCHANGED <<control, admitted, lease, action, fence, writes, denied>>

-----------------------------------------------------------------------------
(* Leases. *)

\* _owned_work: the caller's claim is the last one and has not expired.
OwnedWork(c, w) ==
  /\ work[w].state = "leased"
  /\ lease[Target(Attempt(w))] = <<w, c>>

\* The kind a claimed work runs as: _work_reservation finds the active
\* action of the attempt through its own work only.
ClaimedKind(w) ==
  LET s == action[Attempt(w)].state IN
  CASE IsSource(w) /\ s \in Active -> "verify_action"
    [] s = "rejected" -> "finalize"
    [] OTHER -> work[w].kind

Followup(w) == ClaimedKind(w) \in {"verify_action", "finalize"}

\* A successor waits for the work that was rejected to be completed.
LineageReady(w) ==
  (IsSource(w) /\ Attempt(w)[2] > 0)
    => work[SourceWork(Predecessor(Attempt(w)))].state = "completed"

Claimable(w) ==
  /\ work[w].state \in {"queued", "leased"}
  /\ \A c \in Controllers : lease[Target(Attempt(w))] # <<w, c>>
  /\ LineageReady(w)
  /\ Followup(w) \/ ~control.maintenance

LostAdmission(w) ==
  /\ ~Followup(w)
  /\ \/ work[w].revision # control.revision
     \/ Target(Attempt(w)) \notin admitted

\* claim_work hands the work to an execution.
ClaimWork(c, w) ==
  LET t == Target(Attempt(w)) IN
  /\ Claimable(w)
  /\ ~LostAdmission(w)
  /\ lease[t] = None
  /\ work' = [work EXCEPT ![w] = [state |-> "leased", kind |-> ClaimedKind(w),
                                   revision |-> @.revision]]
  /\ lease' = [lease EXCEPT ![t] = <<w, c>>]
  /\ UNCHANGED <<control, admitted, head, disposed, action, fence, writes, denied>>

\* claim_work dispositions it instead: "Queued work lost current admission;
\* no effect was submitted."
DisposeUnclaimed(w) ==
  /\ Claimable(w)
  /\ LostAdmission(w)
  /\ Dispose(Source(Attempt(w)), "out_of_scope")
  /\ work' = [work EXCEPT ![w].state = "dispositioned"]
  /\ UNCHANGED <<control, admitted, head, lease, action, fence, writes, denied>>

\* The lease of the work on this target runs out.
ExpireLease(t) ==
  /\ lease[t] # None
  /\ lease' = [lease EXCEPT ![t] = None]
  /\ UNCHANGED <<control, admitted, head, disposed, work, action,
                 fence, writes, denied>>

\* disposition_work(retry): the work waits again.
RetryLater(c, w) ==
  /\ OwnedWork(c, w)
  /\ ~(IsSource(w) /\ action[Attempt(w)].state \in Active)
  /\ work' = [work EXCEPT ![w].state = "queued"]
  /\ lease' = [lease EXCEPT ![Target(Attempt(w))] = None]
  /\ UNCHANGED <<control, admitted, head, disposed, action, fence, writes, denied>>

-----------------------------------------------------------------------------
(* Verification work. *)

ActionRevision(a) ==
  IF action[a].state # "rejected" THEN 1
  ELSE IF a[2] < MaxAttempts /\ action[Successor(a)].state # "none" THEN 3 ELSE 2

\* A slip: the verification is left to the execution that submitted.
Unscheduled(works, a) == works

\* _schedule_verification: the verification that is not finished yet serves;
\* otherwise a new one is queued, unless its id has been used.
Scheduled(works, a) ==
  LET v == <<a, ActionRevision(a)>> IN
  IF \/ works[v].state # "absent"
     \/ \E u \in Verifications(a) : works[u].state \in {"queued", "leased"}
  THEN works
  ELSE [works EXCEPT ![v] = Queued(v)]

\* "Work identity was reused for another operation".
ScheduleConflict(works, a) ==
  LET v == <<a, ActionRevision(a)>> IN
  works[v].state # "absent" /\ works[v].kind # "verify_action"

\* Verifications nobody has started are dispositioned.
PollsEnded(works, a) ==
  [w \in Works |->
     IF w \in Verifications(a) /\ works[w].state = "queued"
     THEN [works[w] EXCEPT !.state = "dispositioned"] ELSE works[w]]

-----------------------------------------------------------------------------
(* The action fence. *)

\* No "reserved/submitted/uncertain mutation owns this target".
TargetFree(t) == fence[t] = None

\* A slip: the comparison meant for a successor is used for both.
BudgetUpTo(a) == MaxWriteActions >= 1 /\ writes[Incident(a)] <= MaxWriteActions

BudgetAllows(a) ==
  LET used == writes[Incident(a)] IN
  /\ MaxWriteActions >= 1
  /\ IF a[2] = 0 THEN used < MaxWriteActions ELSE used <= MaxWriteActions

\* A successor attempt needs its predecessor rejected for throttling.
SuccessorOfRejection(a) ==
  a[2] > 0 => LET p == Predecessor(a) IN
    /\ action[p].state = "rejected"
    /\ action[p].throttled
    /\ work[SourceWork(p)].state = "completed"

\* reserve_action, granted.
ReserveAction(c, w) ==
  LET a == Attempt(w)  t == Target(a) IN
  /\ OwnedWork(c, w)
  /\ IsSource(w)
  /\ work[w].kind \in {"triage", "deferred_retry"}
  /\ action[a].state = "none"
  /\ a \notin denied
  /\ ~control.maintenance
  /\ work[w].revision = control.revision
  /\ t \in admitted
  /\ head[t] <= StartOf(Source(a))
  /\ TargetFree(t)
  /\ SuccessorOfRejection(a)
  /\ BudgetAllows(a)
  /\ action' = [action EXCEPT ![a].state = "reserved"]
  /\ fence' = [fence EXCEPT ![t] = a]
  /\ writes' = IF a[2] = 0 THEN [writes EXCEPT ![Incident(a)] = @ + 1] ELSE writes
  /\ work' = Scheduled(work, a)
  /\ UNCHANGED <<control, admitted, head, disposed, lease, denied>>

\* reserve_action, denied: by one of the conditions above, or by a review,
\* fingerprint, freshness, approval or pending-validation check.  The denial
\* is the receipt of this work's one request.
DenyAction(w) ==
  /\ action[Attempt(w)].state = "none"
  /\ denied' = denied \cup {Attempt(w)}
  /\ UNCHANGED <<control, admitted, head, disposed, work, lease,
                 action, fence, writes>>

\* record_action_submission, under the revision the caller has read.
RecordActionSubmission(c, w, expected, state, known) ==
  LET a == Attempt(w) IN
  /\ OwnedWork(c, w)
  /\ action[a].state = expected
  /\ expected \in Active
  /\ action' = [action EXCEPT ![a] = [state |-> state, known |-> @.known \/ known,
                                      throttled |-> @.throttled]]
  /\ work' = Scheduled(work, a)
  /\ UNCHANGED <<control, admitted, head, disposed, lease, fence, writes, denied>>

\* _rejection_successor: a throttled refresh that is still admitted under
\* the policy it was reserved under gets one more attempt.
GrantsSuccessor(a, throttled) ==
  /\ throttled
  /\ ActionOf[Target(a)] = "powerbi_refresh"
  /\ a[2] < MaxAttempts
  /\ ~control.maintenance
  /\ control.revision = work[SourceWork(a)].revision
  /\ Target(a) \in admitted

\* record_action_rejection: only the execution that reserved it, under the
\* lease it reserved it with.
RecordActionRejection(c, w, throttled) ==
  LET a == Attempt(w)  t == Target(a)  next == SourceWork(Successor(a)) IN
  /\ OwnedWork(c, w)
  /\ IsSource(w)
  /\ work[w].kind \in {"triage", "deferred_retry"}
  /\ action[a].state = "reserved"
  /\ fence[t] = a
  /\ action' = [action EXCEPT ![a] = [state |-> "rejected", known |-> @.known,
                                      throttled |-> throttled]]
  /\ fence' = [fence EXCEPT ![t] = None]
  /\ work' = IF GrantsSuccessor(a, throttled)
             THEN [PollsEnded(work, a) EXCEPT ![next] = Queued(next)]
             ELSE PollsEnded(work, a)
  /\ UNCHANGED <<control, admitted, head, disposed, lease, writes, denied>>

\* record_action_outcome.  A verified run is also source evidence: it started
\* after its own source, and possibly after others.
RecordActionOutcome(c, w, expected, state) ==
  LET a == Attempt(w)  t == Target(a) IN
  /\ OwnedWork(c, w)
  /\ action[a].state = expected
  /\ expected \in Active
  /\ action' = [action EXCEPT ![a].state = state]
  /\ \/ /\ state \in Verified
        /\ fence[t] = a
        /\ fence' = [fence EXCEPT ![t] = None]
        /\ IF ActionOf[t] = "configuration" THEN UNCHANGED head
           ELSE \E s \in Sources : s >= Source(a) /\ NewHead(t, StartOf(s) + 1)
        /\ UNCHANGED work
     \/ /\ state = "uncertain"
        /\ work' = Scheduled(work, a)
        /\ UNCHANGED <<fence, head>>
  /\ UNCHANGED <<control, admitted, disposed, lease, writes, denied>>

\* A slip: whatever its action's state, finalized work is polled no more.
FinalizationEndsPolls(w) ==
  PollsEnded([work EXCEPT ![w].state = "completed"], Attempt(w))

\* The works after finalize_work: this one is completed, and its action, if
\* it has one, is polled no more or scheduled for verification.
AfterFinalization(w) ==
  LET a == Attempt(w)
      done == [work EXCEPT ![w].state = "completed"]
  IN CASE action[a].state = "none" -> done
       [] action[a].state \in Verified -> PollsEnded(done, a)
       [] OTHER -> Scheduled(done, a)

FinalizationConflicts(w) ==
  LET a == Attempt(w) IN
  /\ action[a].state \notin Verified \cup {"none"}
  /\ ScheduleConflict(work, a)

\* finalize_work.
FinalizeWork(c, w) ==
  /\ OwnedWork(c, w)
  /\ ~FinalizationConflicts(w)
  /\ Dispose(Source(Attempt(w)), "triaged")
  /\ work' = AfterFinalization(w)
  /\ lease' = [lease EXCEPT ![Target(Attempt(w))] = None]
  /\ UNCHANGED <<control, admitted, head, action, fence, writes, denied>>
=============================================================================
