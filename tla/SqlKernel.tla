----------------------------- MODULE SqlKernel -----------------------------
(***************************************************************************)
(* The controller's store in Azure SQL: the guarded procedures of          *)
(* src/triage/monitoring/sql_kernel_work.py, sql_kernel_actions.py,        *)
(* sql_kernel_retries.py, sql_kernel_history.py and sql_kernel_sources.py, *)
(* called through src/triage/monitoring/sql_store.py.                      *)
(*                                                                         *)
(* Unlike the in-memory engine (MonitoringStore) it keeps the lease of a   *)
(* work and the lease of its target in two rows, verifies through work     *)
(* that exists only once a submission is recorded, promotes a claimed work *)
(* by the state of its action, and leaves a work that is finalized too     *)
(* early in the state "finalizing" under a live lease.                     *)
(*                                                                         *)
(* One target and one incident; its failed runs are numbered in start      *)
(* order.  Every procedure locks the control row, so it is one step; the   *)
(* caller learns that it committed, or loses the connection and gives up   *)
(* (Reply).  A lease token, owner and fence, is the execution that claimed:*)
(* an execution claims once, so a lost token never becomes valid again,    *)
(* and while it is valid nobody else changes the work's revision.          *)
(***************************************************************************)
EXTENDS Integers, FiniteSets

CONSTANTS
  Sources,        \* failed runs of the target, numbered in start order
  MaxRetry,       \* retries.MAX_ATTEMPTS
  Controllers,    \* executions of the controller
  MaxChanges,     \* bound: changes of the monitoring policy
  None

ASSUME KernelAssumption ==
  /\ Sources \subseteq Nat \ {0}
  /\ MaxRetry \in Nat
  /\ MaxChanges \in Nat

Attempts == Sources \X (0 .. MaxRetry)
Works == Attempts \X {"source", "verify"}

Source(w) == w[1][1]
Attempt(w) == w[1]
SourceWork(a) == <<a, "source">>
VerifyWork(a) == <<a, "verify">>
Predecessor(a) == <<a[1], a[2] - 1>>
Successor(a) == <<a[1], a[2] + 1>>

\* None stands for no execution, no work and no attempt.
ASSUME NoneAssumption == None \notin Controllers \cup Works \cup Attempts

VARIABLES
  control,    \* monitoring_control: [revision, maintenance, admitted]
  work,       \* work rows: [status, kind, policy, action]
  lease,      \* work -> the execution whose work lease is live
  target,     \* the work whose lease on the target is live
  action,     \* action rows: [state, known, throttled, retried]
  owner,      \* the active action_owner of the target
  incident,   \* [used, latest, occurrences, marked]
  disposed,   \* source -> its source_disposition
  session,    \* execution -> [pc, work, own]
  posts,      \* attempt -> requests sent to the service
  remote      \* attempt -> what the service did with them

rows == <<work, lease, target, action, owner, incident, disposed>>
vars == <<control, rows, session, posts, remote>>

Runnable == {"queued", "waiting", "leased", "finalizing"}
Ended == {"completed", "dispositioned"}
Active == {"reserved", "submitted", "uncertain"}
Verified == {"verified_succeeded", "verified_failed"}

Absent == [status |-> "absent", kind |-> "triage", policy |-> 0, action |-> FALSE]
Idle == [pc |-> "idle", work |-> None, own |-> FALSE]

TypeOK ==
  /\ control \in [revision: 0 .. MaxChanges, maintenance: BOOLEAN, admitted: BOOLEAN]
  /\ work \in [Works -> [status: {"absent"} \cup Runnable \cup Ended,
                         kind: {"triage", "deferred_retry", "verify_action", "finalize"},
                         policy: 0 .. MaxChanges, action: BOOLEAN]]
  /\ lease \in [Works -> Controllers \cup {None}]
  /\ target \in Works \cup {None}
  /\ action \in [Attempts -> [state: {"none", "rejected"} \cup Active \cup Verified,
                              known: BOOLEAN, throttled: BOOLEAN, retried: BOOLEAN]]
  /\ owner \in Attempts \cup {None}
  /\ incident \in [used: Nat, latest: Sources \cup {0}, occurrences: Nat,
                   marked: SUBSET Sources]
  /\ disposed \in [Sources -> {"none", "final", "historical", "no_effect"}]
  /\ session \in [Controllers -> [pc: {"idle", "claimed", "posting", "acked", "unacked",
                                       "throttled", "refused", "recorded", "finalizing"},
                                  work: Works \cup {None}, own: BOOLEAN]]
  /\ posts \in [Attempts -> Nat]
  /\ remote \in [Attempts -> {"none", "running", "succeeded", "failed"}]

Init ==
  /\ control = [revision |-> 0, maintenance |-> FALSE, admitted |-> TRUE]
  /\ work = [w \in Works |-> Absent]
  /\ lease = [w \in Works |-> None]
  /\ target = None
  /\ action = [a \in Attempts |->
       [state |-> "none", known |-> FALSE, throttled |-> FALSE, retried |-> FALSE]]
  /\ owner = None
  /\ incident = [used |-> 0, latest |-> 0, occurrences |-> 0, marked |-> {}]
  /\ disposed = [s \in Sources |-> "none"]
  /\ session = [c \in Controllers |-> Idle]
  /\ posts = [a \in Attempts |-> 0]
  /\ remote = [a \in Attempts |-> "none"]

-----------------------------------------------------------------------------
(* The policy, and the failures reconciliation publishes. *)

ChangePolicy ==
  /\ control.revision < MaxChanges
  /\ \E m, ad \in BOOLEAN :
       control' = [revision |-> control.revision + 1, maintenance |-> m, admitted |-> ad]
  /\ UNCHANGED <<rows, session, posts, remote>>

\* procedure: what every new operation under the current policy needs.
MayStart == ~control.maintenance

\* controller.enqueue_work: a new row, due, under the current policy.
Enqueued(kind, act) ==
  [status |-> "queued", kind |-> kind, policy |-> control.revision, action |-> act]

\* controller.publish_source and controller.enqueue_work for a failed run.
Ingest(s) ==
  LET w == SourceWork(<<s, 0>>) IN
  /\ work[w].status = "absent"
  /\ MayStart /\ control.admitted
  /\ work' = [work EXCEPT ![w] = Enqueued("triage", FALSE)]
  /\ UNCHANGED <<control, lease, target, action, owner, incident, disposed, session,
                 posts, remote>>

\* A newer run of the target has been published (source_head).
NewerRun(s) == \E t \in Sources : t > s /\ work[SourceWork(<<t, 0>>)].status # "absent"

-----------------------------------------------------------------------------
(* Sessions. *)

At(c, pc) == session[c].pc = pc
WorkOf(c) == session[c].work
AttemptOf(c) == Attempt(WorkOf(c))
StateOf(c) == action[AttemptOf(c)].state

\* The transaction committed: the caller goes on, or its acknowledgement was
\* lost (MonitoringCommitUncertain) and it ends.
Reply(c, pc) ==
  session' = [session EXCEPT ![c] = IF pc = "idle" THEN Idle ELSE [@ EXCEPT !.pc = pc]]

Committed(c, pc) == Reply(c, pc) \/ Reply(c, "idle")

\* current_work: the exact work lease and the target's are live.
Owns(c) ==
  LET w == WorkOf(c) IN
  /\ lease[w] = c
  /\ target = w
  /\ work[w].status \in {"leased", "finalizing"}

EndLeases(w) ==
  /\ lease' = [lease EXCEPT ![w] = None]
  /\ target' = IF target = w THEN None ELSE target

\* Nothing was committed, or the process stopped.
Abandon(c) ==
  /\ ~At(c, "idle")
  /\ Reply(c, "idle")
  /\ UNCHANGED <<control, rows, posts, remote>>

\* Both rows carry the same expiry.
LeaseExpires(w) ==
  /\ lease[w] # None
  /\ EndLeases(w)
  /\ UNCHANGED <<control, work, action, owner, incident, disposed, session, posts, remote>>

-----------------------------------------------------------------------------
(* controller.claim_work *)

\* Work that has an action is never triaged again.
Promoted(w) ==
  IF ~work[w].action THEN work[w].kind
  ELSE IF action[Attempt(w)].state = "rejected" \/ work[w].status = "finalizing"
       THEN "finalize" ELSE "verify_action"

Claimable(w) ==
  /\ work[w].status \in Runnable
  /\ lease[w] = None
  /\ control.maintenance => Promoted(w) \in {"verify_action", "finalize"}

RetryAdmitted(a) ==
  /\ ~control.maintenance
  /\ control.admitted
  /\ work[SourceWork(a)].policy = control.revision

Finalized(a) == work[SourceWork(a)].status = "completed"

\* A slip: another work's live lease on the target is not looked at.
AnyTarget(w) == TRUE

TargetFree(w) == target \in {None, w}

TakeLeases(c, w) ==
  /\ lease' = [lease EXCEPT ![w] = c]
  /\ target' = w

Claim(c, w) ==
  /\ At(c, "idle")
  /\ Claimable(w)
  /\ Promoted(w) = "deferred_retry" =>
       /\ Finalized(Predecessor(Attempt(w)))
       /\ RetryAdmitted(Predecessor(Attempt(w)))
  /\ TargetFree(w)
  /\ TakeLeases(c, w)
  /\ work' = [work EXCEPT ![w].status = "leased", ![w].kind = Promoted(w)]
  /\ session' \in {[session EXCEPT ![c] = [pc |-> "claimed", work |-> w, own |-> FALSE]],
                   session}
  /\ UNCHANGED <<control, action, owner, incident, disposed, posts, remote>>

\* A linked retry that is not admitted any more ends at its claim.
RefuseRetry(w) ==
  /\ Claimable(w)
  /\ Promoted(w) = "deferred_retry"
  /\ Finalized(Predecessor(Attempt(w)))
  /\ ~RetryAdmitted(Predecessor(Attempt(w)))
  /\ work' = [work EXCEPT ![w].status = "dispositioned"]
  /\ UNCHANGED <<control, lease, target, action, owner, incident, disposed, session,
                 posts, remote>>

-----------------------------------------------------------------------------
(* controller.reserve_action *)

\* successor_predicate: the unused successor of a finalized, throttled action.
UnusedSuccessor(a) ==
  LET p == Predecessor(a) IN
  /\ action[p].state = "rejected" /\ action[p].throttled /\ action[p].retried
  /\ Finalized(p)
  /\ RetryAdmitted(p)

\* A slip: the incident's earlier changes are not looked at.
UnlimitedBudget(a) == a[2] > 0 => incident.used = 1 /\ UnusedSuccessor(a)

\* The incident's one change: a retry takes over the debit of its predecessor.
WithinBudget(a) ==
  IF a[2] = 0 THEN incident.used = 0
  ELSE incident.used = 1 /\ UnusedSuccessor(a)

\* Owned, unreserved work under the current policy, of the newest failed run.
Authorized(c) ==
  LET w == WorkOf(c) IN
  /\ Owns(c)
  /\ work[w].status = "leased" /\ ~work[w].action
  /\ work[w].policy = control.revision
  /\ MayStart /\ control.admitted
  /\ ~NewerRun(Source(w)) /\ incident.latest <= Source(w)

\* The rows of a reservation: action, action_owner, the incident's budget and
\* the work it is attached to.
AttachReservation(w) ==
  LET a == Attempt(w) IN
  /\ action' = [action EXCEPT ![a].state = "reserved"]
  /\ owner' = a
  /\ incident' = [incident EXCEPT !.used = 1]
  /\ work' = [work EXCEPT ![w].action = TRUE]

Reserve(c) ==
  /\ At(c, "claimed")
  /\ Authorized(c)
  /\ owner = None
  /\ WithinBudget(AttemptOf(c))
  /\ AttachReservation(WorkOf(c))
  /\ \/ session' = [session EXCEPT ![c].pc = "posting", ![c].own = TRUE]
     \/ Reply(c, "idle")
  /\ UNCHANGED <<control, lease, target, disposed, posts, remote>>

\* The one request, sent only once its reservation is acknowledged.
Post(c) ==
  LET a == AttemptOf(c) IN
  /\ At(c, "posting")
  /\ posts' = [posts EXCEPT ![a] = @ + 1]
  /\ \/ /\ remote' = [remote EXCEPT ![a] = "running"]
        /\ Reply(c, "acked") \/ Reply(c, "unacked")
     \/ /\ UNCHANGED remote
        /\ \E pc \in {"unacked", "throttled", "refused"} : Reply(c, pc)
  /\ UNCHANGED <<control, rows>>

-----------------------------------------------------------------------------
(* controller.transition_action *)

\* A slip: a terminal action can be reopened.
MayReopen(c) == Owns(c) /\ work[WorkOf(c)].action

MayTransition(c) ==
  /\ Owns(c)
  /\ work[WorkOf(c)].action
  /\ StateOf(c) \in Active

\* schedule_verification: work for the effect, unless there is some already.
ScheduleVerification(a) ==
  work' = IF work[VerifyWork(a)].status # "absent" THEN work
          ELSE [work EXCEPT ![VerifyWork(a)] = Enqueued("verify_action", TRUE)]

RecordSubmission(c) ==
  LET a == AttemptOf(c)
      sent == At(c, "acked") IN
  /\ \/ session[c].pc \in {"acked", "unacked"}
     \/ At(c, "claimed")                     \* a reservation found by a later claim
  /\ MayTransition(c) /\ StateOf(c) = "reserved"
  /\ action' = [action EXCEPT ![a].state = IF sent THEN "submitted" ELSE "uncertain",
                              ![a].known = sent]
  /\ ScheduleVerification(a)
  /\ Committed(c, "recorded")
  /\ UNCHANGED <<control, lease, target, owner, incident, disposed, posts, remote>>

\* A definite rejection, by the execution that reserved and sent it.  A
\* throttled attempt gets one linked successor, admitted or not at all.
RecordRejection(c) ==
  LET a == AttemptOf(c)
      throttled == At(c, "throttled")
      retry == throttled /\ a[2] < MaxRetry /\ RetryAdmitted(a) IN
  /\ session[c].pc \in {"throttled", "refused"}
  /\ MayTransition(c) /\ StateOf(c) = "reserved"
  /\ work[WorkOf(c)].kind \in {"triage", "deferred_retry"}
  /\ action' = [action EXCEPT ![a].state = "rejected", ![a].throttled = throttled,
                              ![a].retried = retry]
  /\ owner' = None
  /\ work' = [w \in Works |->
       IF retry /\ w = SourceWork(Successor(a))
       THEN Enqueued("deferred_retry", FALSE)
       ELSE IF w = VerifyWork(a) /\ work[w].status \in {"queued", "waiting"}
       THEN [work[w] EXCEPT !.status = "dispositioned"]
       ELSE work[w]]
  /\ Committed(c, "finalizing")
  /\ UNCHANGED <<control, lease, target, incident, disposed, posts, remote>>

\* What a poll of a known run may establish.
Outcomes(a) ==
  {"uncertain"} \cup {v \in Verified :
    \/ v = "verified_succeeded" /\ remote[a] = "succeeded"
    \/ v = "verified_failed" /\ remote[a] = "failed"}

RecordOutcome(c, outcome) ==
  LET a == AttemptOf(c) IN
  /\ session[c].pc \in {"claimed", "recorded"}
  /\ MayTransition(c)
  /\ action[a].known
  /\ outcome \in Outcomes(a)
  /\ action' = [action EXCEPT ![a].state = outcome]
  /\ IF outcome \in Verified
     THEN owner' = None /\ UNCHANGED work
     ELSE ScheduleVerification(a) /\ UNCHANGED owner
  /\ Committed(c, IF outcome \in Verified \/ session[c].own THEN "finalizing" ELSE "idle")
  /\ UNCHANGED <<control, lease, target, incident, disposed, posts, remote>>

-----------------------------------------------------------------------------
(* controller.finalize *)

\* prepare_incident_merge_sql: verification never counts an occurrence, and a
\* source that was counted or disposed of is not counted again.
Counts(w) ==
  /\ work[w].kind # "verify_action"
  /\ Source(w) \notin incident.marked
  /\ disposed[Source(w)] = "none"

Historical(w) == Source(w) < incident.latest

MergeIncident(w) ==
  incident' = [incident EXCEPT
    !.occurrences = IF @ = 0 THEN 1 ELSE @ + (IF Counts(w) THEN 1 ELSE 0),
    !.latest = IF Historical(w) THEN @ ELSE Source(w),
    !.marked = @ \cup {Source(w)}]

Pending(w) == work[w].action /\ action[Attempt(w)].state \in Active

\* What the execution has to report: nothing was done, the action is over, or
\* (for the execution that submitted it) it is not verified yet.
MayFinalize(c) ==
  \/ At(c, "finalizing")
  \/ At(c, "recorded") /\ session[c].own
  \/ At(c, "claimed") /\ ~Pending(WorkOf(c))

Finalize(c) ==
  LET w == WorkOf(c) IN
  /\ MayFinalize(c)
  /\ Owns(c)
  /\ MergeIncident(w)
  /\ IF Pending(w)
     THEN /\ work' = [work EXCEPT ![w].status = "finalizing"]
          /\ UNCHANGED <<lease, target, disposed>>
     ELSE /\ work' = [work EXCEPT ![w].status = "completed"]
          /\ disposed' = [disposed EXCEPT ![Source(w)] =
               IF @ # "none" THEN @ ELSE IF Historical(w) THEN "historical" ELSE "final"]
          /\ EndLeases(w)
  /\ Reply(c, "idle")
  /\ UNCHANGED <<control, action, owner, posts, remote>>

-----------------------------------------------------------------------------
(* Work that ends without an effect. *)

\* execution_reservations_sql
NoReservation(s) == \A n \in 0 .. MaxRetry : action[<<s, n>>].state = "none"

\* source_context_sql: a source without an effect is read or disposed of only
\* outside maintenance, through evidence of its own work or window.
SourceContext == ~control.maintenance

\* A repeated disposition keeps the first.
RecordNoEffect(s) ==
  /\ SourceContext
  /\ NoReservation(s)
  /\ disposed' = [disposed EXCEPT ![s] = IF @ = "none" THEN "no_effect" ELSE @]

\* controller.disposition_source by the work's own execution.
Dispose(c) ==
  LET w == WorkOf(c) IN
  /\ At(c, "claimed")
  /\ Owns(c)
  /\ RecordNoEffect(Source(w))
  /\ work' = [work EXCEPT ![w].status = "dispositioned"]
  /\ EndLeases(w)
  /\ Reply(c, "idle")
  /\ UNCHANGED <<control, action, owner, incident, posts, remote>>

\* controller.disposition_source by reconciliation, of work nobody holds.
DisposeUnclaimed(w) ==
  /\ work[w].status \in {"queued", "waiting"}
  /\ ~work[w].action
  /\ lease[w] = None
  /\ RecordNoEffect(Source(w))
  /\ work' = [work EXCEPT ![w].status = "dispositioned"]
  /\ UNCHANGED <<control, lease, target, action, owner, incident, session, posts, remote>>

\* controller.transition_work, "retry": only work without an action.
Requeue(w) ==
  /\ ~work[w].action
  /\ work' = [work EXCEPT ![w].status = "waiting"]
  /\ EndLeases(w)

RetryLater(c) ==
  /\ At(c, "claimed")
  /\ Owns(c)
  /\ Requeue(WorkOf(c))
  /\ Reply(c, "idle")
  /\ UNCHANGED <<control, action, owner, incident, disposed, posts, remote>>

-----------------------------------------------------------------------------
RunEnds(a) ==
  /\ remote[a] = "running"
  /\ \E r \in {"succeeded", "failed"} : remote' = [remote EXCEPT ![a] = r]
  /\ UNCHANGED <<control, rows, session, posts>>

Execution(c) ==
  \/ \E w \in Works : Claim(c, w)
  \/ Reserve(c) \/ Post(c) \/ RecordSubmission(c) \/ RecordRejection(c)
  \/ \E outcome \in Verified \cup {"uncertain"} : RecordOutcome(c, outcome)
  \/ Finalize(c) \/ Dispose(c) \/ RetryLater(c) \/ Abandon(c)

Next ==
  \/ ChangePolicy
  \/ \E s \in Sources : Ingest(s)
  \/ \E c \in Controllers : Execution(c)
  \/ \E w \in Works : LeaseExpires(w) \/ RefuseRetry(w) \/ DisposeUnclaimed(w)
  \/ \E a \in Attempts : RunEnds(a)

Spec == Init /\ [][Next]_vars
-----------------------------------------------------------------------------
(* Safety. *)

\* The two lease rows agree: while an execution holds a work of the target,
\* the target's row names that work, so no two executions work on one target,
\* whichever of them stall, crash or lose an acknowledgement (_claim,
\* transition_work, finalize, disposition_source).
OneHolder == \A w \in Works :
  lease[w] # None => target = w /\ \A v \in Works \ {w} : lease[v] = None

\* An effect that is not verified always has work left that a later claim
\* will verify: neither an early finalization nor a disposition drops it
\* (_finalize, disposition_source, transition_work).
EffectKeepsWork == \A a \in Attempts :
  action[a].state \in Active =>
    \E w \in {SourceWork(a), VerifyWork(a)} : work[w].status \in Runnable /\ work[w].action

\* However often its failures recur, are throttled or are retried, an incident
\* causes at most one change at the service (_reserve, budget_debit_expression).
OneEffect == Cardinality({a \in Attempts : remote[a] # "none"}) <= 1

\* A source disposed of as without effect never has one
\* (disposition_source, execution_reservations_sql).
NoEffectIsTrue == \A a \in Attempts :
  disposed[a[1]] = "no_effect" => remote[a] = "none" /\ action[a].state = "none"

\* The incident shows the newest run that was merged, whatever the order in
\* which the works of its runs are finalized (historical_predicate).
NewestEvidence ==
  incident.marked # {} => \A s \in incident.marked : incident.latest >= s

\* A failed run is counted at most once, although its source work, its
\* verification and its retries all finalize (occurrence_marker_sql).
CountedOnce == incident.occurrences <= Cardinality(incident.marked)

\* A run whose own work is finalized has its disposition, and its action is
\* over: "completed" is never told of something still open (_finalize).
CompletedIsOver == \A w \in Works : work[w].status = "completed" =>
  /\ disposed[Source(w)] # "none"
  /\ action[Attempt(w)].state \notin Active

-----------------------------------------------------------------------------
(* The SQL store keeps the promise the in-memory engine keeps. *)

Fate(a) ==
  LET s == action[a].state IN
  CASE s \in Active -> "open"
    [] s = "verified_succeeded" -> "succeeded"
    [] s = "verified_failed" -> "failed"
    [] OTHER -> s

Promise == INSTANCE TargetFence WITH
  Changes <- Attempts,
  Targets <- {1},
  TargetOf <- [a \in Attempts |-> 1],
  Jobs <- Attempts,
  owner <- [t \in {1} |-> owner],
  fate <- [a \in Attempts |-> Fate(a)],
  sent <- {a \in Attempts : posts[a] > 0}

\* Rows, leases, promotion, retries and lost acknowledgements implement the
\* fence: one open change of the target at a time, requested at most once and
\* never outside, and closed for good (_reserve, _transition).
ImplementsFence == Promise!Spec

\* The two lease rows agree, open effects keep their work, and completed work
\* is over.
WorkSafe == TypeOK /\ OneHolder /\ EffectKeepsWork /\ CompletedIsOver

\* An incident causes one change, is told the truth about it, and counts its
\* failures once with their newest evidence.
EffectsTruthful == OneEffect /\ NoEffectIsTrue /\ NewestEvidence /\ CountedOnce

-----------------------------------------------------------------------------
(* Why they hold: the inductive invariant. *)

\* The sessions that may have sent the request of their attempt.
Submitting == {"posting", "acked", "unacked", "throttled", "refused"}

\* A live work lease is named by the target's row.
LeasesNamed == \A w \in Works : lease[w] # None => target = w

\* The target is owned by exactly the action that is not over.
OwnerExact == \A a \in Attempts : owner = a <=> action[a].state \in Active

\* Source work carries its reservation; verification work exists from the
\* recorded submission on; and one of them runs until the action is over.
WorkBacked == \A a \in Attempts :
  /\ work[SourceWork(a)].action <=> action[a].state # "none"
  /\ action[a].state # "none" => work[SourceWork(a)].status # "absent"
  /\ action[a].state = "reserved" => work[SourceWork(a)].status \in Runnable
  /\ work[VerifyWork(a)].status # "absent" <=>
       action[a].state \in {"submitted", "uncertain"} \cup Verified
  /\ work[VerifyWork(a)].status # "absent" => work[VerifyWork(a)].action
  /\ action[a].state \in {"submitted", "uncertain"} =>
       work[VerifyWork(a)].status \in Runnable

\* A retry exists only after its predecessor was rejected for it.
RetriesLinked == \A a \in Attempts :
  /\ action[a].retried => action[a].state = "rejected"
  /\ a[2] > 0 /\ work[SourceWork(a)].status # "absent" => action[Predecessor(a)].retried

\* All reservations of the incident are attempts of one source, and only the
\* last of them may have had an effect.
OneChain ==
  /\ \A a, b \in Attempts :
       action[a].state # "none" /\ action[b].state # "none" => a[1] = b[1]
  /\ \A a, b \in Attempts :
       action[a].state # "none" /\ a[1] = b[1] /\ b[2] < a[2] =>
         action[b].state = "rejected"
  /\ incident.used = 0 => \A a \in Attempts : action[a].state = "none"

\* What is recorded of an attempt was requested, and a rejected one did nothing.
RequestsRecorded == \A a \in Attempts :
  /\ posts[a] <= 1
  /\ remote[a] # "none" => posts[a] = 1 /\ action[a].state # "rejected"
  /\ posts[a] = 1 => action[a].state # "none"
  /\ action[a].known => posts[a] = 1 /\ action[a].state \notin {"none", "reserved", "rejected"}
  /\ action[a].state \in Verified => action[a].known

\* A submitting session knows how far its request has come.
SessionsExact == \A c \in Controllers : ~At(c, "idle") =>
  /\ WorkOf(c) \in Works
  /\ session[c].pc \in Submitting => StateOf(c) \notin {"none", "rejected"}
  /\ At(c, "posting") => posts[AttemptOf(c)] = 0
  /\ session[c].pc \in Submitting \ {"posting"} => posts[AttemptOf(c)] = 1
  /\ session[c].pc \in {"throttled", "refused"} => remote[AttemptOf(c)] = "none"

\* Only the execution that reserved an attempt ever submits it.
OneSubmitter == \A c, d \in Controllers :
  session[c].pc \in Submitting /\ session[d].pc \in Submitting
    /\ AttemptOf(c) = AttemptOf(d) => c = d

\* The one work a disposed source can have is over.
NothingLater == \A s \in Sources : disposed[s] = "no_effect" =>
  NoReservation(s) /\ work[SourceWork(<<s, 0>>)].status \in Ended

KernelInv ==
  /\ TypeOK /\ LeasesNamed /\ OwnerExact /\ WorkBacked /\ RetriesLinked /\ OneChain
  /\ RequestsRecorded /\ SessionsExact /\ OneSubmitter /\ NothingLater
  /\ NewestEvidence /\ CompletedIsOver
  /\ IsFiniteSet(incident.marked) /\ CountedOnce
=============================================================================
