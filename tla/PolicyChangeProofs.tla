------------------------ MODULE PolicyChangeProofs ------------------------
(* Safety of the action fence for any number of sources, targets and       *)
(* executions, any retry limit and any write budget; and of the connector  *)
(* reconciliation for any pipelines, provisioning workers and scopes, any  *)
(* number of policies, revisions and faults.                               *)
EXTENDS PolicyChange, FiniteSetTheorems, SequenceTheorems, TLAPS

\* Works, attempts and targets belong to each other as their names say.
LEMMA WorkFacts ==
  /\ \A w \in Works : Attempt(w) \in Attempts
  /\ \A a \in Attempts : Target(a) \in Targets /\ Incident(a) \in Incidents
  /\ \A a \in Attempts : SourceWork(a) \in Works /\ Attempt(SourceWork(a)) = a
                         /\ IsSource(SourceWork(a))
  /\ \A a \in Attempts : \A v \in Verifications(a) :
       v \in Works /\ Attempt(v) = a /\ ~IsSource(v)
  /\ \A w \in Works : ~IsSource(w) => w \in Verifications(Attempt(w))
  /\ \A w \in Works : IsSource(w) => w = SourceWork(Attempt(w))
  <1>1. \A w \in Works : Attempt(w) \in Attempts
    BY DEF Works, Attempt
  <1>2. \A a \in Attempts : Target(a) \in Targets /\ Incident(a) \in Incidents
    BY TargetsAssumption DEF Attempts, Target, Incident
  <1>3. \A a \in Attempts : SourceWork(a) \in Works /\ Attempt(SourceWork(a)) = a
                            /\ IsSource(SourceWork(a))
    BY DEF Works, SourceWork, Attempt, IsSource
  <1>4. \A a \in Attempts : \A v \in Verifications(a) :
          v \in Works /\ Attempt(v) = a /\ ~IsSource(v)
    BY DEF Works, Verifications, Attempt, IsSource
  <1>5. \A w \in Works : ~IsSource(w) => w \in Verifications(Attempt(w))
    BY DEF Works, Verifications, Attempt, IsSource
  <1>6. \A w \in Works : IsSource(w) => w = SourceWork(Attempt(w))
    BY DEF Works, SourceWork, Attempt, IsSource
  <1> QED BY <1>1, <1>2, <1>3, <1>4, <1>5, <1>6

\* The retry of an attempt that may be retried is an attempt.
LEMMA SuccessorFacts ==
  ASSUME NEW a \in Attempts, a[2] < MaxAttempts
  PROVE  Successor(a) \in Attempts
  BY BoundsAssumption DEF Attempts, Successor

\* A new verification work is queued at an id no attempt shares.
LEMMA RevisionFacts ==
  ASSUME NEW a \in Attempts
  PROVE  <<a, ActionRevision(a)>> \in Verifications(a)
  BY DEF ActionRevision, Verifications

WorkType == [Works -> [state: WorkStates, kind: Kinds, revision: Nat]]

\* What is queued is a work of the right kind.
LEMMA QueuedFacts ==
  ASSUME StoreTypeOK, NEW w \in Works
  PROVE  /\ Queued(w) \in [state: WorkStates, kind: Kinds, revision: Nat]
         /\ Queued(w).state = "queued"
         /\ ~IsSource(w) => Queued(w).kind = "verify_action"
  <1>1. KindOf(w) \in Kinds
    BY DEF KindOf, Kinds
  <1> QED BY <1>1 DEF Queued, StoreTypeOK, WorkStates, KindOf

\* _schedule_verification only adds a verification of the given attempt.
LEMMA ScheduledFacts ==
  ASSUME StoreTypeOK, NEW works \in WorkType, NEW a \in Attempts
  PROVE  /\ Scheduled(works, a) \in WorkType
         /\ \A w \in Works : \/ Scheduled(works, a)[w] = works[w]
                             \/ /\ w \in Verifications(a)
                                /\ works[w].state = "absent"
                                /\ Scheduled(works, a)[w] = Queued(w)
  <1> DEFINE v == <<a, ActionRevision(a)>>
  <1>1. v \in Verifications(a) /\ v \in Works
    BY RevisionFacts, WorkFacts
  <1>2. Queued(v) \in [state: WorkStates, kind: Kinds, revision: Nat]
    BY <1>1, QueuedFacts
  <1>3. \/ Scheduled(works, a) = works
        \/ /\ works[v].state = "absent"
           /\ Scheduled(works, a) = [works EXCEPT ![v] = Queued(v)]
    BY DEF Scheduled
  <1> QED BY <1>1, <1>2, <1>3 DEF WorkType

\* It leaves one that can be run if its id was free.
LEMMA ScheduledRuns ==
  ASSUME StoreTypeOK, NEW works \in WorkType, NEW a \in Attempts,
         works[<<a, ActionRevision(a)>>].state = "absent"
  PROVE  \E v \in Verifications(a) : Scheduled(works, a)[v].state \in {"queued", "leased"}
  <1> DEFINE v == <<a, ActionRevision(a)>>
  <1>1. v \in Verifications(a) /\ v \in Works
    BY RevisionFacts, WorkFacts
  <1>2. CASE \E u \in Verifications(a) : works[u].state \in {"queued", "leased"}
    BY <1>2 DEF Scheduled
  <1>3. CASE ~\E u \in Verifications(a) : works[u].state \in {"queued", "leased"}
    <2>1. Scheduled(works, a) = [works EXCEPT ![v] = Queued(v)]
      BY <1>3 DEF Scheduled
    <2>2. Scheduled(works, a)[v].state = "queued"
      BY <2>1, <1>1, QueuedFacts DEF WorkType
    <2> QED BY <2>2, <1>1
  <1> QED BY <1>2, <1>3

\* Ending the polls of an attempt changes only its queued verifications.
LEMMA PollsEndedFacts ==
  ASSUME NEW works \in WorkType, NEW a \in Attempts
  PROVE  /\ PollsEnded(works, a) \in WorkType
         /\ \A w \in Works :
              \/ PollsEnded(works, a)[w] = works[w]
              \/ /\ w \in Verifications(a)
                 /\ works[w].state = "queued"
                 /\ PollsEnded(works, a)[w] = [works[w] EXCEPT !.state = "dispositioned"]
  BY DEF PollsEnded, WorkType, WorkStates

-----------------------------------------------------------------------------
(* Steps that leave the actions, the fences and the service alone.         *)

ExecType == [pc: Steps, work: Works \cup {None}, seen: ActionStates, own: BOOLEAN]

\* Stored work stays stored, and the verification of an active action can
\* still be run.
KeepsWork ==
  /\ work' \in WorkType
  /\ \A w \in Works : work[w].state # "absent" => work'[w].state # "absent"
  /\ \A w \in Works : ~IsSource(w) =>
       /\ work'[w].kind \in {"verify_action", "finalize"}
       /\ (work[w].state = "absent" /\ action[Attempt(w)].state = "none")
            => work'[w].state = "absent"
       /\ (work[w].state \in {"queued", "leased"} /\ action[Attempt(w)].state \in Active)
            => work'[w].state \in {"queued", "leased"}

\* An execution moves to a step outside its submission.
MovesTo(c, e) ==
  /\ c \in Controllers
  /\ exec' = [exec EXCEPT ![c] = e]
  /\ e \in ExecType
  /\ e.pc # "idle" =>
       /\ e.work \in Works
       /\ work'[e.work].state # "absent"
       /\ e.own => IsSource(e.work)
       /\ e.pc \notin Submitting
       /\ (e.pc = "finalizing" /\ ~IsSource(e.work))
            => action'[Attempt(e.work)].state \notin Active

\* An action that is not over stays so, and the others do not change.
KeepsActions == \A a \in Attempts :
  \/ action'[a].state = action[a].state
  \/ action[a].state \in Active /\ action'[a].state \in Active

\* The initial state satisfies the inductive invariant.
LEMMA InitIInv == Init => IInv
  <1> SUFFICES ASSUME Init PROVE IInv
    OBVIOUS
  <1>1. \A w \in Works : KindOf(w) \in Kinds
                         /\ (~IsSource(w) => KindOf(w) = "verify_action")
    BY DEF KindOf, Kinds
  <1>2. StoreTypeOK
    BY <1>1, BoundsAssumption DEF Init, StoreInit, StoreTypeOK, WorkStates, ActionStates, Active, Verified
  <1>3. TypeOK
    BY <1>2 DEF Init, TypeOK, Idle, Running, Steps, ActionStates, Active, Verified
  <1>4. \A a \in Attempts : action[a].state = "none" /\ posts[a] = 0 /\ remote[a] = "none"
    BY DEF Init, StoreInit
  <1>5. \A c \in Controllers : exec[c].pc = "idle"
    BY DEF Init, Idle, Running
  <1>6. \A w \in Works : work[w].state = "absent" /\ work[w].kind = KindOf(w)
    BY DEF Init, StoreInit
  <1>7. FenceExact
    BY <1>4, WorkFacts DEF FenceExact, ActiveOn, Active, Init, StoreInit
  <1>8. SubmittedOnce /\ SubmitInsideFence /\ UnverifiedIsPolled /\ RecordedIsReal
    BY <1>4, <1>5 DEF SubmittedOnce, SubmitInsideFence, UnverifiedIsPolled, RecordedIsReal, Active, Verified
  <1>9. Working /\ OneSubmitter /\ NothingBefore /\ VerificationKind
    BY <1>1, <1>4, <1>5, <1>6, WorkFacts
    DEF Working, OneSubmitter, NothingBefore, VerificationKind, At, Submitting
  <1> QED BY <1>3, <1>7, <1>8, <1>9 DEF IInv

\* Such a step preserves the invariant.
LEMMA QuietStep ==
  ASSUME IInv, StoreTypeOK', KeepsWork, UNCHANGED action \/ KeepsActions,
         UNCHANGED <<fence, posts, remote>>,
         NEW c, NEW e,
         UNCHANGED exec \/ MovesTo(c, e)
  PROVE  IInv'
  <1>0. \A a \in Attempts :
          /\ action'[a].state \in Active <=> action[a].state \in Active
          /\ action'[a].state \in Active \/ action'[a].state = action[a].state
          /\ action'[a].state = "none" <=> action[a].state = "none"
    BY DEF KeepsActions, Active
  <1>1. TypeOK'
    BY DEF IInv, TypeOK, MovesTo, ExecType
  <1>2. \A d \in Controllers : exec'[d] = exec[d] \/ (d = c /\ exec'[d] = e /\ MovesTo(c, e))
    BY DEF IInv, TypeOK, MovesTo
  <1>3. FenceExact' /\ SubmittedOnce'
    BY <1>0 DEF IInv, FenceExact, SubmittedOnce, ActiveOn
  <1>4. RecordedIsReal'
    BY <1>0 DEF IInv, RecordedIsReal, Active
  <1>5. SubmitInsideFence'
    BY <1>2 DEF IInv, SubmitInsideFence, MovesTo, Submitting, AttemptOf, WorkOf, ActionFor
  <1>6. UnverifiedIsPolled'
    <2> SUFFICES ASSUME NEW a \in Attempts, action'[a].state \in Active
                 PROVE  \E v \in Verifications(a) : work'[v].state \in {"queued", "leased"}
      BY DEF UnverifiedIsPolled
    <2>1. PICK v \in Verifications(a) : work[v].state \in {"queued", "leased"}
      BY <1>0 DEF IInv, UnverifiedIsPolled
    <2> QED BY <2>1, <1>0, WorkFacts DEF KeepsWork
  <1>7. Working'
    <2> SUFFICES ASSUME NEW d \in Controllers, exec'[d].pc # "idle"
                 PROVE  /\ exec'[d].work \in Works
                        /\ work'[exec'[d].work].state # "absent"
                        /\ exec'[d].own => IsSource(exec'[d].work)
                        /\ exec'[d].pc \in Submitting =>
                             exec'[d].own /\ action'[Attempt(exec'[d].work)].state # "none"
                        /\ exec'[d].pc = "posting" => posts[Attempt(exec'[d].work)] = 0
                        /\ exec'[d].pc \in {"throttled", "refused"} =>
                             remote[Attempt(exec'[d].work)] = "none"
                        /\ (exec'[d].pc = "finalizing" /\ ~IsSource(exec'[d].work)) =>
                             action'[Attempt(exec'[d].work)].state \notin Active
      BY DEF Working, At, WorkOf, AttemptOf, StateOf
    <2>1. CASE exec'[d] = exec[d]
      <3>1. exec[d].work \in Works /\ Attempt(exec[d].work) \in Attempts
        BY <2>1, WorkFacts DEF IInv, Working, At, WorkOf
      <3> QED BY <2>1, <3>1, <1>0 DEF IInv, Working, At, WorkOf, AttemptOf, StateOf, KeepsWork
    <2>2. CASE exec'[d] = e /\ MovesTo(c, e)
      BY <2>2, <1>0, WorkFacts DEF MovesTo, Submitting
    <2> QED BY <1>2, <2>1, <2>2
  <1>8. OneSubmitter'
    BY <1>2 DEF IInv, OneSubmitter, MovesTo, Submitting, AttemptOf, WorkOf
  <1>9. NothingBefore'
    BY <1>0, WorkFacts DEF IInv, NothingBefore, KeepsWork
  <1>10. VerificationKind'
    BY DEF VerificationKind, KeepsWork
  <1> QED BY <1>1, <1>3, <1>4, <1>5, <1>6, <1>7, <1>8, <1>9, <1>10 DEF IInv

\* Leaving the works alone keeps them.
LEMMA SameWork ==
  ASSUME IInv, UNCHANGED work
  PROVE  KeepsWork
  BY DEF IInv, TypeOK, StoreTypeOK, VerificationKind, KeepsWork, WorkType

\* Replacing one work keeps the others.
LEMMA OneWork ==
  ASSUME IInv, NEW w \in Works,
         NEW r \in [state: WorkStates, kind: Kinds, revision: Nat],
         work' = [work EXCEPT ![w] = r],
         r.state # "absent",
         ~IsSource(w) => /\ r.kind \in {"verify_action", "finalize"}
                         /\ work[w].state # "absent"
                         /\ action[Attempt(w)].state \in Active =>
                              r.state \in {"queued", "leased"}
  PROVE  KeepsWork
  <1>1. work' \in WorkType /\ work'[w] = r /\ \A u \in Works : u # w => work'[u] = work[u]
    BY DEF IInv, TypeOK, StoreTypeOK, WorkType
  <1> QED BY <1>1 DEF IInv, VerificationKind, KeepsWork

\* Intake of evidence, policy changes, dispositions of unclaimed work.
LEMMA IntakeStep ==
  ASSUME IInv, Intake
  PROVE  IInv'
  <1>1. UNCHANGED <<exec, action, fence, posts, remote>>
    BY DEF Intake, envVars, ChangePolicy, IngestFailure, DisposeUnclaimed
  <1>2. StoreTypeOK' /\ KeepsWork
    <2>1. CASE ChangePolicy
      <3>1. UNCHANGED work /\ KeepsWork
        BY <2>1, SameWork DEF ChangePolicy
      <3> QED BY <2>1, <3>1, BoundsAssumption DEF IInv, TypeOK, StoreTypeOK, ChangePolicy
    <2>2. ASSUME NEW s \in Sources, IngestFailure(s)
          PROVE  StoreTypeOK' /\ KeepsWork
      <3> DEFINE w == SourceWork(<<s, 0>>)
      <3>1. w \in Works /\ IsSource(w)
        BY BoundsAssumption DEF Works, Attempts, SourceWork, IsSource
      <3>2. /\ Queued(w) \in [state: WorkStates, kind: Kinds, revision: Nat]
            /\ Queued(w).state = "queued"
        BY <3>1, QueuedFacts DEF IInv, TypeOK
      <3>3. UNCHANGED work \/ work' = [work EXCEPT ![w] = Queued(w)]
        BY <2>2 DEF IngestFailure
      <3>4. KeepsWork
        BY <3>1, <3>2, <3>3, SameWork, OneWork
      <3>5. disposed' \in [Sources -> {"none", "triaged", "out_of_scope"}]
        BY <2>2 DEF IInv, TypeOK, StoreTypeOK, IngestFailure, Dispose
      <3>6. head' \in [Targets -> Int]
        BY <2>2, SourcesAssumption, TargetsAssumption
        DEF IInv, TypeOK, StoreTypeOK, IngestFailure, NewHead, StartOf
      <3> QED BY <2>2, <3>4, <3>5, <3>6 DEF IInv, TypeOK, StoreTypeOK, IngestFailure, KeepsWork, WorkType
    <2>3. ASSUME NEW w \in Works, DisposeUnclaimed(w)
          PROVE  StoreTypeOK' /\ KeepsWork
      <3> DEFINE r == [work[w] EXCEPT !.state = "dispositioned"]
      <3>1. /\ r \in [state: WorkStates, kind: Kinds, revision: Nat]
            /\ r.state = "dispositioned"
            /\ work' = [work EXCEPT ![w] = r]
        BY <2>3 DEF IInv, TypeOK, StoreTypeOK, DisposeUnclaimed, WorkStates
      <3>2. IsSource(w)
        BY <2>3 DEF IInv, VerificationKind, DisposeUnclaimed, LostAdmission, Followup, ClaimedKind
      <3>3. KeepsWork
        BY <3>1, <3>2, OneWork
      <3>4. disposed' \in [Sources -> {"none", "triaged", "out_of_scope"}]
        BY <2>3 DEF IInv, TypeOK, StoreTypeOK, DisposeUnclaimed, Dispose
      <3> QED BY <2>3, <3>3, <3>4 DEF IInv, TypeOK, StoreTypeOK, DisposeUnclaimed, KeepsWork, WorkType
    <2> QED BY <2>1, <2>2, <2>3 DEF Intake
  <1> QED BY <1>1, <1>2, QuietStep

\* A lease runs out.
LEMMA ExpiryStep ==
  ASSUME IInv, NEW t \in Targets, LeaseExpires(t)
  PROVE  IInv'
  <1>1. UNCHANGED <<exec, action, fence, posts, remote, work>>
    BY DEF LeaseExpires, envVars, ExpireLease
  <1>2. StoreTypeOK'
    BY DEF IInv, TypeOK, StoreTypeOK, LeaseExpires, ExpireLease
  <1> QED BY <1>1, <1>2, SameWork, QuietStep

\* The execution's own steps that change nothing in the store.
LEMMA LocalStep ==
  ASSUME IInv, NEW c \in Controllers,
         \/ Abandon(c) \/ (Fresh(c) /\ NoAction(c)) \/ BeginPoll(c)
         \/ StopPolling(c) \/ Wait(c) \/ Settled(c)
  PROVE  IInv'
  <1>1. UNCHANGED <<control, admitted, head, disposed, work, lease,
                    action, fence, writes, denied, posts, remote>>
    BY DEF Abandon, NoAction, BeginPoll, StopPolling, Wait, Settled, storeVars, envVars
  <1>2. StoreTypeOK'
    BY <1>1 DEF IInv, TypeOK, StoreTypeOK
  <1>3. exec[c] \in ExecType /\ exec[c].pc # "idle"
    BY DEF IInv, TypeOK, ExecType, Abandon, NoAction, BeginPoll, StopPolling, Wait, Settled, At, Fresh
  <1>4. /\ exec[c].work \in Works
        /\ work[exec[c].work].state # "absent"
        /\ exec[c].own => IsSource(exec[c].work)
    BY <1>3 DEF IInv, Working, At, WorkOf
  <1>5. CASE exec' = [exec EXCEPT ![c] = Idle]
    <2>1. MovesTo(c, Idle)
      BY <1>5 DEF MovesTo, Idle, Running, ExecType, Steps, ActionStates
    <2> QED BY <2>1, <1>1, <1>2, SameWork, QuietStep
  <1>6. CASE BeginPoll(c)
    <2> DEFINE e == [exec[c] EXCEPT !.pc = "polling", !.seen = StateOf(c)]
    <2>1. MovesTo(c, e)
      BY <1>6, <1>1, <1>3, <1>4
      DEF BeginPoll, MovesTo, ExecType, Steps, ActionStates, Active, Submitting
    <2> QED BY <2>1, <1>1, <1>2, SameWork, QuietStep
  <1>7. CASE (Fresh(c) /\ NoAction(c)) \/ StopPolling(c) \/ Settled(c)
    <2> DEFINE e == Running("finalizing", WorkOf(c))
    <2>1. exec' = [exec EXCEPT ![c] = e]
      BY <1>7 DEF NoAction, StopPolling, Settled, GotoFinalizing
    <2>2. e = [pc |-> "finalizing", work |-> exec[c].work, seen |-> "none", own |-> FALSE]
      BY DEF Running, WorkOf
    <2>3. ~IsSource(exec[c].work) => action[Attempt(exec[c].work)].state \notin Active
      BY <1>7, <1>4, WorkFacts
      DEF IInv, NothingBefore, NoAction, Fresh, StopPolling, Settled, StateOf, AttemptOf,
          WorkOf, Active, Verified
    <2> HIDE DEF e
    <2>4. MovesTo(c, e)
      BY <2>1, <2>2, <2>3, <1>1, <1>4 DEF MovesTo, ExecType, Steps, ActionStates, Submitting
    <2> QED BY <2>4, <1>1, <1>2, SameWork, QuietStep
  <1> QED BY <1>5, <1>6, <1>7 DEF Abandon, Wait, GotoIdle

\* A work is claimed.
LEMMA ClaimStep ==
  ASSUME IInv, NEW c \in Controllers, NEW w \in Works, Claim(c, w)
  PROVE  IInv'
  <1> DEFINE r == [state |-> "leased", kind |-> ClaimedKind(w), revision |-> work[w].revision]
  <1>1. /\ work[w] \in [state: WorkStates, kind: Kinds, revision: Nat]
        /\ ClaimedKind(w) \in Kinds
        /\ ~IsSource(w) => ClaimedKind(w) \in {"verify_action", "finalize"}
    BY DEF IInv, TypeOK, StoreTypeOK, VerificationKind, ClaimedKind, Kinds
  <1>2. /\ r \in [state: WorkStates, kind: Kinds, revision: Nat]
        /\ work' = [work EXCEPT ![w] = r]
    BY <1>1 DEF Claim, ClaimWork, WorkStates, IInv, TypeOK, StoreTypeOK
  <1>3. KeepsWork
    <2>1. work[w].state # "absent" /\ r.state = "leased" /\ r.kind = ClaimedKind(w)
      BY DEF Claim, ClaimWork, Claimable
    <2> HIDE DEF r
    <2> QED BY <1>1, <1>2, <2>1, OneWork
  <1>4. UNCHANGED <<control, admitted, head, disposed, action, fence, writes, denied, posts, remote>>
    BY DEF Claim, ClaimWork, envVars
  <1>5. lease' \in [Targets -> (Works \X Controllers) \cup {None}]
    BY DEF Claim, ClaimWork, IInv, TypeOK, StoreTypeOK
  <1>6. StoreTypeOK'
    BY <1>3, <1>4, <1>5 DEF IInv, TypeOK, StoreTypeOK, KeepsWork, WorkType
  <1>7. MovesTo(c, Running("claimed", w))
    BY <1>2 DEF Claim, MovesTo, Running, ExecType, Steps, ActionStates, Submitting, IInv, TypeOK, StoreTypeOK
  <1> QED BY <1>3, <1>4, <1>6, <1>7, QuietStep

\* A denial, or a candidate to be read again later.
LEMMA DeniedStep ==
  ASSUME IInv, NEW c \in Controllers, Denied(c) \/ (Fresh(c) /\ WaitForCandidate(c))
  PROVE  IInv'
  <1> DEFINE w == WorkOf(c)
  <1>1. /\ w \in Works /\ work[w].state # "absent"
        /\ work[w] \in [state: WorkStates, kind: Kinds, revision: Nat]
        /\ action[Attempt(w)].state = "none"
    BY DEF IInv, TypeOK, StoreTypeOK, Working, Denied, WaitForCandidate, Fresh, At, StateOf, AttemptOf
  <1>2. IsSource(w)
    BY <1>1, WorkFacts DEF IInv, NothingBefore
  <1>3. CASE Denied(c)
    <2>1. UNCHANGED <<control, admitted, head, disposed, work, lease, action, fence, writes, posts, remote>>
      BY <1>3 DEF Denied, DenyAction, envVars
    <2>2. StoreTypeOK'
      BY <1>3, <1>1, <2>1, WorkFacts DEF IInv, TypeOK, StoreTypeOK, Denied, DenyAction
    <2>3. MovesTo(c, Running("finalizing", w))
      BY <1>3, <1>1, <1>2, <2>1
      DEF Denied, GotoFinalizing, MovesTo, Running, ExecType, Steps, ActionStates, Submitting
    <2> QED BY <2>1, <2>2, <2>3, SameWork, QuietStep
  <1>4. CASE Fresh(c) /\ WaitForCandidate(c)
    <2> DEFINE r == [work[w] EXCEPT !.state = "queued"]
    <2>1. /\ r \in [state: WorkStates, kind: Kinds, revision: Nat] /\ r.state = "queued"
          /\ work' = [work EXCEPT ![w] = r]
      BY <1>4, <1>1 DEF WaitForCandidate, RetryLater, WorkStates, IInv, TypeOK, StoreTypeOK
    <2>2. KeepsWork
      BY <2>1, <1>1, <1>2, OneWork
    <2>3. UNCHANGED <<control, admitted, head, disposed, action, fence, writes, denied, posts, remote>>
      BY <1>4 DEF WaitForCandidate, RetryLater, envVars
    <2>4. lease' \in [Targets -> (Works \X Controllers) \cup {None}]
      BY <1>4 DEF WaitForCandidate, RetryLater, IInv, TypeOK, StoreTypeOK
    <2>5. StoreTypeOK'
      BY <2>2, <2>3, <2>4 DEF IInv, TypeOK, StoreTypeOK, KeepsWork, WorkType
    <2>6. MovesTo(c, Idle)
      BY <1>4 DEF WaitForCandidate, GotoIdle, MovesTo, Idle, Running, ExecType, Steps, ActionStates
    <2> QED BY <2>2, <2>3, <2>5, <2>6, QuietStep
  <1> QED BY <1>3, <1>4

\* Finalizing ends no verification that is still needed: verification work is
\* finalized only once its action is over, and source work is not one.
LEMMA FinalizeStep ==
  ASSUME IInv, NEW c \in Controllers, Finalize(c)
  PROVE  IInv'
  <1> DEFINE w == WorkOf(c)
             a == Attempt(w)
             done == [work EXCEPT ![w].state = "completed"]
  <1>0. StoreTypeOK
    BY DEF IInv, TypeOK
  <1>1. /\ w \in Works /\ a \in Attempts /\ work[w].state # "absent"
        /\ ~IsSource(w) => action[a].state \notin Active
    BY WorkFacts DEF IInv, Working, Finalize, At, StateOf, AttemptOf
  <1>2. /\ done \in WorkType
        /\ done[w].state = "completed" /\ done[w].kind = work[w].kind
        /\ \A u \in Works : u # w => done[u] = work[u]
    BY <1>1 DEF IInv, TypeOK, StoreTypeOK, WorkType, WorkStates
  <1>3. /\ work' = AfterFinalization(w)
        /\ UNCHANGED <<control, admitted, head, action, fence, writes, denied, posts, remote>>
    BY DEF Finalize, FinalizeWork, envVars
  <1> HIDE DEF done
  <1>4. KeepsWork
    <2>1. CASE work' = done
      BY <2>1, <1>1, <1>2 DEF KeepsWork, IInv, VerificationKind
    <2>2. CASE work' = PollsEnded(done, a) /\ action[a].state \notin Active
      <3>1. \A u \in Works : \/ work'[u] = done[u]
                             \/ /\ Attempt(u) = a /\ done[u].state = "queued"
                                /\ work'[u].state = "dispositioned" /\ work'[u].kind = done[u].kind
        <4>1. \A u \in Works :
                \/ work'[u] = done[u]
                \/ /\ u \in Verifications(a) /\ done[u].state = "queued"
                   /\ work'[u] = [done[u] EXCEPT !.state = "dispositioned"]
          BY <2>2, <1>1, <1>2, PollsEndedFacts
        <4>2. \A u \in Works : done[u] \in [state: WorkStates, kind: Kinds, revision: Nat]
          BY <1>2 DEF WorkType
        <4>3. \A u \in Verifications(a) : Attempt(u) = a
          BY <1>1, WorkFacts
        <4>4. \A u \in Works : [done[u] EXCEPT !.state = "dispositioned"].state = "dispositioned"
                            /\ [done[u] EXCEPT !.state = "dispositioned"].kind = done[u].kind
          BY <4>2
        <4> QED BY <4>1, <4>3, <4>4
      <3>2. work' \in WorkType
        BY <2>2, <1>1, <1>2, PollsEndedFacts
      <3> QED BY <2>2, <3>1, <3>2, <1>1, <1>2 DEF KeepsWork, IInv, VerificationKind
    <2>3. CASE work' = Scheduled(done, a) /\ action[a].state # "none"
      <3>1. \A u \in Works : \/ work'[u] = done[u]
                             \/ /\ Attempt(u) = a /\ done[u].state = "absent" /\ ~IsSource(u)
                                /\ work'[u] = Queued(u)
        <4>1. \A u \in Works :
                \/ Scheduled(done, a)[u] = done[u]
                \/ /\ u \in Verifications(a) /\ done[u].state = "absent"
                   /\ Scheduled(done, a)[u] = Queued(u)
          BY <1>0, <1>1, <1>2, ScheduledFacts
        <4> QED BY <4>1, <2>3, <1>1, WorkFacts
      <3>2. work' \in WorkType
        BY <2>3, <1>1, <1>2, ScheduledFacts DEF IInv, TypeOK
      <3>3. \A u \in Works : Queued(u).state = "queued"
                             /\ (~IsSource(u) => Queued(u).kind = "verify_action")
        BY QueuedFacts DEF IInv, TypeOK
      <3> QED BY <2>3, <3>1, <3>2, <3>3, <1>1, <1>2 DEF KeepsWork, IInv, VerificationKind
    <2> QED BY <2>1, <2>2, <2>3, <1>3 DEF AfterFinalization, Active, Verified, done
  <1>5. lease' \in [Targets -> (Works \X Controllers) \cup {None}]
    BY DEF Finalize, FinalizeWork, IInv, TypeOK, StoreTypeOK
  <1>6. disposed' \in [Sources -> {"none", "triaged", "out_of_scope"}]
    BY DEF Finalize, FinalizeWork, Dispose, IInv, TypeOK, StoreTypeOK
  <1>7. StoreTypeOK'
    BY <1>3, <1>4, <1>5, <1>6 DEF IInv, TypeOK, StoreTypeOK, KeepsWork, WorkType
  <1>8. MovesTo(c, Idle)
    BY DEF Finalize, GotoIdle, MovesTo, Idle, Running, ExecType, Steps, ActionStates
  <1> QED BY <1>3, <1>4, <1>7, <1>8, QuietStep

\* Scheduling the verification of an attempt that has a reservation.
LEMMA ScheduledKeeps ==
  ASSUME IInv, NEW a \in Attempts, action[a].state # "none",
         work' = Scheduled(work, a)
  PROVE  KeepsWork
  <1>1. StoreTypeOK /\ work \in WorkType
    BY DEF IInv, TypeOK, StoreTypeOK, WorkType
  <1>2. /\ work' \in WorkType
        /\ \A u \in Works : \/ work'[u] = work[u]
                            \/ /\ u \in Verifications(a) /\ work[u].state = "absent"
                               /\ work'[u] = Queued(u)
    BY <1>1, ScheduledFacts
  <1>3. \A u \in Works : Queued(u).state = "queued"
                         /\ (~IsSource(u) => Queued(u).kind = "verify_action")
    BY <1>1, QueuedFacts
  <1> QED BY <1>2, <1>3, WorkFacts DEF KeepsWork, IInv, VerificationKind

\* A submission is recorded, or a lost one declared uncertain.
LEMMA SubmissionStep ==
  ASSUME IInv, NEW c \in Controllers, RecordSubmission(c) \/ Recover(c)
  PROVE  IInv'
  <1> DEFINE w == WorkOf(c)
             a == Attempt(w)
  <1>1. /\ w \in Works /\ a \in Attempts /\ work[w].state # "absent"
        /\ exec[c] \in ExecType /\ (exec[c].own => IsSource(w))
    BY WorkFacts
    DEF IInv, TypeOK, ExecType, Working, At, RecordSubmission, Recover
  <1>2. PICK expected, state, known :
          /\ state \in {"submitted", "uncertain"} /\ known \in BOOLEAN
          /\ RecordActionSubmission(c, w, expected, state, known)
    BY DEF RecordSubmission, Recover, At, ActionFor
  <1>3. /\ action[a].state \in Active
        /\ work' = Scheduled(work, a)
        /\ UNCHANGED <<control, admitted, head, disposed, lease, fence, writes, denied>>
        /\ action' = [action EXCEPT ![a] =
                        [state |-> state, known |-> @.known \/ known, throttled |-> @.throttled]]
    BY <1>2 DEF RecordActionSubmission
  <1>4. UNCHANGED <<posts, remote>>
    BY DEF RecordSubmission, Recover, envVars
  <1>5. KeepsWork
    BY <1>1, <1>3, ScheduledKeeps DEF Active
  <1>6. /\ action' \in [Attempts -> [state: ActionStates, known: BOOLEAN, throttled: BOOLEAN]]
        /\ KeepsActions
    <2>1. PICK k : k = (action[a].known \/ known)
      OBVIOUS
    <2>2. k \in BOOLEAN
      BY <2>1
    <2>3. action' = [action EXCEPT ![a] =
                       [state |-> state, known |-> k, throttled |-> action[a].throttled]]
      BY <1>3, <2>1
    <2> QED BY <1>1, <1>2, <1>3, <2>2, <2>3
        DEF IInv, TypeOK, StoreTypeOK, ActionStates, Active, KeepsActions
  <1>7. StoreTypeOK'
    BY <1>3, <1>5, <1>6 DEF IInv, TypeOK, StoreTypeOK, KeepsWork, WorkType
  <1>8. PICK e : e = [exec[c] EXCEPT !.pc = "submitted"]
    OBVIOUS
  <1>9. /\ e \in ExecType /\ e.pc = "submitted" /\ e.work = w /\ e.own = exec[c].own
        /\ exec' = [exec EXCEPT ![c] = e]
    BY <1>1, <1>8 DEF RecordSubmission, Recover, Goto, WorkOf, ExecType, Steps, IInv, TypeOK
  <1>10. MovesTo(c, e)
    BY <1>1, <1>5, <1>9 DEF MovesTo, KeepsWork, Submitting
  <1> QED BY <1>3, <1>4, <1>5, <1>6, <1>7, <1>10, QuietStep

-----------------------------------------------------------------------------
(* Steps that begin or end an action, and the service's own.               *)

\* No attempt is the value that stands for no attempt.
LEMMA NoneIsNoAttempt == None \notin Attempts
  BY NoneAssumption

\* A reservation: its target was free, so it is fenced for one attempt; and
\* nobody else has ever held the attempt's request.
LEMMA ReserveStep ==
  ASSUME IInv, NEW c \in Controllers, Reserve(c)
  PROVE  IInv'
  <1>0. PICK w, a, t : w = WorkOf(c) /\ a = Attempt(w) /\ t = Target(a)
    OBVIOUS
  <1>1. /\ w \in Works /\ a \in Attempts /\ t \in Targets
        /\ work[w].state # "absent"
        /\ exec[c] \in ExecType
    BY <1>0, WorkFacts DEF IInv, TypeOK, ExecType, Working, At, Reserve, Fresh
  <1>2. /\ IsSource(w)
        /\ action[a].state = "none"
        /\ fence[t] = None
        /\ action' = [action EXCEPT ![a].state = "reserved"]
        /\ fence' = [fence EXCEPT ![t] = a]
        /\ work' = Scheduled(work, a)
        /\ UNCHANGED <<control, admitted, head, disposed, lease, denied, posts, remote>>
        /\ writes' = IF a[2] = 0 THEN [writes EXCEPT ![Incident(a)] = @ + 1] ELSE writes
    BY <1>0 DEF Reserve, ReserveAction, TargetFree, envVars
  <1>3. PICK e : e = [exec[c] EXCEPT !.pc = "posting", !.seen = "reserved", !.own = TRUE]
    OBVIOUS
  <1>4. /\ e \in ExecType /\ e.pc = "posting" /\ e.work = w /\ e.own
        /\ exec' = [exec EXCEPT ![c] = e]
        /\ exec'[c] = e
        /\ \A d \in Controllers : d # c => exec'[d] = exec[d]
    BY <1>0, <1>1, <1>3 DEF Reserve, WorkOf, ExecType, Steps, ActionStates, Active, IInv, TypeOK
  <1>5. /\ action'[a].state = "reserved"
        /\ \A b \in Attempts : b # a => action'[b] = action[b]
        /\ action' \in [Attempts -> [state: ActionStates, known: BOOLEAN, throttled: BOOLEAN]]
    <2>1. action \in [Attempts -> [state: ActionStates, known: BOOLEAN, throttled: BOOLEAN]]
      BY DEF IInv, TypeOK, StoreTypeOK
    <2>2. "reserved" \in ActionStates
      BY DEF ActionStates, Active
    <2>3. PICK r : r = [action[a] EXCEPT !.state = "reserved"]
      OBVIOUS
    <2>4. r \in [state: ActionStates, known: BOOLEAN, throttled: BOOLEAN] /\ r.state = "reserved"
      BY <1>1, <2>1, <2>2, <2>3
    <2>5. action' = [action EXCEPT ![a] = r]
      BY <1>2, <2>3
    <2> QED BY <1>1, <2>1, <2>4, <2>5
  <1>6. /\ \A v \in Verifications(a) : work[v].state = "absent"
        /\ posts[a] = 0 /\ remote[a] = "none"
    BY <1>1, <1>2 DEF IInv, NothingBefore
  <1>7. StoreTypeOK /\ work \in WorkType
    BY DEF IInv, TypeOK, StoreTypeOK, WorkType
  <1>8. /\ work' \in WorkType
        /\ \A u \in Works : \/ work'[u] = work[u]
                            \/ /\ u \in Verifications(a) /\ work[u].state = "absent"
                               /\ work'[u] = Queued(u)
    BY <1>1, <1>2, <1>7, ScheduledFacts
  <1>9. \A u \in Works : /\ Queued(u).state = "queued"
                         /\ ~IsSource(u) => Queued(u).kind = "verify_action"
    BY <1>7, QueuedFacts
  <1>10. TypeOK'
    <2>0. fence' \in [Targets -> Attempts \cup {None}]
      BY <1>1, <1>2 DEF IInv, TypeOK, StoreTypeOK
    <2>1. writes' \in [Incidents -> Nat]
      <3>1. Incident(a) \in Incidents /\ writes \in [Incidents -> Nat]
        BY <1>1, WorkFacts DEF IInv, TypeOK, StoreTypeOK
      <3>2. writes' = writes \/ writes' = [writes EXCEPT ![Incident(a)] = @ + 1]
        BY <1>2
      <3> QED BY <3>1, <3>2
    <2>2. StoreTypeOK'
      BY <2>0, <2>1, <1>2, <1>5, <1>8 DEF IInv, TypeOK, StoreTypeOK, WorkType
    <2> QED BY <2>2, <1>2, <1>4 DEF IInv, TypeOK, ExecType
  <1>11. FenceExact'
    <2> SUFFICES ASSUME NEW u \in Targets
                 PROVE  ActiveOn(u)' = IF fence'[u] = None THEN {} ELSE {fence'[u]}
      BY DEF FenceExact
    <2>1. CASE u = t
      <3>1. ActiveOn(t) = {} /\ fence'[t] = a
        BY <1>0, <1>1, <1>2 DEF IInv, TypeOK, StoreTypeOK, FenceExact
      <3>2. ActiveOn(t)' = {a}
        BY <1>0, <3>1, <1>1, <1>5 DEF ActiveOn, Active
      <3> QED BY <3>1, <3>2, <2>1, <1>1, NoneIsNoAttempt
    <2>2. CASE u # t
      <3>1. fence'[u] = fence[u]
        BY <2>2, <1>2 DEF IInv, TypeOK, StoreTypeOK
      <3>2. ActiveOn(u)' = ActiveOn(u)
        BY <1>0, <2>2, <1>5 DEF ActiveOn
      <3> QED BY <3>1, <3>2 DEF IInv, FenceExact
    <2> QED BY <2>1, <2>2
  <1>12. SubmitInsideFence'
    <2> SUFFICES ASSUME NEW d \in Controllers, exec'[d].pc = "posting",
                        ActionOf[Target(Attempt(exec'[d].work))] # "configuration"
                 PROVE  fence'[Target(Attempt(exec'[d].work))] = Attempt(exec'[d].work)
      BY DEF SubmitInsideFence, ActionFor, AttemptOf, WorkOf
    <2>1. CASE d = c
      BY <1>0, <2>1, <1>1, <1>2, <1>4 DEF IInv, TypeOK, StoreTypeOK
    <2>2. CASE d # c
      <3>1. /\ exec'[d] = exec[d] /\ exec[d].work \in Works
            /\ Attempt(exec[d].work) \in Attempts /\ Target(Attempt(exec[d].work)) \in Targets
        BY <2>2, <1>4, WorkFacts DEF IInv, Working, At, WorkOf
      <3>2. fence[Target(Attempt(exec[d].work))] = Attempt(exec[d].work)
        BY <3>1 DEF IInv, SubmitInsideFence, ActionFor, AttemptOf, WorkOf
      <3>3. Target(Attempt(exec[d].work)) # t
        BY <1>0, <3>1, <3>2, <1>2, NoneIsNoAttempt
      <3> QED BY <3>1, <3>2, <3>3, <1>2 DEF IInv, TypeOK, StoreTypeOK
    <2> QED BY <2>1, <2>2
  <1>13. UnverifiedIsPolled'
    <2> SUFFICES ASSUME NEW b \in Attempts, action'[b].state \in Active
                 PROVE  \E v \in Verifications(b) : work'[v].state \in {"queued", "leased"}
      BY DEF UnverifiedIsPolled
    <2>1. CASE b = a
      <3>1. work[<<a, ActionRevision(a)>>].state = "absent"
        BY <1>1, <1>6, RevisionFacts
      <3> QED BY <2>1, <3>1, <1>1, <1>2, <1>7, ScheduledRuns
    <2>2. CASE b # a
      <3>1. PICK v \in Verifications(b) : work[v].state \in {"queued", "leased"}
        BY <2>2, <1>5 DEF IInv, UnverifiedIsPolled
      <3>2. v \in Works /\ work'[v] = work[v]
        BY <3>1, <1>8, WorkFacts
      <3> QED BY <3>1, <3>2
    <2> QED BY <2>1, <2>2
  <1>14. Working'
    <2> SUFFICES ASSUME NEW d \in Controllers, exec'[d].pc # "idle"
                 PROVE  /\ exec'[d].work \in Works
                        /\ work'[exec'[d].work].state # "absent"
                        /\ exec'[d].own => IsSource(exec'[d].work)
                        /\ exec'[d].pc \in Submitting =>
                             exec'[d].own /\ action'[Attempt(exec'[d].work)].state # "none"
                        /\ exec'[d].pc = "posting" => posts[Attempt(exec'[d].work)] = 0
                        /\ exec'[d].pc \in {"throttled", "refused"} =>
                             remote[Attempt(exec'[d].work)] = "none"
                        /\ (exec'[d].pc = "finalizing" /\ ~IsSource(exec'[d].work)) =>
                             action'[Attempt(exec'[d].work)].state \notin Active
      BY <1>2 DEF Working, At, WorkOf, AttemptOf, StateOf
    <2>1. CASE d = c
      BY <1>0, <2>1, <1>1, <1>2, <1>4, <1>5, <1>6, <1>8, <1>9
    <2>2. CASE d # c
      <3>1. /\ exec'[d] = exec[d] /\ exec[d].work \in Works
            /\ Attempt(exec[d].work) \in Attempts
            /\ work[exec[d].work].state # "absent"
            /\ work'[exec[d].work].state # "absent"
        BY <2>2, <1>4, <1>8, <1>9, WorkFacts DEF IInv, Working, At, WorkOf
      <3>2. ~IsSource(exec[d].work) => Attempt(exec[d].work) # a
        BY <3>1, <1>6, WorkFacts
      <3> QED BY <3>1, <3>2, <1>5 DEF IInv, Working, At, WorkOf, AttemptOf, StateOf
    <2> QED BY <2>1, <2>2
  <1>15. OneSubmitter'
    <2>1. \A d \in Controllers : exec[d].pc \in Submitting => Attempt(exec[d].work) # a
      BY <1>2 DEF IInv, Working, At, WorkOf, AttemptOf, StateOf, Submitting
    <2>2. \A d, b \in Controllers :
            (d # b /\ exec[d].pc \in Submitting /\ exec[b].pc \in Submitting)
              => Attempt(exec[d].work) # Attempt(exec[b].work)
      BY DEF IInv, OneSubmitter, AttemptOf, WorkOf
    <2>3. \A d, b \in Controllers :
            (d # b /\ exec'[d].pc \in Submitting /\ exec'[b].pc \in Submitting)
              => Attempt(exec'[d].work) # Attempt(exec'[b].work)
      BY <2>1, <2>2, <1>0, <1>4
    <2> QED BY <2>3 DEF OneSubmitter, AttemptOf, WorkOf
  <1>16. SubmittedOnce' /\ RecordedIsReal'
    BY <1>2, <1>5 DEF IInv, SubmittedOnce, RecordedIsReal
  <1>17. NothingBefore'
    BY <1>2, <1>5, <1>8, WorkFacts DEF IInv, NothingBefore
  <1>18. VerificationKind'
    BY <1>8, <1>9 DEF IInv, VerificationKind
  <1> QED BY <1>10, <1>11, <1>12, <1>13, <1>14, <1>15, <1>16, <1>17, <1>18 DEF IInv

\* What the invariant says of an execution that has not ended, in terms of
\* the variables alone.
LEMMA WorkingFacts ==
  ASSUME IInv, NEW d \in Controllers, exec[d].pc # "idle"
  PROVE  /\ exec[d].work \in Works
         /\ Attempt(exec[d].work) \in Attempts
         /\ Target(Attempt(exec[d].work)) \in Targets
         /\ work[exec[d].work].state # "absent"
         /\ exec[d].own => IsSource(exec[d].work)
         /\ exec[d].pc \in Submitting =>
              exec[d].own /\ action[Attempt(exec[d].work)].state # "none"
         /\ exec[d].pc = "posting" => posts[Attempt(exec[d].work)] = 0
         /\ exec[d].pc \in {"throttled", "refused"} => remote[Attempt(exec[d].work)] = "none"
         /\ (exec[d].pc = "finalizing" /\ ~IsSource(exec[d].work)) =>
              action[Attempt(exec[d].work)].state \notin Active
  BY WorkFacts DEF IInv, Working, At, WorkOf, AttemptOf, StateOf

\* The fenced attempt of a target is active, and an active one is fenced.
LEMMA FencedIsActive ==
  ASSUME IInv, NEW a \in Attempts
  PROVE  fence[Target(a)] = a <=> action[a].state \in Active
  <1>1. Target(a) \in Targets
    BY WorkFacts
  <1>2. a \in ActiveOn(Target(a)) <=> action[a].state \in Active
    BY DEF ActiveOn
  <1>3. ActiveOn(Target(a)) = IF fence[Target(a)] = None THEN {} ELSE {fence[Target(a)]}
    BY <1>1 DEF IInv, FenceExact
  <1> QED BY <1>2, <1>3, NoneIsNoAttempt

\* The request is sent, once: inside the fence when it starts a job.
LEMMA PostStep ==
  ASSUME IInv, NEW c \in Controllers, Post(c)
  PROVE  IInv'
  <1>0. PICK a : a = Attempt(exec[c].work)
    OBVIOUS
  <1>1. /\ exec[c].pc = "posting" /\ exec[c].pc # "idle" /\ exec[c].pc \in Submitting
        /\ exec[c] \in ExecType
        /\ UNCHANGED <<control, admitted, head, disposed, work, lease, action, fence, writes, denied>>
        /\ posts' = [posts EXCEPT ![a] = @ + 1]
        /\ remote' = remote \/ remote' = [remote EXCEPT ![a] = Accepted(a)]
    BY <1>0 DEF IInv, TypeOK, ExecType, Post, At, AttemptOf, WorkOf, storeVars, Submitting
  <1>2. /\ a \in Attempts /\ exec[c].work \in Works /\ Target(a) \in Targets
        /\ posts[a] = 0 /\ remote[a] = "none" /\ exec[c].own
        /\ action[a].state # "none"
        /\ work[exec[c].work].state # "absent" /\ IsSource(exec[c].work)
    <2>1. /\ a \in Attempts /\ exec[c].work \in Works /\ Target(a) \in Targets
          /\ posts[a] = 0 /\ exec[c].own /\ action[a].state # "none"
          /\ work[exec[c].work].state # "absent" /\ IsSource(exec[c].work)
      BY <1>0, <1>1, WorkingFacts
    <2> QED BY <2>1 DEF IInv, NothingBefore
  <1>3. PICK p \in {"acked", "unacked", "throttled", "refused"} :
          /\ exec' = [exec EXCEPT ![c].pc = p]
          /\ p \in {"throttled", "refused"} => remote' = remote
    BY DEF Post, Goto
  <1>4. /\ exec'[c].pc = p /\ exec'[c].work = exec[c].work /\ exec'[c].own = exec[c].own
        /\ \A d \in Controllers : d # c => exec'[d] = exec[d]
        /\ exec' \in [Controllers -> ExecType]
        /\ p \in Submitting /\ p # "posting" /\ p # "idle" /\ p # "finalizing"
    BY <1>1, <1>3 DEF IInv, TypeOK, ExecType, Steps, Submitting
  <1>5. /\ posts'[a] = 1 /\ \A b \in Attempts : b # a => posts'[b] = posts[b] /\ remote'[b] = remote[b]
        /\ posts' \in [Attempts -> Nat]
        /\ remote' \in [Attempts -> {"none", "running", "succeeded", "failed"}]
    BY <1>1, <1>2 DEF IInv, TypeOK, Accepted
  <1>6. \A d \in Controllers : d # c /\ exec[d].pc \in Submitting => Attempt(exec[d].work) # a
    BY <1>0, <1>1 DEF IInv, OneSubmitter, AttemptOf, WorkOf
  <1>7. TypeOK'
    BY <1>1, <1>4, <1>5 DEF IInv, TypeOK, StoreTypeOK, ExecType
  <1>8. FenceExact' /\ UnverifiedIsPolled' /\ VerificationKind'
    BY <1>1 DEF IInv, FenceExact, ActiveOn, UnverifiedIsPolled, VerificationKind
  <1>9. SubmittedOnce'
    BY <1>5 DEF IInv, SubmittedOnce
  <1>10. SubmitInsideFence'
    BY <1>1, <1>4 DEF IInv, SubmitInsideFence, ActionFor, AttemptOf, WorkOf
  <1>11. RecordedIsReal'
    <2>1. ActionOf[Target(a)] # "configuration" => action[a].state \in Active
      BY <1>0, <1>1, <1>2, FencedIsActive DEF IInv, SubmitInsideFence, ActionFor, AttemptOf, WorkOf
    <2> QED BY <2>1, <1>1, <1>5 DEF IInv, RecordedIsReal, Active
  <1>12. Working'
    <2> SUFFICES ASSUME NEW d \in Controllers, exec'[d].pc # "idle"
                 PROVE  /\ exec'[d].work \in Works
                        /\ work[exec'[d].work].state # "absent"
                        /\ exec'[d].own => IsSource(exec'[d].work)
                        /\ exec'[d].pc \in Submitting =>
                             exec'[d].own /\ action[Attempt(exec'[d].work)].state # "none"
                        /\ exec'[d].pc = "posting" => posts'[Attempt(exec'[d].work)] = 0
                        /\ exec'[d].pc \in {"throttled", "refused"} =>
                             remote'[Attempt(exec'[d].work)] = "none"
                        /\ (exec'[d].pc = "finalizing" /\ ~IsSource(exec'[d].work)) =>
                             action[Attempt(exec'[d].work)].state \notin Active
      BY <1>1 DEF Working, At, WorkOf, AttemptOf, StateOf
    <2>1. CASE d = c
      BY <2>1, <1>0, <1>2, <1>3, <1>4
    <2>2. CASE d # c
      <3>1. exec'[d] = exec[d] /\ exec[d].pc # "idle"
        BY <2>2, <1>4
      <3>2. exec[d].pc \in {"posting", "throttled", "refused"} => Attempt(exec[d].work) # a
        BY <2>2, <1>6 DEF Submitting
      <3> QED BY <3>1, <3>2, <1>5, WorkingFacts
    <2> QED BY <2>1, <2>2
  <1>13. OneSubmitter'
    <2>1. \A d, b \in Controllers :
            (d # b /\ exec'[d].pc \in Submitting /\ exec'[b].pc \in Submitting)
              => Attempt(exec'[d].work) # Attempt(exec'[b].work)
      BY <1>1, <1>4 DEF IInv, OneSubmitter, AttemptOf, WorkOf
    <2> QED BY <2>1 DEF OneSubmitter, AttemptOf, WorkOf
  <1>14. NothingBefore'
    BY <1>1, <1>2, <1>5 DEF IInv, NothingBefore
  <1> QED BY <1>7, <1>8, <1>9, <1>10, <1>11, <1>12, <1>13, <1>14 DEF IInv

\* A run ends: it was running, so nothing had been recorded of its end.
LEMMA RunEndsStep ==
  ASSUME IInv, NEW a \in Attempts, RunEnds(a)
  PROVE  IInv'
  <1>1. /\ UNCHANGED <<control, admitted, head, disposed, work, lease, action, fence,
                       writes, denied, exec, posts>>
        /\ remote[a] = "running"
        /\ \A b \in Attempts : b # a => remote'[b] = remote[b]
        /\ remote' \in [Attempts -> {"none", "running", "succeeded", "failed"}]
    BY DEF IInv, TypeOK, RunEnds, storeVars
  <1>2. TypeOK' /\ FenceExact' /\ SubmittedOnce' /\ UnverifiedIsPolled' /\ VerificationKind'
    BY <1>1 DEF IInv, TypeOK, StoreTypeOK, FenceExact, ActiveOn, SubmittedOnce,
                UnverifiedIsPolled, VerificationKind
  <1>3. SubmitInsideFence' /\ OneSubmitter'
    BY <1>1 DEF IInv, SubmitInsideFence, OneSubmitter, ActionFor, AttemptOf, WorkOf
  <1>4. RecordedIsReal'
    BY <1>1 DEF IInv, RecordedIsReal
  <1>5. NothingBefore'
    BY <1>1 DEF IInv, NothingBefore
  <1>6. Working'
    <2> SUFFICES ASSUME NEW d \in Controllers, exec[d].pc # "idle",
                        exec[d].pc \in {"throttled", "refused"}
                 PROVE  remote'[Attempt(exec[d].work)] = "none"
      BY <1>1 DEF IInv, Working, At, WorkOf, AttemptOf, StateOf
    <2> QED BY <1>1, WorkingFacts
  <1> QED BY <1>2, <1>3, <1>4, <1>5, <1>6 DEF IInv

\* Queued verifications of the attempt are dispositioned, source work may be
\* queued, and nothing else happens to the works.
EndsPolls(a) == \A w \in Works :
  \/ work'[w].state = work[w].state /\ work'[w].kind = work[w].kind
  \/ IsSource(w) /\ work'[w].state # "absent"
  \/ /\ w \in Verifications(a) /\ work[w].state = "queued"
     /\ work'[w].state = "dispositioned" /\ work'[w].kind = work[w].kind

\* An action ends, and with it the fence of its target: no other attempt was
\* active there, and no job request of it is still to be sent.
LEMMA EndStep ==
  ASSUME IInv, StoreTypeOK', NEW a \in Attempts, NEW c, NEW e,
         action[a].state \in Active,
         action'[a].state \in Verified \cup {"rejected"},
         \A b \in Attempts : b # a => action'[b] = action[b],
         fence' = [fence EXCEPT ![Target(a)] = None],
         UNCHANGED <<posts, remote>>,
         KeepsWork \/ EndsPolls(a),
         MovesTo(c, e),
         \A d \in Controllers : exec[d].pc = "posting" /\ Attempt(exec[d].work) = a
                                  => ActionOf[Target(a)] = "configuration",
         ActionOf[Target(a)] # "configuration" =>
           /\ action'[a].state = "verified_succeeded" => remote[a] = "succeeded"
           /\ action'[a].state = "verified_failed" => remote[a] = "failed"
           /\ action'[a].state = "rejected" => remote[a] = "none"
  PROVE  IInv'
  <1>1. Target(a) \in Targets /\ fence[Target(a)] = a
    BY WorkFacts, FencedIsActive
  <1>2. /\ action'[a].state \notin Active /\ action'[a].state # "none" /\ action[a].state # "none"
        /\ \A b \in Attempts : action'[b].state \in Active => b # a /\ action[b].state \in Active
        /\ \A b \in Attempts : action'[b].state = "none" <=> action[b].state = "none"
    BY DEF Active, Verified
  <1>3. \A d \in Controllers : exec'[d] = exec[d] \/ (d = c /\ exec'[d] = e)
    BY DEF IInv, TypeOK, MovesTo
  <1>4. \A w \in Works :
          /\ work[w].state # "absent" => work'[w].state # "absent"
          /\ ~IsSource(w) =>
               /\ work'[w].kind \in {"verify_action", "finalize"}
               /\ (work[w].state = "absent" /\ action[Attempt(w)].state = "none")
                    => work'[w].state = "absent"
               /\ (work[w].state \in {"queued", "leased"} /\ Attempt(w) # a
                     /\ action[Attempt(w)].state \in Active)
                    => work'[w].state \in {"queued", "leased"}
    BY WorkFacts DEF KeepsWork, EndsPolls, IInv, VerificationKind
  <1>5. TypeOK'
    BY DEF IInv, TypeOK, MovesTo, ExecType
  <1>6. FenceExact'
    <2> SUFFICES ASSUME NEW u \in Targets
                 PROVE  ActiveOn(u)' = IF fence'[u] = None THEN {} ELSE {fence'[u]}
      BY DEF FenceExact
    <2>1. ActiveOn(u) = IF fence[u] = None THEN {} ELSE {fence[u]}
      BY DEF IInv, FenceExact
    <2>2. ActiveOn(u)' = ActiveOn(u) \ {a}
      BY <1>2 DEF ActiveOn
    <2>3. fence'[u] = IF u = Target(a) THEN None ELSE fence[u]
      BY DEF IInv, TypeOK, StoreTypeOK
    <2>4. CASE u = Target(a)
      BY <2>1, <2>2, <2>3, <2>4, <1>1, NoneIsNoAttempt
    <2>5. CASE u # Target(a)
      <3>1. a \notin ActiveOn(u)
        BY <2>5 DEF ActiveOn
      <3> QED BY <2>1, <2>2, <2>3, <2>5, <3>1
    <2> QED BY <2>4, <2>5
  <1>7. SubmittedOnce'
    BY DEF IInv, SubmittedOnce
  <1>8. SubmitInsideFence'
    <2> SUFFICES ASSUME NEW d \in Controllers, exec'[d].pc = "posting",
                        ActionOf[Target(Attempt(exec'[d].work))] # "configuration"
                 PROVE  fence'[Target(Attempt(exec'[d].work))] = Attempt(exec'[d].work)
      BY DEF SubmitInsideFence, ActionFor, AttemptOf, WorkOf
    <2>1. exec'[d] = exec[d]
      BY <1>3 DEF MovesTo, Submitting
    <2>2. /\ Attempt(exec[d].work) \in Attempts /\ Target(Attempt(exec[d].work)) \in Targets
          /\ fence[Target(Attempt(exec[d].work))] = Attempt(exec[d].work)
      BY <2>1, WorkingFacts DEF IInv, SubmitInsideFence, ActionFor, AttemptOf, WorkOf
    <2>3. Target(Attempt(exec[d].work)) # Target(a)
      BY <2>1, <2>2, <1>1
    <2> QED BY <2>1, <2>2, <2>3 DEF IInv, TypeOK, StoreTypeOK
  <1>9. UnverifiedIsPolled'
    <2> SUFFICES ASSUME NEW b \in Attempts, action'[b].state \in Active
                 PROVE  \E v \in Verifications(b) : work'[v].state \in {"queued", "leased"}
      BY DEF UnverifiedIsPolled
    <2>1. PICK v \in Verifications(b) : work[v].state \in {"queued", "leased"}
      BY <1>2 DEF IInv, UnverifiedIsPolled
    <2> QED BY <2>1, <1>2, <1>4, WorkFacts
  <1>10. RecordedIsReal'
    BY DEF IInv, RecordedIsReal
  <1>11. Working'
    <2> SUFFICES ASSUME NEW d \in Controllers, exec'[d].pc # "idle"
                 PROVE  /\ exec'[d].work \in Works
                        /\ work'[exec'[d].work].state # "absent"
                        /\ exec'[d].own => IsSource(exec'[d].work)
                        /\ exec'[d].pc \in Submitting =>
                             exec'[d].own /\ action'[Attempt(exec'[d].work)].state # "none"
                        /\ exec'[d].pc = "posting" => posts[Attempt(exec'[d].work)] = 0
                        /\ exec'[d].pc \in {"throttled", "refused"} =>
                             remote[Attempt(exec'[d].work)] = "none"
                        /\ (exec'[d].pc = "finalizing" /\ ~IsSource(exec'[d].work)) =>
                             action'[Attempt(exec'[d].work)].state \notin Active
      BY DEF Working, At, WorkOf, AttemptOf, StateOf
    <2>1. CASE exec'[d] = exec[d]
      BY <2>1, <1>2, <1>4, WorkingFacts
    <2>2. CASE exec'[d] = e
      BY <2>2, <1>2, WorkFacts DEF MovesTo, Submitting
    <2> QED BY <1>3, <2>1, <2>2
  <1>12. OneSubmitter'
    BY <1>3 DEF IInv, OneSubmitter, MovesTo, Submitting, AttemptOf, WorkOf
  <1>13. NothingBefore'
    BY <1>2, <1>4, WorkFacts DEF IInv, NothingBefore
  <1>14. VerificationKind'
    BY <1>4 DEF VerificationKind
  <1> QED BY <1>5, <1>6, <1>7, <1>8, <1>9, <1>10, <1>11, <1>12, <1>13, <1>14 DEF IInv

\* A definite rejection: only the execution that sent the request reports
\* one, and the service had done nothing.
LEMMA RejectionStep ==
  ASSUME IInv, NEW c \in Controllers, RecordRejection(c)
  PROVE  IInv'
  <1>0. PICK w, a, next : w = exec[c].work /\ a = Attempt(w) /\ next = SourceWork(Successor(a))
    OBVIOUS
  <1>1. /\ exec[c].pc \in {"throttled", "refused"} /\ exec[c].pc # "idle" /\ exec[c].pc \in Submitting
        /\ RecordActionRejection(c, w, At(c, "throttled"))
        /\ exec' = [exec EXCEPT ![c] = Running("finalizing", w)]
        /\ UNCHANGED <<posts, remote>>
    BY <1>0 DEF RecordRejection, WorkOf, GotoFinalizing, envVars, Submitting
  <1>2. /\ w \in Works /\ a \in Attempts /\ Target(a) \in Targets
        /\ work[w].state # "absent" /\ IsSource(w) /\ remote[a] = "none"
    BY <1>0, <1>1, WorkingFacts
  <1>3. PICK throttled \in BOOLEAN : throttled = At(c, "throttled")
    BY DEF At
  <1>4. /\ action[a].state = "reserved"
        /\ action' = [action EXCEPT ![a] =
                        [state |-> "rejected", known |-> @.known, throttled |-> throttled]]
        /\ fence' = [fence EXCEPT ![Target(a)] = None]
        /\ UNCHANGED <<control, admitted, head, disposed, lease, writes, denied>>
        /\ \/ work' = PollsEnded(work, a)
           \/ /\ a[2] < MaxAttempts
              /\ work' = [PollsEnded(work, a) EXCEPT ![next] = Queued(next)]
    BY <1>0, <1>1, <1>3 DEF RecordActionRejection, GrantsSuccessor
  <1>5. /\ action'[a].state = "rejected"
        /\ \A b \in Attempts : b # a => action'[b] = action[b]
        /\ action' \in [Attempts -> [state: ActionStates, known: BOOLEAN, throttled: BOOLEAN]]
    BY <1>2, <1>3, <1>4 DEF IInv, TypeOK, StoreTypeOK, ActionStates
  <1>6. work' \in WorkType /\ EndsPolls(a)
    <2>1. StoreTypeOK /\ work \in WorkType
      BY DEF IInv, TypeOK, StoreTypeOK, WorkType
    <2>2. /\ PollsEnded(work, a) \in WorkType
          /\ \A u \in Works :
               \/ PollsEnded(work, a)[u] = work[u]
               \/ /\ u \in Verifications(a) /\ work[u].state = "queued"
                  /\ PollsEnded(work, a)[u] = [work[u] EXCEPT !.state = "dispositioned"]
      BY <1>2, <2>1, PollsEndedFacts
    <2>3. \A u \in Works :
               \/ PollsEnded(work, a)[u] = work[u]
               \/ /\ u \in Verifications(a) /\ work[u].state = "queued"
                  /\ PollsEnded(work, a)[u].state = "dispositioned"
                  /\ PollsEnded(work, a)[u].kind = work[u].kind
      BY <2>1, <2>2 DEF WorkType
    <2>4. CASE work' = PollsEnded(work, a)
      BY <2>2, <2>3, <2>4 DEF EndsPolls
    <2>5. CASE a[2] < MaxAttempts /\ work' = [PollsEnded(work, a) EXCEPT ![next] = Queued(next)]
      <3>1. next \in Works /\ IsSource(next)
        BY <1>0, <1>2, <2>5, SuccessorFacts, WorkFacts
      <3>2. /\ Queued(next) \in [state: WorkStates, kind: Kinds, revision: Nat]
            /\ Queued(next).state = "queued"
        BY <3>1, <2>1, QueuedFacts
      <3>3. /\ work' \in WorkType /\ work'[next] = Queued(next)
            /\ \A u \in Works : u # next => work'[u] = PollsEnded(work, a)[u]
        BY <2>2, <2>5, <3>1, <3>2 DEF WorkType
      <3> QED BY <2>3, <3>1, <3>2, <3>3 DEF EndsPolls
    <2> QED BY <2>4, <2>5, <1>4
  <1>7. StoreTypeOK'
    BY <1>2, <1>4, <1>5, <1>6 DEF IInv, TypeOK, StoreTypeOK, WorkType
  <1>8. MovesTo(c, Running("finalizing", w))
    BY <1>1, <1>2, <1>6 DEF MovesTo, Running, ExecType, Steps, ActionStates, Submitting, EndsPolls
  <1>9. \A d \in Controllers : ~(exec[d].pc = "posting" /\ Attempt(exec[d].work) = a)
    BY <1>0, <1>1 DEF IInv, OneSubmitter, AttemptOf, WorkOf, Submitting
  <1>10. action[a].state \in Active /\ action'[a].state \in Verified \cup {"rejected"}
    BY <1>4, <1>5 DEF Active
  <1> QED BY <1>1, <1>2, <1>4, <1>5, <1>6, <1>7, <1>8, <1>9, <1>10, EndStep

\* The outcome of a poll: nothing yet, or the end the service reports.
LEMMA OutcomeStep ==
  ASSUME IInv, NEW c \in Controllers, NEW result \in Verified \cup {"uncertain"},
         RecordOutcome(c, result)
  PROVE  IInv'
  <1>0. PICK w, a : w = exec[c].work /\ a = Attempt(w)
    OBVIOUS
  <1>1. /\ exec[c].pc # "idle"
        /\ RecordActionOutcome(c, w, exec[c].seen, result)
        /\ result \in PollResults(a)
        /\ exec' = [exec EXCEPT ![c] = IF result \in Verified \/ exec[c].own
                                       THEN Running("finalizing", w) ELSE Idle]
        /\ UNCHANGED <<posts, remote>>
    BY <1>0 DEF RecordOutcome, At, WorkOf, AttemptOf, GotoFinalizing, GotoIdle, envVars
  <1>2. /\ w \in Works /\ a \in Attempts /\ Target(a) \in Targets
        /\ work[w].state # "absent" /\ (exec[c].own => IsSource(w))
    BY <1>0, <1>1, WorkingFacts
  <1>3. /\ action[a].state \in Active
        /\ action' = [action EXCEPT ![a].state = result]
        /\ UNCHANGED <<control, admitted, disposed, lease, writes, denied>>
    BY <1>0, <1>1 DEF RecordActionOutcome
  <1>4. /\ action'[a].state = result
        /\ \A b \in Attempts : b # a => action'[b] = action[b]
        /\ action' \in [Attempts -> [state: ActionStates, known: BOOLEAN, throttled: BOOLEAN]]
    BY <1>2, <1>3 DEF IInv, TypeOK, StoreTypeOK, ActionStates, Active, Verified
  <1>5. CASE result = "uncertain"
    <2>1. /\ work' = Scheduled(work, a)
          /\ UNCHANGED <<fence, head>>
      BY <1>0, <1>1, <1>5 DEF RecordActionOutcome, Verified
    <2>2. KeepsWork
      BY <2>1, <1>2, <1>3, ScheduledKeeps DEF Active
    <2>3. StoreTypeOK'
      BY <2>1, <2>2, <1>3, <1>4 DEF IInv, TypeOK, StoreTypeOK, KeepsWork, WorkType
    <2>4. KeepsActions
      BY <1>3, <1>4, <1>5 DEF KeepsActions, Active
    <2>5. MovesTo(c, Running("finalizing", w)) \/ MovesTo(c, Idle)
      <3>1. CASE exec[c].own
        BY <3>1, <1>1, <1>2, <2>2
        DEF MovesTo, Running, ExecType, Steps, ActionStates, Submitting, KeepsWork
      <3>2. CASE ~exec[c].own
        BY <3>2, <1>1, <1>5 DEF MovesTo, Idle, Running, ExecType, Steps, ActionStates, Verified
      <3> QED BY <3>1, <3>2
    <2> QED BY <2>1, <2>2, <2>3, <2>4, <2>5, <1>1, QuietStep
  <1>6. CASE result \in Verified
    <2>1. /\ fence' = [fence EXCEPT ![Target(a)] = None]
          /\ UNCHANGED work
          /\ \/ UNCHANGED head
             \/ \E s \in Sources : NewHead(Target(a), StartOf(s) + 1)
      BY <1>0, <1>1, <1>6 DEF RecordActionOutcome, Verified
    <2>2. head' \in [Targets -> Int]
      BY <2>1, SourcesAssumption DEF IInv, TypeOK, StoreTypeOK, NewHead, StartOf
    <2>3. StoreTypeOK'
      BY <2>1, <2>2, <1>3, <1>4 DEF IInv, TypeOK, StoreTypeOK
    <2>4. KeepsWork
      BY <2>1, SameWork
    <2>5. MovesTo(c, Running("finalizing", w))
      <3>1. action'[a].state \notin Active
        BY <1>4, <1>6 DEF Active, Verified
      <3> QED BY <3>1, <1>0, <1>1, <1>2, <1>6, <2>1
          DEF MovesTo, Running, ExecType, Steps, ActionStates, Submitting
    <2>6. ActionOf[Target(a)] # "configuration" =>
            /\ result = "verified_succeeded" => remote[a] = "succeeded"
            /\ result = "verified_failed" => remote[a] = "failed"
            /\ remote[a] # "none"
      BY <1>1, <1>6 DEF PollResults, Verified
    <2>7. \A d \in Controllers : exec[d].pc = "posting" /\ Attempt(exec[d].work) = a
                                   => ActionOf[Target(a)] = "configuration"
      BY <2>6, <1>2, WorkingFacts DEF IInv, NothingBefore
    <2> QED BY <2>1, <2>3, <2>4, <2>5, <2>6, <2>7, <1>1, <1>2, <1>3, <1>4, <1>6, EndStep DEF Verified
  <1> QED BY <1>5, <1>6

-----------------------------------------------------------------------------
(* The theorems.                                                           *)

\* A step that changes nothing preserves the invariant.
LEMMA StutterStep ==
  ASSUME IInv, UNCHANGED vars
  PROVE  IInv'
  <1>1. UNCHANGED <<control, admitted, head, disposed, work, lease, action, fence,
                    writes, denied, exec, posts, remote>>
    BY DEF vars, storeVars, envVars
  <1>2. StoreTypeOK'
    BY <1>1 DEF IInv, TypeOK, StoreTypeOK
  <1> QED BY <1>1, <1>2, SameWork, QuietStep

\* IInv is inductive: every reachable state of claims, reservations,
\* submissions, polls and finalizations satisfies it.
THEOREM FenceInvariant == Spec => []IInv
  <1>1. IInv /\ [Next]_vars => IInv'
    <2> SUFFICES ASSUME IInv, [Next]_vars PROVE IInv'
      OBVIOUS
    <2>1. CASE UNCHANGED vars
      BY <2>1, StutterStep
    <2>2. CASE Intake
      BY <2>2, IntakeStep
    <2>3. ASSUME NEW t \in Targets, LeaseExpires(t)
          PROVE  IInv'
      BY <2>3, ExpiryStep
    <2>4. ASSUME NEW a \in Attempts, RunEnds(a)
          PROVE  IInv'
      BY <2>4, RunEndsStep
    <2>5. ASSUME NEW c \in Controllers, Execution(c)
          PROVE  IInv'
      <3>1. ASSUME NEW w \in Works, Claim(c, w)
            PROVE  IInv'
        BY <3>1, ClaimStep
      <3>2. CASE Abandon(c)
        BY <3>2, LocalStep
      <3>3. CASE WorkStep(c)
        BY <3>3, LocalStep, DeniedStep, ReserveStep, PostStep, SubmissionStep,
           RejectionStep, OutcomeStep, FinalizeStep
        DEF WorkStep, TriageEnds
      <3> QED BY <2>5, <3>1, <3>2, <3>3 DEF Execution
    <2> QED BY <2>1, <2>2, <2>3, <2>4, <2>5 DEF Next
  <1> QED BY <1>1, InitIInv, PTL DEF Spec

\* At any time a target is fenced exactly by its one unverified action.
THEOREM FenceIsExact == Spec => []FenceExact
  <1>1. IInv => FenceExact
    BY DEF IInv
  <1> QED BY <1>1, FenceInvariant, PTL

\* No reservation is ever submitted twice, whoever takes its work over.
THEOREM SubmissionIsUnique == Spec => []SubmittedOnce
  <1>1. IInv => SubmittedOnce
    BY DEF IInv
  <1> QED BY <1>1, FenceInvariant, PTL

\* A job request leaves an execution, however late, inside the fence.
THEOREM SubmissionIsFenced == Spec => []SubmitInsideFence
  <1>1. IInv => SubmitInsideFence
    BY DEF IInv
  <1> QED BY <1>1, FenceInvariant, PTL

\* No unverified effect is left without a verification that can be run.
THEOREM NoEffectForgotten == Spec => []UnverifiedIsPolled
  <1>1. IInv => UnverifiedIsPolled
    BY DEF IInv
  <1> QED BY <1>1, FenceInvariant, PTL

\* What is recorded of a job is what the service did.
THEOREM RecordsAreReal == Spec => []RecordedIsReal
  <1>1. IInv => RecordedIsReal
    BY DEF IInv
  <1> QED BY <1>1, FenceInvariant, PTL

\* A recorded end is never overwritten, and a reservation never forgotten.
THEOREM TerminalStates == Spec => TerminalIsFinal
  <1> DEFINE Final == \A a \in Attempts :
               /\ action[a].state \in Verified \cup {"rejected"} => action'[a] = action[a]
               /\ action[a].state # "none" => action'[a].state # "none"
  <1>1. IInv /\ [Next]_vars => [Final]_vars
    <2> SUFFICES ASSUME IInv, Next PROVE Final
      OBVIOUS
    <2>1. UNCHANGED action \/ \E a \in Attempts :
            /\ \A b \in Attempts : b # a => action'[b] = action[b]
            /\ action[a].state \in Active \cup {"none"}
            /\ action'[a].state # "none"
      <3>1. CASE Intake
        BY <3>1 DEF Intake, ChangePolicy, IngestFailure, DisposeUnclaimed
      <3>2. ASSUME NEW t \in Targets, LeaseExpires(t)
            PROVE  UNCHANGED action
        BY <3>2 DEF LeaseExpires, ExpireLease
      <3>3. ASSUME NEW a \in Attempts, RunEnds(a)
            PROVE  UNCHANGED action
        BY <3>3 DEF RunEnds, storeVars
      <3>4. ASSUME NEW c \in Controllers, Execution(c)
            PROVE  UNCHANGED action \/ \E a \in Attempts :
                     /\ \A b \in Attempts : b # a => action'[b] = action[b]
                     /\ action[a].state \in Active \cup {"none"}
                     /\ action'[a].state # "none"
        <4>0. ~At(c, "idle") => Attempt(WorkOf(c)) \in Attempts
          BY WorkFacts DEF IInv, Working
        <4>1. CASE (\E w \in Works : Claim(c, w)) \/ Abandon(c) \/ TriageEnds(c)
                   \/ Denied(c) \/ Post(c) \/ BeginPoll(c) \/ StopPolling(c) \/ Wait(c)
                   \/ Settled(c) \/ Finalize(c)
          BY <4>1 DEF Claim, ClaimWork, Abandon, TriageEnds, NoAction, WaitForCandidate, RetryLater,
             Denied, DenyAction, Post, BeginPoll, StopPolling, Wait, Settled, Finalize,
             FinalizeWork, storeVars
        <4>2. CASE Reserve(c)
          BY <4>0, <4>2 DEF Reserve, Fresh, At, ReserveAction, IInv, TypeOK, StoreTypeOK
        <4>3. CASE RecordSubmission(c) \/ Recover(c)
          <5>1. PICK expected, state, known :
                  /\ state \in {"submitted", "uncertain"} /\ known \in BOOLEAN
                  /\ RecordActionSubmission(c, WorkOf(c), expected, state, known)
            BY <4>3 DEF RecordSubmission, Recover, At, ActionFor
          <5> QED BY <4>0, <4>3, <5>1
              DEF RecordSubmission, Recover, At, RecordActionSubmission, IInv, TypeOK, StoreTypeOK
        <4>4. CASE RecordRejection(c)
          BY <4>0, <4>4 DEF RecordRejection, At, RecordActionRejection, Active, IInv, TypeOK, StoreTypeOK
        <4>5. ASSUME NEW result \in Verified \cup {"uncertain"}, RecordOutcome(c, result)
              PROVE  \E a \in Attempts :
                     /\ \A b \in Attempts : b # a => action'[b] = action[b]
                     /\ action[a].state \in Active \cup {"none"}
                     /\ action'[a].state # "none"
          BY <4>0, <4>5 DEF RecordOutcome, At, RecordActionOutcome, Verified, IInv, TypeOK, StoreTypeOK
        <4> QED BY <3>4, <4>1, <4>2, <4>3, <4>4, <4>5 DEF Execution, WorkStep
      <3> QED BY <3>1, <3>2, <3>3, <3>4 DEF Next
    <2> QED BY <2>1 DEF Active, Verified
  <1>2. [][Final]_vars => TerminalIsFinal
    BY PTL DEF TerminalIsFinal
  <1> QED BY <1>1, <1>2, FenceInvariant, PTL DEF Spec
-----------------------------------------------------------------------------
(* The detailed fence implements the abstract one.                         *)

\* What the abstract fence sees of an action's state.
LEMMA FateFacts ==
  ASSUME NEW a \in Attempts, action[a].state \in ActionStates
  PROVE  /\ Fate(a) = "none" <=> action[a].state = "none"
         /\ Fate(a) = "open" <=> action[a].state \in Active
         /\ action[a].state = "rejected" => Fate(a) = "rejected"
         /\ action[a].state = "verified_succeeded" => Fate(a) = "succeeded"
         /\ action[a].state = "verified_failed" => Fate(a) = "failed"
  BY DEF Fate, ActionStates, Active, Verified

\* A step that leaves fences, requests and fates alone is a stutter.
LEMMA FenceStutter ==
  ASSUME UNCHANGED <<fence, posts>>, \A a \in Attempts : Fate(a)' = Fate(a)
  PROVE  UNCHANGED Promise!vars
  BY DEF Promise!vars

\* Neither do an unchanged action's fate nor those of the others change.
LEMMA SameFates ==
  ASSUME UNCHANGED action
  PROVE  \A a \in Attempts : Fate(a)' = Fate(a)
  BY DEF Fate

\* A reservation takes the target.
LEMMA ReserveTakes ==
  ASSUME IInv, IInv', NEW c \in Controllers, Reserve(c)
  PROVE  Promise!Next
  <1> DEFINE a == AttemptOf(c)
  <1>1. a \in Attempts /\ Target(a) \in Targets
    BY WorkFacts DEF IInv, Working, Reserve, Fresh, At, AttemptOf
  <1>2. /\ action[a].state = "none"
        /\ fence[Target(a)] = None
        /\ action' = [action EXCEPT ![a].state = "reserved"]
        /\ fence' = [fence EXCEPT ![Target(a)] = a]
        /\ UNCHANGED posts
    BY DEF Reserve, ReserveAction, TargetFree, AttemptOf, envVars
  <1>3. \A b \in Attempts : Fate(b)' = IF b = a THEN "open" ELSE Fate(b)
    BY <1>1, <1>2 DEF Fate, Active, IInv, TypeOK, StoreTypeOK
  <1>4. Fate(a) = "none"
    BY <1>1, <1>2 DEF Fate, Active
  <1>5. Promise!Take(a)
    BY <1>1, <1>2, <1>3, <1>4 DEF Promise!Take
  <1> QED BY <1>1, <1>5 DEF Promise!Next

\* The request is the first one, and a job's leaves inside the fence.
LEMMA PostSends ==
  ASSUME IInv, NEW c \in Controllers, Post(c)
  PROVE  Promise!Next
  <1>0. PICK a \in Attempts : a = AttemptOf(c)
    BY WorkFacts DEF IInv, Working, Post, At, AttemptOf
  <1>1. posts[a] = 0 /\ action[a].state # "none"
    BY <1>0 DEF IInv, Working, Post, At, StateOf, Submitting
  <1>2. ActionOf[Target(a)] # "configuration" => fence[Target(a)] = a
    BY <1>0 DEF IInv, SubmitInsideFence, Post, At, ActionFor
  <1>3. /\ posts' = [posts EXCEPT ![a] = @ + 1]
        /\ UNCHANGED <<fence, action>>
    BY <1>0 DEF Post, storeVars
  <1>4. \A b \in Attempts : posts'[b] > 0 <=> (posts[b] > 0 \/ b = a)
    BY <1>1, <1>3 DEF IInv, TypeOK
  <1>5. Fate(a) # "none"
    BY <1>1, FateFacts DEF IInv, TypeOK, StoreTypeOK
  <1>6. \A b \in Attempts : Fate(b)' = Fate(b)
    BY <1>3, SameFates
  <1>7. Promise!Send(a)
    BY <1>1, <1>2, <1>3, <1>4, <1>5, <1>6 DEF Promise!Send
  <1> QED BY <1>7 DEF Promise!Next

\* A recorded submission leaves the change open.
LEMMA SubmissionStutters ==
  ASSUME IInv, NEW c \in Controllers, RecordSubmission(c) \/ Recover(c)
  PROVE  UNCHANGED Promise!vars
  <1> DEFINE a == Attempt(WorkOf(c))
  <1>1. PICK expected, state, known :
          /\ state \in {"submitted", "uncertain"} /\ known \in BOOLEAN
          /\ RecordActionSubmission(c, WorkOf(c), expected, state, known)
    BY DEF RecordSubmission, Recover, At, ActionFor
  <1>2. UNCHANGED <<fence, posts>>
    BY <1>1 DEF RecordSubmission, Recover, RecordActionSubmission, envVars
  <1>3. a \in Attempts
    BY WorkFacts DEF IInv, Working, RecordSubmission, Recover, At
  <1>4. /\ action[a].state \in Active /\ action'[a].state \in Active
        /\ \A b \in Attempts : b # a => action'[b] = action[b]
    BY <1>1, <1>3 DEF RecordActionSubmission, Active, IInv, TypeOK, StoreTypeOK
  <1>5. \A b \in Attempts : Fate(b)' = Fate(b)
    BY <1>4 DEF Fate, Active
  <1> QED BY <1>2, <1>5, FenceStutter

\* Closing an open change, whatever with.
LEMMA Closes ==
  ASSUME IInv, NEW a \in Attempts, NEW state \in Verified \cup {"rejected"},
         action[a].state \in Active, fence[Target(a)] = a,
         action'[a].state = state, \A b \in Attempts : b # a => action'[b] = action[b],
         fence' = [fence EXCEPT ![Target(a)] = None], UNCHANGED posts,
         state \in Verified /\ ActionOf[Target(a)] # "configuration" => posts[a] > 0
  PROVE  Promise!Next
  <1> DEFINE verdict == CASE state = "verified_succeeded" -> "succeeded"
                          [] state = "verified_failed" -> "failed"
                          [] OTHER -> state
  <1>1. /\ verdict \in {"succeeded", "failed", "rejected"}
        /\ verdict # "rejected" => state \in Verified
    BY DEF Verified
  <1>2. \A b \in Attempts : Fate(b)' = IF b = a THEN verdict ELSE Fate(b)
    BY DEF Fate, Active, Verified
  <1>3. Fate(a) = "open"
    BY DEF Fate, Active
  <1>4. verdict \in Promise!Verdicts /\ ActionOf[Target(a)] # "configuration" => posts[a] > 0
    BY <1>1 DEF Promise!Verdicts
  <1>5. verdict \in Promise!Verdicts \cup {"rejected"}
    BY <1>1 DEF Promise!Verdicts
  <1> HIDE DEF verdict
  <1>6. Promise!Close(a, verdict)
    BY <1>2, <1>3, <1>4, WorkFacts DEF Promise!Close
  <1> QED BY <1>5, <1>6 DEF Promise!Next

\* A definite rejection closes it.
LEMMA RejectionCloses ==
  ASSUME IInv, NEW c \in Controllers, RecordRejection(c)
  PROVE  Promise!Next
  <1> DEFINE a == Attempt(WorkOf(c))
  <1>1. a \in Attempts
    BY WorkFacts DEF IInv, Working, RecordRejection, At
  <1>2. /\ action[a].state \in Active
        /\ fence[Target(a)] = a
        /\ action'[a].state = "rejected"
        /\ \A b \in Attempts : b # a => action'[b] = action[b]
        /\ fence' = [fence EXCEPT ![Target(a)] = None]
        /\ UNCHANGED posts
    BY <1>1 DEF RecordRejection, RecordActionRejection, Active, envVars, IInv, TypeOK, StoreTypeOK
  <1> QED BY <1>1, <1>2, Closes DEF Verified

\* A verified outcome closes it; an uncertain one leaves it open.
LEMMA OutcomeCloses ==
  ASSUME IInv, NEW c \in Controllers, NEW result \in Verified \cup {"uncertain"},
         RecordOutcome(c, result)
  PROVE  [Promise!Next]_(Promise!vars)
  <1> DEFINE a == Attempt(WorkOf(c))
  <1>1. a \in Attempts
    BY WorkFacts DEF IInv, Working, RecordOutcome, At
  <1>2. /\ action[a].state \in Active
        /\ action'[a].state = result
        /\ \A b \in Attempts : b # a => action'[b] = action[b]
        /\ UNCHANGED posts
    BY <1>1 DEF RecordOutcome, RecordActionOutcome, envVars, IInv, TypeOK, StoreTypeOK
  <1>3. CASE result = "uncertain"
    <2>1. UNCHANGED fence
      BY <1>3 DEF RecordOutcome, RecordActionOutcome, Verified
    <2>2. \A b \in Attempts : Fate(b)' = Fate(b)
      BY <1>2, <1>3 DEF Fate, Active
    <2> QED BY <1>2, <2>1, <2>2, FenceStutter
  <1>4. CASE result \in Verified
    <2>1. fence[Target(a)] = a /\ fence' = [fence EXCEPT ![Target(a)] = None]
      BY <1>4 DEF RecordOutcome, RecordActionOutcome, Verified
    <2>2. ActionOf[Target(a)] # "configuration" => remote[a] # "none"
      BY <1>4 DEF RecordOutcome, PollResults, AttemptOf, Verified
    <2>3. ActionOf[Target(a)] # "configuration" => posts[a] > 0
      BY <1>1, <2>2 DEF IInv, TypeOK, NothingBefore
    <2> QED BY <1>1, <1>2, <1>4, <2>1, <2>3, Closes
  <1> QED BY <1>3, <1>4

\* Works, leases, takeovers, polls and retries implement the abstract fence:
\* reserve_action takes a target, the controller's one request is sent
\* inside, and record_action_rejection and record_action_outcome close it.
THEOREM FenceRefinement == Spec => ImplementsFence
  <1>1. Init => Promise!Init
    BY DEF Init, StoreInit, Promise!Init, Fate, Active
  <1>2. IInv /\ IInv' /\ [Next]_vars => [Promise!Next]_(Promise!vars)
    <2> SUFFICES ASSUME IInv, IInv', [Next]_vars PROVE [Promise!Next]_(Promise!vars)
      OBVIOUS
    <2>1. ASSUME UNCHANGED <<action, fence, posts>>
          PROVE  UNCHANGED Promise!vars
      BY <2>1, SameFates, FenceStutter
    <2>2. CASE UNCHANGED vars
      BY <2>1, <2>2 DEF vars, storeVars, envVars
    <2>3. CASE Intake
      BY <2>1, <2>3 DEF Intake, ChangePolicy, IngestFailure, DisposeUnclaimed, envVars
    <2>4. ASSUME NEW t \in Targets, LeaseExpires(t)
          PROVE  UNCHANGED Promise!vars
      BY <2>1, <2>4 DEF LeaseExpires, ExpireLease, envVars
    <2>5. ASSUME NEW a \in Attempts, RunEnds(a)
          PROVE  UNCHANGED Promise!vars
      BY <2>1, <2>5 DEF RunEnds, storeVars
    <2>6. ASSUME NEW c \in Controllers, Execution(c)
          PROVE  [Promise!Next]_(Promise!vars)
      <3>1. CASE (\E w \in Works : Claim(c, w)) \/ Abandon(c) \/ TriageEnds(c)
                 \/ Denied(c) \/ BeginPoll(c) \/ StopPolling(c) \/ Wait(c)
                 \/ Settled(c) \/ Finalize(c)
        <4>1. UNCHANGED <<action, fence, posts>>
          BY <3>1 DEF Claim, ClaimWork, Abandon, TriageEnds, NoAction, WaitForCandidate, RetryLater,
             Denied, DenyAction, BeginPoll, StopPolling, Wait, Settled, Finalize,
             FinalizeWork, storeVars, envVars
        <4> QED BY <4>1, <2>1
      <3>2. CASE Reserve(c)
        BY <3>2, ReserveTakes
      <3>3. CASE Post(c)
        BY <3>3, PostSends
      <3>4. CASE RecordSubmission(c) \/ Recover(c)
        BY <3>4, SubmissionStutters
      <3>5. CASE RecordRejection(c)
        BY <3>5, RejectionCloses
      <3>6. ASSUME NEW result \in Verified \cup {"uncertain"}, RecordOutcome(c, result)
            PROVE  [Promise!Next]_(Promise!vars)
        BY <3>6, OutcomeCloses
      <3> QED BY <2>6, <3>1, <3>2, <3>3, <3>4, <3>5, <3>6 DEF Execution, WorkStep
    <2> QED BY <2>2, <2>3, <2>4, <2>5, <2>6 DEF Next
  <1> QED BY <1>1, <1>2, FenceInvariant, PTL DEF Spec, ImplementsFence, Promise!Spec

-----------------------------------------------------------------------------
(* The write budget. *)

\* How a step changes what the budget depends on: it reserves, or moves an
\* attempt that was reserved, or requests or ends one.
LEMMA BudgetMoves ==
  ASSUME IInv, BudgetInv, [Next]_vars
  PROVE  \/ \E c \in Controllers : Reserve(c)
         \/ /\ UNCHANGED <<writes, remote>>
            /\ \E a \in Attempts :
                 /\ action[a].state \in Active
                 /\ \A b \in Attempts : b # a => action'[b] = action[b]
                 /\ action'[a].state # "none"
                 /\ action'[a].state = "rejected" => \E c \in Controllers : RecordRejection(c)
         \/ /\ UNCHANGED <<writes, action>>
            /\ \A b \in Attempts : action[b].state = "rejected" => remote'[b] = remote[b]
  <1>1. CASE UNCHANGED vars
    BY <1>1 DEF vars, storeVars, envVars
  <1>2. CASE Intake
    BY <1>2 DEF Intake, ChangePolicy, IngestFailure, DisposeUnclaimed, envVars
  <1>3. ASSUME NEW t \in Targets, LeaseExpires(t)
        PROVE  UNCHANGED <<writes, action, remote>>
    BY <1>3 DEF LeaseExpires, ExpireLease, envVars
  <1>4. ASSUME NEW a \in Attempts, RunEnds(a)
        PROVE  /\ UNCHANGED <<writes, action>>
               /\ \A b \in Attempts : action[b].state = "rejected" => remote'[b] = remote[b]
    BY <1>4 DEF RunEnds, storeVars, IInv, TypeOK, BudgetInv, RejectedUnsent
  <1>5. ASSUME NEW c \in Controllers, Execution(c), ~Reserve(c)
        PROVE  \/ /\ UNCHANGED <<writes, remote>>
                  /\ \E a \in Attempts :
                       /\ action[a].state \in Active
                       /\ \A b \in Attempts : b # a => action'[b] = action[b]
                       /\ action'[a].state # "none"
                       /\ action'[a].state = "rejected" => RecordRejection(c)
               \/ /\ UNCHANGED <<writes, action>>
                  /\ \A b \in Attempts : action[b].state = "rejected" => remote'[b] = remote[b]
    <2>0. ~At(c, "idle") => Attempt(WorkOf(c)) \in Attempts
      BY WorkFacts DEF IInv, Working
    <2>1. CASE (\E w \in Works : Claim(c, w)) \/ Abandon(c) \/ TriageEnds(c)
               \/ Denied(c) \/ BeginPoll(c) \/ StopPolling(c) \/ Wait(c)
               \/ Settled(c) \/ Finalize(c)
      BY <2>1 DEF Claim, ClaimWork, Abandon, TriageEnds, NoAction, WaitForCandidate, RetryLater,
         Denied, DenyAction, BeginPoll, StopPolling, Wait, Settled, Finalize,
         FinalizeWork, storeVars, envVars
    <2>2. CASE Post(c)
      <3>1. /\ UNCHANGED <<writes, action>> /\ At(c, "posting")
            /\ remote' = remote \/ remote' = [remote EXCEPT ![AttemptOf(c)] = Accepted(AttemptOf(c))]
        BY <2>2 DEF Post, storeVars
      <3>2. action[AttemptOf(c)].state # "rejected"
        BY <3>1 DEF BudgetInv, RejectedUnsent, StateOf
      <3> QED BY <3>1, <3>2 DEF IInv, TypeOK
    <2>3. CASE RecordSubmission(c) \/ Recover(c)
      <3>1. PICK expected, state, known :
              /\ state \in {"submitted", "uncertain"} /\ known \in BOOLEAN
              /\ RecordActionSubmission(c, WorkOf(c), expected, state, known)
        BY <2>3 DEF RecordSubmission, Recover, At, ActionFor
      <3> QED BY <2>0, <2>3, <3>1
          DEF RecordSubmission, Recover, At, RecordActionSubmission, IInv, TypeOK, StoreTypeOK, envVars
    <2>4. CASE RecordRejection(c)
      BY <2>0, <2>4 DEF RecordRejection, At, RecordActionRejection, Active, IInv, TypeOK, StoreTypeOK,
         envVars
    <2>5. ASSUME NEW result \in Verified \cup {"uncertain"}, RecordOutcome(c, result)
          PROVE  /\ UNCHANGED <<writes, remote>>
                 /\ \E a \in Attempts :
                     /\ action[a].state \in Active
                     /\ \A b \in Attempts : b # a => action'[b] = action[b]
                     /\ action'[a].state \in Verified \cup {"uncertain"}
      BY <2>0, <2>5 DEF RecordOutcome, At, RecordActionOutcome, IInv, TypeOK, StoreTypeOK, envVars
    <2>6. ASSUME NEW result \in Verified \cup {"uncertain"}, RecordOutcome(c, result)
          PROVE  /\ UNCHANGED <<writes, remote>>
                 /\ \E a \in Attempts :
                     /\ action[a].state \in Active
                     /\ \A b \in Attempts : b # a => action'[b] = action[b]
                     /\ action'[a].state # "none"
                     /\ action'[a].state = "rejected" => RecordRejection(c)
      BY <2>5, <2>6 DEF Verified
    <2> QED BY <1>5, <2>1, <2>2, <2>3, <2>4, <2>6 DEF Execution, WorkStep
  <1> QED BY <1>1, <1>2, <1>3, <1>4, <1>5 DEF Next

\* The slot of a source is the reservation of its first attempt.
LEMMA SameSpenders ==
  ASSUME UNCHANGED writes, WritesCounted,
         \A s \in Sources : (action'[<<s, 0>>].state = "none") <=> (action[<<s, 0>>].state = "none")
  PROVE  WritesCounted'
  <1>1. \A i \in Incidents : Spenders(i)' = Spenders(i)
    BY DEF Spenders
  <1> QED BY <1>1 DEF WritesCounted

\* A reservation takes a slot, unless a rejected attempt hands its slot on.
LEMMA BudgetReserve ==
  ASSUME IInv, BudgetInv, NEW c \in Controllers, Reserve(c)
  PROVE  RejectedBefore' /\ WritesCounted'
  <1>0. PICK a : a = Attempt(WorkOf(c))
    OBVIOUS
  <1>1. /\ a \in Attempts /\ action[a].state = "none"
        /\ action' = [action EXCEPT ![a].state = "reserved"]
        /\ SuccessorOfRejection(a) /\ BudgetAllows(a)
        /\ writes' = IF a[2] = 0 THEN [writes EXCEPT ![Incident(a)] = @ + 1] ELSE writes
    BY <1>0, WorkFacts DEF Reserve, Fresh, At, ReserveAction, IInv, Working
  <1>2. /\ a[1] \in Sources /\ a[2] \in 0 .. MaxAttempts /\ a = <<a[1], a[2]>> /\ MaxAttempts \in Nat
        /\ \A s \in Sources, n \in 0 .. MaxAttempts : <<s, n>> \in Attempts
    BY <1>1, BoundsAssumption DEF Attempts
  <1>3. /\ action'[a].state = "reserved"
        /\ \A b \in Attempts : b # a => action'[b] = action[b]
    BY <1>1 DEF IInv, TypeOK, StoreTypeOK
  <1>4. a[2] > 0 => /\ <<a[1], a[2] - 1>> \in Attempts
                    /\ action[<<a[1], a[2] - 1>>].state = "rejected"
    BY <1>1, <1>2 DEF SuccessorOfRejection, Predecessor
  <1>5. RejectedBefore'
    <2>1. SUFFICES ASSUME NEW b \in Attempts, action'[b].state # "none",
                          NEW n \in 0 .. MaxAttempts, n < b[2]
                   PROVE  action'[<<b[1], n>>].state = "rejected"
      BY DEF RejectedBefore
    <2>2. b[1] \in Sources /\ b[2] \in 0 .. MaxAttempts /\ <<b[1], n>> \in Attempts
      BY <1>2 DEF Attempts
    <2>3. CASE b # a
      <3>1. action[<<b[1], n>>].state = "rejected"
        BY <1>3, <2>1, <2>3 DEF BudgetInv, RejectedBefore
      <3>2. <<b[1], n>> # a
        BY <1>1, <3>1
      <3> QED BY <1>3, <2>2, <3>1, <3>2
    <2>4. CASE b = a
      <3>1. a[2] > 0
        BY <1>2, <2>1, <2>4
      <3>2. n = a[2] - 1 \/ n < a[2] - 1
        BY <1>2, <2>1, <2>4
      <3>3. action[<<a[1], n>>].state = "rejected"
        <4>1. CASE n = a[2] - 1
          BY <1>4, <3>1, <4>1
        <4>2. CASE n < a[2] - 1
          <5>1. \A m \in 0 .. MaxAttempts : m < a[2] - 1 => action[<<a[1], m>>].state = "rejected"
            BY <1>4, <3>1 DEF BudgetInv, RejectedBefore
          <5> QED BY <4>2, <5>1
        <4> QED BY <3>2, <4>1, <4>2
      <3>4. <<a[1], n>> # a
        BY <1>1, <3>3
      <3> QED BY <1>3, <2>2, <2>4, <3>3, <3>4
    <2> QED BY <2>3, <2>4
  <1>6. WritesCounted'
    <2>1. CASE a[2] > 0
      <3>1. \A s \in Sources : <<s, 0>> # a /\ <<s, 0>> \in Attempts
        BY <1>2, <2>1
      <3>2. UNCHANGED writes
        BY <1>1, <2>1
      <3> QED BY <1>3, <3>1, <3>2, SameSpenders DEF BudgetInv
    <2>2. CASE a[2] = 0
      <3> DEFINE i == Incident(a)
      <3>1. i = IncidentOf[a[1]] /\ i \in Incidents /\ a = <<a[1], 0>>
        BY <1>1, <1>2, <2>2, WorkFacts DEF Incident
      <3>2. /\ writes' = [writes EXCEPT ![i] = @ + 1] /\ writes[i] < MaxWriteActions
            /\ writes \in [Incidents -> Nat] /\ MaxWriteActions \in Nat
        BY <1>1, <2>2, BoundsAssumption DEF BudgetAllows, IInv, TypeOK, StoreTypeOK
      <3> HIDE DEF i
      <3>3. \A s \in Sources : action'[<<s, 0>>].state # "none"
                                 <=> (s = a[1] \/ action[<<s, 0>>].state # "none")
        <4>1. ASSUME NEW s \in Sources
              PROVE  action'[<<s, 0>>].state # "none"
                       <=> (s = a[1] \/ action[<<s, 0>>].state # "none")
          <5>1. <<s, 0>> \in Attempts /\ (s = a[1] => <<s, 0>> = a) /\ (s # a[1] => <<s, 0>> # a)
            BY <1>2, <3>1
          <5> QED BY <1>3, <5>1
        <4> QED BY <4>1
      <3>4. Spenders(i)' = Spenders(i) \cup {a[1]} /\ a[1] \notin Spenders(i)
        BY <1>1, <1>2, <3>1, <3>3 DEF Spenders
      <3>5. \A j \in Incidents \ {i} : Spenders(j)' = Spenders(j)
        BY <3>1, <3>3 DEF Spenders
      <3>6. /\ IsFiniteSet(Spenders(i)) /\ writes[i] = Cardinality(Spenders(i))
        BY <3>1 DEF BudgetInv, WritesCounted
      <3>7. /\ IsFiniteSet(Spenders(i)') /\ Cardinality(Spenders(i)') = writes[i] + 1
        BY <3>4, <3>6, FS_AddElement
      <3>8. writes'[i] = writes[i] + 1 /\ \A j \in Incidents \ {i} : writes'[j] = writes[j]
        BY <3>1, <3>2
      <3>9. ASSUME NEW j \in Incidents
            PROVE  /\ IsFiniteSet(Spenders(j)') /\ writes'[j] = Cardinality(Spenders(j)')
                   /\ writes'[j] <= MaxWriteActions
        <4>1. CASE j = i
          BY <3>1, <3>2, <3>7, <3>8, <4>1
        <4>2. CASE j # i
          BY <3>5, <3>8, <4>2 DEF BudgetInv, WritesCounted
        <4> QED BY <4>1, <4>2
      <3> QED BY <3>9 DEF WritesCounted
    <2> QED BY <1>2, <2>1, <2>2
  <1> QED BY <1>5, <1>6

\* Whoever is about to request an attempt does so before anybody can see it rejected.
LEMMA PostingUnrejected ==
  ASSUME IInv, BudgetInv, [Next]_vars
  PROVE  (\A c \in Controllers : At(c, "posting") => StateOf(c) # "rejected")'
  <1>1. SUFFICES ASSUME NEW c \in Controllers, exec'[c].pc = "posting"
                 PROVE  action'[Attempt(exec'[c].work)].state # "rejected"
    BY DEF At, StateOf, AttemptOf, WorkOf
  <1>2. exec'[c] = exec[c] \/ Reserve(c)
    <2>1. CASE UNCHANGED exec
      BY <2>1
    <2>2. ASSUME NEW d \in Controllers, Execution(d)
          PROVE  \/ d # c /\ exec'[c] = exec[c]
                 \/ d = c /\ Reserve(c)
      <3>1. CASE d # c
        <4>1. \A pc : Goto(d, pc) => exec'[c] = exec[c]
          BY <3>1 DEF Goto, IInv, TypeOK
        <4>2. GotoIdle(d) \/ GotoFinalizing(d) => exec'[c] = exec[c]
          BY <3>1 DEF GotoIdle, GotoFinalizing, IInv, TypeOK
        <4>3. CASE \/ Abandon(d) \/ TriageEnds(d) \/ Denied(d) \/ RecordRejection(d)
                   \/ StopPolling(d) \/ Wait(d) \/ Settled(d) \/ Finalize(d) \/ Post(d)
                   \/ RecordSubmission(d) \/ Recover(d)
                   \/ \E result \in Verified \cup {"uncertain"} : RecordOutcome(d, result)
          BY <3>1, <4>1, <4>2, <4>3 DEF Abandon, TriageEnds, NoAction, WaitForCandidate, Denied,
             RecordRejection, StopPolling, Wait, Settled, Finalize, Post, RecordSubmission, Recover,
             RecordOutcome
        <4>4. CASE (\E w \in Works : Claim(d, w)) \/ Reserve(d) \/ BeginPoll(d)
          BY <3>1, <4>4 DEF Claim, Reserve, BeginPoll, IInv, TypeOK
        <4> QED BY <2>2, <3>1, <4>3, <4>4 DEF Execution, WorkStep
      <3>2. CASE d = c
        <4>1. exec[c] \in ExecType
          BY DEF IInv, TypeOK, ExecType
        <4>2. CASE \/ Abandon(c) \/ TriageEnds(c) \/ Denied(c) \/ RecordRejection(c)
                   \/ StopPolling(c) \/ Wait(c) \/ Settled(c) \/ Finalize(c)
                   \/ \E result \in Verified \cup {"uncertain"} : RecordOutcome(c, result)
          <5>1. GotoIdle(c) \/ GotoFinalizing(c)
            BY <4>2 DEF Abandon, TriageEnds, NoAction, WaitForCandidate, Denied,
               RecordRejection, StopPolling, Wait, Settled, Finalize, RecordOutcome
          <5> QED BY <1>1, <5>1 DEF GotoIdle, GotoFinalizing, Idle, Running, IInv, TypeOK
        <4>3. CASE Post(c) \/ RecordSubmission(c) \/ Recover(c)
          <5>1. \E pc \in {"acked", "unacked", "throttled", "refused", "submitted"} : Goto(c, pc)
            BY <4>3 DEF Post, RecordSubmission, Recover
          <5> QED BY <1>1, <4>1, <5>1 DEF Goto, ExecType, IInv, TypeOK
        <4>4. CASE \E w \in Works : Claim(c, w)
          BY <1>1, <4>4 DEF Claim, Running, IInv, TypeOK
        <4>5. CASE BeginPoll(c)
          BY <1>1, <4>1, <4>5 DEF BeginPoll, ExecType, IInv, TypeOK
        <4> QED BY <2>2, <3>2, <4>2, <4>3, <4>4, <4>5 DEF Execution, WorkStep
      <3> QED BY <3>1, <3>2
    <2> QED BY <2>1, <2>2 DEF Next, Intake, LeaseExpires, RunEnds, vars
  <1>3. CASE Reserve(c)
    <2>1. /\ exec'[c].work = exec[c].work
          /\ Attempt(exec[c].work) \in Attempts
          /\ action' = [action EXCEPT ![Attempt(exec[c].work)].state = "reserved"]
      BY <1>3, WorkFacts DEF Reserve, ReserveAction, WorkOf, Fresh, At, IInv, TypeOK, Working
    <2> QED BY <2>1 DEF IInv, TypeOK, StoreTypeOK
  <1>4. CASE exec'[c] = exec[c]
    <2> DEFINE a == Attempt(exec[c].work)
    <2>1. /\ a \in Attempts /\ exec[c].pc = "posting" /\ action[a].state # "rejected"
      BY <1>1, <1>4, WorkFacts DEF At, StateOf, AttemptOf, WorkOf, BudgetInv, RejectedUnsent, IInv, Working
    <2>2. ASSUME NEW d \in Controllers, RecordRejection(d)
          PROVE  action'[a] = action[a]
      <3>1. exec[d].pc \in {"throttled", "refused"}
        BY <2>2 DEF RecordRejection
      <3>2. AttemptOf(d) # a
        BY <2>1, <3>1 DEF IInv, OneSubmitter, Submitting, AttemptOf, WorkOf
      <3> QED BY <2>1, <2>2, <3>2
          DEF RecordRejection, RecordActionRejection, AttemptOf, IInv, TypeOK, StoreTypeOK
    <2>3. ASSUME NEW d \in Controllers, Reserve(d)
          PROVE  action'[a].state # "rejected"
      <3>1. action' = [action EXCEPT ![AttemptOf(d)].state = "reserved"]
        BY <2>3 DEF Reserve, ReserveAction, AttemptOf
      <3> QED BY <2>1, <3>1 DEF IInv, TypeOK, StoreTypeOK
    <2>4. ASSUME NEW b \in Attempts,
                 \A x \in Attempts : x # b => action'[x] = action[x],
                 action'[b].state = "rejected" => \E d \in Controllers : RecordRejection(d)
          PROVE  action'[a].state # "rejected"
      BY <2>1, <2>2, <2>4
    <2>5. action'[a].state # "rejected"
      BY <2>1, <2>3, <2>4, BudgetMoves
    <2> QED BY <1>4, <2>5
  <1> QED BY <1>2, <1>3, <1>4

LEMMA BudgetStep ==
  ASSUME IInv, IInv', BudgetInv, [Next]_vars
  PROVE  BudgetInv'
  <1>1. \A a \in Attempts : a[1] \in Sources /\ \A n \in 0 .. MaxAttempts : <<a[1], n>> \in Attempts
    BY DEF Attempts
  <1>2. \A s \in Sources : <<s, 0>> \in Attempts
    BY BoundsAssumption DEF Attempts
  <1>3. RejectedBefore' /\ WritesCounted'
    <2>1. ASSUME NEW c \in Controllers, Reserve(c) PROVE RejectedBefore' /\ WritesCounted'
      BY <2>1, BudgetReserve
    <2>2. ASSUME UNCHANGED writes, NEW a \in Attempts, action[a].state \in Active,
                 \A b \in Attempts : b # a => action'[b] = action[b],
                 action'[a].state # "none"
          PROVE  RejectedBefore' /\ WritesCounted'
      <3>1. \A b \in Attempts : /\ action'[b].state = "none" <=> action[b].state = "none"
                                /\ action[b].state = "rejected" => action'[b].state = "rejected"
        BY <2>2 DEF Active
      <3>2. RejectedBefore'
        BY <1>1, <3>1 DEF BudgetInv, RejectedBefore
      <3>3. WritesCounted'
        BY <1>2, <2>2, <3>1, SameSpenders DEF BudgetInv
      <3> QED BY <3>2, <3>3
    <2>3. CASE UNCHANGED <<writes, action>>
      BY <2>3, SameSpenders DEF BudgetInv, RejectedBefore
    <2> QED BY <2>1, <2>2, <2>3, BudgetMoves
  <1>4. \A a \in Attempts : action'[a].state = "rejected" => remote'[a] = "none"
    <2>1. ASSUME NEW c \in Controllers, Reserve(c)
          PROVE  \A a \in Attempts : action'[a].state = "rejected" => remote'[a] = "none"
      <3>1. /\ action' = [action EXCEPT ![AttemptOf(c)].state = "reserved"] /\ UNCHANGED remote
        BY <2>1 DEF Reserve, ReserveAction, AttemptOf, envVars
      <3> QED BY <3>1 DEF BudgetInv, RejectedUnsent, IInv, TypeOK, StoreTypeOK
    <2>2. ASSUME UNCHANGED remote, NEW a \in Attempts,
                 \A b \in Attempts : b # a => action'[b] = action[b],
                 action'[a].state = "rejected" => \E c \in Controllers : RecordRejection(c)
          PROVE  \A b \in Attempts : action'[b].state = "rejected" => remote'[b] = "none"
      <3>1. ASSUME NEW c \in Controllers, RecordRejection(c)
            PROVE  /\ remote[AttemptOf(c)] = "none"
                   /\ \A b \in Attempts : b # AttemptOf(c) => action'[b] = action[b]
        BY <3>1 DEF RecordRejection, RecordActionRejection, At, AttemptOf, IInv, TypeOK, StoreTypeOK, Working
      <3> QED BY <2>2, <3>1 DEF BudgetInv, RejectedUnsent
    <2>3. ASSUME UNCHANGED action,
                 \A b \in Attempts : action[b].state = "rejected" => remote'[b] = remote[b]
          PROVE  \A b \in Attempts : action'[b].state = "rejected" => remote'[b] = "none"
      BY <2>3 DEF BudgetInv, RejectedUnsent
    <2> QED BY <2>1, <2>2, <2>3, BudgetMoves
  <1> QED BY <1>3, <1>4, PostingUnrejected DEF BudgetInv, RejectedUnsent

THEOREM BudgetInvariant == Spec => []BudgetInv
  <1>1. Init => BudgetInv
    <2> SUFFICES ASSUME Init PROVE BudgetInv
      OBVIOUS
    <2>1. \A a \in Attempts : action[a].state = "none"
      BY DEF Init, StoreInit
    <2>2. \A s \in Sources : action[<<s, 0>>].state = "none"
      BY <2>1, BoundsAssumption DEF Attempts
    <2>3. \A c \in Controllers : ~At(c, "posting")
      BY DEF Init, At, Idle, Running
    <2>4. WritesCounted
      <3>1. \A i \in Incidents : Spenders(i) = {} /\ writes[i] = 0
        BY <2>2 DEF Spenders, Init, StoreInit
      <3> QED BY <3>1, FS_EmptySet, BoundsAssumption DEF WritesCounted
    <2> QED BY <2>1, <2>3, <2>4 DEF BudgetInv, RejectedBefore, RejectedUnsent
  <1> QED BY <1>1, BudgetStep, FenceInvariant, PTL DEF Spec

\* The effects on an incident come from different sources, each of which took
\* a slot: no retry of a throttled attempt, no takeover and no second work
\* makes more of them than the policy allows (reserve_action,
\* record_action_rejection).
THEOREM BudgetIsKept == Spec => []EffectsWithinBudget
  <1>1. ASSUME IInv, BudgetInv PROVE EffectsWithinBudget
    <2>1. SUFFICES ASSUME NEW i \in Incidents
                   PROVE  Cardinality(Effects(i)) <= MaxWriteActions
      BY DEF EffectsWithinBudget
    <2>2. ASSUME NEW a \in Effects(i)
          PROVE  /\ a \in Attempts /\ a = <<a[1], a[2]>> /\ a[1] \in Sources
                 /\ a[2] \in 0 .. MaxAttempts /\ MaxAttempts \in Nat
                 /\ action[a].state \notin {"none", "rejected"}
                 /\ IncidentOf[a[1]] = i
      <3>1. a \in Attempts /\ remote[a] # "none" /\ Incident(a) = i
        BY DEF Effects
      <3>2. action[a].state # "rejected"
        BY <1>1, <3>1 DEF BudgetInv, RejectedUnsent
      <3>3. action[a].state # "none"
        BY <1>1, <3>1 DEF IInv, NothingBefore
      <3> QED BY <3>1, <3>2, <3>3, BoundsAssumption DEF Attempts, Incident
    <2>3. ASSUME NEW a \in Effects(i) PROVE a[1] \in Spenders(i)
      <3>1. CASE a[2] = 0
        BY <2>2, <3>1 DEF Spenders
      <3>2. CASE a[2] > 0
        <4>1. 0 \in 0 .. MaxAttempts /\ 0 < a[2]
          BY <2>2, <3>2
        <4>2. action[<<a[1], 0>>].state = "rejected"
          BY <1>1, <2>2, <4>1 DEF BudgetInv, RejectedBefore
        <4> QED BY <2>2, <4>2 DEF Spenders
      <3> QED BY <2>2, <3>1, <3>2
    <2>4. ASSUME NEW a \in Effects(i), NEW b \in Effects(i), a[1] = b[1] PROVE a = b
      <3>1. ASSUME NEW x \in Effects(i), NEW y \in Effects(i), x[1] = y[1], x[2] < y[2]
            PROVE  FALSE
        <4>1. action[<<y[1], x[2]>>].state = "rejected"
          BY <1>1, <2>2, <3>1 DEF BudgetInv, RejectedBefore
        <4>2. <<y[1], x[2]>> = x
          BY <2>2, <3>1
        <4> QED BY <2>2, <4>1, <4>2
      <3>2. a[2] \in Int /\ b[2] \in Int
        BY <2>2
      <3>3. a[2] = b[2]
        BY <2>4, <3>1, <3>2
      <3> QED BY <2>2, <2>4, <3>3
    <2> DEFINE source == [a \in Effects(i) |-> a[1]]
    <2>5. source \in Injection(Effects(i), Spenders(i))
      BY <2>3, <2>4 DEF Injection, IsInjective
    <2>6. IsFiniteSet(Spenders(i)) /\ Cardinality(Spenders(i)) <= MaxWriteActions
      BY <1>1 DEF BudgetInv, WritesCounted
    <2>7. Cardinality(Effects(i)) <= Cardinality(Spenders(i)) /\ IsFiniteSet(Effects(i))
      <3> HIDE DEF source
      <3> QED BY <2>5, <2>6, FS_Injection
    <2>8. Cardinality(Effects(i)) \in Nat /\ Cardinality(Spenders(i)) \in Nat /\ MaxWriteActions \in Nat
      BY <2>6, <2>7, FS_CardinalityType, BoundsAssumption
    <2> QED BY <2>6, <2>7, <2>8
  <1> QED BY <1>1, FenceInvariant, BudgetInvariant, PTL

-----------------------------------------------------------------------------
(* The owned connector: types. *)

LEMMA TopoSets ==
  /\ MaxPolicy \in Nat \ {0} /\ MaxFaults \in Nat /\ 1 \in 1 .. MaxPolicy /\ 0 \in 0 .. MaxPolicy
  /\ Owned \subseteq Pipelines /\ Scopes \subseteq SUBSET Pipelines /\ Connector!NoDef \in Connector!Definitions
  /\ \A d \in [Pipelines -> Nat] : d \in Connector!Definitions
  /\ \A d \in [Pipelines -> Nat \cup {-1}] : d \in Connector!Definitions
  BY ProvisioningAssumption DEF Connector!ConnectorAssumption, Connector!NoDef, Connector!Definitions

\* What the types say of a worker and of the manifest.
LEMMA TopoMembers ==
  ASSUME Connector!TypeOK
  PROVE  /\ conn \in Connector!Manifests /\ conn.rev \in Nat /\ conn.policy \in 1 .. MaxPolicy
         /\ conn.own \in [Pipelines -> Nat \cup {-1}] /\ conn.removing \subseteq Pipelines
         /\ conn.marker \in Connector!Definitions /\ conn.op \in Nat /\ conn.state \in Connector!ConnStates
         /\ policy \in Nat /\ policy \in 1 .. MaxPolicy /\ policy \in 0 .. MaxPolicy
         /\ \A w \in Provisioners : /\ wk[w] \in Connector!Sessions /\ wk[w].key \in Connector!Keys /\ wk[w].seen \in Nat
                                    /\ wk[w].obs \in Connector!Definitions /\ wk[w].def \in Connector!Definitions
  BY TopoSets DEF Connector!TypeOK, Connector!Manifests, Connector!Sessions, Connector!Unbound

LEMMA TopoIdle == Connector!Idle \in Connector!Sessions /\ Connector!Idle.held = FALSE /\ Connector!Idle.pc = "idle" /\ Connector!Idle.seen = 0
  BY TopoSets DEF Connector!Idle, Connector!Sessions, Connector!Steps, Connector!Keys

\* The wanted definition has no more nodes than the manifest.
LEMMA TopoDesired ==
  ASSUME NEW c \in Connector!Manifests
  PROVE  /\ Connector!DesiredDefinition(c) \in [Pipelines -> Nat \cup {-1}] /\ Connector!DesiredDefinition(c) \in Connector!Definitions
         /\ \A t \in Pipelines : Connector!DesiredDefinition(c)[t] = IF t \in c.removing THEN 0 ELSE c.own[t]
  BY TopoSets DEF Connector!DesiredDefinition, Connector!Manifests, Connector!Absent, Connector!Unbound

\* _enqueue: known work keeps its state.
LEMMA TopoEnqueue ==
  ASSUME NEW ks, NEW queue
  PROVE  /\ DOMAIN Connector!Enqueue(ks, queue) = DOMAIN queue \cup ks
         /\ \A k \in DOMAIN queue : Connector!Enqueue(ks, queue)[k] = queue[k]
         /\ \A k \in ks \ DOMAIN queue : Connector!Enqueue(ks, queue)[k] = "queued"
  BY DEF Connector!Enqueue

LEMMA TopoEnqueueTyped ==
  ASSUME NEW ks \in SUBSET Connector!Keys, NEW queue, DOMAIN queue \subseteq Connector!Keys, queue \in [DOMAIN queue -> Connector!WorkStates]
  PROVE  /\ DOMAIN Connector!Enqueue(ks, queue) \subseteq Connector!Keys
         /\ Connector!Enqueue(ks, queue) \in [DOMAIN Connector!Enqueue(ks, queue) -> Connector!WorkStates]
  <1>1. PICK D : D = DOMAIN queue \cup ks
    OBVIOUS
  <1>2. Connector!Enqueue(ks, queue) = [k \in D |-> IF k \in DOMAIN queue THEN queue[k] ELSE "queued"]
    BY <1>1 DEF Connector!Enqueue
  <1>3. Connector!Enqueue(ks, queue) \in [D -> Connector!WorkStates]
    BY <1>1, <1>2 DEF Connector!WorkStates
  <1> QED BY <1>1, <1>2, <1>3

\* A worker's work changes state.
LEMMA TopoSettleTyped ==
  ASSUME Connector!TypeOK, NEW w \in Provisioners, NEW s \in Connector!WorkStates, Connector!Settle(w, s)
  PROVE  DOMAIN tasks' = DOMAIN tasks /\ tasks' \in [DOMAIN tasks -> Connector!WorkStates]
  <1>1. PICK D : D = DOMAIN tasks /\ tasks \in [D -> Connector!WorkStates]
    BY DEF Connector!TypeOK
  <1> QED BY <1>1 DEF Connector!Settle

LEMMA TopoFaultTyped ==
  ASSUME Connector!TypeOK, Connector!Fault
  PROVE  cfaults' \in 0 .. MaxFaults
  BY TopoSets DEF Connector!TypeOK, Connector!Fault

-----------------------------------------------------------------------------
(* The owned connector: what a save makes of the manifest. *)

ManifestTyped == /\ conn \in Connector!Manifests /\ conn.touched \subseteq conn.removing
                 /\ conn.removing \subseteq Connector!Nodes(conn.own)

\* A save by a worker leaves what is owned and what is to be removed.
OwnershipKept ==
  /\ ManifestTyped' /\ conn'.rev = conn.rev + 1 /\ conn'.policy = conn.policy
  /\ conn'.own = conn.own /\ conn'.removing = conn.removing

\* It is reported, and the report is new.
Reported(key, ready, insp) ==
  /\ \E h \in Connector!Reports : /\ handoff' = handoff \cup {h} /\ h.rev = conn.rev + 1 /\ h.policy = policy
                         /\ h.ready = ready /\ h.insp = insp /\ h.key = key
  /\ UNCHANGED <<desired, fresh, delivered>>

LEMMA TopoReport ==
  ASSUME Connector!TypeOK, NEW w \in Provisioners, NEW c \in Connector!Manifests, NEW ready \in BOOLEAN,
         NEW insp \in {"none", "fresh", "stale"}, Connector!Report(w, c, ready, insp),
         c.policy = conn.policy, c.own = conn.own, c.removing = conn.removing, c.touched \subseteq c.removing
  PROVE  /\ OwnershipKept /\ Reported(wk[w].key, ready, insp)
         /\ conn'.state = c.state /\ conn'.base = c.base /\ conn'.marker = c.marker /\ conn'.op = c.op
  <1>1. conn' = [c EXCEPT !.rev = conn.rev + 1]
    BY DEF Connector!Report, Connector!Observed
  <1>2. conn.rev + 1 \in Nat
    BY TopoMembers
  <1>3. /\ conn' \in Connector!Manifests /\ conn'.rev = conn.rev + 1 /\ conn'.policy = c.policy /\ conn'.own = c.own
        /\ conn'.removing = c.removing /\ conn'.touched = c.touched
        /\ conn'.state = c.state /\ conn'.base = c.base /\ conn'.marker = c.marker /\ conn'.op = c.op
    BY <1>1, <1>2 DEF Connector!Manifests
  <1>4. conn.removing \subseteq Connector!Nodes(conn.own)
    BY DEF Connector!TypeOK
  <1>5. OwnershipKept
    BY <1>3, <1>4 DEF OwnershipKept, ManifestTyped, Connector!Nodes
  <1>6. Reported(wk[w].key, ready, insp)
    <2>1. PICK h : h = [rev |-> conn.rev + 1, policy |-> policy, ready |-> ready, insp |-> insp, key |-> wk[w].key]
      OBVIOUS
    <2>2. h \in Connector!Reports
      BY <1>2, <2>1, TopoMembers DEF Connector!Reports
    <2>3. handoff' = handoff \cup {h}
      BY <2>1 DEF Connector!Report
    <2> QED BY <2>1, <2>2, <2>3 DEF Reported, Connector!Report
  <1> QED BY <1>3, <1>5, <1>6

LEMMA TopoBlock ==
  ASSUME Connector!TypeOK, NEW w \in Provisioners, Connector!Block(w)
  PROVE  /\ OwnershipKept /\ Reported(wk[w].key, FALSE, "none")
         /\ conn'.state = "blocked" /\ conn'.base = Connector!NoDef /\ conn'.marker = conn.marker
         /\ wk' = [wk EXCEPT ![w] = [wk[w] EXCEPT !.pc = "finish", !.pol = policy]]
         /\ UNCHANGED <<Connector!serviceVars, tasks>>
  <1>1. PICK c \in Connector!Manifests : c = conn
    BY TopoMembers
  <1>2. PICK d : d = [c EXCEPT !.state = "blocked", !.base = Connector!NoDef]
    OBVIOUS
  <1>3. /\ d \in Connector!Manifests /\ d.policy = c.policy /\ d.own = c.own /\ d.removing = c.removing
        /\ d.touched = c.touched /\ d.state = "blocked" /\ d.base = Connector!NoDef /\ d.marker = c.marker
    BY <1>2 DEF Connector!Manifests, Connector!ConnStates
  <1>4. Connector!Report(w, d, FALSE, "none")
    BY <1>1, <1>2 DEF Connector!Block, Connector!ReportAndFinish
  <1>5. d.touched \subseteq d.removing
    BY <1>1, <1>3 DEF Connector!TypeOK
  <1> QED BY <1>1, <1>3, <1>4, <1>5, TopoReport DEF Connector!Block, Connector!ReportAndFinish, Connector!Become

\* _verified: the inspected definition becomes the baseline, the marker goes.
LEMMA TopoVerified ==
  ASSUME Connector!TypeOK, NEW w \in Provisioners, NEW obs \in [Pipelines -> Nat], Connector!Verified(w, obs)
  PROVE  /\ OwnershipKept /\ \E ready \in BOOLEAN : Reported(wk[w].key, ready, "none")
         /\ conn'.base = obs /\ conn'.marker = Connector!NoDef
         /\ conn'.state \in {"degraded", "provisioning", "ready"}
         /\ conn'.state = "ready" => conn.own = obs /\ Connector!DeliveryProof(delivered)
         /\ wk' = [wk EXCEPT ![w] = [wk[w] EXCEPT !.pc = "finish", !.pol = policy]]
         /\ UNCHANGED <<Connector!serviceVars, tasks>>
  <1>1. PICK c \in Connector!Manifests : c = conn
    BY TopoMembers
  <1>2. PICK ready \in BOOLEAN :
          ready = (/\ Connector!Nodes(obs) # {}
                   /\ {t \in Connector!Nodes(Connector!DesiredDefinition(conn)) : Connector!ResolveTarget(t)} = Connector!Nodes(obs)
                   /\ conn.own = obs /\ Connector!DeliveryProof(delivered))
    OBVIOUS
  <1>3. PICK state : state = IF ~ready THEN "degraded" ELSE IF conn.state = "ready" THEN "ready" ELSE "provisioning"
    OBVIOUS
  <1>4. state \in {"degraded", "provisioning", "ready"} /\ (state = "ready" => ready)
    BY <1>3
  <1>5. PICK d : d = [c EXCEPT !.base = obs, !.marker = Connector!NoDef, !.state = state]
    OBVIOUS
  <1>6. /\ d \in Connector!Manifests /\ d.policy = c.policy /\ d.own = c.own /\ d.removing = c.removing
        /\ d.touched = c.touched /\ d.state = state /\ d.base = obs /\ d.marker = Connector!NoDef
    BY <1>4, <1>5, TopoSets DEF Connector!Manifests, Connector!ConnStates
  <1>7. Connector!ReportAndFinish(w, d, ready, "none")
    BY <1>1, <1>2, <1>3, <1>5, Zenon DEF Connector!Verified
  <1>8. Connector!Report(w, d, ready, "none")
    BY <1>7 DEF Connector!ReportAndFinish
  <1>9. d.touched \subseteq d.removing
    BY <1>1, <1>6 DEF Connector!TypeOK
  <1>10. OwnershipKept /\ Reported(wk[w].key, ready, "none") /\ conn'.state = d.state /\ conn'.base = d.base
         /\ conn'.marker = d.marker
    BY <1>1, <1>6, <1>8, <1>9, TopoReport
  <1> QED BY <1>2, <1>4, <1>6, <1>7, <1>10 DEF Connector!ReportAndFinish, Connector!Become

\* A save that says no update was sent.
RestoredBy(w) ==
  /\ OwnershipKept /\ conn'.state = "degraded" /\ conn'.base = wk[w].obs /\ conn'.marker = Connector!NoDef

LEMMA TopoRestored ==
  ASSUME Connector!TypeOK, NEW w \in Provisioners, wk[w].obs \in [Pipelines -> Nat],
         NEW insp \in {"none", "fresh", "stale"}, Connector!Report(w, Connector!Restored(w), FALSE, insp)
  PROVE  RestoredBy(w) /\ Reported(wk[w].key, FALSE, insp)
  <1>1. PICK c \in Connector!Manifests : c = conn
    BY TopoMembers
  <1>2. PICK d : d = [c EXCEPT !.state = "degraded", !.base = wk[w].obs, !.marker = Connector!NoDef, !.op = 0]
    OBVIOUS
  <1>3. /\ d \in Connector!Manifests /\ d.policy = c.policy /\ d.own = c.own /\ d.removing = c.removing
        /\ d.touched = c.touched /\ d.state = "degraded" /\ d.base = wk[w].obs /\ d.marker = Connector!NoDef
    BY <1>2, TopoSets DEF Connector!Manifests, Connector!ConnStates
  <1>4. Connector!Report(w, d, FALSE, insp)
    BY <1>1, <1>2 DEF Connector!Restored
  <1>5. d.touched \subseteq d.removing
    BY <1>1, <1>3 DEF Connector!TypeOK
  <1> QED BY <1>1, <1>3, <1>4, <1>5, TopoReport DEF RestoredBy

LEMMA TopoSaveIntent ==
  ASSUME Connector!TypeOK, NEW w \in Provisioners, Connector!SaveIntent(w)
  PROVE  /\ OwnershipKept /\ Reported(wk[w].key, FALSE, "none")
         /\ conn'.state = "provisioning" /\ conn'.base = Connector!NoDef /\ conn'.marker = Connector!DesiredDefinition(conn)
         /\ wk' = [wk EXCEPT ![w] = [wk[w] EXCEPT !.pc = "recheck", !.seen = conn.rev + 1]]
         /\ UNCHANGED <<Connector!serviceVars, tasks>>
  <1>1. PICK c \in Connector!Manifests : c = conn
    BY TopoMembers
  <1>2. PICK m \in Connector!Definitions : m = Connector!DesiredDefinition(conn)
    BY <1>1, TopoDesired
  <1>3. PICK d : d = [c EXCEPT !.state = "provisioning", !.base = Connector!NoDef, !.op = 0, !.marker = m,
                               !.touched = c.removing]
    OBVIOUS
  <1>4. /\ d \in Connector!Manifests /\ d.policy = c.policy /\ d.own = c.own /\ d.removing = c.removing
        /\ d.touched = c.removing /\ d.state = "provisioning" /\ d.base = Connector!NoDef /\ d.marker = m
    BY <1>3 DEF Connector!Manifests, Connector!ConnStates
  <1>5. Connector!Report(w, d, FALSE, "none")
    BY <1>1, <1>2, <1>3 DEF Connector!SaveIntent
  <1> QED BY <1>1, <1>2, <1>4, <1>5, TopoReport DEF Connector!SaveIntent, Connector!Become

LEMMA TopoAcknowledged ==
  ASSUME Connector!TypeOK, NEW w \in Provisioners, Connector!Report(w, [conn EXCEPT !.op = wk[w].op], FALSE, "none")
  PROVE  /\ OwnershipKept /\ Reported(wk[w].key, FALSE, "none")
         /\ conn'.state = conn.state /\ conn'.base = conn.base /\ conn'.marker = conn.marker
  <1>1. PICK c \in Connector!Manifests : c = conn
    BY TopoMembers
  <1>2. wk[w].op \in Nat
    BY TopoMembers DEF Connector!Sessions
  <1>3. PICK d : d = [c EXCEPT !.op = wk[w].op]
    OBVIOUS
  <1>4. /\ d \in Connector!Manifests /\ d.policy = c.policy /\ d.own = c.own /\ d.removing = c.removing
        /\ d.touched = c.touched /\ d.state = c.state /\ d.base = c.base /\ d.marker = c.marker
    BY <1>2, <1>3 DEF Connector!Manifests
  <1>5. Connector!Report(w, d, FALSE, "none")
    BY <1>1, <1>3
  <1>6. d.touched \subseteq d.removing
    BY <1>1, <1>4 DEF Connector!TypeOK
  <1> QED BY <1>1, <1>4, <1>5, <1>6, TopoReport

-----------------------------------------------------------------------------
(* The owned connector: what a publication makes of the manifest. *)

AdmissionTyped == /\ policy \in 1 .. MaxPolicy /\ scope \subseteq Pipelines /\ tp \in 0 .. MaxPolicy
                  /\ present \subseteq Pipelines /\ able \subseteq Pipelines
DesiredTyped == /\ desired \in [policy: 0 .. MaxPolicy, number: Nat, anchored: BOOLEAN]
                /\ fresh \subseteq Pipelines /\ delivered \subseteq Pipelines
ServiceTyped == /\ definition \in [Pipelines -> Nat] /\ ids \in Nat /\ changes \in Seq(Connector!Outcomes)
                /\ flight \subseteq [def: Connector!Definitions, op: Nat]
TasksTyped == DOMAIN tasks \subseteq Connector!Keys /\ tasks \in [DOMAIN tasks -> Connector!WorkStates]
WorkersTyped ==
  /\ wk \in [Provisioners -> Connector!Sessions]
  /\ \A w \in Provisioners : wk[w].pc \in {"decide", "recheck", "post"} => wk[w].obs \in [Pipelines -> Nat]
OthersTyped == handoff \subseteq Connector!Reports /\ cfaults \in 0 .. MaxFaults /\ drifted \in BOOLEAN

LEMMA TopoTypes ==
  /\ Connector!TypeOK <=> AdmissionTyped /\ ManifestTyped /\ DesiredTyped /\ ServiceTyped /\ TasksTyped
                 /\ WorkersTyped /\ OthersTyped
  /\ Connector!TypeOK' <=> AdmissionTyped' /\ ManifestTyped' /\ DesiredTyped' /\ ServiceTyped' /\ TasksTyped'
                  /\ WorkersTyped' /\ OthersTyped'
  BY DEF Connector!TypeOK, AdmissionTyped, ManifestTyped, DesiredTyped, ServiceTyped, TasksTyped, WorkersTyped, OthersTyped

\* A publication is a revision of its policy that keeps the baseline and the marker.
Published ==
  /\ ManifestTyped' /\ conn'.rev = conn.rev + 1 /\ conn'.policy = policy /\ conn'.state = "provisioning"
  /\ conn'.base = conn.base /\ conn'.marker = conn.marker /\ DesiredTyped'

PublicationKey == <<"publication", conn.rev + 1>>

LEMMA TopoPublish ==
  ASSUME Connector!TypeOK, NEW c \in Connector!Manifests, NEW anchor \in BOOLEAN, NEW queue, Connector!PublishIntent(c, anchor, queue),
         c.base = conn.base, c.marker = conn.marker, c.touched \subseteq c.removing,
         c.removing \subseteq Connector!Nodes(c.own)
  PROVE  /\ Published /\ conn'.own = c.own /\ conn'.removing = c.removing
         /\ tasks' = Connector!Enqueue({PublicationKey}, queue)
  <1>1. conn' = [c EXCEPT !.rev = conn.rev + 1, !.policy = policy, !.state = "provisioning"]
    BY DEF Connector!PublishIntent, Connector!Publish, Connector!Manifest
  <1>2. conn.rev + 1 \in Nat /\ policy \in 1 .. MaxPolicy
    BY TopoMembers
  <1>3. /\ conn' \in Connector!Manifests /\ conn'.rev = conn.rev + 1 /\ conn'.policy = policy
        /\ conn'.state = "provisioning" /\ conn'.base = c.base /\ conn'.marker = c.marker
        /\ conn'.own = c.own /\ conn'.removing = c.removing /\ conn'.touched = c.touched
    BY <1>1, <1>2 DEF Connector!Manifests, Connector!ConnStates
  <1>4. ManifestTyped'
    BY <1>3 DEF ManifestTyped, Connector!Nodes
  <1>5. /\ desired' = [policy |-> policy, number |-> desired.number + 1, anchored |-> desired.anchored \/ anchor]
        /\ fresh' = {} /\ delivered' = {} /\ tasks' = Connector!Enqueue({PublicationKey}, queue)
    BY DEF Connector!PublishIntent, Connector!Publish, PublicationKey
  <1>6. desired' \in [policy: 0 .. MaxPolicy, number: Nat, anchored: BOOLEAN]
    <2>1. desired.number + 1 \in Nat /\ desired.anchored \in BOOLEAN /\ policy \in 0 .. MaxPolicy
      BY TopoMembers, TopoTypes DEF DesiredTyped
    <2>2. (desired.anchored \/ anchor) \in BOOLEAN
      BY <2>1
    <2> QED BY <1>5, <2>1, <2>2
  <1>7. DesiredTyped'
    BY <1>5, <1>6 DEF DesiredTyped
  <1> QED BY <1>3, <1>4, <1>5, <1>7 DEF Published

\* plan_definition: an item without a source may get one, sources may be set to go.
Grown == /\ \A t \in Pipelines : conn'.own[t] = conn.own[t] \/ (conn.own[t] = 0 /\ conn'.own[t] = -1)
         /\ conn.removing \subseteq conn'.removing

LEMMA TopoPlan ==
  ASSUME Connector!TypeOK, NEW e, NEW r, NEW c, c = Connector!RemovalRecords(Connector!plan_definition(conn, e, r).conn)
  PROVE  /\ c \in Connector!Manifests /\ c.base = conn.base /\ c.marker = conn.marker
         /\ c.touched \subseteq c.removing /\ c.removing \subseteq Connector!Nodes(c.own)
         /\ \A t \in Pipelines : c.own[t] = conn.own[t] \/ (conn.own[t] = 0 /\ c.own[t] = -1)
         /\ conn.removing \subseteq c.removing
  <1>1. PICK m \in Connector!Manifests : m = conn
    BY TopoMembers
  <1>2. /\ m.own \in [Pipelines -> Nat \cup {-1}] /\ m.removing \subseteq Pipelines /\ m.touched \subseteq m.removing
        /\ m.asked \in [Pipelines -> 0 .. MaxPolicy] /\ m.removing \subseteq Connector!Nodes(m.own)
        /\ m.touched \subseteq Pipelines
    BY <1>1 DEF Connector!TypeOK, Connector!Manifests, Connector!Unbound
  <1>3. PICK own : own = [t \in Pipelines |-> IF m.own[t] = 0 /\ t \in e THEN -1 ELSE m.own[t]]
    OBVIOUS
  <1>4. /\ own \in [Pipelines -> Nat \cup {-1}]
        /\ \A t \in Pipelines : own[t] = m.own[t] \/ (m.own[t] = 0 /\ own[t] = -1)
    BY <1>2, <1>3
  <1>5. PICK rem : rem = m.removing \cup (Connector!Nodes(m.own) \cap r)
    OBVIOUS
  <1>6. rem \subseteq Pipelines /\ m.removing \subseteq rem /\ rem \subseteq Connector!Nodes(m.own)
    BY <1>2, <1>5 DEF Connector!Nodes
  <1>7. rem \subseteq Connector!Nodes(own)
    BY <1>2, <1>4, <1>6 DEF Connector!Nodes, Connector!Absent
  <1>8. PICK p : p = [m EXCEPT !.own = own, !.removing = rem]
    OBVIOUS
  <1>9. Connector!plan_definition(conn, e, r).conn = p
    BY <1>1, <1>3, <1>5, <1>8 DEF Connector!plan_definition, Connector!Absent, Connector!Unbound
  <1>10. /\ p \in Connector!Manifests /\ p.own = own /\ p.removing = rem /\ p.base = m.base /\ p.marker = m.marker
         /\ p.touched = m.touched /\ p.asked = m.asked
    BY <1>4, <1>6, <1>8 DEF Connector!Manifests, Connector!Unbound
  <1>11. PICK asked : asked = [t \in Pipelines |-> IF t \in rem \ m.removing THEN policy ELSE m.asked[t]]
    OBVIOUS
  <1>12. asked \in [Pipelines -> 0 .. MaxPolicy]
    BY <1>2, <1>11, TopoMembers
  <1>13. PICK touched : touched = m.touched \cup (IF Connector!Marked(conn) \/ conn.op # 0 THEN rem \ m.removing ELSE {})
    OBVIOUS
  <1>14. touched \subseteq rem /\ touched \subseteq Pipelines
    BY <1>2, <1>6, <1>13
  <1>15. c = [p EXCEPT !.asked = asked, !.touched = touched]
    BY <1>1, <1>9, <1>10, <1>11, <1>13 DEF Connector!RemovalRecords
  <1>16. /\ c \in Connector!Manifests /\ c.own = own /\ c.removing = rem /\ c.base = m.base /\ c.marker = m.marker
         /\ c.touched = touched
    BY <1>10, <1>12, <1>14, <1>15 DEF Connector!Manifests
  <1> QED BY <1>1, <1>4, <1>6, <1>7, <1>14, <1>16

\* The plan published with an admission: kept, or a new revision.
PlanKept(queue) == /\ tasks' = queue /\ UNCHANGED <<conn, desired, delivered>>
PlanPublished(queue) == Published /\ Grown /\ tasks' = Connector!Enqueue({PublicationKey}, queue)

LEMMA TopoPublishDesired ==
  ASSUME Connector!TypeOK, NEW cur, NEW ab, NEW removable, NEW probed \in SUBSET Pipelines, NEW queue,
         Connector!PublishDesired(cur, ab, removable, probed, queue)
  PROVE  DesiredTyped' /\ ManifestTyped' /\ (PlanKept(queue) \/ PlanPublished(queue))
  <1>1. PICK c : c = Connector!RemovalRecords(Connector!plan_definition(conn, cur \cap ab, removable).conn)
    OBVIOUS
  <1>2. \/ PlanKept(queue) /\ fresh' = fresh \cup probed
        \/ Connector!PublishIntent(c, FALSE, queue)
    BY <1>1, Zenon DEF Connector!PublishDesired, PlanKept
  <1>3. CASE PlanKept(queue) /\ fresh' = fresh \cup probed
    <2>1. conn' = conn /\ desired' = desired /\ delivered' = delivered /\ fresh' \subseteq Pipelines
      BY <1>3, TopoTypes DEF PlanKept, DesiredTyped
    <2>2. DesiredTyped'
      BY <2>1, TopoTypes DEF DesiredTyped
    <2>3. ManifestTyped'
      BY <2>1, TopoTypes DEF ManifestTyped
    <2> QED BY <1>3, <2>2, <2>3
  <1>4. CASE Connector!PublishIntent(c, FALSE, queue)
    <2>1. /\ c \in Connector!Manifests /\ c.base = conn.base /\ c.marker = conn.marker
          /\ c.touched \subseteq c.removing /\ c.removing \subseteq Connector!Nodes(c.own)
          /\ \A t \in Pipelines : c.own[t] = conn.own[t] \/ (conn.own[t] = 0 /\ c.own[t] = -1)
          /\ conn.removing \subseteq c.removing
      BY <1>1, TopoPlan
    <2>2. /\ Published /\ conn'.own = c.own /\ conn'.removing = c.removing
          /\ tasks' = Connector!Enqueue({PublicationKey}, queue)
      BY <1>4, <2>1, TopoPublish
    <2>3. Grown
      BY <2>1, <2>2 DEF Grown
    <2> QED BY <2>2, <2>3 DEF PlanPublished, Published
  <1> QED BY <1>2, <1>3, <1>4

\* The binding publication takes the identities of the baseline.
LEMMA TopoBind ==
  ASSUME Connector!TypeOK, NEW h, Connector!BindSources(h)
  PROVE  /\ Published /\ conn'.own = conn.base /\ conn'.removing = {}
         /\ tasks' = Connector!Enqueue({PublicationKey}, tasks) /\ conn.base \in [Pipelines -> Nat]
  <1>1. PICK m \in Connector!Manifests : m = conn
    BY TopoMembers
  <1>2. m.base \in [Pipelines -> Nat]
    BY <1>1 DEF Connector!BindSources, Connector!Evidence, Connector!Manifests
  <1>3. PICK c : c = [m EXCEPT !.own = m.base, !.removing = {}, !.touched = {}]
    OBVIOUS
  <1>4. /\ c \in Connector!Manifests /\ c.own = m.base /\ c.removing = {} /\ c.touched = {} /\ c.base = m.base
        /\ c.marker = m.marker
    BY <1>2, <1>3 DEF Connector!Manifests
  <1>5. Connector!PublishIntent(c, FALSE, tasks)
    BY <1>1, <1>3 DEF Connector!BindSources
  <1> QED BY <1>1, <1>2, <1>4, <1>5, TopoPublish

\* The restoration publication: nodes that are there are wanted again.
RestoredQueue == [k \in DOMAIN tasks |-> IF tasks[k] = "queued" THEN "done" ELSE tasks[k]]

LEMMA TopoRestore ==
  ASSUME Connector!TypeOK, NEW h, Connector!RestoreSources(h)
  PROVE  /\ Published /\ conn'.own = conn.own /\ conn'.removing = conn.removing \ Connector!Restorable
         /\ tasks' = Connector!Enqueue({PublicationKey}, RestoredQueue)
  <1>1. PICK m \in Connector!Manifests : m = conn
    BY TopoMembers
  <1>2. PICK R : R = Connector!Restorable
    OBVIOUS
  <1>3. PICK c : c = [m EXCEPT !.removing = m.removing \ R]
    OBVIOUS
  <1>4. /\ m.removing \subseteq Pipelines /\ m.touched \subseteq m.removing /\ m.removing \subseteq Connector!Nodes(m.own)
    BY <1>1 DEF Connector!TypeOK, Connector!Manifests
  <1>5. /\ c \in Connector!Manifests /\ c.own = m.own /\ c.removing = m.removing \ R /\ c.touched = m.touched
        /\ c.base = m.base /\ c.marker = m.marker
    BY <1>3, <1>4 DEF Connector!Manifests
  <1>6. Connector!PublishIntent(c, TRUE, RestoredQueue)
    BY <1>1, <1>2, <1>3 DEF Connector!RestoreSources, Connector!Restoration, RestoredQueue
  <1>7. \A t \in R : t \notin m.touched
    BY <1>1, <1>2 DEF Connector!RestoreSources, Connector!Supersedable, Connector!NothingSent
  <1>8. c.touched \subseteq c.removing
    BY <1>4, <1>5, <1>7
  <1>9. c.removing \subseteq Connector!Nodes(c.own)
    BY <1>4, <1>5
  <1>10. Published /\ conn'.own = c.own /\ conn'.removing = c.removing /\ tasks' = Connector!Enqueue({PublicationKey}, RestoredQueue)
    BY <1>1, <1>5, <1>6, <1>8, <1>9, TopoPublish
  <1> QED BY <1>1, <1>2, <1>5, <1>10

\* The readiness publication is a revision, and nothing else of the manifest.
LEMMA TopoReady ==
  ASSUME Connector!TypeOK, NEW h, Connector!PublishReady(h)
  PROVE  /\ OwnershipKept /\ conn'.state = "ready" /\ conn'.base = conn.base /\ conn'.marker = conn.marker
         /\ UNCHANGED <<desired, fresh, delivered, tasks>>
  <1>1. PICK m \in Connector!Manifests : m = conn /\ m.rev + 1 \in Nat
    BY TopoMembers
  <1>2. conn' = [m EXCEPT !.rev = m.rev + 1, !.state = "ready"]
    BY <1>1 DEF Connector!PublishReady
  <1>3. /\ conn' \in Connector!Manifests /\ conn'.rev = m.rev + 1 /\ conn'.state = "ready" /\ conn'.policy = m.policy
        /\ conn'.own = m.own /\ conn'.removing = m.removing /\ conn'.touched = m.touched
        /\ conn'.base = m.base /\ conn'.marker = m.marker
    BY <1>1, <1>2 DEF Connector!Manifests, Connector!ConnStates
  <1>4. m.touched \subseteq m.removing /\ m.removing \subseteq Connector!Nodes(m.own)
    BY <1>1 DEF Connector!TypeOK
  <1>5. ManifestTyped'
    BY <1>3, <1>4 DEF ManifestTyped, Connector!Nodes
  <1> QED BY <1>1, <1>3, <1>5 DEF OwnershipKept, Connector!PublishReady
-----------------------------------------------------------------------------
(* The owned connector: the outcomes of a worker's step. *)

\* An inspected definition that is the Eventstream's while no other update is licensed.
Clean(w, d) ==
  Connector!UpdateSound /\ Connector!BaseClear /\ ~drifted =>
    d = definition /\ flight = {} /\ \A v \in Provisioners \ {w} : wk[v].pc # "post"

VerifiedStep(w) == \E obs \in [Pipelines -> Nat] : Connector!Verified(w, obs) /\ Clean(w, obs)
RestoreFinish(w) ==
  Connector!ReportAndFinish(w, Connector!Restored(w), FALSE, "fresh") /\ wk[w].obs \in [Pipelines -> Nat] /\ Clean(w, wk[w].obs)
RestoreDefer(w) ==
  Connector!ReportAndDefer(w, Connector!Restored(w)) /\ wk[w].obs \in [Pipelines -> Nat] /\ Clean(w, wk[w].obs)
Intended(w) ==
  /\ Connector!SaveIntent(w) /\ wk[w].pc = "decide"
  /\ Connector!UpdateSound /\ ~drifted => /\ wk[w].obs = definition /\ ~Connector!Underway
                                 /\ ~Connector!matches_update(definition, Connector!DesiredDefinition(conn))
Acked(w) == Connector!ReportAndDefer(w, [conn EXCEPT !.op = wk[w].op])
Sent(w) ==
  /\ wk[w].pc = "recheck" /\ wk[w].seen = conn.rev
  /\ wk' = [wk EXCEPT ![w] = [wk[w] EXCEPT !.pc = "post", !.def = conn.marker]]
  /\ UNCHANGED <<Connector!manifestVars, Connector!serviceVars, tasks, handoff>>

WorkerSave(w) ==
  /\ wk[w].held /\ UNCHANGED <<Connector!admissionVars, drifted>> /\ cfaults' \in 0 .. MaxFaults
  /\ \/ Connector!Defer(w) \/ Connector!Block(w) \/ VerifiedStep(w) \/ RestoreFinish(w) \/ RestoreDefer(w)
     \/ Intended(w) \/ Acked(w) \/ Sent(w)

\* What a worker inspected is still so when it can save.
LEMMA TopoClean ==
  ASSUME Connector!TypeOK, NEW w \in Provisioners, wk[w].seen = conn.rev
  PROVE  /\ wk[w].pc = "decide" /\ (~Connector!Marked(conn) \/ Connector!matches_update(wk[w].obs, conn.marker)) =>
              Clean(w, wk[w].obs)
         /\ wk[w].pc \in {"recheck", "post"} => Clean(w, wk[w].obs)
         /\ wk[w].pc = "reinspect" => Clean(w, definition)
  <1> SUFFICES ASSUME Connector!UpdateSound, ~drifted
               PROVE  /\ wk[w].pc = "decide" /\ (~Connector!Marked(conn) \/ Connector!matches_update(wk[w].obs, conn.marker)) =>
                           wk[w].obs = definition /\ flight = {} /\ Connector!Posting = {}
                      /\ wk[w].pc = "recheck" => wk[w].obs = definition /\ flight = {} /\ Connector!Posting = {}
                      /\ wk[w].pc = "post" => wk[w].obs = definition /\ flight = {} /\ Connector!Posting = {w}
                      /\ wk[w].pc = "reinspect" => flight = {} /\ Connector!Posting = {}
    BY Zenon DEF Clean, Connector!Posting
  <1>1. Connector!InspectionHolds /\ Connector!OneLicence
    BY DEF Connector!UpdateSound
  <1>2. ASSUME wk[w].pc = "decide", ~Connector!Marked(conn) \/ Connector!matches_update(wk[w].obs, conn.marker)
        PROVE  wk[w].obs = definition /\ flight = {} /\ Connector!Posting = {}
    BY <1>1, <1>2 DEF Connector!InspectionHolds, Connector!Underway
  <1>3. ASSUME wk[w].pc = "recheck"
        PROVE  wk[w].obs = definition /\ flight = {} /\ Connector!Posting = {}
    BY <1>1, <1>3 DEF Connector!InspectionHolds, Connector!OneLicence, Connector!Licensed
  <1>4. ASSUME wk[w].pc = "post"
        PROVE  wk[w].obs = definition /\ flight = {} /\ Connector!Posting = {w}
    BY <1>1, <1>4 DEF Connector!InspectionHolds, Connector!OneLicence, Connector!Posting
  <1>5. ASSUME wk[w].pc = "reinspect"
        PROVE  flight = {} /\ Connector!Posting = {}
    BY <1>1, <1>5 DEF Connector!InspectionHolds, Connector!Underway
  <1> QED BY <1>2, <1>3, <1>4, <1>5

LEMMA TopoDecide ==
  ASSUME Connector!TypeOK, NEW w \in Provisioners, Connector!Decide(w)
  PROVE  WorkerSave(w)
  <1>1. /\ wk[w].pc = "decide" /\ wk[w].held /\ UNCHANGED <<Connector!admissionVars, drifted>> /\ cfaults' = cfaults
        /\ wk[w].obs \in [Pipelines -> Nat]
    BY DEF Connector!Decide, Connector!TypeOK
  <1>2. cfaults' \in 0 .. MaxFaults
    BY <1>1 DEF Connector!TypeOK
  <1>3. CASE Connector!Defer(w) \/ Connector!Block(w)
    BY <1>1, <1>2, <1>3 DEF WorkerSave
  <1>4. CASE /\ Connector!CanSave(w) /\ Connector!Verified(w, wk[w].obs)
             /\ ~Connector!Marked(conn) \/ Connector!matches_update(wk[w].obs, conn.marker)
    <2>1. Clean(w, wk[w].obs)
      BY <1>1, <1>4, TopoClean DEF Connector!CanSave
    <2>2. VerifiedStep(w)
      BY <1>1, <1>4, <2>1 DEF VerifiedStep
    <2> QED BY <1>1, <1>2, <2>2 DEF WorkerSave
  <1>5. CASE Connector!CanSave(w) /\ ~Connector!Marked(conn) /\ Connector!ReportAndFinish(w, Connector!Restored(w), FALSE, "fresh")
    <2>1. Clean(w, wk[w].obs)
      BY <1>1, <1>5, TopoClean DEF Connector!CanSave
    <2>2. RestoreFinish(w)
      BY <1>1, <1>5, <2>1 DEF RestoreFinish
    <2> QED BY <1>1, <1>2, <2>2 DEF WorkerSave
  <1>6. CASE /\ Connector!CanSave(w) /\ ~Connector!Marked(conn) /\ Connector!SaveIntent(w)
             /\ ~Connector!matches_update(wk[w].obs, Connector!DesiredDefinition(conn))
    <2>1. ASSUME Connector!UpdateSound, ~drifted
          PROVE  wk[w].obs = definition /\ ~Connector!Underway
      BY <1>1, <1>6, <2>1 DEF Connector!UpdateSound, Connector!InspectionHolds, Connector!CanSave
    <2>2. Intended(w)
      BY <1>1, <1>6, <2>1, Zenon DEF Intended
    <2> QED BY <1>1, <1>2, <2>2 DEF WorkerSave
  <1> QED BY <1>3, <1>4, <1>5, <1>6, Zenon DEF Connector!Decide, Connector!ObserveRetainedPresence

LEMMA TopoWorkerSave ==
  ASSUME Connector!TypeOK, NEW w \in Provisioners,
         Connector!Decide(w) \/ Connector!ProbeFails(w) \/ Connector!Recheck(w) \/ Connector!PostNotSent(w) \/ Connector!Acknowledge(w) \/ Connector!Reinspect(w)
  PROVE  WorkerSave(w)
  <1>0. cfaults \in 0 .. MaxFaults /\ (Connector!Fault => cfaults' \in 0 .. MaxFaults)
    BY TopoFaultTyped DEF Connector!TypeOK
  <1>1. CASE Connector!Decide(w)
    BY <1>1, TopoDecide
  <1>2. CASE Connector!ProbeFails(w)
    BY <1>0, <1>2, Zenon DEF Connector!ProbeFails, WorkerSave
  <1>3. CASE Connector!Recheck(w)
    <2>1. /\ wk[w].pc = "recheck" /\ wk[w].held /\ UNCHANGED <<Connector!admissionVars, drifted>> /\ cfaults' = cfaults
          /\ wk[w].obs \in [Pipelines -> Nat]
      BY <1>3 DEF Connector!Recheck, Connector!TypeOK
    <2>2. CASE Connector!Defer(w)
      BY <1>0, <2>1, <2>2 DEF WorkerSave
    <2>3. CASE Connector!CanSave(w) /\ Connector!ReportAndDefer(w, Connector!Restored(w))
      <3>1. Clean(w, wk[w].obs)
        BY <2>1, <2>3, TopoClean DEF Connector!CanSave
      <3>2. RestoreDefer(w)
        BY <2>1, <2>3, <3>1 DEF RestoreDefer
      <3> QED BY <1>0, <2>1, <3>2 DEF WorkerSave
    <2>4. CASE /\ Connector!CanSave(w) /\ Connector!Become(w, [wk[w] EXCEPT !.pc = "post", !.def = conn.marker])
               /\ UNCHANGED <<Connector!manifestVars, Connector!serviceVars, tasks, handoff>>
      <3>1. Sent(w)
        BY <2>1, <2>4 DEF Sent, Connector!CanSave, Connector!Become
      <3> QED BY <1>0, <2>1, <3>1 DEF WorkerSave
    <2> QED BY <1>3, <2>2, <2>3, <2>4, Zenon DEF Connector!Recheck
  <1>4. CASE Connector!PostNotSent(w)
    <2>1. /\ wk[w].pc = "post" /\ wk[w].held /\ UNCHANGED <<Connector!admissionVars, drifted>> /\ Connector!Fault
          /\ wk[w].obs \in [Pipelines -> Nat]
      BY <1>4 DEF Connector!PostNotSent, Connector!TypeOK
    <2>2. CASE Connector!Defer(w)
      BY <1>0, <2>1, <2>2 DEF WorkerSave
    <2>3. CASE Connector!CanSave(w) /\ Connector!ReportAndDefer(w, Connector!Restored(w))
      <3>1. Clean(w, wk[w].obs)
        BY <2>1, <2>3, TopoClean DEF Connector!CanSave
      <3>2. RestoreDefer(w)
        BY <2>1, <2>3, <3>1 DEF RestoreDefer
      <3> QED BY <1>0, <2>1, <3>2 DEF WorkerSave
    <2> QED BY <1>4, <2>2, <2>3, Zenon DEF Connector!PostNotSent
  <1>5. CASE Connector!Acknowledge(w)
    <2>1. /\ wk[w].held /\ UNCHANGED <<Connector!admissionVars, drifted>> /\ cfaults' = cfaults
          /\ Connector!Defer(w) \/ Acked(w)
      BY <1>5, Zenon DEF Connector!Acknowledge, Acked
    <2> QED BY <1>0, <2>1 DEF WorkerSave
  <1>6. CASE Connector!Reinspect(w)
    <2>1. wk[w].pc = "reinspect" /\ wk[w].held /\ UNCHANGED <<Connector!admissionVars, drifted>> /\ cfaults' = cfaults
      BY <1>6 DEF Connector!Reinspect
    <2>2. CASE Connector!Defer(w) \/ Connector!Block(w)
      BY <1>0, <2>1, <2>2 DEF WorkerSave
    <2>3. CASE Connector!CanSave(w) /\ Connector!Verified(w, definition)
      <3>1. Clean(w, definition) /\ definition \in [Pipelines -> Nat]
        BY <2>1, <2>3, TopoClean DEF Connector!CanSave, Connector!TypeOK
      <3>2. VerifiedStep(w)
        BY <2>3, <3>1 DEF VerifiedStep
      <3> QED BY <1>0, <2>1, <3>2 DEF WorkerSave
    <2> QED BY <1>6, <2>2, <2>3, Zenon DEF Connector!Reinspect
  <1> QED BY <1>1, <1>2, <1>3, <1>4, <1>5, <1>6
-----------------------------------------------------------------------------
(* The owned connector: every step keeps the types. *)

\* A worker's session is replaced by a session.
LEMMA TopoBecomeTyped ==
  ASSUME Connector!TypeOK, NEW w \in Provisioners, NEW r \in Connector!Sessions,
         r.pc \in {"decide", "recheck", "post"} => r.obs \in [Pipelines -> Nat],
         wk' = [wk EXCEPT ![w] = r]
  PROVE  WorkersTyped'
  BY TopoTypes DEF WorkersTyped

\* A save is reported and its work stays as it is.
LEMMA TopoReportedTyped ==
  ASSUME Connector!TypeOK, NEW key, NEW ready, NEW insp, Reported(key, ready, insp)
  PROVE  DesiredTyped' /\ handoff' \subseteq Connector!Reports
  <1>1. handoff \subseteq Connector!Reports
    BY DEF Connector!TypeOK
  <1>2. handoff' \subseteq Connector!Reports
    BY <1>1 DEF Reported
  <1>3. DesiredTyped'
    BY TopoTypes DEF Reported, DesiredTyped
  <1> QED BY <1>2, <1>3

LEMMA TopoSettled ==
  ASSUME Connector!TypeOK, NEW w \in Provisioners, NEW s \in Connector!WorkStates, Connector!Settle(w, s)
  PROVE  TasksTyped'
  BY TopoSettleTyped, TopoTypes DEF TasksTyped

\* The outcomes of a worker's step, in the parts that the types constrain.
LEMMA TopoFinishSession ==
  ASSUME Connector!TypeOK, NEW w \in Provisioners,
         wk' = [wk EXCEPT ![w] = [wk[w] EXCEPT !.pc = "finish", !.pol = policy]]
  PROVE  WorkersTyped'
  <1>1. PICK g \in Connector!Sessions : g = wk[w] /\ policy \in Nat
    BY TopoMembers
  <1>2. PICK r : r = [g EXCEPT !.pc = "finish", !.pol = policy]
    OBVIOUS
  <1>3. r \in Connector!Sessions /\ r.pc = "finish"
    BY <1>1, <1>2 DEF Connector!Sessions, Connector!Steps
  <1>4. wk' = [wk EXCEPT ![w] = r]
    BY <1>1, <1>2
  <1> QED BY <1>3, <1>4, TopoBecomeTyped

LEMMA TopoIdleSession ==
  ASSUME Connector!TypeOK, NEW w \in Provisioners, Connector!Become(w, Connector!Idle)
  PROVE  WorkersTyped'
  BY TopoIdle, TopoBecomeTyped DEF Connector!Become

LEMMA TopoSaveTyped ==
  ASSUME Connector!TypeOK, NEW w \in Provisioners, WorkerSave(w)
  PROVE  Connector!TypeOK'
  <1>1. AdmissionTyped'
    BY TopoTypes DEF WorkerSave, AdmissionTyped, Connector!admissionVars
  <1>2. drifted' \in BOOLEAN /\ cfaults' \in 0 .. MaxFaults
    BY DEF WorkerSave, Connector!TypeOK
  <1>3. "waiting" \in Connector!WorkStates
    BY DEF Connector!WorkStates
  <1> DEFINE Rest == /\ ManifestTyped' /\ DesiredTyped' /\ ServiceTyped' /\ TasksTyped'
                     /\ WorkersTyped' /\ handoff' \subseteq Connector!Reports
  <1>4. ASSUME Connector!Defer(w)
        PROVE  Rest
    <2>1. TasksTyped' /\ WorkersTyped'
      BY <1>3, <1>4, TopoSettled, TopoIdleSession DEF Connector!Defer
    <2>2. /\ UNCHANGED <<conn, desired, fresh, delivered>>
          /\ UNCHANGED <<definition, flight, changes, ids>> /\ handoff' = handoff
      BY <1>4 DEF Connector!Defer, Connector!manifestVars, Connector!serviceVars
    <2>3. ManifestTyped' /\ DesiredTyped'
      BY <2>2, TopoTypes DEF ManifestTyped, DesiredTyped
    <2>4. ServiceTyped' /\ handoff' \subseteq Connector!Reports
      BY <2>2, TopoTypes DEF ServiceTyped, OthersTyped
    <2> QED BY <2>1, <2>3, <2>4 DEF Rest
  <1>5. ASSUME OwnershipKept, NEW key, NEW ready, NEW insp, Reported(key, ready, insp)
        PROVE  ManifestTyped' /\ DesiredTyped' /\ handoff' \subseteq Connector!Reports
    BY <1>5, TopoReportedTyped DEF OwnershipKept
  <1>6. ASSUME UNCHANGED Connector!serviceVars
        PROVE  ServiceTyped'
    BY <1>6, TopoTypes DEF ServiceTyped, Connector!serviceVars
  <1>7. ASSUME tasks' = tasks
        PROVE  TasksTyped'
    BY <1>7, TopoTypes DEF TasksTyped
  <1>8. ASSUME Connector!Block(w)
        PROVE  Rest
    <2>1. /\ OwnershipKept /\ Reported(wk[w].key, FALSE, "none") /\ UNCHANGED Connector!serviceVars /\ tasks' = tasks
          /\ WorkersTyped'
      BY <1>8, TopoBlock, TopoFinishSession
    <2> QED BY <1>5, <1>6, <1>7, <2>1 DEF Rest
  <1>9. ASSUME VerifiedStep(w)
        PROVE  Rest
    <2>1. PICK obs \in [Pipelines -> Nat] : Connector!Verified(w, obs)
      BY <1>9 DEF VerifiedStep
    <2>2. PICK ready \in BOOLEAN : Reported(wk[w].key, ready, "none")
      BY <2>1, TopoVerified
    <2>3. /\ OwnershipKept /\ UNCHANGED Connector!serviceVars /\ tasks' = tasks /\ WorkersTyped'
      BY <2>1, TopoVerified, TopoFinishSession
    <2> QED BY <1>5, <1>6, <1>7, <2>2, <2>3 DEF Rest
  <1>10. ASSUME RestoreFinish(w)
         PROVE  Rest
    <2>1. /\ wk[w].obs \in [Pipelines -> Nat] /\ Connector!Report(w, Connector!Restored(w), FALSE, "fresh")
          /\ wk' = [wk EXCEPT ![w] = [wk[w] EXCEPT !.pc = "finish", !.pol = policy]]
          /\ UNCHANGED Connector!serviceVars /\ tasks' = tasks
      BY <1>10 DEF RestoreFinish, Connector!ReportAndFinish, Connector!Become
    <2>2. OwnershipKept /\ Reported(wk[w].key, FALSE, "fresh") /\ WorkersTyped'
      BY <2>1, TopoRestored, TopoFinishSession DEF RestoredBy
    <2> QED BY <1>5, <1>6, <1>7, <2>1, <2>2 DEF Rest
  <1>11. ASSUME RestoreDefer(w)
         PROVE  Rest
    <2>1. /\ wk[w].obs \in [Pipelines -> Nat] /\ Connector!Report(w, Connector!Restored(w), FALSE, "none")
          /\ Connector!Become(w, Connector!Idle) /\ Connector!Settle(w, "waiting") /\ UNCHANGED Connector!serviceVars
      BY <1>11 DEF RestoreDefer, Connector!ReportAndDefer
    <2>2. OwnershipKept /\ Reported(wk[w].key, FALSE, "none") /\ WorkersTyped' /\ TasksTyped'
      BY <1>3, <2>1, TopoRestored, TopoIdleSession, TopoSettled DEF RestoredBy
    <2> QED BY <1>5, <1>6, <2>1, <2>2 DEF Rest
  <1>12. ASSUME Intended(w)
         PROVE  Rest
    <2>1. /\ OwnershipKept /\ Reported(wk[w].key, FALSE, "none") /\ UNCHANGED Connector!serviceVars /\ tasks' = tasks
          /\ wk' = [wk EXCEPT ![w] = [wk[w] EXCEPT !.pc = "recheck", !.seen = conn.rev + 1]]
      BY <1>12, TopoSaveIntent DEF Intended
    <2>2. PICK g \in Connector!Sessions : g = wk[w] /\ conn.rev + 1 \in Nat
      BY TopoMembers
    <2>3. PICK r : r = [g EXCEPT !.pc = "recheck", !.seen = conn.rev + 1]
      OBVIOUS
    <2>4. r \in Connector!Sessions /\ r.obs = g.obs
      BY <2>2, <2>3 DEF Connector!Sessions, Connector!Steps
    <2>5. g.obs \in [Pipelines -> Nat]
      BY <1>12, <2>2 DEF Intended, Connector!TypeOK
    <2>6. WorkersTyped'
      BY <2>1, <2>2, <2>3, <2>4, <2>5, TopoBecomeTyped
    <2> QED BY <1>5, <1>6, <1>7, <2>1, <2>6 DEF Rest
  <1>13. ASSUME Acked(w)
         PROVE  Rest
    <2>1. /\ Connector!Report(w, [conn EXCEPT !.op = wk[w].op], FALSE, "none")
          /\ Connector!Become(w, Connector!Idle) /\ Connector!Settle(w, "waiting") /\ UNCHANGED Connector!serviceVars
      BY <1>13 DEF Acked, Connector!ReportAndDefer
    <2>2. OwnershipKept /\ Reported(wk[w].key, FALSE, "none") /\ WorkersTyped' /\ TasksTyped'
      BY <1>3, <2>1, TopoAcknowledged, TopoIdleSession, TopoSettled
    <2> QED BY <1>5, <1>6, <2>1, <2>2 DEF Rest
  <1>14. ASSUME Sent(w)
         PROVE  Rest
    <2>1. /\ wk' = [wk EXCEPT ![w] = [wk[w] EXCEPT !.pc = "post", !.def = conn.marker]]
          /\ UNCHANGED <<conn, desired, fresh, delivered>> /\ UNCHANGED Connector!serviceVars
          /\ tasks' = tasks /\ handoff' = handoff /\ wk[w].pc = "recheck"
      BY <1>14 DEF Sent, Connector!manifestVars
    <2>2. PICK g \in Connector!Sessions : g = wk[w] /\ conn.marker \in Connector!Definitions
      BY TopoMembers
    <2>3. PICK r : r = [g EXCEPT !.pc = "post", !.def = conn.marker]
      OBVIOUS
    <2>4. r \in Connector!Sessions /\ r.obs = g.obs
      BY <2>2, <2>3 DEF Connector!Sessions, Connector!Steps
    <2>5. g.obs \in [Pipelines -> Nat]
      BY <2>1, <2>2 DEF Connector!TypeOK
    <2>6. WorkersTyped'
      BY <2>1, <2>2, <2>3, <2>4, <2>5, TopoBecomeTyped
    <2>7. ManifestTyped' /\ DesiredTyped'
      BY <2>1, TopoTypes DEF ManifestTyped, DesiredTyped
    <2>8. handoff' \subseteq Connector!Reports
      BY <2>1 DEF Connector!TypeOK
    <2> QED BY <1>6, <1>7, <2>1, <2>6, <2>7, <2>8 DEF Rest
  <1>15. Rest
    BY <1>4, <1>8, <1>9, <1>10, <1>11, <1>12, <1>13, <1>14 DEF WorkerSave
  <1> QED BY <1>1, <1>2, <1>15, TopoTypes DEF OthersTyped

\* The parts of the state a step leaves keep their types.
LEMMA TopoFrame ==
  ASSUME Connector!TypeOK
  PROVE  /\ UNCHANGED Connector!admissionVars => AdmissionTyped'
         /\ UNCHANGED Connector!manifestVars => ManifestTyped' /\ DesiredTyped'
         /\ UNCHANGED Connector!serviceVars => ServiceTyped'
         /\ tasks' = tasks => TasksTyped'
         /\ wk' = wk => WorkersTyped'
         /\ handoff' \subseteq handoff => handoff' \subseteq Connector!Reports
         /\ drifted' = drifted => drifted' \in BOOLEAN
         /\ cfaults' = cfaults \/ Connector!Fault => cfaults' \in 0 .. MaxFaults
  <1>1. UNCHANGED Connector!admissionVars => AdmissionTyped'
    BY TopoTypes DEF AdmissionTyped, Connector!admissionVars
  <1>2. ASSUME UNCHANGED Connector!manifestVars
        PROVE  ManifestTyped' /\ DesiredTyped'
    BY <1>2, TopoTypes DEF ManifestTyped, DesiredTyped, Connector!manifestVars
  <1>3. UNCHANGED Connector!serviceVars => ServiceTyped'
    BY TopoTypes DEF ServiceTyped, Connector!serviceVars
  <1>4. tasks' = tasks => TasksTyped'
    BY TopoTypes DEF TasksTyped
  <1>5. wk' = wk => WorkersTyped'
    BY TopoTypes DEF WorkersTyped
  <1>6. /\ handoff' \subseteq handoff => handoff' \subseteq Connector!Reports
        /\ drifted' = drifted => drifted' \in BOOLEAN
        /\ cfaults' = cfaults \/ Connector!Fault => cfaults' \in 0 .. MaxFaults
    BY TopoFaultTyped DEF Connector!TypeOK
  <1> QED BY <1>1, <1>2, <1>3, <1>4, <1>5, <1>6

\* The worker's other steps.
LEMMA TopoWorkerTyped ==
  ASSUME Connector!TypeOK, NEW w \in Provisioners,
         \/ \E k \in DOMAIN tasks : Connector!Inspect(w, k)
         \/ Connector!Post(w) \/ Connector!PostUncertain(w) \/ Connector!Finish(w) \/ Connector!LeaseExpires(w) \/ Connector!LeaseLost(w)
  PROVE  Connector!TypeOK'
  <1> USE TopoFrame
  <1>0. PICK g \in Connector!Sessions : g = wk[w] /\ conn.rev \in Nat /\ g.def \in Connector!Definitions
    BY TopoMembers
  <1>1. CASE \E k \in DOMAIN tasks : Connector!Inspect(w, k)
    <2>1. PICK k \in DOMAIN tasks : Connector!Inspect(w, k)
      BY <1>1
    <2>2. PICK s \in Connector!WorkStates : tasks' = [tasks EXCEPT ![k] = s]
      BY <2>1 DEF Connector!Inspect, Connector!WorkStates
    <2>3. TasksTyped'
      <3>1. PICK D : D = DOMAIN tasks /\ tasks \in [D -> Connector!WorkStates] /\ D \subseteq Connector!Keys
        BY DEF Connector!TypeOK
      <3>2. tasks' \in [D -> Connector!WorkStates]
        BY <2>2, <3>1
      <3> QED BY <3>1, <3>2 DEF TasksTyped
    <2>4. WorkersTyped'
      <3>1. CASE Connector!Become(w, Connector!Idle)
        BY <3>1, TopoIdleSession
      <3>2. CASE Connector!Become(w, [Connector!Idle EXCEPT !.pc = "decide", !.key = k, !.held = TRUE,
                                          !.seen = conn.rev, !.obs = definition])
        <4>1. PICK i \in Connector!Sessions : i = Connector!Idle
          BY TopoIdle
        <4>2. definition \in [Pipelines -> Nat] /\ definition \in Connector!Definitions /\ k \in Connector!Keys
          BY TopoSets DEF Connector!TypeOK
        <4>3. PICK r : r = [i EXCEPT !.pc = "decide", !.key = k, !.held = TRUE, !.seen = conn.rev, !.obs = definition]
          OBVIOUS
        <4>4. r \in Connector!Sessions /\ r.obs = definition
          BY <1>0, <4>1, <4>2, <4>3 DEF Connector!Sessions, Connector!Steps
        <4>5. wk' = [wk EXCEPT ![w] = r]
          BY <3>2, <4>1, <4>3 DEF Connector!Become
        <4> QED BY <4>2, <4>4, <4>5, TopoBecomeTyped
      <3> QED BY <2>1, <3>1, <3>2, Zenon DEF Connector!Inspect
    <2> QED BY <2>1, <2>3, <2>4, TopoTypes DEF Connector!Inspect, OthersTyped
  <1>2. CASE Connector!Post(w)
    <2>1. PICK n \in Nat : ids = n
      BY DEF Connector!TypeOK
    <2>2. /\ UNCHANGED Connector!admissionVars /\ UNCHANGED Connector!manifestVars /\ tasks' = tasks /\ handoff' = handoff
          /\ cfaults' = cfaults /\ drifted' = drifted
      BY <1>2 DEF Connector!Post
    <2>3. CASE /\ definition' = Connector!Applied(wk[w].def) /\ ids' = ids + 1
               /\ Connector!Become(w, [wk[w] EXCEPT !.pc = "reinspect"]) /\ UNCHANGED <<flight, changes>>
      <3>1. definition' \in [Pipelines -> Nat]
        BY <2>1, <2>3 DEF Connector!Applied, Connector!Absent, Connector!TypeOK
      <3>2. ServiceTyped'
        BY <2>1, <2>3, <3>1 DEF ServiceTyped, Connector!TypeOK
      <3>3. PICK r : r = [g EXCEPT !.pc = "reinspect"]
        OBVIOUS
      <3>4. r \in Connector!Sessions /\ r.pc = "reinspect"
        BY <1>0, <3>3 DEF Connector!Sessions, Connector!Steps
      <3>5. WorkersTyped'
        BY <1>0, <2>3, <3>3, <3>4, TopoBecomeTyped DEF Connector!Become
      <3> QED BY <2>2, <3>2, <3>5, TopoTypes DEF OthersTyped
    <2>4. CASE /\ changes' = Append(changes, "running")
               /\ flight' = flight \cup {[def |-> wk[w].def, op |-> Len(changes) + 1]}
               /\ Connector!Become(w, [wk[w] EXCEPT !.pc = "ack", !.op = Len(changes) + 1]) /\ UNCHANGED <<definition, ids>>
      <3>1. PICK o \in Nat : o = Len(changes) + 1
        BY TopoTypes DEF ServiceTyped
      <3>2. changes' \in Seq(Connector!Outcomes)
        BY <2>4, TopoTypes DEF ServiceTyped, Connector!Outcomes
      <3>3. PICK u : u = [def |-> g.def, op |-> o]
        OBVIOUS
      <3>4. u \in [def: Connector!Definitions, op: Nat] /\ flight' = flight \cup {u}
        BY <1>0, <2>4, <3>1, <3>3
      <3>5. ServiceTyped'
        BY <2>4, <3>2, <3>4, TopoTypes DEF ServiceTyped
      <3>6. PICK r : r = [g EXCEPT !.pc = "ack", !.op = o]
        OBVIOUS
      <3>7. r \in Connector!Sessions /\ r.pc = "ack"
        BY <1>0, <3>6 DEF Connector!Sessions, Connector!Steps
      <3>8. WorkersTyped'
        BY <1>0, <2>4, <3>1, <3>6, <3>7, TopoBecomeTyped DEF Connector!Become
      <3> QED BY <2>2, <3>5, <3>8, TopoTypes DEF OthersTyped
    <2> QED BY <1>2, <2>3, <2>4, Zenon DEF Connector!Post
  <1>3. CASE Connector!PostUncertain(w)
    <2>1. PICK u : u = [def |-> g.def, op |-> 0]
      OBVIOUS
    <2>2. u \in [def: Connector!Definitions, op: Nat] /\ flight' \in {flight, flight \cup {u}}
      BY <1>0, <1>3, <2>1 DEF Connector!PostUncertain
    <2>3. ServiceTyped'
      BY <1>3, <2>2, TopoTypes DEF ServiceTyped, Connector!PostUncertain
    <2>4. TasksTyped'
      BY <1>3, TopoSettled DEF Connector!PostUncertain, Connector!WorkStates
    <2>5. WorkersTyped'
      BY <1>3, TopoIdleSession DEF Connector!PostUncertain
    <2> QED BY <1>3, <2>3, <2>4, <2>5, TopoTypes DEF Connector!PostUncertain, OthersTyped
  <1>4. CASE Connector!Finish(w)
    <2>1. PICK s \in Connector!WorkStates : Connector!Settle(w, s)
      BY <1>4 DEF Connector!Finish, Connector!WorkStates
    <2>2. TasksTyped' /\ WorkersTyped'
      BY <1>4, <2>1, TopoSettled, TopoIdleSession DEF Connector!Finish
    <2> QED BY <1>4, <2>2, TopoTypes DEF Connector!Finish, OthersTyped
  <1>5. CASE Connector!LeaseExpires(w)
    <2>1. TasksTyped'
      BY <1>5, TopoSettled DEF Connector!LeaseExpires, Connector!WorkStates
    <2>2. PICK r : r = [g EXCEPT !.held = FALSE]
      OBVIOUS
    <2>3. r \in Connector!Sessions /\ r.pc = g.pc /\ r.obs = g.obs
      BY <1>0, <2>2 DEF Connector!Sessions
    <2>4. g.pc \in {"decide", "recheck", "post"} => g.obs \in [Pipelines -> Nat]
      BY <1>0 DEF Connector!TypeOK
    <2>5. WorkersTyped'
      BY <1>0, <1>5, <2>2, <2>3, <2>4, TopoBecomeTyped DEF Connector!LeaseExpires, Connector!Become
    <2> QED BY <1>5, <2>1, <2>5, TopoTypes DEF Connector!LeaseExpires, OthersTyped
  <1>6. CASE Connector!LeaseLost(w)
    <2>1. WorkersTyped'
      BY <1>6, TopoIdleSession DEF Connector!LeaseLost
    <2> QED BY <1>6, <2>1, TopoTypes DEF Connector!LeaseLost, OthersTyped
  <1> QED BY <1>1, <1>2, <1>3, <1>4, <1>5, <1>6

\* The Eventstream service.
LEMMA TopoServiceTyped ==
  ASSUME Connector!TypeOK,
         \/ \E u \in flight : Connector!ServiceApplies(u) \/ Connector!ServiceFails(u)
         \/ \E t \in Pipelines : Connector!Drift(t)
  PROVE  Connector!TypeOK'
  <1> USE TopoFrame
  <1>0. PICK n \in Nat : ids = n
    BY DEF Connector!TypeOK
  <1>1. ASSUME NEW u, NEW s \in Connector!Outcomes, changes' = IF u.op = 0 THEN changes ELSE [changes EXCEPT ![u.op] = s]
        PROVE  changes' \in Seq(Connector!Outcomes)
    <2>1. changes \in Seq(Connector!Outcomes)
      BY DEF Connector!TypeOK
    <2>2. CASE u.op \in 1 .. Len(changes)
      BY <1>1, <2>1, <2>2, ExceptSeq
    <2>3. CASE u.op \notin 1 .. Len(changes)
      <3>1. changes \in [1 .. Len(changes) -> Connector!Outcomes]
        BY <2>1
      <3>2. [changes EXCEPT ![u.op] = s] = changes
        BY <2>3, <3>1
      <3> QED BY <1>1, <2>1, <3>2
    <2> QED BY <2>2, <2>3
  <1>2. CASE \E u \in flight : Connector!ServiceApplies(u)
    <2>1. PICK u \in flight : Connector!ServiceApplies(u)
      BY <1>2
    <2>2. changes' \in Seq(Connector!Outcomes)
      BY <1>1, <2>1 DEF Connector!ServiceApplies, Connector!Outcomes
    <2>3. definition' \in [Pipelines -> Nat] /\ ids' \in Nat
      BY <1>0, <2>1 DEF Connector!ServiceApplies, Connector!Applied, Connector!Absent, Connector!TypeOK
    <2>4. ServiceTyped'
      BY <2>1, <2>2, <2>3, TopoTypes DEF ServiceTyped, Connector!ServiceApplies
    <2> QED BY <2>1, <2>4, TopoTypes DEF Connector!ServiceApplies, OthersTyped
  <1>3. CASE \E u \in flight : Connector!ServiceFails(u)
    <2>1. PICK u \in flight : Connector!ServiceFails(u)
      BY <1>3
    <2>2. changes' \in Seq(Connector!Outcomes)
      BY <1>1, <2>1 DEF Connector!ServiceFails, Connector!Outcomes
    <2>3. ServiceTyped'
      BY <2>1, <2>2, TopoTypes DEF ServiceTyped, Connector!ServiceFails
    <2> QED BY <2>1, <2>3, TopoTypes DEF Connector!ServiceFails, OthersTyped
  <1>4. CASE \E t \in Pipelines : Connector!Drift(t)
    <2>1. PICK t \in Pipelines : Connector!Drift(t)
      BY <1>4
    <2>2. definition' \in [Pipelines -> Nat] /\ ids' \in Nat
      BY <1>0, <2>1 DEF Connector!Drift, Connector!Absent, Connector!TypeOK
    <2>3. ServiceTyped'
      BY <2>1, <2>2, TopoTypes DEF ServiceTyped, Connector!Drift
    <2> QED BY <2>1, <2>3, TopoTypes DEF Connector!Drift, OthersTyped
  <1> QED BY <1>2, <1>3, <1>4

\* Publications of admission.
LEMMA TopoTasksEnqueued ==
  ASSUME Connector!TypeOK, NEW ks \in SUBSET Connector!Keys, NEW queue, DOMAIN queue \subseteq Connector!Keys,
         queue \in [DOMAIN queue -> Connector!WorkStates], tasks' = Connector!Enqueue(ks, queue)
  PROVE  TasksTyped'
  <1>1. PICK q : q = Connector!Enqueue(ks, queue)
    OBVIOUS
  <1>2. DOMAIN q \subseteq Connector!Keys /\ q \in [DOMAIN q -> Connector!WorkStates]
    BY <1>1, TopoEnqueueTyped
  <1> QED BY <1>1, <1>2 DEF TasksTyped

LEMMA TopoKeys == \A n \in Nat : {<<"publication", n>>, <<"reobserve", n>>, <<"scope", n>>} \subseteq Connector!Keys
  BY DEF Connector!Keys

LEMMA TopoPublicationKey ==
  ASSUME Connector!TypeOK
  PROVE  {PublicationKey} \in SUBSET Connector!Keys
  <1>1. PICK n \in Nat : n = conn.rev + 1
    BY TopoMembers
  <1>2. PublicationKey = <<"publication", n>>
    BY <1>1 DEF PublicationKey
  <1> QED BY <1>2, TopoKeys

LEMMA TopoPlanTyped ==
  ASSUME Connector!TypeOK, NEW queue, DOMAIN queue \subseteq Connector!Keys, queue \in [DOMAIN queue -> Connector!WorkStates],
         PlanKept(queue) \/ PlanPublished(queue)
  PROVE  TasksTyped'
  <1>1. CASE PlanKept(queue)
    BY <1>1 DEF PlanKept, TasksTyped
  <1>2. CASE PlanPublished(queue)
    <2>1. {PublicationKey} \in SUBSET Connector!Keys
      BY TopoPublicationKey
    <2> QED BY <1>2, <2>1, TopoTasksEnqueued DEF PlanPublished
  <1> QED BY <1>1, <1>2

\* What the three publications of admission have in common.
ScopeQueue == IF Connector!Nodes(conn.own) \subseteq scope \cap present THEN tasks
              ELSE Connector!Enqueue({<<"scope", policy>>}, tasks)
Admitted(queue) ==
  /\ UNCHANGED <<policy, scope>> /\ UNCHANGED <<Connector!serviceVars, wk, handoff, drifted>>
  /\ DesiredTyped' /\ ManifestTyped' /\ (PlanKept(queue) \/ PlanPublished(queue))

LEMMA TopoAdmission ==
  ASSUME Connector!TypeOK, Connector!PublishScope \/ \E t \in Pipelines : Connector!PublishInventory(t) \/ Connector!PublishCapability(t)
  PROVE  /\ Admitted(ScopeQueue) \/ Admitted(tasks)
         /\ AdmissionTyped' /\ cfaults' \in 0 .. MaxFaults
  <1>0. cfaults \in 0 .. MaxFaults /\ (Connector!Fault => cfaults' \in 0 .. MaxFaults)
    BY TopoFaultTyped DEF Connector!TypeOK
  <1>1. CASE Connector!PublishScope
    <2>1. Connector!PublishDesired(scope \cap present, able, {t \in Pipelines : Connector!RemovalAuthority(t)}, {}, ScopeQueue)
      BY <1>1 DEF Connector!PublishScope, ScopeQueue
    <2>2. DesiredTyped' /\ ManifestTyped' /\ (PlanKept(ScopeQueue) \/ PlanPublished(ScopeQueue))
      BY <2>1, TopoPublishDesired
    <2>3. Admitted(ScopeQueue)
      BY <1>1, <2>2 DEF Connector!PublishScope, Admitted
    <2>4. AdmissionTyped' /\ cfaults' = cfaults
      BY <1>1, TopoTypes, TopoMembers DEF Connector!PublishScope, AdmissionTyped
    <2> QED BY <1>0, <2>3, <2>4
  <1>2. ASSUME NEW t \in Pipelines, Connector!PublishInventory(t)
        PROVE  Admitted(tasks) /\ AdmissionTyped' /\ cfaults' \in 0 .. MaxFaults
    <2>1. PICK now \in SUBSET Pipelines : /\ present' = now
             /\ Connector!PublishDesired(scope \cap now, able, {s \in Pipelines : s \notin scope \/ s \notin now}, {}, tasks)
      BY <1>2, TopoTypes DEF Connector!PublishInventory, AdmissionTyped
    <2>2. DesiredTyped' /\ ManifestTyped' /\ (PlanKept(tasks) \/ PlanPublished(tasks))
      BY <2>1, TopoPublishDesired
    <2>3. Admitted(tasks)
      BY <1>2, <2>2 DEF Connector!PublishInventory, Admitted
    <2>4. AdmissionTyped'
      BY <1>2, <2>1, TopoTypes DEF Connector!PublishInventory, AdmissionTyped
    <2>5. cfaults' = cfaults \/ Connector!Fault
      BY <1>2 DEF Connector!PublishInventory
    <2> QED BY <1>0, <2>3, <2>4, <2>5
  <1>3. ASSUME NEW t \in Pipelines, Connector!PublishCapability(t)
        PROVE  Admitted(tasks) /\ AdmissionTyped' /\ cfaults' \in 0 .. MaxFaults
    <2>1. Connector!PublishDesired(scope \cap present, able \cup {t}, {s \in Pipelines : Connector!RemovalAuthority(s)}, {t}, tasks)
      BY <1>3 DEF Connector!PublishCapability
    <2>2. DesiredTyped' /\ ManifestTyped' /\ (PlanKept(tasks) \/ PlanPublished(tasks))
      BY <2>1, TopoPublishDesired
    <2>3. Admitted(tasks)
      BY <1>3, <2>2 DEF Connector!PublishCapability, Admitted
    <2>4. AdmissionTyped' /\ cfaults' = cfaults
      BY <1>3, TopoTypes DEF Connector!PublishCapability, AdmissionTyped
    <2> QED BY <1>0, <2>3, <2>4
  <1> QED BY <1>1, <1>2, <1>3

LEMMA TopoScopeQueueTyped ==
  ASSUME Connector!TypeOK
  PROVE  DOMAIN ScopeQueue \subseteq Connector!Keys /\ ScopeQueue \in [DOMAIN ScopeQueue -> Connector!WorkStates]
  <1>1. DOMAIN tasks \subseteq Connector!Keys /\ tasks \in [DOMAIN tasks -> Connector!WorkStates]
    BY DEF Connector!TypeOK
  <1>2. {<<"scope", policy>>} \in SUBSET Connector!Keys
    BY TopoKeys, TopoMembers
  <1>3. PICK q : q = Connector!Enqueue({<<"scope", policy>>}, tasks)
    OBVIOUS
  <1>4. DOMAIN q \subseteq Connector!Keys /\ q \in [DOMAIN q -> Connector!WorkStates]
    BY <1>1, <1>2, <1>3, TopoEnqueueTyped
  <1>5. ScopeQueue \in {tasks, q}
    BY <1>3 DEF ScopeQueue
  <1> QED BY <1>1, <1>4, <1>5

LEMMA TopoAdmissionTyped ==
  ASSUME Connector!TypeOK, Connector!PublishScope \/ \E t \in Pipelines : Connector!PublishInventory(t) \/ Connector!PublishCapability(t)
  PROVE  Connector!TypeOK'
  <1>1. PICK q : Admitted(q) /\ DOMAIN q \subseteq Connector!Keys /\ q \in [DOMAIN q -> Connector!WorkStates]
    <2>1. DOMAIN tasks \subseteq Connector!Keys /\ tasks \in [DOMAIN tasks -> Connector!WorkStates]
      BY DEF Connector!TypeOK
    <2> QED BY <2>1, TopoAdmission, TopoScopeQueueTyped
  <1>2. TasksTyped'
    BY <1>1, TopoPlanTyped DEF Admitted
  <1>3. ServiceTyped' /\ WorkersTyped' /\ handoff' \subseteq Connector!Reports /\ drifted' \in BOOLEAN
    <2>1. UNCHANGED Connector!serviceVars /\ wk' = wk /\ handoff' = handoff /\ drifted' = drifted
      BY <1>1 DEF Admitted
    <2> QED BY <2>1, TopoFrame
  <1>4. DesiredTyped' /\ ManifestTyped'
    BY <1>1 DEF Admitted
  <1> QED BY <1>2, <1>3, <1>4, TopoAdmission, TopoTypes DEF OthersTyped

\* The administrator, capabilities and deliveries.
LEMMA TopoOutsideTyped ==
  ASSUME Connector!TypeOK,
         \/ \E S \in Scopes : Connector!ActivateScope(S)
         \/ \E t \in Pipelines : Connector!Lapse(t) \/ Connector!Deliver(t)
  PROVE  Connector!TypeOK'
  <1> USE TopoFrame
  <1>1. ASSUME NEW S \in Scopes, Connector!ActivateScope(S)
        PROVE  Connector!TypeOK'
    <2>1. PICK p \in 1 .. MaxPolicy : policy = p
      BY TopoMembers
    <2>2. AdmissionTyped'
      BY <1>1, <2>1, TopoSets, TopoTypes DEF Connector!ActivateScope, AdmissionTyped
    <2> QED BY <1>1, <2>2, TopoTypes DEF Connector!ActivateScope, OthersTyped
  <1>2. ASSUME NEW t \in Pipelines, Connector!Lapse(t)
        PROVE  Connector!TypeOK'
    <2>1. AdmissionTyped'
      BY <1>2, TopoTypes DEF Connector!Lapse, AdmissionTyped
    <2> QED BY <1>2, <2>1, TopoTypes DEF Connector!Lapse, OthersTyped
  <1>3. ASSUME NEW t \in Pipelines, Connector!Deliver(t)
        PROVE  Connector!TypeOK'
    <2>1. /\ UNCHANGED <<conn, desired, fresh, handoff>> /\ UNCHANGED Connector!admissionVars /\ UNCHANGED Connector!serviceVars
          /\ wk' = wk /\ cfaults' = cfaults /\ drifted' = drifted /\ delivered' = delivered \cup {t}
      BY <1>3 DEF Connector!Deliver, Connector!HandoffUnchanged
    <2>2. ManifestTyped' /\ DesiredTyped'
      BY <2>1, TopoTypes DEF ManifestTyped, DesiredTyped
    <2>3. TasksTyped'
      <3>1. DOMAIN tasks \subseteq Connector!Keys /\ tasks \in [DOMAIN tasks -> Connector!WorkStates]
        BY DEF Connector!TypeOK
      <3>2. {<<"publication", conn.rev>>} \in SUBSET Connector!Keys
        BY TopoKeys, TopoMembers
      <3>3. tasks' = tasks \/ tasks' = Connector!Enqueue({<<"publication", conn.rev>>}, tasks)
        BY <1>3 DEF Connector!Deliver
      <3> QED BY <3>1, <3>2, <3>3, TopoTasksEnqueued DEF TasksTyped
    <2> QED BY <2>1, <2>2, <2>3, TopoTypes DEF OthersTyped
  <1> QED BY <1>1, <1>2, <1>3

\* The controller's decisions on reports.
LEMMA TopoDecisionTyped ==
  ASSUME Connector!TypeOK, NEW h \in handoff,
         \/ Connector!RejectEvidence(h) \/ Connector!BindSources(h) \/ Connector!RestoreSources(h)
         \/ Connector!PublishReady(h) \/ Connector!Accept(h) \/ Connector!ExpireInspection(h)
  PROVE  Connector!TypeOK'
  <1>0. /\ DOMAIN tasks \subseteq Connector!Keys /\ tasks \in [DOMAIN tasks -> Connector!WorkStates]
        /\ handoff \subseteq Connector!Reports /\ {PublicationKey} \in SUBSET Connector!Keys
    BY TopoPublicationKey DEF Connector!TypeOK
  <1>1. AdmissionTyped' /\ ServiceTyped' /\ WorkersTyped' /\ drifted' \in BOOLEAN /\ cfaults' \in 0 .. MaxFaults
    <2>1. Connector!HandoffUnchanged
      BY DEF Connector!RejectEvidence, Connector!BindSources, Connector!RestoreSources, Connector!PublishReady, Connector!Accept, Connector!ExpireInspection
    <2> QED BY <2>1, TopoFrame DEF Connector!HandoffUnchanged
  <1> DEFINE Rest == ManifestTyped' /\ DesiredTyped' /\ TasksTyped' /\ handoff' \subseteq Connector!Reports
  <1>2. ASSUME Connector!RejectEvidence(h)
        PROVE  Rest
    <2>1. tasks' = tasks \/ tasks' = Connector!Enqueue({<<"reobserve", h.rev>>}, tasks)
      BY <1>2 DEF Connector!RejectEvidence
    <2>2. {<<"reobserve", h.rev>>} \in SUBSET Connector!Keys
      BY <1>0, TopoKeys DEF Connector!Reports
    <2>3. TasksTyped'
      BY <1>0, <2>1, <2>2, TopoTasksEnqueued DEF TasksTyped
    <2> QED BY <1>0, <1>2, <2>3, TopoFrame DEF Connector!RejectEvidence
  <1>3. ASSUME Connector!BindSources(h)
        PROVE  Rest
    <2>1. Published /\ tasks' = Connector!Enqueue({PublicationKey}, tasks) /\ handoff' = handoff \ {h}
      BY <1>3, TopoBind DEF Connector!BindSources
    <2>2. TasksTyped'
      BY <1>0, <2>1, TopoTasksEnqueued
    <2> QED BY <1>0, <2>1, <2>2 DEF Published
  <1>4. ASSUME Connector!RestoreSources(h)
        PROVE  Rest
    <2>1. Published /\ tasks' = Connector!Enqueue({PublicationKey}, RestoredQueue) /\ handoff' = handoff \ {h}
      BY <1>4, TopoRestore DEF Connector!RestoreSources
    <2>2. DOMAIN RestoredQueue \subseteq Connector!Keys /\ RestoredQueue \in [DOMAIN RestoredQueue -> Connector!WorkStates]
      BY <1>0 DEF RestoredQueue, Connector!WorkStates
    <2>3. TasksTyped'
      BY <1>0, <2>1, <2>2, TopoTasksEnqueued
    <2> QED BY <1>0, <2>1, <2>3 DEF Published
  <1>5. ASSUME Connector!PublishReady(h)
        PROVE  Rest
    <2>1. ManifestTyped' /\ UNCHANGED <<desired, fresh, delivered, tasks>> /\ handoff' = handoff \ {h}
      BY <1>5, TopoReady DEF OwnershipKept, Connector!PublishReady
    <2>2. DesiredTyped'
      BY <2>1, TopoTypes DEF DesiredTyped
    <2> QED BY <1>0, <2>1, <2>2, TopoFrame
  <1>6. ASSUME Connector!Accept(h)
        PROVE  Rest
    BY <1>0, <1>6, TopoFrame DEF Connector!Accept
  <1>7. ASSUME Connector!ExpireInspection(h)
        PROVE  Rest
    <2>1. PICK g : g = [h EXCEPT !.insp = "stale"]
      OBVIOUS
    <2>2. g \in Connector!Reports
      BY <1>0, <2>1 DEF Connector!Reports
    <2>3. handoff' \subseteq Connector!Reports
      BY <1>0, <1>7, <2>1, <2>2 DEF Connector!ExpireInspection
    <2> QED BY <1>7, <2>3, TopoFrame DEF Connector!ExpireInspection
  <1>8. Rest
    BY <1>2, <1>3, <1>4, <1>5, <1>6, <1>7
  <1> QED BY <1>1, <1>8, TopoTypes DEF OthersTyped

\* TypeOK holds initially and is kept by every step.
LEMMA TopoFinite ==
  /\ \A S : Connector!IsFiniteSet(S) <=> IsFiniteSet(S)
  /\ \A S : Connector!Cardinality(S) = Cardinality(S)
  <1>1. \A S : Connector!IsFiniteSet(S) <=> IsFiniteSet(S)
    BY DEF Connector!IsFiniteSet, IsFiniteSet
  <1>2. \A S : Connector!Cardinality(S) = Cardinality(S)
    BY <1>1 DEF Connector!Cardinality, Cardinality
  <1> QED BY <1>1, <1>2

LEMMA TopoTypesInit == Connector!Init => Connector!TypeOK
  <1> SUFFICES ASSUME Connector!Init PROVE Connector!TypeOK
    OBVIOUS
  <1>1. PICK n \in Nat : n = Connector!Cardinality(Owned)
    BY ProvisioningAssumption, FS_Subset, FS_CardinalityType, TopoFinite DEF Connector!ConnectorAssumption
  <1>2. PICK f \in [Pipelines -> Nat] : definition = f /\ conn = Connector!Registered(f)
    BY <1>1 DEF Connector!Init
  <1>3. f \in [Pipelines -> Nat \cup {-1}]
    BY <1>2
  <1>4. conn \in Connector!Manifests /\ conn.removing = {} /\ conn.touched = {}
    BY <1>2, <1>3, TopoSets DEF Connector!Manifests, Connector!Registered, Connector!ConnStates, Connector!Unbound
  <1>5. ManifestTyped
    BY <1>4 DEF ManifestTyped
  <1>6. AdmissionTyped /\ DesiredTyped
    BY TopoSets DEF Connector!Init, AdmissionTyped, DesiredTyped
  <1>7. ServiceTyped /\ TasksTyped
    BY <1>1, <1>2 DEF Connector!Init, ServiceTyped, TasksTyped
  <1>8. WorkersTyped
    BY TopoIdle DEF Connector!Init, WorkersTyped
  <1>9. OthersTyped
    <2>1. 0 \in 0 .. MaxFaults
      BY TopoSets
    <2> QED BY <2>1 DEF Connector!Init, OthersTyped
  <1> QED BY <1>5, <1>6, <1>7, <1>8, <1>9, TopoTypes

LEMMA TopoTypesNext ==
  ASSUME Connector!TypeOK, [Connector!Next]_Connector!vars
  PROVE  Connector!TypeOK'
  <1>1. CASE UNCHANGED Connector!vars
    BY <1>1, TopoFrame, TopoTypes DEF Connector!vars, Connector!admissionVars, Connector!manifestVars, Connector!serviceVars, OthersTyped
  <1>2. CASE Connector!Next
    BY <1>2, TopoOutsideTyped, TopoAdmissionTyped, TopoServiceTyped, TopoWorkerTyped, TopoWorkerSave,
       TopoSaveTyped, TopoDecisionTyped DEF Connector!Next
  <1> QED BY <1>1, <1>2
-----------------------------------------------------------------------------
(* The owned connector: one licence, and a truthful manifest. *)

Licences == Connector!OneLicence /\ Connector!LicenceMarked /\ Connector!InspectionHolds
TrueOwnership ==
  \A t \in Pipelines :
    /\ conn.own[t] > 0 /\ t \notin conn.removing => definition[t] = conn.own[t]
    /\ definition[t] # 0 => conn.own[t] \in {definition[t], -1}
TrueReady ==
  conn.state = "ready" => definition = conn.own /\ ~Connector!Changes /\ \E t \in delivered : conn.own[t] > 0
Truthful == Connector!MarkerOwned /\ Connector!BaseTrue /\ TrueOwnership /\ TrueReady
Sound == Connector!UpdateSound /\ Connector!OwnershipTruthful /\ Connector!ReadyProven

LEMMA TopoSound ==
  /\ Sound <=> (~drifted => Licences /\ Truthful)
  /\ Sound' <=> (~drifted' => Licences' /\ Truthful')
  BY Zenon DEF Sound, Licences, Truthful, TrueOwnership, TrueReady, Connector!UpdateSound, Connector!OwnershipTruthful,
     Connector!ReadyProven, Connector!Absent, Connector!Unbound

\* A worker takes on nothing it did not have.
Withdrawn(v) ==
  /\ wk'[v].seen <= conn.rev
  /\ wk'[v].pc \in {"decide", "recheck", "post", "reinspect"} =>
       /\ wk'[v].pc = wk[v].pc /\ wk'[v].seen = wk[v].seen
       /\ wk'[v].obs = wk[v].obs /\ wk'[v].def = wk[v].def

\* The session of a worker ends, or moves to where nothing is left to send.
LEMMA TopoWithdrawn ==
  ASSUME Connector!TypeOK, Connector!InspectionHolds \/ Connector!WorkHeld, NEW w \in Provisioners,
         \/ wk' = wk
         \/ Connector!Become(w, Connector!Idle)
         \/ Connector!Become(w, [wk[w] EXCEPT !.held = FALSE])
         \/ wk' = [wk EXCEPT ![w] = [wk[w] EXCEPT !.pc = "finish", !.pol = policy]]
  PROVE  \A v \in Provisioners : Withdrawn(v)
  <1>0. conn.rev \in Nat /\ wk[w] \in Connector!Sessions /\ \A v \in Provisioners : wk[v].seen <= conn.rev
    BY TopoMembers DEF Connector!InspectionHolds, Connector!WorkHeld
  <1>1. CASE wk' = wk
    BY <1>0, <1>1 DEF Withdrawn
  <1>2. CASE Connector!Become(w, Connector!Idle)
    <2>1. PICK r : r = Connector!Idle
      OBVIOUS
    <2>2. r.seen = 0 /\ r.pc = "idle"
      BY <2>1, TopoIdle
    <2>3. \A v \in Provisioners : wk'[v] = IF v = w THEN r ELSE wk[v]
      BY <1>2, <2>1 DEF Connector!Become, Connector!TypeOK
    <2> QED BY <1>0, <2>2, <2>3 DEF Withdrawn
  <1>3. CASE Connector!Become(w, [wk[w] EXCEPT !.held = FALSE])
    <2>1. PICK r : r = [wk[w] EXCEPT !.held = FALSE]
      OBVIOUS
    <2>2. r.seen = wk[w].seen /\ r.pc = wk[w].pc /\ r.obs = wk[w].obs /\ r.def = wk[w].def
      BY <1>0, <2>1 DEF Connector!Sessions
    <2>3. \A v \in Provisioners : wk'[v] = IF v = w THEN r ELSE wk[v]
      BY <1>3, <2>1 DEF Connector!Become, Connector!TypeOK
    <2> QED BY <1>0, <2>2, <2>3 DEF Withdrawn
  <1>4. CASE wk' = [wk EXCEPT ![w] = [wk[w] EXCEPT !.pc = "finish", !.pol = policy]]
    <2>1. PICK r : r = [wk[w] EXCEPT !.pc = "finish", !.pol = policy]
      OBVIOUS
    <2>2. r.seen = wk[w].seen /\ r.pc = "finish"
      BY <1>0, <2>1 DEF Connector!Sessions
    <2>3. \A v \in Provisioners : wk'[v] = IF v = w THEN r ELSE wk[v]
      BY <1>4, <2>1 DEF Connector!TypeOK
    <2> QED BY <1>0, <2>2, <2>3 DEF Withdrawn
  <1> QED BY <1>1, <1>2, <1>3, <1>4

\* Nothing is licensed that was not; a revision leaves no recheck that can succeed.
LEMMA TopoLicencesKept ==
  ASSUME Connector!TypeOK, Connector!TypeOK', Licences, \A v \in Provisioners : Withdrawn(v),
         flight' \subseteq flight, definition' = definition,
         conn'.marker = conn.marker, conn'.rev = conn.rev \/ conn'.rev = conn.rev + 1
  PROVE  Licences'
  <1>0. conn.rev \in Nat /\ \A v \in Provisioners : wk[v].seen \in Nat /\ wk'[v].seen \in Nat
    <2>1. wk' \in [Provisioners -> Connector!Sessions]
      BY DEF Connector!TypeOK
    <2> QED BY <2>1, TopoMembers DEF Connector!Sessions
  <1>1. \A v \in Provisioners : /\ wk'[v].pc = "post" => wk[v].pc = "post" /\ wk'[v].def = wk[v].def
                                /\ Connector!Licensed(v)' => Connector!Licensed(v)
    BY <1>0 DEF Withdrawn, Connector!Licensed
  <1>2. Connector!Posting' \subseteq Connector!Posting /\ (Connector!Underway' => Connector!Underway)
    BY <1>1 DEF Connector!Posting, Connector!Underway
  <1>3. Connector!OneLicence'
    BY <1>1, <1>2 DEF Licences, Connector!OneLicence
  <1>4. Connector!LicenceMarked'
    <2>1. Connector!Underway' => Connector!Marked(conn)' /\ ~Connector!matches_update(definition, conn.marker)'
      BY <1>2 DEF Licences, Connector!LicenceMarked, Connector!Marked
    <2>2. \A u \in flight' : u.def = conn'.marker
      BY DEF Licences, Connector!LicenceMarked
    <2>3. \A v \in Connector!Posting' : wk'[v].def = conn'.marker
      BY <1>1, <1>2 DEF Licences, Connector!LicenceMarked, Connector!Posting
    <2> QED BY <2>1, <2>2, <2>3 DEF Connector!LicenceMarked
  <1>5. Connector!InspectionHolds'
    <2> SUFFICES ASSUME NEW v \in Provisioners
                 PROVE  /\ wk'[v].seen <= conn'.rev
                        /\ wk'[v].seen = conn'.rev =>
                             /\ wk'[v].pc = "decide" /\ (~Connector!Marked(conn) \/ Connector!matches_update(wk[v].obs, conn.marker))' =>
                                  wk'[v].obs = definition' /\ ~Connector!Underway'
                             /\ wk'[v].pc \in {"recheck", "post"} => wk'[v].obs = definition'
                             /\ wk'[v].pc = "reinspect" => ~Connector!Underway'
      BY Zenon DEF Connector!InspectionHolds
    <2>1. wk'[v].seen <= conn'.rev
      BY <1>0 DEF Withdrawn
    <2>2. CASE conn'.rev = conn.rev + 1
      BY <1>0, <2>1, <2>2 DEF Withdrawn
    <2>3. ASSUME conn'.rev = conn.rev, wk'[v].seen = conn'.rev, wk'[v].pc = "decide",
                 (~Connector!Marked(conn) \/ Connector!matches_update(wk[v].obs, conn.marker))'
          PROVE  wk'[v].obs = definition' /\ ~Connector!Underway'
      <3>1. wk[v].pc = "decide" /\ wk[v].seen = conn.rev /\ wk'[v].obs = wk[v].obs
        BY <2>3 DEF Withdrawn
      <3>2. ~Connector!Marked(conn) \/ Connector!matches_update(wk[v].obs, conn.marker)
        BY <2>3, <3>1 DEF Connector!Marked, Connector!matches_update, Connector!Nodes
      <3> QED BY <1>2, <3>1, <3>2 DEF Licences, Connector!InspectionHolds
    <2>4. ASSUME conn'.rev = conn.rev, wk'[v].seen = conn'.rev, wk'[v].pc \in {"recheck", "post"}
          PROVE  wk'[v].obs = definition'
      <3>1. wk[v].pc \in {"recheck", "post"} /\ wk[v].seen = conn.rev /\ wk'[v].obs = wk[v].obs
        BY <2>4 DEF Withdrawn
      <3> QED BY <3>1 DEF Licences, Connector!InspectionHolds
    <2>5. ASSUME conn'.rev = conn.rev, wk'[v].seen = conn'.rev, wk'[v].pc = "reinspect"
          PROVE  ~Connector!Underway'
      <3>1. wk[v].pc = "reinspect" /\ wk[v].seen = conn.rev
        BY <2>5 DEF Withdrawn
      <3> QED BY <1>2, <3>1 DEF Licences, Connector!InspectionHolds
    <2> QED BY <2>1, <2>2, <2>3, <2>4, <2>5
  <1> QED BY <1>3, <1>4, <1>5 DEF Licences

\* A save that clears the marker when nothing is in flight or about to be sent.
LEMMA TopoLicencesCleared ==
  ASSUME Connector!TypeOK, Connector!TypeOK', Licences, \A v \in Provisioners : Withdrawn(v),
         flight' = {}, \A v \in Provisioners : wk'[v].pc # "post", conn'.rev = conn.rev + 1
  PROVE  Licences'
  <1>0. conn.rev \in Nat /\ \A v \in Provisioners : wk'[v].seen \in Nat /\ wk'[v].seen < conn'.rev
    <2>1. wk' \in [Provisioners -> Connector!Sessions]
      BY DEF Connector!TypeOK
    <2> QED BY <2>1, TopoMembers DEF Connector!Sessions, Withdrawn
  <1>1. \A v \in Provisioners : ~Connector!Licensed(v)'
    BY <1>0 DEF Connector!Licensed
  <1>2. Connector!Posting' = {} /\ ~Connector!Underway'
    BY <1>1 DEF Connector!Posting, Connector!Underway
  <1>3. Connector!OneLicence'
    BY <1>1, <1>2 DEF Connector!OneLicence
  <1>4. Connector!LicenceMarked'
    BY <1>2 DEF Connector!LicenceMarked
  <1>5. Connector!InspectionHolds'
    BY <1>0 DEF Connector!InspectionHolds
  <1> QED BY <1>3, <1>4, <1>5 DEF Licences

\* Nothing the manifest says changes.
LEMMA TopoTruthKept ==
  ASSUME Truthful, conn' = conn, definition' = definition, delivered \subseteq delivered'
  PROVE  Truthful'
  <1>1. Connector!MarkerOwned' /\ Connector!BaseTrue' /\ TrueOwnership'
    BY DEF Truthful, Connector!MarkerOwned, Connector!BaseTrue, TrueOwnership, Connector!Marked
  <1>2. TrueReady'
    BY DEF Truthful, TrueReady, Connector!Changes, Connector!Proposals
  <1> QED BY <1>1, <1>2 DEF Truthful

\* The three markers a save can leave.
LEMMA TopoMarkerOwned ==
  ASSUME Connector!TypeOK, Truthful, OwnershipKept, definition' = definition,
         conn'.marker \in {conn.marker, Connector!NoDef, Connector!DesiredDefinition(conn)}
  PROVE  Connector!MarkerOwned'
  <1>0. conn'.own = conn.own /\ conn'.removing = conn.removing /\ conn \in Connector!Manifests
    BY TopoMembers DEF OwnershipKept
  <1>1. CASE conn'.marker = conn.marker
    BY <1>0, <1>1 DEF Truthful, Connector!MarkerOwned, Connector!Marked
  <1>2. CASE conn'.marker = Connector!NoDef
    BY <1>2 DEF Connector!MarkerOwned, Connector!Marked
  <1>3. CASE conn'.marker = Connector!DesiredDefinition(conn)
    <2>1. \A t \in Pipelines : conn'.marker[t] = IF t \in conn.removing THEN 0 ELSE conn.own[t]
      BY <1>0, <1>3, TopoDesired
    <2>2. \A t \in Pipelines : conn.own[t] \in Nat \cup {-1}
      BY TopoMembers
    <2> QED BY <1>0, <2>1, <2>2 DEF Truthful, TrueOwnership, Connector!MarkerOwned, Connector!Absent
  <1> QED BY <1>1, <1>2, <1>3

\* A save: ownership is kept, the baseline is the Eventstream's or goes.
LEMMA TopoTruthSaved ==
  ASSUME Connector!TypeOK, Truthful, OwnershipKept, definition' = definition, delivered' = delivered,
         conn'.marker \in {conn.marker, Connector!NoDef, Connector!DesiredDefinition(conn)},
         conn'.base = Connector!NoDef \/ conn'.base = definition,
         conn'.state = "ready" =>
           /\ conn'.base # Connector!NoDef /\ definition = conn.own /\ ~Connector!Changes
           /\ \E t \in delivered : conn.own[t] > 0
  PROVE  Truthful'
  <1>0. conn'.own = conn.own /\ conn'.removing = conn.removing
    BY DEF OwnershipKept
  <1>1. Connector!MarkerOwned'
    BY TopoMarkerOwned
  <1>2. Connector!BaseTrue'
    BY DEF Connector!BaseTrue
  <1>3. TrueOwnership'
    BY <1>0 DEF Truthful, TrueOwnership
  <1>4. TrueReady'
    BY <1>0 DEF TrueReady, Connector!Changes, Connector!Proposals
  <1> QED BY <1>1, <1>2, <1>3, <1>4 DEF Truthful

\* The outcomes of a worker's step.
LEMMA TopoSaveSound ==
  ASSUME Connector!TypeOK, Connector!TypeOK', Licences, Truthful, Connector!BaseClear, ~drifted,
         NEW w \in Provisioners, WorkerSave(w)
  PROVE  Licences' /\ Truthful'
  <1>0. Connector!UpdateSound
    BY DEF Connector!UpdateSound, Licences, Truthful
  <1>1. CASE Connector!Defer(w)
    <2>1. /\ conn' = conn /\ definition' = definition /\ delivered' = delivered /\ flight' = flight
          /\ Connector!Become(w, Connector!Idle)
      BY <1>1 DEF Connector!Defer, Connector!manifestVars, Connector!serviceVars
    <2>2. \A v \in Provisioners : Withdrawn(v)
      BY <2>1, TopoWithdrawn DEF Licences
    <2> QED BY <2>1, <2>2, TopoLicencesKept, TopoTruthKept
  <1>2. CASE Connector!Block(w)
    <2>1. /\ OwnershipKept /\ delivered' = delivered /\ definition' = definition /\ flight' = flight
          /\ conn'.state = "blocked" /\ conn'.base = Connector!NoDef /\ conn'.marker = conn.marker
          /\ wk' = [wk EXCEPT ![w] = [wk[w] EXCEPT !.pc = "finish", !.pol = policy]]
      BY <1>2, TopoBlock DEF Reported, Connector!serviceVars
    <2>2. \A v \in Provisioners : Withdrawn(v)
      BY <2>1, TopoWithdrawn DEF Licences
    <2>3. Licences'
      BY <2>1, <2>2, TopoLicencesKept DEF OwnershipKept
    <2> QED BY <2>1, <2>3, TopoTruthSaved
  <1>3. CASE VerifiedStep(w)
    <2>1. PICK obs \in [Pipelines -> Nat] : Connector!Verified(w, obs) /\ Clean(w, obs)
      BY <1>3 DEF VerifiedStep
    <2>2. /\ OwnershipKept /\ conn'.base = obs /\ conn'.marker = Connector!NoDef
          /\ conn'.state = "ready" => conn.own = obs /\ Connector!DeliveryProof(delivered)
          /\ wk' = [wk EXCEPT ![w] = [wk[w] EXCEPT !.pc = "finish", !.pol = policy]]
          /\ definition' = definition /\ flight' = flight /\ delivered' = delivered
      BY <2>1, TopoVerified DEF Reported, Connector!serviceVars
    <2>3. /\ obs = definition /\ flight = {} /\ \A v \in Provisioners \ {w} : wk[v].pc # "post"
      BY <1>0, <2>1 DEF Clean
    <2>4. \A v \in Provisioners : Withdrawn(v)
      BY <2>2, TopoWithdrawn DEF Licences
    <2>5. \A v \in Provisioners : wk'[v].pc # "post"
      <3>1. wk'[w].pc = "finish" /\ \A v \in Provisioners \ {w} : wk'[v] = wk[v]
        BY <2>2, TopoMembers DEF Connector!TypeOK, Connector!Sessions
      <3> QED BY <2>3, <3>1
    <2>6. Licences'
      BY <2>2, <2>3, <2>4, <2>5, TopoLicencesCleared DEF OwnershipKept
    <2>7. conn'.state = "ready" => ~Connector!Changes /\ \E t \in delivered : conn.own[t] > 0
      BY <2>2 DEF Connector!DeliveryProof, Connector!ProvenBy
    <2>8. conn'.state = "ready" => obs # Connector!NoDef
      <3>1. \A t \in Pipelines : obs[t] # -2
        OBVIOUS
      <3>2. delivered \subseteq Pipelines
        BY DEF Connector!TypeOK
      <3> QED BY <2>7, <3>1, <3>2 DEF Connector!NoDef
    <2> QED BY <2>2, <2>3, <2>6, <2>7, <2>8, TopoTruthSaved
  <1>4. CASE RestoreFinish(w) \/ RestoreDefer(w)
    <2>1. PICK insp \in {"none", "fresh", "stale"} : Connector!Report(w, Connector!Restored(w), FALSE, insp)
      BY <1>4 DEF RestoreFinish, RestoreDefer, Connector!ReportAndFinish, Connector!ReportAndDefer
    <2>2. wk[w].obs \in [Pipelines -> Nat]
      BY <1>4 DEF RestoreFinish, RestoreDefer
    <2>3. /\ OwnershipKept /\ conn'.state = "degraded" /\ conn'.base = wk[w].obs /\ conn'.marker = Connector!NoDef
          /\ delivered' = delivered
      BY <2>1, <2>2, TopoRestored DEF RestoredBy, Reported
    <2>4. UNCHANGED <<definition, flight>>
      BY <1>4 DEF RestoreFinish, RestoreDefer, Connector!ReportAndFinish, Connector!ReportAndDefer, Connector!serviceVars
    <2>5. \/ Connector!Become(w, Connector!Idle)
          \/ wk' = [wk EXCEPT ![w] = [wk[w] EXCEPT !.pc = "finish", !.pol = policy]]
      BY <1>4 DEF RestoreFinish, RestoreDefer, Connector!ReportAndFinish, Connector!ReportAndDefer, Connector!Become
    <2>6. wk[w].obs = definition /\ flight = {} /\ \A v \in Provisioners \ {w} : wk[v].pc # "post"
      BY <1>0, <1>4 DEF RestoreFinish, RestoreDefer, Clean
    <2>7. \A v \in Provisioners : Withdrawn(v)
      BY <2>5, TopoWithdrawn DEF Licences
    <2>8. \A v \in Provisioners : wk'[v].pc # "post"
      <3>1. wk'[w].pc \in {"finish", "idle"}
        <4>1. CASE Connector!Become(w, Connector!Idle)
          BY <4>1, TopoIdle DEF Connector!TypeOK, Connector!Become
        <4>2. CASE wk' = [wk EXCEPT ![w] = [wk[w] EXCEPT !.pc = "finish", !.pol = policy]]
          BY <4>2, TopoMembers DEF Connector!TypeOK, Connector!Sessions
        <4> QED BY <2>5, <4>1, <4>2
      <3>2. \A v \in Provisioners \ {w} : wk'[v] = wk[v]
        BY <2>5 DEF Connector!TypeOK, Connector!Become
      <3> QED BY <2>6, <3>1, <3>2
    <2>9. Licences'
      BY <2>3, <2>4, <2>6, <2>7, <2>8, TopoLicencesCleared DEF OwnershipKept
    <2> QED BY <2>3, <2>4, <2>6, <2>9, TopoTruthSaved
  <1>5. CASE Intended(w)
    <2>1. /\ OwnershipKept /\ delivered' = delivered /\ definition' = definition /\ flight' = flight
          /\ conn'.state = "provisioning" /\ conn'.base = Connector!NoDef
          /\ conn'.marker = Connector!DesiredDefinition(conn)
          /\ wk' = [wk EXCEPT ![w] = [wk[w] EXCEPT !.pc = "recheck", !.seen = conn.rev + 1]]
      BY <1>5, TopoSaveIntent DEF Intended, Reported, Connector!serviceVars
    <2>2. /\ wk[w].obs = definition /\ ~Connector!Underway
          /\ ~Connector!matches_update(definition, Connector!DesiredDefinition(conn))
      BY <1>0, <1>5 DEF Intended
    <2>3. Truthful'
      BY <2>1, TopoTruthSaved
    <2>4. PICK r : r = [wk[w] EXCEPT !.pc = "recheck", !.seen = conn.rev + 1]
      OBVIOUS
    <2>5. r.pc = "recheck" /\ r.seen = conn.rev + 1 /\ r.obs = definition
      BY <2>2, <2>4, TopoMembers DEF Connector!Sessions
    <2>6. \A v \in Provisioners : wk'[v] = IF v = w THEN r ELSE wk[v]
      BY <2>1, <2>4 DEF Connector!TypeOK
    <2>7. /\ conn.rev \in Nat /\ conn'.rev = conn.rev + 1
          /\ \A v \in Provisioners : wk[v].seen \in Nat /\ wk[v].seen <= conn.rev
      BY <2>1, TopoMembers DEF OwnershipKept, Licences, Connector!InspectionHolds
    <2>8. \A v \in Provisioners : Connector!Licensed(v)' => v = w
      BY <2>6, <2>7 DEF Connector!Licensed
    <2>9. flight' = {} /\ Connector!Posting' = {}
      BY <2>1, <2>2, <2>5, <2>6 DEF Connector!Underway, Connector!Posting
    <2>10. Connector!OneLicence'
      BY <2>8, <2>9 DEF Connector!OneLicence
    <2>11. Connector!Marked(conn)'
      <3>1. PICK t \in Pipelines : TRUE
        BY <2>2 DEF Connector!matches_update, Connector!Nodes
      <3>2. conn'.marker[t] # -2
        BY <2>1, <3>1, TopoDesired, TopoMembers
      <3> QED BY <3>1, <3>2 DEF Connector!Marked, Connector!NoDef
    <2>12. ~Connector!matches_update(definition, conn.marker)'
      BY <2>1, <2>2 DEF Connector!matches_update, Connector!Nodes
    <2>13. Connector!LicenceMarked'
      BY <2>9, <2>11, <2>12 DEF Connector!LicenceMarked
    <2>14. Connector!InspectionHolds'
      <3>1. ASSUME NEW v \in Provisioners, v # w
            PROVE  wk'[v].seen < conn'.rev
        BY <2>6, <2>7, <3>1
      <3>2. wk'[w].seen = conn'.rev /\ wk'[w].pc = "recheck" /\ wk'[w].obs = definition'
        BY <2>1, <2>5, <2>6, <2>7
      <3>3. conn'.rev \in Nat /\ \A v \in Provisioners : wk'[v].seen \in Nat
        BY <2>7, <3>2, <2>6
      <3> QED BY <3>1, <3>2, <3>3 DEF Connector!InspectionHolds
    <2> QED BY <2>3, <2>10, <2>13, <2>14 DEF Licences
  <1>6. CASE Acked(w)
    <2>1. /\ Connector!Report(w, [conn EXCEPT !.op = wk[w].op], FALSE, "none")
          /\ Connector!Become(w, Connector!Idle) /\ definition' = definition /\ flight' = flight
      BY <1>6 DEF Acked, Connector!ReportAndDefer, Connector!serviceVars
    <2>2. /\ OwnershipKept /\ conn'.state = conn.state /\ conn'.base = conn.base /\ conn'.marker = conn.marker
          /\ delivered' = delivered
      BY <2>1, TopoAcknowledged DEF Reported
    <2>3. \A v \in Provisioners : Withdrawn(v)
      BY <2>1, TopoWithdrawn DEF Licences
    <2>4. Licences'
      BY <2>1, <2>2, <2>3, TopoLicencesKept DEF OwnershipKept
    <2>5. Truthful'
      BY <2>1, <2>2, TopoTruthSaved DEF Truthful, Connector!BaseTrue, TrueReady
    <2> QED BY <2>4, <2>5
  <1>7. CASE Sent(w)
    <2>1. /\ conn' = conn /\ definition' = definition /\ delivered' = delivered /\ flight' = flight
          /\ wk' = [wk EXCEPT ![w] = [wk[w] EXCEPT !.pc = "post", !.def = conn.marker]]
          /\ Connector!Licensed(w)
      BY <1>7 DEF Sent, Connector!manifestVars, Connector!serviceVars, Connector!Licensed
    <2>2. Truthful'
      BY <2>1, TopoTruthKept
    <2>3. flight = {} /\ Connector!Posting = {} /\ Connector!Underway /\ \A v \in Provisioners : Connector!Licensed(v) => v = w
      BY <2>1 DEF Licences, Connector!OneLicence, Connector!Underway
    <2>4. PICK r : r = [wk[w] EXCEPT !.pc = "post", !.def = conn.marker]
      OBVIOUS
    <2>5. r.pc = "post" /\ r.seen = wk[w].seen /\ r.obs = wk[w].obs /\ r.def = conn.marker
      BY <2>4, TopoMembers DEF Connector!Sessions
    <2>6. \A v \in Provisioners : wk'[v] = IF v = w THEN r ELSE wk[v]
      BY <2>1, <2>4 DEF Connector!TypeOK
    <2>7. \A v \in Provisioners : ~Connector!Licensed(v)'
      BY <2>1, <2>3, <2>5, <2>6 DEF Connector!Licensed
    <2>8. Connector!Posting' = {w}
      BY <2>3, <2>5, <2>6 DEF Connector!Posting
    <2>9. Connector!OneLicence'
      BY <2>1, <2>3, <2>7, <2>8 DEF Connector!OneLicence
    <2>10. Connector!Marked(conn) /\ ~Connector!matches_update(definition, conn.marker)
      BY <2>3 DEF Licences, Connector!LicenceMarked
    <2>11. Connector!LicenceMarked'
      BY <2>1, <2>3, <2>5, <2>6, <2>8, <2>10 DEF Connector!LicenceMarked, Connector!Marked, Connector!matches_update, Connector!Nodes
    <2>12. Connector!InspectionHolds'
      <3> SUFFICES ASSUME NEW v \in Provisioners
                   PROVE  /\ wk'[v].seen <= conn'.rev
                          /\ wk'[v].seen = conn'.rev =>
                               /\ ~(wk'[v].pc = "decide" /\ (~Connector!Marked(conn)' \/ Connector!matches_update(wk[v].obs, conn.marker)'))
                               /\ wk'[v].pc \in {"recheck", "post"} => wk'[v].obs = definition'
                               /\ wk'[v].pc # "reinspect"
        BY Zenon DEF Connector!InspectionHolds
      <3>1. wk'[v].seen <= conn'.rev
        BY <2>1, <2>5, <2>6 DEF Licences, Connector!InspectionHolds
      <3>2. CASE v = w
        BY <2>1, <2>5, <2>6, <3>1, <3>2 DEF Licences, Connector!InspectionHolds, Connector!Licensed
      <3>3. ASSUME v # w, wk[v].seen = conn.rev
            PROVE  /\ ~(wk[v].pc = "decide" /\ (~Connector!Marked(conn) \/ Connector!matches_update(wk[v].obs, conn.marker)))
                   /\ wk[v].pc \in {"recheck", "post"} => wk[v].obs = definition
                   /\ wk[v].pc # "reinspect"
        BY <2>3, <3>3 DEF Licences, Connector!InspectionHolds
      <3>4. CASE v # w
        <4>1. wk'[v] = wk[v]
          BY <2>6, <3>4
        <4> QED BY <2>1, <3>1, <3>3, <3>4, <4>1 DEF Connector!Marked, Connector!matches_update, Connector!Nodes
      <3> QED BY <3>2, <3>4
    <2> QED BY <2>2, <2>9, <2>11, <2>12 DEF Licences
  <1> QED BY <1>1, <1>2, <1>3, <1>4, <1>5, <1>6, <1>7 DEF WorkerSave

\* The service applies the licensed update: nothing is licensed any more.
LEMMA TopoApplied ==
  ASSUME Connector!TypeOK, Connector!TypeOK', Licences, Truthful, Connector!BaseClear, Connector!Underway,
         NEW d, d = conn.marker, definition' = Connector!Applied(d), conn' = conn, delivered' = delivered,
         flight' = {},
         \A v \in Provisioners :
           /\ wk'[v].pc # "post" /\ wk'[v].seen = wk[v].seen
           /\ wk'[v].pc \in {"decide", "recheck"} => wk'[v] = wk[v]
           /\ wk[v].pc = "recheck" /\ wk'[v].pc = "recheck" => ~Connector!Licensed(v)
  PROVE  Licences' /\ Truthful'
  <1>0. PICK n \in Nat : ids = n
    BY DEF Connector!TypeOK
  <1>1. Connector!Marked(conn) /\ Connector!MarkerOwned /\ TrueOwnership
    BY DEF Licences, Connector!LicenceMarked, Truthful
  <1>2. \A t \in Pipelines :
          definition'[t] = IF d[t] = 0 THEN 0 ELSE IF definition[t] # 0 THEN definition[t] ELSE n + 1
    BY <1>0 DEF Connector!Applied, Connector!Absent
  <1>3. \A t \in Pipelines : /\ d[t] # 0 => conn.own[t] = d[t]
                             /\ d[t] > 0 => definition[t] = conn.own[t]
                             /\ conn.own[t] > 0 /\ t \notin conn.removing => d[t] = conn.own[t]
    BY <1>1 DEF Connector!MarkerOwned, Connector!Absent
  <1>4. \A t \in Pipelines : d[t] > 0 => definition'[t] = conn.own[t]
    BY <1>2, <1>3
  <1>5. Connector!MarkerOwned'
    BY <1>3, <1>4 DEF Connector!MarkerOwned, Connector!Absent
  <1>6. conn.base = Connector!NoDef /\ conn.state # "ready"
    BY <1>1 DEF Connector!BaseClear, Truthful, Connector!BaseTrue
  <1>7. Connector!BaseTrue' /\ TrueReady'
    BY <1>6 DEF Connector!BaseTrue, TrueReady
  <1>8. TrueOwnership'
    <2> SUFFICES ASSUME NEW t \in Pipelines
                 PROVE  /\ conn.own[t] > 0 /\ t \notin conn.removing => definition'[t] = conn.own[t]
                        /\ definition'[t] # 0 => conn.own[t] \in {definition'[t], -1}
      BY DEF TrueOwnership
    <2>1. conn.own[t] \in Nat \cup {-1}
      BY TopoMembers
    <2>2. ASSUME conn.own[t] > 0, t \notin conn.removing
          PROVE  definition'[t] = conn.own[t]
      BY <1>3, <1>4, <2>2
    <2>3. ASSUME definition'[t] # 0
          PROVE  conn.own[t] \in {definition'[t], -1}
      <3>1. d[t] # 0 /\ conn.own[t] = d[t]
        BY <1>2, <1>3, <2>3
      <3>2. CASE d[t] > 0
        BY <1>4, <3>2
      <3>3. CASE d[t] = -1
        BY <3>1, <3>3
      <3> QED BY <2>1, <3>1, <3>2, <3>3
    <2> QED BY <2>2, <2>3
  <1>9. Truthful'
    BY <1>5, <1>7, <1>8 DEF Truthful
  <1>10. \A v \in Provisioners : ~Connector!Licensed(v)'
    BY DEF Connector!Licensed
  <1>11. Connector!Posting' = {} /\ ~Connector!Underway'
    BY <1>10 DEF Connector!Posting, Connector!Underway
  <1>12. Connector!OneLicence' /\ Connector!LicenceMarked'
    BY <1>10, <1>11 DEF Connector!OneLicence, Connector!LicenceMarked
  <1>13. Connector!InspectionHolds'
    <2> SUFFICES ASSUME NEW v \in Provisioners
                 PROVE  /\ wk'[v].seen <= conn'.rev
                        /\ wk'[v].seen = conn'.rev =>
                             /\ ~(wk'[v].pc = "decide" /\ (~Connector!Marked(conn)' \/ Connector!matches_update(wk[v].obs, conn.marker)'))
                             /\ wk'[v].pc \notin {"recheck", "post"}
      BY <1>11, Zenon DEF Connector!InspectionHolds
    <2>1. wk'[v].seen <= conn'.rev
      BY DEF Licences, Connector!InspectionHolds
    <2>2. ASSUME wk[v].seen = conn.rev
          PROVE  ~(wk[v].pc = "decide" /\ (~Connector!Marked(conn) \/ Connector!matches_update(wk[v].obs, conn.marker)))
      BY <2>2 DEF Licences, Connector!InspectionHolds
    <2>3. ASSUME wk'[v].seen = conn'.rev, wk'[v].pc = "decide",
                 ~Connector!Marked(conn)' \/ Connector!matches_update(wk[v].obs, conn.marker)'
          PROVE  FALSE
      <3>1. wk'[v] = wk[v] /\ wk[v].seen = conn.rev /\ wk[v].pc = "decide"
        BY <2>3
      <3>2. ~Connector!Marked(conn) \/ Connector!matches_update(wk[v].obs, conn.marker)
        BY <2>3, <3>1 DEF Connector!Marked, Connector!matches_update, Connector!Nodes
      <3> QED BY <2>2, <3>1, <3>2
    <2>4. ASSUME wk'[v].seen = conn'.rev
          PROVE  wk'[v].pc \notin {"recheck", "post"}
      BY <2>4 DEF Connector!Licensed
    <2> QED BY <2>1, <2>3, <2>4
  <1> QED BY <1>9, <1>12, <1>13 DEF Licences

\* The service may still apply the update a worker sent.
LEMMA TopoInFlight ==
  ASSUME Connector!TypeOK, Connector!TypeOK', Licences, NEW w \in Connector!Posting, NEW u, u.def = wk[w].def,
         flight' = flight \cup {u}, definition' = definition, conn' = conn,
         \A v \in Provisioners : Withdrawn(v),
         wk'[w].pc \notin {"decide", "recheck", "post", "reinspect"}
  PROVE  Licences'
  <1>1. flight = {} /\ Connector!Posting = {w} /\ Connector!Underway /\ \A v \in Provisioners : ~Connector!Licensed(v)
    BY DEF Licences, Connector!OneLicence, Connector!Underway
  <1>2. Connector!Marked(conn) /\ ~Connector!matches_update(definition, conn.marker) /\ wk[w].def = conn.marker
    BY <1>1 DEF Licences, Connector!LicenceMarked
  <1>3. \A v \in Provisioners : ~Connector!Licensed(v)'
    BY <1>1 DEF Connector!Licensed, Withdrawn
  <1>4. Connector!Posting' = {}
    BY <1>1 DEF Connector!Posting, Withdrawn
  <1>5. Connector!OneLicence'
    BY <1>1, <1>3, <1>4 DEF Connector!OneLicence
  <1>6. Connector!LicenceMarked'
    BY <1>1, <1>2, <1>4 DEF Connector!LicenceMarked, Connector!Marked, Connector!matches_update, Connector!Nodes
  <1>7. Connector!InspectionHolds'
    <2> SUFFICES ASSUME NEW v \in Provisioners
                 PROVE  /\ wk'[v].seen <= conn'.rev
                        /\ wk'[v].seen = conn'.rev =>
                             /\ ~(wk'[v].pc = "decide" /\ (~Connector!Marked(conn)' \/ Connector!matches_update(wk[v].obs, conn.marker)'))
                             /\ wk'[v].pc \in {"recheck", "post"} => wk'[v].obs = definition'
                             /\ wk'[v].pc # "reinspect"
      BY Zenon DEF Connector!InspectionHolds
    <2>1. wk'[v].seen <= conn'.rev
      BY DEF Withdrawn
    <2>2. ASSUME wk[v].seen = conn.rev
          PROVE  /\ ~(wk[v].pc = "decide" /\ (~Connector!Marked(conn) \/ Connector!matches_update(wk[v].obs, conn.marker)))
                 /\ wk[v].pc \in {"recheck", "post"} => wk[v].obs = definition
                 /\ wk[v].pc # "reinspect"
      BY <1>1, <2>2 DEF Licences, Connector!InspectionHolds
    <2>3. ASSUME wk'[v].seen = conn'.rev, wk'[v].pc = "decide",
                 ~Connector!Marked(conn)' \/ Connector!matches_update(wk[v].obs, conn.marker)'
          PROVE  FALSE
      <3>1. wk'[v].obs = wk[v].obs /\ wk[v].seen = conn.rev /\ wk[v].pc = "decide"
        BY <2>3 DEF Withdrawn
      <3>2. ~Connector!Marked(conn) \/ Connector!matches_update(wk[v].obs, conn.marker)
        BY <2>3, <3>1 DEF Connector!Marked, Connector!matches_update, Connector!Nodes
      <3> QED BY <2>2, <3>1, <3>2
    <2>4. ASSUME wk'[v].seen = conn'.rev, wk'[v].pc \in {"recheck", "post"}
          PROVE  wk'[v].obs = definition'
      BY <2>2, <2>4 DEF Withdrawn
    <2>5. ASSUME wk'[v].seen = conn'.rev
          PROVE  wk'[v].pc # "reinspect"
      BY <2>2, <2>5 DEF Withdrawn
    <2> QED BY <2>1, <2>3, <2>4, <2>5
  <1> QED BY <1>5, <1>6, <1>7 DEF Licences

\* The worker's other steps.
LEMMA TopoWorkerSound ==
  ASSUME Connector!TypeOK, Connector!TypeOK', Licences, Truthful, Connector!BaseClear, ~drifted, NEW w \in Provisioners,
         \/ \E k \in DOMAIN tasks : Connector!Inspect(w, k)
         \/ Connector!Post(w) \/ Connector!PostUncertain(w) \/ Connector!Finish(w) \/ Connector!LeaseExpires(w) \/ Connector!LeaseLost(w)
  PROVE  Licences' /\ Truthful'
  <1>0. PICK g \in Connector!Sessions : g = wk[w]
    BY TopoMembers
  <1>1. CASE Connector!Finish(w) \/ Connector!LeaseExpires(w) \/ Connector!LeaseLost(w)
    <2>1. /\ conn' = conn /\ definition' = definition /\ delivered' = delivered /\ flight' = flight
          /\ Connector!Become(w, Connector!Idle) \/ Connector!Become(w, [wk[w] EXCEPT !.held = FALSE])
      BY <1>1 DEF Connector!Finish, Connector!LeaseExpires, Connector!LeaseLost, Connector!manifestVars, Connector!serviceVars
    <2>2. \A v \in Provisioners : Withdrawn(v)
      BY <2>1, TopoWithdrawn DEF Licences
    <2> QED BY <2>1, <2>2, TopoLicencesKept, TopoTruthKept
  <1>2. CASE Connector!PostUncertain(w)
    <2>1. /\ conn' = conn /\ definition' = definition /\ delivered' = delivered /\ Connector!Become(w, Connector!Idle)
          /\ flight' = flight \/ flight' = flight \cup {[def |-> wk[w].def, op |-> 0]}
          /\ w \in Connector!Posting
      BY <1>2 DEF Connector!PostUncertain, Connector!manifestVars, Connector!Posting
    <2>2. \A v \in Provisioners : Withdrawn(v)
      BY <2>1, TopoWithdrawn DEF Licences
    <2>3. Truthful'
      BY <2>1, TopoTruthKept
    <2>4. CASE flight' = flight
      BY <2>1, <2>2, <2>3, <2>4, TopoLicencesKept
    <2>5. CASE flight' = flight \cup {[def |-> wk[w].def, op |-> 0]}
      <3>1. wk'[w].pc = "idle"
        BY <2>1, TopoIdle DEF Connector!Become, Connector!TypeOK
      <3>2. PICK u : u = [def |-> wk[w].def, op |-> 0]
        OBVIOUS
      <3>3. u.def = wk[w].def /\ flight' = flight \cup {u}
        BY <2>5, <3>2
      <3>4. Licences'
        BY <2>1, <2>2, <3>1, <3>3, TopoInFlight
      <3> QED BY <2>3, <3>4
    <2> QED BY <2>1, <2>4, <2>5
  <1>3. CASE Connector!Post(w)
    <2>1. wk[w].pc = "post" /\ w \in Connector!Posting /\ conn' = conn /\ delivered' = delivered
      BY <1>3 DEF Connector!Post, Connector!Posting, Connector!manifestVars
    <2>2. /\ flight = {} /\ Connector!Posting = {w} /\ Connector!Underway /\ wk[w].def = conn.marker
          /\ \A v \in Provisioners : ~Connector!Licensed(v)
      BY <2>1 DEF Licences, Connector!OneLicence, Connector!Underway, Connector!LicenceMarked
    <2>3. CASE /\ definition' = Connector!Applied(wk[w].def)
               /\ Connector!Become(w, [wk[w] EXCEPT !.pc = "reinspect"]) /\ UNCHANGED <<flight, changes>>
      <3>1. PICK r : r = [g EXCEPT !.pc = "reinspect"]
        OBVIOUS
      <3>2. r.pc = "reinspect" /\ r.seen = g.seen
        BY <1>0, <3>1 DEF Connector!Sessions
      <3>3. \A v \in Provisioners : wk'[v] = IF v = w THEN r ELSE wk[v]
        BY <1>0, <2>3, <3>1 DEF Connector!Become, Connector!TypeOK
      <3>4. \A v \in Provisioners :
              /\ wk'[v].pc # "post" /\ wk'[v].seen = wk[v].seen
              /\ wk'[v].pc \in {"decide", "recheck"} => wk'[v] = wk[v]
        BY <1>0, <2>2, <3>2, <3>3 DEF Connector!Posting
      <3> QED BY <2>1, <2>2, <2>3, <3>4, TopoApplied
    <2>4. CASE /\ flight' = flight \cup {[def |-> wk[w].def, op |-> Len(changes) + 1]}
               /\ Connector!Become(w, [wk[w] EXCEPT !.pc = "ack", !.op = Len(changes) + 1]) /\ UNCHANGED <<definition, ids>>
      <3>1. PICK r : r = [g EXCEPT !.pc = "ack", !.op = Len(changes) + 1]
        OBVIOUS
      <3>2. r.pc = "ack" /\ r.seen = g.seen
        BY <1>0, <3>1 DEF Connector!Sessions
      <3>3. \A v \in Provisioners : wk'[v] = IF v = w THEN r ELSE wk[v]
        BY <1>0, <2>4, <3>1 DEF Connector!Become, Connector!TypeOK
      <3>4. \A v \in Provisioners : Withdrawn(v)
        BY <1>0, <3>2, <3>3 DEF Withdrawn, Licences, Connector!InspectionHolds
      <3>5. PICK u : u = [def |-> wk[w].def, op |-> Len(changes) + 1]
        OBVIOUS
      <3>6. u.def = wk[w].def /\ flight' = flight \cup {u}
        BY <2>4, <3>5
      <3>7. Licences'
        BY <2>1, <2>4, <3>2, <3>3, <3>4, <3>6, TopoInFlight
      <3>8. Truthful'
        BY <2>1, <2>4, TopoTruthKept
      <3> QED BY <3>7, <3>8
    <2> QED BY <1>3, <2>3, <2>4, Zenon DEF Connector!Post
  <1>4. CASE \E k \in DOMAIN tasks : Connector!Inspect(w, k)
    <2>1. PICK k \in DOMAIN tasks : Connector!Inspect(w, k)
      BY <1>4
    <2>2. conn' = conn /\ definition' = definition /\ delivered' = delivered /\ flight' = flight
      BY <2>1 DEF Connector!Inspect, Connector!manifestVars, Connector!serviceVars
    <2>3. Truthful'
      BY <2>2, TopoTruthKept
    <2>4. CASE Connector!Become(w, Connector!Idle)
      <3>1. \A v \in Provisioners : Withdrawn(v)
        BY <2>4, TopoWithdrawn DEF Licences
      <3> QED BY <2>2, <2>3, <3>1, TopoLicencesKept
    <2>5. CASE Connector!Become(w, [Connector!Idle EXCEPT !.pc = "decide", !.key = k, !.held = TRUE,
                                        !.seen = conn.rev, !.obs = definition])
      <3>1. PICK i \in Connector!Sessions : i = Connector!Idle
        BY TopoIdle
      <3>2. PICK r : r = [i EXCEPT !.pc = "decide", !.key = k, !.held = TRUE, !.seen = conn.rev, !.obs = definition]
        OBVIOUS
      <3>3. r.pc = "decide" /\ r.seen = conn.rev /\ r.obs = definition
        BY <3>1, <3>2 DEF Connector!Sessions
      <3>4. \A v \in Provisioners : wk'[v] = IF v = w THEN r ELSE wk[v]
        BY <2>5, <3>1, <3>2 DEF Connector!Become, Connector!TypeOK
      <3>5. \A v \in Provisioners : Connector!Licensed(v)' => v # w /\ Connector!Licensed(v)
        BY <2>2, <3>3, <3>4 DEF Connector!Licensed
      <3>6. wk[w].pc = "idle"
        BY <2>1 DEF Connector!Inspect
      <3>7. Connector!Posting' = Connector!Posting /\ (Connector!Underway' => Connector!Underway)
        BY <2>2, <3>3, <3>4, <3>5, <3>6 DEF Connector!Posting, Connector!Underway
      <3>8. \A v \in Connector!Posting : wk'[v] = wk[v]
        BY <3>4, <3>6 DEF Connector!Posting
      <3>9. Connector!OneLicence'
        BY <2>2, <3>5, <3>7 DEF Licences, Connector!OneLicence
      <3>10. Connector!LicenceMarked'
        BY <2>2, <3>7, <3>8 DEF Licences, Connector!LicenceMarked, Connector!Marked, Connector!matches_update, Connector!Nodes
      <3>11. Connector!InspectionHolds'
        <4> SUFFICES ASSUME NEW v \in Provisioners
                     PROVE  /\ wk'[v].seen <= conn'.rev
                            /\ wk'[v].seen = conn'.rev =>
                                 /\ wk'[v].pc = "decide" /\ (~Connector!Marked(conn) \/ Connector!matches_update(wk[v].obs, conn.marker))' =>
                                      wk'[v].obs = definition' /\ ~Connector!Underway'
                                 /\ wk'[v].pc \in {"recheck", "post"} => wk'[v].obs = definition'
                                 /\ wk'[v].pc = "reinspect" => ~Connector!Underway'
          BY Zenon DEF Connector!InspectionHolds
        <4>1. CASE v # w
          <5>1. wk'[v] = wk[v]
            BY <3>4, <4>1
          <5>2. wk[v].seen <= conn.rev
            BY DEF Licences, Connector!InspectionHolds
          <5>3. ASSUME wk'[v].seen = conn'.rev, wk'[v].pc = "decide",
                       (~Connector!Marked(conn) \/ Connector!matches_update(wk[v].obs, conn.marker))'
                PROVE  wk'[v].obs = definition' /\ ~Connector!Underway'
            <6>1. ~Connector!Marked(conn) \/ Connector!matches_update(wk[v].obs, conn.marker)
              BY <2>2, <5>1, <5>3 DEF Connector!Marked, Connector!matches_update, Connector!Nodes
            <6> QED BY <2>2, <3>7, <5>1, <5>3, <6>1 DEF Licences, Connector!InspectionHolds
          <5>4. ASSUME wk'[v].seen = conn'.rev
                PROVE  /\ wk'[v].pc \in {"recheck", "post"} => wk'[v].obs = definition'
                       /\ wk'[v].pc = "reinspect" => ~Connector!Underway'
            BY <2>2, <3>7, <5>1, <5>4 DEF Licences, Connector!InspectionHolds
          <5> QED BY <2>2, <5>1, <5>2, <5>3, <5>4
        <4>2. CASE v = w
          <5>1. /\ wk'[v].seen = conn'.rev /\ wk'[v].pc = "decide" /\ wk'[v].obs = definition'
                /\ conn.rev \in Nat /\ conn' = conn
            BY <2>2, <3>3, <3>4, <4>2, TopoMembers
          <5>2. ASSUME (~Connector!Marked(conn) \/ Connector!matches_update(wk[v].obs, conn.marker))'
                PROVE  ~Connector!Underway'
            <6>1. ~Connector!Marked(conn) \/ Connector!matches_update(definition, conn.marker)
              BY <2>2, <5>1, <5>2 DEF Connector!Marked, Connector!matches_update, Connector!Nodes
            <6> QED BY <3>7, <6>1 DEF Licences, Connector!LicenceMarked
          <5> QED BY <5>1, <5>2
        <4> QED BY <4>1, <4>2
      <3> QED BY <2>3, <3>9, <3>10, <3>11 DEF Licences
    <2> QED BY <2>1, <2>4, <2>5, Zenon DEF Connector!Inspect
  <1> QED BY <1>1, <1>2, <1>3, <1>4

\* The Eventstream service.
LEMMA TopoServiceSound ==
  ASSUME Connector!TypeOK, Connector!TypeOK', Licences, Truthful, Connector!BaseClear, NEW u \in flight,
         Connector!ServiceApplies(u) \/ Connector!ServiceFails(u)
  PROVE  Licences' /\ Truthful'
  <1>1. /\ conn' = conn /\ delivered' = delivered /\ wk' = wk /\ flight' = flight \ {u}
    BY DEF Connector!ServiceApplies, Connector!ServiceFails, Connector!manifestVars
  <1>2. CASE Connector!ServiceFails(u)
    <2>1. definition' = definition
      BY <1>2 DEF Connector!ServiceFails
    <2>2. \A v \in Provisioners : Withdrawn(v)
      BY <1>1 DEF Withdrawn, Licences, Connector!InspectionHolds
    <2> QED BY <1>1, <2>1, <2>2, TopoLicencesKept, TopoTruthKept
  <1>3. CASE Connector!ServiceApplies(u)
    <2>1. definition' = Connector!Applied(u.def)
      BY <1>3 DEF Connector!ServiceApplies
    <2>2. /\ flight' = {} /\ Connector!Posting = {} /\ Connector!Underway /\ u.def = conn.marker
          /\ \A v \in Provisioners : ~Connector!Licensed(v)
      BY <1>1 DEF Licences, Connector!OneLicence, Connector!Underway, Connector!LicenceMarked
    <2>3. \A v \in Provisioners : wk[v].pc # "post"
      BY <2>2 DEF Connector!Posting
    <2> QED BY <1>1, <2>1, <2>2, <2>3, TopoApplied
  <1> QED BY <1>2, <1>3

\* A publication leaves the baseline and the marker.
LEMMA TopoPublicationSound ==
  ASSUME Connector!TypeOK, Connector!TypeOK', Licences, Truthful, Published, wk' = wk,
         flight' = flight, definition' = definition, Connector!MarkerOwned', TrueOwnership'
  PROVE  Licences' /\ Truthful'
  <1>1. \A v \in Provisioners : Withdrawn(v)
    BY DEF Withdrawn, Licences, Connector!InspectionHolds
  <1>2. Licences'
    BY <1>1, TopoLicencesKept DEF Published
  <1>3. Connector!BaseTrue' /\ TrueReady'
    BY DEF Published, Connector!BaseTrue, TrueReady, Truthful
  <1> QED BY <1>2, <1>3 DEF Truthful

LEMMA TopoAdmissionSound ==
  ASSUME Connector!TypeOK, Connector!TypeOK', Licences, Truthful,
         Connector!PublishScope \/ \E t \in Pipelines : Connector!PublishInventory(t) \/ Connector!PublishCapability(t)
  PROVE  Licences' /\ Truthful'
  <1>1. PICK q : Admitted(q)
    BY TopoAdmission
  <1>2. wk' = wk /\ flight' = flight /\ definition' = definition
    BY <1>1 DEF Admitted, Connector!serviceVars
  <1>3. CASE PlanKept(q)
    <2>1. conn' = conn /\ delivered' = delivered
      BY <1>3 DEF PlanKept
    <2>2. \A v \in Provisioners : Withdrawn(v)
      BY <1>2 DEF Withdrawn, Licences, Connector!InspectionHolds
    <2> QED BY <1>2, <2>1, <2>2, TopoLicencesKept, TopoTruthKept
  <1>4. CASE PlanPublished(q)
    <2>1. /\ Published /\ conn'.marker = conn.marker /\ conn.removing \subseteq conn'.removing
          /\ \A t \in Pipelines : conn'.own[t] = conn.own[t] \/ (conn.own[t] = 0 /\ conn'.own[t] = -1)
      BY <1>4 DEF PlanPublished, Published, Grown
    <2>2. Connector!MarkerOwned'
      <3> SUFFICES ASSUME Connector!Marked(conn), NEW t \in Pipelines
                   PROVE  /\ conn'.marker[t] # 0 => conn'.own[t] = conn'.marker[t]
                          /\ conn'.marker[t] > 0 => definition'[t] = conn'.own[t]
                          /\ conn'.own[t] > 0 /\ t \notin conn'.removing => conn'.marker[t] = conn'.own[t]
        BY <2>1 DEF Connector!MarkerOwned, Connector!Marked, Connector!Absent
      <3>1. /\ conn.marker[t] # 0 => conn.own[t] = conn.marker[t]
            /\ conn.marker[t] > 0 => definition[t] = conn.own[t]
            /\ conn.own[t] > 0 /\ t \notin conn.removing => conn.marker[t] = conn.own[t]
        BY DEF Truthful, Connector!MarkerOwned, Connector!Absent
      <3>2. conn.marker[t] \in Int /\ conn.own[t] \in Nat \cup {-1}
        BY TopoMembers DEF Connector!Definitions
      <3> QED BY <1>2, <2>1, <3>1, <3>2
    <2>3. TrueOwnership'
      <3> SUFFICES ASSUME NEW t \in Pipelines
                   PROVE  /\ conn'.own[t] > 0 /\ t \notin conn'.removing => definition'[t] = conn'.own[t]
                          /\ definition'[t] # 0 => conn'.own[t] \in {definition'[t], -1}
        BY DEF TrueOwnership
      <3>1. /\ conn.own[t] > 0 /\ t \notin conn.removing => definition[t] = conn.own[t]
            /\ definition[t] # 0 => conn.own[t] \in {definition[t], -1}
        BY DEF Truthful, TrueOwnership
      <3>2. conn.own[t] \in Nat \cup {-1}
        BY TopoMembers
      <3> QED BY <1>2, <2>1, <3>1, <3>2
    <2> QED BY <1>2, <2>1, <2>2, <2>3, TopoPublicationSound
  <1> QED BY <1>1, <1>3, <1>4 DEF Admitted

\* The controller's decisions on reports.
LEMMA TopoDecisionSound ==
  ASSUME Connector!TypeOK, Connector!TypeOK', Licences, Truthful, Connector!BaseClear, NEW h \in handoff,
         \/ Connector!RejectEvidence(h) \/ Connector!BindSources(h) \/ Connector!RestoreSources(h)
         \/ Connector!PublishReady(h) \/ Connector!Accept(h) \/ Connector!ExpireInspection(h)
  PROVE  Licences' /\ Truthful'
  <1>1. wk' = wk /\ flight' = flight /\ definition' = definition
    BY DEF Connector!RejectEvidence, Connector!BindSources, Connector!RestoreSources, Connector!PublishReady, Connector!Accept, Connector!ExpireInspection,
       Connector!HandoffUnchanged, Connector!serviceVars
  <1>2. \A v \in Provisioners : Withdrawn(v)
    BY <1>1 DEF Withdrawn, Licences, Connector!InspectionHolds
  <1>3. CASE Connector!RejectEvidence(h) \/ Connector!Accept(h) \/ Connector!ExpireInspection(h)
    <2>1. conn' = conn /\ delivered' = delivered
      BY <1>3 DEF Connector!RejectEvidence, Connector!Accept, Connector!ExpireInspection, Connector!manifestVars
    <2> QED BY <1>1, <1>2, <2>1, TopoLicencesKept, TopoTruthKept
  <1>4. ASSUME Connector!Evidence
        PROVE  conn.base = definition /\ ~Connector!Marked(conn)
    BY <1>4 DEF Connector!Evidence, Connector!BaseClear, Truthful, Connector!BaseTrue
  <1>5. CASE Connector!BindSources(h)
    <2>1. /\ Published /\ conn'.own = conn.base /\ conn'.removing = {}
      BY <1>5, TopoBind
    <2>2. conn.base = definition /\ ~Connector!Marked(conn)
      BY <1>4, <1>5 DEF Connector!BindSources
    <2>3. Connector!MarkerOwned'
      BY <2>1, <2>2 DEF Connector!MarkerOwned, Connector!Marked, Published
    <2>4. TrueOwnership'
      BY <1>1, <2>1, <2>2 DEF TrueOwnership
    <2> QED BY <1>1, <2>1, <2>3, <2>4, TopoPublicationSound
  <1>6. CASE Connector!RestoreSources(h)
    <2>1. /\ Published /\ conn'.own = conn.own /\ conn'.removing = conn.removing \ Connector!Restorable
      BY <1>6, TopoRestore
    <2>2. conn.base = definition /\ ~Connector!Marked(conn)
      BY <1>4, <1>6 DEF Connector!RestoreSources
    <2>3. Connector!MarkerOwned'
      BY <2>1, <2>2 DEF Connector!MarkerOwned, Connector!Marked, Published
    <2>4. Connector!PresenceComplete /\ Connector!Restorable \subseteq Pipelines
      BY <1>6, TopoMembers DEF Connector!RestoreSources, Connector!Supersedable, Connector!Restorable
    <2>5. \A t \in Connector!Restorable : definition[t] = conn.own[t]
      BY <2>2, <2>4 DEF Connector!PresenceComplete, Connector!Nodes
    <2>6. TrueOwnership'
      <3> SUFFICES ASSUME NEW t \in Pipelines
                   PROVE  /\ conn.own[t] > 0 /\ t \notin conn'.removing => definition[t] = conn.own[t]
                          /\ definition[t] # 0 => conn.own[t] \in {definition[t], -1}
        BY <1>1, <2>1 DEF TrueOwnership
      <3>1. /\ conn.own[t] > 0 /\ t \notin conn.removing => definition[t] = conn.own[t]
            /\ definition[t] # 0 => conn.own[t] \in {definition[t], -1}
        BY DEF Truthful, TrueOwnership
      <3> QED BY <2>1, <2>5, <3>1
    <2> QED BY <1>1, <2>1, <2>3, <2>6, TopoPublicationSound
  <1>7. CASE Connector!PublishReady(h)
    <2>1. /\ OwnershipKept /\ conn'.base = conn.base /\ conn'.marker = conn.marker /\ delivered' = delivered
      BY <1>7, TopoReady
    <2>2. Connector!ProvenBy(delivered)
      BY <1>7 DEF Connector!PublishReady
    <2>3. PICK t \in delivered : conn.own[t] > 0
      BY <2>2 DEF Connector!ProvenBy
    <2>4. conn.removing = {} /\ conn.base = Connector!DesiredDefinition(conn) /\ ~Connector!Changes
      BY <2>2 DEF Connector!ProvenBy, Connector!Changes
    <2>5. \A s \in Pipelines : conn.base[s] = conn.own[s]
      BY <2>4, TopoDesired, TopoMembers
    <2>6. t \in Pipelines
      BY <2>3 DEF Connector!TypeOK
    <2>7. conn.base # Connector!NoDef
      BY <2>3, <2>5, <2>6 DEF Connector!NoDef
    <2>8. conn.base = definition
      BY <2>7 DEF Truthful, Connector!BaseTrue
    <2>9. definition = conn.own
      <3>1. definition \in [Pipelines -> Nat] /\ conn.own \in [Pipelines -> Nat \cup {-1}]
        BY TopoMembers DEF Connector!TypeOK
      <3> QED BY <2>5, <2>8, <3>1
    <2>10. Truthful'
      BY <1>1, <2>1, <2>3, <2>4, <2>7, <2>8, <2>9, TopoTruthSaved
    <2>11. Licences'
      BY <1>1, <1>2, <2>1, TopoLicencesKept DEF OwnershipKept
    <2> QED BY <2>10, <2>11
  <1> QED BY <1>3, <1>5, <1>6, <1>7

\* Every step keeps the licence and the truth of the manifest.
LEMMA TopoSoundNext ==
  ASSUME Connector!TypeOK, Connector!TypeOK', Connector!BaseClear, Sound, [Connector!Next]_Connector!vars
  PROVE  Sound'
  <1> SUFFICES ASSUME ~drifted'
               PROVE  Licences' /\ Truthful'
    BY TopoSound
  <1>1. CASE UNCHANGED Connector!vars
    <2>1. /\ conn' = conn /\ definition' = definition /\ delivered' = delivered /\ flight' = flight /\ wk' = wk
          /\ drifted' = drifted
      BY <1>1 DEF Connector!vars, Connector!manifestVars, Connector!serviceVars
    <2>2. Licences /\ Truthful
      BY <2>1, TopoSound
    <2>3. \A v \in Provisioners : Withdrawn(v)
      BY <2>1, <2>2 DEF Withdrawn, Licences, Connector!InspectionHolds
    <2> QED BY <2>1, <2>2, <2>3, TopoLicencesKept, TopoTruthKept
  <1>2. ASSUME ~drifted
        PROVE  Licences /\ Truthful
    BY <1>2, TopoSound
  <1>3. ASSUME \/ \E S \in Scopes : Connector!ActivateScope(S)
               \/ \E t \in Pipelines : Connector!Lapse(t) \/ Connector!Deliver(t)
        PROVE  Licences' /\ Truthful'
    <2>1. /\ conn' = conn /\ definition' = definition /\ flight' = flight /\ wk' = wk
          /\ drifted' = drifted /\ delivered \subseteq delivered'
      BY <1>3 DEF Connector!ActivateScope, Connector!Lapse, Connector!Deliver, Connector!HandoffUnchanged, Connector!manifestVars, Connector!serviceVars
    <2>2. Licences /\ Truthful
      BY <1>2, <2>1
    <2>3. \A v \in Provisioners : Withdrawn(v)
      BY <2>1, <2>2 DEF Withdrawn, Licences, Connector!InspectionHolds
    <2> QED BY <2>1, <2>2, <2>3, TopoLicencesKept, TopoTruthKept
  <1>4. ASSUME Connector!PublishScope \/ \E t \in Pipelines : Connector!PublishInventory(t) \/ Connector!PublishCapability(t)
        PROVE  Licences' /\ Truthful'
    <2>1. drifted' = drifted
      BY <1>4 DEF Connector!PublishScope, Connector!PublishInventory, Connector!PublishCapability
    <2> QED BY <1>2, <1>4, <2>1, TopoAdmissionSound
  <1>5. ASSUME NEW w \in Provisioners,
               \/ \E k \in DOMAIN tasks : Connector!Inspect(w, k)
               \/ Connector!Post(w) \/ Connector!PostUncertain(w) \/ Connector!Finish(w) \/ Connector!LeaseExpires(w) \/ Connector!LeaseLost(w)
        PROVE  Licences' /\ Truthful'
    <2>1. drifted' = drifted
      BY <1>5 DEF Connector!Inspect, Connector!Post, Connector!PostUncertain, Connector!Finish, Connector!LeaseExpires, Connector!LeaseLost
    <2> QED BY <1>2, <1>5, <2>1, TopoWorkerSound
  <1>6. ASSUME NEW w \in Provisioners,
               Connector!Decide(w) \/ Connector!ProbeFails(w) \/ Connector!Recheck(w) \/ Connector!PostNotSent(w) \/ Connector!Acknowledge(w) \/ Connector!Reinspect(w)
        PROVE  Licences' /\ Truthful'
    <2>1. WorkerSave(w)
      BY <1>6, TopoWorkerSave
    <2>2. drifted' = drifted
      BY <2>1 DEF WorkerSave
    <2> QED BY <1>2, <2>1, <2>2, TopoSaveSound
  <1>7. ASSUME NEW u \in flight, Connector!ServiceApplies(u) \/ Connector!ServiceFails(u)
        PROVE  Licences' /\ Truthful'
    <2>1. drifted' = drifted
      BY <1>7 DEF Connector!ServiceApplies, Connector!ServiceFails
    <2> QED BY <1>2, <1>7, <2>1, TopoServiceSound
  <1>8. ASSUME NEW h \in handoff,
               \/ Connector!RejectEvidence(h) \/ Connector!BindSources(h) \/ Connector!RestoreSources(h)
               \/ Connector!PublishReady(h) \/ Connector!Accept(h) \/ Connector!ExpireInspection(h)
        PROVE  Licences' /\ Truthful'
    <2>1. drifted' = drifted
      BY <1>8 DEF Connector!RejectEvidence, Connector!BindSources, Connector!RestoreSources, Connector!PublishReady, Connector!Accept, Connector!ExpireInspection,
         Connector!HandoffUnchanged
    <2> QED BY <1>2, <1>8, <2>1, TopoDecisionSound
  <1>9. ASSUME NEW t \in Pipelines, Connector!Drift(t)
        PROVE  FALSE
    BY <1>9 DEF Connector!Drift
  <1> QED BY <1>1, <1>3, <1>4, <1>5, <1>6, <1>7, <1>8, <1>9 DEF Connector!Next

\* A registered connector: nothing sent, the manifest the Eventstream's definition.
LEMMA TopoSoundInit == Connector!Init => Sound
  <1> SUFFICES ASSUME Connector!Init
               PROVE  Licences /\ Truthful
    BY TopoSound
  <1>1. Connector!TypeOK
    BY TopoTypesInit
  <1>2. PICK f \in [Pipelines -> Nat] : definition = f /\ conn = Connector!Registered(f)
    BY <1>1 DEF Connector!Init, Connector!TypeOK
  <1>3. /\ conn.own = f /\ conn.removing = {} /\ conn.base = f /\ conn.marker = Connector!NoDef
        /\ conn.state = "planned" /\ conn.rev = 1 /\ flight = {}
    BY <1>2 DEF Connector!Registered, Connector!Init
  <1>4. \A w \in Provisioners : wk[w].pc = "idle" /\ wk[w].seen = 0
    BY TopoIdle DEF Connector!Init
  <1>5. Connector!OneLicence /\ Connector!LicenceMarked
    BY <1>3, <1>4 DEF Connector!OneLicence, Connector!LicenceMarked, Connector!Underway, Connector!Posting, Connector!Licensed
  <1>6. Connector!InspectionHolds
    BY <1>3, <1>4 DEF Connector!InspectionHolds
  <1>7. Connector!MarkerOwned /\ Connector!BaseTrue /\ TrueOwnership /\ TrueReady
    BY <1>2, <1>3 DEF Connector!MarkerOwned, Connector!Marked, Connector!BaseTrue, TrueOwnership, TrueReady
  <1> QED BY <1>5, <1>6, <1>7 DEF Licences, Truthful
-----------------------------------------------------------------------------
(* The owned connector: work is held, reports are fresh, a change is watched. *)

Watch == Connector!BaseClear /\ Connector!WorkHeld /\ Connector!ReportsFresh /\ Connector!ChangeOpen

\* Held work is held as before, and is as it was.
HeldKept ==
  \A v \in Provisioners :
    /\ wk'[v].seen <= conn'.rev
    /\ wk'[v].held => /\ wk[v].held /\ wk'[v].key = wk[v].key /\ wk'[v].pc # "idle"
                      /\ wk[v].key \in DOMAIN tasks' /\ tasks'[wk[v].key] = tasks[wk[v].key]

LEMMA TopoHeldKept ==
  ASSUME Connector!WorkHeld, HeldKept
  PROVE  Connector!WorkHeld'
  <1>1. \A v \in Provisioners : wk'[v].held => /\ wk'[v].pc # "idle" /\ wk'[v].key \in DOMAIN tasks'
                                               /\ tasks'[wk'[v].key] = "leased"
    BY DEF Connector!WorkHeld, HeldKept
  <1>2. \A v, u \in Provisioners : wk'[v].held /\ wk'[u].held /\ wk'[v].key = wk'[u].key => v = u
    BY DEF Connector!WorkHeld, HeldKept
  <1>3. \A v \in Provisioners : wk'[v].seen <= conn'.rev
    BY DEF HeldKept
  <1> QED BY <1>1, <1>2, <1>3 DEF Connector!WorkHeld

\* The other workers are as they were.
OthersAs(w) == \A v \in Provisioners \ {w} : wk'[v] = wk[v]

\* A worker gives its work up: it waits, or is done.
LEMMA TopoReleased ==
  ASSUME Connector!TypeOK, Connector!WorkHeld, NEW w \in Provisioners, wk[w].held, NEW s, Connector!Settle(w, s),
         OthersAs(w), ~wk'[w].held, wk'[w].seen \in Nat, wk'[w].seen <= conn.rev,
         conn'.rev = conn.rev \/ conn'.rev = conn.rev + 1
  PROVE  Connector!WorkHeld' /\ wk[w].key \in DOMAIN tasks /\ tasks'[wk[w].key] = s /\ DOMAIN tasks' = DOMAIN tasks
  <1>1. wk[w].key \in DOMAIN tasks /\ tasks' = [tasks EXCEPT ![wk[w].key] = s]
    BY DEF Connector!WorkHeld, Connector!Settle
  <1>2. \A v \in Provisioners : wk'[v].held => v # w /\ wk[v].held /\ wk[v].key # wk[w].key
    BY DEF Connector!WorkHeld, OthersAs
  <1>3. conn.rev \in Nat /\ \A v \in Provisioners : wk[v].seen \in Nat
    BY TopoMembers
  <1>4. \A v \in Provisioners : wk'[v].seen <= conn'.rev
    <2>1. \A v \in Provisioners \ {w} : wk'[v].seen <= conn'.rev
      BY <1>3 DEF Connector!WorkHeld, OthersAs
    <2>2. wk'[w].seen <= conn.rev
      OBVIOUS
    <2>3. wk'[w].seen <= conn'.rev
      BY <1>3, <2>2
    <2> QED BY <2>1, <2>3
  <1>5. HeldKept
    BY <1>1, <1>2, <1>4 DEF HeldKept, Connector!WorkHeld, OthersAs
  <1> QED BY <1>1, <1>5, TopoHeldKept

\* Work that waits is open: nobody holds it.
LEMMA TopoOpened ==
  ASSUME Connector!WorkHeld', NEW k, k \in DOMAIN tasks', tasks'[k] \in {"queued", "waiting"}
  PROVE  Connector!ChangeOpen'
  <1>1. \A v \in Provisioners : ~(wk'[v].held /\ wk'[v].key = k)
    BY DEF Connector!WorkHeld
  <1>2. Connector!Open(k)'
    BY <1>1 DEF Connector!Open
  <1> QED BY <1>2 DEF Connector!ChangeOpen

\* Open work stays open while its state stays and nobody else comes to finish it.
NobodyFinishes ==
  \A v \in Provisioners : wk'[v].held /\ wk'[v].pc = "finish" =>
    wk[v].held /\ wk[v].pc = "finish" /\ wk[v].key = wk'[v].key /\ wk[v].pol = wk'[v].pol

LEMMA TopoOpenKept ==
  ASSUME Connector!ChangeOpen, conn' = conn, policy' = policy, NobodyFinishes,
         \A k \in DOMAIN tasks : k \in DOMAIN tasks' /\ (tasks'[k] = tasks[k] \/ tasks'[k] # "done"),
         \A h \in handoff : Connector!Awaited(h) => \E g \in handoff' : g.rev = h.rev /\ g.policy = h.policy
  PROVE  Connector!ChangeOpen'
  <1> SUFFICES ASSUME (Connector!Changes \/ Connector!Marked(conn))', conn'.state # "blocked", conn'.policy = policy'
               PROVE  (\E h \in handoff' : Connector!Awaited(h)') \/ \E k \in DOMAIN tasks' : Connector!Open(k)'
    BY Zenon DEF Connector!ChangeOpen
  <1>1. Connector!Changes \/ Connector!Marked(conn)
    BY DEF Connector!Changes, Connector!Proposals, Connector!Marked
  <1>2. (\E h \in handoff : Connector!Awaited(h)) \/ \E k \in DOMAIN tasks : Connector!Open(k)
    BY <1>1 DEF Connector!ChangeOpen
  <1>3. CASE \E h \in handoff : Connector!Awaited(h)
    <2>1. PICK h \in handoff : Connector!Awaited(h)
      BY <1>3
    <2>2. PICK g \in handoff' : g.rev = h.rev /\ g.policy = h.policy
      BY <2>1
    <2>3. Connector!Awaited(g)'
      BY <2>1, <2>2 DEF Connector!Awaited, Connector!Evidence, Connector!Changes, Connector!Proposals
    <2> QED BY <2>3
  <1>4. CASE \E k \in DOMAIN tasks : Connector!Open(k)
    <2>1. PICK k \in DOMAIN tasks : Connector!Open(k)
      BY <1>4
    <2>2. k \in DOMAIN tasks' /\ tasks'[k] # "done"
      BY <2>1 DEF Connector!Open
    <2>3. Connector!Open(k)'
      BY <2>1, <2>2 DEF Connector!Open, NobodyFinishes
    <2> QED BY <2>2, <2>3
  <1> QED BY <1>2, <1>3, <1>4

\* No report is added, and no work to observe again.
LEMMA TopoFreshKept ==
  ASSUME Connector!TypeOK, Connector!TypeOK', Connector!ReportsFresh, handoff' \subseteq handoff, conn'.policy <= policy',
         conn'.rev = conn.rev \/ conn'.rev = conn.rev + 1,
         \A k \in DOMAIN tasks' : k \in DOMAIN tasks \/ k[1] = "scope" \/ (k[1] = "publication" /\ k[2] <= conn'.rev)
  PROVE  Connector!ReportsFresh'
  <1>0. /\ conn.rev \in Nat /\ \A h \in handoff : h.rev \in Nat
        /\ \A k \in DOMAIN tasks : k[2] \in Nat
    BY TopoMembers DEF Connector!TypeOK, Connector!Reports, Connector!Keys
  <1>1. \A k \in DOMAIN tasks' : k[1] \in {"publication", "reobserve"} => k[2] <= conn'.rev
    BY <1>0 DEF Connector!ReportsFresh
  <1>2. ASSUME NEW h \in handoff'
        PROVE  h.rev <= conn'.rev /\ <<"reobserve", h.rev>> \notin DOMAIN tasks'
    <2>1. h.rev \in Nat /\ h.rev <= conn.rev /\ <<"reobserve", h.rev>> \notin DOMAIN tasks
      BY <1>0 DEF Connector!ReportsFresh
    <2>2. PICK k : k = <<"reobserve", h.rev>>
      OBVIOUS
    <2>3. k[1] = "reobserve" /\ k \notin DOMAIN tasks
      BY <2>1, <2>2
    <2>4. k \notin DOMAIN tasks'
      BY <2>3
    <2> QED BY <1>0, <2>1, <2>2, <2>4
  <1>3. \A g, h \in handoff' : g.rev = h.rev => g = h
    BY DEF Connector!ReportsFresh
  <1> QED BY <1>1, <1>2, <1>3 DEF Connector!ReportsFresh

\* A save's report has a revision of its own.
LEMMA TopoFreshReported ==
  ASSUME Connector!TypeOK, Connector!TypeOK', Connector!ReportsFresh, OwnershipKept, NEW key, NEW ready, NEW insp,
         Reported(key, ready, insp), policy' = policy, DOMAIN tasks' = DOMAIN tasks
  PROVE  Connector!ReportsFresh'
  <1>0. /\ conn.rev \in Nat /\ conn'.rev = conn.rev + 1 /\ conn'.policy = conn.policy
        /\ \A h \in handoff : h.rev \in Nat
        /\ \A k \in DOMAIN tasks : k[2] \in Nat
    BY TopoMembers DEF Connector!TypeOK, Connector!Reports, Connector!Keys, OwnershipKept
  <1>1. PICK r : handoff' = handoff \cup {r} /\ r.rev = conn.rev + 1
    BY DEF Reported
  <1>2. \A k \in DOMAIN tasks' : k[1] \in {"publication", "reobserve"} => k[2] <= conn'.rev
    BY <1>0 DEF Connector!ReportsFresh
  <1>3. <<"reobserve", r.rev>> \notin DOMAIN tasks
    BY <1>0, <1>1 DEF Connector!ReportsFresh
  <1>4. ASSUME NEW h \in handoff
        PROVE  /\ h.rev <= conn'.rev /\ h.rev # r.rev
               /\ <<"reobserve", h.rev>> \notin DOMAIN tasks
    <2>1. PICK n \in Nat : n = h.rev
      BY <1>0
    <2>2. n <= conn.rev /\ <<"reobserve", h.rev>> \notin DOMAIN tasks
      BY <2>1 DEF Connector!ReportsFresh
    <2>3. n <= conn'.rev /\ n # r.rev
      BY <1>0, <1>1, <2>2
    <2> QED BY <2>1, <2>2, <2>3
  <1>5. \A h \in handoff' : h.rev <= conn'.rev /\ <<"reobserve", h.rev>> \notin DOMAIN tasks'
    <2>1. \A h \in handoff : h.rev <= conn'.rev
      BY <1>4
    <2>2. r.rev <= conn'.rev
      BY <1>0, <1>1
    <2> QED BY <1>1, <1>3, <1>4, <2>1, <2>2
  <1>6. \A g, h \in handoff' : g.rev = h.rev => g = h
    <2>1. \A g, h \in handoff : g.rev = h.rev => g = h
      BY DEF Connector!ReportsFresh
    <2>2. ASSUME NEW g \in handoff', NEW h \in handoff', g.rev = h.rev
          PROVE  g = h
      <3>1. g \in handoff \/ g = r
        BY <1>1
      <3>2. h \in handoff \/ h = r
        BY <1>1
      <3> QED BY <1>4, <2>1, <2>2, <3>1, <3>2, Zenon
    <2> QED BY <2>2
  <1> QED BY <1>0, <1>2, <1>5, <1>6 DEF Connector!ReportsFresh

\* A report of an inspected baseline is awaited while there is something to change.
LEMMA TopoReportAwaited ==
  ASSUME Connector!TypeOK, Connector!TypeOK', OwnershipKept, NEW key, NEW ready, NEW insp, Reported(key, ready, insp),
         policy' = policy, conn'.marker = Connector!NoDef, conn'.base \in [Pipelines -> Nat],
         conn'.state \in {"degraded", "provisioning", "ready"}
  PROVE  Connector!ChangeOpen' /\ Connector!BaseClear'
  <1>1. ~Connector!Marked(conn)'
    BY DEF Connector!Marked
  <1>2. Connector!BaseClear'
    BY <1>1 DEF Connector!BaseClear
  <1>3. ASSUME Connector!Changes', conn'.policy = policy'
        PROVE  \E h \in handoff' : Connector!Awaited(h)'
    <2>1. PICK h : h \in handoff' /\ h.rev = conn.rev + 1 /\ h.policy = policy
      BY DEF Reported
    <2>2. PICK t \in Pipelines : TRUE
      BY <1>3 DEF Connector!Changes, Connector!Proposals, Connector!TypeOK, Connector!Manifests
    <2>3. conn'.base # Connector!NoDef
      BY <2>2 DEF Connector!NoDef
    <2>4. Connector!Awaited(h)'
      BY <1>3, <2>1, <2>3 DEF Connector!Awaited, Connector!Evidence, OwnershipKept
    <2> QED BY <2>1, <2>4
  <1> QED BY <1>1, <1>2, <1>3, Zenon DEF Connector!ChangeOpen

\* The outcomes of a worker's step.
LEMMA TopoReleasedIdle ==
  ASSUME Connector!TypeOK, Connector!WorkHeld, NEW w \in Provisioners, wk[w].held, NEW s, Connector!Settle(w, s), Connector!Become(w, Connector!Idle),
         conn'.rev = conn.rev \/ conn'.rev = conn.rev + 1
  PROVE  Connector!WorkHeld' /\ wk[w].key \in DOMAIN tasks /\ tasks'[wk[w].key] = s /\ DOMAIN tasks' = DOMAIN tasks
  <1>1. PICK r : r = Connector!Idle
    OBVIOUS
  <1>2. r.held = FALSE /\ r.seen = 0
    BY <1>1, TopoIdle
  <1>3. \A v \in Provisioners : wk'[v] = IF v = w THEN r ELSE wk[v]
    BY <1>1 DEF Connector!Become, Connector!TypeOK
  <1>4. OthersAs(w) /\ ~wk'[w].held /\ wk'[w].seen \in Nat /\ wk'[w].seen <= conn.rev
    BY <1>2, <1>3, TopoMembers DEF OthersAs
  <1> QED BY <1>4, TopoReleased

\* A worker that saved moves on with its work.
LEMMA TopoMovedOn ==
  ASSUME Connector!TypeOK, Connector!WorkHeld, NEW w \in Provisioners, wk[w].held, tasks' = tasks, OthersAs(w),
         wk'[w].key = wk[w].key, wk'[w].pc # "idle", conn'.rev = conn.rev \/ conn'.rev = conn.rev + 1,
         wk'[w].seen = wk[w].seen \/ wk'[w].seen = conn'.rev
  PROVE  Connector!WorkHeld'
  <1>1. PICK n \in Nat : n = conn.rev
    BY TopoMembers
  <1>2. \A v \in Provisioners : wk[v].seen \in Nat /\ wk[v].seen <= n
    BY <1>1, TopoMembers DEF Connector!WorkHeld
  <1>3. \A v \in Provisioners : wk'[v].seen <= conn'.rev
    BY <1>1, <1>2 DEF OthersAs
  <1>4. HeldKept
    BY <1>3 DEF HeldKept, OthersAs, Connector!WorkHeld
  <1> QED BY <1>4, TopoHeldKept

LEMMA TopoFinishing ==
  ASSUME Connector!TypeOK, Connector!WorkHeld, NEW w \in Provisioners, wk[w].held, tasks' = tasks,
         wk' = [wk EXCEPT ![w] = [wk[w] EXCEPT !.pc = "finish", !.pol = policy]], conn'.rev = conn.rev + 1
  PROVE  Connector!WorkHeld'
  <1>1. PICK r : r = [wk[w] EXCEPT !.pc = "finish", !.pol = policy]
    OBVIOUS
  <1>2. r.pc = "finish" /\ r.key = wk[w].key /\ r.seen = wk[w].seen
    BY <1>1, TopoMembers DEF Connector!Sessions
  <1>3. \A v \in Provisioners : wk'[v] = IF v = w THEN r ELSE wk[v]
    BY <1>1 DEF Connector!TypeOK
  <1> QED BY <1>2, <1>3, TopoMovedOn DEF OthersAs

LEMMA TopoSaveWatched ==
  ASSUME Connector!TypeOK, Connector!TypeOK', Watch, NEW w \in Provisioners, WorkerSave(w)
  PROVE  Watch'
  <1>0. /\ wk[w].held /\ policy' = policy /\ conn.rev \in Nat
        /\ Connector!BaseClear /\ Connector!WorkHeld /\ Connector!ReportsFresh /\ Connector!ChangeOpen
    BY TopoMembers DEF WorkerSave, Watch, Connector!admissionVars
  <1>1. CASE Connector!Defer(w)
    <2>1. conn' = conn /\ handoff' = handoff /\ Connector!Settle(w, "waiting") /\ Connector!Become(w, Connector!Idle)
      BY <1>1 DEF Connector!Defer, Connector!manifestVars
    <2>2. Connector!WorkHeld' /\ wk[w].key \in DOMAIN tasks /\ tasks'[wk[w].key] = "waiting" /\ DOMAIN tasks' = DOMAIN tasks
      BY <1>0, <2>1, TopoReleasedIdle
    <2>3. Connector!ReportsFresh'
      BY <1>0, <2>1, <2>2, TopoFreshKept DEF Connector!ReportsFresh
    <2>4. Connector!ChangeOpen'
      BY <2>2, TopoOpened
    <2>5. Connector!BaseClear'
      BY <1>0, <2>1 DEF Connector!BaseClear, Connector!Marked
    <2> QED BY <2>2, <2>3, <2>4, <2>5 DEF Watch
  <1>2. CASE Connector!Block(w)
    <2>1. /\ OwnershipKept /\ Reported(wk[w].key, FALSE, "none") /\ conn'.state = "blocked" /\ conn'.base = Connector!NoDef
          /\ wk' = [wk EXCEPT ![w] = [wk[w] EXCEPT !.pc = "finish", !.pol = policy]] /\ tasks' = tasks
      BY <1>2, TopoBlock
    <2>2. Connector!WorkHeld'
      BY <1>0, <2>1, TopoFinishing DEF OwnershipKept
    <2>3. Connector!ReportsFresh'
      BY <1>0, <2>1, TopoFreshReported
    <2>4. Connector!ChangeOpen' /\ Connector!BaseClear'
      BY <2>1 DEF Connector!ChangeOpen, Connector!BaseClear
    <2> QED BY <2>2, <2>3, <2>4 DEF Watch
  <1>3. CASE VerifiedStep(w)
    <2>1. PICK obs \in [Pipelines -> Nat] : Connector!Verified(w, obs)
      BY <1>3 DEF VerifiedStep
    <2>2. PICK ready : Reported(wk[w].key, ready, "none")
      BY <2>1, TopoVerified
    <2>3. /\ OwnershipKept /\ conn'.base = obs /\ conn'.marker = Connector!NoDef
          /\ conn'.state \in {"degraded", "provisioning", "ready"}
          /\ wk' = [wk EXCEPT ![w] = [wk[w] EXCEPT !.pc = "finish", !.pol = policy]] /\ tasks' = tasks
      BY <2>1, TopoVerified
    <2>4. Connector!WorkHeld'
      BY <1>0, <2>3, TopoFinishing DEF OwnershipKept
    <2>5. Connector!ReportsFresh'
      BY <1>0, <2>2, <2>3, TopoFreshReported
    <2>6. Connector!ChangeOpen' /\ Connector!BaseClear'
      BY <1>0, <2>2, <2>3, TopoReportAwaited
    <2> QED BY <2>4, <2>5, <2>6 DEF Watch
  <1>4. CASE RestoreFinish(w)
    <2>1. /\ Connector!Report(w, Connector!Restored(w), FALSE, "fresh") /\ wk[w].obs \in [Pipelines -> Nat] /\ tasks' = tasks
          /\ wk' = [wk EXCEPT ![w] = [wk[w] EXCEPT !.pc = "finish", !.pol = policy]]
      BY <1>4 DEF RestoreFinish, Connector!ReportAndFinish, Connector!Become
    <2>2. /\ OwnershipKept /\ conn'.state = "degraded" /\ conn'.base = wk[w].obs /\ conn'.marker = Connector!NoDef
          /\ Reported(wk[w].key, FALSE, "fresh")
      BY <2>1, TopoRestored DEF RestoredBy
    <2>3. Connector!WorkHeld'
      BY <1>0, <2>1, <2>2, TopoFinishing DEF OwnershipKept
    <2>4. Connector!ReportsFresh'
      BY <1>0, <2>1, <2>2, TopoFreshReported
    <2>5. Connector!ChangeOpen' /\ Connector!BaseClear'
      BY <1>0, <2>1, <2>2, TopoReportAwaited
    <2> QED BY <2>3, <2>4, <2>5 DEF Watch
  <1>5. CASE RestoreDefer(w)
    <2>1. /\ Connector!Report(w, Connector!Restored(w), FALSE, "none") /\ wk[w].obs \in [Pipelines -> Nat]
          /\ Connector!Settle(w, "waiting") /\ Connector!Become(w, Connector!Idle)
      BY <1>5 DEF RestoreDefer, Connector!ReportAndDefer
    <2>2. /\ OwnershipKept /\ conn'.state = "degraded" /\ conn'.base = wk[w].obs /\ conn'.marker = Connector!NoDef
          /\ Reported(wk[w].key, FALSE, "none")
      BY <2>1, TopoRestored DEF RestoredBy
    <2>3. Connector!WorkHeld' /\ DOMAIN tasks' = DOMAIN tasks
      BY <1>0, <2>1, <2>2, TopoReleasedIdle DEF OwnershipKept
    <2>4. Connector!ReportsFresh'
      BY <1>0, <2>2, <2>3, TopoFreshReported
    <2>5. Connector!ChangeOpen' /\ Connector!BaseClear'
      BY <1>0, <2>1, <2>2, TopoReportAwaited
    <2> QED BY <2>3, <2>4, <2>5 DEF Watch
  <1>6. CASE Intended(w)
    <2>1. /\ OwnershipKept /\ Reported(wk[w].key, FALSE, "none") /\ conn'.base = Connector!NoDef
          /\ wk' = [wk EXCEPT ![w] = [wk[w] EXCEPT !.pc = "recheck", !.seen = conn.rev + 1]] /\ tasks' = tasks
      BY <1>6, TopoSaveIntent DEF Intended
    <2>2. PICK r : r = [wk[w] EXCEPT !.pc = "recheck", !.seen = conn.rev + 1]
      OBVIOUS
    <2>3. r.pc = "recheck" /\ r.key = wk[w].key /\ r.seen = conn'.rev /\ conn'.rev = conn.rev + 1 /\ r.held
      BY <1>0, <2>1, <2>2, TopoMembers DEF Connector!Sessions, OwnershipKept
    <2>4. \A v \in Provisioners : wk'[v] = IF v = w THEN r ELSE wk[v]
      BY <2>1, <2>2 DEF Connector!TypeOK
    <2>5. Connector!WorkHeld'
      BY <1>0, <2>1, <2>3, <2>4, TopoMovedOn DEF OthersAs
    <2>6. Connector!ReportsFresh'
      BY <1>0, <2>1, TopoFreshReported
    <2>7. Connector!BaseClear'
      BY <2>1 DEF Connector!BaseClear
    <2>8. Connector!ChangeOpen'
      <3>1. PICK k : k = wk[w].key
        OBVIOUS
      <3>2. k \in DOMAIN tasks' /\ tasks'[k] = "leased" /\ \A v \in Provisioners : wk[v].held /\ wk[v].key = k => v = w
        BY <1>0, <2>1, <3>1 DEF Connector!WorkHeld
      <3>3. Connector!Open(k)'
        BY <2>3, <2>4, <3>1, <3>2 DEF Connector!Open
      <3>4. \E j \in DOMAIN tasks' : Connector!Open(j)'
        BY <3>2, <3>3
      <3> QED BY <3>4, Zenon DEF Connector!ChangeOpen
    <2> QED BY <2>5, <2>6, <2>7, <2>8 DEF Watch
  <1>7. CASE Acked(w)
    <2>1. /\ Connector!Report(w, [conn EXCEPT !.op = wk[w].op], FALSE, "none")
          /\ Connector!Settle(w, "waiting") /\ Connector!Become(w, Connector!Idle)
      BY <1>7 DEF Acked, Connector!ReportAndDefer
    <2>2. /\ OwnershipKept /\ conn'.state = conn.state /\ conn'.base = conn.base /\ conn'.marker = conn.marker
          /\ Reported(wk[w].key, FALSE, "none")
      BY <2>1, TopoAcknowledged
    <2>3. /\ Connector!WorkHeld' /\ DOMAIN tasks' = DOMAIN tasks /\ wk[w].key \in DOMAIN tasks
          /\ tasks'[wk[w].key] = "waiting"
      BY <1>0, <2>1, <2>2, TopoReleasedIdle DEF OwnershipKept
    <2>4. Connector!ReportsFresh'
      BY <1>0, <2>2, <2>3, TopoFreshReported
    <2>5. Connector!ChangeOpen'
      BY <2>3, TopoOpened
    <2>6. Connector!BaseClear'
      BY <1>0, <2>2 DEF Connector!BaseClear, Connector!Marked
    <2> QED BY <2>3, <2>4, <2>5, <2>6 DEF Watch
  <1>8. CASE Sent(w)
    <2>1. /\ conn' = conn /\ handoff' = handoff /\ tasks' = tasks
          /\ wk' = [wk EXCEPT ![w] = [wk[w] EXCEPT !.pc = "post", !.def = conn.marker]]
      BY <1>8 DEF Sent, Connector!manifestVars
    <2>2. PICK r : r = [wk[w] EXCEPT !.pc = "post", !.def = conn.marker]
      OBVIOUS
    <2>3. r.pc = "post" /\ r.key = wk[w].key /\ r.seen = wk[w].seen
      BY <2>2, TopoMembers DEF Connector!Sessions
    <2>4. \A v \in Provisioners : wk'[v] = IF v = w THEN r ELSE wk[v]
      BY <2>1, <2>2 DEF Connector!TypeOK
    <2>5. Connector!WorkHeld'
      BY <1>0, <2>1, <2>3, <2>4, TopoMovedOn DEF OthersAs
    <2>6. Connector!ReportsFresh'
      BY <1>0, <2>1, TopoFreshKept DEF Connector!ReportsFresh
    <2>7. NobodyFinishes
      BY <2>3, <2>4 DEF NobodyFinishes
    <2>8. Connector!ChangeOpen'
      BY <1>0, <2>1, <2>7, TopoOpenKept
    <2>9. Connector!BaseClear'
      BY <1>0, <2>1 DEF Connector!BaseClear, Connector!Marked
    <2> QED BY <2>5, <2>6, <2>8, <2>9 DEF Watch
  <1> QED BY <1>1, <1>2, <1>3, <1>4, <1>5, <1>6, <1>7, <1>8 DEF WorkerSave

\* The worker's other steps leave the manifest and the reports.
LEMMA TopoWorkerWatched ==
  ASSUME Connector!TypeOK, Connector!TypeOK', Watch, NEW w \in Provisioners,
         \/ \E k \in DOMAIN tasks : Connector!Inspect(w, k)
         \/ Connector!Post(w) \/ Connector!PostUncertain(w) \/ Connector!Finish(w) \/ Connector!LeaseExpires(w) \/ Connector!LeaseLost(w)
  PROVE  Watch'
  <1>0. /\ conn' = conn /\ handoff' = handoff /\ policy' = policy /\ conn.rev \in Nat
        /\ Connector!BaseClear /\ Connector!WorkHeld /\ Connector!ReportsFresh /\ Connector!ChangeOpen
    BY TopoMembers DEF Watch, Connector!Inspect, Connector!Post, Connector!PostUncertain, Connector!Finish, Connector!LeaseExpires, Connector!LeaseLost,
       Connector!admissionVars, Connector!manifestVars
  <1>1. Connector!BaseClear'
    BY <1>0 DEF Connector!BaseClear, Connector!Marked
  <1>2. ASSUME DOMAIN tasks' = DOMAIN tasks
        PROVE  Connector!ReportsFresh'
    BY <1>0, <1>2, TopoFreshKept DEF Connector!ReportsFresh
  <1>3. PICK g \in Connector!Sessions : g = wk[w]
    BY TopoMembers
  <1>4. PICK i \in Connector!Sessions : i = Connector!Idle /\ i.held = FALSE /\ i.seen = 0 /\ i.pc = "idle"
    BY TopoIdle
  <1>5. ASSUME NEW r, wk' = [wk EXCEPT ![w] = r]
        PROVE  \A v \in Provisioners : wk'[v] = IF v = w THEN r ELSE wk[v]
    BY <1>5 DEF Connector!TypeOK
  <1>6. \A v \in Provisioners : wk[v].seen <= conn'.rev
    BY <1>0 DEF Connector!WorkHeld
  <1>7. CASE \E k \in DOMAIN tasks : Connector!Inspect(w, k)
    <2>1. PICK k \in DOMAIN tasks : Connector!Inspect(w, k)
      BY <1>7
    <2>2. PICK s \in {"leased", "waiting"} : tasks' = [tasks EXCEPT ![k] = s]
      BY <2>1 DEF Connector!Inspect
    <2>3. /\ DOMAIN tasks' = DOMAIN tasks /\ tasks'[k] = s
          /\ \A j \in DOMAIN tasks \ {k} : tasks'[j] = tasks[j]
      BY <2>1, <2>2 DEF Connector!TypeOK
    <2>4. tasks[k] \in {"queued", "waiting"} /\ wk[w].pc = "idle" /\ ~wk[w].held
      BY <1>0, <2>1 DEF Connector!Inspect, Connector!WorkHeld
    <2>5. \A v \in Provisioners : wk[v].held => wk[v].key # k
      BY <1>0, <2>4 DEF Connector!WorkHeld
    <2>6. \/ Connector!Become(w, Connector!Idle)
          \/ /\ Connector!Become(w, [Connector!Idle EXCEPT !.pc = "decide", !.key = k, !.held = TRUE, !.seen = conn.rev, !.obs = definition])
             /\ s = "leased"
      <3>1. PICK running : running = (Connector!Marked(conn) /\ conn.op # 0 /\ changes[conn.op] = "running")
        OBVIOUS
      <3>2. /\ tasks' = [tasks EXCEPT ![k] = IF running THEN "waiting" ELSE "leased"]
            /\ Connector!Become(w, IF running THEN Connector!Idle
                          ELSE [Connector!Idle EXCEPT !.pc = "decide", !.key = k, !.held = TRUE,
                                             !.seen = conn.rev, !.obs = definition])
        BY <2>1, <3>1 DEF Connector!Inspect
      <3>3. tasks'[k] = IF running THEN "waiting" ELSE "leased"
        BY <3>2 DEF Connector!TypeOK
      <3> QED BY <2>3, <3>2, <3>3
    <2>7. PICK r : /\ wk' = [wk EXCEPT ![w] = r] /\ r.pc # "finish" /\ r.seen <= conn'.rev
                   /\ r.held => r.key = k /\ r.pc # "idle" /\ s = "leased"
      <3>1. PICK d : d = [i EXCEPT !.pc = "decide", !.key = k, !.held = TRUE, !.seen = conn.rev, !.obs = definition]
        OBVIOUS
      <3>2. d.pc = "decide" /\ d.key = k /\ d.seen = conn.rev
        BY <1>4, <3>1 DEF Connector!Sessions
      <3>3. CASE Connector!Become(w, Connector!Idle)
        <4>1. wk' = [wk EXCEPT ![w] = i]
          BY <1>4, <3>3 DEF Connector!Become
        <4>2. i.seen <= conn'.rev
          BY <1>0, <1>4
        <4> QED BY <1>4, <4>1, <4>2
      <3>4. CASE /\ Connector!Become(w, [Connector!Idle EXCEPT !.pc = "decide", !.key = k, !.held = TRUE, !.seen = conn.rev, !.obs = definition])
                 /\ s = "leased"
        <4>1. wk' = [wk EXCEPT ![w] = d]
          BY <1>4, <3>1, <3>4 DEF Connector!Become
        <4>2. d.seen <= conn'.rev
          BY <1>0, <3>2
        <4> QED BY <3>2, <3>4, <4>1, <4>2
      <3> QED BY <2>6, <3>3, <3>4
    <2>8. \A v \in Provisioners : wk'[v] = IF v = w THEN r ELSE wk[v]
      BY <1>5, <2>7
    <2>9. Connector!WorkHeld'
      <3>1. \A v \in Provisioners : wk'[v].held => /\ wk'[v].pc # "idle" /\ wk'[v].key \in DOMAIN tasks'
                                                   /\ tasks'[wk'[v].key] = "leased"
        BY <1>0, <2>3, <2>5, <2>7, <2>8 DEF Connector!WorkHeld
      <3>2. \A v, u \in Provisioners : wk'[v].held /\ wk'[u].held /\ wk'[v].key = wk'[u].key => v = u
        BY <1>0, <2>5, <2>7, <2>8 DEF Connector!WorkHeld
      <3>3. \A v \in Provisioners : wk'[v].seen <= conn'.rev
        BY <1>6, <2>7, <2>8
      <3> QED BY <3>1, <3>2, <3>3 DEF Connector!WorkHeld
    <2>10. NobodyFinishes
      BY <2>7, <2>8 DEF NobodyFinishes
    <2>11. Connector!ChangeOpen'
      BY <1>0, <2>3, <2>10, TopoOpenKept
    <2> QED BY <1>1, <1>2, <2>3, <2>9, <2>11 DEF Watch
  <1>8. ASSUME NEW r, wk' = [wk EXCEPT ![w] = r], tasks' = tasks, r.pc # "finish", r.seen <= conn'.rev,
               r.held => g.held /\ r.key = g.key /\ r.pc # "idle"
        PROVE  Watch'
    <2>1. \A v \in Provisioners : wk'[v] = IF v = w THEN r ELSE wk[v]
      BY <1>5, <1>8
    <2>2. HeldKept
      BY <1>0, <1>3, <1>6, <1>8, <2>1 DEF HeldKept, Connector!WorkHeld
    <2>3. NobodyFinishes
      BY <1>8, <2>1 DEF NobodyFinishes
    <2>4. Connector!ChangeOpen'
      BY <1>0, <1>8, <2>3, TopoOpenKept
    <2> QED BY <1>0, <1>1, <1>2, <1>8, <2>2, <2>4, TopoHeldKept DEF Watch
  <1>9. CASE Connector!Post(w)
    <2>1. PICK r : /\ wk' = [wk EXCEPT ![w] = r] /\ r.pc \in {"reinspect", "ack"}
                   /\ r.seen = g.seen /\ r.held = g.held /\ r.key = g.key
      <3>1. PICK a : a = [g EXCEPT !.pc = "reinspect"]
        OBVIOUS
      <3>2. a.pc = "reinspect" /\ a.seen = g.seen /\ a.held = g.held /\ a.key = g.key
        BY <1>3, <3>1 DEF Connector!Sessions
      <3>3. PICK b : b = [g EXCEPT !.pc = "ack", !.op = Len(changes) + 1]
        OBVIOUS
      <3>4. b.pc = "ack" /\ b.seen = g.seen /\ b.held = g.held /\ b.key = g.key
        BY <1>3, <3>3 DEF Connector!Sessions
      <3>5. wk' = [wk EXCEPT ![w] = a] \/ wk' = [wk EXCEPT ![w] = b]
        BY <1>3, <1>9, <3>1, <3>3 DEF Connector!Post, Connector!Become
      <3> QED BY <3>2, <3>4, <3>5
    <2>2. tasks' = tasks
      BY <1>9 DEF Connector!Post
    <2> QED BY <1>3, <1>6, <1>8, <2>1, <2>2
  <1>10. ASSUME Connector!Become(w, Connector!Idle), tasks' = tasks
         PROVE  Watch'
    <2>1. wk' = [wk EXCEPT ![w] = i]
      BY <1>4, <1>10 DEF Connector!Become
    <2>2. i.seen <= conn'.rev
      BY <1>0, <1>4
    <2> QED BY <1>4, <1>8, <1>10, <2>1, <2>2
  <1>11. ASSUME wk[w].held, Connector!Become(w, Connector!Idle), Connector!Settle(w, "waiting")
         PROVE  Watch'
    <2>1. Connector!WorkHeld' /\ wk[w].key \in DOMAIN tasks /\ tasks'[wk[w].key] = "waiting" /\ DOMAIN tasks' = DOMAIN tasks
      BY <1>0, <1>11, TopoReleasedIdle
    <2>2. Connector!ChangeOpen'
      BY <2>1, TopoOpened
    <2> QED BY <1>1, <1>2, <2>1, <2>2 DEF Watch
  <1>12. CASE Connector!PostUncertain(w)
    BY <1>10, <1>11, <1>12 DEF Connector!PostUncertain
  <1>13. CASE Connector!LeaseLost(w)
    BY <1>10, <1>13 DEF Connector!LeaseLost
  <1>14. CASE Connector!LeaseExpires(w)
    <2>1. wk[w].held /\ Connector!Settle(w, "waiting") /\ Connector!Become(w, [wk[w] EXCEPT !.held = FALSE])
      BY <1>14 DEF Connector!LeaseExpires
    <2>2. PICK r : r = [g EXCEPT !.held = FALSE]
      OBVIOUS
    <2>3. r.held = FALSE /\ r.seen = g.seen
      BY <1>3, <2>2 DEF Connector!Sessions
    <2>4. \A v \in Provisioners : wk'[v] = IF v = w THEN r ELSE wk[v]
      BY <1>3, <1>5, <2>1, <2>2 DEF Connector!Become
    <2>5. OthersAs(w) /\ ~wk'[w].held /\ wk'[w].seen \in Nat /\ wk'[w].seen <= conn.rev
      BY <1>0, <1>3, <1>6, <2>3, <2>4 DEF OthersAs, Connector!Sessions
    <2>6. Connector!WorkHeld' /\ wk[w].key \in DOMAIN tasks /\ tasks'[wk[w].key] = "waiting" /\ DOMAIN tasks' = DOMAIN tasks
      BY <1>0, <2>1, <2>5, TopoReleased
    <2>7. Connector!ChangeOpen'
      BY <2>6, TopoOpened
    <2> QED BY <1>1, <1>2, <2>6, <2>7 DEF Watch
  <1>15. CASE Connector!Finish(w)
    <2>1. wk[w].held /\ wk[w].pc = "finish" /\ Connector!Become(w, Connector!Idle)
      BY <1>15 DEF Connector!Finish
    <2>2. CASE wk[w].pol # policy
      BY <1>11, <1>15, <2>1, <2>2 DEF Connector!Finish
    <2>3. CASE wk[w].pol = policy
      <3>1. PICK k : k = wk[w].key
        OBVIOUS
      <3>2. Connector!WorkHeld' /\ k \in DOMAIN tasks /\ DOMAIN tasks' = DOMAIN tasks
        BY <1>0, <1>15, <2>1, <2>3, <3>1, TopoReleasedIdle DEF Connector!Finish
      <3>3. \A j \in DOMAIN tasks \ {k} : tasks'[j] = tasks[j]
        BY <1>15, <3>1 DEF Connector!Finish, Connector!Settle, Connector!TypeOK
      <3>4. ~Connector!Open(k)
        BY <2>1, <2>3, <3>1 DEF Connector!Open
      <3>5. \A v \in Provisioners : wk'[v] = IF v = w THEN i ELSE wk[v]
        <4>1. wk' = [wk EXCEPT ![w] = i]
          BY <1>4, <2>1 DEF Connector!Become
        <4> QED BY <1>5, <4>1
      <3>6. Connector!ChangeOpen'
        <4> SUFFICES ASSUME (Connector!Changes \/ Connector!Marked(conn))', conn'.state # "blocked", conn'.policy = policy'
                     PROVE  (\E h \in handoff' : Connector!Awaited(h)') \/ \E j \in DOMAIN tasks' : Connector!Open(j)'
          BY Zenon DEF Connector!ChangeOpen
        <4>1. (\E h \in handoff : Connector!Awaited(h)) \/ \E j \in DOMAIN tasks : Connector!Open(j)
          BY <1>0 DEF Connector!ChangeOpen, Connector!Changes, Connector!Proposals, Connector!Marked
        <4>2. CASE \E h \in handoff : Connector!Awaited(h)
          BY <1>0, <4>2 DEF Connector!Awaited, Connector!Evidence, Connector!Changes, Connector!Proposals
        <4>3. ASSUME NEW j \in DOMAIN tasks, Connector!Open(j)
              PROVE  j \in DOMAIN tasks' /\ Connector!Open(j)'
          <5>1. j # k
            BY <3>4, <4>3
          <5> QED BY <1>0, <1>4, <3>2, <3>3, <3>5, <4>3, <5>1 DEF Connector!Open
        <4> QED BY <4>1, <4>2, <4>3
      <3> QED BY <1>1, <1>2, <3>2, <3>6 DEF Watch
    <2> QED BY <2>2, <2>3
  <1> QED BY <1>7, <1>9, <1>12, <1>13, <1>14, <1>15

\* Steps that leave the manifest, the reports, the workers and the work, or add work.
LEMMA TopoLeftWatched ==
  ASSUME Connector!TypeOK, Connector!TypeOK', Watch, conn' = conn, handoff' = handoff, wk' = wk, policy' = policy,
         \A k \in DOMAIN tasks : k \in DOMAIN tasks' /\ tasks'[k] = tasks[k],
         \A k \in DOMAIN tasks' : k \in DOMAIN tasks \/ k[1] = "scope" \/ (k[1] = "publication" /\ k[2] <= conn.rev)
  PROVE  Watch'
  <1>1. Connector!BaseClear'
    BY DEF Watch, Connector!BaseClear, Connector!Marked
  <1>2. HeldKept /\ NobodyFinishes
    BY DEF Watch, HeldKept, Connector!WorkHeld, NobodyFinishes
  <1>3. Connector!ReportsFresh'
    BY TopoFreshKept DEF Watch, Connector!ReportsFresh
  <1>4. Connector!ChangeOpen'
    BY <1>2, TopoOpenKept DEF Watch
  <1> QED BY <1>1, <1>2, <1>3, <1>4, TopoHeldKept DEF Watch

\* A publication queues the work that brings the service to it.
LEMMA TopoPublishedWatched ==
  ASSUME Connector!TypeOK, Connector!TypeOK', Watch, Published, handoff' \subseteq handoff, wk' = wk, policy' = policy,
         NEW q, tasks' = Connector!Enqueue({PublicationKey}, q),
         \A k \in DOMAIN tasks : k \in DOMAIN q /\ (tasks[k] = "leased" => q[k] = tasks[k]),
         \A k \in DOMAIN q : k \in DOMAIN tasks \/ k[1] = "scope"
  PROVE  Watch'
  <1>0. conn.rev \in Nat /\ conn'.rev = conn.rev + 1 /\ Connector!WorkHeld /\ Connector!BaseClear /\ Connector!ReportsFresh
    BY TopoMembers DEF Published, Watch
  <1>1. PICK p : p = PublicationKey
    OBVIOUS
  <1>2. p[1] = "publication" /\ p[2] = conn.rev + 1
    BY <1>1 DEF PublicationKey
  <1>3. p \notin DOMAIN q
    <2>1. p \notin DOMAIN tasks
      BY <1>0, <1>2 DEF Connector!ReportsFresh
    <2> QED BY <1>2, <2>1
  <1>4. /\ DOMAIN tasks' = DOMAIN q \cup {p} /\ tasks'[p] = "queued"
        /\ \A k \in DOMAIN q : tasks'[k] = q[k]
    BY <1>1, <1>3, TopoEnqueue
  <1>5. HeldKept
    <2> SUFFICES ASSUME NEW v \in Provisioners
                 PROVE  /\ wk[v].seen <= conn'.rev
                        /\ wk[v].held => /\ wk[v].pc # "idle" /\ wk[v].key \in DOMAIN tasks'
                                         /\ tasks'[wk[v].key] = tasks[wk[v].key]
      BY DEF HeldKept
    <2>1. wk[v].seen \in Nat /\ wk[v].seen <= conn.rev
      BY <1>0, TopoMembers DEF Connector!WorkHeld
    <2>2. wk[v].held => wk[v].pc # "idle" /\ wk[v].key \in DOMAIN tasks /\ tasks[wk[v].key] = "leased"
      BY <1>0 DEF Connector!WorkHeld
    <2> QED BY <1>0, <1>4, <2>1, <2>2
  <1>6. Connector!WorkHeld'
    BY <1>0, <1>5, TopoHeldKept
  <1>7. Connector!ChangeOpen'
    BY <1>4, <1>6, TopoOpened
  <1>8. Connector!BaseClear'
    BY <1>0 DEF Published, Connector!BaseClear, Connector!Marked
  <1>9. Connector!ReportsFresh'
    <2>1. conn'.policy <= policy'
      BY TopoMembers DEF Published
    <2>2. \A k \in DOMAIN tasks' : k \in DOMAIN tasks \/ k[1] = "scope" \/ (k[1] = "publication" /\ k[2] <= conn'.rev)
      BY <1>0, <1>2, <1>4
    <2> QED BY <1>0, <2>1, <2>2, TopoFreshKept
  <1> QED BY <1>6, <1>7, <1>8, <1>9 DEF Watch

\* The environment: the administrator, capabilities, deliveries, the service.
LEMMA TopoOutsideWatched ==
  ASSUME Connector!TypeOK, Connector!TypeOK', Watch,
         \/ \E S \in Scopes : Connector!ActivateScope(S)
         \/ \E t \in Pipelines : Connector!Lapse(t) \/ Connector!Deliver(t) \/ Connector!Drift(t)
         \/ \E u \in flight : Connector!ServiceApplies(u) \/ Connector!ServiceFails(u)
  PROVE  Watch'
  <1>0. conn' = conn /\ handoff' = handoff /\ wk' = wk
    BY DEF Connector!ActivateScope, Connector!Lapse, Connector!Deliver, Connector!Drift, Connector!ServiceApplies, Connector!ServiceFails, Connector!HandoffUnchanged, Connector!manifestVars
  <1>1. CASE \/ \E t \in Pipelines : Connector!Lapse(t) \/ Connector!Drift(t)
             \/ \E u \in flight : Connector!ServiceApplies(u) \/ Connector!ServiceFails(u)
    <2>1. policy' = policy /\ tasks' = tasks
      BY <1>1 DEF Connector!Lapse, Connector!Drift, Connector!ServiceApplies, Connector!ServiceFails, Connector!admissionVars
    <2> QED BY <1>0, <2>1, TopoLeftWatched
  <1>2. CASE \E t \in Pipelines : Connector!Deliver(t)
    <2>1. PICK t \in Pipelines : Connector!Deliver(t)
      BY <1>2
    <2>2. policy' = policy
      BY <2>1 DEF Connector!Deliver, Connector!HandoffUnchanged, Connector!admissionVars
    <2>3. PICK p : p = <<"publication", conn.rev>>
      OBVIOUS
    <2>4. tasks' = tasks \/ tasks' = Connector!Enqueue({p}, tasks)
      BY <2>1, <2>3 DEF Connector!Deliver
    <2>5. /\ \A k \in DOMAIN tasks : k \in DOMAIN tasks' /\ tasks'[k] = tasks[k]
          /\ \A k \in DOMAIN tasks' : k \in DOMAIN tasks \/ k = p
      <3>1. CASE tasks' = Connector!Enqueue({p}, tasks)
        BY <3>1 DEF Connector!Enqueue
      <3> QED BY <2>4, <3>1
    <2>6. p[1] = "publication" /\ p[2] <= conn.rev
      BY <2>3, TopoMembers
    <2> QED BY <1>0, <2>2, <2>5, <2>6, TopoLeftWatched
  <1>3. CASE \E S \in Scopes : Connector!ActivateScope(S)
    <2>1. policy' = policy + 1 /\ tasks' = tasks /\ policy \in Nat /\ conn.policy \in Nat /\ conn.policy <= policy
      BY <1>3, TopoMembers DEF Connector!ActivateScope, Watch, Connector!ReportsFresh
    <2>2. Connector!BaseClear' /\ HeldKept
      BY <1>0, <2>1 DEF Watch, Connector!BaseClear, Connector!Marked, HeldKept, Connector!WorkHeld
    <2>3. conn'.policy <= policy' /\ conn'.policy # policy'
      BY <1>0, <2>1
    <2>4. Connector!ReportsFresh'
      BY <1>0, <2>1, <2>3, TopoFreshKept DEF Watch
    <2>5. Connector!ChangeOpen'
      BY <2>3 DEF Connector!ChangeOpen
    <2> QED BY <2>2, <2>4, <2>5, TopoHeldKept DEF Watch
  <1> QED BY <1>1, <1>2, <1>3

\* Publications of admission.
LEMMA TopoAdmissionWatched ==
  ASSUME Connector!TypeOK, Connector!TypeOK', Watch,
         Connector!PublishScope \/ \E t \in Pipelines : Connector!PublishInventory(t) \/ Connector!PublishCapability(t)
  PROVE  Watch'
  <1>1. PICK q \in {tasks, ScopeQueue} : Admitted(q)
    BY TopoAdmission
  <1>2. wk' = wk /\ handoff' = handoff /\ policy' = policy
    BY <1>1 DEF Admitted
  <1>3. PICK p : p = <<"scope", policy>>
    OBVIOUS
  <1>4. /\ \A k \in DOMAIN tasks : k \in DOMAIN q /\ q[k] = tasks[k]
        /\ \A k \in DOMAIN q : k \in DOMAIN tasks \/ k[1] = "scope"
    <2>1. q = tasks \/ q = Connector!Enqueue({p}, tasks)
      BY <1>3 DEF ScopeQueue
    <2>2. /\ \A k \in DOMAIN tasks : k \in DOMAIN q /\ q[k] = tasks[k]
          /\ \A k \in DOMAIN q : k \in DOMAIN tasks \/ k = p
      <3>1. CASE q = Connector!Enqueue({p}, tasks)
        BY <3>1 DEF Connector!Enqueue
      <3> QED BY <2>1, <3>1
    <2>3. p[1] = "scope"
      BY <1>3
    <2> QED BY <2>2, <2>3
  <1>5. CASE PlanKept(q)
    <2>1. conn' = conn /\ tasks' = q
      BY <1>5 DEF PlanKept
    <2> QED BY <1>2, <1>4, <2>1, TopoLeftWatched
  <1>6. CASE PlanPublished(q)
    <2>1. Published /\ tasks' = Connector!Enqueue({PublicationKey}, q)
      BY <1>6 DEF PlanPublished
    <2> QED BY <1>2, <1>4, <2>1, TopoPublishedWatched
  <1> QED BY <1>1, <1>5, <1>6 DEF Admitted

\* The controller's decisions on reports.
LEMMA TopoDecisionWatched ==
  ASSUME Connector!TypeOK, Connector!TypeOK', Watch, NEW h \in handoff,
         \/ Connector!RejectEvidence(h) \/ Connector!BindSources(h) \/ Connector!RestoreSources(h)
         \/ Connector!PublishReady(h) \/ Connector!Accept(h) \/ Connector!ExpireInspection(h)
  PROVE  Watch'
  <1>0. /\ wk' = wk /\ policy' = policy /\ conn.rev \in Nat
        /\ Connector!BaseClear /\ Connector!WorkHeld /\ Connector!ReportsFresh /\ Connector!ChangeOpen
    BY TopoMembers DEF Connector!RejectEvidence, Connector!BindSources, Connector!RestoreSources, Connector!PublishReady, Connector!Accept, Connector!ExpireInspection,
       Connector!HandoffUnchanged, Connector!admissionVars, Watch
  <1>1. NobodyFinishes
    BY <1>0 DEF NobodyFinishes
  <1>2. ASSUME conn' = conn
        PROVE  Connector!BaseClear'
    BY <1>0, <1>2 DEF Connector!BaseClear, Connector!Marked
  <1>3. CASE Connector!RejectEvidence(h)
    <2>1. conn' = conn /\ handoff' = handoff \ {h}
      BY <1>3 DEF Connector!RejectEvidence, Connector!manifestVars
    <2>2. CASE h.policy # policy
      <3>1. tasks' = tasks
        BY <1>3, <2>2 DEF Connector!RejectEvidence
      <3>2. Connector!WorkHeld'
        BY <1>0, <2>1, <3>1, TopoHeldKept DEF HeldKept, Connector!WorkHeld
      <3>3. Connector!ReportsFresh'
        BY <1>0, <2>1, <3>1, TopoFreshKept DEF Connector!ReportsFresh
      <3>4. \A g \in handoff : Connector!Awaited(g) => g \in handoff'
        BY <2>1, <2>2 DEF Connector!Awaited
      <3>5. Connector!ChangeOpen'
        BY <1>0, <1>1, <2>1, <3>1, <3>4, TopoOpenKept
      <3> QED BY <1>2, <2>1, <3>2, <3>3, <3>5 DEF Watch
    <2>3. CASE h.policy = policy
      <3>1. PICK p : p = <<"reobserve", h.rev>>
        OBVIOUS
      <3>2. tasks' = Connector!Enqueue({p}, tasks)
        BY <1>3, <2>3, <3>1 DEF Connector!RejectEvidence
      <3>3. p \notin DOMAIN tasks /\ p[1] = "reobserve" /\ p[2] = h.rev /\ h.rev <= conn.rev
        BY <1>0, <3>1 DEF Connector!ReportsFresh
      <3>4. /\ DOMAIN tasks' = DOMAIN tasks \cup {p} /\ tasks'[p] = "queued"
            /\ \A k \in DOMAIN tasks : tasks'[k] = tasks[k]
        BY <3>2, <3>3 DEF Connector!Enqueue
      <3>5. Connector!WorkHeld'
        BY <1>0, <2>1, <3>4, TopoHeldKept DEF HeldKept, Connector!WorkHeld
      <3>6. Connector!ChangeOpen'
        BY <3>4, <3>5, TopoOpened
      <3>7. Connector!ReportsFresh'
        <4>1. conn'.policy <= policy'
          BY <1>0, <2>1 DEF Connector!ReportsFresh
        <4>2. \A k \in DOMAIN tasks' : k[1] \in {"publication", "reobserve"} => k[2] <= conn'.rev
          BY <1>0, <2>1, <3>3, <3>4 DEF Connector!ReportsFresh
        <4>3. ASSUME NEW g \in handoff'
              PROVE  g.rev <= conn'.rev /\ <<"reobserve", g.rev>> \notin DOMAIN tasks'
          <5>1. g \in handoff /\ g # h
            BY <2>1
          <5>2. g.rev # h.rev /\ g.rev <= conn.rev /\ <<"reobserve", g.rev>> \notin DOMAIN tasks
            BY <1>0, <5>1 DEF Connector!ReportsFresh
          <5>3. <<"reobserve", g.rev>> # p
            BY <3>1, <5>2
          <5> QED BY <2>1, <3>4, <5>2, <5>3
        <4>4. \A f, g \in handoff' : f.rev = g.rev => f = g
          BY <1>0, <2>1 DEF Connector!ReportsFresh
        <4> QED BY <4>1, <4>2, <4>3, <4>4 DEF Connector!ReportsFresh
      <3> QED BY <1>2, <2>1, <3>5, <3>6, <3>7 DEF Watch
    <2> QED BY <2>2, <2>3
  <1>4. CASE Connector!BindSources(h)
    <2>1. Published /\ tasks' = Connector!Enqueue({PublicationKey}, tasks) /\ handoff' \subseteq handoff
      BY <1>4, TopoBind DEF Connector!BindSources
    <2> QED BY <1>0, <2>1, TopoPublishedWatched
  <1>5. CASE Connector!RestoreSources(h)
    <2>1. Published /\ tasks' = Connector!Enqueue({PublicationKey}, RestoredQueue) /\ handoff' \subseteq handoff
      BY <1>5, TopoRestore DEF Connector!RestoreSources
    <2>2. /\ \A k \in DOMAIN tasks : k \in DOMAIN RestoredQueue /\ (tasks[k] = "leased" => RestoredQueue[k] = tasks[k])
          /\ \A k \in DOMAIN RestoredQueue : k \in DOMAIN tasks
      BY DEF RestoredQueue
    <2> QED BY <1>0, <2>1, <2>2, TopoPublishedWatched
  <1>6. CASE Connector!PublishReady(h)
    <2>1. /\ OwnershipKept /\ conn'.base = conn.base /\ conn'.marker = conn.marker /\ conn'.state = "ready"
          /\ tasks' = tasks
      BY <1>6, TopoReady
    <2>2. Connector!ProvenBy(delivered) /\ handoff' \subseteq handoff
      BY <1>6 DEF Connector!PublishReady
    <2>3. PICK t \in delivered : t \in Pipelines
      BY <2>2 DEF Connector!ProvenBy, Connector!TypeOK
    <2>4. conn.base = Connector!DesiredDefinition(conn) /\ ~Connector!Changes
      BY <2>2 DEF Connector!ProvenBy
    <2>5. conn.base[t] # -2
      BY <2>3, <2>4, TopoDesired, TopoMembers
    <2>6. conn.base # Connector!NoDef
      BY <2>3, <2>5 DEF Connector!NoDef
    <2>7. ~Connector!Marked(conn)
      BY <1>0, <2>6 DEF Connector!BaseClear
    <2>8. ~Connector!Changes' /\ ~Connector!Marked(conn)'
      BY <2>1, <2>4, <2>7 DEF Connector!Changes, Connector!Proposals, Connector!Marked, OwnershipKept
    <2>9. Connector!ChangeOpen' /\ Connector!BaseClear'
      BY <2>1, <2>8 DEF Connector!ChangeOpen, Connector!BaseClear
    <2>10. Connector!WorkHeld'
      <3>1. \A v \in Provisioners : wk[v].seen <= conn'.rev
        BY <1>0, <2>1, TopoMembers DEF OwnershipKept, Connector!WorkHeld
      <3> QED BY <1>0, <2>1, <3>1, TopoHeldKept DEF HeldKept, Connector!WorkHeld
    <2>11. Connector!ReportsFresh'
      <3>1. conn'.policy <= policy' /\ conn'.rev = conn.rev + 1
        BY <1>0, <2>1 DEF OwnershipKept, Connector!ReportsFresh
      <3> QED BY <1>0, <2>1, <2>2, <3>1, TopoFreshKept
    <2> QED BY <2>9, <2>10, <2>11 DEF Watch
  <1>7. CASE Connector!Accept(h)
    <2>1. conn' = conn /\ tasks' = tasks /\ handoff' = handoff \ {h} /\ ~(Connector!Evidence /\ Connector!Changes)
      BY <1>7 DEF Connector!Accept, Connector!manifestVars
    <2>2. Connector!WorkHeld'
      BY <1>0, <2>1, TopoHeldKept DEF HeldKept, Connector!WorkHeld
    <2>3. Connector!ReportsFresh'
      BY <1>0, <2>1, TopoFreshKept DEF Connector!ReportsFresh
    <2>4. \A g \in handoff : ~Connector!Awaited(g)
      BY <2>1 DEF Connector!Awaited
    <2>5. Connector!ChangeOpen'
      BY <1>0, <1>1, <2>1, <2>4, TopoOpenKept
    <2> QED BY <1>2, <2>1, <2>2, <2>3, <2>5 DEF Watch
  <1>8. CASE Connector!ExpireInspection(h)
    <2>1. PICK e : e = [h EXCEPT !.insp = "stale"]
      OBVIOUS
    <2>2. conn' = conn /\ tasks' = tasks /\ handoff' = (handoff \ {h}) \cup {e}
      BY <1>8, <2>1 DEF Connector!ExpireInspection, Connector!manifestVars
    <2>3. e.rev = h.rev /\ e.policy = h.policy
      BY <2>1 DEF Connector!TypeOK, Connector!Reports
    <2>4. Connector!WorkHeld'
      BY <1>0, <2>2, TopoHeldKept DEF HeldKept, Connector!WorkHeld
    <2>5. Connector!ReportsFresh'
      <3>1. /\ conn'.policy <= policy'
            /\ \A k \in DOMAIN tasks' : k[1] \in {"publication", "reobserve"} => k[2] <= conn'.rev
        BY <1>0, <2>2 DEF Connector!ReportsFresh
      <3>2. \A g \in handoff' : g.rev <= conn'.rev /\ <<"reobserve", g.rev>> \notin DOMAIN tasks'
        BY <1>0, <2>2, <2>3 DEF Connector!ReportsFresh
      <3>3. \A f, g \in handoff' : f.rev = g.rev => f = g
        BY <1>0, <2>2, <2>3 DEF Connector!ReportsFresh
      <3> QED BY <3>1, <3>2, <3>3 DEF Connector!ReportsFresh
    <2>6. \A g \in handoff : \E f \in handoff' : f.rev = g.rev /\ f.policy = g.policy
      BY <2>2, <2>3
    <2>7. Connector!ChangeOpen'
      BY <1>0, <1>1, <2>2, <2>6, TopoOpenKept
    <2> QED BY <1>2, <2>2, <2>4, <2>5, <2>7 DEF Watch
  <1> QED BY <1>3, <1>4, <1>5, <1>6, <1>7, <1>8

LEMMA TopoWatchNext ==
  ASSUME Connector!TypeOK, Connector!TypeOK', Watch, [Connector!Next]_Connector!vars
  PROVE  Watch'
  <1>1. CASE UNCHANGED Connector!vars
    BY <1>1, TopoLeftWatched DEF Connector!vars, Connector!admissionVars, Connector!manifestVars
  <1>2. CASE Connector!Next
    BY <1>2, TopoOutsideWatched, TopoAdmissionWatched, TopoWorkerWatched, TopoWorkerSave, TopoSaveWatched,
       TopoDecisionWatched DEF Connector!Next
  <1> QED BY <1>1, <1>2

LEMMA TopoWatchInit == Connector!Init => Watch
  <1> SUFFICES ASSUME Connector!Init
               PROVE  Watch
    OBVIOUS
  <1>1. PICK f \in [Pipelines -> Nat] : conn = Connector!Registered(f)
    BY TopoTypesInit DEF Connector!Init, Connector!TypeOK
  <1>2. /\ conn.own = f /\ conn.removing = {} /\ conn.marker = Connector!NoDef
        /\ conn.state = "planned" /\ conn.rev = 1 /\ conn.policy = 1
    BY <1>1 DEF Connector!Registered
  <1>3. \A w \in Provisioners : wk[w].held = FALSE /\ wk[w].seen = 0
    BY TopoIdle DEF Connector!Init
  <1>4. Connector!BaseClear /\ Connector!WorkHeld /\ Connector!ReportsFresh
    BY <1>2, <1>3 DEF Connector!BaseClear, Connector!Marked, Connector!WorkHeld, Connector!ReportsFresh, Connector!Init
  <1>5. Connector!Proposals(conn) = {}
    BY <1>2 DEF Connector!Proposals, Connector!Unbound
  <1>6. ~Connector!Changes /\ ~Connector!Marked(conn)
    BY <1>2, <1>5 DEF Connector!Changes, Connector!Marked
  <1> QED BY <1>4, <1>6 DEF Watch, Connector!ChangeOpen

\* TopologyInv is an invariant of the connector: the manifest, the licence of an
\* update and the work that is left agree in every reachable state, whatever
\* stalls, expires, is lost or is retried.
THEOREM TopologyInvariant == Connector!Spec => []Connector!TopologyInv
  <1>1. Connector!TopologyInv <=> Connector!TypeOK /\ Sound /\ Watch
    BY DEF Connector!TopologyInv, Sound, Watch
  <1>2. Connector!Init => Connector!TopologyInv
    BY <1>1, TopoTypesInit, TopoSoundInit, TopoWatchInit
  <1>3. Connector!TopologyInv /\ [Connector!Next]_Connector!vars => Connector!TopologyInv'
    <2> SUFFICES ASSUME Connector!TopologyInv, [Connector!Next]_Connector!vars
                 PROVE  Connector!TopologyInv'
      OBVIOUS
    <2>1. Connector!TypeOK /\ Sound /\ Watch /\ Connector!BaseClear
      BY <1>1 DEF Watch
    <2>2. Connector!TypeOK'
      BY <2>1, TopoTypesNext
    <2>3. Sound' /\ Watch'
      BY <2>1, <2>2, TopoSoundNext, TopoWatchNext
    <2> QED BY <2>2, <2>3 DEF Connector!TopologyInv, Sound, Watch
  <1> QED BY <1>2, <1>3, PTL DEF Connector!Spec

\* One licence at a time is at most one update that can still arrive.
LEMMA TopoOneUpdate ==
  ASSUME Connector!OneLicence
  PROVE  Connector!Cardinality(flight) + Connector!Cardinality(Connector!Posting) <= 1
  <1>1. ASSUME NEW S, \A x, y \in S : x = y
        PROVE  Cardinality(S) \in {0, 1} /\ (Cardinality(S) = 1 => S # {})
    <2>1. CASE S = {}
      BY <2>1, FS_EmptySet
    <2>2. CASE S # {}
      <3>1. PICK x \in S : S = {x}
        BY <1>1, <2>2
      <3> QED BY <2>2, <3>1, FS_Singleton
    <2> QED BY <2>1, <2>2
  <1>2. Cardinality(flight) \in {0, 1} /\ (Cardinality(flight) = 1 => flight # {})
    BY <1>1 DEF Connector!OneLicence
  <1>3. Cardinality(Connector!Posting) \in {0, 1} /\ (Cardinality(Connector!Posting) = 1 => Connector!Posting # {})
    BY <1>1 DEF Connector!OneLicence
  <1>4. flight = {} \/ Connector!Posting = {}
    BY DEF Connector!OneLicence
  <1>5. Connector!Cardinality(flight) = Cardinality(flight) /\ Connector!Cardinality(Connector!Posting) = Cardinality(Connector!Posting)
    BY TopoFinite
  <1> QED BY <1>2, <1>3, <1>4, <1>5

\* At most one definition update can still reach the Eventstream, and it leaves
\* out no source the controller wants.
THEOREM UpdatesAreSafe == Connector!Spec => []UpdatesSafe
  <1>1. Connector!TopologyInv => UpdatesSafe
    <2> SUFFICES ASSUME Connector!TopologyInv
                 PROVE  Connector!OneUpdateInFlight /\ Connector!InFlightHarmless
      BY DEF UpdatesSafe, Connector!UpdatesSafe
    <2>1. ASSUME ~drifted
          PROVE  Connector!OneLicence /\ Connector!LicenceMarked /\ Connector!MarkerOwned
      BY <2>1 DEF Connector!TopologyInv, Connector!UpdateSound
    <2>2. Connector!OneUpdateInFlight
      BY <2>1, TopoOneUpdate DEF Connector!OneUpdateInFlight, Connector!Posting
    <2>3. ASSUME ~drifted, NEW d \in Connector!Sending, NEW t \in Pipelines, conn.own[t] > 0, t \notin conn.removing
          PROVE  d[t] # 0
      <3>1. d = conn.marker /\ Connector!Underway
        BY <2>1, <2>3 DEF Connector!Sending, Connector!LicenceMarked, Connector!Posting, Connector!Underway
      <3>2. Connector!Marked(conn)
        BY <2>1, <2>3, <3>1 DEF Connector!LicenceMarked
      <3>3. d[t] = conn.own[t]
        BY <2>1, <2>3, <3>1, <3>2 DEF Connector!MarkerOwned
      <3> QED BY <2>3, <3>3
    <2>4. Connector!InFlightHarmless
      BY <2>3, Zenon DEF Connector!InFlightHarmless, Connector!Absent
    <2> QED BY <2>2, <2>4
  <1> QED BY <1>1, TopologyInvariant, PTL

\* The manifest says what is so of the Eventstream, ready means proven, and a
\* change is watched until it is made.
THEOREM ManifestIsTruthful == Connector!Spec => []ManifestTruthful
  <1>1. Connector!TopologyInv => ManifestTruthful
    <2> SUFFICES ASSUME Connector!TopologyInv
                 PROVE  Connector!ChangeWatched
      BY DEF ManifestTruthful, Connector!ManifestTruthful, Connector!TopologyInv
    <2>1. Connector!ChangeOpen
      BY DEF Connector!TopologyInv
    <2> QED BY <2>1 DEF Connector!ChangeWatched, Connector!ChangeOpen, Connector!Open
  <1> QED BY <1>1, TopologyInvariant, PTL
=============================================================================
