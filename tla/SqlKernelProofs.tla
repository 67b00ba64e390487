-------------------------- MODULE SqlKernelProofs --------------------------
(* Safety of the controller's store in Azure SQL for any number of failed  *)
(* runs, executions, retries and policy changes.                           *)
EXTENDS SqlKernel, FiniteSetTheorems, TLAPS

\* Works and attempts belong to each other as their names say.
LEMMA WorkFacts ==
  /\ \A a \in Attempts : /\ SourceWork(a) \in Works /\ VerifyWork(a) \in Works
                         /\ Attempt(SourceWork(a)) = a /\ Attempt(VerifyWork(a)) = a
                         /\ \A b \in Attempts : SourceWork(a) # VerifyWork(b)
                         /\ a[1] \in Sources
  /\ \A w \in Works : /\ Attempt(w) \in Attempts
                      /\ Source(w) = Attempt(w)[1] /\ Source(w) \in Sources
                      /\ w = SourceWork(Attempt(w)) \/ w = VerifyWork(Attempt(w))
  <1>1. \A a \in Attempts : a[1] \in Sources
    BY DEF Attempts
  <1>2. \A a \in Attempts : SourceWork(a) \in Works /\ VerifyWork(a) \in Works
    BY DEF Works, SourceWork, VerifyWork
  <1>3. \A a \in Attempts : Attempt(SourceWork(a)) = a /\ Attempt(VerifyWork(a)) = a
    BY DEF Attempt, SourceWork, VerifyWork
  <1>4. \A a, b \in Attempts : SourceWork(a) # VerifyWork(b)
    BY DEF SourceWork, VerifyWork
  <1>5. \A w \in Works : Attempt(w) \in Attempts /\ Source(w) = Attempt(w)[1]
    BY DEF Works, Attempt, Source
  <1>6. \A w \in Works : w = SourceWork(Attempt(w)) \/ w = VerifyWork(Attempt(w))
    BY DEF Works, Attempt, SourceWork, VerifyWork
  <1> QED BY <1>1, <1>2, <1>3, <1>4, <1>5, <1>6

\* The attempts of a source are numbered from zero.
LEMMA AttemptFacts ==
  /\ \A s \in Sources : <<s, 0>> \in Attempts
  /\ \A a \in Attempts : /\ a[2] \in Nat
                         /\ a[2] > 0 => Predecessor(a) \in Attempts
                         /\ Predecessor(a)[1] = a[1] /\ Predecessor(a)[2] = a[2] - 1
                         /\ a[2] < MaxRetry => Successor(a) \in Attempts
                         /\ Predecessor(Successor(a)) = a
                         /\ Successor(a)[2] > 0
  /\ \A a, b \in Attempts : a[1] = b[1] /\ a[2] = b[2] => a = b
  /\ \A s \in Sources : \A n \in 0 .. MaxRetry : <<s, n>> \in Attempts
  BY KernelAssumption DEF Attempts, Predecessor, Successor

WorkRow == [status: {"absent"} \cup Runnable \cup Ended,
            kind: {"triage", "deferred_retry", "verify_action", "finalize"},
            policy: 0 .. MaxChanges, action: BOOLEAN]
WorkType == [Works -> WorkRow]
SessionType == [pc: {"idle", "claimed", "posting", "acked", "unacked",
                     "throttled", "refused", "recorded", "finalizing"},
                work: Works \cup {None}, own: BOOLEAN]
Rows == [state: {"none", "rejected"} \cup Active \cup Verified,
         known: BOOLEAN, throttled: BOOLEAN, retried: BOOLEAN]

LEMMA EnqueuedFacts ==
  ASSUME TypeOK,
         NEW kind \in {"triage", "deferred_retry", "verify_action", "finalize"},
         NEW act \in BOOLEAN
  PROVE  /\ Enqueued(kind, act) \in WorkRow
         /\ Enqueued(kind, act).status = "queued"
         /\ Enqueued(kind, act).action = act
  BY DEF Enqueued, TypeOK, WorkRow, Runnable, Ended

\* The acknowledgement of a transaction moves only its own session.
LEMMA ReplyFacts ==
  ASSUME TypeOK, NEW c \in Controllers,
         NEW pc \in {"idle", "claimed", "posting", "acked", "unacked",
                     "throttled", "refused", "recorded", "finalizing"},
         Reply(c, pc)
  PROVE  /\ session' \in [Controllers -> SessionType]
         /\ session'[c].pc = pc
         /\ pc # "idle" => session'[c].work = session[c].work /\ session'[c].own = session[c].own
         /\ \A d \in Controllers : d # c => session'[d] = session[d]
  <1>1. session \in [Controllers -> SessionType]
    BY DEF TypeOK, SessionType
  <1>2. CASE pc = "idle"
    <2>1. session' = [session EXCEPT ![c] = Idle]
      BY <1>2 DEF Reply
    <2>2. Idle \in SessionType /\ Idle.pc = "idle"
      BY DEF Idle, SessionType
    <2> QED BY <1>1, <1>2, <2>1, <2>2
  <1>3. CASE pc # "idle"
    <2> DEFINE e == [session[c] EXCEPT !.pc = pc]
    <2>1. session' = [session EXCEPT ![c] = e]
      BY <1>3, <1>1 DEF Reply
    <2>2. e \in SessionType /\ e.pc = pc /\ e.work = session[c].work /\ e.own = session[c].own
      BY <1>1 DEF SessionType
    <2> QED BY <1>1, <1>3, <2>1, <2>2
  <1> QED BY <1>2, <1>3

LEMMA InitKernel == Init => KernelInv
  <1> SUFFICES ASSUME Init PROVE KernelInv
    OBVIOUS
  <1>1. TypeOK
    BY KernelAssumption DEF Init, TypeOK, Absent, Idle, Runnable, Ended, Active, Verified
  <1>2. \A a \in Attempts : /\ action[a].state = "none" /\ ~action[a].known /\ ~action[a].retried
                            /\ posts[a] = 0 /\ remote[a] = "none"
    BY DEF Init
  <1>3. \A w \in Works : work[w].status = "absent" /\ ~work[w].action /\ lease[w] = None
    BY DEF Init, Absent
  <1>4. \A c \in Controllers : session[c].pc = "idle"
    BY DEF Init, Idle
  <1>5. LeasesNamed /\ CompletedIsOver
    BY <1>3 DEF LeasesNamed, CompletedIsOver
  <1>6. OwnerExact
    BY <1>2, NoneAssumption DEF OwnerExact, Active, Init
  <1>7. WorkBacked /\ RetriesLinked
    BY <1>2, <1>3, WorkFacts DEF WorkBacked, RetriesLinked, Active, Verified
  <1>8. OneChain /\ RequestsRecorded
    BY <1>2 DEF OneChain, RequestsRecorded, Verified
  <1>9. SessionsExact /\ OneSubmitter
    BY <1>4 DEF SessionsExact, OneSubmitter, At, Submitting
  <1>10. NothingLater /\ NewestEvidence
    BY DEF Init, NothingLater, NewestEvidence
  <1>11. IsFiniteSet(incident.marked) /\ CountedOnce
    BY FS_EmptySet DEF Init, CountedOnce
  <1> QED BY <1>1, <1>5, <1>6, <1>7, <1>8, <1>9, <1>10, <1>11 DEF KernelInv

-----------------------------------------------------------------------------
(* Steps that leave the actions, the fence and the service alone.          *)

\* A work changes its status and nothing else.
LEMMA StatusFacts ==
  ASSUME TypeOK, NEW w \in Works, NEW st \in Runnable \cup Ended,
         work' = [work EXCEPT ![w].status = st]
  PROVE  /\ work' \in WorkType
         /\ work'[w].status = st /\ work'[w].action = work[w].action
         /\ \A v \in Works : v # w => work'[v] = work[v]
  <1> DEFINE r == [work[w] EXCEPT !.status = st]
  <1>1. work \in WorkType /\ work[w] \in WorkRow
    BY DEF TypeOK, WorkType, WorkRow
  <1>2. r \in WorkRow /\ r.status = st /\ r.action = work[w].action
    BY <1>1 DEF WorkRow
  <1>3. work' = [work EXCEPT ![w] = r]
    BY <1>1
  <1> QED BY <1>1, <1>2, <1>3 DEF WorkType

\* The works keep their actions, and those of open actions keep running.
KeepsWork ==
  /\ work' \in WorkType
  /\ \A w \in Works : work'[w].action = work[w].action
  /\ \A w \in Works : work[w].status # "absent" => work'[w].status # "absent"
  /\ \A w \in Works : work[w].status = "absent" =>
       work'[w].status = "absent" \/ \E s \in Sources : w = SourceWork(<<s, 0>>)
  /\ \A w \in Works :
       work[w].status \in Runnable /\ work[w].action /\ action[Attempt(w)].state \in Active
         => work'[w].status \in Runnable
  /\ \A w \in Works : work[w].status \in Ended => work'[w].status \in Ended

\* A disposition stays, and a new one is told of what is over.
KeepsEnds ==
  /\ \A s \in Sources : disposed[s] # "none" => disposed'[s] = disposed[s]
  /\ \A s \in Sources : disposed'[s] = "no_effect" =>
       \/ disposed[s] = "no_effect"
       \/ NoReservation(s) /\ work'[SourceWork(<<s, 0>>)].status \in Ended
  /\ \A w \in Works : work'[w].status = "completed" =>
       \/ work[w].status = "completed"
       \/ disposed'[Source(w)] # "none" /\ action[Attempt(w)].state \notin Active

\* Sessions end or claim.
QuietSessions == \A d \in Controllers :
  \/ session'[d] = session[d]
  \/ session'[d].pc = "idle"
  \/ session'[d].pc = "claimed" /\ session'[d].work \in Works

KeepsIncident ==
  /\ incident'.used = incident.used
  /\ NewestEvidence' /\ IsFiniteSet(incident'.marked) /\ CountedOnce'

\* Such a step preserves the invariant.
LEMMA QuietStep ==
  ASSUME KernelInv, TypeOK', LeasesNamed', KeepsWork, KeepsEnds, QuietSessions, KeepsIncident,
         UNCHANGED <<action, owner, posts, remote>>
  PROVE  KernelInv'
  <1>1. OwnerExact'
    BY DEF KernelInv, OwnerExact
  <1>2. WorkBacked'
    <2> SUFFICES ASSUME NEW a \in Attempts
                 PROVE  /\ work'[SourceWork(a)].action <=> action[a].state # "none"
                        /\ action[a].state # "none" => work'[SourceWork(a)].status # "absent"
                        /\ action[a].state = "reserved" => work'[SourceWork(a)].status \in Runnable
                        /\ work'[VerifyWork(a)].status # "absent" <=>
                             action[a].state \in {"submitted", "uncertain"} \cup Verified
                        /\ work'[VerifyWork(a)].status # "absent" => work'[VerifyWork(a)].action
                        /\ action[a].state \in {"submitted", "uncertain"} =>
                             work'[VerifyWork(a)].status \in Runnable
      BY DEF WorkBacked
    <2>1. /\ SourceWork(a) \in Works /\ VerifyWork(a) \in Works
          /\ Attempt(SourceWork(a)) = a /\ Attempt(VerifyWork(a)) = a
          /\ \A s \in Sources : VerifyWork(a) # SourceWork(<<s, 0>>)
      BY WorkFacts, AttemptFacts
    <2>2. /\ work[SourceWork(a)].action <=> action[a].state # "none"
          /\ action[a].state # "none" => work[SourceWork(a)].status # "absent"
          /\ action[a].state = "reserved" => work[SourceWork(a)].status \in Runnable
          /\ work[VerifyWork(a)].status # "absent" <=>
               action[a].state \in {"submitted", "uncertain"} \cup Verified
          /\ work[VerifyWork(a)].status # "absent" => work[VerifyWork(a)].action
          /\ action[a].state \in {"submitted", "uncertain"} =>
               work[VerifyWork(a)].status \in Runnable
      BY DEF KernelInv, WorkBacked
    <2>3. action[a].state = "reserved" => work'[SourceWork(a)].status \in Runnable
      BY <2>1, <2>2 DEF KeepsWork, Active
    <2>4. action[a].state \in {"submitted", "uncertain"} =>
            work'[VerifyWork(a)].status \in Runnable
      BY <2>1, <2>2 DEF KeepsWork, Active, Runnable
    <2>5. work'[VerifyWork(a)].status # "absent" <=> work[VerifyWork(a)].status # "absent"
      BY <2>1 DEF KeepsWork
    <2>6. /\ work'[SourceWork(a)].action = work[SourceWork(a)].action
          /\ work'[VerifyWork(a)].action = work[VerifyWork(a)].action
          /\ work[SourceWork(a)].status # "absent" => work'[SourceWork(a)].status # "absent"
      BY <2>1 DEF KeepsWork
    <2> QED BY <2>2, <2>3, <2>4, <2>5, <2>6
  <1>3. RetriesLinked'
    <2> SUFFICES ASSUME NEW a \in Attempts, a[2] > 0, work'[SourceWork(a)].status # "absent"
                 PROVE  action[Predecessor(a)].retried
      BY DEF KernelInv, RetriesLinked
    <2>1. SourceWork(a) \in Works /\ \A s \in Sources : SourceWork(a) # SourceWork(<<s, 0>>)
      BY WorkFacts DEF SourceWork
    <2>2. work[SourceWork(a)].status # "absent"
      BY <2>1 DEF KeepsWork
    <2> QED BY <2>2 DEF KernelInv, RetriesLinked
  <1>4. OneChain' /\ RequestsRecorded'
    BY DEF KernelInv, OneChain, RequestsRecorded, KeepsIncident
  <1>5. SessionsExact'
    <2> SUFFICES ASSUME NEW d \in Controllers, session'[d].pc # "idle"
                 PROVE  /\ session'[d].work \in Works
                        /\ session'[d].pc \in Submitting =>
                             action[Attempt(session'[d].work)].state \notin {"none", "rejected"}
                        /\ session'[d].pc = "posting" => posts[Attempt(session'[d].work)] = 0
                        /\ session'[d].pc \in Submitting \ {"posting"} =>
                             posts[Attempt(session'[d].work)] = 1
                        /\ session'[d].pc \in {"throttled", "refused"} =>
                             remote[Attempt(session'[d].work)] = "none"
      BY DEF SessionsExact, At, WorkOf, AttemptOf, StateOf
    <2>1. CASE session'[d] = session[d]
      BY <2>1 DEF KernelInv, SessionsExact, At, WorkOf, AttemptOf, StateOf
    <2>2. CASE session'[d].pc = "claimed" /\ session'[d].work \in Works
      BY <2>2 DEF Submitting
    <2> QED BY <2>1, <2>2 DEF QuietSessions
  <1>6. OneSubmitter'
    <2>1. \A d \in Controllers : session'[d].pc \in Submitting => session'[d] = session[d]
      BY DEF QuietSessions, Submitting
    <2> QED BY <2>1 DEF KernelInv, OneSubmitter, AttemptOf, WorkOf
  <1>7. NothingLater'
    <2>1. \A s \in Sources : SourceWork(<<s, 0>>) \in Works
      BY WorkFacts, AttemptFacts
    <2> QED BY <2>1 DEF KernelInv, NothingLater, NoReservation, KeepsEnds, KeepsWork
  <1>8. CompletedIsOver'
    BY WorkFacts DEF KernelInv, CompletedIsOver, KeepsEnds
  <1> QED BY <1>1, <1>2, <1>3, <1>4, <1>5, <1>6, <1>7, <1>8 DEF KernelInv, KeepsIncident

\* The works keep what they are attached to when nobody touches them.
LEMMA SameWork ==
  ASSUME TypeOK, UNCHANGED work
  PROVE  KeepsWork
  BY DEF KeepsWork, TypeOK, WorkType, WorkRow

\* A work that may change its status: an open effect keeps a runnable one, and
\* what ended stays ended.
LEMMA StatusKeeps ==
  ASSUME TypeOK, NEW w \in Works, NEW st \in Runnable \cup Ended,
         work' = [work EXCEPT ![w].status = st],
         work[w].status \in Runnable,
         st \in Ended => ~work[w].action \/ action[Attempt(w)].state \notin Active
  PROVE  KeepsWork
  <1>1. work[w].status \notin Ended /\ work[w].status # "absent" /\ st # "absent"
    BY DEF Runnable, Ended
  <1>2. /\ work' \in WorkType
        /\ work'[w].status = st /\ work'[w].action = work[w].action
        /\ \A v \in Works : v # w => work'[v] = work[v]
    BY StatusFacts
  <1> QED BY <1>1, <1>2 DEF KeepsWork

\* Nothing is disposed of, and nothing completes.
LEMMA SameEnds ==
  ASSUME TypeOK, UNCHANGED disposed,
         \A w \in Works : work'[w].status = "completed" => work[w].status = "completed"
  PROVE  KeepsEnds
  BY DEF KeepsEnds

LEMMA SameIncident ==
  ASSUME KernelInv, UNCHANGED incident
  PROVE  KeepsIncident
  BY DEF KernelInv, KeepsIncident, NewestEvidence, CountedOnce

\* The leases of a work end.
LEMMA EndLeasesFacts ==
  ASSUME TypeOK, LeasesNamed, NEW w \in Works, EndLeases(w)
  PROVE  /\ lease' \in [Works -> Controllers \cup {None}]
         /\ target' \in Works \cup {None}
         /\ LeasesNamed'
  <1>1. lease' \in [Works -> Controllers \cup {None}] /\ target' \in Works \cup {None}
    BY DEF TypeOK, EndLeases
  <1>2. \A v \in Works : lease'[v] # None => v # w /\ lease[v] # None /\ target = v
    BY DEF TypeOK, EndLeases, LeasesNamed
  <1> QED BY <1>1, <1>2 DEF LeasesNamed, EndLeases

LEMMA SameLeases ==
  ASSUME LeasesNamed, UNCHANGED <<lease, target>>
  PROVE  LeasesNamed'
  BY DEF LeasesNamed

\* The policy changes.
LEMMA PolicyStep ==
  ASSUME KernelInv, ChangePolicy
  PROVE  KernelInv'
  <1>1. UNCHANGED <<work, lease, target, action, owner, incident, disposed, session, posts, remote>>
    BY DEF ChangePolicy, rows
  <1>2. control' \in [revision: 0 .. MaxChanges, maintenance: BOOLEAN, admitted: BOOLEAN]
    BY KernelAssumption DEF KernelInv, TypeOK, ChangePolicy
  <1>3. TypeOK'
    BY <1>1, <1>2 DEF KernelInv, TypeOK
  <1>4. QuietSessions
    BY <1>1 DEF QuietSessions
  <1> QED BY <1>1, <1>3, <1>4, SameWork, SameEnds, SameIncident, SameLeases, QuietStep
          DEF KernelInv

\* A failed run is published.
LEMMA IngestStep ==
  ASSUME KernelInv, NEW s \in Sources, Ingest(s)
  PROVE  KernelInv'
  <1> DEFINE a == <<s, 0>>
             w == SourceWork(<<s, 0>>)
             r == Enqueued("triage", FALSE)
  <1>1. a \in Attempts /\ w \in Works /\ Attempt(w) = a
    BY WorkFacts, AttemptFacts
  <1>2. /\ work[w].status = "absent"
        /\ work' = [work EXCEPT ![w] = r]
        /\ UNCHANGED <<control, lease, target, action, owner, incident, disposed, session,
                       posts, remote>>
    BY DEF Ingest
  <1>3. r \in WorkRow /\ r.status = "queued" /\ r.action = FALSE
    BY EnqueuedFacts DEF KernelInv
  <1> HIDE DEF r, w
  <1>4. work \in WorkType
    BY DEF KernelInv, TypeOK, WorkType, WorkRow
  <1>5. work' \in WorkType /\ work'[w] = r /\ \A v \in Works : v # w => work'[v] = work[v]
    BY <1>1, <1>2, <1>3, <1>4 DEF WorkType
  <1>6. work[w].action = FALSE
    <2>1. action[a].state = "none"
      BY <1>1, <1>2 DEF KernelInv, WorkBacked, w
    <2>2. work[w].action \in BOOLEAN
      BY <1>1, <1>4 DEF WorkType, WorkRow
    <2> QED BY <2>1, <2>2, <1>1 DEF KernelInv, WorkBacked, w
  <1>7. KeepsWork
    BY <1>1, <1>2, <1>3, <1>5, <1>6 DEF KeepsWork, Runnable, Ended, w
  <1>8. KeepsEnds
    BY <1>2, <1>3, <1>5, SameEnds DEF KernelInv
  <1>9. TypeOK'
    BY <1>2, <1>5 DEF KernelInv, TypeOK, WorkType, WorkRow
  <1>10. QuietSessions
    BY <1>2 DEF QuietSessions
  <1> QED BY <1>2, <1>7, <1>8, <1>9, <1>10, SameIncident, SameLeases, QuietStep DEF KernelInv

\* A lease runs out.
LEMMA ExpiryStep ==
  ASSUME KernelInv, NEW w \in Works, LeaseExpires(w)
  PROVE  KernelInv'
  <1>1. /\ EndLeases(w)
        /\ UNCHANGED <<control, work, action, owner, incident, disposed, session, posts, remote>>
    BY DEF LeaseExpires
  <1>2. /\ lease' \in [Works -> Controllers \cup {None}] /\ target' \in Works \cup {None}
        /\ LeasesNamed'
    BY <1>1, EndLeasesFacts DEF KernelInv
  <1>3. TypeOK'
    BY <1>1, <1>2 DEF KernelInv, TypeOK
  <1>4. QuietSessions
    BY <1>1 DEF QuietSessions
  <1> QED BY <1>1, <1>2, <1>3, <1>4, SameWork, SameEnds, SameIncident, QuietStep DEF KernelInv

\* An execution gives up.
LEMMA AbandonStep ==
  ASSUME KernelInv, NEW c \in Controllers, Abandon(c)
  PROVE  KernelInv'
  <1>1. UNCHANGED <<control, work, lease, target, action, owner, incident, disposed, posts, remote>>
    BY DEF Abandon, rows
  <1>2. /\ session' \in [Controllers -> SessionType]
        /\ session'[c].pc = "idle"
        /\ \A d \in Controllers : d # c => session'[d] = session[d]
    BY ReplyFacts DEF KernelInv, Abandon
  <1>3. TypeOK'
    BY <1>1, <1>2 DEF KernelInv, TypeOK, SessionType
  <1>4. QuietSessions
    BY <1>2 DEF QuietSessions
  <1> QED BY <1>1, <1>3, <1>4, SameWork, SameEnds, SameIncident, SameLeases, QuietStep DEF KernelInv

\* A work is claimed: it keeps its action, and its target was free.
LEMMA ClaimStep ==
  ASSUME KernelInv, NEW c \in Controllers, NEW w \in Works, Claim(c, w)
  PROVE  KernelInv'
  <1> DEFINE r == [work[w] EXCEPT !.status = "leased", !.kind = Promoted(w)]
  <1>1. work \in WorkType /\ work[w] \in WorkRow
    BY DEF KernelInv, TypeOK, WorkType, WorkRow
  <1>2. Promoted(w) \in {"triage", "deferred_retry", "verify_action", "finalize"}
    BY <1>1 DEF Promoted, WorkRow
  <1>3. r \in WorkRow /\ r.status = "leased" /\ r.action = work[w].action
    BY <1>1, <1>2 DEF WorkRow, Runnable
  <1>4. work' = [work EXCEPT ![w] = r]
    BY <1>1 DEF Claim, WorkType
  <1> HIDE DEF r
  <1>5. work' \in WorkType /\ work'[w] = r /\ \A v \in Works : v # w => work'[v] = work[v]
    BY <1>1, <1>3, <1>4 DEF WorkType
  <1>6. work[w].status \in Runnable /\ lease[w] = None /\ target \in {None, w}
    BY DEF Claim, Claimable, TargetFree
  <1>7. UNCHANGED <<control, action, owner, incident, disposed, posts, remote>>
    BY DEF Claim
  <1>8. KeepsWork
    BY <1>3, <1>5, <1>6 DEF KeepsWork, Runnable, Ended
  <1>9. KeepsEnds
    BY <1>3, <1>5, <1>7, SameEnds DEF KernelInv
  <1>10. /\ lease' = [lease EXCEPT ![w] = c] /\ target' = w
         /\ lease' \in [Works -> Controllers \cup {None}]
    BY DEF Claim, TakeLeases, KernelInv, TypeOK
  <1>11. LeasesNamed'
    BY <1>6, <1>10, NoneAssumption DEF KernelInv, TypeOK, LeasesNamed
  <1>12. session' \in [Controllers -> SessionType] /\ QuietSessions
    <2> DEFINE e == [pc |-> "claimed", work |-> w, own |-> FALSE]
    <2>1. session \in [Controllers -> SessionType]
      BY DEF KernelInv, TypeOK, SessionType
    <2>2. session' = [session EXCEPT ![c] = e] \/ session' = session
      BY DEF Claim
    <2>3. e \in SessionType /\ e.pc = "claimed" /\ e.work \in Works
      BY DEF SessionType
    <2> HIDE DEF e
    <2> QED BY <2>1, <2>2, <2>3 DEF QuietSessions
  <1>13. TypeOK'
    BY <1>5, <1>7, <1>10, <1>12 DEF KernelInv, TypeOK, WorkType, WorkRow, SessionType
  <1> QED BY <1>7, <1>8, <1>9, <1>11, <1>12, <1>13, SameIncident, QuietStep DEF KernelInv

\* A linked retry is refused: it has no action.
LEMMA RefuseStep ==
  ASSUME KernelInv, NEW w \in Works, RefuseRetry(w)
  PROVE  KernelInv'
  <1>1. ~work[w].action /\ work[w].status \in Runnable
    BY DEF RefuseRetry, Claimable, Promoted
  <1>2. /\ work' = [work EXCEPT ![w].status = "dispositioned"]
        /\ UNCHANGED <<control, lease, target, action, owner, incident, disposed, session,
                       posts, remote>>
    BY DEF RefuseRetry
  <1>3. "dispositioned" \in Runnable \cup Ended
    BY DEF Ended
  <1>4. KeepsWork
    BY <1>1, <1>2, <1>3, StatusKeeps DEF KernelInv
  <1>5. /\ work' \in WorkType /\ work'[w].status = "dispositioned"
        /\ \A v \in Works : v # w => work'[v] = work[v]
    BY <1>2, <1>3, StatusFacts DEF KernelInv
  <1>6. KeepsEnds
    BY <1>2, <1>5, SameEnds DEF KernelInv
  <1>7. TypeOK'
    BY <1>2, <1>5 DEF KernelInv, TypeOK, WorkType, WorkRow
  <1>8. QuietSessions
    BY <1>2 DEF QuietSessions
  <1> QED BY <1>2, <1>4, <1>6, <1>7, <1>8, SameIncident, SameLeases, QuietStep DEF KernelInv

\* A source without a reservation has at most one work, which has no action.
LEMMA NoEffectWork ==
  ASSUME KernelInv, NEW w \in Works, work[w].status # "absent", NoReservation(Source(w))
  PROVE  w = SourceWork(<<Source(w), 0>>) /\ action[Attempt(w)].state = "none"
  <1> DEFINE a == Attempt(w)
             s == Source(w)
  <1>1. a \in Attempts /\ a[1] = s /\ s \in Sources
    BY WorkFacts
  <1>2. a = <<s, a[2]>> /\ a[2] \in 0 .. MaxRetry
    BY <1>1 DEF Attempts
  <1>3. action[a].state = "none"
    BY <1>2 DEF NoReservation
  <1>4. w # VerifyWork(a)
    BY <1>1, <1>3 DEF KernelInv, WorkBacked, Verified
  <1>5. w = SourceWork(a)
    BY <1>4, WorkFacts
  <1>6. CASE a[2] > 0
    <2> DEFINE p == Predecessor(a)
    <2>1. p \in Attempts /\ p[1] = s /\ p = <<s, p[2]>> /\ p[2] \in 0 .. MaxRetry
      BY <1>1, <1>6, AttemptFacts DEF Attempts
    <2>2. action[p].retried
      BY <1>1, <1>5, <1>6 DEF KernelInv, RetriesLinked
    <2>3. action[p].state = "rejected"
      BY <2>1, <2>2 DEF KernelInv, RetriesLinked
    <2>4. action[<<s, p[2]>>].state = "none"
      BY <2>1 DEF NoReservation
    <2> QED BY <2>1, <2>3, <2>4
  <1>7. CASE a[2] = 0
    BY <1>2, <1>3, <1>5, <1>7
  <1> QED BY <1>2, <1>6, <1>7

\* A disposition ends the one work of a source that has no reservation.
LEMMA DispositionEnds ==
  ASSUME KernelInv, NEW w \in Works, work[w].status \in Runnable, RecordNoEffect(Source(w)),
         work' = [work EXCEPT ![w].status = "dispositioned"]
  PROVE  KeepsWork /\ KeepsEnds /\ disposed' \in [Sources -> {"none", "final", "historical", "no_effect"}]
  <1>1. /\ w = SourceWork(<<Source(w), 0>>) /\ action[Attempt(w)].state = "none"
        /\ Source(w) \in Sources
    BY NoEffectWork, WorkFacts DEF RecordNoEffect, Runnable
  <1>2. "dispositioned" \in Runnable \cup Ended
    BY DEF Ended
  <1>3. KeepsWork
    BY <1>1, <1>2, StatusKeeps DEF KernelInv, Active
  <1>4. /\ work'[w].status = "dispositioned"
        /\ \A v \in Works : v # w => work'[v] = work[v]
    BY <1>2, StatusFacts DEF KernelInv
  <1>5. /\ disposed \in [Sources -> {"none", "final", "historical", "no_effect"}]
        /\ disposed' = [disposed EXCEPT ![Source(w)] =
             IF disposed[Source(w)] = "none" THEN "no_effect" ELSE disposed[Source(w)]]
        /\ NoReservation(Source(w))
    BY DEF RecordNoEffect, KernelInv, TypeOK
  <1>6. \A s \in Sources : disposed[s] # "none" => disposed'[s] = disposed[s]
    BY <1>5
  <1>7. \A s \in Sources : disposed'[s] = "no_effect" => disposed[s] = "no_effect" \/ s = Source(w)
    BY <1>5
  <1>8. work'[SourceWork(<<Source(w), 0>>)].status \in Ended
    BY <1>1, <1>4 DEF Ended
  <1>9. \A v \in Works : work'[v].status = "completed" => work[v].status = "completed"
    BY <1>4
  <1>10. KeepsEnds
    BY <1>5, <1>6, <1>7, <1>8, <1>9 DEF KeepsEnds
  <1> QED BY <1>1, <1>3, <1>5, <1>10

LEMMA DisposeUnclaimedStep ==
  ASSUME KernelInv, NEW w \in Works, DisposeUnclaimed(w)
  PROVE  KernelInv'
  <1>1. /\ work[w].status \in Runnable
        /\ work' = [work EXCEPT ![w].status = "dispositioned"]
        /\ UNCHANGED <<control, lease, target, action, owner, incident, session, posts, remote>>
        /\ RecordNoEffect(Source(w))
    BY DEF DisposeUnclaimed, Runnable
  <1>2. /\ KeepsWork /\ KeepsEnds
        /\ disposed' \in [Sources -> {"none", "final", "historical", "no_effect"}]
    BY <1>1, DispositionEnds
  <1>3. TypeOK'
    BY <1>1, <1>2 DEF KernelInv, TypeOK, KeepsWork, WorkType, WorkRow
  <1>4. QuietSessions
    BY <1>1 DEF QuietSessions
  <1> QED BY <1>1, <1>2, <1>3, <1>4, SameIncident, SameLeases, QuietStep DEF KernelInv

\* What an execution owns can be run.
LEMMA OwnedFacts ==
  ASSUME KernelInv, NEW c \in Controllers, ~At(c, "idle"), Owns(c)
  PROVE  /\ WorkOf(c) \in Works
         /\ work[WorkOf(c)].status \in {"leased", "finalizing"}
         /\ work[WorkOf(c)].status \in Runnable
  BY DEF KernelInv, SessionsExact, Owns, Runnable

LEMMA DisposeStep ==
  ASSUME KernelInv, NEW c \in Controllers, Dispose(c)
  PROVE  KernelInv'
  <1> DEFINE w == WorkOf(c)
  <1>1. w \in Works /\ work[w].status \in Runnable
    BY OwnedFacts DEF Dispose, At
  <1>2. /\ work' = [work EXCEPT ![w].status = "dispositioned"]
        /\ UNCHANGED <<control, action, owner, incident, posts, remote>>
        /\ RecordNoEffect(Source(w)) /\ EndLeases(w) /\ Reply(c, "idle")
    BY DEF Dispose
  <1> HIDE DEF w
  <1>3. /\ KeepsWork /\ KeepsEnds
        /\ disposed' \in [Sources -> {"none", "final", "historical", "no_effect"}]
    BY <1>1, <1>2, DispositionEnds
  <1>4. /\ lease' \in [Works -> Controllers \cup {None}] /\ target' \in Works \cup {None}
        /\ LeasesNamed'
    BY <1>1, <1>2, EndLeasesFacts DEF KernelInv
  <1>5. /\ session' \in [Controllers -> SessionType]
        /\ session'[c].pc = "idle"
        /\ \A d \in Controllers : d # c => session'[d] = session[d]
    BY <1>2, ReplyFacts DEF KernelInv
  <1>6. TypeOK'
    BY <1>2, <1>3, <1>4, <1>5 DEF KernelInv, TypeOK, KeepsWork, WorkType, WorkRow, SessionType
  <1>7. QuietSessions
    BY <1>5 DEF QuietSessions
  <1> QED BY <1>2, <1>3, <1>4, <1>6, <1>7, SameIncident, QuietStep DEF KernelInv

LEMMA RetryLaterStep ==
  ASSUME KernelInv, NEW c \in Controllers, RetryLater(c)
  PROVE  KernelInv'
  <1> DEFINE w == WorkOf(c)
  <1>1. w \in Works /\ work[w].status \in Runnable
    BY OwnedFacts DEF RetryLater, At
  <1>2. /\ work' = [work EXCEPT ![w].status = "waiting"]
        /\ UNCHANGED <<control, action, owner, incident, disposed, posts, remote>>
        /\ EndLeases(w) /\ Reply(c, "idle")
    BY DEF RetryLater, Requeue
  <1> HIDE DEF w
  <1>3. "waiting" \in Runnable \cup Ended /\ "waiting" \notin Ended
    BY DEF Runnable, Ended
  <1>4. KeepsWork
    BY <1>1, <1>2, <1>3, StatusKeeps DEF KernelInv
  <1>5. /\ work'[w].status = "waiting"
        /\ \A v \in Works : v # w => work'[v] = work[v]
    BY <1>1, <1>2, <1>3, StatusFacts DEF KernelInv
  <1>6. KeepsEnds
    BY <1>2, <1>5, SameEnds DEF KernelInv
  <1>7. /\ lease' \in [Works -> Controllers \cup {None}] /\ target' \in Works \cup {None}
        /\ LeasesNamed'
    BY <1>1, <1>2, EndLeasesFacts DEF KernelInv
  <1>8. /\ session' \in [Controllers -> SessionType]
        /\ session'[c].pc = "idle"
        /\ \A d \in Controllers : d # c => session'[d] = session[d]
    BY <1>2, ReplyFacts DEF KernelInv
  <1>9. TypeOK'
    BY <1>2, <1>4, <1>7, <1>8 DEF KernelInv, TypeOK, KeepsWork, WorkType, WorkRow, SessionType
  <1>10. QuietSessions
    BY <1>8 DEF QuietSessions
  <1> QED BY <1>2, <1>4, <1>6, <1>7, <1>9, <1>10, SameIncident, QuietStep DEF KernelInv

\* A merge counts a source when it marks it, and shows the newest one.
LEMMA MergeFacts ==
  ASSUME KernelInv, NEW w \in Works, MergeIncident(w)
  PROVE  /\ incident' \in [used: Nat, latest: Sources \cup {0}, occurrences: Nat,
                           marked: SUBSET Sources]
         /\ KeepsIncident
  <1> DEFINE s == Source(w)
             o == IF incident.occurrences = 0 THEN 1
                  ELSE incident.occurrences + (IF Counts(w) THEN 1 ELSE 0)
             l == IF Historical(w) THEN incident.latest ELSE s
             k == incident.marked \cup {s}
  <1>1. incident \in [used: Nat, latest: Sources \cup {0}, occurrences: Nat,
                      marked: SUBSET Sources]
    BY DEF KernelInv, TypeOK
  <1>2. s \in Sources /\ s \in Nat /\ Sources \subseteq Nat
    BY WorkFacts, KernelAssumption
  <1>3. o \in Nat /\ l \in Sources \cup {0} /\ k \subseteq Sources
    BY <1>1, <1>2
  <1>4. IsFiniteSet(incident.marked) /\ incident.occurrences <= Cardinality(incident.marked)
    BY DEF KernelInv, CountedOnce
  <1>5. /\ IsFiniteSet(k)
        /\ Cardinality(k) = IF s \in incident.marked THEN Cardinality(incident.marked)
                            ELSE Cardinality(incident.marked) + 1
        /\ Cardinality(incident.marked) \in Nat
    BY <1>4, FS_AddElement, FS_CardinalityType
  <1>6. o <= Cardinality(k)
    <2>1. CASE incident.occurrences = 0
      <3>1. Cardinality(k) # 0
        <4>1. k # {}
          OBVIOUS
        <4> QED BY <4>1, <1>5, FS_EmptySet
      <3>2. Cardinality(k) \in Nat
        BY <1>5, FS_CardinalityType
      <3> QED BY <2>1, <3>1, <3>2
    <2>2. CASE incident.occurrences # 0 /\ Counts(w)
      <3>1. s \notin incident.marked
        BY <2>2 DEF Counts
      <3> QED BY <2>2, <3>1, <1>1, <1>4, <1>5
    <2>3. CASE incident.occurrences # 0 /\ ~Counts(w)
      BY <2>3, <1>1, <1>4, <1>5
    <2> QED BY <2>1, <2>2, <2>3
  <1>7. \A t \in k : l >= t
    <2>1. \A t \in incident.marked : incident.latest >= t
      BY DEF KernelInv, NewestEvidence
    <2>2. incident.latest \in Nat /\ \A t \in k : t \in Nat
      <3>1. incident.latest \in Sources \cup {0} /\ incident.marked \subseteq Sources
        BY <1>1
      <3>2. k \subseteq Nat
        BY <3>1, <1>2
      <3>3. incident.latest \in Nat
        <4>1. Sources \cup {0} \subseteq Nat
          BY <1>2
        <4> QED BY <3>1, <4>1, Zenon
      <3> QED BY <3>2, <3>3
    <2>3. Historical(w) <=> s < incident.latest
      BY DEF Historical
    <2>4. l = (IF s < incident.latest THEN incident.latest ELSE s)
      BY <2>3
    <2>5. l \in Nat /\ l >= incident.latest /\ l >= s
      <3> HIDE DEF s, l
      <3> QED BY <1>2, <2>2, <2>4
    <2>6. ASSUME NEW t \in k PROVE l >= t
      <3>1. CASE t \in incident.marked
        <4>1. incident.latest >= t
          BY <2>1, <3>1
        <4> HIDE DEF l
        <4> QED BY <2>2, <2>5, <4>1
      <3>2. CASE t = s
        BY <2>5, <3>2
      <3> QED BY <3>1, <3>2
    <2> QED BY <2>6
  <1>8. incident' = [incident EXCEPT !.occurrences = o, !.latest = l, !.marked = k]
    BY <1>1 DEF MergeIncident
  <1> HIDE DEF o, l, k
  <1>9. /\ incident'.used = incident.used /\ incident'.occurrences = o
        /\ incident'.latest = l /\ incident'.marked = k
        /\ incident' \in [used: Nat, latest: Sources \cup {0}, occurrences: Nat,
                          marked: SUBSET Sources]
    BY <1>1, <1>3, <1>8
  <1> QED BY <1>5, <1>6, <1>7, <1>9 DEF KeepsIncident, NewestEvidence, CountedOnce

\* A finalization completes work only once its action is over.
LEMMA FinalizeStep ==
  ASSUME KernelInv, NEW c \in Controllers, Finalize(c)
  PROVE  KernelInv'
  <1> DEFINE w == WorkOf(c)
             s == Source(w)
  <1>1. /\ Owns(c) /\ MergeIncident(w) /\ Reply(c, "idle")
        /\ UNCHANGED <<control, action, owner, posts, remote>>
    BY DEF Finalize
  <1>2. w \in Works /\ work[w].status \in {"leased", "finalizing"} /\ work[w].status \in Runnable
    BY <1>1, OwnedFacts DEF Finalize, MayFinalize, At
  <1>3. s \in Sources /\ Attempt(w) \in Attempts
    BY <1>2, WorkFacts
  <1>4. /\ incident' \in [used: Nat, latest: Sources \cup {0}, occurrences: Nat,
                          marked: SUBSET Sources]
        /\ KeepsIncident
    BY <1>1, <1>2, MergeFacts
  <1>5. /\ session' \in [Controllers -> SessionType]
        /\ session'[c].pc = "idle"
        /\ \A d \in Controllers : d # c => session'[d] = session[d]
    BY <1>1, ReplyFacts DEF KernelInv
  <1>6. QuietSessions
    BY <1>5 DEF QuietSessions
  <1>7. CASE Pending(w)
    <2>1. /\ work' = [work EXCEPT ![w].status = "finalizing"]
          /\ UNCHANGED <<lease, target, disposed>>
      BY <1>7 DEF Finalize
    <2> HIDE DEF w
    <2>2. "finalizing" \in Runnable \cup Ended /\ "finalizing" \notin Ended
      BY DEF Runnable, Ended
    <2>3. KeepsWork
      BY <1>2, <2>1, <2>2, StatusKeeps DEF KernelInv
    <2>4. work'[w].status = "finalizing" /\ \A v \in Works : v # w => work'[v] = work[v]
      BY <1>2, <2>1, <2>2, StatusFacts DEF KernelInv
    <2>5. KeepsEnds
      BY <2>1, <2>4, SameEnds DEF KernelInv
    <2>6. TypeOK'
      BY <1>1, <1>4, <1>5, <2>1, <2>3
      DEF KernelInv, TypeOK, KeepsWork, WorkType, WorkRow, SessionType
    <2> QED BY <1>1, <1>4, <1>6, <2>1, <2>3, <2>5, <2>6, SameLeases, QuietStep DEF KernelInv
  <1>8. CASE ~Pending(w)
    <2> DEFINE e == IF disposed[s] # "none" THEN disposed[s]
                    ELSE IF Historical(w) THEN "historical" ELSE "final"
    <2>1. /\ work' = [work EXCEPT ![w].status = "completed"]
          /\ disposed' = [disposed EXCEPT ![s] = e]
          /\ EndLeases(w)
      BY <1>8 DEF Finalize
    <2>2. action[Attempt(w)].state \notin Active
      <3>1. work[w].action => action[Attempt(w)].state \notin Active
        BY <1>8 DEF Pending
      <3>2. ~work[w].action => action[Attempt(w)].state \notin Active
        <4>1. CASE w = SourceWork(Attempt(w))
          BY <4>1, <1>3 DEF KernelInv, WorkBacked, Active
        <4>2. CASE w = VerifyWork(Attempt(w))
          BY <4>2, <1>2, <1>3 DEF KernelInv, WorkBacked
        <4> QED BY <4>1, <4>2, <1>2, WorkFacts
      <3> QED BY <3>1, <3>2
    <2>3. disposed \in [Sources -> {"none", "final", "historical", "no_effect"}]
      BY DEF KernelInv, TypeOK
    <2>4. /\ e \in {"none", "final", "historical", "no_effect"}
          /\ e # "none"
          /\ e = "no_effect" => disposed[s] = "no_effect"
          /\ disposed[s] # "none" => e = disposed[s]
      BY <2>3, <1>3
    <2> HIDE DEF w, s, e
    <2>5. "completed" \in Runnable \cup Ended /\ "completed" \in Ended
      BY DEF Ended
    <2>6. KeepsWork
      BY <1>2, <2>1, <2>2, <2>5, StatusKeeps DEF KernelInv
    <2>7. work'[w].status = "completed" /\ \A v \in Works : v # w => work'[v] = work[v]
      BY <1>2, <2>1, <2>5, StatusFacts DEF KernelInv
    <2>8. /\ disposed' \in [Sources -> {"none", "final", "historical", "no_effect"}]
          /\ disposed'[s] = e
          /\ \A t \in Sources : t # s => disposed'[t] = disposed[t]
      BY <2>1, <2>3, <2>4, <1>3
    <2>9. KeepsEnds
      <3>1. s = Source(w)
        BY DEF s
      <3> QED BY <2>2, <2>4, <2>7, <2>8, <3>1 DEF KeepsEnds
    <2>10. /\ lease' \in [Works -> Controllers \cup {None}] /\ target' \in Works \cup {None}
           /\ LeasesNamed'
      BY <1>2, <2>1, EndLeasesFacts DEF KernelInv
    <2>11. TypeOK'
      BY <1>1, <1>4, <1>5, <2>6, <2>8, <2>10
      DEF KernelInv, TypeOK, KeepsWork, WorkType, WorkRow, SessionType
    <2> QED BY <1>1, <1>4, <1>6, <2>6, <2>9, <2>10, <2>11, QuietStep
  <1> QED BY <1>7, <1>8

-----------------------------------------------------------------------------
(* Steps of an action and of its request.                                  *)

\* What is kept in the rows stays true while they do not change.
LEMMA SameRows ==
  ASSUME KernelInv, UNCHANGED rows
  PROVE  /\ LeasesNamed' /\ OwnerExact' /\ WorkBacked' /\ RetriesLinked' /\ OneChain'
         /\ NothingLater' /\ NewestEvidence' /\ CompletedIsOver'
         /\ IsFiniteSet(incident'.marked) /\ CountedOnce'
  BY DEF KernelInv, rows, LeasesNamed, OwnerExact, WorkBacked, RetriesLinked, OneChain,
         NothingLater, NoReservation, NewestEvidence, CompletedIsOver, CountedOnce

\* What the invariant says of a session, in terms of the variables alone.
LEMMA SessionFacts ==
  ASSUME KernelInv, NEW c \in Controllers, session[c].pc # "idle"
  PROVE  /\ session[c].work \in Works
         /\ Attempt(session[c].work) \in Attempts
         /\ session[c].pc \in Submitting =>
              action[Attempt(session[c].work)].state \notin {"none", "rejected"}
         /\ session[c].pc = "posting" => posts[Attempt(session[c].work)] = 0
         /\ session[c].pc \in Submitting \ {"posting"} => posts[Attempt(session[c].work)] = 1
         /\ session[c].pc \in {"throttled", "refused"} =>
              remote[Attempt(session[c].work)] = "none"
  BY WorkFacts DEF KernelInv, SessionsExact, At, WorkOf, AttemptOf, StateOf

\* How to show that sessions keep telling the truth.
LEMMA SessionsKept ==
  ASSUME \A c \in Controllers : session'[c].pc # "idle" =>
           /\ session'[c].work \in Works
           /\ session'[c].pc \in Submitting =>
                action'[Attempt(session'[c].work)].state \notin {"none", "rejected"}
           /\ session'[c].pc = "posting" => posts'[Attempt(session'[c].work)] = 0
           /\ session'[c].pc \in Submitting \ {"posting"} =>
                posts'[Attempt(session'[c].work)] = 1
           /\ session'[c].pc \in {"throttled", "refused"} =>
                remote'[Attempt(session'[c].work)] = "none"
  PROVE  SessionsExact'
  BY DEF SessionsExact, At, WorkOf, AttemptOf, StateOf

\* The request leaves, once.
LEMMA PostStep ==
  ASSUME KernelInv, NEW c \in Controllers, Post(c)
  PROVE  KernelInv'
  <1> DEFINE a == Attempt(session[c].work)
  <1>1. /\ session[c].pc = "posting"
        /\ UNCHANGED <<control, rows>>
        /\ posts' = [posts EXCEPT ![a] = posts[a] + 1]
    BY DEF Post, At, AttemptOf, WorkOf
  <1>2. /\ a \in Attempts /\ session[c].work \in Works
        /\ posts[a] = 0
        /\ action[a].state \notin {"none", "rejected"}
    BY <1>1, SessionFacts DEF Submitting
  <1>3. /\ posts \in [Attempts -> Nat]
        /\ remote \in [Attempts -> {"none", "running", "succeeded", "failed"}]
        /\ remote[a] = "none"
    BY <1>2 DEF KernelInv, TypeOK, RequestsRecorded
  <1>4. PICK pc \in {"acked", "unacked", "throttled", "refused"} :
          /\ Reply(c, pc)
          /\ \/ remote' = [remote EXCEPT ![a] = "running"] /\ pc \in {"acked", "unacked"}
             \/ UNCHANGED remote
    BY DEF Post, AttemptOf, WorkOf
  <1>5. /\ posts'[a] = 1 /\ \A b \in Attempts : b # a => posts'[b] = posts[b]
        /\ posts' \in [Attempts -> Nat]
    BY <1>1, <1>2, <1>3
  <1>6. /\ remote' \in [Attempts -> {"none", "running", "succeeded", "failed"}]
        /\ \A b \in Attempts : b # a => remote'[b] = remote[b]
        /\ pc \in {"throttled", "refused"} => remote'[a] = "none"
    BY <1>2, <1>3, <1>4
  <1>7. /\ session' \in [Controllers -> SessionType]
        /\ session'[c].pc = pc /\ session'[c].work = session[c].work
        /\ \A d \in Controllers : d # c => session'[d] = session[d]
    BY <1>4, ReplyFacts DEF KernelInv
  <1>8. TypeOK'
    BY <1>1, <1>5, <1>6, <1>7 DEF KernelInv, TypeOK, rows, SessionType
  <1>9. RequestsRecorded'
    BY <1>1, <1>2, <1>5, <1>6 DEF KernelInv, RequestsRecorded, rows
  <1>10. \A d \in Controllers : d # c /\ session[d].pc \in Submitting => Attempt(session[d].work) # a
    BY <1>1 DEF KernelInv, OneSubmitter, AttemptOf, WorkOf, Submitting
  <1>11. SessionsExact'
    <2> SUFFICES ASSUME NEW d \in Controllers, session'[d].pc # "idle"
                 PROVE  /\ session'[d].work \in Works
                        /\ session'[d].pc \in Submitting =>
                             action'[Attempt(session'[d].work)].state \notin {"none", "rejected"}
                        /\ session'[d].pc = "posting" => posts'[Attempt(session'[d].work)] = 0
                        /\ session'[d].pc \in Submitting \ {"posting"} =>
                             posts'[Attempt(session'[d].work)] = 1
                        /\ session'[d].pc \in {"throttled", "refused"} =>
                             remote'[Attempt(session'[d].work)] = "none"
      BY SessionsKept
    <2>1. CASE d = c
      BY <2>1, <1>1, <1>2, <1>5, <1>6, <1>7 DEF rows
    <2>2. CASE d # c
      <3>1. session'[d] = session[d] /\ action' = action
        BY <2>2, <1>1, <1>7 DEF rows
      <3>2. CASE session[d].pc \in Submitting
        BY <3>1, <3>2, <2>2, <1>5, <1>6, <1>10, SessionFacts
      <3>3. CASE session[d].pc \notin Submitting
        BY <3>1, <3>3, SessionFacts DEF Submitting
      <3> QED BY <3>2, <3>3
    <2> QED BY <2>1, <2>2
  <1>12. OneSubmitter'
    <2>1. \A d \in Controllers : session'[d].pc \in Submitting =>
            session[d].pc \in Submitting /\ session'[d].work = session[d].work
      BY <1>1, <1>7 DEF Submitting
    <2> QED BY <2>1 DEF KernelInv, OneSubmitter, AttemptOf, WorkOf
  <1> QED BY <1>1, <1>8, <1>9, <1>11, <1>12, SameRows DEF KernelInv

\* A run ends: it was running, so nobody thinks that it was refused.
LEMMA RunEndsStep ==
  ASSUME KernelInv, NEW a \in Attempts, RunEnds(a)
  PROVE  KernelInv'
  <1>1. /\ UNCHANGED <<control, rows, session, posts>>
        /\ remote[a] = "running"
        /\ remote \in [Attempts -> {"none", "running", "succeeded", "failed"}]
    BY DEF RunEnds, KernelInv, TypeOK
  <1>2. /\ remote' \in [Attempts -> {"none", "running", "succeeded", "failed"}]
        /\ remote'[a] # "none"
        /\ \A b \in Attempts : b # a => remote'[b] = remote[b]
    BY <1>1 DEF RunEnds
  <1>3. TypeOK'
    BY <1>1, <1>2 DEF KernelInv, TypeOK, rows
  <1>4. RequestsRecorded'
    BY <1>1, <1>2 DEF KernelInv, RequestsRecorded, rows
  <1>5. SessionsExact'
    <2>1. \A d \in Controllers : session[d].pc \in {"throttled", "refused"} =>
            Attempt(session[d].work) # a /\ Attempt(session[d].work) \in Attempts
      BY <1>1, SessionFacts
    <2>2. UNCHANGED <<session, action, posts>>
      BY <1>1 DEF rows
    <2> SUFFICES ASSUME NEW d \in Controllers, session[d].pc # "idle"
                 PROVE  /\ session[d].work \in Works
                        /\ session[d].pc \in Submitting =>
                             action[Attempt(session[d].work)].state \notin {"none", "rejected"}
                        /\ session[d].pc = "posting" => posts[Attempt(session[d].work)] = 0
                        /\ session[d].pc \in Submitting \ {"posting"} =>
                             posts[Attempt(session[d].work)] = 1
                        /\ session[d].pc \in {"throttled", "refused"} =>
                             remote'[Attempt(session[d].work)] = "none"
      BY <2>2, SessionsKept
    <2> QED BY <1>2, <2>1, SessionFacts
  <1>6. OneSubmitter'
    BY <1>1 DEF KernelInv, OneSubmitter, AttemptOf, WorkOf
  <1> QED BY <1>1, <1>3, <1>4, <1>5, <1>6, SameRows DEF KernelInv

\* Work without an action that somebody owns is source work whose attempt was
\* never reserved.
LEMMA UnreservedWork ==
  ASSUME KernelInv, NEW w \in Works, work[w].status # "absent", ~work[w].action
  PROVE  /\ w = SourceWork(Attempt(w))
         /\ action[Attempt(w)].state = "none"
         /\ work[VerifyWork(Attempt(w))].status = "absent"
  <1>1. Attempt(w) \in Attempts /\ (w = SourceWork(Attempt(w)) \/ w = VerifyWork(Attempt(w)))
    BY WorkFacts
  <1>2. w # VerifyWork(Attempt(w))
    BY <1>1 DEF KernelInv, WorkBacked
  <1>3. action[Attempt(w)].state = "none"
    BY <1>1, <1>2 DEF KernelInv, WorkBacked
  <1> QED BY <1>1, <1>2, <1>3 DEF KernelInv, WorkBacked, Verified

\* The incident's budget admits a first attempt while there is none, and a
\* retry only of the last attempt, which was rejected.
LEMMA BudgetChain ==
  ASSUME KernelInv, NEW a \in Attempts, WithinBudget(a), action[a].state = "none",
         action' = [action EXCEPT ![a].state = "reserved"],
         incident' = [incident EXCEPT !.used = 1]
  PROVE  OneChain'
  <1>1. action \in [Attempts -> Rows]
    BY DEF KernelInv, TypeOK, Rows
  <1>2. action'[a].state = "reserved" /\ \A b \in Attempts : b # a => action'[b] = action[b]
    BY <1>1
  <1>3. incident'.used = 1
    BY DEF KernelInv, TypeOK
  <1>4. \A x, y \in Attempts :
          action[x].state # "none" /\ action[y].state # "none" => x[1] = y[1]
    BY DEF KernelInv, OneChain
  <1>5. \A x, y \in Attempts :
          action[x].state # "none" /\ x[1] = y[1] /\ y[2] < x[2] => action[y].state = "rejected"
    BY DEF KernelInv, OneChain
  <1>6. CASE a[2] = 0
    <2>1. \A x \in Attempts : action[x].state = "none"
      BY <1>6 DEF WithinBudget, KernelInv, OneChain
    <2>2. \A x \in Attempts : action'[x].state # "none" => x = a
      BY <2>1, <1>2
    <2>3. \A y \in Attempts : ~(y[2] < a[2])
      BY <1>6, AttemptFacts
    <2> QED BY <2>2, <2>3, <1>3 DEF OneChain
  <1>7. CASE a[2] # 0
    <2> DEFINE p == Predecessor(a)
    <2>1. /\ p \in Attempts /\ p[1] = a[1] /\ p[2] = a[2] - 1
          /\ a[2] \in Nat /\ \A b \in Attempts : b[2] \in Nat
          /\ \A b \in Attempts : b[1] = p[1] /\ b[2] = p[2] => b = p
      BY <1>7, AttemptFacts
    <2>2. action[p].state = "rejected"
      BY <1>7 DEF WithinBudget, UnusedSuccessor
    <2> HIDE DEF p
    <2>3. ASSUME NEW x \in Attempts, action[x].state # "none" PROVE x[1] = a[1]
      BY <2>1, <2>2, <2>3, <1>4
    <2>4. ASSUME NEW x \in Attempts, NEW y \in Attempts,
                 action'[x].state # "none", x[1] = y[1], y[2] < x[2]
          PROVE  action'[y].state = "rejected"
      <3>1. CASE x = a
        <4>1. y # a
          BY <3>1, <2>1, <2>4
        <4>2. CASE y[2] = p[2]
          BY <4>1, <4>2, <3>1, <2>1, <2>2, <2>4, <1>2
        <4>3. CASE y[2] # p[2]
          <5>1. y[2] < p[2] /\ p[1] = y[1]
            BY <4>3, <3>1, <2>1, <2>4
          <5>2. action[y].state = "rejected"
            BY <5>1, <2>1, <2>2, <1>5
          <5> QED BY <5>2, <4>1, <1>2
        <4> QED BY <4>2, <4>3
      <3>2. CASE x # a
        <4>1. action[y].state = "rejected"
          BY <3>2, <2>4, <1>2, <1>5
        <4> QED BY <4>1, <1>2
      <3> QED BY <3>1, <3>2
    <2>5. ASSUME NEW x \in Attempts, NEW y \in Attempts,
                 action'[x].state # "none", action'[y].state # "none"
          PROVE  x[1] = y[1]
      BY <2>3, <2>5, <1>2
    <2> QED BY <2>4, <2>5, <1>3 DEF OneChain
  <1> QED BY <1>6, <1>7

LEMMA ReserveStep ==
  ASSUME KernelInv, NEW c \in Controllers, Reserve(c)
  PROVE  KernelInv'
  <1> DEFINE w == session[c].work
             a == Attempt(session[c].work)
  <1>1. /\ session[c].pc = "claimed" /\ Authorized(c) /\ owner = None
        /\ WithinBudget(a) /\ AttachReservation(w)
        /\ UNCHANGED <<control, lease, target, disposed, posts, remote>>
    BY DEF Reserve, At, AttemptOf, WorkOf
  <1>2. /\ w \in Works /\ a \in Attempts
        /\ work[w].status = "leased" /\ ~work[w].action
    BY <1>1, SessionFacts DEF Authorized, WorkOf
  <1>3. /\ w = SourceWork(a) /\ action[a].state = "none"
        /\ work[VerifyWork(a)].status = "absent"
    BY <1>2, UnreservedWork
  <1>4. /\ action' = [action EXCEPT ![a].state = "reserved"]
        /\ owner' = a
        /\ incident' = [incident EXCEPT !.used = 1]
        /\ work' = [work EXCEPT ![w].action = TRUE]
    BY <1>1 DEF AttachReservation
  <1>5. /\ action' \in [Attempts -> Rows]
        /\ action'[a].state = "reserved"
        /\ action'[a].known = action[a].known /\ action'[a].retried = action[a].retried
        /\ \A b \in Attempts : b # a => action'[b] = action[b]
    <2> DEFINE r == [action[a] EXCEPT !.state = "reserved"]
    <2>1. action \in [Attempts -> Rows]
      BY DEF KernelInv, TypeOK, Rows
    <2>2. r \in Rows /\ r.state = "reserved" /\ r.known = action[a].known
          /\ r.retried = action[a].retried
      BY <2>1, <1>2 DEF Rows, Active
    <2>3. action' = [action EXCEPT ![a] = r]
      BY <1>4, <2>1
    <2> HIDE DEF r
    <2> QED BY <1>2, <2>1, <2>2, <2>3
  <1>6. /\ work' \in WorkType
        /\ work'[w].status = "leased" /\ work'[w].action = TRUE
        /\ \A v \in Works : v # w => work'[v] = work[v]
    <2> DEFINE r == [work[w] EXCEPT !.action = TRUE]
    <2>1. work \in WorkType /\ work[w] \in WorkRow
      BY <1>2 DEF KernelInv, TypeOK, WorkType, WorkRow
    <2>2. r \in WorkRow /\ r.status = "leased" /\ r.action = TRUE
      BY <2>1, <1>2 DEF WorkRow
    <2>3. work' = [work EXCEPT ![w] = r]
      BY <1>4, <2>1
    <2> HIDE DEF r
    <2> QED BY <1>2, <2>1, <2>2, <2>3 DEF WorkType
  <1>7. /\ session' \in [Controllers -> SessionType]
        /\ session'[c].pc \in {"posting", "idle"}
        /\ session'[c].pc = "posting" => session'[c].work = w
        /\ \A d \in Controllers : d # c => session'[d] = session[d]
    <2> DEFINE e == [session[c] EXCEPT !.pc = "posting", !.own = TRUE]
    <2>1. session \in [Controllers -> SessionType] /\ session[c] \in SessionType
      BY DEF KernelInv, TypeOK, SessionType
    <2>2. CASE Reply(c, "idle")
      BY <2>2, ReplyFacts DEF KernelInv
    <2>3. CASE session' = [session EXCEPT ![c].pc = "posting", ![c].own = TRUE]
      <3>1. session' = [session EXCEPT ![c] = e]
        BY <2>1, <2>3
      <3>2. e \in SessionType /\ e.pc = "posting" /\ e.work = w
        BY <2>1 DEF SessionType
      <3> HIDE DEF e
      <3> QED BY <2>1, <3>1, <3>2
    <2> QED BY <2>2, <2>3 DEF Reserve
  <1>8. /\ incident' \in [used: Nat, latest: Sources \cup {0}, occurrences: Nat,
                          marked: SUBSET Sources]
        /\ incident'.marked = incident.marked /\ incident'.latest = incident.latest
        /\ incident'.occurrences = incident.occurrences
    BY <1>4 DEF KernelInv, TypeOK
  <1>9. TypeOK'
    BY <1>1, <1>2, <1>4, <1>5, <1>6, <1>7, <1>8
    DEF KernelInv, TypeOK, WorkType, WorkRow, Rows, SessionType
  <1>10. LeasesNamed'
    BY <1>1, SameLeases DEF KernelInv
  <1>11. OwnerExact'
    BY <1>1, <1>2, <1>4, <1>5, NoneAssumption DEF KernelInv, OwnerExact, Active
  <1>12. WorkBacked'
    <2> SUFFICES ASSUME NEW b \in Attempts
                 PROVE  /\ work'[SourceWork(b)].action <=> action'[b].state # "none"
                        /\ action'[b].state # "none" => work'[SourceWork(b)].status # "absent"
                        /\ action'[b].state = "reserved" => work'[SourceWork(b)].status \in Runnable
                        /\ work'[VerifyWork(b)].status # "absent" <=>
                             action'[b].state \in {"submitted", "uncertain"} \cup Verified
                        /\ work'[VerifyWork(b)].status # "absent" => work'[VerifyWork(b)].action
                        /\ action'[b].state \in {"submitted", "uncertain"} =>
                             work'[VerifyWork(b)].status \in Runnable
      BY DEF WorkBacked
    <2>1. work'[VerifyWork(b)] = work[VerifyWork(b)]
      BY <1>2, <1>3, <1>6, WorkFacts
    <2>2. CASE b = a
      BY <2>1, <2>2, <1>3, <1>5, <1>6 DEF Verified, Runnable
    <2>3. CASE b # a
      <3>1. SourceWork(b) # w /\ SourceWork(b) \in Works
        BY <2>3, <1>2, <1>3, WorkFacts
      <3> QED BY <2>1, <2>3, <3>1, <1>5, <1>6 DEF KernelInv, WorkBacked
    <2> QED BY <2>2, <2>3
  <1>13. RetriesLinked'
    <2>1. \A b \in Attempts : action'[b].retried = action[b].retried
      BY <1>5
    <2>2. \A b \in Attempts : work'[SourceWork(b)].status = work[SourceWork(b)].status
      BY <1>2, <1>6, WorkFacts
    <2>3. ~action[a].retried
      BY <1>2, <1>3 DEF KernelInv, RetriesLinked
    <2>4. \A b \in Attempts : b[2] > 0 => Predecessor(b) \in Attempts
      BY AttemptFacts
    <2> QED BY <2>1, <2>2, <2>3, <2>4, <1>2, <1>5 DEF KernelInv, RetriesLinked
  <1>14. OneChain'
    BY <1>1, <1>2, <1>3, <1>4, BudgetChain
  <1>15. RequestsRecorded'
    BY <1>1, <1>2, <1>3, <1>5 DEF KernelInv, RequestsRecorded, Verified
  <1>16. posts[a] = 0
    <2>1. posts[a] \in Nat
      BY <1>2 DEF KernelInv, TypeOK
    <2>2. posts[a] <= 1 /\ posts[a] # 1
      BY <1>2, <1>3 DEF KernelInv, RequestsRecorded
    <2> HIDE DEF a
    <2> QED BY <2>1, <2>2
  <1>17. \A d \in Controllers : session[d].pc \in Submitting => Attempt(session[d].work) # a
    BY <1>3, SessionFacts DEF Submitting
  <1>18. SessionsExact'
    <2> SUFFICES ASSUME NEW d \in Controllers, session'[d].pc # "idle"
                 PROVE  /\ session'[d].work \in Works
                        /\ session'[d].pc \in Submitting =>
                             action'[Attempt(session'[d].work)].state \notin {"none", "rejected"}
                        /\ session'[d].pc = "posting" => posts'[Attempt(session'[d].work)] = 0
                        /\ session'[d].pc \in Submitting \ {"posting"} =>
                             posts'[Attempt(session'[d].work)] = 1
                        /\ session'[d].pc \in {"throttled", "refused"} =>
                             remote'[Attempt(session'[d].work)] = "none"
      BY SessionsKept
    <2>1. CASE d = c
      <3>1. session'[d].pc = "posting" /\ session'[d].work = w
        BY <2>1, <1>7
      <3> QED BY <3>1, <1>1, <1>2, <1>5, <1>16
    <2>2. CASE d # c
      <3>1. session'[d] = session[d]
        BY <2>2, <1>7
      <3>2. CASE session[d].pc \in Submitting
        <4>1. action'[Attempt(session[d].work)] = action[Attempt(session[d].work)]
          BY <3>1, <3>2, <1>5, <1>17, SessionFacts
        <4> QED BY <3>1, <4>1, <1>1, SessionFacts
      <3>3. CASE session[d].pc \notin Submitting
        BY <3>1, <3>3, SessionFacts DEF Submitting
      <3> QED BY <3>2, <3>3
    <2> QED BY <2>1, <2>2
  <1>19. OneSubmitter'
    <2>1. \A d \in Controllers : d # c => session'[d] = session[d]
      BY <1>7
    <2>2. session'[c].pc \in Submitting => Attempt(session'[c].work) = a
      BY <1>7 DEF Submitting
    <2> QED BY <2>1, <2>2, <1>17 DEF KernelInv, OneSubmitter, AttemptOf, WorkOf
  <1>20. NothingLater'
    <2> SUFFICES ASSUME NEW s \in Sources, disposed[s] = "no_effect"
                 PROVE  /\ \A n \in 0 .. MaxRetry : action'[<<s, n>>].state = "none"
                        /\ work'[SourceWork(<<s, 0>>)].status \in Ended
      BY <1>1 DEF NothingLater, NoReservation
    <2>1. NoReservation(s) /\ work[SourceWork(<<s, 0>>)].status \in Ended
      BY DEF KernelInv, NothingLater
    <2>2. s # Source(w)
      <3> SUFFICES ASSUME s = Source(w) PROVE FALSE
        OBVIOUS
      <3>1. w = SourceWork(<<s, 0>>)
        BY <2>1, <1>2, NoEffectWork
      <3> QED BY <3>1, <2>1, <1>2 DEF Ended
    <2>3. \A n \in 0 .. MaxRetry : <<s, n>> # a /\ <<s, n>> \in Attempts
      BY <2>2, <1>2, AttemptFacts, WorkFacts
    <2>4. SourceWork(<<s, 0>>) # w /\ SourceWork(<<s, 0>>) \in Works
      BY <2>2, <2>3, WorkFacts, AttemptFacts
    <2> QED BY <2>1, <2>3, <2>4, <1>5, <1>6 DEF NoReservation
  <1>21. CompletedIsOver'
    <2>1. \A v \in Works : work'[v].status = "completed" => v # w /\ work[v].status = "completed"
      BY <1>6
    <2>2. \A v \in Works : work[v].status = "completed" /\ v # w => Attempt(v) # a
      BY <1>3, WorkFacts
    <2> QED BY <2>1, <2>2, <1>1, <1>5, WorkFacts DEF KernelInv, CompletedIsOver
  <1>22. NewestEvidence' /\ IsFiniteSet(incident'.marked) /\ CountedOnce'
    BY <1>8 DEF KernelInv, NewestEvidence, CountedOnce
  <1> QED BY <1>9, <1>10, <1>11, <1>12, <1>13, <1>14, <1>15, <1>18, <1>19, <1>20, <1>21, <1>22
          DEF KernelInv

\* An open action stays open: its submission is recorded, or a poll says
\* nothing new.  From then on it has work that will verify it.
LEMMA OpenStep ==
  ASSUME KernelInv, NEW a \in Attempts, action[a].state \in Active,
         NEW r \in Rows, r.state \in {"submitted", "uncertain"},
         r.retried = action[a].retried, r.known => posts[a] = 1,
         action' = [action EXCEPT ![a] = r],
         ScheduleVerification(a),
         UNCHANGED <<control, lease, target, owner, incident, disposed, posts, remote>>,
         session' \in [Controllers -> SessionType],
         \A d \in Controllers :
           \/ session'[d] = session[d]
           \/ session'[d].pc = "idle"
           \/ session'[d].pc \notin Submitting /\ session'[d].work \in Works
  PROVE  KernelInv'
  <1> DEFINE v == VerifyWork(a)
             q == Enqueued("verify_action", TRUE)
  <1>1. v \in Works /\ SourceWork(a) \in Works /\ Attempt(v) = a
        /\ \A b \in Attempts : SourceWork(b) # v
    BY WorkFacts
  <1>2. q \in WorkRow /\ q.status = "queued" /\ q.action = TRUE
    BY EnqueuedFacts DEF KernelInv
  <1>3. \/ work' = work /\ work[v].status # "absent"
        \/ work' = [work EXCEPT ![v] = q] /\ work[v].status = "absent"
    BY DEF ScheduleVerification
  <1>4. action \in [Attempts -> Rows] /\ work \in WorkType
    BY DEF KernelInv, TypeOK, Rows, WorkType, WorkRow
  <1>5. /\ action' \in [Attempts -> Rows] /\ action'[a] = r
        /\ \A b \in Attempts : b # a => action'[b] = action[b]
    BY <1>4
  <1> HIDE DEF q
  <1>6. /\ work' \in WorkType
        /\ \A u \in Works : u # v => work'[u] = work[u]
        /\ work'[v] = work[v] \/ (work[v].status = "absent" /\ work'[v] = q)
        /\ work'[v].status # "absent"
    BY <1>1, <1>2, <1>3, <1>4 DEF WorkType
  <1>7. /\ work[SourceWork(a)].action
        /\ work[SourceWork(a)].status # "absent"
        /\ work[v].status # "absent" =>
             action[a].state \in {"submitted", "uncertain"} \cup Verified /\ work[v].action
        /\ action[a].state \in {"submitted", "uncertain"} => work[v].status \in Runnable
        /\ action[a].state \notin Verified
    BY DEF KernelInv, WorkBacked, Active, Verified
  <1>8. work'[v].action /\ work'[v].status \in Runnable
    BY <1>2, <1>6, <1>7 DEF Runnable
  <1>9. TypeOK'
    BY <1>5, <1>6 DEF KernelInv, TypeOK, Rows, WorkType, WorkRow, SessionType
  <1>10. LeasesNamed'
    BY SameLeases DEF KernelInv
  <1>11. OwnerExact'
    BY <1>5 DEF KernelInv, OwnerExact, Active
  <1>12. WorkBacked'
    <2> SUFFICES ASSUME NEW b \in Attempts
                 PROVE  /\ work'[SourceWork(b)].action <=> action'[b].state # "none"
                        /\ action'[b].state # "none" => work'[SourceWork(b)].status # "absent"
                        /\ action'[b].state = "reserved" => work'[SourceWork(b)].status \in Runnable
                        /\ work'[VerifyWork(b)].status # "absent" <=>
                             action'[b].state \in {"submitted", "uncertain"} \cup Verified
                        /\ work'[VerifyWork(b)].status # "absent" => work'[VerifyWork(b)].action
                        /\ action'[b].state \in {"submitted", "uncertain"} =>
                             work'[VerifyWork(b)].status \in Runnable
      BY DEF WorkBacked
    <2>1. work'[SourceWork(b)] = work[SourceWork(b)]
      BY <1>1, <1>6, WorkFacts
    <2>2. CASE b = a
      BY <2>1, <2>2, <1>5, <1>6, <1>7, <1>8
    <2>3. CASE b # a
      <3>1. VerifyWork(b) # v /\ VerifyWork(b) \in Works
        BY <2>3, <1>1, WorkFacts
      <3> QED BY <2>1, <2>3, <3>1, <1>5, <1>6 DEF KernelInv, WorkBacked
    <2> QED BY <2>2, <2>3
  <1>13. RetriesLinked'
    <2>1. \A b \in Attempts : action'[b].retried = action[b].retried
      BY <1>5
    <2>2. \A b \in Attempts : work'[SourceWork(b)] = work[SourceWork(b)]
      BY <1>1, <1>6, WorkFacts
    <2>3. ~action[a].retried
      BY DEF KernelInv, RetriesLinked, Active
    <2>4. \A b \in Attempts : b[2] > 0 => Predecessor(b) \in Attempts
      BY AttemptFacts
    <2> QED BY <2>1, <2>2, <2>3, <2>4, <1>5 DEF KernelInv, RetriesLinked
  <1>14. OneChain'
    <2>1. \A b \in Attempts : /\ action'[b].state # "none" <=> action[b].state # "none"
                              /\ action'[b].state = "rejected" <=> action[b].state = "rejected"
      BY <1>5 DEF Active
    <2> QED BY <2>1 DEF KernelInv, OneChain
  <1>15. RequestsRecorded'
    BY <1>5 DEF KernelInv, RequestsRecorded, Verified, Active
  <1>16. SessionsExact'
    <2> SUFFICES ASSUME NEW d \in Controllers, session'[d].pc # "idle"
                 PROVE  /\ session'[d].work \in Works
                        /\ session'[d].pc \in Submitting =>
                             action'[Attempt(session'[d].work)].state \notin {"none", "rejected"}
                        /\ session'[d].pc = "posting" => posts'[Attempt(session'[d].work)] = 0
                        /\ session'[d].pc \in Submitting \ {"posting"} =>
                             posts'[Attempt(session'[d].work)] = 1
                        /\ session'[d].pc \in {"throttled", "refused"} =>
                             remote'[Attempt(session'[d].work)] = "none"
      BY SessionsKept
    <2>1. CASE session'[d] = session[d]
      <3>1. Attempt(session[d].work) \in Attempts
        BY <2>1, SessionFacts
      <3>2. action[Attempt(session[d].work)].state \notin {"none", "rejected"} =>
              action'[Attempt(session[d].work)].state \notin {"none", "rejected"}
        BY <3>1, <1>5
      <3> QED BY <2>1, <3>2, SessionFacts
    <2>2. CASE session'[d].pc \notin Submitting /\ session'[d].work \in Works
      BY <2>2 DEF Submitting
    <2> QED BY <2>1, <2>2
  <1>17. OneSubmitter'
    <2>1. \A d \in Controllers : session'[d].pc \in Submitting => session'[d] = session[d]
      BY DEF Submitting
    <2> QED BY <2>1 DEF KernelInv, OneSubmitter, AttemptOf, WorkOf
  <1>18. NothingLater'
    <2>1. \A b \in Attempts : action[b].state = "none" => action'[b].state = "none"
      BY <1>5 DEF Active
    <2>2. \A s \in Sources : /\ SourceWork(<<s, 0>>) # v /\ SourceWork(<<s, 0>>) \in Works
                             /\ \A n \in 0 .. MaxRetry : <<s, n>> \in Attempts
      BY <1>1, WorkFacts, AttemptFacts
    <2> QED BY <2>1, <2>2, <1>6 DEF KernelInv, NothingLater, NoReservation
  <1>19. CompletedIsOver'
    <2>1. \A u \in Works : work'[u].status = "completed" => work[u].status = "completed"
      BY <1>6, <1>8 DEF Runnable
    <2>2. \A b \in Attempts : action'[b].state \in Active => action[b].state \in Active
      BY <1>5
    <2> QED BY <2>1, <2>2, WorkFacts DEF KernelInv, CompletedIsOver
  <1>20. NewestEvidence' /\ IsFiniteSet(incident'.marked) /\ CountedOnce'
    BY DEF KernelInv, NewestEvidence, CountedOnce
  <1> QED BY <1>9, <1>10, <1>11, <1>12, <1>13, <1>14, <1>15, <1>16, <1>17, <1>18, <1>19, <1>20
          DEF KernelInv

\* A committed transaction moves only its own session, out of the submission.
LEMMA CommittedFacts ==
  ASSUME KernelInv, NEW c \in Controllers, session[c].pc # "idle",
         NEW pc \in {"recorded", "finalizing", "idle"}, Committed(c, pc)
  PROVE  /\ session' \in [Controllers -> SessionType]
         /\ session'[c].pc \notin Submitting
         /\ session'[c].pc # "idle" => session'[c].work = session[c].work
         /\ \A d \in Controllers : d # c => session'[d] = session[d]
         /\ \A d \in Controllers :
              \/ session'[d] = session[d]
              \/ session'[d].pc = "idle"
              \/ session'[d].pc \notin Submitting /\ session'[d].work \in Works
  <1>1. session[c].work \in Works
    BY SessionFacts
  <1>2. CASE Reply(c, pc)
    BY <1>1, <1>2, ReplyFacts DEF KernelInv, Submitting
  <1>3. CASE Reply(c, "idle")
    BY <1>1, <1>3, ReplyFacts DEF KernelInv, Submitting
  <1> QED BY <1>2, <1>3 DEF Committed

LEMMA SubmissionStep ==
  ASSUME KernelInv, NEW c \in Controllers, RecordSubmission(c)
  PROVE  KernelInv'
  <1> DEFINE a == Attempt(session[c].work)
             r == [action[a] EXCEPT !.state = IF At(c, "acked") THEN "submitted" ELSE "uncertain",
                                    !.known = At(c, "acked")]
  <1>1. /\ session[c].pc # "idle"
        /\ action[a].state = "reserved"
        /\ ScheduleVerification(a) /\ Committed(c, "recorded")
        /\ UNCHANGED <<control, lease, target, owner, incident, disposed, posts, remote>>
    BY DEF RecordSubmission, MayTransition, StateOf, At, AttemptOf, WorkOf
  <1>2. a \in Attempts /\ (session[c].pc = "acked" => posts[a] = 1)
    BY <1>1, SessionFacts DEF Submitting
  <1>3. action \in [Attempts -> Rows] /\ action[a] \in Rows
    BY <1>2 DEF KernelInv, TypeOK, Rows
  <1>4. At(c, "acked") \in BOOLEAN /\ (At(c, "acked") <=> session[c].pc = "acked")
    BY DEF At
  <1>5. /\ r \in Rows /\ r.state \in {"submitted", "uncertain"}
        /\ r.retried = action[a].retried /\ r.known = At(c, "acked")
    BY <1>3, <1>4 DEF Rows, Active
  <1>6. action' = [action EXCEPT ![a] = r]
    BY <1>3 DEF RecordSubmission, AttemptOf, WorkOf
  <1>7. action[a].state \in Active
    BY <1>1 DEF Active
  <1> HIDE DEF r
  <1>8. r.known => posts[a] = 1
    BY <1>2, <1>4, <1>5
  <1> QED BY <1>1, <1>2, <1>5, <1>6, <1>7, <1>8, CommittedFacts, OpenStep

\* A verified end closes the action, which was known to the service.
LEMMA VerifiedStep ==
  ASSUME KernelInv, NEW a \in Attempts, action[a].state \in Active, action[a].known,
         NEW outcome \in Verified,
         action' = [action EXCEPT ![a].state = outcome],
         owner' = None,
         UNCHANGED <<control, work, lease, target, incident, disposed, posts, remote>>,
         session' \in [Controllers -> SessionType],
         \A d \in Controllers :
           \/ session'[d] = session[d]
           \/ session'[d].pc = "idle"
           \/ session'[d].pc \notin Submitting /\ session'[d].work \in Works
  PROVE  KernelInv'
  <1>1. action \in [Attempts -> Rows]
    BY DEF KernelInv, TypeOK, Rows
  <1>2. /\ action' \in [Attempts -> Rows]
        /\ action'[a].state = outcome
        /\ action'[a].known = action[a].known /\ action'[a].retried = action[a].retried
        /\ \A b \in Attempts : b # a => action'[b] = action[b]
    <2> DEFINE r == [action[a] EXCEPT !.state = outcome]
    <2>1. r \in Rows /\ r.state = outcome /\ r.known = action[a].known
          /\ r.retried = action[a].retried
      BY <1>1 DEF Rows
    <2>2. action' = [action EXCEPT ![a] = r]
      BY <1>1
    <2> HIDE DEF r
    <2> QED BY <1>1, <2>1, <2>2
  <1>3. action[a].state \in {"submitted", "uncertain"} /\ posts[a] = 1
    BY DEF KernelInv, RequestsRecorded, Active
  <1>4. outcome \notin {"none", "rejected", "reserved", "submitted", "uncertain"}
    BY DEF Verified
  <1>5. TypeOK'
    BY <1>2 DEF KernelInv, TypeOK, Rows, SessionType
  <1>6. LeasesNamed'
    BY SameLeases DEF KernelInv
  <1>7. OwnerExact'
    <2>1. owner = a /\ \A b \in Attempts : b # a => action[b].state \notin Active
      BY DEF KernelInv, OwnerExact
    <2>2. action'[a].state \notin Active
      BY <1>2, <1>4 DEF Active
    <2> QED BY <2>1, <2>2, <1>2, NoneAssumption DEF OwnerExact
  <1>8. WorkBacked'
    BY <1>2, <1>3, <1>4 DEF KernelInv, WorkBacked
  <1>9. RetriesLinked'
    <2>1. \A b \in Attempts : action'[b].retried = action[b].retried
      BY <1>2
    <2>2. ~action[a].retried
      BY <1>3 DEF KernelInv, RetriesLinked
    <2>3. \A b \in Attempts : b[2] > 0 => Predecessor(b) \in Attempts
      BY AttemptFacts
    <2> QED BY <2>1, <2>2, <2>3, <1>2 DEF KernelInv, RetriesLinked
  <1>10. OneChain'
    <2>1. \A b \in Attempts : /\ action'[b].state # "none" <=> action[b].state # "none"
                              /\ action'[b].state = "rejected" <=> action[b].state = "rejected"
      BY <1>2, <1>3, <1>4
    <2> QED BY <2>1 DEF KernelInv, OneChain
  <1>11. RequestsRecorded'
    BY <1>2, <1>3, <1>4 DEF KernelInv, RequestsRecorded
  <1>12. SessionsExact'
    <2> SUFFICES ASSUME NEW d \in Controllers, session'[d].pc # "idle"
                 PROVE  /\ session'[d].work \in Works
                        /\ session'[d].pc \in Submitting =>
                             action'[Attempt(session'[d].work)].state \notin {"none", "rejected"}
                        /\ session'[d].pc = "posting" => posts'[Attempt(session'[d].work)] = 0
                        /\ session'[d].pc \in Submitting \ {"posting"} =>
                             posts'[Attempt(session'[d].work)] = 1
                        /\ session'[d].pc \in {"throttled", "refused"} =>
                             remote'[Attempt(session'[d].work)] = "none"
      BY SessionsKept
    <2>1. CASE session'[d] = session[d]
      <3>1. Attempt(session[d].work) \in Attempts
        BY <2>1, SessionFacts
      <3>2. action[Attempt(session[d].work)].state \notin {"none", "rejected"} =>
              action'[Attempt(session[d].work)].state \notin {"none", "rejected"}
        BY <3>1, <1>2, <1>4
      <3> QED BY <2>1, <3>2, SessionFacts
    <2>2. CASE session'[d].pc \notin Submitting /\ session'[d].work \in Works
      BY <2>2 DEF Submitting
    <2> QED BY <2>1, <2>2
  <1>13. OneSubmitter'
    <2>1. \A d \in Controllers : session'[d].pc \in Submitting => session'[d] = session[d]
      BY DEF Submitting
    <2> QED BY <2>1 DEF KernelInv, OneSubmitter, AttemptOf, WorkOf
  <1>14. NothingLater'
    <2>1. \A b \in Attempts : action[b].state = "none" => action'[b].state = "none"
      BY <1>2, <1>3
    <2>2. \A s \in Sources : \A n \in 0 .. MaxRetry : <<s, n>> \in Attempts
      BY AttemptFacts
    <2> QED BY <2>1, <2>2 DEF KernelInv, NothingLater, NoReservation
  <1>15. CompletedIsOver'
    <2>1. \A b \in Attempts : action'[b].state \in Active => action[b].state \in Active
      BY <1>2
    <2> QED BY <2>1, WorkFacts DEF KernelInv, CompletedIsOver
  <1>16. NewestEvidence' /\ IsFiniteSet(incident'.marked) /\ CountedOnce'
    BY DEF KernelInv, NewestEvidence, CountedOnce
  <1> QED BY <1>5, <1>6, <1>7, <1>8, <1>9, <1>10, <1>11, <1>12, <1>13, <1>14, <1>15, <1>16
          DEF KernelInv

LEMMA OutcomeStep ==
  ASSUME KernelInv, NEW c \in Controllers, NEW outcome \in Verified \cup {"uncertain"},
         RecordOutcome(c, outcome)
  PROVE  KernelInv'
  <1> DEFINE a == Attempt(session[c].work)
  <1>1. /\ session[c].pc # "idle"
        /\ action[a].state \in Active /\ action[a].known
        /\ action' = [action EXCEPT ![a].state = outcome]
        /\ UNCHANGED <<control, lease, target, incident, disposed, posts, remote>>
        /\ Committed(c, IF outcome \in Verified \/ session[c].own THEN "finalizing" ELSE "idle")
    BY DEF RecordOutcome, MayTransition, StateOf, At, AttemptOf, WorkOf
  <1>2. a \in Attempts
    BY <1>1, SessionFacts
  <1>3. /\ session' \in [Controllers -> SessionType]
        /\ \A d \in Controllers :
             \/ session'[d] = session[d]
             \/ session'[d].pc = "idle"
             \/ session'[d].pc \notin Submitting /\ session'[d].work \in Works
    <2> DEFINE pc == IF outcome \in Verified \/ session[c].own THEN "finalizing" ELSE "idle"
    <2>1. pc \in {"recorded", "finalizing", "idle"} /\ Committed(c, pc)
      BY <1>1
    <2> HIDE DEF pc
    <2> QED BY <1>1, <2>1, CommittedFacts
  <1>4. CASE outcome \in Verified
    <2>1. owner' = None /\ UNCHANGED work
      BY <1>4 DEF RecordOutcome
    <2> QED BY <1>1, <1>2, <1>3, <1>4, <2>1, VerifiedStep
  <1>5. CASE outcome \notin Verified
    <2> DEFINE r == [action[a] EXCEPT !.state = "uncertain"]
    <2>1. outcome = "uncertain" /\ ScheduleVerification(a) /\ UNCHANGED owner
      BY <1>5 DEF RecordOutcome, AttemptOf, WorkOf
    <2>2. action \in [Attempts -> Rows] /\ action[a] \in Rows
      BY <1>2 DEF KernelInv, TypeOK, Rows
    <2>3. r \in Rows /\ r.state = "uncertain" /\ r.retried = action[a].retried
          /\ action' = [action EXCEPT ![a] = r]
      BY <1>1, <2>1, <2>2 DEF Rows, Active
    <2>4. posts[a] = 1
      BY <1>1, <1>2 DEF KernelInv, RequestsRecorded
    <2> HIDE DEF r
    <2> QED BY <1>1, <1>2, <1>3, <2>1, <2>3, <2>4, OpenStep
  <1> QED BY <1>4, <1>5

\* A definite rejection, by the only execution that could have sent the
\* request: the service has done nothing, and at most one retry is queued.
LEMMA RejectionStep ==
  ASSUME KernelInv, NEW c \in Controllers, RecordRejection(c)
  PROVE  KernelInv'
  <1> DEFINE a == Attempt(session[c].work)
             throttled == At(c, "throttled")
             retry == throttled /\ a[2] < MaxRetry /\ RetryAdmitted(a)
             n == SourceWork(Successor(a))
             q == Enqueued("deferred_retry", FALSE)
  <1>1. /\ session[c].pc \in {"throttled", "refused"}
        /\ action[a].state = "reserved"
        /\ action' = [action EXCEPT ![a].state = "rejected", ![a].throttled = throttled,
                                    ![a].retried = retry]
        /\ owner' = None
        /\ Committed(c, "finalizing")
        /\ UNCHANGED <<control, lease, target, incident, disposed, posts, remote>>
    BY DEF RecordRejection, MayTransition, StateOf, AttemptOf, WorkOf
  <1>2. /\ session[c].work \in Works /\ a \in Attempts
        /\ posts[a] = 1 /\ remote[a] = "none"
    BY <1>1, SessionFacts DEF Submitting
  <1>3. action \in [Attempts -> Rows] /\ action[a] \in Rows /\ work \in WorkType
    BY <1>2 DEF KernelInv, TypeOK, Rows, WorkType, WorkRow
  <1>4. throttled \in BOOLEAN /\ retry \in BOOLEAN
    BY DEF At
  <1>5. retry => /\ Successor(a) \in Attempts /\ n \in Works /\ Attempt(n) = Successor(a)
                 /\ Predecessor(Successor(a)) = a /\ Successor(a)[2] > 0
    BY <1>2, AttemptFacts, WorkFacts
  <1>6. work[VerifyWork(a)].status = "absent" /\ VerifyWork(a) \in Works
    BY <1>1, <1>2, WorkFacts DEF KernelInv, WorkBacked, Verified
  <1>7. ~action[a].retried /\ ~action[a].known
    BY <1>1, <1>2 DEF KernelInv, RetriesLinked, RequestsRecorded
  <1>8. retry => work[n].status = "absent" /\ action[Successor(a)].state = "none"
    <2> SUFFICES ASSUME retry
                 PROVE  work[n].status = "absent" /\ action[Successor(a)].state = "none"
      OBVIOUS
    <2>1. work[n].status = "absent"
      BY <1>5, <1>7 DEF KernelInv, RetriesLinked
    <2> QED BY <2>1, <1>5 DEF KernelInv, WorkBacked
  <1>9. /\ action' \in [Attempts -> Rows]
        /\ action'[a].state = "rejected" /\ action'[a].retried = retry
        /\ action'[a].known = action[a].known
        /\ \A b \in Attempts : b # a => action'[b] = action[b]
    <2> DEFINE r == [action[a] EXCEPT !.state = "rejected", !.throttled = throttled,
                                      !.retried = retry]
    <2> HIDE DEF throttled, retry
    <2>1. r \in Rows /\ r.state = "rejected" /\ r.retried = retry /\ r.known = action[a].known
      BY <1>3, <1>4 DEF Rows
    <2>2. action' = [action EXCEPT ![a] = r]
      BY <1>1, <1>3
    <2> HIDE DEF r
    <2> QED BY <1>2, <1>3, <2>1, <2>2
  <1>10. q \in WorkRow /\ q.status = "queued" /\ q.action = FALSE
    BY EnqueuedFacts DEF KernelInv
  <1>11. work' = [w \in Works |->
           IF retry /\ w = n THEN q
           ELSE IF w = VerifyWork(a) /\ work[w].status \in {"queued", "waiting"}
           THEN [work[w] EXCEPT !.status = "dispositioned"]
           ELSE work[w]]
    BY DEF RecordRejection, AttemptOf, WorkOf
  <1>12. /\ session' \in [Controllers -> SessionType]
         /\ session'[c].pc \notin Submitting
         /\ session'[c].pc # "idle" => session'[c].work = session[c].work
         /\ \A d \in Controllers : d # c => session'[d] = session[d]
    BY <1>1, CommittedFacts
  <1> HIDE DEF throttled, retry, q, n
  <1>13. work' = [w \in Works |-> IF retry /\ w = n THEN q ELSE work[w]]
    BY <1>6, <1>11
  <1>14. /\ work' \in WorkType
         /\ \A w \in Works : w # n \/ ~retry => work'[w] = work[w]
         /\ retry => work'[n] = q
    BY <1>3, <1>5, <1>10, <1>13 DEF WorkType
  <1>15. \A b \in Attempts : VerifyWork(b) # n \/ ~retry
    BY <1>5, WorkFacts DEF n
  <1>16. TypeOK'
    BY <1>1, <1>9, <1>12, <1>14 DEF KernelInv, TypeOK, Rows, WorkType, WorkRow, SessionType
  <1>17. LeasesNamed'
    BY <1>1, SameLeases DEF KernelInv
  <1>18. OwnerExact'
    <2>1. owner = a /\ \A b \in Attempts : b # a => action[b].state \notin Active
      BY <1>1, <1>2 DEF KernelInv, OwnerExact, Active
    <2>2. action'[a].state \notin Active
      BY <1>9 DEF Active
    <2> QED BY <2>1, <2>2, <1>1, <1>9, NoneAssumption DEF OwnerExact
  <1>19. WorkBacked'
    <2> SUFFICES ASSUME NEW b \in Attempts
                 PROVE  /\ work'[SourceWork(b)].action <=> action'[b].state # "none"
                        /\ action'[b].state # "none" => work'[SourceWork(b)].status # "absent"
                        /\ action'[b].state = "reserved" => work'[SourceWork(b)].status \in Runnable
                        /\ work'[VerifyWork(b)].status # "absent" <=>
                             action'[b].state \in {"submitted", "uncertain"} \cup Verified
                        /\ work'[VerifyWork(b)].status # "absent" => work'[VerifyWork(b)].action
                        /\ action'[b].state \in {"submitted", "uncertain"} =>
                             work'[VerifyWork(b)].status \in Runnable
      BY DEF WorkBacked
    <2>1. SourceWork(b) \in Works /\ VerifyWork(b) \in Works
      BY WorkFacts
    <2>2. work'[VerifyWork(b)] = work[VerifyWork(b)]
      BY <2>1, <1>14, <1>15
    <2>3. CASE b = a
      <3>1. SourceWork(b) # n \/ ~retry
        <4>1. retry => Successor(a) # a
          BY <1>1, <1>8
        <4> QED BY <4>1, <2>3, <1>2, <1>5, WorkFacts DEF n
      <3>2. work'[SourceWork(b)] = work[SourceWork(b)]
        BY <3>1, <2>1, <1>14
      <3>3. /\ work[SourceWork(a)].action <=> action[a].state # "none"
            /\ action[a].state # "none" => work[SourceWork(a)].status # "absent"
            /\ action[a].state \in {"submitted", "uncertain"} => work[VerifyWork(a)].status \in Runnable
        BY <1>2 DEF KernelInv, WorkBacked
      <3>4. action[a].state # "none"
        BY <1>1
      <3>5. action'[b].state = "rejected" /\ action'[b].state \notin {"submitted", "uncertain"} \cup Verified
        BY <1>9, <2>3 DEF Verified
      <3> QED BY <2>2, <2>3, <3>2, <3>3, <3>4, <3>5, <1>6
    <2>4. CASE b # a /\ retry /\ b = Successor(a)
      <3>1. work'[SourceWork(b)] = q /\ action'[b].state = "none"
        BY <2>4, <1>8, <1>9, <1>14 DEF n
      <3> QED BY <2>2, <2>4, <3>1, <1>10, <1>8, <1>9 DEF KernelInv, WorkBacked
    <2>5. CASE b # a /\ ~(retry /\ b = Successor(a))
      <3>1. SourceWork(b) # n \/ ~retry
        BY <2>5, <1>5, WorkFacts DEF n
      <3>2. work'[SourceWork(b)] = work[SourceWork(b)] /\ action'[b] = action[b]
        BY <3>1, <2>1, <2>5, <1>9, <1>14
      <3> QED BY <2>2, <3>2 DEF KernelInv, WorkBacked
    <2> QED BY <2>3, <2>4, <2>5
  <1>20. RetriesLinked'
    <2> SUFFICES ASSUME NEW b \in Attempts
                 PROVE  /\ action'[b].retried => action'[b].state = "rejected"
                        /\ b[2] > 0 /\ work'[SourceWork(b)].status # "absent" =>
                             action'[Predecessor(b)].retried
      BY DEF RetriesLinked
    <2>1. action'[b].retried => action'[b].state = "rejected"
      BY <1>9 DEF KernelInv, RetriesLinked
    <2>2. ASSUME b[2] > 0, work'[SourceWork(b)].status # "absent"
          PROVE  action'[Predecessor(b)].retried
      <3>1. Predecessor(b) \in Attempts /\ SourceWork(b) \in Works
        BY <2>2, AttemptFacts, WorkFacts
      <3>2. CASE retry /\ SourceWork(b) = n
        <4>1. b = Successor(a)
          BY <3>2, <1>5, WorkFacts
        <4> QED BY <4>1, <3>2, <1>5, <1>9
      <3>3. CASE ~(retry /\ SourceWork(b) = n)
        <4>1. work'[SourceWork(b)] = work[SourceWork(b)]
          BY <3>1, <3>3, <1>14
        <4>2. action[Predecessor(b)].retried
          BY <2>2, <4>1 DEF KernelInv, RetriesLinked
        <4> QED BY <4>2, <3>1, <1>7, <1>9
      <3> QED BY <3>2, <3>3
    <2> QED BY <2>1, <2>2
  <1>21. OneChain'
    <2>1. \A b \in Attempts : /\ action'[b].state # "none" <=> action[b].state # "none"
                              /\ action[b].state = "rejected" => action'[b].state = "rejected"
      BY <1>1, <1>9
    <2>2. incident' = incident /\ OneChain
      BY <1>1 DEF KernelInv
    <2> QED BY <2>1, <2>2 DEF OneChain
  <1>22. RequestsRecorded'
    BY <1>1, <1>2, <1>7, <1>9 DEF KernelInv, RequestsRecorded, Verified
  <1>23. \A d \in Controllers : d # c /\ session[d].pc \in Submitting => Attempt(session[d].work) # a
    BY <1>1 DEF KernelInv, OneSubmitter, AttemptOf, WorkOf, Submitting
  <1>24. SessionsExact'
    <2> SUFFICES ASSUME NEW d \in Controllers, session'[d].pc # "idle"
                 PROVE  /\ session'[d].work \in Works
                        /\ session'[d].pc \in Submitting =>
                             action'[Attempt(session'[d].work)].state \notin {"none", "rejected"}
                        /\ session'[d].pc = "posting" => posts'[Attempt(session'[d].work)] = 0
                        /\ session'[d].pc \in Submitting \ {"posting"} =>
                             posts'[Attempt(session'[d].work)] = 1
                        /\ session'[d].pc \in {"throttled", "refused"} =>
                             remote'[Attempt(session'[d].work)] = "none"
      BY SessionsKept
    <2>1. CASE d = c
      BY <2>1, <1>2, <1>12 DEF Submitting
    <2>2. CASE d # c
      <3>1. session'[d] = session[d]
        BY <2>2, <1>12
      <3>2. CASE session[d].pc \in Submitting
        <4>1. action'[Attempt(session[d].work)] = action[Attempt(session[d].work)]
          BY <2>2, <3>1, <3>2, <1>9, <1>23, SessionFacts
        <4> QED BY <3>1, <4>1, <1>1, SessionFacts
      <3>3. CASE session[d].pc \notin Submitting
        BY <3>1, <3>3, SessionFacts DEF Submitting
      <3> QED BY <3>2, <3>3
    <2> QED BY <2>1, <2>2
  <1>25. OneSubmitter'
    <2>1. \A d \in Controllers : session'[d].pc \in Submitting => session'[d] = session[d]
      BY <1>12
    <2> QED BY <2>1 DEF KernelInv, OneSubmitter, AttemptOf, WorkOf
  <1>26. NothingLater'
    <2> SUFFICES ASSUME NEW s \in Sources, disposed[s] = "no_effect"
                 PROVE  /\ \A m \in 0 .. MaxRetry : action'[<<s, m>>].state = "none"
                        /\ work'[SourceWork(<<s, 0>>)].status \in Ended
      BY <1>1 DEF NothingLater, NoReservation
    <2>1. NoReservation(s) /\ work[SourceWork(<<s, 0>>)].status \in Ended
      BY DEF KernelInv, NothingLater
    <2>2. \A m \in 0 .. MaxRetry : <<s, m>> \in Attempts /\ <<s, m>> # a
      BY <2>1, <1>1, AttemptFacts DEF NoReservation
    <2>3. SourceWork(<<s, 0>>) \in Works /\ (SourceWork(<<s, 0>>) # n \/ ~retry)
      BY <2>1, <1>8, WorkFacts, AttemptFacts DEF Ended
    <2> QED BY <2>1, <2>2, <2>3, <1>9, <1>14 DEF NoReservation
  <1>27. CompletedIsOver'
    <2>1. \A w \in Works : work'[w].status = "completed" => work[w].status = "completed"
      BY <1>10, <1>14
    <2>2. \A b \in Attempts : action'[b].state \in Active => action[b].state \in Active
      BY <1>9 DEF Active
    <2> QED BY <2>1, <2>2, <1>1, WorkFacts DEF KernelInv, CompletedIsOver
  <1>28. NewestEvidence' /\ IsFiniteSet(incident'.marked) /\ CountedOnce'
    BY <1>1 DEF KernelInv, NewestEvidence, CountedOnce
  <1> QED BY <1>16, <1>17, <1>18, <1>19, <1>20, <1>21, <1>22, <1>24, <1>25, <1>26, <1>27, <1>28
          DEF KernelInv

LEMMA StutterStep ==
  ASSUME KernelInv, UNCHANGED vars
  PROVE  KernelInv'
  <1>1. UNCHANGED <<control, work, lease, target, action, owner, incident, disposed,
                    session, posts, remote>>
    BY DEF vars, rows
  <1>2. TypeOK'
    BY <1>1 DEF KernelInv, TypeOK
  <1>3. QuietSessions
    BY <1>1 DEF QuietSessions
  <1> QED BY <1>1, <1>2, <1>3, SameWork, SameEnds, SameIncident, SameLeases, QuietStep
          DEF KernelInv

-----------------------------------------------------------------------------
(* The theorems. *)

LEMMA NextStep == KernelInv /\ [Next]_vars => KernelInv'
  <1> SUFFICES ASSUME KernelInv, [Next]_vars PROVE KernelInv'
    OBVIOUS
  <1>1. CASE UNCHANGED vars
    BY <1>1, StutterStep
  <1>2. CASE ChangePolicy
    BY <1>2, PolicyStep
  <1>3. ASSUME NEW s \in Sources, Ingest(s) PROVE KernelInv'
    BY <1>3, IngestStep
  <1>4. ASSUME NEW c \in Controllers, Execution(c) PROVE KernelInv'
    <2>1. ASSUME NEW w \in Works, Claim(c, w) PROVE KernelInv'
      BY <2>1, ClaimStep
    <2>2. ASSUME NEW outcome \in Verified \cup {"uncertain"}, RecordOutcome(c, outcome)
          PROVE  KernelInv'
      BY <2>2, OutcomeStep
    <2> QED BY <1>4, <2>1, <2>2, ReserveStep, PostStep, SubmissionStep, RejectionStep,
               FinalizeStep, DisposeStep, RetryLaterStep, AbandonStep
            DEF Execution
  <1>5. ASSUME NEW w \in Works, LeaseExpires(w) \/ RefuseRetry(w) \/ DisposeUnclaimed(w)
        PROVE  KernelInv'
    BY <1>5, ExpiryStep, RefuseStep, DisposeUnclaimedStep
  <1>6. ASSUME NEW a \in Attempts, RunEnds(a) PROVE KernelInv'
    BY <1>6, RunEndsStep
  <1> QED BY <1>1, <1>2, <1>3, <1>4, <1>5, <1>6 DEF Next

\* KernelInv is inductive: no interleaving of claims, reservations, requests,
\* lost acknowledgements, polls, retries and dispositions leaves it.
THEOREM KernelInvariant == Spec => []KernelInv
  BY InitKernel, NextStep, PTL DEF Spec

\* The two lease rows agree, an effect that is not verified keeps work that
\* will verify it, and completed work is over (_claim, _finalize,
\* disposition_source, transition_work).
THEOREM WorkIsSafe == Spec => []WorkSafe
  <1>1. KernelInv => OneHolder
    BY DEF KernelInv, LeasesNamed, OneHolder
  <1>2. KernelInv => EffectKeepsWork
    <2> SUFFICES ASSUME KernelInv, NEW a \in Attempts, action[a].state \in Active
                 PROVE  \E w \in {SourceWork(a), VerifyWork(a)} :
                          work[w].status \in Runnable /\ work[w].action
      BY DEF EffectKeepsWork
    <2>1. CASE action[a].state = "reserved"
      BY <2>1 DEF KernelInv, WorkBacked
    <2>2. CASE action[a].state \in {"submitted", "uncertain"}
      BY <2>2 DEF KernelInv, WorkBacked
    <2> QED BY <2>1, <2>2 DEF Active
  <1>3. KernelInv => WorkSafe
    BY <1>1, <1>2 DEF WorkSafe, KernelInv
  <1> QED BY <1>3, KernelInvariant, PTL

\* An incident causes at most one change at the service, a source told to have
\* no effect has none, the incident shows its newest run, and every failed run
\* counts once (_reserve, disposition_source, historical_predicate,
\* occurrence_marker_sql).
THEOREM EffectsAreTruthful == Spec => []EffectsTruthful
  <1>1. KernelInv => OneEffect
    <2> SUFFICES ASSUME KernelInv PROVE OneEffect
      OBVIOUS
    <2> DEFINE E == {a \in Attempts : remote[a] # "none"}
    <2>1. \A a \in E : a \in Attempts /\ action[a].state \notin {"none", "rejected"}
      BY DEF KernelInv, RequestsRecorded
    <2>2. \A a, b \in E : a = b
      <3> SUFFICES ASSUME NEW a \in E, NEW b \in E PROVE a = b
        OBVIOUS
      <3>1. a[1] = b[1]
        BY <2>1 DEF KernelInv, OneChain
      <3>2. ~(a[2] < b[2]) /\ ~(b[2] < a[2])
        BY <2>1, <3>1 DEF KernelInv, OneChain
      <3>3. a \in Attempts /\ b \in Attempts /\ a[2] \in Nat /\ b[2] \in Nat
        BY <2>1, AttemptFacts
      <3>4. a[2] = b[2]
        BY <3>2, <3>3
      <3> QED BY <3>1, <3>3, <3>4, AttemptFacts
    <2>3. CASE E = {}
      BY <2>3, FS_EmptySet DEF OneEffect
    <2>4. CASE E # {}
      <3>1. PICK a \in E : TRUE
        BY <2>4
      <3>2. E = {a}
        BY <2>2, <3>1
      <3>3. Cardinality(E) = 1
        BY <3>2, FS_Singleton
      <3> QED BY <3>3 DEF OneEffect
    <2> QED BY <2>3, <2>4
  <1>2. KernelInv => NoEffectIsTrue
    <2> SUFFICES ASSUME KernelInv, NEW a \in Attempts, disposed[a[1]] = "no_effect"
                 PROVE  remote[a] = "none" /\ action[a].state = "none"
      BY DEF NoEffectIsTrue
    <2>1. a[1] \in Sources /\ a[2] \in 0 .. MaxRetry /\ a = <<a[1], a[2]>>
      BY DEF Attempts
    <2>2. action[<<a[1], a[2]>>].state = "none"
      BY <2>1 DEF KernelInv, NothingLater, NoReservation
    <2>3. action[a].state = "none"
      BY <2>1, <2>2
    <2> QED BY <2>3 DEF KernelInv, RequestsRecorded
  <1>3. KernelInv => EffectsTruthful
    BY <1>1, <1>2 DEF EffectsTruthful, KernelInv
  <1> QED BY <1>3, KernelInvariant, PTL

-----------------------------------------------------------------------------
(* The SQL store implements the abstract fence.                            *)

LEMMA FateFacts ==
  ASSUME KernelInv, NEW a \in Attempts
  PROVE  /\ Fate(a) = "none" <=> action[a].state = "none"
         /\ action[a].state \in Active => Fate(a) = "open"
  BY DEF Fate, KernelInv, TypeOK, Active, Verified

\* A step that leaves the owner, requests and fates alone is a stutter.
LEMMA FenceStutter ==
  ASSUME UNCHANGED <<owner, posts>>, \A a \in Attempts : Fate(a)' = Fate(a)
  PROVE  UNCHANGED Promise!vars
  BY DEF Promise!vars

LEMMA SameFates ==
  ASSUME UNCHANGED action
  PROVE  \A a \in Attempts : Fate(a)' = Fate(a)
  BY DEF Fate

\* A reservation takes the target.
LEMMA ReserveTakes ==
  ASSUME KernelInv, NEW c \in Controllers, Reserve(c)
  PROVE  Promise!Next
  <1> DEFINE w == session[c].work
             a == Attempt(session[c].work)
  <1>1. /\ session[c].pc = "claimed" /\ Authorized(c) /\ owner = None
        /\ action' = [action EXCEPT ![a].state = "reserved"]
        /\ owner' = a /\ UNCHANGED posts
    BY DEF Reserve, AttachReservation, At, WorkOf
  <1>2. /\ w \in Works /\ a \in Attempts
        /\ work[w].status = "leased" /\ ~work[w].action
    BY <1>1, SessionFacts DEF Authorized, WorkOf
  <1>3. action[a].state = "none"
    BY <1>2, UnreservedWork
  <1>4. \A b \in Attempts : Fate(b)' = IF b = a THEN "open" ELSE Fate(b)
    BY <1>1, <1>2 DEF Fate, Active, KernelInv, TypeOK
  <1>5. Fate(a) = "none"
    BY <1>2, <1>3, FateFacts
  <1>6. Promise!Take(a)
    BY <1>1, <1>2, <1>4, <1>5 DEF Promise!Take
  <1> QED BY <1>2, <1>6 DEF Promise!Next

\* The request is the first one, and leaves while its attempt owns the target:
\* an attempt that has not been requested cannot have been verified.
LEMMA PostSends ==
  ASSUME KernelInv, NEW c \in Controllers, Post(c)
  PROVE  Promise!Next
  <1>0. PICK a \in Attempts : a = Attempt(session[c].work)
    BY SessionFacts DEF Post, At
  <1>1. /\ session[c].pc = "posting"
        /\ UNCHANGED <<owner, action>>
        /\ posts' = [posts EXCEPT ![a] = posts[a] + 1]
    BY <1>0 DEF Post, At, AttemptOf, WorkOf, rows
  <1>2. /\ a \in Attempts /\ posts[a] = 0
        /\ action[a].state \notin {"none", "rejected"}
    BY <1>0, <1>1, SessionFacts DEF Submitting
  <1>3. action[a].state \in Active
    BY <1>2 DEF KernelInv, TypeOK, RequestsRecorded, Active
  <1>4. owner = a
    BY <1>2, <1>3 DEF KernelInv, OwnerExact
  <1>5. posts \in [Attempts -> Nat]
    BY DEF KernelInv, TypeOK
  <1>6. \A b \in Attempts : posts'[b] > 0 <=> (posts[b] > 0 \/ b = a)
    BY <1>1, <1>2, <1>5
  <1>7. Fate(a) # "none" /\ \A b \in Attempts : Fate(b)' = Fate(b)
    BY <1>1, <1>2, FateFacts, SameFates
  <1>8. a \notin {b \in Attempts : posts[b] > 0}
    BY <1>2
  <1>9. {b \in Attempts : posts[b] > 0}' = {b \in Attempts : posts[b] > 0} \cup {a}
    BY <1>2, <1>6
  <1>10. Promise!Send(a)
    BY <1>1, <1>2, <1>4, <1>7, <1>8, <1>9 DEF Promise!Send
  <1> QED BY <1>10 DEF Promise!Next

\* Closing an open change, whatever with.
LEMMA Closes ==
  ASSUME KernelInv, NEW a \in Attempts, NEW state \in Verified \cup {"rejected"},
         action[a].state \in Active,
         action'[a].state = state, \A b \in Attempts : b # a => action'[b] = action[b],
         owner' = None, UNCHANGED posts, state \in Verified => posts[a] = 1
  PROVE  Promise!Next
  <1> DEFINE verdict == CASE state = "verified_succeeded" -> "succeeded"
                          [] state = "verified_failed" -> "failed"
                          [] OTHER -> state
  <1>1. /\ verdict \in {"succeeded", "failed", "rejected"}
        /\ verdict # "rejected" => state \in Verified
    BY DEF Verified
  <1>2. \A b \in Attempts : Fate(b)' = IF b = a THEN verdict ELSE Fate(b)
    BY DEF Fate, Active, Verified
  <1>3. Fate(a) = "open"
    BY FateFacts
  <1>4. verdict \in Promise!Verdicts => posts[a] > 0
    BY <1>1 DEF Promise!Verdicts
  <1>5. verdict \in Promise!Verdicts \cup {"rejected"}
    BY <1>1 DEF Promise!Verdicts
  <1>6. owner = a
    BY DEF KernelInv, OwnerExact
  <1> HIDE DEF verdict
  <1>7. Promise!Close(a, verdict)
    BY <1>2, <1>3, <1>4, <1>6 DEF Promise!Close
  <1> QED BY <1>5, <1>7 DEF Promise!Next

LEMMA RejectionCloses ==
  ASSUME KernelInv, NEW c \in Controllers, RecordRejection(c)
  PROVE  Promise!Next
  <1> DEFINE a == Attempt(session[c].work)
  <1>1. /\ session[c].pc \in {"throttled", "refused"}
        /\ action[a].state = "reserved"
        /\ owner' = None /\ UNCHANGED posts
    BY DEF RecordRejection, StateOf, AttemptOf, WorkOf
  <1>2. a \in Attempts
    BY <1>1, SessionFacts
  <1>3. action'[a].state = "rejected" /\ \A b \in Attempts : b # a => action'[b] = action[b]
    BY <1>2 DEF RecordRejection, AttemptOf, WorkOf, KernelInv, TypeOK
  <1>4. action[a].state \in Active
    BY <1>1 DEF Active
  <1> QED BY <1>1, <1>2, <1>3, <1>4, Closes DEF Verified

LEMMA SubmissionStutters ==
  ASSUME KernelInv, NEW c \in Controllers, RecordSubmission(c)
  PROVE  UNCHANGED Promise!vars
  <1> DEFINE a == Attempt(session[c].work)
  <1>1. /\ session[c].pc # "idle" /\ action[a].state = "reserved" /\ UNCHANGED <<owner, posts>>
    BY DEF RecordSubmission, StateOf, AttemptOf, WorkOf, At
  <1>2. a \in Attempts
    BY <1>1, SessionFacts
  <1>3. /\ action'[a].state \in {"submitted", "uncertain"}
        /\ \A b \in Attempts : b # a => action'[b] = action[b]
    BY <1>2 DEF RecordSubmission, AttemptOf, WorkOf, KernelInv, TypeOK
  <1>4. \A b \in Attempts : Fate(b)' = Fate(b)
    BY <1>1, <1>3 DEF Fate, Active
  <1> QED BY <1>1, <1>4, FenceStutter

LEMMA OutcomeCloses ==
  ASSUME KernelInv, NEW c \in Controllers, NEW outcome \in Verified \cup {"uncertain"},
         RecordOutcome(c, outcome)
  PROVE  [Promise!Next]_(Promise!vars)
  <1> DEFINE a == Attempt(session[c].work)
  <1>1. /\ session[c].pc # "idle"
        /\ action[a].state \in Active /\ action[a].known
        /\ action' = [action EXCEPT ![a].state = outcome]
        /\ UNCHANGED posts
    BY DEF RecordOutcome, MayTransition, StateOf, At, AttemptOf, WorkOf
  <1>2. a \in Attempts
    BY <1>1, SessionFacts
  <1>3. action'[a].state = outcome /\ \A b \in Attempts : b # a => action'[b] = action[b]
    BY <1>1, <1>2 DEF KernelInv, TypeOK
  <1>4. CASE outcome \in Verified
    <2>1. owner' = None
      BY <1>4 DEF RecordOutcome
    <2>2. posts[a] = 1
      BY <1>1, <1>2 DEF KernelInv, RequestsRecorded
    <2> QED BY <1>1, <1>2, <1>3, <1>4, <2>1, <2>2, Closes
  <1>5. CASE outcome \notin Verified
    <2>1. outcome = "uncertain" /\ UNCHANGED owner
      BY <1>5 DEF RecordOutcome
    <2>2. \A b \in Attempts : Fate(b)' = Fate(b)
      BY <1>1, <1>3, <2>1 DEF Fate, Active
    <2> QED BY <1>1, <2>1, <2>2, FenceStutter
  <1> QED BY <1>4, <1>5

\* Two lease rows, promotion, retries and lost acknowledgements implement the
\* same fence as the in-memory engine: _reserve takes the target, the request
\* is sent once and inside, and _transition closes the change for good.
THEOREM SqlFenceRefinement == Spec => ImplementsFence
  <1>1. Init => Promise!Init
    BY DEF Init, Promise!Init, Fate, Active
  <1>2. KernelInv /\ [Next]_vars => [Promise!Next]_(Promise!vars)
    <2> SUFFICES ASSUME KernelInv, [Next]_vars PROVE [Promise!Next]_(Promise!vars)
      OBVIOUS
    <2>1. ASSUME UNCHANGED <<action, owner, posts>>
          PROVE  UNCHANGED Promise!vars
      BY <2>1, SameFates, FenceStutter
    <2>2. CASE UNCHANGED vars
      BY <2>1, <2>2 DEF vars, rows
    <2>3. CASE ChangePolicy
      BY <2>1, <2>3 DEF ChangePolicy, rows
    <2>4. ASSUME NEW s \in Sources, Ingest(s) PROVE UNCHANGED Promise!vars
      BY <2>1, <2>4 DEF Ingest
    <2>5. ASSUME NEW w \in Works, LeaseExpires(w) \/ RefuseRetry(w) \/ DisposeUnclaimed(w)
          PROVE  UNCHANGED Promise!vars
      BY <2>1, <2>5 DEF LeaseExpires, RefuseRetry, DisposeUnclaimed
    <2>6. ASSUME NEW a \in Attempts, RunEnds(a) PROVE UNCHANGED Promise!vars
      BY <2>1, <2>6 DEF RunEnds, rows
    <2>7. ASSUME NEW c \in Controllers, Execution(c) PROVE [Promise!Next]_(Promise!vars)
      <3>1. CASE (\E w \in Works : Claim(c, w)) \/ Finalize(c) \/ Dispose(c) \/ RetryLater(c)
                 \/ Abandon(c)
        <4>1. UNCHANGED <<action, owner, posts>>
          BY <3>1 DEF Claim, Finalize, Dispose, RetryLater, Abandon, rows
        <4> QED BY <4>1, <2>1
      <3>2. CASE Reserve(c)
        BY <3>2, ReserveTakes
      <3>3. CASE Post(c)
        BY <3>3, PostSends
      <3>4. CASE RecordSubmission(c)
        BY <3>4, SubmissionStutters
      <3>5. CASE RecordRejection(c)
        BY <3>5, RejectionCloses
      <3>6. ASSUME NEW outcome \in Verified \cup {"uncertain"}, RecordOutcome(c, outcome)
            PROVE  [Promise!Next]_(Promise!vars)
        BY <3>6, OutcomeCloses
      <3> QED BY <2>7, <3>1, <3>2, <3>3, <3>4, <3>5, <3>6 DEF Execution
    <2> QED BY <2>2, <2>3, <2>4, <2>5, <2>6, <2>7 DEF Next
  <1> QED BY <1>1, <1>2, KernelInvariant, PTL DEF Spec, ImplementsFence, Promise!Spec
=============================================================================
