-------------------------- MODULE SharedRowsProofs --------------------------
(***************************************************************************)
(* What the processes that share a table's rows promise, for any number of *)
(* them: of the claims of the mailbox sweep, of the rows of postponed      *)
(* retries, of the incidents with their journal, and of the budgets of     *)
(* requests.  The components have no variable in common; each has its      *)
(* inductive invariant.                                                    *)
(***************************************************************************)
EXTENDS SharedRows, Sequences, FiniteSetTheorems, TLAPS

-----------------------------------------------------------------------------
(* The mailbox sweep: claims, leases and outcomes. *)

\* A fresh row and the absent row are rows.
LEMMA RowsOf ==
  ASSUME NEW i \in Instances
  PROVE  NewRow(i) \in Row /\ NoRow \in Row
  BY LeaseAssumption DEF NewRow, Row, NoRow

\* The initial state of a sweep satisfies the inductive invariant.
LEMMA InitIInv == Init => IInv
  <1> SUFFICES ASSUME Init PROVE IInv
    OBVIOUS
  <1>1. TypeOK
    BY LeaseAssumption, MaxCrashesAssumption
    DEF Init, ClaimInit, TypeOK, ClaimTypeOK, Row, NoRow, Steps, NoAlert, Alerts
  <1>2. LeaseIsRow /\ AlertChosen /\ ProcessedIsRecorded
    BY DEF Init, LeaseIsRow, AlertChosen, ProcessedIsRecorded, Inside
  <1> QED BY <1>1, <1>2 DEF IInv

\* The part of an invocation before it has a claim: listing and classifying.
LEMMA FetchStep ==
  ASSUME IInv, NEW i \in Instances, NEW m,
         StartFetch(i) \/ Classify(i, m) \/ FetchFails(i) \/ EndFetch(i) \/ EndSweep(i)
  PROVE  IInv'
  <1>1. TypeOK'
    BY DEF IInv, TypeOK, ClaimTypeOK, claimVars, Steps, Goto,
           StartFetch, Classify, FetchFails, EndFetch, EndSweep
  <1>2. LeaseIsRow' /\ AlertChosen' /\ ProcessedIsRecorded'
    BY DEF IInv, TypeOK, LeaseIsRow, AlertChosen, ProcessedIsRecorded, Inside,
           claimVars, Goto, StartFetch, Classify, FetchFails, EndFetch, EndSweep
  <1> QED BY <1>1, <1>2 DEF IInv

\* An invocation that gets its claim, by INSERT or by stealing an expired
\* row, starts with a row that is its own for a whole lease; and nobody
\* whose lease is live loses a row to it.
LEMMA ClaimStep ==
  ASSUME IInv, NEW i \in Instances, NEW m,
         ClaimByInsert(i, m) \/ ClaimBySteal(i)
  PROVE  IInv'
  <1> DEFINE k == alert'[i]
  <1>1. k \in Alerts /\ alert' = [alert EXCEPT ![i] = k]
    BY DEF IInv, TypeOK, AlertChosen, Inside, Alerts, Take,
           ClaimByInsert, ClaimBySteal
  <1>2. /\ rows[k].owner = NoInstance \/ rows[k].left = 0
        /\ rows' = [rows EXCEPT ![k] = NewRow(i)]
        /\ pc' = [pc EXCEPT ![i] = "running"]
        /\ left' = [left EXCEPT ![i] = Lease]
        /\ UNCHANGED <<processed, recorded, crashes, unread>>
    BY <1>1 DEF IInv, TypeOK, Alerts, Take, Enter, InsertClaim, StealClaim,
           HasRow, ClaimByInsert, ClaimBySteal
  <1>3. TypeOK'
    BY <1>1, <1>2, RowsOf, LeaseAssumption
    DEF IInv, TypeOK, ClaimTypeOK, Steps, Alerts, Take, Enter, Hold,
        InsertClaim, StealClaim, ClaimByInsert, ClaimBySteal
  <1>4. LeaseIsRow'
    <2> SUFFICES ASSUME NEW j \in Instances, pc'[j] \in Inside, left'[j] > 0
                 PROVE  rows'[alert'[j]] = [owner |-> j, left |-> left'[j]]
      BY DEF LeaseIsRow
    <2>1. CASE j = i
      BY <1>1, <1>2, <2>1 DEF IInv, TypeOK, ClaimTypeOK, Alerts, NewRow
    <2>2. CASE j # i
      <3>1. rows[alert[j]] = [owner |-> j, left |-> left[j]] /\ left[j] > 0
            /\ alert'[j] = alert[j] /\ left'[j] = left[j]
        BY <1>1, <1>2, <2>2 DEF IInv, TypeOK, LeaseIsRow
      <3>2. alert[j] # k
        BY <3>1, <1>2, NoInstanceAssumption DEF IInv, TypeOK
      <3> QED BY <3>1, <3>2, <1>2, <1>1 DEF IInv, TypeOK, ClaimTypeOK, Alerts
    <2> QED BY <2>1, <2>2
  <1>5. AlertChosen' /\ ProcessedIsRecorded'
    BY <1>1, <1>2 DEF IInv, TypeOK, AlertChosen, ProcessedIsRecorded, Inside
  <1> QED BY <1>3, <1>4, <1>5 DEF IInv

\* A claim that is refused or unconfirmed may leave a row behind, but never
\* over a row whose lease is live.
LEMMA NoClaimStep ==
  ASSUME IInv, NEW i \in Instances, NEW m,
         ClaimDuplicate(i, m) \/ ClaimUnconfirmed(i, m) \/ ClaimRefused(i)
  PROVE  IInv'
  <1>1. /\ pc[i] \notin Inside /\ pc'[i] \in Steps \ Inside
        /\ pc' = [pc EXCEPT ![i] = pc'[i]]
        /\ \A j \in Instances \ {i} : alert'[j] = alert[j]
        /\ pc'[i] = "stealing" => alert'[i] \in Alerts
        /\ UNCHANGED <<processed, recorded, left, crashes>>
    BY DEF IInv, TypeOK, Inside, Steps, Goto, Take, ClaimDuplicate,
           ClaimUnconfirmed, ClaimRefused
  <1>2. \A k \in Keys : rows'[k] = rows[k] \/ rows[k].owner = NoInstance
                                            \/ rows[k].left = 0
    BY DEF IInv, TypeOK, ClaimTypeOK, Alerts, AlertChosen, Inside, HasRow,
           claimVars, InsertUnconfirmed, StealRefused, ClaimDuplicate,
           ClaimUnconfirmed, ClaimRefused
  <1>3. TypeOK'
    <2>1. rows' \in [Keys -> Row] /\ held' = held
      BY RowsOf DEF IInv, TypeOK, ClaimTypeOK, Alerts, AlertChosen, Inside,
         claimVars, InsertUnconfirmed, StealRefused, ClaimDuplicate,
         ClaimUnconfirmed, ClaimRefused
    <2>2. /\ unread' \in [Instances -> SUBSET Alerts]
          /\ fetched' \in [Instances -> SUBSET Alerts]
          /\ alert' \in [Instances -> Alerts \cup {NoAlert}]
      BY DEF IInv, TypeOK, Take, ClaimDuplicate, ClaimUnconfirmed, ClaimRefused
    <2> QED BY <1>1, <2>1, <2>2 DEF IInv, TypeOK, ClaimTypeOK
  <1>4. LeaseIsRow'
    <2> SUFFICES ASSUME NEW j \in Instances, pc'[j] \in Inside, left'[j] > 0
                 PROVE  rows'[alert'[j]] = [owner |-> j, left |-> left'[j]]
      BY DEF LeaseIsRow
    <2>1. j # i /\ pc[j] \in Inside /\ alert'[j] = alert[j] /\ left'[j] = left[j]
      BY <1>1 DEF IInv, TypeOK
    <2>2. alert[j] \in Keys /\ rows[alert[j]] = [owner |-> j, left |-> left[j]]
      BY <2>1 DEF IInv, LeaseIsRow, AlertChosen, Alerts
    <2> QED BY <2>1, <2>2, <1>2, NoInstanceAssumption DEF IInv, TypeOK
  <1>5. AlertChosen' /\ ProcessedIsRecorded'
    BY <1>1 DEF IInv, TypeOK, AlertChosen, ProcessedIsRecorded, Inside
  <1> QED BY <1>3, <1>4, <1>5 DEF IInv

\* Running and marking leave every claim row alone, and only a recorded
\* alert is marked.
LEMMA RunStep ==
  ASSUME IInv, NEW i \in Instances,
         FinishRun(i) \/ RunFails(i) \/ MarkProcessed(i) \/ MarkFails(i)
  PROVE  IInv'
  <1>1. alert[i] \in Alerts
    BY DEF IInv, AlertChosen, Inside, Goto, FinishRun, RunFails, MarkProcessed,
           MarkFails
  <1>2. TypeOK'
    BY <1>1 DEF IInv, TypeOK, ClaimTypeOK, claimVars, Steps, Goto,
           FinishRun, RunFails, MarkProcessed, MarkFails
  <1>3. LeaseIsRow'
    BY DEF IInv, TypeOK, LeaseIsRow, Inside, claimVars, Goto,
           FinishRun, RunFails, MarkProcessed, MarkFails
  <1>4. AlertChosen' /\ ProcessedIsRecorded'
    BY <1>1 DEF IInv, TypeOK, AlertChosen, ProcessedIsRecorded, Inside, Goto,
           FinishRun, RunFails, MarkProcessed, MarkFails
  <1> QED BY <1>2, <1>3, <1>4 DEF IInv

\* A release deletes a row only while it is the releaser's own, so it takes
\* nothing from an invocation whose lease is live.
LEMMA ReleaseStep ==
  ASSUME IInv, NEW i \in Instances, Release(i)
  PROVE  IInv'
  <1>1. alert[i] \in Keys /\ pc'[i] \in {"choosing", "idle"}
        /\ pc' = [pc EXCEPT ![i] = pc'[i]]
    BY DEF IInv, TypeOK, AlertChosen, Inside, Alerts, Goto, Release
  <1>2. TypeOK'
    <2>1. /\ rows' \in [Keys -> Row]
          /\ held' \in [Instances -> SUBSET Keys]
      BY <1>1, RowsOf DEF IInv, TypeOK, ClaimTypeOK, Release, ReleaseClaim
    <2>2. /\ pc' \in [Instances -> Steps]
          /\ fetched' \in [Instances -> SUBSET Alerts]
      BY <1>1 DEF IInv, TypeOK, Steps, Release
    <2>3. /\ alert' \in [Instances -> Alerts \cup {NoAlert}]
          /\ left' \in [Instances -> 0..Lease]
      BY LeaseAssumption DEF IInv, TypeOK, Release
    <2> QED BY <2>1, <2>2, <2>3 DEF IInv, TypeOK, ClaimTypeOK, Release
  <1>3. LeaseIsRow'
    <2> SUFFICES ASSUME NEW j \in Instances, pc'[j] \in Inside, left'[j] > 0
                 PROVE  rows'[alert'[j]] = [owner |-> j, left |-> left'[j]]
      BY DEF LeaseIsRow
    <2>1. j # i /\ pc[j] \in Inside /\ alert'[j] = alert[j] /\ left'[j] = left[j]
      BY <1>1 DEF IInv, TypeOK, Inside, Release
    <2>2. alert[j] \in Keys /\ rows[alert[j]] = [owner |-> j, left |-> left[j]]
      BY <2>1 DEF IInv, LeaseIsRow, AlertChosen, Alerts
    <2> QED BY <2>1, <2>2, <1>1 DEF IInv, TypeOK, ClaimTypeOK, Release, ReleaseClaim
  <1>4. AlertChosen' /\ ProcessedIsRecorded'
    BY <1>1 DEF IInv, TypeOK, AlertChosen, ProcessedIsRecorded, Inside, Release
  <1> QED BY <1>2, <1>3, <1>4 DEF IInv

\* A container that dies keeps its rows and loses everything else.
LEMMA CrashStep ==
  ASSUME IInv, NEW i \in Instances, Crash(i)
  PROVE  IInv'
  <1>1. TypeOK'
    <2>1. crashes' \in 0..MaxCrashes
      BY MaxCrashesAssumption DEF IInv, TypeOK, Crash
    <2>2. /\ held' \in [Instances -> SUBSET Keys]
          /\ pc' \in [Instances -> Steps]
          /\ unread' \in [Instances -> SUBSET Alerts]
          /\ fetched' \in [Instances -> SUBSET Alerts]
      BY DEF IInv, TypeOK, ClaimTypeOK, Steps, Crash, LoseInstance
    <2>3. /\ alert' \in [Instances -> Alerts \cup {NoAlert}]
          /\ left' \in [Instances -> 0..Lease]
      BY LeaseAssumption DEF IInv, TypeOK, Crash
    <2> QED BY <2>1, <2>2, <2>3 DEF IInv, TypeOK, ClaimTypeOK, Crash, LoseInstance
  <1>2. LeaseIsRow' /\ AlertChosen' /\ ProcessedIsRecorded'
    BY DEF IInv, TypeOK, LeaseIsRow, AlertChosen, ProcessedIsRecorded, Inside,
           Crash, LoseInstance
  <1> QED BY <1>1, <1>2 DEF IInv

\* The clock takes one tick off a lease and off its row alike.
LEMMA TickStep ==
  ASSUME IInv, Tick
  PROVE  IInv'
  <1> USE LeaseAssumption
  <1>0. \A n \in 0..Lease : Ticked(n) \in 0..Lease
    BY DEF Ticked
  <1>1. TypeOK'
    <2>1. ASSUME NEW k \in Keys PROVE rows'[k] \in Row
      <3>1. rows[k] \in Row /\ rows'[k] = [rows[k] EXCEPT !.left = Ticked(@)]
        BY DEF IInv, TypeOK, ClaimTypeOK, Tick, ClockTick
      <3> QED BY <3>1, <1>0 DEF Row
    <2>2. rows' \in [Keys -> Row] /\ left' \in [Instances -> 0..Lease]
      BY <2>1, <1>0 DEF IInv, TypeOK, Tick, ClockTick
    <2> QED BY <2>2 DEF IInv, TypeOK, ClaimTypeOK, Tick, ClockTick
  <1>2. LeaseIsRow'
    <2> SUFFICES ASSUME NEW j \in Instances, pc'[j] \in Inside, left'[j] > 0
                 PROVE  rows'[alert'[j]] = [owner |-> j, left |-> left'[j]]
      BY DEF LeaseIsRow
    <2>1. left[j] \in 0..Lease /\ left[j] > 0 /\ left'[j] = left[j] - 1
          /\ pc[j] \in Inside /\ alert' = alert
      BY DEF IInv, TypeOK, Tick, Ticked
    <2>2. alert[j] \in Keys /\ rows[alert[j]] = [owner |-> j, left |-> left[j]]
      BY <2>1 DEF IInv, LeaseIsRow, AlertChosen, Alerts
    <2>3. rows'[alert[j]] = [rows[alert[j]] EXCEPT !.left = left[j] - 1]
      BY <2>1, <2>2 DEF Tick, ClockTick, Ticked
    <2> QED BY <2>1, <2>2, <2>3
  <1>3. AlertChosen' /\ ProcessedIsRecorded'
    BY DEF IInv, AlertChosen, ProcessedIsRecorded, Tick
  <1> QED BY <1>1, <1>2, <1>3 DEF IInv

\* Every step preserves the inductive invariant.
LEMMA NextIInv == IInv /\ [Next]_vars => IInv'
  <1> SUFFICES ASSUME IInv, [Next]_vars PROVE IInv'
    OBVIOUS
  <1>1. CASE UNCHANGED vars
    BY <1>1 DEF IInv, TypeOK, ClaimTypeOK, LeaseIsRow, AlertChosen,
       ProcessedIsRecorded, vars, claimVars, sweepVars
  <1>2. CASE Tick
    BY <1>2, TickStep
  <1>3. ASSUME NEW i \in Instances, Crash(i) PROVE IInv'
    BY <1>3, CrashStep
  <1>4. ASSUME NEW i \in Instances, Invocation(i) PROVE IInv'
    <2>1. CASE Release(i)
      BY <2>1, ReleaseStep
    <2>2. CASE FinishRun(i) \/ RunFails(i) \/ MarkProcessed(i) \/ MarkFails(i)
      BY <2>2, RunStep
    <2>3. ASSUME NEW m, ClaimByInsert(i, m) \/ ClaimBySteal(i) PROVE IInv'
      BY <2>3, ClaimStep
    <2>4. ASSUME NEW m,
                 ClaimDuplicate(i, m) \/ ClaimUnconfirmed(i, m) \/ ClaimRefused(i)
          PROVE  IInv'
      BY <2>4, NoClaimStep
    <2>5. ASSUME NEW m,
                 StartFetch(i) \/ Classify(i, m) \/ FetchFails(i) \/ EndFetch(i) \/ EndSweep(i)
          PROVE  IInv'
      BY <2>5, FetchStep
    <2> QED BY <1>4, <2>1, <2>2, <2>3, <2>4, <2>5 DEF Invocation
  <1> QED BY <1>1, <1>2, <1>3, <1>4 DEF Next

\* Sweeps keep their types, their leases and their rows in step.
THEOREM SweepInvariant == Spec => []IInv
  BY InitIInv, NextIInv, PTL DEF Spec

\* Two invocations triage one alert at once only past the lease of one.
THEOREM SweepExclusion == Spec => []OverlapNeedsOverrun
  <1>1. IInv => OverlapNeedsOverrun
    <2> SUFFICES ASSUME IInv, NEW i \in Instances, NEW j \in Instances, i # j,
                        pc[i] \in Inside, pc[j] \in Inside, alert[i] = alert[j],
                        left[i] # 0, left[j] # 0
                 PROVE  FALSE
      BY DEF OverlapNeedsOverrun
    <2>1. left[i] > 0 /\ left[j] > 0
      BY LeaseAssumption DEF IInv, TypeOK
    <2>2. rows[alert[i]].owner = i /\ rows[alert[j]].owner = j
      <3>1. rows[alert[i]] = [owner |-> i, left |-> left[i]]
            /\ rows[alert[j]] = [owner |-> j, left |-> left[j]]
        BY <2>1 DEF IInv, LeaseIsRow
      <3> QED BY <3>1
    <2> QED BY <2>2
  <1> QED BY <1>1, SweepInvariant, PTL

\* An alert that is marked processed has a persisted outcome.
THEOREM NoAlertLost == Spec => []ProcessedIsRecorded
  <1>1. IInv => ProcessedIsRecorded
    BY DEF IInv
  <1> QED BY <1>1, SweepInvariant, PTL

-----------------------------------------------------------------------------
(* Finite sets are the same ones in every instance. *)

LEMMA RetryFinite ==
  /\ \A S : Retry!IsFiniteSet(S) <=> IsFiniteSet(S)
  /\ \A S : Retry!Cardinality(S) = Cardinality(S)
  <1>1. \A S : Retry!IsFiniteSet(S) <=> IsFiniteSet(S)
    BY DEF Retry!IsFiniteSet, IsFiniteSet
  <1>2. \A S : Retry!Cardinality(S) = Cardinality(S)
    BY <1>1 DEF Retry!Cardinality, Cardinality
  <1> QED BY <1>1, <1>2

-----------------------------------------------------------------------------
(* Work and rows. *)

LEMMA WorkFacts ==
  ASSUME Retry!RetryAssumption
  PROVE  /\ \A w \in Retry!Works : /\ w[1] \in Sources /\ w[2] \in Nat /\ w[2] <= MaxAttempts
                                   /\ Retry!Signature(w) \in Signatures
         /\ \A w \in Retry!Retries : /\ w \in Retry!Works /\ w # Retry!NoWork /\ w[2] \in 1 .. MaxAttempts
                                     /\ <<w[1], w[2] - 1>> \in Retry!Works
         /\ \A w \in Retry!Works : w[2] < MaxAttempts =>
              /\ Retry!Successor(w) \in Retry!Retries /\ Retry!Successor(w) \in Retry!Works
              /\ Retry!Successor(w)[1] = w[1] /\ Retry!Successor(w)[2] = w[2] + 1
              /\ Retry!Signature(Retry!Successor(w)) = Retry!Signature(w) /\ Retry!Successor(w) # w
         /\ \A v \in Retry!Retries : \A w \in Retry!Works : <<v[1], v[2] - 1>> = w <=> v = Retry!Successor(w)
  <1>1. \A w \in Retry!Works : w[1] \in Sources /\ w[2] \in 0 .. MaxAttempts /\ w = <<w[1], w[2]>>
    BY DEF Retry!Works
  <1>2. \A w \in Retry!Retries : w[1] \in Sources /\ w[2] \in 1 .. MaxAttempts /\ w = <<w[1], w[2]>>
    BY DEF Retry!Retries
  <1>3. MaxAttempts \in Nat /\ \A s \in Sources : SignatureOf[s] \in Signatures
    BY DEF Retry!RetryAssumption
  <1>4. \A w \in Retry!Retries : w \in Retry!Works /\ w # Retry!NoWork
    BY <1>2, <1>3 DEF Retry!Works, Retry!NoWork
  <1>5. \A w \in Retry!Retries : <<w[1], w[2] - 1>> \in Retry!Works
    BY <1>2, <1>3 DEF Retry!Works
  <1>6. ASSUME NEW w \in Retry!Works, w[2] < MaxAttempts
        PROVE  /\ Retry!Successor(w) \in Retry!Retries /\ Retry!Successor(w)[1] = w[1] /\ Retry!Successor(w)[2] = w[2] + 1
               /\ Retry!Successor(w) # w
    BY <1>1, <1>3, <1>6 DEF Retry!Successor, Retry!Retries
  <1>7. ASSUME NEW v \in Retry!Retries, NEW w \in Retry!Works
        PROVE  <<v[1], v[2] - 1>> = w <=> v = Retry!Successor(w)
    <2>1. v[2] \in Int /\ w[2] \in Int
      BY <1>1, <1>2
    <2>2. <<v[1], v[2] - 1>> = w <=> v[1] = w[1] /\ v[2] - 1 = w[2]
      BY <1>1
    <2>3. v = Retry!Successor(w) <=> v[1] = w[1] /\ v[2] = w[2] + 1
      BY <1>2 DEF Retry!Successor
    <2> QED BY <2>1, <2>2, <2>3
  <1>8. \A w \in Retry!Works : Retry!Signature(w) \in Signatures
    BY <1>1, <1>3 DEF Retry!Signature
  <1>9. \A w \in Retry!Works : w[2] < MaxAttempts => Retry!Signature(Retry!Successor(w)) = Retry!Signature(w) /\ Retry!Successor(w) \in Retry!Works
    BY <1>4, <1>6 DEF Retry!Signature
  <1> QED BY <1>1, <1>2, <1>3, <1>4, <1>5, <1>6, <1>7, <1>8, <1>9

\* What writing a row does to it: attempts only grow, and a row that is closed
\* for a retry is not pending for it again.
LEMMA DeferredFacts ==
  ASSUME Retry!RetryAssumption, NEW r \in Retry!Rows, NEW s \in Sources
  PROVE  /\ Retry!Deferred(r, s) \in Retry!Rows /\ Retry!Deferred(r, s).attempts >= r.attempts
         /\ \/ Retry!Deferred(r, s).status = "exhausted" /\ Retry!Deferred(r, s).work = r.work
               /\ Retry!Deferred(r, s).source = r.source /\ Retry!Deferred(r, s).attempts = r.attempts
            \/ Retry!Deferred(r, s).work = Retry!NoWork /\ Retry!Deferred(r, s).source = s
  <1>1. r.attempts \in Nat /\ r.attempts <= MaxAttempts /\ MaxAttempts \in Nat
    BY DEF Retry!Rows, Retry!RetryAssumption
  <1>2. CASE r.attempts + 1 > MaxAttempts
    <2>1. Retry!Deferred(r, s) = [r EXCEPT !.status = "exhausted"]
      BY <1>2 DEF Retry!Deferred
    <2> QED BY <1>1, <2>1 DEF Retry!Rows
  <1>3. CASE ~(r.attempts + 1 > MaxAttempts)
    <2>1. Retry!Deferred(r, s) = [status |-> "pending", attempts |-> r.attempts + 1, source |-> s, work |-> Retry!NoWork]
      BY <1>3 DEF Retry!Deferred
    <2>2. r.attempts + 1 \in 0 .. MaxAttempts
      BY <1>1, <1>3
    <2> QED BY <1>1, <2>1, <2>2 DEF Retry!Rows
  <1> QED BY <1>2, <1>3

LEMMA LinkedFacts ==
  ASSUME Retry!RetryAssumption, NEW r \in Retry!Rows, NEW w \in Retry!Retries
  PROVE  /\ Retry!Linked(r, w) \in Retry!Rows /\ Retry!Linked(r, w).attempts >= r.attempts
         /\ \/ Retry!Linked(r, w) = r
            \/ /\ Retry!Linked(r, w).work = w /\ r.work # w /\ Retry!Linked(r, w).source = w[1]
               /\ Retry!Linked(r, w).attempts = w[2]
  <1>1. r.attempts \in Nat /\ w[1] \in Sources /\ w[2] \in 0 .. MaxAttempts
    BY WorkFacts DEF Retry!Rows, Retry!RetryAssumption, Retry!Retries
  <1>2. CASE r.work = w \/ r.attempts > w[2]
    BY <1>1, <1>2 DEF Retry!Linked
  <1>3. CASE ~(r.work = w \/ r.attempts > w[2])
    <2>1. Retry!Linked(r, w) = [status |-> "pending", attempts |-> w[2], source |-> w[1], work |-> w]
      BY <1>3 DEF Retry!Linked
    <2>2. w[2] >= r.attempts
      BY <1>1, <1>3
    <2> QED BY <1>1, <1>3, <2>1, <2>2 DEF Retry!Rows
  <1> QED BY <1>2, <1>3

LEMMA CompletedFacts ==
  ASSUME NEW r \in Retry!Rows
  PROVE  /\ Retry!Completed(r) \in Retry!Rows /\ Retry!Completed(r).attempts = r.attempts
         /\ Retry!Completed(r).work = r.work /\ Retry!Completed(r).source = r.source
         /\ Retry!Completed(r).status \in {"none", "done"}
  BY DEF Retry!Completed, Retry!Rows

-----------------------------------------------------------------------------
(* The invariant, process by process. *)

ProcRow == [pc: {"idle", "admitting", "claiming", "running", "projecting", "recording", "closing"},
            work: Retry!Works \cup {Retry!NoWork}, drain: BOOLEAN, todo: SUBSET Retry!Rows,
            mine: SUBSET Retry!Retries, left: 0 .. Cardinality(Signatures)]

\* What is written to the row of signature g.
Fits(g, r) ==
  Retry!Describes(r) /\ (r.status = "pending" \/ r.work # Retry!NoWork => SignatureOf[r.source] = g)

ProcessOK(p) ==
  /\ \A r \in proc[p].todo : r.status = "pending" /\ Retry!Describes(r)
  /\ IsFiniteSet(proc[p].todo)
  /\ proc[p].left + Cardinality(proc[p].todo) <= Cardinality(Signatures)
  /\ Retry!At(p, "running") => work[Retry!WorkOf(p)] = "leased"
  /\ proc[p].pc \in {"running", "projecting", "recording", "closing"} => Retry!WorkOf(p) \in Retry!Works
  /\ Retry!At(p, "recording") => Retry!HasSuccessor(Retry!WorkOf(p))

Solo == \A p, q \in Drains :
  Retry!At(p, "running") /\ Retry!At(q, "running") /\ Retry!WorkOf(p) = Retry!WorkOf(q) => p = q

RowsFit == \A g \in Signatures : Fits(g, row[g])

WorksOK == Retry!Chained /\ Retry!PostedOnce

LEMMA RetryParts ==
  Retry!RetryInv <=> Retry!TypeOK /\ RowsFit /\ (\A p \in Drains : ProcessOK(p)) /\ Solo /\ WorksOK
  BY RetryFinite DEF Retry!RetryInv, RowsFit, Fits, ProcessOK, Solo, WorksOK, Retry!RowsDescribe,
     Retry!DrainsBounded,
         Retry!Executors, Retry!Projections

LEMMA RetryPartsNext ==
  ASSUME Retry!TypeOK', RowsFit', \A p \in Drains : ProcessOK(p)', Solo', WorksOK'
  PROVE  Retry!RetryInv'
  <1>1. Retry!RowsDescribe'
    BY DEF RowsFit, Fits, ProcessOK, Retry!RowsDescribe
  <1>2. Retry!DrainsBounded' /\ Retry!Executors' /\ Retry!Projections'
    BY RetryFinite DEF ProcessOK, Solo, Retry!DrainsBounded, Retry!Executors, Retry!Projections
  <1> QED BY <1>1, <1>2 DEF Retry!RetryInv, WorksOK

LEMMA RetryTypes ==
  ASSUME Retry!TypeOK
  PROVE  /\ revoked \in BOOLEAN /\ row \in [Signatures -> Retry!Rows] /\ posts \in [Retry!Works -> Nat]
         /\ work \in [Retry!Works -> {"absent", "queued", "leased", "completed"}]
         /\ fate \in [Retry!Works -> {"none", "settled", "rejected"}]
         /\ proc \in [Drains -> ProcRow]
  BY RetryFinite DEF Retry!TypeOK, ProcRow

\* Work is never forgotten.
WorkStays == \A w \in Retry!Works : work[w] # "absent" => work'[w] # "absent"

LEMMA DescribesStays ==
  ASSUME Retry!RetryAssumption, WorkStays, NEW r \in Retry!Rows, Retry!Describes(r)
  PROVE  Retry!Describes(r)'
  <1>1. r.work # Retry!NoWork => r.work \in Retry!Works
    BY WorkFacts DEF Retry!Rows
  <1> QED BY <1>1 DEF Retry!Describes, WorkStays

LEMMA ProcessSpared ==
  ASSUME Retry!RetryAssumption, Retry!TypeOK, WorkStays, NEW p \in Drains, ProcessOK(p), proc'[p] = proc[p],
         Retry!At(p, "running") => work'[Retry!WorkOf(p)] = work[Retry!WorkOf(p)]
  PROVE  ProcessOK(p)'
  <1>1. \A r \in proc[p].todo : r.status = "pending" /\ Retry!Describes(r)'
    <2>1. proc[p].todo \subseteq Retry!Rows
      BY RetryTypes DEF ProcRow
    <2> QED BY <2>1, DescribesStays DEF ProcessOK
  <1>2. Retry!At(p, "recording") => Retry!HasSuccessor(Retry!WorkOf(p))'
    <2>1. Retry!At(p, "recording") => Retry!WorkOf(p) \in Retry!Works /\ Retry!HasSuccessor(Retry!WorkOf(p))
      BY DEF ProcessOK, Retry!At
    <2> QED BY <2>1, WorkFacts DEF Retry!HasSuccessor, WorkStays, Retry!WorkOf
  <1>3. Retry!At(p, "running")' => work'[Retry!WorkOf(p)'] = "leased"
    BY DEF ProcessOK, Retry!At, Retry!WorkOf
  <1> QED BY <1>1, <1>2, <1>3 DEF ProcessOK, Retry!At, Retry!WorkOf

\* A step of one process, which writes its row soundly and leaves the work of
\* the others alone.
LEMMA ProcessMoves ==
  ASSUME Retry!RetryAssumption, Retry!RetryInv, NEW p \in Drains, Retry!TypeOK', WorkStays, WorksOK',
         \A g \in Signatures : row'[g] = row[g] \/ Fits(g, row[g])',
         \A q \in Drains : q # p => proc'[q] = proc[q],
         \A q \in Drains : q # p /\ Retry!At(q, "running") =>
           /\ work'[Retry!WorkOf(q)] = work[Retry!WorkOf(q)]
           /\ Retry!At(p, "running")' => Retry!WorkOf(q) # Retry!WorkOf(p)',
         ProcessOK(p)'
  PROVE  Retry!RetryInv'
  <1>1. Retry!TypeOK /\ RowsFit /\ (\A q \in Drains : ProcessOK(q)) /\ Solo
    BY RetryParts
  <1>2. ASSUME NEW g \in Signatures PROVE Fits(g, row[g])'
    <2>1. CASE row'[g] = row[g]
      <3>1. row[g] \in Retry!Rows /\ Retry!Describes(row[g])
        BY <1>1, RetryTypes DEF RowsFit, Fits
      <3>2. Retry!Describes(row[g])'
        BY <2>1, <3>1, DescribesStays
      <3> QED BY <1>1, <2>1, <3>2 DEF RowsFit, Fits
    <2> QED BY <2>1
  <1>3. \A q \in Drains : ProcessOK(q)'
    <2> SUFFICES ASSUME NEW q \in Drains, q # p PROVE ProcessOK(q)'
      OBVIOUS
    <2> QED BY <1>1, ProcessSpared
  <1>4. Solo'
    <2> SUFFICES ASSUME NEW q \in Drains, NEW r \in Drains, q # r,
                        Retry!At(q, "running")', Retry!At(r, "running")', Retry!WorkOf(q)' = Retry!WorkOf(r)'
                 PROVE  FALSE
      BY DEF Solo
    <2>1. \A x \in Drains : x # p => Retry!At(x, "running")' = Retry!At(x, "running") /\ Retry!WorkOf(x)' = Retry!WorkOf(x)
      BY DEF Retry!At, Retry!WorkOf
    <2>2. CASE q = p
      BY <2>1, <2>2
    <2>3. CASE r = p
      BY <2>1, <2>3
    <2>4. CASE q # p /\ r # p
      BY <1>1, <2>1, <2>4 DEF Solo
    <2> QED BY <2>2, <2>3, <2>4
  <1> QED BY <1>2, <1>3, <1>4, RetryPartsNext DEF RowsFit

-----------------------------------------------------------------------------
(* The steps. *)

LEMMA InitRetry == Retry!RetryAssumption /\ Retry!Init => Retry!RetryInv
  <1> SUFFICES ASSUME Retry!RetryAssumption, Retry!Init PROVE Retry!RetryInv
    OBVIOUS
  <1>1. Cardinality(Signatures) \in Nat
    BY RetryFinite, FS_CardinalityType DEF Retry!RetryAssumption
  <1>2. Retry!Idle \in ProcRow /\ Retry!Idle.pc = "idle" /\ Retry!Idle.todo = {} /\ Retry!Idle.left = 0
    BY <1>1 DEF Retry!Idle, ProcRow
  <1>3. \A p \in Drains : proc[p] = Retry!Idle
    BY DEF Retry!Init
  <1>4. proc \in [Drains -> ProcRow]
    BY <1>2 DEF Retry!Init
  <1>5. MaxAttempts \in Nat
    BY DEF Retry!RetryAssumption
  <1>6. row \in [Signatures -> Retry!Rows] /\ \A g \in Signatures : row[g].status = "none" /\ row[g].work = Retry!NoWork
    BY <1>5 DEF Retry!Init, Retry!Rows
  <1>7. Retry!TypeOK
    BY RetryFinite, <1>4, <1>6 DEF Retry!Init, Retry!TypeOK, ProcRow
  <1>8. RowsFit
    BY <1>6 DEF RowsFit, Fits, Retry!Describes
  <1>9. \A p \in Drains : ProcessOK(p)
    BY <1>1, <1>2, <1>3, FS_EmptySet DEF ProcessOK, Retry!At
  <1>10. Solo
    BY <1>2, <1>3 DEF Solo, Retry!At
  <1>11. WorksOK
    <2>1. \A w \in Retry!Works : posts[w] = 0
      BY DEF Retry!Init
    <2>2. \A w \in Retry!Retries : work[w] = "absent"
      <3>1. \A w \in Retry!Retries : w \in Retry!Works /\ w[2] # 0
        <4> SUFFICES ASSUME NEW w \in Retry!Retries PROVE w \in Retry!Works /\ w[2] # 0
          OBVIOUS
        <4>1. w \in Retry!Works /\ w[2] \in 1 .. MaxAttempts
          BY WorkFacts
        <4> QED BY <4>1
      <3> QED BY <3>1 DEF Retry!Init
    <2> QED BY <2>1, <2>2 DEF WorksOK, Retry!Chained, Retry!PostedOnce
  <1> QED BY <1>7, <1>8, <1>9, <1>10, <1>11, RetryParts

\* The entry of one process changes to r.
LEMMA ProcSet ==
  ASSUME Retry!TypeOK, NEW p \in Drains, NEW r \in ProcRow, proc' = [proc EXCEPT ![p] = r]
  PROVE  /\ proc' \in [Drains -> ProcRow] /\ proc'[p] = r
         /\ \A q \in Drains : q # p => proc'[q] = proc[q]
  BY RetryTypes

LEMMA IdleFacts ==
  ASSUME Retry!RetryAssumption
  PROVE  Retry!Idle \in ProcRow /\ Retry!Idle.pc = "idle" /\ Retry!Idle.todo = {} /\ Retry!Idle.left = 0
  <1>1. Cardinality(Signatures) \in Nat
    BY RetryFinite, FS_CardinalityType DEF Retry!RetryAssumption
  <1> QED BY <1>1 DEF Retry!Idle, ProcRow

\* A process that has nothing left to do.
LEMMA IdleOK ==
  ASSUME Retry!RetryAssumption, NEW p \in Drains, proc'[p] = Retry!Idle
  PROVE  ProcessOK(p)' /\ ~Retry!At(p, "running")'
  <1>1. Cardinality(Signatures) \in Nat
    BY RetryFinite, FS_CardinalityType DEF Retry!RetryAssumption
  <1> QED BY <1>1, IdleFacts, FS_EmptySet DEF ProcessOK, Retry!At

\* A step of one process that writes no more than its row.
LEMMA RowStep ==
  ASSUME Retry!RetryAssumption, Retry!RetryInv, NEW p \in Drains, UNCHANGED <<revoked, work, fate, posts>>,
         row' \in [Signatures -> Retry!Rows], proc' \in [Drains -> ProcRow],
         \A g \in Signatures : row'[g] = row[g] \/ Fits(g, row[g])',
         \A q \in Drains : q # p => proc'[q] = proc[q],
         ProcessOK(p)', ~Retry!At(p, "running")'
  PROVE  Retry!RetryInv'
  <1>0. Retry!TypeOK /\ WorksOK
    BY RetryParts
  <1>1. Retry!TypeOK'
    BY RetryFinite, <1>0, RetryTypes DEF Retry!TypeOK, ProcRow
  <1>2. WorkStays
    BY DEF WorkStays
  <1>3. WorksOK'
    BY <1>0 DEF WorksOK, Retry!Chained, Retry!PostedOnce
  <1> QED BY <1>1, <1>2, <1>3, ProcessMoves

\* Continue: a drain goes on, an execution of the controller ends.
LEMMA ContinueFacts ==
  ASSUME Retry!RetryAssumption, Retry!RetryInv, NEW p \in Drains, Retry!Continue(p),
         UNCHANGED work
  PROVE  /\ proc' \in [Drains -> ProcRow] /\ \A q \in Drains : q # p => proc'[q] = proc[q]
         /\ ProcessOK(p)' /\ ~Retry!At(p, "running")'
  <1>0. Retry!TypeOK /\ ProcessOK(p) /\ proc[p] \in ProcRow
    BY RetryParts, RetryTypes
  <1>1. CASE proc[p].drain
    <2> DEFINE r == [proc[p] EXCEPT !.pc = "claiming", !.work = Retry!NoWork]
    <2>1. r \in ProcRow /\ r.pc = "claiming" /\ r.todo = proc[p].todo /\ r.left = proc[p].left
      BY <1>0 DEF ProcRow
    <2>2. proc' = [proc EXCEPT ![p] = r]
      BY <1>0, <1>1, RetryTypes DEF Retry!Continue
    <2> HIDE DEF r
    <2>3. /\ proc' \in [Drains -> ProcRow] /\ proc'[p] = r
          /\ \A q \in Drains : q # p => proc'[q] = proc[q]
      BY <1>0, <2>1, <2>2, ProcSet
    <2>4. \A x \in proc'[p].todo : x.status = "pending" /\ Retry!Describes(x)'
      BY <1>0, <2>1, <2>3 DEF ProcessOK, Retry!Describes
    <2> QED BY <1>0, <2>1, <2>3, <2>4 DEF ProcessOK, Retry!At
  <1>2. CASE ~proc[p].drain
    <2>1. proc' = [proc EXCEPT ![p] = Retry!Idle]
      BY <1>0, <1>2, RetryTypes DEF Retry!Continue
    <2>2. /\ proc' \in [Drains -> ProcRow] /\ proc'[p] = Retry!Idle
          /\ \A q \in Drains : q # p => proc'[q] = proc[q]
      BY <1>0, <2>1, IdleFacts, ProcSet
    <2> QED BY <2>2, IdleOK
  <1> QED BY <1>1, <1>2

LEMMA PolicyKeeps ==
  ASSUME Retry!RetryAssumption, Retry!RetryInv, Retry!ChangePolicy
  PROVE  Retry!RetryInv'
  <1>1. revoked' = TRUE /\ row' = row /\ work' = work /\ fate' = fate /\ posts' = posts /\ proc' = proc
    BY DEF Retry!ChangePolicy
  <1> QED BY <1>1 DEF Retry!RetryInv, Retry!TypeOK, Retry!RowsDescribe, Retry!Describes,
         Retry!DrainsBounded, Retry!Executors, Retry!Projections,
       Retry!Chained, Retry!PostedOnce, Retry!At, Retry!WorkOf, Retry!HasSuccessor

LEMMA ControllerClaimsKeeps ==
  ASSUME Retry!RetryAssumption, Retry!RetryInv, NEW p \in Drains, NEW w \in Retry!Works, Retry!ControllerClaims(p, w)
  PROVE  Retry!RetryInv'
  <1> DEFINE r == [proc[p] EXCEPT !.pc = "running", !.work = w]
  <1>0. Retry!TypeOK /\ ProcessOK(p) /\ WorksOK /\ proc[p] \in ProcRow
    BY RetryParts, RetryTypes
  <1>1. /\ work[w] = "queued" /\ work' = [work EXCEPT ![w] = "leased"]
        /\ revoked' = revoked /\ row' = row /\ fate' = fate /\ posts' = posts
    BY DEF Retry!ControllerClaims
  <1>2. work' \in [Retry!Works -> {"absent", "queued", "leased", "completed"}] /\ work'[w] = "leased"
        /\ \A v \in Retry!Works : v # w => work'[v] = work[v]
    BY <1>0, <1>1, RetryTypes
  <1>3. r \in ProcRow /\ r.pc = "running" /\ r.work = w /\ r.todo = proc[p].todo /\ r.left = proc[p].left
    BY <1>0 DEF ProcRow
  <1>4. proc' = [proc EXCEPT ![p] = r]
    BY <1>0, RetryTypes DEF Retry!ControllerClaims
  <1> HIDE DEF r
  <1>5. /\ proc' \in [Drains -> ProcRow] /\ proc'[p] = r
        /\ \A q \in Drains : q # p => proc'[q] = proc[q]
    BY <1>0, <1>3, <1>4, ProcSet
  <1>6. Retry!TypeOK'
    BY RetryFinite, <1>0, <1>1, <1>2, <1>5, RetryTypes DEF Retry!TypeOK, ProcRow
  <1>7. WorkStays
    BY <1>1, <1>2 DEF WorkStays
  <1>8. WorksOK'
    BY <1>0, <1>1, <1>2, WorkFacts DEF WorksOK, Retry!Chained, Retry!PostedOnce
  <1>9. \A q \in Drains : q # p /\ Retry!At(q, "running") => work[Retry!WorkOf(q)] = "leased" /\ Retry!WorkOf(q) \in Retry!Works
    BY RetryParts DEF ProcessOK, Retry!At
  <1>10. ProcessOK(p)'
    <2>1. \A x \in proc'[p].todo : x.status = "pending" /\ Retry!Describes(x)'
      BY <1>0, <1>3, <1>5, <1>7, DescribesStays DEF ProcessOK, ProcRow
    <2> QED BY <1>0, <1>2, <1>3, <1>5, <2>1 DEF ProcessOK, Retry!At, Retry!WorkOf
  <1>11. Retry!WorkOf(p)' = w
    BY <1>3, <1>5 DEF Retry!WorkOf
  <1> QED BY <1>1, <1>2, <1>5, <1>6, <1>7, <1>8, <1>9, <1>10, <1>11, ProcessMoves

\* A process that leaves the work it ran, in state st.
LEMMA LeaveWork ==
  ASSUME Retry!RetryAssumption, Retry!RetryInv, NEW p \in Drains, Retry!At(p, "running"),
         NEW st \in {"queued", "completed"}, work' = [work EXCEPT ![Retry!WorkOf(p)] = st], posts' = posts
  PROVE  /\ work' \in [Retry!Works -> {"absent", "queued", "leased", "completed"}]
         /\ WorkStays /\ WorksOK'
         /\ \A q \in Drains : q # p /\ Retry!At(q, "running") => work'[Retry!WorkOf(q)] = work[Retry!WorkOf(q)]
  <1> DEFINE w == Retry!WorkOf(p)
  <1>0. Retry!TypeOK /\ WorksOK /\ w \in Retry!Works /\ work[w] = "leased"
    BY RetryParts DEF ProcessOK, Retry!At
  <1>1. /\ work' \in [Retry!Works -> {"absent", "queued", "leased", "completed"}] /\ work'[w] = st
        /\ \A v \in Retry!Works : v # w => work'[v] = work[v]
    BY <1>0, RetryTypes
  <1> HIDE DEF w
  <1>2. WorkStays
    BY <1>0, <1>1 DEF WorkStays
  <1>3. WorksOK'
    BY <1>0, <1>1, WorkFacts DEF WorksOK, Retry!Chained, Retry!PostedOnce
  <1>4. \A q \in Drains : q # p /\ Retry!At(q, "running") => Retry!WorkOf(q) \in Retry!Works /\ Retry!WorkOf(q) # w
    BY RetryParts DEF ProcessOK, Retry!At, Solo, w
  <1> QED BY <1>1, <1>2, <1>3, <1>4

LEMMA AgentDefersKeeps ==
  ASSUME Retry!RetryAssumption, Retry!RetryInv, NEW p \in Drains, Retry!AgentDefers(p)
  PROVE  Retry!RetryInv'
  <1> SUFFICES ASSUME NEW w \in Retry!Works, w = Retry!WorkOf(p), NEW g \in Signatures, g = Retry!Signature(w),
                      NEW r, r = Retry!Deferred(row[g], w[1])
               PROVE  Retry!RetryInv'
    <2>1. Retry!WorkOf(p) \in Retry!Works
      BY RetryParts DEF Retry!AgentDefers, ProcessOK, Retry!At
    <2> QED BY <2>1, WorkFacts
  <1> DEFINE st == IF r.status = "pending" THEN "queued" ELSE "completed"
  <1>0. /\ Retry!TypeOK /\ RowsFit /\ Retry!At(p, "running") /\ w \in Retry!Works /\ w[1] \in Sources /\ g \in Signatures
        /\ g = SignatureOf[w[1]] /\ row[g] \in Retry!Rows
    BY RetryParts, RetryTypes, WorkFacts DEF ProcessOK, Retry!At, Retry!AgentDefers, Retry!Signature
  <1>1. /\ row' = [row EXCEPT ![g] = r] /\ posts' = posts /\ revoked' = revoked
        /\ work' = [work EXCEPT ![w] = st] /\ proc' = [proc EXCEPT ![p] = Retry!Idle]
        /\ fate' = [fate EXCEPT ![w] = IF r.status = "pending" THEN fate[w] ELSE "settled"]
    BY DEF Retry!AgentDefers
  <1>2. /\ r \in Retry!Rows
        /\ \/ r.work = Retry!NoWork /\ r.source = w[1]
           \/ /\ r.status = "exhausted" /\ r.work = row[g].work
              /\ r.source = row[g].source /\ r.attempts = row[g].attempts
    BY <1>0, DeferredFacts
  <1>3. st \in {"queued", "completed"}
    OBVIOUS
  <1>4. fate' \in [Retry!Works -> {"none", "settled", "rejected"}]
    BY <1>0, <1>1, RetryTypes
  <1> HIDE DEF st
  <1>5. /\ work' \in [Retry!Works -> {"absent", "queued", "leased", "completed"}] /\ WorkStays /\ WorksOK'
        /\ \A q \in Drains : q # p /\ Retry!At(q, "running") => work'[Retry!WorkOf(q)] = work[Retry!WorkOf(q)]
    BY <1>0, <1>1, <1>3, LeaveWork
  <1>6. /\ proc' \in [Drains -> ProcRow] /\ proc'[p] = Retry!Idle
        /\ \A q \in Drains : q # p => proc'[q] = proc[q]
    BY <1>0, <1>1, IdleFacts, ProcSet
  <1>7. /\ row' \in [Signatures -> Retry!Rows] /\ row'[g] = r /\ \A h \in Signatures : h # g => row'[h] = row[h]
    BY <1>0, <1>1, <1>2, RetryTypes
  <1>8. Fits(g, r)'
    <2>1. Retry!Describes(row[g]) /\ (row[g].work # Retry!NoWork => SignatureOf[row[g].source] = g)
      BY <1>0 DEF RowsFit, Fits
    <2>2. row[g].work # Retry!NoWork => row[g].work \in Retry!Works
      BY <1>0, WorkFacts DEF Retry!Rows
    <2>3. work'[row[g].work] # "absent" \/ row[g].work = Retry!NoWork
      BY <1>5, <2>1, <2>2 DEF Retry!Describes, WorkStays
    <2> QED BY <1>0, <1>2, <2>1, <2>3 DEF Fits, Retry!Describes
  <1>9. Retry!TypeOK'
    BY RetryFinite, <1>0, <1>1, <1>4, <1>5, <1>6, <1>7, RetryTypes DEF Retry!TypeOK, ProcRow
  <1>10. ProcessOK(p)' /\ ~Retry!At(p, "running")'
    BY <1>6, IdleOK
  <1>11. \A h \in Signatures : row'[h] = row[h] \/ Fits(h, row[h])'
    BY <1>7, <1>8
  <1> QED BY <1>5, <1>6, <1>9, <1>10, <1>11, ProcessMoves

\* A process goes on to another step with what it knows.
LEMMA PcSet ==
  ASSUME Retry!RetryAssumption, Retry!RetryInv, WorkStays, NEW p \in Drains,
         NEW step \in {"admitting", "claiming", "projecting", "recording", "closing"},
         proc' = [proc EXCEPT ![p].pc = step],
         step \in {"projecting", "recording", "closing"} => Retry!WorkOf(p) \in Retry!Works,
         step = "recording" => Retry!HasSuccessor(Retry!WorkOf(p))
  PROVE  /\ proc' \in [Drains -> ProcRow] /\ \A q \in Drains : q # p => proc'[q] = proc[q]
         /\ ProcessOK(p)' /\ ~Retry!At(p, "running")'
  <1> DEFINE r == [proc[p] EXCEPT !.pc = step]
  <1>0. Retry!TypeOK /\ ProcessOK(p) /\ proc[p] \in ProcRow
    BY RetryParts, RetryTypes
  <1>1. /\ r \in ProcRow /\ r.pc = step /\ r.todo = proc[p].todo /\ r.left = proc[p].left
        /\ r.work = proc[p].work
    BY <1>0 DEF ProcRow
  <1>2. proc' = [proc EXCEPT ![p] = r]
    BY <1>0, RetryTypes
  <1> HIDE DEF r
  <1>3. /\ proc' \in [Drains -> ProcRow] /\ proc'[p] = r
        /\ \A q \in Drains : q # p => proc'[q] = proc[q]
    BY <1>0, <1>1, <1>2, ProcSet
  <1>4. \A x \in proc'[p].todo : x.status = "pending" /\ Retry!Describes(x)'
    BY <1>0, <1>1, <1>3, DescribesStays DEF ProcessOK, ProcRow
  <1>5. step = "recording" => Retry!HasSuccessor(Retry!WorkOf(p))'
    BY <1>1, <1>3, WorkFacts DEF Retry!HasSuccessor, WorkStays, Retry!WorkOf
  <1> QED BY <1>0, <1>1, <1>3, <1>4, <1>5 DEF ProcessOK, Retry!At, Retry!WorkOf

LEMMA ExecuteKeepsRetries ==
  ASSUME Retry!RetryAssumption, Retry!RetryInv, NEW p \in Drains, NEW throttled \in BOOLEAN, Retry!Execute(p, throttled)
  PROVE  Retry!RetryInv'
  <1> SUFFICES ASSUME NEW w \in Retry!Works, w = Retry!WorkOf(p) PROVE Retry!RetryInv'
    BY RetryParts DEF Retry!Execute, ProcessOK, Retry!At
  <1> DEFINE retry == throttled /\ w[2] < MaxAttempts /\ ~revoked
  <1>0. Retry!TypeOK /\ ProcessOK(p) /\ WorksOK /\ Retry!At(p, "running") /\ work[w] = "leased" /\ posts[w] = 0
    BY RetryParts DEF Retry!Execute, ProcessOK, WorksOK, Retry!Chained
  <1>1. /\ posts' = [posts EXCEPT ![w] = posts[w] + 1] /\ revoked' = revoked /\ row' = row
        /\ fate' = [fate EXCEPT ![w] = IF throttled THEN "rejected" ELSE "settled"]
        /\ work' = [v \in Retry!Works |->
             IF v = w THEN "completed" ELSE IF retry /\ v = Retry!Successor(w) THEN "queued" ELSE work[v]]
    BY DEF Retry!Execute
  <1>2. /\ posts' \in [Retry!Works -> Nat] /\ posts'[w] = 1 /\ \A v \in Retry!Works : v # w => posts'[v] = posts[v]
    BY <1>0, <1>1, RetryTypes
  <1>3. fate' \in [Retry!Works -> {"none", "settled", "rejected"}]
    BY <1>0, <1>1, RetryTypes
  <1>4. retry => Retry!Successor(w) \in Retry!Retries /\ Retry!Successor(w) \in Retry!Works
    BY WorkFacts
  <1>5. \A v \in Retry!Works : v # w /\ work'[v] # work[v] =>
          v \in Retry!Retries /\ v = Retry!Successor(w) /\ work'[v] = "queued"
    BY <1>1, <1>4
  <1>6. work' \in [Retry!Works -> {"absent", "queued", "leased", "completed"}] /\ work'[w] = "completed"
    BY <1>0, <1>1, RetryTypes
  <1> HIDE DEF retry
  <1>7. \A v \in Retry!Retries : v = Retry!Successor(w) => work[v] = "absent"
    BY <1>0, WorkFacts DEF WorksOK, Retry!Chained
  <1>8. WorkStays
    BY <1>5, <1>6 DEF WorkStays
  <1>9. Retry!Chained'
    <2>1. ASSUME NEW v \in Retry!Retries, work'[v] # "absent" PROVE work'[<<v[1], v[2] - 1>>] = "completed"
      <3> DEFINE u == <<v[1], v[2] - 1>>
      <3>1. u \in Retry!Works /\ v \in Retry!Works /\ (u = w <=> v = Retry!Successor(w))
        BY WorkFacts
      <3> HIDE DEF u
      <3>2. CASE u = w
        BY <1>6, <3>2 DEF u
      <3>3. CASE u # w
        <4>1. v # Retry!Successor(w)
          BY <3>1, <3>3
        <4>2. work[v] # "absent"
          BY <1>0, <1>5, <2>1, <3>1, <4>1
        <4>3. work[u] = "completed"
          BY <1>0, <4>2 DEF WorksOK, Retry!Chained, u
        <4>4. work'[u] = "completed"
          BY <1>5, <1>7, <3>1, <3>3, <4>3
        <4> QED BY <4>4 DEF u
      <3> QED BY <3>2, <3>3
    <2>2. ASSUME NEW v \in Retry!Works, work'[v] # "completed" PROVE posts'[v] = 0
      <3>1. v # w /\ posts'[v] = posts[v]
        BY <1>2, <1>6, <2>2
      <3>2. work[v] # "completed"
        BY <1>5, <1>7, <2>2, <3>1
      <3> QED BY <1>0, <3>1, <3>2 DEF WorksOK, Retry!Chained
    <2> QED BY <2>1, <2>2 DEF Retry!Chained
  <1>10. Retry!PostedOnce'
    BY <1>0, <1>2 DEF WorksOK, Retry!PostedOnce
  <1>11. \A q \in Drains : q # p /\ Retry!At(q, "running") => work'[Retry!WorkOf(q)] = work[Retry!WorkOf(q)]
    <2> SUFFICES ASSUME NEW q \in Drains, q # p, Retry!At(q, "running") PROVE work'[Retry!WorkOf(q)] = work[Retry!WorkOf(q)]
      OBVIOUS
    <2>1. Retry!WorkOf(q) \in Retry!Works /\ Retry!WorkOf(q) # w /\ work[Retry!WorkOf(q)] = "leased"
      BY <1>0, RetryParts DEF ProcessOK, Retry!At, Solo
    <2> QED BY <1>5, <1>7, <2>1
  <1>12. /\ proc' \in [Drains -> ProcRow] /\ \A q \in Drains : q # p => proc'[q] = proc[q]
         /\ ProcessOK(p)' /\ ~Retry!At(p, "running")'
    <2>1. CASE proc' = [proc EXCEPT ![p] = Retry!Idle]
      <3>1. /\ proc' \in [Drains -> ProcRow] /\ proc'[p] = Retry!Idle
            /\ \A q \in Drains : q # p => proc'[q] = proc[q]
        BY <1>0, <2>1, IdleFacts, ProcSet
      <3> QED BY <3>1, IdleOK
    <2>2. CASE proc' = [proc EXCEPT ![p].pc = "projecting"]
      BY <1>8, <2>2, PcSet
    <2>3. CASE proc' = [proc EXCEPT ![p].pc = "closing"]
      BY <1>8, <2>3, PcSet
    <2> QED BY <2>1, <2>2, <2>3 DEF Retry!Execute
  <1>13. Retry!TypeOK'
    BY RetryFinite, <1>0, <1>1, <1>2, <1>3, <1>6, <1>12, RetryTypes DEF Retry!TypeOK, ProcRow
  <1> QED BY <1>1, <1>8, <1>9, <1>10, <1>11, <1>12, <1>13, ProcessMoves DEF WorksOK

LEMMA RefuseKeeps ==
  ASSUME Retry!RetryAssumption, Retry!RetryInv, NEW p \in Drains, Retry!Refuse(p)
  PROVE  Retry!RetryInv'
  <1>0. Retry!TypeOK /\ Retry!At(p, "running") /\ Retry!WorkOf(p) \in Retry!Works
    BY RetryParts DEF Retry!Refuse, ProcessOK, Retry!At
  <1>1. /\ work' = [work EXCEPT ![Retry!WorkOf(p)] = "completed"] /\ posts' = posts /\ revoked' = revoked
        /\ row' = row /\ fate' = [fate EXCEPT ![Retry!WorkOf(p)] = "settled"]
    BY DEF Retry!Refuse
  <1>2. /\ work' \in [Retry!Works -> {"absent", "queued", "leased", "completed"}] /\ WorkStays /\ WorksOK'
        /\ \A q \in Drains : q # p /\ Retry!At(q, "running") => work'[Retry!WorkOf(q)] = work[Retry!WorkOf(q)]
    BY <1>0, <1>1, LeaveWork
  <1>3. fate' \in [Retry!Works -> {"none", "settled", "rejected"}]
    BY <1>0, <1>1, RetryTypes
  <1>4. /\ proc' \in [Drains -> ProcRow] /\ \A q \in Drains : q # p => proc'[q] = proc[q]
        /\ ProcessOK(p)' /\ ~Retry!At(p, "running")'
    <2>1. CASE proc' = [proc EXCEPT ![p] = Retry!Idle]
      <3>1. /\ proc' \in [Drains -> ProcRow] /\ proc'[p] = Retry!Idle
            /\ \A q \in Drains : q # p => proc'[q] = proc[q]
        BY <1>0, <2>1, IdleFacts, ProcSet
      <3> QED BY <3>1, IdleOK
    <2>2. CASE proc' = [proc EXCEPT ![p].pc = "closing"]
      BY <1>0, <1>2, <2>2, PcSet
    <2> QED BY <2>1, <2>2 DEF Retry!Refuse
  <1>5. Retry!TypeOK'
    BY RetryFinite, <1>0, <1>1, <1>2, <1>3, <1>4, RetryTypes DEF Retry!TypeOK, ProcRow
  <1> QED BY <1>1, <1>2, <1>4, <1>5, ProcessMoves

LEMMA CrashKeepsRetries ==
  ASSUME Retry!RetryAssumption, Retry!RetryInv, NEW p \in Drains, Retry!Crash(p)
  PROVE  Retry!RetryInv'
  <1>0. Retry!TypeOK /\ WorksOK
    BY RetryParts
  <1>1. /\ posts' = posts /\ revoked' = revoked /\ row' = row /\ fate' = fate
        /\ proc' = [proc EXCEPT ![p] = Retry!Idle]
    BY DEF Retry!Crash
  <1>2. /\ proc' \in [Drains -> ProcRow] /\ proc'[p] = Retry!Idle
        /\ \A q \in Drains : q # p => proc'[q] = proc[q]
    BY <1>0, <1>1, IdleFacts, ProcSet
  <1>3. ProcessOK(p)' /\ ~Retry!At(p, "running")'
    BY <1>2, IdleOK
  <1>4. CASE Retry!At(p, "running")
    <2>1. work' = [work EXCEPT ![Retry!WorkOf(p)] = "queued"]
      BY <1>4 DEF Retry!Crash
    <2>2. /\ work' \in [Retry!Works -> {"absent", "queued", "leased", "completed"}] /\ WorkStays /\ WorksOK'
          /\ \A q \in Drains : q # p /\ Retry!At(q, "running") => work'[Retry!WorkOf(q)] = work[Retry!WorkOf(q)]
      BY <1>1, <1>4, <2>1, LeaveWork
    <2>3. Retry!TypeOK'
      BY RetryFinite, <1>0, <1>1, <1>2, <2>2, RetryTypes DEF Retry!TypeOK, ProcRow
    <2> QED BY <1>1, <1>2, <1>3, <2>2, <2>3, ProcessMoves
  <1>5. CASE ~Retry!At(p, "running")
    <2>1. work' = work
      BY <1>5 DEF Retry!Crash
    <2> QED BY <1>0, <1>1, <1>2, <1>3, <2>1, RetryTypes, RowStep
  <1> QED BY <1>4, <1>5

-----------------------------------------------------------------------------
(* The projections of a rejected request, and the drains. *)

\* A row is written while the work stays as it is.
LEMMA RowSet ==
  ASSUME Retry!RetryInv, UNCHANGED work, NEW g \in Signatures, NEW r \in Retry!Rows, Fits(g, r),
         row' = [row EXCEPT ![g] = r]
  PROVE  row' \in [Signatures -> Retry!Rows] /\ \A h \in Signatures : row'[h] = row[h] \/ Fits(h, row[h])'
  <1>1. Retry!TypeOK
    BY RetryParts
  <1>2. row' \in [Signatures -> Retry!Rows] /\ row'[g] = r /\ \A h \in Signatures : h # g => row'[h] = row[h]
    BY <1>1, RetryTypes
  <1>3. Fits(g, row[g])'
    BY <1>2 DEF Fits, Retry!Describes
  <1> QED BY <1>2, <1>3

LEMMA CompletedFits ==
  ASSUME Retry!RetryInv, NEW g \in Signatures
  PROVE  Retry!Completed(row[g]) \in Retry!Rows /\ Fits(g, Retry!Completed(row[g]))
  <1>1. row[g] \in Retry!Rows /\ Fits(g, row[g])
    BY RetryParts, RetryTypes DEF RowsFit
  <1> QED BY <1>1, CompletedFacts DEF Fits, Retry!Describes

LEMMA LinkedFits ==
  ASSUME Retry!RetryAssumption, Retry!RetryInv, NEW g \in Signatures, NEW w \in Retry!Retries,
         Retry!Signature(w) = g, work[w] # "absent"
  PROVE  Retry!Linked(row[g], w) \in Retry!Rows /\ Fits(g, Retry!Linked(row[g], w))
  <1>1. row[g] \in Retry!Rows /\ Fits(g, row[g])
    BY RetryParts, RetryTypes DEF RowsFit
  <1>2. w[1] \in Sources
    BY DEF Retry!Retries
  <1> QED BY <1>1, <1>2, LinkedFacts DEF Fits, Retry!Describes, Retry!Signature

LEMMA CloseKeeps ==
  ASSUME Retry!RetryAssumption, Retry!RetryInv, NEW p \in Drains, Retry!CloseRow(p)
  PROVE  Retry!RetryInv'
  <1> SUFFICES ASSUME NEW g \in Signatures, g = Retry!Signature(Retry!WorkOf(p)) PROVE Retry!RetryInv'
    BY RetryParts, WorkFacts DEF Retry!CloseRow, ProcessOK, Retry!At
  <1>1. UNCHANGED <<revoked, work, fate, posts>> /\ Retry!Continue(p) /\ row' = [row EXCEPT ![g] = Retry!Completed(row[g])]
    BY DEF Retry!CloseRow
  <1>2. row' \in [Signatures -> Retry!Rows] /\ \A h \in Signatures : row'[h] = row[h] \/ Fits(h, row[h])'
    BY <1>1, CompletedFits, RowSet
  <1>3. /\ proc' \in [Drains -> ProcRow] /\ \A q \in Drains : q # p => proc'[q] = proc[q]
        /\ ProcessOK(p)' /\ ~Retry!At(p, "running")'
    BY <1>1, ContinueFacts
  <1> QED BY <1>1, <1>2, <1>3, RowStep

LEMMA RecordKeeps ==
  ASSUME Retry!RetryAssumption, Retry!RetryInv, NEW p \in Drains, Retry!RecordSuccessor(p)
  PROVE  Retry!RetryInv'
  <1>0. Retry!WorkOf(p) \in Retry!Works /\ Retry!HasSuccessor(Retry!WorkOf(p))
    BY RetryParts DEF Retry!RecordSuccessor, ProcessOK, Retry!At
  <1> SUFFICES ASSUME NEW g \in Signatures, g = Retry!Signature(Retry!WorkOf(p)),
                      NEW v \in Retry!Retries, v = Retry!Successor(Retry!WorkOf(p)), Retry!Signature(v) = g, work[v] # "absent"
               PROVE  Retry!RetryInv'
    BY <1>0, WorkFacts DEF Retry!HasSuccessor
  <1>1. UNCHANGED <<revoked, work, fate, posts>> /\ Retry!Continue(p) /\ row' = [row EXCEPT ![g] = Retry!Linked(row[g], v)]
    BY DEF Retry!RecordSuccessor
  <1>2. row' \in [Signatures -> Retry!Rows] /\ \A h \in Signatures : row'[h] = row[h] \/ Fits(h, row[h])'
    BY <1>1, LinkedFits, RowSet
  <1>3. /\ proc' \in [Drains -> ProcRow] /\ \A q \in Drains : q # p => proc'[q] = proc[q]
        /\ ProcessOK(p)' /\ ~Retry!At(p, "running")'
    BY <1>1, ContinueFacts
  <1> QED BY <1>1, <1>2, <1>3, RowStep

LEMMA ReadKeeps ==
  ASSUME Retry!RetryAssumption, Retry!RetryInv, NEW p \in Drains, Retry!ReadSuccessor(p)
  PROVE  Retry!RetryInv'
  <1>0. Retry!WorkOf(p) \in Retry!Works /\ row \in [Signatures -> Retry!Rows]
    BY RetryParts, RetryTypes DEF Retry!ReadSuccessor, ProcessOK, Retry!At
  <1> SUFFICES ASSUME NEW g \in Signatures, g = Retry!Signature(Retry!WorkOf(p)) PROVE Retry!RetryInv'
    BY <1>0, WorkFacts
  <1>1. UNCHANGED <<revoked, work, fate, posts>> /\ WorkStays
    BY DEF Retry!ReadSuccessor, WorkStays
  <1>2. row' \in [Signatures -> Retry!Rows] /\ \A h \in Signatures : row'[h] = row[h] \/ Fits(h, row[h])'
    <2>1. CASE row' = [row EXCEPT ![g] = Retry!Completed(row[g])]
      BY <1>1, <2>1, CompletedFits, RowSet
    <2>2. CASE row' = row
      BY <1>0, <2>2
    <2> QED BY <2>1, <2>2 DEF Retry!ReadSuccessor
  <1>3. /\ proc' \in [Drains -> ProcRow] /\ \A q \in Drains : q # p => proc'[q] = proc[q]
        /\ ProcessOK(p)' /\ ~Retry!At(p, "running")'
    <2>1. CASE Retry!Continue(p)
      BY <1>1, <2>1, ContinueFacts
    <2>2. CASE Retry!HasSuccessor(Retry!WorkOf(p)) /\ proc' = [proc EXCEPT ![p].pc = "recording"]
      BY <1>0, <1>1, <2>2, PcSet
    <2> QED BY <2>1, <2>2 DEF Retry!ReadSuccessor
  <1> QED BY <1>1, <1>2, <1>3, RowStep

\* A drain looks at its rows; work is as it was.
LEMMA DrainSet ==
  ASSUME Retry!RetryAssumption, Retry!RetryInv, UNCHANGED work, NEW p \in Drains, NEW r \in ProcRow,
         proc' = [proc EXCEPT ![p] = r], r.pc \in {"admitting", "claiming"},
         \A x \in r.todo : x.status = "pending" /\ Retry!Describes(x),
         IsFiniteSet(r.todo), r.left + Cardinality(r.todo) <= Cardinality(Signatures)
  PROVE  /\ proc' \in [Drains -> ProcRow] /\ \A q \in Drains : q # p => proc'[q] = proc[q]
         /\ ProcessOK(p)' /\ ~Retry!At(p, "running")'
  <1>1. Retry!TypeOK
    BY RetryParts
  <1>2. /\ proc' \in [Drains -> ProcRow] /\ proc'[p] = r
        /\ \A q \in Drains : q # p => proc'[q] = proc[q]
    BY <1>1, ProcSet
  <1>3. \A x \in proc'[p].todo : x.status = "pending" /\ Retry!Describes(x)'
    BY <1>2 DEF Retry!Describes
  <1> QED BY <1>2, <1>3 DEF ProcessOK, Retry!At

LEMMA TodoSmaller ==
  ASSUME NEW T, IsFiniteSet(T), NEW x \in T
  PROVE  /\ IsFiniteSet(T \ {x}) /\ Cardinality(T \ {x}) \in Nat
         /\ Cardinality(T) = Cardinality(T \ {x}) + 1
  <1>1. /\ IsFiniteSet(T \ {x}) /\ Cardinality(T \ {x}) = Cardinality(T) - 1
    BY FS_RemoveElement
  <1>2. Cardinality(T) \in Nat /\ Cardinality(T \ {x}) \in Nat
    BY <1>1, FS_CardinalityType
  <1> QED BY <1>1, <1>2

\* A row of the drain is done with.
LEMMA TodoSet ==
  ASSUME Retry!RetryAssumption, Retry!RetryInv, UNCHANGED work, NEW p \in Drains, Retry!At(p, "admitting"),
         NEW x \in proc[p].todo, proc' = [proc EXCEPT ![p].todo = @ \ {x}]
  PROVE  /\ proc' \in [Drains -> ProcRow] /\ \A q \in Drains : q # p => proc'[q] = proc[q]
         /\ ProcessOK(p)' /\ ~Retry!At(p, "running")'
  <1> DEFINE r == [proc[p] EXCEPT !.todo = proc[p].todo \ {x}]
  <1>0. Retry!TypeOK /\ ProcessOK(p) /\ proc[p] \in ProcRow /\ proc[p].pc = "admitting"
    BY RetryParts, RetryTypes DEF Retry!At
  <1>1. /\ r \in ProcRow /\ r.pc = "admitting" /\ r.todo = proc[p].todo \ {x} /\ r.left = proc[p].left
    BY <1>0 DEF ProcRow
  <1>2. proc' = [proc EXCEPT ![p] = r]
    BY <1>0, RetryTypes
  <1> HIDE DEF r
  <1>3. IsFiniteSet(r.todo) /\ r.left + Cardinality(r.todo) <= Cardinality(Signatures)
    <2>1. /\ IsFiniteSet(r.todo) /\ Cardinality(r.todo) \in Nat
          /\ Cardinality(proc[p].todo) = Cardinality(r.todo) + 1
      BY <1>0, <1>1, TodoSmaller DEF ProcessOK
    <2>2. proc[p].left \in Nat /\ Cardinality(Signatures) \in Nat
      BY RetryFinite, <1>0, FS_CardinalityType DEF ProcRow, Retry!RetryAssumption
    <2> QED BY <1>0, <1>1, <2>1, <2>2 DEF ProcessOK
  <1>4. \A y \in r.todo : y.status = "pending" /\ Retry!Describes(y)
    BY <1>0, <1>1 DEF ProcessOK
  <1> QED BY <1>1, <1>2, <1>3, <1>4, DrainSet

LEMMA DueKeeps ==
  ASSUME Retry!RetryAssumption, Retry!RetryInv, NEW p \in Drains, Retry!DrainDue(p)
  PROVE  Retry!RetryInv'
  <1> DEFINE G == {g \in Signatures : row[g].status = "pending"}
             due == {row[g] : g \in G}
             r == [Retry!Idle EXCEPT !.pc = "admitting", !.drain = TRUE, !.todo = due]
  <1>0. Retry!TypeOK /\ RowsFit /\ row \in [Signatures -> Retry!Rows] /\ proc \in [Drains -> ProcRow]
    BY RetryParts, RetryTypes
  <1>1. UNCHANGED <<revoked, row, work, fate, posts>> /\ proc' = [proc EXCEPT ![p] = r]
    BY DEF Retry!DrainDue
  <1>2. IsFiniteSet(due) /\ Cardinality(due) \in Nat /\ Cardinality(due) <= Cardinality(Signatures)
    <2> DEFINE f == [g \in G |-> row[g]]
    <2>1. f \in Surjection(G, due)
      BY DEF Surjection
    <2>2. IsFiniteSet(G) /\ Cardinality(G) <= Cardinality(Signatures)
      BY RetryFinite, FS_Subset DEF Retry!RetryAssumption
    <2> HIDE DEF f, G, due
    <2>3. IsFiniteSet(due) /\ Cardinality(due) <= Cardinality(G)
      BY <2>1, <2>2, FS_Surjection
    <2>4. Cardinality(G) \in Nat /\ Cardinality(due) \in Nat /\ Cardinality(Signatures) \in Nat
      BY RetryFinite, <2>2, <2>3, FS_CardinalityType DEF Retry!RetryAssumption
    <2> QED BY <2>2, <2>3, <2>4
  <1>3. \A x \in due : x \in Retry!Rows /\ x.status = "pending" /\ Retry!Describes(x)
    BY <1>0 DEF RowsFit, Fits
  <1> HIDE DEF due, G
  <1>4. r \in ProcRow /\ r.pc = "admitting" /\ r.todo = due /\ r.left = 0
    <2>1. 0 \in 0 .. Cardinality(Signatures)
      BY RetryFinite, FS_CardinalityType DEF Retry!RetryAssumption
    <2> QED BY <1>3, <2>1 DEF Retry!Idle, ProcRow
  <1> HIDE DEF r
  <1>5. r.left + Cardinality(r.todo) <= Cardinality(Signatures)
    BY <1>2, <1>4
  <1>6. /\ proc' \in [Drains -> ProcRow] /\ \A q \in Drains : q # p => proc'[q] = proc[q]
        /\ ProcessOK(p)' /\ ~Retry!At(p, "running")'
    BY <1>1, <1>2, <1>3, <1>4, <1>5, DrainSet
  <1> QED BY <1>0, <1>1, <1>6, RowStep

\* The row that a drain's copy was taken of.
LEMMA CopyFacts ==
  ASSUME Retry!RetryAssumption, Retry!RetryInv, NEW p \in Drains, NEW r \in proc[p].todo
  PROVE  /\ r \in Retry!Rows /\ r.source \in Sources /\ SignatureOf[r.source] \in Signatures
         /\ r.work # Retry!NoWork => /\ r.work \in Retry!Retries /\ r.work \in Retry!Works
                                     /\ r.source = r.work[1] /\ Retry!Signature(r.work) = SignatureOf[r.source]
  <1>1. proc[p] \in ProcRow /\ ProcessOK(p)
    BY RetryParts, RetryTypes
  <1>2. r \in Retry!Rows /\ r.status = "pending" /\ Retry!Describes(r)
    BY <1>1 DEF ProcRow, ProcessOK
  <1> QED BY <1>2, WorkFacts DEF Retry!Rows, Retry!Describes, Retry!RetryAssumption, Retry!Signature

LEMMA DropKeeps ==
  ASSUME Retry!RetryAssumption, Retry!RetryInv, NEW p \in Drains, NEW r \in proc[p].todo, Retry!DropRow(p, r)
  PROVE  Retry!RetryInv'
  <1> SUFFICES ASSUME NEW g \in Signatures, g = SignatureOf[r.source] PROVE Retry!RetryInv'
    BY CopyFacts
  <1>1. /\ UNCHANGED <<revoked, work, fate, posts>> /\ row' = [row EXCEPT ![g] = Retry!Completed(row[g])]
        /\ Retry!At(p, "admitting") /\ proc' = [proc EXCEPT ![p].todo = @ \ {r}]
    BY DEF Retry!DropRow
  <1>2. row' \in [Signatures -> Retry!Rows] /\ \A h \in Signatures : row'[h] = row[h] \/ Fits(h, row[h])'
    BY <1>1, CompletedFits, RowSet
  <1>3. /\ proc' \in [Drains -> ProcRow] /\ \A q \in Drains : q # p => proc'[q] = proc[q]
        /\ ProcessOK(p)' /\ ~Retry!At(p, "running")'
    BY <1>1, TodoSet
  <1> QED BY <1>1, <1>2, <1>3, RowStep

\* What a drain may find of a row whose work has ended elsewhere.
LEMMA ReconcileWrites ==
  ASSUME Retry!RetryAssumption, Retry!RetryInv, NEW p \in Drains, NEW r \in proc[p].todo, Retry!ReconcileRow(p, r),
         NEW g \in Signatures, g = SignatureOf[r.source]
  PROVE  \/ row' = row
         \/ row' = [row EXCEPT ![g] = Retry!Completed(row[g])]
         \/ \E w \in Retry!Retries : /\ Retry!Signature(w) = g /\ work[w] # "absent"
                                     /\ row' = [row EXCEPT ![g] = Retry!Linked(row[g], w)]
  <1>1. r.work \in Retry!Retries /\ r.work \in Retry!Works /\ Retry!Signature(r.work) = g
    BY CopyFacts DEF Retry!ReconcileRow
  <1>2. CASE fate[r.work] = "rejected" /\ Retry!HasSuccessor(r.work)
    <2>1. Retry!Successor(r.work) \in Retry!Retries /\ Retry!Signature(Retry!Successor(r.work)) = g /\ work[Retry!Successor(r.work)] # "absent"
      BY <1>1, <1>2, WorkFacts DEF Retry!HasSuccessor
    <2> QED BY <1>2, <2>1 DEF Retry!ReconcileRow
  <1>3. CASE ~(fate[r.work] = "rejected" /\ Retry!HasSuccessor(r.work))
    BY <1>3 DEF Retry!ReconcileRow
  <1> QED BY <1>2, <1>3

LEMMA ReconcileKeepsRetries ==
  ASSUME Retry!RetryAssumption, Retry!RetryInv, NEW p \in Drains, NEW r \in proc[p].todo, Retry!ReconcileRow(p, r)
  PROVE  Retry!RetryInv'
  <1> SUFFICES ASSUME NEW g \in Signatures, g = SignatureOf[r.source] PROVE Retry!RetryInv'
    BY CopyFacts
  <1>0. row \in [Signatures -> Retry!Rows]
    BY RetryParts, RetryTypes
  <1>1. /\ UNCHANGED <<revoked, work, fate, posts>>
        /\ Retry!At(p, "admitting") /\ proc' = [proc EXCEPT ![p].todo = @ \ {r}]
    BY DEF Retry!ReconcileRow
  <1>2. row' \in [Signatures -> Retry!Rows] /\ \A h \in Signatures : row'[h] = row[h] \/ Fits(h, row[h])'
    BY <1>0, <1>1, ReconcileWrites, CompletedFits, LinkedFits, RowSet
  <1>3. /\ proc' \in [Drains -> ProcRow] /\ \A q \in Drains : q # p => proc'[q] = proc[q]
        /\ ProcessOK(p)' /\ ~Retry!At(p, "running")'
    BY <1>1, TodoSet
  <1> QED BY <1>1, <1>2, <1>3, RowStep

LEMMA FailsKeeps ==
  ASSUME Retry!RetryAssumption, Retry!RetryInv, NEW p \in Drains,
         UNCHANGED <<revoked, row, work, fate, posts>>, proc' = [proc EXCEPT ![p] = Retry!Idle]
  PROVE  Retry!RetryInv'
  <1>0. Retry!TypeOK /\ row \in [Signatures -> Retry!Rows]
    BY RetryParts, RetryTypes
  <1>1. /\ proc' \in [Drains -> ProcRow] /\ proc'[p] = Retry!Idle
        /\ \A q \in Drains : q # p => proc'[q] = proc[q]
    BY <1>0, IdleFacts, ProcSet
  <1>2. ProcessOK(p)' /\ ~Retry!At(p, "running")'
    BY <1>1, IdleOK
  <1> QED BY <1>0, <1>1, <1>2, RowStep

LEMMA AdmitKeeps ==
  ASSUME Retry!RetryAssumption, Retry!RetryInv, NEW p \in Drains, NEW x \in proc[p].todo, Retry!AdmitRow(p, x)
  PROVE  Retry!RetryInv'
  <1> DEFINE r == [proc[p] EXCEPT !.todo = proc[p].todo \ {x}, !.mine = proc[p].mine \cup {x.work},
                                  !.left = proc[p].left + 1]
  <1>0. Retry!TypeOK /\ ProcessOK(p) /\ proc[p] \in ProcRow /\ proc[p].pc = "admitting" /\ x.work \in Retry!Retries
    BY RetryParts, RetryTypes, CopyFacts DEF Retry!At, Retry!AdmitRow
  <1>1. UNCHANGED <<revoked, row, work, fate, posts>> /\ row \in [Signatures -> Retry!Rows]
    BY <1>0, RetryTypes DEF Retry!AdmitRow
  <1>2. /\ IsFiniteSet(proc[p].todo \ {x}) /\ Cardinality(proc[p].todo \ {x}) \in Nat
        /\ Cardinality(proc[p].todo) = Cardinality(proc[p].todo \ {x}) + 1
    BY <1>0, TodoSmaller DEF ProcessOK
  <1>3. proc[p].left \in Nat /\ Cardinality(Signatures) \in Nat
    BY RetryFinite, <1>0, FS_CardinalityType DEF ProcRow, Retry!RetryAssumption
  <1>4. /\ proc[p].left + 1 \in 0 .. Cardinality(Signatures)
        /\ (proc[p].left + 1) + Cardinality(proc[p].todo \ {x}) <= Cardinality(Signatures)
    BY <1>0, <1>2, <1>3 DEF ProcessOK
  <1>5. /\ r \in ProcRow /\ r.pc = "admitting" /\ r.todo = proc[p].todo \ {x}
        /\ r.left = proc[p].left + 1
    BY <1>0, <1>4 DEF ProcRow
  <1>6. proc' = [proc EXCEPT ![p] = r]
    BY <1>0, RetryTypes DEF Retry!AdmitRow
  <1> HIDE DEF r
  <1>7. \A y \in r.todo : y.status = "pending" /\ Retry!Describes(y)
    BY <1>0, <1>5 DEF ProcessOK
  <1>8. /\ proc' \in [Drains -> ProcRow] /\ \A q \in Drains : q # p => proc'[q] = proc[q]
        /\ ProcessOK(p)' /\ ~Retry!At(p, "running")'
    BY <1>1, <1>2, <1>4, <1>5, <1>6, <1>7, DrainSet
  <1> QED BY <1>1, <1>8, RowStep

LEMMA StartKeeps ==
  ASSUME Retry!RetryAssumption, Retry!RetryInv, NEW p \in Drains, Retry!StartClaims(p)
  PROVE  Retry!RetryInv'
  <1>0. Retry!TypeOK /\ row \in [Signatures -> Retry!Rows]
    BY RetryParts, RetryTypes
  <1>1. UNCHANGED <<revoked, row, work, fate, posts>> /\ proc' = [proc EXCEPT ![p].pc = "claiming"] /\ WorkStays
    BY DEF Retry!StartClaims, WorkStays
  <1>2. /\ proc' \in [Drains -> ProcRow] /\ \A q \in Drains : q # p => proc'[q] = proc[q]
        /\ ProcessOK(p)' /\ ~Retry!At(p, "running")'
    BY <1>1, PcSet
  <1> QED BY <1>0, <1>1, <1>2, RowStep

LEMMA ClaimRetryKeeps ==
  ASSUME Retry!RetryAssumption, Retry!RetryInv, NEW p \in Drains, NEW w \in Retry!Retries, Retry!ClaimRetry(p, w)
  PROVE  Retry!RetryInv'
  <1>0. /\ Retry!TypeOK /\ ProcessOK(p) /\ WorksOK /\ proc[p] \in ProcRow /\ w \in Retry!Works /\ work[w] = "queued"
        /\ UNCHANGED <<revoked, row, fate, posts>> /\ proc[p].left > 0
    BY RetryParts, RetryTypes, WorkFacts DEF Retry!ClaimRetry, Retry!Claimable
  <1>1. CASE w \notin proc[p].mine
    <2>1. proc' = [proc EXCEPT ![p] = Retry!Idle] /\ UNCHANGED work
      BY <1>1 DEF Retry!ClaimRetry
    <2> QED BY <1>0, <2>1, FailsKeeps
  <1>2. CASE w \in proc[p].mine
    <2> DEFINE r == [proc[p] EXCEPT !.pc = "running", !.work = w, !.left = proc[p].left - 1]
    <2>1. work' = [work EXCEPT ![w] = "leased"]
      BY <1>2 DEF Retry!ClaimRetry
    <2>2. work' \in [Retry!Works -> {"absent", "queued", "leased", "completed"}] /\ work'[w] = "leased"
          /\ \A v \in Retry!Works : v # w => work'[v] = work[v]
      BY <1>0, <2>1, RetryTypes
    <2>3. proc[p].left - 1 \in 0 .. Cardinality(Signatures) /\ proc[p].left \in Nat /\ Cardinality(Signatures) \in Nat
      BY RetryFinite, <1>0, FS_CardinalityType DEF ProcRow, Retry!RetryAssumption
    <2>4. r \in ProcRow /\ r.pc = "running" /\ r.work = w /\ r.todo = proc[p].todo /\ r.left = proc[p].left - 1
      BY <1>0, <2>3 DEF ProcRow
    <2>5. proc' = [proc EXCEPT ![p] = r]
      BY <1>0, <1>2, RetryTypes DEF Retry!ClaimRetry
    <2> HIDE DEF r
    <2>6. /\ proc' \in [Drains -> ProcRow] /\ proc'[p] = r
          /\ \A q \in Drains : q # p => proc'[q] = proc[q]
      BY <1>0, <2>4, <2>5, ProcSet
    <2>7. Retry!TypeOK'
      BY RetryFinite, <1>0, <2>2, <2>6, RetryTypes DEF Retry!TypeOK, ProcRow
    <2>8. WorkStays
      BY <1>0, <2>2 DEF WorkStays
    <2>9. WorksOK'
      BY <1>0, <2>2, WorkFacts DEF WorksOK, Retry!Chained, Retry!PostedOnce
    <2>10. \A q \in Drains : q # p /\ Retry!At(q, "running") => work[Retry!WorkOf(q)] = "leased" /\ Retry!WorkOf(q) \in Retry!Works
      BY RetryParts DEF ProcessOK, Retry!At
    <2>11. ProcessOK(p)'
      <3>1. \A x \in proc'[p].todo : x.status = "pending" /\ Retry!Describes(x)'
        BY <1>0, <2>4, <2>6, <2>8, DescribesStays DEF ProcessOK, ProcRow
      <3>2. IsFiniteSet(proc'[p].todo) /\ proc'[p].left + Cardinality(proc'[p].todo) <= Cardinality(Signatures)
        <4>1. IsFiniteSet(proc[p].todo) /\ Cardinality(proc[p].todo) \in Nat
          BY <1>0, FS_CardinalityType DEF ProcessOK
        <4> QED BY <1>0, <2>3, <2>4, <2>6, <4>1 DEF ProcessOK
      <3> QED BY <1>0, <2>2, <2>4, <2>6, <3>1, <3>2 DEF ProcessOK, Retry!At, Retry!WorkOf
    <2>12. Retry!WorkOf(p)' = w
      BY <2>4, <2>6 DEF Retry!WorkOf
    <2> QED BY <1>0, <2>2, <2>6, <2>7, <2>8, <2>9, <2>10, <2>11, <2>12, ProcessMoves
  <1> QED BY <1>1, <1>2

-----------------------------------------------------------------------------
(* The theorems. *)

LEMMA RetryStutters == Retry!RetryInv /\ UNCHANGED Retry!vars => Retry!RetryInv'
  BY DEF Retry!vars, Retry!RetryInv, Retry!TypeOK, Retry!RowsDescribe, Retry!Describes,
     Retry!DrainsBounded, Retry!Executors, Retry!Projections,
     Retry!Chained, Retry!PostedOnce, Retry!At, Retry!WorkOf, Retry!HasSuccessor

LEMMA RetryNext ==
  ASSUME Retry!RetryAssumption, Retry!RetryInv, Retry!Next
  PROVE  Retry!RetryInv'
  <1>1. ASSUME NEW p \in Drains, Retry!DrainStep(p) PROVE Retry!RetryInv'
    <2>1. ASSUME NEW r \in proc[p].todo, Retry!DropRow(p, r) \/ Retry!ReconcileRow(p, r) \/ Retry!AdmitRow(p, r) PROVE Retry!RetryInv'
      BY <2>1, DropKeeps, ReconcileKeepsRetries, AdmitKeeps
    <2>2. ASSUME NEW r \in proc[p].todo, Retry!DrainFails(p, r) PROVE Retry!RetryInv'
      BY <2>2, FailsKeeps DEF Retry!DrainFails
    <2>3. ASSUME Retry!EndDrain(p) PROVE Retry!RetryInv'
      BY <2>3, FailsKeeps DEF Retry!EndDrain
    <2> QED BY <1>1, <2>1, <2>2, <2>3, StartKeeps, ClaimRetryKeeps DEF Retry!DrainStep
  <1>2. ASSUME NEW p \in Drains, Retry!RunStep(p) PROVE Retry!RetryInv'
    BY <1>2, AgentDefersKeeps, RefuseKeeps, ExecuteKeepsRetries, ReadKeeps, RecordKeeps,
       CloseKeeps DEF Retry!RunStep
  <1> QED BY <1>1, <1>2, PolicyKeeps, ControllerClaimsKeeps, DueKeeps, CrashKeepsRetries
         DEF Retry!Next

\* The inductive invariant of the postponed retries holds: rows and the drains'
\* copies of them describe work that exists, work that runs is leased to one
\* process, and a retry exists only after the attempt before it ended
\* (record_linked_retry, claim_work, _drain_due_retries).
THEOREM RetryInvariant == Retry!Spec => []Retry!RetryInv
  <1>1. Retry!Init => Retry!RetryInv
    BY RowsAssumption, InitRetry
  <1>2. Retry!RetryInv /\ [Retry!Next]_(Retry!vars) => Retry!RetryInv'
    BY RowsAssumption, RetryNext, RetryStutters
  <1> QED BY <1>1, <1>2, PTL DEF Retry!Spec

\* However many operators drain, and although the controller executes the same
\* work, an attempt sends one request and a row stands for work of its own
\* signature with that work's number of attempts.
THEOREM RetriesAreSafe == Retry!Spec => []RetriesSafe
  <1>1. Retry!RetryInv => Retry!RetriesSafe
    <2> SUFFICES ASSUME Retry!RetryInv PROVE Retry!RetriesSafe
      OBVIOUS
    <2>1. Retry!RowsAreBacked
      BY DEF Retry!RetryInv, Retry!RowsDescribe, Retry!Describes, Retry!RowsAreBacked,
         Retry!Signature
    <2> QED BY <2>1 DEF Retry!RetryInv, Retry!RetriesSafe
  <1> QED BY <1>1, RetryInvariant, PTL DEF RetriesSafe

\* What a step may do to the row of a signature.
LEMMA RowSteps ==
  ASSUME Retry!RetryAssumption, Retry!RetryInv, [Retry!Next]_(Retry!vars), NEW g \in Signatures
  PROVE  \/ row'[g] = row[g]
         \/ row'[g] = Retry!Completed(row[g])
         \/ \E s \in Sources : row'[g] = Retry!Deferred(row[g], s)
         \/ \E w \in Retry!Retries : row'[g] = Retry!Linked(row[g], w)
  <1> DEFINE Done == \/ row'[g] = row[g]
                     \/ row'[g] = Retry!Completed(row[g])
                     \/ \E s \in Sources : row'[g] = Retry!Deferred(row[g], s)
                     \/ \E w \in Retry!Retries : row'[g] = Retry!Linked(row[g], w)
  <1>0. row \in [Signatures -> Retry!Rows]
    BY RetryParts, RetryTypes
  <1>1. ASSUME NEW p \in Drains, Retry!AgentDefers(p) PROVE Done
    <2>1. Retry!WorkOf(p)[1] \in Sources
      BY <1>1, RetryParts, WorkFacts DEF Retry!AgentDefers, ProcessOK, Retry!At
    <2> QED BY <1>0, <1>1, <2>1 DEF Retry!AgentDefers
  <1>2. ASSUME NEW p \in Drains, Retry!ReadSuccessor(p) PROVE Done
    BY <1>0, <1>2 DEF Retry!ReadSuccessor
  <1>3. ASSUME NEW p \in Drains, Retry!RecordSuccessor(p) PROVE Done
    <2>1. Retry!Successor(Retry!WorkOf(p)) \in Retry!Retries
      BY <1>3, RetryParts, WorkFacts
         DEF Retry!RecordSuccessor, ProcessOK, Retry!At, Retry!HasSuccessor
    <2> QED BY <1>0, <1>3, <2>1 DEF Retry!RecordSuccessor
  <1>4. ASSUME NEW p \in Drains, Retry!CloseRow(p) PROVE Done
    BY <1>0, <1>4 DEF Retry!CloseRow
  <1>5. ASSUME NEW p \in Drains, NEW r \in proc[p].todo, Retry!DropRow(p, r) PROVE Done
    BY <1>0, <1>5 DEF Retry!DropRow
  <1>6. ASSUME NEW p \in Drains, NEW r \in proc[p].todo, Retry!ReconcileRow(p, r) PROVE Done
    <2>1. PICK h \in Signatures : h = SignatureOf[r.source]
      BY CopyFacts
    <2> QED BY <1>0, <1>6, <2>1, ReconcileWrites
  <1>7. ASSUME row' = row PROVE Done
    BY <1>7
  <1> HIDE DEF Done
  <1>8. ASSUME NEW p \in Drains, Retry!DrainStep(p) PROVE Done
    <2>1. ASSUME NEW r \in proc[p].todo, Retry!DrainFails(p, r) PROVE Done
      <3>1. row' = row BY <2>1 DEF Retry!DrainFails
      <3> QED BY <1>7, <3>1
    <2>2. ASSUME NEW r \in proc[p].todo, Retry!AdmitRow(p, r) PROVE Done
      <3>1. row' = row BY <2>2 DEF Retry!AdmitRow
      <3> QED BY <1>7, <3>1
    <2>3. ASSUME Retry!StartClaims(p) PROVE Done
      <3>1. row' = row BY <2>3 DEF Retry!StartClaims
      <3> QED BY <1>7, <3>1
    <2>4. ASSUME NEW w \in Retry!Retries, Retry!ClaimRetry(p, w) PROVE Done
      <3>1. row' = row BY <2>4 DEF Retry!ClaimRetry
      <3> QED BY <1>7, <3>1
    <2>5. ASSUME Retry!EndDrain(p) PROVE Done
      <3>1. row' = row BY <2>5 DEF Retry!EndDrain
      <3> QED BY <1>7, <3>1
    <2> QED BY <1>5, <1>6, <1>8, <2>1, <2>2, <2>3, <2>4, <2>5 DEF Retry!DrainStep
  <1>9. ASSUME NEW p \in Drains, Retry!RunStep(p) PROVE Done
    <2>1. ASSUME Retry!Refuse(p) PROVE Done
      <3>1. row' = row BY <2>1 DEF Retry!Refuse
      <3> QED BY <1>7, <3>1
    <2>2. ASSUME NEW throttled \in BOOLEAN, Retry!Execute(p, throttled) PROVE Done
      <3>1. row' = row BY <2>2 DEF Retry!Execute
      <3> QED BY <1>7, <3>1
    <2> QED BY <1>1, <1>2, <1>3, <1>4, <1>9, <2>1, <2>2 DEF Retry!RunStep
  <1>10. ASSUME Retry!ChangePolicy PROVE Done
    <2>1. row' = row BY <1>10 DEF Retry!ChangePolicy
    <2> QED BY <1>7, <2>1
  <1>11. ASSUME NEW p \in Drains, NEW w \in Retry!Works, Retry!ControllerClaims(p, w) PROVE Done
    <2>1. row' = row BY <1>11 DEF Retry!ControllerClaims
    <2> QED BY <1>7, <2>1
  <1>12. ASSUME NEW p \in Drains, Retry!DrainDue(p) PROVE Done
    <2>1. row' = row BY <1>12 DEF Retry!DrainDue
    <2> QED BY <1>7, <2>1
  <1>13. ASSUME NEW p \in Drains, Retry!Crash(p) PROVE Done
    <2>1. row' = row BY <1>13 DEF Retry!Crash
    <2> QED BY <1>7, <2>1
  <1>14. ASSUME UNCHANGED Retry!vars PROVE Done
    BY <1>7, <1>14 DEF Retry!vars
  <1>15. Done
    BY <1>8, <1>9, <1>10, <1>11, <1>12, <1>13, <1>14 DEF Retry!Next
  <1> QED BY <1>15 DEF Done

\* A projection that arrives late neither puts an earlier attempt in the place
\* of a later one nor shows a closed retry as pending (record_linked_retry).
THEOREM LateProjectionsAreHarmless == Retry!Spec => LateProjectionsHarmless
  <1>1. Retry!RetryInv /\ [Retry!Next]_(Retry!vars) => \A g \in Signatures :
          /\ row'[g].attempts >= row[g].attempts
          /\ row[g].status = "done" /\ row[g].work # Retry!NoWork /\ row'[g].work = row[g].work =>
               row'[g].status # "pending"
    <2> SUFFICES ASSUME Retry!RetryInv, [Retry!Next]_(Retry!vars), NEW g \in Signatures
                 PROVE  /\ row'[g].attempts >= row[g].attempts
                        /\ row[g].status = "done" /\ row[g].work # Retry!NoWork /\ row'[g].work = row[g].work =>
                             row'[g].status # "pending"
      OBVIOUS
    <2>0. row[g] \in Retry!Rows /\ row[g].attempts \in Nat
      BY RetryParts, RetryTypes DEF Retry!Rows
    <2>1. CASE row'[g] = row[g]
      BY <2>0, <2>1
    <2>2. CASE row'[g] = Retry!Completed(row[g])
      BY <2>0, <2>2, CompletedFacts
    <2>3. ASSUME NEW s \in Sources, row'[g] = Retry!Deferred(row[g], s)
          PROVE  /\ row'[g].attempts >= row[g].attempts
                 /\ row[g].status = "done" /\ row[g].work # Retry!NoWork /\ row'[g].work = row[g].work =>
                      row'[g].status # "pending"
      BY <2>0, <2>3, DeferredFacts, RowsAssumption
    <2>4. ASSUME NEW w \in Retry!Retries, row'[g] = Retry!Linked(row[g], w)
          PROVE  /\ row'[g].attempts >= row[g].attempts
                 /\ row[g].status = "done" /\ row[g].work # Retry!NoWork /\ row'[g].work = row[g].work =>
                      row'[g].status # "pending"
      BY <2>0, <2>4, LinkedFacts, RowsAssumption
    <2> QED BY <2>1, <2>2, <2>3, <2>4, RowSteps, RowsAssumption
  <1>2. Retry!RetryInv /\ [Retry!Next]_(Retry!vars) => [\A g \in Signatures : row'[g].attempts >= row[g].attempts]_(Retry!vars)
    BY <1>1
  <1>3. Retry!RetryInv /\ [Retry!Next]_(Retry!vars) =>
          [\A g \in Signatures :
             row[g].status = "done" /\ row[g].work # Retry!NoWork /\ row'[g].work = row[g].work
               => row'[g].status # "pending"]_(Retry!vars)
    BY <1>1
  <1> QED BY <1>2, <1>3, RetryInvariant, PTL
       DEF Retry!Spec, LateProjectionsHarmless, Retry!LateProjectionsHarmless, Retry!NeverBack,
           Retry!ClosedStaysClosed

-----------------------------------------------------------------------------
(* Incidents and their journal: the invariant in parts. *)

LEMMA IncidentsFinite ==
  /\ \A S : Incidents!IsFiniteSet(S) <=> IsFiniteSet(S)
  /\ \A S : Incidents!Cardinality(S) = Cardinality(S)
  <1>1. \A S : Incidents!IsFiniteSet(S) <=> IsFiniteSet(S)
    BY DEF Incidents!IsFiniteSet, IsFiniteSet
  <1>2. \A S : Incidents!Cardinality(S) = Cardinality(S)
    BY <1>1 DEF Incidents!Cardinality, Cardinality
  <1> QED BY <1>1, <1>2

SessionRecord == [pc: Incidents!OperatorSteps, id: Incidents!Ids, key: Requests \cup {NoRequest},
                  kind: {"none", "resolution", "question"}, rev: Incidents!Row, ver: Nat]

RowsInv ==
  /\ inc \in [Incidents!Ids -> Incidents!Row] /\ \A i \in Incidents!Ids : inc[i].occ = 0 <=> inc[i].status = "none"
  /\ ctl \in [Workflows -> [pc: {"idle", "loaded"}, id: Incidents!Ids, was: Incidents!Row, row: Incidents!Row]]
  /\ sure \in [Incidents!Ids -> Nat] /\ unsure \in [Incidents!Ids -> Nat]
  /\ Incidents!Loaded /\ Incidents!OccurrencesExact

\* What holds of the session of one operator.
Session(u) ==
  /\ op[u].pc \notin {"away", "page"} => op[u].key \in Requests /\ op[u].kind # "none"
  /\ Incidents!Asking(u) =>
       /\ Incidents!Used(op[u].key) # {}
       /\ \A v \in Operators : Incidents!Asking(v) /\ op[v].key = op[u].key => u = v
       /\ asked[op[u].key] = IF op[u].pc \in {"ask", "call"} THEN 0 ELSE 1
       /\ op[u].pc = "call" => runs[op[u].key] = "running"
       /\ op[u].pc = "answer" => op[u].key \in replied /\ runs[op[u].key] = "completed"
       /\ op[u].pc = "apology" => op[u].key \notin replied

\* The closures of a case are numbered in turn, each over what its author saw.
SeenEvidence == \A i \in Incidents!Ids :
  /\ \A e \in Incidents!Resolutions(i) : e.at = e.rev /\ e.at.status # "resolved"
  /\ {e.ver : e \in Incidents!Resolutions(i)} = 1 .. Cardinality(Incidents!Resolutions(i))

\* The journal, and what is known of the keys.
JournalInv ==
  /\ journal \in [entries: SUBSET Incidents!Entry, answers: SUBSET Incidents!Answers]
  /\ IsFiniteSet(journal.entries) /\ SeenEvidence

KeysInv ==
  /\ runs \in [Requests -> Incidents!RunStates] /\ asked \in [Requests -> Nat] /\ replied \subseteq Requests
  /\ Incidents!AskedOnce /\ Incidents!ThreadTruthful
  /\ \A k \in Requests : asked[k] > 0 => Incidents!Used(k) # {}
  /\ \A k \in replied : asked[k] > 0
  /\ \A a \in journal.answers : asked[a.key] > 0

Link == \A i \in Incidents!Ids : \A e \in Incidents!Resolutions(i) : e.rev.occ <= inc[i].occ

LEMMA EvidenceSeen ==
  /\ SeenEvidence <=> Incidents!ClosureOfSeenEvidence
  /\ SeenEvidence' <=> Incidents!ClosureOfSeenEvidence'
  BY IncidentsFinite DEF SeenEvidence, Incidents!ClosureOfSeenEvidence

LEMMA IncidentParts ==
  Incidents!IncidentInv <=> /\ RowsInv /\ JournalInv /\ KeysInv /\ Link /\ ifaults \in 0 .. MaxFaults
                            /\ op \in [Operators -> SessionRecord] /\ \A u \in Operators : Session(u)
  BY IncidentsFinite, EvidenceSeen
     DEF Incidents!IncidentInv, Incidents!CasesTruthful, Incidents!TypeOK,
     Incidents!Submitted, Incidents!Reserved, RowsInv, JournalInv, KeysInv, Link, SessionRecord,
     Session

LEMMA IncidentPartsNext ==
  ASSUME RowsInv', JournalInv', KeysInv', Link', ifaults' \in 0 .. MaxFaults,
         op' \in [Operators -> SessionRecord], \A u \in Operators : Session(u)'
  PROVE  Incidents!IncidentInv'
  <1>1. Incidents!TypeOK'
    BY IncidentsFinite DEF Incidents!TypeOK, RowsInv, JournalInv, KeysInv, SessionRecord
  <1>2. Incidents!CasesTruthful'
    BY <1>1, EvidenceSeen DEF Incidents!CasesTruthful, RowsInv, JournalInv, KeysInv
  <1>3. Incidents!Submitted' /\ Incidents!Reserved'
    BY IncidentsFinite DEF Incidents!Submitted, Incidents!Reserved, JournalInv, KeysInv, Link,
       Session
  <1>4. Incidents!Loaded'
    BY DEF RowsInv
  <1> QED BY <1>2, <1>3, <1>4 DEF Incidents!IncidentInv

LEMMA IncidentInit ==
  ASSUME Incidents!IncidentAssumption, Incidents!Init
  PROVE  Incidents!IncidentInv
  <1>1. MaxRecords \in Nat /\ MaxFaults \in Nat
    BY DEF Incidents!IncidentAssumption
  <1>2. Incidents!NoRow \in Incidents!Row
    BY <1>1 DEF Incidents!NoRow, Incidents!Row, Incidents!Statuses
  <1>3. RowsInv
    <2>1. Incidents!Waiting \in [pc: {"idle", "loaded"}, id: Incidents!Ids, was: Incidents!Row, row: Incidents!Row]
      BY <1>2 DEF Incidents!Waiting, Incidents!Ids
    <2>2. ctl \in [Workflows -> [pc: {"idle", "loaded"}, id: Incidents!Ids, was: Incidents!Row, row: Incidents!Row]]
      BY <2>1 DEF Incidents!Init
    <2>3. \A p \in Workflows : ctl[p].pc = "idle"
      BY DEF Incidents!Init, Incidents!Waiting
    <2>4. inc \in [Incidents!Ids -> Incidents!Row] /\ \A i \in Incidents!Ids : inc[i].occ = 0 /\ inc[i].status = "none"
      BY <1>2 DEF Incidents!Init, Incidents!NoRow
    <2>5. sure \in [Incidents!Ids -> Nat] /\ unsure \in [Incidents!Ids -> Nat] /\ \A i \in Incidents!Ids : sure[i] = 0 /\ unsure[i] = 0
      BY DEF Incidents!Init
    <2> QED BY <2>2, <2>3, <2>4, <2>5 DEF RowsInv, Incidents!Loaded, Incidents!OccurrencesExact
  <1>4. \A i \in Incidents!Ids : Incidents!Resolutions(i) = {}
    BY DEF Incidents!Init, Incidents!Resolutions
  <1>5. JournalInv /\ Link
    <2>1. journal \in [entries: SUBSET Incidents!Entry, answers: SUBSET Incidents!Answers] /\ journal.entries = {}
      BY DEF Incidents!Init
    <2>2. IsFiniteSet({}) /\ Cardinality({}) = 0
      BY FS_EmptySet, Zenon
    <2>3. ASSUME NEW i \in Incidents!Ids PROVE {e.ver : e \in Incidents!Resolutions(i)} = 1 .. Cardinality(Incidents!Resolutions(i))
      BY <1>4, <2>2
    <2>4. IsFiniteSet(journal.entries)
      BY <2>1, <2>2, Zenon
    <2> QED BY <1>4, <2>1, <2>3, <2>4 DEF JournalInv, SeenEvidence, Link
  <1>6. KeysInv
    BY DEF Incidents!Init, KeysInv, Incidents!RunStates, Incidents!AskedOnce,
       Incidents!ThreadTruthful
  <1>7. op \in [Operators -> SessionRecord] /\ \A u \in Operators : op[u].pc = "away"
    <2>1. Incidents!Away \in SessionRecord /\ Incidents!Away.pc = "away"
      BY <1>2 DEF Incidents!Away, SessionRecord, Incidents!OperatorSteps, Incidents!Ids
    <2> QED BY <2>1 DEF Incidents!Init
  <1>8. \A u \in Operators : Session(u)
    BY <1>7 DEF Session, Incidents!Asking
  <1>9. ifaults \in 0 .. MaxFaults
    BY <1>1 DEF Incidents!Init
  <1> QED BY <1>3, <1>5, <1>6, <1>7, <1>8, <1>9, IncidentParts

-----------------------------------------------------------------------------
(* The controllers. *)

\* The journal is left alone, and no row counts fewer occurrences.
LEMMA RowsStep ==
  ASSUME Incidents!IncidentInv, RowsInv', UNCHANGED Incidents!caseVars, \A i \in Incidents!Ids : inc[i].occ <= inc'[i].occ,
         ifaults' \in 0 .. MaxFaults
  PROVE  Incidents!IncidentInv'
  <1>1. UNCHANGED <<journal, op, runs, asked, replied>>
    BY DEF Incidents!caseVars
  <1>2. \A i \in Incidents!Ids : Incidents!Resolutions(i)' = Incidents!Resolutions(i)
    BY <1>1 DEF Incidents!Resolutions
  <1>3. \A k : Incidents!Used(k)' = Incidents!Used(k)
    BY <1>1 DEF Incidents!Used
  <1>4. JournalInv'
    <2>1. SeenEvidence'
      <3> SUFFICES ASSUME NEW i \in Incidents!Ids
                   PROVE  /\ \A e \in Incidents!Resolutions(i) : e.at = e.rev /\ e.at.status # "resolved"
                          /\ {e.ver : e \in Incidents!Resolutions(i)} = 1 .. Cardinality(Incidents!Resolutions(i))
        BY <1>2 DEF SeenEvidence
      <3> QED BY IncidentParts DEF JournalInv, SeenEvidence
    <2> QED BY <1>1, <2>1, IncidentParts DEF JournalInv
  <1>5. KeysInv'
    BY <1>1, <1>3, IncidentParts DEF KeysInv, Incidents!AskedOnce, Incidents!ThreadTruthful
  <1>6. \A u \in Operators : Session(u)'
    BY <1>1, <1>3, IncidentParts DEF Session, Incidents!Asking
  <1>7. Link'
    <2> SUFFICES ASSUME NEW i \in Incidents!Ids, NEW e \in Incidents!Resolutions(i) PROVE e.rev.occ <= inc'[i].occ
      BY <1>2 DEF Link
    <2>1. e.rev.occ \in Nat
      BY IncidentParts DEF JournalInv, Incidents!Resolutions, Incidents!Entry, Incidents!Row
    <2>2. e.rev.occ <= inc[i].occ
      BY IncidentParts DEF Link
    <2>3. inc[i].occ \in Nat /\ inc'[i].occ \in Nat
      BY IncidentParts DEF RowsInv, Incidents!Row
    <2> QED BY <2>1, <2>2, <2>3
  <1> QED BY <1>1, <1>4, <1>5, <1>6, <1>7, IncidentParts, IncidentPartsNext

\* The row that is computed counts one occurrence more than the row it is for.
LEMMA RecordedRow ==
  ASSUME Incidents!IncidentAssumption, RowsInv, Incidents!Committed < MaxRecords, NEW out \in Incidents!Outcomes,
         NEW r \in Incidents!Recorded(inc, out)
  PROVE  /\ r.id \in Incidents!Ids /\ r.was = inc[r.id] /\ r.was \in Incidents!Row /\ r.row \in Incidents!Row
         /\ r.row.occ = r.was.occ + 1 /\ r.row.status # "none"
  <1>1. /\ \A i \in Incidents!Ids : inc[i] \in Incidents!Row /\ inc[i].occ \in Nat /\ inc[i].occ + 1 \in 0 .. MaxRecords
        /\ MaxRecords \in Nat
    <2>1. inc["sig"] \in Incidents!Row /\ inc["usig"] \in Incidents!Row /\ MaxRecords \in Nat
      BY DEF RowsInv, Incidents!Ids, Incidents!IncidentAssumption
    <2>2. inc["sig"].occ \in Nat /\ inc["usig"].occ \in Nat
      BY <2>1 DEF Incidents!Row
    <2>3. inc["sig"].occ + inc["usig"].occ < MaxRecords
      BY DEF Incidents!Committed
    <2> QED BY <2>1, <2>2, <2>3 DEF Incidents!Ids
  <1> DEFINE o == IF out = "duplicate_suppressed" /\ Incidents!FindOpen(inc) = {} THEN "needs_human" ELSE out
             own == IF o \in {"resolved", "flagged_data_quality"} THEN "sig" ELSE "usig"
  <1>2. CASE o = "duplicate_suppressed"
    <2>1. PICK i \in Incidents!FindOpen(inc) :
            r = [id |-> i, was |-> inc[i], row |-> [inc[i] EXCEPT !.occ = inc[i].occ + 1]]
      BY <1>2 DEF Incidents!Recorded
    <2>2. i \in Incidents!Ids /\ inc[i].status \in {"open", "investigating"}
      BY <2>1 DEF Incidents!FindOpen
    <2> DEFINE new == [inc[i] EXCEPT !.occ = inc[i].occ + 1]
    <2>3. new \in Incidents!Row /\ new.occ = inc[i].occ + 1 /\ new.status = inc[i].status
      BY <1>1, <2>2 DEF Incidents!Row
    <2>4. r.id = i /\ r.was = inc[i] /\ r.row = new
      BY <2>1
    <2> HIDE DEF new
    <2> QED BY <1>1, <2>2, <2>3, <2>4
  <1>3. CASE o # "duplicate_suppressed"
    <2> DEFINE new == [occ |-> inc[own].occ + 1, status |-> Incidents!StatusFor(o),
                       inv |-> inc[own].inv \/ o = "needs_human"]
    <2>1. r = [id |-> own, was |-> inc[own], row |-> new]
      BY <1>3 DEF Incidents!Recorded
    <2>2. own \in Incidents!Ids
      BY DEF Incidents!Ids
    <2>3. Incidents!StatusFor(o) \in {"resolved", "open"}
      BY DEF Incidents!StatusFor
    <2> HIDE DEF own, o
    <2>4. new \in Incidents!Row /\ new.occ = inc[own].occ + 1 /\ new.status # "none"
      BY <1>1, <2>2, <2>3 DEF Incidents!Row, Incidents!Statuses
    <2>5. r.id = own /\ r.was = inc[own] /\ r.row = new
      BY <2>1
    <2> HIDE DEF new
    <2> QED BY <1>1, <2>2, <2>4, <2>5
  <1> QED BY <1>2, <1>3

LEMMA LoadKeeps ==
  ASSUME Incidents!IncidentAssumption, Incidents!IncidentInv, NEW p \in Workflows, NEW out \in Incidents!Outcomes,
         Incidents!LoadRows(p, out)
  PROVE  Incidents!IncidentInv'
  <1>1. PICK r \in Incidents!Recorded(inc, out) :
          ctl' = [ctl EXCEPT ![p] = [pc |-> "loaded", id |-> r.id, was |-> r.was, row |-> r.row]]
    BY DEF Incidents!LoadRows
  <1>2. Incidents!Committed < MaxRecords /\ UNCHANGED <<inc, sure, unsure, Incidents!caseVars, ifaults>>
    BY DEF Incidents!LoadRows
  <1>3. /\ r.id \in Incidents!Ids /\ r.was \in Incidents!Row /\ r.row \in Incidents!Row
        /\ r.row.occ = r.was.occ + 1 /\ r.row.status # "none"
    BY <1>2, RecordedRow, IncidentParts
  <1>4. ctl' \in [Workflows -> [pc: {"idle", "loaded"}, id: Incidents!Ids, was: Incidents!Row, row: Incidents!Row]]
    BY <1>1, <1>3, IncidentParts DEF RowsInv
  <1>5. Incidents!Loaded'
    BY <1>1, <1>3, IncidentParts DEF RowsInv, Incidents!Loaded
  <1>6. RowsInv'
    BY <1>2, <1>4, <1>5, IncidentParts DEF RowsInv, Incidents!OccurrencesExact
  <1>7. \A i \in Incidents!Ids : inc[i].occ <= inc'[i].occ
    BY <1>2, IncidentParts DEF RowsInv, Incidents!Row
  <1> QED BY <1>2, <1>6, <1>7, RowsStep, IncidentParts

\* A write takes effect over the payload that was read.
LEMMA WriteKeeps ==
  ASSUME Incidents!IncidentAssumption, Incidents!IncidentInv, NEW p \in Workflows, Incidents!WriteRow(p)
  PROVE  Incidents!IncidentInv'
  <1> DEFINE c == ctl[p]  i == ctl[p].id
  <1>1. /\ c \in [pc: {"idle", "loaded"}, id: Incidents!Ids, was: Incidents!Row, row: Incidents!Row] /\ i \in Incidents!Ids
        /\ c.row \in Incidents!Row /\ c.row.occ = c.was.occ + 1 /\ c.row.status # "none"
        /\ c.was.occ \in Nat /\ c.row.occ \in Nat
    <2>1. ctl[p] \in [pc: {"idle", "loaded"}, id: Incidents!Ids, was: Incidents!Row, row: Incidents!Row] /\ ctl[p].pc = "loaded"
      BY IncidentParts DEF RowsInv, Incidents!WriteRow
    <2>2. c.row.occ = c.was.occ + 1 /\ c.row.status # "none"
      BY <2>1, IncidentParts DEF RowsInv, Incidents!Loaded
    <2> QED BY <2>1, <2>2 DEF Incidents!Row
  <1>2. /\ ctl' = [ctl EXCEPT ![p] = Incidents!Waiting] /\ UNCHANGED Incidents!caseVars
        /\ \/ /\ inc[i] = c.was /\ inc' = [inc EXCEPT ![i] = c.row]
              /\ \/ sure' = Incidents!Bump(sure, i) /\ UNCHANGED <<unsure, ifaults>>
                 \/ unsure' = Incidents!Bump(unsure, i) /\ sure' = sure /\ Incidents!Fault
           \/ UNCHANGED <<inc, sure, unsure, ifaults>>
    BY DEF Incidents!WriteRow, Incidents!Unchanged
  <1>3. Incidents!Waiting \in [pc: {"idle", "loaded"}, id: Incidents!Ids, was: Incidents!Row, row: Incidents!Row] /\ Incidents!Waiting.pc = "idle"
    BY DEF Incidents!Waiting, Incidents!Ids, Incidents!NoRow, Incidents!Row, Incidents!Statuses,
       Incidents!IncidentAssumption
  <1>4. /\ ctl' \in [Workflows -> [pc: {"idle", "loaded"}, id: Incidents!Ids, was: Incidents!Row, row: Incidents!Row]]
        /\ Incidents!Loaded'
    <2>1. ctl' \in [Workflows -> [pc: {"idle", "loaded"}, id: Incidents!Ids, was: Incidents!Row, row: Incidents!Row]]
      BY <1>2, <1>3, IncidentParts DEF RowsInv
    <2>2. \A q \in Workflows : ctl'[q].pc = "loaded" => ctl'[q] = ctl[q]
      BY <1>2, <1>3, IncidentParts DEF RowsInv
    <2> QED BY <2>1, <2>2, IncidentParts DEF RowsInv, Incidents!Loaded
  <1>5. ifaults' \in 0 .. MaxFaults
    BY <1>2, IncidentParts DEF Incidents!Fault, Incidents!IncidentAssumption
  <1>6. /\ inc \in [Incidents!Ids -> Incidents!Row] /\ \A j \in Incidents!Ids : inc[j].occ = 0 <=> inc[j].status = "none"
        /\ sure \in [Incidents!Ids -> Nat] /\ unsure \in [Incidents!Ids -> Nat]
        /\ \A j \in Incidents!Ids : inc[j].occ \in Nat
        /\ \A j \in Incidents!Ids : sure[j] <= inc[j].occ /\ inc[j].occ <= sure[j] + unsure[j]
    BY IncidentParts DEF RowsInv, Incidents!OccurrencesExact, Incidents!Row
  <1> HIDE DEF c
  <1>7. CASE UNCHANGED <<inc, sure, unsure, ifaults>>
    BY <1>2, <1>4, <1>5, <1>6, <1>7, RowsStep DEF RowsInv, Incidents!OccurrencesExact
  <1>8. CASE /\ inc[i] = c.was /\ inc' = [inc EXCEPT ![i] = c.row]
             /\ \/ sure' = Incidents!Bump(sure, i) /\ UNCHANGED <<unsure, ifaults>>
                \/ unsure' = Incidents!Bump(unsure, i) /\ sure' = sure /\ Incidents!Fault
    <2>1. /\ inc' \in [Incidents!Ids -> Incidents!Row] /\ inc'[i] = c.row
          /\ \A j \in Incidents!Ids : j # i => inc'[j] = inc[j]
      BY <1>1, <1>6, <1>8
    <2>2. /\ sure' \in [Incidents!Ids -> Nat] /\ unsure' \in [Incidents!Ids -> Nat]
          /\ \A j \in Incidents!Ids : j # i => sure'[j] = sure[j] /\ unsure'[j] = unsure[j]
          /\ \/ sure'[i] = sure[i] + 1 /\ unsure'[i] = unsure[i]
             \/ sure'[i] = sure[i] /\ unsure'[i] = unsure[i] + 1
      BY <1>1, <1>6, <1>8 DEF Incidents!Bump
    <2>3. inc'[i].occ = inc[i].occ + 1 /\ inc'[i].status # "none"
      BY <1>1, <1>8, <2>1
    <2> HIDE DEF i
    <2>4. \A j \in Incidents!Ids : inc[j].occ <= inc'[j].occ
      BY <1>1, <1>6, <2>1, <2>3
    <2>5. \A j \in Incidents!Ids : inc'[j].occ = 0 <=> inc'[j].status = "none"
      BY <1>1, <1>6, <2>1, <2>3
    <2>6. Incidents!OccurrencesExact'
      <3> SUFFICES ASSUME NEW j \in Incidents!Ids
                   PROVE  sure'[j] <= inc'[j].occ /\ inc'[j].occ <= sure'[j] + unsure'[j]
        BY DEF Incidents!OccurrencesExact
      <3>1. /\ sure[j] \in Nat /\ unsure[j] \in Nat /\ inc[j].occ \in Nat
            /\ sure[j] <= inc[j].occ /\ inc[j].occ <= sure[j] + unsure[j]
        BY <1>6
      <3>2. CASE j = i
        BY <2>2, <2>3, <3>1, <3>2
      <3>3. CASE j # i
        BY <2>1, <2>2, <3>1, <3>3
      <3> QED BY <3>2, <3>3
    <2>7. RowsInv'
      BY <1>4, <2>1, <2>2, <2>5, <2>6 DEF RowsInv
    <2> QED BY <1>2, <1>5, <2>4, <2>7, RowsStep
  <1> QED BY <1>2, <1>7, <1>8

LEMMA MarkKeeps ==
  ASSUME Incidents!IncidentInv, NEW i \in Incidents!Ids, NEW status \in {"resolved", "investigating"},
         Incidents!MarkRow(i, status)
  PROVE  Incidents!IncidentInv'
  <1>1. /\ inc[i].status \in {"open", "investigating"}
        /\ inc' = [inc EXCEPT ![i].status = status]
        /\ UNCHANGED <<ctl, sure, unsure, Incidents!caseVars, ifaults>>
    BY DEF Incidents!MarkRow
  <1> DEFINE r == [inc[i] EXCEPT !.status = status]
  <1>2. inc \in [Incidents!Ids -> Incidents!Row] /\ inc[i] \in Incidents!Row
    BY IncidentParts DEF RowsInv
  <1>3. r \in Incidents!Row /\ r.occ = inc[i].occ /\ r.status = status
    BY <1>2 DEF Incidents!Row, Incidents!Statuses
  <1>4. inc' = [inc EXCEPT ![i] = r]
    BY <1>1
  <1> HIDE DEF r
  <1>5. /\ inc' \in [Incidents!Ids -> Incidents!Row] /\ inc'[i].occ = inc[i].occ /\ inc'[i].status = status
        /\ \A j \in Incidents!Ids : j # i => inc'[j] = inc[j]
    BY <1>2, <1>3, <1>4
  <1>6. \A j \in Incidents!Ids : inc'[j].occ = inc[j].occ /\ inc[j].occ \in Nat
    BY <1>2, <1>5 DEF Incidents!Row
  <1>7. \A j \in Incidents!Ids : inc'[j].occ = 0 <=> inc'[j].status = "none"
    BY <1>1, <1>5, <1>6, IncidentParts DEF RowsInv
  <1>8. RowsInv'
    BY <1>1, <1>5, <1>6, <1>7, IncidentParts
       DEF RowsInv, Incidents!OccurrencesExact, Incidents!Loaded
  <1>9. \A j \in Incidents!Ids : inc[j].occ <= inc'[j].occ
    BY <1>6
  <1> QED BY <1>1, <1>8, <1>9, RowsStep, IncidentParts

-----------------------------------------------------------------------------
(* The journal. *)

\* The version of a case is the number of its closures.
LEMMA VersionCounts ==
  ASSUME JournalInv, NEW i \in Incidents!Ids
  PROVE  /\ Incidents!Version(i) = Cardinality(Incidents!Resolutions(i)) /\ Incidents!Version(i) \in Nat
         /\ IsFiniteSet(Incidents!Resolutions(i))
         /\ {e.ver : e \in Incidents!Resolutions(i)} = 1 .. Incidents!Version(i)
  <1> DEFINE n == Cardinality(Incidents!Resolutions(i))
  <1>1. IsFiniteSet(Incidents!Resolutions(i))
    <2>1. Incidents!Resolutions(i) \subseteq journal.entries
      BY DEF Incidents!Resolutions
    <2> QED BY <2>1, FS_Subset DEF JournalInv
  <1>2. n \in Nat
    BY <1>1, FS_CardinalityType
  <1>3. {e.ver : e \in Incidents!Resolutions(i)} = 1 .. n
    BY DEF JournalInv, SeenEvidence
  <1> HIDE DEF n
  <1>4. {0} \cup {e.ver : e \in Incidents!Resolutions(i)} = 0 .. n
    BY <1>2, <1>3
  <1>5. Incidents!Max(0 .. n) = n
    <2>1. n \in 0 .. n /\ \A y \in 0 .. n : n >= y
      BY <1>2
    <2>2. \A x \in 0 .. n : (\A y \in 0 .. n : x >= y) => x = n
      BY <1>2
    <2> QED BY <2>1, <2>2 DEF Incidents!Max
  <1>6. Incidents!Version(i) = n
    BY <1>4, <1>5 DEF Incidents!Version
  <1> QED BY <1>1, <1>2, <1>3, <1>6 DEF n

\* A step of a session leaves the others' sessions as they are.
LEMMA OtherSessions ==
  ASSUME Incidents!IncidentInv, NEW u \in Operators, NEW r \in SessionRecord,
         op' = [op EXCEPT ![u] = r],
         r.pc \in {"ask", "call", "answer", "apology"} =>
           \/ r.key = op[u].key /\ Incidents!Asking(u)
           \/ \A v \in Operators : Incidents!Asking(v) => op[v].key # r.key,
         \A k : Incidents!Used(k) # {} => Incidents!Used(k)' # {},
         \A v \in Operators : v # u /\ Incidents!Asking(v) =>
           /\ asked'[op[v].key] = asked[op[v].key]
           /\ runs'[op[v].key] = runs[op[v].key]
           /\ op[v].key \in replied' <=> op[v].key \in replied
  PROVE  /\ op' \in [Operators -> SessionRecord] /\ op'[u] = r
         /\ \A v \in Operators : v # u => Session(v)'
  <1>1. op \in [Operators -> SessionRecord] /\ \A v \in Operators : Session(v)
    BY IncidentParts
  <1>2. /\ op' \in [Operators -> SessionRecord] /\ op'[u] = r
        /\ \A v \in Operators : v # u => op'[v] = op[v]
    BY <1>1
  <1>3. ASSUME NEW v \in Operators, v # u PROVE Session(v)'
    <2>1. op'[v] = op[v] /\ Session(v)
      BY <1>1, <1>2, <1>3
    <2>2. Incidents!Asking(v)' <=> Incidents!Asking(v)
      BY <2>1 DEF Incidents!Asking
    <2>3. CASE ~Incidents!Asking(v)
      BY <2>1, <2>2, <2>3 DEF Session
    <2>4. CASE Incidents!Asking(v)
      <3>1. Incidents!Used(op[v].key)' # {}
        BY <2>1, <2>4 DEF Session
      <3>2. \A w \in Operators : Incidents!Asking(w)' /\ op'[w].key = op'[v].key => v = w
        <4> SUFFICES ASSUME NEW w \in Operators, Incidents!Asking(w)', op'[w].key = op[v].key PROVE v = w
          BY <2>1
        <4>1. CASE w = u
          <5>1. r.pc \in {"ask", "call", "answer", "apology"} /\ r.key = op[v].key
            BY <1>2, <4>1 DEF Incidents!Asking
          <5>2. Incidents!Asking(u) /\ op[u].key = op[v].key
            BY <2>4, <5>1
          <5> QED BY <1>1, <1>3, <2>4, <5>2 DEF Session
        <4>2. CASE w # u
          <5>1. Incidents!Asking(w) /\ op[w].key = op[v].key
            BY <1>2, <4>2 DEF Incidents!Asking
          <5> QED BY <1>1, <2>4, <5>1 DEF Session
        <4> QED BY <4>1, <4>2
      <3>3. /\ asked'[op[v].key] = asked[op[v].key]
            /\ runs'[op[v].key] = runs[op[v].key]
            /\ op[v].key \in replied' <=> op[v].key \in replied
        BY <1>3, <2>4
      <3> QED BY <2>1, <2>2, <2>4, <3>1, <3>2, <3>3 DEF Session
    <2> QED BY <2>3, <2>4
  <1> QED BY <1>2, <1>3

LEMMA JournalFrame ==
  ASSUME Incidents!IncidentInv, journal'.entries = journal.entries,
         journal' \in [entries: SUBSET Incidents!Entry, answers: SUBSET Incidents!Answers]
  PROVE  /\ JournalInv' /\ \A i \in Incidents!Ids : Incidents!Resolutions(i)' = Incidents!Resolutions(i)
         /\ \A k : Incidents!Used(k)' = Incidents!Used(k)
  <1>1. \A i \in Incidents!Ids : Incidents!Resolutions(i)' = Incidents!Resolutions(i)
    BY DEF Incidents!Resolutions
  <1>2. SeenEvidence'
    <2> SUFFICES ASSUME NEW i \in Incidents!Ids
                 PROVE  /\ \A e \in Incidents!Resolutions(i) : e.at = e.rev /\ e.at.status # "resolved"
                        /\ {e.ver : e \in Incidents!Resolutions(i)} = 1 .. Cardinality(Incidents!Resolutions(i))
      BY <1>1 DEF SeenEvidence
    <2> QED BY IncidentParts DEF JournalInv, SeenEvidence
  <1> QED BY <1>1, <1>2, IncidentParts DEF JournalInv, Incidents!Used

LEMMA RowsFrame ==
  ASSUME Incidents!IncidentInv, UNCHANGED <<inc, ctl, sure, unsure>>,
         \A i \in Incidents!Ids : Incidents!Resolutions(i)' = Incidents!Resolutions(i)
  PROVE  RowsInv' /\ Link'
  BY IncidentParts DEF RowsInv, Link, Incidents!Loaded, Incidents!OccurrencesExact

\* A session moves on without a trace.
LEMMA SessionStep ==
  ASSUME Incidents!IncidentInv, NEW u \in Operators, NEW r \in SessionRecord,
         op' = [op EXCEPT ![u] = r], r.pc \in {"away", "page", "checked"},
         r.pc = "checked" => r.key \in Requests /\ r.kind # "none",
         UNCHANGED <<inc, ctl, sure, unsure, journal, runs, asked, replied>>,
         ifaults' \in 0 .. MaxFaults
  PROVE  Incidents!IncidentInv'
  <1>1. JournalInv' /\ RowsInv' /\ Link' /\ \A k : Incidents!Used(k)' = Incidents!Used(k)
    <2>1. /\ journal'.entries = journal.entries
          /\ journal' \in [entries: SUBSET Incidents!Entry, answers: SUBSET Incidents!Answers]
      BY IncidentParts DEF JournalInv
    <2> QED BY <2>1, JournalFrame, RowsFrame
  <1>2. KeysInv'
    BY <1>1, IncidentParts DEF KeysInv, Incidents!AskedOnce, Incidents!ThreadTruthful
  <1>3. /\ op' \in [Operators -> SessionRecord] /\ op'[u] = r
        /\ \A v \in Operators : v # u => Session(v)'
    BY <1>1, OtherSessions
  <1>4. Session(u)'
    BY <1>3 DEF Session, Incidents!Asking
  <1> QED BY <1>1, <1>2, <1>3, <1>4, IncidentPartsNext

LEMMA AwayTyped ==
  ASSUME Incidents!IncidentAssumption
  PROVE  Incidents!Away \in SessionRecord /\ Incidents!Away.pc = "away"
  BY DEF Incidents!IncidentAssumption, Incidents!Away, SessionRecord, Incidents!OperatorSteps,
     Incidents!Ids, Incidents!NoRow, Incidents!Row, Incidents!Statuses

LEMMA FaultBounded ==
  ASSUME Incidents!IncidentAssumption, Incidents!IncidentInv, ifaults' = ifaults \/ Incidents!Fault
  PROVE  ifaults' \in 0 .. MaxFaults
  BY IncidentParts DEF Incidents!Fault, Incidents!IncidentAssumption

LEMMA OpenKeeps ==
  ASSUME Incidents!IncidentAssumption, Incidents!IncidentInv, NEW u \in Operators, NEW i \in Cases, Incidents!OpenCase(u, i)
  PROVE  Incidents!IncidentInv'
  <1>1. /\ op' = [op EXCEPT ![u] = [Incidents!Away EXCEPT !.pc = "page", !.id = i, !.rev = inc[i], !.ver = Incidents!Version(i)]]
        /\ UNCHANGED <<inc, ctl, sure, unsure, journal, runs, asked, replied, ifaults>>
    BY DEF Incidents!OpenCase, Incidents!incidentVars
  <1> DEFINE r == [Incidents!Away EXCEPT !.pc = "page", !.id = i, !.rev = inc[i], !.ver = Incidents!Version(i)]
  <1>2. i \in Incidents!Ids
    BY DEF Incidents!IncidentAssumption, Incidents!Ids
  <1>3. inc[i] \in Incidents!Row /\ Incidents!Version(i) \in Nat
    BY <1>2, IncidentParts, VersionCounts DEF RowsInv
  <1>4. r \in SessionRecord /\ r.pc = "page"
    BY <1>2, <1>3, AwayTyped DEF SessionRecord, Incidents!OperatorSteps
  <1> HIDE DEF r
  <1>5. op' = [op EXCEPT ![u] = r]
    BY <1>1 DEF r
  <1> QED BY <1>1, <1>4, <1>5, SessionStep, FaultBounded

LEMMA SubmitKeeps ==
  ASSUME Incidents!IncidentAssumption, Incidents!IncidentInv, NEW u \in Operators, NEW k \in Requests,
         NEW kind \in {"resolution", "question"}, Incidents!Submit(u, k, kind)
  PROVE  Incidents!IncidentInv'
  <1> DEFINE form == IF kind = "question" THEN [Incidents!Away EXCEPT !.id = op[u].id] ELSE op[u]
             r == [form EXCEPT !.pc = "checked", !.key = k, !.kind = kind]
  <1>1. /\ op' = [op EXCEPT ![u] = r] \/ op' = [op EXCEPT ![u] = Incidents!Away]
        /\ UNCHANGED <<inc, ctl, sure, unsure, journal, runs, asked, replied, ifaults>>
    BY DEF Incidents!Submit, Incidents!incidentVars
  <1>2. op[u] \in SessionRecord
    BY IncidentParts
  <1>3. form \in SessionRecord
    <2>1. [Incidents!Away EXCEPT !.id = op[u].id] \in SessionRecord
      BY <1>2, AwayTyped DEF SessionRecord
    <2> QED BY <1>2, <2>1
  <1> HIDE DEF form
  <1>4. r \in SessionRecord /\ r.pc = "checked" /\ r.key = k /\ r.kind = kind
    BY <1>3 DEF SessionRecord, Incidents!OperatorSteps
  <1> HIDE DEF r
  <1>5. CASE op' = [op EXCEPT ![u] = r]
    BY <1>1, <1>4, <1>5, SessionStep, FaultBounded
  <1>6. CASE op' = [op EXCEPT ![u] = Incidents!Away]
    BY <1>1, <1>6, AwayTyped, SessionStep, FaultBounded
  <1> QED BY <1>1, <1>5, <1>6

LEMMA LeaveKeeps ==
  ASSUME Incidents!IncidentAssumption, Incidents!IncidentInv, NEW u \in Operators, Incidents!Leave(u)
  PROVE  Incidents!IncidentInv'
  <1>1. /\ op' = [op EXCEPT ![u] = Incidents!Away]
        /\ ifaults' = ifaults \/ Incidents!Fault
        /\ UNCHANGED <<inc, ctl, sure, unsure, journal, runs, asked, replied>>
    BY DEF Incidents!Leave, Incidents!incidentVars
  <1>2. ifaults' \in 0 .. MaxFaults
    BY <1>1, FaultBounded
  <1>3. Incidents!Away \in SessionRecord /\ Incidents!Away.pc = "away"
    BY AwayTyped
  <1> QED BY <1>1, <1>2, <1>3, SessionStep

\* The insert takes effect: a question is its session's own, a closure is over
\* what the row says now.
LEMMA Inserted ==
  ASSUME Incidents!IncidentAssumption, Incidents!IncidentInv, NEW u \in Operators, op[u].pc = "checked",
         Incidents!Insertable(u), journal' = [journal EXCEPT !.entries = journal.entries \cup {Incidents!NewEntry(u)}],
         NEW r \in SessionRecord, op' = [op EXCEPT ![u] = r],
         r.pc = "away" \/ (r.pc = "ask" /\ r.key = op[u].key /\ r.kind = op[u].kind),
         UNCHANGED <<inc, ctl, sure, unsure, runs, asked, replied>>, ifaults' \in 0 .. MaxFaults
  PROVE  Incidents!IncidentInv'
  <1> DEFINE e == Incidents!NewEntry(u)  i == op[u].id  closes == op[u].kind = "resolution"
  <1>1. /\ op[u] \in SessionRecord /\ op[u].key \in Requests /\ op[u].kind \in {"resolution", "question"}
        /\ i \in Incidents!Ids /\ op[u].rev \in Incidents!Row /\ op[u].ver \in Nat /\ inc[i] \in Incidents!Row
        /\ Incidents!Used(op[u].key) = {}
    <2>1. op[u] \in SessionRecord /\ op[u].key \in Requests /\ op[u].kind # "none"
      BY IncidentParts DEF Session
    <2> QED BY <2>1, IncidentParts DEF SessionRecord, RowsInv, Incidents!Insertable
  <1>2. Incidents!NoRow \in Incidents!Row
    BY DEF Incidents!IncidentAssumption, Incidents!NoRow, Incidents!Row, Incidents!Statuses
  <1>3. /\ e \in Incidents!Entry /\ e.key = op[u].key /\ e.kind = op[u].kind /\ e.id = i /\ e.rev = op[u].rev
        /\ closes => e.ver = op[u].ver + 1 /\ e.at = inc[i]
    BY <1>1, <1>2 DEF Incidents!NewEntry, Incidents!Entry
  <1>4. closes => /\ inc[i] = op[u].rev /\ inc[i].status # "resolved" /\ Incidents!Version(i) = op[u].ver
    BY DEF Incidents!Insertable
  <1>5. /\ journal \in [entries: SUBSET Incidents!Entry, answers: SUBSET Incidents!Answers]
        /\ journal'.entries = journal.entries \cup {e} /\ journal'.answers = journal.answers
        /\ journal' \in [entries: SUBSET Incidents!Entry, answers: SUBSET Incidents!Answers]
        /\ e \notin journal.entries
    <2>1. journal \in [entries: SUBSET Incidents!Entry, answers: SUBSET Incidents!Answers]
      BY IncidentParts DEF JournalInv
    <2>2. e \notin journal.entries
      BY <1>1, <1>3 DEF Incidents!Used
    <2> HIDE DEF e
    <2> QED BY <1>3, <2>1, <2>2 DEF e
  <1> HIDE DEF e
  <1>6. \A j \in Incidents!Ids : Incidents!Resolutions(j)' = IF closes /\ j = i THEN Incidents!Resolutions(j) \cup {e} ELSE Incidents!Resolutions(j)
    BY <1>1, <1>3, <1>5 DEF Incidents!Resolutions
  <1>7. JournalInv'
    <2>1. IsFiniteSet(journal'.entries)
      BY <1>5, FS_AddElement, IncidentParts DEF JournalInv
    <2>2. ASSUME NEW j \in Incidents!Ids
          PROVE  /\ \A x \in Incidents!Resolutions(j)' : x.at = x.rev /\ x.at.status # "resolved"
                 /\ {x.ver : x \in Incidents!Resolutions(j)'} = 1 .. Cardinality(Incidents!Resolutions(j)')
      <3>0. /\ \A x \in Incidents!Resolutions(j) : x.at = x.rev /\ x.at.status # "resolved"
            /\ {x.ver : x \in Incidents!Resolutions(j)} = 1 .. Cardinality(Incidents!Resolutions(j))
        BY IncidentParts DEF JournalInv, SeenEvidence
      <3>1. CASE ~(closes /\ j = i)
        BY <1>6, <3>0, <3>1
      <3>2. CASE closes /\ j = i
        <4> DEFINE R == Incidents!Resolutions(j)  n == Cardinality(R)
        <4>1. Incidents!Resolutions(j)' = R \cup {e} /\ e \notin R
          BY <1>1, <1>5, <1>6, <3>2 DEF Incidents!Resolutions
        <4>2. /\ IsFiniteSet(R) /\ n \in Nat /\ Incidents!Version(j) = n /\ {x.ver : x \in R} = 1 .. n
          BY VersionCounts, IncidentParts
        <4>3. Cardinality(R \cup {e}) = n + 1
          BY <4>1, <4>2, FS_AddElement
        <4>4. e.ver = n + 1 /\ e.at = e.rev /\ e.at.status # "resolved"
          BY <1>3, <1>4, <3>2, <4>2
        <4> HIDE DEF R, n
        <4>5. {x.ver : x \in R \cup {e}} = 1 .. n + 1
          <5>1. {x.ver : x \in R \cup {e}} = (1 .. n) \cup {n + 1}
            BY <4>2, <4>4
          <5> QED BY <4>2, <5>1
        <4>6. \A x \in R \cup {e} : x.at = x.rev /\ x.at.status # "resolved"
          BY <3>0, <3>2, <4>4 DEF R
        <4> QED BY <4>1, <4>3, <4>5, <4>6
      <3> QED BY <3>1, <3>2
    <2>3. SeenEvidence'
      BY <2>2 DEF SeenEvidence
    <2> QED BY <1>5, <2>1, <2>3 DEF JournalInv
  <1>8. RowsInv' /\ Link'
    <2>1. RowsInv'
      BY IncidentParts DEF RowsInv, Incidents!Loaded, Incidents!OccurrencesExact
    <2>2. Link'
      <3> SUFFICES ASSUME NEW j \in Incidents!Ids, NEW x \in Incidents!Resolutions(j)' PROVE x.rev.occ <= inc[j].occ
        BY DEF Link
      <3>1. CASE x \in Incidents!Resolutions(j)
        BY <3>1, IncidentParts DEF Link
      <3>2. CASE x \notin Incidents!Resolutions(j)
        <4>1. closes /\ j = i /\ x = e
          BY <1>6, <3>2
        <4>2. e.rev = inc[i] /\ inc[i].occ \in Nat
          BY <1>1, <1>3, <1>4, <4>1 DEF Incidents!Row
        <4> QED BY <4>1, <4>2
      <3> QED BY <3>1, <3>2
    <2> QED BY <2>1, <2>2
  <1>9. /\ \A k : Incidents!Used(k) # {} => Incidents!Used(k)' # {}
        /\ \A k : k = op[u].key => Incidents!Used(k)' # {}
    BY <1>3, <1>5 DEF Incidents!Used
  <1>10. KeysInv'
    BY <1>5, <1>9, IncidentParts DEF KeysInv, Incidents!AskedOnce, Incidents!ThreadTruthful
  <1>11. \A v \in Operators : Incidents!Asking(v) => op[v].key # op[u].key
    BY <1>1, IncidentParts DEF Session
  <1>12. /\ op' \in [Operators -> SessionRecord] /\ op'[u] = r
         /\ \A v \in Operators : v # u => Session(v)' /\ op'[v] = op[v]
    <2>1. r.pc \in {"ask", "call", "answer", "apology"} =>
            \A v \in Operators : Incidents!Asking(v) => op[v].key # r.key
      BY <1>11
    <2> QED BY <1>9, <2>1, OtherSessions, IncidentParts
  <1>13. Session(u)'
    <2>1. CASE r.pc = "away"
      BY <1>12, <2>1 DEF Session, Incidents!Asking
    <2>2. CASE r.pc = "ask" /\ r.key = op[u].key /\ r.kind = op[u].kind
      <3>1. asked[r.key] = 0
        BY <1>1, <2>2, IncidentParts DEF KeysInv
      <3>2. \A v \in Operators : Incidents!Asking(v)' /\ op'[v].key = r.key => u = v
        BY <1>11, <1>12, <2>2 DEF Incidents!Asking
      <3>3. \A k : k = r.key => Incidents!Used(k)' # {}
        BY <1>9, <2>2
      <3>4. Incidents!Used(op[u].key)' # {}
        BY <1>12, <2>2, <3>3
      <3> QED BY <1>1, <1>12, <2>2, <3>1, <3>2, <3>4 DEF Session, Incidents!Asking
    <2> QED BY <2>1, <2>2
  <1> QED BY <1>7, <1>8, <1>10, <1>12, <1>13, IncidentPartsNext

LEMMA AppendKeeps ==
  ASSUME Incidents!IncidentAssumption, Incidents!IncidentInv, NEW u \in Operators, Incidents!AppendEntry(u)
  PROVE  Incidents!IncidentInv'
  <1> DEFINE stored == [journal EXCEPT !.entries = journal.entries \cup {Incidents!NewEntry(u)}]
             asks == [op[u] EXCEPT !.pc = "ask"]
  <1>1. /\ op[u].pc = "checked"
        /\ UNCHANGED <<inc, ctl, sure, unsure, runs, asked, replied>>
        /\ ifaults' = ifaults \/ Incidents!Fault
        /\ \/ op' = [op EXCEPT ![u] = asks] /\ Incidents!Insertable(u) /\ journal' = stored
           \/ op' = [op EXCEPT ![u] = Incidents!Away] /\ Incidents!Insertable(u) /\ journal' = stored
           \/ op' = [op EXCEPT ![u] = Incidents!Away] /\ journal' = journal
    BY DEF Incidents!AppendEntry, Incidents!Acquired, Incidents!incidentVars
  <1>2. ifaults' \in 0 .. MaxFaults
    BY <1>1, FaultBounded
  <1>3. Incidents!Away \in SessionRecord /\ Incidents!Away.pc = "away"
    BY AwayTyped
  <1>4. op[u] \in SessionRecord
    BY IncidentParts
  <1>5. asks \in SessionRecord /\ asks.pc = "ask" /\ asks.key = op[u].key /\ asks.kind = op[u].kind
    BY <1>4 DEF SessionRecord, Incidents!OperatorSteps
  <1> HIDE DEF asks, stored
  <1>6. CASE op' = [op EXCEPT ![u] = asks] /\ Incidents!Insertable(u) /\ journal' = stored
    BY <1>1, <1>2, <1>5, <1>6, Inserted DEF stored
  <1>7. CASE op' = [op EXCEPT ![u] = Incidents!Away] /\ Incidents!Insertable(u) /\ journal' = stored
    BY <1>1, <1>2, <1>3, <1>7, Inserted DEF stored
  <1>8. CASE op' = [op EXCEPT ![u] = Incidents!Away] /\ journal' = journal
    BY <1>1, <1>2, <1>3, <1>8, SessionStep
  <1> QED BY <1>1, <1>6, <1>7, <1>8

-----------------------------------------------------------------------------
(* The observer. *)

\* A session works on the key it has reserved.
LEMMA AskingStep ==
  ASSUME Incidents!IncidentInv, NEW u \in Operators, Incidents!Asking(u), NEW k \in Requests, k = op[u].key,
         NEW r \in SessionRecord, op' = [op EXCEPT ![u] = r],
         r.pc = "away" \/ (r.pc \in {"call", "answer", "apology"} /\ r.key = k /\ r.kind # "none"),
         UNCHANGED <<inc, ctl, sure, unsure>>, journal'.entries = journal.entries,
         journal' \in [entries: SUBSET Incidents!Entry, answers: SUBSET Incidents!Answers],
         \A j \in Requests : j # k =>
           asked'[j] = asked[j] /\ runs'[j] = runs[j] /\ (j \in replied' <=> j \in replied),
         r.pc # "away" =>
           /\ asked'[k] = IF r.pc = "call" THEN 0 ELSE 1
           /\ r.pc = "call" => runs'[k] = "running"
           /\ r.pc = "answer" => k \in replied' /\ runs'[k] = "completed"
           /\ r.pc = "apology" => k \notin replied',
         KeysInv', ifaults' \in 0 .. MaxFaults
  PROVE  Incidents!IncidentInv'
  <1>1. /\ JournalInv' /\ RowsInv' /\ Link'
        /\ \A j : Incidents!Used(j)' = Incidents!Used(j)
    BY JournalFrame, RowsFrame
  <1>2. \A v \in Operators : v # u /\ Incidents!Asking(v) => op[v].key \in Requests /\ op[v].key # k
    BY IncidentParts DEF Session, Incidents!Asking
  <1>3. /\ op' \in [Operators -> SessionRecord] /\ op'[u] = r
        /\ \A v \in Operators : v # u => Session(v)'
    <2>1. \A v \in Operators : v # u /\ Incidents!Asking(v) =>
           /\ asked'[op[v].key] = asked[op[v].key]
           /\ runs'[op[v].key] = runs[op[v].key]
           /\ op[v].key \in replied' <=> op[v].key \in replied
      BY <1>2
    <2>2. \A j : Incidents!Used(j) # {} => Incidents!Used(j)' # {}
      BY <1>1
    <2> QED BY <2>1, <2>2, OtherSessions
  <1>4. Session(u)'
    <2>1. CASE r.pc = "away"
      BY <1>3, <2>1 DEF Session, Incidents!Asking
    <2>2. CASE r.pc \in {"call", "answer", "apology"} /\ r.key = k /\ r.kind # "none"
      <3>1. \A v \in Operators : Incidents!Asking(v)' /\ op'[v].key = k => u = v
        <4> SUFFICES ASSUME NEW v \in Operators, v # u, Incidents!Asking(v)', op'[v].key = k PROVE FALSE
          OBVIOUS
        <4>1. op'[v] = op[v]
          BY IncidentParts
        <4> QED BY <1>2, <4>1 DEF Incidents!Asking
      <3>2. Incidents!Used(k) # {}
        BY IncidentParts DEF Session
      <3>3. Incidents!Used(k)' # {}
        BY <1>1, <3>2
      <3>4. op'[u].key = k
        BY <1>3, <2>2
      <3>5. Incidents!Used(op[u].key)' # {}
        BY <3>3, <3>4
      <3> QED BY <1>3, <2>2, <3>1, <3>5 DEF Session, Incidents!Asking
    <2> QED BY <2>1, <2>2
  <1> QED BY <1>1, <1>3, <1>4, IncidentPartsNext

LEMMA AskingFacts ==
  ASSUME Incidents!IncidentInv, NEW u \in Operators, Incidents!Asking(u), NEW k, k = op[u].key
  PROVE  /\ k \in Requests /\ op[u] \in SessionRecord /\ op[u].kind # "none"
         /\ Incidents!Used(k) # {}
         /\ asked[k] = IF op[u].pc \in {"ask", "call"} THEN 0 ELSE 1
         /\ op[u].pc = "call" => runs[k] = "running"
         /\ op[u].pc = "answer" => k \in replied /\ runs[k] = "completed"
         /\ op[u].pc = "apology" => k \notin replied
  BY IncidentParts DEF Session, Incidents!Asking

LEMMA RunKeeps ==
  ASSUME Incidents!IncidentAssumption, Incidents!IncidentInv, NEW u \in Operators, Incidents!StartRun(u)
  PROVE  Incidents!IncidentInv'
  <1> SUFFICES ASSUME NEW k, k = op[u].key PROVE Incidents!IncidentInv'
    OBVIOUS
  <1> DEFINE r == [op[u] EXCEPT !.pc = "call"]
  <1>1. /\ op[u].pc = "ask" /\ Incidents!Asking(u)
        /\ runs' = [runs EXCEPT ![k] = "running"] /\ op' = [op EXCEPT ![u] = r]
        /\ UNCHANGED <<inc, ctl, sure, unsure, journal, asked, replied, ifaults>>
    BY DEF Incidents!StartRun, Incidents!BeginRun, Incidents!Asking, Incidents!incidentVars
  <1>2. k \in Requests /\ op[u] \in SessionRecord /\ op[u].kind # "none" /\ asked[k] = 0
    BY <1>1, AskingFacts
  <1>3. r \in SessionRecord /\ r.pc = "call" /\ r.key = k /\ r.kind # "none"
    BY <1>2 DEF SessionRecord, Incidents!OperatorSteps
  <1> HIDE DEF r
  <1>4. /\ runs' \in [Requests -> Incidents!RunStates] /\ runs'[k] = "running"
        /\ \A j \in Requests : j # k => runs'[j] = runs[j]
    BY <1>1, <1>2, IncidentParts DEF KeysInv, Incidents!RunStates
  <1>5. KeysInv'
    <2>1. ASSUME NEW a \in journal.answers
          PROVE  IF a.status = "completed" THEN a.key \in replied /\ runs'[a.key] = "completed"
                 ELSE a.key \notin replied
      <3>1. a.key \in Requests /\ a.key # k
        <4>1. a \in Incidents!Answers /\ asked[a.key] > 0
          BY IncidentParts DEF JournalInv, KeysInv
        <4> QED BY <1>2, <4>1 DEF Incidents!Answers
      <3> QED BY <1>4, <3>1, IncidentParts DEF KeysInv, Incidents!ThreadTruthful
    <2>2. Incidents!ThreadTruthful'
      BY <1>1, <2>1 DEF Incidents!ThreadTruthful
    <2> QED BY <1>1, <1>4, <2>2, IncidentParts DEF KeysInv, Incidents!AskedOnce, Incidents!Used
  <1>6. /\ journal'.entries = journal.entries
        /\ journal' \in [entries: SUBSET Incidents!Entry, answers: SUBSET Incidents!Answers]
    BY <1>1, IncidentParts DEF JournalInv
  <1>7. ifaults' \in 0 .. MaxFaults
    BY <1>1, FaultBounded
  <1> QED BY <1>1, <1>2, <1>3, <1>4, <1>5, <1>6, <1>7, AskingStep

LEMMA CallKeeps ==
  ASSUME Incidents!IncidentAssumption, Incidents!IncidentInv, NEW u \in Operators, Incidents!CallObserver(u)
  PROVE  Incidents!IncidentInv'
  <1> SUFFICES ASSUME NEW k, k = op[u].key PROVE Incidents!IncidentInv'
    OBVIOUS
  <1> DEFINE heard == [op[u] EXCEPT !.pc = "answer"]  lost == [op[u] EXCEPT !.pc = "apology"]
  <1>1. op[u].pc = "call" /\ Incidents!Asking(u)
    BY DEF Incidents!CallObserver, Incidents!Asking
  <1>2. k \in Requests /\ op[u] \in SessionRecord /\ op[u].kind # "none" /\ asked[k] = 0
        /\ runs[k] = "running" /\ Incidents!Used(k) # {}
    BY <1>1, AskingFacts
  <1>3. /\ asked' = [asked EXCEPT ![k] = asked[k] + 1]
        /\ UNCHANGED <<inc, ctl, sure, unsure, journal>>
        /\ ifaults' = ifaults \/ Incidents!Fault
        /\ \/ replied' = replied \cup {k} /\ runs' = Incidents!FinishRun(k, "completed") /\ op' = [op EXCEPT ![u] = heard]
           \/ /\ replied' = replied /\ op' = [op EXCEPT ![u] = lost]
              /\ runs' = Incidents!FinishRun(k, "completed") \/ runs' = Incidents!FinishRun(k, "failed")
    BY DEF Incidents!CallObserver, Incidents!Bump, Incidents!incidentVars
  <1>4. /\ heard \in SessionRecord /\ heard.pc = "answer" /\ heard.key = k /\ heard.kind # "none"
        /\ lost \in SessionRecord /\ lost.pc = "apology" /\ lost.key = k /\ lost.kind # "none"
    BY <1>2 DEF SessionRecord, Incidents!OperatorSteps
  <1> HIDE DEF heard, lost
  <1>5. /\ asked' \in [Requests -> Nat] /\ asked'[k] = 1 /\ \A j \in Requests : j # k => asked'[j] = asked[j]
    BY <1>2, <1>3, IncidentParts DEF KeysInv
  <1>6. ASSUME NEW s \in {"completed", "failed"}, runs' = Incidents!FinishRun(k, s)
        PROVE  /\ runs' \in [Requests -> Incidents!RunStates] /\ runs'[k] = s
               /\ \A j \in Requests : j # k => runs'[j] = runs[j]
    BY <1>2, <1>6, IncidentParts DEF KeysInv, Incidents!RunStates, Incidents!FinishRun
  <1>7. \E s \in {"completed", "failed"} : runs' = Incidents!FinishRun(k, s)
    BY <1>3
  <1>8. /\ runs' \in [Requests -> Incidents!RunStates] /\ \A j \in Requests : j # k => runs'[j] = runs[j]
    BY <1>6, <1>7
  <1>9. k \notin replied /\ replied \subseteq Requests /\ \A a \in journal.answers : a.key \in Requests /\ a.key # k
    <2>1. \A a \in journal.answers : a \in Incidents!Answers /\ asked[a.key] > 0
      BY IncidentParts DEF JournalInv, KeysInv
    <2>2. replied \subseteq Requests /\ \A j \in replied : asked[j] > 0
      BY IncidentParts DEF KeysInv
    <2> QED BY <1>2, <2>1, <2>2 DEF Incidents!Answers
  <1>10. /\ replied' \subseteq Requests /\ \A j \in Requests : j # k => (j \in replied' <=> j \in replied)
         /\ \A j \in replied' : j \in replied \/ j = k
    BY <1>2, <1>3, <1>9
  <1>11. KeysInv'
    <2>1. Incidents!ThreadTruthful'
      BY <1>3, <1>8, <1>9, <1>10, IncidentParts DEF KeysInv, Incidents!ThreadTruthful
    <2>2. Incidents!AskedOnce'
      BY <1>5, IncidentParts DEF KeysInv, Incidents!AskedOnce
    <2>3. \A j \in Requests : asked'[j] > 0 => Incidents!Used(j) # {}
      BY <1>2, <1>5, IncidentParts DEF KeysInv
    <2>4. \A j \in Requests : Incidents!Used(j)' = Incidents!Used(j)
      BY <1>3 DEF Incidents!Used
    <2>5. \A j \in Requests : asked'[j] > 0 => Incidents!Used(j)' # {}
      BY <2>3, <2>4
    <2>6. \A j \in replied' : asked'[j] > 0
      BY <1>5, <1>9, <1>10, IncidentParts DEF KeysInv
    <2>7. \A a \in journal'.answers : asked'[a.key] > 0
      BY <1>3, <1>5, <1>9, IncidentParts DEF KeysInv
    <2> QED BY <1>5, <1>8, <1>10, <2>1, <2>2, <2>5, <2>6, <2>7 DEF KeysInv
  <1>12. /\ journal'.entries = journal.entries
         /\ journal' \in [entries: SUBSET Incidents!Entry, answers: SUBSET Incidents!Answers]
    BY <1>3, IncidentParts DEF JournalInv
  <1>13. ifaults' \in 0 .. MaxFaults
    BY <1>3, FaultBounded
  <1>14. /\ UNCHANGED <<inc, ctl, sure, unsure>>
         /\ \A j \in Requests : j # k =>
              asked'[j] = asked[j] /\ runs'[j] = runs[j] /\ (j \in replied' <=> j \in replied)
    BY <1>3, <1>5, <1>8, <1>10
  <1>15. CASE replied' = replied \cup {k} /\ runs' = Incidents!FinishRun(k, "completed") /\ op' = [op EXCEPT ![u] = heard]
    <2>1. runs'[k] = "completed" /\ k \in replied'
      BY <1>6, <1>15
    <2>2. asked'[k] = 1 /\ heard.pc = "answer" /\ heard.key = k /\ heard.kind # "none"
      BY <1>4, <1>5
    <2> QED BY <1>1, <1>2, <1>4, <1>11, <1>12, <1>13, <1>15, <1>14, <2>1, <2>2, AskingStep
  <1>16. CASE replied' = replied /\ op' = [op EXCEPT ![u] = lost]
    <2>1. k \notin replied' /\ asked'[k] = 1
      BY <1>5, <1>9, <1>16
    <2>2. lost.pc = "apology" /\ lost.key = k /\ lost.kind # "none"
      BY <1>4
    <2> QED BY <1>1, <1>2, <1>4, <1>11, <1>12, <1>13, <1>16, <1>14, <2>1, <2>2, AskingStep
  <1> QED BY <1>3, <1>15, <1>16

LEMMA FinishKeeps ==
  ASSUME Incidents!IncidentAssumption, Incidents!IncidentInv, NEW u \in Operators, Incidents!FinishQuestion(u)
  PROVE  Incidents!IncidentInv'
  <1> SUFFICES ASSUME NEW k, k = op[u].key PROVE Incidents!IncidentInv'
    OBVIOUS
  <1> DEFINE status == IF op[u].pc = "answer" THEN "completed" ELSE "failed"
             said == [key |-> k, status |-> status]
  <1>1. /\ op[u].pc \in {"answer", "apology"} /\ Incidents!Asking(u) /\ op' = [op EXCEPT ![u] = Incidents!Away]
        /\ UNCHANGED <<inc, ctl, sure, unsure, runs, asked, replied>>
        /\ ifaults' = ifaults \/ Incidents!Fault
        /\ \/ journal' = journal
           \/ journal' = [journal EXCEPT !.answers = journal.answers \cup {said}]
    BY DEF Incidents!FinishQuestion, Incidents!StoreAnswer, Incidents!Asking, Incidents!incidentVars
  <1>2. /\ k \in Requests /\ asked[k] = 1
        /\ op[u].pc = "answer" => k \in replied /\ runs[k] = "completed"
        /\ op[u].pc = "apology" => k \notin replied
    BY <1>1, AskingFacts
  <1>3. said \in Incidents!Answers /\ said.key = k /\ said.status = status
    BY <1>2 DEF Incidents!Answers
  <1> HIDE DEF said
  <1>4. /\ journal'.entries = journal.entries
        /\ journal' \in [entries: SUBSET Incidents!Entry, answers: SUBSET Incidents!Answers]
        /\ \A a \in journal'.answers : a \in journal.answers \/ a = said
    BY <1>1, <1>3, IncidentParts DEF JournalInv
  <1>5. KeysInv'
    <2>1. \A a \in journal'.answers :
            /\ IF a.status = "completed" THEN a.key \in replied /\ runs[a.key] = "completed"
               ELSE a.key \notin replied
            /\ asked[a.key] > 0
      <3> SUFFICES ASSUME NEW a \in journal'.answers
                   PROVE  /\ IF a.status = "completed" THEN a.key \in replied /\ runs[a.key] = "completed"
                             ELSE a.key \notin replied
                          /\ asked[a.key] > 0
        OBVIOUS
      <3>1. CASE a \in journal.answers
        BY <3>1, IncidentParts DEF KeysInv, Incidents!ThreadTruthful
      <3>2. CASE a = said
        BY <1>1, <1>2, <1>3, <3>2
      <3> QED BY <1>4, <3>1, <3>2
    <2>2. \A j \in Requests : Incidents!Used(j)' = Incidents!Used(j)
      BY <1>4 DEF Incidents!Used
    <2> QED BY <1>1, <2>1, <2>2, IncidentParts
           DEF KeysInv, Incidents!AskedOnce, Incidents!ThreadTruthful
  <1>6. ifaults' \in 0 .. MaxFaults
    BY <1>1, FaultBounded
  <1> QED BY <1>1, <1>2, <1>4, <1>5, <1>6, AwayTyped, AskingStep

-----------------------------------------------------------------------------
LEMMA IncidentStep ==
  ASSUME Incidents!IncidentAssumption, Incidents!IncidentInv, [Incidents!Next]_(Incidents!vars)
  PROVE  Incidents!IncidentInv'
  <1>1. CASE UNCHANGED Incidents!vars
    <2>1. UNCHANGED <<inc, ctl, sure, unsure, ifaults>> /\ UNCHANGED Incidents!caseVars
      BY <1>1 DEF Incidents!vars, Incidents!incidentVars
    <2>2. RowsInv'
      BY <2>1, IncidentParts DEF RowsInv, Incidents!Loaded, Incidents!OccurrencesExact
    <2>3. \A i \in Incidents!Ids : inc[i].occ <= inc'[i].occ
      BY <2>1, IncidentParts DEF RowsInv, Incidents!Row
    <2> QED BY <2>1, <2>2, <2>3, RowsStep, IncidentParts
  <1>2. ASSUME NEW p \in Workflows, (\E out \in Incidents!Outcomes : Incidents!LoadRows(p, out)) \/ Incidents!WriteRow(p)
        PROVE  Incidents!IncidentInv'
    BY <1>2, LoadKeeps, WriteKeeps
  <1>3. ASSUME NEW i \in Incidents!Ids, Incidents!MarkRow(i, "resolved") \/ Incidents!MarkRow(i, "investigating")
        PROVE  Incidents!IncidentInv'
    BY <1>3, MarkKeeps
  <1>4. ASSUME NEW u \in Operators,
               \/ \E i \in Cases : Incidents!OpenCase(u, i)
               \/ Incidents!AppendEntry(u) \/ Incidents!StartRun(u) \/ Incidents!CallObserver(u) \/ Incidents!FinishQuestion(u) \/ Incidents!Leave(u)
               \/ \E k \in Requests, kind \in {"resolution", "question"} : Incidents!Submit(u, k, kind)
        PROVE  Incidents!IncidentInv'
    BY <1>4, OpenKeeps, SubmitKeeps, AppendKeeps, RunKeeps, CallKeeps, FinishKeeps, LeaveKeeps
  <1> QED BY <1>1, <1>2, <1>3, <1>4 DEF Incidents!Next

\* However controllers and operators interleave, and whatever is lost.
THEOREM IncidentInvariant == Incidents!Spec => []Incidents!IncidentInv
  <1>1. Incidents!IncidentAssumption
    BY RowsAssumption
  <1>2. Incidents!Init => Incidents!IncidentInv
    BY <1>1, IncidentInit
  <1>3. Incidents!IncidentInv /\ [Incidents!Next]_(Incidents!vars) => Incidents!IncidentInv'
    BY <1>1, IncidentStep
  <1> QED BY <1>2, <1>3, PTL DEF Incidents!Spec

\* No occurrence is lost or counted twice, a closure is over the evidence its
\* author saw, and a question costs one call, however controllers and
\* operators interleave and whatever is lost (record, append, discuss).
THEOREM CasesAreTruthful == Incidents!Spec => []CasesTruthful
  <1>1. Incidents!IncidentInv => CasesTruthful
    BY DEF Incidents!IncidentInv, CasesTruthful
  <1> QED BY <1>1, IncidentInvariant, PTL

LEMMA OneSide ==
  ASSUME [Incidents!Next]_(Incidents!vars)
  PROVE  inc' = inc \/ journal' = journal
  BY DEF Incidents!Next, Incidents!vars, Incidents!LoadRows, Incidents!WriteRow, Incidents!MarkRow,
     Incidents!OpenCase, Incidents!Submit, Incidents!AppendEntry, Incidents!StartRun,
     Incidents!CallObserver,
     Incidents!FinishQuestion, Incidents!Leave, Incidents!incidentVars, Incidents!caseVars

\* A closure names evidence that is not newer than the row, so a row with one
\* more occurrence is not closed by it (_tracking, record).
THEOREM RecurrencesReopen == Incidents!Spec => RecurrenceReopens
  <1>1. Incidents!IncidentInv /\ [Incidents!Next]_(Incidents!vars) =>
          [\A i \in Incidents!Ids : inc'[i].occ > inc[i].occ /\ inc'[i].status # "resolved" =>
             Incidents!Tracking(i, inc[i])' = "open"]_(Incidents!vars)
    <2> SUFFICES ASSUME Incidents!IncidentInv, [Incidents!Next]_(Incidents!vars), NEW i \in Incidents!Ids,
                        inc'[i].occ > inc[i].occ, inc'[i].status # "resolved"
                 PROVE  Incidents!Tracking(i, inc[i])' = "open"
      OBVIOUS
    <2>1. inc[i].occ \in Nat
      BY IncidentParts DEF RowsInv, Incidents!Row
    <2>2. Incidents!Resolutions(i)' = Incidents!Resolutions(i)
      BY <2>1, OneSide DEF Incidents!Resolutions
    <2>3. ASSUME NEW e \in Incidents!Resolutions(i) PROVE e.rev # inc'[i]
      <3>1. e.rev.occ \in Nat /\ e.rev.occ <= inc[i].occ
        BY IncidentParts DEF JournalInv, Link, Incidents!Resolutions, Incidents!Entry, Incidents!Row
      <3> QED BY <2>1, <3>1
    <2> QED BY <2>2, <2>3 DEF Incidents!Tracking, Incidents!ClosedByUser
  <1> QED BY <1>1, IncidentInvariant, PTL
         DEF Incidents!Spec, RecurrenceReopens, Incidents!RecurrenceReopens

-----------------------------------------------------------------------------
(* The budgets of requests. *)

LEMMA LatestOf ==
  ASSUME NEW S \in SUBSET Int, NEW m \in S, \A x \in S : m >= x
  PROVE  Budget!Max(S) = m
  <1>1. \A x \in S : (\A y \in S : x >= y) => x = m
    OBVIOUS
  <1> QED BY <1>1 DEF Budget!Max

LEMMA LaterOf ==
  ASSUME NEW a \in Int, NEW b \in Int
  PROVE  /\ Budget!Max({a, b}) \in {a, b} /\ Budget!Max({a, b}) >= a /\ Budget!Max({a, b}) >= b
  <1>1. CASE a >= b
    <2>1. Budget!Max({a, b}) = a
      BY <1>1, LatestOf
    <2> QED BY <1>1, <2>1
  <1>2. CASE ~(a >= b)
    <2>1. Budget!Max({a, b}) = b
      BY <1>2, LatestOf
    <2> QED BY <1>2, <2>1
  <1> QED BY <1>1, <1>2

LEMMA LatestOfThree ==
  ASSUME NEW a \in Int, NEW b \in Int, NEW c \in Int
  PROVE  Budget!Max({a, b, c}) \in {a, b, c}
  <1>1. PICK m \in {a, b, c} : \A x \in {a, b, c} : m >= x
    <2>1. CASE a >= b /\ a >= c
      BY <2>1
    <2>2. CASE b >= a /\ b >= c
      BY <2>2
    <2>3. CASE c >= a /\ c >= b
      BY <2>3
    <2> QED BY <2>1, <2>2, <2>3
  <1>2. Budget!Max({a, b, c}) = m
    BY <1>1, LatestOf
  <1> QED BY <1>1, <1>2

\* What the constants are.
LEMMA BucketFacts ==
  ASSUME Budget!BudgetAssumption
  PROVE  /\ \A b \in Budget!Buckets : Budget!LimitOf(b) \in Nat \ {0} /\ Budget!WindowOf(b) \in Nat \ {0}
         /\ Budget!Service \in Budget!Buckets /\ Routes \subseteq Budget!Buckets /\ Budget!Service \notin Routes
         /\ Delays \subseteq Nat /\ MaxTime \in Nat
  BY DEF Budget!BudgetAssumption, Budget!LimitOf, Budget!WindowOf, Budget!Buckets, Budget!Service

ClientRecord == [pc: {"idle", "sending", "throttled"}, route: Budget!Buckets,
                 due: Nat, todo: Seq(Delays \X Budget!Buckets)]

\* The counters of the buckets, against the grants that were made.
BucketFits(b) ==
  /\ bucket[b].used <= Budget!LimitOf(b) /\ bucket[b].ends <= now + Budget!WindowOf(b)
  /\ \A i \in 1 .. Len(granted[b]) - bucket[b].used : granted[b][i] < bucket[b].ends - Budget!WindowOf(b)
  /\ Len(granted[b]) > 2 * Budget!LimitOf(b) => Budget!Last(granted[b]) - Head(granted[b]) >= Budget!WindowOf(b)
  /\ \A i \in DOMAIN granted[b] : granted[b][i] < bucket[b].ends
  /\ \A i \in 1 .. Len(granted[b]) - bucket[b].used - Budget!LimitOf(b) :
       granted[b][i] < bucket[b].ends - 2 * Budget!WindowOf(b)

BudgetTypes ==
  /\ now \in 0 .. MaxTime
  /\ bucket \in [Budget!Buckets -> [used: Nat, ends: Nat, blocked: Nat]]
  /\ granted \in [Budget!Buckets -> Seq(Nat)]
  /\ client \in [Clients -> ClientRecord]
  /\ told \in [Routes -> Nat]
  /\ quiet \in Nat

LEMMA BudgetParts ==
  Budget!BudgetInv <=> /\ BudgetTypes /\ \A b \in Budget!Buckets : BucketFits(b)
                       /\ Budget!Deferring /\ Budget!ToldBacked /\ quiet <= bucket[Budget!Service].blocked
  BY DEF Budget!BudgetInv, Budget!GrantsBounded, Budget!TypeOK, Budget!NeverUndercounted,
     Budget!SlidingBound, Budget!WindowsFollow,
     BudgetTypes, BucketFits, ClientRecord

LEMMA BudgetPartsNext ==
  ASSUME BudgetTypes', \A b \in Budget!Buckets : BucketFits(b)', Budget!Deferring', Budget!ToldBacked',
         quiet' <= bucket'[Budget!Service].blocked
  PROVE  Budget!BudgetInv'
  BY DEF Budget!BudgetInv, Budget!GrantsBounded, Budget!TypeOK, Budget!NeverUndercounted,
     Budget!SlidingBound, Budget!WindowsFollow,
     BudgetTypes, BucketFits, ClientRecord

LEMMA BudgetInit ==
  ASSUME Budget!BudgetAssumption, Budget!Init
  PROVE  Budget!BudgetInv
  <1>1. BudgetTypes
    <2>1. Budget!Idle \in ClientRecord
      BY BucketFacts DEF Budget!Idle, ClientRecord
    <2>2. bucket \in [Budget!Buckets -> [used: Nat, ends: Nat, blocked: Nat]]
      BY BucketFacts DEF Budget!Init
    <2>3. <<>> \in Seq(Nat)
      OBVIOUS
    <2>4. granted \in [Budget!Buckets -> Seq(Nat)]
      BY <2>3 DEF Budget!Init
    <2> QED BY <2>1, <2>2, <2>4, BucketFacts DEF Budget!Init, BudgetTypes
  <1>2. ASSUME NEW b \in Budget!Buckets PROVE BucketFits(b)
    <2>1. /\ bucket[b] = [used |-> 0, ends |-> Budget!WindowOf(b), blocked |-> 0] /\ granted[b] = <<>> /\ now = 0
          /\ Budget!LimitOf(b) \in Nat /\ Budget!WindowOf(b) \in Nat
      BY BucketFacts DEF Budget!Init
    <2> QED BY <2>1 DEF BucketFits
  <1>3. Budget!Deferring
    BY DEF Budget!Init, Budget!Deferring, Budget!Idle
  <1>4. Budget!ToldBacked /\ quiet <= bucket[Budget!Service].blocked
    BY BucketFacts DEF Budget!Init, Budget!ToldBacked
  <1> QED BY <1>1, <1>2, <1>3, <1>4, BudgetParts

-----------------------------------------------------------------------------
(* A charge. *)

\* What remains of a bucket's grants after one more: the end of the sequence.
LEMMA RecentFacts ==
  ASSUME Budget!BudgetAssumption, NEW b \in Budget!Buckets, NEW g \in Seq(Nat), NEW t \in Nat
  PROVE  LET h == Budget!Recent(b, Append(g, t)) IN
         /\ h \in Seq(Nat) /\ Len(h) >= 1 /\ Len(h) <= 2 * Budget!LimitOf(b) + 1 /\ Len(h) <= Len(g) + 1
         /\ h[Len(h)] = t
         /\ \A i \in 1 .. Len(h) - 1 : i + (Len(g) + 1 - Len(h)) \in 1 .. Len(g)
                                       /\ h[i] = g[i + (Len(g) + 1 - Len(h))]
  <1> DEFINE L == 2 * Budget!LimitOf(b)  n == Len(g) + 1  k == Budget!Max({1, n - L})  a == Append(g, t)
  <1>1. L \in Nat /\ L >= 1 /\ n \in Nat /\ Len(g) \in Nat
    BY BucketFacts
  <1>2. a \in Seq(Nat) /\ Len(a) = n /\ a[n] = t /\ \A i \in 1 .. Len(g) : a[i] = g[i]
    OBVIOUS
  <1> HIDE DEF L
  <1>3. k \in {1, n - L} /\ k >= 1 /\ k >= n - L /\ k <= n
    <2> SUFFICES ASSUME NEW o \in Int, o = 1, NEW m \in Int, m = n - L, NEW z, z = Budget!Max({o, m})
                 PROVE  z \in {1, m} /\ z >= 1 /\ z >= m /\ z <= n
      BY <1>1
    <2>1. z \in {o, m} /\ z >= o /\ z >= m
      BY LaterOf
    <2> QED BY <1>1, <2>1
  <1>4. k \in Nat
    BY <1>1, <1>3
  <1> HIDE DEF k
  <1> DEFINE h == SubSeq(a, k, n)
  <1>5. Budget!Recent(b, a) = h
    BY <1>2 DEF Budget!Recent, L, k
  <1> HIDE DEF a, n
  <1>6. h \in Seq(Nat) /\ Len(h) = n - k + 1 /\ \A i \in 1 .. n - k + 1 : h[i] = a[k + i - 1]
    BY <1>1, <1>2, <1>3, <1>4
  <1> HIDE DEF h
  <1>7. n = Len(g) + 1
    BY DEF n
  <1>8. Len(h) >= 1 /\ Len(h) <= L + 1 /\ Len(h) <= Len(g) + 1 /\ h[Len(h)] = t
    <2>1. Len(h) >= 1 /\ Len(h) <= L + 1 /\ Len(h) <= Len(g) + 1 /\ Len(h) \in Nat
      BY <1>1, <1>3, <1>4, <1>6, <1>7
    <2>2. h[Len(h)] = a[k + Len(h) - 1]
      BY <1>6, <2>1
    <2>3. k + Len(h) - 1 = n
      BY <1>1, <1>4, <1>6
    <2> QED BY <1>2, <2>1, <2>2, <2>3
  <1>9. ASSUME NEW i \in 1 .. Len(h) - 1
        PROVE  i + (Len(g) + 1 - Len(h)) \in 1 .. Len(g) /\ h[i] = g[i + (Len(g) + 1 - Len(h))]
    <2>1. i + (Len(g) + 1 - Len(h)) = k + i - 1 /\ k + i - 1 \in 1 .. Len(g) /\ i \in 1 .. n - k + 1
      BY <1>1, <1>3, <1>4, <1>6, <1>7
    <2> QED BY <1>2, <1>6, <2>1
  <1> QED BY <1>5, <1>6, <1>8, <1>9 DEF L, a

\* A charge counts one more request in the window that is open, or opens one.
LEMMA ChargedFacts ==
  ASSUME Budget!BudgetAssumption, BudgetTypes, NEW b \in Budget!Buckets, Budget!Open(b)
  PROVE  /\ Budget!Charged(b) \in [used: Nat, ends: Nat, blocked: Nat] /\ Budget!Charged(b).blocked = bucket[b].blocked
         /\ \/ /\ bucket[b].ends <= now /\ Budget!Charged(b).used = 1 /\ Budget!Charged(b).ends = now + Budget!WindowOf(b)
            \/ /\ bucket[b].ends > now /\ bucket[b].used < Budget!LimitOf(b)
               /\ Budget!Charged(b).used = bucket[b].used + 1 /\ Budget!Charged(b).ends = bucket[b].ends
  <1>1. /\ bucket[b] \in [used: Nat, ends: Nat, blocked: Nat] /\ now \in Nat
        /\ Budget!WindowOf(b) \in Nat /\ Budget!LimitOf(b) \in Nat
    BY BucketFacts DEF BudgetTypes
  <1>2. CASE bucket[b].ends <= now
    <2> SUFFICES ASSUME NEW e \in Nat, e = now + Budget!WindowOf(b)
                 PROVE  /\ Budget!Charged(b) \in [used: Nat, ends: Nat, blocked: Nat]
                        /\ Budget!Charged(b).blocked = bucket[b].blocked
                        /\ Budget!Charged(b).used = 1 /\ Budget!Charged(b).ends = e
      BY <1>1, <1>2
    <2> DEFINE r == [bucket[b] EXCEPT !.used = 1, !.ends = e]
    <2>1. r \in [used: Nat, ends: Nat, blocked: Nat] /\ r.used = 1 /\ r.ends = e
          /\ r.blocked = bucket[b].blocked
      BY <1>1
    <2>2. Budget!Charged(b) = r
      BY <1>2 DEF Budget!Charged
    <2> HIDE DEF r
    <2> QED BY <2>1, <2>2
  <1>3. CASE ~(bucket[b].ends <= now)
    <2> DEFINE r == [bucket[b] EXCEPT !.used = @ + 1]
    <2>1. r \in [used: Nat, ends: Nat, blocked: Nat] /\ r.used = bucket[b].used + 1
          /\ r.ends = bucket[b].ends /\ r.blocked = bucket[b].blocked
      BY <1>1
    <2>2. Budget!Charged(b) = r
      BY <1>3 DEF Budget!Charged
    <2>3. bucket[b].used < Budget!LimitOf(b)
      BY <1>3 DEF Budget!Open
    <2> HIDE DEF r
    <2> QED BY <1>1, <1>3, <2>1, <2>2, <2>3
  <1> QED BY <1>2, <1>3

\* The counter still fits the grants, with the request or without it.
LEMMA ChargeFits ==
  ASSUME Budget!BudgetAssumption, BudgetTypes, NEW b \in Budget!Buckets, Budget!Open(b), BucketFits(b),
         now' = now, bucket'[b] = Budget!Charged(b),
         granted'[b] = granted[b] \/ granted'[b] = Budget!Recent(b, Append(granted[b], now))
  PROVE  BucketFits(b)'
  <1> DEFINE W == Budget!WindowOf(b)  L == Budget!LimitOf(b)  g == granted[b]  e == bucket[b].ends  u == bucket[b].used
             e2 == Budget!Charged(b).ends  u2 == Budget!Charged(b).used
  <1>1. /\ W \in Nat /\ W >= 1 /\ L \in Nat /\ L >= 1 /\ g \in Seq(Nat) /\ Len(g) \in Nat
        /\ e \in Nat /\ u \in Nat /\ now \in Nat /\ \A i \in 1 .. Len(g) : g[i] \in Nat
    <2>1. W \in Nat /\ W >= 1 /\ L \in Nat /\ L >= 1
      BY BucketFacts
    <2>2. g \in Seq(Nat) /\ now \in Nat
      BY DEF BudgetTypes
    <2>3. Len(g) \in Nat /\ \A i \in 1 .. Len(g) : g[i] \in Nat
      <3> HIDE DEF g
      <3> QED BY <2>2
    <2>4. e \in Nat /\ u \in Nat
      <3>1. PICK r \in [used: Nat, ends: Nat, blocked: Nat] : r = bucket[b]
        BY DEF BudgetTypes
      <3> QED BY <3>1
    <2> QED BY <2>1, <2>2, <2>3, <2>4
  <1>2. /\ u <= L /\ e <= now + W
        /\ \A i \in 1 .. Len(g) - u : g[i] < e - W
        /\ Len(g) > 2 * L => Budget!Last(g) - Head(g) >= W
        /\ \A i \in 1 .. Len(g) : g[i] < e
        /\ \A i \in 1 .. Len(g) - u - L : g[i] < e - 2 * W
    BY <1>1 DEF BucketFits
  <1>3. /\ e2 \in Nat /\ u2 \in Nat
        /\ \/ e <= now /\ u2 = 1 /\ e2 = now + W
           \/ e > now /\ u < L /\ u2 = u + 1 /\ e2 = e
    BY ChargedFacts
  <1> HIDE DEF W, L, g, e, u, e2, u2
  <1>4. u2 <= L /\ e2 <= now + W /\ now < e2 /\ u2 >= 1
    BY <1>1, <1>2, <1>3
  <1>5. /\ \A i \in 1 .. Len(g) : g[i] < e2
        /\ \A i \in 1 .. Len(g) + 1 - u2 : i <= Len(g) => g[i] < e2 - W
        /\ \A i \in 1 .. Len(g) + 1 - u2 - L : i <= Len(g) => g[i] < e2 - 2 * W
    <2>1. CASE e <= now /\ u2 = 1 /\ e2 = now + W
      <3>1. e2 - W = now /\ e2 - 2 * W = now - W /\ e - W <= now - W /\ Len(g) - L <= Len(g) - u
        BY <1>1, <1>2, <2>1
      <3>2. ASSUME NEW i \in 1 .. Len(g) PROVE g[i] < e2 /\ g[i] < e2 - W
        BY <1>1, <1>2, <2>1, <3>1
      <3>3. ASSUME NEW i \in 1 .. Len(g) + 1 - u2 - L PROVE g[i] < e2 - 2 * W
        <4>1. i \in 1 .. Len(g) - u /\ i \in 1 .. Len(g)
          BY <1>1, <1>2, <2>1, <3>1
        <4>2. g[i] < e - W /\ g[i] \in Nat
          BY <1>1, <1>2, <4>1
        <4> QED BY <1>1, <3>1, <4>2
      <3> QED BY <1>1, <2>1, <3>2, <3>3
    <2>2. CASE e > now /\ u < L /\ u2 = u + 1 /\ e2 = e
      BY <1>1, <1>2, <2>2
    <2> QED BY <1>3, <2>1, <2>2
  <1> DEFINE h == granted'[b]
  <1>6. SUFFICES
          /\ u2 <= L /\ e2 <= now + W
          /\ \A i \in 1 .. Len(h) - u2 : h[i] < e2 - W
          /\ Len(h) > 2 * L => Budget!Last(h) - Head(h) >= W
          /\ \A i \in 1 .. Len(h) : h[i] < e2
          /\ \A i \in 1 .. Len(h) - u2 - L : h[i] < e2 - 2 * W
    <2>1. h \in Seq(Nat)
      BY <1>1, RecentFacts DEF g
    <2> QED BY <2>1 DEF BucketFits, W, L, e2, u2
  <1>7. CASE granted'[b] = granted[b]
    <2>1. h = g
      BY <1>7 DEF g
    <2> HIDE DEF h
    <2>2. ASSUME NEW i \in 1 .. Len(g) - u2 PROVE g[i] < e2 - W
      <3>1. i \in 1 .. Len(g) + 1 - u2 /\ i <= Len(g)
        BY <1>1, <1>3
      <3> QED BY <1>5, <3>1
    <2>3. \A i \in 1 .. Len(g) - u2 - L : g[i] < e2 - 2 * W
      BY <1>1, <1>3, <1>4, <1>5
    <2> QED BY <1>2, <1>4, <1>5, <2>1, <2>2, <2>3
  <1>8. CASE granted'[b] = Budget!Recent(b, Append(granted[b], now))
    <2> DEFINE k == Len(g) + 1 - Len(h)
    <2>1. /\ h \in Seq(Nat) /\ Len(h) >= 1 /\ Len(h) <= 2 * L + 1 /\ Len(h) <= Len(g) + 1
          /\ h[Len(h)] = now
          /\ \A i \in 1 .. Len(h) - 1 : i + k \in 1 .. Len(g) /\ h[i] = g[i + k]
      <3>1. h = Budget!Recent(b, Append(g, now)) /\ g \in Seq(Nat) /\ now \in Nat /\ L = Budget!LimitOf(b)
        BY <1>1, <1>8 DEF g, L
      <3> HIDE DEF h
      <3> QED BY <3>1, RecentFacts
    <2>2. Budget!Last(h) = now /\ Head(h) = h[1] /\ Len(h) \in Nat
      BY <2>1 DEF Budget!Last
    <2> HIDE DEF h
    <2>3. k \in Nat /\ Len(h) = Len(g) + 1 - k
      BY <1>1, <2>1, <2>2
    <2> HIDE DEF k
    <2>4. \A i \in 1 .. Len(h) : h[i] < e2
      <3> SUFFICES ASSUME NEW i \in 1 .. Len(h) PROVE h[i] < e2
        OBVIOUS
      <3>1. CASE i = Len(h)
        BY <1>4, <2>1, <3>1
      <3>2. CASE i # Len(h)
        <4>1. i \in 1 .. Len(h) - 1
          BY <2>2, <3>2
        <4>2. i + k \in 1 .. Len(g) /\ h[i] = g[i + k]
          BY <2>1, <4>1
        <4> QED BY <1>5, <4>2
      <3> QED BY <3>1, <3>2
    <2>5. \A i \in 1 .. Len(h) - u2 : h[i] < e2 - W
      <3> SUFFICES ASSUME NEW i \in 1 .. Len(h) - u2 PROVE h[i] < e2 - W
        OBVIOUS
      <3>1. i \in 1 .. Len(h) - 1 /\ i + k \in 1 .. Len(g) + 1 - u2
        BY <1>1, <1>3, <1>4, <2>2, <2>3
      <3>2. i + k \in 1 .. Len(g) /\ h[i] = g[i + k]
        BY <2>1, <3>1
      <3> QED BY <1>5, <3>1, <3>2
    <2>6. \A i \in 1 .. Len(h) - u2 - L : h[i] < e2 - 2 * W
      <3> SUFFICES ASSUME NEW i \in 1 .. Len(h) - u2 - L PROVE h[i] < e2 - 2 * W
        OBVIOUS
      <3>1. i \in 1 .. Len(h) - 1 /\ i + k \in 1 .. Len(g) + 1 - u2 - L
        BY <1>1, <1>3, <1>4, <2>2, <2>3
      <3>2. i + k \in 1 .. Len(g) /\ h[i] = g[i + k]
        BY <2>1, <3>1
      <3> QED BY <1>5, <3>1, <3>2
    <2>7. Len(h) > 2 * L => Budget!Last(h) - Head(h) >= W
      <3> SUFFICES ASSUME Len(h) > 2 * L PROVE now - h[1] >= W
        BY <2>2
      <3>1. 1 \in 1 .. Len(h) - u2 - L /\ 1 \in 1 .. Len(h)
        BY <1>1, <1>3, <1>4, <2>2
      <3>2. h[1] < e2 - 2 * W /\ h[1] \in Nat
        BY <2>1, <2>6, <3>1
      <3> QED BY <1>1, <1>3, <1>4, <3>2
    <2> QED BY <1>4, <2>4, <2>5, <2>6, <2>7
  <1> QED BY <1>7, <1>8

LEMMA ChargeAllFacts ==
  ASSUME Budget!BudgetAssumption, Budget!BudgetInv, NEW r \in Routes, Budget!Admitted(r), Budget!ChargeAll(r),
         now' = now, told' = told, quiet' = quiet,
         \/ granted' = granted
         \/ granted' = [b \in Budget!Buckets |->
              IF Budget!Charges(b, r) THEN Budget!Recent(b, Append(granted[b], now)) ELSE granted[b]]
  PROVE  /\ bucket' \in [Budget!Buckets -> [used: Nat, ends: Nat, blocked: Nat]]
         /\ granted' \in [Budget!Buckets -> Seq(Nat)]
         /\ \A b \in Budget!Buckets : BucketFits(b)' /\ bucket'[b].blocked = bucket[b].blocked
         /\ Budget!ToldBacked' /\ quiet' <= bucket'[Budget!Service].blocked
  <1>1. BudgetTypes /\ \A b \in Budget!Buckets : BucketFits(b)
    BY BudgetParts
  <1>2. bucket' = [b \in Budget!Buckets |-> IF Budget!Charges(b, r) THEN Budget!Charged(b) ELSE bucket[b]]
    BY DEF Budget!ChargeAll
  <1>3. ASSUME NEW b \in Budget!Buckets
        PROVE  IF Budget!Charges(b, r) THEN Budget!Open(b) /\ bucket'[b] = Budget!Charged(b) ELSE bucket'[b] = bucket[b]
    BY <1>2 DEF Budget!Charges, Budget!Admitted
  <1>4. ASSUME NEW b \in Budget!Buckets
        PROVE  /\ bucket'[b] \in [used: Nat, ends: Nat, blocked: Nat]
               /\ bucket'[b].blocked = bucket[b].blocked
    BY <1>1, <1>3, ChargedFacts DEF BudgetTypes
  <1>5. bucket' \in [Budget!Buckets -> [used: Nat, ends: Nat, blocked: Nat]]
    BY <1>2, <1>4
  <1>6. ASSUME NEW b \in Budget!Buckets
        PROVE  /\ granted'[b] \in Seq(Nat)
               /\ \/ granted'[b] = granted[b]
                  \/ Budget!Charges(b, r) /\ granted'[b] = Budget!Recent(b, Append(granted[b], now))
    <2>1. granted[b] \in Seq(Nat) /\ now \in Nat
      BY <1>1 DEF BudgetTypes
    <2>2. Budget!Recent(b, Append(granted[b], now)) \in Seq(Nat)
      BY <2>1, RecentFacts
    <2> QED BY <2>1, <2>2
  <1>7. granted' \in [Budget!Buckets -> Seq(Nat)]
    <2>1. granted' = [b \in Budget!Buckets |-> granted'[b]]
      BY <1>1 DEF BudgetTypes
    <2> QED BY <1>6, <2>1
  <1>8. ASSUME NEW b \in Budget!Buckets PROVE BucketFits(b)'
    <2>1. CASE Budget!Charges(b, r)
      BY <1>1, <1>3, <1>6, <2>1, ChargeFits
    <2>2. CASE ~Budget!Charges(b, r)
      BY <1>1, <1>3, <1>6, <2>2 DEF BucketFits
    <2> QED BY <2>1, <2>2
  <1>9. Budget!ToldBacked'
    <2> SUFFICES ASSUME NEW q \in Routes
                 PROVE  \/ told[q] <= now
                        \/ \E b \in {Budget!Service, q} :
                             \/ told[q] <= bucket'[b].blocked
                             \/ bucket'[b].used >= Budget!LimitOf(b) /\ told[q] <= bucket'[b].ends
      BY DEF Budget!ToldBacked
    <2>1. CASE told[q] <= now
      BY <2>1
    <2>2. CASE ~(told[q] <= now)
      <3>1. PICK b \in {Budget!Service, q} :
              \/ told[q] <= bucket[b].blocked
              \/ bucket[b].used >= Budget!LimitOf(b) /\ told[q] <= bucket[b].ends
        BY <2>2, BudgetParts DEF Budget!ToldBacked
      <3>2. b \in Budget!Buckets
        BY BucketFacts
      <3>3. CASE told[q] <= bucket[b].blocked
        BY <1>4, <3>2, <3>3
      <3>4. CASE bucket[b].used >= Budget!LimitOf(b) /\ told[q] <= bucket[b].ends
        <4>1. told[q] \in Nat /\ now \in Nat /\ bucket[b].ends \in Nat /\ bucket[b].used \in Nat
              /\ Budget!LimitOf(b) \in Nat
          <5>1. Budget!LimitOf(b) \in Nat /\ MaxTime \in Nat
            BY <3>2, BucketFacts
          <5>2. bucket[b] \in [used: Nat, ends: Nat, blocked: Nat]
            BY <1>1, <3>2 DEF BudgetTypes
          <5>3. told[q] \in Nat /\ now \in 0 .. MaxTime
            BY <1>1 DEF BudgetTypes
          <5> QED BY <5>1, <5>2, <5>3
        <4>2. ~Budget!Open(b)
          BY <2>2, <3>4, <4>1 DEF Budget!Open
        <4> QED BY <1>3, <3>2, <3>4, <4>2
      <3> QED BY <3>1, <3>3, <3>4
    <2> QED BY <2>1, <2>2
  <1>10. quiet' <= bucket'[Budget!Service].blocked
    BY <1>4, BudgetParts, BucketFacts
  <1> QED BY <1>4, <1>5, <1>7, <1>8, <1>9, <1>10

\* A client's new step, with the buckets no less blocked than before.
LEMMA ClientStep ==
  ASSUME Budget!BudgetAssumption, Budget!BudgetInv, NEW c \in Clients, NEW s \in ClientRecord,
         client' = [client EXCEPT ![c] = s],
         s.pc # "idle" => s.route \in Routes,
         s.pc = "throttled" => \E d \in Delays :
           \/ s.todo = <<<<d, Budget!Service>>, <<d, s.route>>>> /\ s.due <= now + d
           \/ s.todo = <<<<d, s.route>>>> /\ s.due <= bucket'[Budget!Service].blocked,
         bucket' \in [Budget!Buckets -> [used: Nat, ends: Nat, blocked: Nat]],
         bucket[Budget!Service].blocked <= bucket'[Budget!Service].blocked, now' = now
  PROVE  client' \in [Clients -> ClientRecord] /\ Budget!Deferring'
  <1>1. client \in [Clients -> ClientRecord] /\ Budget!Deferring /\ bucket \in [Budget!Buckets -> [used: Nat, ends: Nat, blocked: Nat]]
    BY BudgetParts DEF BudgetTypes
  <1>2. client' \in [Clients -> ClientRecord] /\ client'[c] = s
        /\ \A x \in Clients : x # c => client'[x] = client[x]
    BY <1>1
  <1>3. ASSUME NEW x \in Clients, x # c
        PROVE  /\ client[x].pc # "idle" => client[x].route \in Routes
               /\ client[x].pc = "throttled" => \E d \in Delays :
                    \/ /\ client[x].todo = <<<<d, Budget!Service>>, <<d, client[x].route>>>>
                       /\ client[x].due <= now + d
                    \/ /\ client[x].todo = <<<<d, client[x].route>>>>
                       /\ client[x].due <= bucket'[Budget!Service].blocked
    <2>1. client[x].due \in Nat /\ bucket[Budget!Service].blocked \in Nat /\ bucket'[Budget!Service].blocked \in Nat
      BY <1>1, BucketFacts DEF ClientRecord
    <2>2. \A y : y <= bucket[Budget!Service].blocked /\ y \in Nat => y <= bucket'[Budget!Service].blocked
      BY <2>1
    <2> QED BY <1>1, <2>1, <2>2 DEF Budget!Deferring
  <1> QED BY <1>2, <1>3 DEF Budget!Deferring

LEMMA ChargeKeeps ==
  ASSUME Budget!BudgetAssumption, Budget!BudgetInv, NEW c \in Clients, NEW r \in Routes,
         Budget!Acquire(c, r) \/ Budget!AcquireUncertain(c, r)
  PROVE  Budget!BudgetInv'
  <1> DEFINE s == [pc |-> "sending", route |-> r, due |-> 0, todo |-> <<>>]
  <1>1. /\ Budget!Admitted(r) /\ Budget!ChargeAll(r) /\ now' = now /\ told' = told /\ quiet' = quiet
        /\ \/ granted' = granted
           \/ granted' = [b \in Budget!Buckets |->
                IF Budget!Charges(b, r) THEN Budget!Recent(b, Append(granted[b], now)) ELSE granted[b]]
        /\ client' = client \/ client' = [client EXCEPT ![c] = s]
    BY DEF Budget!Acquire, Budget!AcquireUncertain
  <1>2. /\ bucket' \in [Budget!Buckets -> [used: Nat, ends: Nat, blocked: Nat]]
        /\ granted' \in [Budget!Buckets -> Seq(Nat)]
        /\ \A b \in Budget!Buckets : BucketFits(b)' /\ bucket'[b].blocked = bucket[b].blocked
        /\ Budget!ToldBacked' /\ quiet' <= bucket'[Budget!Service].blocked
    BY <1>1, ChargeAllFacts
  <1>3. s \in ClientRecord /\ s.pc = "sending" /\ s.route = r
    BY BucketFacts DEF ClientRecord
  <1> HIDE DEF s
  <1>4. /\ bucket \in [Budget!Buckets -> [used: Nat, ends: Nat, blocked: Nat]] /\ Budget!Service \in Budget!Buckets
        /\ client \in [Clients -> ClientRecord] /\ Budget!Deferring
    BY BudgetParts, BucketFacts DEF BudgetTypes
  <1>5. bucket[Budget!Service].blocked <= bucket'[Budget!Service].blocked
    BY <1>2, <1>4
  <1>6. client' \in [Clients -> ClientRecord] /\ Budget!Deferring'
    <2>1. CASE client' = client
      BY <1>1, <1>2, <1>4, <2>1 DEF Budget!Deferring
    <2>2. CASE client' = [client EXCEPT ![c] = s]
      BY <1>1, <1>2, <1>3, <1>5, <2>2, ClientStep
    <2> QED BY <1>1, <2>1, <2>2
  <1>7. BudgetTypes'
    BY <1>1, <1>2, <1>6, BudgetParts DEF BudgetTypes
  <1> QED BY <1>2, <1>6, <1>7, BudgetPartsNext

-----------------------------------------------------------------------------
(* Steps that charge nothing. *)

\* When a closed bucket may be asked again, it tells.
LEMMA RetryAtBacked ==
  ASSUME Budget!BudgetAssumption, NEW b \in Budget!Buckets, now \in Nat,
         NEW rw \in [used: Nat, ends: Nat, blocked: Nat]
  PROVE  /\ Budget!RetryAt(b, rw) \in Nat
         /\ \/ Budget!RetryAt(b, rw) <= now
            \/ Budget!RetryAt(b, rw) <= rw.blocked
            \/ rw.used >= Budget!LimitOf(b) /\ Budget!RetryAt(b, rw) <= rw.ends
  <1> DEFINE e == IF rw.used >= Budget!LimitOf(b) THEN rw.ends ELSE now
  <1>1. e \in Nat /\ rw.blocked \in Nat /\ rw.ends \in Nat
    OBVIOUS
  <1>2. Budget!RetryAt(b, rw) = Budget!Max({now, rw.blocked, e})
    BY DEF Budget!RetryAt
  <1>3. e = now \/ (rw.used >= Budget!LimitOf(b) /\ e = rw.ends)
    OBVIOUS
  <1> HIDE DEF e
  <1>4. Budget!RetryAt(b, rw) \in {now, rw.blocked, e}
    BY <1>1, <1>2, LatestOfThree
  <1> QED BY <1>1, <1>3, <1>4

\* Buckets that are only closed for longer, by a clock that does not run back.
LEMMA BucketsFrame ==
  ASSUME Budget!BudgetAssumption, Budget!BudgetInv, granted' = granted, now' \in 0 .. MaxTime, now <= now',
         bucket' \in [Budget!Buckets -> [used: Nat, ends: Nat, blocked: Nat]],
         \A b \in Budget!Buckets : bucket'[b].used = bucket[b].used /\ bucket'[b].ends = bucket[b].ends
                             /\ bucket[b].blocked <= bucket'[b].blocked
  PROVE  /\ \A b \in Budget!Buckets : BucketFits(b)'
         /\ \A r \in Routes : told'[r] = told[r] =>
              \/ told'[r] <= now'
              \/ \E b \in {Budget!Service, r} :
                   \/ told'[r] <= bucket'[b].blocked
                   \/ bucket'[b].used >= Budget!LimitOf(b) /\ told'[r] <= bucket'[b].ends
  <1>1. BudgetTypes /\ Budget!ToldBacked /\ \A b \in Budget!Buckets : BucketFits(b)
    BY BudgetParts
  <1>2. now \in Nat /\ now' \in Nat
    BY <1>1, BucketFacts DEF BudgetTypes
  <1>3. ASSUME NEW b \in Budget!Buckets PROVE BucketFits(b)'
    <2>1. bucket[b].ends \in Nat /\ Budget!WindowOf(b) \in Nat
      BY <1>1, BucketFacts DEF BudgetTypes
    <2>2. bucket[b].ends <= now' + Budget!WindowOf(b)
      BY <1>1, <1>2, <2>1 DEF BucketFits
    <2> QED BY <1>1, <2>2 DEF BucketFits
  <1>4. ASSUME NEW r \in Routes, told'[r] = told[r]
        PROVE  \/ told'[r] <= now'
               \/ \E b \in {Budget!Service, r} :
                    \/ told'[r] <= bucket'[b].blocked
                    \/ bucket'[b].used >= Budget!LimitOf(b) /\ told'[r] <= bucket'[b].ends
    <2>1. told[r] \in Nat
      BY <1>1 DEF BudgetTypes
    <2>2. CASE told[r] <= now
      BY <1>2, <1>4, <2>1, <2>2
    <2>3. CASE ~(told[r] <= now)
      <3>1. PICK b \in {Budget!Service, r} :
              \/ told[r] <= bucket[b].blocked
              \/ bucket[b].used >= Budget!LimitOf(b) /\ told[r] <= bucket[b].ends
        BY <1>1, <2>3 DEF Budget!ToldBacked
      <3>2. b \in Budget!Buckets /\ bucket[b].blocked \in Nat /\ bucket'[b].blocked \in Nat
        BY <1>1, BucketFacts DEF BudgetTypes
      <3>3. \/ told[r] <= bucket'[b].blocked
            \/ bucket'[b].used >= Budget!LimitOf(b) /\ told[r] <= bucket'[b].ends
        BY <2>1, <3>1, <3>2
      <3> QED BY <1>4, <3>3
    <2> QED BY <2>2, <2>3
  <1> QED BY <1>3, <1>4

\* Nothing happens to the buckets.
LEMMA QuietStep ==
  ASSUME Budget!BudgetAssumption, Budget!BudgetInv, UNCHANGED <<bucket, granted, quiet>>, now' \in 0 .. MaxTime, now <= now',
         told' \in [Routes -> Nat], client' \in [Clients -> ClientRecord], Budget!Deferring',
         \A r \in Routes : told'[r] = told[r] \/ \E b \in {Budget!Service, r} :
           \/ told'[r] <= now
           \/ told'[r] <= bucket[b].blocked
           \/ bucket[b].used >= Budget!LimitOf(b) /\ told'[r] <= bucket[b].ends
  PROVE  Budget!BudgetInv'
  <1>1. BudgetTypes /\ quiet <= bucket[Budget!Service].blocked
    BY BudgetParts
  <1>2. /\ bucket' \in [Budget!Buckets -> [used: Nat, ends: Nat, blocked: Nat]]
        /\ \A b \in Budget!Buckets : bucket'[b].used = bucket[b].used /\ bucket'[b].ends = bucket[b].ends
                               /\ bucket[b].blocked <= bucket'[b].blocked
    BY <1>1 DEF BudgetTypes
  <1>3. /\ \A b \in Budget!Buckets : BucketFits(b)'
        /\ \A r \in Routes : told'[r] = told[r] =>
              \/ told'[r] <= now'
              \/ \E b \in {Budget!Service, r} :
                   \/ told'[r] <= bucket'[b].blocked
                   \/ bucket'[b].used >= Budget!LimitOf(b) /\ told'[r] <= bucket'[b].ends
    BY <1>2, BucketsFrame
  <1>4. now \in Nat /\ now' \in Nat /\ \A r \in Routes : told'[r] \in Nat
    BY <1>1, BucketFacts DEF BudgetTypes
  <1>5. Budget!ToldBacked'
    BY <1>3, <1>4 DEF Budget!ToldBacked
  <1>6. BudgetTypes'
    BY <1>1, <1>2 DEF BudgetTypes
  <1> QED BY <1>1, <1>3, <1>5, <1>6, BudgetPartsNext

LEMMA DeniedKeeps ==
  ASSUME Budget!BudgetAssumption, Budget!BudgetInv, NEW c \in Clients, NEW r \in Routes, Budget!Denied(c, r)
  PROVE  Budget!BudgetInv'
  <1> DEFINE Closed == {x \in {Budget!Service, r} : ~Budget!Open(x)}
             S == {told[r]} \cup {Budget!RetryAt(b, bucket[b]) : b \in Closed}
  <1>1. told' = [told EXCEPT ![r] = Budget!Max(S)] /\ UNCHANGED <<now, bucket, client, granted, quiet>>
    BY DEF Budget!Denied
  <1>2. BudgetTypes /\ Budget!ToldBacked /\ Budget!Deferring
    BY BudgetParts
  <1>3. now \in Nat /\ now \in 0 .. MaxTime /\ told[r] \in Nat /\ told \in [Routes -> Nat]
    BY <1>2, BucketFacts DEF BudgetTypes
  <1>4. ASSUME NEW b \in {Budget!Service, r}
        PROVE  /\ Budget!RetryAt(b, bucket[b]) \in Nat
               /\ \/ Budget!RetryAt(b, bucket[b]) <= now
                  \/ Budget!RetryAt(b, bucket[b]) <= bucket[b].blocked
                  \/ bucket[b].used >= Budget!LimitOf(b) /\ Budget!RetryAt(b, bucket[b]) <= bucket[b].ends
    <2>1. b \in Budget!Buckets /\ bucket[b] \in [used: Nat, ends: Nat, blocked: Nat]
      BY <1>2, BucketFacts DEF BudgetTypes
    <2> QED BY <1>3, <2>1, RetryAtBacked
  <1>5. Budget!Max(S) \in S
    <2>1. \E x, y \in S : S = {told[r], x, y}
      <3>1. CASE Budget!Open(Budget!Service) /\ Budget!Open(r)
        <4>1. S = {told[r], told[r], told[r]}
          BY <3>1
        <4> QED BY <4>1
      <3>2. CASE Budget!Open(Budget!Service) /\ ~Budget!Open(r)
        <4>1. S = {told[r], told[r], Budget!RetryAt(r, bucket[r])}
          BY <3>2
        <4> QED BY <4>1
      <3>3. CASE ~Budget!Open(Budget!Service) /\ Budget!Open(r)
        <4>1. S = {told[r], told[r], Budget!RetryAt(Budget!Service, bucket[Budget!Service])}
          BY <3>3
        <4> QED BY <4>1
      <3>4. CASE ~Budget!Open(Budget!Service) /\ ~Budget!Open(r)
        <4>1. S = {told[r], Budget!RetryAt(r, bucket[r]), Budget!RetryAt(Budget!Service, bucket[Budget!Service])}
          BY <3>4
        <4> QED BY <4>1
      <3> QED BY <3>1, <3>2, <3>3, <3>4
    <2>2. S \subseteq Int
      BY <1>3, <1>4
    <2> HIDE DEF S
    <2> QED BY <1>3, <2>1, <2>2, LatestOfThree
  <1>6. Budget!Max(S) \in Nat
    BY <1>3, <1>4, <1>5
  <1>7. Budget!Max(S) = told[r] \/ \E b \in {Budget!Service, r} :
          \/ Budget!Max(S) <= now
          \/ Budget!Max(S) <= bucket[b].blocked
          \/ bucket[b].used >= Budget!LimitOf(b) /\ Budget!Max(S) <= bucket[b].ends
    BY <1>4, <1>5
  <1> HIDE DEF S
  <1>8. told' \in [Routes -> Nat] /\ told'[r] = Budget!Max(S) /\ \A q \in Routes : q # r => told'[q] = told[q]
    BY <1>1, <1>3, <1>6
  <1>9. client' \in [Clients -> ClientRecord] /\ Budget!Deferring'
    BY <1>1, <1>2 DEF BudgetTypes, Budget!Deferring
  <1> QED BY <1>1, <1>3, <1>7, <1>8, <1>9, QuietStep

\* A client answers, gives up, or learns that it has to wait.
LEMMA AnswerKeeps ==
  ASSUME Budget!BudgetAssumption, Budget!BudgetInv, NEW c \in Clients,
         Budget!Respond(c) \/ Budget!Crash(c) \/ \E d \in Delays : Budget!Throttle(c, d)
  PROVE  Budget!BudgetInv'
  <1>1. /\ UNCHANGED <<now, bucket, granted, told, quiet>> /\ BudgetTypes /\ Budget!Deferring
        /\ now \in Nat /\ bucket[Budget!Service].blocked \in Nat /\ now \in 0 .. MaxTime
    <2>1. BudgetTypes /\ Budget!Deferring
      BY BudgetParts
    <2>2. UNCHANGED <<now, bucket, granted, told, quiet>>
      BY DEF Budget!Respond, Budget!Crash, Budget!Throttle
    <2>3. now \in 0 .. MaxTime /\ MaxTime \in Nat
      BY <2>1, BucketFacts DEF BudgetTypes
    <2>4. bucket[Budget!Service] \in [used: Nat, ends: Nat, blocked: Nat]
      BY <2>1, BucketFacts DEF BudgetTypes
    <2> QED BY <2>1, <2>2, <2>3, <2>4
  <1>2. \E s \in ClientRecord : /\ client' = [client EXCEPT ![c] = s]
                                /\ s.pc # "idle" => s.route \in Routes
                                /\ s.pc = "throttled" => \E d \in Delays :
                                     /\ s.todo = <<<<d, Budget!Service>>, <<d, s.route>>>>
                                     /\ s.due <= now + d
    <2>1. CASE client' = [client EXCEPT ![c] = Budget!Idle]
      <3>1. Budget!Idle \in ClientRecord /\ Budget!Idle.pc = "idle"
        BY BucketFacts DEF Budget!Idle, ClientRecord
      <3> QED BY <2>1, <3>1
    <2>2. ASSUME NEW d \in Delays, Budget!Throttle(c, d)
          PROVE  \E s \in ClientRecord : /\ client' = [client EXCEPT ![c] = s]
                                         /\ s.pc # "idle" => s.route \in Routes
                                         /\ s.pc = "throttled" => \E x \in Delays :
                                              /\ s.todo = <<<<x, Budget!Service>>, <<x, s.route>>>>
                                              /\ s.due <= now + x
      <3>1. client[c] \in ClientRecord /\ client[c].route \in Routes /\ client[c].pc = "sending"
        BY <1>1, <2>2 DEF BudgetTypes, Budget!Deferring, Budget!Throttle
      <3> SUFFICES ASSUME NEW due \in Nat, due = now + d,
                          NEW todo, todo = <<<<d, Budget!Service>>, <<d, client[c].route>>>>
                   PROVE  \E s \in ClientRecord : /\ client' = [client EXCEPT ![c] = s]
                                                  /\ s.route \in Routes /\ s.due = due
                                                  /\ s.todo = <<<<d, Budget!Service>>, <<d, s.route>>>>
        <4>1. d \in Nat
          BY BucketFacts
        <4>2. now + d \in Nat /\ now + d <= now + d
          BY <1>1, <4>1
        <4> QED BY <4>2
      <3> DEFINE s == [client[c] EXCEPT !.pc = "throttled", !.due = due, !.todo = todo]
      <3>2. todo = [i \in 1 .. 2 |-> <<d, Budget!BucketsOf(client[c].route)[i]>>]
        BY DEF Budget!BucketsOf
      <3>3. todo \in Seq(Delays \X Budget!Buckets)
        BY <3>1, BucketFacts
      <3>4. s \in ClientRecord /\ s.route = client[c].route /\ s.due = due /\ s.todo = todo
        BY <3>1, <3>3 DEF ClientRecord
      <3>5. client' = [client EXCEPT ![c] = s]
        BY <2>2, <3>2 DEF Budget!Throttle
      <3> HIDE DEF s
      <3> QED BY <3>1, <3>4, <3>5
    <2> QED BY <2>1, <2>2 DEF Budget!Respond, Budget!Crash
  <1>3. client' \in [Clients -> ClientRecord] /\ Budget!Deferring'
    <2>1. bucket' \in [Budget!Buckets -> [used: Nat, ends: Nat, blocked: Nat]] /\ now' = now
          /\ bucket[Budget!Service].blocked <= bucket'[Budget!Service].blocked
      BY <1>1 DEF BudgetTypes
    <2> QED BY <1>2, <2>1, ClientStep
  <1> QED BY <1>1, <1>3, QuietStep DEF BudgetTypes

LEMMA TickKeeps ==
  ASSUME Budget!BudgetAssumption, Budget!BudgetInv, Budget!Tick
  PROVE  Budget!BudgetInv'
  <1>1. BudgetTypes /\ Budget!Deferring
    BY BudgetParts
  <1>2. now \in Nat /\ now' = now + 1 /\ now' \in 0 .. MaxTime /\ now <= now'
        /\ UNCHANGED <<bucket, client, granted, told, quiet>>
    BY <1>1, BucketFacts DEF BudgetTypes, Budget!Tick
  <1>3. Budget!Deferring'
    <2> SUFFICES ASSUME NEW c \in Clients
                 PROVE  /\ client[c].pc # "idle" => client[c].route \in Routes
                        /\ client[c].pc = "throttled" => \E d \in Delays :
                             \/ /\ client[c].todo = <<<<d, Budget!Service>>, <<d, client[c].route>>>>
                                /\ client[c].due <= now' + d
                             \/ /\ client[c].todo = <<<<d, client[c].route>>>>
                                /\ client[c].due <= bucket[Budget!Service].blocked
      BY <1>2 DEF Budget!Deferring
    <2>1. client[c].due \in Nat /\ \A d \in Delays : d \in Nat
      BY <1>1, BucketFacts DEF BudgetTypes, ClientRecord
    <2>2. \A d \in Delays : client[c].due <= now + d => client[c].due <= now' + d
      BY <1>2, <2>1
    <2> QED BY <1>1, <2>2 DEF Budget!Deferring
  <1> QED BY <1>1, <1>2, <1>3, QuietStep DEF BudgetTypes

LEMMA BlockedFacts ==
  ASSUME NEW b \in Budget!Buckets, bucket[b] \in [used: Nat, ends: Nat, blocked: Nat],
         NEW d \in Nat, now \in Nat
  PROVE  /\ Budget!Blocked(b, d) \in [used: Nat, ends: Nat, blocked: Nat]
         /\ Budget!Blocked(b, d).used = bucket[b].used /\ Budget!Blocked(b, d).ends = bucket[b].ends
         /\ bucket[b].blocked <= Budget!Blocked(b, d).blocked /\ now + d <= Budget!Blocked(b, d).blocked
  <1> SUFFICES ASSUME NEW t \in Nat, t = now + d, NEW m, m = Budget!Max({bucket[b].blocked, t})
               PROVE  /\ Budget!Blocked(b, d) \in [used: Nat, ends: Nat, blocked: Nat]
                      /\ Budget!Blocked(b, d).used = bucket[b].used /\ Budget!Blocked(b, d).ends = bucket[b].ends
                      /\ bucket[b].blocked <= Budget!Blocked(b, d).blocked /\ t <= Budget!Blocked(b, d).blocked
    <2>1. now + d \in Nat
      OBVIOUS
    <2> QED BY <2>1
  <1>1. bucket[b].blocked \in Nat
    OBVIOUS
  <1>2. m \in Nat /\ bucket[b].blocked <= m /\ t <= m
    <2>1. bucket[b].blocked \in Int /\ t \in Int
      BY <1>1
    <2>2. m \in {bucket[b].blocked, t} /\ m >= bucket[b].blocked /\ m >= t
      BY <2>1, LaterOf, Zenon
    <2> QED BY <1>1, <2>2
  <1> DEFINE r == [bucket[b] EXCEPT !.blocked = m]
  <1>3. Budget!Blocked(b, d) = r
    BY DEF Budget!Blocked
  <1>4. /\ r \in [used: Nat, ends: Nat, blocked: Nat]
        /\ r.used = bucket[b].used /\ r.ends = bucket[b].ends /\ r.blocked = m
    BY <1>2
  <1> HIDE DEF r
  <1> QED BY <1>2, <1>3, <1>4

\* The bucket of the service is closed first; when that of the API is closed
\* too, the wait is announced.
LEMMA DeferKeeps ==
  ASSUME Budget!BudgetAssumption, Budget!BudgetInv, NEW c \in Clients, Budget!Defer(c)
  PROVE  Budget!BudgetInv'
  <1> SUFFICES ASSUME NEW r, r = client[c].route PROVE Budget!BudgetInv'
    OBVIOUS
  <1>1. /\ BudgetTypes /\ Budget!Deferring /\ Budget!ToldBacked /\ quiet <= bucket[Budget!Service].blocked
        /\ client[c] \in ClientRecord /\ client[c].pc = "throttled" /\ r \in Routes
    <2>1. BudgetTypes /\ Budget!Deferring /\ Budget!ToldBacked /\ quiet <= bucket[Budget!Service].blocked
      BY BudgetParts
    <2>2. client[c].pc = "throttled"
      BY DEF Budget!Defer
    <2> QED BY <2>1, <2>2 DEF BudgetTypes, Budget!Deferring
  <1>2. now \in Nat /\ now \in 0 .. MaxTime /\ quiet \in Nat
        /\ bucket \in [Budget!Buckets -> [used: Nat, ends: Nat, blocked: Nat]] /\ granted' = granted /\ now' = now
    BY <1>1, BucketFacts DEF BudgetTypes, Budget!Defer
  \* One bucket is closed for longer.
  <1>3. ASSUME NEW b \in Budget!Buckets, NEW d \in Delays, bucket' = [bucket EXCEPT ![b] = Budget!Blocked(b, d)]
        PROVE  /\ bucket' \in [Budget!Buckets -> [used: Nat, ends: Nat, blocked: Nat]]
               /\ \A x \in Budget!Buckets : bucket'[x].used = bucket[x].used /\ bucket'[x].ends = bucket[x].ends
                                     /\ bucket[x].blocked <= bucket'[x].blocked
               /\ now + d <= bucket'[b].blocked
               /\ bucket[Budget!Service].blocked <= bucket'[Budget!Service].blocked
               /\ quiet <= bucket'[Budget!Service].blocked
               /\ \A x \in Budget!Buckets : BucketFits(x)'
               /\ \A q \in Routes : told'[q] = told[q] =>
                    \/ told'[q] <= now'
                    \/ \E x \in {Budget!Service, q} :
                         \/ told'[q] <= bucket'[x].blocked
                         \/ bucket'[x].used >= Budget!LimitOf(x) /\ told'[q] <= bucket'[x].ends
    <2>1. d \in Nat /\ Budget!Service \in Budget!Buckets
      BY BucketFacts
    <2>2. /\ Budget!Blocked(b, d) \in [used: Nat, ends: Nat, blocked: Nat]
          /\ Budget!Blocked(b, d).used = bucket[b].used /\ Budget!Blocked(b, d).ends = bucket[b].ends
          /\ bucket[b].blocked <= Budget!Blocked(b, d).blocked /\ now + d <= Budget!Blocked(b, d).blocked
      BY <1>2, <2>1, BlockedFacts
    <2>3. /\ bucket' \in [Budget!Buckets -> [used: Nat, ends: Nat, blocked: Nat]] /\ bucket'[b] = Budget!Blocked(b, d)
          /\ \A x \in Budget!Buckets : x # b => bucket'[x] = bucket[x]
      BY <1>2, <1>3, <2>2
    <2>4. \A x \in Budget!Buckets : bucket[x].blocked \in Nat /\ bucket'[x].blocked \in Nat
      BY <1>2, <2>3
    <2>5. \A x \in Budget!Buckets : bucket'[x].used = bucket[x].used /\ bucket'[x].ends = bucket[x].ends
                             /\ bucket[x].blocked <= bucket'[x].blocked
      BY <2>2, <2>3, <2>4
    <2>6. quiet <= bucket'[Budget!Service].blocked
      <3>1. bucket[Budget!Service].blocked <= bucket'[Budget!Service].blocked
        BY <2>1, <2>5
      <3>2. quiet <= bucket[Budget!Service].blocked /\ quiet \in Nat
        BY <1>1, <1>2
      <3>3. bucket[Budget!Service].blocked \in Nat /\ bucket'[Budget!Service].blocked \in Nat
        BY <2>1, <2>4
      <3> QED BY <3>1, <3>2, <3>3
    <2>7. /\ \A x \in Budget!Buckets : BucketFits(x)'
          /\ \A q \in Routes : told'[q] = told[q] =>
               \/ told'[q] <= now'
               \/ \E x \in {Budget!Service, q} :
                    \/ told'[q] <= bucket'[x].blocked
                    \/ bucket'[x].used >= Budget!LimitOf(x) /\ told'[q] <= bucket'[x].ends
      BY <1>2, <2>3, <2>5, BucketsFrame
    <2> QED BY <2>1, <2>2, <2>3, <2>5, <2>6, <2>7
  <1>4. PICK d \in Delays :
          \/ /\ client[c].todo = <<<<d, Budget!Service>>, <<d, r>>>>
             /\ client[c].due <= now + d
          \/ /\ client[c].todo = <<<<d, r>>>>
             /\ client[c].due <= bucket[Budget!Service].blocked
    BY <1>1 DEF Budget!Deferring
  <1>5. CASE client[c].todo = <<<<d, Budget!Service>>, <<d, r>>>> /\ client[c].due <= now + d
    <2> SUFFICES ASSUME NEW todo, todo = <<<<d, r>>>> PROVE Budget!BudgetInv'
      OBVIOUS
    <2> DEFINE s == [client[c] EXCEPT !.todo = todo]
    <2>1. /\ Head(client[c].todo)[2] = Budget!Service /\ Head(client[c].todo)[1] = d
          /\ Tail(client[c].todo) = todo /\ Len(client[c].todo) # 1
      BY <1>5
    <2>2. /\ bucket' = [bucket EXCEPT ![Budget!Service] = Budget!Blocked(Budget!Service, d)]
          /\ client' = [client EXCEPT ![c] = s] /\ UNCHANGED <<told, quiet>>
      <3>1. Tail(client[c].todo) = todo /\ Len(client[c].todo) # 1
        BY <2>1
      <3>2. bucket' = [bucket EXCEPT ![Budget!Service] = Budget!Blocked(Budget!Service, d)] /\ UNCHANGED <<told, quiet>>
        BY <2>1 DEF Budget!Defer
      <3>3. ASSUME NEW last \in BOOLEAN, last = (Len(client[c].todo) = 1)
            PROVE  client' = [client EXCEPT ![c] = IF last THEN Budget!Idle
                                ELSE [client[c] EXCEPT !.todo = Tail(client[c].todo)]]
        BY <3>3, Zenon DEF Budget!Defer
      <3>4. client' = [client EXCEPT ![c] = [client[c] EXCEPT !.todo = Tail(client[c].todo)]]
        BY <3>1, <3>3
      <3> QED BY <3>1, <3>2, <3>4
    <2>3. todo \in Seq(Delays \X Budget!Buckets)
      BY <1>1, BucketFacts
    <2>4. s \in ClientRecord /\ s.route = r /\ s.due = client[c].due /\ s.todo = <<<<d, r>>>> /\ s.due \in Nat
      BY <1>1, <2>3 DEF ClientRecord
    <2> HIDE DEF s
    <2>5. Budget!Service \in Budget!Buckets /\ d \in Nat
      BY BucketFacts
    <2>6. /\ bucket' \in [Budget!Buckets -> [used: Nat, ends: Nat, blocked: Nat]]
          /\ bucket[Budget!Service].blocked <= bucket'[Budget!Service].blocked /\ now + d <= bucket'[Budget!Service].blocked
          /\ quiet' <= bucket'[Budget!Service].blocked
          /\ \A x \in Budget!Buckets : BucketFits(x)'
      BY <1>3, <2>2, <2>5
    <2>7. Budget!ToldBacked'
      BY <1>3, <2>2, <2>5 DEF Budget!ToldBacked
    <2>8. s.due <= bucket'[Budget!Service].blocked
      <3>1. bucket'[Budget!Service].blocked \in Nat
        BY <2>5, <2>6
      <3> QED BY <1>2, <1>5, <2>4, <2>5, <2>6, <3>1
    <2>9. client' \in [Clients -> ClientRecord] /\ Budget!Deferring'
      BY <1>1, <1>2, <2>2, <2>4, <2>6, <2>8, ClientStep
    <2>10. BudgetTypes'
      BY <1>1, <1>2, <2>2, <2>6, <2>9 DEF BudgetTypes
    <2> QED BY <2>6, <2>7, <2>9, <2>10, BudgetPartsNext
  <1>6. CASE client[c].todo = <<<<d, r>>>> /\ client[c].due <= bucket[Budget!Service].blocked
    <2>1. /\ Head(client[c].todo)[2] = r /\ Head(client[c].todo)[1] = d /\ Len(client[c].todo) = 1
      BY <1>6
    <2>2. /\ bucket' = [bucket EXCEPT ![r] = Budget!Blocked(r, d)]
          /\ client' = [client EXCEPT ![c] = Budget!Idle]
          /\ told' = [told EXCEPT ![r] = Budget!Max({told[r], Budget!RetryAt(r, bucket'[r])})]
          /\ quiet' = Budget!Max({quiet, client[c].due})
      BY <2>1 DEF Budget!Defer
    <2>3. r \in Budget!Buckets /\ Budget!Service \in Budget!Buckets
      BY <1>1, BucketFacts
    <2>4. /\ bucket' \in [Budget!Buckets -> [used: Nat, ends: Nat, blocked: Nat]]
          /\ bucket[Budget!Service].blocked <= bucket'[Budget!Service].blocked /\ quiet <= bucket'[Budget!Service].blocked
          /\ \A x \in Budget!Buckets : BucketFits(x)'
      BY <1>3, <2>2, <2>3
    <2>5. quiet' \in Nat /\ quiet' <= bucket'[Budget!Service].blocked
      <3>1. client[c].due \in Nat
        BY <1>1 DEF ClientRecord
      <3>2. quiet' \in {quiet, client[c].due}
        <4>1. quiet \in Int /\ client[c].due \in Int
          BY <1>2, <3>1
        <4>2. Budget!Max({quiet, client[c].due}) \in {quiet, client[c].due}
          BY <4>1, LaterOf, Zenon
        <4> QED BY <2>2, <4>2
      <3>3. bucket'[Budget!Service].blocked \in Nat /\ bucket[Budget!Service].blocked \in Nat
        BY <1>2, <2>3, <2>4
      <3> QED BY <1>2, <1>6, <2>4, <3>1, <3>2, <3>3
    <2> SUFFICES ASSUME NEW z, z = Budget!RetryAt(r, bucket'[r]) PROVE Budget!BudgetInv'
      OBVIOUS
    <2>6. /\ z \in Nat
          /\ \/ z <= now
             \/ z <= bucket'[r].blocked
             \/ bucket'[r].used >= Budget!LimitOf(r) /\ z <= bucket'[r].ends
      <3>1. bucket'[r] \in [used: Nat, ends: Nat, blocked: Nat]
        BY <2>3, <2>4
      <3> QED BY <1>2, <2>3, <3>1, RetryAtBacked
    <2>7. told \in [Routes -> Nat] /\ told[r] \in Nat
      BY <1>1 DEF BudgetTypes
    <2>8. /\ told' \in [Routes -> Nat] /\ \A q \in Routes : q # r => told'[q] = told[q]
          /\ told'[r] = told[r] \/ told'[r] = z
      <3> SUFFICES ASSUME NEW m, m = Budget!Max({told[r], z}), told' = [told EXCEPT ![r] = m]
                   PROVE  /\ told' \in [Routes -> Nat] /\ \A q \in Routes : q # r => told'[q] = told[q]
                          /\ told'[r] = told[r] \/ told'[r] = z
        BY <2>2
      <3>1. m \in {told[r], z}
        <4>1. told[r] \in Int /\ z \in Int
          BY <2>6, <2>7
        <4> QED BY <4>1, LaterOf, Zenon
      <3> QED BY <1>1, <2>6, <2>7, <3>1
    <2>9. Budget!ToldBacked'
      <3> SUFFICES ASSUME NEW q \in Routes
                   PROVE  \/ told'[q] <= now'
                          \/ \E x \in {Budget!Service, q} :
                               \/ told'[q] <= bucket'[x].blocked
                               \/ bucket'[x].used >= Budget!LimitOf(x) /\ told'[q] <= bucket'[x].ends
        BY DEF Budget!ToldBacked
      <3>1. CASE told'[q] = told[q]
        BY <1>3, <2>2, <2>3, <3>1
      <3>2. CASE q = r /\ told'[q] = z
        BY <1>2, <2>6, <3>2
      <3> QED BY <2>8, <3>1, <3>2
    <2>10. client' \in [Clients -> ClientRecord] /\ Budget!Deferring'
      <3>1. Budget!Idle \in ClientRecord /\ Budget!Idle.pc = "idle"
        BY BucketFacts DEF Budget!Idle, ClientRecord
      <3> QED BY <1>2, <2>2, <2>4, <3>1, ClientStep
    <2>11. BudgetTypes'
      BY <1>1, <1>2, <2>4, <2>5, <2>8, <2>10 DEF BudgetTypes
    <2> QED BY <2>4, <2>5, <2>9, <2>10, <2>11, BudgetPartsNext
  <1> QED BY <1>4, <1>5, <1>6

LEMMA BudgetStep ==
  ASSUME Budget!BudgetAssumption, Budget!BudgetInv, [Budget!Next]_(Budget!vars)
  PROVE  Budget!BudgetInv'
  <1>1. CASE UNCHANGED Budget!vars
    <2>1. UNCHANGED <<now, bucket, client, granted, told, quiet>> /\ BudgetTypes /\ Budget!Deferring
      BY <1>1, BudgetParts DEF Budget!vars
    <2>2. now \in Nat
      BY <2>1, BucketFacts DEF BudgetTypes
    <2>3. Budget!Deferring'
      BY <2>1 DEF Budget!Deferring
    <2> QED BY <2>1, <2>2, <2>3, QuietStep DEF BudgetTypes
  <1>2. ASSUME NEW c \in Clients, NEW r \in Routes,
               Budget!Acquire(c, r) \/ Budget!AcquireUncertain(c, r) \/ Budget!Denied(c, r)
        PROVE  Budget!BudgetInv'
    BY <1>2, ChargeKeeps, DeniedKeeps
  <1>3. ASSUME NEW c \in Clients, Budget!Respond(c) \/ Budget!Crash(c) \/ \E d \in Delays : Budget!Throttle(c, d)
        PROVE  Budget!BudgetInv'
    BY <1>3, AnswerKeeps
  <1> QED BY <1>1, <1>2, <1>3, TickKeeps, DeferKeeps DEF Budget!Next

\* However reads, denials, backoffs and crashes of the collectors interleave.
THEOREM BudgetInvariant == Budget!Spec => []Budget!BudgetInv
  <1>1. Budget!Init => Budget!BudgetInv
    BY RowsAssumption, BudgetInit
  <1>2. Budget!BudgetInv /\ [Budget!Next]_(Budget!vars) => Budget!BudgetInv'
    BY RowsAssumption, BudgetStep
  <1> QED BY <1>1, <1>2, PTL DEF Budget!Spec

\* No grant is forgotten, and no burst is longer than two windows' requests, for
\* any number of collectors, routes, limits and windows (acquire_many, _budget).
THEOREM GrantsAreBounded == Budget!Spec => []GrantsBounded
  <1>1. Budget!BudgetInv => GrantsBounded
    BY DEF Budget!BudgetInv, GrantsBounded
  <1> QED BY <1>1, BudgetInvariant, PTL

\* A request is granted by an acquisition, when both buckets are open.
LEMMA GrantAdmits ==
  ASSUME Budget!BudgetAssumption, Budget!BudgetInv, [Budget!Next]_(Budget!vars), NEW r \in Routes, Budget!Granted(r)
  PROVE  Budget!Admitted(r)
  <1>1. PICK c \in Clients : client[c].pc = "idle" /\ client'[c].pc = "sending" /\ client'[c].route = r
    BY DEF Budget!Granted
  <1>2. client \in [Clients -> ClientRecord]
    BY BudgetParts DEF BudgetTypes
  <1>3. client' # client
    BY <1>1
  <1>4. ASSUME NEW x \in Clients, NEW q \in Routes, Budget!Acquire(x, q) PROVE Budget!Admitted(r)
    <2>1. x = c /\ client'[c].route = q
      BY <1>1, <1>2, <1>4 DEF Budget!Acquire
    <2> QED BY <1>1, <1>4, <2>1 DEF Budget!Acquire
  <1>5. ASSUME NEW x \in Clients, Budget!Respond(x) \/ Budget!Crash(x) PROVE FALSE
    <2>1. client'[c] = client[c] \/ client'[c] = Budget!Idle
      BY <1>2, <1>5 DEF Budget!Respond, Budget!Crash
    <2> QED BY <1>1, <2>1 DEF Budget!Idle
  <1>6. ASSUME NEW x \in Clients, NEW d \in Delays, Budget!Throttle(x, d) PROVE FALSE
    <2>1. x # c /\ client[x].pc = "sending"
      BY <1>1, <1>6 DEF Budget!Throttle
    <2>2. client'[c] = client[c]
      BY <1>2, <1>6, <2>1 DEF Budget!Throttle
    <2> QED BY <1>1, <2>2
  <1>7. ASSUME NEW x \in Clients, Budget!Defer(x) PROVE FALSE
    <2>1. x # c
      BY <1>1, <1>7 DEF Budget!Defer
    <2>2. client'[c] = client[c]
      BY <1>2, <1>7, <2>1 DEF Budget!Defer
    <2> QED BY <1>1, <2>2
  <1> QED BY <1>3, <1>4, <1>5, <1>6, <1>7
         DEF Budget!Next, Budget!vars, Budget!AcquireUncertain, Budget!Denied, Budget!Tick

\* A request is granted neither before the backoff that a throttled read has
\* announced is over nor before a time a caller was told (defer, retry_at).
THEOREM PromisesAreKept == Budget!Spec => PromisesKept
  <1>1. Budget!BudgetInv /\ [Budget!Next]_(Budget!vars) => \A r \in Routes : Budget!Granted(r) => now >= quiet /\ now >= told[r]
    <2> SUFFICES ASSUME Budget!BudgetInv, [Budget!Next]_(Budget!vars), NEW r \in Routes, Budget!Granted(r)
                 PROVE  now >= quiet /\ now >= told[r]
      OBVIOUS
    <2>1. Budget!Open(Budget!Service) /\ Budget!Open(r)
      BY RowsAssumption, GrantAdmits DEF Budget!Admitted
    <2>2. BudgetTypes /\ Budget!ToldBacked /\ quiet <= bucket[Budget!Service].blocked
      BY BudgetParts
    <2>3. /\ now \in Nat /\ quiet \in Nat /\ told[r] \in Nat
          /\ \A b \in {Budget!Service, r} : bucket[b] \in [used: Nat, ends: Nat, blocked: Nat] /\ Budget!LimitOf(b) \in Nat
      BY <2>2, RowsAssumption, BucketFacts DEF BudgetTypes
    <2>4. now >= quiet
      BY <2>1, <2>2, <2>3 DEF Budget!Open
    <2>5. CASE told[r] <= now
      BY <2>3, <2>4, <2>5
    <2>6. ASSUME NEW b \in {Budget!Service, r},
                 \/ told[r] <= bucket[b].blocked
                 \/ bucket[b].used >= Budget!LimitOf(b) /\ told[r] <= bucket[b].ends
          PROVE  told[r] <= now
      <3>1. Budget!Open(b)
        BY <2>1
      <3>2. bucket[b].used \in Nat /\ bucket[b].ends \in Nat /\ bucket[b].blocked \in Nat /\ Budget!LimitOf(b) \in Nat
        BY <2>3
      <3> QED BY <2>3, <2>6, <3>1, <3>2 DEF Budget!Open
    <2> QED BY <2>2, <2>3, <2>4, <2>5, <2>6 DEF Budget!ToldBacked
  <1>2. Budget!BudgetInv /\ [Budget!Next]_(Budget!vars) => [\A r \in Routes : Budget!Granted(r) => now >= quiet]_(Budget!vars)
    BY <1>1
  <1>3. Budget!BudgetInv /\ [Budget!Next]_(Budget!vars) => [\A r \in Routes : Budget!Granted(r) => now >= told[r]]_(Budget!vars)
    BY <1>1
  <1> QED BY <1>2, <1>3, BudgetInvariant, PTL
         DEF Budget!Spec, PromisesKept, Budget!PromisesKept, Budget!CooldownHonoured,
         Budget!RetryAtHonest
=============================================================================
