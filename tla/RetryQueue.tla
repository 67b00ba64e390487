----------------------------- MODULE RetryQueue -----------------------------
(***************************************************************************)
(* Postponed refreshes: the rows of src/triage/store/retries.py that an    *)
(* operator sees and drains (bi-triage retries), and the deferred_retry    *)
(* work of the SQL store they stand for.                                   *)
(*                                                                         *)
(* Attempt 0 of a source is its triage; a throttled attempt leaves work    *)
(* for the next one (MonitoringStore and SqlKernel model how), and its     *)
(* finalization projects that work into the row of its signature.  Rows    *)
(* are written by load and compare-and-swap, so a write is one step or     *)
(* none.  A drain takes no claims.  Due times are left out: a row or a     *)
(* work that is not due yet is one nobody reads yet.                       *)
(***************************************************************************)
EXTENDS Integers, FiniteSets

CONSTANTS
  Sources,        \* failed runs
  Signatures,     \* failure signatures
  SignatureOf,    \* source -> signature
  MaxAttempts,    \* retries.MAX_ATTEMPTS
  Processes       \* drains, and executions of the controller

RetryAssumption ==
  /\ SignatureOf \in [Sources -> Signatures]
  /\ MaxAttempts \in Nat \ {0}
  /\ IsFiniteSet(Signatures)

Works == Sources \X (0 .. MaxAttempts)
Retries == Sources \X (1 .. MaxAttempts)
NoWork == <<>>

Signature(w) == SignatureOf[w[1]]
Successor(w) == <<w[1], w[2] + 1>>

VARIABLES
  revoked,    \* the policy the sources were admitted under has changed
  row,        \* signature -> [status, attempts, source, work]
  work,       \* work -> status
  fate,       \* work -> what became of its request
  posts,      \* work -> requests sent for it
  proc        \* process -> [pc, work, drain, todo, mine, left]

vars == <<revoked, row, work, fate, posts, proc>>

Idle == [pc |-> "idle", work |-> NoWork, drain |-> FALSE, todo |-> {}, mine |-> {}, left |-> 0]

Rows == [status: {"none", "pending", "done", "exhausted"}, attempts: 0 .. MaxAttempts,
         source: Sources \cup {0}, work: Retries \cup {NoWork}]

TypeOK ==
  /\ revoked \in BOOLEAN
  /\ row \in [Signatures -> Rows]
  /\ work \in [Works -> {"absent", "queued", "leased", "completed"}]
  /\ fate \in [Works -> {"none", "settled", "rejected"}]
  /\ posts \in [Works -> Nat]
  /\ proc \in [Processes ->
       [pc: {"idle", "admitting", "claiming", "running", "projecting", "recording", "closing"},
        work: Works \cup {NoWork}, drain: BOOLEAN, todo: SUBSET Rows,
        mine: SUBSET Retries, left: 0 .. Cardinality(Signatures)]]

Init ==
  /\ revoked = FALSE
  /\ row = [g \in Signatures |-> [status |-> "none", attempts |-> 0, source |-> 0, work |-> NoWork]]
  /\ work = [w \in Works |-> IF w[2] = 0 THEN "queued" ELSE "absent"]
  /\ fate = [w \in Works |-> "none"]
  /\ posts = [w \in Works |-> 0]
  /\ proc = [p \in Processes |-> Idle]

At(p, pc) == proc[p].pc = pc
WorkOf(p) == proc[p].work

\* After its row is written a drain goes on, an execution of the controller ends.
Continue(p) ==
  proc' = [proc EXCEPT ![p] =
    IF @.drain THEN [@ EXCEPT !.pc = "claiming", !.work = NoWork] ELSE Idle]

ChangePolicy ==
  /\ ~revoked
  /\ revoked' = TRUE
  /\ UNCHANGED <<row, work, fate, posts, proc>>

-----------------------------------------------------------------------------
(* The rows: defer, record_linked_retry, complete. *)

Deferred(r, s) ==
  IF r.attempts + 1 > MaxAttempts THEN [r EXCEPT !.status = "exhausted"]
  ELSE [status |-> "pending", attempts |-> r.attempts + 1, source |-> s, work |-> NoWork]

\* A slip: only a newer attempt is kept.
LinkedAgain(r, w) ==
  IF r.attempts > w[2] THEN r
  ELSE [status |-> "pending", attempts |-> w[2], source |-> w[1], work |-> w]

Linked(r, w) ==
  IF r.work = w \/ r.attempts > w[2] THEN r
  ELSE [status |-> "pending", attempts |-> w[2], source |-> w[1], work |-> w]

Completed(r) == IF r.status = "none" THEN r ELSE [r EXCEPT !.status = "done"]

-----------------------------------------------------------------------------
(* Executions. *)

\* The controller claims triage work and retries alike.
ControllerClaims(p, w) ==
  /\ At(p, "idle")
  /\ work[w] = "queued"
  /\ work' = [work EXCEPT ![w] = "leased"]
  /\ proc' = [proc EXCEPT ![p].pc = "running", ![p].work = w]
  /\ UNCHANGED <<revoked, row, fate, posts>>

\* defer_refresh_retry: the row is written, but the store refuses work that no
\* rejection created, and the run ends with its lease; when the attempts are
\* used up nothing is scheduled and the run ends as usual.
AgentDefers(p) ==
  LET w == WorkOf(p)
      g == Signature(w)
      r == Deferred(row[g], w[1]) IN
  /\ At(p, "running") /\ w[2] = 0
  /\ ~revoked
  /\ row' = [row EXCEPT ![g] = r]
  /\ work' = [work EXCEPT ![w] = IF r.status = "pending" THEN "queued" ELSE "completed"]
  /\ fate' = [fate EXCEPT ![w] = IF r.status = "pending" THEN @ ELSE "settled"]
  /\ proc' = [proc EXCEPT ![p] = Idle]
  /\ UNCHANGED <<revoked, posts>>

\* The request and its finalization.  A throttled request leaves a successor
\* while the policy admits it and attempts remain.
Execute(p, throttled) ==
  LET w == WorkOf(p)
      retry == throttled /\ w[2] < MaxAttempts /\ ~revoked IN
  /\ At(p, "running")
  /\ posts' = [posts EXCEPT ![w] = @ + 1]
  /\ fate' = [fate EXCEPT ![w] = IF throttled THEN "rejected" ELSE "settled"]
  /\ work' = [v \in Works |->
       IF v = w THEN "completed" ELSE IF retry /\ v = Successor(w) THEN "queued" ELSE work[v]]
  /\ IF throttled
     THEN proc' = [proc EXCEPT ![p].pc = "projecting"]
     ELSE IF proc[p].drain THEN proc' = [proc EXCEPT ![p].pc = "closing"]
     ELSE proc' = [proc EXCEPT ![p] = Idle]
  /\ UNCHANGED <<revoked, row>>

\* Nothing was requested: work that is refused ends here.
Refuse(p) ==
  /\ At(p, "running")
  /\ work' = [work EXCEPT ![WorkOf(p)] = "completed"]
  /\ fate' = [fate EXCEPT ![WorkOf(p)] = "settled"]
  /\ IF proc[p].drain THEN proc' = [proc EXCEPT ![p].pc = "closing"]
     ELSE proc' = [proc EXCEPT ![p] = Idle]
  /\ UNCHANGED <<revoked, row, posts>>

\* The process stops, or a store refuses it; its lease runs out.
Crash(p) ==
  /\ ~At(p, "idle")
  /\ work' = IF At(p, "running") THEN [work EXCEPT ![WorkOf(p)] = "queued"] ELSE work
  /\ proc' = [proc EXCEPT ![p] = Idle]
  /\ UNCHANGED <<revoked, row, fate, posts>>

-----------------------------------------------------------------------------
(* _project_rejected_retry: two steps, for the work it reads may move on. *)

HasSuccessor(w) == w[2] < MaxAttempts /\ work[Successor(w)] # "absent"

ReadSuccessor(p) ==
  LET w == WorkOf(p) IN
  /\ At(p, "projecting")
  /\ IF ~HasSuccessor(w)
     THEN /\ row' = [row EXCEPT ![Signature(w)] = Completed(@)]
          /\ Continue(p)
     ELSE /\ IF work[Successor(w)] = "completed" THEN Continue(p)
             ELSE proc' = [proc EXCEPT ![p].pc = "recording"]
          /\ UNCHANGED row
  /\ UNCHANGED <<revoked, work, fate, posts>>

RecordSuccessor(p) ==
  LET w == WorkOf(p) IN
  /\ At(p, "recording")
  /\ row' = [row EXCEPT ![Signature(w)] = Linked(@, Successor(w))]
  /\ Continue(p)
  /\ UNCHANGED <<revoked, work, fate, posts>>

\* The end of _execute_deferred_work.
CloseRow(p) ==
  /\ At(p, "closing")
  /\ row' = [row EXCEPT ![Signature(WorkOf(p))] = Completed(@)]
  /\ Continue(p)
  /\ UNCHANGED <<revoked, work, fate, posts>>

-----------------------------------------------------------------------------
(* _drain_due_retries *)

DrainDue(p) ==
  LET due == {row[g] : g \in {x \in Signatures : row[x].status = "pending"}} IN
  /\ At(p, "idle")
  /\ due # {}
  /\ proc' = [proc EXCEPT ![p] = [Idle EXCEPT !.pc = "admitting", !.drain = TRUE, !.todo = due]]
  /\ UNCHANGED <<revoked, row, work, fate, posts>>

\* The policy changed since the row was written: it is closed unexecuted.
DropRow(p, r) ==
  /\ At(p, "admitting") /\ r \in proc[p].todo
  /\ revoked
  /\ row' = [row EXCEPT ![SignatureOf[r.source]] = Completed(@)]
  /\ proc' = [proc EXCEPT ![p].todo = @ \ {r}]
  /\ UNCHANGED <<revoked, work, fate, posts>>

\* A row without work: the store refuses to create it, and the drain ends.
DrainFails(p, r) ==
  /\ At(p, "admitting") /\ r \in proc[p].todo
  /\ ~revoked /\ r.work = NoWork
  /\ proc' = [proc EXCEPT ![p] = Idle]
  /\ UNCHANGED <<revoked, row, work, fate, posts>>

\* Work that has ended elsewhere is not run again: its row is closed, or shows
\* its successor.
ReconcileRow(p, r) ==
  /\ At(p, "admitting") /\ r \in proc[p].todo
  /\ ~revoked /\ r.work # NoWork /\ work[r.work] = "completed"
  /\ IF fate[r.work] = "rejected" /\ HasSuccessor(r.work)
     THEN row' = IF work[Successor(r.work)] = "completed" THEN row
                 ELSE [row EXCEPT ![SignatureOf[r.source]] = Linked(@, Successor(r.work))]
     ELSE row' = [row EXCEPT ![SignatureOf[r.source]] = Completed(@)]
  /\ proc' = [proc EXCEPT ![p].todo = @ \ {r}]
  /\ UNCHANGED <<revoked, work, fate, posts>>

AdmitRow(p, r) ==
  /\ At(p, "admitting") /\ r \in proc[p].todo
  /\ ~revoked /\ r.work # NoWork /\ work[r.work] # "completed"
  /\ proc' = [proc EXCEPT ![p].todo = @ \ {r}, ![p].mine = @ \cup {r.work}, ![p].left = @ + 1]
  /\ UNCHANGED <<revoked, row, work, fate, posts>>

StartClaims(p) ==
  /\ At(p, "admitting") /\ proc[p].todo = {}
  /\ proc' = [proc EXCEPT ![p].pc = "claiming"]
  /\ UNCHANGED <<revoked, row, work, fate, posts>>

\* A slip: the admitted row is executed without a claim of its work.
Unclaimed(p, w) == w \in proc[p].mine

Claimable(p, w) == work[w] = "queued"

\* Any retry may be selected: one that no admitted row stands for is an error,
\* and its lease is left to run out.
ClaimRetry(p, w) ==
  /\ At(p, "claiming") /\ proc[p].left > 0
  /\ Claimable(p, w)
  /\ IF w \in proc[p].mine
     THEN /\ work' = [work EXCEPT ![w] = "leased"]
          /\ proc' = [proc EXCEPT ![p].pc = "running", ![p].work = w, ![p].left = @ - 1]
     ELSE /\ proc' = [proc EXCEPT ![p] = Idle]
          /\ UNCHANGED work
  /\ UNCHANGED <<revoked, row, fate, posts>>

EndDrain(p) ==
  /\ At(p, "claiming")
  /\ proc[p].left = 0 \/ \A w \in Retries : ~Claimable(p, w)
  /\ proc' = [proc EXCEPT ![p] = Idle]
  /\ UNCHANGED <<revoked, row, work, fate, posts>>

DrainStep(p) ==
  \/ \E r \in proc[p].todo :
       DropRow(p, r) \/ DrainFails(p, r) \/ ReconcileRow(p, r) \/ AdmitRow(p, r)
  \/ StartClaims(p)
  \/ \E w \in Retries : ClaimRetry(p, w)
  \/ EndDrain(p)

RunStep(p) ==
  \/ AgentDefers(p) \/ Refuse(p)
  \/ \E throttled \in BOOLEAN : Execute(p, throttled)
  \/ ReadSuccessor(p) \/ RecordSuccessor(p) \/ CloseRow(p)

Next ==
  \/ ChangePolicy
  \/ \E p \in Processes :
       \/ \E w \in Works : ControllerClaims(p, w)
       \/ DrainDue(p) \/ DrainStep(p) \/ RunStep(p) \/ Crash(p)

Spec == Init /\ [][Next]_vars

\* Executions and drains that have started go on, drains are started again, and
\* from some time on nothing crashes.
FairSpec ==
  /\ Spec
  /\ \A p \in Processes : WF_vars(DrainDue(p) \/ DrainStep(p) \/ RunStep(p))
  /\ <>[][\A p \in Processes : ~Crash(p)]_vars

-----------------------------------------------------------------------------
(* Safety. *)

\* However many operators drain, and although the controller executes the same
\* work, an attempt sends one request (_drain_due_retries, claim_work).
PostedOnce == \A w \in Works : posts[w] <= 1

\* A pending row with work stands for work of its signature that exists, with
\* that work's number of attempts: a drain never executes more or less than
\* the row shows (_project_rejected_retry, record_linked_retry).
RowsAreBacked == \A g \in Signatures :
  row[g].work # NoWork =>
    /\ work[row[g].work] # "absent"
    /\ Signature(row[g].work) = g
    /\ row[g].attempts = row[g].work[2]

\* A projection that arrives late never puts an earlier attempt in the place
\* of a later one (record_linked_retry).
NeverBack == [][\A g \in Signatures :
  row'[g].attempts >= row[g].attempts]_vars

\* A row closed for a retry never shows that retry as pending again, whoever
\* replays its projection (record_linked_retry, complete).
ClosedStaysClosed == [][\A g \in Signatures :
  row[g].status = "done" /\ row[g].work # NoWork /\ row'[g].work = row[g].work
    => row'[g].status # "pending"]_vars

-----------------------------------------------------------------------------
(* Liveness. *)

\* A retry the agent postponed is picked up by a later drain: its row is closed
\* or stands for work (defer_refresh_retry, _drain_due_retries).
DeferralPickedUp == \A g \in Signatures :
  row[g].status = "pending" ~> (row[g].work # NoWork \/ row[g].status = "done" \/ revoked)

\* One request per attempt, and no row without the work it stands for.
RetriesSafe == TypeOK /\ PostedOnce /\ RowsAreBacked

\* A projection that arrives late takes nothing back: neither the row of a
\* later attempt nor a row that was closed (record_linked_retry).
LateProjectionsHarmless == NeverBack /\ ClosedStaysClosed

-----------------------------------------------------------------------------
(* Why they hold: the inductive invariant. *)

\* A row, or a drain's copy of one, describes the work it stands for.
Describes(r) ==
  /\ r.status = "pending" => r.source \in Sources
  /\ r.work # NoWork =>
       r.source = r.work[1] /\ r.attempts = r.work[2] /\ work[r.work] # "absent"

RowsDescribe ==
  /\ \A g \in Signatures :
       /\ Describes(row[g])
       /\ row[g].status = "pending" \/ row[g].work # NoWork => SignatureOf[row[g].source] = g
  /\ \A p \in Processes : \A r \in proc[p].todo : r.status = "pending" /\ Describes(r)

\* Each row is admitted once, so a drain admits no more than there are.
DrainsBounded == \A p \in Processes :
  /\ IsFiniteSet(proc[p].todo)
  /\ proc[p].left + Cardinality(proc[p].todo) <= Cardinality(Signatures)

\* Work that runs is leased, to one process.
Executors ==
  /\ \A p \in Processes : At(p, "running") => work[WorkOf(p)] = "leased"
  /\ \A p, q \in Processes : At(p, "running") /\ At(q, "running") /\ WorkOf(p) = WorkOf(q) => p = q

\* A process that has a row to write knows for what work.
Projections == \A p \in Processes :
  /\ proc[p].pc \in {"running", "projecting", "recording", "closing"} => WorkOf(p) \in Works
  /\ At(p, "recording") => HasSuccessor(WorkOf(p))

\* A retry exists only after the attempt before it ended, and only work that
\* has ended has sent its request.
Chained ==
  /\ \A w \in Retries : work[w] # "absent" => work[<<w[1], w[2] - 1>>] = "completed"
  /\ \A w \in Works : work[w] # "completed" => posts[w] = 0

RetryInv ==
  /\ TypeOK /\ RowsDescribe /\ DrainsBounded /\ Executors /\ Projections /\ Chained
  /\ PostedOnce
=============================================================================
