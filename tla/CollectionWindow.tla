-------------------------- MODULE CollectionWindow --------------------------
(***************************************************************************)
(* Polling of one target's run history (src/triage/monitoring/polling.py,  *)
(* Collector), the durable acceptance of its pages (engine.py,             *)
(* record_rest_page) and the controller's decision about each page and     *)
(* about the window they form (_reconcile_state, _publish_rest_window; in  *)
(* the SQL adapter sql_store.py, _sql_reconcile_state, and the kernel's    *)
(* frontier procedures).                                                   *)
(*                                                                         *)
(* Every store call is one transaction.  A poll is claimed by one of       *)
(* several collectors, reads the source page by page from the shared       *)
(* poll_progress and hands every page to the controller.  The pages of one *)
(* poll form one window, held behind one validation frontier; page i has   *)
(* frontier revision i.  A page's evidence is bound to the revision of     *)
(* poll_progress it wrote, so it is stale once another page is accepted.   *)
(*                                                                         *)
(* Time is counted in polling ticks; a run is named by the tick it ended   *)
(* in.  The source answers a continuation from the listing its first page  *)
(* was taken from.                                                         *)
(***************************************************************************)
EXTENDS Integers, Sequences, FiniteSets, FiniteSetsExt

CONSTANTS
  Collectors,
  Adapter,         \* "memory" or "sql": which store decides about pages
  PageSize,        \* runs on one page of the source
  Retained,        \* retained_completed_limit: completed runs the source keeps
  Lookback,        \* lookback_seconds
  PollSeconds,     \* the target's cadence
  MaxTime,         \* bound: the last tick
  Finishes,        \* the ticks in which a run of the target completes
  MaxPolicy,       \* bound: monitoring policies
  MaxFaults,       \* bound: failed reads, bad rows, crashes and lapsed leases
  Nobody

WindowAssumption ==
  /\ Adapter \in {"memory", "sql"} /\ Nobody \notin Collectors
  /\ PageSize \in Nat \ {0} /\ Retained \in Nat \ {0} /\ PollSeconds \in Nat \ {0}
  /\ Finishes \subseteq Nat /\ Lookback \in Nat /\ MaxTime \in Nat /\ MaxPolicy \in Nat \ {0} /\ MaxFaults \in Nat

VARIABLES
  now,
  runs,         \* the runs the source has completed
  policy,       \* DeploymentControl.revision
  admitted,     \* MonitoringTarget.policy_revision
  schedule,     \* PollSchedule: [policy, next], policy 0 when absent
  poll,         \* the poll works, in the order they were created
  progress,     \* PollProgress: [rev, window, cursor]
  pages,        \* poll -> its accepted pages
  rows,         \* poll -> the runs staged under its window
  ambiguous,    \* polls whose rows do not establish one alias each
  status,       \* poll -> "open", "validated" or "rejected"
  coverage,     \* RestCheckpoint: [from, through], through -1 when absent
  ingested,     \* runs admitted as source authority
  col,          \* collector -> its state
  faults

sourceVars == <<now, runs>>
policyVars == <<policy, admitted>>
intakeVars == <<progress, pages, rows, ambiguous>>
publishedVars == <<status, coverage, ingested>>
vars == <<sourceVars, policyVars, schedule, poll, intakeVars, publishedVars, col, faults>>

Times == 0 .. MaxTime
Polls == DOMAIN poll
Uncovered == -1

\* _PollCursor: absent, at the first page, or after some pages of a listing.
NoCursor == [kind |-> "none", rest |-> {}, seen |-> 0, oldest |-> MaxTime + 1, incomplete |-> FALSE]
StartCursor == [NoCursor EXCEPT !.kind = "start"]

Window == [start: Times, end: Times]
Cursor == [kind: {"none", "start", "next"}, rest: SUBSET Times, seen: 0 .. MaxTime,
           oldest: 0 .. MaxTime + 1, incomplete: BOOLEAN]
Page == [policy: 1 .. MaxPolicy, rev: Nat, last: BOOLEAN, complete: BOOLEAN,
         exhausted: BOOLEAN, decision: {"pending", "held", "published", "rejected"},
         work: {"queued", "waiting", "completed"}]
Steps == {"idle", "claimed", "begun", "framed", "read", "yield"}
Poll == [slot: 0 .. MaxTime + PollSeconds, due: 0 .. MaxTime + PollSeconds, policy: 1 .. MaxPolicy,
         state: {"queued", "leased", "completed", "dispositioned"}, owner: Collectors \cup {Nobody}]
Reading == [rows: SUBSET Times, cursor: Cursor, complete: BOOLEAN, exhausted: BOOLEAN, alias: BOOLEAN]
Session == [pc: Steps, poll: Nat, rev: Nat, cursor: Cursor, window: Window, page: Reading]

NoPage == [rows |-> {}, cursor |-> NoCursor, complete |-> FALSE, exhausted |-> FALSE, alias |-> FALSE]
IdleCollector == [pc |-> "idle", poll |-> 0, rev |-> 0, cursor |-> NoCursor,
                  window |-> [start |-> 0, end |-> 0], page |-> NoPage]
NewPoll(slot, due, pol) ==
  [slot |-> slot, due |-> due, policy |-> pol, state |-> "queued", owner |-> Nobody]

TypeOK ==
  /\ now \in Times /\ runs \subseteq Times /\ policy \in 1 .. MaxPolicy /\ admitted \in 1 .. policy
  /\ schedule \in [policy: 0 .. MaxPolicy, next: 0 .. MaxTime + PollSeconds]
  /\ poll \in Seq(Poll) /\ pages \in Seq(Seq(Page)) /\ rows \in Seq(SUBSET Times)
  /\ status \in Seq({"open", "validated", "rejected"})
  /\ DOMAIN pages = Polls /\ DOMAIN rows = Polls /\ DOMAIN status = Polls
  /\ progress \in [rev: Nat, window: Window, cursor: Cursor]
  /\ coverage \in [from: {Uncovered} \cup Times, through: {Uncovered} \cup Times]
  /\ ingested \subseteq runs /\ ambiguous \subseteq Polls
  /\ col \in [Collectors -> Session] /\ faults \in 0 .. MaxFaults

\* The target is admitted at tick 0, its first poll due at once.
Init ==
  /\ now = 0 /\ runs = {} /\ policy = 1 /\ admitted = 1
  /\ schedule = [policy |-> 0, next |-> 0]
  /\ poll = <<NewPoll(0, 0, 1)>>
  /\ progress = [rev |-> 0, window |-> [start |-> 0, end |-> 0], cursor |-> NoCursor]
  /\ pages = <<<<>>>> /\ rows = <<{}>> /\ status = <<"open">> /\ ambiguous = {}
  /\ coverage = [from |-> Uncovered, through |-> Uncovered] /\ ingested = {}
  /\ col = [c \in Collectors |-> IdleCollector] /\ faults = 0

\* The clock; a run may complete in the tick.
Tick ==
  /\ now < MaxTime
  /\ now' = now + 1
  /\ runs' = runs \cup ({now + 1} \cap Finishes)
  /\ UNCHANGED <<policyVars, schedule, poll, intakeVars, publishedVars, col, faults>>

Fault == faults < MaxFaults /\ faults' = faults + 1

Newest(n, S) == {r \in S : Cardinality({q \in S : q > r}) < n}

(***************************************************************************)
(* Scheduling of polls.                                                    *)
(***************************************************************************)
Live(w) == poll[w].state \in {"queued", "leased"}

Store == [poll |-> poll, pages |-> pages, rows |-> rows, status |-> status]
SaveStore(s) == poll' = s.poll /\ pages' = s.pages /\ rows' = s.rows /\ status' = s.status

\* _schedule_poll: the due slot of the target's schedule under its policy; a slot
\* whose poll has ended or has another policy gets one successor.
DueSlot == IF schedule.policy = policy THEN schedule.next ELSE 0

SchedulePoll(s) ==
  LET same == {w \in Polls : poll[w].slot = DueSlot}
  IN IF \E w \in same : Live(w) /\ poll[w].policy = policy
     THEN s
     ELSE [poll |-> Append(s.poll, NewPoll(DueSlot, IF same = {} THEN DueSlot ELSE Max({DueSlot, now}),
                                           policy)),
           pages |-> Append(s.pages, <<>>),
           rows |-> Append(s.rows, {}),
           status |-> Append(s.status, "open")]

\* A scope activation commits the next policy revision ...
ChangePolicy ==
  /\ policy < MaxPolicy /\ admitted = policy
  /\ policy' = policy + 1
  /\ UNCHANGED <<sourceVars, admitted, schedule, poll, intakeVars, publishedVars, col, faults>>

\* ... and the controller publishes it: the target is admitted under it and polled.
\* The clock has passed the due time of every poll already collected.
PublishScope ==
  /\ admitted < policy
  /\ \A w \in Polls : poll[w].state = "completed" => poll[w].due < now
  /\ admitted' = policy
  /\ SaveStore(SchedulePoll(Store))
  /\ UNCHANGED <<sourceVars, policy, schedule, progress, ambiguous, coverage, ingested, col, faults>>

\* An inventory or capability publication under the same policy reconciles the
\* item again and schedules its poll.
ReconcileItem ==
  /\ admitted = policy
  /\ SaveStore(SchedulePoll(Store))
  /\ UNCHANGED <<sourceVars, policyVars, schedule, progress, ambiguous, coverage, ingested, col, faults>>

(***************************************************************************)
(* The collector.                                                          *)
(***************************************************************************)
Owned(c) == poll[col[c].poll].owner = c
CurrentPolicy(c) == poll[col[c].poll].policy = policy

Claim(c) ==
  /\ col[c].pc = "idle"
  /\ \E w \in Polls :
       /\ poll[w].state = "queued" /\ poll[w].due <= now
       /\ poll' = [poll EXCEPT ![w].state = "leased", ![w].owner = c]
       /\ col' = [col EXCEPT ![c] = [IdleCollector EXCEPT !.pc = "claimed", !.poll = w]]
  /\ UNCHANGED <<sourceVars, policyVars, schedule, intakeVars, publishedVars, faults>>

\* The worker gives the poll back: retried later, or superseded for good.
Disposition(c, state) ==
  /\ Owned(c)
  /\ poll' = [poll EXCEPT ![col[c].poll].state = state, ![col[c].poll].owner = Nobody]
  /\ col' = [col EXCEPT ![c] = IdleCollector]
  /\ UNCHANGED <<sourceVars, policyVars, schedule, intakeVars, publishedVars, faults>>

Supersede(c) ==
  /\ col[c].pc = "claimed" /\ ~CurrentPolicy(c)
  /\ Disposition(c, "dispositioned")

Yield(c) == col[c].pc = "yield" /\ Disposition(c, "queued")

\* _poll reads the shared progress ...
Begin(c) ==
  /\ col[c].pc = "claimed" /\ Owned(c) /\ CurrentPolicy(c)
  /\ col' = [col EXCEPT ![c].pc = "begun", ![c].rev = progress.rev,
                        ![c].cursor = progress.cursor, ![c].window = progress.window]
  /\ UNCHANGED <<sourceVars, policyVars, schedule, poll, intakeVars, publishedVars, faults>>

WindowStart(due) ==
  Max({0, IF coverage.through = Uncovered THEN due - Lookback
          ELSE Min({due - Lookback, coverage.through})})

\* ... then the validated coverage: a continuation keeps its window, a new one
\* reaches back to the coverage or the lookback.
Frame(c) ==
  LET due == poll[col[c].poll].due
      fresh == [start |-> WindowStart(due), end |-> due]
      recorded == col[c].rev > 0 /\ col[c].cursor.kind = "none" /\ col[c].window = fresh
  IN /\ col[c].pc = "begun"
     /\ IF recorded
        THEN Disposition(c, "dispositioned")
        ELSE /\ col' = [col EXCEPT ![c].pc = "framed",
                                   ![c].window = IF col[c].cursor.kind = "none" THEN fresh ELSE @]
             /\ UNCHANGED <<sourceVars, policyVars, schedule, poll, intakeVars, publishedVars, faults>>

\* read_page: the next page of the listing.  A row may be malformed or lack
\* evidence, which leaves the whole window incomplete, and the aliases of a
\* semantic model's rows may conflict.
ReadPage(c, outcome) ==
  LET cur == col[c].cursor
      rest == IF cur.kind = "next" THEN cur.rest ELSE Newest(Retained, runs)
      page == Newest(PageSize, rest)
      left == rest \ page
      seen == cur.seen + Cardinality(page)
      oldest == Min({cur.oldest} \cup page)
      incomplete == cur.incomplete \/ outcome = "gap"
      exhausted == left = {} /\ seen >= Retained /\ oldest > col[c].window.start
  IN [rows |-> page,
      cursor |-> IF left = {} THEN NoCursor
                 ELSE [kind |-> "next", rest |-> left, seen |-> seen,
                       oldest |-> oldest, incomplete |-> incomplete],
      complete |-> left = {} /\ ~incomplete /\ ~exhausted,
      exhausted |-> exhausted,
      alias |-> outcome = "alias"]

Read(c) ==
  /\ col[c].pc = "framed"
  /\ \E outcome \in {"clean", "gap", "alias"} :
       /\ IF outcome = "clean" THEN UNCHANGED faults ELSE Fault
       /\ col' = [col EXCEPT ![c].pc = "read", ![c].page = ReadPage(c, outcome)]
  /\ UNCHANGED <<sourceVars, policyVars, schedule, poll, intakeVars, publishedVars>>

(***************************************************************************)
(* Acceptance of a page, record_rest_page.                                 *)
(***************************************************************************)
Acceptable(c) ==
  Owned(c) /\ CurrentPolicy(c) /\ admitted = policy /\ progress.rev = col[c].rev

\* _stage_powerbi_page: rows are staged under the window; an alias that
\* conflicts leaves the window without one identity for each run.
Stage(w, page) ==
  /\ rows' = [rows EXCEPT ![w] = @ \cup page.rows]
  /\ ambiguous' = IF page.alias THEN ambiguous \cup {w} ELSE ambiguous

\* The handoff of a page, bound to the evidence it was accepted with.
AcceptedPage(page) ==
  [policy |-> policy, rev |-> progress.rev + 1, last |-> page.cursor.kind = "none",
   complete |-> page.complete, exhausted |-> page.exhausted, decision |-> "pending", work |-> "queued"]

\* The page's rows, the continuation and the handoff are one transaction; the
\* last page also sets the next due time and completes the poll.
Accept(c, page, next) ==
  LET w == col[c].poll
      last == page.cursor.kind = "none"
  IN /\ Stage(w, page)
     /\ progress' = [rev |-> progress.rev + 1, window |-> col[c].window, cursor |-> page.cursor]
     /\ pages' = [pages EXCEPT ![w] = Append(@, AcceptedPage(page))]
     /\ schedule' = IF last THEN [policy |-> policy, next |-> now + PollSeconds] ELSE schedule
     /\ poll' = IF last THEN [poll EXCEPT ![w].state = "completed", ![w].owner = Nobody] ELSE poll
     /\ col' = [col EXCEPT ![c] =
          IF last THEN IdleCollector
          ELSE [@ EXCEPT !.pc = next, !.rev = progress.rev + 1, !.cursor = page.cursor, !.page = NoPage]]

\* After a page the collector reads the next one, or yields at pages_per_work.
Record(c) ==
  /\ col[c].pc = "read" /\ Acceptable(c)
  /\ \E next \in {"framed", "yield"} : Accept(c, col[c].page, next)
  /\ UNCHANGED <<sourceVars, policyVars, publishedVars, faults>>

\* _read_failure: the gap is a page of its own with an unchanged source position.
ReadFailure(c) ==
  /\ col[c].pc = "framed" /\ Fault /\ Acceptable(c)
  /\ Accept(c, [NoPage EXCEPT !.cursor = IF col[c].cursor.kind = "none" THEN StartCursor
                                         ELSE col[c].cursor], "yield")
  /\ UNCHANGED <<sourceVars, policyVars, publishedVars>>

\* A store call is refused: the lease, the policy or the continuation has changed.
Refused(c) ==
  CASE col[c].pc \in {"claimed", "begun", "framed", "yield"} -> ~Owned(c)
    [] col[c].pc = "read" -> ~Acceptable(c)
    [] OTHER -> FALSE

Fenced(c) ==
  /\ Refused(c)
  /\ col' = [col EXCEPT ![c] = IdleCollector]
  /\ UNCHANGED <<sourceVars, policyVars, schedule, poll, intakeVars, publishedVars, faults>>

\* The worker process dies; its lease stays until it expires.
Crash(c) ==
  /\ col[c].pc # "idle" /\ Fault
  /\ col' = [col EXCEPT ![c] = IdleCollector]
  /\ UNCHANGED <<sourceVars, policyVars, schedule, poll, intakeVars, publishedVars>>

Abandoned(w) == \A c \in Collectors : col[c].pc # "idle" /\ col[c].poll = w => poll[w].owner # c

Expire(w) ==
  /\ poll' = [poll EXCEPT ![w].state = "queued", ![w].owner = Nobody]
  /\ UNCHANGED <<sourceVars, policyVars, schedule, intakeVars, publishedVars, col>>

\* A lease nobody renews runs out; a slow collector may also lose a live one.
LeaseExpires(w) == poll[w].state = "leased" /\ Abandoned(w) /\ Expire(w) /\ UNCHANGED faults
LeaseLapses(w) == poll[w].state = "leased" /\ ~Abandoned(w) /\ Fault /\ Expire(w)

(***************************************************************************)
(* The controller's decision about page i of poll w.                       *)
(***************************************************************************)
Decided(w, i, decision, work) ==
  [pages EXCEPT ![w][i].decision = decision, ![w][i].work = work]

EvidenceCurrent(w, i) == pages[w][i].rev = progress.rev

Unpublished == UNCHANGED <<poll, rows, coverage, ingested>>

\* The window has its outcome, which no later handoff changes.
Sealed(w) == status[w] # "open"

\* A handoff of a sealed window acknowledges it.
Acknowledge(w, i) ==
  /\ Sealed(w)
  /\ pages' = [pages EXCEPT ![w][i].work = "completed"]
  /\ UNCHANGED status /\ Unpublished

\* The frontier is closed: the window takes its outcome.
Outcome(w, valid) == [status EXCEPT ![w] = IF valid THEN "validated" ELSE "rejected"]

\* _reject_reconciliation_window: one handoff rejects all of them.
RejectWindow(w, i) ==
  /\ pages' = [pages EXCEPT ![w][i].work = "completed"]
  /\ status' = Outcome(w, FALSE)
  /\ Unpublished

PolicyMoved(w, i) ==
  /\ status[w] = "open" /\ pages[w][i].policy # policy
  /\ RejectWindow(w, i)

\* Pages of the memory adapter's validated prefix, once page i is decided.
Prefix(w, i) ==
  LET done == {j \in DOMAIN pages[w] : pages[w][j].decision \in {"published", "rejected"}} \cup {i}
  IN Max({0} \cup {j \in done : 1 .. j \subseteq done})

\* Mutant: a stale closing page is rejected alone.
StalePageAlone(w, i) ==
  /\ status[w] = "open" /\ pages[w][i].policy = policy /\ ~EvidenceCurrent(w, i)
  /\ pages' = Decided(w, i, IF pages[w][i].decision = "pending" THEN "rejected"
                            ELSE pages[w][i].decision, "waiting")
  /\ UNCHANGED status /\ Unpublished

\* The evidence has moved on under the same policy.  A page already held keeps its
\* decision; the SQL adapter rejects the window of a stale closing page.
StalePage(w, i) ==
  /\ status[w] = "open" /\ pages[w][i].policy = policy /\ ~EvidenceCurrent(w, i)
  /\ CASE Adapter = "sql" /\ pages[w][i].last -> RejectWindow(w, i)
       [] Adapter = "sql" /\ ~pages[w][i].last ->
            /\ pages' = Decided(w, i, IF pages[w][i].decision = "pending" THEN "rejected"
                                      ELSE pages[w][i].decision, "waiting")
            /\ UNCHANGED status /\ Unpublished
       [] Adapter = "memory" /\ pages[w][i].decision = "held" ->
            /\ pages' = Decided(w, i, "held", "waiting")
            /\ UNCHANGED status /\ Unpublished
       [] OTHER ->
            /\ pages' = Decided(w, i, "rejected", "completed")
            /\ status' = IF Prefix(w, i) = Len(pages[w]) THEN Outcome(w, FALSE) ELSE status
            /\ Unpublished

\* A page before the last is valid but its window stays fenced.
OpenPage(w, i) ==
  /\ status[w] = "open" /\ pages[w][i].policy = policy /\ EvidenceCurrent(w, i) /\ ~pages[w][i].last
  /\ pages' = Decided(w, i, IF Adapter = "sql" THEN "published" ELSE "held", "waiting")
  /\ UNCHANGED status /\ Unpublished

Skips(w) == coverage.through # Uncovered /\ progress.window.start > coverage.through

Valid(w, i) == pages[w][i].complete /\ ~pages[w][i].exhausted /\ ~Skips(w) /\ w \notin ambiguous

\* Mutant: the coverage moves over a rejected window too.
PublishUnproven(w, i) ==
  /\ ingested' = IF Valid(w, i) THEN ingested \cup rows[w] ELSE ingested
  /\ coverage' = [from |-> IF coverage.through = Uncovered THEN progress.window.start ELSE coverage.from,
                  through |-> Max({coverage.through, progress.window.end})]

\* _publish_rest_window: the rows of the window become source authority and the
\* coverage reaches its end, or nothing does.
Publish(w, i) ==
  IF Valid(w, i)
  THEN /\ ingested' = ingested \cup rows[w]
       /\ coverage' = [from |-> IF coverage.through = Uncovered THEN progress.window.start ELSE coverage.from,
                       through |-> Max({coverage.through, progress.window.end})]
  ELSE UNCHANGED <<ingested, coverage>>

\* The SQL kernel closes a published window only when all its pages are decided.
Closes(w, i) ==
  Adapter = "memory" \/ \A j \in DOMAIN pages[w] : j = i \/ pages[w][j].decision # "pending"

\* Mutant: the decision forgets the next poll.
ClosingPageAlone(w, i) ==
  /\ status[w] = "open" /\ pages[w][i].policy = policy /\ EvidenceCurrent(w, i) /\ pages[w][i].last
  /\ Publish(w, i)
  /\ SaveStore([Store EXCEPT !.pages = Decided(w, i, "published", "completed"),
                             !.status[w] = IF Valid(w, i) THEN "validated" ELSE "rejected"])

\* The last page is current: publish the window and schedule the next poll.
ClosingPage(w, i) ==
  LET valid == Valid(w, i)
      closes == ~valid \/ Closes(w, i)
      decided == Decided(w, i, IF valid THEN "published" ELSE "rejected",
                         IF closes THEN "completed" ELSE "waiting")
      outcome == IF closes THEN Outcome(w, valid) ELSE status
  IN /\ status[w] = "open" /\ pages[w][i].policy = policy /\ EvidenceCurrent(w, i) /\ pages[w][i].last
     /\ Publish(w, i)
     /\ SaveStore(SchedulePoll([Store EXCEPT !.pages = decided, !.status = outcome]))

\* reconcile_claimed_work: one claimed handoff, one transaction.
Reconcile(w, i) ==
  /\ pages[w][i].work # "completed"
  /\ \/ Acknowledge(w, i)
     \/ PolicyMoved(w, i)
     \/ StalePage(w, i)
     \/ OpenPage(w, i)
     \/ ClosingPage(w, i)
  /\ UNCHANGED <<sourceVars, policyVars, schedule, progress, ambiguous, col, faults>>

Next ==
  \/ Tick \/ ChangePolicy \/ PublishScope \/ ReconcileItem
  \/ \E c \in Collectors :
       \/ Claim(c) \/ Supersede(c) \/ Begin(c) \/ Frame(c) \/ Read(c) \/ Record(c)
       \/ Yield(c) \/ ReadFailure(c) \/ Fenced(c) \/ Crash(c)
  \/ \E w \in Polls : LeaseExpires(w) \/ LeaseLapses(w)
  \/ \E w \in Polls : \E i \in DOMAIN pages[w] : Reconcile(w, i)

Spec == Init /\ [][Next]_vars

\* Collectors and the controller keep running, the clock advances, an abandoned
\* lease expires and an accepted policy is published.  No fault is fair.  Every
\* behaviour of the bounded system ends, so one weak fairness condition suffices.
SystemStep ==
  \/ Tick \/ PublishScope
  \/ \E c \in Collectors :
       Claim(c) \/ Supersede(c) \/ Begin(c) \/ Frame(c) \/ Read(c) \/ Record(c) \/ Yield(c) \/ Fenced(c)
  \/ \E w \in Polls : LeaseExpires(w)
  \/ \E w \in Polls : \E i \in DOMAIN pages[w] : Reconcile(w, i)

FairSpec == Spec /\ WF_vars(SystemStep)

(***************************************************************************)
(* Properties.                                                             *)
(***************************************************************************)

\* Every run the coverage watermark has passed was admitted as source authority, or
\* was accepted under a policy that has since been replaced; a run the source
\* dropped before it was read never disappears behind the watermark.
CoverageAccounted ==
  \A r \in runs : coverage.from < r /\ r <= coverage.through =>
    \/ r \in ingested
    \/ \E w \in Polls : r \in rows[w] /\ poll[w].policy < policy

\* A window is validated only with all its pages decided and all its rows admitted.
ValidatedIsWhole ==
  \A w \in Polls : status[w] = "validated" =>
    /\ rows[w] \subseteq ingested
    /\ \E i \in DOMAIN pages[w] : pages[w][i].last /\ pages[w][i].complete

\* Monitoring of an admitted target never stops: a poll of the current policy is
\* queued or running, or a last page is still to be decided, which schedules one.
PollingContinues ==
  admitted = policy =>
    \/ \E w \in Polls : Live(w) /\ poll[w].policy = policy
    \/ \E w \in Polls : \E i \in DOMAIN pages[w] :
         pages[w][i].last /\ pages[w][i].work # "completed" /\ pages[w][i].policy = policy

\* Every window with an accepted page is decided in the end: none keeps its target
\* fenced, whichever pages went stale and whatever the policy did.
EveryWindowResolved ==
  []<>(\A w \in Polls : pages[w] # <<>> => status[w] # "open")

\* Coverage passes no run that was not admitted, and validates whole windows.
CoverageTruthful == TypeOK /\ CoverageAccounted /\ ValidatedIsWhole

(***************************************************************************)
(* Why they hold: the inductive invariant.                                 *)
(***************************************************************************)

\* The poll created last: the only one of the current policy that may be live.
Latest == Len(poll)

\* A run ends in a tick that has passed and none after it is covered; the first
\* poll was due at once.
TimePassed == /\ runs \subseteq 1 .. now /\ coverage.through <= now
              /\ Len(poll) > 0 /\ poll[1].slot = 0
              /\ schedule.policy <= admitted

\* Polls are under policies that were admitted; a poll is leased while it has an
\* owner, and is completed by its last page and only then.
PollSound(w) ==
  /\ poll[w].policy <= admitted
  /\ poll[w].policy = policy /\ Live(w) => w = Latest
  /\ poll[w].state = "leased" <=> poll[w].owner # Nobody
  /\ poll[w].state \in {"leased", "completed"} => poll[w].due <= now
  /\ rows[w] \subseteq runs
  /\ \A i \in DOMAIN pages[w] :
       /\ pages[w][i].policy = poll[w].policy /\ pages[w][i].rev <= progress.rev
       /\ pages[w][i].last <=> i = Len(pages[w]) /\ poll[w].state = "completed"
  /\ poll[w].state = "completed" => pages[w] # <<>>
  /\ status[w] = "validated" => poll[w].state = "completed"

PollsSound == \A w \in Polls : PollSound(w)

\* The latest poll of an admitted target is live, or its closing page is still to
\* be decided, with the evidence it was accepted with.
Continues ==
  admitted = policy =>
    LET last == Len(pages[Latest]) IN
    /\ poll[Latest].policy = policy /\ status[Latest] = "open"
    /\ \/ Live(Latest) /\ poll[Latest].slot = DueSlot
       \/ /\ poll[Latest].state = "completed" /\ schedule.policy = policy
          /\ pages[Latest][last].work # "completed" /\ progress.cursor.kind = "none"
    /\ pages[Latest] # <<>> =>
         /\ pages[Latest][last].rev = progress.rev
         /\ Adapter = "memory" => pages[Latest][last].decision \in {"pending", "held"}

\* No poll is due at the end of the window that was read last.
WindowPassed ==
  /\ progress.window.end <= now
  /\ progress.rev > 0 /\ progress.cursor.kind = "none" =>
       /\ \E w \in Polls : poll[w].state = "completed" /\ progress.window.end <= poll[w].due
       /\ schedule.policy = policy => progress.window.end < schedule.next
       /\ admitted = policy /\ Live(Latest) => progress.window.end < poll[Latest].due
  /\ progress.cursor.kind # "none" /\ admitted = policy => progress.window.end <= poll[Latest].due

\* A continuation is part of a listing of the source's runs.
Listed(cursor) ==
  /\ cursor.kind = "none" => cursor = NoCursor
  /\ cursor.kind = "start" => cursor = StartCursor
  /\ cursor.rest \subseteq runs
  /\ cursor.seen + Cardinality(cursor.rest) <= MaxTime

\* Staged under a policy that is replaced, or under the latest poll.
Replaced(r) == \E w \in Polls : r \in rows[w] /\ poll[w].policy < policy
Staged(r) == r \in rows[Latest] \/ Replaced(r)

\* The source had dropped the run when the listing was taken.
Dropped(r, cursor) ==
  /\ cursor.seen + Cardinality(cursor.rest) >= Retained
  /\ r < cursor.oldest /\ \A q \in cursor.rest : r < q

\* No run of the window is lost on the way of the continuation.
Kept(window, cursor, collected) ==
  \A r \in runs : window.start < r /\ r <= window.end =>
    r \in cursor.rest \/ r \in collected \/ Staged(r) \/ Dropped(r, cursor)

ProgressKept ==
  /\ Listed(progress.cursor)
  /\ progress.cursor.kind = "next" => Kept(progress.window, progress.cursor, {})

\* Nor with the page a collector has read.
PageSafe(session) ==
  /\ session.page.cursor.kind = "next" => Kept(session.window, session.page.cursor, session.page.rows)
  /\ session.page.cursor.kind = "none" /\ ~session.page.exhausted =>
       Kept(session.window, StartCursor, session.page.rows)

\* A poll's owner works on the shared progress as it is.
Working(c) == col[c].pc \in {"begun", "framed", "read"} /\ Owned(c) /\ CurrentPolicy(c)

SessionSound(c) ==
  /\ Listed(col[c].cursor) /\ Listed(col[c].page.cursor) /\ col[c].page.rows \subseteq runs
  /\ col[c].pc # "idle" => col[c].poll \in Polls /\ poll[col[c].poll].due <= now
  /\ col[c].window.end <= now
  /\ Working(c) =>
       /\ col[c].rev = progress.rev /\ col[c].cursor = progress.cursor
       /\ col[c].pc = "begun" \/ col[c].cursor.kind # "none" => col[c].window = progress.window
       /\ col[c].pc # "begun" => col[c].window.end <= poll[col[c].poll].due
       /\ col[c].pc = "read" => PageSafe(col[c])

\* A window whose closing page is current has all the runs of its time.
PageKept(w, page) ==
  page.last /\ page.complete /\ ~page.exhausted /\ page.rev = progress.rev =>
    \A r \in runs : progress.window.start < r /\ r <= progress.window.end =>
      r \in rows[w] \/ Replaced(r)

WindowsKept == \A w \in Polls : \A i \in DOMAIN pages[w] : PageKept(w, pages[w][i])

WindowInv ==
  /\ CoverageTruthful /\ TimePassed /\ PollsSound /\ Continues /\ WindowPassed
  /\ ProgressKept /\ WindowsKept /\ \A c \in Collectors : SessionSound(c)
=============================================================================
