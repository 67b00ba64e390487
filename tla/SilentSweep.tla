---------------------------- MODULE SilentSweep ----------------------------
(***************************************************************************)
(* The detector of failures that raise no alert (runner.silent_sweep,      *)
(* detectors/silent_failures.py, store/semantic_health.py): scheduled      *)
(* sweeps of one probe, one at a time under a lease in the database.       *)
(*                                                                         *)
(* A sweep reads the probe's row, asks the model, judges the reading       *)
(* against the row and writes the whole row back.  Row counts and schemas  *)
(* are levels, 0 when there is no baseline: a row count that falls by Drop *)
(* levels has collapsed, a schema that falls has lost objects.  The lease  *)
(* is released before the finding is reported, and reporting awaits Teams. *)
(***************************************************************************)
EXTENDS Naturals, FiniteSets

CONSTANTS
  Sweepers,   \* invocations of the sweep
  OwnerOf,    \* the process of each, which is the name on its lease
  Nobody,     \* no lease
  Confirm,    \* readings that confirm a finding
  MaxErrors,  \* faults that park the probe
  Cooldown,   \* how long it stays parked, in ticks
  LeaseTicks, \* lifetime of the lease
  Watch,      \* the kinds of failure the probe is configured to see
  Levels,     \* row counts, 1 .. n
  Drop,       \* levels whose loss is a collapse
  Figures,    \* numbers a finding's detail may quote
  MaxFaults   \* crashes, unconfirmed writes, overruns and acceptances amid a sweep

VARIABLES
  row,        \* the probe's row
  lease,      \* the row of the sweep lease
  sw,         \* the sweeps
  inc,        \* the incidents of the findings, by signature
  posted,     \* signatures whose card was delivered
  streak,     \* the verdict of the last readings recorded, and how many agreed
  overlapped, \* two writers of the row were at work together
  faults

vars == <<row, lease, sw, inc, posted, streak, overlapped, faults>>

\* What a probe can be configured for: a date column, a row count, the schema.
Kinds == {"stale", "row_collapse", "schema_drift"}

\* A process runs one sweep at a time (app.py, cli.py), so that the name on the
\* lease tells the sweeps apart.
WatchAssumption ==
  /\ Watch \subseteq Kinds
  /\ \A s, t \in Sweepers : OwnerOf[s] = OwnerOf[t] => s = t
  /\ \A s \in Sweepers : OwnerOf[s] # Nobody
  /\ Confirm \in Nat \ {0} /\ MaxErrors \in Nat /\ Cooldown \in Nat /\ LeaseTicks \in Nat \ {0}
  /\ Levels \subseteq Nat \ {0} /\ Drop \in Nat \ {0} /\ MaxFaults \in Nat

NotParked == Cooldown + 1

NoState == [rows |-> 0, shape |-> 0, suspect |-> 0, kind |-> "none", errors |-> 0, opened |-> NotParked]
States == [rows: Levels \cup {0}, shape: 0 .. 2, suspect: 0 .. Confirm, kind: Kinds \cup {"none"},
           errors: 0 .. MaxErrors, opened: 0 .. NotParked]

Statuses == {"none", "healthy", "suspect", "confirmed", "detector_fault", "parked"}
NoFinding == [status |-> "none", kind |-> "none", figure |-> 0, earned |-> TRUE]
Idle == [pc |-> "idle", state |-> NoState, found |-> NoFinding, sent |-> FALSE]
Scanning == {"get", "circuit", "query", "put"}
Signatures == (Watch \cup {"detector_fault"}) \X Figures

Findings == [status: Statuses, kind: Kinds \cup {"none", "detector_fault"},
             figure: Figures \cup {0}, earned: BOOLEAN]
Sweeps == [pc: Scanning \cup {"idle", "release", "report", "post", "record", "quiet"},
           state: States, found: Findings, sent: BOOLEAN]
Leases == [owner: {OwnerOf[s] : s \in Sweepers} \cup {Nobody}, left: 0 .. LeaseTicks]
Streaks == [kind: Kinds \cup {"none", "accepted", "detector_fault"}, n: 0 .. Confirm]

TypeOK ==
  /\ row \in States /\ lease \in Leases /\ sw \in [Sweepers -> Sweeps]
  /\ inc \in [Signatures -> [open: BOOLEAN, notified: BOOLEAN]] /\ posted \subseteq Signatures
  /\ streak \in Streaks /\ overlapped \in BOOLEAN /\ faults \in 0 .. MaxFaults

Init ==
  /\ row = NoState /\ lease = [owner |-> Nobody, left |-> 0] /\ sw = [s \in Sweepers |-> Idle]
  /\ inc = [g \in Signatures |-> [open |-> FALSE, notified |-> FALSE]] /\ posted = {}
  /\ streak = [kind |-> "none", n |-> 0] /\ overlapped = FALSE /\ faults = 0

Fault == faults < MaxFaults /\ faults' = faults + 1
ghosts == <<streak, overlapped>>
reports == <<inc, posted>>
AtMost(n, cap) == IF n > cap THEN cap ELSE n
Go(s, pc) == sw' = [sw EXCEPT ![s].pc = pc]

(***************************************************************************)
(* The lease.                                                              *)
(***************************************************************************)

\* try_acquire_lease: no row, one that has expired, or the process's own.
Free(s) == lease.owner \in {Nobody, OwnerOf[s]} \/ lease.left = 0

Acquire(s) ==
  /\ sw[s].pc = "idle" /\ Free(s)
  /\ lease' = [owner |-> OwnerOf[s], left |-> LeaseTicks] /\ Go(s, "get")
  /\ UNCHANGED <<row, reports, ghosts, faults>>

\* The findings silent_sweep passes on: all but the ones it answers with a line.
Recorded(s) == sw[s].found.status \notin {"none", "healthy", "suspect", "detector_fault"}

\* release_lease: the process's own row is deleted; the sweep that raised is over.
Release(s) ==
  /\ sw[s].pc = "release"
  /\ lease' = IF lease.owner = OwnerOf[s] THEN [owner |-> Nobody, left |-> 0] ELSE lease
  /\ sw' = [sw EXCEPT ![s] = IF Recorded(s) THEN [Idle EXCEPT !.pc = "report", !.found = sw[s].found] ELSE Idle]
  /\ UNCHANGED <<row, reports, ghosts, faults>>

(***************************************************************************)
(* The scan.                                                               *)
(***************************************************************************)
GetState(s) ==
  /\ sw[s].pc = "get"
  /\ sw' = [sw EXCEPT ![s] = [@ EXCEPT !.state = row, !.pc = IF row.errors < MaxErrors THEN "query" ELSE "circuit"]]
  /\ UNCHANGED <<row, lease, reports, ghosts, faults>>

ParkedFinding(f) == [Idle EXCEPT !.pc = "release", !.found = [NoFinding EXCEPT !.status = "parked",
                                                          !.kind = "detector_fault", !.figure = f]]

\* When the probe was parked: now, if it was not yet.
Opened(state) == IF state.opened = NotParked THEN Cooldown ELSE state.opened

\* _circuit_open: the probe is parked, stays parked, or is tried once more.
Circuit(s) ==
  LET state == sw[s].state
      o == Opened(state) IN
  /\ sw[s].pc = "circuit"
  /\ IF o > 0
       THEN /\ row' = IF o = state.opened THEN row ELSE [state EXCEPT !.opened = o]
            /\ \E f \in Figures : sw' = [sw EXCEPT ![s] = ParkedFinding(f)]
       ELSE /\ row' = [state EXCEPT !.opened = NotParked]
            /\ sw' = [sw EXCEPT ![s] = [@ EXCEPT !.pc = "query", !.state = row']]
  /\ UNCHANGED <<lease, reports, ghosts, faults>>

\* What the model may answer to what the probe asks; a schema that is not
\* asked for or cannot be read is level 0.
Readings ==
  [stale: {"stale" \in Watch, FALSE}, rows: IF "row_collapse" \in Watch THEN Levels ELSE {0},
   shape: IF "schema_drift" \in Watch THEN 0 .. 2 ELSE {0}, figure: Figures]

\* _judge and _check_schema: the watermark first, then the row count, then
\* the objects that are gone.
Judge(state, r) ==
  IF r.stale THEN "stale"
  ELSE IF r.rows + Drop <= state.rows THEN "row_collapse"
  ELSE IF r.shape > 0 /\ r.shape < state.shape THEN "schema_drift" ELSE "none"

\* A reading that worked ends the run of faults; a schema that lost nothing
\* becomes the baseline, whatever the data looks like.
Seen(state, r) ==
  [state EXCEPT !.errors = 0, !.opened = NotParked, !.shape = IF r.shape >= @ THEN r.shape ELSE @]

\* _record_healthy: the baseline moves, suspicion ends.
RecordHealthy(state, r) == [Seen(state, r) EXCEPT !.rows = r.rows, !.suspect = 0, !.kind = "none"]

\* Mutants: the baseline follows a suspect reading; suspicions of two kinds add up.
RecordSuspect_Learns(state, r, k) ==
  [Seen(state, r) EXCEPT !.rows = r.rows, !.kind = k, !.suspect = IF state.kind = k THEN AtMost(@ + 1, Confirm) ELSE 1]

RecordSuspect_AnyKind(state, r, k) == [Seen(state, r) EXCEPT !.kind = k, !.suspect = AtMost(@ + 1, Confirm)]

\* _record_suspect: another kind of wrong starts the count again, and the
\* baseline stays.
RecordSuspect(state, r, k) ==
  [Seen(state, r) EXCEPT !.kind = k, !.suspect = IF state.kind = k THEN AtMost(@ + 1, Confirm) ELSE 1]

\* The reading, judged; the row is written in a step of its own.
Query(s) ==
  /\ sw[s].pc = "query"
  /\ \E r \in Readings :
       LET state == sw[s].state
           k == Judge(state, r)
           new == IF k = "none" THEN RecordHealthy(state, r) ELSE RecordSuspect(state, r, k)
           status == IF k = "none" THEN "healthy" ELSE IF new.suspect >= Confirm THEN "confirmed" ELSE "suspect" IN
       sw' = [sw EXCEPT ![s] = [@ EXCEPT !.pc = "put", !.state = new,
                !.found = [NoFinding EXCEPT !.status = status, !.kind = k, !.figure = r.figure]]]
  /\ UNCHANGED <<row, lease, reports, ghosts, faults>>

\* _record_fault: the probe could not run; nothing is said of the data.
QueryFails(s) ==
  LET state == sw[s].state IN
  /\ sw[s].pc = "query"
  /\ sw' = [sw EXCEPT ![s] = [@ EXCEPT !.pc = "put",
              !.state = [state EXCEPT !.errors = AtMost(state.errors + 1, MaxErrors)],
              !.found = [NoFinding EXCEPT !.status = "detector_fault", !.kind = "detector_fault"]]]
  /\ UNCHANGED <<row, lease, reports, ghosts, faults>>

\* The readings recorded in a row of one kind.
Longer(k) == [kind |-> k, n |-> IF k = "none" THEN 0 ELSE IF k = streak.kind THEN AtMost(streak.n + 1, Confirm) ELSE 1]

\* put: the row is read again and replaced as a whole.
PutState(s) ==
  LET f == sw[s].found
      n == IF f.status = "detector_fault" THEN streak ELSE Longer(f.kind) IN
  /\ sw[s].pc = "put" /\ row' = sw[s].state /\ streak' = n
  /\ sw' = [sw EXCEPT ![s] = [@ EXCEPT !.pc = "release", !.state = NoState,
              !.found = [f EXCEPT !.earned = (f.status = "confirmed" => n.n >= Confirm \/ overlapped)]]]
  /\ UNCHANGED <<lease, reports, overlapped, faults>>

\* Its write is not confirmed: the sweep stops, and the row may be either.
PutUnconfirmed(s) ==
  /\ sw[s].pc = "put" /\ Fault
  /\ \/ UNCHANGED <<row, streak>>
     \/ /\ row' = sw[s].state
        /\ streak' = IF sw[s].found.status = "detector_fault" THEN streak ELSE Longer(sw[s].found.kind)
  /\ sw' = [sw EXCEPT ![s] = [Idle EXCEPT !.pc = "release"]]
  /\ UNCHANGED <<lease, reports, overlapped>>

(***************************************************************************)
(* The report, after the lease is gone.                                    *)
(***************************************************************************)
Sig(s) == <<sw[s].found.kind, sw[s].found.figure>>

\* _record_silent_finding: announced before, as the incident says.
Announced(g) == inc[g].open /\ inc[g].notified

Report(s) ==
  /\ sw[s].pc = "report"
  /\ Go(s, IF Announced(Sig(s)) THEN "quiet" ELSE "post")
  /\ UNCHANGED <<row, lease, reports, ghosts, faults>>

\* Teams takes the card, or does not.
Post(s) ==
  /\ sw[s].pc = "post"
  /\ \/ /\ sw' = [sw EXCEPT ![s] = [@ EXCEPT !.pc = "record", !.sent = TRUE]]
        /\ posted' = posted \cup {Sig(s)} /\ UNCHANGED faults
     \/ Fault /\ Go(s, "record") /\ UNCHANGED posted
  /\ UNCHANGED <<row, lease, inc, ghosts>>

\* The incident, with the cards it was announced by.
Record(s) ==
  /\ sw[s].pc \in {"record", "quiet"} /\ sw' = [sw EXCEPT ![s] = Idle]
  /\ inc' = [inc EXCEPT ![Sig(s)] = [open |-> TRUE, notified |-> @.notified \/ sw[s].sent]]
  /\ UNCHANGED <<row, lease, posted, ghosts, faults>>

(***************************************************************************)
(* Operators, crashes and time.                                            *)
(***************************************************************************)

\* A second writer may come to the row while a sweep is at work on it.
Overlap(b) == IF b THEN Fault /\ overlapped' = TRUE ELSE UNCHANGED <<overlapped, faults>>

\* health --accept: the suspicion and the schema go, the row count stays.
Accept ==
  /\ row # NoState
  /\ row' = [row EXCEPT !.suspect = 0, !.kind = "none", !.shape = 0]
  /\ streak' = [kind |-> "accepted", n |-> 0] /\ Overlap(\E s \in Sweepers : sw[s].pc \in Scanning)
  /\ UNCHANGED <<lease, sw, reports>>

Crash(s) ==
  /\ sw[s].pc # "idle" /\ Fault /\ sw' = [sw EXCEPT ![s] = Idle]
  /\ UNCHANGED <<row, lease, reports, ghosts>>

\* The lease runs out, under a sweep that is still scanning or after a crash.
LeaseTick ==
  /\ lease.left > 0 /\ lease' = [lease EXCEPT !.left = @ - 1]
  /\ Overlap(lease.left = 1 /\ \E s \in Sweepers : sw[s].pc \in Scanning)
  /\ UNCHANGED <<row, sw, reports, streak>>

\* The cooldown of a parked probe passes.
CooldownTick ==
  /\ row.opened \in 1 .. Cooldown /\ row' = [row EXCEPT !.opened = @ - 1]
  /\ UNCHANGED <<lease, sw, reports, ghosts, faults>>

Step(s) ==
  \/ Acquire(s) \/ Release(s) \/ GetState(s) \/ Circuit(s) \/ Query(s) \/ QueryFails(s)
  \/ PutState(s) \/ PutUnconfirmed(s) \/ Report(s) \/ Post(s) \/ Record(s)

Next ==
  \/ \E s \in Sweepers : Step(s) \/ Crash(s)
  \/ Accept \/ LeaseTick \/ CooldownTick

\* The schedule keeps waking sweeps, and time passes.
Fairness == WF_vars(\E s \in Sweepers : Step(s)) /\ WF_vars(LeaseTick) /\ WF_vars(CooldownTick)

Spec == Init /\ [][Next]_vars /\ Fairness

(***************************************************************************)
(* Properties.                                                             *)
(***************************************************************************)

\* No two sweeps scan together, unless one outlived its lease.
OneSweepAtATime ==
  \A s, t \in Sweepers : s # t /\ sw[s].pc \in Scanning /\ sw[t].pc \in Scanning => overlapped

\* A finding is confirmed by as many readings of its kind in a row as the
\* probe asks for, with nothing healthy in between.
ConfirmedEarned == \A s \in Sweepers : sw[s].found.earned

\* The detector never learns a collapse: the accepted row count does not
\* fall by as much in one step, and a lost schema only goes by acceptance.
CollapseNotLearned ==
  [][/\ row'.rows < row.rows => row.rows - row'.rows < Drop \/ overlapped
     /\ row'.shape < row.shape => row'.shape = 0 \/ overlapped]_vars

\* A finding that is kept quiet because it was announced was announced.
QuietWasAnnounced == \A s \in Sweepers : sw[s].pc = "quiet" => Sig(s) \in posted

\* A parked probe is asked again: its cooldown ends whatever sweeps look at it.
ParkedIsRetried == row.errors = MaxErrors ~> \E s \in Sweepers : sw[s].pc = "query"

\* A finding has the readings that confirm it, taken one sweep at a time, and
\* silence follows a card that was delivered.
FindingsEarned == TypeOK /\ OneSweepAtATime /\ ConfirmedEarned /\ QuietWasAnnounced

(***************************************************************************)
(* Why they hold: the inductive invariant.                                 *)
(***************************************************************************)

\* A row of a probe, or a sweep's copy of one: what is not watched has no baseline.
Sensible(state) ==
  /\ state \in States /\ (state.suspect > 0 <=> state.kind # "none")
  /\ "row_collapse" \notin Watch => state.rows = 0

RowsSensible == Sensible(row) /\ \A s \in Sweepers : Sensible(sw[s].state)


\* Only what a sweep reads of a watched kind, or a parked probe, is reported.
Reported ==
  \A s \in Sweepers :
    sw[s].pc \in {"report", "post", "record", "quiet"} \/ Recorded(s) => Sig(s) \in Signatures

\* The lease is the scanning sweep's own, and has not run out.
LeaseHeld ==
  \A s \in Sweepers : sw[s].pc \in Scanning /\ ~overlapped => lease.owner = OwnerOf[s] /\ lease.left > 0

\* Two rows that differ in their cooldown only.
SameEvidence(a, b) ==
  a.rows = b.rows /\ a.shape = b.shape /\ a.suspect = b.suspect /\ a.kind = b.kind

\* What s is about to write follows from the row as it is.
Follows(s) ==
  LET state == sw[s].state
      f == sw[s].found IN
  IF f.status = "detector_fault" THEN SameEvidence(state, row)
  ELSE /\ f.kind = state.kind
       /\ state.rows < row.rows => row.rows - state.rows < Drop
       /\ state.shape >= row.shape
       /\ state.suspect = IF state.kind = "none" THEN 0
                          ELSE IF row.kind = state.kind THEN AtMost(row.suspect + 1, Confirm) ELSE 1
       /\ f.status = "confirmed" => state.suspect >= Confirm

\* A sweep that is alone works on the row as it is.
Current ==
  \A s \in Sweepers :
    /\ sw[s].pc \in {"circuit", "query"} /\ ~overlapped => SameEvidence(sw[s].state, row)
    /\ sw[s].pc = "put" /\ ~overlapped => Follows(s)

\* A row counts no more suspicions than there were readings in a row.
Counted == row.suspect > 0 /\ ~overlapped => streak.kind = row.kind /\ streak.n >= row.suspect

\* What the incident calls announced was delivered.
Delivered ==
  /\ \A g \in Signatures : inc[g].notified => g \in posted
  /\ \A s \in Sweepers : sw[s].sent => sw[s].pc = "record" /\ Sig(s) \in posted

SweepInv ==
  /\ FindingsEarned /\ RowsSensible /\ Reported /\ LeaseHeld /\ Current /\ Counted /\ Delivered
=============================================================================
