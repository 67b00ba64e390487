---------------------------- MODULE IncidentCase ----------------------------
(***************************************************************************)
(* One failure signature: the incident rows the controllers keep for it    *)
(* (store/incidents.py, store/sql_incidents.py) and the operators' case    *)
(* journal about them (store/incident_workflow.py,                         *)
(* command_center/incident_workflow.py).                                   *)
(*                                                                         *)
(* A row is its payload: a revision is the hash of the payload, so two     *)
(* revisions are equal when the payloads are.  Controllers write a row     *)
(* against the payload they read; operators append to the journal against  *)
(* the payload and the tracking version their page shows.  Neither takes   *)
(* a lock between its reads and its write, and a write that fails may      *)
(* have committed.                                                         *)
(***************************************************************************)
EXTENDS Naturals, FiniteSets, FiniteSetsExt

CONSTANTS
  Controllers,  \* processes that record outcomes
  Operators,    \* browser sessions
  Keys, NoKey,  \* idempotency keys
  Cases,        \* the rows whose case pages are opened
  MaxRecords,   \* outcomes recorded
  MaxFaults     \* unconfirmed writes and lost processes

\* The pages that are opened are those of rows.
IncidentAssumption == {MaxRecords, MaxFaults} \subseteq Nat /\ Cases \subseteq {"usig", "sig"}

VARIABLES
  inc,      \* the incident rows, "usig" unresolved and "sig" resolved
  ctl,      \* the controllers
  journal,  \* the activity table
  op,       \* the operator sessions
  runs,     \* the observer runs, by question
  sure, unsure,   \* confirmed and unconfirmed occurrence writes of each row
  asked, replied, \* observer calls, and the questions whose call returned
  faults

incidentVars == <<inc, ctl, sure, unsure>>
caseVars == <<journal, op, runs, asked, replied>>
vars == <<incidentVars, caseVars, faults>>

Ids == {"usig", "sig"}
Outcomes == {"resolved", "flagged_data_quality", "needs_human", "duplicate_suppressed"}
NoRow == [occ |-> 0, status |-> "none", inv |-> FALSE]
Statuses == {"none", "open", "investigating", "resolved"}
Row == [occ: 0 .. MaxRecords, status: Statuses, inv: BOOLEAN]

Waiting == [pc |-> "idle", id |-> "usig", was |-> NoRow, row |-> NoRow]
Away == [pc |-> "away", id |-> "usig", key |-> NoKey, kind |-> "none", rev |-> NoRow, ver |-> 0]

OperatorSteps == {"away", "page", "checked", "ask", "call", "answer", "apology"}

Entry == [key: Keys, kind: {"resolution", "question"}, id: Ids, rev: Row, ver: Nat, at: Row]

RunStates == {"none", "running", "completed", "failed"}

Answers == [key: Keys, status: {"completed", "failed"}]

TypeOK ==
  /\ inc \in [Ids -> Row] /\ \A i \in Ids : inc[i].occ = 0 <=> inc[i].status = "none"
  /\ ctl \in [Controllers -> [pc: {"idle", "loaded"}, id: Ids, was: Row, row: Row]]
  /\ journal \in [entries: SUBSET Entry, answers: SUBSET Answers]
  /\ op \in [Operators -> [pc: OperatorSteps, id: Ids, key: Keys \cup {NoKey},
                            kind: {"none", "resolution", "question"}, rev: Row, ver: Nat]]
  /\ runs \in [Keys -> RunStates]
  /\ sure \in [Ids -> Nat] /\ unsure \in [Ids -> Nat]
  /\ asked \in [Keys -> Nat] /\ replied \subseteq Keys /\ faults \in 0 .. MaxFaults

Init ==
  /\ inc = [i \in Ids |-> NoRow] /\ ctl = [p \in Controllers |-> Waiting]
  /\ sure = [i \in Ids |-> 0] /\ unsure = [i \in Ids |-> 0]
  /\ journal = [entries |-> {}, answers |-> {}] /\ op = [u \in Operators |-> Away]
  /\ runs = [k \in Keys |-> "none"] /\ asked = [k \in Keys |-> 0] /\ replied = {} /\ faults = 0

Fault == faults < MaxFaults /\ faults' = faults + 1

(***************************************************************************)
(* The controllers: record() reads the rows of the signature, computes the *)
(* new row and writes it against the payload it read.                      *)
(***************************************************************************)

\* find_open: the open rows, which suppress.
FindOpen(rows) == {i \in Ids : rows[i].status \in {"open", "investigating"}}

\* _status_for: an incident follows its last outcome.
StatusFor(out) == IF out = "resolved" THEN "resolved" ELSE "open"

\* record: a suppressed duplicate is counted on the incident it duplicates,
\* and is a case for a person when there is none; anything else on the row of
\* its namespace.
Recorded(rows, out) ==
  LET orphan == out = "duplicate_suppressed" /\ FindOpen(rows) = {}
      o == IF orphan THEN "needs_human" ELSE out
      own == IF o \in {"resolved", "flagged_data_quality"} THEN "sig" ELSE "usig" IN
  IF o = "duplicate_suppressed"
    THEN {[id |-> i, was |-> rows[i], row |-> [rows[i] EXCEPT !.occ = @ + 1]] : i \in FindOpen(rows)}
    ELSE {[id |-> own, was |-> rows[own],
           row |-> [occ |-> rows[own].occ + 1, status |-> StatusFor(o),
                    inv |-> rows[own].inv \/ o = "needs_human"]]}

Committed == inc["sig"].occ + inc["usig"].occ

\* _ensure_loaded: the rows are read afresh, and the new row is computed.
LoadRows(p, out) ==
  /\ ctl[p].pc = "idle" /\ Committed < MaxRecords
  /\ \E r \in Recorded(inc, out) :
       ctl' = [ctl EXCEPT ![p] = [pc |-> "loaded", id |-> r.id, was |-> r.was, row |-> r.row]]
  /\ UNCHANGED <<inc, sure, unsure, caseVars, faults>>

\* _upsert: INSERT when no row was read, else UPDATE where the payload is
\* still the one that was read.
Unchanged(p) == inc[ctl[p].id] = ctl[p].was

Bump(f, i) == [f EXCEPT ![i] = @ + 1]

\* The write: confirmed, refused when the row has changed, or unconfirmed.
WriteRow(p) ==
  LET i == ctl[p].id IN
  /\ ctl[p].pc = "loaded" /\ ctl' = [ctl EXCEPT ![p] = Waiting] /\ UNCHANGED caseVars
  /\ \/ /\ Unchanged(p) /\ inc' = [inc EXCEPT ![i] = ctl[p].row]
        /\ sure' = Bump(sure, i) /\ UNCHANGED <<unsure, faults>>
     \/ ~Unchanged(p) /\ UNCHANGED <<inc, sure, unsure, faults>>
     \/ /\ Fault /\ Unchanged(p) /\ inc' = [inc EXCEPT ![i] = ctl[p].row]
        /\ unsure' = Bump(unsure, i) /\ UNCHANGED sure

\* mark: the status alone, after a rerun or a deferred retry was verified.
MarkRow(i, status) ==
  /\ inc[i].status \in {"open", "investigating"} /\ inc[i].status # status
  /\ inc' = [inc EXCEPT ![i].status = status]
  /\ UNCHANGED <<ctl, sure, unsure, caseVars, faults>>

(***************************************************************************)
(* The journal.                                                            *)
(***************************************************************************)
Resolutions(i) == {e \in journal.entries : e.kind = "resolution" /\ e.id = i}
Version(i) == Max({0} \cup {e.ver : e \in Resolutions(i)})

\* Mutant: the latest closure holds whatever happened since.
ClosedByUser_Sticky(i, row) == \E e \in Resolutions(i) : e.ver = Version(i)

\* A closure holds for the payload it names, and no other.
ClosedByUser(i, row) == \E e \in Resolutions(i) : e.ver = Version(i) /\ e.rev = row

\* _tracking.
Tracking(i, row) ==
  IF row.status = "resolved" THEN "resolved"
  ELSE IF ClosedByUser(i, row) THEN "resolved_by_user" ELSE "open"

Used(k) == {e \in journal.entries : e.key = k}

\* case: the page shows the incident's payload and the tracking version;
\* two pages of one case may be open at once, and both go stale.
OpenCase(u, i) ==
  /\ op[u].pc = "away" /\ inc[i].status # "none"
  /\ op' = [op EXCEPT ![u] = [Away EXCEPT !.pc = "page", !.id = i, !.rev = inc[i], !.ver = Version(i)]]
  /\ UNCHANGED <<incidentVars, journal, runs, asked, replied, faults>>

\* add: a key is submitted with a form.  A used key is answered from the
\* journal; a resolution is checked against what is read now.
Submit(u, k, kind) ==
  LET i == op[u].id
      form == IF kind = "question" THEN [Away EXCEPT !.id = i] ELSE op[u]
      ok == /\ Used(k) = {}
            /\ kind = "resolution" => /\ op[u].rev = inc[i] /\ op[u].ver = Version(i)
                                      /\ Tracking(i, inc[i]) = "open" IN
  /\ op[u].pc = "page"
  /\ op' = [op EXCEPT ![u] = IF ok THEN [form EXCEPT !.pc = "checked", !.key = k, !.kind = kind] ELSE Away]
  /\ UNCHANGED <<incidentVars, journal, runs, asked, replied, faults>>

NewEntry(u) ==
  LET asks == op[u].kind = "question" IN
  [key |-> op[u].key, kind |-> op[u].kind, id |-> op[u].id, rev |-> op[u].rev,
   ver |-> IF asks THEN 0 ELSE op[u].ver + 1, at |-> IF asks THEN NoRow ELSE inc[op[u].id]]

\* The single INSERT: its key is new, and a resolution's payload, status and
\* version still hold (the guards and the unique version index).
Insertable(u) ==
  LET i == op[u].id IN
  /\ Used(op[u].key) = {}
  /\ op[u].kind = "resolution" =>
       inc[i] = op[u].rev /\ inc[i].status # "resolved" /\ Version(i) = op[u].ver

\* Mutant: a reservation that is already there counts as this session's own.
Acquired_Always(u) == TRUE

\* Only the session whose insert took effect may call the observer.
Acquired(u) == Insertable(u)

\* _append: the insert takes effect, is answered from the journal, or is
\* refused; without an answer nothing is tried again.
AppendEntry(u) ==
  LET stored == [journal EXCEPT !.entries = @ \cup {NewEntry(u)}]
      next == IF op[u].kind = "question" /\ Acquired(u) THEN [op[u] EXCEPT !.pc = "ask"] ELSE Away IN
  /\ op[u].pc = "checked"
  /\ \/ /\ journal' = IF Insertable(u) THEN stored ELSE journal
        /\ op' = [op EXCEPT ![u] = next] /\ UNCHANGED faults
     \/ /\ Fault /\ journal' \in {journal, IF Insertable(u) THEN stored ELSE journal}
        /\ op' = [op EXCEPT ![u] = Away]
  /\ UNCHANGED <<incidentVars, runs, asked, replied>>

(***************************************************************************)
(* discuss: the session that reserved the question asks the observer.      *)
(***************************************************************************)

\* start_run, and the question as its first event.
BeginRun(k) == [runs EXCEPT ![k] = "running"]

\* finish_run: a terminal run stays what it is.
FinishRun(k, state) == [runs EXCEPT ![k] = IF @ = "running" THEN state ELSE @]

\* ask: the run is recorded before the observer is called.
StartRun(u) ==
  /\ op[u].pc = "ask" /\ runs' = BeginRun(op[u].key)
  /\ op' = [op EXCEPT ![u].pc = "call"]
  /\ UNCHANGED <<incidentVars, journal, asked, replied, faults>>

\* The observer answers, or fails; finish_run records which, once.
CallObserver(u) ==
  LET k == op[u].key IN
  /\ op[u].pc = "call" /\ asked' = Bump(asked, k)
  /\ \/ /\ replied' = replied \cup {k} /\ runs' = FinishRun(k, "completed")
        /\ op' = [op EXCEPT ![u].pc = "answer"] /\ UNCHANGED faults
     \/ /\ runs' = FinishRun(k, "failed") /\ op' = [op EXCEPT ![u].pc = "apology"]
        /\ UNCHANGED <<replied, faults>>
     \/ /\ Fault /\ runs' \in {FinishRun(k, "completed"), FinishRun(k, "failed")}
        /\ op' = [op EXCEPT ![u].pc = "apology"] /\ UNCHANGED replied
  /\ UNCHANGED <<incidentVars, journal>>

Answered(k) == {a \in journal.answers : a.key = k}

\* finish_question: one answer per question.
StoreAnswer(k, status) ==
  IF Answered(k) = {} THEN [journal EXCEPT !.answers = @ \cup {[key |-> k, status |-> status]}] ELSE journal

\* The reply, or the explanation that there is none, is stored; when that is
\* not confirmed the question is left as it is.
FinishQuestion(u) ==
  LET k == op[u].key
      status == IF op[u].pc = "answer" THEN "completed" ELSE "failed" IN
  /\ op[u].pc \in {"answer", "apology"} /\ op' = [op EXCEPT ![u] = Away]
  /\ \/ journal' = StoreAnswer(k, status) /\ UNCHANGED faults
     \/ Fault /\ journal' \in {journal, StoreAnswer(k, status)}
  /\ UNCHANGED <<incidentVars, runs, asked, replied>>

\* The request is cancelled, the browser goes away or the web process ends.
Leave(u) ==
  /\ op[u].pc # "away" /\ op' = [op EXCEPT ![u] = Away]
  /\ IF op[u].pc = "page" THEN UNCHANGED faults ELSE Fault
  /\ UNCHANGED <<incidentVars, journal, runs, asked, replied>>

Next ==
  \/ \E p \in Controllers : (\E out \in Outcomes : LoadRows(p, out)) \/ WriteRow(p)
  \/ \E i \in Ids : MarkRow(i, "resolved") \/ MarkRow(i, "investigating")
  \/ \E u \in Operators :
       \/ \E i \in Cases : OpenCase(u, i)
       \/ AppendEntry(u) \/ StartRun(u) \/ CallObserver(u) \/ FinishQuestion(u) \/ Leave(u)
       \/ \E k \in Keys, kind \in {"resolution", "question"} : Submit(u, k, kind)

Spec == Init /\ [][Next]_vars

(***************************************************************************)
(* Properties.                                                             *)
(***************************************************************************)

\* No occurrence is lost to a concurrent writer, and none is counted twice:
\* a row counts the confirmed writes and at most the unconfirmed ones.
OccurrencesExact ==
  \A i \in Ids : sure[i] <= inc[i].occ /\ inc[i].occ <= sure[i] + unsure[i]

\* A closure is only ever written over the evidence the operator's page
\* showed, and closures of one incident follow each other one by one.
ClosureOfSeenEvidence ==
  \A i \in Ids :
    /\ \A e \in Resolutions(i) : e.at = e.rev /\ e.at.status # "resolved"
    /\ {e.ver : e \in Resolutions(i)} = 1 .. Cardinality(Resolutions(i))

\* A new occurrence is never hidden behind a closure made before it.
RecurrenceReopens ==
  [][\A i \in Ids : inc'[i].occ > inc[i].occ /\ inc'[i].status # "resolved" =>
       Tracking(i, inc[i])' = "open"]_vars

\* A question costs at most one observer call, however often it is sent.
AskedOnce == \A k \in Keys : asked[k] <= 1

\* The thread tells the truth: an answered question has a completed run and
\* a reply, and a failed one never had its reply.
ThreadTruthful ==
  \A a \in journal.answers :
    IF a.status = "completed" THEN a.key \in replied /\ runs[a.key] = "completed" ELSE a.key \notin replied

\* The incident counts what happened, its closures cover what was seen, and a
\* question is asked once and answered as the thread says.
CasesTruthful ==
  /\ TypeOK
  /\ OccurrencesExact
  /\ ClosureOfSeenEvidence
  /\ AskedOnce
  /\ ThreadTruthful

(***************************************************************************)
(* Why they hold: the inductive invariant.                                 *)
(***************************************************************************)

\* What a controller is about to write counts one occurrence more than what
\* it read.
Loaded == \A p \in Controllers : ctl[p].pc = "loaded" =>
  ctl[p].row.occ = ctl[p].was.occ + 1 /\ ctl[p].row.status # "none"

\* A form has a key, and a closure names evidence that is not newer than now.
Submitted ==
  /\ \A u \in Operators : op[u].pc \notin {"away", "page"} => op[u].key \in Keys /\ op[u].kind # "none"
  /\ IsFiniteSet(journal.entries)
  /\ \A i \in Ids : \A e \in Resolutions(i) : e.rev.occ <= inc[i].occ

\* A key belongs to the one session that reserved it, which has not called the
\* observer before it says so; a call, a reply and an answer follow each other.
Asking(u) == op[u].pc \in {"ask", "call", "answer", "apology"}
Reserved ==
  /\ \A u \in Operators : Asking(u) =>
       /\ Used(op[u].key) # {}
       /\ \A v \in Operators : Asking(v) /\ op[v].key = op[u].key => u = v
       /\ asked[op[u].key] = IF op[u].pc \in {"ask", "call"} THEN 0 ELSE 1
       /\ op[u].pc = "call" => runs[op[u].key] = "running"
       /\ op[u].pc = "answer" => op[u].key \in replied /\ runs[op[u].key] = "completed"
       /\ op[u].pc = "apology" => op[u].key \notin replied
  /\ \A k \in Keys : asked[k] > 0 => Used(k) # {}
  /\ \A k \in replied : asked[k] > 0
  /\ \A a \in journal.answers : asked[a.key] > 0

IncidentInv == CasesTruthful /\ Loaded /\ Submitted /\ Reserved
=============================================================================
