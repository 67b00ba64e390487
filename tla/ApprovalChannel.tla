-------------------------- MODULE ApprovalChannel --------------------------
(***************************************************************************)
(* The row of triage_approvals in which a controller and the people who    *)
(* answer it meet (src/triage/store/approvals.py, AzureSqlApprovalChannel, *)
(* and the engine's binding of the row to a monitoring intent).            *)
(*                                                                         *)
(* A request id is stable for one work and one action, so every execution  *)
(* of that work that proposes the action meets the same row.  A proposal   *)
(* stands for its fingerprint: the action, its arguments (the model's      *)
(* justification among them), the work, the target and the source.         *)
(***************************************************************************)
CONSTANTS
  Proposals,    \* fingerprints the executions may ask for
  Redacted,     \* the ones whose arguments hold text that redaction rewrites
  Responders,   \* people with the approver role
  None

VARIABLES
  row,          \* the stored request, None before it is opened
  binding,      \* approval_binding: the proposal the row was published for
  page,         \* responder -> the proposal on the page in front of them
  answers       \* every answer that was recorded: what was read, what was said

channelVars == <<row, binding, page, answers>>

Decisions == {"approve", "decline"}

Row == [proposal: Proposals, decision: Decisions \cup {""},
        consumed: BOOLEAN, expired: BOOLEAN]

ASSUME ProposalAssumption ==
  /\ Redacted \subseteq Proposals
  /\ None \notin Proposals /\ None \notin Row

NewRow(p) == [proposal |-> p, decision |-> "", consumed |-> FALSE, expired |-> FALSE]

\* _assert_open.
IsOpen(p) ==
  /\ row # None
  /\ row.proposal = p
  /\ row.decision = ""
  /\ ~row.consumed
  /\ ~row.expired

\* open and open_exact, through _write: insert unless the row exists; an
\* existing row must be the same proposal, still open.
Open(p) ==
  \/ row = None /\ row' = NewRow(p)
  \/ IsOpen(p) /\ UNCHANGED row

OpenRefused(p) == row # None /\ ~IsOpen(p)

\* bind_approval: the first binding of the id stays, and only the same intent
\* may be bound again.  The stored arguments went through redaction, so a
\* proposal that redaction rewrites never equals the one to bind.
Bind(p) ==
  \/ binding = None /\ IsOpen(p) /\ p \notin Redacted /\ binding' = p
  \/ binding = p /\ UNCHANGED binding

\* poll.
Answered == row # None /\ row.decision # "" /\ ~row.consumed /\ ~row.expired

\* A slip: an answer is taken for a yes.
AnyAnswer(p) == row # None /\ row.proposal = p /\ row.decision # "" /\ ~row.consumed

\* An explicit, matching, unused yes, as poll, approval_reference and
\* _approval_denial each look for it.
Approved(p) == row # None /\ row.proposal = p /\ row.decision = "approve" /\ ~row.consumed

\* A slip: the transaction trusts what the execution has checked before.
TrustEarlierCheck(p) == row # None

\* _approval_denial finds nothing to object to.
Authorizes(p) == Approved(p) /\ ~row.expired /\ binding = p

\* consume_approval, inside the reservation's transaction.
Consume == row' = [row EXCEPT !.consumed = TRUE]

-----------------------------------------------------------------------------
(* The people who answer, and time. *)

\* list_requests, pending: the proposal is on somebody's screen.
View(h) ==
  /\ row # None
  /\ page' = [page EXCEPT ![h] = row.proposal]
  /\ UNCHANGED <<row, binding, answers>>

\* A slip: the last answer stands.
DecideAgain(h, d) ==
  /\ page[h] # None
  /\ row # None
  /\ row.proposal = page[h] /\ ~row.consumed /\ ~row.expired
  /\ row' = [row EXCEPT !.decision = d]
  /\ answers' = answers \cup {[proposal |-> page[h], decision |-> d]}
  /\ UNCHANGED <<binding, page>>

\* decide_exact: one conditional UPDATE, for the fingerprint on the page.
\* The command line's decide reads the fingerprint from the row instead, and
\* no statement of a live deployment replaces or deletes a row.
Decide(h, d) ==
  /\ page[h] # None
  /\ IsOpen(page[h])
  /\ row' = [row EXCEPT !.decision = d]
  /\ answers' = answers \cup {[proposal |-> page[h], decision |-> d]}
  /\ UNCHANGED <<binding, page>>

Expire ==
  /\ row # None
  /\ ~row.expired
  /\ row' = [row EXCEPT !.expired = TRUE]
  /\ UNCHANGED <<binding, page, answers>>

ChannelTypeOK ==
  /\ row \in Row \cup {None}
  /\ binding \in Proposals \cup {None}
  /\ page \in [Responders -> Proposals \cup {None}]
  /\ answers \subseteq [proposal: Proposals, decision: Decisions]

ChannelInit ==
  /\ row = None
  /\ binding = None
  /\ page = [h \in Responders |-> None]
  /\ answers = {}
=============================================================================
