----------------------------- MODULE TriageRun -----------------------------
(***************************************************************************)
(* Triage runs of one monitoring work: the model's turns, the policy       *)
(* ledger, the dispatcher in front of every tool, the human approval of a  *)
(* gated remediation and the outcome the controller accepts                *)
(* (src/triage/agents/triage_agent.py, policy.py, tools/registry.py,       *)
(* approvals.py).                                                          *)
(*                                                                         *)
(* The language model is the environment: it may ask for any tool, in any  *)
(* order, and claim any outcome.  A run may lose the work's lease to a     *)
(* later run of the same work at any moment, and both meet in the same     *)
(* approval row and the same reservation receipt.                          *)
(***************************************************************************)
EXTENDS Naturals, Sequences, ApprovalChannel

CONSTANTS
  Runs,             \* executions of the work
  MaxTurns,         \* TriagePolicy.max_llm_turns
  MaxToolCalls,     \* TriagePolicy.max_tool_calls
  MaxWrites,        \* TriagePolicy.max_write_actions
  Tables,           \* tables the data quality agent scans
  MaxBatch,         \* bound: tool calls in one response
  Gated,            \* APPROVAL_REQUIRED_ACTIONS has the target's action
  HasDuplicates,    \* what is true of the tables
  Faults            \* whether processes stop and calls fail

ASSUME RunAssumption ==
  /\ None \notin Runs
  /\ MaxTurns \in Nat /\ MaxToolCalls \in Nat /\ MaxWrites \in Nat
  /\ Tables \in Nat \ {0} /\ MaxBatch \in Nat
  /\ Gated \in BOOLEAN /\ HasDuplicates \in BOOLEAN /\ Faults \in BOOLEAN

VARIABLES
  run,          \* run -> its place, its ledger and what its context remembers
  holder,       \* the run that holds the work's lease
  receipt,      \* the reservation receipt of the work's action
  effect,       \* what the service made of the remediation
  effects,      \* remediations sent, in order: the run and its proposal
  flags,        \* rows of the flag table
  finished      \* the work is completed

runVars == <<run, holder, receipt, effect, effects, flags, finished>>
vars == <<channelVars, runVars>>

\* "turn": the model is about to be asked; "calls": its tool calls are being
\* dispatched; "asking", "opened", "bound", "waiting": the steps of
\* _seek_approval; "allowed": nothing refused the remediation so far;
\* "reserving": everything was checked again; "posting": it is reserved.
Asking == {"asking", "opened", "bound", "waiting"}
Active == {"turn", "calls", "allowed", "reserving", "posting"} \cup Asking
Busy == Active \ {"turn"}
Places == {"off", "ended", "gone"} \cup Active

\* What ToolContext and PolicyLedger remember: the incident was already open,
\* an attempt was blocked by policy, an approval was granted or not, the scan
\* found duplicates, a flag row was written, a retry was scheduled.
Facts == {"known", "blocked", "granted", "ungranted", "found", "flagged", "deferred"}

Claims == {"resolved", "flagged_data_quality", "duplicate_suppressed",
           "approval_denied", "deferred_retry", "needs_human", "declared_failed"}
Overrides == {"agent_crashed", "timed_out", "budget_exceeded", "max_turns_exceeded"}

Effects == {"none", "running", "succeeded", "failed"}

RunState == [pc: Places, turns: Nat, calls: Nat, left: Nat, writes: Nat,
             proposal: Proposals \cup {None}, facts: SUBSET Facts,
             fix: Effects, outcome: Claims \cup Overrides \cup {""}]

NewRun == [pc |-> "off", turns |-> 0, calls |-> 0, left |-> 0, writes |-> 0,
           proposal |-> None, facts |-> {}, fix |-> "none", outcome |-> ""]

TypeOK ==
  /\ ChannelTypeOK
  /\ run \in [Runs -> RunState]
  /\ holder \in Runs \cup {None}
  /\ receipt \in {"none", "denied", "reserved"}
  /\ effect \in Effects
  /\ effects \in Seq(Runs \X Proposals)
  /\ flags \in Nat
  /\ finished \in BOOLEAN

Init ==
  /\ ChannelInit
  /\ run = [r \in Runs |-> NewRun]
  /\ holder = None
  /\ receipt = "none"
  /\ effect = "none"
  /\ effects = <<>>
  /\ flags = 0
  /\ finished = FALSE

-----------------------------------------------------------------------------
At(r, pc) == run[r].pc = pc
Goto(r, pc) == run' = [run EXCEPT ![r].pc = pc]

\* A tool call is answered: on to the next call of the response, or to the
\* next turn.
Answer(s) ==
  [s EXCEPT !.left = @ - 1, !.pc = IF s.left <= 1 THEN "turn" ELSE "calls",
            !.proposal = None]

Learn(s, facts) == [s EXCEPT !.facts = @ \cup facts]

\* context.deferred_retry is set to what the tool returned, or cleared.
Deferred(s, pending) ==
  [s EXCEPT !.facts = IF pending THEN @ \cup {"deferred"} ELSE @ \ {"deferred"}]

End(s, outcome) == [s EXCEPT !.pc = "ended", !.outcome = outcome]

EndRun(r, outcome) == run' = [run EXCEPT ![r] = End(@, outcome)]

\* The work is claimed, by its first run or by one that takes an expired
\* lease over, while its action has no reservation.
Start(r, known) ==
  /\ At(r, "off")
  /\ ~finished /\ receipt # "reserved"
  /\ holder' = r
  /\ run' = [run EXCEPT ![r].pc = "turn", ![r].facts = IF known THEN {"known"} ELSE {}]
  /\ UNCHANGED <<channelVars, receipt, effect, effects, flags, finished>>

\* An exception nothing on the way handles: the store or the provider fails,
\* or current_work finds that the lease is another's.
Crash(r) ==
  /\ run[r].pc \in Active
  /\ Faults \/ holder # r
  /\ EndRun(r, "agent_crashed")
  /\ UNCHANGED <<channelVars, holder, receipt, effect, effects, flags, finished>>

\* The process stops.
Stop(r) ==
  /\ Faults
  /\ run[r].pc \in Active
  /\ Goto(r, "gone")
  /\ UNCHANGED <<channelVars, holder, receipt, effect, effects, flags, finished>>

\* check_deadline, from charge_llm_turn and charge_tool_call.
TimeOut(r) ==
  /\ run[r].pc \in {"turn", "calls"}
  /\ EndRun(r, "timed_out")
  /\ UNCHANGED <<channelVars, holder, receipt, effect, effects, flags, finished>>

\* The result of the run is recorded with the work, by its owner.
Finalize(r) ==
  /\ At(r, "ended")
  /\ holder = r
  /\ ~finished
  /\ finished' = TRUE
  /\ UNCHANGED <<channelVars, run, holder, receipt, effect, effects, flags>>

-----------------------------------------------------------------------------
(* The loop: charge a turn, ask the model, dispatch what it asks for. *)

\* A slip: the turn is not counted.
UncountedTurn(s) == s

\* charge_llm_turn, after its check.
ChargeTurn(s) == [s EXCEPT !.turns = @ + 1]

\* The response: tool calls, nothing more to do, or one token too many.
Turn(r) ==
  /\ At(r, "turn")
  /\ IF run[r].turns >= MaxTurns
     THEN EndRun(r, "max_turns_exceeded")
     ELSE LET charged == ChargeTurn(run[r]) IN
          \/ \E n \in 1..MaxBatch :
               run' = [run EXCEPT ![r] = [charged EXCEPT !.pc = "calls", !.left = n]]
          \/ run' = [run EXCEPT ![r] = End(charged, "needs_human")]
          \/ run' = [run EXCEPT ![r] = End(charged, "budget_exceeded")]
  /\ UNCHANGED <<channelVars, holder, receipt, effect, effects, flags, finished>>

\* assert_action_allowed refuses; the refusal is the tool's answer.
UnknownTool(r) ==
  /\ At(r, "calls")
  /\ run' = [run EXCEPT ![r] = Answer(Learn(@, {"blocked"}))]
  /\ UNCHANGED <<channelVars, holder, receipt, effect, effects, flags, finished>>

\* charge_tool_call has no call left, and the run ends.
OverBudget(r) ==
  /\ At(r, "calls")
  /\ run[r].calls >= MaxToolCalls
  /\ EndRun(r, "budget_exceeded")
  /\ UNCHANGED <<channelVars, holder, receipt, effect, effects, flags, finished>>

\* charge_tool_call: the state in which the tool then runs.
CanCall(r) == At(r, "calls") /\ run[r].calls < MaxToolCalls
Charged(s) == [s EXCEPT !.calls = @ + 1]

\* A diagnostic, or a notification.
Diagnose(r) ==
  /\ CanCall(r)
  /\ run' = [run EXCEPT ![r] = Answer(Charged(@))]
  /\ UNCHANGED <<channelVars, holder, receipt, effect, effects, flags, finished>>

\* get_pipeline_rerun_status: what the service says of the submitted run.
CheckRerun(r) ==
  /\ CanCall(r)
  /\ run[r].fix = "running"
  /\ run' = [run EXCEPT ![r] = Answer([Charged(@) EXCEPT !.fix = effect])]
  /\ UNCHANGED <<channelVars, holder, receipt, effect, effects, flags, finished>>

\* consult_data_quality_agent: a call for each table scanned and a turn for
\* the interpretation, from the same ledger.  The scan overrules the model; a
\* provider that fails is the tool's answer.
Consult(r) ==
  LET s == [Charged(run[r]) EXCEPT !.calls = @ + Tables]
      found == IF HasDuplicates THEN {"found"} ELSE {}
  IN
  /\ CanCall(r)
  /\ IF s.calls > MaxToolCalls
     THEN run' = [run EXCEPT ![r] = End([s EXCEPT !.calls = MaxToolCalls], "budget_exceeded")]
     ELSE IF s.turns >= MaxTurns
     THEN run' = [run EXCEPT ![r] = End(s, "max_turns_exceeded")]
     ELSE \/ run' = [run EXCEPT ![r] = End(ChargeTurn(s), "budget_exceeded")]
          \/ run' = [run EXCEPT ![r] = Answer(Learn(ChargeTurn(s), found))]
          \/ Faults /\ run' = [run EXCEPT ![r] = Answer(ChargeTurn(s))]
  /\ UNCHANGED <<channelVars, holder, receipt, effect, effects, flags, finished>>

\* write_data_quality_flag: refused without evidence of duplicates.
WriteFlag(r) ==
  /\ CanCall(r)
  /\ IF "found" \in run[r].facts
     THEN /\ flags' = flags + 1
          /\ run' = [run EXCEPT ![r] = Answer(Learn(Charged(@), {"flagged"}))]
     ELSE /\ run' = [run EXCEPT ![r] = Answer(Charged(@))]
          /\ UNCHANGED flags
  /\ UNCHANGED <<channelVars, holder, receipt, effect, effects, finished>>

\* defer_refresh_retry of a refresh: pending or exhausted.  The row is only
\* promised once schedule_retry has found the lease current, and never beside
\* a reservation.
Defer(r, pending) ==
  /\ CanCall(r)
  /\ ~Gated /\ receipt # "reserved" /\ holder = r
  /\ run' = [run EXCEPT ![r] = Answer(Deferred(Charged(@), pending))]
  /\ UNCHANGED <<channelVars, holder, receipt, effect, effects, flags, finished>>

-----------------------------------------------------------------------------
(* A remediation, and the human it may need. *)

\* charge_tool_call of a remediation defers the write.
ChargeProposal(s) == [s EXCEPT !.calls = @ + 1]

\* The preconditions refuse: the ledger's remediation is spent, or the
\* incident was already open, the target is observed only or its source
\* changed.
RefuseProposal(r) ==
  LET s == ChargeProposal(run[r]) IN
  /\ CanCall(r)
  /\ run' = [run EXCEPT ![r] =
       Answer(IF run[r].writes >= MaxWrites THEN Learn(s, {"blocked"}) ELSE s)]
  /\ UNCHANGED <<channelVars, holder, receipt, effect, effects, flags, finished>>

\* dispatch of a remediation that the preconditions let pass.
Propose(r, p) ==
  /\ CanCall(r)
  /\ run[r].writes < MaxWrites /\ holder = r /\ "known" \notin run[r].facts
  /\ run' = [run EXCEPT ![r] = [ChargeProposal(@) EXCEPT
       !.pc = IF Gated THEN "asking" ELSE "allowed", !.proposal = p]]
  /\ UNCHANGED <<channelVars, holder, receipt, effect, effects, flags, finished>>

\* _seek_approval records the request ...
OpenRequest(r) ==
  /\ At(r, "asking")
  /\ Open(run[r].proposal)
  /\ Goto(r, "opened")
  /\ UNCHANGED <<binding, page, answers, holder, receipt, effect, effects, flags, finished>>

\* ... or raises, and nothing handles it: the proposal changed, was answered
\* or has expired.
ReopenRaises(r) ==
  /\ At(r, "asking")
  /\ OpenRefused(run[r].proposal)
  /\ EndRun(r, "agent_crashed")
  /\ UNCHANGED <<channelVars, holder, receipt, effect, effects, flags, finished>>

\* The insert commits, but its answer is lost.
OpenUnconfirmed(r) ==
  /\ Faults
  /\ At(r, "asking")
  /\ row = None
  /\ Open(run[r].proposal)
  /\ EndRun(r, "agent_crashed")
  /\ UNCHANGED <<binding, page, answers, holder, receipt, effect, effects, flags, finished>>

\* monitoring.bind_approval, by the owner of the work.
BindApproval(r) ==
  /\ At(r, "opened")
  /\ holder = r
  /\ Bind(run[r].proposal)
  /\ Goto(r, "bound")
  /\ UNCHANGED <<row, page, answers, holder, receipt, effect, effects, flags, finished>>

BindRaises(r) ==
  /\ At(r, "opened")
  /\ \/ holder # r
     \/ /\ binding # run[r].proposal
        /\ binding # None \/ ~IsOpen(run[r].proposal) \/ run[r].proposal \in Redacted
  /\ EndRun(r, "agent_crashed")
  /\ UNCHANGED <<channelVars, holder, receipt, effect, effects, flags, finished>>

NotApproved(r) == run' = [run EXCEPT ![r] = Answer(Learn(@, {"ungranted"}))]

\* WebApprovalGate.request_approval records the request again ...
GateOpen(r) ==
  /\ At(r, "bound")
  /\ Open(run[r].proposal)
  /\ Goto(r, "waiting")
  /\ UNCHANGED <<binding, page, answers, holder, receipt, effect, effects, flags, finished>>

\* ... and takes it for an error when that fails.
GateError(r) ==
  /\ At(r, "bound")
  /\ Faults \/ OpenRefused(run[r].proposal)
  /\ NotApproved(r)
  /\ UNCHANGED <<channelVars, holder, receipt, effect, effects, flags, finished>>

\* The answer arrives.
Poll(r) ==
  /\ At(r, "waiting")
  /\ Answered
  /\ IF Approved(run[r].proposal)
     THEN run' = [run EXCEPT ![r] = Learn([@ EXCEPT !.pc = "allowed"], {"granted"})]
     ELSE NotApproved(r)
  /\ UNCHANGED <<channelVars, holder, receipt, effect, effects, flags, finished>>

\* Nobody answered in time.
WaitOver(r) ==
  /\ At(r, "waiting")
  /\ row.expired
  /\ NotApproved(r)
  /\ UNCHANGED <<channelVars, holder, receipt, effect, effects, flags, finished>>

\* The preconditions are checked again, after the wait, and
\* approval_reference reads the row again.
Recheck(r) ==
  /\ At(r, "allowed")
  /\ holder = r
  /\ Gated => Approved(run[r].proposal)
  /\ Goto(r, "reserving")
  /\ UNCHANGED <<channelVars, holder, receipt, effect, effects, flags, finished>>

\* approval_reference raises; the deadline is that of this run's request.
ReferenceRaises(r) ==
  /\ At(r, "allowed")
  /\ Gated
  /\ ~Approved(run[r].proposal) \/ row.expired
  /\ EndRun(r, "agent_crashed")
  /\ UNCHANGED <<channelVars, holder, receipt, effect, effects, flags, finished>>

\* A precondition refuses after all, or reserve finds an earlier receipt or a
\* review that no longer admits the action.
RefuseRemediation(r) ==
  /\ run[r].pc \in {"allowed", "reserving"}
  /\ run' = [run EXCEPT ![r] = Answer(@)]
  /\ UNCHANGED <<channelVars, holder, receipt, effect, effects, flags, finished>>

\* reserve_action denies, whatever the reason, and its receipt stays.
DenyReservation(r) ==
  /\ At(r, "reserving")
  /\ receipt = "none"
  /\ receipt' = "denied"
  /\ run' = [run EXCEPT ![r] = Answer(@)]
  /\ UNCHANGED <<channelVars, holder, effect, effects, flags, finished>>

\* A slip: the work's earlier receipt is not looked up.
UnreservedUnlessDenied == receipt # "denied"

\* get_action_by_request, and the receipt inside the transaction.
Unreserved == receipt = "none"

\* reserve_action: consent is consumed with the reservation, and the ledger
\* is charged before anything is sent.
Reserve(r) ==
  /\ At(r, "reserving")
  /\ Unreserved
  /\ holder = r
  /\ receipt' = "reserved"
  /\ IF Gated THEN Authorizes(run[r].proposal) /\ Consume ELSE UNCHANGED row
  /\ run' = [run EXCEPT ![r].pc = "posting", ![r].writes = @ + 1]
  /\ UNCHANGED <<binding, page, answers, holder, effect, effects, flags, finished>>

\* _execute: what the service does, and what the tool learns of it.  A
\* refresh that is throttled leaves a scheduled retry instead.
Execute(r) ==
  /\ At(r, "posting")
  /\ effects' = Append(effects, <<r, run[r].proposal>>)
  /\ \E e \in Effects, throttled \in BOOLEAN :
       /\ throttled => ~Gated /\ e = "none"
       /\ effect' = e
       /\ \E seen \in {e, "running"} :
            run' = [run EXCEPT ![r] = Answer(Deferred(
                     [@ EXCEPT !.fix = IF seen = "none" THEN "failed" ELSE seen],
                     throttled))]
  /\ UNCHANGED <<channelVars, holder, receipt, flags, finished>>

\* The service finishes a job it started.
EffectEnds ==
  /\ effect = "running"
  /\ effect' \in {"succeeded", "failed"}
  /\ UNCHANGED <<channelVars, run, holder, receipt, effects, flags, finished>>

-----------------------------------------------------------------------------
(* The outcome. *)

\* _validate_outcome: the evidence a claim needs.
Supported(s, o) ==
  /\ o = "resolved" =>
       /\ "ungranted" \in s.facts => "granted" \in s.facts
       /\ s.fix = "succeeded"
  /\ o = "deferred_retry" => "deferred" \in s.facts
  /\ o = "flagged_data_quality" => {"found", "flagged"} \subseteq s.facts
  /\ o = "duplicate_suppressed" => "known" \in s.facts
  /\ o = "approval_denied" => "ungranted" \in s.facts
  /\ o \in {"resolved", "flagged_data_quality"} => "blocked" \notin s.facts

\* report_resolution, and _build_result of what it claims.
Report(r, o) ==
  /\ CanCall(r)
  /\ run' = [run EXCEPT ![r] =
       End(Charged(@), IF Supported(@, o) THEN o ELSE "needs_human")]
  /\ UNCHANGED <<channelVars, holder, receipt, effect, effects, flags, finished>>

-----------------------------------------------------------------------------
Dispatch(r) ==
  \/ UnknownTool(r) \/ OverBudget(r)
  \/ Diagnose(r) \/ CheckRerun(r) \/ Consult(r) \/ WriteFlag(r)
  \/ \E pending \in BOOLEAN : Defer(r, pending)
  \/ RefuseProposal(r)
  \/ \E p \in Proposals : Propose(r, p)
  \/ \E o \in Claims : Report(r, o)

SeekApproval(r) ==
  \/ OpenRequest(r) \/ ReopenRaises(r) \/ OpenUnconfirmed(r)
  \/ BindApproval(r) \/ BindRaises(r)
  \/ GateOpen(r) \/ GateError(r) \/ Poll(r) \/ WaitOver(r)

Remediate(r) ==
  \/ Recheck(r) \/ ReferenceRaises(r) \/ RefuseRemediation(r)
  \/ DenyReservation(r) \/ Reserve(r) \/ Execute(r)

RunStep(r) == Turn(r) \/ Dispatch(r) \/ SeekApproval(r) \/ Remediate(r)

Interrupt(r) == Crash(r) \/ Stop(r) \/ TimeOut(r)

People ==
  /\ \E h \in Responders : View(h) \/ \E d \in Decisions : Decide(h, d)
  /\ UNCHANGED runVars

RowExpires == Expire /\ UNCHANGED runVars

Next ==
  \/ \E r \in Runs :
       \/ \E known \in BOOLEAN : Start(r, known)
       \/ RunStep(r) \/ Interrupt(r) \/ Finalize(r)
  \/ People \/ RowExpires \/ EffectEnds

Spec == Init /\ [][Next]_vars

\* asyncio keeps running a run that is not suspended on something else, the
\* provider answers or raises within its own timeout, and time passes.
FairSpec ==
  /\ Spec
  /\ \A r \in Runs : WF_vars(RunStep(r))
  /\ WF_vars(RowExpires)

-----------------------------------------------------------------------------
(* Properties. *)

Said(p, d) == [proposal |-> p, decision |-> d] \in answers

\* Every gated remediation that reaches the service was approved by somebody
\* who had exactly that proposal in front of them, nobody declined it, and
\* the approval is spent, whichever runs of the work met in the row.
EffectsAuthorized ==
  Gated => \A i \in 1..Len(effects) :
    LET p == effects[i][2] IN
    /\ Said(p, "approve") /\ ~Said(p, "decline")
    /\ row # None /\ row.proposal = p /\ row.consumed

\* A recorded request keeps its proposal, its answer and its consumption, and
\* it does not come back from expiry: asking again, from this or another run,
\* never reopens what was decided (_write, decide_exact).
AnswersAreFinal ==
  [][row # None =>
       /\ row' # None
       /\ row'.proposal = row.proposal
       /\ row.decision # "" => row'.decision = row.decision
       /\ row.consumed => row'.consumed
       /\ row.expired => row'.expired]_vars

\* An approval is spent only by the reservation, in the step that makes it,
\* and never after its deadline, however long ago the run read it.
ConsentSpentInTime ==
  [][row # None /\ row' # None /\ row'.consumed /\ ~row.consumed =>
       receipt' = "reserved" /\ receipt # "reserved" /\ ~row.expired]_vars

\* What was refused costs nothing: a run's ledger is charged, and an approval
\* is spent, only if the work has its reservation (dispatch's deferred
\* charge, reserve_action).
RefusalsAreFree ==
  /\ \A r \in Runs : run[r].writes > 0 => receipt = "reserved"
  /\ Gated /\ row # None => (row.consumed <=> receipt = "reserved")

\* All runs of one work send at most one remediation, also where
\* max_write_actions would let one run send several.
OneEffect == Len(effects) <= 1

\* The controller records what happened, not what the model claims: a run is
\* resolved only if the remediation it sent itself succeeded at the service,
\* and flags a data quality issue only if the tables have one and a flag row
\* says so.
OutcomesEarned ==
  \A r \in Runs :
    /\ run[r].outcome = "resolved" =>
         /\ effect = "succeeded"
         /\ \E i \in 1..Len(effects) : effects[i][1] = r
    /\ run[r].outcome = "flagged_data_quality" => HasDuplicates /\ flags > 0

\* A run that starts ends, with an outcome or with its process, whatever the
\* model asks for and however long nobody answers.
RunEnds ==
  \A r \in Runs : run[r].pc \in Active ~> run[r].pc \in {"ended", "gone"}

-----------------------------------------------------------------------------
(* The inductive invariant. *)

\* The row's answer is the only one anybody gave, and consumption is the
\* reservation's.
RowExact ==
  /\ \A a \in answers : row # None /\ a.proposal = row.proposal /\ a.decision = row.decision
  /\ row # None /\ row.decision # "" => Said(row.proposal, row.decision)
  /\ row # None /\ row.consumed =>
       Gated /\ row.decision = "approve" /\ receipt = "reserved"
  /\ Gated /\ receipt = "reserved" => row # None /\ row.consumed

\* A run at work on a response has a call left, and from the preconditions to
\* the answer it has a proposal; the one that posts is the one that reserved,
\* alone, for the row's proposal.
Posts(r) ==
  /\ run[r].pc \in Busy => run[r].left > 0
  /\ run[r].pc \in Busy \ {"calls"} => run[r].proposal # None
  /\ run[r].pc = "posting" =>
       /\ receipt = "reserved" /\ effects = <<>>
       /\ Gated => row.proposal = run[r].proposal
       /\ \A q \in Runs : run[q].pc = "posting" => q = r

PostingExact == \A r \in Runs : Posts(r)

\* What reached the service came from the reservation.
EffectExact ==
  /\ Len(effects) <= 1
  /\ effects # <<>> =>
       /\ receipt = "reserved"
       /\ Gated => row.proposal = effects[1][2]
  /\ effect # "none" => effects # <<>>

\* What a run knows is true.
Knows(r) ==
  /\ run[r].writes > 0 => receipt = "reserved"
  /\ run[r].fix # "none" => effects # <<>> /\ effects[1][1] = r
  /\ run[r].fix = "succeeded" => effect = "succeeded"
  /\ "found" \in run[r].facts => HasDuplicates
  /\ "flagged" \in run[r].facts => flags > 0
  /\ run[r].outcome = "resolved" => run[r].fix = "succeeded"
  /\ run[r].outcome = "flagged_data_quality" => {"found", "flagged"} \subseteq run[r].facts
  /\ run[r].outcome # "" => run[r].pc = "ended"

KnowledgeExact == \A r \in Runs : Knows(r)

IInv ==
  /\ TypeOK
  /\ RowExact
  /\ PostingExact
  /\ EffectExact
  /\ KnowledgeExact

=============================================================================
