---------------------------- MODULE ActionFence ----------------------------
(***************************************************************************)
(* Controllers executing monitoring work against the remote service        *)
(* (src/triage/runner.py, _execute_monitoring_work_inner, and              *)
(* src/triage/monitoring/controller.py, MonitoringExecution).              *)
(*                                                                         *)
(* An execution claims one work.  Fresh source work is triaged and may     *)
(* reserve an action, submit it to the service once, record what became of *)
(* the submission, poll it and finalize.  Work whose attempt already has a *)
(* reservation is only verified or finalized.  Between any two of these    *)
(* steps the lease may expire, another execution may take the target over, *)
(* or the execution may stop.                                              *)
(***************************************************************************)
EXTENDS MonitoringStore

VARIABLES
  exec,         \* controller -> [pc, work, seen, own]
  posts,        \* attempt -> requests sent to the service for it
  remote        \* attempt -> what the service did with them

envVars == <<posts, remote>>
vars == <<storeVars, exec, envVars>>

\* "posting": the request is about to be sent; "acked": accepted, the run is
\* known; "unacked": sent, but nothing is known; "throttled", "refused": the
\* service definitely rejected it.
Steps == {"idle", "claimed", "posting", "acked", "unacked", "throttled",
          "refused", "submitted", "polling", "finalizing"}

Submitting == {"posting", "acked", "unacked", "throttled", "refused"}

Running(pc, w) == [pc |-> pc, work |-> w, seen |-> "none", own |-> FALSE]
Idle == Running("idle", None)

TypeOK ==
  /\ StoreTypeOK
  /\ exec \in [Controllers -> [pc: Steps, work: Works \cup {None},
                               seen: ActionStates, own: BOOLEAN]]
  /\ posts \in [Attempts -> Nat]
  /\ remote \in [Attempts -> {"none", "running", "succeeded", "failed"}]

Init ==
  /\ StoreInit
  /\ exec = [c \in Controllers |-> Idle]
  /\ posts = [a \in Attempts |-> 0]
  /\ remote = [a \in Attempts |-> "none"]

-----------------------------------------------------------------------------
WorkOf(c) == exec[c].work
AttemptOf(c) == Attempt(WorkOf(c))
StateOf(c) == action[AttemptOf(c)].state
ActionFor(c) == ActionOf[Target(AttemptOf(c))]

At(c, pc) == exec[c].pc = pc
Goto(c, pc) == exec' = [exec EXCEPT ![c].pc = pc]
GotoIdle(c) == exec' = [exec EXCEPT ![c] = Idle]
GotoFinalizing(c) == exec' = [exec EXCEPT ![c] = Running("finalizing", WorkOf(c))]

Claim(c, w) ==
  /\ At(c, "idle")
  /\ ClaimWork(c, w)
  /\ exec' = [exec EXCEPT ![c] = Running("claimed", w)]
  /\ UNCHANGED envVars

\* The execution ends without a further store call: its process stops, or a
\* call raises because the lease is lost or the database unreachable.
Abandon(c) ==
  /\ ~At(c, "idle")
  /\ GotoIdle(c)
  /\ UNCHANGED <<storeVars, envVars>>

-----------------------------------------------------------------------------
(* Fresh source work. *)

Fresh(c) ==
  /\ At(c, "claimed")
  /\ StateOf(c) = "none"

\* The triage ends without an action.
NoAction(c) ==
  /\ GotoFinalizing(c)
  /\ UNCHANGED <<storeVars, envVars>>

\* A pipeline candidate that is not terminal yet is read again later.
WaitForCandidate(c) ==
  /\ ActionFor(c) = "pipeline_rerun"
  /\ RetryLater(c, WorkOf(c))
  /\ GotoIdle(c)
  /\ UNCHANGED envVars

\* The triage ends, and nothing was reserved.
TriageEnds(c) == Fresh(c) /\ (NoAction(c) \/ WaitForCandidate(c))

Reserve(c) ==
  /\ Fresh(c)
  /\ ReserveAction(c, WorkOf(c))
  /\ exec' = [exec EXCEPT ![c].pc = "posting", ![c].seen = "reserved", ![c].own = TRUE]
  /\ UNCHANGED envVars

Denied(c) ==
  /\ Fresh(c)
  /\ IsSource(WorkOf(c))
  /\ DenyAction(WorkOf(c))
  /\ GotoFinalizing(c)
  /\ UNCHANGED envVars

\* The one request.  The service takes it or not, and the answer arrives or
\* not; only Power BI answers are read as definite rejections.
Accepted(a) ==
  IF ActionOf[Target(a)] = "configuration" THEN "succeeded" ELSE "running"

Post(c) ==
  LET a == AttemptOf(c) IN
  /\ At(c, "posting")
  /\ posts' = [posts EXCEPT ![a] = @ + 1]
  /\ \/ /\ remote' = [remote EXCEPT ![a] = Accepted(a)]
        /\ Goto(c, "acked") \/ Goto(c, "unacked")
     \/ /\ UNCHANGED remote
        /\ \/ Goto(c, "unacked")
           \/ /\ ActionFor(c) # "pipeline_rerun"
              /\ Goto(c, "throttled") \/ Goto(c, "refused")
  /\ UNCHANGED storeVars

\* _submission: a run id or an acknowledged configuration is "submitted",
\* anything else "uncertain".
RecordSubmission(c) ==
  /\ exec[c].pc \in {"acked", "unacked"}
  /\ LET acked == At(c, "acked") IN
       RecordActionSubmission(c, WorkOf(c), exec[c].seen,
         IF acked THEN "submitted" ELSE "uncertain",
         acked /\ ActionFor(c) # "configuration")
  /\ Goto(c, "submitted")
  /\ UNCHANGED envVars

RecordRejection(c) ==
  /\ exec[c].pc \in {"throttled", "refused"}
  /\ RecordActionRejection(c, WorkOf(c), At(c, "throttled"))
  /\ GotoFinalizing(c)
  /\ UNCHANGED envVars

-----------------------------------------------------------------------------
(* Work whose attempt has a reservation. *)

\* A slip: the request is sent, in case it was not.
RecoverBySubmitting(c) ==
  /\ At(c, "claimed")
  /\ StateOf(c) = "reserved"
  /\ Goto(c, "posting")
  /\ UNCHANGED <<storeVars, envVars>>

\* A slip: a submission nobody recorded is taken to have failed.
RecoverAsFailed(c) ==
  /\ At(c, "claimed")
  /\ StateOf(c) = "reserved"
  /\ RecordActionOutcome(c, WorkOf(c), "reserved", "verified_failed")
  /\ GotoFinalizing(c)
  /\ UNCHANGED envVars

\* A reservation whose submission was never recorded: uncertain from now on,
\* and never submitted by this or a later execution.
Recover(c) ==
  /\ At(c, "claimed")
  /\ RecordActionSubmission(c, WorkOf(c), "reserved", "uncertain", FALSE)
  /\ Goto(c, "submitted")
  /\ UNCHANGED envVars

\* verify_* can say something: the run is known, or it is a configuration.
Verifiable(a) ==
  action[a].known \/ ActionOf[Target(a)] = "configuration"

BeginPoll(c) ==
  /\ exec[c].pc \in {"claimed", "submitted"}
  /\ StateOf(c) \in {"submitted", "uncertain"}
  /\ Verifiable(AttemptOf(c))
  /\ exec' = [exec EXCEPT ![c].pc = "polling", ![c].seen = StateOf(c)]
  /\ UNCHANGED <<storeVars, envVars>>

\* What a poll may find: the run's end, or nothing yet; a configuration is
\* read back, and matches when this or somebody else's change made it so.
PollResults(a) ==
  {"uncertain"} \cup
  IF ActionOf[Target(a)] = "configuration" THEN {"verified_succeeded"}
  ELSE {v \in Verified : \/ v = "verified_succeeded" /\ remote[a] = "succeeded"
                         \/ v = "verified_failed" /\ remote[a] = "failed"}

RecordOutcome(c, result) ==
  /\ At(c, "polling")
  /\ result \in PollResults(AttemptOf(c))
  /\ RecordActionOutcome(c, WorkOf(c), exec[c].seen, result)
  /\ IF result \in Verified \/ exec[c].own THEN GotoFinalizing(c) ELSE GotoIdle(c)
  /\ UNCHANGED envVars

\* The execution that submitted it does not wait any longer; its incident
\* is finalized with the action unverified.
StopPolling(c) ==
  /\ At(c, "submitted")
  /\ exec[c].own
  /\ GotoFinalizing(c)
  /\ UNCHANGED <<storeVars, envVars>>

\* The verification interval has not passed, or the run is not known: the
\* lease is renewed for a moment and the work left alone.
Wait(c) ==
  /\ exec[c].pc \in {"claimed", "submitted"}
  /\ ~exec[c].own
  /\ StateOf(c) \in {"submitted", "uncertain"}
  /\ GotoIdle(c)
  /\ UNCHANGED <<storeVars, envVars>>

\* A slip: rejected actions are forgotten among the terminal ones.
SettledIfVerified(c) ==
  /\ At(c, "claimed")
  /\ StateOf(c) \in Verified
  /\ GotoFinalizing(c)
  /\ UNCHANGED <<storeVars, envVars>>

\* The action is terminal: only the incident is left to finalize.
Settled(c) ==
  /\ At(c, "claimed")
  /\ StateOf(c) \in Verified \cup {"rejected"}
  /\ GotoFinalizing(c)
  /\ UNCHANGED <<storeVars, envVars>>

Finalize(c) ==
  /\ At(c, "finalizing")
  /\ FinalizeWork(c, WorkOf(c))
  /\ GotoIdle(c)
  /\ UNCHANGED envVars

-----------------------------------------------------------------------------
\* The service finishes a run.
RunEnds(a) ==
  /\ remote[a] = "running"
  /\ \E r \in {"succeeded", "failed"} : remote' = [remote EXCEPT ![a] = r]
  /\ UNCHANGED <<storeVars, exec, posts>>

\* A step of an execution that has claimed its work.
WorkStep(c) ==
  \/ TriageEnds(c) \/ Reserve(c) \/ Denied(c)
  \/ Post(c) \/ RecordSubmission(c) \/ RecordRejection(c)
  \/ Recover(c) \/ BeginPoll(c) \/ StopPolling(c) \/ Wait(c) \/ Settled(c)
  \/ \E result \in Verified \cup {"uncertain"} : RecordOutcome(c, result)
  \/ Finalize(c)

Execution(c) ==
  \/ \E w \in Works : Claim(c, w)
  \/ WorkStep(c)
  \/ Abandon(c)

Intake ==
  /\ \/ ChangePolicy
     \/ \E s \in Sources : IngestFailure(s)
     \/ \E w \in Works : DisposeUnclaimed(w)
  /\ UNCHANGED <<exec, envVars>>

LeaseExpires(t) ==
  /\ ExpireLease(t)
  /\ UNCHANGED <<exec, envVars>>

Next ==
  \/ \E c \in Controllers : Execution(c)
  \/ Intake
  \/ \E t \in Targets : LeaseExpires(t)
  \/ \E a \in Attempts : RunEnds(a)

Spec == Init /\ [][Next]_vars

-----------------------------------------------------------------------------
(* Safety. *)

ActiveOn(t) == {a \in Attempts : Target(a) = t /\ action[a].state \in Active}

\* A target is fenced exactly while an action on it is reserved, submitted or
\* uncertain, so no two unverified changes to one target ever coexist,
\* whichever executions lose their leases in between (reserve_action,
\* record_action_rejection, record_action_outcome).
FenceExact == \A t \in Targets :
  ActiveOn(t) = IF fence[t] = None THEN {} ELSE {fence[t]}

\* A reservation is submitted to the service at most once: neither a takeover
\* nor a retry sends its request again (reserve, refresh, submit_pipeline).
SubmittedOnce == \A a \in Attempts : posts[a] <= 1

\* A job submission, however late it leaves a stalled execution, still leaves
\* inside the fence of its target: nothing has released it meanwhile.
SubmitInsideFence == \A c \in Controllers :
  (exec[c].pc = "posting" /\ ActionFor(c) # "configuration")
    => fence[Target(AttemptOf(c))] = AttemptOf(c)

Effects(i) == {a \in Attempts : Incident(a) = i /\ remote[a] # "none"}

\* The remote changes made for one incident never exceed its write budget,
\* although a throttled attempt hands its slot on to its successor.
EffectsWithinBudget == \A i \in Incidents :
  Cardinality(Effects(i)) <= MaxWriteActions

\* While an effect is unverified some verification work of it can still be
\* run, so no crash between two steps makes the store forget it.
UnverifiedIsPolled == \A a \in Attempts :
  action[a].state \in Active =>
    \E v \in Verifications(a) : work[v].state \in {"queued", "leased"}

\* What is recorded of a job is what the service did.
RecordedIsReal == \A a \in Attempts :
  ActionOf[Target(a)] # "configuration" =>
    /\ action[a].state = "verified_succeeded" => remote[a] = "succeeded"
    /\ action[a].state = "verified_failed" => remote[a] = "failed"
    /\ action[a].state = "rejected" => remote[a] = "none"

\* A terminal action never changes, and a reservation never becomes free.
TerminalIsFinal ==
  [][\A a \in Attempts :
       /\ action[a].state \in Verified \cup {"rejected"} => action'[a] = action[a]
       /\ action[a].state # "none" => action'[a].state # "none"]_vars

-----------------------------------------------------------------------------
(* The fence as its callers see it. *)

Fate(a) ==
  LET s == action[a].state IN
  CASE s \in Active -> "open"
    [] s = "verified_succeeded" -> "succeeded"
    [] s = "verified_failed" -> "failed"
    [] OTHER -> s

Promise == INSTANCE TargetFence WITH
  Changes <- Attempts,
  TargetOf <- [a \in Attempts |-> Target(a)],
  Jobs <- {a \in Attempts : ActionOf[Target(a)] # "configuration"},
  owner <- fence,
  fate <- [a \in Attempts |-> Fate(a)],
  sent <- {a \in Attempts : posts[a] > 0}

\* Works, leases, takeovers, polls and retries implement the fence: one open
\* change of a target at a time, requested at most once and never outside,
\* and closed for good (reserve_action, record_action_submission,
\* record_action_rejection, record_action_outcome and the controller's one
\* request).
ImplementsFence == Promise!Spec

-----------------------------------------------------------------------------
(* The inductive invariant behind the safety properties. *)

\* What an execution may rely on although it has lost its lease: its work
\* was stored; the request of its reservation is still unsent, or was sent by
\* it alone; and verification work is finalized only once the action is over.
Working == \A c \in Controllers : ~At(c, "idle") =>
  /\ WorkOf(c) \in Works
  /\ work[WorkOf(c)].state # "absent"
  /\ exec[c].own => IsSource(WorkOf(c))
  /\ exec[c].pc \in Submitting => exec[c].own /\ StateOf(c) # "none"
  /\ At(c, "posting") => posts[AttemptOf(c)] = 0
  /\ exec[c].pc \in {"throttled", "refused"} => remote[AttemptOf(c)] = "none"
  /\ (At(c, "finalizing") /\ ~IsSource(WorkOf(c))) => StateOf(c) \notin Active

\* An attempt is submitted by one execution only.
OneSubmitter == \A c, d \in Controllers :
  (c # d /\ exec[c].pc \in Submitting /\ exec[d].pc \in Submitting)
    => AttemptOf(c) # AttemptOf(d)

\* Without a reservation there is no request and no verification work, and
\* without a request no effect.
NothingBefore == \A a \in Attempts :
  /\ action[a].state = "none" =>
       posts[a] = 0 /\ \A v \in Verifications(a) : work[v].state = "absent"
  /\ posts[a] = 0 => remote[a] = "none"

VerificationKind == \A w \in Works :
  ~IsSource(w) => work[w].kind \in {"verify_action", "finalize"}

IInv ==
  /\ TypeOK
  /\ FenceExact
  /\ SubmittedOnce
  /\ SubmitInsideFence
  /\ UnverifiedIsPolled
  /\ RecordedIsReal
  /\ Working
  /\ OneSubmitter
  /\ NothingBefore
  /\ VerificationKind

-----------------------------------------------------------------------------
(* The inductive invariant behind the write budget, on top of IInv. *)

\* An attempt is made only after all earlier ones of its source were rejected.
RejectedBefore == \A a \in Attempts : action[a].state # "none" =>
  \A n \in 0 .. MaxAttempts : n < a[2] => action[<<a[1], n>>].state = "rejected"

\* What was rejected had no effect, and nobody is about to request it.
RejectedUnsent ==
  /\ \A a \in Attempts : action[a].state = "rejected" => remote[a] = "none"
  /\ \A c \in Controllers : At(c, "posting") => StateOf(c) # "rejected"

\* The sources of an incident that took a slot of its budget.
Spenders(i) == {s \in Sources : IncidentOf[s] = i /\ action[<<s, 0>>].state # "none"}

WritesCounted == \A i \in Incidents :
  /\ IsFiniteSet(Spenders(i))
  /\ writes[i] = Cardinality(Spenders(i))
  /\ writes[i] <= MaxWriteActions

BudgetInv == RejectedBefore /\ RejectedUnsent /\ WritesCounted
=============================================================================
