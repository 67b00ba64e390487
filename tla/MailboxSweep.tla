---------------------------- MODULE MailboxSweep ----------------------------
(***************************************************************************)
(* _drain_mailbox (src/app.py): overlapping hosted invocations read one    *)
(* mailbox, take a claim per alert, triage it, mark it processed and       *)
(* release the claim.  Whether an alert was already handled is read when   *)
(* the mailbox is fetched and is not read again under the claim.           *)
(***************************************************************************)
EXTENDS ClaimStore, FiniteSets

CONSTANTS
  MaxCrashes    \* how many invocations may die in the middle of a sweep

ASSUME MaxCrashesAssumption == MaxCrashes \in Nat

VARIABLES
  processed,    \* the alerts in the durable processed-message log
  recorded,     \* the alerts whose triage outcome is persisted
  pc,           \* where each invocation is in its sweep
  unread,       \* mailbox messages this invocation has not classified yet
  fetched,      \* the alerts its fetch returned and it has not tried yet
  alert,        \* the alert it is working on
  left,         \* ticks left of the lease it took for that alert
  crashes       \* invocations lost so far

sweepVars == <<processed, recorded, pc, unread, fetched, alert, left, crashes>>
vars == <<claimVars, sweepVars>>

Alerts == Keys
NoAlert == NoInstance

Steps == {"idle", "reading", "choosing", "stealing", "running", "marking",
          "releasing", "aborting"}

\* The steps at which an invocation is inside the claim it took.
Inside == {"running", "marking", "releasing", "aborting"}

TypeOK ==
  /\ ClaimTypeOK
  /\ processed \subseteq Alerts
  /\ recorded \subseteq Alerts
  /\ pc \in [Instances -> Steps]
  /\ unread \in [Instances -> SUBSET Alerts]
  /\ fetched \in [Instances -> SUBSET Alerts]
  /\ alert \in [Instances -> Alerts \cup {NoAlert}]
  /\ left \in [Instances -> 0..Lease]
  /\ crashes \in 0..MaxCrashes

Init ==
  /\ ClaimInit
  /\ processed = {}
  /\ recorded = {}
  /\ pc = [i \in Instances |-> "idle"]
  /\ unread = [i \in Instances |-> {}]
  /\ fetched = [i \in Instances |-> {}]
  /\ alert = [i \in Instances |-> NoAlert]
  /\ left = [i \in Instances |-> 0]
  /\ crashes = 0

-----------------------------------------------------------------------------
Goto(i, from, to) ==
  /\ pc[i] = from
  /\ pc' = [pc EXCEPT ![i] = to]

\* A sweep starts: the mailbox is listed.
StartFetch(i) ==
  /\ Goto(i, "idle", "reading")
  /\ unread' = [unread EXCEPT ![i] = Alerts]
  /\ UNCHANGED <<claimVars, processed, recorded, fetched, alert, left, crashes>>

\* Mutant: a message somebody has a claim row for is dropped at the fetch.
ClassifyUnclaimed(i, m) ==
  /\ pc[i] = "reading"
  /\ m \in unread[i]
  /\ unread' = [unread EXCEPT ![i] = @ \ {m}]
  /\ fetched' = [fetched EXCEPT ![i] =
                   IF m \in processed \/ HasRow(m) THEN @ ELSE @ \cup {m}]
  /\ UNCHANGED <<claimVars, processed, recorded, pc, alert, left, crashes>>

\* _classify: one message, dropped when the processed log has seen it.
Classify(i, m) ==
  /\ pc[i] = "reading"
  /\ m \in unread[i]
  /\ unread' = [unread EXCEPT ![i] = @ \ {m}]
  /\ fetched' = [fetched EXCEPT ![i] = IF m \in processed THEN @ ELSE @ \cup {m}]
  /\ UNCHANGED <<claimVars, processed, recorded, pc, alert, left, crashes>>

EndFetch(i) ==
  /\ unread[i] = {}
  /\ Goto(i, "reading", "choosing")
  /\ UNCHANGED <<claimVars, processed, recorded, unread, fetched, alert, left, crashes>>

\* The mailbox or the processed log cannot be read: the sweep is over.
FetchFails(i) ==
  /\ Goto(i, "reading", "idle")
  /\ unread' = [unread EXCEPT ![i] = {}]
  /\ fetched' = [fetched EXCEPT ![i] = {}]
  /\ UNCHANGED <<claimVars, processed, recorded, alert, left, crashes>>

\* The loop has tried every alert it fetched.
EndSweep(i) ==
  /\ fetched[i] = {}
  /\ Goto(i, "choosing", "idle")
  /\ UNCHANGED <<claimVars, processed, recorded, unread, fetched, alert, left, crashes>>

Take(i, m) ==
  /\ fetched' = [fetched EXCEPT ![i] = @ \ {m}]
  /\ alert' = [alert EXCEPT ![i] = m]

\* claim() returned True: run_request starts under a whole lease.
Enter(i) ==
  /\ left' = [left EXCEPT ![i] = Lease]
  /\ pc' = [pc EXCEPT ![i] = "running"]

ClaimByInsert(i, m) ==
  /\ pc[i] = "choosing"
  /\ m \in fetched[i]
  /\ InsertClaim(i, m)
  /\ Take(i, m)
  /\ Enter(i)
  /\ UNCHANGED <<processed, recorded, unread, crashes>>

\* The key exists: claim() goes on to its conditional UPDATE.
ClaimDuplicate(i, m) ==
  /\ m \in fetched[i]
  /\ HasRow(m)
  /\ Goto(i, "choosing", "stealing")
  /\ Take(i, m)
  /\ UNCHANGED <<claimVars, processed, recorded, unread, left, crashes>>

\* The claim could not be taken: skip the alert and go on with the next.
ClaimUnconfirmed(i, m) ==
  /\ pc[i] = "choosing"
  /\ m \in fetched[i]
  /\ InsertUnconfirmed(i, m)
  /\ fetched' = [fetched EXCEPT ![i] = @ \ {m}]
  /\ UNCHANGED <<processed, recorded, pc, unread, alert, left, crashes>>

ClaimBySteal(i) ==
  /\ pc[i] = "stealing"
  /\ StealClaim(i, alert[i])
  /\ Enter(i)
  /\ UNCHANGED <<processed, recorded, unread, fetched, alert, crashes>>

ClaimRefused(i) ==
  /\ Goto(i, "stealing", "choosing")
  /\ StealRefused(i, alert[i])
  /\ alert' = [alert EXCEPT ![i] = NoAlert]
  /\ UNCHANGED <<processed, recorded, unread, fetched, left, crashes>>

\* run_request returned: the outcome of this alert is persisted.
FinishRun(i) ==
  /\ Goto(i, "running", "marking")
  /\ recorded' = recorded \cup {alert[i]}
  /\ UNCHANGED <<claimVars, processed, unread, fetched, alert, left, crashes>>

\* run_request raised: the finally clause releases and the sweep is aborted.
RunFails(i) ==
  /\ Goto(i, "running", "aborting")
  /\ UNCHANGED <<claimVars, processed, recorded, unread, fetched, alert, left, crashes>>

\* mark_processed is written.
MarkProcessed(i) ==
  /\ Goto(i, "marking", "releasing")
  /\ processed' = processed \cup {alert[i]}
  /\ UNCHANGED <<claimVars, recorded, unread, fetched, alert, left, crashes>>

\* mark_processed raised: the write is unconfirmed, and may have committed.
MarkFails(i) ==
  /\ Goto(i, "marking", "aborting")
  /\ processed' \in {processed, processed \cup {alert[i]}}
  /\ UNCHANGED <<claimVars, recorded, unread, fetched, alert, left, crashes>>

\* The finally clause, after a success (next alert) or an exception (the
\* exception leaves _drain_mailbox, and the rest of the sweep with it).
Release(i) ==
  /\ \/ Goto(i, "releasing", "choosing") /\ UNCHANGED fetched
     \/ Goto(i, "aborting", "idle") /\ fetched' = [fetched EXCEPT ![i] = {}]
  /\ ReleaseClaim(i, alert[i])
  /\ left' = [left EXCEPT ![i] = 0]
  /\ alert' = [alert EXCEPT ![i] = NoAlert]
  /\ UNCHANGED <<processed, recorded, unread, crashes>>

\* The container dies; the next request constructs everything afresh.
Crash(i) ==
  /\ pc[i] # "idle"
  /\ crashes < MaxCrashes
  /\ crashes' = crashes + 1
  /\ LoseInstance(i)
  /\ pc' = [pc EXCEPT ![i] = "idle"]
  /\ unread' = [unread EXCEPT ![i] = {}]
  /\ fetched' = [fetched EXCEPT ![i] = {}]
  /\ alert' = [alert EXCEPT ![i] = NoAlert]
  /\ left' = [left EXCEPT ![i] = 0]
  /\ UNCHANGED <<processed, recorded>>

Tick ==
  /\ ClockTick
  /\ left' = [i \in Instances |-> Ticked(left[i])]
  /\ UNCHANGED <<processed, recorded, pc, unread, fetched, alert, crashes>>

Invocation(i) ==
  \/ StartFetch(i) \/ FetchFails(i) \/ EndFetch(i) \/ EndSweep(i)
  \/ \E m \in Alerts :
       \/ Classify(i, m) \/ ClaimByInsert(i, m)
       \/ ClaimDuplicate(i, m) \/ ClaimUnconfirmed(i, m)
  \/ ClaimBySteal(i) \/ ClaimRefused(i)
  \/ FinishRun(i) \/ RunFails(i)
  \/ MarkProcessed(i) \/ MarkFails(i)
  \/ Release(i)

Next ==
  \/ \E i \in Instances : Invocation(i) \/ Crash(i)
  \/ Tick

Spec == Init /\ [][Next]_vars

(***************************************************************************)
(* Fairness: the scheduler keeps starting sweeps and a started sweep goes  *)
(* on; the database clock advances; and no fault is permanent, so a        *)
(* statement or a run that is tried again and again finally succeeds.      *)
(***************************************************************************)
Fairness ==
  /\ WF_vars(Tick)
  /\ \A i \in Instances :
       /\ WF_vars(Invocation(i))
       /\ SF_vars(EndFetch(i))
       /\ SF_vars(ClaimBySteal(i))
       /\ SF_vars(FinishRun(i))
       /\ SF_vars(MarkProcessed(i))
       /\ \A m \in Alerts :
            /\ SF_vars(Classify(i, m))
            /\ SF_vars(ClaimByInsert(i, m))
            /\ SF_vars(ClaimDuplicate(i, m))

FairSpec == Spec /\ Fairness

-----------------------------------------------------------------------------
\* Two invocations triage the same alert at the same time only when the
\* lease of one of them has run out: within its lease an invocation has the
\* alert to itself, whatever the others steal, release or lose (claim and
\* release, store/claims.py).
OverlapNeedsOverrun ==
  \A i, j \in Instances :
    (i # j /\ pc[i] \in Inside /\ pc[j] \in Inside /\ alert[i] = alert[j])
      => left[i] = 0 \/ left[j] = 0

\* An alert is in the processed log only when its triage outcome is
\* persisted, so a crash at any point can repeat an alert but never lose it
\* (the order of run_request and mark_processed in _drain_mailbox).
ProcessedIsRecorded == processed \subseteq recorded

\* Every alert in the mailbox is finally triaged and marked, although
\* invocations crash holding its claim and claims fail unconfirmed.
EveryAlertHandled == \A m \in Alerts : <>(m \in processed)

-----------------------------------------------------------------------------
(* What holds at every step, strong enough to be preserved by each one.    *)

\* While an invocation's lease lasts, the row of its alert is its own and
\* expires exactly when its lease does.
LeaseIsRow ==
  \A i \in Instances :
    (pc[i] \in Inside /\ left[i] > 0)
      => rows[alert[i]] = [owner |-> i, left |-> left[i]]

\* An invocation past "choosing" has an alert, and what it is about to mark
\* is recorded.
AlertChosen ==
  \A i \in Instances :
    /\ pc[i] \in Inside \cup {"stealing"} => alert[i] \in Alerts
    /\ pc[i] = "marking" => alert[i] \in recorded

IInv == TypeOK /\ LeaseIsRow /\ AlertChosen /\ ProcessedIsRecorded
=============================================================================
