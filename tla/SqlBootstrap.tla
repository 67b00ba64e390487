---------------------------- MODULE SqlBootstrap ----------------------------
(***************************************************************************)
(* The one-time creation of the database (scripts/bootstrap_azure_sql.py): *)
(* apply, recover, reconcile and reconcile-recovery of reviewed bundles.   *)
(*                                                                         *)
(* Apply is two transactions under one application lock: the first commits *)
(* a "started" receipt, the second runs the bundle and turns the receipt   *)
(* to "committed".  An operation interrupted in between is adjudicated by  *)
(* recover, which licenses one reviewed replacement.                       *)
(***************************************************************************)
EXTENDS Integers, FiniteSets

CONSTANTS
  Operations,   \* reviewed bundles
  Deployers,    \* runs of the script
  None

\* No run of the script is about a bundle without a name.
BootstrapAssumption == None \notin Operations

VARIABLES
  receipt,      \* operation -> "none", "started" or "committed"
  recovery,     \* original operation -> its licensed replacement
  applied,      \* operation -> times its batches were committed
  deployer,     \* run -> [pc, op]
  told,         \* operations reported "committed_and_read_back"
  adjudged      \* <<original, replacement>> reported as adjudicated

vars == <<receipt, recovery, applied, deployer, told, adjudged>>

Disconnected == [pc |-> "idle", op |-> None]

TypeOK ==
  /\ receipt \in [Operations -> {"none", "started", "committed"}]
  /\ recovery \in [Operations -> Operations \cup {None}]
  /\ applied \in [Operations -> 0 .. 1]
  /\ deployer \in [Deployers -> [pc: {"idle", "connected", "started", "reading"},
                                 op: Operations \cup {None}]]
  /\ told \subseteq Operations
  /\ adjudged \subseteq Operations \X Operations

Init ==
  /\ receipt = [o \in Operations |-> "none"]
  /\ recovery = [o \in Operations |-> None]
  /\ applied = [o \in Operations |-> 0]
  /\ deployer = [d \in Deployers |-> Disconnected]
  /\ told = {}
  /\ adjudged = {}

At(d, pc) == deployer[d].pc = pc
Op(d) == deployer[d].op
Goes(d, pc) == deployer' = [deployer EXCEPT ![d] = IF pc = "idle" THEN Disconnected ELSE [@ EXCEPT !.pc = pc]]

\* check_sql_target: a session of the DDL owner on the reviewed database.
Connect(d, o) ==
  /\ At(d, "idle")
  /\ deployer' = [deployer EXCEPT ![d] = [pc |-> "connected", op |-> o]]
  /\ UNCHANGED <<receipt, recovery, applied, told, adjudged>>

\* Refused, interrupted, or left without the outcome of a transaction.
Disconnect(d) ==
  /\ ~At(d, "idle")
  /\ Goes(d, "idle")
  /\ UNCHANGED <<receipt, recovery, applied, told, adjudged>>

-----------------------------------------------------------------------------
(* apply *)

\* _pending_count: a start blocks every operation but its licensed replacement,
\* until that has committed.
Pending(o) ==
  {r \in Operations :
    /\ receipt[r] = "started"
    /\ recovery[r] = None
         \/ (recovery[r] # o /\ receipt[recovery[r]] # "committed")}

MayBegin(o) == receipt[o] = "none" /\ Pending(o) = {}

Start(d) ==
  LET o == Op(d) IN
  /\ At(d, "connected")
  /\ MayBegin(o)
  /\ receipt' = [receipt EXCEPT ![o] = "started"]
  /\ Goes(d, "started") \/ Goes(d, "idle")
  /\ UNCHANGED <<recovery, applied, told, adjudged>>

\* A committed receipt is only read back.
Replay(d) ==
  /\ At(d, "connected")
  /\ receipt[Op(d)] = "committed"
  /\ told' = told \cup {Op(d)}
  /\ Goes(d, "idle")
  /\ UNCHANGED <<receipt, recovery, applied, adjudged>>

MayRun(o) == receipt[o] = "started" /\ recovery[o] = None

CompleteReceipt(o) == receipt' = [receipt EXCEPT ![o] = "committed"]

\* Batches, metadata checks and the completed receipt are one transaction.
RunBatches(d) ==
  LET o == Op(d) IN
  /\ At(d, "started")
  /\ MayRun(o)
  /\ applied' = [applied EXCEPT ![o] = @ + 1]
  /\ CompleteReceipt(o)
  /\ Goes(d, "reading") \/ Goes(d, "idle")
  /\ UNCHANGED <<recovery, told, adjudged>>

ReadsCommitted(o) == receipt[o] = "committed"

\* reconcile, also on its own for an operation whose outcome was lost.
Reconcile(d) ==
  /\ At(d, "reading") \/ At(d, "connected")
  /\ ReadsCommitted(Op(d))
  /\ told' = told \cup {Op(d)}
  /\ Goes(d, "idle")
  /\ UNCHANGED <<receipt, recovery, applied, adjudged>>

-----------------------------------------------------------------------------
(* recover *)

\* _original_receipt
StillStarted(a) == receipt[a] = "started"

\* recovery_baseline_fingerprint: the reviewed empty database.
Empty == \A o \in Operations : applied[o] = 0

\* A slip: a receipt of the original is enough.
AdjudicableAny(d, a) ==
  /\ receipt[a] # "none"
  /\ \A e \in Deployers \ {d} : At(e, "idle")
  /\ {r \in Operations : receipt[r] # "none"} = {a}

\* The original is started, no other session is connected, nothing was created
\* and there is no other receipt.
Adjudicable(d, a) ==
  /\ StillStarted(a)
  /\ \A e \in Deployers \ {d} : At(e, "idle")
  /\ Empty
  /\ {r \in Operations : receipt[r] # "none"} = {a}

\* _recovery_readback
Adjudicated(a, b) == recovery[a] = b

\* One row per original; the same request reads it back.
Recover(d, a) ==
  LET b == Op(d) IN
  /\ At(d, "connected")
  /\ a # b
  /\ \/ Adjudicated(a, b) /\ StillStarted(a) /\ UNCHANGED recovery
     \/ Adjudicated(a, None) /\ Adjudicable(d, a) /\ recovery' = [recovery EXCEPT ![a] = b]
  /\ adjudged' \in {adjudged, adjudged \cup {<<a, b>>}}
  /\ Goes(d, "idle")
  /\ UNCHANGED <<receipt, applied, told>>

\* Reads only: a missing row is no license to write one.
ReconcileRecovery(d, a) ==
  /\ At(d, "connected")
  /\ StillStarted(a) /\ Adjudicated(a, Op(d))
  /\ adjudged' = adjudged \cup {<<a, Op(d)>>}
  /\ Goes(d, "idle")
  /\ UNCHANGED <<receipt, recovery, applied, told>>

Next == \E d \in Deployers :
  \/ \E o \in Operations : Connect(d, o) \/ Recover(d, o) \/ ReconcileRecovery(d, o)
  \/ Start(d) \/ Replay(d) \/ RunBatches(d) \/ Reconcile(d) \/ Disconnect(d)

Spec == Init /\ [][Next]_vars
-----------------------------------------------------------------------------
(* Safety. *)

\* A bundle is in the database exactly when its receipt says so, and it was
\* run once, wherever a run of the script was interrupted (run, reconcile).
ReceiptIsTrue == \A o \in Operations :
  applied[o] = (IF receipt[o] = "committed" THEN 1 ELSE 0)

\* An operation adjudicated as rolled back never takes effect: not before, and
\* not by a run of the script that was only slow (recover, run).
AdjudicatedNeverApplies == \A o \in Operations :
  recovery[o] # None => applied[o] = 0

\* Until the licensed replacement has committed nothing but it may follow the
\* interrupted original (_pending_count).
ReplacementFirst == \A a \in Operations :
  recovery[a] # None /\ receipt[recovery[a]] # "committed" =>
    \A o \in Operations \ {a, recovery[a]} : receipt[o] = "none"

\* What a run reports is so for good: a bundle committed and read back, and a
\* rollback adjudicated to a replacement (reconcile, reconcile_recovery).
ToldIsTrue ==
  /\ \A o \in told : applied[o] = 1
  /\ \A pair \in adjudged : recovery[pair[1]] = pair[2] /\ applied[pair[1]] = 0

\* Two bundles are never half way at once unless one replaces the other, so
\* no bundle is planned on top of one whose outcome is unknown (run).
OneOpen == \A a, b \in Operations :
  a # b /\ receipt[a] = "started" /\ receipt[b] = "started" =>
    recovery[a] # None \/ recovery[b] # None

\* Receipts are true, adjudications final, replacements first, one at a time.
BootstrapSafe ==
  /\ TypeOK
  /\ ReceiptIsTrue
  /\ AdjudicatedNeverApplies
  /\ ReplacementFirst
  /\ ToldIsTrue
  /\ OneOpen

-----------------------------------------------------------------------------
(* What holds at every step, strong enough to be preserved by each one. *)

\* Whoever is at work has an operation.
SessionsBusy == \A d \in Deployers : ~At(d, "idle") => Op(d) \in Operations

\* An operation that was adjudicated stays half way, and is not its own
\* replacement: recover asks for its start, and the run that made the start
\* looks for an adjudication before it commits.
AdjudicatedStaysOpen == \A o \in Operations :
  recovery[o] # None => receipt[o] = "started" /\ recovery[o] # o

BootstrapInv == BootstrapSafe /\ SessionsBusy /\ AdjudicatedStaysOpen
=============================================================================
