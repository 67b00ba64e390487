-------------------------- MODULE DeploymentProofs --------------------------
(***************************************************************************)
(* The tools of a deployment are safe for any number of operators, plans,  *)
(* bundles and runs: the bootstrap of the database wherever it is          *)
(* interrupted, and the reset beside the services it stops.                *)
(***************************************************************************)
EXTENDS Deployment, FiniteSetTheorems, TLAPS

-----------------------------------------------------------------------------
(* The bootstrap of the database. *)

\* A step of one run leaves every run with an operation at work.
LEMMA SessionStep ==
  ASSUME Bootstrap!TypeOK, Bootstrap!SessionsBusy, NEW d \in Deployers, ~Bootstrap!At(d, "idle"),
         NEW pc \in {"idle", "connected", "started", "reading"}, Bootstrap!Goes(d, pc)
  PROVE  /\ deployer' \in [Deployers -> [pc: {"idle", "connected", "started", "reading"},
                                         op: Migrations \cup {Nobody}]]
         /\ Bootstrap!SessionsBusy'
  BY DEF Bootstrap!TypeOK, Bootstrap!SessionsBusy, Bootstrap!Goes, Bootstrap!Disconnected,
     Bootstrap!At, Bootstrap!Op

THEOREM BootstrapInit == Bootstrap!Init => Bootstrap!BootstrapInv
  BY DEF Bootstrap!Init, Bootstrap!BootstrapInv, Bootstrap!BootstrapSafe, Bootstrap!TypeOK,
     Bootstrap!ReceiptIsTrue, Bootstrap!AdjudicatedNeverApplies,
     Bootstrap!ReplacementFirst, Bootstrap!ToldIsTrue, Bootstrap!OneOpen, Bootstrap!SessionsBusy,
     Bootstrap!AdjudicatedStaysOpen,
     Bootstrap!Disconnected, Bootstrap!At, Bootstrap!Op

\* A session comes or goes, or a read is reported as it was made.
LEMMA ReportStep ==
  ASSUME Bootstrap!BootstrapAssumption, Bootstrap!BootstrapInv, NEW d \in Deployers,
         \/ \E o \in Migrations : Bootstrap!Connect(d, o) \/ Bootstrap!ReconcileRecovery(d, o)
         \/ Bootstrap!Replay(d) \/ Bootstrap!Reconcile(d) \/ Bootstrap!Disconnect(d)
  PROVE  Bootstrap!BootstrapInv'
  <1>1. /\ deployer' \in [Deployers -> [pc: {"idle", "connected", "started", "reading"},
                                        op: Migrations \cup {Nobody}]]
        /\ Bootstrap!SessionsBusy'
    <2>1. CASE \E o \in Migrations : Bootstrap!Connect(d, o)
      BY <2>1 DEF Bootstrap!BootstrapInv, Bootstrap!BootstrapSafe, Bootstrap!TypeOK,
         Bootstrap!SessionsBusy, Bootstrap!Connect, Bootstrap!At, Bootstrap!Op
    <2>2. CASE \E o \in Migrations : Bootstrap!ReconcileRecovery(d, o)
      BY <2>2, SessionStep DEF Bootstrap!BootstrapInv, Bootstrap!BootstrapSafe,
         Bootstrap!ReconcileRecovery, Bootstrap!At
    <2>3. CASE Bootstrap!Replay(d) \/ Bootstrap!Reconcile(d) \/ Bootstrap!Disconnect(d)
      BY <2>3, SessionStep DEF Bootstrap!BootstrapInv, Bootstrap!BootstrapSafe, Bootstrap!Replay,
         Bootstrap!Reconcile, Bootstrap!Disconnect, Bootstrap!At
    <2> QED BY <2>1, <2>2, <2>3
  <1>2. UNCHANGED <<receipt, recovery, applied>>
    BY DEF Bootstrap!Connect, Bootstrap!ReconcileRecovery, Bootstrap!Replay, Bootstrap!Reconcile,
       Bootstrap!Disconnect
  <1>3. Bootstrap!Op(d) \in Migrations \/ UNCHANGED <<told, adjudged>>
    BY DEF Bootstrap!BootstrapInv, Bootstrap!SessionsBusy, Bootstrap!Connect,
       Bootstrap!ReconcileRecovery, Bootstrap!Replay, Bootstrap!Reconcile, Bootstrap!Disconnect,
       Bootstrap!At
  <1>4. /\ told' \subseteq Migrations
        /\ adjudged' \subseteq Migrations \X Migrations
    BY <1>3 DEF Bootstrap!BootstrapInv, Bootstrap!BootstrapSafe, Bootstrap!TypeOK,
       Bootstrap!Connect, Bootstrap!ReconcileRecovery, Bootstrap!Replay,
       Bootstrap!Reconcile, Bootstrap!Disconnect
  <1>5. /\ \A o \in told' : receipt[o] = "committed"  \/ o \in told
        /\ \A pair \in adjudged' : recovery[pair[1]] = pair[2] \/ pair \in adjudged
    BY DEF Bootstrap!Connect, Bootstrap!ReconcileRecovery, Bootstrap!Replay, Bootstrap!Reconcile,
       Bootstrap!ReadsCommitted, Bootstrap!Disconnect, Bootstrap!Adjudicated
  <1>6. /\ \A o \in told' : applied[o] = 1
        /\ \A pair \in adjudged' : recovery[pair[1]] = pair[2] /\ applied[pair[1]] = 0
    <2>1. ASSUME NEW o \in told' PROVE applied[o] = 1
      BY <1>4, <1>5 DEF Bootstrap!BootstrapInv, Bootstrap!BootstrapSafe, Bootstrap!ToldIsTrue,
         Bootstrap!ReceiptIsTrue
    <2>2. ASSUME NEW pair \in adjudged' PROVE recovery[pair[1]] = pair[2] /\ applied[pair[1]] = 0
      <3>1. pair[1] \in Migrations /\ pair[2] \in Migrations
        BY <1>4
      <3> QED
        BY <1>5, <3>1 DEF Bootstrap!BootstrapInv, Bootstrap!BootstrapSafe, Bootstrap!ToldIsTrue,
           Bootstrap!AdjudicatedNeverApplies,
           Bootstrap!BootstrapAssumption
    <2> QED BY <2>1, <2>2
  <1>7. Bootstrap!ToldIsTrue'
    BY <1>2, <1>6 DEF Bootstrap!ToldIsTrue
  <1> QED
    BY <1>1, <1>2, <1>4, <1>7 DEF Bootstrap!BootstrapInv, Bootstrap!BootstrapSafe,
       Bootstrap!TypeOK, Bootstrap!ReceiptIsTrue,
       Bootstrap!AdjudicatedNeverApplies, Bootstrap!ReplacementFirst, Bootstrap!OneOpen,
       Bootstrap!AdjudicatedStaysOpen

\* A bundle is begun: nothing else is half way, but what it replaces.
LEMMA StartStep ==
  ASSUME Bootstrap!BootstrapInv, NEW d \in Deployers, Bootstrap!Start(d)
  PROVE  Bootstrap!BootstrapInv'
  <1> DEFINE o == Bootstrap!Op(d)
  <1>1. /\ o \in Migrations /\ receipt[o] = "none"
        /\ receipt' = [receipt EXCEPT ![o] = "started"]
        /\ UNCHANGED <<recovery, applied, told, adjudged>>
    BY DEF Bootstrap!Start, Bootstrap!MayBegin, Bootstrap!BootstrapInv, Bootstrap!SessionsBusy,
       Bootstrap!At
  <1>2. \A r \in Migrations : receipt[r] = "started" =>
          recovery[r] # Nobody /\ (recovery[r] = o \/ receipt[recovery[r]] = "committed")
    BY DEF Bootstrap!Start, Bootstrap!MayBegin, Bootstrap!Pending
  <1>3. /\ deployer' \in [Deployers -> [pc: {"idle", "connected", "started", "reading"},
                                        op: Migrations \cup {Nobody}]]
        /\ Bootstrap!SessionsBusy'
    BY SessionStep DEF Bootstrap!Start, Bootstrap!BootstrapInv, Bootstrap!BootstrapSafe,
       Bootstrap!At
  <1>4. Bootstrap!TypeOK'
    BY <1>1, <1>3 DEF Bootstrap!BootstrapInv, Bootstrap!BootstrapSafe, Bootstrap!TypeOK
  <1>5. Bootstrap!ReceiptIsTrue' /\ Bootstrap!AdjudicatedNeverApplies' /\ Bootstrap!ToldIsTrue'
    BY <1>1 DEF Bootstrap!BootstrapInv, Bootstrap!BootstrapSafe, Bootstrap!TypeOK,
       Bootstrap!ReceiptIsTrue, Bootstrap!AdjudicatedNeverApplies, Bootstrap!ToldIsTrue
  <1>6. Bootstrap!AdjudicatedStaysOpen'
    BY <1>1 DEF Bootstrap!BootstrapInv, Bootstrap!BootstrapSafe, Bootstrap!TypeOK,
       Bootstrap!AdjudicatedStaysOpen
  <1>7. Bootstrap!ReplacementFirst'
    <2>1. SUFFICES ASSUME NEW a \in Migrations, recovery[a] # Nobody,
                          receipt'[recovery[a]] # "committed",
                          NEW p \in Migrations \ {a, recovery[a]}
                   PROVE  receipt'[p] = "none"
      BY <1>1 DEF Bootstrap!ReplacementFirst
    <2>2. receipt[a] = "started" /\ recovery[a] \in Migrations
      BY <2>1 DEF Bootstrap!BootstrapInv, Bootstrap!BootstrapSafe, Bootstrap!TypeOK,
         Bootstrap!AdjudicatedStaysOpen
    <2>3. receipt[recovery[a]] # "committed"
      BY <1>1, <2>1, <2>2 DEF Bootstrap!BootstrapInv, Bootstrap!BootstrapSafe, Bootstrap!TypeOK
    <2>4. recovery[a] = o
      BY <1>2, <2>2, <2>3
    <2> QED
      BY <1>1, <2>1, <2>3, <2>4
         DEF Bootstrap!BootstrapInv, Bootstrap!BootstrapSafe, Bootstrap!TypeOK,
         Bootstrap!ReplacementFirst
  <1>8. Bootstrap!OneOpen'
    BY <1>1, <1>2 DEF Bootstrap!BootstrapInv, Bootstrap!BootstrapSafe, Bootstrap!TypeOK,
       Bootstrap!OneOpen
  <1> QED BY <1>3, <1>4, <1>5, <1>6, <1>7, <1>8 DEF Bootstrap!BootstrapInv, Bootstrap!BootstrapSafe

\* A bundle is committed with its receipt, unless it was adjudicated.
LEMMA RunStep ==
  ASSUME Bootstrap!BootstrapAssumption, Bootstrap!BootstrapInv, NEW d \in Deployers, Bootstrap!RunBatches(d)
  PROVE  Bootstrap!BootstrapInv'
  <1> DEFINE o == Bootstrap!Op(d)
  <1>1. /\ o \in Migrations /\ receipt[o] = "started" /\ recovery[o] = Nobody
        /\ receipt' = [receipt EXCEPT ![o] = "committed"]
        /\ applied' = [applied EXCEPT ![o] = @ + 1]
        /\ UNCHANGED <<recovery, told, adjudged>>
    BY DEF Bootstrap!RunBatches, Bootstrap!MayRun, Bootstrap!CompleteReceipt,
       Bootstrap!BootstrapInv, Bootstrap!SessionsBusy, Bootstrap!At
  <1>2. /\ deployer' \in [Deployers -> [pc: {"idle", "connected", "started", "reading"},
                                        op: Migrations \cup {Nobody}]]
        /\ Bootstrap!SessionsBusy'
    BY SessionStep DEF Bootstrap!RunBatches, Bootstrap!BootstrapInv, Bootstrap!BootstrapSafe,
       Bootstrap!At
  <1>3. applied[o] = 0 /\ applied'[o] = 1
    BY <1>1 DEF Bootstrap!BootstrapInv, Bootstrap!BootstrapSafe, Bootstrap!TypeOK,
       Bootstrap!ReceiptIsTrue
  <1>4. Bootstrap!TypeOK'
    BY <1>1, <1>2, <1>3 DEF Bootstrap!BootstrapInv, Bootstrap!BootstrapSafe, Bootstrap!TypeOK
  <1>5. Bootstrap!ReceiptIsTrue'
    BY <1>1, <1>3 DEF Bootstrap!BootstrapInv, Bootstrap!BootstrapSafe, Bootstrap!TypeOK,
       Bootstrap!ReceiptIsTrue
  <1>6. Bootstrap!AdjudicatedNeverApplies' /\ Bootstrap!AdjudicatedStaysOpen'
    BY <1>1 DEF Bootstrap!BootstrapInv, Bootstrap!BootstrapSafe, Bootstrap!TypeOK,
       Bootstrap!AdjudicatedNeverApplies, Bootstrap!AdjudicatedStaysOpen
  <1>7. Bootstrap!ToldIsTrue'
    <2>1. ASSUME NEW p \in told PROVE p # o
      BY <1>3 DEF Bootstrap!BootstrapInv, Bootstrap!BootstrapSafe, Bootstrap!ToldIsTrue
    <2>2. ASSUME NEW pair \in adjudged PROVE pair[1] \in Migrations /\ pair[1] # o
      <3>1. pair[1] \in Migrations /\ pair[2] \in Migrations
        BY DEF Bootstrap!BootstrapInv, Bootstrap!BootstrapSafe, Bootstrap!TypeOK
      <3>2. recovery[pair[1]] = pair[2]
        BY DEF Bootstrap!BootstrapInv, Bootstrap!BootstrapSafe, Bootstrap!ToldIsTrue
      <3> QED BY <1>1, <3>1, <3>2 DEF Bootstrap!BootstrapAssumption
    <2> QED BY <1>1, <2>1, <2>2
           DEF Bootstrap!BootstrapInv, Bootstrap!BootstrapSafe, Bootstrap!TypeOK,
           Bootstrap!ToldIsTrue
  <1>8. Bootstrap!ReplacementFirst'
    <2>1. SUFFICES ASSUME NEW a \in Migrations, recovery[a] # Nobody,
                          receipt'[recovery[a]] # "committed",
                          NEW p \in Migrations \ {a, recovery[a]}
                   PROVE  receipt'[p] = "none"
      BY <1>1 DEF Bootstrap!ReplacementFirst
    <2>2. recovery[a] \in Migrations /\ recovery[a] # o
      BY <1>1, <2>1 DEF Bootstrap!BootstrapInv, Bootstrap!BootstrapSafe, Bootstrap!TypeOK
    <2>3. receipt[recovery[a]] # "committed"
      BY <1>1, <2>1, <2>2 DEF Bootstrap!BootstrapInv, Bootstrap!BootstrapSafe, Bootstrap!TypeOK
    <2>4. o = a
      BY <1>1, <2>2, <2>3, <2>1
         DEF Bootstrap!BootstrapInv, Bootstrap!BootstrapSafe, Bootstrap!ReplacementFirst
    <2> QED BY <1>1, <2>1, <2>4
  <1>9. Bootstrap!OneOpen'
    BY <1>1 DEF Bootstrap!BootstrapInv, Bootstrap!BootstrapSafe, Bootstrap!TypeOK, Bootstrap!OneOpen
  <1> QED BY <1>4, <1>5, <1>6, <1>7, <1>8, <1>9, <1>2
         DEF Bootstrap!BootstrapInv, Bootstrap!BootstrapSafe

\* A person adjudicates the only receipt of an empty database.
LEMMA RecoverStep ==
  ASSUME Bootstrap!BootstrapAssumption, Bootstrap!BootstrapInv, NEW d \in Deployers, NEW a \in Migrations,
         Bootstrap!Recover(d, a)
  PROVE  Bootstrap!BootstrapInv'
  <1> DEFINE b == Bootstrap!Op(d)
  <1>1. b \in Migrations /\ a # b /\ receipt[a] = "started"
        /\ UNCHANGED <<receipt, applied, told>>
        /\ adjudged' \in {adjudged, adjudged \cup {<<a, b>>}}
    BY DEF Bootstrap!Recover, Bootstrap!StillStarted, Bootstrap!Adjudicable,
       Bootstrap!BootstrapInv, Bootstrap!SessionsBusy, Bootstrap!At
  <1>2. /\ deployer' \in [Deployers -> [pc: {"idle", "connected", "started", "reading"},
                                        op: Migrations \cup {Nobody}]]
        /\ Bootstrap!SessionsBusy'
    BY SessionStep DEF Bootstrap!Recover, Bootstrap!BootstrapInv, Bootstrap!BootstrapSafe,
       Bootstrap!At
  <1>3. /\ recovery' = [recovery EXCEPT ![a] = b]
        /\ recovery[a] = b \/ (recovery[a] = Nobody /\ Bootstrap!Adjudicable(d, a))
    BY <1>1 DEF Bootstrap!Recover, Bootstrap!Adjudicated, Bootstrap!BootstrapInv,
       Bootstrap!BootstrapSafe, Bootstrap!TypeOK
  <1>4. Bootstrap!TypeOK'
    BY <1>1, <1>2, <1>3 DEF Bootstrap!BootstrapInv, Bootstrap!BootstrapSafe, Bootstrap!TypeOK
  <1>5. Bootstrap!ReceiptIsTrue' /\ Bootstrap!AdjudicatedStaysOpen' /\ Bootstrap!OneOpen'
    BY <1>1, <1>3 DEF Bootstrap!BootstrapInv, Bootstrap!BootstrapSafe, Bootstrap!TypeOK,
       Bootstrap!ReceiptIsTrue, Bootstrap!AdjudicatedStaysOpen,
       Bootstrap!OneOpen, Bootstrap!BootstrapAssumption
  <1>6. applied[a] = 0
    BY <1>3, <1>1 DEF Bootstrap!Adjudicable, Bootstrap!Empty, Bootstrap!BootstrapInv,
       Bootstrap!BootstrapSafe, Bootstrap!AdjudicatedNeverApplies,
       Bootstrap!BootstrapAssumption
  <1>7. Bootstrap!AdjudicatedNeverApplies'
    BY <1>1, <1>3, <1>6 DEF Bootstrap!BootstrapInv, Bootstrap!BootstrapSafe, Bootstrap!TypeOK,
       Bootstrap!AdjudicatedNeverApplies
  <1>8. Bootstrap!ToldIsTrue'
    <2>1. ASSUME NEW pair \in adjudged
          PROVE  recovery'[pair[1]] = pair[2] /\ applied[pair[1]] = 0
      <3>1. pair[1] \in Migrations /\ pair[2] \in Migrations
        BY DEF Bootstrap!BootstrapInv, Bootstrap!BootstrapSafe, Bootstrap!TypeOK
      <3>2. recovery[pair[1]] = pair[2] /\ applied[pair[1]] = 0
        BY DEF Bootstrap!BootstrapInv, Bootstrap!BootstrapSafe, Bootstrap!ToldIsTrue
      <3> QED
        BY <1>3, <3>1, <3>2 DEF Bootstrap!BootstrapAssumption, Bootstrap!BootstrapInv,
           Bootstrap!BootstrapSafe, Bootstrap!TypeOK
    <2>2. recovery'[a] = b
      BY <1>3 DEF Bootstrap!BootstrapInv, Bootstrap!BootstrapSafe, Bootstrap!TypeOK
    <2> QED BY <1>1, <1>6, <2>1, <2>2
           DEF Bootstrap!ToldIsTrue, Bootstrap!BootstrapInv, Bootstrap!BootstrapSafe
  <1>9. Bootstrap!ReplacementFirst'
    <2>1. CASE recovery[a] = b
      BY <1>1, <1>3, <2>1 DEF Bootstrap!BootstrapInv, Bootstrap!BootstrapSafe, Bootstrap!TypeOK,
         Bootstrap!ReplacementFirst
    <2>2. CASE recovery[a] = Nobody /\ Bootstrap!Adjudicable(d, a)
      <3>1. \A o \in Migrations \ {a} : receipt[o] = "none"
        BY <2>2 DEF Bootstrap!Adjudicable
      <3>2. \A o \in Migrations \ {a} : recovery[o] = Nobody
        BY <3>1 DEF Bootstrap!BootstrapInv, Bootstrap!AdjudicatedStaysOpen
      <3> QED
        BY <1>1, <1>3, <3>1, <3>2
           DEF Bootstrap!BootstrapInv, Bootstrap!BootstrapSafe, Bootstrap!TypeOK,
           Bootstrap!ReplacementFirst
    <2> QED BY <1>3, <2>1, <2>2
  <1> QED BY <1>2, <1>4, <1>5, <1>7, <1>8, <1>9 DEF Bootstrap!BootstrapInv, Bootstrap!BootstrapSafe

THEOREM BootstrapStep ==
  ASSUME Bootstrap!BootstrapAssumption, Bootstrap!BootstrapInv, [Bootstrap!Next]_(Bootstrap!vars)
  PROVE  Bootstrap!BootstrapInv'
  <1>1. CASE UNCHANGED Bootstrap!vars
    BY <1>1 DEF Bootstrap!vars, Bootstrap!BootstrapInv, Bootstrap!BootstrapSafe, Bootstrap!TypeOK,
       Bootstrap!ReceiptIsTrue, Bootstrap!AdjudicatedNeverApplies,
       Bootstrap!ReplacementFirst, Bootstrap!ToldIsTrue, Bootstrap!OneOpen, Bootstrap!SessionsBusy,
       Bootstrap!AdjudicatedStaysOpen, Bootstrap!At, Bootstrap!Op
  <1>2. ASSUME NEW d \in Deployers, NEW a \in Migrations,
               Bootstrap!Connect(d, a) \/ Bootstrap!Recover(d, a) \/ Bootstrap!ReconcileRecovery(d, a)
        PROVE  Bootstrap!BootstrapInv'
    BY <1>2, ReportStep, RecoverStep
  <1>3. ASSUME NEW d \in Deployers,
               Bootstrap!Start(d) \/ Bootstrap!Replay(d) \/ Bootstrap!RunBatches(d) \/ Bootstrap!Reconcile(d) \/ Bootstrap!Disconnect(d)
        PROVE  Bootstrap!BootstrapInv'
    BY <1>3, ReportStep, StartStep, RunStep
  <1> QED BY <1>1, <1>2, <1>3 DEF Bootstrap!Next

\* Wherever runs of the script are interrupted, and however many there are:
\* receipts are true, an adjudicated bundle never takes effect, and nothing
\* overtakes its replacement (run, recover, reconcile, reconcile_recovery).
THEOREM BootstrapIsSafe == Bootstrap!Spec => []BootstrapSafe
  <1>1. Bootstrap!BootstrapInv => BootstrapSafe
    BY DEF Bootstrap!BootstrapInv, BootstrapSafe
  <1>2. Bootstrap!BootstrapInv /\ [Bootstrap!Next]_(Bootstrap!vars) => Bootstrap!BootstrapInv'
    BY ScriptAssumption, BootstrapStep
  <1> QED BY <1>1, <1>2, BootstrapInit, PTL DEF Bootstrap!Spec

-----------------------------------------------------------------------------
(* The reset: the invariant, operator by operator. *)

Steps == {"idle", "lock", "first", "second", "commit", "verify", "reconcile", "schema", "adopt",
          "collect", "quiet", "append"}
OpRecord == [pc: Steps, plan: 0 .. MaxPlans, erased: BOOLEAN]

Stored ==
  /\ control \in [epoch: 0 .. MaxPlans, by: 0 .. MaxPlans, maint: BOOLEAN]
  /\ rows \in [ver: 0 .. MaxWrites, act: ActStates, work: {"none", "queued", "leased", "done"}]
  /\ reg \in [rev: Nat, auth: Nat, bind: Nat, fresh: BOOLEAN, by: SUBSET PlanIds]
  /\ reg.rev = Cardinality(reg.by)
  /\ \A r \in receipts : r.plan \in PlanIds /\ r.kind \in {"baseline", "reset"}

Around ==
  /\ world \in [running: BOOLEAN, post: BOOLEAN, job: {"idle", "active", "ended"},
                auth: Nat, bind: Nat, changes: Nat]
  /\ lock \in [who: Operators \cup {Nobody}, rows: BOOLEAN]
  /\ answer.told \in Told
  /\ faults \in 0 .. MaxFaults

PlanList ==
  /\ plans \in Seq({plans[n] : n \in DOMAIN plans})
  /\ \A n \in DOMAIN plans :
       /\ plans[n].purpose \in Purposes /\ plans[n].inv \in [rev: Nat, auth: Nat, bind: Nat]
       /\ plans[n].snap.control.epoch \in 0 .. n - 1
  /\ \A p \in Purposes : Made(p) <= Limit[p]
  /\ Len(plans) <= MaxPlans

Baselines == {control.epoch, control.by} \subseteq {0} \cup DOMAIN plans

Effects ==
  /\ world.post => rows.act = "reserved" /\ world.job = "idle"
  /\ world.job = "active" => rows.act \in {"reserved", "submitted"}

\* What holds of one operator.
Local(o) ==
  /\ op[o].pc # "idle" => op[o].plan \in DOMAIN plans
  /\ op[o].pc \in Locking <=> lock.who = o
  /\ op[o].pc \in {"first", "second", "commit"} => lock.rows /\ Approved(o)
  /\ op[o].pc \in {"second", "commit"} => ~world.post /\ world.job # "active"
  /\ op[o].pc \in {"collect", "quiet", "append"} => op[o].plan \notin reg.by
  /\ op[o].erased => op[o].pc \in {"verify", "reconcile"} /\ Replayed(op[o].plan)
  /\ op[o].pc = "verify" => op[o].erased

LEMMA ResetParts ==
  ResetInv <=> /\ Stored /\ Around /\ PlanList /\ Baselines /\ Effects /\ ResetsFollow
               /\ EpochChain /\ ToldTheTruth
               /\ op \in [Operators -> OpRecord] /\ \A o \in Operators : Local(o)
  BY DEF ResetInv, TypeOK, PlansMade, LockHeld, ApprovedStill, EffectsRecorded, RegisteredOnce,
     ErasedIsDone, Stored, Around, PlanList, Baselines, Effects, OpRecord, Steps, Local

LEMMA ResetPartsNext ==
  ASSUME Stored', Around', PlanList', Baselines', Effects', ResetsFollow', EpochChain',
         ToldTheTruth', op' \in [Operators -> OpRecord], \A o \in Operators : Local(o)'
  PROVE  ResetInv'
  <1>1. TypeOK'
    BY DEF TypeOK, Stored, Around, PlanList, OpRecord, Steps
  <1>2. PlansMade'
    BY DEF PlansMade, PlanList, Baselines, Local
  <1>3. LockHeld' /\ ApprovedStill' /\ EffectsRecorded' /\ RegisteredOnce' /\ ErasedIsDone'
    BY DEF LockHeld, ApprovedStill, EffectsRecorded, RegisteredOnce, ErasedIsDone, Effects, Local
  <1> QED BY <1>1, <1>2, <1>3 DEF ResetInv

\* Plans are made with other plans left as they are.
Grows ==
  /\ receipts \subseteq receipts'
  /\ DOMAIN plans \subseteq DOMAIN plans'
  /\ \A n \in DOMAIN plans : plans'[n] = plans[n]

\* An operator whose transaction is open sees nothing move.
Untouched(o) ==
  lock.who = o =>
    /\ reg'.by = reg.by
    /\ lock.rows => /\ lock'.rows /\ UNCHANGED <<control, rows, receipts>>
                    /\ reg'.rev = reg.rev

LEMMA LocalFrame ==
  ASSUME ResetInv, NEW o \in Operators, op'[o] = op[o], Grows, lock'.who = o <=> lock.who = o,
         Untouched(o),
         op[o].pc \in {"second", "commit"} => ~world'.post /\ world'.job # "active"
  PROVE  Local(o)'
  <1>0. Local(o)
    BY ResetParts
  <1>1. op[o].pc # "idle" => op[o].plan \in DOMAIN plans'
    BY <1>0 DEF Local, Grows
  <1>2. op[o].pc \in {"first", "second", "commit"} => lock'.rows /\ Approved(o)'
    <2> SUFFICES ASSUME op[o].pc \in {"first", "second", "commit"} PROVE lock'.rows /\ Approved(o)'
      OBVIOUS
    <2>1. lock.who = o /\ lock.rows /\ Approved(o) /\ op[o].plan \in DOMAIN plans
      BY <1>0 DEF Local, Locking
    <2>2. Snapshot' = Snapshot /\ P(o)' = P(o)
      BY <2>1 DEF Untouched, Snapshot, P, Grows
    <2> QED BY <2>1, <2>2 DEF Untouched, Approved
  <1>3. op[o].pc \in {"collect", "quiet", "append"} => op[o].plan \notin reg'.by
    BY <1>0 DEF Local, Locking, Untouched
  <1>4. op[o].erased => op[o].pc \in {"verify", "reconcile"} /\ Replayed(op[o].plan)'
    BY <1>0 DEF Local, Grows, Replayed, HasReceipt
  <1> QED BY <1>0, <1>1, <1>2, <1>3, <1>4 DEF Local

LEMMA GoFacts ==
  ASSUME op \in [Operators -> OpRecord], NEW o \in Operators, NEW pc \in Steps, Go(o, pc)
  PROVE  /\ op' \in [Operators -> OpRecord]
         /\ op'[o].pc = pc /\ op'[o].plan = op[o].plan /\ op'[o].erased = op[o].erased
         /\ \A p \in Operators : p # o => op'[p] = op[p]
         /\ answer' = answer
  <1> DEFINE r == [op[o] EXCEPT !.pc = pc]
  <1>1. r \in OpRecord /\ r.pc = pc /\ r.plan = op[o].plan /\ r.erased = op[o].erased
    BY DEF OpRecord
  <1>2. op' = [op EXCEPT ![o] = r] /\ answer' = answer
    BY DEF Go
  <1> HIDE DEF r
  <1> QED BY <1>1, <1>2

LEMMA StartFacts ==
  ASSUME ResetAssumption, op \in [Operators -> OpRecord], NEW o \in Operators, NEW pc \in Steps,
         NEW n \in 0 .. MaxPlans, Start(o, n, pc)
  PROVE  /\ op' \in [Operators -> OpRecord]
         /\ op'[o].pc = pc /\ op'[o].plan = n /\ op'[o].erased = FALSE
         /\ \A p \in Operators : p # o => op'[p] = op[p]
         /\ answer' = answer
  <1> DEFINE r == [Idle EXCEPT !.pc = pc, !.plan = n]
  <1>1. MaxPlans \in Nat
    BY DEF ResetAssumption, MaxPlans
  <1>2. Idle \in OpRecord /\ Idle.erased = FALSE
    BY <1>1 DEF OpRecord, Idle, Steps
  <1>3. r \in OpRecord /\ r.pc = pc /\ r.plan = n /\ r.erased = FALSE
    BY <1>2 DEF OpRecord
  <1>4. op' = [op EXCEPT ![o] = r] /\ answer' = answer
    BY DEF Start
  <1> HIDE DEF r
  <1> QED BY <1>3, <1>4

LEMMA TellFacts ==
  ASSUME ResetAssumption, op \in [Operators -> OpRecord], NEW o \in Operators, NEW n, NEW what,
         Tell(o, n, what)
  PROVE  /\ op' \in [Operators -> OpRecord]
         /\ op'[o].pc = "idle" /\ op'[o].erased = FALSE
         /\ \A p \in Operators : p # o => op'[p] = op[p]
         /\ answer'.plan = n /\ answer'.told = what /\ answer'.erased = op[o].erased
  <1> DEFINE r == Idle
  <1>1. MaxPlans \in Nat
    BY DEF ResetAssumption, MaxPlans
  <1>2. r \in OpRecord /\ r.pc = "idle" /\ r.erased = FALSE
    BY <1>1 DEF OpRecord, Idle, Steps
  <1>3. op' = [op EXCEPT ![o] = r]
    BY DEF Tell
  <1>4. answer' = [plan |-> n, told |-> what, erased |-> op[o].erased]
    BY DEF Tell
  <1> HIDE DEF r
  <1> QED BY <1>2, <1>3, <1>4

\* A step of one operator that takes no lock from another and writes nothing
\* under it leaves the others' knowledge true.
LEMMA OthersKeep ==
  ASSUME ResetInv, NEW o \in Operators, Grows, world' = world,
         \A p \in Operators : p # o => op'[p] = op[p],
         \/ lock' = lock
         \/ lock.who \in {Nobody, o} /\ lock'.who \in {Nobody, o},
         UNCHANGED <<control, rows, reg, receipts>> \/ lock.who \in {Nobody, o},
         ResetAssumption
  PROVE  \A p \in Operators : p # o => Local(p)'
  <1> SUFFICES ASSUME NEW p \in Operators, p # o PROVE Local(p)'
    OBVIOUS
  <1>1. lock'.who = p <=> lock.who = p
    BY DEF ResetAssumption
  <1>2. Untouched(p)
    BY DEF Untouched, ResetAssumption
  <1>3. op[p].pc \in {"second", "commit"} => ~world'.post /\ world'.job # "active"
    BY ResetParts DEF Local
  <1> QED BY <1>1, <1>2, <1>3, LocalFrame

\* A step of one operator that writes nothing.
LEMMA QuietOp ==
  ASSUME ResetAssumption, ResetInv, NEW o \in Operators,
         op' \in [Operators -> OpRecord], \A p \in Operators : p # o => op'[p] = op[p],
         UNCHANGED <<control, rows, reg, receipts, plans, world>>,
         \/ lock' = lock
         \/ lock.who \in {Nobody, o} /\ lock'.who \in {Nobody, o},
         lock' \in [who: Operators \cup {Nobody}, rows: BOOLEAN],
         faults' \in 0 .. MaxFaults, Local(o)', answer'.told \in Told, ToldTheTruth'
  PROVE  ResetInv'
  <1>1. Grows
    BY DEF Grows
  <1>2. \A p \in Operators : Local(p)'
    BY <1>1, OthersKeep
  <1>3. Stored' /\ PlanList' /\ Baselines' /\ Effects'
    <2>1. Stored'
      BY ResetParts DEF Stored
    <2>2. PlanList'
      <3>1. plans' = plans /\ \A p \in Purposes : Made(p)' = Made(p)
        BY DEF Made
      <3>2. {plans'[n] : n \in DOMAIN plans'} = {plans[n] : n \in DOMAIN plans}
        BY <3>1
      <3> QED BY <3>1, <3>2, ResetParts DEF PlanList
    <2>3. Baselines' /\ Effects'
      BY ResetParts DEF Baselines, Effects
    <2> QED BY <2>1, <2>2, <2>3
  <1>4. Around'
    BY ResetParts DEF Around
  <1>5. ResetsFollow' /\ EpochChain'
    BY ResetParts DEF ResetsFollow, EpochChain, Resets
  <1> QED BY <1>2, <1>3, <1>4, <1>5, ResetPartsNext

\* An operation ends without a trace but what its operator is told.
LEMMA TellStep ==
  ASSUME ResetAssumption, ResetInv, NEW o \in Operators, NEW n, NEW what \in Told,
         Tell(o, n, what), UNCHANGED <<control, rows, reg, receipts, plans, world>>,
         \/ lock' = lock /\ op[o].pc \notin Locking
         \/ lock.who = o /\ lock' = Unlocked,
         faults' \in 0 .. MaxFaults,
         what \in {"reset", "unverified"} => Replayed(n),
         what = "registered" => n \in reg.by,
         what = "initialized" => HasReceipt(n, "baseline"),
         what = "refused" => ~op[o].erased
  PROVE  ResetInv'
  <1>0. op \in [Operators -> OpRecord] /\ Local(o)
    BY ResetParts
  <1>1. /\ op' \in [Operators -> OpRecord] /\ op'[o].pc = "idle" /\ op'[o].erased = FALSE
        /\ \A p \in Operators : p # o => op'[p] = op[p]
        /\ answer'.plan = n /\ answer'.told = what /\ answer'.erased = op[o].erased
    BY <1>0, TellFacts
  <1>2. /\ lock' \in [who: Operators \cup {Nobody}, rows: BOOLEAN]
        /\ lock'.who # o
        /\ lock' = lock \/ (lock.who = o /\ lock'.who = Nobody)
    <2>1. lock \in [who: Operators \cup {Nobody}, rows: BOOLEAN]
      BY ResetParts DEF Around
    <2>2. CASE lock' = lock /\ op[o].pc \notin Locking
      BY <1>0, <2>1, <2>2 DEF Local
    <2>3. CASE lock.who = o /\ lock' = Unlocked
      BY <2>3 DEF Unlocked, ResetAssumption
    <2> QED BY <2>2, <2>3
  <1>3. Local(o)'
    BY <1>1, <1>2 DEF Local, Locking
  <1>4. ToldTheTruth'
    BY <1>1 DEF ToldTheTruth, Replayed, HasReceipt
  <1> QED BY <1>1, <1>2, <1>3, <1>4, QuietOp

\* An operation goes on without a trace.
LEMMA GoStep ==
  ASSUME ResetAssumption, ResetInv, NEW o \in Operators, NEW pc \in Steps, op[o].pc # "idle",
         Go(o, pc), UNCHANGED <<control, rows, reg, receipts, plans, world>>,
         faults' \in 0 .. MaxFaults,
         \/ lock' = lock
         \/ lock.who \in {Nobody, o} /\ lock'.who \in {Nobody, o},
         lock' \in [who: Operators \cup {Nobody}, rows: BOOLEAN],
         pc \in Locking <=> lock'.who = o,
         pc \in {"first", "second", "commit"} => lock'.rows /\ Approved(o),
         pc \in {"second", "commit"} => ~world.post /\ world.job # "active",
         pc \in {"collect", "quiet", "append"} => op[o].plan \notin reg.by,
         op[o].erased => pc \in {"verify", "reconcile"},
         pc # "verify"
  PROVE  ResetInv'
  <1>0. op \in [Operators -> OpRecord] /\ Local(o)
    BY ResetParts
  <1>1. /\ op' \in [Operators -> OpRecord]
        /\ op'[o].pc = pc /\ op'[o].plan = op[o].plan /\ op'[o].erased = op[o].erased
        /\ \A p \in Operators : p # o => op'[p] = op[p]
        /\ answer' = answer
    BY <1>0, GoFacts
  <1>2. Approved(o)' <=> Approved(o)
    BY <1>1 DEF Approved, Snapshot, P
  <1>3. Local(o)'
    BY <1>0, <1>1, <1>2 DEF Local, Replayed, HasReceipt
  <1>4. ToldTheTruth' /\ answer'.told \in Told
    BY <1>1, ResetParts DEF ToldTheTruth, Around, Replayed, HasReceipt
  <1> QED BY <1>1, <1>3, <1>4, QuietOp

\* Three numbers of plans bound the number of plans.
LEMMA PlansCounted ==
  ASSUME ResetAssumption, NEW S, NEW s \in Seq(S),
         \A n \in DOMAIN s : s[n].purpose \in Purposes,
         \A p \in Purposes : Cardinality({n \in DOMAIN s : s[n].purpose = p}) <= Limit[p]
  PROVE  Len(s) <= MaxPlans
  <1> DEFINE For(p) == {n \in DOMAIN s : s[n].purpose = p}
  <1>1. Len(s) \in Nat /\ DOMAIN s = 1 .. Len(s)
    OBVIOUS
  <1>2. IsFiniteSet(1 .. Len(s)) /\ Cardinality(1 .. Len(s)) = Len(s)
    <2> DEFINE k == Len(s)
    <2>1. k \in Nat /\ 1 \in Int /\ k \in Int
      BY <1>1
    <2> HIDE DEF k
    <2>2. /\ IsFiniteSet(1 .. k)
          /\ Cardinality(1 .. k) = IF 1 > k THEN 0 ELSE k - 1 + 1
      BY <2>1, FS_Interval
    <2>3. Cardinality(1 .. k) = k
      BY <2>1, <2>2
    <2> QED BY <2>2, <2>3 DEF k
  <1>3. \A p \in Purposes : IsFiniteSet(For(p)) /\ Cardinality(For(p)) \in Nat
    <2> SUFFICES ASSUME NEW p \in Purposes PROVE IsFiniteSet(For(p))
      BY FS_CardinalityType
    <2>1. For(p) \subseteq 1 .. Len(s)
      BY <1>1
    <2> QED BY <1>2, <2>1, FS_Subset
  <1> DEFINE A == For("initialize")  B == For("register")  C == For("reset")
  <1>4. IsFiniteSet(A) /\ IsFiniteSet(B) /\ IsFiniteSet(C)
    BY <1>3 DEF Purposes
  <1>5. A \cap B = {} /\ (A \cup B) \cap C = {} /\ (A \cup B) \cup C = 1 .. Len(s)
    BY <1>1 DEF Purposes
  <1>6. /\ Cardinality(A) \in Nat /\ Cardinality(B) \in Nat /\ Cardinality(C) \in Nat
        /\ Cardinality(A) <= Limit["initialize"] /\ Cardinality(B) <= Limit["register"]
        /\ Cardinality(C) <= Limit["reset"]
    BY <1>3 DEF Purposes
  <1>7. /\ Limit["initialize"] \in Nat /\ Limit["register"] \in Nat /\ Limit["reset"] \in Nat
    BY DEF ResetAssumption
  <1> HIDE DEF A, B, C
  <1>8. IsFiniteSet(A \cup B) /\ Cardinality(A \cup B) = Cardinality(A) + Cardinality(B)
    <2>1. IsFiniteSet(A \cup B) /\ Cardinality(A \cup B) = Cardinality(A) + Cardinality(B) - Cardinality(A \cap B)
      BY <1>4, FS_Union
    <2>2. Cardinality(A \cap B) = 0
      BY <1>5, FS_EmptySet, Zenon
    <2> QED BY <1>6, <2>1, <2>2
  <1>9. Cardinality((A \cup B) \cup C) = Cardinality(A \cup B) + Cardinality(C)
    <2>1. Cardinality((A \cup B) \cup C) = Cardinality(A \cup B) + Cardinality(C) - Cardinality((A \cup B) \cap C)
      BY <1>4, <1>8, FS_Union
    <2>2. Cardinality((A \cup B) \cap C) = 0
      BY <1>5, FS_EmptySet, Zenon
    <2> QED BY <1>6, <1>8, <2>1, <2>2
  <1>10. Len(s) = Cardinality(A) + Cardinality(B) + Cardinality(C)
    BY <1>2, <1>5, <1>8, <1>9
  <1> HIDE DEF For
  <1> QED BY <1>6, <1>7, <1>10 DEF MaxPlans

\* One more plan, as long as there may be one for its purpose.
LEMMA AppendPlan ==
  ASSUME ResetAssumption, PlanList, NEW e, e.purpose \in Purposes,
         e.inv \in [rev: Nat, auth: Nat, bind: Nat], e.snap.control.epoch \in 0 .. Len(plans),
         Made(e.purpose) < Limit[e.purpose], plans' = Append(plans, e)
  PROVE  /\ PlanList'
         /\ DOMAIN plans \subseteq DOMAIN plans'
         /\ \A n \in DOMAIN plans : plans'[n] = plans[n]
  <1> DEFINE S == {plans[n] : n \in DOMAIN plans} \cup {e}
             For(s, p) == {n \in DOMAIN s : s[n].purpose = p}
             k == Len(plans) + 1
  <1>1. plans \in Seq(S) /\ Len(plans) \in Nat /\ DOMAIN plans = 1 .. Len(plans)
    <2>1. plans \in Seq({plans[n] : n \in DOMAIN plans})
      BY DEF PlanList
    <2> HIDE DEF S
    <2>2. {plans[n] : n \in DOMAIN plans} \subseteq S
      BY DEF S
    <2> QED BY <2>1, <2>2
  <1>2. /\ plans' \in Seq(S) /\ DOMAIN plans' = 1 .. k /\ plans'[k] = e
        /\ \A n \in 1 .. Len(plans) : plans'[n] = plans[n]
    <2> HIDE DEF S
    <2>1. e \in S
      BY DEF S
    <2> QED BY <1>1, <2>1
  <1>3. plans' \in Seq({plans'[n] : n \in DOMAIN plans'})
    <2>1. S = {plans'[n] : n \in DOMAIN plans'}
      BY <1>1, <1>2
    <2> QED BY <1>2, <2>1
  <1>4. \A n \in DOMAIN plans' :
          /\ plans'[n].purpose \in Purposes /\ plans'[n].inv \in [rev: Nat, auth: Nat, bind: Nat]
          /\ plans'[n].snap.control.epoch \in 0 .. n - 1
    <2> SUFFICES ASSUME NEW n \in DOMAIN plans'
                 PROVE  /\ plans'[n].purpose \in Purposes
                        /\ plans'[n].inv \in [rev: Nat, auth: Nat, bind: Nat]
                        /\ plans'[n].snap.control.epoch \in 0 .. n - 1
      OBVIOUS
    <2>1. CASE n = k
      BY <1>1, <1>2, <2>1
    <2>2. CASE n # k
      <3>1. n \in DOMAIN plans /\ plans'[n] = plans[n]
        BY <1>1, <1>2, <2>2
      <3> QED BY <3>1 DEF PlanList
    <2> QED BY <2>1, <2>2
  <1>5. \A p \in Purposes : Cardinality(For(plans', p)) <= Limit[p]
    <2> SUFFICES ASSUME NEW p \in Purposes PROVE Cardinality(For(plans', p)) <= Limit[p]
      OBVIOUS
    <2>0. Cardinality(For(plans, p)) <= Limit[p] /\ Limit[p] \in Nat
      BY DEF PlanList, Made, ResetAssumption, Purposes
    <2>1. CASE p # e.purpose
      <3>1. For(plans', p) = For(plans, p)
        BY <1>1, <1>2, <2>1
      <3> QED BY <2>0, <3>1
    <2>2. CASE p = e.purpose
      <3>1. For(plans', p) = For(plans, p) \cup {k} /\ k \notin For(plans, p)
        BY <1>1, <1>2, <2>2
      <3>2. IsFiniteSet(For(plans, p))
        <4>1. For(plans, p) \subseteq 1 .. Len(plans)
          BY <1>1
        <4>2. IsFiniteSet(1 .. Len(plans))
          BY <1>1, FS_Interval
        <4> QED BY <4>1, <4>2, FS_Subset
      <3>3. Cardinality(For(plans, p)) \in Nat
        BY <3>2, FS_CardinalityType
      <3>4. Cardinality(For(plans, p)) < Limit[p]
        BY <2>2 DEF Made
      <3>5. Cardinality(For(plans', p)) = Cardinality(For(plans, p)) + 1
        BY <3>1, <3>2, FS_AddElement
      <3> HIDE DEF For
      <3> QED BY <2>0, <3>3, <3>4, <3>5
    <2> QED BY <2>1, <2>2
  <1>6. Len(plans') <= MaxPlans
    BY <1>2, <1>4, <1>5, PlansCounted
  <1>7. PlanList'
    BY <1>3, <1>4, <1>5, <1>6 DEF PlanList, Made
  <1> QED BY <1>1, <1>2, <1>7

LEMMA FirstPlans ==
  ASSUME ResetAssumption, Init, plans # <<>>
  PROVE  PlanList /\ DOMAIN plans = {1, 2}
  <1> DEFINE a == [purpose |-> "initialize", snap |-> [control |-> NoControl], inv |-> Inventory,
                   blocked |-> FALSE]
             b == [purpose |-> "register", snap |-> [control |-> NoControl],
                   inv |-> [Inventory EXCEPT !.rev = 0], blocked |-> FALSE]
             S == {plans[n] : n \in DOMAIN plans}
             For(p) == {n \in DOMAIN plans : plans[n].purpose = p}
  <1>1. plans = <<a, b>>
    BY DEF Init
  <1>2. Inventory = [rev |-> reg.rev, auth |-> 0, bind |-> 0] /\ reg.rev = 1
    BY <1>1 DEF Init, Inventory, Authority, Deployed, NoReg
  <1>3. /\ a.purpose = "initialize" /\ a.inv \in [rev: Nat, auth: Nat, bind: Nat]
        /\ a.snap.control.epoch = 0
        /\ b.purpose = "register" /\ b.inv \in [rev: Nat, auth: Nat, bind: Nat]
        /\ b.snap.control.epoch = 0
    BY <1>2 DEF NoControl
  <1> HIDE DEF a, b
  <1>4. DOMAIN plans = {1, 2} /\ plans[1] = a /\ plans[2] = b /\ Len(plans) = 2
    BY <1>1
  <1>5. plans \in Seq(S)
    <2>1. S = {a, b}
      BY <1>4
    <2> QED BY <1>1, <2>1
  <1>6. For("initialize") = {1} /\ For("register") = {2} /\ For("reset") = {}
    BY <1>3, <1>4
  <1>7. \A p \in Purposes : Cardinality(For(p)) <= Limit[p]
    <2>1. Cardinality({1}) = 1 /\ Cardinality({2}) = 1 /\ Cardinality({}) = 0
      BY FS_Singleton, FS_EmptySet, Zenon
    <2>2. /\ Limit["initialize"] \in Nat \ {0} /\ Limit["register"] \in Nat \ {0}
          /\ Limit["reset"] \in Nat
      BY DEF ResetAssumption
    <2> HIDE DEF For
    <2>3. /\ Cardinality(For("initialize")) <= Limit["initialize"]
          /\ Cardinality(For("register")) <= Limit["register"]
          /\ Cardinality(For("reset")) <= Limit["reset"]
      <3>1. /\ Cardinality(For("initialize")) = 1 /\ Cardinality(For("register")) = 1
            /\ Cardinality(For("reset")) = 0
        BY <1>6, <2>1, Zenon
      <3> QED BY <2>2, <3>1
    <2> QED BY <2>3 DEF Purposes
  <1>8. \A n \in DOMAIN plans :
          /\ plans[n].purpose \in Purposes /\ plans[n].inv \in [rev: Nat, auth: Nat, bind: Nat]
          /\ plans[n].snap.control.epoch \in 0 .. n - 1
    BY <1>3, <1>4 DEF Purposes
  <1>9. Len(plans) <= MaxPlans
    BY <1>5, <1>7, <1>8, PlansCounted
  <1> QED BY <1>4, <1>5, <1>7, <1>8, <1>9 DEF PlanList, Made

THEOREM ResetInit ==
  ASSUME ResetAssumption, Init
  PROVE  ResetInv
  <1>1. /\ MaxPlans \in Nat /\ MaxPlans >= 2
        /\ MaxWrites \in Nat /\ MaxFaults \in Nat /\ Nobody \notin Operators
    BY DEF ResetAssumption, MaxPlans
  <1>2. op \in [Operators -> OpRecord] /\ \A o \in Operators : Local(o)
    <2>1. op = [o \in Operators |-> Idle] /\ Idle \in OpRecord /\ Idle.pc = "idle" /\ ~Idle.erased
      BY <1>1 DEF Init, OpRecord, Idle, Steps
    <2>2. lock.who = Nobody
      BY DEF Init, Unlocked
    <2> HIDE DEF OpRecord
    <2> QED BY <1>1, <2>1, <2>2 DEF Local, Locking
  <1>3. Around /\ Effects
    BY <1>1 DEF Init, Around, Effects, Unlocked, NoAnswer, Told
  <1>4. ToldTheTruth
    BY DEF Init, NoAnswer, ToldTheTruth
  <1>5. CASE plans = <<>>
    <2>1. control = NoControl /\ reg = NoReg /\ receipts = {} /\ rows = NoRows
      BY <1>5 DEF Init
    <2>2. Cardinality({}) = 0
      BY FS_EmptySet, Zenon
    <2>3. Stored
      BY <1>1, <2>1, <2>2 DEF Stored, NoControl, NoReg, NoRows, ActStates
    <2>4. PlanList
      <3>1. \A p \in Purposes : {n \in DOMAIN plans : plans[n].purpose = p} = {}
        BY <1>5
      <3>2. \A p \in Purposes : Limit[p] \in Nat
        BY DEF ResetAssumption, Purposes
      <3>3. \A p \in Purposes : Made(p) <= Limit[p]
        BY <2>2, <3>1, <3>2 DEF Made
      <3>4. plans \in Seq({plans[n] : n \in DOMAIN plans}) /\ DOMAIN plans = {} /\ Len(plans) = 0
        BY <1>5
      <3> QED BY <1>1, <3>3, <3>4 DEF PlanList
    <2>5. Baselines /\ ResetsFollow /\ EpochChain
      BY <2>1 DEF Baselines, NoControl, ResetsFollow, EpochChain, Resets
    <2> QED BY <1>2, <1>3, <1>4, <2>3, <2>4, <2>5, ResetParts
  <1>6. CASE plans # <<>>
    <2>1. PlanList /\ DOMAIN plans = {1, 2}
      BY <1>6, FirstPlans
    <2>2. /\ control \in [epoch: {1}, by: {1}, maint: BOOLEAN] /\ rows = NoRows
          /\ reg.rev = 1 /\ reg.by = {2} /\ reg.auth = 0 /\ reg.bind = 0 /\ reg.fresh = TRUE
          /\ reg = [NoReg EXCEPT !.rev = 1, !.fresh = TRUE, !.by = {2}]
          /\ receipts = {[plan |-> 1, kind |-> "baseline", old |-> 0]}
      <3>1. PICK m \in BOOLEAN : control = [epoch |-> 1, by |-> 1, maint |-> m]
        BY <1>6 DEF Init
      <3>2. control \in [epoch: {1}, by: {1}, maint: BOOLEAN]
        BY <3>1
      <3>3. /\ rows = NoRows /\ reg = [NoReg EXCEPT !.rev = 1, !.fresh = TRUE, !.by = {2}]
            /\ receipts = {[plan |-> 1, kind |-> "baseline", old |-> 0]}
        BY <1>6 DEF Init
      <3>4. /\ reg.rev = 1 /\ reg.by = {2} /\ reg.auth = 0 /\ reg.bind = 0 /\ reg.fresh = TRUE
        BY <3>3 DEF NoReg
      <3> QED BY <3>2, <3>3, <3>4
    <2>3. Cardinality({2}) = 1
      BY FS_Singleton, Zenon
    <2>4. Stored
      <3>1. {2} \in SUBSET PlanIds /\ 1 \in PlanIds
        BY <1>1 DEF PlanIds
      <3>2. reg \in [rev: Nat, auth: Nat, bind: Nat, fresh: BOOLEAN, by: SUBSET PlanIds]
        BY <2>2, <3>1 DEF NoReg
      <3>3. control \in [epoch: 0 .. MaxPlans, by: 0 .. MaxPlans, maint: BOOLEAN]
        BY <1>1, <2>2
      <3>4. rows \in [ver: 0 .. MaxWrites, act: ActStates,
                      work: {"none", "queued", "leased", "done"}]
        BY <1>1, <2>2 DEF NoRows, ActStates
      <3> QED BY <2>2, <2>3, <3>1, <3>2, <3>3, <3>4 DEF Stored
    <2>5. Baselines /\ ResetsFollow /\ EpochChain
      BY <2>1, <2>2 DEF Baselines, ResetsFollow, EpochChain, Resets
    <2> QED BY <1>2, <1>3, <1>4, <2>1, <2>4, <2>5, ResetParts
  <1> QED BY <1>5, <1>6

\* A plan is added; nothing else happens.
LEMMA NewPlanStep ==
  ASSUME ResetAssumption, ResetInv, NEW e, e.purpose \in Purposes,
         e.inv = Inventory, e.snap = Snapshot, Made(e.purpose) < Limit[e.purpose],
         plans' = Append(plans, e),
         UNCHANGED <<control, rows, reg, receipts, world, op, answer, lock, faults>>
  PROVE  ResetInv'
  <1>1. e.inv \in [rev: Nat, auth: Nat, bind: Nat]
    BY ResetParts DEF Inventory, Authority, Deployed, Stored, Around
  <1>2. e.snap.control.epoch \in 0 .. Len(plans)
    <2>1. e.snap.control = control
      BY DEF Snapshot
    <2>2. plans \in Seq({plans[n] : n \in DOMAIN plans}) /\ control.epoch \in {0} \cup DOMAIN plans
      BY ResetParts DEF PlanList, Baselines
    <2>3. Len(plans) \in Nat /\ DOMAIN plans = 1 .. Len(plans)
      BY <2>2
    <2> QED BY <2>1, <2>2, <2>3
  <1>3. /\ PlanList' /\ DOMAIN plans \subseteq DOMAIN plans'
        /\ \A n \in DOMAIN plans : plans'[n] = plans[n]
    BY <1>1, <1>2, AppendPlan, ResetParts
  <1>4. \A o \in Operators : Local(o)'
    <2> SUFFICES ASSUME NEW o \in Operators PROVE Local(o)'
      OBVIOUS
    <2>1. Grows
      BY <1>3 DEF Grows
    <2>2. op[o].pc \in {"second", "commit"} => ~world'.post /\ world'.job # "active"
      BY ResetParts DEF Local
    <2> QED BY <2>1, <2>2, LocalFrame DEF Untouched
  <1>5. Stored' /\ Around' /\ Baselines' /\ Effects' /\ op' \in [Operators -> OpRecord]
    BY <1>3, ResetParts DEF Stored, Around, Baselines, Effects
  <1>6. ToldTheTruth'
    BY ResetParts DEF ToldTheTruth, Replayed, HasReceipt
  <1>7. ResetsFollow' /\ EpochChain'
    BY <1>3, ResetParts DEF ResetsFollow, EpochChain, Resets
  <1> QED BY <1>3, <1>4, <1>5, <1>6, <1>7, ResetPartsNext

\* A file of plans is read by its number.
LEMMA PlanNumbers ==
  ASSUME ResetAssumption, ResetInv, NEW n \in DOMAIN plans
  PROVE  n \in 1 .. MaxPlans /\ MaxPlans \in Nat /\ n \in PlanIds
  <1>1. plans \in Seq({plans[m] : m \in DOMAIN plans}) /\ Len(plans) <= MaxPlans
    BY ResetParts DEF PlanList
  <1>2. Len(plans) \in Nat /\ DOMAIN plans = 1 .. Len(plans)
    BY <1>1
  <1>3. MaxPlans \in Nat
    BY DEF ResetAssumption, MaxPlans
  <1> QED BY <1>1, <1>2, <1>3 DEF PlanIds

\* An operation begins: nothing is written yet.
LEMMA BeginStep ==
  ASSUME ResetAssumption, ResetInv, NEW o \in Operators, NEW n \in DOMAIN plans,
         NEW pc \in {"schema", "lock", "collect"}, Free, Start(o, n, pc),
         UNCHANGED <<control, rows, reg, receipts, plans, world, faults>>,
         \/ pc # "collect" /\ lock' = lock
         \/ pc = "collect" /\ n \notin reg.by /\ lock' = [who |-> o, rows |-> FALSE]
  PROVE  ResetInv'
  <1>0. /\ op \in [Operators -> OpRecord] /\ n \in 0 .. MaxPlans /\ pc \in Steps
        /\ lock \in [who: Operators \cup {Nobody}, rows: BOOLEAN]
    BY ResetParts, PlanNumbers DEF Steps, Around
  <1>1. /\ op' \in [Operators -> OpRecord]
        /\ op'[o].pc = pc /\ op'[o].plan = n /\ op'[o].erased = FALSE
        /\ \A p \in Operators : p # o => op'[p] = op[p]
        /\ answer' = answer
    BY <1>0, StartFacts
  <1>2. /\ lock' \in [who: Operators \cup {Nobody}, rows: BOOLEAN]
        /\ lock'.who = o <=> pc = "collect"
        /\ lock' = lock \/ (lock.who \in {Nobody, o} /\ lock'.who \in {Nobody, o})
    <2>1. lock.who = Nobody /\ o # Nobody
      BY DEF Free, ResetAssumption
    <2>2. CASE pc # "collect" /\ lock' = lock
      BY <1>0, <2>1, <2>2
    <2>3. CASE pc = "collect" /\ lock' = [who |-> o, rows |-> FALSE]
      BY <2>1, <2>3
    <2> QED BY <2>2, <2>3
  <1>3. Local(o)'
    BY <1>1, <1>2 DEF Local, Locking
  <1>4. ToldTheTruth' /\ answer'.told \in Told
    BY <1>1, ResetParts DEF ToldTheTruth, Around, Replayed, HasReceipt
  <1>5. faults' \in 0 .. MaxFaults
    BY ResetParts DEF Around
  <1> QED BY <1>1, <1>2, <1>3, <1>4, <1>5, QuietOp

\* A step of one operator that writes to the database.
LEMMA WritingOp ==
  ASSUME ResetAssumption, ResetInv, NEW o \in Operators,
         op' \in [Operators -> OpRecord], \A p \in Operators : p # o => op'[p] = op[p],
         UNCHANGED <<plans, world>>, receipts \subseteq receipts',
         lock.who \in {Nobody, o}, lock'.who \in {Nobody, o},
         lock' \in [who: Operators \cup {Nobody}, rows: BOOLEAN],
         faults' \in 0 .. MaxFaults, Stored', Baselines', Effects', ResetsFollow', EpochChain',
         Local(o)', answer'.told \in Told, ToldTheTruth'
  PROVE  ResetInv'
  <1>1. Grows
    BY DEF Grows
  <1>2. \A p \in Operators : Local(p)'
    BY <1>1, OthersKeep
  <1>3. PlanList'
    <2>1. plans' = plans /\ \A p \in Purposes : Made(p)' = Made(p)
      BY DEF Made
    <2>2. {plans'[n] : n \in DOMAIN plans'} = {plans[n] : n \in DOMAIN plans}
      BY <2>1
    <2> QED BY <2>1, <2>2, ResetParts DEF PlanList
  <1>4. Around'
    BY ResetParts DEF Around
  <1> QED BY <1>2, <1>3, <1>4, ResetPartsNext

LEMMA FaultCounted ==
  ASSUME ResetAssumption, ResetInv, Fault
  PROVE  faults' \in 0 .. MaxFaults
  BY ResetParts DEF Around, Fault, ResetAssumption

\* The control row of the first baseline.
LEMMA SchemaWritten ==
  ASSUME ResetAssumption, ResetInv, NEW o \in Operators, op[o].pc = "schema", Free,
         control.epoch = 0, NEW n, n = op[o].plan,
         control' = [epoch |-> n, by |-> n, maint |-> TRUE], Go(o, "adopt"),
         UNCHANGED <<rows, reg, receipts, world, plans, lock>>, faults' \in 0 .. MaxFaults
  PROVE  ResetInv'
  <1>0. op \in [Operators -> OpRecord] /\ Local(o) /\ n \in DOMAIN plans
    BY ResetParts DEF Local
  <1>1. /\ op' \in [Operators -> OpRecord] /\ op'[o].pc = "adopt" /\ op'[o].plan = n
        /\ op'[o].erased = op[o].erased
        /\ \A p \in Operators : p # o => op'[p] = op[p]
        /\ answer' = answer
    BY <1>0, GoFacts DEF Steps
  <1>2. n \in 1 .. MaxPlans /\ MaxPlans \in Nat
    BY <1>0, PlanNumbers
  <1>3. Resets = {}
    BY ResetParts DEF ResetsFollow
  <1>4. Stored' /\ Baselines' /\ Effects'
    BY <1>0, <1>2, ResetParts DEF Stored, Baselines, Effects
  <1>5. ResetsFollow' /\ EpochChain'
    BY <1>3, ResetParts DEF ResetsFollow, EpochChain, Resets
  <1>6. Local(o)'
    BY <1>0, <1>1 DEF Local, Locking, Free
  <1>7. ToldTheTruth' /\ answer'.told \in Told /\ lock' \in [who: Operators \cup {Nobody}, rows: BOOLEAN]
    BY <1>1, ResetParts DEF ToldTheTruth, Around, Replayed, HasReceipt
  <1> QED BY <1>1, <1>4, <1>5, <1>6, <1>7, WritingOp DEF Free

\* The receipt of the first baseline.
LEMMA BaselineWritten ==
  ASSUME ResetAssumption, ResetInv, NEW o \in Operators, op[o].pc = "adopt", Free,
         NEW n, n = op[o].plan, Tell(o, n, "initialized"),
         receipts' = receipts \cup {[plan |-> n, kind |-> "baseline", old |-> 0]},
         UNCHANGED <<control, rows, reg, world, plans, lock, faults>>
  PROVE  ResetInv'
  <1>0. op \in [Operators -> OpRecord] /\ Local(o) /\ n \in DOMAIN plans
    BY ResetParts DEF Local
  <1>1. /\ op' \in [Operators -> OpRecord] /\ op'[o].pc = "idle" /\ op'[o].erased = FALSE
        /\ \A p \in Operators : p # o => op'[p] = op[p]
        /\ answer'.plan = n /\ answer'.told = "initialized" /\ answer'.erased = op[o].erased
    BY <1>0, TellFacts
  <1>2. n \in PlanIds
    BY <1>0, PlanNumbers
  <1>3. Resets' = Resets
    BY DEF Resets
  <1>4. Stored' /\ Baselines' /\ Effects'
    BY <1>2, ResetParts DEF Stored, Baselines, Effects
  <1>5. ResetsFollow' /\ EpochChain'
    BY <1>0, <1>3, ResetParts DEF ResetsFollow, EpochChain
  <1>6. Local(o)'
    BY <1>0, <1>1 DEF Local, Locking, Free
  <1>7. /\ ToldTheTruth' /\ answer'.told \in Told
        /\ lock' \in [who: Operators \cup {Nobody}, rows: BOOLEAN] /\ faults' \in 0 .. MaxFaults
    <2>1. HasReceipt(n, "baseline")'
      <3> DEFINE r == [plan |-> n, kind |-> "baseline", old |-> 0]
      <3>1. r.plan = n /\ r.kind = "baseline" /\ r \in receipts'
        OBVIOUS
      <3> HIDE DEF r
      <3> QED BY <3>1 DEF HasReceipt
    <2>2. ToldTheTruth' /\ answer'.told \in Told
      BY <1>1, <2>1 DEF ToldTheTruth, Told
    <2> QED BY <2>2, ResetParts DEF Around
  <1> QED BY <1>1, <1>4, <1>5, <1>6, <1>7, WritingOp DEF Free

\* The registration and the end of its transaction.
LEMMA RegistrationWritten ==
  ASSUME ResetAssumption, ResetInv, NEW o \in Operators, op[o].pc = "append", lock' = Unlocked,
         NEW n, n = op[o].plan, Tell(o, n, "registered"), reg' = Registered(o),
         UNCHANGED <<control, rows, receipts, world, plans>>, faults' \in 0 .. MaxFaults
  PROVE  ResetInv'
  <1>0. /\ op \in [Operators -> OpRecord] /\ Local(o) /\ n \in DOMAIN plans /\ n \notin reg.by
        /\ lock.who = o
    BY ResetParts DEF Local, Locking
  <1>1. /\ op' \in [Operators -> OpRecord] /\ op'[o].pc = "idle" /\ op'[o].erased = FALSE
        /\ \A p \in Operators : p # o => op'[p] = op[p]
        /\ answer'.plan = n /\ answer'.told = "registered" /\ answer'.erased = op[o].erased
    <2>1. op \in [Operators -> OpRecord] /\ Tell(o, n, "registered")
      BY <1>0
    <2> QED BY <2>1, TellFacts
  <1>2. n \in PlanIds /\ MaxPlans \in Nat
    BY <1>0, PlanNumbers
  <1>3. /\ reg' = [rev |-> reg.rev + 1, auth |-> plans[n].inv.auth, bind |-> plans[n].inv.bind,
                   fresh |-> TRUE, by |-> reg.by \cup {n}]
        /\ plans[n].inv \in [rev: Nat, auth: Nat, bind: Nat]
    BY <1>0, ResetParts DEF Registered, P, PlanList
  <1>4. /\ reg \in [rev: Nat, auth: Nat, bind: Nat, fresh: BOOLEAN, by: SUBSET PlanIds]
        /\ reg.rev = Cardinality(reg.by)
    BY ResetParts DEF Stored
  <1>5. Cardinality(reg.by \cup {n}) = Cardinality(reg.by) + 1
    <2>1. IsFiniteSet(PlanIds)
      BY <1>2, FS_Interval DEF PlanIds
    <2>2. IsFiniteSet(reg.by)
      <3>1. reg.by \subseteq PlanIds
        BY <1>4
      <3> QED BY <2>1, <3>1, FS_Subset
    <2> QED BY <1>0, <2>2, FS_AddElement
  <1>6. /\ reg' \in [rev: Nat, auth: Nat, bind: Nat, fresh: BOOLEAN, by: SUBSET PlanIds]
        /\ reg'.rev = Cardinality(reg'.by)
    <2>1. reg' \in [rev: Nat, auth: Nat, bind: Nat, fresh: BOOLEAN, by: SUBSET PlanIds]
      BY <1>2, <1>3, <1>4
    <2>2. reg'.rev = reg.rev + 1 /\ reg'.by = reg.by \cup {n}
      BY <1>3
    <2> QED BY <1>4, <1>5, <2>1, <2>2
  <1>7. Stored' /\ Baselines' /\ Effects'
    BY <1>6, ResetParts DEF Stored, Baselines, Effects
  <1>8. ResetsFollow' /\ EpochChain'
    BY ResetParts DEF ResetsFollow, EpochChain, Resets
  <1>9. Local(o)'
    BY <1>1 DEF Local, Locking, Unlocked, ResetAssumption
  <1>10. /\ ToldTheTruth' /\ answer'.told \in Told
         /\ lock'.who = Nobody /\ lock' \in [who: Operators \cup {Nobody}, rows: BOOLEAN]
    BY <1>1, <1>3 DEF ToldTheTruth, Told, Unlocked
  <1> QED BY <1>0, <1>1, <1>7, <1>8, <1>9, <1>10, WritingOp

\* The rows are gone, and the receipt says whose baseline was replaced.
LEMMA ErasedStep ==
  ASSUME ResetAssumption, ResetInv, NEW o \in Operators, op[o].pc = "commit", Erase(o),
         lock' = Unlocked, NEW pc \in {"verify", "reconcile"},
         op' = [op EXCEPT ![o] = [@ EXCEPT !.pc = pc, !.erased = TRUE]],
         UNCHANGED <<answer, reg, world, plans>>, faults' \in 0 .. MaxFaults
  PROVE  ResetInv'
  <1> DEFINE n == op[o].plan
             new == [plan |-> n, kind |-> "reset", old |-> control.epoch]
             r == [op[o] EXCEPT !.pc = pc, !.erased = TRUE]
  <1>0. /\ op \in [Operators -> OpRecord] /\ Local(o) /\ n \in DOMAIN plans
        /\ lock.who = o /\ Approved(o) /\ ~world.post /\ world.job # "active"
    BY ResetParts DEF Local, Locking
  <1>1. r \in OpRecord /\ r.pc = pc /\ r.plan = n /\ r.erased = TRUE
    BY <1>0 DEF OpRecord, Steps
  <1>2. op' = [op EXCEPT ![o] = r]
    OBVIOUS
  <1>3. /\ op' \in [Operators -> OpRecord]
        /\ op'[o].pc = pc /\ op'[o].plan = n /\ op'[o].erased = TRUE
        /\ \A p \in Operators : p # o => op'[p] = op[p]
    <2> HIDE DEF r
    <2> QED BY <1>0, <1>1, <1>2
  <1>4. n \in 1 .. MaxPlans /\ MaxPlans \in Nat /\ n \in PlanIds
    BY <1>0, PlanNumbers
  <1>5. /\ rows' = [NoRows EXCEPT !.ver = rows.ver]
        /\ control' = [epoch |-> n, by |-> n, maint |-> TRUE]
        /\ receipts' = receipts \cup {new}
    BY DEF Erase
  <1>6. new.plan = n /\ new.kind = "reset" /\ new.old = control.epoch
    OBVIOUS
  <1>7. /\ control'.epoch = n /\ control'.by = n
        /\ control' \in [epoch: 0 .. MaxPlans, by: 0 .. MaxPlans, maint: BOOLEAN]
    BY <1>4, <1>5
  <1>8. plans[n].snap.control.epoch = control.epoch /\ control.epoch \in Nat /\ control.epoch < n
    <2>1. plans[n].snap.control = control
      BY <1>0 DEF Approved, Snapshot, P
    <2>2. plans[n].snap.control.epoch \in 0 .. n - 1
      BY <1>0, ResetParts DEF PlanList
    <2> QED BY <1>4, <2>1, <2>2
  <1> HIDE DEF new, r, n
  <1>9. Stored'
    <2>1. rows' \in [ver: 0 .. MaxWrites, act: ActStates,
                     work: {"none", "queued", "leased", "done"}]
      BY <1>5, ResetParts DEF Stored, NoRows, ActStates
    <2>2. \A x \in receipts' : x.plan \in PlanIds /\ x.kind \in {"baseline", "reset"}
      BY <1>4, <1>5, <1>6, ResetParts DEF Stored
    <2> QED BY <1>7, <2>1, <2>2, ResetParts DEF Stored
  <1>10. Baselines' /\ Effects'
    BY <1>0, <1>7 DEF Baselines, Effects
  <1>11. /\ \A x \in receipts : x.plan \in DOMAIN plans
         /\ \A x \in Resets : x.old \in Nat /\ x.old < control.epoch
    BY ResetParts DEF ResetsFollow
  <1>12. Resets' = Resets \cup {new}
    BY <1>5, <1>6 DEF Resets
  <1>13. ResetsFollow'
    <2>1. \A x \in receipts' : x.plan \in DOMAIN plans'
      BY <1>0, <1>5, <1>6, <1>11
    <2>2. \A x \in Resets' : x.old \in Nat /\ x.old < control'.epoch
      BY <1>4, <1>6, <1>7, <1>8, <1>11, <1>12
    <2> QED BY <2>1, <2>2 DEF ResetsFollow
  <1>14. EpochChain'
    <2>0. /\ \A x \in Resets : x.old = plans[x.plan].snap.control.epoch
          /\ \A x, y \in Resets : x.old = y.old => x = y
          /\ \A x \in Resets : x.plan = control.epoch \/ \E y \in Resets : y.old = x.plan
      BY ResetParts DEF EpochChain
    <2>1. \A x \in Resets' : x.old = plans'[x.plan].snap.control.epoch
      BY <1>6, <1>8, <1>12, <2>0
    <2>2. \A x, y \in Resets' : x.old = y.old => x = y
      <3>1. \A x \in Resets : x.old # new.old
        BY <1>6, <1>8, <1>11
      <3> QED BY <1>12, <2>0, <3>1
    <2>3. \A x \in Resets' : x.plan = control'.epoch \/ \E y \in Resets' : y.old = x.plan
      BY <1>6, <1>7, <1>12, <2>0
    <2> QED BY <2>1, <2>2, <2>3 DEF EpochChain
  <1>15. Local(o)'
    <2>1. \E x \in receipts' : x.plan = n /\ x.kind = "reset"
      BY <1>5, <1>6
    <2>2. lock'.who # o
      BY DEF Unlocked, ResetAssumption
    <2> QED BY <1>0, <1>3, <2>1, <2>2 DEF Local, Locking, Replayed, HasReceipt
  <1>16. /\ ToldTheTruth' /\ answer'.told \in Told
         /\ lock' \in [who: Operators \cup {Nobody}, rows: BOOLEAN] /\ lock'.who = Nobody
    BY <1>5, ResetParts DEF ToldTheTruth, Around, Replayed, HasReceipt, Unlocked
  <1> QED BY <1>0, <1>3, <1>5, <1>9, <1>10, <1>13, <1>14, <1>15, <1>16, WritingOp

\* The operations before their transactions.
LEMMA BeginKeeps ==
  ASSUME ResetAssumption, ResetInv, NEW o \in Operators, Begin(o)
  PROVE  ResetInv'
  <1>0. /\ faults \in 0 .. MaxFaults
        /\ op[o].pc = "idle" => ~op[o].erased
    BY ResetParts DEF Local, Around
  <1>1. ASSUME NEW purpose \in Purposes, Plan(o, purpose)
        PROVE  ResetInv'
    <2>1. CASE Readable
      <3> DEFINE e == [purpose |-> purpose, snap |-> Snapshot, inv |-> Inventory,
                       blocked |-> Blocked(purpose)]
      <3>1. /\ plans' = Append(plans, e) /\ Made(purpose) < Limit[purpose]
            /\ UNCHANGED <<control, rows, reg, receipts, world, op, answer, lock, faults>>
        BY <1>1, <2>1 DEF Plan, CanPlan, ops, sql
      <3>2. e.purpose = purpose /\ e.snap = Snapshot /\ e.inv = Inventory
        OBVIOUS
      <3> HIDE DEF e
      <3> QED BY <3>1, <3>2, NewPlanStep
    <2>2. CASE ~Readable
      <3>1. /\ Tell(o, 0, "unreadable") /\ lock' = lock /\ faults' = faults
            /\ UNCHANGED <<control, rows, reg, receipts, plans, world>>
        BY <1>1, <2>2 DEF Plan, sql
      <3>2. op[o].pc \notin Locking
        BY <1>1 DEF Plan, CanPlan, Locking
      <3> QED BY <1>0, <3>1, <3>2, TellStep DEF Told
    <2> QED BY <2>1, <2>2
  <1>2. ASSUME Prepare(o)
        PROVE  ResetInv'
    <2> DEFINE e == [purpose |-> "register", snap |-> Snapshot, inv |-> Inventory,
                     blocked |-> ~Stopped]
    <2>1. /\ plans' = Append(plans, e) /\ Made("register") < Limit["register"]
          /\ UNCHANGED <<control, rows, reg, receipts, world, op, answer, lock, faults>>
      BY <1>2 DEF Prepare, CanPlan, ops, sql
    <2>2. e.purpose = "register" /\ e.snap = Snapshot /\ e.inv = Inventory
      OBVIOUS
    <2> HIDE DEF e
    <2> QED BY <2>1, <2>2, NewPlanStep DEF Purposes
  <1>3. ASSUME NEW n \in DOMAIN plans, Initialize(o, n)
        PROVE  ResetInv'
    <2>1. /\ UNCHANGED <<control, rows, reg, receipts, plans, world, lock, faults>>
          /\ Free /\ op[o].pc = "idle"
          /\ Tell(o, n, "refused") \/ Start(o, n, "schema")
      BY <1>3 DEF Initialize, Presents, sql
    <2>2. CASE Tell(o, n, "refused")
      BY <1>0, <2>1, <2>2, TellStep DEF Told, Locking
    <2>3. CASE Start(o, n, "schema")
      BY <2>1, <2>3, BeginStep
    <2> QED BY <2>1, <2>2, <2>3
  <1>4. ASSUME NEW n \in DOMAIN plans, Accept(o, n)
        PROVE  ResetInv'
    <2>1. /\ UNCHANGED <<control, rows, reg, receipts, plans, world, faults>>
          /\ Free /\ op[o].pc = "idle"
          /\ \/ n \in reg.by /\ Tell(o, n, "registered") /\ lock' = lock
             \/ Tell(o, n, "refused") /\ lock' = lock
             \/ n \notin reg.by /\ Start(o, n, "collect") /\ lock' = [who |-> o, rows |-> FALSE]
      BY <1>4 DEF Accept, Presents, sql
    <2>2. CASE n \in reg.by /\ Tell(o, n, "registered") /\ lock' = lock
      BY <1>0, <2>1, <2>2, TellStep DEF Told, Locking
    <2>3. CASE Tell(o, n, "refused") /\ lock' = lock
      BY <1>0, <2>1, <2>3, TellStep DEF Told, Locking
    <2>4. CASE n \notin reg.by /\ Start(o, n, "collect") /\ lock' = [who |-> o, rows |-> FALSE]
      BY <2>1, <2>4, BeginStep
    <2> QED BY <2>1, <2>2, <2>3, <2>4
  <1>5. ASSUME NEW n \in DOMAIN plans, Execute(o, n)
        PROVE  ResetInv'
    <2>1. /\ UNCHANGED <<control, rows, reg, receipts, plans, world, lock, faults>>
          /\ Free /\ op[o].pc = "idle"
          /\ \/ Replayed(n) /\ Tell(o, n, Replay(o, n))
             \/ Tell(o, n, "refused")
             \/ Start(o, n, "lock")
      BY <1>5 DEF Execute, Presents, sql
    <2>2. CASE Replayed(n) /\ Tell(o, n, Replay(o, n))
      <3>1. Replay(o, n) \in {"reset", "refused"}
        BY DEF Replay
      <3> QED BY <1>0, <2>1, <2>2, <3>1, TellStep DEF Told, Locking
    <2>3. CASE Tell(o, n, "refused")
      BY <1>0, <2>1, <2>3, TellStep DEF Told, Locking
    <2>4. CASE Start(o, n, "lock")
      BY <2>1, <2>4, BeginStep
    <2> QED BY <2>1, <2>2, <2>3, <2>4
  <1> QED BY <1>1, <1>2, <1>3, <1>4, <1>5 DEF Begin, Purposes

\* The first baseline.
LEMMA InitializationKeeps ==
  ASSUME ResetAssumption, ResetInv, NEW o \in Operators,
         InitializeSchema(o) \/ SchemaUnconfirmed(o) \/ RecordBaseline(o)
  PROVE  ResetInv'
  <1> DEFINE n == op[o].plan
  <1>0. /\ faults \in 0 .. MaxFaults
        /\ op[o].erased => op[o].pc \in {"verify", "reconcile"}
    BY ResetParts DEF Local, Around
  <1>1. CASE InitializeSchema(o)
    <2>1. /\ UNCHANGED <<rows, reg, receipts, plans, world, lock, faults>>
          /\ Free /\ op[o].pc = "schema"
          /\ \/ control.epoch = 0 /\ control' = [epoch |-> n, by |-> n, maint |-> TRUE] /\ Go(o, "adopt")
             \/ Go(o, "adopt") /\ control' = control
             \/ Tell(o, n, "refused") /\ control' = control
      BY <1>1 DEF InitializeSchema
    <2>2. CASE control.epoch = 0 /\ control' = [epoch |-> n, by |-> n, maint |-> TRUE] /\ Go(o, "adopt")
      BY <1>0, <2>1, <2>2, SchemaWritten
    <2>3. CASE Go(o, "adopt") /\ control' = control
      <3>1. lock.who # o /\ lock \in [who: Operators \cup {Nobody}, rows: BOOLEAN]
        BY <2>1, ResetParts DEF Free, ResetAssumption, Around
      <3> QED BY <1>0, <2>1, <2>3, <3>1, GoStep DEF Steps, Locking
    <2>4. CASE Tell(o, n, "refused") /\ control' = control
      BY <1>0, <2>1, <2>4, TellStep DEF Told, Locking
    <2> QED BY <2>1, <2>2, <2>3, <2>4
  <1>2. CASE SchemaUnconfirmed(o)
    <2>1. /\ UNCHANGED <<rows, reg, receipts, plans, world, lock>>
          /\ Free /\ op[o].pc = "schema" /\ control.epoch = 0 /\ Fault
          /\ \/ control' = [epoch |-> n, by |-> n, maint |-> TRUE] /\ Go(o, "adopt")
             \/ Tell(o, n, "uncertain") /\ control' = control
      BY <1>2 DEF SchemaUnconfirmed
    <2>2. faults' \in 0 .. MaxFaults
      BY <2>1, FaultCounted
    <2>3. CASE control' = [epoch |-> n, by |-> n, maint |-> TRUE] /\ Go(o, "adopt")
      BY <2>1, <2>2, <2>3, SchemaWritten
    <2>4. CASE Tell(o, n, "uncertain") /\ control' = control
      BY <2>1, <2>2, <2>4, TellStep DEF Told, Locking
    <2> QED BY <2>1, <2>3, <2>4
  <1>3. CASE RecordBaseline(o)
    <2>1. /\ UNCHANGED <<control, rows, reg, plans, world, lock, faults>>
          /\ Free /\ op[o].pc = "adopt"
          /\ \/ /\ receipts' = receipts \cup {[plan |-> n, kind |-> "baseline", old |-> 0]}
                /\ Tell(o, n, "initialized")
             \/ Tell(o, n, "refused") /\ receipts' = receipts
      BY <1>3 DEF RecordBaseline
    <2>2. CASE /\ receipts' = receipts \cup {[plan |-> n, kind |-> "baseline", old |-> 0]}
               /\ Tell(o, n, "initialized")
      BY <2>1, <2>2, BaselineWritten
    <2>3. CASE Tell(o, n, "refused") /\ receipts' = receipts
      BY <1>0, <2>1, <2>3, TellStep DEF Told, Locking
    <2> QED BY <2>1, <2>2, <2>3
  <1> QED BY <1>1, <1>2, <1>3

\* The registration.
LEMMA RegistrationKeeps ==
  ASSUME ResetAssumption, ResetInv, NEW o \in Operators,
         Collect(o) \/ VerifyQuiescence(o) \/ AppendRegistration(o)
  PROVE  ResetInv'
  <1> DEFINE n == op[o].plan
  <1>0. /\ faults \in 0 .. MaxFaults /\ lock \in [who: Operators \cup {Nobody}, rows: BOOLEAN]
        /\ op[o].erased => op[o].pc \in {"verify", "reconcile"}
        /\ op[o].pc \in {"collect", "quiet", "append"} => n \notin reg.by /\ lock.who = o
    BY ResetParts DEF Local, Around, Locking
  <1>1. CASE Collect(o)
    <2>1. /\ UNCHANGED <<control, rows, reg, receipts, plans, world, faults>>
          /\ op[o].pc = "collect"
          /\ \/ Go(o, "quiet") /\ lock' = lock
             \/ Tell(o, n, "refused") /\ lock' = Unlocked
      BY <1>1 DEF Collect, Rollback, sql
    <2>2. CASE Go(o, "quiet") /\ lock' = lock
      BY <1>0, <2>1, <2>2, GoStep DEF Steps, Locking
    <2>3. CASE Tell(o, n, "refused") /\ lock' = Unlocked
      BY <1>0, <2>1, <2>3, TellStep DEF Told
    <2> QED BY <2>1, <2>2, <2>3
  <1>2. CASE VerifyQuiescence(o)
    <2>1. /\ UNCHANGED <<control, rows, reg, receipts, plans, world, faults>>
          /\ op[o].pc = "quiet"
          /\ \/ Go(o, "append") /\ lock' = [lock EXCEPT !.rows = TRUE]
             \/ Tell(o, n, "refused") /\ lock' = Unlocked
      BY <1>2 DEF VerifyQuiescence, Rollback, sql
    <2>2. CASE Go(o, "append") /\ lock' = [lock EXCEPT !.rows = TRUE]
      <3>1. lock' \in [who: Operators \cup {Nobody}, rows: BOOLEAN] /\ lock'.who = lock.who
        BY <1>0, <2>2
      <3> QED BY <1>0, <2>1, <2>2, <3>1, GoStep DEF Steps, Locking
    <2>3. CASE Tell(o, n, "refused") /\ lock' = Unlocked
      BY <1>0, <2>1, <2>3, TellStep DEF Told
    <2> QED BY <2>1, <2>2, <2>3
  <1>3. CASE AppendRegistration(o)
    <2>1. /\ UNCHANGED <<control, rows, receipts, plans, world>>
          /\ op[o].pc = "append" /\ lock' = Unlocked
          /\ faults' = faults \/ Fault
          /\ \/ reg' = Registered(o) /\ Tell(o, n, "registered")
             \/ Tell(o, n, "uncertain") /\ reg' = reg
             \/ Tell(o, n, "refused") /\ reg' = reg
      BY <1>3 DEF AppendRegistration
    <2>2. faults' \in 0 .. MaxFaults
      BY <1>0, <2>1, FaultCounted
    <2>3. CASE reg' = Registered(o) /\ Tell(o, n, "registered")
      BY <2>1, <2>2, <2>3, RegistrationWritten
    <2>4. CASE Tell(o, n, "uncertain") /\ reg' = reg
      BY <1>0, <2>1, <2>2, <2>4, TellStep DEF Told
    <2>5. CASE Tell(o, n, "refused") /\ reg' = reg
      BY <1>0, <2>1, <2>2, <2>5, TellStep DEF Told
    <2> QED BY <2>1, <2>3, <2>4, <2>5
  <1> QED BY <1>1, <1>2, <1>3

\* The reset: what was seen to be over when the service stands still stays so.
LEMMA ResetKeeps ==
  ASSUME ResetAssumption, ResetInv, NEW o \in Operators,
         \/ LockTables(o) \/ FirstPreflight(o) \/ SecondPreflight(o)
         \/ Commit(o) \/ CommitUnconfirmed(o) \/ Reconcile(o) \/ Verify(o)
  PROVE  ResetInv'
  <1> DEFINE n == op[o].plan
  <1>0. /\ faults \in 0 .. MaxFaults /\ lock \in [who: Operators \cup {Nobody}, rows: BOOLEAN]
        /\ op[o].erased => op[o].pc \in {"verify", "reconcile"}
        /\ op[o].pc \in {"first", "second", "commit"} => lock.who = o /\ lock.rows /\ Approved(o)
        /\ op[o].pc \in {"second", "commit"} => ~world.post /\ world.job # "active"
        /\ op[o].pc = "verify" => Replayed(n)
    BY ResetParts DEF Local, Around, Locking
  <1>1. CASE LockTables(o)
    <2>1. /\ UNCHANGED <<control, rows, reg, receipts, plans, world, faults>>
          /\ op[o].pc = "lock" /\ Free
          /\ \/ Replayed(n) /\ Tell(o, n, Replay(o, n)) /\ lock' = lock
             \/ Approved(o) /\ Go(o, "first") /\ lock' = [who |-> o, rows |-> TRUE]
             \/ Tell(o, n, "refused") /\ lock' = lock
      BY <1>1 DEF LockTables, sql
    <2>2. CASE Replayed(n) /\ Tell(o, n, Replay(o, n)) /\ lock' = lock
      <3>1. Replay(o, n) \in {"reset", "refused"}
        BY DEF Replay
      <3> QED BY <1>0, <2>1, <2>2, <3>1, TellStep DEF Told, Locking
    <2>3. CASE Approved(o) /\ Go(o, "first") /\ lock' = [who |-> o, rows |-> TRUE]
      <3>1. /\ lock' \in [who: Operators \cup {Nobody}, rows: BOOLEAN] /\ lock'.who = o /\ lock'.rows
            /\ lock.who = Nobody
        BY <2>1, <2>3 DEF Free
      <3> QED BY <1>0, <2>1, <2>3, <3>1, GoStep DEF Steps, Locking
    <2>4. CASE Tell(o, n, "refused") /\ lock' = lock
      BY <1>0, <2>1, <2>4, TellStep DEF Told, Locking
    <2> QED BY <2>1, <2>2, <2>3, <2>4
  <1>2. CASE FirstPreflight(o)
    <2>1. /\ UNCHANGED <<control, rows, reg, receipts, plans, world, faults>>
          /\ op[o].pc = "first"
          /\ \/ Preflight(o) /\ Go(o, "second") /\ lock' = lock
             \/ Tell(o, n, "refused") /\ lock' = Unlocked
      BY <1>2 DEF FirstPreflight, Rollback, sql
    <2>2. CASE Preflight(o) /\ Go(o, "second") /\ lock' = lock
      <3>1. world.job # "active" /\ rows.act # "reserved"
        BY <2>2 DEF Preflight, Quiescent, Hazards, NoActiveRun
      <3>2. ~world.post
        BY <3>1, ResetParts DEF Effects
      <3> QED BY <1>0, <2>1, <2>2, <3>1, <3>2, GoStep DEF Steps, Locking
    <2>3. CASE Tell(o, n, "refused") /\ lock' = Unlocked
      BY <1>0, <2>1, <2>3, TellStep DEF Told
    <2> QED BY <2>1, <2>2, <2>3
  <1>3. CASE SecondPreflight(o)
    <2>1. /\ UNCHANGED <<control, rows, reg, receipts, plans, world, faults>>
          /\ op[o].pc = "second"
          /\ \/ Go(o, "commit") /\ lock' = lock
             \/ Tell(o, n, "refused") /\ lock' = Unlocked
      BY <1>3 DEF SecondPreflight, Rollback, sql
    <2>2. CASE Go(o, "commit") /\ lock' = lock
      BY <1>0, <2>1, <2>2, GoStep DEF Steps, Locking
    <2>3. CASE Tell(o, n, "refused") /\ lock' = Unlocked
      BY <1>0, <2>1, <2>3, TellStep DEF Told
    <2> QED BY <2>1, <2>2, <2>3
  <1>4. CASE Commit(o)
    <2>1. /\ UNCHANGED <<answer, reg, plans, world, faults>>
          /\ op[o].pc = "commit" /\ Erase(o) /\ lock' = Unlocked
          /\ op' = [op EXCEPT ![o] = [@ EXCEPT !.pc = "verify", !.erased = TRUE]]
      BY <1>4 DEF Commit
    <2> QED BY <1>0, <2>1, ErasedStep
  <1>5. CASE CommitUnconfirmed(o)
    <2>1. /\ UNCHANGED <<reg, plans, world>>
          /\ op[o].pc = "commit" /\ Fault /\ lock' = Unlocked
          /\ \/ /\ Erase(o) /\ answer' = answer
                /\ op' = [op EXCEPT ![o] = [@ EXCEPT !.pc = "reconcile", !.erased = TRUE]]
             \/ Go(o, "reconcile") /\ UNCHANGED <<rows, control, receipts>>
      BY <1>5 DEF CommitUnconfirmed
    <2>2. faults' \in 0 .. MaxFaults
      BY <2>1, FaultCounted
    <2>3. CASE /\ Erase(o) /\ answer' = answer
               /\ op' = [op EXCEPT ![o] = [@ EXCEPT !.pc = "reconcile", !.erased = TRUE]]
      BY <2>1, <2>2, <2>3, ErasedStep
    <2>4. CASE Go(o, "reconcile") /\ UNCHANGED <<rows, control, receipts>>
      <3>1. lock' \in [who: Operators \cup {Nobody}, rows: BOOLEAN] /\ lock'.who = Nobody
        BY <2>1 DEF Unlocked
      <3>2. lock'.who # o
        BY <3>1 DEF ResetAssumption
      <3> QED BY <1>0, <2>1, <2>2, <2>4, <3>1, <3>2, GoStep DEF Steps, Locking
    <2> QED BY <2>1, <2>3, <2>4
  <1>6. CASE Reconcile(o)
    <2> DEFINE what == IF Replayed(n) /\ control.epoch = n THEN "reset" ELSE Unestablished
    <2>1. /\ UNCHANGED <<control, rows, reg, receipts, plans, world, lock, faults>>
          /\ op[o].pc = "reconcile" /\ Tell(o, n, what)
      BY <1>6 DEF Reconcile, sql
    <2>2. what = "reset" => Replayed(n)
      BY DEF Unestablished
    <2>3. what \in {"reset", "uncertain"}
      BY DEF Unestablished
    <2>4. SUFFICES ASSUME NEW w \in {"reset", "uncertain"}, w = what PROVE ResetInv'
      BY <2>3
    <2> QED BY <1>0, <2>1, <2>2, <2>4, TellStep DEF Told, Locking
  <1>7. CASE Verify(o)
    <2>1. /\ UNCHANGED <<control, rows, reg, receipts, plans, world, lock, faults>>
          /\ op[o].pc = "verify"
          /\ Tell(o, n, "reset") \/ Tell(o, n, "unverified")
      BY <1>7 DEF Verify, sql
    <2> QED BY <1>0, <2>1, TellStep DEF Told, Locking
  <1> QED BY <1>1, <1>2, <1>3, <1>4, <1>5, <1>6, <1>7

\* An operator that is gone has left its transaction.
LEMMA CrashKeeps ==
  ASSUME ResetAssumption, ResetInv, NEW o \in Operators, Crash(o)
  PROVE  ResetInv'
  <1> DEFINE r == Idle
  <1>0. op \in [Operators -> OpRecord] /\ MaxPlans \in Nat
    BY ResetParts DEF ResetAssumption, MaxPlans
  <1>1. r \in OpRecord /\ r.pc = "idle" /\ r.erased = FALSE
    BY <1>0 DEF OpRecord, Idle, Steps
  <1>2. /\ op' = [op EXCEPT ![o] = r] /\ answer' = answer
        /\ UNCHANGED <<control, rows, reg, receipts, plans, world>>
        /\ Fault /\ lock' = IF lock.who = o THEN Unlocked ELSE lock
    BY DEF Crash, sql
  <1> HIDE DEF r
  <1>3. /\ op' \in [Operators -> OpRecord] /\ op'[o].pc = "idle" /\ op'[o].erased = FALSE
        /\ \A p \in Operators : p # o => op'[p] = op[p]
    BY <1>0, <1>1, <1>2
  <1>4. /\ lock' = lock \/ (lock.who = o /\ lock'.who = Nobody)
        /\ lock' \in [who: Operators \cup {Nobody}, rows: BOOLEAN] /\ lock'.who # o
    BY <1>2, ResetParts DEF Around, Unlocked, ResetAssumption
  <1>5. Local(o)'
    BY <1>3, <1>4 DEF Local, Locking
  <1>6. ToldTheTruth' /\ answer'.told \in Told
    BY <1>2, ResetParts DEF ToldTheTruth, Around, Replayed, HasReceipt
  <1>7. faults' \in 0 .. MaxFaults
    BY <1>2, FaultCounted
  <1> QED BY <1>2, <1>3, <1>4, <1>5, <1>6, <1>7, QuietOp

\* A step of the services or of the world around them: the operators, their
\* plans and their receipts are left alone.
LEMMA OutsideStep ==
  ASSUME ResetAssumption, ResetInv, UNCHANGED <<receipts, plans, op, answer, lock, faults>>,
         control.epoch = control'.epoch, control.by = control'.by,
         Stored', Effects',
         world' \in [running: BOOLEAN, post: BOOLEAN, job: {"idle", "active", "ended"},
                     auth: Nat, bind: Nat, changes: Nat],
         reg'.by = reg.by, reg'.rev = reg.rev,
         lock.rows => UNCHANGED <<control, rows>>,
         ~world.post /\ world.job # "active" /\ lock.rows => ~world'.post /\ world'.job # "active"
  PROVE  ResetInv'
  <1>1. \A o \in Operators : Local(o)'
    <2> SUFFICES ASSUME NEW o \in Operators PROVE Local(o)'
      OBVIOUS
    <2>1. Grows /\ Untouched(o)
      BY DEF Grows, Untouched
    <2>2. op[o].pc \in {"second", "commit"} => ~world'.post /\ world'.job # "active"
      BY ResetParts DEF Local
    <2> QED BY <2>1, <2>2, LocalFrame
  <1>2. PlanList'
    <2>1. plans' = plans /\ \A p \in Purposes : Made(p)' = Made(p)
      BY DEF Made
    <2>2. {plans'[n] : n \in DOMAIN plans'} = {plans[n] : n \in DOMAIN plans}
      BY <2>1
    <2> QED BY <2>1, <2>2, ResetParts DEF PlanList
  <1>3. Around' /\ Baselines'
    BY ResetParts DEF Around, Baselines
  <1>4. ResetsFollow' /\ EpochChain' /\ ToldTheTruth'
    BY ResetParts DEF ResetsFollow, EpochChain, Resets, ToldTheTruth, Replayed, HasReceipt
  <1>5. op' \in [Operators -> OpRecord]
    BY ResetParts
  <1> QED BY <1>1, <1>2, <1>3, <1>4, <1>5, ResetPartsNext

\* What a service writes, it writes while nobody holds the rows.
LEMMA WriteFacts ==
  ASSUME ResetAssumption, ResetInv, NEW act \in ActStates, NEW work \in {"none", "queued", "leased", "done"},
         Write(act, work)
  PROVE  /\ UNCHANGED <<control, reg, receipts, plans, op, answer, lock, faults>>
         /\ ~lock.rows /\ rows'.act = act /\ Stored'
  <1>1. /\ UNCHANGED <<control, reg, receipts, plans, op, answer, lock, faults>> /\ ~lock.rows
        /\ rows' = [ver |-> rows.ver + 1, act |-> act, work |-> work] /\ rows.ver < MaxWrites
    BY DEF Write, ops
  <1>2. rows.ver \in 0 .. MaxWrites /\ MaxWrites \in Nat
    BY ResetParts DEF Stored, ResetAssumption
  <1>3. rows' \in [ver: 0 .. MaxWrites, act: ActStates, work: {"none", "queued", "leased", "done"}]
    BY <1>1, <1>2
  <1> QED BY <1>1, <1>3, ResetParts DEF Stored

\* A request has no job before it arrives, and an action no verdict before
\* its job has ended.
LEMMA ServicesKeep ==
  ASSUME ResetAssumption, ResetInv, Services
  PROVE  ResetInv'
  <1>0. /\ world \in [running: BOOLEAN, post: BOOLEAN, job: {"idle", "active", "ended"},
                      auth: Nat, bind: Nat, changes: Nat]
        /\ Effects
    BY ResetParts DEF Around
  <1>1. ASSUME NEW act \in ActStates, NEW work \in {"none", "queued", "leased", "done"},
               Write(act, work), world' = world,
               world.post => act = "reserved" /\ world.job = "idle",
               world.job = "active" => act \in {"reserved", "submitted"}
        PROVE  ResetInv'
    <2>1. /\ UNCHANGED <<control, reg, receipts, plans, op, answer, lock, faults>>
          /\ ~lock.rows /\ rows'.act = act /\ Stored'
      BY <1>1, WriteFacts
    <2>2. Effects'
      BY <1>1, <2>1 DEF Effects
    <2> QED BY <1>0, <1>1, <2>1, <2>2, OutsideStep
  <1>2. CASE Queue
    <2>1. Write("none", "queued") /\ world' = world /\ rows.act \notin {"reserved", "submitted"}
      BY <1>2 DEF Queue
    <2> QED BY <1>0, <1>1, <2>1 DEF Effects, ActStates
  <1>3. CASE Reserve
    <2>1. Write("reserved", "leased") /\ world' = [world EXCEPT !.post = TRUE, !.job = "idle"]
      BY <1>3 DEF Reserve
    <2>2. /\ UNCHANGED <<control, reg, receipts, plans, op, answer, lock, faults>>
          /\ ~lock.rows /\ rows'.act = "reserved" /\ Stored'
      BY <2>1, WriteFacts DEF ActStates
    <2>3. /\ world' \in [running: BOOLEAN, post: BOOLEAN, job: {"idle", "active", "ended"},
                         auth: Nat, bind: Nat, changes: Nat]
          /\ world'.job = "idle"
      BY <1>0, <2>1
    <2>4. Effects'
      BY <2>2, <2>3 DEF Effects
    <2> QED BY <2>2, <2>3, <2>4, OutsideStep
  <1>4. CASE RecordSubmission
    <2>1. PICK w \in {"leased", "done"} : Write("submitted", w)
      BY <1>4 DEF RecordSubmission
    <2>2. world.job # "idle" /\ world' = world
      BY <1>4 DEF RecordSubmission
    <2> QED BY <1>0, <1>1, <2>1, <2>2 DEF Effects, ActStates
  <1>5. CASE RecordRejection
    <2>1. Write("rejected", "done") /\ world' = world /\ ~world.post /\ world.job = "idle"
      BY <1>5 DEF RecordRejection
    <2> QED BY <1>0, <1>1, <2>1 DEF ActStates
  <1>6. CASE RecordOutcome
    <2>1. Write("verified", "done") /\ world' = world /\ rows.act = "submitted" /\ world.job = "ended"
      BY <1>6 DEF RecordOutcome
    <2> QED BY <1>0, <1>1, <2>1 DEF Effects, ActStates
  <1> QED BY <1>2, <1>3, <1>4, <1>5, <1>6 DEF Services

LEMMA OutsideKeeps ==
  ASSUME ResetAssumption, ResetInv, Outside
  PROVE  ResetInv'
  <1> DEFINE World == [running: BOOLEAN, post: BOOLEAN, job: {"idle", "active", "ended"},
                       auth: Nat, bind: Nat, changes: Nat]
  <1>0. world \in World /\ Effects /\ Stored
    BY ResetParts DEF Around
  <1>1. ASSUME world' \in World, Effects',
               UNCHANGED <<control, rows, reg, receipts, plans, op, answer, lock, faults>>,
               ~world.post /\ world.job # "active" => ~world'.post /\ world'.job # "active"
        PROVE  ResetInv'
    <2>1. Stored'
      BY <1>0, <1>1 DEF Stored
    <2> QED BY <1>1, <2>1, OutsideStep
  <1>2. CASE Arrive
    <2>1. PICK j \in {"active", "idle"} : world' = [world EXCEPT !.post = FALSE, !.job = j]
      BY <1>2 DEF Arrive
    <2>2. world.post /\ UNCHANGED <<control, rows, reg, receipts, plans, op, answer, lock, faults>>
      BY <1>2 DEF Arrive, sql, ops
    <2>3. world' \in World /\ world'.post = FALSE /\ world'.job = j
      BY <1>0, <2>1
    <2>4. Effects'
      BY <1>0, <2>2, <2>3 DEF Effects
    <2> QED BY <1>1, <2>2, <2>3, <2>4
  <1>3. CASE JobEnds
    <2>1. /\ world' = [world EXCEPT !.job = "ended"] /\ world.job = "active"
          /\ UNCHANGED <<control, rows, reg, receipts, plans, op, answer, lock, faults>>
      BY <1>3 DEF JobEnds, sql, ops
    <2>2. world' \in World /\ world'.post = world.post /\ world'.job = "ended"
      BY <1>0, <2>1
    <2>3. Effects'
      BY <1>0, <2>1, <2>2 DEF Effects
    <2> QED BY <1>1, <2>1, <2>2, <2>3
  <1>4. CASE StartStop
    <2>1. /\ world' = [world EXCEPT !.running = ~world.running]
          /\ UNCHANGED <<control, rows, reg, receipts, plans, op, answer, lock, faults>>
      BY <1>4 DEF StartStop, sql, ops
    <2>2. world' \in World /\ world'.post = world.post /\ world'.job = world.job
      BY <1>0, <2>1
    <2>3. Effects'
      BY <1>0, <2>1, <2>2 DEF Effects
    <2> QED BY <1>1, <2>1, <2>2, <2>3
  <1>5. CASE SetMaintenance
    <2>1. /\ world' = [world EXCEPT !.changes = world.changes + 1]
          /\ control' = [control EXCEPT !.maint = ~control.maint] /\ ~lock.rows
          /\ UNCHANGED <<rows, reg, receipts, plans, op, answer, lock, faults>>
      BY <1>5 DEF SetMaintenance, sql, ops
    <2>2. world' \in World /\ world'.post = world.post /\ world'.job = world.job
      BY <1>0, <2>1
    <2>3. /\ control'.epoch = control.epoch /\ control'.by = control.by
          /\ control' \in [epoch: 0 .. MaxPlans, by: 0 .. MaxPlans, maint: BOOLEAN]
      BY <1>0, <2>1 DEF Stored
    <2>4. Effects' /\ Stored'
      BY <1>0, <2>1, <2>2, <2>3 DEF Effects, Stored
    <2> QED BY <2>1, <2>2, <2>3, <2>4, OutsideStep
  <1>6. CASE Redeploy
    <2>1. \/ world' = [world EXCEPT !.auth = world.auth + 1, !.changes = world.changes + 1]
          \/ world' = [world EXCEPT !.bind = world.bind + 1, !.changes = world.changes + 1]
      BY <1>6 DEF Redeploy
    <2>2. UNCHANGED <<control, rows, reg, receipts, plans, op, answer, lock, faults>>
      BY <1>6 DEF Redeploy, sql, ops
    <2>3. world' \in World /\ world'.post = world.post /\ world'.job = world.job
      <3> DEFINE a == world.auth + 1  b == world.bind + 1  c == world.changes + 1
      <3>0. world \in World /\ a \in Nat /\ b \in Nat /\ c \in Nat
        BY <1>0
      <3> HIDE DEF a, b, c
      <3>1. CASE world' = [world EXCEPT !.auth = a, !.changes = c]
        BY <3>0, <3>1
      <3>2. CASE world' = [world EXCEPT !.bind = b, !.changes = c]
        BY <3>0, <3>2
      <3> QED BY <2>1, <3>1, <3>2 DEF a, b, c
    <2>4. Effects'
      BY <1>0, <2>2, <2>3 DEF Effects
    <2> QED BY <1>1, <2>2, <2>3, <2>4
  <1>7. CASE Age
    <2>1. /\ world' = [world EXCEPT !.changes = world.changes + 1]
          /\ reg' = [reg EXCEPT !.fresh = FALSE]
          /\ UNCHANGED <<control, rows, receipts, plans, op, answer, lock, faults>>
      BY <1>7 DEF Age, sql, ops
    <2>2. world' \in World /\ world'.post = world.post /\ world'.job = world.job
      BY <1>0, <2>1
    <2>3. /\ reg'.by = reg.by /\ reg'.rev = reg.rev
          /\ reg' \in [rev: Nat, auth: Nat, bind: Nat, fresh: BOOLEAN, by: SUBSET PlanIds]
      BY <1>0, <2>1 DEF Stored
    <2>4. Effects' /\ Stored'
      BY <1>0, <2>1, <2>2, <2>3 DEF Effects, Stored
    <2> QED BY <2>1, <2>2, <2>3, <2>4, OutsideStep
  <1> QED BY <1>2, <1>3, <1>4, <1>5, <1>6, <1>7 DEF Outside

THEOREM ResetStep ==
  ASSUME ResetAssumption, ResetInv, [Next]_vars
  PROVE  ResetInv'
  <1>1. CASE UNCHANGED vars
    <2>1. /\ UNCHANGED <<control, rows, reg, receipts, plans, world, op, answer, lock, faults>>
      BY <1>1 DEF vars
    <2>2. Stored' /\ Effects'
      BY <2>1, ResetParts DEF Stored, Effects
    <2> QED BY <2>1, <2>2, OutsideStep, ResetParts DEF Around
  <1>2. CASE Services \/ Outside
    BY <1>2, ServicesKeep, OutsideKeeps
  <1>3. ASSUME NEW o \in Operators, Begin(o) \/ Continue(o) \/ Crash(o)
        PROVE  ResetInv'
    BY <1>3, BeginKeeps, InitializationKeeps, RegistrationKeeps, ResetKeeps, CrashKeeps DEF Continue
  <1> QED BY <1>1, <1>2, <1>3 DEF Next

\* The strengthening holds in every state, with any number of operators,
\* plans, crashes and writes of the services.
THEOREM ResetInvariant == Spec => []ResetInv
  <1>1. ResetAssumption
    BY ScriptAssumption
  <1>2. Init => ResetInv
    BY <1>1, ResetInit
  <1>3. ResetInv /\ [Next]_vars => ResetInv'
    BY <1>1, ResetStep
  <1> QED BY <1>2, <1>3, PTL DEF Spec

\* Baselines follow each other in one chain, and an operator is told the truth
\* (reconcile_reset, initialize, accept): done is durable, refused deleted
\* nothing.
THEOREM AnswersAreTrue == Spec => []AnswersTrue
  <1>1. ResetInv => AnswersTrue
    BY DEF ResetInv, AnswersTrue
  <1> QED BY <1>1, ResetInvariant, PTL

\* The receipt of a reset is written by the step that deletes the rows, at the
\* end of a transaction that has locked them.
LEMMA WhoErases ==
  ASSUME ResetInv, [Next]_vars, NEW r \in receipts' \ receipts, r.kind = "reset"
  PROVE  \E o \in Operators : op[o].pc = "commit" /\ r.plan = op[o].plan
  <1>1. CASE UNCHANGED vars
    BY <1>1 DEF vars
  <1>2. CASE Services \/ Outside
    BY <1>2 DEF Services, Queue, Reserve, RecordSubmission, RecordRejection, RecordOutcome, Write,
       Outside, Arrive, JobEnds, StartStop, SetMaintenance, Redeploy, Age, sql
  <1>3. ASSUME NEW o \in Operators, Begin(o) \/ Crash(o)
        PROVE  receipts' = receipts
    BY <1>3 DEF Begin, Plan, Prepare, Initialize, Accept, Execute, Crash, sql
  <1>4. ASSUME NEW o \in Operators, Continue(o)
        PROVE  op[o].pc = "commit" /\ r.plan = op[o].plan
    <2>1. CASE InitializeSchema(o) \/ SchemaUnconfirmed(o) \/ Collect(o) \/ VerifyQuiescence(o)
               \/ AppendRegistration(o) \/ LockTables(o) \/ FirstPreflight(o)
               \/ SecondPreflight(o) \/ Reconcile(o) \/ Verify(o)
      BY <2>1 DEF InitializeSchema, SchemaUnconfirmed, Collect, VerifyQuiescence,
         AppendRegistration, LockTables, FirstPreflight, SecondPreflight, Reconcile, Verify, sql
    <2>2. CASE RecordBaseline(o)
      <3>1. \A x \in receipts' : x \in receipts \/ x.kind = "baseline"
        BY <2>2 DEF RecordBaseline
      <3> QED BY <3>1
    <2>3. CASE Commit(o) \/ CommitUnconfirmed(o)
      <3>1. /\ op[o].pc = "commit"
            /\ \/ receipts' = receipts
               \/ receipts' = receipts \cup {[plan |-> op[o].plan, kind |-> "reset", old |-> control.epoch]}
        BY <2>3 DEF Commit, CommitUnconfirmed, Erase
      <3> QED BY <3>1
    <2> QED BY <1>4, <2>1, <2>2, <2>3 DEF Continue
  <1> QED BY <1>1, <1>2, <1>3, <1>4 DEF Next

\* When the rows go, no request of a service is on its way and the job of the
\* target is not running: the effects were over when the rows were locked, and
\* a service that cannot write cannot start another (_live_preflight, execute).
THEOREM NoEffectIsForgotten == Spec => NoEffectForgotten
  <1>1. ResetInv /\ [Next]_vars =>
          [\A r \in receipts' \ receipts :
             r.kind = "reset" => ~world.post /\ world.job # "active"]_vars
    <2> SUFFICES ASSUME ResetInv, [Next]_vars, NEW r \in receipts' \ receipts, r.kind = "reset"
                 PROVE  ~world.post /\ world.job # "active"
      OBVIOUS
    <2>1. PICK o \in Operators : op[o].pc = "commit"
      BY WhoErases
    <2> QED BY <2>1, ResetParts DEF Local
  <1> QED BY <1>1, ResetInvariant, PTL DEF Spec, NoEffectForgotten

\* A reset deletes the rows its plan described and nothing written since
\* (_snapshot, execute).
THEOREM OnlyTheApprovedIsDeleted == Spec => OnlyWhatWasApproved
  <1>1. ResetInv /\ [Next]_vars =>
          [\A r \in receipts' \ receipts : r.kind = "reset" => rows = plans[r.plan].snap.rows]_vars
    <2> SUFFICES ASSUME ResetInv, [Next]_vars, NEW r \in receipts' \ receipts, r.kind = "reset"
                 PROVE  rows = plans[r.plan].snap.rows
      OBVIOUS
    <2>1. PICK o \in Operators : op[o].pc = "commit" /\ r.plan = op[o].plan
      BY WhoErases
    <2>2. Approved(o)
      BY <2>1, ResetParts DEF Local
    <2> QED BY <2>1, <2>2 DEF Approved, P, Snapshot
  <1> QED BY <1>1, ResetInvariant, PTL DEF Spec, OnlyWhatWasApproved
=============================================================================
