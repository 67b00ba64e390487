-------------------------- MODULE SourceAdmission --------------------------
(***************************************************************************)
(* Discovery and admission (src/triage/monitoring/engine.py,               *)
(* record_inventory to _publish_scope; polling.py, Collector._inventory    *)
(* and ._capability): inventory passes over one workspace, capability      *)
(* probes, the scope an administrator previews and activates, the targets  *)
(* that follow from them, and the retirement of old passes.                *)
(*                                                                         *)
(* Every store call is one transaction.  A pass is collected in two pages: *)
(* the workspace and its items.  Each page is durable when it is recorded  *)
(* and takes effect on admission when the controller publishes it.  The    *)
(* pages of a pass form one window, which is rejected as a whole once a    *)
(* page of it belongs to an older policy; how single pages are decided is  *)
(* the subject of CollectionWindow.                                        *)
(*                                                                         *)
(* Reading a page takes one tick, so two observations never carry the same *)
(* time; passes that start together are ordered by their identity.  The delays that only expire    *)
(* something are events that may happen at any time: the lifetime of       *)
(* access evidence, and the collection grace, after which a pass is also   *)
(* taken to be older than the retention.                                   *)
(***************************************************************************)
EXTENDS Integers, FiniteSets, FiniteSetsExt

CONSTANTS
  Items,        \* the items of the workspace
  AutoEnrol,    \* ScopeRule.auto_enrol_detection_only
  MaxPass,      \* bound: inventory passes
  MaxTime,      \* bound: observations
  MaxPolicy,    \* bound: monitoring policies
  MaxFaults     \* bound: vanished items, failed reads, lost workers, refused probes, expiries

ASSUME AdmissionAssumption ==
  /\ IsFiniteSet(Items) /\ Items # {} /\ AutoEnrol \in BOOLEAN
  /\ MaxPass \in Nat \ {0} /\ MaxTime \in Nat /\ MaxTime >= 3 /\ MaxPolicy \in Nat \ {0}
  /\ MaxFaults \in Nat

VARIABLES
  now,
  exists,     \* the items the source has
  absent,     \* item -> the last time the source was without it
  work,       \* pass -> its inventory work
  pass,       \* pass -> InventoryGeneration with its sightings
  page,       \* pass -> the page its worker has read and not recorded
  ws,         \* InventoryWorkspace: [state, pass]
  item,       \* item -> InventoryItem: [state, pass, at]
  sighted,    \* item -> the latest time it was recorded present
  probe,      \* pass -> item -> the capability_probe work of that pair
  evidence,   \* capability handoffs awaiting the controller
  cap,        \* item -> the published target_capability
  policy,     \* DeploymentControl.revision
  scope,      \* ScopePolicy: [on, except]
  intent,     \* the scope handoff of the current policy
  target,     \* item -> MonitoringTarget
  faults

sourceVars == <<exists, absent>>
passVars == <<work, pass, page>>
catalogueVars == <<ws, item, sighted>>
accessVars == <<probe, evidence, cap>>
scopeVars == <<policy, scope, intent>>
vars == <<now, sourceVars, passVars, catalogueVars, accessVars, scopeVars, target, faults>>

Passes == 1 .. MaxPass
Policies == 1 .. MaxPolicy
States == {"none", "present", "unknown", "deleted"}
Active == {"queued", "leased", "waiting"}

NoWork == [state |-> "none", policy |-> 1, after |-> 0]
NoPass == [stage |-> "none", started |-> 0, ended |-> 0, gap |-> FALSE, complete |-> FALSE,
           ws |-> "none", bound |-> {}, window |-> "none",
           grace |-> TRUE]
NoPage == [at |-> 0, ws |-> "none", seen |-> [i \in Items |-> "none"], gap |-> FALSE]
NoCap == [ok |-> FALSE, live |-> FALSE, pass |-> 0, at |-> 0]
NoTarget == [state |-> "none", basis |-> "pending_review", policy |-> 0]
ProbeDone == [state |-> "done", policy |-> 1]
NoIntent == [kind |-> "none", policy |-> 0, reviewed |-> {}]
Enabled == [on |-> TRUE, except |-> {}]

Work == [state: Active \cup {"none", "done"}, policy: Policies, after: 0 .. MaxPass]
Generation == [stage: {"none", "workspace", "items", "done", "retired"}, started: 0 .. MaxTime,
               ended: 0 .. MaxTime, gap: BOOLEAN, complete: BOOLEAN, ws: {"none", "present", "unknown"},
               bound: SUBSET Policies, window: {"none", "open", "validated", "rejected"}, grace: BOOLEAN]
Page == [at: 0 .. MaxTime, ws: {"none", "present", "unknown"},
         seen: [Items -> {"none", "present", "unknown"}], gap: BOOLEAN]
Target == [state: {"none", "current", "paused", "review_required", "removed"},
           basis: {"pending_review", "reviewed", "auto_detection_only"}, policy: 0 .. MaxPolicy]

TypeOK ==
  /\ now \in 0 .. MaxTime /\ exists \subseteq Items /\ absent \in [Items -> 0 .. MaxTime]
  /\ work \in [Passes -> Work] /\ pass \in [Passes -> Generation] /\ page \in [Passes -> Page]
  /\ \A p \in Passes :
       /\ pass[p].ended # 0 => pass[p].started < pass[p].ended
       /\ pass[p].complete => pass[p].stage = "done" /\ ~pass[p].gap
       /\ page[p].at <= now
  /\ ws \in [state: {"present", "unknown"}, pass: Passes, at: 0 .. MaxTime]
  /\ item \in [Items -> [state: States, pass: Passes, at: 0 .. MaxTime]]
  /\ sighted \in [Items -> 0 .. MaxTime]
  /\ probe \in [Passes -> [Items -> [state: {"none", "queued", "done"}, policy: Policies]]]
  /\ evidence \subseteq [item: Items, pass: Passes, ok: BOOLEAN, at: 0 .. MaxTime, policy: Policies]
  /\ cap \in [Items -> [ok: BOOLEAN, live: BOOLEAN, pass: Passes, at: 0 .. MaxTime]]
  /\ policy \in Policies /\ scope \in [on: BOOLEAN, except: SUBSET Items]
  /\ intent \in [kind: {"none", "scope", "disable"}, policy: 0 .. MaxPolicy, reviewed: SUBSET Items]
  /\ target \in [Items -> Target] /\ faults \in 0 .. MaxFaults

\* Pass 1, some time ago, found every item; the scope that includes them is active, their access is
\* verified, and the next pass has begun.
Init ==
  /\ now = 3 /\ exists = Items /\ absent = [i \in Items |-> 0] /\ faults = 0
  /\ work = [p \in Passes |-> CASE p = 1 -> [NoWork EXCEPT !.state = "done"]
                                [] p = 2 -> [NoWork EXCEPT !.state = "leased", !.after = 1]
                                [] OTHER -> NoWork]
  /\ pass = [p \in Passes |->
               CASE p = 1 -> [NoPass EXCEPT !.stage = "done", !.started = 1, !.ended = 3, !.complete = TRUE,
                                            !.ws = "present", !.bound = {1}, !.window = "validated",
                                            !.grace = FALSE]
                 [] p = 2 -> [NoPass EXCEPT !.stage = "workspace", !.started = 3, !.bound = {1}, !.window = "open"]
                 [] OTHER -> NoPass]
  /\ page = [p \in Passes |-> NoPage]
  /\ ws = [state |-> "present", pass |-> 1, at |-> 1]
  /\ item = [i \in Items |-> [state |-> "present", pass |-> 1, at |-> 2]]
  /\ sighted = [i \in Items |-> 2]
  /\ probe = [p \in Passes |-> [i \in Items |-> IF p = 1 THEN ProbeDone ELSE [ProbeDone EXCEPT !.state = "none"]]]
  /\ evidence = {}
  /\ cap = [i \in Items |-> [ok |-> TRUE, live |-> TRUE, pass |-> 1, at |-> 3]]
  /\ policy = 1 /\ scope = Enabled /\ intent = NoIntent
  /\ target = [i \in Items |-> [state |-> "current", basis |-> "reviewed", policy |-> 1]]

Fault == faults < MaxFaults /\ faults' = faults + 1

----------------------------------------------------------------------------
(* What the source, the clock and the processes do by themselves. *)

Vanish(i) ==
  /\ i \in exists /\ Fault
  /\ exists' = exists \ {i}
  /\ UNCHANGED <<now, absent, passVars, catalogueVars, accessVars, scopeVars, target>>

\* An item comes back: it is restored, or the collector may read it again.
Appear(i) ==
  /\ i \notin exists
  /\ exists' = exists \cup {i} /\ absent' = [absent EXCEPT ![i] = now]
  /\ UNCHANGED <<now, passVars, catalogueVars, accessVars, scopeVars, target, faults>>

\* CapabilityObservation.expires_at passes.
AccessExpires(i) ==
  /\ cap[i].ok /\ cap[i].live /\ Fault
  /\ cap' = [cap EXCEPT ![i].live = FALSE]
  /\ UNCHANGED <<now, sourceVars, passVars, catalogueVars, probe, evidence, scopeVars, target>>

\* INVENTORY_COLLECTION_GRACE passes for every pass started no later than p.
GraceEnds(p) ==
  /\ pass[p].started # 0 /\ pass[p].grace /\ Fault
  /\ pass' = [q \in Passes |-> IF pass[q].started # 0 /\ pass[q].started <= pass[p].started
                               THEN [pass[q] EXCEPT !.grace = FALSE] ELSE pass[q]]
  /\ UNCHANGED <<now, sourceVars, work, page, catalogueVars, accessVars, scopeVars, target>>

----------------------------------------------------------------------------
(* Admission: what the stored records say about an item. *)

Generations == {p \in Passes : pass[p].stage \notin {"none", "retired"}}
Finished(p) == pass[p].ended # 0
\* _pass_order.
Older(p, q) == pass[p].started < pass[q].started \/ (pass[p].started = pass[q].started /\ p < q)
Newer(p) == {q \in Generations : Older(p, q)}
Newest(S) == CHOOSE p \in S : \A q \in S \ {p} : Older(q, p)

\* _settled_pass: a pass still collecting defers to the finished one before it.
SettledPass(p) ==
  LET before == {q \in Generations : Finished(q) /\ Older(q, p)}
  IN CASE Finished(p) -> p
       [] ~Finished(p) /\ (~pass[p].grace \/ before = {}) -> 0
       [] OTHER -> Newest(before)

\* _workspace_verified.
WorkspaceVerified ==
  /\ ws.state = "present" /\ ws.pass \in Generations
  /\ LET settled == SettledPass(ws.pass)
     IN settled # 0 /\ pass[settled].complete /\ (settled = ws.pass \/ pass[settled].ws = "present")

\* _scope_matches: the inclusions of an item, and whether a rule excludes it.
Excluded(i) == scope.on /\ i \in scope.except
Matches(i) == scope.on /\ WorkspaceVerified
AllowRead(i) == cap[i].ok /\ cap[i].live

\* _target without include_inactive: the item is admitted now.
Admitted(i) ==
  /\ target[i].state = "current" /\ target[i].policy = policy
  /\ item[i].state = "present" /\ Matches(i) /\ ~Excluded(i) /\ AllowRead(i)

\* _inventory_absence_matches: a complete pass proves the item gone.
AbsenceProven(i) ==
  /\ item[i].state = "deleted" /\ item[i].pass \in Generations /\ pass[item[i].pass].complete

\* policy_removes_target, for one scope that names every admitted target.
PolicyRemoves(i) == Excluded(i) \/ ~scope.on

\* _reconcile_item.
ReconciledTarget(i, reviewed) ==
  LET prior == target[i]
      wasAdmitted == prior.state \notin {"none", "removed"} /\ prior.basis # "pending_review"
      basis == CASE reviewed \/ (wasAdmitted /\ prior.basis = "reviewed") -> "reviewed"
                 [] ~reviewed /\ (AutoEnrol \/ wasAdmitted) /\ ~(wasAdmitted /\ prior.basis = "reviewed") ->
                      "auto_detection_only"
                 [] OTHER -> "pending_review"
      unmatched == ~Matches(i) \/ Excluded(i) \/ item[i].state = "deleted"
  IN CASE item[i].state = "none" \/ (unmatched /\ prior.state = "none") -> prior
       [] unmatched /\ prior.state # "none" ->
            [prior EXCEPT !.policy = policy,
               !.state = IF Excluded(i) \/ PolicyRemoves(i) \/ AbsenceProven(i) THEN "removed" ELSE "paused"]
       [] OTHER ->
            [basis |-> basis, policy |-> policy,
             state |-> CASE AllowRead(i) /\ basis # "pending_review" /\ item[i].state = "present" -> "current"
                         [] basis = "pending_review" -> "review_required"
                         [] OTHER -> "paused"]

\* An admissible item without verified access is probed under the pass that saw it.
ProbeWanted(i) ==
  Matches(i) /\ ~Excluded(i) /\ item[i].state \in {"present", "unknown"} /\ ~AllowRead(i)

\* _enqueue refuses a new probe of an item that is not present, and with it the
\* whole publication.
ReconcileRaises(i) ==
  ProbeWanted(i) /\ item[i].state # "present" /\ probe[item[i].pass][i].state = "none"

\* _enqueue: an existing probe of the same pass and item is returned as it is.
WithProbes(wanted) ==
  [p \in Passes |-> [i \in Items |->
     IF i \in wanted /\ item[i].pass = p /\ probe[p][i].state = "none"
     THEN [state |-> "queued", policy |-> policy] ELSE probe[p][i]]]

----------------------------------------------------------------------------
(* The worker collects a pass. *)

\* run_once claims due work, and the pass record is created before the first page is
\* read; a pass another claim left unfinished is resumed.
Claim(p) ==
  /\ work[p].state \in {"queued", "waiting"} /\ work[p].policy = policy
  /\ work' = [work EXCEPT ![p].state = "leased"]
  /\ \/ /\ pass[p].stage = "none"
        /\ pass' = [pass EXCEPT ![p] = [NoPass EXCEPT !.stage = "workspace", !.started = now,
                                                      !.bound = {policy}, !.window = "open"]]
     \/ pass[p].stage # "none" /\ UNCHANGED pass
  /\ UNCHANGED <<now, sourceVars, page, catalogueVars, accessVars, scopeVars, target, faults>>

\* _collect retires work of an older policy.
Supersede(p) ==
  /\ work[p].state \in {"queued", "waiting"} /\ work[p].policy < policy
  /\ work' = [work EXCEPT ![p].state = "done", ![p].policy = 1]
  /\ UNCHANGED <<now, sourceVars, pass, page, catalogueVars, accessVars, scopeVars, target, faults>>

\* The phase after a page; without a workspace row nothing is left to list.
NextStage(p, new) == IF pass[p].stage = "workspace" /\ new.ws # "none" THEN "items" ELSE "done"

\* record_inventory: a catalogue record is replaced unless a newer one is there.
Restamped(new) == {i \in Items : new.seen[i] # "none" /\ item[i].at <= new.at}

\* Mutant: a record newer than the start of the pass is deleted too.
GoneUnseen(p, new) ==
  {i \in Items : item[i].state # "none" /\ item[i].pass # p /\ i \notin Restamped(new)}

\* A complete pass deletes what it did not see and nobody saw since it began.
Gone(p, new) ==
  {i \in Items : /\ item[i].state # "none" /\ item[i].pass # p /\ i \notin Restamped(new)
                 /\ item[i].at <= pass[p].started}

\* The pass's work is completed with its last page.
RecordInventory(p, new) ==
  LET next == NextStage(p, new)
      gap == pass[p].gap \/ new.gap
      complete == next = "done" /\ ~gap
      deleted == IF complete THEN Gone(p, new) ELSE {}
  IN /\ pass' = [pass EXCEPT ![p].stage = next, ![p].gap = gap, ![p].complete = complete,
                             ![p].ended = IF next = "done" THEN new.at ELSE 0,
                             ![p].ws = IF new.ws # "none" THEN new.ws ELSE @,
                             ![p].bound = @ \cup {policy}]
     /\ ws' = IF new.ws # "none" /\ ws.at <= new.at
              THEN [state |-> new.ws, pass |-> p, at |-> new.at] ELSE ws
     /\ item' = [i \in Items |->
          CASE i \in Restamped(new) -> [state |-> new.seen[i], pass |-> p, at |-> new.at]
            [] i \in deleted -> [state |-> "deleted", pass |-> p, at |-> new.at]
            [] OTHER -> item[i]]
     /\ sighted' = [i \in Items |-> IF new.seen[i] = "present" /\ sighted[i] < new.at
                                    THEN new.at ELSE sighted[i]]
     /\ work' = IF next = "done" THEN [work EXCEPT ![p].state = "done", ![p].policy = 1] ELSE work

\* The first page: the workspace's row, or a gap instead of it.
CollectWorkspace(p) ==
  /\ work[p].state = "leased" /\ pass[p].stage = "workspace" /\ now < MaxTime /\ now' = now + 1
  /\ \/ RecordInventory(p, [NoPage EXCEPT !.at = now + 1, !.ws = "present"]) /\ UNCHANGED faults
     \/ /\ Fault
        /\ \E s \in {"unknown", "none"} :
             RecordInventory(p, [NoPage EXCEPT !.at = now + 1, !.ws = s, !.gap = TRUE])
  /\ UNCHANGED <<sourceVars, page, accessVars, scopeVars, target>>

\* The items the source lists; one may be in a state that is not active, and the
\* page may fail.  Items of a workspace that is not known present are unknown.
ReadItems(p) ==
  LET listed(odd) == [i \in Items |-> CASE i \notin exists -> "none"
                                        [] i \in exists /\ (i \in odd \/ pass[p].ws # "present") -> "unknown"
                                        [] OTHER -> "present"]
      read == [NoPage EXCEPT !.at = now + 1]
  IN /\ work[p].state = "leased" /\ pass[p].stage = "items" /\ page[p] = NoPage
     /\ now < MaxTime /\ now' = now + 1
     /\ \/ page' = [page EXCEPT ![p] = [read EXCEPT !.seen = listed({})]] /\ UNCHANGED faults
        \/ /\ Fault
           /\ \/ page' = [page EXCEPT ![p] = [read EXCEPT !.gap = TRUE]]
              \/ \E i \in exists : page' = [page EXCEPT ![p] = [read EXCEPT !.seen = listed({i}), !.gap = TRUE]]
     /\ UNCHANGED <<sourceVars, work, pass, catalogueVars, accessVars, scopeVars, target>>

RecordItems(p) ==
  /\ work[p].state = "leased" /\ page[p] # NoPage
  /\ RecordInventory(p, page[p])
  /\ page' = [page EXCEPT ![p] = NoPage]
  /\ UNCHANGED <<now, sourceVars, accessVars, scopeVars, target, faults>>

\* The worker stops or is fenced: what it read is lost and its lease runs out.
LoseWorker(p) ==
  /\ work[p].state = "leased" /\ Fault
  /\ work' = [work EXCEPT ![p].state = "waiting"] /\ page' = [page EXCEPT ![p] = NoPage]
  /\ UNCHANGED <<now, sourceVars, pass, catalogueVars, accessVars, scopeVars, target>>

----------------------------------------------------------------------------
(* The controller publishes what was recorded. *)

\* _inventory_scan_scheduled: other active work already scans the selector.
ScanScheduled(p) == \E q \in Passes \ {p} : work[q].state \in Active

\* The successor of a finished pass, unless it is queued already or the bound is met.
Successor(p) ==
  LET free == {q \in Passes : work[q].state = "none"}
      wanted == Finished(p) /\ ~ScanScheduled(p) /\ (\A q \in Passes : work[q].after # p) /\ free # {}
  IN IF wanted THEN [work EXCEPT ![Min(free)] = [state |-> "queued", policy |-> policy, after |-> p]]
     ELSE work

\* Mutant: a pass is published without probing the items it saw.
PublishPassUnprobed(p) ==
  /\ pass[p].window = "open" /\ pass[p].bound # {} /\ Max(pass[p].bound) = policy
  /\ \A i \in Items : ~ReconcileRaises(i)
  /\ target' = [i \in Items |-> ReconciledTarget(i, FALSE)]
  /\ work' = Successor(p)
  /\ pass' = [pass EXCEPT ![p].window =
                CASE ~Finished(p) -> @ [] pass[p].complete -> "validated" [] OTHER -> "rejected"]
  /\ UNCHANGED <<now, sourceVars, page, catalogueVars, probe, evidence, cap, scopeVars, faults>>

\* _publish_inventory for the latest page of a pass; the window closes with the pass
\* once its other pages are decided.
PublishPass(p) ==
  LET probed == {i \in Items : ProbeWanted(i) \/ (item[i].state = "present" /\ item[i].pass = p)}
  IN /\ pass[p].window = "open" /\ pass[p].bound # {} /\ Max(pass[p].bound) = policy
     /\ \A i \in Items : ~ReconcileRaises(i)
     /\ target' = [i \in Items |-> ReconciledTarget(i, FALSE)]
     /\ probe' = WithProbes(probed)
     /\ work' = Successor(p)
     /\ pass' = [pass EXCEPT ![p].window =
                   CASE ~Finished(p) -> @ [] pass[p].complete -> "validated" [] OTHER -> "rejected"]
     /\ UNCHANGED <<now, sourceVars, page, catalogueVars, evidence, cap, scopeVars, faults>>

\* _reject_reconciliation_window: a page of the window belongs to an older policy.
RejectPass(p) ==
  /\ pass[p].window = "open" /\ \E b \in pass[p].bound : b # policy
  /\ pass' = [pass EXCEPT ![p].window = "rejected", ![p].bound = {}]
  /\ UNCHANGED <<now, sourceVars, work, page, catalogueVars, accessVars, scopeVars, target, faults>>

\* _capability: the worker probes the item under the pass that last saw it.  The
\* store refuses the evidence when the item is no longer present under that pass.
RunProbe(p, i) ==
  /\ probe[p][i].state = "queued" /\ probe[p][i].policy = policy /\ item[i].state = "present"
  /\ \E ok \in BOOLEAN :
       /\ IF ok THEN UNCHANGED faults ELSE Fault
       /\ evidence' = evidence \cup
            {[item |-> i, pass |-> item[i].pass, ok |-> ok, at |-> now, policy |-> policy]}
       /\ probe' = IF ok THEN [probe EXCEPT ![p][i] = ProbeDone] ELSE probe
  /\ UNCHANGED <<now, sourceVars, passVars, catalogueVars, cap, scopeVars, target>>

SupersedeProbe(p, i) ==
  /\ probe[p][i].state = "queued" /\ probe[p][i].policy < policy
  /\ probe' = [probe EXCEPT ![p][i] = ProbeDone]
  /\ UNCHANGED <<now, sourceVars, passVars, catalogueVars, evidence, cap, scopeVars, target, faults>>

Current(e) == e.policy = policy /\ e.pass = item[e.item].pass

\* _superseded_capability: evidence about a replaced pass is rejected once, and the
\* pass the item has now is probed.
SupersedeEvidence(e) ==
  /\ e.policy = policy /\ e.pass # item[e.item].pass
  /\ probe' = WithProbes({i \in {e.item} : item[i].state = "present"})
  /\ UNCHANGED <<cap, target>>

\* _publish_capability: older evidence never replaces newer, and the item is
\* reconciled with the capability it has now.
PublishEvidence(e) ==
  LET i == e.item
      newer == cap[i].at <= e.at
      published == [cap EXCEPT ![i] = [ok |-> e.ok, live |-> TRUE, pass |-> e.pass, at |-> e.at]]
      unmatched == ~Matches(i) \/ Excluded(i) \/ item[i].state = "deleted"
  IN /\ Current(e)
     /\ IF ~newer THEN UNCHANGED <<cap, target, probe>>
        ELSE /\ cap' = published
             /\ target' = [target EXCEPT ![i] =
                  LET t == ReconciledTarget(i, FALSE)
                  IN CASE unmatched \/ t.state \in {"none", "review_required"} -> t
                       [] ~unmatched /\ e.ok /\ item[i].state = "present" -> [t EXCEPT !.state = "current"]
                       [] OTHER -> [t EXCEPT !.state = "paused"]]
             /\ IF ~unmatched /\ ~e.ok
                THEN /\ (item[i].state = "present" \/ probe[item[i].pass][i].state # "none")
                     /\ probe' = WithProbes({i})
                ELSE UNCHANGED probe

\* _reconcile_state for a capability handoff.
DecideEvidence(e) ==
  /\ e \in evidence /\ evidence' = evidence \ {e}
  /\ \/ e.policy # policy /\ UNCHANGED <<cap, target, probe>>
     \/ SupersedeEvidence(e)
     \/ PublishEvidence(e)
  /\ UNCHANGED <<now, sourceVars, passVars, catalogueVars, scopeVars, faults>>

----------------------------------------------------------------------------
(* An administrator changes the policy. *)

\* _evaluate_scope_plan: what a proposed scope would do, from current records.
Evaluate(s) ==
  LET wanted(i) == s.on /\ i \notin s.except /\ item[i].state = "present"
      change(i) == CASE wanted(i) /\ target[i].state = "current" -> "retain"
                     [] wanted(i) /\ target[i].state # "current" -> "admit"
                     [] ~wanted(i) /\ target[i].state \notin {"none", "removed"} -> "remove"
                     [] OTHER -> "none"
  IN [complete |-> Generations # {} /\ pass[Newest(Generations)].complete,
      change |-> [i \in Items |-> change(i)]]

\* preview_scope and activate_scope.  A plan is only activated while its evaluation
\* repeats, so preview and activation are one step; disabling needs no complete pass.
ActivateScope(s) ==
  LET plan == Evaluate(s)
  IN /\ policy < MaxPolicy /\ s # scope /\ (s.on => plan.complete)
     /\ policy' = policy + 1 /\ scope' = s
     /\ intent' = [kind |-> IF s.on THEN "scope" ELSE "disable", policy |-> policy + 1,
                   reviewed |-> {i \in Items : plan.change[i] \in {"admit", "retain"}}]
     /\ UNCHANGED <<now, sourceVars, passVars, catalogueVars, accessVars, target, faults>>

\* _publish_scope: every item is reconciled under the new policy.
\* _scope_disable_targets only contracts the recorded admissions.
PublishIntent ==
  /\ intent.policy = policy
  /\ intent' = NoIntent
  /\ \/ /\ intent.kind = "scope" /\ \A i \in Items : ~ReconcileRaises(i)
        /\ target' = [i \in Items |-> ReconciledTarget(i, i \in intent.reviewed)]
        /\ probe' = WithProbes({i \in Items : ProbeWanted(i)})
     \/ /\ intent.kind = "disable"
        /\ target' = [i \in Items |-> IF target[i].state \in {"none", "removed"} THEN target[i]
                                      ELSE [target[i] EXCEPT !.state = "paused", !.policy = policy]]
        /\ UNCHANGED probe
  /\ UNCHANGED <<now, sourceVars, passVars, catalogueVars, evidence, cap, policy, scope, faults>>

\* request_discovery and its publication.  A request that a policy change overtakes is
\* rejected and leaves nothing, so an accepted one is a single step.
RequestDiscovery ==
  LET free == {p \in Passes : work[p].state = "none"}
  IN /\ free # {}
     /\ work' = [work EXCEPT ![Min(free)] = [state |-> "queued", policy |-> policy, after |-> 0]]
     /\ UNCHANGED <<now, sourceVars, pass, page, catalogueVars, accessVars, scopeVars, target, faults>>

----------------------------------------------------------------------------
(* Retention of passes. *)

\* Mutant: the passes still collecting that defer to this one are forgotten.
PassSupersededBare(p) ==
  /\ ~pass[p].grace /\ Newer(p) # {}
  /\ Finished(p) => \E q \in Newer(p) : Finished(q)
  /\ pass[p].complete => \E q \in Newer(p) : pass[q].complete

\* _inventory_pass_superseded: newer passes have taken over every role of this one.
PassSuperseded(p) ==
  /\ ~pass[p].grace /\ Newer(p) # {}
  /\ Finished(p) => \E q \in Newer(p) : Finished(q)
  /\ pass[p].complete => \E q \in Newer(p) : pass[q].complete
  /\ Finished(p) => \A q \in Newer(p) :
       ~Finished(q) /\ pass[q].grace => \E r \in Newer(p) : Finished(r) /\ Older(r, q)

\* _inventory_passes_in_use.
PassInUse(p) ==
  \/ work[p].state \in Active \/ pass[p].window = "open"
  \/ ws.pass = p \/ \E i \in Items : item[i].pass = p

\* retire_inventory_history: one operation may stop after the sightings.
Retire(p) ==
  /\ p \in Generations /\ PassSuperseded(p) /\ ~PassInUse(p)
  /\ pass' \in {[pass EXCEPT ![p] = [NoPass EXCEPT !.stage = "retired", !.grace = FALSE]],
                [pass EXCEPT ![p].ws = "none"]}
  /\ UNCHANGED <<now, sourceVars, work, page, catalogueVars, accessVars, scopeVars, target, faults>>

----------------------------------------------------------------------------
Scopes == {Enabled, [Enabled EXCEPT !.on = FALSE]} \cup {[Enabled EXCEPT !.except = {i}] : i \in Items}

Collect(p) ==
  \/ Claim(p) \/ Supersede(p) \/ CollectWorkspace(p) \/ ReadItems(p) \/ RecordItems(p)
Control ==
  \/ \E p \in Passes : PublishPass(p) \/ RejectPass(p)
  \/ \E e \in evidence : DecideEvidence(e)
  \/ PublishIntent
Probing == \E p \in Passes, i \in Items : RunProbe(p, i) \/ SupersedeProbe(p, i)

Next ==
  \/ \E i \in Items : Vanish(i) \/ Appear(i) \/ AccessExpires(i)
  \/ \E p \in Passes : GraceEnds(p) \/ LoseWorker(p) \/ Retire(p)
  \/ \E p \in Passes : Collect(p)
  \/ Control \/ Probing
  \/ \E s \in Scopes : ActivateScope(s)
  \/ RequestDiscovery

Spec == Init /\ [][Next]_vars
\* Workers, controller and probes keep running; nothing else is fair.  Every behaviour
\* of the bounded system ends, so one weak fairness condition suffices.
SystemStep == (\E p \in Passes : Collect(p)) \/ Control \/ Probing
FairSpec == Spec /\ WF_vars(SystemStep)

----------------------------------------------------------------------------
\* The last pass that finished before p was complete and saw the workspace.
LastFinishedVerified(p) ==
  \E q \in Generations :
    /\ Finished(q) /\ Older(q, p) /\ pass[q].complete /\ pass[q].ws = "present"
    /\ \A r \in Generations : Finished(r) /\ Older(r, p) => r = q \/ Older(r, q)

\* record_inventory marks an item deleted from what a complete pass did not list,
\* while other passes, slower or faster, record what they saw: it may do so only if
\* the source really was without the item after the item was last recorded present.
DeletionEarned ==
  \A i \in Items : item[i].state = "deleted" => i \notin exists \/ absent[i] >= sighted[i]

\* retire_inventory_history deletes the sightings and the records of old passes while
\* collection and publication go on: no admission, no membership verdict and no proof
\* of absence read from the remaining records changes with it.
RetirementInvisible ==
  [][\A p \in Passes : Retire(p) =>
       /\ \A i \in Items : Admitted(i)' = Admitted(i) /\ AbsenceProven(i)' = AbsenceProven(i)
       /\ WorkspaceVerified' = WorkspaceVerified]_vars

\* _settled_pass: a refresh that has just recorded the workspace, and has no gap yet,
\* leaves every admitted item admitted while its items are still to be listed.
RefreshKeepsAdmission ==
  [][\A p \in Passes :
       CollectWorkspace(p) /\ ~Finished(p)' /\ ~pass[p].gap' /\ pass[p].grace /\ LastFinishedVerified(p) =>
         \A i \in Items : Admitted(i) => Admitted(i)']_vars

\* Capability evidence that a newer pass or policy overtook between the probe and the
\* controller is still decided: no handoff stays and blocks the reconciliation work.
EvidenceDecided == evidence = {}

\* An item seen again, under the current policy, has its access verified again under
\* the pass that saw it, however probes, passes and publications interleave.
AccessReproved ==
  \A i \in Items : LET seen == item[i].pass
                   IN item[i].state = "present" /\ seen \in Generations /\ pass[seen].window = "validated"
                      /\ pass[seen].bound = {policy} => cap[i].pass = seen

\* activate_scope only queues an intent: the controller then brings every recorded
\* target to the new policy, whatever is being collected.
PolicyReachesTargets ==
  intent = NoIntent /\ \A i \in Items : target[i].state \in {"none", "removed"} \/ target[i].policy = policy

\* Neither the retirement of an old pass nor a refresh takes an admission away.
PassesHarmless == RetirementInvisible /\ RefreshKeepsAdmission

\* What was learned and what was ordered arrive, all of it: again and again no
\* evidence is left, access is proved and the policy has reached its targets.
NewsReachesTargets == []<>(EvidenceDecided /\ AccessReproved /\ PolicyReachesTargets)

\* No item is deleted that a current pass has seen.
AdmissionSafe == TypeOK /\ DeletionEarned

----------------------------------------------------------------------------
(* Why they hold: the inductive invariant. *)

\* A page that was read whole misses an item only if the source was without it
\* at the time, which is after the pass began.
PageSound(p) ==
  page[p] # NoPage =>
    /\ pass[p].stage # "none" /\ pass[p].started < page[p].at
    /\ ~page[p].gap => \A i \in Items : page[p].seen[i] = "none" => i \notin exists \/ absent[i] >= page[p].at

PassSound(p) == pass[p].started <= now /\ PageSound(p)

\* A record is as new as the latest sighting of its item, and one that is
\* marked deleted is no newer than the time the source was without it.
ItemSound(i) ==
  /\ item[i].at <= now /\ sighted[i] <= item[i].at
  /\ item[i].state = "deleted" => i \notin exists \/ absent[i] >= item[i].at

AdmissionInv ==
  /\ TypeOK /\ ws.at <= now
  /\ \A p \in Passes : PassSound(p)
  /\ \A i \in Items : ItemSound(i)
=============================================================================
