------------------------- MODULE ConnectorTopology -------------------------
(***************************************************************************)
(* The owned event connector: the controller plans which items an          *)
(* Eventstream subscribes to (provisioning.plan_definition,                *)
(* engine._reconcile_registered_connector_intent and                       *)
(* .connector_publication), a worker brings the Eventstream to that        *)
(* definition and reports what it saw (provisioning.ConnectorReconciler),  *)
(* and the controller decides each report (reconcile_connector_observation *)
(* with its binding, restoration and readiness publications).  The rules   *)
(* of the SQL store are the ones modelled (sql_kernel_connectors,          *)
(* sql_kernel_intake._connector).                                          *)
(*                                                                         *)
(* A definition gives every item its source node: Absent, the physical     *)
(* identity of the node, or Unbound where a node is wanted whose identity  *)
(* the service has not assigned.  A node's name is a function of the item, *)
(* and the one stream and the one destination never change.                *)
(***************************************************************************)
EXTENDS Integers, FiniteSets, Sequences

CONSTANTS
  Targets,      \* the pipelines that can be event sources
  Owned,        \* the pipelines the registered Eventstream has sources for
  Workers,      \* worker replicas
  Policies,     \* the scopes an administrator may activate
  MaxPolicy,    \* bound: monitoring policies
  MaxRev,       \* bound: connector revisions
  MaxFaults     \* bound: crashes, lost or failed updates, lapses, drift

ConnectorAssumption ==
  /\ IsFiniteSet(Targets) /\ Owned \subseteq Targets /\ IsFiniteSet(Workers)
  /\ Policies \subseteq SUBSET Targets
  /\ MaxPolicy \in Nat \ {0} /\ MaxRev \in Nat \ {0} /\ MaxFaults \in Nat

VARIABLES
  policy,     \* DeploymentControl.revision
  scope,      \* the items the active scope includes
  tp,         \* the policy the monitoring targets were last published under
  present,    \* the items inventory does not confirm deleted
  able,       \* the items with verified, unexpired read and event capability
  conn,       \* OwnedConnectorManifest
  desired,    \* ConnectorDesiredState: [policy, number, anchored]
  fresh,      \* items probed since the desired state was published
  delivered,  \* items with an accepted event since the desired state was published
  remote,     \* the Eventstream's definition
  flight,     \* updates the service may still apply: [def, op]
  ops,        \* operation -> its status
  ids,        \* identities the service has assigned
  work,       \* connector_reconcile work: key -> state
  wk,         \* worker -> what it is doing
  handoff,    \* reports awaiting the controller
  faults,
  drifted     \* someone else has edited the Eventstream

admissionVars == <<policy, scope, tp, present, able>>
manifestVars == <<conn, desired, fresh, delivered>>
serviceVars == <<remote, flight, ops, ids>>
vars == <<admissionVars, manifestVars, serviceVars, work, wk, handoff, faults, drifted>>

Absent == 0
Unbound == -1
NoDef == [t \in Targets |-> -2]
Definitions == [Targets -> Int]
ConnStates == {"planned", "provisioning", "ready", "degraded", "blocked"}
WorkStates == {"queued", "leased", "waiting", "done"}
Steps == {"idle", "decide", "recheck", "post", "ack", "reinspect", "finish"}
Idle == [pc |-> "idle", key |-> <<"none", 0>>, held |-> FALSE, seen |-> 0, pol |-> 0,
         obs |-> NoDef, def |-> NoDef, op |-> 0]

Nodes(d) == {t \in Targets : d[t] # Absent}
Proposals(c) == {t \in Targets : c.own[t] = Unbound}
Marked(c) == c.marker # NoDef
Changes == Proposals(conn) # {} \/ conn.removing # {}

Keys == {"none", "scope", "publication", "reobserve"} \X Nat
Outcomes == {"running", "succeeded", "failed"}
Manifests ==
  [rev: Nat, policy: 1 .. MaxPolicy, state: ConnStates, own: [Targets -> Nat \cup {Unbound}],
   removing: SUBSET Targets, touched: SUBSET Targets, asked: [Targets -> 0 .. MaxPolicy],
   base: [Targets -> Nat] \cup {NoDef}, marker: Definitions, op: Nat]
Sessions ==
  [pc: Steps, key: Keys, held: BOOLEAN, seen: Nat, pol: Nat, obs: Definitions, def: Definitions, op: Nat]
Reports == [rev: Nat, policy: Nat, ready: BOOLEAN, insp: {"none", "fresh", "stale"}, key: Keys]

TypeOK ==
  /\ policy \in 1 .. MaxPolicy /\ scope \subseteq Targets /\ tp \in 0 .. MaxPolicy
  /\ present \subseteq Targets /\ able \subseteq Targets
  /\ conn \in Manifests /\ conn.touched \subseteq conn.removing /\ conn.removing \subseteq Nodes(conn.own)
  /\ desired \in [policy: 0 .. MaxPolicy, number: Nat, anchored: BOOLEAN]
  /\ fresh \subseteq Targets /\ delivered \subseteq Targets
  /\ remote \in [Targets -> Nat] /\ ids \in Nat /\ ops \in Seq(Outcomes)
  /\ flight \subseteq [def: Definitions, op: Nat]
  /\ DOMAIN work \subseteq Keys /\ work \in [DOMAIN work -> WorkStates]
  /\ wk \in [Workers -> Sessions]
  /\ \A w \in Workers : wk[w].pc \in {"decide", "recheck", "post"} => wk[w].obs \in [Targets -> Nat]
  /\ handoff \subseteq Reports
  /\ faults \in 0 .. MaxFaults /\ drifted \in BOOLEAN

(***************************************************************************)
(* A connector as connector_bootstrap registers it: planned, its sources   *)
(* those the Eventstream has, nothing published, an inspected baseline.    *)
(***************************************************************************)
Registered(d) ==
  [rev |-> 1, policy |-> 1, state |-> "planned", own |-> d, removing |-> {}, touched |-> {},
   asked |-> [t \in Targets |-> 0], base |-> d, marker |-> NoDef, op |-> 0]

Init ==
  /\ policy = 1 /\ scope \in Policies /\ tp = 0 /\ present = Targets /\ able = Targets
  /\ \E f \in [Targets -> 0 .. Cardinality(Owned)] :
       /\ Nodes(f) = Owned /\ \A s, t \in Owned : s # t => f[s] # f[t]
       /\ remote = f /\ conn = Registered(f)
  /\ desired = [policy |-> 0, number |-> 0, anchored |-> FALSE]
  /\ fresh = {} /\ delivered = {} /\ flight = {} /\ ops = <<>>
  /\ ids = Cardinality(Owned) /\ work = <<>> /\ wk = [w \in Workers |-> Idle]
  /\ handoff = {} /\ faults = 0 /\ drifted = FALSE

Fault == faults < MaxFaults /\ faults' = faults + 1

(***************************************************************************)
(* Definitions and admission.                                              *)
(***************************************************************************)

\* The definition the controller wants: what is owned and not being removed.
DesiredDefinition(c) == [t \in Targets |-> IF t \in c.removing THEN Absent ELSE c.own[t]]

\* matches_update: the same nodes, and every identity the desired one names.
matches_update(observed, want) ==
  /\ Nodes(observed) = Nodes(want)
  /\ \A t \in Nodes(want) : want[t] # Unbound => observed[t] = want[t]

\* resolve_target: the published target is current and observed.
ResolveTarget(t) == tp = policy /\ t \in scope \cap present

\* policy_removes_target or inventory_confirms_deletion.
RemovalAuthority(t) == t \notin scope \/ t \notin present

\* _enqueue: work is identified by its key; known work is not queued again.
Enqueue(ks, queue) ==
  [k \in DOMAIN queue \cup ks |-> IF k \in DOMAIN queue THEN queue[k] ELSE "queued"]

(***************************************************************************)
(* plan_definition: sources are added for eligible items and removed only  *)
(* with authority.  An item that is neither, and a pending removal whose   *)
(* item is eligible again, defer the plan.                                 *)
(***************************************************************************)
plan_definition(c, eligible, removable) ==
  [deferred |-> (c.removing \cap eligible)
                  \cup {t \in Nodes(c.own) \ c.removing : t \notin eligible \cup removable},
   conn |-> [c EXCEPT !.own = [t \in Targets |-> IF @[t] = Absent /\ t \in eligible THEN Unbound ELSE @[t]],
                      !.removing = @ \cup (Nodes(c.own) \cap removable)]]

\* An owned item whose capability has lapsed stops planning.
CapabilityHeld(cur, ab) == \E t \in cur \ ab : t \in Nodes(conn.own)

\* Registration owns sources without a desired intake until all are admitted.
Dormant(eligible) ==
  desired.number = 0 /\ (eligible = {} \/ ~(Nodes(conn.own) \subseteq eligible))

\* The manifest a publication with changes saves.
Manifest(c) == [c EXCEPT !.rev = conn.rev + 1, !.policy = policy, !.state = "provisioning"]

\* connector_publication: the manifest c becomes the desired state.
Publish(c, anchor) ==
  /\ conn' = Manifest(c)
  /\ desired' = [policy |-> policy, number |-> desired.number + 1,
                 anchored |-> desired.anchored \/ anchor]
  /\ fresh' = {} /\ delivered' = {}

\* publish_connector_intent: with the work that brings the service to it.
PublishIntent(c, anchor, queue) ==
  Publish(c, anchor) /\ work' = Enqueue({<<"publication", conn.rev + 1>>}, queue)

\* A new removal remembers its policy, and whether an update may be under way.
RemovalRecords(c) ==
  LET new == c.removing \ conn.removing IN
  [c EXCEPT !.asked = [t \in Targets |-> IF t \in new THEN policy ELSE @[t]],
            !.touched = @ \cup (IF Marked(conn) \/ conn.op # 0 THEN new ELSE {})]

(***************************************************************************)
(* _reconcile_registered_connector_intent, inside the transaction that     *)
(* publishes the admission cur (probed: items it just probed); queue is the *)
(* work that transaction leaves.                                           *)
(* A plan that is refused refuses the whole transaction.                   *)
(***************************************************************************)
PublishDesired(cur, ab, removable, probed, queue) ==
  LET eligible == cur \cap ab
      plan == plan_definition(conn, eligible, removable)
      idle == \/ CapabilityHeld(cur, ab) \/ Dormant(eligible)
              \/ plan.deferred # {} /\ conn.policy = policy
              \/ plan.conn = conn /\ conn.policy = policy /\ desired.number > 0 IN
  \/ /\ idle /\ work' = queue /\ fresh' = fresh \cup probed
     /\ UNCHANGED <<conn, desired, delivered>>
  \/ /\ ~idle /\ plan.deferred = {} /\ conn.rev < MaxRev
     /\ \A t \in Proposals(plan.conn) \ Proposals(conn) : conn.base = NoDef \/ conn.base[t] = Absent
     /\ PublishIntent(RemovalRecords(plan.conn), FALSE, queue)

(***************************************************************************)
(* The administrator and the controller's publications of admission.       *)
(***************************************************************************)

\* activate_scope: the scope changes at once, the targets when published.
ActivateScope(S) ==
  /\ policy < MaxPolicy /\ policy' = policy + 1 /\ scope' = S
  /\ UNCHANGED <<tp, present, able, manifestVars, serviceVars, work, wk, handoff, faults, drifted>>

\* _publish_scope: owned sources that are no longer current are reconciled.
PublishScope ==
  LET cur == scope \cap present
      queue == IF Nodes(conn.own) \subseteq cur THEN work ELSE Enqueue({<<"scope", policy>>}, work) IN
  /\ tp # policy /\ tp' = policy
  /\ PublishDesired(cur, able, {t \in Targets : RemovalAuthority(t)}, {}, queue)
  /\ UNCHANGED <<policy, scope, present, able, serviceVars, wk, handoff, faults, drifted>>

\* A complete inventory pass finds the item gone, or back.
PublishInventory(t) ==
  LET now == IF t \in present THEN present \ {t} ELSE present \cup {t} IN
  /\ tp = policy /\ present' = now
  /\ PublishDesired(scope \cap now, able, {s \in Targets : s \notin scope \/ s \notin now}, {}, work)
  /\ IF t \in present THEN Fault ELSE UNCHANGED faults
  /\ UNCHANGED <<policy, scope, tp, able, serviceVars, wk, handoff, drifted>>

\* A capability probe of an admitted item is published.
PublishCapability(t) ==
  /\ ResolveTarget(t) /\ (t \notin able \/ (desired.anchored /\ t \notin fresh))
  /\ able' = able \cup {t}
  /\ PublishDesired(scope \cap present, able \cup {t}, {s \in Targets : RemovalAuthority(s)}, {t}, work)
  /\ UNCHANGED <<policy, scope, tp, present, serviceVars, wk, handoff, faults, drifted>>

\* A capability expires or is withdrawn without a publication.
Lapse(t) ==
  /\ t \in able /\ able' = able \ {t} /\ Fault
  /\ UNCHANGED <<policy, scope, tp, present, manifestVars, serviceVars, work, wk, handoff, drifted>>

(***************************************************************************)
(* ConnectorReconciler.  A worker's saves are fenced by its lease and by   *)
(* the manifest's revision and policy; every save is reported to the       *)
(* controller, and is evidence of the topology only when it carries one.   *)
(***************************************************************************)
Become(w, r) == wk' = [wk EXCEPT ![w] = r]
Settle(w, state) == work' = [work EXCEPT ![wk[w].key] = state]

\* disposition_work(retry): the work waits and is claimed again.
Defer(w) ==
  /\ Settle(w, "waiting") /\ Become(w, Idle)
  /\ UNCHANGED <<manifestVars, serviceVars, handoff>>

CanSave(w) == conn.rev = wk[w].seen /\ conn.policy = policy /\ desired.policy = policy

\* record_connector: a worker observes what the controller owns, one revision on.
Observed(c) == [c EXCEPT !.rev = conn.rev + 1]

\* The observation is reported with its inspection, if any.
Report(w, c, ready, insp) ==
  /\ conn' = Observed(c)
  /\ handoff' = handoff \cup {[rev |-> conn.rev + 1, policy |-> policy, ready |-> ready,
                               insp |-> insp, key |-> wk[w].key]}
  /\ UNCHANGED <<desired, fresh, delivered>>

\* A save that ends the pass: complete_collection_work follows.
ReportAndFinish(w, c, ready, insp) ==
  /\ Report(w, c, ready, insp)
  /\ Become(w, [wk[w] EXCEPT !.pc = "finish", !.pol = policy])
  /\ UNCHANGED <<serviceVars, work>>

\* A save that says no update was sent restores the inspected baseline.
ReportAndDefer(w, c) ==
  /\ Report(w, c, FALSE, "none") /\ Settle(w, "waiting") /\ Become(w, Idle)
  /\ UNCHANGED serviceVars

Restored(w) == [conn EXCEPT !.state = "degraded", !.base = wk[w].obs, !.marker = NoDef, !.op = 0]

\* _block: intake stops, ownership and the submission marker stay.
Block(w) == ReportAndFinish(w, [conn EXCEPT !.state = "blocked", !.base = NoDef], FALSE, "none")

\* run_once and _process to the inspection: the claimed work, the manifest,
\* the operation of a pending submission, then the Eventstream.
Inspect(w, k) ==
  LET running == Marked(conn) /\ conn.op # 0 /\ ops[conn.op] = "running" IN
  /\ wk[w].pc = "idle" /\ work[k] \in {"queued", "waiting"} /\ conn.rev < MaxRev
  /\ work' = [work EXCEPT ![k] = IF running THEN "waiting" ELSE "leased"]
  /\ Become(w, IF running THEN Idle
               ELSE [Idle EXCEPT !.pc = "decide", !.key = k, !.held = TRUE,
                                 !.seen = conn.rev, !.obs = remote])
  /\ UNCHANGED <<admissionVars, manifestVars, serviceVars, handoff, faults, drifted>>

\* _verified_delivery: an accepted event of a bound, admitted and able source
\* proves the topology published under the current policy.
ProvenBy(events) ==
  /\ ~Changes /\ conn.base = DesiredDefinition(conn) /\ desired.policy = policy /\ conn.policy = policy
  /\ \E t \in events : /\ conn.own[t] > 0 /\ ResolveTarget(t) /\ t \in able
                       /\ desired.anchored => t \in fresh

DeliveryProof(events) == conn.state \in {"ready", "degraded"} /\ ProvenBy(events)

\* _verified: what was asked for is there; readiness needs a delivery too.
Verified(w, obs) ==
  LET want == DesiredDefinition(conn)
      ready == /\ Nodes(obs) # {} /\ {t \in Nodes(want) : ResolveTarget(t)} = Nodes(obs)
               /\ conn.own = obs /\ DeliveryProof(delivered)
      state == IF ~ready THEN "degraded" ELSE IF conn.state = "ready" THEN "ready" ELSE "provisioning" IN
  ReportAndFinish(w, [conn EXCEPT !.base = obs, !.marker = NoDef, !.state = state], ready, "none")

\* _observe_retained_presence: a removal whose item is admitted again is not
\* carried out; its node is reported for the controller to restore.
ObserveRetainedPresence(w) ==
  LET back == {t \in conn.removing : conn.own[t] > 0 /\ ResolveTarget(t)} IN
  IF Proposals(conn) # {} \/ conn.op # 0 \/ back = {}
    THEN Defer(w)
    ELSE IF \E t \in back : wk[w].obs[t] # conn.own[t]
           THEN Block(w)
           ELSE ReportAndFinish(w, Restored(w), FALSE, "fresh")

\* The marker is saved before the update is sent, and licenses only that one.
SaveIntent(w) ==
  /\ Report(w, [conn EXCEPT !.state = "provisioning", !.base = NoDef, !.op = 0,
                           !.marker = DesiredDefinition(conn), !.touched = conn.removing], FALSE, "none")
  /\ Become(w, [wk[w] EXCEPT !.pc = "recheck", !.seen = conn.rev + 1])
  /\ UNCHANGED <<serviceVars, work>>

\* _removal_hold: a pending removal whose item is admitted again is held.
Readmitted(c) == {t \in c.removing : ResolveTarget(t)}

\* _process from the inspection to its save.  A save that lost the revision,
\* the policy or the publication is a conflict, and the work is retried.
Decide(w) ==
  LET obs == wk[w].obs
      want == DesiredDefinition(conn) IN
  /\ wk[w].pc = "decide" /\ wk[w].held
  /\ IF ~CanSave(w) THEN Defer(w)
     ELSE IF Marked(conn) THEN
       IF conn.op # 0 /\ ops[conn.op] = "failed" THEN Block(w)
       ELSE IF matches_update(obs, conn.marker) THEN Verified(w, obs) ELSE Defer(w)
     ELSE IF matches_update(obs, want) THEN Verified(w, obs)
     ELSE IF conn.base = NoDef \/ ~matches_update(obs, conn.base) THEN Block(w)
     ELSE IF Readmitted(conn) # {} THEN ObserveRetainedPresence(w)
     ELSE IF \E t \in Nodes(want) : ~ResolveTarget(t) THEN Block(w)
     ELSE SaveIntent(w)
  /\ UNCHANGED <<admissionVars, faults, drifted>>

\* A source probe or the topology is not ready; a denial is a review, which
\* blocks whatever the manifest is by then.
ProbeFails(w) ==
  /\ wk[w].pc = "decide" /\ wk[w].held /\ Fault
  /\ \/ Defer(w)
     \/ conn.policy = policy /\ desired.policy = policy /\ Block(w)
  /\ UNCHANGED <<admissionVars, drifted>>

\* The recheck between the intent and the update.
Recheck(w) ==
  /\ wk[w].pc = "recheck" /\ wk[w].held
  /\ IF ~CanSave(w) THEN Defer(w)
     ELSE IF Readmitted(conn) # {} THEN ReportAndDefer(w, Restored(w))
     ELSE /\ Become(w, [wk[w] EXCEPT !.pc = "post", !.def = conn.marker])
          /\ UNCHANGED <<manifestVars, serviceVars, work, handoff>>
  /\ UNCHANGED <<admissionVars, faults, drifted>>

\* A definition as the service applies it: new nodes get new identities.
Applied(def) ==
  [t \in Targets |-> IF def[t] = Absent THEN Absent
                    ELSE IF remote[t] # Absent THEN remote[t] ELSE ids + 1]

\* rest.update is answered: 200 when applied, 202 with an operation.
Post(w) ==
  /\ wk[w].pc = "post"
  /\ \/ /\ remote' = Applied(wk[w].def) /\ ids' = ids + 1
        /\ Become(w, [wk[w] EXCEPT !.pc = "reinspect"]) /\ UNCHANGED <<flight, ops>>
     \/ /\ ops' = Append(ops, "running")
        /\ flight' = flight \cup {[def |-> wk[w].def, op |-> Len(ops) + 1]}
        /\ Become(w, [wk[w] EXCEPT !.pc = "ack", !.op = Len(ops) + 1]) /\ UNCHANGED <<remote, ids>>
  /\ UNCHANGED <<admissionVars, manifestVars, work, handoff, faults, drifted>>

\* Mutant: an unanswered update is taken for one that was not sent.
PostUncertain_Withdraws(w) ==
  /\ wk[w].pc = "post" /\ wk[w].held /\ Fault /\ CanSave(w)
  /\ flight' \in {flight, flight \cup {[def |-> wk[w].def, op |-> 0]}}
  /\ Report(w, Restored(w), FALSE, "none") /\ Settle(w, "waiting") /\ Become(w, Idle)
  /\ UNCHANGED <<admissionVars, remote, ops, ids, drifted>>

\* UpdateUncertain: the answer is lost, the update perhaps not.
PostUncertain(w) ==
  /\ wk[w].pc = "post" /\ Fault
  /\ flight' \in {flight, flight \cup {[def |-> wk[w].def, op |-> 0]}}
  /\ IF wk[w].held THEN Settle(w, "waiting") ELSE UNCHANGED work
  /\ Become(w, Idle)
  /\ UNCHANGED <<admissionVars, manifestVars, remote, ops, ids, handoff, drifted>>

\* UpdateNotSent: the intent is withdrawn.
PostNotSent(w) ==
  /\ wk[w].pc = "post" /\ wk[w].held /\ Fault
  /\ IF CanSave(w) THEN ReportAndDefer(w, Restored(w)) ELSE Defer(w)
  /\ UNCHANGED <<admissionVars, drifted>>

\* The operation is recorded; its outcome is polled by the next pass.
Acknowledge(w) ==
  /\ wk[w].pc = "ack" /\ wk[w].held
  /\ IF CanSave(w) THEN ReportAndDefer(w, [conn EXCEPT !.op = wk[w].op]) ELSE Defer(w)
  /\ UNCHANGED <<admissionVars, faults, drifted>>

\* After a 200 the Eventstream is inspected again; a mismatch is a review.
Reinspect(w) ==
  /\ wk[w].pc = "reinspect" /\ wk[w].held
  /\ IF matches_update(remote, wk[w].def)
       THEN IF CanSave(w) THEN Verified(w, remote) ELSE Defer(w)
       ELSE IF conn.policy = policy /\ desired.policy = policy THEN Block(w) ELSE Defer(w)
  /\ UNCHANGED <<admissionVars, faults, drifted>>

\* complete_collection_work: the report's policy must still be the policy.
Finish(w) ==
  /\ wk[w].pc = "finish" /\ wk[w].held
  /\ Settle(w, IF wk[w].pol = policy THEN "done" ELSE "waiting") /\ Become(w, Idle)
  /\ UNCHANGED <<admissionVars, manifestVars, serviceVars, handoff, faults, drifted>>

\* The lease expires under a worker that has stopped or stalled.
LeaseExpires(w) ==
  /\ wk[w].held /\ Fault /\ Settle(w, "waiting") /\ Become(w, [wk[w] EXCEPT !.held = FALSE])
  /\ UNCHANGED <<admissionVars, manifestVars, serviceVars, handoff, drifted>>

\* Its next fenced call is refused.  An update it was about to send is not fenced.
LeaseLost(w) ==
  /\ wk[w].pc # "idle" /\ ~wk[w].held /\ Become(w, Idle)
  /\ UNCHANGED <<admissionVars, manifestVars, serviceVars, work, handoff, faults, drifted>>

(***************************************************************************)
(* The Eventstream service (external).                                     *)
(***************************************************************************)
ServiceApplies(u) ==
  /\ u \in flight /\ flight' = flight \ {u} /\ remote' = Applied(u.def) /\ ids' = ids + 1
  /\ ops' = IF u.op = 0 THEN ops ELSE [ops EXCEPT ![u.op] = "succeeded"]
  /\ UNCHANGED <<admissionVars, manifestVars, work, wk, handoff, faults, drifted>>

ServiceFails(u) ==
  /\ u \in flight /\ flight' = flight \ {u} /\ Fault
  /\ ops' = IF u.op = 0 THEN ops ELSE [ops EXCEPT ![u.op] = "failed"]
  /\ UNCHANGED <<admissionVars, manifestVars, remote, ids, work, wk, handoff, drifted>>

\* Someone edits the Eventstream: a node goes, or a foreign one appears.
Drift(t) ==
  /\ Fault /\ drifted' = TRUE /\ ids' = ids + 1
  /\ remote' = [remote EXCEPT ![t] = IF @ = Absent THEN ids + 1 ELSE Absent]
  /\ UNCHANGED <<admissionVars, manifestVars, flight, ops, work, wk, handoff>>

(***************************************************************************)
(* The controller decides the reports (reconcile_connector_observation).   *)
(***************************************************************************)
HandoffUnchanged == UNCHANGED <<admissionVars, serviceVars, wk, faults, drifted>>
Overtaken(h) == h.rev < conn.rev
Evidence == conn.base # NoDef /\ conn.state \in {"provisioning", "ready", "degraded"}

\* Mutant: rejected evidence is not observed again.
RejectEvidence_Silent(h) ==
  /\ h \in handoff
  /\ h.policy # policy \/ Overtaken(h) \/ (conn.removing # {} /\ h.insp = "stale")
  /\ handoff' = handoff \ {h} /\ UNCHANGED <<manifestVars, work>> /\ HandoffUnchanged

\* Evidence that can never be accepted is rejected and observed once more;
\* a report made under an older policy is only rejected.
RejectEvidence(h) ==
  /\ h \in handoff
  /\ h.policy # policy \/ Overtaken(h) \/ (conn.removing # {} /\ h.insp = "stale")
  /\ handoff' = handoff \ {h}
  /\ work' = IF h.policy # policy THEN work ELSE Enqueue({<<"reobserve", h.rev>>}, work)
  /\ UNCHANGED manifestVars /\ HandoffUnchanged

Current(h) == h \in handoff /\ h.policy = policy /\ ~Overtaken(h) /\ conn.rev <= MaxRev

\* Every source the publication wants is admitted and its capability holds.
SourcesAuthorized(ts) == \A t \in ts : ResolveTarget(t) /\ t \in able

\* The report shows each proposed node with its identity, and no removed one.
ProposalsBound == \A t \in Nodes(DesiredDefinition(conn)) : conn.base[t] # Absent
RemovalsConfirmed == \A t \in conn.removing : conn.base[t] = Absent

\* The binding publication: proposals take the identities the report shows,
\* removals are retired.
BindSources(h) ==
  /\ Current(h) /\ Evidence /\ Changes /\ h.insp = "none"
  /\ matches_update(conn.base, DesiredDefinition(conn)) /\ ProposalsBound /\ RemovalsConfirmed
  /\ SourcesAuthorized(Nodes(DesiredDefinition(conn)))
  /\ PublishIntent([conn EXCEPT !.own = conn.base, !.removing = {}, !.touched = {}], FALSE, work)
  /\ handoff' = handoff \ {h} /\ HandoffUnchanged

\* The removals a restoration undoes: their items are admitted again.
Restorable == {t \in conn.removing : conn.own[t] > 0 /\ ResolveTarget(t)}

\* The original removal was published under this policy, and neither then nor
\* since can an update have been sent (the connector's whole history).
NothingSent ==
  /\ conn.op = 0 /\ ~Marked(conn)
  /\ \A t \in Restorable : conn.asked[t] = policy /\ t \notin conn.touched

\* The inspection's own work is complete, and no other was ever attempted.
NobodySending(k) ==
  work[k] = "done" /\ \A j \in DOMAIN work \ {k} : work[j] \in {"queued", "done"}

\* Every node inspected is owned, and the wanted and the restored are among them.
PresenceComplete ==
  /\ \A t \in Nodes(conn.base) : conn.own[t] = conn.base[t]
  /\ Nodes(DesiredDefinition(conn)) \cup Restorable \subseteq Nodes(conn.base)

\* _connector_supersession_guard, for the report h.
Supersedable(h) ==
  /\ h.insp = "fresh" /\ Proposals(conn) = {} /\ Restorable # {}
  /\ PresenceComplete /\ NothingSent /\ NobodySending(h.key)

\* _supersession_desired_values: only the selected nodes are wanted again.
Restoration == [conn EXCEPT !.removing = @ \ Restorable]

\* The restoration publication: nodes still there are wanted again, untried
\* work is superseded, and readiness needs capability proved afterwards.
RestoreSources(h) ==
  /\ Current(h) /\ Evidence /\ Supersedable(h)
  /\ SourcesAuthorized((Nodes(conn.own) \ conn.removing) \cup Restorable)
  /\ PublishIntent(Restoration, TRUE,
                   [k \in DOMAIN work |-> IF work[k] = "queued" THEN "done" ELSE work[k]])
  /\ handoff' = handoff \ {h} /\ HandoffUnchanged

\* The readiness publication of a verified report; desired state unchanged.
PublishReady(h) ==
  /\ Current(h) /\ h.ready /\ ProvenBy(delivered)
  /\ conn' = [conn EXCEPT !.rev = @ + 1, !.state = "ready"]
  /\ handoff' = handoff \ {h} /\ UNCHANGED <<desired, fresh, delivered, work>> /\ HandoffUnchanged

\* Any other current report needs no publication.
Accept(h) ==
  /\ h \in handoff /\ h.policy = policy /\ ~Overtaken(h) /\ ~(conn.removing # {} /\ h.insp = "stale")
  /\ ~(Evidence /\ Changes) /\ ~h.ready
  /\ handoff' = handoff \ {h} /\ UNCHANGED <<manifestVars, work>> /\ HandoffUnchanged

\* Presence evidence ages.
ExpireInspection(h) ==
  /\ h \in handoff /\ h.insp = "fresh"
  /\ handoff' = (handoff \ {h}) \cup {[h EXCEPT !.insp = "stale"]}
  /\ UNCHANGED <<manifestVars, work>> /\ HandoffUnchanged

\* An event of a bound source is accepted; it may be the delivery awaited.
Deliver(t) ==
  /\ t \notin delivered /\ ResolveTarget(t) /\ conn.own[t] > 0 /\ remote[t] = conn.own[t]
  /\ desired.policy = policy /\ conn.policy = policy
  /\ delivered' = delivered \cup {t}
  /\ work' = IF conn.state # "ready" /\ DeliveryProof(delivered') THEN Enqueue({<<"publication", conn.rev>>}, work)
             ELSE work
  /\ UNCHANGED <<conn, desired, fresh, handoff>> /\ HandoffUnchanged

Next ==
  \/ \E S \in Policies : ActivateScope(S)
  \/ PublishScope
  \/ \E t \in Targets : PublishInventory(t) \/ PublishCapability(t) \/ Lapse(t) \/ Drift(t) \/ Deliver(t)
  \/ \E w \in Workers :
       \/ \E k \in DOMAIN work : Inspect(w, k)
       \/ Decide(w) \/ ProbeFails(w) \/ Recheck(w)
       \/ Post(w) \/ PostUncertain(w) \/ PostNotSent(w) \/ Acknowledge(w) \/ Reinspect(w)
       \/ Finish(w) \/ LeaseExpires(w) \/ LeaseLost(w)
  \/ \E u \in flight : ServiceApplies(u) \/ ServiceFails(u)
  \/ \E h \in handoff : RejectEvidence(h) \/ BindSources(h) \/ RestoreSources(h)
                         \/ PublishReady(h) \/ Accept(h) \/ ExpireInspection(h)

Spec == Init /\ [][Next]_vars

(***************************************************************************)
(* Properties.                                                             *)
(***************************************************************************)

Sending == {u.def : u \in flight} \cup {wk[w].def : w \in {v \in Workers : wk[v].pc = "post"}}

\* Whatever stalls, is lost or is retried, and whichever worker took the work
\* over, at most one definition update can still reach the Eventstream: the
\* marker saved before an update is sent licenses that one and no other.
OneUpdateInFlight ==
  ~drifted => Cardinality(flight) + Cardinality({w \in Workers : wk[w].pc = "post"}) <= 1

\* No update that can still reach the Eventstream leaves out a source the
\* controller wants: a removal is only restored when none was ever sent.
InFlightHarmless ==
  ~drifted => \A d \in Sending, t \in Targets :
                conn.own[t] > 0 /\ t \notin conn.removing => d[t] # Absent

\* The manifest tells the truth about the Eventstream: every bound source is
\* the node it names until its removal is asked for, and no node is forgotten.
OwnershipTruthful ==
  ~drifted => \A t \in Targets :
    /\ conn.own[t] > 0 /\ t \notin conn.removing => remote[t] = conn.own[t]
    /\ remote[t] # Absent => conn.own[t] \in {remote[t], Unbound}

\* A ready connector has the topology it names, no change pending, and an
\* event accepted from one of its sources since that topology was published.
ReadyProven ==
  conn.state = "ready" /\ ~drifted =>
    remote = conn.own /\ ~Changes /\ \E t \in delivered : conn.own[t] > 0

\* A change the controller published is never forgotten: while sources are to
\* be added or removed, or an update may be under way, the connector is
\* blocked for review or some work or report is still to be handled.
ChangeWatched ==
  (Changes \/ Marked(conn)) /\ conn.state # "blocked" /\ tp = policy /\ conn.policy = policy =>
    handoff # {} \/ \E k \in DOMAIN work : work[k] # "done"

\* At most one update can still arrive, and it drops no wanted source.
UpdatesSafe == OneUpdateInFlight /\ InFlightHarmless

\* What the manifest says of the Eventstream is so, ready means proven, and
\* somebody still looks at what is to be changed.
ManifestTruthful == TypeOK /\ OwnershipTruthful /\ ReadyProven /\ ChangeWatched

(***************************************************************************)
(* Why they hold: the inductive invariant.                                 *)
(***************************************************************************)

\* An update can still be sent: by a worker past its recheck, or by one whose
\* recheck will find its own intent.
Licensed(w) == wk[w].pc = "recheck" /\ wk[w].seen = conn.rev
Posting == {w \in Workers : wk[w].pc = "post"}
Underway == flight # {} \/ Posting # {} \/ \E w \in Workers : Licensed(w)

\* One licence at a time, and it is the marker's, which the service does not match yet.
OneLicence ==
  /\ \A u, v \in flight : u = v
  /\ \A w, v \in Posting : w = v
  /\ flight = {} \/ Posting = {}
  /\ (\E w \in Workers : Licensed(w)) => flight = {} /\ Posting = {}
  /\ \A w, v \in Workers : Licensed(w) /\ Licensed(v) => w = v
LicenceMarked ==
  /\ Underway => Marked(conn) /\ ~matches_update(remote, conn.marker)
  /\ \A u \in flight : u.def = conn.marker
  /\ \A w \in Posting : wk[w].def = conn.marker

\* The marker names what is owned until it is cleared.
MarkerOwned ==
  Marked(conn) => \A t \in Targets :
    /\ conn.marker[t] # Absent => conn.own[t] = conn.marker[t]
    /\ conn.marker[t] > 0 => remote[t] = conn.own[t]
    /\ conn.own[t] > 0 /\ t \notin conn.removing => conn.marker[t] = conn.own[t]

\* What a worker inspected still holds when its save can succeed.
InspectionHolds ==
  \A w \in Workers :
    /\ wk[w].seen <= conn.rev
    /\ wk[w].seen = conn.rev =>
         /\ wk[w].pc = "decide" /\ (~Marked(conn) \/ matches_update(wk[w].obs, conn.marker)) =>
              wk[w].obs = remote /\ ~Underway
         /\ wk[w].pc \in {"recheck", "post"} => wk[w].obs = remote
         /\ wk[w].pc = "reinspect" => ~Underway

\* An inspected baseline is the Eventstream's while no update is licensed.
BaseTrue ==
  /\ conn.base # NoDef => conn.base = remote
  /\ conn.state = "ready" => conn.base # NoDef

UpdateSound ==
  ~drifted => OneLicence /\ LicenceMarked /\ MarkerOwned /\ InspectionHolds /\ BaseTrue

\* There is none while an update may be under way or the connector is blocked.
BaseClear == conn.base # NoDef => ~Marked(conn) /\ conn.state # "blocked"

\* Work is held by one worker, and publications and reports have work of their own.
WorkHeld ==
  /\ \A w \in Workers : wk[w].held => /\ wk[w].pc # "idle" /\ wk[w].key \in DOMAIN work
                                       /\ work[wk[w].key] = "leased"
  /\ \A w, v \in Workers : wk[w].held /\ wk[v].held /\ wk[w].key = wk[v].key => w = v
  /\ \A w \in Workers : wk[w].seen <= conn.rev
ReportsFresh ==
  /\ conn.policy <= policy
  /\ \A k \in DOMAIN work : k[1] \in {"publication", "reobserve"} => k[2] <= conn.rev
  /\ \A h \in handoff : h.rev <= conn.rev /\ <<"reobserve", h.rev>> \notin DOMAIN work
  /\ \A g, h \in handoff : g.rev = h.rev => g = h

\* Work that no worker is about to complete, and a report that a change waits for.
Open(k) ==
  /\ work[k] # "done"
  /\ \A w \in Workers : ~(wk[w].held /\ wk[w].key = k /\ wk[w].pc = "finish" /\ wk[w].pol = policy)
Awaited(h) == h.rev = conn.rev /\ h.policy = policy /\ Evidence /\ Changes
ChangeOpen ==
  (Changes \/ Marked(conn)) /\ conn.state # "blocked" /\ conn.policy = policy =>
    (\E h \in handoff : Awaited(h)) \/ \E k \in DOMAIN work : Open(k)

TopologyInv ==
  /\ TypeOK /\ UpdateSound /\ OwnershipTruthful /\ ReadyProven
  /\ BaseClear /\ WorkHeld /\ ReportsFresh /\ ChangeOpen
=============================================================================
