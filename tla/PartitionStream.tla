-------------------------- MODULE PartitionStream --------------------------
(***************************************************************************)
(* Reception of one Event Hubs partition (src/triage/monitoring/events.py, *)
(* SqlCheckpointStore; worker.py, EventReceiver and its supervision) over  *)
(* the durable ownership, boundary, journal and checkpoint of engine.py,   *)
(* and the controller's reconciliation of what was accepted.               *)
(*                                                                         *)
(* Several worker processes run a receiver each.  The SDK balances the     *)
(* partition between them: it lists ownership, claims with the entity tag  *)
(* it has listed, reads the checkpoint and delivers positions in order,    *)
(* prefetched ones also after the partition has changed hands.  Every call *)
(* of the store is one transaction; anything may happen between two calls. *)
(*                                                                         *)
(* A fence grows whenever the partition changes hands, so a receiver's     *)
(* token is the current one, or it is old for good.  An entity tag changes *)
(* with every write of the ownership row, so a listed tag is current or    *)
(* stale for good.                                                         *)
(***************************************************************************)
EXTENDS Integers, FiniteSets, Sequences

CONSTANTS
  Receivers,
  MaxPosition,     \* the broker enqueues the positions 1 .. MaxPosition
  Keys,            \* delivery identities: original event source and id
  Envelope,        \* position -> the identity it carries and what is wrong with it
  RetryAttempts,   \* WorkerConfig.retry_attempts
  MaxFaults,       \* bound: faults and disturbances
  None

Positions == 1 .. MaxPosition

\* What parse_native_job_event looks at, in its order: the first three leave no
\* trustworthy identity, the others quarantine a delivery under its identity.
AnonymousChecks == <<"oversized", "undecodable", "anonymous">>
IdentifiedChecks ==
  <<"foreign source", "wrong tenant", "other connector", "unknown type", "schema version",
    "no data", "inconsistent fields", "clock skew", "before cutoff", "not subscribed",
    "not a pipeline", "item kind", "event filter", "observation">>

Defects == {AnonymousChecks[i] : i \in DOMAIN AnonymousChecks} \cup
           {IdentifiedChecks[i] : i \in DOMAIN IdentifiedChecks}

ASSUME StreamAssumption ==
  /\ MaxPosition \in Nat /\ RetryAttempts \in Nat \ {0} /\ MaxFaults \in Nat
  /\ Envelope \in [Positions -> [key: Keys, defects: SUBSET Defects]]
  /\ None \notin Receivers

VARIABLES
  broker,       \* [first, last]: retained and enqueued positions
  enabled,      \* the owned connector is enabled and monitoring not in maintenance
  lease,        \* the authoritative lease: [owner, live]
  ownership,    \* the ownership row: absent, released, or held under a lease
  start,        \* the pinned first position, or 0
  gap,          \* a stream_retention_gap is recorded with it
  checkpoint,   \* the last checkpointed position, or 0
  journal,      \* the positions with a durable receipt
  signal,       \* delivery identity -> its recorded status
  handoff,      \* the reconciliation requests of the partition, in order
  validated,    \* validated_revision of their frontier
  candidates,   \* identities handed to triage
  rcv,          \* receiver -> its state
  faults

streamVars == <<start, gap, checkpoint, journal, signal, handoff>>
controllerVars == <<validated, candidates>>
ownerVars == <<lease, ownership>>
vars == <<broker, enabled, ownerVars, streamVars, controllerVars, rcv, faults>>

\* "down": the process has ended; "off": between two runs of the receiver;
\* "open": connected; then the steps of claiming, initializing and of one event.
Steps == {"down", "off", "open", "claimed", "init", "ready", "renew", "lookup",
          "record", "renew2", "read", "advance"}

Receiver == [pc: Steps, token: {"none", "current", "old"},
             tag: {"none", "current", "stale"}, next: 0 .. MaxPosition + 1,
             seen: 0 .. MaxPosition, verified: BOOLEAN, attempts: 0 .. RetryAttempts]

NewReceiver == [pc |-> "off", token |-> "none", tag |-> "none", next |-> 0,
                seen |-> 0, verified |-> FALSE, attempts |-> 0]

\* The type invariant.
TypeOK ==
  /\ broker \in [first: Positions \cup {MaxPosition + 1}, last: 0 .. MaxPosition]
  /\ enabled \in BOOLEAN
  /\ lease \in [owner: Receivers \cup {None}, live: BOOLEAN]
  /\ ownership \in [state: {"absent", "released", "held"},
                   owner: Receivers \cup {None}, live: BOOLEAN]
  /\ start \in 0 .. MaxPosition + 1 /\ gap \in BOOLEAN
  /\ checkpoint \in 0 .. MaxPosition
  /\ journal \subseteq Positions
  /\ signal \in [Keys -> {"none", "accepted", "quarantined"}]
  /\ handoff \in Seq([position: Positions, state: {"queued", "published", "rejected"}])
  /\ validated \in 0 .. Len(handoff)
  /\ candidates \subseteq Keys
  /\ rcv \in [Receivers -> Receiver]
  /\ faults \in 0 .. MaxFaults

Init ==
  /\ broker = [first |-> 1, last |-> 0]
  /\ enabled = TRUE
  /\ lease = [owner |-> None, live |-> FALSE]
  /\ ownership = [state |-> "absent", owner |-> None, live |-> FALSE]
  /\ start = 0 /\ gap = FALSE /\ checkpoint = 0
  /\ journal = {} /\ handoff = <<>>
  /\ signal = [k \in Keys |-> "none"]
  /\ validated = 0 /\ candidates = {}
  /\ rcv = [r \in Receivers |-> NewReceiver]
  /\ faults = 0

-----------------------------------------------------------------------------
(* The broker, policy and time. *)

Enqueue ==
  /\ broker.last < MaxPosition
  /\ broker' = [broker EXCEPT !.last = @ + 1]
  /\ UNCHANGED <<enabled, ownerVars, streamVars, controllerVars, rcv, faults>>

Disturbed == faults < MaxFaults /\ faults' = faults + 1

\* Retention drops the oldest position, whether it was read or not.
Trim ==
  /\ broker.first <= broker.last
  /\ broker' = [broker EXCEPT !.first = @ + 1]
  /\ Disturbed
  /\ UNCHANGED <<enabled, ownerVars, streamVars, controllerVars, rcv>>

\* Maintenance or the connector's state changes, or the controller publishes
\* the connector anew: what receivers have verified is out of date.
ChangeConnector ==
  /\ enabled' \in BOOLEAN
  /\ rcv' = [r \in Receivers |-> [rcv[r] EXCEPT !.verified = FALSE]]
  /\ Disturbed
  /\ UNCHANGED <<broker, ownerVars, streamVars, controllerVars>>

Recovered ==
  /\ ~enabled
  /\ enabled' = TRUE
  /\ UNCHANGED <<broker, ownerVars, streamVars, controllerVars, rcv, faults>>

\* expires_at passes: the same instant in the lease and in the ownership row.
LeaseExpires ==
  /\ lease.live
  /\ lease' = [lease EXCEPT !.live = FALSE]
  /\ ownership' = [ownership EXCEPT !.live = FALSE]
  /\ IF lease.owner = None THEN UNCHANGED faults ELSE Disturbed
  /\ UNCHANGED <<broker, enabled, streamVars, controllerVars, rcv>>

-----------------------------------------------------------------------------
(* The store: ownership. *)

\* Every write of the row gives it a new tag.
Retagged(recv) ==
  [r \in Receivers |-> [recv[r] EXCEPT !.tag = IF @ = "current" THEN "stale" ELSE @]]

SaveOwnership(state, row) ==
  ownership' = [state |-> state, owner |-> row.owner, live |-> row.live]

\* The lease and its journal row are written in one transaction.
WriteOwnership(state, row) == lease' = row /\ SaveOwnership(state, row)

\* _owned_partition: the caller's token is the current lease, which has not run out.
OwnedPartition(r) ==
  /\ rcv[r].token = "current"
  /\ ownership.state = "held"
  /\ ownership.live

Renewable(r) == OwnedPartition(r) /\ lease.live

\* A claim takes the partition whoever holds it: the SDK decides, the tag
\* decides races.  The owner's own live lease is renewed and keeps its fence.
Renews(r) == ownership.state = "held" /\ lease.owner = r /\ lease.live

Tokens(recv, r) ==
  [q \in Receivers |->
     [recv[q] EXCEPT !.token = IF q = r THEN "current"
                               ELSE IF @ = "current" THEN "old" ELSE @]]

ClaimPartition(r, recv) ==
  /\ WriteOwnership("held", [owner |-> r, live |-> TRUE])
  /\ rcv' = Retagged(IF Renews(r) THEN recv ELSE Tokens(recv, r))

\* The lease keeps its owner, expired and with a higher fence.
ReleasePartition(r, recv) ==
  /\ WriteOwnership("released", [lease EXCEPT !.live = FALSE])
  /\ rcv' = Retagged([recv EXCEPT ![r].token = "none"])

-----------------------------------------------------------------------------
(* The receiver. *)

At(r, pc) == rcv[r].pc = pc
Goto(r, pc) == rcv' = [rcv EXCEPT ![r].pc = pc]

\* A run of the receiver ends.  EventContractError (the connector is not
\* enabled) waits; other exceptions use up an attempt, and attempts are never
\* given back; what cannot be retried ends the process.
Ended(x, cause) ==
  LET used == x.attempts + (IF cause = "retry" THEN 1 ELSE 0)
      stops == cause = "fatal" \/ used >= RetryAttempts IN
  [NewReceiver EXCEPT !.pc = IF stops THEN "down" ELSE "off",
                      !.token = x.token, !.attempts = used]

EndRun(r, cause) ==
  /\ rcv' = [rcv EXCEPT ![r] = Ended(@, cause)]
  /\ UNCHANGED <<broker, enabled, ownerVars, streamVars, controllerVars, faults>>

Running(r) == rcv[r].pc \notin {"down", "off"}

\* A call of the broker or the store fails, or its commit is not confirmed.
Fault(r) ==
  /\ Running(r)
  /\ rcv' = [rcv EXCEPT ![r] = Ended(@, "retry")]
  /\ Disturbed
  /\ UNCHANGED <<broker, enabled, ownerVars, streamVars, controllerVars>>

\* The process is started again, and has no handles.
Boot(r) ==
  /\ At(r, "down")
  /\ rcv' = [rcv EXCEPT ![r] = NewReceiver]
  /\ UNCHANGED <<broker, enabled, ownerVars, streamVars, controllerVars, faults>>

\* A new client has a new owner id: what its predecessor held is another's.
\* The tokens in _leases survive from the run before.
Disowned(row, r) == IF row.owner = r THEN [row EXCEPT !.owner = None] ELSE row

Connect(r) ==
  /\ At(r, "off") /\ enabled
  /\ rcv' = [rcv EXCEPT ![r].pc = "open", ![r].verified = TRUE]
  /\ lease' = Disowned(lease, r)
  /\ ownership' = Disowned(ownership, r)
  /\ UNCHANGED <<broker, enabled, streamVars, controllerVars, faults>>

ListOwnership(r) ==
  /\ Running(r) /\ enabled
  /\ rcv[r].tag # "current"
  /\ rcv' = [rcv EXCEPT ![r].tag = "current"]
  /\ UNCHANGED <<broker, enabled, ownerVars, streamVars, controllerVars, faults>>

Claimed(x) == [x EXCEPT !.tag = "none", !.pc = IF @ = "open" THEN "claimed" ELSE @]

\* Another owner's lease has not run out.
HeldByAnother(r) == lease.live /\ lease.owner # r

\* The compare-and-set of the listed tag, for a connector that is enabled.
Claimable(r) == Running(r) /\ enabled /\ rcv[r].tag = "current"

\* claim_ownership with the tag listed before.  Taking a live lease from
\* another, as the memory adapter allows, and a lost claim disturb.
ClaimOwnership(r) ==
  LET recv == [rcv EXCEPT ![r] = Claimed(@)] IN
  /\ Claimable(r)
  /\ IF HeldByAnother(r) THEN Disturbed ELSE UNCHANGED faults
  /\ ClaimPartition(r, recv)
  /\ UNCHANGED <<broker, enabled, streamVars, controllerVars>>

\* The row was written since it was listed, or the SQL adapter finds another's
\* live lease: the handle is dropped.
ClaimLost(r) ==
  /\ Running(r) /\ enabled
  /\ rcv[r].tag = "stale" \/ (Claimable(r) /\ HeldByAnother(r))
  /\ rcv' = [rcv EXCEPT ![r].tag = "none", ![r].token = "none"]
  /\ Disturbed
  /\ UNCHANGED <<broker, enabled, ownerVars, streamVars, controllerVars>>

\* A receiver that closes gives the partition back, if its tag is current.
ReleaseOwnership(r) ==
  /\ Running(r)
  /\ rcv[r].tag = "current" /\ rcv[r].token = "current"
  /\ ownership.state = "held"
  /\ ReleasePartition(r, [rcv EXCEPT ![r] = [Ended(@, "contract") EXCEPT !.token = "none"]])
  /\ Disturbed
  /\ UNCHANGED <<broker, enabled, streamVars, controllerVars>>

\* A step that needs the connector to be enabled ends the run when it is not.
Disabled(r) ==
  /\ rcv[r].pc \in {"open", "claimed", "init", "ready", "renew", "renew2"}
  /\ ~enabled
  /\ EndRun(r, "contract")

LeaseLost(r) ==
  /\ \/ rcv[r].pc \in {"init", "renew", "renew2"} /\ enabled /\ ~Renewable(r)
     \/ rcv[r].pc \in {"record", "advance"} /\ ~OwnedPartition(r)
  /\ EndRun(r, "retry")

\* The SDK reads the checkpoint and opens its link after it.
ListCheckpoints(r) ==
  /\ At(r, "claimed") /\ enabled
  /\ rcv' = [rcv EXCEPT ![r].pc = "init",
                        ![r].next = IF checkpoint = 0 THEN broker.first ELSE checkpoint + 1]
  /\ UNCHANGED <<broker, enabled, ownerVars, streamVars, controllerVars, faults>>

\* A plausible slip: the broker's boundary stands in for the pinned one.
ExpectedRetained == IF checkpoint = 0 THEN broker.first ELSE checkpoint + 1

Expected == IF checkpoint = 0 THEN start ELSE checkpoint + 1

\* renew_lease: the lease and its ownership row are written.
Renew(recv) ==
  /\ rcv' = Retagged(recv)
  /\ UNCHANGED ownerVars

\* The first boundary is pinned once and never reset.
PinStart(first) == start' = IF start = 0 THEN first ELSE start

\* initialize_partition: the first boundary is pinned; a later one that lies
\* beyond the next position to checkpoint is recorded as a gap and ends it.
Initialize(r) ==
  LET first == broker.first IN
  /\ At(r, "init") /\ enabled /\ Renewable(r)
  /\ PinStart(first)
  /\ gap' = (gap \/ (start # 0 /\ first > Expected))
  /\ Renew([rcv EXCEPT ![r] = IF start # 0 /\ first > Expected
                              THEN Ended(@, "fatal") ELSE [@ EXCEPT !.pc = "ready"]])
  /\ UNCHANGED <<broker, enabled, checkpoint, journal, signal, handoff, controllerVars, faults>>

\* The position being handled; the SDK delivers retained ones in order.
Current(r) == rcv[r].next

Deliver(r) ==
  LET s == IF Current(r) < broker.first THEN broker.first ELSE Current(r) IN
  /\ At(r, "ready") /\ enabled
  /\ s <= broker.last
  /\ rcv' = [rcv EXCEPT ![r].pc = "renew", ![r].next = s, ![r].verified = TRUE,
                        ![r].seen = 0]
  /\ UNCHANGED <<broker, enabled, ownerVars, streamVars, controllerVars, faults>>

RenewForIntake(r) ==
  /\ At(r, "renew") /\ enabled /\ Renewable(r)
  /\ IF Current(r) < start
     THEN Renew([rcv EXCEPT ![r] = Ended(@, "fatal")])
     ELSE Renew([rcv EXCEPT ![r].pc = "lookup"])
  /\ UNCHANGED <<broker, enabled, streamVars, controllerVars, faults>>

\* What parse_native_job_event makes of the envelope at s.
Fails(s, checks) == \E i \in DOMAIN checks : checks[i] \in Envelope[s].defects
Unidentified(s) == Fails(s, AnonymousChecks)
Parsed(s) == IF Fails(s, IdentifiedChecks) THEN "quarantined" ELSE "accepted"

\* The publication changed after the receiver's identity was verified.
Unverified(r) ==
  /\ At(r, "lookup") /\ ~rcv[r].verified
  /\ ~Unidentified(Current(r))
  /\ EndRun(r, "retry")

\* get_stream_acceptance: a receipt of this position is final.
LookupAcceptance(r) ==
  /\ At(r, "lookup")
  /\ rcv[r].verified \/ Unidentified(Current(r))
  /\ Goto(r, IF Current(r) \in journal THEN "renew2" ELSE "record")
  /\ UNCHANGED <<broker, enabled, ownerVars, streamVars, controllerVars, faults>>

HandedOver(s) == Append(handoff, [position |-> s, state |-> "queued"])

\* _quarantine_pending_removal and the admission of record_stream_receipts: a
\* well-formed signal may still be quarantined, never the other way round.
Admission(status) == IF status = "accepted" THEN {"accepted", "quarantined"} ELSE {status}

\* The dispositions a receipt of s may be committed with: what cannot be
\* identified is quarantine evidence, what is not admitted is refused as accepted.
Dispositions(s) == IF Unidentified(s) THEN {"quarantined"} ELSE Admission(Parsed(s))

\* The signal is recorded under its identity unless it is known, the position
\* always, and both are handed to the controller.
CommitPosition(s, status) ==
  /\ signal' = [k \in Keys |-> IF ~Unidentified(s) /\ k = Envelope[s].key /\ signal[k] = "none"
                               THEN status ELSE signal[k]]
  /\ journal' = journal \cup {s}
  /\ handoff' = HandedOver(s)

\* record_stream_receipts and record_unidentified_receipts.
RecordReceipt(r) ==
  LET s == Current(r) IN
  /\ At(r, "record") /\ OwnedPartition(r) /\ enabled
  /\ s \notin journal
  /\ \E status \in Dispositions(s) : CommitPosition(s, status)
  /\ Goto(r, "renew2")
  /\ UNCHANGED <<broker, enabled, ownerVars, start, gap, checkpoint, controllerVars, faults>>

\* The other owner was faster: the request id carries other content; or the
\* connector is disabled now.
RecordRefused(r) ==
  /\ At(r, "record")
  /\ Current(r) \in journal \/ ~enabled
  /\ EndRun(r, "retry")

\* _require_restored_source_intake: a source whose removal was superseded takes
\* no delivery that is older than its publication, nor one whose recovery
\* history cannot be read.
RestoredIntakeRefused(r) ==
  /\ At(r, "record") /\ OwnedPartition(r) /\ enabled
  /\ ~Unidentified(Current(r)) /\ Parsed(Current(r)) = "accepted"
  /\ rcv' = [rcv EXCEPT ![r] = Ended(@, "retry")]
  /\ Disturbed
  /\ UNCHANGED <<broker, enabled, ownerVars, streamVars, controllerVars>>

RenewForCheckpoint(r) ==
  /\ At(r, "renew2") /\ enabled /\ Renewable(r)
  /\ Renew([rcv EXCEPT ![r].pc = "read"])
  /\ UNCHANGED <<broker, enabled, streamVars, controllerVars, faults>>

NextEvent(x) == [x EXCEPT !.pc = "ready", !.next = @ + 1]

\* update_checkpoint reads the durable checkpoint: this position may be covered
\* already, be the next one, or an earlier one is missing.
ReadCheckpoint(r) ==
  /\ At(r, "read")
  /\ rcv' = [rcv EXCEPT ![r] =
       IF checkpoint >= Current(r) THEN NextEvent(@)
       ELSE IF Current(r) = Expected THEN [@ EXCEPT !.pc = "advance", !.seen = checkpoint]
       ELSE Ended(@, "fatal")]
  /\ UNCHANGED <<broker, enabled, ownerVars, streamVars, controllerVars, faults>>

\* The journalled positions the checkpoint moves over are counted.
Committed(end) == end >= Expected /\ Expected .. end \subseteq journal

AdvanceCheckpoint(r) ==
  LET end == Current(r) IN
  /\ At(r, "advance") /\ OwnedPartition(r)
  /\ rcv[r].seen = checkpoint
  /\ Committed(end)
  /\ checkpoint' = end
  /\ rcv' = [rcv EXCEPT ![r] = NextEvent(@)]
  /\ UNCHANGED <<broker, enabled, ownerVars, start, gap, journal, signal, handoff, controllerVars, faults>>

AdvanceRefused(r) ==
  /\ At(r, "advance") /\ OwnedPartition(r)
  /\ rcv[r].seen # checkpoint
  /\ EndRun(r, "retry")

-----------------------------------------------------------------------------
(* The controller. *)

\* The frontier's validated prefix grows over handoffs that are all terminal.
Prefix(h) ==
  CHOOSE n \in 0 .. Len(h) :
    /\ \A i \in 1 .. n : h[i].state # "queued"
    /\ n = Len(h) \/ h[n + 1].state = "queued"

\* reconcile_state on one handoff, in any order.  Policy may have changed or
\* maintenance begun, which rejects it; an unidentified one is always rejected.
Reconcile(i) ==
  LET s == handoff[i].position
      ok == ~Unidentified(s) IN
  /\ handoff[i].state = "queued"
  /\ \E state \in {"published", "rejected"} :
       /\ state = "published" => ok
       /\ handoff' = [handoff EXCEPT ![i].state = state]
       /\ candidates' = IF state = "published" /\ signal[Envelope[s].key] = "accepted"
                        THEN candidates \cup {Envelope[s].key} ELSE candidates
  /\ validated' = Prefix(handoff')
  /\ UNCHANGED <<broker, enabled, ownerVars, start, gap, checkpoint, journal, signal, rcv, faults>>

-----------------------------------------------------------------------------
Balance(r) == ListOwnership(r) \/ ClaimOwnership(r)

Receive(r) ==
  \/ Boot(r) \/ Connect(r)
  \/ Disabled(r) \/ LeaseLost(r) \/ ListCheckpoints(r) \/ Initialize(r)
  \/ Deliver(r) \/ RenewForIntake(r) \/ Unverified(r) \/ LookupAcceptance(r)
  \/ RecordReceipt(r) \/ RecordRefused(r) \/ RenewForCheckpoint(r)
  \/ ReadCheckpoint(r) \/ AdvanceCheckpoint(r) \/ AdvanceRefused(r)

Environment ==
  \/ Enqueue \/ Trim \/ ChangeConnector \/ Recovered \/ LeaseExpires
  \/ \E r \in Receivers : Fault(r) \/ ClaimLost(r) \/ ReleaseOwnership(r)
                         \/ RestoredIntakeRefused(r)

Next ==
  \/ Environment
  \/ \E r \in Receivers : Balance(r) \/ Receive(r)
  \/ \E i \in 1 .. Len(handoff) : Reconcile(i)

Spec == Init /\ [][Next]_vars

\* Workers are supervised and restarted, their two loops (balancing and
\* reception) run beside each other, the controller's sweep goes on, an operator
\* ends maintenance, and the lease of an owner that is gone runs out.
FairSpec ==
  /\ Spec
  /\ \A r \in Receivers : WF_vars(Balance(r)) /\ WF_vars(Receive(r))
  /\ WF_vars(Recovered)
  /\ WF_vars(lease.owner = None /\ LeaseExpires)
  /\ WF_vars(\E i \in 1 .. Len(handoff) : Reconcile(i))

-----------------------------------------------------------------------------
(* Properties. *)

\* The ownership row never tells another story than the authoritative lease:
\* a row that carries a lease carries the current one, and a released or
\* missing row leaves no live lease behind (_change_partition_ownership,
\* renew_lease and expiry keep two records in step).
LeaseAgrees ==
  /\ ownership.state # "held" => ~lease.live
  /\ ownership.state = "held" => ownership.owner = lease.owner /\ ownership.live = lease.live

\* At most one receiver's token passes _owned_partition: a partition that has
\* changed hands is not written by its former owner.
OneOwner ==
  \A r, q \in Receivers :
    OwnedPartition(r) /\ OwnedPartition(q) => r = q

\* No event is lost behind the checkpoint: from the pinned start to it, every
\* position has a durable receipt, whoever wrote it and however often the
\* partition changed hands.
CheckpointContiguous == checkpoint # 0 => start .. checkpoint \subseteq journal

\* Every receipt was handed to the controller exactly once, although an
\* identity may come with several positions and a position may be redelivered.
HandedOverOnce ==
  \A s \in Positions :
    Cardinality({i \in 1 .. Len(handoff) : handoff[i].position = s}) =
      IF s \in journal THEN 1 ELSE 0

\* What the frontier calls validated has been decided, in whatever order the
\* controller reconciled.
ValidatedIsDecided ==
  \A i \in 1 .. validated : handoff[i].state # "queued"

\* A pinned boundary and an earlier checkpoint are never taken back, and the
\* checkpoint moves only by the receiver that owns the partition at that moment.
BoundariesOnlyGrow ==
  [][ /\ start # 0 => start' = start
      /\ gap => gap'
      /\ checkpoint' >= checkpoint
      /\ checkpoint' # checkpoint => \E r \in Receivers : OwnedPartition(r) ]_vars

\* Again and again the stream catches up: everything enqueued is behind the
\* checkpoint, or a retention gap is reported, or nothing is retained.
EveryPositionCovered ==
  []<>(checkpoint = broker.last \/ gap \/ broker.first > broker.last)

\* Again and again the controller catches up with every receipt.
EveryHandoffDecided == []<>(validated = Len(handoff))

\* The lease and the owner agree, and what the owner has passed is recorded,
\* handed over once and decided before it is validated.
StreamSafe ==
  /\ TypeOK
  /\ LeaseAgrees
  /\ OneOwner
  /\ CheckpointContiguous
  /\ HandedOverOnce
  /\ ValidatedIsDecided

-----------------------------------------------------------------------------
(* What holds at every step, strong enough to be preserved by each one. *)

\* A fence is given to one receiver at a time.
OneToken ==
  \A r, q \in Receivers :
    rcv[r].token = "current" /\ rcv[q].token = "current" => r = q

\* A receiver at work on an event has one of the broker's positions, and one
\* that is not down has attempts left.
Sound(x) ==
  /\ x.pc \in {"renew", "lookup", "record", "renew2", "read", "advance"} => x.next \in Positions
  /\ x.pc # "down" => x.attempts < RetryAttempts

ReceiversSound == \A r \in Receivers : Sound(rcv[r])

\* The handoffs are the journal in some order, without repetition.
HandoffsOfJournal ==
  /\ journal = {handoff[i].position : i \in 1 .. Len(handoff)}
  /\ \A i, j \in 1 .. Len(handoff) : handoff[i].position = handoff[j].position => i = j

StreamInv ==
  /\ TypeOK
  /\ LeaseAgrees
  /\ OneToken
  /\ ReceiversSound
  /\ CheckpointContiguous
  /\ HandoffsOfJournal
  /\ ValidatedIsDecided
=============================================================================
