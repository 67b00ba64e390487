----------------------- MODULE PartitionStreamProofs -----------------------
(***************************************************************************)
(* What the two ways of collecting evidence promise.  The receivers of a   *)
(* partition come first, for any number of receivers, positions, attempts  *)
(* and disturbances; then the polling windows of a target, for any number  *)
(* of collectors, pages, policies and ticks.                               *)
(***************************************************************************)
EXTENDS Collection, FiniteSetTheorems, SequenceTheorems, WellFoundedInduction, TLAPS

\* A handoff of the controller (PartitionStream).
Handoff == [position: Positions, state: {"queued", "published", "rejected"}]

-----------------------------------------------------------------------------
(* The validated prefix. *)

\* A set of numbers up to n that is not empty has a least element.
LEMMA LeastElement ==
  ASSUME NEW n \in Nat, NEW T \in SUBSET (1 .. n), T # {}
  PROVE  \E t \in T : \A u \in T : t <= u
  <1> DEFINE Below == {1 .. t : t \in T}
  <1>1. Below \subseteq FiniteSubsetsOf(1 .. n)
    <2>1. ASSUME NEW t \in T PROVE 1 .. t \in FiniteSubsetsOf(1 .. n)
      <3>1. 1 .. t \subseteq 1 .. n
        OBVIOUS
      <3>2. IsFiniteSet(1 .. t)
        BY FS_Interval
      <3> QED BY <3>1, <3>2 DEF FiniteSubsetsOf
    <2> QED BY <2>1
  <1>2. PICK t \in T : \A u \in T : ~ (<<1 .. u, 1 .. t>> \in StrictSubsetOrdering(1 .. n))
    <2>1. IsWellFoundedOn(StrictSubsetOrdering(1 .. n), FiniteSubsetsOf(1 .. n))
      BY FS_StrictSubsetOrderingWellFounded
    <2>2. PICK x \in Below : \A y \in Below : ~ (<<y, x>> \in StrictSubsetOrdering(1 .. n))
      <3>1. Below # {}
        OBVIOUS
      <3> HIDE DEF Below
      <3> QED BY <1>1, <2>1, <3>1, WFMin
    <2> QED BY <2>2
  <1>3. ASSUME NEW u \in T, u < t PROVE FALSE
    <2>1. 1 .. u \subseteq 1 .. t /\ 1 .. t \subseteq 1 .. n /\ 1 .. u # 1 .. t
      <3>1. t \in 1 .. t /\ t \notin 1 .. u
        BY <1>3
      <3> QED BY <1>3, <3>1
    <2>2. <<1 .. u, 1 .. t>> \in StrictSubsetOrdering(1 .. n)
      BY <2>1 DEF StrictSubsetOrdering
    <2> QED BY <1>2, <2>2
  <1> QED BY <1>3

\* The frontier's prefix exists, and is over handoffs that are decided.
LEMMA PrefixDecided ==
  ASSUME NEW h \in Seq(Handoff)
  PROVE  /\ Prefix(h) \in 0 .. Len(h)
         /\ \A i \in 1 .. Prefix(h) : h[i].state # "queued"
  <1> DEFINE Queued == {i \in 1 .. Len(h) : h[i].state = "queued"}
             IsPrefix(n) == /\ \A i \in 1 .. n : h[i].state # "queued"
                            /\ n = Len(h) \/ h[n + 1].state = "queued"
  <1>1. Len(h) \in Nat
    BY LenProperties
  <1>2. \E n \in 0 .. Len(h) : IsPrefix(n)
    <2>1. CASE Queued = {}
      BY <1>1, <2>1
    <2>2. CASE Queued # {}
      <3>1. PICK t \in Queued : \A u \in Queued : t <= u
        <4> HIDE DEF Queued
        <4>1. Queued \in SUBSET (1 .. Len(h))
          BY DEF Queued
        <4> QED BY <1>1, <2>2, <4>1, LeastElement
      <3>2. t - 1 \in 0 .. Len(h) /\ (t - 1) + 1 = t
        BY <1>1
      <3>3. IsPrefix(t - 1)
        BY <1>1, <3>1, <3>2
      <3> QED BY <3>2, <3>3
    <2> QED BY <2>1, <2>2
  <1>3. Prefix(h) = CHOOSE n \in 0 .. Len(h) : IsPrefix(n)
    BY DEF Prefix
  <1> HIDE DEF IsPrefix
  <1>4. Prefix(h) \in 0 .. Len(h) /\ IsPrefix(Prefix(h))
    BY <1>2, <1>3
  <1> QED BY <1>4 DEF IsPrefix

-----------------------------------------------------------------------------
(* The parts of the state a step leaves sound. *)

\* The receivers' part of the invariant, of any value of their state.
Good(recv) ==
  /\ recv \in [Receivers -> Receiver]
  /\ \A r \in Receivers : Sound(recv[r])
  /\ \A r, q \in Receivers :
       recv[r].token = "current" /\ recv[q].token = "current" => r = q

\* The part of the owner, and of the stream and its frontier.
OwnerGood ==
  /\ lease \in [owner: Receivers \cup {None}, live: BOOLEAN]
  /\ ownership \in [state: {"absent", "released", "held"},
                   owner: Receivers \cup {None}, live: BOOLEAN]
  /\ LeaseAgrees

\* The part of the journal and of the frontier.
FrontierGood ==
  /\ journal \subseteq Positions
  /\ signal \in [Keys -> {"none", "accepted", "quarantined"}]
  /\ handoff \in Seq(Handoff)
  /\ validated \in 0 .. Len(handoff)
  /\ candidates \subseteq Keys
  /\ HandoffsOfJournal
  /\ ValidatedIsDecided

\* The boundaries of the intake and the checkpoint behind them.
BoundaryGood ==
  /\ start \in 0 .. MaxPosition + 1 /\ gap \in BOOLEAN
  /\ checkpoint \in 0 .. MaxPosition
  /\ CheckpointContiguous

\* The broker, whether the connector is on, and the disturbances so far.
OutsideGood ==
  /\ broker \in [first: Positions \cup {MaxPosition + 1}, last: 0 .. MaxPosition]
  /\ enabled \in BOOLEAN
  /\ faults \in 0 .. MaxFaults

LEMMA Parts ==
  /\ StreamInv <=> Good(rcv) /\ OwnerGood /\ FrontierGood /\ BoundaryGood /\ OutsideGood
  /\ StreamInv' <=> /\ Good(rcv)' /\ OwnerGood' /\ FrontierGood' /\ BoundaryGood'
                    /\ OutsideGood'
  BY DEF StreamInv, TypeOK, OneToken, ReceiversSound, Good, OwnerGood, FrontierGood,
     BoundaryGood, OutsideGood, Handoff

LEMMA OwnerKept ==
  ASSUME OwnerGood, UNCHANGED ownerVars
  PROVE  OwnerGood'
  BY DEF OwnerGood, ownerVars, LeaseAgrees

LEMMA FrontierKept ==
  ASSUME FrontierGood, UNCHANGED <<journal, signal, handoff, controllerVars>>
  PROVE  FrontierGood'
  BY DEF FrontierGood, controllerVars, HandoffsOfJournal, ValidatedIsDecided

\* More receipts never uncover the checkpoint.
LEMMA BoundaryKept ==
  ASSUME BoundaryGood, UNCHANGED <<start, gap, checkpoint>>, journal \subseteq journal'
  PROVE  BoundaryGood'
  BY DEF BoundaryGood, CheckpointContiguous

\* One receiver moves, and takes no token that it had not.
LEMMA ReceiverMoves ==
  ASSUME NEW recv, Good(recv), NEW next \in [Receivers -> Receiver], NEW r \in Receivers,
         \A q \in Receivers \ {r} : next[q] = recv[q],
         Sound(next[r]),
         next[r].token = "current" => recv[r].token = "current"
  PROVE  Good(next)
  BY DEF Good

LEMMA Retags ==
  ASSUME NEW recv, Good(recv)
  PROVE  Good(Retagged(recv))
  <1>1. Retagged(recv) \in [Receivers -> Receiver]
    BY DEF Good, Retagged, Receiver
  <1>2. \A r \in Receivers : /\ Retagged(recv)[r].pc = recv[r].pc
                             /\ Retagged(recv)[r].next = recv[r].next
                             /\ Retagged(recv)[r].attempts = recv[r].attempts
                             /\ Retagged(recv)[r].token = recv[r].token
    BY DEF Good, Retagged, Receiver
  <1> QED BY <1>1, <1>2 DEF Good, Sound

LEMMA TokenPasses ==
  ASSUME NEW recv, Good(recv), NEW r \in Receivers
  PROVE  Good(Tokens(recv, r))
  <1>1. Tokens(recv, r) \in [Receivers -> Receiver]
    BY DEF Good, Tokens, Receiver
  <1>2. \A q \in Receivers : /\ Tokens(recv, r)[q].pc = recv[q].pc
                             /\ Tokens(recv, r)[q].next = recv[q].next
                             /\ Tokens(recv, r)[q].attempts = recv[q].attempts
                             /\ Tokens(recv, r)[q].token = "current" => q = r
    BY DEF Good, Tokens, Receiver
  <1> QED BY <1>1, <1>2 DEF Good, Sound

\* A run that ends leaves a receiver without a position, and with attempts or down.
LEMMA EndsSound ==
  ASSUME NEW x \in Receiver, Sound(x), x.pc # "down", NEW cause
  PROVE  /\ Ended(x, cause) \in Receiver
         /\ Sound(Ended(x, cause))
         /\ Ended(x, cause).token = x.token
  <1>1. x.attempts \in 0 .. RetryAttempts /\ x.attempts < RetryAttempts
    BY DEF Receiver, Sound
  <1>2. RetryAttempts \in Nat
    BY StreamAssumption
  <1>3. x.token \in {"none", "current", "old"}
    BY DEF Receiver
  <1>4. 0 \in 0 .. MaxPosition + 1 /\ 0 \in 0 .. MaxPosition
    BY StreamAssumption
  <1> DEFINE used == x.attempts + (IF cause = "retry" THEN 1 ELSE 0)
             stops == cause = "fatal" \/ used >= RetryAttempts
  <1>5. used \in 0 .. RetryAttempts /\ (~stops => used < RetryAttempts)
    BY <1>1, <1>2
  <1> DEFINE end == IF stops THEN "down" ELSE "off"
  <1>6. end \in {"down", "off"} /\ (end # "down" => used < RetryAttempts)
    BY <1>5
  <1>7. Ended(x, cause) =
          [NewReceiver EXCEPT !.pc = end, !.token = x.token, !.attempts = used]
    BY DEF Ended
  <1> HIDE DEF used, stops, end
  <1>8. Ended(x, cause) =
          [pc |-> end, token |-> x.token, tag |-> "none", next |-> 0,
           seen |-> 0, verified |-> FALSE, attempts |-> used]
    BY <1>7 DEF NewReceiver
  <1> QED
    BY <1>3, <1>4, <1>5, <1>6, <1>8 DEF Receiver, Sound, Steps

-----------------------------------------------------------------------------
(* The steps. *)

\* A fresh store, with no receiver running, satisfies the invariant.
THEOREM StreamInit == Init => StreamInv
  <1> SUFFICES ASSUME Init PROVE StreamInv
    OBVIOUS
  <1>1. /\ MaxPosition \in Nat /\ RetryAttempts \in Nat \ {0} /\ MaxFaults \in Nat
    BY StreamAssumption
  <1>2. NewReceiver \in Receiver /\ Sound(NewReceiver) /\ NewReceiver.token = "none"
    BY <1>1 DEF NewReceiver, Receiver, Sound, Steps
  <1>3. Good(rcv)
    BY <1>2 DEF Good, Init
  <1>4. OwnerGood
    BY DEF Init, OwnerGood, LeaseAgrees
  <1>5. FrontierGood
    <2>1. handoff \in Seq(Handoff) /\ Len(handoff) = 0
      BY EmptySeq DEF Init
    <2> QED BY <2>1 DEF Init, FrontierGood, HandoffsOfJournal, ValidatedIsDecided
  <1>6. BoundaryGood
    <2>1. 0 \in 0 .. MaxPosition /\ 0 \in 0 .. MaxPosition + 1
      BY <1>1
    <2> QED BY <2>1 DEF Init, BoundaryGood, CheckpointContiguous
  <1>7. OutsideGood
    <2>1. 1 \in Positions \cup {MaxPosition + 1}
      BY <1>1 DEF Positions
    <2>2. 0 \in 0 .. MaxPosition /\ 0 \in 0 .. MaxFaults
      BY <1>1
    <2> QED BY <2>1, <2>2 DEF Init, OutsideGood
  <1> QED BY <1>3, <1>4, <1>5, <1>6, <1>7, Parts

\* What the broker, policy and time do.
LEMMA OutsideStep ==
  ASSUME StreamInv, Enqueue \/ Trim \/ ChangeConnector \/ Recovered \/ LeaseExpires
  PROVE  StreamInv'
  <1>1. /\ Good(rcv) /\ OwnerGood /\ FrontierGood /\ BoundaryGood /\ OutsideGood
    BY Parts
  <1>2. UNCHANGED streamVars /\ UNCHANGED controllerVars
    BY DEF Enqueue, Trim, ChangeConnector, Recovered, LeaseExpires, streamVars, controllerVars
  <1>3. FrontierGood' /\ BoundaryGood'
    BY <1>1, <1>2, FrontierKept, BoundaryKept DEF streamVars
  <1>4. Good(rcv)'
    <2>1. CASE ChangeConnector
      <3>1. rcv' \in [Receivers -> Receiver]
        BY <1>1, <2>1 DEF ChangeConnector, Good, Receiver
      <3>2. \A r \in Receivers : /\ rcv'[r].pc = rcv[r].pc /\ rcv'[r].next = rcv[r].next
                                 /\ rcv'[r].attempts = rcv[r].attempts
                                 /\ rcv'[r].token = rcv[r].token
        BY <1>1, <2>1 DEF ChangeConnector, Good, Receiver
      <3> QED BY <1>1, <3>1, <3>2 DEF Good, Sound
    <2>2. CASE UNCHANGED rcv
      BY <1>1, <2>2 DEF Good
    <2> QED BY <2>1, <2>2 DEF Enqueue, Trim, Recovered, LeaseExpires
  <1>5. OwnerGood'
    <2>1. CASE LeaseExpires
      BY <1>1, <2>1 DEF LeaseExpires, OwnerGood, LeaseAgrees
    <2>2. CASE UNCHANGED ownerVars
      BY <1>1, <2>2, OwnerKept
    <2> QED BY <2>1, <2>2 DEF Enqueue, Trim, ChangeConnector, Recovered
  <1>6. OutsideGood'
    <2>1. /\ MaxPosition \in Nat /\ MaxFaults \in Nat
      BY StreamAssumption
    <2>2. faults' \in 0 .. MaxFaults
      BY <1>1, <2>1 DEF Enqueue, Trim, ChangeConnector, Recovered, LeaseExpires, Disturbed, OutsideGood
    <2>3. enabled' \in BOOLEAN
      BY <1>1 DEF Enqueue, Trim, ChangeConnector, Recovered, LeaseExpires, OutsideGood
    <2>4. CASE Enqueue
      BY <1>1, <2>1, <2>2, <2>3, <2>4 DEF Enqueue, OutsideGood
    <2>5. CASE Trim
      BY <1>1, <2>1, <2>2, <2>3, <2>5 DEF Trim, OutsideGood, Positions
    <2>6. CASE UNCHANGED broker
      BY <1>1, <2>2, <2>3, <2>6 DEF OutsideGood
    <2> QED BY <2>4, <2>5, <2>6 DEF ChangeConnector, Recovered, LeaseExpires
  <1> QED BY <1>3, <1>4, <1>5, <1>6, Parts

\* One receiver changes its own state and nothing else.
LEMMA ReceiverAlone ==
  ASSUME StreamInv, NEW r \in Receivers, NEW x \in Receiver, Sound(x),
         x.token = "current" => rcv[r].token = "current",
         rcv' = [rcv EXCEPT ![r] = x] \/ rcv' = Retagged([rcv EXCEPT ![r] = x]),
         UNCHANGED <<broker, enabled, ownerVars, streamVars, controllerVars>>,
         faults' = faults \/ Disturbed
  PROVE  StreamInv'
  <1> DEFINE next == [rcv EXCEPT ![r] = x]
  <1>1. Good(rcv) /\ OwnerGood /\ FrontierGood /\ BoundaryGood /\ OutsideGood
    BY Parts
  <1>2. Good(next)
    <2>1. next \in [Receivers -> Receiver] /\ next[r] = x
      BY <1>1 DEF Good
    <2>2. \A q \in Receivers \ {r} : next[q] = rcv[q]
      BY <1>1 DEF Good
    <2> HIDE DEF next
    <2> QED BY <1>1, <2>1, <2>2, ReceiverMoves
  <1>3. Good(rcv)'
    <2>1. Good(Retagged(next))
      <3> HIDE DEF next
      <3> QED BY <1>2, Retags
    <2> QED BY <1>2, <2>1 DEF Good
  <1>4. OwnerGood' /\ FrontierGood' /\ BoundaryGood'
    BY <1>1, OwnerKept, FrontierKept, BoundaryKept DEF streamVars
  <1>5. OutsideGood'
    BY <1>1, StreamAssumption DEF OutsideGood, Disturbed
  <1> QED BY <1>3, <1>4, <1>5, Parts

\* A run of the receiver ends, for whatever reason.
LEMMA EndStep ==
  ASSUME StreamInv, NEW r \in Receivers,
         \/ Fault(r) \/ Disabled(r) \/ LeaseLost(r) \/ Unverified(r) \/ RecordRefused(r)
         \/ RestoredIntakeRefused(r) \/ AdvanceRefused(r)
  PROVE  StreamInv'
  <1>1. rcv[r] \in Receiver /\ Sound(rcv[r])
    BY DEF StreamInv, TypeOK, ReceiversSound
  <1>2. rcv[r].pc # "down"
    BY DEF Fault, Running, Disabled, LeaseLost, Unverified, RecordRefused, RestoredIntakeRefused,
       AdvanceRefused, At
  <1>3. PICK cause \in {"contract", "retry"} : rcv' = [rcv EXCEPT ![r] = Ended(rcv[r], cause)]
    BY DEF StreamInv, TypeOK, Fault, Disabled, LeaseLost, Unverified, RecordRefused, RestoredIntakeRefused,
       AdvanceRefused, EndRun
  <1>4. /\ UNCHANGED <<broker, enabled, ownerVars, streamVars, controllerVars>>
        /\ faults' = faults \/ Disturbed
    BY DEF Fault, Disabled, LeaseLost, Unverified, RecordRefused, RestoredIntakeRefused,
       AdvanceRefused, EndRun
  <1> QED BY <1>1, <1>2, <1>3, <1>4, EndsSound, ReceiverAlone

\* From one event to the next.
LEMMA NextSound ==
  ASSUME NEW x \in Receiver, Sound(x), x.pc \in {"read", "advance"}
  PROVE  NextEvent(x) \in Receiver /\ Sound(NextEvent(x)) /\ NextEvent(x).token = x.token
  <1>1. x.next \in Positions /\ MaxPosition \in Nat
    BY StreamAssumption DEF Sound
  <1>2. x.next + 1 \in 0 .. MaxPosition + 1
    BY <1>1 DEF Positions
  <1>3. NextEvent(x) = [x EXCEPT !.pc = "ready", !.next = x.next + 1]
    BY DEF NextEvent
  <1> QED BY <1>2, <1>3 DEF Receiver, Sound, Steps

\* What the SDK and the worker do without writing to the store.
LEMMA BalanceStep ==
  ASSUME StreamInv, NEW r \in Receivers, Boot(r) \/ ListOwnership(r) \/ ClaimLost(r)
  PROVE  StreamInv'
  <1>1. rcv[r] \in Receiver /\ Sound(rcv[r]) /\ rcv \in [Receivers -> Receiver]
    BY DEF StreamInv, TypeOK, ReceiversSound
  <1>2. CASE Boot(r)
    <2>1. NewReceiver \in Receiver /\ Sound(NewReceiver) /\ NewReceiver.token # "current"
      BY StreamAssumption DEF NewReceiver, Receiver, Sound, Steps
    <2> QED BY <1>2, <2>1, ReceiverAlone DEF Boot
  <1>3. CASE ListOwnership(r)
    <2> DEFINE x == [rcv[r] EXCEPT !.tag = "current"]
    <2>1. x \in Receiver /\ Sound(x) /\ x.token = rcv[r].token
      BY <1>1 DEF Receiver, Sound
    <2>2. rcv' = [rcv EXCEPT ![r] = x]
      BY <1>3 DEF ListOwnership
    <2> HIDE DEF x
    <2> QED BY <1>3, <2>1, <2>2, ReceiverAlone DEF ListOwnership
  <1>4. CASE ClaimLost(r)
    <2> DEFINE x == [rcv[r] EXCEPT !.tag = "none", !.token = "none"]
    <2>1. x \in Receiver /\ Sound(x) /\ x.token = "none"
      BY <1>1 DEF Receiver, Sound
    <2>2. rcv' = [rcv EXCEPT ![r] = x]
      BY <1>1, <1>4 DEF ClaimLost
    <2> HIDE DEF x
    <2> QED BY <1>4, <2>1, <2>2, ReceiverAlone DEF ClaimLost
  <1> QED BY <1>2, <1>3, <1>4

\* A receiver takes its next position, renews its lease, or looks something up.
LEMMA WorkStep ==
  ASSUME StreamInv, NEW r \in Receivers,
         \/ ListCheckpoints(r) \/ Deliver(r) \/ RenewForIntake(r) \/ LookupAcceptance(r)
         \/ RenewForCheckpoint(r) \/ ReadCheckpoint(r)
  PROVE  StreamInv'
  <1>1. rcv[r] \in Receiver /\ Sound(rcv[r]) /\ rcv \in [Receivers -> Receiver]
    BY DEF StreamInv, TypeOK, ReceiversSound
  <1>2. /\ broker.first \in Positions \cup {MaxPosition + 1} /\ broker.last \in 0 .. MaxPosition
        /\ checkpoint \in 0 .. MaxPosition /\ MaxPosition \in Nat
    BY StreamAssumption DEF StreamInv, TypeOK
  <1>3. CASE ListCheckpoints(r)
    <2> DEFINE n == IF checkpoint = 0 THEN broker.first ELSE checkpoint + 1
               x == [rcv[r] EXCEPT !.pc = "init", !.next = n]
    <2>1. n \in 0 .. MaxPosition + 1
      BY <1>2 DEF Positions
    <2>2. rcv' = [rcv EXCEPT ![r] = x]
      BY <1>1, <1>3 DEF ListCheckpoints
    <2> HIDE DEF n
    <2>3. x \in Receiver /\ Sound(x) /\ x.token = rcv[r].token
      BY <1>1, <1>3, <2>1 DEF Receiver, Sound, Steps, ListCheckpoints, At
    <2> HIDE DEF x
    <2> QED BY <1>3, <2>2, <2>3, ReceiverAlone DEF ListCheckpoints
  <1>4. CASE Deliver(r)
    <2> DEFINE s == IF Current(r) < broker.first THEN broker.first ELSE Current(r)
               x == [rcv[r] EXCEPT !.pc = "renew", !.next = s, !.verified = TRUE, !.seen = 0]
    <2>1. s \in Positions /\ s \in 0 .. MaxPosition + 1
      BY <1>1, <1>2, <1>4 DEF Deliver, Current, Positions, Receiver
    <2>2. rcv' = [rcv EXCEPT ![r] = x]
      BY <1>1, <1>4 DEF Deliver
    <2> HIDE DEF s
    <2>3. 0 \in 0 .. MaxPosition
      BY <1>2
    <2>4. x \in Receiver /\ Sound(x) /\ x.token = rcv[r].token
      BY <1>1, <1>4, <2>1, <2>3 DEF Receiver, Sound, Steps, Deliver, At
    <2> HIDE DEF x
    <2> QED BY <1>4, <2>2, <2>4, ReceiverAlone DEF Deliver
  <1>5. CASE LookupAcceptance(r)
    <2> DEFINE pc == IF Current(r) \in journal THEN "renew2" ELSE "record"
               x == [rcv[r] EXCEPT !.pc = pc]
    <2>1. pc \in {"renew2", "record"}
      OBVIOUS
    <2>2. rcv' = [rcv EXCEPT ![r] = x]
      BY <1>1, <1>5 DEF LookupAcceptance, Goto
    <2> HIDE DEF pc
    <2>3. x \in Receiver /\ Sound(x) /\ x.token = rcv[r].token
      BY <1>1, <1>5, <2>1 DEF Receiver, Sound, Steps, LookupAcceptance, At
    <2> HIDE DEF x
    <2> QED BY <1>5, <2>2, <2>3, ReceiverAlone DEF LookupAcceptance
  <1>6. CASE RenewForCheckpoint(r)
    <2> DEFINE x == [rcv[r] EXCEPT !.pc = "read"]
    <2>1. rcv' = Retagged([rcv EXCEPT ![r] = x])
      BY <1>1, <1>6 DEF RenewForCheckpoint, Renew
    <2>2. x \in Receiver /\ Sound(x) /\ x.token = rcv[r].token
      BY <1>1, <1>6 DEF Receiver, Sound, Steps, RenewForCheckpoint, At
    <2> HIDE DEF x
    <2> QED BY <1>6, <2>1, <2>2, ReceiverAlone DEF RenewForCheckpoint, Renew
  <1>7. CASE RenewForIntake(r)
    <2> DEFINE x == [rcv[r] EXCEPT !.pc = "lookup"]
    <2>1. /\ UNCHANGED <<broker, enabled, ownerVars, streamVars, controllerVars, faults>>
          /\ \/ rcv' = Retagged([rcv EXCEPT ![r] = x])
             \/ rcv' = Retagged([rcv EXCEPT ![r] = Ended(rcv[r], "fatal")])
      BY <1>1, <1>7 DEF RenewForIntake, Renew
    <2>2. x \in Receiver /\ Sound(x) /\ x.token = rcv[r].token
      BY <1>1, <1>7 DEF Receiver, Sound, Steps, RenewForIntake, At
    <2>3. rcv[r].pc # "down"
      BY <1>7 DEF RenewForIntake, At
    <2> HIDE DEF x
    <2> QED BY <1>1, <2>1, <2>2, <2>3, EndsSound, ReceiverAlone
  <1>8. CASE ReadCheckpoint(r)
    <2> DEFINE x == [rcv[r] EXCEPT !.pc = "advance", !.seen = checkpoint]
    <2>1. /\ UNCHANGED <<broker, enabled, ownerVars, streamVars, controllerVars, faults>>
          /\ \/ rcv' = [rcv EXCEPT ![r] = x]
             \/ rcv' = [rcv EXCEPT ![r] = NextEvent(rcv[r])]
             \/ rcv' = [rcv EXCEPT ![r] = Ended(rcv[r], "fatal")]
      BY <1>1, <1>8 DEF ReadCheckpoint
    <2>2. x \in Receiver /\ Sound(x) /\ x.token = rcv[r].token
      BY <1>1, <1>2, <1>8 DEF Receiver, Sound, Steps, ReadCheckpoint, At
    <2>3. rcv[r].pc # "down"
      BY <1>8 DEF ReadCheckpoint, At
    <2>4. NextEvent(rcv[r]) \in Receiver /\ Sound(NextEvent(rcv[r]))
            /\ NextEvent(rcv[r]).token = rcv[r].token
      BY <1>1, <1>8, NextSound DEF ReadCheckpoint, At
    <2> HIDE DEF x
    <2> QED BY <1>1, <2>1, <2>2, <2>3, <2>4, EndsSound, ReceiverAlone
  <1> QED BY <1>3, <1>4, <1>5, <1>6, <1>7, <1>8

\* A new client, a claim and a release change hands and tokens together.
LEMMA OwnershipStep ==
  ASSUME StreamInv, NEW r \in Receivers, Connect(r) \/ ClaimOwnership(r) \/ ReleaseOwnership(r)
  PROVE  StreamInv'
  <1>1. /\ Good(rcv) /\ OwnerGood /\ FrontierGood /\ BoundaryGood /\ OutsideGood
        /\ rcv \in [Receivers -> Receiver] /\ rcv[r] \in Receiver /\ Sound(rcv[r])
    BY Parts DEF Good
  <1>2. /\ UNCHANGED <<broker, enabled, streamVars, controllerVars>>
        /\ faults' = faults \/ Disturbed
    BY DEF Connect, ClaimOwnership, ReleaseOwnership
  <1>3. FrontierGood' /\ BoundaryGood' /\ OutsideGood'
    BY <1>1, <1>2, FrontierKept, BoundaryKept, StreamAssumption DEF streamVars, OutsideGood, Disturbed
  <1>4. OwnerGood'
    <2>1. CASE Connect(r)
      BY <1>1, <2>1 DEF Connect, Disowned, OwnerGood, LeaseAgrees
    <2>2. CASE ClaimOwnership(r)
      BY <2>2 DEF ClaimOwnership, ClaimPartition, WriteOwnership, SaveOwnership, OwnerGood, LeaseAgrees
    <2>3. CASE ReleaseOwnership(r)
      BY <1>1, <2>3 DEF ReleaseOwnership, ReleasePartition, WriteOwnership, SaveOwnership, OwnerGood,
         LeaseAgrees
    <2> QED BY <2>1, <2>2, <2>3
  <1>5. CASE Connect(r)
    <2> DEFINE x == [rcv[r] EXCEPT !.pc = "open", !.verified = TRUE]
    <2>1. rcv' = [rcv EXCEPT ![r] = x]
      BY <1>1, <1>5 DEF Connect
    <2>2. x \in Receiver /\ Sound(x) /\ x.token = rcv[r].token
      BY <1>1, <1>5 DEF Connect, At, Receiver, Sound, Steps
    <2> HIDE DEF x
    <2>3. Good(rcv)'
      BY <1>1, <2>1, <2>2, ReceiverMoves DEF Good
    <2> QED BY <1>3, <1>4, <2>3, Parts
  <1>6. CASE ClaimOwnership(r)
    <2> DEFINE x == Claimed(rcv[r])
               recv == [rcv EXCEPT ![r] = x]
    <2>1. x \in Receiver /\ Sound(x) /\ x.token = rcv[r].token
      BY <1>1 DEF Claimed, Receiver, Sound, Steps
    <2> HIDE DEF x
    <2>2. Good(recv)
      BY <1>1, <2>1, ReceiverMoves DEF Good
    <2>3. rcv' = Retagged(recv) \/ rcv' = Retagged(Tokens(recv, r))
      BY <1>6 DEF ClaimOwnership, ClaimPartition, x
    <2> HIDE DEF recv
    <2>4. Good(Retagged(recv)) /\ Good(Retagged(Tokens(recv, r)))
      BY <2>2, TokenPasses, Retags
    <2>5. Good(rcv)'
      BY <2>3, <2>4 DEF Good
    <2> QED BY <1>3, <1>4, <2>5, Parts
  <1>7. CASE ReleaseOwnership(r)
    <2> DEFINE x == [Ended(rcv[r], "contract") EXCEPT !.token = "none"]
               recv == [rcv EXCEPT ![r] = x]
               free == [recv EXCEPT ![r].token = "none"]
    <2>1. rcv[r].pc # "down"
      BY <1>7 DEF ReleaseOwnership, Running
    <2>2. x \in Receiver /\ Sound(x) /\ x.token = "none"
      BY <1>1, <2>1, EndsSound DEF Receiver, Sound
    <2>3. rcv' = Retagged(free)
      BY <1>7 DEF ReleaseOwnership, ReleasePartition
    <2> HIDE DEF x
    <2>4. free = recv
      BY <1>1, <2>2 DEF Receiver
    <2>5. Good(recv)
      BY <1>1, <2>2, ReceiverMoves DEF Good
    <2> HIDE DEF recv, free
    <2>6. Good(rcv)'
      BY <2>3, <2>4, <2>5, Retags DEF Good
    <2> QED BY <1>3, <1>4, <2>6, Parts
  <1> QED BY <1>5, <1>6, <1>7

\* The first boundary is pinned, or a gap ends the run.
LEMMA InitializeStep ==
  ASSUME StreamInv, NEW r \in Receivers, Initialize(r)
  PROVE  StreamInv'
  <1>1. /\ Good(rcv) /\ OwnerGood /\ FrontierGood /\ BoundaryGood /\ OutsideGood
        /\ rcv \in [Receivers -> Receiver] /\ rcv[r] \in Receiver /\ Sound(rcv[r])
    BY Parts DEF Good
  <1>2. UNCHANGED <<broker, enabled, ownerVars, checkpoint, journal, signal, handoff,
                    controllerVars, faults>>
    BY DEF Initialize, Renew
  <1>3. OwnerGood' /\ FrontierGood' /\ OutsideGood'
    BY <1>1, <1>2, OwnerKept, FrontierKept DEF OutsideGood
  <1>4. BoundaryGood'
    <2>1. start' = start \/ (start = 0 /\ start' = broker.first)
      BY DEF Initialize, PinStart
    <2>2. gap' \in BOOLEAN
      BY DEF Initialize
    <2>3. start' \in 0 .. MaxPosition + 1
      BY <1>1, <2>1, StreamAssumption DEF BoundaryGood, OutsideGood, Positions
    <2>4. start = 0 => checkpoint = 0
      BY <1>1 DEF BoundaryGood, CheckpointContiguous, FrontierGood, Positions
    <2> QED BY <1>1, <1>2, <2>1, <2>2, <2>3, <2>4 DEF BoundaryGood, CheckpointContiguous
  <1>5. Good(rcv)'
    <2> DEFINE x == IF start # 0 /\ broker.first > Expected
                    THEN Ended(rcv[r], "fatal") ELSE [rcv[r] EXCEPT !.pc = "ready"]
               recv == [rcv EXCEPT ![r] = x]
    <2>1. rcv[r].pc = "init"
      BY DEF Initialize, At
    <2>2. [rcv[r] EXCEPT !.pc = "ready"] \in Receiver /\ Sound([rcv[r] EXCEPT !.pc = "ready"])
      BY <1>1, <2>1 DEF Receiver, Sound, Steps
    <2>3. x \in Receiver /\ Sound(x) /\ x.token = rcv[r].token
      BY <1>1, <2>1, <2>2, EndsSound
    <2>4. rcv' = Retagged(recv)
      BY DEF Initialize, Renew
    <2> HIDE DEF x
    <2>5. Good(recv)
      BY <1>1, <2>3, ReceiverMoves DEF Good
    <2> HIDE DEF recv
    <2> QED BY <2>4, <2>5, Retags DEF Good
  <1> QED BY <1>3, <1>4, <1>5, Parts

\* A receipt, its signal and its handoff are written together.
LEMMA RecordStep ==
  ASSUME StreamInv, NEW r \in Receivers, RecordReceipt(r)
  PROVE  StreamInv'
  <1> DEFINE s == Current(r)
  <1>1. /\ Good(rcv) /\ OwnerGood /\ FrontierGood /\ BoundaryGood /\ OutsideGood
        /\ rcv \in [Receivers -> Receiver] /\ rcv[r] \in Receiver /\ Sound(rcv[r])
    BY Parts DEF Good
  <1>2. /\ s \in Positions /\ s \notin journal
        /\ rcv' = [rcv EXCEPT ![r].pc = "renew2"]
        /\ UNCHANGED <<broker, enabled, ownerVars, start, gap, checkpoint, controllerVars, faults>>
    BY <1>1 DEF RecordReceipt, At, Sound, Current, Goto
  <1>3. PICK disposition \in {"accepted", "quarantined"} : CommitPosition(s, disposition)
    BY DEF RecordReceipt, Dispositions, Admission, Parsed
  <1> HIDE DEF s
  <1>4. /\ journal' = journal \cup {s}
        /\ handoff' = Append(handoff, [position |-> s, state |-> "queued"])
        /\ signal' \in [Keys -> {"none", "accepted", "quarantined"}]
    BY <1>1, <1>3 DEF CommitPosition, HandedOver, FrontierGood
  <1>5. OwnerGood' /\ BoundaryGood' /\ OutsideGood'
    BY <1>1, <1>2, <1>4, OwnerKept, BoundaryKept DEF OutsideGood
  <1>6. FrontierGood'
    <2> DEFINE new == [position |-> s, state |-> "queued"]
               n == Len(handoff)
    <2>1. new \in Handoff /\ handoff \in Seq(Handoff) /\ n \in Nat /\ validated \in 0 .. n
      BY <1>1, <1>2, LenProperties DEF Handoff, FrontierGood
    <2>2. /\ handoff' \in Seq(Handoff) /\ Len(handoff') = n + 1 /\ handoff'[n + 1] = new
          /\ \A i \in 1 .. n : handoff'[i] = handoff[i]
      BY <1>4, <2>1, AppendProperties
    <2>3. /\ journal = {handoff[i].position : i \in 1 .. n}
          /\ \A i, j \in 1 .. n : handoff[i].position = handoff[j].position => i = j
      BY <1>1 DEF FrontierGood, HandoffsOfJournal
    <2>4. HandoffsOfJournal'
      <3>1. journal' = {handoff'[i].position : i \in 1 .. n + 1}
        BY <1>4, <2>1, <2>2, <2>3
      <3>2. ASSUME NEW i \in 1 .. n + 1, NEW j \in 1 .. n + 1,
                   handoff'[i].position = handoff'[j].position
            PROVE  i = j
        BY <1>2, <2>1, <2>2, <2>3, <3>2
      <3> QED BY <2>2, <3>1, <3>2 DEF HandoffsOfJournal
    <2>5. ValidatedIsDecided'
      BY <1>1, <1>2, <2>1, <2>2 DEF FrontierGood, ValidatedIsDecided, controllerVars
    <2>6. validated' \in 0 .. Len(handoff') /\ candidates' \subseteq Keys
      BY <1>1, <1>2, <2>1, <2>2 DEF FrontierGood, controllerVars
    <2>7. journal' \subseteq Positions
      BY <1>1, <1>2, <1>4 DEF FrontierGood
    <2> QED BY <1>4, <2>2, <2>4, <2>5, <2>6, <2>7 DEF FrontierGood
  <1>7. Good(rcv)'
    <2> DEFINE x == [rcv[r] EXCEPT !.pc = "renew2"]
    <2>1. rcv' = [rcv EXCEPT ![r] = x]
      BY <1>1, <1>2
    <2>2. rcv[r].pc = "record"
      BY DEF RecordReceipt, At
    <2>3. x \in Receiver /\ Sound(x) /\ x.token = rcv[r].token
      BY <1>1, <2>2 DEF Receiver, Sound, Steps
    <2> HIDE DEF x
    <2> QED BY <1>1, <2>1, <2>3, ReceiverMoves DEF Good
  <1> QED BY <1>5, <1>6, <1>7, Parts

\* The checkpoint moves over positions that are all recorded.
LEMMA AdvanceStep ==
  ASSUME StreamInv, NEW r \in Receivers, AdvanceCheckpoint(r)
  PROVE  StreamInv' /\ checkpoint' >= checkpoint
  <1>1. /\ Good(rcv) /\ OwnerGood /\ FrontierGood /\ BoundaryGood /\ OutsideGood
        /\ rcv \in [Receivers -> Receiver] /\ rcv[r] \in Receiver /\ Sound(rcv[r])
    BY Parts DEF Good
  <1>2. /\ Current(r) \in Positions /\ checkpoint' = Current(r) /\ Committed(Current(r))
        /\ rcv' = [rcv EXCEPT ![r] = NextEvent(rcv[r])]
        /\ UNCHANGED <<broker, enabled, ownerVars, start, gap, journal, signal, handoff,
                       controllerVars, faults>>
    BY <1>1 DEF AdvanceCheckpoint, At, Sound, Current
  <1>3. OwnerGood' /\ FrontierGood' /\ OutsideGood'
    BY <1>1, <1>2, OwnerKept, FrontierKept DEF OutsideGood
  <1>4. BoundaryGood' /\ checkpoint' >= checkpoint
    <2>1. /\ start \in 0 .. MaxPosition + 1 /\ checkpoint \in 0 .. MaxPosition
          /\ MaxPosition \in Nat /\ checkpoint' \in 1 .. MaxPosition
      BY <1>1, <1>2, StreamAssumption DEF BoundaryGood, Positions
    <2>2. checkpoint' >= Expected /\ Expected .. checkpoint' \subseteq journal
      BY <1>2 DEF Committed
    <2>3. start .. checkpoint' \subseteq journal
      BY <1>1, <2>1, <2>2 DEF Expected, BoundaryGood, CheckpointContiguous
    <2> QED BY <1>1, <1>2, <2>1, <2>2, <2>3 DEF Expected, BoundaryGood, CheckpointContiguous
  <1>5. Good(rcv)'
    <2>1. rcv[r].pc = "advance"
      BY DEF AdvanceCheckpoint, At
    <2>2. /\ NextEvent(rcv[r]) \in Receiver /\ Sound(NextEvent(rcv[r]))
          /\ NextEvent(rcv[r]).token = rcv[r].token
      BY <1>1, <2>1, NextSound
    <2> QED BY <1>1, <1>2, <2>2, ReceiverMoves DEF Good
  <1> QED BY <1>3, <1>4, <1>5, Parts

\* The controller decides a handoff, and the frontier moves to the prefix.
LEMMA ReconcileStep ==
  ASSUME StreamInv, NEW i \in 1 .. Len(handoff), Reconcile(i)
  PROVE  StreamInv'
  <1>1. /\ Good(rcv) /\ OwnerGood /\ FrontierGood /\ BoundaryGood /\ OutsideGood
    BY Parts
  <1>2. PICK state \in {"published", "rejected"} : handoff' = [handoff EXCEPT ![i].state = state]
    BY DEF Reconcile
  <1>3. /\ UNCHANGED <<broker, enabled, ownerVars, start, gap, checkpoint, journal, signal, rcv, faults>>
        /\ validated' = Prefix(handoff')
    BY DEF Reconcile
  <1>4. Good(rcv)' /\ OwnerGood' /\ BoundaryGood' /\ OutsideGood'
    BY <1>1, <1>3, OwnerKept, BoundaryKept DEF OutsideGood, Good
  <1>5. /\ handoff \in Seq(Handoff) /\ Len(handoff) \in Nat /\ handoff[i] \in Handoff
    BY <1>1, LenProperties, ElementOfSeq DEF FrontierGood
  <1> DEFINE e == [handoff[i] EXCEPT !.state = state]
  <1>6. e \in Handoff /\ e.position = handoff[i].position /\ handoff' = [handoff EXCEPT ![i] = e]
    BY <1>2, <1>5 DEF Handoff
  <1> HIDE DEF e
  <1>7. /\ handoff' \in Seq(Handoff) /\ Len(handoff') = Len(handoff)
        /\ \A j \in 1 .. Len(handoff) : handoff'[j].position = handoff[j].position
    BY <1>5, <1>6, ExceptSeq
  <1>8. HandoffsOfJournal'
    <2>1. /\ journal = {handoff[j].position : j \in 1 .. Len(handoff)}
          /\ \A j, k \in 1 .. Len(handoff) : handoff[j].position = handoff[k].position => j = k
      BY <1>1 DEF FrontierGood, HandoffsOfJournal
    <2>2. {handoff'[j].position : j \in 1 .. Len(handoff')} = {handoff[j].position : j \in 1 .. Len(handoff)}
      BY <1>7
    <2>3. ASSUME NEW j \in 1 .. Len(handoff'), NEW k \in 1 .. Len(handoff'),
                 handoff'[j].position = handoff'[k].position
          PROVE  j = k
      BY <1>7, <2>1, <2>3
    <2>4. journal' = journal
      BY <1>3
    <2> QED BY <2>1, <2>2, <2>3, <2>4 DEF HandoffsOfJournal
  <1>9. validated' \in 0 .. Len(handoff') /\ ValidatedIsDecided'
    BY <1>3, <1>7, PrefixDecided DEF ValidatedIsDecided
  <1>10. candidates' \subseteq Keys
    <2>1. handoff[i].position \in Positions
      BY <1>5 DEF Handoff
    <2>2. Envelope[handoff[i].position].key \in Keys
      BY <2>1, StreamAssumption
    <2> QED BY <1>1, <2>2 DEF Reconcile, FrontierGood
  <1>11. FrontierGood'
    BY <1>1, <1>3, <1>7, <1>8, <1>9, <1>10 DEF FrontierGood
  <1> QED BY <1>4, <1>11, Parts

\* No step of a receiver, of the controller or of the environment breaks it.
THEOREM StreamStep ==
  ASSUME StreamInv, [Next]_vars
  PROVE  StreamInv'
  <1>1. CASE UNCHANGED vars
    <2>1. Good(rcv) /\ OwnerGood /\ FrontierGood /\ BoundaryGood /\ OutsideGood
      BY Parts
    <2>2. Good(rcv)' /\ OutsideGood'
      BY <1>1, <2>1 DEF vars, Good, OutsideGood
    <2>3. OwnerGood' /\ FrontierGood' /\ BoundaryGood'
      BY <1>1, <2>1, OwnerKept, FrontierKept, BoundaryKept DEF vars, streamVars
    <2> QED BY <2>2, <2>3, Parts
  <1>2. CASE Environment
    BY <1>2, OutsideStep, EndStep, BalanceStep, OwnershipStep DEF Environment
  <1>3. ASSUME NEW r \in Receivers, Balance(r) \/ Receive(r) PROVE StreamInv'
    BY <1>3, EndStep, BalanceStep, WorkStep, OwnershipStep, InitializeStep, RecordStep, AdvanceStep
       DEF Balance, Receive
  <1>4. ASSUME NEW i \in 1 .. Len(handoff), Reconcile(i) PROVE StreamInv'
    BY <1>4, ReconcileStep
  <1> QED BY <1>1, <1>2, <1>3, <1>4 DEF Next

-----------------------------------------------------------------------------
(* The theorems. *)

\* Handoffs that are the journal without repetition are one for each receipt.
LEMMA JournalCounted ==
  ASSUME handoff \in Seq(Handoff), HandoffsOfJournal
  PROVE  HandedOverOnce
  <1> SUFFICES ASSUME NEW s \in Positions
               PROVE  Cardinality({i \in 1 .. Len(handoff) : handoff[i].position = s}) =
                        IF s \in journal THEN 1 ELSE 0
    BY DEF HandedOverOnce
  <1> DEFINE Of == {i \in 1 .. Len(handoff) : handoff[i].position = s}
  <1>1. CASE s \in journal
    <2>1. PICK i \in 1 .. Len(handoff) : handoff[i].position = s
      BY <1>1 DEF HandoffsOfJournal
    <2>2. Of = {i}
      BY <2>1 DEF HandoffsOfJournal
    <2> QED BY <1>1, <2>2, FS_Singleton
  <1>2. CASE s \notin journal
    <2>1. Of = {}
      BY <1>2 DEF HandoffsOfJournal
    <2> QED BY <1>2, <2>1, FS_EmptySet
  <1> QED BY <1>1, <1>2

LEMMA StreamInvSafe == StreamInv => StreamSafe
  <1> SUFFICES ASSUME StreamInv PROVE StreamSafe
    OBVIOUS
  <1>1. OneOwner
    BY DEF StreamInv, OneToken, OneOwner, OwnedPartition
  <1>2. HandedOverOnce
    BY JournalCounted DEF StreamInv, TypeOK, Handoff
  <1> QED BY <1>1, <1>2 DEF StreamInv, StreamSafe

\* So it holds of every state of the receivers of a partition.
THEOREM StreamInvariant == Spec => []StreamInv
  BY StreamInit, StreamStep, PTL DEF Spec

\* However often the partition changes hands: one owner writes, the checkpoint
\* passes only what is recorded, every receipt is handed over once, and the
\* frontier validates only what is decided (record_stream_receipts,
\* update_checkpoint, reconcile_state).
THEOREM StreamIsSafe == Spec => []StreamSafe
  BY StreamInvariant, StreamInvSafe, PTL

\* No step takes a boundary back, and only the owner of the partition moves the
\* checkpoint (initialize_partition, update_checkpoint).
THEOREM BoundariesNeverShrink == Spec => BoundariesOnlyGrow
  <1> DEFINE Grow == /\ start # 0 => start' = start
                     /\ gap => gap'
                     /\ checkpoint' >= checkpoint
                     /\ checkpoint' # checkpoint => \E r \in Receivers : OwnedPartition(r)
  <1>1. ASSUME StreamInv, [Next]_vars PROVE [Grow]_vars
    <2>1. checkpoint \in 0 .. MaxPosition
      BY <1>1 DEF StreamInv, TypeOK
    <2>2. CASE UNCHANGED <<start, gap, checkpoint>>
      BY <2>1, <2>2
    <2>3. ASSUME NEW r \in Receivers, Initialize(r) PROVE Grow
      <3>1. gap' = (gap \/ (start # 0 /\ broker.first > Expected))
        BY <2>3 DEF Initialize
      <3>2. gap => gap'
        BY <3>1, Zenon
      <3>3. checkpoint' = checkpoint /\ (start # 0 => start' = start)
        BY <2>3 DEF Initialize, PinStart
      <3> QED BY <2>1, <3>2, <3>3
    <2>4. ASSUME NEW r \in Receivers, AdvanceCheckpoint(r) PROVE Grow
      BY <1>1, <2>4, AdvanceStep DEF AdvanceCheckpoint
    <2>5. ASSUME NEW r \in Receivers, Balance(r) \/ Receive(r)
          PROVE  Initialize(r) \/ AdvanceCheckpoint(r) \/ UNCHANGED <<start, gap, checkpoint>>
      BY <2>5 DEF Balance, Receive, ListOwnership, ClaimOwnership, Boot, Connect, Disabled, LeaseLost,
         ListCheckpoints, Deliver, RenewForIntake, Renew, Unverified, LookupAcceptance, RecordReceipt,
         RecordRefused, RenewForCheckpoint, ReadCheckpoint, AdvanceRefused, EndRun, streamVars
    <2>6. CASE Environment
      BY <2>2, <2>6 DEF Environment, Enqueue, Trim, ChangeConnector, Recovered, LeaseExpires, Fault,
         ClaimLost, ReleaseOwnership, RestoredIntakeRefused, streamVars
    <2>7. ASSUME NEW i \in 1 .. Len(handoff), Reconcile(i) PROVE UNCHANGED <<start, gap, checkpoint>>
      BY <2>7 DEF Reconcile
    <2>8. CASE UNCHANGED vars
      BY <2>8
    <2> QED BY <1>1, <2>2, <2>3, <2>4, <2>5, <2>6, <2>7, <2>8 DEF Next
  <1>2. BoundariesOnlyGrow <=> [][Grow]_vars
    BY DEF BoundariesOnlyGrow
  <1> HIDE DEF Grow
  <1> QED BY <1>1, <1>2, StreamInvariant, PTL DEF Spec

-----------------------------------------------------------------------------
(* The polling windows: the least and the greatest of a set, and listings. *)

LEMMA WindowsFinite ==
  /\ \A S : Windows!IsFiniteSet(S) <=> IsFiniteSet(S)
  /\ \A S : Windows!Cardinality(S) = Cardinality(S)
  <1>1. \A S : Windows!IsFiniteSet(S) <=> IsFiniteSet(S)
    BY DEF Windows!IsFiniteSet, IsFiniteSet
  <1>2. \A S : Windows!Cardinality(S) = Cardinality(S)
    BY <1>1 DEF Windows!Cardinality, Cardinality
  <1> QED BY <1>1, <1>2

LEMMA LeastIsMin ==
  ASSUME NEW n \in Nat, NEW T \in SUBSET (0 .. n), T # {}
  PROVE  Windows!Min(T) \in T /\ \A u \in T : Windows!Min(T) <= u
  <1> DEFINE U == {t + 1 : t \in T}
  <1>1. U \in SUBSET (1 .. n + 1) /\ U # {}
    <2>1. \A t \in T : t + 1 \in 1 .. n + 1
      OBVIOUS
    <2> QED BY <2>1
  <1>2. PICK m \in U : \A u \in U : m <= u
    <2>1. n + 1 \in Nat
      OBVIOUS
    <2> HIDE DEF U
    <2> QED BY <1>1, <2>1, LeastElement
  <1>3. m - 1 \in T /\ \A u \in T : m - 1 <= u
    <2>1. PICK t \in T : m = t + 1
      BY <1>2
    <2>2. m - 1 = t
      BY <2>1
    <2>3. ASSUME NEW u \in T PROVE t <= u
      <3>1. u + 1 \in U
        BY <2>3
      <3>2. m <= u + 1
        BY <1>2, <3>1
      <3> QED BY <2>1, <3>2
    <2> QED BY <2>2, <2>3
  <1> QED BY <1>3 DEF Windows!Min

LEMMA GreatestIsMax ==
  ASSUME NEW n \in Nat, NEW T \in SUBSET (0 .. n), T # {}
  PROVE  Windows!Max(T) \in T /\ \A u \in T : Windows!Max(T) >= u
  <1> DEFINE U == {n - t : t \in T}
  <1>1. U \in SUBSET (0 .. n) /\ U # {}
    <2>1. \A t \in T : n - t \in 0 .. n
      OBVIOUS
    <2> QED BY <2>1
  <1>2. Windows!Min(U) \in U /\ \A u \in U : Windows!Min(U) <= u
    <2> HIDE DEF U
    <2> QED BY <1>1, LeastIsMin
  <1> DEFINE m == Windows!Min(U)
  <1>3. PICK t \in T : m = n - t
    BY <1>2
  <1>4. ASSUME NEW u \in T PROVE t >= u
    <2>1. n - u \in U
      BY <1>4
    <2>2. m <= n - u
      BY <1>2, <2>1
    <2> HIDE DEF m
    <2> QED BY <1>3, <2>2
  <1> QED BY <1>4 DEF Windows!Max

\* The newest n of a set are all of it, or at least n and newer than the others.
LEMMA NewestOf ==
  ASSUME NEW S \in SUBSET (0 .. MaxTime), NEW n \in Nat \ {0}, MaxTime \in Nat
  PROVE  /\ Windows!Newest(n, S) \subseteq S
         /\ S # {} => Windows!Newest(n, S) # {}
         /\ \A r \in S \ Windows!Newest(n, S) :
              /\ Cardinality(Windows!Newest(n, S)) >= n
              /\ \A q \in Windows!Newest(n, S) : r < q
  <1> DEFINE Above(r) == {q \in S : q > r}
             New == {r \in S : Cardinality(Above(r)) < n}
  <1>1. Windows!Newest(n, S) = New
    BY WindowsFinite DEF Windows!Newest
  <1>2. IsFiniteSet(S)
    <2>1. IsFiniteSet(0 .. MaxTime)
      BY FS_Interval
    <2> QED BY <2>1, FS_Subset
  <1>n. \A r \in S : r \in Int
    OBVIOUS
  <1>3. \A r \in S : IsFiniteSet(Above(r)) /\ Cardinality(Above(r)) \in Nat
    <2>1. ASSUME NEW r \in S PROVE IsFiniteSet(Above(r)) /\ Cardinality(Above(r)) \in Nat
      <3>1. Above(r) \in SUBSET S
        OBVIOUS
      <3> HIDE DEF Above
      <3> QED BY <1>2, <3>1, FS_Subset, FS_CardinalityType
    <2> QED BY <2>1
  <1>4. ASSUME NEW r \in S, NEW q \in S, q < r PROVE Cardinality(Above(r)) <= Cardinality(Above(q))
    <2>1. Above(r) \in SUBSET Above(q)
      <3>1. ASSUME NEW u \in S, u > r PROVE u > q
        BY <1>4, <1>n, <3>1
      <3> QED BY <3>1
    <2> HIDE DEF Above
    <2> QED BY <1>3, <2>1, FS_Subset
  <1>5. S # {} => New # {}
    <2> SUFFICES ASSUME S # {} PROVE New # {}
      OBVIOUS
    <2>1. PICK m \in S : \A u \in S : m >= u
      BY GreatestIsMax
    <2>2. Above(m) = {}
      <3>1. ASSUME NEW u \in S PROVE ~(u > m)
        BY <2>1, <1>n
      <3> QED BY <3>1
    <2>3. Cardinality(Above(m)) = 0
      BY <2>2, FS_EmptySet
    <2> QED BY <2>3
  <1>6. ASSUME NEW r \in S \ New PROVE Cardinality(New) >= n /\ \A q \in New : r < q
    <2>1. ~(Cardinality(Above(r)) < n)
      BY <1>6
    <2>2. ASSUME NEW q \in New PROVE r < q
      <3>1. Cardinality(Above(q)) < n
        BY <2>2
      <3>2. q # r
        BY <1>6, <2>2
      <3>3. q < r => Cardinality(Above(r)) <= Cardinality(Above(q))
        BY <1>4, <2>2
      <3> HIDE DEF Above
      <3>4. Cardinality(Above(q)) \in Nat /\ Cardinality(Above(r)) \in Nat
        BY <1>3, <1>6, <2>2
      <3>5. ~ (q < r)
        BY <2>1, <3>1, <3>3, <3>4
      <3>6. q \in 0 .. MaxTime /\ r \in 0 .. MaxTime
        BY <1>6, <2>2
      <3> QED BY <3>2, <3>5, <3>6
    <2>3. Cardinality(New) >= n
      <3> DEFINE Old == S \ New
      <3>1. Old \in SUBSET (0 .. MaxTime) /\ Old # {}
        BY <1>6
      <3>2. Windows!Max(Old) \in Old /\ \A u \in Old : Windows!Max(Old) >= u
        <4> HIDE DEF Old
        <4> QED BY <3>1, GreatestIsMax
      <3> DEFINE m == Windows!Max(Old)
      <3>3. m \in S /\ m \notin New /\ \A u \in Old : m >= u
        BY <3>2
      <3> HIDE DEF m
      <3>4. ~(Cardinality(Above(m)) < n)
        BY <3>3
      <3>5. Above(m) \in SUBSET New
        <4>1. ASSUME NEW q \in S, q > m, q \notin New PROVE FALSE
          <5>1. q \in Old
            BY <4>1
          <5>2. m >= q
            BY <3>3, <5>1
          <5>3. m \in 0 .. MaxTime /\ q \in 0 .. MaxTime
            BY <3>3, <4>1
          <5> QED BY <4>1, <5>2, <5>3
        <4> HIDE DEF New
        <4> QED BY <4>1
      <3>6. New \in SUBSET S
        OBVIOUS
      <3>7. IsFiniteSet(New) /\ Cardinality(New) \in Nat
        <4> HIDE DEF New
        <4> QED BY <1>2, <3>6, FS_Subset, FS_CardinalityType
      <3>8. Cardinality(Above(m)) <= Cardinality(New)
        <4> HIDE DEF New, Above
        <4> QED BY <3>5, <3>7, FS_Subset
      <3>9. Cardinality(Above(m)) \in Nat
        BY <1>3, <3>3
      <3> HIDE DEF New, Above
      <3> QED BY <3>4, <3>7, <3>8, <3>9
    <2> QED BY <2>2, <2>3
  <1> HIDE DEF New
  <1> QED BY <1>1, <1>5, <1>6 DEF New

-----------------------------------------------------------------------------
(* What is read of a page. *)

LEMMA WindowConstants ==
  /\ PageSize \in Nat \ {0} /\ Retained \in Nat \ {0} /\ PollSeconds \in Nat \ {0}
  /\ Lookback \in Nat /\ MaxTime \in Nat /\ MaxPolicy \in Nat \ {0} /\ MaxPollFaults \in Nat
  /\ None \notin Collectors
  BY CollectionAssumption DEF Windows!WindowAssumption

\* A set of ticks and its two parts.
LEMMA PartsCounted ==
  ASSUME NEW S \in SUBSET (0 .. MaxTime), NEW T \in SUBSET S
  PROVE  /\ Cardinality(S) \in Nat /\ Cardinality(T) \in Nat /\ Cardinality(S \ T) \in Nat
         /\ Cardinality(T) + Cardinality(S \ T) = Cardinality(S)
  <1>1. IsFiniteSet(S)
    <2>1. IsFiniteSet(0 .. MaxTime)
      BY FS_Interval, WindowConstants
    <2> QED BY <2>1, FS_Subset
  <1>2. IsFiniteSet(T) /\ IsFiniteSet(S \ T)
    BY <1>1, FS_Subset
  <1>3. Cardinality(S \ T) = Cardinality(S) - Cardinality(T)
    <2>1. Cardinality(S \ T) = Cardinality(S) - Cardinality(S \cap T)
      BY <1>1, FS_Difference
    <2>2. S \cap T = T
      OBVIOUS
    <2> QED BY <2>1, <2>2
  <1>4. Cardinality(S) \in Nat /\ Cardinality(T) \in Nat /\ Cardinality(S \ T) \in Nat
    BY <1>1, <1>2, FS_CardinalityType
  <1> QED BY <1>3, <1>4

\* A page is part of the source's runs; of the runs of the window it loses none.
PageGood(c, page) ==
  /\ page \in Windows!Reading /\ Windows!Listed(page.cursor) /\ page.rows \subseteq runs
  /\ (col[c].cursor.kind = "next" => Windows!Kept(col[c].window, col[c].cursor, {})) =>
       Windows!PageSafe([window |-> col[c].window, page |-> page])

LEMMA PageRead ==
  ASSUME NEW c \in Collectors, NEW outcome \in {"clean", "gap", "alias"},
         Windows!TypeOK, runs \subseteq 1 .. now, Windows!Listed(col[c].cursor)
  PROVE  PageGood(c, Windows!ReadPage(c, outcome))
  <1> DEFINE cur == col[c].cursor
             rest == IF cur.kind = "next" THEN cur.rest ELSE Windows!Newest(Retained, runs)
             page == Windows!Newest(PageSize, rest)
             left == rest \ page
             seen == cur.seen + Windows!Cardinality(page)
             oldest == Windows!Min({cur.oldest} \cup page)
             incomplete == cur.incomplete \/ outcome = "gap"
             exhausted == left = {} /\ seen >= Retained /\ oldest > col[c].window.start
             next == IF left = {} THEN Windows!NoCursor
                     ELSE [kind |-> "next", rest |-> left, seen |-> seen,
                           oldest |-> oldest, incomplete |-> incomplete]
             complete == left = {} /\ ~incomplete /\ ~exhausted
  <1>1. cur \in Windows!Cursor /\ col[c].window \in Windows!Window
    BY DEF Windows!TypeOK, Windows!Session
  <1>2. /\ cur.kind \in {"none", "start", "next"} /\ cur.rest \in SUBSET (0 .. MaxTime)
        /\ cur.seen \in 0 .. MaxTime /\ cur.oldest \in 0 .. MaxTime + 1 /\ cur.incomplete \in BOOLEAN
        /\ col[c].window.start \in 0 .. MaxTime /\ col[c].window.end \in 0 .. MaxTime
    BY <1>1 DEF Windows!Cursor, Windows!Window, Windows!Times
  <1>3. now \in 0 .. MaxTime /\ runs \in SUBSET (0 .. MaxTime)
    BY DEF Windows!TypeOK, Windows!Times
  <1>4. cur.kind # "next" => cur.seen = 0 /\ cur.rest = {} /\ cur.oldest = MaxTime + 1
    BY <1>2 DEF Windows!Listed, Windows!NoCursor, Windows!StartCursor
  <1>5. rest \in SUBSET runs
    <2>1. Windows!Newest(Retained, runs) \subseteq runs
      BY <1>3, NewestOf, WindowConstants
    <2> QED BY <2>1 DEF Windows!Listed
  <1>6. rest \in SUBSET (0 .. MaxTime)
    BY <1>3, <1>5
  <1>7. Cardinality(rest) \in Nat /\ cur.seen + Cardinality(rest) <= MaxTime
    <2>1. CASE cur.kind = "next"
      BY <1>2, <2>1, PartsCounted, WindowsFinite DEF Windows!Listed
    <2>2. CASE cur.kind # "next"
      <3>1. rest \in SUBSET (1 .. MaxTime)
        <4>1. \A r \in runs : r \in 1 .. MaxTime
          BY <1>3, WindowConstants
        <4> HIDE DEF rest
        <4> QED BY <1>5, <4>1
      <3>2. IsFiniteSet(1 .. MaxTime) /\ Cardinality(1 .. MaxTime) = MaxTime
        BY FS_Interval, WindowConstants
      <3> HIDE DEF rest
      <3>3. Cardinality(rest) <= MaxTime /\ IsFiniteSet(rest)
        BY <3>1, <3>2, FS_Subset
      <3>4. Cardinality(rest) \in Nat
        BY <3>3, FS_CardinalityType
      <3> QED BY <1>4, <2>2, <3>3, <3>4, WindowConstants
    <2> QED BY <2>1, <2>2
  <1> HIDE DEF rest
  <1>8. /\ page \in SUBSET rest /\ (rest # {} => page # {})
    BY <1>6, NewestOf, WindowConstants
  <1> HIDE DEF page
  <1>9. /\ Cardinality(page) \in Nat /\ Cardinality(left) \in Nat
        /\ Cardinality(page) + Cardinality(left) = Cardinality(rest)
    BY <1>6, <1>8, PartsCounted
  <1>10. seen = cur.seen + Cardinality(page)
    BY WindowsFinite
  <1>11. /\ seen + Cardinality(left) = cur.seen + Cardinality(rest)
         /\ seen \in 0 .. MaxTime
    <2> HIDE DEF left, seen, cur
    <2> QED BY <1>2, <1>7, <1>9, <1>10, WindowConstants
  <1> HIDE DEF seen
  <1>12. /\ oldest \in {cur.oldest} \cup page
         /\ oldest \in 0 .. MaxTime + 1
    <2>1. {cur.oldest} \cup page \in SUBSET (0 .. MaxTime + 1)
      <3>1. \A r \in page : r \in 0 .. MaxTime + 1
        <4>1. \A r \in page : r \in 0 .. MaxTime
          BY <1>6, <1>8
        <4> QED BY <4>1, WindowConstants
      <3> QED BY <1>2, <3>1
    <2>2. MaxTime + 1 \in Nat
      BY WindowConstants
    <2>3. oldest \in {cur.oldest} \cup page
      <3> HIDE DEF cur
      <3> QED BY <2>1, <2>2, LeastIsMin
    <2> QED BY <2>1, <2>3
  <1> HIDE DEF oldest
  <1>13. next \in Windows!Cursor
    <2>1. left \in SUBSET (0 .. MaxTime) /\ incomplete \in BOOLEAN
      BY <1>2, <1>6
    <2>2. Windows!NoCursor \in Windows!Cursor
      BY WindowConstants DEF Windows!NoCursor, Windows!Cursor, Windows!Times
    <2> HIDE DEF left, incomplete
    <2> QED BY <1>11, <1>12, <2>1, <2>2 DEF Windows!Cursor, Windows!Times
  <1>14. Windows!Listed(next)
    <2>1. CASE left = {}
      <3>1. Cardinality({}) = 0 /\ next = Windows!NoCursor
        BY <2>1, FS_EmptySet
      <3> QED BY <3>1, WindowsFinite, WindowConstants DEF Windows!Listed, Windows!NoCursor
    <2>2. CASE left # {}
      <3>1. next.kind = "next" /\ next.rest = left /\ next.seen = seen
        BY <2>2
      <3>2. left \subseteq runs
        BY <1>5
      <3>3. seen + Cardinality(left) <= MaxTime
        <4> HIDE DEF left, cur
        <4> QED BY <1>7, <1>11
      <3> HIDE DEF next, left
      <3> QED BY <3>1, <3>2, <3>3, WindowsFinite DEF Windows!Listed
    <2> QED BY <2>1, <2>2
  <1>15. Windows!ReadPage(c, outcome) =
           [rows |-> page, cursor |-> next, complete |-> complete, exhausted |-> exhausted,
            alias |-> outcome = "alias"]
    BY DEF Windows!ReadPage, page, rest, oldest, seen
  <1>16. Windows!ReadPage(c, outcome) \in Windows!Reading
    <2>1. complete \in BOOLEAN /\ exhausted \in BOOLEAN /\ (outcome = "alias") \in BOOLEAN
      OBVIOUS
    <2>2. page \in SUBSET (0 .. MaxTime)
      BY <1>6, <1>8
    <2> HIDE DEF complete, exhausted, next
    <2> QED BY <1>13, <1>15, <2>1, <2>2 DEF Windows!Reading, Windows!Times
  <1>17. ASSUME cur.kind = "next" => Windows!Kept(col[c].window, cur, {}),
                NEW r \in runs, col[c].window.start < r, r <= col[c].window.end
         PROVE  r \in rest \/ Windows!Staged(r) \/
                (/\ seen + Cardinality(left) >= Retained /\ r < oldest /\ \A q \in left : r < q)
    <2> SUFFICES ASSUME r \notin rest, ~Windows!Staged(r)
                 PROVE  /\ seen + Cardinality(left) >= Retained
                        /\ r < oldest /\ \A q \in left : r < q
      OBVIOUS
    <2>1. /\ cur.seen + Cardinality(rest) >= Retained
          /\ r < cur.oldest /\ \A q \in rest : r < q
      <3>1. CASE cur.kind = "next"
        <4>1. Windows!Dropped(r, cur)
          BY <1>17, <3>1 DEF Windows!Kept, rest
        <4> QED BY <3>1, <4>1, WindowsFinite DEF Windows!Dropped, rest
      <3>2. CASE cur.kind # "next"
        <4>1. rest = Windows!Newest(Retained, runs)
          BY <3>2 DEF rest
        <4>2. Cardinality(rest) >= Retained /\ \A q \in rest : r < q
          BY <1>3, <4>1, NewestOf, WindowConstants
        <4>3. r \in 0 .. MaxTime
          BY <1>3
        <4> QED BY <1>4, <1>7, <3>2, <4>2, <4>3, WindowConstants
      <3> QED BY <3>1, <3>2
    <2>2. \A q \in page : r < q
      BY <1>8, <2>1
    <2>3. r < oldest
      BY <1>12, <2>1, <2>2
    <2>4. \A q \in left : r < q
      BY <2>1
    <2> HIDE DEF left, cur
    <2> QED BY <1>11, <2>1, <2>3, <2>4
  <1>18. ASSUME cur.kind = "next" => Windows!Kept(col[c].window, cur, {}), next.kind = "next"
         PROVE  Windows!Kept(col[c].window, next, page)
    <2>1. left # {}
      BY <1>18 DEF Windows!NoCursor
    <2>2. next.rest = left /\ next.seen = seen /\ next.oldest = oldest
      BY <2>1
    <2>3. ASSUME NEW r \in runs, col[c].window.start < r, r <= col[c].window.end
          PROVE  r \in left \/ r \in page \/ Windows!Staged(r) \/ Windows!Dropped(r, next)
      <3>1. r \in rest \/ Windows!Staged(r) \/
             (/\ seen + Cardinality(left) >= Retained /\ r < oldest /\ \A q \in left : r < q)
        BY <1>17, <1>18, <2>3
      <3>2. r \in rest => r \in left \/ r \in page
        OBVIOUS
      <3> HIDE DEF left, next
      <3> QED BY <2>2, <3>1, <3>2, WindowsFinite DEF Windows!Dropped
    <2> HIDE DEF left, next
    <2> QED BY <2>2, <2>3 DEF Windows!Kept
  <1>19. ASSUME cur.kind = "next" => Windows!Kept(col[c].window, cur, {}), next.kind = "none", ~exhausted
         PROVE  Windows!Kept(col[c].window, Windows!StartCursor, page)
    <2>1. left = {}
      BY <1>19
    <2>2. ASSUME NEW r \in runs, col[c].window.start < r, r <= col[c].window.end
          PROVE  r \in page \/ Windows!Staged(r)
      <3>1. r \in rest \/ Windows!Staged(r) \/ (seen + Cardinality(left) >= Retained /\ r < oldest)
        BY <1>17, <1>19, <2>2
      <3>2. r \in rest => r \in page
        BY <2>1
      <3>3. Cardinality(left) = 0
        BY <2>1, FS_EmptySet
      <3>4. ASSUME seen + Cardinality(left) >= Retained, r < oldest PROVE FALSE
        <4>1. seen >= Retained
          BY <1>11, <3>3, <3>4
        <4>2. r \in 0 .. MaxTime
          BY <1>3
        <4>3. oldest > col[c].window.start
          BY <1>2, <1>12, <2>2, <3>4, <4>2
        <4> QED BY <1>19, <2>1, <4>1, <4>3
      <3> QED BY <3>1, <3>2, <3>4
    <2> QED BY <2>2 DEF Windows!Kept
  <1> DEFINE read == Windows!ReadPage(c, outcome)
  <1>20. read.rows = page /\ read.cursor = next /\ read.exhausted = exhausted
    BY <1>15
  <1>21. page \subseteq runs
    BY <1>5, <1>8
  <1> HIDE DEF next, exhausted, read
  <1> QED BY <1>14, <1>16, <1>18, <1>19, <1>20, <1>21 DEF read, PageGood, Windows!PageSafe

-----------------------------------------------------------------------------
(* The parts of the state of the polling windows. *)

\* The tables of the store have their types.
TypedTables ==
  /\ now \in 0 .. MaxTime /\ runs \subseteq 0 .. MaxTime /\ policy \in 1 .. MaxPolicy
  /\ admitted \in 1 .. policy
  /\ schedule \in [policy: 0 .. MaxPolicy, next: 0 .. MaxTime + PollSeconds]
  /\ poll \in Seq(Windows!Poll) /\ pages \in Seq(Seq(Windows!Page)) /\ rows \in Seq(SUBSET (0 .. MaxTime))
  /\ status \in Seq({"open", "validated", "rejected"})
  /\ Len(pages) = Len(poll) /\ Len(rows) = Len(poll) /\ Len(status) = Len(poll)
  /\ progress \in [rev: Nat, window: Windows!Window, cursor: Windows!Cursor]
  /\ coverage \in [from: {-1} \cup 0 .. MaxTime, through: {-1} \cup 0 .. MaxTime]
  /\ ingested \subseteq runs /\ ambiguous \subseteq DOMAIN poll

\* What the invariant says of the tables, and of the sessions of the collectors.
Tables ==
  /\ TypedTables /\ Windows!CoverageAccounted /\ Windows!ValidatedIsWhole
  /\ Windows!TimePassed /\ Windows!PollsSound /\ Windows!Continues /\ Windows!WindowPassed
  /\ Windows!ProgressKept /\ Windows!WindowsKept

Sessions ==
  /\ col \in [Collectors -> Windows!Session]
  /\ \A c \in Collectors : Windows!SessionSound(c)

LEMMA TablesTyped ==
  /\ Windows!TypeOK <=> TypedTables /\ col \in [Collectors -> Windows!Session] /\ wfaults \in 0 .. MaxPollFaults
  /\ Windows!TypeOK' <=> /\ TypedTables' /\ (col \in [Collectors -> Windows!Session])'
                         /\ (wfaults \in 0 .. MaxPollFaults)'
  <1>1. ASSUME NEW S, NEW T, NEW a \in Seq(S), NEW b \in Seq(T)
        PROVE  DOMAIN a = DOMAIN b <=> Len(a) = Len(b)
    <2>1. DOMAIN a = 1 .. Len(a) /\ Len(a) \in Nat
      <3>1. a \in Seq(S)
        OBVIOUS
      <3> QED BY ONLY <3>1, LenProperties
    <2>2. DOMAIN b = 1 .. Len(b) /\ Len(b) \in Nat
      <3>1. b \in Seq(T)
        OBVIOUS
      <3> QED BY ONLY <3>1, LenProperties
    <2>3. ASSUME DOMAIN a = DOMAIN b PROVE Len(a) = Len(b)
      <3>1. ASSUME NEW m \in Nat, NEW n \in Nat, 1 .. m = 1 .. n, m < n PROVE FALSE
        <4>1. n \in 1 .. n /\ n \notin 1 .. m
          BY <3>1
        <4> QED BY <3>1, <4>1
      <3>2. PICK m \in Nat, n \in Nat : m = Len(a) /\ n = Len(b)
        BY <2>1, <2>2
      <3>3. 1 .. m = 1 .. n
        BY <2>1, <2>2, <2>3, <3>2
      <3>4. ~(m < n) /\ ~(n < m)
        BY <3>1, <3>3
      <3> QED BY <3>2, <3>4
    <2> QED BY <2>1, <2>2, <2>3
  <1>2. poll \in Seq(Windows!Poll) =>
          /\ pages \in Seq(Seq(Windows!Page)) => (DOMAIN pages = DOMAIN poll <=> Len(pages) = Len(poll))
          /\ rows \in Seq(SUBSET (0 .. MaxTime)) => (DOMAIN rows = DOMAIN poll <=> Len(rows) = Len(poll))
          /\ status \in Seq({"open", "validated", "rejected"}) =>
               (DOMAIN status = DOMAIN poll <=> Len(status) = Len(poll))
    BY <1>1
  <1>3. poll' \in Seq(Windows!Poll) =>
          /\ pages' \in Seq(Seq(Windows!Page)) => (DOMAIN pages' = DOMAIN poll' <=> Len(pages') = Len(poll'))
          /\ rows' \in Seq(SUBSET (0 .. MaxTime)) => (DOMAIN rows' = DOMAIN poll' <=> Len(rows') = Len(poll'))
          /\ status' \in Seq({"open", "validated", "rejected"}) =>
               (DOMAIN status' = DOMAIN poll' <=> Len(status') = Len(poll'))
    BY <1>1
  <1>4. Windows!TypeOK <=> TypedTables /\ col \in [Collectors -> Windows!Session] /\ wfaults \in 0 .. MaxPollFaults
    BY <1>2 DEF Windows!TypeOK, TypedTables, Windows!Times, Windows!Uncovered, Windows!Polls
  <1>5. Windows!TypeOK' <=> /\ TypedTables' /\ (col \in [Collectors -> Windows!Session])'
                            /\ (wfaults \in 0 .. MaxPollFaults)'
    BY <1>3 DEF Windows!TypeOK, TypedTables, Windows!Times, Windows!Uncovered, Windows!Polls
  <1> QED BY <1>4, <1>5

LEMMA WindowParts ==
  /\ Windows!WindowInv <=> Tables /\ Sessions /\ wfaults \in 0 .. MaxPollFaults
  /\ Windows!WindowInv' <=> Tables' /\ Sessions' /\ (wfaults \in 0 .. MaxPollFaults)'
  <1>1. Windows!WindowInv <=> Tables /\ Sessions /\ wfaults \in 0 .. MaxPollFaults
    BY TablesTyped DEF Windows!WindowInv, Windows!CoverageTruthful, Tables, Sessions
  <1>2. Windows!WindowInv' <=> Tables' /\ Sessions' /\ (wfaults \in 0 .. MaxPollFaults)'
    BY TablesTyped DEF Windows!WindowInv, Windows!CoverageTruthful, Tables, Sessions
  <1> QED BY <1>1, <1>2

LEMMA TableFacts ==
  ASSUME TypedTables
  PROVE  /\ Windows!Polls = 1 .. Len(poll) /\ Len(poll) \in Nat /\ Windows!Latest = Len(poll)
         /\ DOMAIN pages = 1 .. Len(poll) /\ DOMAIN rows = 1 .. Len(poll) /\ DOMAIN status = 1 .. Len(poll)
         /\ \A w \in 1 .. Len(poll) :
              /\ poll[w].slot \in 0 .. MaxTime + PollSeconds /\ poll[w].due \in 0 .. MaxTime + PollSeconds
              /\ poll[w].policy \in 1 .. MaxPolicy /\ poll[w].owner \in Collectors \cup {None}
              /\ poll[w].state \in {"queued", "leased", "completed", "dispositioned"}
              /\ pages[w] \in Seq(Windows!Page) /\ Len(pages[w]) \in Nat
              /\ DOMAIN pages[w] = 1 .. Len(pages[w]) /\ (pages[w] # <<>> <=> Len(pages[w]) # 0)
              /\ rows[w] \subseteq 0 .. MaxTime /\ status[w] \in {"open", "validated", "rejected"}
         /\ now \in Nat /\ policy \in Nat /\ admitted \in Nat /\ admitted <= policy
  <1>1. /\ Windows!Polls = 1 .. Len(poll) /\ Len(poll) \in Nat /\ Windows!Latest = Len(poll)
        /\ DOMAIN pages = 1 .. Len(poll) /\ DOMAIN rows = 1 .. Len(poll) /\ DOMAIN status = 1 .. Len(poll)
    BY LenProperties DEF TypedTables, Windows!Polls, Windows!Latest
  <1>2. ASSUME NEW w \in 1 .. Len(poll)
        PROVE  /\ poll[w].slot \in 0 .. MaxTime + PollSeconds /\ poll[w].due \in 0 .. MaxTime + PollSeconds
               /\ poll[w].policy \in 1 .. MaxPolicy /\ poll[w].owner \in Collectors \cup {None}
               /\ poll[w].state \in {"queued", "leased", "completed", "dispositioned"}
    <2>1. poll[w] \in Windows!Poll
      BY ElementOfSeq DEF TypedTables
    <2> QED BY <2>1 DEF Windows!Poll
  <1>3. ASSUME NEW w \in 1 .. Len(poll)
        PROVE  /\ pages[w] \in Seq(Windows!Page) /\ Len(pages[w]) \in Nat
               /\ DOMAIN pages[w] = 1 .. Len(pages[w]) /\ (pages[w] # <<>> <=> Len(pages[w]) # 0)
    <2>1. pages[w] \in Seq(Windows!Page)
      BY <1>1, <1>3, ElementOfSeq DEF TypedTables
    <2>2. Len(pages[w]) \in Nat /\ DOMAIN pages[w] = 1 .. Len(pages[w])
      BY <2>1, LenProperties
    <2>3. pages[w] # <<>> <=> Len(pages[w]) # 0
      BY <2>1, EmptySeq
    <2> QED BY <2>1, <2>2, <2>3
  <1>4. ASSUME NEW w \in 1 .. Len(poll)
        PROVE  rows[w] \subseteq 0 .. MaxTime /\ status[w] \in {"open", "validated", "rejected"}
    <2>1. rows[w] \in SUBSET (0 .. MaxTime)
      BY ElementOfSeq DEF TypedTables
    <2>2. status[w] \in {"open", "validated", "rejected"}
      BY ElementOfSeq DEF TypedTables
    <2> QED BY <2>1, <2>2
  <1>5. now \in Nat /\ policy \in Nat /\ admitted \in Nat /\ admitted <= policy
    BY WindowConstants DEF TypedTables
  <1> QED BY <1>1, <1>2, <1>3, <1>4, <1>5

-----------------------------------------------------------------------------
(* What stands still. *)

LEMMA TablesStand ==
  ASSUME Tables,
         UNCHANGED <<now, runs, policy, admitted, schedule, poll, progress, pages, rows, ambiguous,
                     status, coverage, ingested>>
  PROVE  Tables'
  <1>1. TypedTables'
    BY DEF Tables, TypedTables
  <1>2. Windows!CoverageAccounted' /\ Windows!ValidatedIsWhole' /\ Windows!TimePassed'
    BY DEF Tables, Windows!CoverageAccounted, Windows!ValidatedIsWhole, Windows!TimePassed, Windows!Polls
  <1>3. Windows!PollsSound' /\ Windows!Continues' /\ Windows!WindowPassed'
    BY DEF Tables, Windows!PollsSound, Windows!PollSound, Windows!Continues, Windows!WindowPassed,
       Windows!Polls, Windows!Live, Windows!Latest, Windows!DueSlot
  <1>4. Windows!ProgressKept' /\ Windows!WindowsKept'
    BY DEF Tables, Windows!ProgressKept, Windows!WindowsKept, Windows!PageKept, Windows!Listed,
       Windows!Kept, Windows!Staged, Windows!Replaced, Windows!Polls, Windows!Latest
  <1> QED BY <1>1, <1>2, <1>3, <1>4 DEF Tables

\* The runs of a window stay in hand: a run that ends later is past its end.
LEMMA KeptStays ==
  ASSUME NEW window \in Windows!Window, NEW cursor, NEW collected,
         Windows!Kept(window, cursor, collected), window.end <= now, now \in 0 .. MaxTime,
         runs' \subseteq 0 .. MaxTime, \A r \in runs' : r \in runs \/ r > now,
         \A r \in runs : Windows!Staged(r) => Windows!Staged(r)'
  PROVE  \A r \in runs' : window.start < r /\ r <= window.end =>
           r \in cursor.rest \/ r \in collected \/ Windows!Staged(r)' \/ Windows!Dropped(r, cursor)
  <1> SUFFICES ASSUME NEW r \in runs', window.start < r, r <= window.end
               PROVE  r \in cursor.rest \/ r \in collected \/ Windows!Staged(r)' \/ Windows!Dropped(r, cursor)
    OBVIOUS
  <1>1. r \in runs
    <2>1. window.end \in 0 .. MaxTime /\ window.start \in 0 .. MaxTime
      BY DEF Windows!Window, Windows!Times
    <2>2. r \in Nat => ~(r > now)
      BY <2>1, WindowConstants
    <2>3. r \in Nat
      BY WindowConstants
    <2> QED BY <2>2, <2>3
  <1> QED BY <1>1 DEF Windows!Kept

LEMMA ListedStays ==
  ASSUME NEW cursor, Windows!Listed(cursor), runs \subseteq runs'
  PROVE  Windows!Listed(cursor)'
  BY DEF Windows!Listed

LEMMA SessionFields ==
  ASSUME NEW session \in Windows!Session
  PROVE  /\ session.pc \in Windows!Steps /\ session.poll \in Nat /\ session.rev \in Nat
         /\ session.cursor \in Windows!Cursor /\ session.window \in Windows!Window
         /\ session.page \in Windows!Reading
         /\ session.page.rows \subseteq 0 .. MaxTime /\ session.page.cursor \in Windows!Cursor
         /\ session.page.complete \in BOOLEAN /\ session.page.exhausted \in BOOLEAN
         /\ session.window.start \in 0 .. MaxTime /\ session.window.end \in 0 .. MaxTime
  BY DEF Windows!Session, Windows!Reading, Windows!Window, Windows!Times

LEMMA PageStays ==
  ASSUME NEW session \in Windows!Session, Windows!PageSafe(session), session.window.end <= now,
         now \in 0 .. MaxTime, runs' \subseteq 0 .. MaxTime, \A r \in runs' : r \in runs \/ r > now,
         \A r \in runs : Windows!Staged(r) => Windows!Staged(r)'
  PROVE  Windows!PageSafe(session)'
  <1>1. session.window \in Windows!Window
    BY SessionFields
  <1>2. ASSUME session.page.cursor.kind = "next"
        PROVE  Windows!Kept(session.window, session.page.cursor, session.page.rows)'
    <2>1. Windows!Kept(session.window, session.page.cursor, session.page.rows)
      BY <1>2 DEF Windows!PageSafe
    <2>2. \A r \in runs' : session.window.start < r /\ r <= session.window.end =>
            \/ r \in session.page.cursor.rest \/ r \in session.page.rows
            \/ Windows!Staged(r)' \/ Windows!Dropped(r, session.page.cursor)
      BY <1>1, <2>1, KeptStays
    <2> QED BY <2>2 DEF Windows!Kept, Windows!Dropped
  <1>3. ASSUME session.page.cursor.kind = "none", ~session.page.exhausted
        PROVE  Windows!Kept(session.window, Windows!StartCursor, session.page.rows)'
    <2>1. Windows!Kept(session.window, Windows!StartCursor, session.page.rows)
      BY <1>3 DEF Windows!PageSafe
    <2>2. \A r \in runs' : session.window.start < r /\ r <= session.window.end =>
            \/ r \in Windows!StartCursor.rest \/ r \in session.page.rows
            \/ Windows!Staged(r)' \/ Windows!Dropped(r, Windows!StartCursor)
      BY <1>1, <2>1, KeptStays
    <2> QED BY <2>2 DEF Windows!Kept, Windows!Dropped
  <1> QED BY <1>2, <1>3 DEF Windows!PageSafe

LEMMA SessionStays ==
  ASSUME Tables, TypedTables', Sessions, NEW d \in Collectors, col'[d] = col[d],
         now <= now', runs \subseteq runs', \A r \in runs' : r \in runs \/ r > now,
         Len(poll) <= Len(poll'), \A w \in 1 .. Len(poll) : poll'[w].due = poll[w].due,
         Windows!Working(d)' => /\ Windows!Working(d) /\ progress' = progress
                                /\ \A r \in runs : Windows!Staged(r) => Windows!Staged(r)'
  PROVE  Windows!SessionSound(d)'
  <1>1. TypedTables /\ Windows!SessionSound(d) /\ col[d] \in Windows!Session
    BY DEF Tables, Sessions
  <1>2. Windows!Listed(col[d].cursor)' /\ Windows!Listed(col[d].page.cursor)' /\ col'[d].page.rows \subseteq runs'
    BY <1>1 DEF Windows!SessionSound, Windows!Listed
  <1>3. Windows!Polls = 1 .. Len(poll) /\ Len(poll) \in Nat
    BY <1>1, TableFacts
  <1>4. Windows!Polls' = 1 .. Len(poll') /\ Len(poll') \in Nat
    BY LenProperties DEF TypedTables, Windows!Polls
  <1>5. now \in 0 .. MaxTime /\ now' \in 0 .. MaxTime
    BY <1>1 DEF TypedTables
  <1>6. col'[d].pc # "idle" => col'[d].poll \in Windows!Polls' /\ poll'[col'[d].poll].due <= now'
    <2> SUFFICES ASSUME col[d].pc # "idle"
                 PROVE  col[d].poll \in Windows!Polls' /\ poll'[col[d].poll].due <= now'
      OBVIOUS
    <2>1. col[d].poll \in Windows!Polls /\ poll[col[d].poll].due <= now
      BY <1>1 DEF Windows!SessionSound
    <2>2. poll[col[d].poll].due \in 0 .. MaxTime + PollSeconds
      BY <1>1, <1>3, <2>1, TableFacts
    <2>3. PICK w : w = col[d].poll
      OBVIOUS
    <2>4. w \in 1 .. Len(poll) /\ poll'[w].due = poll[w].due
      BY <1>3, <2>1, <2>3
    <2>5. w \in Windows!Polls'
      BY <1>3, <1>4, <2>4
    <2>6. poll[w].due \in Int /\ now \in Int /\ now' \in Int
      BY <1>5, <2>2, <2>3, WindowConstants
    <2>7. poll'[w].due <= now'
      BY <2>1, <2>3, <2>4, <2>6
    <2> QED BY <2>3, <2>5, <2>7
  <1>7. col'[d].window.end <= now'
    <2>1. col[d].window.end \in 0 .. MaxTime /\ col[d].window.end <= now
      BY <1>1, SessionFields DEF Windows!SessionSound
    <2> QED BY <1>5, <2>1, WindowConstants
  <1>8. ASSUME Windows!Working(d)'
        PROVE  /\ col'[d].rev = progress'.rev /\ col'[d].cursor = progress'.cursor
               /\ col'[d].pc = "begun" \/ col'[d].cursor.kind # "none" => col'[d].window = progress'.window
               /\ col'[d].pc # "begun" => col'[d].window.end <= poll'[col'[d].poll].due
               /\ col'[d].pc = "read" => Windows!PageSafe(col[d])'
    <2>1. /\ Windows!Working(d) /\ progress' = progress
          /\ \A r \in runs : Windows!Staged(r) => Windows!Staged(r)'
      BY <1>8
    <2>2. /\ col[d].rev = progress.rev /\ col[d].cursor = progress.cursor
          /\ col[d].pc = "begun" \/ col[d].cursor.kind # "none" => col[d].window = progress.window
          /\ col[d].pc # "begun" => col[d].window.end <= poll[col[d].poll].due
          /\ col[d].poll \in 1 .. Len(poll)
      BY <1>1, <1>3, <2>1 DEF Windows!SessionSound, Windows!Working
    <2>3. ASSUME col[d].pc = "read" PROVE Windows!PageSafe(col[d])'
      <3>1. PICK session \in Windows!Session : session = col[d]
        BY <1>1
      <3>2. Windows!PageSafe(session)
        BY <1>1, <2>1, <2>3, <3>1 DEF Windows!SessionSound, Windows!PageSafe
      <3>3. session.window.end <= now /\ runs' \subseteq 0 .. MaxTime
        BY <1>1, <3>1 DEF Windows!SessionSound, TypedTables
      <3>4. Windows!PageSafe(session)'
        BY <1>5, <2>1, <3>2, <3>3, PageStays
      <3> QED BY <3>1, <3>4 DEF Windows!PageSafe
    <2> QED BY <2>1, <2>2, <2>3
  <1> QED BY <1>2, <1>6, <1>7, <1>8 DEF Windows!SessionSound

-----------------------------------------------------------------------------
(* A poll changes hands. *)

\* Poll w has a new state and a new owner; nothing else of a poll changes.
Moved(w, state, owner) ==
  /\ poll' \in Seq(Windows!Poll) /\ Len(poll') = Len(poll)
  /\ \A v \in 1 .. Len(poll) :
       poll'[v].slot = poll[v].slot /\ poll'[v].due = poll[v].due /\ poll'[v].policy = poll[v].policy
  /\ \A v \in 1 .. Len(poll) : v # w => poll'[v].state = poll[v].state /\ poll'[v].owner = poll[v].owner
  /\ poll'[w].state = state /\ poll'[w].owner = owner

LEMMA PollMoves ==
  ASSUME TypedTables, NEW w \in 1 .. Len(poll),
         NEW state \in {"queued", "leased", "completed", "dispositioned"}, NEW owner \in Collectors \cup {None},
         poll' = [poll EXCEPT ![w].state = state, ![w].owner = owner]
  PROVE  Moved(w, state, owner)
  <1> DEFINE p == [poll[w] EXCEPT !.state = state, !.owner = owner]
  <1>1. poll \in Seq(Windows!Poll) /\ poll[w] \in Windows!Poll
    BY ElementOfSeq DEF TypedTables
  <1>2. /\ p \in Windows!Poll /\ p.slot = poll[w].slot /\ p.due = poll[w].due
        /\ p.policy = poll[w].policy /\ p.state = state /\ p.owner = owner
    BY <1>1 DEF Windows!Poll
  <1>3. poll' = [poll EXCEPT ![w] = p]
    OBVIOUS
  <1> HIDE DEF p
  <1>4. /\ poll' \in Seq(Windows!Poll) /\ Len(poll') = Len(poll)
        /\ \A v \in 1 .. Len(poll) : poll'[v] = IF v = w THEN p ELSE poll[v]
    BY <1>1, <1>2, <1>3, ExceptSeq
  <1> QED BY <1>2, <1>4 DEF Moved

LEMMA MovedTables ==
  ASSUME Tables, NEW w \in 1 .. Len(poll), NEW state \in {"queued", "leased", "dispositioned"},
         NEW owner \in Collectors \cup {None}, Moved(w, state, owner), Windows!Live(w),
         state = "leased" <=> owner # None, state = "leased" => poll[w].due <= now,
         state = "dispositioned" => poll[w].policy # policy,
         UNCHANGED <<now, runs, policy, admitted, schedule, progress, pages, rows, ambiguous,
                     status, coverage, ingested>>
  PROVE  Tables'
  <1> USE DEF Moved
  <1>1. TypedTables'
    BY LenProperties DEF Tables, TypedTables
  <1>2. Windows!Polls' = Windows!Polls /\ Windows!Latest' = Windows!Latest
    BY LenProperties, TableFacts DEF Tables, Windows!Polls, Windows!Latest
  <1>3. Windows!Polls = 1 .. Len(poll) /\ Windows!Latest = Len(poll)
    BY TableFacts DEF Tables
  <1>4. Windows!CoverageAccounted' /\ Windows!ValidatedIsWhole' /\ Windows!TimePassed'
    <2>1. Windows!CoverageAccounted'
      BY <1>2, <1>3 DEF Tables, Windows!CoverageAccounted
    <2>2. Windows!ValidatedIsWhole'
      BY <1>2, <1>3 DEF Tables, Windows!ValidatedIsWhole
    <2>3. Windows!TimePassed'
      <3>1. 1 \in 1 .. Len(poll)
        BY TableFacts DEF Tables, Windows!TimePassed
      <3> QED BY <3>1 DEF Tables, Windows!TimePassed
    <2> QED BY <2>1, <2>2, <2>3
  <1>5. ASSUME NEW v \in 1 .. Len(poll) PROVE Windows!PollSound(v)'
    <2>1. Windows!PollSound(v)
      BY <1>3 DEF Tables, Windows!PollsSound
    <2>2. CASE v # w
      BY <1>2, <2>1, <2>2 DEF Windows!PollSound, Windows!Live
    <2>3. CASE v = w
      BY <1>2, <2>1, <2>3 DEF Windows!PollSound, Windows!Live
    <2> QED BY <2>2, <2>3
  <1>6. Windows!Continues'
    <2> SUFFICES ASSUME admitted = policy
                 PROVE  Windows!Continues'
      BY DEF Windows!Continues
    <2>1. Len(poll) \in 1 .. Len(poll)
      BY TableFacts DEF Tables, Windows!TimePassed
    <2>2. CASE w # Len(poll)
      BY <1>2, <1>3, <2>1, <2>2 DEF Tables, Windows!Continues, Windows!Live, Windows!DueSlot
    <2>3. CASE w = Len(poll)
      BY <1>2, <1>3, <2>1, <2>3 DEF Tables, Windows!Continues, Windows!Live, Windows!DueSlot
    <2> QED BY <2>2, <2>3
  <1>7. Windows!WindowPassed'
    <2>1. Len(poll) \in 1 .. Len(poll)
      BY TableFacts DEF Tables, Windows!TimePassed
    <2>2. Windows!Live(Windows!Latest)' => Windows!Live(Windows!Latest)
      BY <1>2, <1>3, <2>1 DEF Windows!Live
    <2>3. (\E v \in Windows!Polls : poll[v].state = "completed" /\ progress.window.end <= poll[v].due) =>
            \E v \in Windows!Polls : poll'[v].state = "completed" /\ progress.window.end <= poll'[v].due
      BY <1>3 DEF Windows!Live
    <2> QED BY <1>2, <1>3, <2>1, <2>2, <2>3 DEF Tables, Windows!WindowPassed
  <1>8. \A r : Windows!Replaced(r)' = Windows!Replaced(r) /\ Windows!Staged(r)' = Windows!Staged(r)
    BY <1>2, <1>3 DEF Windows!Replaced, Windows!Staged
  <1>9. Windows!ProgressKept'
    BY <1>8 DEF Tables, Windows!ProgressKept, Windows!Listed, Windows!Kept, Windows!Dropped
  <1>10. Windows!WindowsKept'
    BY <1>2, <1>8 DEF Tables, Windows!WindowsKept, Windows!PageKept
  <1> QED BY <1>1, <1>2, <1>3, <1>4, <1>5, <1>6, <1>7, <1>9, <1>10 DEF Tables, Windows!PollsSound

\* The other collectors see a poll that is not theirs change hands.
LEMMA MovedSessions ==
  ASSUME Tables, Tables', Sessions, NEW d \in Collectors, col'[d] = col[d], NEW w \in 1 .. Len(poll),
         NEW state, NEW owner, owner # d, Moved(w, state, owner),
         UNCHANGED <<now, runs, policy, admitted, schedule, progress, pages, rows, ambiguous,
                     status, coverage, ingested>>
  PROVE  Windows!SessionSound(d)'
  <1> USE DEF Moved
  <1>1. Windows!Polls' = 1 .. Len(poll) /\ Windows!Latest' = Len(poll)
    BY LenProperties DEF Tables, TypedTables, Windows!Polls, Windows!Latest
  <1>2. Windows!Polls = 1 .. Len(poll) /\ Windows!Latest = Len(poll)
    BY TableFacts DEF Tables
  <1>3. ASSUME Windows!Working(d)' PROVE Windows!Working(d)
    <2>1. col[d].poll \in 1 .. Len(poll)
      BY <1>2, <1>3 DEF Sessions, Windows!SessionSound, Windows!Working
    <2>2. poll'[col[d].poll].owner = d /\ poll'[col[d].poll].policy = policy
      BY <1>3 DEF Windows!Working, Windows!Owned, Windows!CurrentPolicy
    <2>3. poll[col[d].poll].owner = d /\ poll[col[d].poll].policy = policy
      BY <2>1, <2>2
    <2> QED BY <1>3, <2>3 DEF Windows!Working, Windows!Owned, Windows!CurrentPolicy
  <1>4. \A r : Windows!Staged(r)' = Windows!Staged(r)
    BY <1>1, <1>2 DEF Windows!Replaced, Windows!Staged
  <1>5. TypedTables' /\ now \in Nat /\ Len(poll) \in Nat
    BY TableFacts DEF Tables
  <1> QED BY <1>3, <1>4, <1>5, SessionStays

-----------------------------------------------------------------------------
(* The collectors. *)

LEMMA IdleFacts ==
  /\ Windows!NoCursor \in Windows!Cursor /\ Windows!StartCursor \in Windows!Cursor
  /\ Windows!IdleCollector \in Windows!Session
  /\ Windows!Listed(Windows!NoCursor) /\ Windows!Listed(Windows!StartCursor)
  /\ Windows!Listed(Windows!NoCursor)' /\ Windows!Listed(Windows!StartCursor)'
  /\ [Windows!IdleCollector EXCEPT !.pc = "idle", !.poll = 0] = Windows!IdleCollector
  <1>1. Windows!NoCursor \in Windows!Cursor /\ Windows!StartCursor \in Windows!Cursor
    <2>1. 0 \in 0 .. MaxTime /\ MaxTime + 1 \in 0 .. MaxTime + 1
      BY WindowConstants
    <2>3. FALSE \in BOOLEAN
      OBVIOUS
    <2>4. Windows!NoCursor \in Windows!Cursor
      BY <2>1, <2>3 DEF Windows!NoCursor, Windows!Cursor, Windows!Times
    <2>5. Windows!StartCursor \in Windows!Cursor
      BY <2>4 DEF Windows!StartCursor, Windows!Cursor
    <2> QED BY <2>4, <2>5
  <1>2. Windows!IdleCollector \in Windows!Session
    <2>1. [start |-> 0, end |-> 0] \in Windows!Window
      BY WindowConstants DEF Windows!Window, Windows!Times
    <2>2. Windows!NoPage \in Windows!Reading
      BY <1>1 DEF Windows!NoPage, Windows!Reading
    <2> QED BY <1>1, <2>1, <2>2 DEF Windows!IdleCollector, Windows!Session, Windows!Steps
  <1>3. Windows!Cardinality({}) = 0
    BY WindowsFinite, FS_EmptySet
  <1>4. Windows!Listed(Windows!NoCursor) /\ Windows!Listed(Windows!StartCursor)
    BY <1>3, WindowConstants DEF Windows!NoCursor, Windows!StartCursor, Windows!Listed
  <1>5. Windows!Listed(Windows!NoCursor)' /\ Windows!Listed(Windows!StartCursor)'
    BY <1>3, WindowConstants DEF Windows!NoCursor, Windows!StartCursor, Windows!Listed
  <1>6. [Windows!IdleCollector EXCEPT !.pc = "idle", !.poll = 0] = Windows!IdleCollector
    <2>1. Windows!IdleCollector.pc = "idle" /\ Windows!IdleCollector.poll = 0
      BY DEF Windows!IdleCollector
    <2> QED BY <1>2, <2>1 DEF Windows!Session
  <1> QED BY <1>1, <1>2, <1>4, <1>5, <1>6

\* A collector that has no page and works on nothing is sound.
LEMMA IdleSound ==
  ASSUME TypedTables', NEW c \in Collectors, NEW pc \in {"idle", "claimed"}, NEW w \in Nat,
         col'[c] = [Windows!IdleCollector EXCEPT !.pc = pc, !.poll = w],
         pc = "claimed" => w \in Windows!Polls' /\ poll'[w].due <= now'
  PROVE  Windows!SessionSound(c)' /\ col'[c] \in Windows!Session
  <1>1. /\ col'[c].pc = pc /\ col'[c].poll = w /\ col'[c].cursor = Windows!NoCursor
        /\ col'[c].page.cursor = Windows!NoCursor /\ col'[c].page.rows = {} /\ col'[c].window.end = 0
    BY DEF Windows!IdleCollector, Windows!NoPage
  <1>2. col'[c] \in Windows!Session
    BY IdleFacts DEF Windows!Session, Windows!Steps
  <1>3. 0 <= now'
    BY WindowConstants DEF TypedTables
  <1>4. Windows!Listed(col[c].cursor)' /\ Windows!Listed(col[c].page.cursor)'
    BY <1>1, IdleFacts DEF Windows!Listed
  <1>5. ~ Windows!Working(c)'
    BY <1>1 DEF Windows!Working
  <1> QED BY <1>1, <1>2, <1>3, <1>4, <1>5 DEF Windows!SessionSound

LEMMA SessionsWhole ==
  ASSUME Sessions, NEW c \in Collectors, NEW session \in Windows!Session,
         col' = [col EXCEPT ![c] = session], Windows!SessionSound(c)',
         \A d \in Collectors : d # c => Windows!SessionSound(d)'
  PROVE  Sessions'
  BY DEF Sessions

LEMMA ClaimKeeps ==
  ASSUME Windows!WindowInv, NEW c \in Collectors, Windows!Claim(c)
  PROVE  Windows!WindowInv'
  <1>1. Tables /\ Sessions /\ TypedTables /\ wfaults \in 0 .. MaxPollFaults
    BY WindowParts DEF Tables
  <1>2. PICK w \in Windows!Polls :
          /\ poll[w].state = "queued" /\ poll[w].due <= now
          /\ poll' = [poll EXCEPT ![w].state = "leased", ![w].owner = c]
          /\ col' = [col EXCEPT ![c] = [Windows!IdleCollector EXCEPT !.pc = "claimed", !.poll = w]]
    BY DEF Windows!Claim
  <1>3. UNCHANGED <<now, runs, policy, admitted, schedule, progress, pages, rows, ambiguous,
                    status, coverage, ingested, wfaults>>
    BY DEF Windows!Claim, Windows!sourceVars, Windows!policyVars, Windows!intakeVars, Windows!publishedVars
  <1>4. w \in 1 .. Len(poll) /\ w \in Nat
    BY <1>1, TableFacts
  <1>5. Moved(w, "leased", c)
    BY <1>1, <1>2, <1>4, PollMoves
  <1>6. Tables'
    BY <1>1, <1>2, <1>3, <1>4, <1>5, MovedTables, WindowConstants DEF Windows!Live
  <1>7. TypedTables'
    BY <1>6 DEF Tables
  <1>8. col'[c] = [Windows!IdleCollector EXCEPT !.pc = "claimed", !.poll = w]
    BY <1>1, <1>2 DEF Sessions
  <1>9. Windows!SessionSound(c)' /\ col'[c] \in Windows!Session
    <2>1. w \in Windows!Polls' /\ poll'[w].due <= now'
      BY <1>2, <1>3, <1>4, <1>5, <1>7, LenProperties DEF Moved, TypedTables, Windows!Polls
    <2> QED BY <1>4, <1>7, <1>8, <2>1, IdleSound
  <1>10. ASSUME NEW d \in Collectors, d # c PROVE Windows!SessionSound(d)'
    <2>1. col'[d] = col[d]
      BY <1>1, <1>2, <1>10 DEF Sessions
    <2> QED BY <1>1, <1>3, <1>4, <1>5, <1>6, <1>10, <2>1, MovedSessions
  <1>11. Sessions'
    BY <1>1, <1>2, <1>8, <1>9, <1>10, SessionsWhole
  <1> QED BY <1>1, <1>3, <1>6, <1>11, WindowParts

\* A collector that gives its poll back, whatever becomes of the poll.
LEMMA DispositionKeeps ==
  ASSUME Windows!WindowInv, NEW c \in Collectors, NEW state \in {"queued", "dispositioned"},
         col[c].pc # "idle", Windows!Disposition(c, state),
         state = "dispositioned" => ~Windows!CurrentPolicy(c)
  PROVE  Windows!WindowInv'
  <1>1. Tables /\ Sessions /\ TypedTables /\ wfaults \in 0 .. MaxPollFaults
    BY WindowParts DEF Tables
  <1> DEFINE w == col[c].poll
  <1>2. /\ poll[w].owner = c
        /\ poll' = [poll EXCEPT ![w].state = state, ![w].owner = None]
        /\ col' = [col EXCEPT ![c] = Windows!IdleCollector]
    BY DEF Windows!Disposition, Windows!Owned
  <1>3. UNCHANGED <<now, runs, policy, admitted, schedule, progress, pages, rows, ambiguous,
                    status, coverage, ingested, wfaults>>
    BY DEF Windows!Disposition, Windows!sourceVars, Windows!policyVars, Windows!intakeVars, Windows!publishedVars
  <1>4. w \in 1 .. Len(poll) /\ w \in Nat
    BY <1>1, TableFacts DEF Sessions, Windows!SessionSound
  <1>5. poll[w].state = "leased"
    BY <1>1, <1>2, <1>4, TableFacts, WindowConstants DEF Tables, Windows!PollsSound, Windows!PollSound
  <1>n. state = "dispositioned" => poll[w].policy # policy
    BY DEF Windows!CurrentPolicy
  <1> HIDE DEF w
  <1>6. Moved(w, state, None)
    BY <1>1, <1>2, <1>4, PollMoves
  <1>7. Tables'
    BY <1>1, <1>3, <1>4, <1>5, <1>6, <1>n, MovedTables DEF Windows!Live
  <1>8. TypedTables'
    BY <1>7 DEF Tables
  <1>9. col'[c] = [Windows!IdleCollector EXCEPT !.pc = "idle", !.poll = 0]
    BY <1>1, <1>2, IdleFacts DEF Sessions
  <1>10. Windows!SessionSound(c)' /\ col'[c] \in Windows!Session
    BY <1>8, <1>9, IdleSound
  <1>11. ASSUME NEW d \in Collectors, d # c PROVE Windows!SessionSound(d)'
    <2>1. col'[d] = col[d]
      BY <1>1, <1>2, <1>11 DEF Sessions
    <2>2. None # d
      BY WindowConstants
    <2> QED BY <1>1, <1>3, <1>4, <1>6, <1>7, <2>1, <2>2, MovedSessions
  <1>12. Sessions'
    BY <1>1, <1>2, <1>10, <1>11, IdleFacts, SessionsWhole
  <1> QED BY <1>1, <1>3, <1>7, <1>12, WindowParts

LEMMA ExpireKeeps ==
  ASSUME Windows!WindowInv, NEW w \in Windows!Polls, Windows!LeaseExpires(w) \/ Windows!LeaseLapses(w)
  PROVE  Windows!WindowInv'
  <1>1. Tables /\ Sessions /\ TypedTables /\ wfaults \in 0 .. MaxPollFaults
    BY WindowParts DEF Tables
  <1>2. /\ poll[w].state = "leased" /\ poll' = [poll EXCEPT ![w].state = "queued", ![w].owner = None]
        /\ UNCHANGED <<now, runs, policy, admitted, schedule, progress, pages, rows, ambiguous,
                       status, coverage, ingested, col>>
    BY DEF Windows!LeaseExpires, Windows!LeaseLapses, Windows!Expire, Windows!sourceVars,
       Windows!policyVars, Windows!intakeVars, Windows!publishedVars
  <1>3. (wfaults \in 0 .. MaxPollFaults)'
    BY <1>1, WindowConstants DEF Windows!LeaseExpires, Windows!LeaseLapses, Windows!Fault
  <1>4. w \in 1 .. Len(poll)
    BY <1>1, TableFacts
  <1>5. Moved(w, "queued", None)
    BY <1>1, <1>2, <1>4, PollMoves
  <1>6. Tables'
    BY <1>1, <1>2, <1>4, <1>5, MovedTables DEF Windows!Live
  <1>7. ASSUME NEW d \in Collectors PROVE Windows!SessionSound(d)'
    <2>1. col'[d] = col[d] /\ None # d
      BY <1>2, WindowConstants
    <2> QED BY <1>1, <1>2, <1>4, <1>5, <1>6, <2>1, MovedSessions
  <1>8. Sessions'
    BY <1>1, <1>2, <1>7 DEF Sessions
  <1> QED BY <1>3, <1>6, <1>8, WindowParts

\* A step of one collector that leaves the tables alone.
LEMMA CollectorSteps ==
  ASSUME Windows!WindowInv, NEW c \in Collectors, NEW session \in Windows!Session,
         col' = [col EXCEPT ![c] = session], (wfaults \in 0 .. MaxPollFaults)',
         UNCHANGED <<now, runs, policy, admitted, schedule, poll, progress, pages, rows, ambiguous,
                     status, coverage, ingested>>,
         Windows!SessionSound(c)'
  PROVE  Windows!WindowInv'
  <1>1. Tables /\ Sessions /\ TypedTables
    BY WindowParts DEF Tables
  <1>2. Tables' /\ TypedTables'
    BY <1>1, TablesStand DEF Tables
  <1>3. ASSUME NEW d \in Collectors, d # c PROVE Windows!SessionSound(d)'
    <2>1. col'[d] = col[d]
      BY <1>1, <1>3 DEF Sessions
    <2>2. Windows!Working(d)' => Windows!Working(d)
      BY <2>1 DEF Windows!Working, Windows!Owned, Windows!CurrentPolicy
    <2>3. \A r : Windows!Staged(r)' = Windows!Staged(r)
      BY DEF Windows!Staged, Windows!Replaced, Windows!Polls, Windows!Latest
    <2>4. now \in Nat /\ Len(poll) \in Nat
      BY <1>1, TableFacts
    <2> QED BY <1>1, <1>2, <2>1, <2>2, <2>3, <2>4, SessionStays
  <1>4. Sessions'
    BY <1>1, <1>3, SessionsWhole
  <1> QED BY <1>2, <1>4, WindowParts

LEMMA GiveUpKeeps ==
  ASSUME Windows!WindowInv, NEW c \in Collectors, Windows!Fenced(c) \/ Windows!Crash(c)
  PROVE  Windows!WindowInv'
  <1>1. TypedTables /\ Sessions /\ wfaults \in 0 .. MaxPollFaults
    BY WindowParts DEF Tables
  <1>2. /\ col' = [col EXCEPT ![c] = Windows!IdleCollector]
        /\ UNCHANGED <<now, runs, policy, admitted, schedule, poll, progress, pages, rows, ambiguous,
                       status, coverage, ingested>>
    BY DEF Windows!Fenced, Windows!Crash, Windows!sourceVars, Windows!policyVars, Windows!intakeVars,
       Windows!publishedVars
  <1>3. (wfaults \in 0 .. MaxPollFaults)'
    BY <1>1, WindowConstants DEF Windows!Fenced, Windows!Crash, Windows!Fault
  <1>4. col'[c] = [Windows!IdleCollector EXCEPT !.pc = "idle", !.poll = 0]
    BY <1>1, <1>2, IdleFacts DEF Sessions
  <1>5. TypedTables'
    BY <1>1, <1>2 DEF TypedTables
  <1>6. Windows!SessionSound(c)'
    BY <1>4, <1>5, IdleSound
  <1> QED BY <1>2, <1>3, <1>6, IdleFacts, CollectorSteps

-----------------------------------------------------------------------------
(* A poll is begun, its window framed and a page read. *)

LEMMA PairMaxMin ==
  ASSUME NEW a \in Int, NEW b \in Int
  PROVE  /\ Windows!Max({a, b}) = IF a >= b THEN a ELSE b
         /\ Windows!Min({a, b}) = IF a <= b THEN a ELSE b
  <1>1. Windows!Max({a, b}) = IF a >= b THEN a ELSE b
    BY DEF Windows!Max
  <1>2. Windows!Min({a, b}) = IF a <= b THEN a ELSE b
    BY DEF Windows!Min
  <1> QED BY <1>1, <1>2

\* A collector that owns its poll of the current policy has the latest poll.
LEMMA OwnerFacts ==
  ASSUME Tables, Sessions, NEW c \in Collectors, col[c].pc # "idle", Windows!Owned(c), Windows!CurrentPolicy(c)
  PROVE  /\ col[c].poll = Len(poll) /\ Len(poll) \in 1 .. Len(poll) /\ admitted = policy
         /\ poll[Len(poll)].state = "leased" /\ Windows!Live(Len(poll)) /\ Windows!Latest = Len(poll)
         /\ poll[Len(poll)].owner = c /\ poll[Len(poll)].policy = policy
  <1>1. TypedTables
    BY DEF Tables
  <1> DEFINE w == col[c].poll
  <1>2. w \in 1 .. Len(poll)
    BY <1>1, TableFacts DEF Sessions, Windows!SessionSound
  <1>3. poll[w].owner = c /\ poll[w].policy = policy
    BY DEF Windows!Owned, Windows!CurrentPolicy
  <1> HIDE DEF w
  <1>4. Windows!PollSound(w) /\ Windows!Latest = Len(poll)
    BY <1>1, <1>2, TableFacts DEF Tables, Windows!PollsSound
  <1>5. poll[w].state = "leased"
    BY <1>3, <1>4, WindowConstants DEF Windows!PollSound
  <1>6. Windows!Live(w)
    BY <1>5 DEF Windows!Live
  <1>7. w = Len(poll)
    BY <1>3, <1>4, <1>6 DEF Windows!PollSound
  <1>8. admitted = policy
    BY <1>1, <1>3, <1>4, TableFacts DEF Windows!PollSound
  <1>9. Windows!Live(Len(poll)) /\ Windows!Latest = Len(poll) /\ col[c].poll = Len(poll)
    BY <1>4, <1>6, <1>7 DEF w
  <1> QED BY <1>2, <1>3, <1>5, <1>7, <1>8, <1>9

\* A session as a collector's step leaves it.
LEMMA SessionOf ==
  ASSUME NEW c \in Collectors, NEW s \in Windows!Session, col'[c] = s,
         Windows!Listed(s.cursor)', Windows!Listed(s.page.cursor)', s.page.rows \subseteq runs',
         s.pc # "idle" => s.poll \in Windows!Polls' /\ poll'[s.poll].due <= now',
         s.window.end <= now',
         Windows!Working(c)' =>
           /\ s.rev = progress'.rev /\ s.cursor = progress'.cursor
           /\ s.pc = "begun" \/ s.cursor.kind # "none" => s.window = progress'.window
           /\ s.pc # "begun" => s.window.end <= poll'[s.poll].due
           /\ s.pc = "read" => Windows!PageSafe(s)'
  PROVE  Windows!SessionSound(c)'
  <1>1. Windows!Listed(col[c].cursor)' /\ Windows!Listed(col[c].page.cursor)'
    BY DEF Windows!Listed
  <1>2. ASSUME Windows!Working(c)', s.pc = "read" PROVE Windows!PageSafe(col[c])'
    BY <1>2 DEF Windows!PageSafe
  <1> QED BY <1>1, <1>2 DEF Windows!SessionSound

LEMMA SupersedeYieldKeep ==
  ASSUME Windows!WindowInv, NEW c \in Collectors, Windows!Supersede(c) \/ Windows!Yield(c)
  PROVE  Windows!WindowInv'
  BY DispositionKeeps DEF Windows!Supersede, Windows!Yield

LEMMA BeginKeeps ==
  ASSUME Windows!WindowInv, NEW c \in Collectors, Windows!Begin(c)
  PROVE  Windows!WindowInv'
  <1>1. Tables /\ Sessions /\ TypedTables /\ wfaults \in 0 .. MaxPollFaults
    BY WindowParts DEF Tables
  <1> DEFINE begun == [col[c] EXCEPT !.pc = "begun", !.rev = progress.rev, !.cursor = progress.cursor,
                                     !.window = progress.window]
  <1>2. /\ col' = [col EXCEPT ![c] = begun] /\ col[c].pc = "claimed"
        /\ UNCHANGED <<now, runs, policy, admitted, schedule, poll, progress, pages, rows, ambiguous,
                       status, coverage, ingested, wfaults>>
    BY DEF Windows!Begin, Windows!sourceVars, Windows!policyVars, Windows!intakeVars, Windows!publishedVars
  <1>3. progress.rev \in Nat /\ progress.window \in Windows!Window /\ progress.cursor \in Windows!Cursor
    BY <1>1 DEF TypedTables
  <1>4. col[c] \in Windows!Session /\ Windows!SessionSound(c)
    BY <1>1 DEF Sessions
  <1>p. PICK s \in Windows!Session : s = begun
    BY <1>3, <1>4 DEF Windows!Session, Windows!Steps
  <1>5. /\ s.pc = "begun" /\ s.rev = progress.rev /\ s.cursor = progress.cursor
        /\ s.window = progress.window /\ s.page = col[c].page /\ s.poll = col[c].poll
    BY <1>3, <1>4, <1>p DEF Windows!Session, Windows!Steps
  <1> HIDE DEF begun
  <1>6. col'[c] = s /\ col' = [col EXCEPT ![c] = s]
    BY <1>1, <1>2, <1>p DEF Sessions
  <1>7. Windows!Listed(s.cursor)' /\ Windows!Listed(s.page.cursor)' /\ s.page.rows \subseteq runs
    BY <1>1, <1>2, <1>4, <1>5 DEF Windows!SessionSound, Windows!Listed, Tables, Windows!ProgressKept
  <1>8. s.poll \in Windows!Polls' /\ poll'[s.poll].due <= now' /\ s.window.end <= now'
    BY <1>1, <1>2, <1>4, <1>5 DEF Windows!SessionSound, Tables, Windows!WindowPassed, Windows!Polls
  <1>9. Windows!SessionSound(c)'
    BY <1>2, <1>5, <1>6, <1>7, <1>8, SessionOf
  <1> QED BY <1>1, <1>2, <1>6, <1>9, CollectorSteps

LEMMA FrameTyped ==
  ASSUME TypedTables, NEW due \in Nat, due <= now
  PROVE  [start |-> Windows!WindowStart(due), end |-> due] \in Windows!Window
  <1>1. Lookback \in Nat /\ MaxTime \in Nat /\ now \in 0 .. MaxTime /\ coverage.through \in {-1} \cup 0 .. MaxTime
    BY WindowConstants DEF TypedTables
  <1> DEFINE y == IF coverage.through = -1 THEN due - Lookback
                  ELSE Windows!Min({due - Lookback, coverage.through})
  <1>2. y \in Int /\ y <= MaxTime
    <2>1. due - Lookback \in Int /\ due - Lookback <= MaxTime /\ coverage.through \in Int
      BY <1>1
    <2>2. Windows!Min({due - Lookback, coverage.through}) =
            IF due - Lookback <= coverage.through THEN due - Lookback ELSE coverage.through
      BY <2>1, PairMaxMin
    <2> QED BY <1>1, <2>1, <2>2
  <1>3. Windows!WindowStart(due) = Windows!Max({0, y})
    BY DEF Windows!WindowStart, Windows!Uncovered
  <1> HIDE DEF y
  <1>4. Windows!Max({0, y}) \in 0 .. MaxTime
    <2>1. Windows!Max({0, y}) = IF 0 >= y THEN 0 ELSE y
      BY <1>2, PairMaxMin
    <2> QED BY <1>1, <1>2, <2>1
  <1> QED BY <1>1, <1>3, <1>4 DEF Windows!Window, Windows!Times

LEMMA FrameKeeps ==
  ASSUME Windows!WindowInv, NEW c \in Collectors, Windows!Frame(c)
  PROVE  Windows!WindowInv'
  <1>1. Tables /\ Sessions /\ TypedTables /\ wfaults \in 0 .. MaxPollFaults
    BY WindowParts DEF Tables
  <1> DEFINE due == poll[col[c].poll].due
             fresh == [start |-> Windows!WindowStart(due), end |-> due]
             recorded == col[c].rev > 0 /\ col[c].cursor.kind = "none" /\ col[c].window = fresh
  <1>2. col[c].pc = "begun" /\ col[c] \in Windows!Session /\ Windows!SessionSound(c)
    BY <1>1 DEF Windows!Frame, Sessions
  <1>3. col[c].poll \in 1 .. Len(poll) /\ due <= now
    BY <1>1, <1>2, TableFacts DEF Windows!SessionSound
  <1>4. due \in Nat
    BY <1>1, <1>3, TableFacts, WindowConstants
  <1>5. ASSUME Windows!Owned(c), Windows!CurrentPolicy(c)
        PROVE  /\ Windows!Working(c) /\ col[c].poll = Len(poll) /\ admitted = policy
               /\ Windows!Live(Windows!Latest) /\ Windows!Latest = Len(poll)
               /\ col[c].rev = progress.rev /\ col[c].cursor = progress.cursor /\ col[c].window = progress.window
    BY <1>1, <1>2, <1>5, OwnerFacts DEF Windows!SessionSound, Windows!Working
  <1>6. CASE recorded
    <2>1. Windows!Disposition(c, "dispositioned")
      BY <1>6 DEF Windows!Frame
    <2>2. ASSUME Windows!CurrentPolicy(c) PROVE FALSE
      <3>1. Windows!Owned(c)
        BY <2>1 DEF Windows!Disposition
      <3>2. progress.window.end = due /\ progress.rev > 0 /\ progress.cursor.kind = "none"
        BY <1>5, <1>6, <2>2, <3>1
      <3>3. progress.window.end < poll[Windows!Latest].due
        BY <1>1, <1>5, <2>2, <3>1, <3>2 DEF Tables, Windows!WindowPassed
      <3>4. progress.window.end < due
        BY <1>5, <2>2, <3>1, <3>3
      <3> QED BY <1>4, <3>2, <3>4
    <2> QED BY <1>2, <2>1, <2>2, DispositionKeeps
  <1>7. CASE ~recorded
    <2> DEFINE window == IF col[c].cursor.kind = "none" THEN fresh ELSE col[c].window
               framed == [col[c] EXCEPT !.pc = "framed", !.window = window]
    <2>1. /\ col' = [col EXCEPT ![c] = framed]
          /\ UNCHANGED <<now, runs, policy, admitted, schedule, poll, progress, pages, rows, ambiguous,
                         status, coverage, ingested, wfaults>>
      BY <1>7 DEF Windows!Frame, Windows!sourceVars, Windows!policyVars, Windows!intakeVars, Windows!publishedVars
    <2>2. window \in Windows!Window /\ window.end <= now
      <3>1. fresh \in Windows!Window /\ fresh.end <= now
        BY <1>1, <1>3, <1>4, FrameTyped
      <3>2. col[c].window \in Windows!Window /\ col[c].window.end <= now
        BY <1>2 DEF Windows!SessionSound, Windows!Session
      <3> HIDE DEF fresh
      <3> QED BY <3>1, <3>2
    <2>3. Windows!Owned(c) /\ Windows!CurrentPolicy(c) =>
            /\ col[c].cursor.kind # "none" => window = progress.window
            /\ window.end <= due
      <3> SUFFICES ASSUME Windows!Owned(c), Windows!CurrentPolicy(c)
                   PROVE  /\ col[c].cursor.kind # "none" => window = progress.window
                          /\ window.end <= due
        OBVIOUS
      <3>1. CASE col[c].cursor.kind = "none"
        BY <1>4, <3>1
      <3>2. CASE col[c].cursor.kind # "none"
        <4>1. window = progress.window
          BY <1>5, <3>2
        <4>2. progress.window.end <= poll[Windows!Latest].due
          BY <1>1, <1>5, <3>2 DEF Tables, Windows!WindowPassed
        <4> QED BY <1>5, <4>1, <4>2
      <3> QED BY <3>1, <3>2
    <2> HIDE DEF window
    <2>p. PICK s \in Windows!Session : s = framed
      BY <1>2, <2>2 DEF Windows!Session, Windows!Steps
    <2>4. /\ s.pc = "framed" /\ s.rev = col[c].rev /\ s.cursor = col[c].cursor
          /\ s.window = window /\ s.page = col[c].page /\ s.poll = col[c].poll
      BY <1>2, <2>2, <2>p DEF Windows!Session, Windows!Steps
    <2> HIDE DEF framed
    <2>5. col'[c] = s /\ col' = [col EXCEPT ![c] = s]
      BY <1>1, <2>1, <2>p DEF Sessions
    <2>6. Windows!Listed(s.cursor)' /\ Windows!Listed(s.page.cursor)' /\ s.page.rows \subseteq runs
      BY <1>2, <2>1, <2>4 DEF Windows!SessionSound, Windows!Listed
    <2>7. s.poll \in Windows!Polls' /\ poll'[s.poll].due <= now' /\ s.window.end <= now'
      BY <1>2, <2>1, <2>2, <2>4 DEF Windows!SessionSound, Windows!Polls
    <2>8. Windows!Working(c)' =>
            /\ s.rev = progress'.rev /\ s.cursor = progress'.cursor
            /\ s.cursor.kind # "none" => s.window = progress'.window
            /\ s.window.end <= poll'[s.poll].due
      BY <1>5, <2>1, <2>3, <2>4, <2>5 DEF Windows!Working, Windows!Owned, Windows!CurrentPolicy
    <2>9. Windows!SessionSound(c)'
      BY <2>1, <2>4, <2>5, <2>6, <2>7, <2>8, SessionOf
    <2> QED BY <1>1, <2>1, <2>5, <2>9, CollectorSteps
  <1> QED BY <1>6, <1>7

LEMMA ReadKeeps ==
  ASSUME Windows!WindowInv, NEW c \in Collectors, Windows!Read(c)
  PROVE  Windows!WindowInv'
  <1>1. Tables /\ Sessions /\ TypedTables /\ wfaults \in 0 .. MaxPollFaults
    BY WindowParts DEF Tables
  <1>2. PICK outcome \in {"clean", "gap", "alias"} :
          /\ IF outcome = "clean" THEN UNCHANGED wfaults ELSE Windows!Fault
          /\ col' = [col EXCEPT ![c].pc = "read", ![c].page = Windows!ReadPage(c, outcome)]
    BY DEF Windows!Read
  <1> DEFINE page == Windows!ReadPage(c, outcome)
             done == [col[c] EXCEPT !.pc = "read", !.page = page]
  <1>3. col[c].pc = "framed" /\ col[c] \in Windows!Session /\ Windows!SessionSound(c)
    BY <1>1 DEF Windows!Read, Sessions
  <1>4. /\ col' = [col EXCEPT ![c] = done]
        /\ UNCHANGED <<now, runs, policy, admitted, schedule, poll, progress, pages, rows, ambiguous,
                       status, coverage, ingested>>
    BY <1>2 DEF Windows!Read, Windows!sourceVars, Windows!policyVars, Windows!intakeVars, Windows!publishedVars
  <1>5. (wfaults \in 0 .. MaxPollFaults)'
    BY <1>1, <1>2, WindowConstants DEF Windows!Fault
  <1>6. PageGood(c, page)
    <2>1. Windows!TypeOK
      BY <1>1, TablesTyped DEF Sessions
    <2>2. runs \subseteq 1 .. now /\ Windows!Listed(col[c].cursor)
      BY <1>1, <1>3 DEF Tables, Windows!TimePassed, Windows!SessionSound
    <2> QED BY <2>1, <2>2, PageRead
  <1> HIDE DEF page
  <1>p. PICK s \in Windows!Session : s = done
    BY <1>3, <1>6 DEF PageGood, Windows!Session, Windows!Steps
  <1>7. /\ s.pc = "read" /\ s.rev = col[c].rev /\ s.cursor = col[c].cursor
        /\ s.window = col[c].window /\ s.page = page /\ s.poll = col[c].poll
    BY <1>3, <1>6, <1>p DEF PageGood, Windows!Session, Windows!Steps
  <1> HIDE DEF done
  <1>8. col'[c] = s /\ col' = [col EXCEPT ![c] = s]
    BY <1>1, <1>4, <1>p DEF Sessions
  <1>9. Windows!Listed(s.cursor)' /\ Windows!Listed(s.page.cursor)' /\ s.page.rows \subseteq runs
    BY <1>3, <1>4, <1>6, <1>7 DEF Windows!SessionSound, Windows!Listed, PageGood
  <1>10. s.poll \in Windows!Polls' /\ poll'[s.poll].due <= now' /\ s.window.end <= now'
    BY <1>3, <1>4, <1>7 DEF Windows!SessionSound, Windows!Polls
  <1>11. ASSUME Windows!Working(c)'
         PROVE  /\ s.rev = progress'.rev /\ s.cursor = progress'.cursor
                /\ s.cursor.kind # "none" => s.window = progress'.window
                /\ s.window.end <= poll'[s.poll].due
                /\ Windows!PageSafe(s)'
    <2>1. Windows!Working(c)
      BY <1>3, <1>4, <1>7, <1>8, <1>11 DEF Windows!Working, Windows!Owned, Windows!CurrentPolicy
    <2>2. /\ col[c].rev = progress.rev /\ col[c].cursor = progress.cursor
          /\ col[c].cursor.kind # "none" => col[c].window = progress.window
          /\ col[c].window.end <= poll[col[c].poll].due
      BY <1>3, <2>1 DEF Windows!SessionSound
    <2>3. col[c].cursor.kind = "next" => Windows!Kept(col[c].window, col[c].cursor, {})
      BY <1>1, <2>2 DEF Tables, Windows!ProgressKept
    <2>4. Windows!PageSafe([window |-> col[c].window, page |-> page])
      BY <1>6, <2>3 DEF PageGood
    <2>5. Windows!PageSafe(s)
      BY <1>7, <2>4 DEF Windows!PageSafe
    <2>6. Windows!PageSafe(s)'
      BY <1>4, <2>5 DEF Windows!PageSafe, Windows!Kept, Windows!Staged, Windows!Replaced, Windows!Dropped,
         Windows!Polls, Windows!Latest
    <2> QED BY <1>4, <1>7, <2>2, <2>6
  <1>12. Windows!SessionSound(c)'
    BY <1>4, <1>7, <1>8, <1>9, <1>10, <1>11, SessionOf
  <1> QED BY <1>4, <1>5, <1>8, <1>12, CollectorSteps

-----------------------------------------------------------------------------
(* The clock and the policy. *)

LEMMA TickKeeps ==
  ASSUME Windows!WindowInv, Windows!Tick
  PROVE  Windows!WindowInv'
  <1>1. Tables /\ Sessions /\ TypedTables /\ wfaults \in 0 .. MaxPollFaults
    BY WindowParts DEF Tables
  <1>2. /\ now < MaxTime /\ now' = now + 1 /\ runs' = runs \cup ({now + 1} \cap Finishes)
        /\ UNCHANGED <<policy, admitted, schedule, poll, progress, pages, rows, ambiguous,
                       status, coverage, ingested, col, wfaults>>
    BY DEF Windows!Tick, Windows!policyVars, Windows!intakeVars, Windows!publishedVars
  <1>3. now \in 0 .. MaxTime /\ now' \in 0 .. MaxTime /\ now <= now' /\ runs \subseteq 1 .. now
    BY <1>1, <1>2, WindowConstants DEF TypedTables, Tables, Windows!TimePassed
  <1>4. /\ runs \subseteq runs' /\ runs' \subseteq 1 .. now' /\ runs' \subseteq 0 .. MaxTime
        /\ \A r \in runs' : r \in runs \/ r > now
    <2>1. \A r \in runs' : r \in runs \/ r = now + 1
      BY <1>2
    <2>2. \A r \in runs : r \in 1 .. now
      BY <1>3
    <2>3. ASSUME NEW r \in runs' PROVE r \in 1 .. now' /\ r \in 0 .. MaxTime /\ (r \in runs \/ r > now)
      <3>1. CASE r \in runs
        BY <1>2, <1>3, <2>2, <3>1, WindowConstants
      <3>2. CASE r = now + 1
        BY <1>2, <1>3, <3>2, WindowConstants
      <3> QED BY <2>1, <2>3, <3>1, <3>2
    <2> QED BY <1>2, <2>3
  <1>5. TypedTables'
    BY <1>1, <1>2, <1>3, <1>4 DEF TypedTables
  <1>6. Windows!Polls' = Windows!Polls /\ Windows!Latest' = Windows!Latest /\ Windows!Polls = 1 .. Len(poll)
    BY <1>1, <1>2, TableFacts DEF Windows!Polls, Windows!Latest
  <1>7. \A r : Windows!Replaced(r)' = Windows!Replaced(r) /\ Windows!Staged(r)' = Windows!Staged(r)
    BY <1>2, <1>6 DEF Windows!Replaced, Windows!Staged
  <1>8. ASSUME NEW r \in runs', NEW t \in Int, t <= now, r <= t PROVE r \in runs
    <2>1. r \in Nat
      BY <1>4, WindowConstants
    <2> QED BY <1>3, <1>4, <1>8, <2>1
  <1>9. Windows!CoverageAccounted' /\ Windows!ValidatedIsWhole' /\ Windows!TimePassed'
    <2>1. coverage.through \in Int /\ coverage.through <= now
      BY <1>1, WindowConstants DEF TypedTables, Tables, Windows!TimePassed
    <2>2. \A r \in runs' : r <= coverage.through => r \in runs
      BY <1>8, <2>1
    <2>3. Windows!CoverageAccounted'
      BY <1>1, <1>2, <1>6, <2>2 DEF Tables, Windows!CoverageAccounted
    <2>4. Windows!ValidatedIsWhole'
      BY <1>1, <1>2, <1>6 DEF Tables, Windows!ValidatedIsWhole
    <2>5. coverage.through <= now'
      BY <1>3, <2>1
    <2> QED BY <1>1, <1>2, <1>4, <2>3, <2>4, <2>5 DEF Tables, Windows!TimePassed
  <1>10. Windows!PollsSound'
    <2>1. ASSUME NEW w \in 1 .. Len(poll) PROVE Windows!PollSound(w)'
      <3>1. Windows!PollSound(w)
        BY <1>1, <1>6 DEF Tables, Windows!PollsSound
      <3>2. poll[w].due <= now => poll[w].due <= now'
        BY <1>1, <1>3, TableFacts, WindowConstants
      <3> QED BY <1>2, <1>4, <1>6, <3>1, <3>2 DEF Windows!PollSound, Windows!Live
    <2> QED BY <1>6, <2>1 DEF Windows!PollsSound
  <1>11. Windows!Continues'
    BY <1>1, <1>2, <1>6 DEF Tables, Windows!Continues, Windows!Live, Windows!DueSlot
  <1>w. progress.window \in Windows!Window /\ progress.window.end \in 0 .. MaxTime /\ progress.window.end <= now
    BY <1>1 DEF TypedTables, Tables, Windows!WindowPassed, Windows!Window, Windows!Times
  <1>12. Windows!WindowPassed'
    <2>1. progress.window.end <= now'
      BY <1>3, <1>w
    <2> QED BY <1>1, <1>2, <1>6, <2>1 DEF Tables, Windows!WindowPassed, Windows!Live
  <1>13. Windows!ProgressKept'
    <2>1. Windows!Listed(progress.cursor)'
      BY <1>1, <1>2, <1>4 DEF Tables, Windows!ProgressKept, Windows!Listed
    <2>2. ASSUME progress.cursor.kind = "next"
          PROVE  Windows!Kept(progress.window, progress.cursor, {})'
      <3>1. PICK window \in Windows!Window : window = progress.window
        BY <1>w
      <3>2. PICK cursor : cursor = progress.cursor
        OBVIOUS
      <3>3. Windows!Kept(window, cursor, {})
        BY <1>1, <2>2, <3>1, <3>2 DEF Tables, Windows!ProgressKept
      <3>4. \A r \in runs' : window.start < r /\ r <= window.end =>
              r \in cursor.rest \/ r \in {} \/ Windows!Staged(r)' \/ Windows!Dropped(r, cursor)
        BY <1>3, <1>4, <1>7, <1>w, <3>1, <3>3, KeptStays
      <3> QED BY <1>2, <3>1, <3>2, <3>4 DEF Windows!Kept, Windows!Dropped
    <2> QED BY <1>2, <2>1, <2>2 DEF Windows!ProgressKept
  <1>14. Windows!WindowsKept'
    <2>1. \A r \in runs' : r <= progress.window.end => r \in runs
      BY <1>8, <1>w, WindowConstants
    <2>2. ASSUME NEW w \in 1 .. Len(poll), NEW i \in DOMAIN pages[w] PROVE Windows!PageKept(w, pages[w][i])'
      <3>1. Windows!PageKept(w, pages[w][i])
        BY <1>1, <1>6 DEF Tables, Windows!WindowsKept
      <3> QED BY <1>2, <1>7, <2>1, <3>1 DEF Windows!PageKept
    <2> QED BY <1>2, <1>6, <2>2 DEF Windows!WindowsKept
  <1>15. Tables'
    BY <1>5, <1>9, <1>10, <1>11, <1>12, <1>13, <1>14 DEF Tables
  <1>16. ASSUME NEW d \in Collectors PROVE Windows!SessionSound(d)'
    <2>1. Windows!Working(d)' => Windows!Working(d)
      BY <1>2 DEF Windows!Working, Windows!Owned, Windows!CurrentPolicy
    <2>2. Len(poll) <= Len(poll')
      BY <1>1, <1>2, TableFacts
    <2> QED BY <1>1, <1>2, <1>3, <1>4, <1>5, <1>7, <2>1, <2>2, SessionStays
  <1>17. Sessions'
    BY <1>1, <1>2, <1>16 DEF Sessions
  <1> QED BY <1>1, <1>2, <1>15, <1>17, WindowParts

LEMMA ChangePolicyKeeps ==
  ASSUME Windows!WindowInv, Windows!ChangePolicy
  PROVE  Windows!WindowInv'
  <1>1. Tables /\ Sessions /\ TypedTables /\ wfaults \in 0 .. MaxPollFaults
    BY WindowParts DEF Tables
  <1>2. /\ policy < MaxPolicy /\ admitted = policy /\ policy' = policy + 1
        /\ UNCHANGED <<now, runs, admitted, schedule, poll, progress, pages, rows, ambiguous,
                       status, coverage, ingested, col, wfaults>>
    BY DEF Windows!ChangePolicy, Windows!sourceVars, Windows!intakeVars, Windows!publishedVars
  <1>3. policy \in Nat \ {0} /\ policy \in 1 .. MaxPolicy /\ MaxPolicy \in Nat
    BY <1>1, WindowConstants DEF TypedTables
  <1>4. TypedTables'
    <2>1. policy' \in 1 .. MaxPolicy /\ admitted' \in 1 .. policy'
      BY <1>2, <1>3
    <2> QED BY <1>1, <1>2, <2>1 DEF TypedTables
  <1>5. Windows!Polls' = Windows!Polls /\ Windows!Latest' = Windows!Latest /\ Windows!Polls = 1 .. Len(poll)
    BY <1>1, <1>2, TableFacts DEF Windows!Polls, Windows!Latest
  <1>6. \A w \in 1 .. Len(poll) : poll[w].policy \in Nat /\ poll[w].policy <= policy /\ poll[w].policy # policy'
    <2>1. ASSUME NEW w \in 1 .. Len(poll) PROVE poll[w].policy \in Nat /\ poll[w].policy <= policy
      BY <1>1, <1>2, <1>5, TableFacts, WindowConstants DEF Tables, Windows!PollsSound, Windows!PollSound
    <2> QED BY <1>2, <1>3, <2>1
  <1>7. \A r : (Windows!Replaced(r) => Windows!Replaced(r)') /\ (Windows!Staged(r) => Windows!Staged(r)')
    <2>1. \A w \in 1 .. Len(poll) : poll[w].policy < policy => poll[w].policy < policy'
      BY <1>2, <1>3, <1>6
    <2> QED BY <1>2, <1>5, <2>1 DEF Windows!Replaced, Windows!Staged
  <1>8. Windows!CoverageAccounted'
    <2>1. \A w \in 1 .. Len(poll) : poll[w].policy < policy => poll[w].policy < policy'
      BY <1>2, <1>3, <1>6
    <2> QED BY <1>1, <1>2, <1>5, <2>1 DEF Tables, Windows!CoverageAccounted
  <1>9. Windows!ValidatedIsWhole' /\ Windows!TimePassed'
    BY <1>1, <1>2, <1>5 DEF Tables, Windows!ValidatedIsWhole, Windows!TimePassed
  <1>10. Windows!PollsSound'
    <2>1. ASSUME NEW w \in 1 .. Len(poll) PROVE Windows!PollSound(w)'
      <3>1. Windows!PollSound(w)
        BY <1>1, <1>5 DEF Tables, Windows!PollsSound
      <3> QED BY <1>2, <1>5, <1>6, <3>1 DEF Windows!PollSound, Windows!Live
    <2> QED BY <1>5, <2>1 DEF Windows!PollsSound
  <1>11. admitted' # policy' /\ schedule'.policy # policy'
    <2>1. schedule.policy <= policy /\ schedule.policy \in 0 .. MaxPolicy
      BY <1>1, <1>2 DEF Tables, Windows!TimePassed, TypedTables
    <2> QED BY <1>2, <1>3, <2>1
  <1>12. Windows!Continues'
    BY <1>11 DEF Windows!Continues
  <1>13. Windows!WindowPassed'
    BY <1>1, <1>2, <1>5, <1>11 DEF Tables, Windows!WindowPassed
  <1>14. Windows!ProgressKept'
    <2>1. Windows!Listed(progress.cursor)'
      BY <1>1, <1>2 DEF Tables, Windows!ProgressKept, Windows!Listed
    <2>2. ASSUME progress.cursor.kind = "next"
          PROVE  Windows!Kept(progress.window, progress.cursor, {})'
      BY <1>1, <1>2, <1>7, <2>2 DEF Tables, Windows!ProgressKept, Windows!Kept, Windows!Dropped
    <2> QED BY <1>2, <2>1, <2>2 DEF Windows!ProgressKept
  <1>15. Windows!WindowsKept'
    <2>1. ASSUME NEW w \in 1 .. Len(poll), NEW i \in DOMAIN pages[w] PROVE Windows!PageKept(w, pages[w][i])'
      <3>1. Windows!PageKept(w, pages[w][i])
        BY <1>1, <1>5 DEF Tables, Windows!WindowsKept
      <3> QED BY <1>2, <1>7, <3>1 DEF Windows!PageKept
    <2> QED BY <1>2, <1>5, <2>1 DEF Windows!WindowsKept
  <1>16. Tables'
    BY <1>4, <1>8, <1>9, <1>10, <1>12, <1>13, <1>14, <1>15 DEF Tables
  <1>17. ASSUME NEW d \in Collectors PROVE Windows!SessionSound(d)'
    <2>1. ASSUME Windows!Working(d)' PROVE FALSE
      <3>1. col[d].pc # "idle" /\ poll[col[d].poll].policy = policy'
        BY <1>2, <2>1 DEF Windows!Working, Windows!CurrentPolicy
      <3>2. col[d].poll \in 1 .. Len(poll)
        BY <1>1, <1>5, <3>1 DEF Sessions, Windows!SessionSound
      <3> QED BY <1>6, <3>1, <3>2
    <2>2. Len(poll) <= Len(poll') /\ now <= now'
      BY <1>1, <1>2, TableFacts
    <2> QED BY <1>1, <1>2, <1>4, <2>1, <2>2, SessionStays
  <1>18. Sessions'
    BY <1>1, <1>2, <1>17 DEF Sessions
  <1> QED BY <1>1, <1>2, <1>16, <1>18, WindowParts

-----------------------------------------------------------------------------
(* What a decision about a window may change. *)

\* The pages with one of them decided: their evidence is as it was accepted.
Agree(p) ==
  /\ \A v \in 1 .. Len(poll) : Len(p[v]) = Len(pages[v])
  /\ \A v \in 1 .. Len(poll) : \A j \in 1 .. Len(pages[v]) :
       /\ p[v][j].policy = pages[v][j].policy /\ p[v][j].rev = pages[v][j].rev
       /\ p[v][j].last = pages[v][j].last /\ p[v][j].complete = pages[v][j].complete
       /\ p[v][j].exhausted = pages[v][j].exhausted

\* And all of them but page i of window w are the same.
AgreeExcept(p, w, i) ==
  /\ p \in Seq(Seq(Windows!Page)) /\ Len(p) = Len(poll) /\ Agree(p)
  /\ \A v \in 1 .. Len(poll) : v # w => p[v] = pages[v]
  /\ \A j \in 1 .. Len(pages[w]) : j # i => p[w][j] = pages[w][j]

\* Page i of window w replaced by q, that has its evidence.
Replaced(p, q, w, i) ==
  /\ q \in Windows!Page /\ q.policy = pages[w][i].policy /\ q.rev = pages[w][i].rev
  /\ q.last = pages[w][i].last /\ q.complete = pages[w][i].complete /\ q.exhausted = pages[w][i].exhausted
  /\ p = [pages EXCEPT ![w] = [pages[w] EXCEPT ![i] = q]]

LEMMA PageReplaced ==
  ASSUME TypedTables, NEW w \in 1 .. Len(poll), NEW i \in DOMAIN pages[w], NEW p, NEW q, Replaced(p, q, w, i)
  PROVE  AgreeExcept(p, w, i) /\ p[w][i] = q
  <1> USE DEF Replaced
  <1>1. pages \in Seq(Seq(Windows!Page)) /\ w \in 1 .. Len(pages) /\ Len(pages) = Len(poll)
    BY DEF TypedTables
  <1>2. pages[w] \in Seq(Windows!Page) /\ DOMAIN pages[w] = 1 .. Len(pages[w])
    BY TableFacts
  <1> DEFINE new == [pages[w] EXCEPT ![i] = q]
  <1>3. /\ new \in Seq(Windows!Page) /\ Len(new) = Len(pages[w])
        /\ \A j \in 1 .. Len(pages[w]) : new[j] = IF j = i THEN q ELSE pages[w][j]
    BY <1>2, ExceptSeq
  <1>4. p = [pages EXCEPT ![w] = new]
    OBVIOUS
  <1> HIDE DEF new
  <1>5. /\ p \in Seq(Seq(Windows!Page)) /\ Len(p) = Len(pages)
        /\ \A v \in 1 .. Len(pages) : p[v] = IF v = w THEN new ELSE pages[v]
    <2>1. PICK T : T = Seq(Windows!Page)
      OBVIOUS
    <2>2. PICK e : e = new
      OBVIOUS
    <2>3. pages \in Seq(T) /\ w \in 1 .. Len(pages) /\ e \in T /\ p = [pages EXCEPT ![w] = e]
      BY <1>1, <1>3, <1>4, <2>1, <2>2
    <2>4. /\ p \in Seq(T) /\ Len(p) = Len(pages)
          /\ \A v \in 1 .. Len(pages) : p[v] = IF v = w THEN e ELSE pages[v]
      BY <2>3, ExceptSeq
    <2> QED BY <2>1, <2>2, <2>4
  <1>6. Agree(p)
    <2>1. \A v \in 1 .. Len(poll) : Len(p[v]) = Len(pages[v])
      BY <1>1, <1>3, <1>5
    <2>2. ASSUME NEW v \in 1 .. Len(poll), NEW j \in 1 .. Len(pages[v])
          PROVE  /\ p[v][j].policy = pages[v][j].policy /\ p[v][j].rev = pages[v][j].rev
                 /\ p[v][j].last = pages[v][j].last /\ p[v][j].complete = pages[v][j].complete
                 /\ p[v][j].exhausted = pages[v][j].exhausted
      <3>1. CASE v # w
        BY <1>1, <1>5, <3>1
      <3>2. CASE v = w
        BY <1>1, <1>3, <1>5, <3>2
      <3> QED BY <3>1, <3>2
    <2> QED BY <2>1, <2>2 DEF Agree
  <1> QED BY <1>1, <1>2, <1>3, <1>5, <1>6 DEF AgreeExcept

LEMMA DecidedPages ==
  ASSUME TypedTables, NEW w \in 1 .. Len(poll), NEW i \in DOMAIN pages[w],
         NEW decision \in {"pending", "held", "published", "rejected"},
         NEW work \in {"queued", "waiting", "completed"},
         NEW p, p = Windows!Decided(w, i, decision, work)
  PROVE  AgreeExcept(p, w, i) /\ p[w][i].decision = decision /\ p[w][i].work = work
  <1>1. pages[w][i] \in Windows!Page
    <2>1. pages[w] \in Seq(Windows!Page) /\ i \in 1 .. Len(pages[w])
      BY TableFacts
    <2> QED BY <2>1, ElementOfSeq
  <1> DEFINE n == [pages[w][i] EXCEPT !.decision = decision, !.work = work]
  <1>2. p = [pages EXCEPT ![w] = [pages[w] EXCEPT ![i] = n]]
    BY DEF Windows!Decided
  <1>3. PICK q \in Windows!Page : q = n
    BY <1>1 DEF Windows!Page
  <1>4. /\ q.policy = pages[w][i].policy /\ q.rev = pages[w][i].rev /\ q.last = pages[w][i].last
        /\ q.complete = pages[w][i].complete /\ q.exhausted = pages[w][i].exhausted
        /\ q.decision = decision /\ q.work = work
    BY <1>1, <1>3 DEF Windows!Page
  <1> HIDE DEF n
  <1>5. Replaced(p, q, w, i)
    BY <1>2, <1>3, <1>4 DEF Replaced
  <1>6. AgreeExcept(p, w, i) /\ p[w][i] = q
    BY <1>5, PageReplaced
  <1> QED BY <1>4, <1>6

LEMMA CompletedPages ==
  ASSUME TypedTables, NEW w \in 1 .. Len(poll), NEW i \in DOMAIN pages[w],
         NEW p, p = [pages EXCEPT ![w][i].work = "completed"]
  PROVE  AgreeExcept(p, w, i)
  <1>1. pages[w][i] \in Windows!Page
    <2>1. pages[w] \in Seq(Windows!Page) /\ i \in 1 .. Len(pages[w])
      BY TableFacts
    <2> QED BY <2>1, ElementOfSeq
  <1> DEFINE n == [pages[w][i] EXCEPT !.work = "completed"]
  <1>2. p = [pages EXCEPT ![w] = [pages[w] EXCEPT ![i] = n]]
    OBVIOUS
  <1>3. PICK q \in Windows!Page : q = n
    BY <1>1 DEF Windows!Page
  <1>4. /\ q.policy = pages[w][i].policy /\ q.rev = pages[w][i].rev /\ q.last = pages[w][i].last
        /\ q.complete = pages[w][i].complete /\ q.exhausted = pages[w][i].exhausted
    BY <1>1, <1>3 DEF Windows!Page
  <1> HIDE DEF n
  <1>5. Replaced(p, q, w, i)
    BY <1>2, <1>3, <1>4 DEF Replaced
  <1> QED BY <1>5, PageReplaced

\* A decision about window w: the other windows keep their status, a window is
\* validated as a whole, and the coverage moves over runs that are accounted for.
Settles(w) ==
  /\ \A v \in 1 .. Len(poll) : v # w => status'[v] = status[v]
  /\ Agree(pages')
  /\ status'[w] = "validated" =>
       /\ poll[w].state = "completed" /\ rows[w] \subseteq ingested'
       /\ \E j \in 1 .. Len(pages[w]) : pages[w][j].last /\ pages[w][j].complete
  /\ coverage' \in [from: {-1} \cup 0 .. MaxTime, through: {-1} \cup 0 .. MaxTime]
  /\ coverage'.through <= now
  /\ ingested \subseteq ingested' /\ ingested' \subseteq runs
  /\ \A r \in runs : coverage'.from < r /\ r <= coverage'.through => r \in ingested' \/ Windows!Replaced(r)
  /\ UNCHANGED <<now, runs, policy, schedule, progress, ambiguous>>

\* Nothing is published, and the window is at most rejected.
LEMMA SettledUnpublished ==
  ASSUME Tables, NEW w \in 1 .. Len(poll), Agree(pages'),
         \A v \in 1 .. Len(poll) : v # w => status'[v] = status[v],
         status'[w] = "validated" => status[w] = "validated",
         UNCHANGED <<now, runs, policy, schedule, progress, ambiguous, coverage, ingested>>
  PROVE  Settles(w)
  <1>1. TypedTables
    BY DEF Tables
  <1>2. Windows!Polls = 1 .. Len(poll) /\ DOMAIN pages[w] = 1 .. Len(pages[w])
    BY <1>1, TableFacts
  <1>3. ASSUME status'[w] = "validated"
        PROVE  /\ poll[w].state = "completed" /\ rows[w] \subseteq ingested'
               /\ \E j \in 1 .. Len(pages[w]) : pages[w][j].last /\ pages[w][j].complete
    BY <1>2, <1>3 DEF Tables, Windows!ValidatedIsWhole, Windows!PollsSound, Windows!PollSound
  <1>4. \A r \in runs : coverage.from < r /\ r <= coverage.through => r \in ingested \/ Windows!Replaced(r)
    BY DEF Tables, Windows!CoverageAccounted, Windows!Replaced
  <1>5. coverage.through <= now /\ ingested \subseteq runs
    BY DEF Tables, Windows!TimePassed, TypedTables
  <1>6. coverage \in [from: {-1} \cup 0 .. MaxTime, through: {-1} \cup 0 .. MaxTime]
    BY <1>1 DEF TypedTables
  <1> QED BY <1>3, <1>4, <1>5, <1>6 DEF Settles

-----------------------------------------------------------------------------
(* A decision that schedules no poll. *)

\* The closing page of the latest poll is still to be decided.
StillOpen(p, s) ==
  LET L == Len(poll)  last == Len(pages[L]) IN
  /\ s[L] = status[L]
  /\ last # 0 => /\ pages[L][last].work # "completed" => p[L][last].work # "completed"
                 /\ pages[L][last].decision \in {"pending", "held"} /\ Adapter = "memory" =>
                      p[L][last].decision \in {"pending", "held"}

LEMMA SettledParts ==
  ASSUME Tables, NEW w \in 1 .. Len(poll), Settles(w)
  PROVE  /\ TypedTables /\ TypedTables => Windows!Polls = 1 .. Len(poll)
         /\ \A v \in 1 .. Len(poll) : Windows!PollSound(v) /\ DOMAIN pages[v] = 1 .. Len(pages[v])
         /\ \A v \in 1 .. Len(poll) : status'[v] = "validated" =>
              /\ poll[v].state = "completed" /\ rows[v] \subseteq ingested'
              /\ \E j \in 1 .. Len(pages[v]) : pages[v][j].last /\ pages[v][j].complete
  <1>1. TypedTables /\ Windows!Polls = 1 .. Len(poll)
    BY TableFacts DEF Tables
  <1>2. \A v \in 1 .. Len(poll) : Windows!PollSound(v) /\ DOMAIN pages[v] = 1 .. Len(pages[v])
    BY <1>1, TableFacts DEF Tables, Windows!PollsSound
  <1>3. ASSUME NEW v \in 1 .. Len(poll), status'[v] = "validated"
        PROVE  /\ poll[v].state = "completed" /\ rows[v] \subseteq ingested'
               /\ \E j \in 1 .. Len(pages[v]) : pages[v][j].last /\ pages[v][j].complete
    <2>1. CASE v = w
      BY <1>3, <2>1 DEF Settles
    <2>2. CASE v # w
      <3>1. status[v] = "validated" /\ ingested \subseteq ingested'
        BY <1>3, <2>2 DEF Settles
      <3>2. poll[v].state = "completed"
        BY <1>2, <3>1 DEF Windows!PollSound
      <3>3. /\ rows[v] \subseteq ingested
            /\ \E j \in DOMAIN pages[v] : pages[v][j].last /\ pages[v][j].complete
        BY <1>1, <3>1 DEF Tables, Windows!ValidatedIsWhole
      <3> QED BY <1>2, <3>1, <3>2, <3>3
    <2> QED BY <2>1, <2>2
  <1> QED BY <1>1, <1>2, <1>3

LEMMA SettledTables ==
  ASSUME Tables, NEW w \in 1 .. Len(poll), Settles(w), UNCHANGED <<poll, rows, admitted>>,
         pages' \in Seq(Seq(Windows!Page)), Len(pages') = Len(poll),
         status' \in Seq({"open", "validated", "rejected"}), Len(status') = Len(poll),
         admitted = policy => StillOpen(pages', status')
  PROVE  Tables'
  <1>1. /\ TypedTables /\ Windows!Polls = 1 .. Len(poll)
        /\ Windows!Polls' = 1 .. Len(poll) /\ Windows!Latest' = Len(poll) /\ Windows!Latest = Len(poll)
        /\ Len(poll) \in 1 .. Len(poll)
    BY TableFacts DEF Tables, Windows!Polls, Windows!Latest, Windows!TimePassed
  <1>2. UNCHANGED <<now, runs, policy, schedule, progress, ambiguous>>
    BY DEF Settles
  <1>3. TypedTables'
    BY <1>1, <1>2 DEF TypedTables, Settles
  <1>4. \A v \in 1 .. Len(poll) : DOMAIN pages'[v] = 1 .. Len(pages[v]) /\ Len(pages'[v]) = Len(pages[v])
    <2>1. ASSUME NEW v \in 1 .. Len(poll)
          PROVE  DOMAIN pages'[v] = 1 .. Len(pages[v]) /\ Len(pages'[v]) = Len(pages[v])
      <3>1. pages'[v] \in Seq(Windows!Page)
        BY ElementOfSeq
      <3> QED BY <3>1, LenProperties DEF Settles, Agree
    <2> QED BY <2>1
  <1>5. \A v \in 1 .. Len(poll) : \A j \in 1 .. Len(pages[v]) :
          /\ pages'[v][j].policy = pages[v][j].policy /\ pages'[v][j].rev = pages[v][j].rev
          /\ pages'[v][j].last = pages[v][j].last /\ pages'[v][j].complete = pages[v][j].complete
          /\ pages'[v][j].exhausted = pages[v][j].exhausted
    BY DEF Settles, Agree
  <1>6. \A r : Windows!Replaced(r)' = Windows!Replaced(r) /\ Windows!Staged(r)' = Windows!Staged(r)
    BY <1>1, <1>2 DEF Windows!Replaced, Windows!Staged
  <1>7. Windows!CoverageAccounted'
    <2>1. \A r \in runs : coverage'.from < r /\ r <= coverage'.through => r \in ingested' \/ Windows!Replaced(r)'
      BY <1>6 DEF Settles
    <2> QED BY <1>2, <2>1 DEF Windows!CoverageAccounted, Windows!Replaced
  <1>8. Windows!ValidatedIsWhole'
    <2>1. ASSUME NEW v \in 1 .. Len(poll), status'[v] = "validated"
          PROVE  /\ rows'[v] \subseteq ingested'
                 /\ \E j \in DOMAIN pages'[v] : pages'[v][j].last /\ pages'[v][j].complete
      <3>1. /\ rows[v] \subseteq ingested'
            /\ \E j \in 1 .. Len(pages[v]) : pages[v][j].last /\ pages[v][j].complete
        BY <2>1, SettledParts
      <3> QED BY <1>4, <1>5, <3>1
    <2> QED BY <1>1, <2>1 DEF Windows!ValidatedIsWhole
  <1>9. Windows!TimePassed'
    <2>1. coverage'.through <= now
      BY DEF Settles
    <2> QED BY <1>2, <2>1 DEF Tables, Windows!TimePassed
  <1>10. Windows!PollsSound'
    <2>1. ASSUME NEW v \in 1 .. Len(poll) PROVE Windows!PollSound(v)'
      <3>1. Windows!PollSound(v) /\ (status'[v] = "validated" => poll[v].state = "completed")
        BY SettledParts
      <3>2. \A j \in DOMAIN pages'[v] :
              /\ pages'[v][j].policy = poll[v].policy /\ pages'[v][j].rev <= progress.rev
              /\ pages'[v][j].last <=> j = Len(pages'[v]) /\ poll[v].state = "completed"
        <4>1. DOMAIN pages[v] = 1 .. Len(pages[v])
          BY <1>1, TableFacts
        <4>2. \A j \in 1 .. Len(pages[v]) :
                /\ pages[v][j].policy = poll[v].policy /\ pages[v][j].rev <= progress.rev
                /\ pages[v][j].last <=> j = Len(pages[v]) /\ poll[v].state = "completed"
          BY <3>1, <4>1 DEF Windows!PollSound
        <4> SUFFICES ASSUME NEW j \in DOMAIN pages'[v]
                     PROVE  /\ pages'[v][j].policy = poll[v].policy /\ pages'[v][j].rev <= progress.rev
                            /\ pages'[v][j].last <=> j = Len(pages'[v]) /\ poll[v].state = "completed"
          OBVIOUS
        <4>3. j \in 1 .. Len(pages[v]) /\ Len(pages'[v]) = Len(pages[v])
          BY <1>4
        <4>4. /\ pages'[v][j].policy = pages[v][j].policy /\ pages'[v][j].rev = pages[v][j].rev
              /\ pages'[v][j].last = pages[v][j].last
          BY <1>5, <4>3
        <4> QED BY <4>2, <4>3, <4>4
      <3>3. poll[v].state = "completed" => pages'[v] # <<>>
        <4>1. pages[v] # <<>> <=> Len(pages[v]) # 0
          BY <1>1, TableFacts
        <4>2. pages'[v] \in Seq(Windows!Page)
          BY ElementOfSeq
        <4>3. pages'[v] # <<>> <=> Len(pages'[v]) # 0
          BY <4>2, EmptySeq
        <4> QED BY <1>4, <3>1, <4>1, <4>3 DEF Windows!PollSound
      <3> QED BY <1>1, <1>2, <3>1, <3>2, <3>3 DEF Windows!PollSound, Windows!Live
    <2> QED BY <1>1, <2>1 DEF Windows!PollsSound
  <1>11. Windows!Continues'
    <2> SUFFICES ASSUME admitted = policy PROVE Windows!Continues'
      BY <1>2 DEF Windows!Continues
    <2>p. PICK L, last : L = Len(poll) /\ last = Len(pages[L])
      OBVIOUS
    <2>1. /\ poll[L].policy = policy /\ status[L] = "open"
          /\ \/ Windows!Live(L) /\ poll[L].slot = Windows!DueSlot
             \/ /\ poll[L].state = "completed" /\ schedule.policy = policy
                /\ pages[L][last].work # "completed" /\ progress.cursor.kind = "none"
          /\ pages[L] # <<>> =>
               /\ pages[L][last].rev = progress.rev
               /\ Adapter = "memory" => pages[L][last].decision \in {"pending", "held"}
      BY <1>1, <2>p DEF Tables, Windows!Continues
    <2>2. /\ status'[L] = status[L]
          /\ last # 0 => /\ pages[L][last].work # "completed" => pages'[L][last].work # "completed"
                         /\ pages[L][last].decision \in {"pending", "held"} /\ Adapter = "memory" =>
                              pages'[L][last].decision \in {"pending", "held"}
      BY <2>p DEF StillOpen
    <2>3. last \in Nat /\ (pages[L] # <<>> <=> last # 0) /\ (last # 0 => last \in 1 .. Len(pages[L]))
      BY <1>1, <2>p, TableFacts
    <2>4. poll[L].state = "completed" => last # 0
      BY <1>1, <2>3, <2>p, SettledParts DEF Windows!PollSound
    <2>5. pages'[L] # <<>> <=> last # 0
      <3>1. pages'[L] \in Seq(Windows!Page)
        BY <1>1, <2>p, ElementOfSeq
      <3> QED BY <1>1, <1>4, <2>p, <3>1, EmptySeq
    <2>6. last # 0 => pages'[L][last].rev = pages[L][last].rev
      BY <1>1, <1>5, <2>3, <2>p
    <2>7. Windows!Live(L)' = Windows!Live(L) /\ Windows!DueSlot' = Windows!DueSlot /\ Len(pages'[L]) = last
      BY <1>1, <1>2, <1>4, <2>p DEF Windows!Live, Windows!DueSlot
    <2>8. /\ poll'[L].policy = policy' /\ status'[L] = "open"
          /\ \/ Windows!Live(L)' /\ poll'[L].slot = Windows!DueSlot'
             \/ /\ poll'[L].state = "completed" /\ schedule'.policy = policy'
                /\ pages'[L][last].work # "completed" /\ progress'.cursor.kind = "none"
      BY <1>2, <2>1, <2>2, <2>4, <2>7
    <2>9. pages'[L] # <<>> =>
            /\ pages'[L][last].rev = progress'.rev
            /\ Adapter = "memory" => pages'[L][last].decision \in {"pending", "held"}
      BY <1>2, <2>1, <2>2, <2>3, <2>5, <2>6
    <2>10. Windows!Latest' = L
      BY <1>1, <2>p
    <2> QED BY <2>7, <2>8, <2>9, <2>10 DEF Windows!Continues
  <1>12. Windows!WindowPassed'
    BY <1>1, <1>2 DEF Tables, Windows!WindowPassed, Windows!Live
  <1>13. Windows!ProgressKept'
    BY <1>2, <1>6 DEF Tables, Windows!ProgressKept, Windows!Listed, Windows!Kept, Windows!Dropped
  <1>14. Windows!WindowsKept'
    <2>1. ASSUME NEW v \in 1 .. Len(poll), NEW j \in 1 .. Len(pages[v]) PROVE Windows!PageKept(v, pages[v][j])'
      <3>1. Windows!PageKept(v, pages[v][j])
        BY <1>1, TableFacts DEF Tables, Windows!WindowsKept
      <3>2. /\ pages'[v][j].rev = pages[v][j].rev
            /\ pages'[v][j].last = pages[v][j].last /\ pages'[v][j].complete = pages[v][j].complete
            /\ pages'[v][j].exhausted = pages[v][j].exhausted
        BY <1>5
      <3> QED BY <1>2, <1>6, <3>1, <3>2 DEF Windows!PageKept
    <2> QED BY <1>1, <1>4, <2>1 DEF Windows!WindowsKept
  <1> QED BY <1>3, <1>7, <1>8, <1>9, <1>10, <1>11, <1>12, <1>13, <1>14 DEF Tables

LEMMA SettledSessions ==
  ASSUME Tables, Tables', Sessions, UNCHANGED <<now, runs, policy, progress, poll, rows, col>>
  PROVE  Sessions'
  <1>1. \A r : Windows!Staged(r)' = Windows!Staged(r)
    BY DEF Windows!Replaced, Windows!Staged, Windows!Polls, Windows!Latest
  <1>2. TypedTables /\ TypedTables' /\ Len(poll) <= Len(poll') /\ now <= now'
    BY TableFacts DEF Tables
  <1>3. ASSUME NEW d \in Collectors PROVE Windows!SessionSound(d)'
    <2>1. Windows!Working(d)' => Windows!Working(d)
      BY DEF Windows!Working, Windows!Owned, Windows!CurrentPolicy
    <2> QED BY <1>1, <1>2, <2>1, SessionStays
  <1> QED BY <1>3 DEF Sessions

-----------------------------------------------------------------------------
(* A poll is scheduled. *)

\* The polls of the slot that is due, and whether the slot has no live one.
SameSlot == {w \in 1 .. Len(poll) : poll[w].slot = Windows!DueSlot}
NoneDue == \A w \in SameSlot : ~(Windows!Live(w) /\ poll[w].policy = policy)

\* No poll of the current policy is live, and none of its continuations is in hand.
LEMMA NoneLive ==
  ASSUME Tables, NoneDue
  PROVE  /\ \A w \in 1 .. Len(poll) : ~(Windows!Live(w) /\ poll[w].policy = policy)
         /\ admitted = policy => progress.cursor.kind = "none" /\ schedule.policy = policy
  <1>1. Windows!Polls = 1 .. Len(poll) /\ Windows!Latest = Len(poll) /\ Len(poll) \in 1 .. Len(poll)
    BY TableFacts DEF Tables, Windows!TimePassed
  <1>2. admitted \in Nat /\ policy \in Nat /\ admitted <= policy
    BY TableFacts DEF Tables
  <1>3. ASSUME admitted = policy
        PROVE  /\ ~Windows!Live(Len(poll)) /\ progress.cursor.kind = "none" /\ schedule.policy = policy
    <2>1. /\ poll[Len(poll)].policy = policy
          /\ \/ Windows!Live(Len(poll)) /\ poll[Len(poll)].slot = Windows!DueSlot
             \/ /\ poll[Len(poll)].state = "completed" /\ schedule.policy = policy
                /\ progress.cursor.kind = "none"
      BY <1>1, <1>3 DEF Tables, Windows!Continues
    <2>2. ~(Windows!Live(Len(poll)) /\ poll[Len(poll)].slot = Windows!DueSlot)
      BY <1>1, <2>1 DEF NoneDue, SameSlot
    <2> QED BY <2>1, <2>2 DEF Windows!Live
  <1>4. ASSUME NEW w \in 1 .. Len(poll), Windows!Live(w), poll[w].policy = policy PROVE FALSE
    <2>1. w = Len(poll) /\ poll[w].policy <= admitted
      BY <1>1, <1>4 DEF Tables, Windows!PollsSound, Windows!PollSound
    <2>2. admitted = policy
      BY <1>2, <1>4, <2>1
    <2> QED BY <1>3, <1>4, <2>1, <2>2
  <1> QED BY <1>3, <1>4

\* The successor is due after the window that was read last.
LEMMA DueAfter ==
  ASSUME Tables, NoneDue, NEW due,
         due = IF SameSlot = {} THEN Windows!DueSlot ELSE Windows!Max({Windows!DueSlot, now}),
         admitted < policy => \A w \in 1 .. Len(poll) : poll[w].state = "completed" => poll[w].due < now
  PROVE  /\ due \in 0 .. MaxTime + PollSeconds /\ Windows!DueSlot \in 0 .. MaxTime + PollSeconds
         /\ progress.rev > 0 /\ progress.cursor.kind = "none" => progress.window.end < due
         /\ progress.cursor.kind # "none" => progress.window.end <= due
  <1>1. TypedTables /\ Windows!Polls = 1 .. Len(poll) /\ 1 \in 1 .. Len(poll)
    BY TableFacts DEF Tables, Windows!TimePassed
  <1>2. /\ now \in 0 .. MaxTime /\ MaxTime \in Nat /\ PollSeconds \in Nat \ {0} /\ schedule.next \in 0 .. MaxTime + PollSeconds
        /\ schedule.policy \in Nat /\ progress.window.end \in 0 .. MaxTime /\ progress.rev \in Nat
        /\ admitted \in Nat /\ policy \in Nat /\ admitted <= policy
    BY <1>1, TableFacts, WindowConstants DEF TypedTables, Windows!Window, Windows!Times
  <1>3. Windows!DueSlot \in 0 .. MaxTime + PollSeconds
    BY <1>2 DEF Windows!DueSlot
  <1>4. Windows!Max({Windows!DueSlot, now}) = IF Windows!DueSlot >= now THEN Windows!DueSlot ELSE now
    <2>1. PICK slot : slot = Windows!DueSlot
      OBVIOUS
    <2>2. slot \in Int /\ now \in Int
      BY <1>2, <1>3, <2>1
    <2> QED BY <2>1, <2>2, PairMaxMin
  <1>5. due \in 0 .. MaxTime + PollSeconds /\ due >= Windows!DueSlot
    <2>1. PICK slot \in 0 .. MaxTime + PollSeconds : slot = Windows!DueSlot
      BY <1>3
    <2>2. due = slot \/ due = (IF slot >= now THEN slot ELSE now)
      BY <1>4, <2>1
    <2> QED BY <1>2, <2>1, <2>2
  <1>6. progress.window.end <= now
    BY DEF Tables, Windows!WindowPassed
  <1>7. ASSUME schedule.policy # policy PROVE due = now
    <2>1. Windows!DueSlot = 0 /\ poll[1].slot = 0
      BY <1>7 DEF Windows!DueSlot, Tables, Windows!TimePassed
    <2>2. 1 \in SameSlot
      BY <1>1, <2>1 DEF SameSlot
    <2>3. due = IF 0 >= now THEN 0 ELSE now
      BY <1>4, <2>1, <2>2
    <2> QED BY <1>2, <2>3
  <1>8. ASSUME progress.rev > 0, progress.cursor.kind = "none" PROVE progress.window.end < due
    <2>1. CASE schedule.policy = policy
      <3>1. progress.window.end < schedule.next
        BY <1>8, <2>1 DEF Tables, Windows!WindowPassed
      <3>2. schedule.next = Windows!DueSlot
        BY <2>1 DEF Windows!DueSlot
      <3>3. due \in Int /\ schedule.next \in Int /\ due >= schedule.next
        BY <1>2, <1>5, <3>2
      <3> QED BY <1>2, <3>1, <3>3
    <2>2. CASE schedule.policy # policy
      <3>1. admitted < policy
        BY <1>2, <2>2, NoneLive
      <3>2. PICK w \in 1 .. Len(poll) : poll[w].state = "completed" /\ progress.window.end <= poll[w].due
        BY <1>1, <1>8 DEF Tables, Windows!WindowPassed
      <3>3. poll[w].due < now /\ poll[w].due \in Nat
        BY <1>1, <3>1, <3>2, TableFacts, WindowConstants
      <3> QED BY <1>2, <1>7, <2>2, <3>2, <3>3
    <2> QED BY <2>1, <2>2
  <1>9. ASSUME progress.cursor.kind # "none" PROVE progress.window.end <= due
    <2>1. admitted < policy
      BY <1>2, <1>9, NoneLive
    <2>2. schedule.policy # policy
      <3>1. schedule.policy <= admitted
        BY DEF Tables, Windows!TimePassed
      <3> QED BY <1>2, <2>1, <3>1
    <2> QED BY <1>6, <1>7, <2>2
  <1> QED BY <1>3, <1>5, <1>8, <1>9

\* A poll under the current policy is queued, to be due then.
Scheduled(due, p, s) ==
  /\ poll' = Append(poll, Windows!NewPoll(Windows!DueSlot, due, policy)) /\ rows' = Append(rows, {})
  /\ pages' = Append(p, <<>>) /\ status' = Append(s, "open")
  /\ p \in Seq(Seq(Windows!Page)) /\ Len(p) = Len(poll)
  /\ s \in Seq({"open", "validated", "rejected"}) /\ Len(s) = Len(poll)

\* The tables with that poll: the ones before it are kept.
PollAdded(due, p, s) ==
  /\ poll' \in Seq(Windows!Poll) /\ pages' \in Seq(Seq(Windows!Page)) /\ rows' \in Seq(SUBSET (0 .. MaxTime))
  /\ status' \in Seq({"open", "validated", "rejected"})
  /\ Len(poll') = Len(poll) + 1 /\ Len(pages') = Len(poll) + 1
  /\ Len(rows') = Len(poll) + 1 /\ Len(status') = Len(poll) + 1
  /\ \A v \in 1 .. Len(poll) : poll'[v] = poll[v] /\ pages'[v] = p[v] /\ rows'[v] = rows[v] /\ status'[v] = s[v]
  /\ poll'[Len(poll) + 1].slot = Windows!DueSlot /\ poll'[Len(poll) + 1].due = due
  /\ poll'[Len(poll) + 1].policy = policy /\ poll'[Len(poll) + 1].state = "queued"
  /\ poll'[Len(poll) + 1].owner = None
  /\ pages'[Len(poll) + 1] = <<>> /\ rows'[Len(poll) + 1] = {} /\ status'[Len(poll) + 1] = "open"

LEMMA ScheduledPoll ==
  ASSUME TypedTables, NEW due \in 0 .. MaxTime + PollSeconds, NEW p, NEW s, Scheduled(due, p, s),
         Windows!DueSlot \in 0 .. MaxTime + PollSeconds
  PROVE  PollAdded(due, p, s)
  <1> DEFINE n == Windows!NewPoll(Windows!DueSlot, due, policy)
  <1>1. policy \in 1 .. MaxPolicy
    BY DEF TypedTables
  <1>2. /\ n \in Windows!Poll /\ n.slot = Windows!DueSlot /\ n.due = due /\ n.policy = policy
        /\ n.state = "queued" /\ n.owner = None
    BY <1>1 DEF Windows!NewPoll, Windows!Poll
  <1> HIDE DEF n
  <1>3. poll' = Append(poll, n) /\ poll \in Seq(Windows!Poll)
    BY DEF Scheduled, n, TypedTables
  <1>4. /\ poll' \in Seq(Windows!Poll) /\ Len(poll') = Len(poll) + 1
        /\ \A v \in 1 .. Len(poll) : poll'[v] = poll[v]
        /\ poll'[Len(poll) + 1] = n
    BY <1>2, <1>3, AppendProperties
  <1>5. /\ rows' \in Seq(SUBSET (0 .. MaxTime)) /\ Len(rows') = Len(poll) + 1
        /\ \A v \in 1 .. Len(poll) : rows'[v] = rows[v]
        /\ rows'[Len(poll) + 1] = {}
    <2>1. rows \in Seq(SUBSET (0 .. MaxTime)) /\ Len(rows) = Len(poll) /\ {} \in SUBSET (0 .. MaxTime) /\ rows' = Append(rows, {})
      BY DEF TypedTables, Scheduled
    <2> QED BY <2>1, AppendProperties
  <1>6. /\ pages' \in Seq(Seq(Windows!Page)) /\ Len(pages') = Len(poll) + 1
        /\ \A v \in 1 .. Len(poll) : pages'[v] = p[v]
        /\ pages'[Len(poll) + 1] = <<>>
    <2>1. PICK T : T = Seq(Windows!Page)
      OBVIOUS
    <2>2. <<>> \in T
      BY <2>1, EmptySeq
    <2>3. p \in Seq(T) /\ Len(p) = Len(poll) /\ pages' = Append(p, <<>>)
      BY <2>1 DEF Scheduled
    <2>4. /\ pages' \in Seq(T) /\ Len(pages') = Len(poll) + 1
          /\ \A v \in 1 .. Len(poll) : pages'[v] = p[v]
          /\ pages'[Len(poll) + 1] = <<>>
      BY <2>2, <2>3, AppendProperties
    <2> QED BY <2>1, <2>4
  <1>7. /\ status' \in Seq({"open", "validated", "rejected"}) /\ Len(status') = Len(poll) + 1
        /\ \A v \in 1 .. Len(poll) : status'[v] = s[v]
        /\ status'[Len(poll) + 1] = "open"
    BY AppendProperties DEF Scheduled
  <1> QED BY <1>2, <1>4, <1>5, <1>6, <1>7 DEF PollAdded

\* A decision that schedules the next poll of the target.
LEMMA ScheduledTables ==
  ASSUME Tables, NEW w \in 1 .. Len(poll), Settles(w), NoneDue, NEW due, NEW p, NEW s, Scheduled(due, p, s),
         due = IF SameSlot = {} THEN Windows!DueSlot ELSE Windows!Max({Windows!DueSlot, now}),
         admitted < policy => \A v \in 1 .. Len(poll) : poll[v].state = "completed" => poll[v].due < now,
         admitted' = policy
  PROVE  Tables'
  <1> DEFINE N == Len(poll) + 1
  <1>1. /\ due \in 0 .. MaxTime + PollSeconds /\ Windows!DueSlot \in 0 .. MaxTime + PollSeconds
        /\ progress.rev > 0 /\ progress.cursor.kind = "none" => progress.window.end < due
        /\ progress.cursor.kind # "none" => progress.window.end <= due
    BY DueAfter
  <1>2. TypedTables /\ Len(poll) \in Nat /\ 1 \in 1 .. Len(poll) /\ Windows!Polls = 1 .. Len(poll) /\ Windows!Latest = Len(poll)
    BY TableFacts DEF Tables, Windows!TimePassed
  <1>3. /\ poll' \in Seq(Windows!Poll) /\ pages' \in Seq(Seq(Windows!Page)) /\ rows' \in Seq(SUBSET (0 .. MaxTime))
        /\ status' \in Seq({"open", "validated", "rejected"})
        /\ Len(poll') = N /\ Len(pages') = N /\ Len(rows') = N /\ Len(status') = N
        /\ \A v \in 1 .. Len(poll) : poll'[v] = poll[v] /\ pages'[v] = p[v] /\ rows'[v] = rows[v] /\ status'[v] = s[v]
        /\ poll'[N].slot = Windows!DueSlot /\ poll'[N].due = due
        /\ poll'[N].policy = policy /\ poll'[N].state = "queued" /\ poll'[N].owner = None
        /\ pages'[N] = <<>> /\ rows'[N] = {} /\ status'[N] = "open"
    <2>1. TypedTables /\ due \in 0 .. MaxTime + PollSeconds /\ Windows!DueSlot \in 0 .. MaxTime + PollSeconds
      BY <1>1, <1>2
    <2>2. PollAdded(due, p, s)
      BY <2>1, ScheduledPoll
    <2> QED BY <2>2 DEF PollAdded
  <1>4. UNCHANGED <<now, runs, policy, schedule, progress, ambiguous>>
    BY DEF Settles
  <1>5. Windows!Polls' = 1 .. N /\ Windows!Latest' = N /\ N \in 1 .. N /\ N # 0
        /\ \A v \in 1 .. N : v \in 1 .. Len(poll) \/ v = N
    <2>1. DOMAIN poll' = 1 .. Len(poll')
      BY <1>3, LenProperties
    <2> QED BY <1>2, <1>3, <2>1 DEF Windows!Polls, Windows!Latest
  <1>6. \A v \in 1 .. Len(poll) : v \in 1 .. N /\ v # N
    BY <1>2
  <1>7. TypedTables'
    <2>1. admitted' \in 1 .. policy'
      BY <1>4, WindowConstants DEF TypedTables, Tables
    <2>2. ambiguous' \subseteq DOMAIN poll'
      <3>1. DOMAIN poll' = 1 .. N
        BY <1>5 DEF Windows!Polls
      <3> QED BY <1>2, <1>4, <1>6, <3>1 DEF TypedTables, Windows!Polls
    <2>3. ingested' \subseteq runs'
      BY <1>4 DEF Settles
    <2>4. coverage' \in [from: {-1} \cup 0 .. MaxTime, through: {-1} \cup 0 .. MaxTime]
      BY DEF Settles
    <2> QED BY <1>2, <1>3, <1>4, <2>1, <2>2, <2>3, <2>4 DEF TypedTables
  <1>r. PICK L : L = Len(poll)
    OBVIOUS
  <1>8. \A v \in 1 .. L : DOMAIN pages'[v] = 1 .. Len(pages[v]) /\ Len(pages'[v]) = Len(pages[v])
    <2>1. ASSUME NEW v \in 1 .. L
          PROVE  DOMAIN pages'[v] = 1 .. Len(pages[v]) /\ Len(pages'[v]) = Len(pages[v])
      <3>1. pages'[v] \in Seq(Windows!Page)
        BY <1>3, <1>6, <1>r, ElementOfSeq
      <3> QED BY <1>r, <3>1, LenProperties DEF Settles, Agree
    <2> QED BY <2>1
  <1>9. \A v \in 1 .. L : \A j \in 1 .. Len(pages[v]) :
          /\ pages'[v][j].policy = pages[v][j].policy /\ pages'[v][j].rev = pages[v][j].rev
          /\ pages'[v][j].last = pages[v][j].last /\ pages'[v][j].complete = pages[v][j].complete
          /\ pages'[v][j].exhausted = pages[v][j].exhausted
    BY <1>r DEF Settles, Agree
  <1>10. DOMAIN pages'[N] = {}
    BY <1>3, EmptySeq
  <1>11. \A r : Windows!Replaced(r) => Windows!Replaced(r)'
    BY <1>2, <1>3, <1>4, <1>5, <1>6 DEF Windows!Replaced
  <1>12. Windows!CoverageAccounted'
    <2>1. \A r \in runs : coverage'.from < r /\ r <= coverage'.through => r \in ingested' \/ Windows!Replaced(r)'
      BY <1>11 DEF Settles
    <2> QED BY <1>4, <2>1 DEF Windows!CoverageAccounted, Windows!Replaced
  <1>13. Windows!ValidatedIsWhole'
    <2>1. ASSUME NEW v \in 1 .. N, status'[v] = "validated"
          PROVE  /\ rows'[v] \subseteq ingested'
                 /\ \E j \in DOMAIN pages'[v] : pages'[v][j].last /\ pages'[v][j].complete
      <3>1. v \in 1 .. L
        BY <1>3, <1>5, <1>r, <2>1
      <3>2. /\ rows[v] \subseteq ingested'
            /\ \E j \in 1 .. Len(pages[v]) : pages[v][j].last /\ pages[v][j].complete
        BY <1>r, <2>1, <3>1, SettledParts
      <3>3. PICK j \in 1 .. Len(pages[v]) : pages[v][j].last /\ pages[v][j].complete
        BY <3>2
      <3>4. pages'[v][j].last /\ pages'[v][j].complete /\ j \in DOMAIN pages'[v]
        BY <1>8, <1>9, <3>1, <3>3
      <3>5. rows'[v] = rows[v]
        BY <1>3, <1>r, <3>1
      <3> QED BY <3>2, <3>4, <3>5
    <2> QED BY <1>5, <2>1 DEF Windows!ValidatedIsWhole
  <1>14. Windows!TimePassed'
    <2>1. coverage'.through <= now
      BY DEF Settles
    <2>2. schedule.policy <= policy
      <3>1. /\ schedule.policy \in Nat /\ schedule.policy <= admitted
            /\ admitted \in Nat /\ policy \in Nat /\ admitted <= policy
        BY <1>2, TableFacts, WindowConstants DEF TypedTables, Tables, Windows!TimePassed
      <3> QED BY <3>1
    <2>3. Len(poll') > 0
      BY <1>2, <1>3
    <2>4. poll'[1].slot = 0
      BY <1>2, <1>3 DEF Tables, Windows!TimePassed
    <2> QED BY <1>4, <2>1, <2>2, <2>3, <2>4 DEF Tables, Windows!TimePassed
  <1>15. Windows!PollsSound'
    <2>1. ASSUME NEW v \in 1 .. L PROVE Windows!PollSound(v)'
      <3>1. Windows!PollSound(v) /\ (status'[v] = "validated" => poll[v].state = "completed")
        BY <1>r, SettledParts
      <3>2. \A j \in DOMAIN pages'[v] :
              /\ pages'[v][j].policy = poll[v].policy /\ pages'[v][j].rev <= progress.rev
              /\ pages'[v][j].last <=> j = Len(pages'[v]) /\ poll[v].state = "completed"
        <4>1. DOMAIN pages[v] = 1 .. Len(pages[v])
          BY <1>2, <1>r, TableFacts
        <4> QED BY <1>8, <1>9, <3>1, <4>1 DEF Windows!PollSound
      <3>3. poll[v].state = "completed" => pages'[v] # <<>>
        <4>1. pages[v] # <<>> <=> Len(pages[v]) # 0
          BY <1>2, <1>r, TableFacts
        <4>2. pages'[v] \in Seq(Windows!Page)
          BY <1>3, <1>6, <1>r, ElementOfSeq
        <4>3. pages'[v] # <<>> <=> Len(pages'[v]) # 0
          BY <4>2, EmptySeq
        <4> QED BY <1>8, <3>1, <4>1, <4>3 DEF Windows!PollSound
      <3>4. ~(Windows!Live(v) /\ poll[v].policy = policy)
        BY <1>r, NoneLive
      <3>5. poll'[v] = poll[v] /\ rows'[v] = rows[v]
        BY <1>3, <1>r
      <3>6. poll[v].policy <= policy
        <4>1. poll[v].policy \in Nat /\ admitted \in Nat /\ policy \in Nat /\ admitted <= policy
          BY <1>2, <1>r, TableFacts, WindowConstants
        <4> QED BY <3>1, <4>1 DEF Windows!PollSound
      <3> QED BY <1>4, <3>1, <3>2, <3>3, <3>4, <3>5, <3>6 DEF Windows!PollSound, Windows!Live
    <2>2. ASSUME NEW v, v = N PROVE Windows!PollSound(v)'
      <3>1. policy <= policy
        BY <1>2, TableFacts
      <3>2. v = Windows!Latest'
        BY <1>5, <2>2
      <3> QED BY <1>3, <1>4, <1>10, <2>2, <3>1, <3>2 DEF Windows!PollSound, Windows!Live
    <2>3. \A v \in 1 .. N : v \in 1 .. L \/ v = N
      BY <1>5, <1>r
    <2> QED BY <1>5, <2>1, <2>2, <2>3 DEF Windows!PollsSound
  <1>16. Windows!Continues'
    <2>1. Windows!DueSlot' = Windows!DueSlot
      BY <1>4 DEF Windows!DueSlot
    <2> QED BY <1>3, <1>4, <1>5, <2>1 DEF Windows!Continues, Windows!Live
  <1>17. Windows!WindowPassed'
    <2>1. Windows!WindowPassed
      BY DEF Tables
    <2>2. ASSUME progress.rev > 0, progress.cursor.kind = "none"
          PROVE  /\ \E v \in 1 .. N : poll'[v].state = "completed" /\ progress.window.end <= poll'[v].due
                 /\ schedule.policy = policy => progress.window.end < schedule.next
                 /\ progress.window.end < poll'[N].due
      BY <1>1, <1>2, <1>3, <1>6, <2>1, <2>2 DEF Windows!WindowPassed
    <2>3. progress.cursor.kind # "none" => progress.window.end <= poll'[N].due
      BY <1>1, <1>3
    <2> QED BY <1>4, <1>5, <2>1, <2>2, <2>3 DEF Windows!WindowPassed
  <1>18. Windows!ProgressKept'
    <2>1. Windows!Listed(progress.cursor)'
      BY <1>4 DEF Tables, Windows!ProgressKept, Windows!Listed
    <2>2. ASSUME progress.cursor.kind = "next"
          PROVE  Windows!Kept(progress.window, progress.cursor, {})'
      <3>1. admitted < policy
        BY <1>2, <2>2, NoneLive, TableFacts
      <3>2. \A r : Windows!Staged(r) => Windows!Staged(r)'
        <4>1. ASSUME NEW r, r \in rows[Len(poll)] PROVE Windows!Replaced(r)'
          <5>1. Len(poll) \in 1 .. Len(poll)
            BY <1>2
          <5>2. poll[Len(poll)].policy <= admitted /\ poll[Len(poll)].policy \in Nat /\ admitted \in Nat /\ policy \in Nat
            BY <1>2, <5>1, TableFacts, WindowConstants DEF Tables, Windows!PollsSound, Windows!PollSound
          <5>3. poll[Len(poll)].policy < policy
            BY <3>1, <5>2
          <5>4. Windows!Replaced(r)
            BY <1>2, <4>1, <5>1, <5>3 DEF Windows!Replaced
          <5> QED BY <1>11, <5>4
        <4> QED BY <1>2, <1>11, <4>1 DEF Windows!Staged
      <3> QED BY <1>4, <2>2, <3>2 DEF Tables, Windows!ProgressKept, Windows!Kept, Windows!Dropped
    <2> QED BY <1>4, <2>1, <2>2 DEF Windows!ProgressKept
  <1>19. Windows!WindowsKept'
    <2>1. ASSUME NEW v \in 1 .. L, NEW j \in 1 .. Len(pages[v]) PROVE Windows!PageKept(v, pages[v][j])'
      <3>1. Windows!PageKept(v, pages[v][j])
        BY <1>2, <1>r, TableFacts DEF Tables, Windows!WindowsKept
      <3>2. /\ pages'[v][j].rev = pages[v][j].rev
            /\ pages'[v][j].last = pages[v][j].last /\ pages'[v][j].complete = pages[v][j].complete
            /\ pages'[v][j].exhausted = pages[v][j].exhausted
        BY <1>9
      <3>3. rows'[v] = rows[v]
        BY <1>3, <1>r
      <3> QED BY <1>4, <1>11, <3>1, <3>2, <3>3 DEF Windows!PageKept
    <2>2. \A v \in 1 .. N : v \in 1 .. L \/ v = N
      BY <1>5, <1>r
    <2>3. ASSUME NEW v \in 1 .. N, NEW j \in DOMAIN pages'[v] PROVE Windows!PageKept(v, pages[v][j])'
      <3>1. v # N
        BY <1>10, <2>3
      <3>2. v \in 1 .. L
        BY <2>2, <3>1
      <3> QED BY <1>8, <2>1, <2>3, <3>2
    <2> QED BY <1>5, <2>3 DEF Windows!WindowsKept
  <1> QED BY <1>7, <1>12, <1>13, <1>14, <1>15, <1>16, <1>17, <1>18, <1>19 DEF Tables

\* No collector works on a poll of the current policy when one is scheduled.
LEMMA ScheduledSessions ==
  ASSUME Tables, Tables', Sessions, NoneDue, NEW due \in 0 .. MaxTime + PollSeconds, NEW p, NEW s,
         Scheduled(due, p, s), Windows!DueSlot \in 0 .. MaxTime + PollSeconds,
         UNCHANGED <<now, runs, policy, progress, col>>
  PROVE  Sessions'
  <1>1. TypedTables /\ TypedTables' /\ now <= now' /\ Windows!Polls = 1 .. Len(poll) /\ Len(poll) \in Nat
    BY TableFacts DEF Tables
  <1>2. Len(poll') = Len(poll) + 1 /\ \A v \in 1 .. Len(poll) : poll'[v] = poll[v]
    <2>1. PollAdded(due, p, s)
      BY <1>1, ScheduledPoll
    <2> QED BY <2>1 DEF PollAdded
  <1>3. ASSUME NEW d \in Collectors PROVE Windows!SessionSound(d)'
    <2>1. ASSUME Windows!Working(d)' PROVE FALSE
      <3>1. col[d].pc # "idle"
        BY <2>1 DEF Windows!Working
      <3>2. col[d].poll \in 1 .. Len(poll)
        BY <1>1, <3>1 DEF Sessions, Windows!SessionSound
      <3>3. poll'[col[d].poll].owner = d /\ poll'[col[d].poll].policy = policy
        BY <2>1 DEF Windows!Working, Windows!Owned, Windows!CurrentPolicy
      <3>4. Windows!Owned(d) /\ Windows!CurrentPolicy(d)
        BY <1>2, <3>2, <3>3 DEF Windows!Owned, Windows!CurrentPolicy
      <3>5. Windows!Live(Len(poll)) /\ poll[Len(poll)].policy = policy /\ Len(poll) \in 1 .. Len(poll)
        BY <3>1, <3>4, OwnerFacts
      <3> QED BY <3>5, NoneLive
    <2>2. Len(poll) <= Len(poll')
      BY <1>1, <1>2
    <2> QED BY <1>1, <1>2, <2>1, <2>2, SessionStays
  <1> QED BY <1>3 DEF Sessions

\* Nothing changes but the poll that is scheduled.
LEMMA ScheduleKeeps ==
  ASSUME Windows!WindowInv, Windows!PublishScope \/ Windows!ReconcileItem
  PROVE  Windows!WindowInv'
  <1>1. Tables /\ Sessions /\ TypedTables /\ wfaults \in 0 .. MaxPollFaults
    BY WindowParts DEF Tables
  <1> DEFINE z == Windows!SchedulePoll(Windows!Store)
  <1>2. /\ poll' = z.poll /\ pages' = z.pages /\ rows' = z.rows /\ status' = z.status
        /\ UNCHANGED <<now, runs, policy, schedule, progress, ambiguous, coverage, ingested, col, wfaults>>
        /\ admitted' = policy
        /\ admitted < policy => \A v \in 1 .. Len(poll) : poll[v].state = "completed" => poll[v].due < now
        /\ admitted' = admitted \/ admitted < policy
    <2>1. Windows!Polls = 1 .. Len(poll)
      BY <1>1, TableFacts
    <2>2. CASE Windows!PublishScope
      BY <2>1, <2>2 DEF Windows!PublishScope, Windows!SaveStore, Windows!sourceVars
    <2>3. CASE Windows!ReconcileItem
      <3>1. admitted = policy /\ ~(admitted < policy)
        BY <1>1, <2>3, TableFacts DEF Windows!ReconcileItem
      <3> QED BY <2>3, <3>1 DEF Windows!ReconcileItem, Windows!SaveStore, Windows!sourceVars, Windows!policyVars
    <2> QED BY <2>2, <2>3
  <1>3. SameSlot = {w \in Windows!Polls : poll[w].slot = Windows!DueSlot} /\ Len(poll) \in 1 .. Len(poll)
    BY <1>1, TableFacts DEF SameSlot, Tables, Windows!TimePassed
  <1>4. CASE ~NoneDue
    <2>1. z = Windows!Store
      BY <1>3, <1>4 DEF NoneDue, Windows!SchedulePoll
    <2>2. UNCHANGED <<poll, pages, rows, status>>
      BY <1>2, <2>1 DEF Windows!Store
    <2>3. UNCHANGED admitted
      <3>1. PICK w \in 1 .. Len(poll) : poll[w].policy = policy
        BY <1>4 DEF NoneDue, SameSlot
      <3>2. policy <= admitted /\ policy \in Nat /\ admitted \in Nat
        BY <1>1, <3>1, TableFacts DEF Tables, Windows!PollsSound, Windows!PollSound
      <3> QED BY <1>2, <3>2
    <2>4. Tables'
      BY <1>1, <1>2, <2>2, <2>3, TablesStand
    <2>5. Sessions'
      BY <1>1, <1>2, <2>2, <2>4, SettledSessions
    <2> QED BY <1>1, <1>2, <2>4, <2>5, WindowParts
  <1>5. CASE NoneDue
    <2>1. PICK due : due = IF SameSlot = {} THEN Windows!DueSlot ELSE Windows!Max({Windows!DueSlot, now})
      OBVIOUS
    <2>2. PICK p, s : p = pages /\ s = status
      OBVIOUS
    <2>3. z = [poll |-> Append(poll, Windows!NewPoll(Windows!DueSlot, due, policy)),
               pages |-> Append(pages, <<>>), rows |-> Append(rows, {}), status |-> Append(status, "open")]
      BY <1>3, <1>5, <2>1 DEF NoneDue, Windows!SchedulePoll, Windows!Store
    <2>4. Scheduled(due, p, s)
      BY <1>1, <1>2, <2>2, <2>3 DEF Scheduled, TypedTables
    <2>5. due \in 0 .. MaxTime + PollSeconds /\ Windows!DueSlot \in 0 .. MaxTime + PollSeconds
      BY <1>1, <1>2, <1>5, <2>1, DueAfter
    <2>6. \A v \in 1 .. Len(poll) : pages'[v] = pages[v] /\ status'[v] = status[v]
      <3>1. PollAdded(due, p, s)
        BY <1>1, <2>4, <2>5, ScheduledPoll
      <3> QED BY <2>2, <3>1 DEF PollAdded
    <2>7. Settles(Len(poll))
      <3>1. Agree(pages')
        BY <2>6 DEF Agree
      <3> QED BY <1>1, <1>2, <1>3, <2>6, <3>1, SettledUnpublished
    <2>8. Tables'
      BY <1>1, <1>2, <1>3, <1>5, <2>1, <2>4, <2>7, ScheduledTables
    <2>9. Sessions'
      BY <1>1, <1>2, <1>5, <2>4, <2>5, <2>8, ScheduledSessions
    <2> QED BY <1>1, <1>2, <2>8, <2>9, WindowParts
  <1> QED BY <1>4, <1>5

-----------------------------------------------------------------------------
(* The decision about a page. *)

\* A window other than the latest: the closing page of the latest stays.
LEMMA OtherWindow ==
  ASSUME TypedTables, Len(poll) \in 1 .. Len(poll), NEW w \in 1 .. Len(poll), NEW i \in DOMAIN pages[w],
         NEW p, NEW s, AgreeExcept(p, w, i), \A v \in 1 .. Len(poll) : v # w => s[v] = status[v],
         w # Len(poll)
  PROVE  StillOpen(p, s)
  BY DEF StillOpen, AgreeExcept

\* A page that is not the newest of the latest window.
LEMMA EarlierPage ==
  ASSUME TypedTables, Len(poll) \in 1 .. Len(poll), NEW w \in 1 .. Len(poll), NEW i \in DOMAIN pages[w],
         NEW p, NEW s, AgreeExcept(p, w, i), s[Len(poll)] = status[Len(poll)],
         w = Len(poll) => i # Len(pages[w])
  PROVE  StillOpen(p, s)
  <1>1. PICK L, last : L = Len(poll) /\ last = Len(pages[L])
    OBVIOUS
  <1>2. last \in Nat /\ (last # 0 => last \in 1 .. Len(pages[L]))
    BY <1>1, TableFacts
  <1>3. last # 0 => p[L][last] = pages[L][last]
    BY <1>1, <1>2 DEF AgreeExcept
  <1> QED BY <1>1, <1>3 DEF StillOpen

\* Nothing is published; the window is rejected or left as it is.
LEMMA DecisionKeeps ==
  ASSUME Windows!WindowInv, NEW w \in 1 .. Len(poll), NEW i \in DOMAIN pages[w], AgreeExcept(pages', w, i),
         status' = status \/ status' = Windows!Outcome(w, FALSE),
         UNCHANGED <<now, runs, policy, admitted, schedule, poll, progress, rows, ambiguous,
                     coverage, ingested, col, wfaults>>,
         admitted = policy => StillOpen(pages', status')
  PROVE  Windows!WindowInv'
  <1>1. Tables /\ Sessions /\ TypedTables /\ wfaults \in 0 .. MaxPollFaults
    BY WindowParts DEF Tables
  <1>2. /\ status' \in Seq({"open", "validated", "rejected"}) /\ Len(status') = Len(poll)
        /\ \A v \in 1 .. Len(poll) : v # w => status'[v] = status[v]
        /\ status'[w] = status[w] \/ status'[w] = "rejected"
    <2>1. status \in Seq({"open", "validated", "rejected"}) /\ Len(status) = Len(poll)
      BY <1>1 DEF TypedTables
    <2>2. CASE status' = Windows!Outcome(w, FALSE)
      <3>1. status' = [status EXCEPT ![w] = "rejected"]
        BY <2>2 DEF Windows!Outcome
      <3>2. /\ status' \in Seq({"open", "validated", "rejected"}) /\ Len(status') = Len(status)
            /\ \A v \in 1 .. Len(status) : status'[v] = IF v = w THEN "rejected" ELSE status[v]
        BY <2>1, <3>1, ExceptSeq
      <3> QED BY <2>1, <3>2
    <2> QED BY <2>1, <2>2
  <1>3. Settles(w)
    <2>1. Agree(pages') /\ (status'[w] = "validated" => status[w] = "validated")
      BY <1>2 DEF AgreeExcept
    <2> QED BY <1>1, <1>2, <2>1, SettledUnpublished
  <1>4. Tables'
    BY <1>1, <1>2, <1>3, SettledTables DEF AgreeExcept
  <1>5. Sessions'
    BY <1>1, <1>4, SettledSessions
  <1> QED BY <1>1, <1>4, <1>5, WindowParts

\* What the latest poll of an admitted target and its pages are.
LEMMA LatestFacts ==
  ASSUME Tables, NEW w \in 1 .. Len(poll), NEW i \in DOMAIN pages[w]
  PROVE  /\ Len(poll) \in 1 .. Len(poll) /\ i \in 1 .. Len(pages[w]) /\ Len(pages[w]) \in Nat
         /\ pages[w][i].policy = poll[w].policy
         /\ pages[w][i].last <=> i = Len(pages[w]) /\ poll[w].state = "completed"
         /\ pages[w][i].decision \in {"pending", "held", "published", "rejected"}
         /\ admitted = policy => poll[Len(poll)].policy = policy /\ status[Len(poll)] = "open"
         /\ admitted = policy /\ w = Len(poll) =>
              /\ pages[w][Len(pages[w])].rev = progress.rev
              /\ Adapter = "memory" => pages[w][Len(pages[w])].decision \in {"pending", "held"}
  <1>1. TypedTables /\ Windows!Polls = 1 .. Len(poll) /\ Windows!Latest = Len(poll) /\ Len(poll) \in 1 .. Len(poll)
    BY TableFacts DEF Tables, Windows!TimePassed
  <1>2. /\ i \in 1 .. Len(pages[w]) /\ Len(pages[w]) \in Nat /\ pages[w] \in Seq(Windows!Page)
        /\ pages[w] # <<>>
    BY <1>1, TableFacts
  <1>3. pages[w][i] \in Windows!Page
    BY <1>2, ElementOfSeq
  <1>4. pages[w][i].decision \in {"pending", "held", "published", "rejected"}
    BY <1>3 DEF Windows!Page
  <1>5. /\ pages[w][i].policy = poll[w].policy
        /\ pages[w][i].last <=> i = Len(pages[w]) /\ poll[w].state = "completed"
    BY <1>1 DEF Tables, Windows!PollsSound, Windows!PollSound
  <1>6. ASSUME admitted = policy
        PROVE  /\ poll[Len(poll)].policy = policy /\ status[Len(poll)] = "open"
               /\ w = Len(poll) =>
                    /\ pages[w][Len(pages[w])].rev = progress.rev
                    /\ Adapter = "memory" => pages[w][Len(pages[w])].decision \in {"pending", "held"}
    BY <1>1, <1>2, <1>6 DEF Tables, Windows!Continues
  <1> QED BY <1>1, <1>2, <1>4, <1>5, <1>6

LEMMA AcknowledgeKeeps ==
  ASSUME Windows!WindowInv, NEW w \in 1 .. Len(poll), NEW i \in DOMAIN pages[w], Windows!Acknowledge(w, i),
         UNCHANGED <<now, runs, policy, admitted, schedule, progress, ambiguous, col, wfaults>>
  PROVE  Windows!WindowInv'
  <1>1. Tables /\ TypedTables
    BY WindowParts DEF Tables
  <1>2. /\ status[w] # "open" /\ pages' = [pages EXCEPT ![w][i].work = "completed"]
        /\ UNCHANGED <<status, poll, rows, coverage, ingested>>
    BY DEF Windows!Acknowledge, Windows!Unpublished, Windows!Sealed
  <1>3. AgreeExcept(pages', w, i)
    BY <1>1, <1>2, CompletedPages
  <1>4. ASSUME admitted = policy PROVE StillOpen(pages', status')
    <2>1. w # Len(poll) /\ Len(poll) \in 1 .. Len(poll)
      BY <1>1, <1>2, <1>4, LatestFacts
    <2> QED BY <1>1, <1>2, <1>3, <2>1, OtherWindow
  <1> QED BY <1>2, <1>3, <1>4, DecisionKeeps

LEMMA RejectKeeps ==
  ASSUME Windows!WindowInv, NEW w \in 1 .. Len(poll), NEW i \in DOMAIN pages[w], Windows!RejectWindow(w, i),
         UNCHANGED <<now, runs, policy, admitted, schedule, progress, ambiguous, col, wfaults>>,
         admitted = policy => w # Len(poll)
  PROVE  Windows!WindowInv'
  <1>1. Tables /\ TypedTables
    BY WindowParts DEF Tables
  <1>2. /\ pages' = [pages EXCEPT ![w][i].work = "completed"] /\ status' = Windows!Outcome(w, FALSE)
        /\ UNCHANGED <<poll, rows, coverage, ingested>>
    BY DEF Windows!RejectWindow, Windows!Unpublished
  <1>3. AgreeExcept(pages', w, i)
    BY <1>1, <1>2, CompletedPages
  <1>4. ASSUME admitted = policy PROVE StillOpen(pages', status')
    <2>1. Len(poll) \in 1 .. Len(poll)
      BY <1>1, LatestFacts
    <2>2. \A v \in 1 .. Len(poll) : v # w => status'[v] = status[v]
      <3>1. DOMAIN status = 1 .. Len(poll)
        BY <1>1, TableFacts
      <3> QED BY <1>2, <3>1 DEF Windows!Outcome
    <2> QED BY <1>1, <1>3, <1>4, <2>1, <2>2, OtherWindow
  <1> QED BY <1>2, <1>3, <1>4, DecisionKeeps

LEMMA PolicyMovedKeeps ==
  ASSUME Windows!WindowInv, NEW w \in 1 .. Len(poll), NEW i \in DOMAIN pages[w], Windows!PolicyMoved(w, i),
         UNCHANGED <<now, runs, policy, admitted, schedule, progress, ambiguous, col, wfaults>>
  PROVE  Windows!WindowInv'
  <1>1. Tables /\ pages[w][i].policy # policy /\ Windows!RejectWindow(w, i)
    BY WindowParts DEF Windows!PolicyMoved
  <1>2. admitted = policy => w # Len(poll)
    BY <1>1, LatestFacts
  <1> QED BY <1>1, <1>2, RejectKeeps

\* The prefix of decided pages does not reach a page that is still to be decided.
LEMMA PrefixShort ==
  ASSUME Tables, NEW w \in 1 .. Len(poll), NEW i \in DOMAIN pages[w],
         i # Len(pages[w]), pages[w][Len(pages[w])].decision \in {"pending", "held"}
  PROVE  Windows!Prefix(w, i) # Len(pages[w])
  <1> DEFINE done == {j \in DOMAIN pages[w] : pages[w][j].decision \in {"published", "rejected"}} \cup {i}
             prefixes == {0} \cup {j \in done : 1 .. j \subseteq done}
  <1>1. i \in 1 .. Len(pages[w]) /\ Len(pages[w]) \in Nat
    BY LatestFacts
  <1>2. DOMAIN pages[w] = 1 .. Len(pages[w])
    BY TableFacts DEF Tables
  <1>3. Len(pages[w]) \notin done
    OBVIOUS
  <1>4. done \subseteq 1 .. Len(pages[w])
    BY <1>1, <1>2
  <1> HIDE DEF done
  <1>5. Len(pages[w]) \notin prefixes
    BY <1>1, <1>3
  <1>6. prefixes \in SUBSET (0 .. Len(pages[w])) /\ prefixes # {}
    <2>1. PICK n \in Nat : n = Len(pages[w])
      BY <1>1
    <2>2. \A j \in done : j \in 0 .. n
      BY <1>4, <2>1
    <2>3. \A j \in prefixes : j = 0 \/ j \in done
      OBVIOUS
    <2>4. 0 \in 0 .. n /\ 0 \in prefixes
      OBVIOUS
    <2> HIDE DEF prefixes
    <2> QED BY <2>1, <2>2, <2>3, <2>4
  <1>7. Windows!Prefix(w, i) = Windows!Max(prefixes)
    BY DEF Windows!Prefix, done
  <1> HIDE DEF prefixes
  <1>8. PICK n \in Nat : n = Len(pages[w])
    BY <1>1
  <1>9. prefixes \in SUBSET (0 .. n)
    BY <1>6, <1>8
  <1>10. Windows!Max(prefixes) \in prefixes
    BY <1>6, <1>9, GreatestIsMax
  <1> QED BY <1>5, <1>7, <1>10

LEMMA StalePageKeeps ==
  ASSUME Windows!WindowInv, NEW w \in 1 .. Len(poll), NEW i \in DOMAIN pages[w], Windows!StalePage(w, i),
         UNCHANGED <<now, runs, policy, admitted, schedule, progress, ambiguous, col, wfaults>>
  PROVE  Windows!WindowInv'
  <1>1. Tables /\ TypedTables
    BY WindowParts DEF Tables
  <1>2. pages[w][i].rev # progress.rev
    BY DEF Windows!StalePage, Windows!EvidenceCurrent
  <1>3. Len(poll) \in 1 .. Len(poll) /\ pages[w][i].decision \in {"pending", "held", "published", "rejected"}
    BY <1>1, LatestFacts
  <1>4. admitted = policy /\ w = Len(poll) => i # Len(pages[w])
    BY <1>1, <1>2, LatestFacts
  <1>5. ASSUME NEW decision \in {"pending", "held", "published", "rejected"},
               NEW work \in {"queued", "waiting", "completed"},
               pages' = Windows!Decided(w, i, decision, work), UNCHANGED <<status, poll, rows, coverage, ingested>>
        PROVE  Windows!WindowInv'
    <2>1. AgreeExcept(pages', w, i)
      BY <1>1, <1>5, DecidedPages
    <2>2. admitted = policy => StillOpen(pages', status')
      BY <1>1, <1>3, <1>4, <1>5, <2>1, EarlierPage
    <2> QED BY <1>5, <2>1, <2>2, DecisionKeeps
  <1>6. CASE Adapter = "sql" /\ pages[w][i].last
    <2>1. Windows!RejectWindow(w, i)
      BY <1>6 DEF Windows!StalePage
    <2>2. admitted = policy => w # Len(poll)
      BY <1>1, <1>4, <1>6, LatestFacts
    <2> QED BY <2>1, <2>2, RejectKeeps
  <1>7. CASE Adapter = "sql" /\ ~pages[w][i].last
    <2>1. PICK decision \in {"pending", "held", "published", "rejected"} :
            decision = IF pages[w][i].decision = "pending" THEN "rejected" ELSE pages[w][i].decision
      BY <1>3
    <2>2. pages' = Windows!Decided(w, i, decision, "waiting") /\ UNCHANGED <<status, poll, rows, coverage, ingested>>
      BY <1>7, <2>1 DEF Windows!StalePage, Windows!Unpublished
    <2> QED BY <1>5, <2>2
  <1>8. CASE Adapter = "memory" /\ pages[w][i].decision = "held"
    <2>1. pages' = Windows!Decided(w, i, "held", "waiting") /\ UNCHANGED <<status, poll, rows, coverage, ingested>>
      BY <1>8 DEF Windows!StalePage, Windows!Unpublished
    <2> QED BY <1>5, <2>1
  <1>9. CASE Adapter = "memory" /\ pages[w][i].decision # "held"
    <2>1. /\ pages' = Windows!Decided(w, i, "rejected", "completed")
          /\ status' = IF Windows!Prefix(w, i) = Len(pages[w]) THEN Windows!Outcome(w, FALSE) ELSE status
          /\ UNCHANGED <<poll, rows, coverage, ingested>>
      BY <1>9 DEF Windows!StalePage, Windows!Unpublished
    <2>2. AgreeExcept(pages', w, i)
      BY <1>1, <2>1, DecidedPages
    <2>3. ASSUME admitted = policy PROVE StillOpen(pages', status')
      <3>1. status'[Len(poll)] = status[Len(poll)]
        <4>1. CASE w = Len(poll)
          <5>1. pages[w][Len(pages[w])].decision \in {"pending", "held"}
            BY <1>1, <1>9, <2>3, <4>1, LatestFacts
          <5>2. Windows!Prefix(w, i) # Len(pages[w])
            BY <1>1, <1>4, <2>3, <4>1, <5>1, PrefixShort
          <5> QED BY <2>1, <5>2
        <4>2. CASE w # Len(poll)
          <5>1. DOMAIN status = 1 .. Len(poll)
            BY <1>1, TableFacts
          <5> QED BY <1>3, <2>1, <4>2, <5>1 DEF Windows!Outcome
        <4> QED BY <4>1, <4>2
      <3> QED BY <1>1, <1>3, <1>4, <2>2, <2>3, <3>1, EarlierPage
    <2>4. status' = status \/ status' = Windows!Outcome(w, FALSE)
      BY <2>1
    <2> QED BY <2>1, <2>2, <2>3, <2>4, DecisionKeeps
  <1>10. Adapter \in {"memory", "sql"}
    BY CollectionAssumption DEF Windows!WindowAssumption
  <1> QED BY <1>6, <1>7, <1>8, <1>9, <1>10

LEMMA OpenPageKeeps ==
  ASSUME Windows!WindowInv, NEW w \in 1 .. Len(poll), NEW i \in DOMAIN pages[w], Windows!OpenPage(w, i),
         UNCHANGED <<now, runs, policy, admitted, schedule, progress, ambiguous, col, wfaults>>
  PROVE  Windows!WindowInv'
  <1>1. Tables /\ TypedTables
    BY WindowParts DEF Tables
  <1>2. PICK decision \in {"pending", "held", "published", "rejected"} :
          decision = IF Adapter = "sql" THEN "published" ELSE "held"
    OBVIOUS
  <1>3. /\ pages' = Windows!Decided(w, i, decision, "waiting")
        /\ UNCHANGED <<status, poll, rows, coverage, ingested>>
    BY <1>2 DEF Windows!OpenPage, Windows!Unpublished
  <1>4. AgreeExcept(pages', w, i) /\ pages'[w][i].decision = decision /\ pages'[w][i].work = "waiting"
    BY <1>1, <1>3, DecidedPages
  <1>5. Len(poll) \in 1 .. Len(poll)
    BY <1>1, LatestFacts
  <1>6. StillOpen(pages', status')
    <2>1. CASE w = Len(poll) => i # Len(pages[w])
      BY <1>1, <1>3, <1>4, <1>5, <2>1, EarlierPage
    <2>2. CASE w = Len(poll) /\ i = Len(pages[w])
      <3>1. Adapter = "memory" => pages'[w][i].decision = "held"
        BY <1>2, <1>4
      <3>2. pages'[w][i].work # "completed"
        BY <1>4
      <3> QED BY <1>3, <2>2, <3>1, <3>2 DEF StillOpen
    <2> QED BY <2>1, <2>2
  <1> QED BY <1>3, <1>4, <1>6, DecisionKeeps

-----------------------------------------------------------------------------
(* The closing page: the window is published and the next poll scheduled. *)

\* The coverage moves on without a gap, over runs that are accounted for.
LEMMA PublishAccounted ==
  ASSUME Tables, NEW w \in 1 .. Len(poll), NEW i \in DOMAIN pages[w],
         pages[w][i].last, pages[w][i].rev = progress.rev, Windows!Publish(w, i)
  PROVE  /\ coverage' \in [from: {-1} \cup 0 .. MaxTime, through: {-1} \cup 0 .. MaxTime]
         /\ coverage'.through <= now
         /\ ingested \subseteq ingested' /\ ingested' \subseteq runs
         /\ Windows!Valid(w, i) => rows[w] \subseteq ingested'
         /\ \A r \in runs : coverage'.from < r /\ r <= coverage'.through => r \in ingested' \/ Windows!Replaced(r)
  <1>1. TypedTables /\ Windows!Polls = 1 .. Len(poll) /\ Windows!PollSound(w)
    BY TableFacts DEF Tables, Windows!PollsSound
  <1>2. PICK from, through, begin, end :
          from = coverage.from /\ through = coverage.through
          /\ begin = progress.window.start /\ end = progress.window.end
    OBVIOUS
  <1>3. /\ from \in {-1} \cup 0 .. MaxTime /\ through \in {-1} \cup 0 .. MaxTime /\ through <= now
        /\ begin \in 0 .. MaxTime /\ end \in 0 .. MaxTime /\ end <= now
        /\ now \in 0 .. MaxTime /\ MaxTime \in Nat
    BY <1>1, <1>2, WindowConstants DEF Tables, TypedTables, Windows!TimePassed, Windows!WindowPassed,
       Windows!Window, Windows!Times
  <1>4. ingested \subseteq runs /\ rows[w] \subseteq runs /\ runs \subseteq 0 .. MaxTime
    BY <1>1 DEF TypedTables, Windows!PollSound
  <1>5. \A r \in runs : from < r /\ r <= through => r \in ingested \/ Windows!Replaced(r)
    BY <1>2 DEF Tables, Windows!CoverageAccounted, Windows!Replaced
  <1>6. CASE ~Windows!Valid(w, i)
    <2>1. UNCHANGED <<ingested, coverage>>
      BY <1>6 DEF Windows!Publish
    <2>2. coverage \in [from: {-1} \cup 0 .. MaxTime, through: {-1} \cup 0 .. MaxTime]
      BY <1>1 DEF TypedTables
    <2> QED BY <1>2, <1>3, <1>4, <1>5, <1>6, <2>1, <2>2
  <1>7. CASE Windows!Valid(w, i)
    <2>1. /\ ingested' = ingested \cup rows[w]
          /\ coverage' = [from |-> IF through = -1 THEN begin ELSE from, through |-> Windows!Max({through, end})]
      BY <1>2, <1>7 DEF Windows!Publish, Windows!Uncovered
    <2>2. Windows!Max({through, end}) = IF through >= end THEN through ELSE end
      BY <1>3, PairMaxMin
    <2>3. PICK most : most = (IF through >= end THEN through ELSE end)
      OBVIOUS
    <2>4. most \in {-1} \cup 0 .. MaxTime /\ most <= now
      BY <1>3, <2>3
    <2>5. PICK low : low = (IF through = -1 THEN begin ELSE from)
      OBVIOUS
    <2>6. low \in {-1} \cup 0 .. MaxTime
      BY <1>3, <2>5
    <2>7. coverage' = [from |-> low, through |-> most]
      BY <2>1, <2>2, <2>3, <2>5
    <2>8. coverage' \in [from: {-1} \cup 0 .. MaxTime, through: {-1} \cup 0 .. MaxTime]
      BY <2>4, <2>6, <2>7
    <2>9. through = -1 \/ begin <= through
      <3>1. ~(through # -1 /\ begin > through)
        BY <1>2, <1>7 DEF Windows!Valid, Windows!Skips, Windows!Uncovered
      <3>2. through \in Int /\ begin \in Int
        BY <1>3
      <3> QED BY <3>1, <3>2
    <2>10. \A r \in runs : begin < r /\ r <= end => r \in rows[w] \/ Windows!Replaced(r)
      <3>1. Windows!PageKept(w, pages[w][i])
        BY <1>1 DEF Tables, Windows!WindowsKept
      <3> QED BY <1>2, <1>7, <3>1 DEF Windows!PageKept, Windows!Valid
    <2>11. ASSUME NEW r \in runs, low < r, r <= most
           PROVE  r \in ingested' \/ Windows!Replaced(r)
      <3>1. r \in 0 .. MaxTime
        BY <1>4
      <3>2. (from < r /\ r <= through) \/ (begin < r /\ r <= end)
        BY <1>3, <2>3, <2>5, <2>9, <2>11, <3>1
      <3> QED BY <1>5, <2>1, <2>10, <3>2
    <2>12. coverage'.from = low /\ coverage'.through = most
      BY <2>7
    <2>13. ingested \subseteq ingested' /\ ingested' \subseteq runs /\ rows[w] \subseteq ingested'
      BY <1>4, <2>1
    <2>14. \A r \in runs : low < r /\ r <= most => r \in ingested' \/ Windows!Replaced(r)
      BY <2>11
    <2> QED BY <2>4, <2>8, <2>12, <2>13, <2>14
  <1> QED BY <1>6, <1>7

LEMMA ClosingPageKeeps ==
  ASSUME Windows!WindowInv, NEW w \in 1 .. Len(poll), NEW i \in DOMAIN pages[w], Windows!ClosingPage(w, i),
         UNCHANGED <<now, runs, policy, admitted, schedule, progress, ambiguous, col, wfaults>>
  PROVE  Windows!WindowInv'
  <1>1. Tables /\ Sessions /\ TypedTables /\ wfaults \in 0 .. MaxPollFaults
    BY WindowParts DEF Tables
  <1> DEFINE valid == Windows!Valid(w, i)
             closes == ~valid \/ Windows!Closes(w, i)
  <1>2. PICK decision \in {"pending", "held", "published", "rejected"} :
          decision = IF valid THEN "published" ELSE "rejected"
    OBVIOUS
  <1>3. PICK work \in {"queued", "waiting", "completed"} : work = IF closes THEN "completed" ELSE "waiting"
    OBVIOUS
  <1>4. PICK p : p = Windows!Decided(w, i, decision, work)
    OBVIOUS
  <1>5. PICK s : s = IF closes THEN Windows!Outcome(w, valid) ELSE status
    OBVIOUS
  <1> DEFINE z == Windows!SchedulePoll([Windows!Store EXCEPT !.pages = p, !.status = s])
  <1>6. /\ status[w] = "open" /\ pages[w][i].policy = policy /\ pages[w][i].rev = progress.rev
        /\ pages[w][i].last /\ Windows!Publish(w, i)
        /\ poll' = z.poll /\ pages' = z.pages /\ rows' = z.rows /\ status' = z.status
    BY <1>2, <1>3, <1>4, <1>5 DEF Windows!ClosingPage, Windows!SaveStore, Windows!EvidenceCurrent
  <1>7. AgreeExcept(p, w, i)
    BY <1>1, <1>2, <1>3, <1>4, DecidedPages
  <1>8. /\ s \in Seq({"open", "validated", "rejected"}) /\ Len(s) = Len(poll)
        /\ \A v \in 1 .. Len(poll) : v # w => s[v] = status[v]
        /\ s[w] = "validated" => valid
    <2>1. status \in Seq({"open", "validated", "rejected"}) /\ Len(status) = Len(poll)
      BY <1>1 DEF TypedTables
    <2>2. CASE closes
      <3>1. PICK e \in {"open", "validated", "rejected"} : e = IF valid THEN "validated" ELSE "rejected"
        OBVIOUS
      <3>2. s = [status EXCEPT ![w] = e]
        BY <1>5, <2>2, <3>1 DEF Windows!Outcome
      <3>3. /\ s \in Seq({"open", "validated", "rejected"}) /\ Len(s) = Len(status)
            /\ \A v \in 1 .. Len(status) : s[v] = IF v = w THEN e ELSE status[v]
        BY <2>1, <3>2, ExceptSeq
      <3>4. s[w] = e
        BY <2>1, <3>3
      <3> QED BY <2>1, <3>1, <3>3, <3>4
    <2>3. CASE ~closes
      BY <1>5, <1>6, <2>1, <2>3
    <2> QED BY <2>2, <2>3
  <1> HIDE DEF valid, closes
  <1>9. poll[w].state = "completed" /\ i \in 1 .. Len(pages[w]) /\ Len(poll) \in 1 .. Len(poll)
    BY <1>1, <1>6, LatestFacts
  <1>10. SameSlot = {v \in Windows!Polls : poll[v].slot = Windows!DueSlot}
    BY <1>1, TableFacts DEF SameSlot
  <1>11. ASSUME Agree(pages'), \A v \in 1 .. Len(poll) : status'[v] = s[v]
         PROVE  Settles(w)
    <2>1. \A v \in 1 .. Len(poll) : v # w => status'[v] = status[v]
      BY <1>8, <1>11
    <2>2. status'[w] = "validated" =>
            /\ poll[w].state = "completed" /\ rows[w] \subseteq ingested'
            /\ \E j \in 1 .. Len(pages[w]) : pages[w][j].last /\ pages[w][j].complete
      <3> SUFFICES ASSUME status'[w] = "validated"
                   PROVE  /\ rows[w] \subseteq ingested'
                          /\ \E j \in 1 .. Len(pages[w]) : pages[w][j].last /\ pages[w][j].complete
        BY <1>9
      <3>1. Windows!Valid(w, i)
        BY <1>8, <1>11 DEF valid
      <3>2. rows[w] \subseteq ingested'
        BY <1>1, <1>6, <3>1, PublishAccounted
      <3>3. pages[w][i].complete
        BY <3>1 DEF Windows!Valid
      <3> QED BY <1>6, <1>9, <3>2, <3>3
    <2>3. /\ coverage' \in [from: {-1} \cup 0 .. MaxTime, through: {-1} \cup 0 .. MaxTime]
          /\ coverage'.through <= now
          /\ ingested \subseteq ingested' /\ ingested' \subseteq runs
          /\ \A r \in runs : coverage'.from < r /\ r <= coverage'.through => r \in ingested' \/ Windows!Replaced(r)
      BY <1>1, <1>6, PublishAccounted
    <2> QED BY <1>11, <2>1, <2>2, <2>3 DEF Settles
  <1>12. CASE ~NoneDue
    <2>1. z = [Windows!Store EXCEPT !.pages = p, !.status = s]
      BY <1>10, <1>12 DEF NoneDue, Windows!SchedulePoll
    <2>2. UNCHANGED <<poll, rows>> /\ pages' = p /\ status' = s
      BY <1>6, <2>1 DEF Windows!Store
    <2>3. Settles(w)
      BY <1>7, <1>11, <2>2 DEF AgreeExcept
    <2>4. ASSUME admitted = policy PROVE StillOpen(pages', status')
      <3>1. PICK v \in 1 .. Len(poll) : Windows!Live(v) /\ poll[v].policy = policy
        BY <1>12 DEF NoneDue, SameSlot
      <3>2. v = Len(poll)
        BY <1>1, <3>1, TableFacts DEF Tables, Windows!PollsSound, Windows!PollSound
      <3>3. w # Len(poll)
        BY <1>9, <3>1, <3>2 DEF Windows!Live
      <3> QED BY <1>1, <1>7, <1>8, <1>9, <2>2, <3>3, OtherWindow
    <2>5. Tables'
      BY <1>1, <1>7, <1>8, <2>2, <2>3, <2>4, SettledTables DEF AgreeExcept
    <2>6. Sessions'
      BY <1>1, <2>2, <2>5, SettledSessions
    <2> QED BY <1>1, <2>5, <2>6, WindowParts
  <1>13. CASE NoneDue
    <2>1. PICK due : due = IF SameSlot = {} THEN Windows!DueSlot ELSE Windows!Max({Windows!DueSlot, now})
      OBVIOUS
    <2>2. z = [poll |-> Append(poll, Windows!NewPoll(Windows!DueSlot, due, policy)),
               pages |-> Append(p, <<>>), rows |-> Append(rows, {}), status |-> Append(s, "open")]
      BY <1>10, <1>13, <2>1 DEF NoneDue, Windows!SchedulePoll, Windows!Store
    <2>3. Scheduled(due, p, s)
      BY <1>6, <1>7, <1>8, <2>2 DEF Scheduled, AgreeExcept
    <2>4. ~(admitted < policy) /\ admitted' = policy
      <3>1. policy <= admitted
        BY <1>1, <1>6, LatestFacts, TableFacts DEF Tables, Windows!PollsSound, Windows!PollSound
      <3> QED BY <1>1, <3>1, TableFacts
    <2>5. due \in 0 .. MaxTime + PollSeconds /\ Windows!DueSlot \in 0 .. MaxTime + PollSeconds
      BY <1>1, <1>13, <2>1, <2>4, DueAfter
    <2>6. \A v \in 1 .. Len(poll) : pages'[v] = p[v] /\ status'[v] = s[v]
      <3>1. PollAdded(due, p, s)
        BY <1>1, <2>3, <2>5, ScheduledPoll
      <3> QED BY <3>1 DEF PollAdded
    <2>7. Agree(pages')
      <3>1. Agree(p)
        BY <1>7 DEF AgreeExcept
      <3>2. \A v \in 1 .. Len(poll) : pages'[v] = p[v]
        BY <2>6
      <3>3. \A v \in 1 .. Len(poll) : Len(pages'[v]) = Len(pages[v])
        BY <3>1, <3>2 DEF Agree
      <3>4. ASSUME NEW v \in 1 .. Len(poll), NEW j \in 1 .. Len(pages[v])
            PROVE  /\ pages'[v][j].policy = pages[v][j].policy /\ pages'[v][j].rev = pages[v][j].rev
                   /\ pages'[v][j].last = pages[v][j].last /\ pages'[v][j].complete = pages[v][j].complete
                   /\ pages'[v][j].exhausted = pages[v][j].exhausted
        <4>1. pages'[v] = p[v]
          BY <3>2
        <4> QED BY <3>1, <4>1 DEF Agree
      <3> QED BY <3>3, <3>4 DEF Agree
    <2>8. Settles(w)
      BY <1>11, <2>6, <2>7
    <2>9. Tables'
      BY <1>1, <1>13, <2>1, <2>3, <2>4, <2>8, ScheduledTables
    <2>10. Sessions'
      BY <1>1, <1>13, <2>3, <2>5, <2>9, ScheduledSessions
    <2> QED BY <1>1, <2>9, <2>10, WindowParts
  <1> QED BY <1>12, <1>13

LEMMA ReconcileKeeps ==
  ASSUME Windows!WindowInv, NEW w \in Windows!Polls, NEW i \in DOMAIN pages[w], Windows!Reconcile(w, i)
  PROVE  Windows!WindowInv'
  <1>1. UNCHANGED <<now, runs, policy, admitted, schedule, progress, ambiguous, col, wfaults>>
    BY DEF Windows!Reconcile, Windows!sourceVars, Windows!policyVars
  <1>2. w \in 1 .. Len(poll)
    BY WindowParts, TableFacts DEF Tables
  <1>3. CASE Windows!Acknowledge(w, i)
    BY <1>1, <1>2, <1>3, AcknowledgeKeeps
  <1>4. CASE Windows!PolicyMoved(w, i)
    BY <1>1, <1>2, <1>4, PolicyMovedKeeps
  <1>5. CASE Windows!StalePage(w, i)
    BY <1>1, <1>2, <1>5, StalePageKeeps
  <1>6. CASE Windows!OpenPage(w, i)
    BY <1>1, <1>2, <1>6, OpenPageKeeps
  <1>7. CASE Windows!ClosingPage(w, i)
    BY <1>1, <1>2, <1>7, ClosingPageKeeps
  <1> QED BY <1>3, <1>4, <1>5, <1>6, <1>7 DEF Windows!Reconcile

-----------------------------------------------------------------------------
(* A page is accepted. *)

\* The page of the collector's session is sound, and loses no run of the window.
Acceptance(c, page) ==
  /\ page \in Windows!Reading /\ Windows!Listed(page.cursor) /\ page.rows \subseteq runs
  /\ page.cursor.kind = "next" => Windows!Kept(col[c].window, page.cursor, page.rows)
  /\ page.cursor.kind = "none" /\ ~page.exhausted => Windows!Kept(col[c].window, Windows!StartCursor, page.rows)

\* What accepting a page makes of the tables.
Accepted(c, w, page) ==
  /\ w = Len(poll) /\ w \in 1 .. Len(poll)
  /\ rows' \in Seq(SUBSET (0 .. MaxTime)) /\ Len(rows') = Len(poll) /\ rows'[w] = rows[w] \cup page.rows
  /\ \A v \in 1 .. Len(poll) : v # w => rows'[v] = rows[v] /\ pages'[v] = pages[v]
  /\ pages' \in Seq(Seq(Windows!Page)) /\ Len(pages') = Len(poll) /\ Len(pages'[w]) = Len(pages[w]) + 1
  /\ \A j \in 1 .. Len(pages[w]) : pages'[w][j] = pages[w][j]
  /\ pages'[w][Len(pages[w]) + 1] = Windows!AcceptedPage(page)
  /\ Moved(w, IF page.cursor.kind = "none" THEN "completed" ELSE "leased",
              IF page.cursor.kind = "none" THEN None ELSE c)
  /\ progress' = [rev |-> progress.rev + 1, window |-> col[c].window, cursor |-> page.cursor]
  /\ schedule' = IF page.cursor.kind = "none" THEN [policy |-> policy, next |-> now + PollSeconds] ELSE schedule
  /\ ambiguous' \subseteq ambiguous \cup {w}
  /\ UNCHANGED <<now, runs, policy, admitted, status, coverage, ingested>>

LEMMA PageAccepted ==
  ASSUME Tables, Sessions, NEW c \in Collectors, NEW page \in Windows!Reading, NEW next,
         col[c].pc # "idle", Windows!Acceptable(c), Windows!Accept(c, page, next),
         UNCHANGED <<now, runs, policy, admitted, status, coverage, ingested>>
  PROVE  Accepted(c, col[c].poll, page) /\ Windows!AcceptedPage(page) \in Windows!Page
  <1>1. TypedTables
    BY DEF Tables
  <1>2. PICK w : w = col[c].poll
    OBVIOUS
  <1>3. /\ w = Len(poll) /\ w \in 1 .. Len(poll)
        /\ poll[w].state = "leased" /\ poll[w].owner = c
    BY <1>2, OwnerFacts DEF Windows!Acceptable
  <1>4. page.rows \in SUBSET (0 .. MaxTime) /\ page.complete \in BOOLEAN /\ page.exhausted \in BOOLEAN
    BY DEF Windows!Reading, Windows!Times
  <1>5. Windows!AcceptedPage(page) \in Windows!Page
    <2>1. policy \in 1 .. MaxPolicy /\ progress.rev + 1 \in Nat /\ (page.cursor.kind = "none") \in BOOLEAN
      BY <1>1 DEF TypedTables
    <2> QED BY <1>4, <2>1 DEF Windows!AcceptedPage, Windows!Page
  <1>6. /\ rows' \in Seq(SUBSET (0 .. MaxTime)) /\ Len(rows') = Len(poll)
        /\ \A v \in 1 .. Len(poll) : rows'[v] = IF v = w THEN rows[w] \cup page.rows ELSE rows[v]
    <2>1. PICK e : e = rows[w] \cup page.rows
      OBVIOUS
    <2>2. rows' = [rows EXCEPT ![w] = e] /\ rows \in Seq(SUBSET (0 .. MaxTime)) /\ Len(rows) = Len(poll)
      BY <1>1, <1>2, <2>1 DEF Windows!Accept, Windows!Stage, TypedTables
    <2>3. e \in SUBSET (0 .. MaxTime)
      BY <1>1, <1>3, <1>4, <2>1, TableFacts
    <2>4. /\ rows' \in Seq(SUBSET (0 .. MaxTime)) /\ Len(rows') = Len(rows)
          /\ \A v \in 1 .. Len(rows) : rows'[v] = IF v = w THEN e ELSE rows[v]
      BY <1>3, <2>2, <2>3, ExceptSeq
    <2> QED BY <2>1, <2>2, <2>4
  <1>7. PICK e : e = Append(pages[w], Windows!AcceptedPage(page))
    OBVIOUS
  <1>8. /\ e \in Seq(Windows!Page) /\ Len(e) = Len(pages[w]) + 1
        /\ \A j \in 1 .. Len(pages[w]) : e[j] = pages[w][j]
        /\ e[Len(pages[w]) + 1] = Windows!AcceptedPage(page)
    <2>1. pages[w] \in Seq(Windows!Page)
      BY <1>1, <1>3, TableFacts
    <2> QED BY <1>5, <1>7, <2>1, AppendProperties
  <1>9. /\ pages' \in Seq(Seq(Windows!Page)) /\ Len(pages') = Len(poll)
        /\ \A v \in 1 .. Len(poll) : pages'[v] = IF v = w THEN e ELSE pages[v]
    <2>1. PICK T : T = Seq(Windows!Page)
      OBVIOUS
    <2>2. pages' = [pages EXCEPT ![w] = e] /\ pages \in Seq(T) /\ Len(pages) = Len(poll) /\ e \in T
      BY <1>1, <1>2, <1>7, <1>8, <2>1 DEF Windows!Accept, TypedTables
    <2>3. /\ pages' \in Seq(T) /\ Len(pages') = Len(pages)
          /\ \A v \in 1 .. Len(pages) : pages'[v] = IF v = w THEN e ELSE pages[v]
      BY <1>3, <2>2, ExceptSeq
    <2> QED BY <2>1, <2>2, <2>3
  <1>10. Moved(w, IF page.cursor.kind = "none" THEN "completed" ELSE "leased",
                  IF page.cursor.kind = "none" THEN None ELSE c)
    <2>1. CASE page.cursor.kind = "none"
      <3>1. poll' = [poll EXCEPT ![w].state = "completed", ![w].owner = None]
        BY <1>2, <2>1 DEF Windows!Accept
      <3>2. Moved(w, "completed", None)
        BY <1>1, <1>3, <3>1, PollMoves
      <3> QED BY <2>1, <3>2
    <2>2. CASE page.cursor.kind # "none"
      <3>1. poll' = poll
        BY <2>2 DEF Windows!Accept
      <3> QED BY <1>1, <1>3, <2>2, <3>1 DEF Moved, TypedTables
    <2> QED BY <2>1, <2>2
  <1>11. /\ progress' = [rev |-> progress.rev + 1, window |-> col[c].window, cursor |-> page.cursor]
         /\ schedule' = IF page.cursor.kind = "none" THEN [policy |-> policy, next |-> now + PollSeconds] ELSE schedule
         /\ ambiguous' \subseteq ambiguous \cup {w}
    BY <1>2 DEF Windows!Accept, Windows!Stage
  <1>12. /\ rows'[w] = rows[w] \cup page.rows
         /\ \A v \in 1 .. Len(poll) : v # w => rows'[v] = rows[v] /\ pages'[v] = pages[v]
         /\ Len(pages'[w]) = Len(pages[w]) + 1
         /\ \A j \in 1 .. Len(pages[w]) : pages'[w][j] = pages[w][j]
         /\ pages'[w][Len(pages[w]) + 1] = Windows!AcceptedPage(page)
    BY <1>3, <1>6, <1>8, <1>9
  <1> QED BY <1>2, <1>3, <1>5, <1>6, <1>9, <1>10, <1>11, <1>12 DEF Accepted

LEMMA AcceptedTables ==
  ASSUME Tables, Sessions, NEW c \in Collectors, NEW page, NEW w, Acceptance(c, page), Accepted(c, w, page),
         Windows!AcceptedPage(page) \in Windows!Page, admitted = policy, w = col[c].poll,
         col[c].pc \in {"framed", "read"}, Windows!Owned(c), Windows!CurrentPolicy(c)
  PROVE  Tables'
  <1>1. TypedTables /\ Len(poll) \in 1 .. Len(poll) /\ Windows!Polls = 1 .. Len(poll) /\ Windows!Latest = Len(poll)
    BY TableFacts DEF Tables, Windows!TimePassed
  <1>2. /\ w = Len(poll) /\ w \in 1 .. Len(poll)
        /\ UNCHANGED <<now, runs, policy, admitted, status, coverage, ingested>>
        /\ progress'.rev = progress.rev + 1 /\ progress'.window = col[c].window /\ progress'.cursor = page.cursor
        /\ Len(poll') = Len(poll) /\ poll' \in Seq(Windows!Poll)
        /\ \A v \in 1 .. Len(poll) :
             poll'[v].slot = poll[v].slot /\ poll'[v].due = poll[v].due /\ poll'[v].policy = poll[v].policy
        /\ \A v \in 1 .. Len(poll) : v # w => poll'[v].state = poll[v].state /\ poll'[v].owner = poll[v].owner
        /\ poll'[w].state = IF page.cursor.kind = "none" THEN "completed" ELSE "leased"
        /\ poll'[w].owner = IF page.cursor.kind = "none" THEN None ELSE c
    BY DEF Accepted, Moved
  <1>3. Windows!Polls' = 1 .. Len(poll) /\ Windows!Latest' = Len(poll)
    BY <1>2, LenProperties DEF Windows!Polls, Windows!Latest
  <1>4. /\ rows'[w] = rows[w] \cup page.rows
        /\ \A v \in 1 .. Len(poll) : v # w => rows'[v] = rows[v] /\ pages'[v] = pages[v]
        /\ Len(pages'[w]) = Len(pages[w]) + 1
        /\ \A j \in 1 .. Len(pages[w]) : pages'[w][j] = pages[w][j]
        /\ pages'[w][Len(pages[w]) + 1] = Windows!AcceptedPage(page)
    BY DEF Accepted
  <1>5. /\ poll[w].state = "leased" /\ poll[w].owner = c /\ poll[w].policy = policy
        /\ Windows!Working(c) /\ status[w] = "open" /\ Windows!PollSound(w) /\ poll[w].slot = Windows!DueSlot
    <2>1. poll[w].state = "leased" /\ poll[w].owner = c /\ poll[w].policy = policy
      BY <1>2, OwnerFacts
    <2>2. status[w] = "open" /\ poll[w].slot = Windows!DueSlot
      BY <1>1, <1>2, <2>1 DEF Tables, Windows!Continues
    <2> QED BY <1>1, <1>2, <2>1, <2>2 DEF Windows!Working, Tables, Windows!PollsSound
  <1>6. /\ page.rows \subseteq runs /\ page.cursor \in Windows!Cursor /\ page.rows \in SUBSET (0 .. MaxTime)
        /\ page.exhausted \in BOOLEAN
    BY DEF Acceptance, Windows!Reading, Windows!Times
  <1>7. /\ col[c].window \in Windows!Window /\ col[c].window.end <= now /\ col[c].window.end <= poll[w].due
        /\ col[c].window.end \in 0 .. MaxTime
    BY <1>5, SessionFields DEF Sessions, Windows!SessionSound
  <1>8. /\ now \in 0 .. MaxTime /\ progress.rev \in Nat /\ policy \in 1 .. MaxPolicy /\ MaxTime \in Nat
        /\ PollSeconds \in Nat \ {0} /\ Len(pages[w]) \in Nat
    BY <1>1, <1>2, TableFacts, WindowConstants DEF TypedTables
  <1> DEFINE last == page.cursor.kind = "none"
             n == Len(pages[w]) + 1
  <1>9. /\ pages'[w][n].policy = policy /\ pages'[w][n].rev = progress.rev + 1 /\ pages'[w][n].last = last
        /\ pages'[w][n].complete = page.complete /\ pages'[w][n].exhausted = page.exhausted
        /\ pages'[w][n].decision = "pending" /\ pages'[w][n].work = "queued"
    BY <1>4 DEF Windows!AcceptedPage
  <1>10. /\ \A v \in 1 .. Len(poll) : DOMAIN pages[v] = 1 .. Len(pages[v])
         /\ \A v \in 1 .. Len(poll) : DOMAIN pages'[v] = 1 .. Len(pages'[v])
         /\ pages'[w] # <<>>
    <2>1. \A v \in 1 .. Len(poll) : DOMAIN pages[v] = 1 .. Len(pages[v])
      BY <1>1, TableFacts
    <2>2. ASSUME NEW v \in 1 .. Len(poll)
          PROVE  DOMAIN pages'[v] = 1 .. Len(pages'[v]) /\ (pages'[v] # <<>> <=> Len(pages'[v]) # 0)
      <3>1. pages'[v] \in Seq(Windows!Page)
        BY ElementOfSeq DEF Accepted
      <3> QED BY <3>1, LenProperties, EmptySeq
    <2> QED BY <1>2, <1>4, <1>8, <2>1, <2>2
  <1>11. \A j \in DOMAIN pages'[w] : (j \in 1 .. Len(pages[w]) /\ j # n) \/ j = n
    BY <1>2, <1>4, <1>8, <1>10
  <1> HIDE DEF n
  <1>12. \A r : Windows!Replaced(r)' = Windows!Replaced(r)
    <2>1. \A v \in 1 .. Len(poll) : poll[v].policy < policy => v # w
      BY <1>5, <1>8
    <2> QED BY <1>1, <1>2, <1>3, <1>4, <2>1 DEF Windows!Replaced
  <1>13. \A r : r \in page.rows \/ Windows!Staged(r) => r \in rows'[w] \/ Windows!Replaced(r)
    BY <1>1, <1>2, <1>4 DEF Windows!Staged
  <1>14. TypedTables'
    <2>1. progress' \in [rev: Nat, window: Windows!Window, cursor: Windows!Cursor]
      <3>1. progress.rev + 1 \in Nat
        BY <1>8
      <3> QED BY <1>6, <1>7, <3>1 DEF Accepted
    <2>2. schedule' \in [policy: 0 .. MaxPolicy, next: 0 .. MaxTime + PollSeconds]
      <3>1. policy \in 0 .. MaxPolicy /\ now + PollSeconds \in 0 .. MaxTime + PollSeconds
        BY <1>8, WindowConstants
      <3> QED BY <1>1, <3>1 DEF Accepted, TypedTables
    <2>3. ambiguous' \subseteq DOMAIN poll'
      BY <1>1, <1>2, <1>3 DEF Accepted, TypedTables, Windows!Polls
    <2>4. /\ rows' \in Seq(SUBSET (0 .. MaxTime)) /\ Len(rows') = Len(poll)
          /\ pages' \in Seq(Seq(Windows!Page)) /\ Len(pages') = Len(poll)
      BY DEF Accepted
    <2> QED BY <1>1, <1>2, <2>1, <2>2, <2>3, <2>4 DEF TypedTables
  <1>15. Windows!CoverageAccounted'
    <2>1. \A r \in runs : coverage.from < r /\ r <= coverage.through => r \in ingested \/ Windows!Replaced(r)
      BY DEF Tables, Windows!CoverageAccounted, Windows!Replaced
    <2>2. \A r \in runs : coverage.from < r /\ r <= coverage.through => r \in ingested \/ Windows!Replaced(r)'
      BY <1>12, <2>1
    <2> QED BY <1>2, <2>2 DEF Windows!CoverageAccounted, Windows!Replaced
  <1>16. Windows!ValidatedIsWhole'
    <2>1. ASSUME NEW v \in 1 .. Len(poll), status[v] = "validated"
          PROVE  /\ rows'[v] \subseteq ingested
                 /\ \E j \in DOMAIN pages'[v] : pages'[v][j].last /\ pages'[v][j].complete
      <3>1. v # w
        BY <1>5, <2>1
      <3> QED BY <1>1, <1>4, <2>1, <3>1 DEF Tables, Windows!ValidatedIsWhole
    <2> QED BY <1>2, <1>3, <2>1 DEF Windows!ValidatedIsWhole
  <1>17. Windows!TimePassed'
    <2>1. schedule'.policy <= policy
      <3>1. schedule.policy <= policy
        BY DEF Tables, Windows!TimePassed
      <3>2. policy <= policy
        BY <1>8
      <3> QED BY <3>1, <3>2 DEF Accepted
    <2>2. poll'[1].slot = 0 /\ Len(poll') > 0
      <3>1. 1 \in 1 .. Len(poll)
        BY <1>1, TableFacts
      <3> QED BY <1>2, <3>1 DEF Tables, Windows!TimePassed
    <2> QED BY <1>2, <2>1, <2>2 DEF Tables, Windows!TimePassed
  <1>18. Windows!PollsSound'
    <2>1. ASSUME NEW v \in 1 .. Len(poll) PROVE Windows!PollSound(v)'
      <3>1. Windows!PollSound(v)
        BY <1>1 DEF Tables, Windows!PollsSound
      <3>2. \A j \in DOMAIN pages[v] :
              /\ pages[v][j].policy = poll[v].policy /\ pages[v][j].rev <= progress.rev + 1
              /\ pages[v][j].last <=> j = Len(pages[v]) /\ poll[v].state = "completed"
        <4>1. ASSUME NEW j \in DOMAIN pages[v] PROVE pages[v][j].rev <= progress.rev + 1
          <5>1. pages[v][j].rev \in Nat
            <6>1. pages[v] \in Seq(Windows!Page) /\ j \in 1 .. Len(pages[v])
              BY <1>1, <1>10, TableFacts
            <6>2. pages[v][j] \in Windows!Page
              BY <6>1, ElementOfSeq
            <6> QED BY <6>2 DEF Windows!Page
          <5>2. pages[v][j].rev <= progress.rev
            BY <3>1 DEF Windows!PollSound
          <5> QED BY <1>8, <5>1, <5>2
        <4> QED BY <3>1, <4>1 DEF Windows!PollSound
      <3>3. CASE v # w
        <4>1. pages'[v] = pages[v] /\ rows'[v] = rows[v]
          BY <1>4, <3>3
        <4> QED BY <1>1, <1>2, <1>3, <3>1, <3>2, <3>3, <4>1 DEF Windows!PollSound, Windows!Live
      <3>4. CASE v = w
        <4>1. \A j \in DOMAIN pages'[w] :
                /\ pages'[w][j].policy = poll[w].policy /\ pages'[w][j].rev <= progress.rev + 1
                /\ pages'[w][j].last <=> j = Len(pages'[w]) /\ poll'[w].state = "completed"
          <5>1. ASSUME NEW j \in 1 .. Len(pages[w]), j # n
                PROVE  /\ pages'[w][j].policy = poll[w].policy /\ pages'[w][j].rev <= progress.rev + 1
                       /\ pages'[w][j].last <=> j = Len(pages'[w]) /\ poll'[w].state = "completed"
            <6>1. pages'[w][j] = pages[w][j] /\ Len(pages'[w]) = n
              BY <1>4 DEF n
            <6>2. ~pages[w][j].last
              BY <1>2, <1>5, <1>10, <3>2, <3>4
            <6> QED BY <1>2, <1>10, <3>2, <3>4, <5>1, <6>1, <6>2
          <5>2. /\ pages'[w][n].policy = poll[w].policy /\ pages'[w][n].rev <= progress.rev + 1
                /\ pages'[w][n].last <=> n = Len(pages'[w]) /\ poll'[w].state = "completed"
            <6>1. Len(pages'[w]) = n
              BY <1>4 DEF n
            <6>2. progress.rev + 1 <= progress.rev + 1
              BY <1>8
            <6> QED BY <1>2, <1>5, <1>9, <6>1, <6>2
          <5> QED BY <1>11, <5>1, <5>2
        <4>2. rows'[w] \subseteq runs
          BY <1>4, <1>5, <1>6 DEF Windows!PollSound
        <4>3. poll'[w].state = "leased" <=> poll'[w].owner # None
          BY <1>2, WindowConstants
        <4>4. poll'[w].due <= now /\ poll'[w].policy <= admitted
          BY <1>2, <1>5 DEF Windows!PollSound
        <4> QED BY <1>2, <1>3, <1>5, <1>10, <3>4, <4>1, <4>2, <4>3, <4>4 DEF Windows!PollSound, Windows!Live
      <3> QED BY <3>3, <3>4
    <2> QED BY <1>3, <2>1 DEF Windows!PollsSound
  <1>19. Windows!Continues'
    <2>1. Len(pages'[w]) = n /\ Windows!Latest' = w
      BY <1>2, <1>3, <1>4 DEF n
    <2>2. CASE last
      <3>1. schedule'.policy = policy
        BY <2>2 DEF Accepted
      <3> QED BY <1>2, <1>5, <1>9, <2>1, <2>2, <3>1 DEF Windows!Continues
    <2>3. CASE ~last
      <3>1. Windows!DueSlot' = Windows!DueSlot
        BY <1>2, <2>3 DEF Accepted, Windows!DueSlot
      <3>2. poll'[w].state = "leased"
        BY <1>2, <2>3
      <3> QED BY <1>2, <1>5, <1>9, <2>1, <3>1, <3>2 DEF Windows!Continues, Windows!Live
    <2> QED BY <2>2, <2>3
  <1>20. Windows!WindowPassed'
    <2>1. ASSUME last
          PROVE  /\ \E v \in 1 .. Len(poll) : poll'[v].state = "completed" /\ col[c].window.end <= poll'[v].due
                 /\ col[c].window.end < schedule'.next
                 /\ poll'[w].state = "completed"
      <3>1. poll'[w].state = "completed" /\ col[c].window.end <= poll'[w].due
        BY <1>2, <1>7, <2>1
      <3>2. schedule'.next = now + PollSeconds
        BY <2>1 DEF Accepted
      <3>3. col[c].window.end < now + PollSeconds
        BY <1>7, <1>8
      <3> QED BY <1>2, <3>1, <3>2, <3>3
    <2>2. col[c].window.end <= poll'[w].due
      BY <1>2, <1>7
    <2> QED BY <1>2, <1>3, <1>7, <2>1, <2>2 DEF Windows!WindowPassed, Windows!Live
  <1>21. Windows!ProgressKept'
    <2>1. Windows!Listed(page.cursor)'
      BY <1>2 DEF Acceptance, Windows!Listed
    <2>2. ASSUME page.cursor.kind = "next"
          PROVE  \A r \in runs : col[c].window.start < r /\ r <= col[c].window.end =>
                   r \in page.cursor.rest \/ r \in rows'[w] \/ Windows!Replaced(r) \/ Windows!Dropped(r, page.cursor)
      BY <1>13, <2>2 DEF Acceptance, Windows!Kept
    <2>3. ASSUME page.cursor.kind = "next"
          PROVE  Windows!Kept(progress.window, progress.cursor, {})'
      BY <1>2, <1>3, <1>12, <2>2, <2>3 DEF Windows!Kept, Windows!Dropped, Windows!Staged
    <2>4. Windows!Listed(progress.cursor)'
      BY <1>2, <2>1 DEF Windows!Listed
    <2> QED BY <1>2, <2>3, <2>4 DEF Windows!ProgressKept
  <1>22. Windows!WindowsKept'
    <2>1. ASSUME NEW v \in 1 .. Len(poll), NEW j \in 1 .. Len(pages[v]) PROVE pages[v][j].rev # progress.rev + 1
      <3>1. pages[v][j].rev <= progress.rev
        BY <1>1, <1>10 DEF Tables, Windows!PollsSound, Windows!PollSound
      <3> QED BY <1>8, <3>1
    <2>2. ASSUME last, ~page.exhausted, NEW r \in runs, col[c].window.start < r, r <= col[c].window.end
          PROVE  r \in rows'[w] \/ Windows!Replaced(r)
      <3>1. \/ r \in Windows!StartCursor.rest \/ r \in page.rows \/ Windows!Staged(r)
            \/ Windows!Dropped(r, Windows!StartCursor)
        BY <2>2 DEF Acceptance, Windows!Kept
      <3>2. Windows!StartCursor.rest = {} /\ Windows!StartCursor.seen = 0
        BY DEF Windows!StartCursor, Windows!NoCursor
      <3>3. Windows!Cardinality({}) = 0 /\ Retained \in Nat \ {0}
        BY WindowsFinite, FS_EmptySet, WindowConstants
      <3>4. ~ Windows!Dropped(r, Windows!StartCursor)
        BY <3>2, <3>3 DEF Windows!Dropped
      <3> QED BY <1>13, <3>1, <3>2, <3>4
    <2>3. ASSUME NEW v \in 1 .. Len(poll), NEW j \in DOMAIN pages'[v] PROVE Windows!PageKept(v, pages[v][j])'
      <3>1. CASE v # w
        <4>1. pages'[v] = pages[v]
          BY <1>4, <3>1
        <4>2. pages'[v][j].rev # progress.rev + 1
          BY <1>10, <2>1, <2>3, <4>1
        <4> QED BY <1>2, <4>2 DEF Windows!PageKept
      <3>2. CASE v = w /\ j # n
        <4>1. j \in 1 .. Len(pages[w]) /\ pages'[w][j] = pages[w][j]
          BY <1>4, <1>11, <2>3, <3>2
        <4>2. pages'[v][j].rev # progress.rev + 1
          BY <1>2, <2>1, <3>2, <4>1
        <4> QED BY <1>2, <4>2 DEF Windows!PageKept
      <3>3. CASE v = w /\ j = n
        BY <1>2, <1>9, <1>12, <2>2, <3>3 DEF Windows!PageKept
      <3> QED BY <3>1, <3>2, <3>3
    <2> QED BY <1>3, <2>3 DEF Windows!WindowsKept
  <1> QED BY <1>14, <1>15, <1>16, <1>17, <1>18, <1>19, <1>20, <1>21, <1>22 DEF Tables

LEMMA AcceptKeeps ==
  ASSUME Windows!WindowInv, NEW c \in Collectors, NEW page, NEW next \in {"framed", "yield"},
         Acceptance(c, page), col[c].pc \in {"framed", "read"},
         Windows!Acceptable(c), Windows!Accept(c, page, next),
         UNCHANGED <<now, runs, policy, admitted, status, coverage, ingested>>,
         (wfaults \in 0 .. MaxPollFaults)'
  PROVE  Windows!WindowInv'
  <1>1. Tables /\ Sessions /\ TypedTables
    BY WindowParts DEF Tables
  <1>2. PICK w : w = col[c].poll
    OBVIOUS
  <1>3. /\ Windows!Owned(c) /\ Windows!CurrentPolicy(c) /\ admitted = policy /\ col[c].pc # "idle"
        /\ page \in Windows!Reading
    BY DEF Windows!Acceptable, Acceptance
  <1>4. Accepted(c, w, page) /\ Windows!AcceptedPage(page) \in Windows!Page
    BY <1>1, <1>2, <1>3, PageAccepted
  <1>5. Tables'
    BY <1>1, <1>2, <1>3, <1>4, AcceptedTables
  <1>6. /\ w = Len(poll) /\ w \in 1 .. Len(poll) /\ w \in Nat /\ Len(poll') = Len(poll) /\ poll' \in Seq(Windows!Poll)
        /\ \A v \in 1 .. Len(poll) : poll'[v].due = poll[v].due /\ poll'[v].policy = poll[v].policy
        /\ \A v \in 1 .. Len(poll) : v # w => poll'[v].owner = poll[v].owner
        /\ poll'[w].owner \in {None, c}
        /\ progress'.rev = progress.rev + 1 /\ progress'.window = col[c].window /\ progress'.cursor = page.cursor
    <2>1. /\ w = Len(poll) /\ w \in 1 .. Len(poll)
          /\ progress' = [rev |-> progress.rev + 1, window |-> col[c].window, cursor |-> page.cursor]
      BY <1>4 DEF Accepted
    <2>2. PICK state, owner : /\ owner \in {None, c}
                              /\ Moved(w, state, owner)
      <3>1. Moved(w, IF page.cursor.kind = "none" THEN "completed" ELSE "leased",
                     IF page.cursor.kind = "none" THEN None ELSE c)
        BY <1>4 DEF Accepted
      <3> QED BY <3>1
    <2>3. /\ Len(poll') = Len(poll) /\ poll' \in Seq(Windows!Poll)
          /\ \A v \in 1 .. Len(poll) : poll'[v].due = poll[v].due /\ poll'[v].policy = poll[v].policy
          /\ \A v \in 1 .. Len(poll) : v # w => poll'[v].owner = poll[v].owner
          /\ poll'[w].owner \in {None, c}
      BY <2>1, <2>2 DEF Moved
    <2>4. w \in Nat
      BY <2>1
    <2> QED BY <2>1, <2>3, <2>4
  <1>7. Windows!Polls = 1 .. Len(poll) /\ Windows!Polls' = 1 .. Len(poll) /\ Len(poll) \in Nat /\ now \in Nat
    BY <1>1, <1>6, TableFacts, LenProperties DEF Windows!Polls
  <1>8. col[c] \in Windows!Session /\ Windows!SessionSound(c) /\ Windows!Working(c)
    BY <1>1, <1>3 DEF Sessions, Windows!Working
  <1>9. /\ col[c].window.end <= now /\ col[c].window.end <= poll[w].due /\ poll[w].due <= now
    BY <1>2, <1>8 DEF Windows!SessionSound, Windows!Working
  <1>10. TypedTables'
    BY <1>5 DEF Tables
  <1>11. PICK s \in Windows!Session : col' = [col EXCEPT ![c] = s] /\ Windows!SessionSound(c)'
    <2>1. CASE page.cursor.kind = "none"
      <3>1. col' = [col EXCEPT ![c] = Windows!IdleCollector]
        BY <2>1 DEF Windows!Accept
      <3>2. col'[c] = [Windows!IdleCollector EXCEPT !.pc = "idle", !.poll = 0]
        BY <1>1, <3>1, IdleFacts DEF Sessions
      <3>3. Windows!SessionSound(c)'
        BY <1>10, <3>2, IdleSound
      <3> QED BY <3>1, <3>3, IdleFacts
    <2>2. CASE page.cursor.kind # "none"
      <3> DEFINE accepted == [col[c] EXCEPT !.pc = next, !.rev = progress.rev + 1, !.cursor = page.cursor,
                                            !.page = Windows!NoPage]
      <3>1. col' = [col EXCEPT ![c] = accepted]
        BY <2>2 DEF Windows!Accept
      <3>2. /\ Windows!NoPage \in Windows!Reading /\ progress.rev + 1 \in Nat /\ page.cursor \in Windows!Cursor
            /\ next \in Windows!Steps
        <4>1. Windows!NoPage \in Windows!Reading
          BY IdleFacts DEF Windows!NoPage, Windows!Reading
        <4> QED BY <1>1, <1>3, <4>1 DEF TypedTables, Windows!Reading, Windows!Steps
      <3>3. PICK s \in Windows!Session : s = accepted
        BY <1>8, <3>2 DEF Windows!Session
      <3>4. /\ s.pc = next /\ s.rev = progress.rev + 1 /\ s.cursor = page.cursor /\ s.page = Windows!NoPage
            /\ s.window = col[c].window /\ s.poll = w
        BY <1>2, <1>8, <3>2, <3>3 DEF Windows!Session
      <3> HIDE DEF accepted
      <3>5. col' = [col EXCEPT ![c] = s] /\ col'[c] = s
        BY <1>1, <3>1, <3>3 DEF Sessions
      <3>6. s.page.cursor = Windows!NoCursor /\ s.page.rows = {}
        BY <3>4 DEF Windows!NoPage
      <3>7. Windows!Listed(s.cursor)' /\ Windows!Listed(s.page.cursor)' /\ s.page.rows \subseteq runs'
        <4>1. Windows!Listed(s.cursor)'
          BY <3>4 DEF Acceptance, Windows!Listed
        <4>2. Windows!Listed(s.page.cursor)'
          BY <3>6, IdleFacts DEF Windows!Listed
        <4> QED BY <3>6, <4>1, <4>2
      <3>8. s.poll \in Windows!Polls' /\ poll'[s.poll].due <= now' /\ s.window.end <= now'
        BY <1>6, <1>7, <1>9, <3>4
      <3>9. /\ s.rev = progress'.rev /\ s.cursor = progress'.cursor /\ s.window = progress'.window
            /\ s.window.end <= poll'[s.poll].due /\ s.pc # "read"
        BY <1>6, <1>9, <3>4
      <3>10. Windows!SessionSound(c)'
        BY <3>5, <3>7, <3>8, <3>9, SessionOf
      <3> QED BY <3>5, <3>10
    <2> QED BY <2>1, <2>2
  <1>12. ASSUME NEW d \in Collectors, d # c PROVE Windows!SessionSound(d)'
    <2>1. col'[d] = col[d]
      BY <1>1, <1>11, <1>12 DEF Sessions
    <2>2. ASSUME Windows!Working(d)' PROVE FALSE
      <3>1. col[d].pc # "idle" /\ poll'[col[d].poll].owner = d /\ poll'[col[d].poll].policy = policy
        BY <2>1, <2>2 DEF Windows!Working, Windows!Owned, Windows!CurrentPolicy
      <3>2. col[d].poll \in 1 .. Len(poll)
        BY <1>1, <1>7, <3>1 DEF Sessions, Windows!SessionSound
      <3>3. col[d].poll # w
        BY <1>6, <1>12, <3>1, WindowConstants
      <3>4. Windows!Owned(d) /\ Windows!CurrentPolicy(d)
        BY <1>6, <3>1, <3>2, <3>3 DEF Windows!Owned, Windows!CurrentPolicy
      <3>5. col[d].poll = Len(poll)
        BY <1>1, <3>1, <3>4, OwnerFacts
      <3> QED BY <1>6, <3>3, <3>5
    <2>3. now <= now' /\ Len(poll) <= Len(poll')
      BY <1>6, <1>7
    <2> QED BY <1>1, <1>6, <1>10, <2>1, <2>2, <2>3, SessionStays
  <1>13. Sessions'
    BY <1>1, <1>11, <1>12, SessionsWhole
  <1> QED BY <1>5, <1>13, WindowParts

LEMMA RecordKeeps ==
  ASSUME Windows!WindowInv, NEW c \in Collectors, Windows!Record(c)
  PROVE  Windows!WindowInv'
  <1>1. Tables /\ Sessions /\ TypedTables /\ wfaults \in 0 .. MaxPollFaults
    BY WindowParts DEF Tables
  <1>2. /\ col[c].pc = "read" /\ Windows!Acceptable(c)
        /\ UNCHANGED <<now, runs, policy, admitted, status, coverage, ingested, wfaults>>
    BY DEF Windows!Record, Windows!sourceVars, Windows!policyVars, Windows!publishedVars
  <1>3. PICK next \in {"framed", "yield"} : Windows!Accept(c, col[c].page, next)
    BY DEF Windows!Record
  <1>4. PICK page : page = col[c].page
    OBVIOUS
  <1>5. Windows!SessionSound(c) /\ col[c] \in Windows!Session /\ Windows!Working(c)
    BY <1>1, <1>2 DEF Sessions, Windows!Working, Windows!Acceptable
  <1>6. Windows!PageSafe(col[c]) /\ Windows!Listed(col[c].page.cursor) /\ col[c].page.rows \subseteq runs
        /\ page \in Windows!Reading
    BY <1>2, <1>4, <1>5, SessionFields DEF Windows!SessionSound
  <1>7. Acceptance(c, page)
    BY <1>4, <1>6 DEF Acceptance, Windows!PageSafe
  <1> QED BY <1>1, <1>2, <1>3, <1>4, <1>7, AcceptKeeps

LEMMA ReadFailureKeeps ==
  ASSUME Windows!WindowInv, NEW c \in Collectors, Windows!ReadFailure(c)
  PROVE  Windows!WindowInv'
  <1>1. Tables /\ Sessions /\ TypedTables /\ wfaults \in 0 .. MaxPollFaults
    BY WindowParts DEF Tables
  <1>2. PICK cursor : cursor = IF col[c].cursor.kind = "none" THEN Windows!StartCursor ELSE col[c].cursor
    OBVIOUS
  <1>3. PICK page : page = [Windows!NoPage EXCEPT !.cursor = cursor]
    OBVIOUS
  <1>4. /\ col[c].pc = "framed" /\ Windows!Acceptable(c) /\ Windows!Accept(c, page, "yield")
        /\ UNCHANGED <<now, runs, policy, admitted, status, coverage, ingested>>
    BY <1>2, <1>3 DEF Windows!ReadFailure, Windows!sourceVars, Windows!policyVars, Windows!publishedVars
  <1>5. (wfaults \in 0 .. MaxPollFaults)'
    BY <1>1, WindowConstants DEF Windows!ReadFailure, Windows!Fault
  <1>6. Windows!SessionSound(c) /\ col[c] \in Windows!Session /\ Windows!Working(c)
    BY <1>1, <1>4 DEF Sessions, Windows!Working, Windows!Acceptable
  <1>7. cursor \in Windows!Cursor /\ Windows!Listed(cursor)
    <2>1. col[c].cursor \in Windows!Cursor /\ Windows!Listed(col[c].cursor)
      BY <1>6, SessionFields DEF Windows!SessionSound
    <2> QED BY <1>2, <2>1, IdleFacts
  <1>8. page \in Windows!Reading /\ page.rows = {} /\ page.cursor = cursor
    <2>1. Windows!NoPage \in Windows!Reading
      BY IdleFacts DEF Windows!NoPage, Windows!Reading
    <2>2. Windows!NoPage.rows = {}
      BY DEF Windows!NoPage
    <2> QED BY <1>3, <1>7, <2>1, <2>2 DEF Windows!Reading
  <1>9. cursor.kind # "none"
    <2>1. Windows!StartCursor.kind = "start"
      BY DEF Windows!StartCursor, Windows!NoCursor
    <2> QED BY <1>2, <2>1
  <1>10. ASSUME cursor.kind = "next" PROVE Windows!Kept(col[c].window, page.cursor, page.rows)
    <2>1. cursor = col[c].cursor
      <3>1. Windows!StartCursor.kind = "start"
        BY DEF Windows!StartCursor, Windows!NoCursor
      <3> QED BY <1>2, <1>10, <3>1
    <2>2. col[c].cursor = progress.cursor /\ col[c].window = progress.window
      BY <1>6, <1>9, <2>1 DEF Windows!SessionSound
    <2>3. Windows!Kept(progress.window, progress.cursor, {})
      BY <1>1, <1>10, <2>1, <2>2 DEF Tables, Windows!ProgressKept
    <2> QED BY <1>8, <2>1, <2>2, <2>3
  <1>11. Acceptance(c, page)
    BY <1>7, <1>8, <1>9, <1>10 DEF Acceptance
  <1> QED BY <1>4, <1>5, <1>11, AcceptKeeps

-----------------------------------------------------------------------------
(* Together. *)

LEMMA WindowsStart ==
  ASSUME Windows!Init
  PROVE  Windows!WindowInv
  <1>1. MaxTime \in Nat /\ MaxPolicy \in Nat \ {0} /\ PollSeconds \in Nat \ {0} /\ MaxPollFaults \in Nat
    BY WindowConstants
  <1>2. /\ now = 0 /\ runs = {} /\ policy = 1 /\ admitted = 1
        /\ schedule = [policy |-> 0, next |-> 0]
        /\ poll = <<Windows!NewPoll(0, 0, 1)>>
        /\ progress = [rev |-> 0, window |-> [start |-> 0, end |-> 0], cursor |-> Windows!NoCursor]
        /\ pages = <<<<>>>> /\ rows = <<{}>> /\ status = <<"open">> /\ ambiguous = {}
        /\ coverage = [from |-> -1, through |-> -1] /\ ingested = {}
        /\ col = [c \in Collectors |-> Windows!IdleCollector] /\ wfaults = 0
    BY DEF Windows!Init, Windows!Uncovered
  <1>3. PICK first \in Windows!Poll : first = Windows!NewPoll(0, 0, 1)
    <2>1. 0 \in 0 .. MaxTime + PollSeconds /\ 1 \in 1 .. MaxPolicy
      BY <1>1
    <2> QED BY <2>1 DEF Windows!NewPoll, Windows!Poll
  <1>4. first.slot = 0 /\ first.due = 0 /\ first.policy = 1 /\ first.state = "queued" /\ first.owner = None
    BY <1>3 DEF Windows!NewPoll
  <1>5. poll = <<first>> /\ Len(poll) = 1 /\ poll[1] = first /\ poll \in Seq(Windows!Poll)
    BY <1>2, <1>3
  <1>6. Windows!Polls = {1} /\ Windows!Latest = 1
    BY <1>5 DEF Windows!Polls, Windows!Latest
  <1>7. pages[1] = <<>> /\ DOMAIN pages[1] = {} /\ rows[1] = {} /\ status[1] = "open" /\ Len(pages[1]) = 0
    BY <1>2
  <1>8. TypedTables
    <2>1. 0 \in 0 .. MaxTime /\ 1 \in 1 .. MaxPolicy /\ 1 \in 1 .. 1
      BY <1>1
    <2>2. schedule \in [policy: 0 .. MaxPolicy, next: 0 .. MaxTime + PollSeconds]
      BY <1>1, <1>2
    <2>3. progress \in [rev: Nat, window: Windows!Window, cursor: Windows!Cursor]
      <3>1. [start |-> 0, end |-> 0] \in Windows!Window
        BY <2>1 DEF Windows!Window, Windows!Times
      <3> QED BY <1>2, <3>1, IdleFacts
    <2>4. /\ pages \in Seq(Seq(Windows!Page)) /\ Len(pages) = 1
      <3>1. PICK T : T = Seq(Windows!Page)
        OBVIOUS
      <3>2. <<>> \in T
        BY <3>1, EmptySeq
      <3> QED BY <1>2, <3>1, <3>2
    <2>5. rows \in Seq(SUBSET (0 .. MaxTime)) /\ Len(rows) = 1
      <3>1. {} \in SUBSET (0 .. MaxTime)
        OBVIOUS
      <3> QED BY <1>2, <3>1
    <2>6. status \in Seq({"open", "validated", "rejected"}) /\ Len(status) = 1
      BY <1>2
    <2>7. coverage \in [from: {-1} \cup 0 .. MaxTime, through: {-1} \cup 0 .. MaxTime]
      BY <1>2
    <2> QED BY <1>2, <1>5, <2>1, <2>2, <2>3, <2>4, <2>5, <2>6, <2>7 DEF TypedTables
  <1>9. Windows!CoverageAccounted /\ Windows!ValidatedIsWhole /\ Windows!TimePassed
    <2>1. Windows!CoverageAccounted
      BY <1>2 DEF Windows!CoverageAccounted
    <2>2. Windows!ValidatedIsWhole
      BY <1>6, <1>7 DEF Windows!ValidatedIsWhole
    <2>3. Windows!TimePassed
      BY <1>2, <1>4, <1>5 DEF Windows!TimePassed
    <2> QED BY <2>1, <2>2, <2>3
  <1>10. Windows!PollsSound
    BY <1>2, <1>4, <1>5, <1>6, <1>7 DEF Windows!PollsSound, Windows!PollSound, Windows!Live
  <1>11. Windows!Continues
    <2>1. Windows!DueSlot = 0
      BY <1>2 DEF Windows!DueSlot
    <2> QED BY <1>2, <1>4, <1>5, <1>6, <1>7, <2>1 DEF Windows!Continues, Windows!Live
  <1>12. Windows!WindowPassed
    <2>1. Windows!NoCursor.kind = "none"
      BY DEF Windows!NoCursor
    <2> QED BY <1>2, <2>1 DEF Windows!WindowPassed
  <1>13. Windows!ProgressKept
    <2>1. Windows!NoCursor.kind = "none"
      BY DEF Windows!NoCursor
    <2>2. Windows!Listed(progress.cursor)
      BY <1>2, IdleFacts
    <2> QED BY <1>2, <2>1, <2>2 DEF Windows!ProgressKept
  <1>14. Windows!WindowsKept
    BY <1>6, <1>7 DEF Windows!WindowsKept
  <1>15. Tables
    BY <1>8, <1>9, <1>10, <1>11, <1>12, <1>13, <1>14 DEF Tables
  <1>16. Sessions
    <2>1. ASSUME NEW c \in Collectors PROVE Windows!SessionSound(c)
      <3>1. col[c] = Windows!IdleCollector
        BY <1>2
      <3>2. /\ col[c].pc = "idle" /\ col[c].cursor = Windows!NoCursor /\ col[c].page.cursor = Windows!NoCursor
            /\ col[c].page.rows = {} /\ col[c].window.end = 0
        BY <3>1 DEF Windows!IdleCollector, Windows!NoPage
      <3>3. ~Windows!Working(c) /\ 0 <= now
        BY <1>2, <3>2 DEF Windows!Working
      <3>4. Windows!Listed(col[c].cursor) /\ Windows!Listed(col[c].page.cursor)
        BY <3>2, IdleFacts
      <3> QED BY <3>2, <3>3, <3>4 DEF Windows!SessionSound
    <2> QED BY <1>2, <2>1, IdleFacts DEF Sessions
  <1> QED BY <1>1, <1>2, <1>15, <1>16, WindowParts

LEMMA WindowsStutter ==
  ASSUME Windows!WindowInv, UNCHANGED Windows!vars
  PROVE  Windows!WindowInv'
  <1>1. Tables /\ Sessions /\ wfaults \in 0 .. MaxPollFaults
    BY WindowParts
  <1>2. UNCHANGED <<now, runs, policy, admitted, schedule, poll, progress, pages, rows, ambiguous,
                    status, coverage, ingested, col, wfaults>>
    BY DEF Windows!vars, Windows!sourceVars, Windows!policyVars, Windows!intakeVars, Windows!publishedVars
  <1>3. Tables'
    BY <1>1, <1>2, TablesStand
  <1>4. Sessions'
    BY <1>1, <1>2, <1>3, SettledSessions
  <1> QED BY <1>1, <1>2, <1>3, <1>4, WindowParts

LEMMA WindowsStep ==
  ASSUME Windows!WindowInv, [Windows!Next]_Windows!vars
  PROVE  Windows!WindowInv'
  <1>1. CASE Windows!Tick
    BY <1>1, TickKeeps
  <1>2. CASE Windows!ChangePolicy
    BY <1>2, ChangePolicyKeeps
  <1>3. CASE Windows!PublishScope \/ Windows!ReconcileItem
    BY <1>3, ScheduleKeeps
  <1>4. ASSUME NEW c \in Collectors,
               \/ Windows!Claim(c) \/ Windows!Supersede(c) \/ Windows!Begin(c) \/ Windows!Frame(c)
               \/ Windows!Read(c) \/ Windows!Record(c) \/ Windows!Yield(c) \/ Windows!ReadFailure(c)
               \/ Windows!Fenced(c) \/ Windows!Crash(c)
        PROVE  Windows!WindowInv'
    BY <1>4, ClaimKeeps, SupersedeYieldKeep, BeginKeeps, FrameKeeps, ReadKeeps, RecordKeeps,
       ReadFailureKeeps, GiveUpKeeps
  <1>5. ASSUME NEW w \in Windows!Polls, Windows!LeaseExpires(w) \/ Windows!LeaseLapses(w)
        PROVE  Windows!WindowInv'
    BY <1>5, ExpireKeeps
  <1>6. ASSUME NEW w \in Windows!Polls, NEW i \in DOMAIN pages[w], Windows!Reconcile(w, i)
        PROVE  Windows!WindowInv'
    BY <1>6, ReconcileKeeps
  <1>7. CASE UNCHANGED Windows!vars
    BY <1>7, WindowsStutter
  <1> QED BY <1>1, <1>2, <1>3, <1>4, <1>5, <1>6, <1>7 DEF Windows!Next

\* What holds of the polling windows in every state: a target has at most one live
\* poll of its policy, the latest; whoever owns it works on the shared progress as it
\* is; and no run of the window being read is lost on the way (polling.py, Collector;
\* engine.py, record_rest_page, _schedule_poll).
THEOREM WindowsInvariant == Windows!Spec => []Windows!WindowInv
  <1>1. Windows!Init => Windows!WindowInv
    BY WindowsStart
  <1>2. Windows!WindowInv /\ [Windows!Next]_Windows!vars => Windows!WindowInv'
    BY WindowsStep
  <1> QED BY <1>1, <1>2, PTL DEF Windows!Spec

\* The coverage watermark passes no run that was not admitted as source authority or
\* accepted under a policy since replaced, and validates whole windows
\* (_publish_rest_window, _validate_rest_window).
THEOREM CoverageIsTruthful == Windows!Spec => []CoverageTruthful
  <1>1. Windows!WindowInv => CoverageTruthful
    BY DEF Windows!WindowInv, CoverageTruthful
  <1> QED BY <1>1, WindowsInvariant, PTL

\* Monitoring of an admitted target never stops: a poll of the current policy is live,
\* or a closing page is still to be decided, which schedules one (_schedule_poll,
\* record_rest_page).
THEOREM PollingNeverStops == Windows!Spec => []PollingContinues
  <1>1. ASSUME Windows!WindowInv PROVE PollingContinues
    <2>1. Tables /\ TypedTables
      BY <1>1, WindowParts DEF Tables
    <2>2. /\ Windows!Latest = Len(poll) /\ Len(poll) \in 1 .. Len(poll) /\ Windows!Polls = 1 .. Len(poll)
          /\ Windows!PollSound(Len(poll))
      BY <2>1, TableFacts DEF Tables, Windows!TimePassed, Windows!PollsSound
    <2> SUFFICES ASSUME admitted = policy
                 PROVE  \/ \E w \in Windows!Polls : Windows!Live(w) /\ poll[w].policy = policy
                        \/ \E w \in Windows!Polls : \E i \in DOMAIN pages[w] :
                             pages[w][i].last /\ pages[w][i].work # "completed" /\ pages[w][i].policy = policy
      BY DEF PollingContinues, Windows!PollingContinues
    <2>3. PICK L, last : L = Len(poll) /\ last = Len(pages[L])
      OBVIOUS
    <2>4. /\ poll[L].policy = policy
          /\ Windows!Live(L) \/ (poll[L].state = "completed" /\ pages[L][last].work # "completed")
      BY <2>1, <2>2, <2>3 DEF Tables, Windows!Continues
    <2>5. CASE Windows!Live(L)
      BY <2>2, <2>3, <2>4, <2>5
    <2>6. CASE poll[L].state = "completed" /\ pages[L][last].work # "completed"
      <3>1. last \in DOMAIN pages[L]
        <4>1. pages[L] # <<>>
          BY <2>2, <2>3, <2>6 DEF Windows!PollSound
        <4> QED BY <2>1, <2>2, <2>3, <4>1, TableFacts
      <3>2. pages[L][last].last /\ pages[L][last].policy = policy
        BY <2>2, <2>3, <2>4, <2>6, <3>1 DEF Windows!PollSound
      <3> QED BY <2>2, <2>3, <2>6, <3>1, <3>2
    <2> QED BY <2>4, <2>5, <2>6
  <1>2. Windows!WindowInv => PollingContinues
    BY <1>1
  <1> QED BY <1>2, WindowsInvariant, PTL
=============================================================================
