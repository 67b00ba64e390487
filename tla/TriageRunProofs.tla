-------------------------- MODULE TriageRunProofs --------------------------
(***************************************************************************)
(* Proofs about the runs of one work: the inductive invariant IInv, and    *)
(* what follows from it, for any number of runs, proposals and people and  *)
(* for any limits.  Then about silent sweeps: the invariant SweepInv, for  *)
(* any number of sweeps and any probe.                                     *)
(***************************************************************************)
EXTENDS Assessment, TLAPS

-----------------------------------------------------------------------------
(* Steps that change one run and neither the row nor the reservation. *)

\* What the invariant needs of the new state s of run r.
Sound(r, s) ==
  /\ s.writes = run[r].writes
  /\ s.pc # "posting"
  /\ s.pc \in Busy => s.left > 0
  /\ s.pc \in Busy \ {"calls"} => s.proposal # None
  /\ s.fix # run[r].fix => run[r].fix # "none" /\ s.fix = effect
  /\ "found" \in s.facts => HasDuplicates
  /\ "flagged" \in s.facts => flags' > 0
  /\ s.outcome = "resolved" => s.fix = "succeeded"
  /\ s.outcome = "flagged_data_quality" => {"found", "flagged"} \subseteq s.facts
  /\ s.outcome # "" => s.pc = "ended"

\* A step that gives run r a sound new state, keeps a reservation and leaves
\* the service alone, preserves the invariant if it keeps the row exact.
LEMMA LocalStep ==
  ASSUME IInv, NEW r \in Runs, NEW s \in RunState,
         run' = [run EXCEPT ![r] = s], Sound(r, s),
         ChannelTypeOK', RowExact',
         Gated /\ receipt = "reserved" => row'.proposal = row.proposal,
         receipt' \in {"none", "denied", "reserved"},
         receipt = "reserved" => receipt' = "reserved",
         UNCHANGED <<effect, effects>>,
         holder' \in Runs \cup {None}, finished' \in BOOLEAN,
         flags' \in Nat, flags' >= flags
  PROVE  IInv'
<1> USE DEF IInv
<1>0. run \in [Runs -> RunState] /\ flags \in Nat /\ effects \in Seq(Runs \X Proposals)
  BY DEF TypeOK
<1>1. \A q \in Runs : q # r => run'[q] = run[q]
  BY <1>0
<1>2. run'[r] = s
  BY <1>0
<1>3. TypeOK'
  BY <1>0 DEF TypeOK
<1>4. PostingExact'
  <2>1. ASSUME NEW q \in Runs PROVE Posts(q)'
    <3>1. Posts(q)
      BY DEF PostingExact
    <3>2. CASE q = r
      BY <1>2, <3>2 DEF Posts, Sound
    <3>3. CASE q # r
      BY <1>1, <1>2, <3>1, <3>3 DEF Posts, Sound
    <3>4. QED BY <3>2, <3>3
  <2>2. QED BY <2>1 DEF PostingExact
<1>5. EffectExact'
  BY DEF EffectExact
<1>6. KnowledgeExact'
  <2>1. ASSUME NEW q \in Runs, q # r PROVE Knows(q)'
    <3>1. flags > 0 => flags' > 0
      BY <1>0
    <3>2. Knows(q)
      BY DEF KnowledgeExact
    <3>3. QED BY <1>1, <2>1, <3>1, <3>2 DEF Knows
  <2>2. Knows(r)
    BY DEF KnowledgeExact
  <2>3. Knows(r)'
    BY <1>2, <2>2 DEF Knows, Sound
  <2>4. QED BY <2>1, <2>3 DEF KnowledgeExact
<1>7. QED BY <1>3, <1>4, <1>5, <1>6

\* Most steps leave the row alone as well.
LEMMA QuietStep ==
  ASSUME IInv, NEW r \in Runs, NEW s \in RunState,
         run' = [run EXCEPT ![r] = s], Sound(r, s),
         UNCHANGED <<channelVars, receipt, effect, effects>>,
         holder' \in Runs \cup {None}, finished' \in BOOLEAN,
         flags' \in Nat, flags' >= flags
  PROVE  IInv'
<1>1. ChannelTypeOK' /\ row' = row /\ receipt \in {"none", "denied", "reserved"}
  BY DEF IInv, TypeOK, ChannelTypeOK, channelVars
<1>2. RowExact'
  BY DEF IInv, RowExact, Said, channelVars
<1>3. QED BY <1>1, <1>2, LocalStep

\* t is run r as the tool leaves it: its ledger and its facts may have moved.
Amended(r, t) ==
  /\ t \in RunState
  /\ t.left = run[r].left /\ t.writes = run[r].writes /\ t.outcome = run[r].outcome
  /\ t.fix # run[r].fix => run[r].fix # "none" /\ t.fix = effect
  /\ "found" \in t.facts => HasDuplicates
  /\ "flagged" \in t.facts => flags' > 0

\* An active run as it is, is amended trivially.
LEMMA Unamended ==
  ASSUME IInv, NEW r \in Runs, flags > 0 => flags' > 0
  PROVE  Amended(r, run[r])
<1>1. run[r] \in RunState /\ Knows(r)
  BY DEF IInv, TypeOK, KnowledgeExact
<1>2. QED BY <1>1 DEF Amended, Knows

\* Answering a tool call leaves a sound state.
LEMMA AnswerSound ==
  ASSUME IInv, NEW r \in Runs, run[r].pc \in Busy, NEW t, Amended(r, t)
  PROVE  Answer(t) \in RunState /\ Sound(r, Answer(t))
<1>1. Knows(r) /\ Posts(r) /\ run[r] \in RunState /\ t \in RunState
  BY DEF IInv, TypeOK, KnowledgeExact, PostingExact, Amended
<1>2. run[r].outcome = "" /\ t.left \in Nat /\ t.left > 0
  BY <1>1 DEF Knows, Posts, Busy, Active, Asking, Amended, RunState
<1>3. t.left - 1 \in Nat /\ (~(t.left <= 1) => t.left - 1 > 0)
  <2>1. \A n \in Nat : n > 0 => n - 1 \in Nat /\ (~(n <= 1) => n - 1 > 0)
    OBVIOUS
  <2>2. QED BY <1>2, <2>1
<1> DEFINE pc == IF t.left <= 1 THEN "turn" ELSE "calls"
           s == [t EXCEPT !.left = t.left - 1, !.pc = pc, !.proposal = None]
<1>4. Answer(t) = s
  BY DEF Answer
<1>5. /\ s \in RunState
      /\ s.writes = t.writes /\ s.fix = t.fix
      /\ s.facts = t.facts /\ s.outcome = t.outcome
      /\ s.pc = pc /\ s.left = t.left - 1
  <2>1. pc \in Places
    BY DEF Places, Active
  <2>2. PICK p \in Places, n \in Nat : p = pc /\ n = t.left - 1
    BY <1>3, <2>1
  <2>3. s = [t EXCEPT !.left = n, !.pc = p, !.proposal = None]
    BY <2>2
  <2> HIDE DEF pc, s
  <2>4. s \in RunState
    BY <1>1, <2>3 DEF RunState
  <2>5. /\ s.writes = t.writes /\ s.fix = t.fix
        /\ s.facts = t.facts /\ s.outcome = t.outcome
        /\ s.pc = p /\ s.left = n
    BY <1>1, <2>3 DEF RunState
  <2> QED BY <2>2, <2>4, <2>5
<1>6. s.pc \in {"turn", "calls"} /\ (s.pc = "calls" => s.left > 0)
  <2>1. pc \in {"turn", "calls"} /\ (pc = "calls" => ~(t.left <= 1))
    OBVIOUS
  <2>2. QED BY <1>3, <1>5, <2>1
<1> HIDE DEF s
<1>7. Sound(r, s)
  BY <1>2, <1>5, <1>6 DEF Amended, Sound, Asking, Busy, Active
<1>8. QED BY <1>4, <1>5, <1>7

\* Ending a run leaves a sound state, if the outcome is.
LEMMA EndSound ==
  ASSUME IInv, NEW r \in Runs, run[r].pc \in Active, NEW t, Amended(r, t),
         NEW o \in Claims \cup Overrides,
         o = "resolved" => t.fix = "succeeded",
         o = "flagged_data_quality" => {"found", "flagged"} \subseteq t.facts
  PROVE  End(t, o) \in RunState /\ Sound(r, End(t, o))
<1>1. /\ End(t, o) = [t EXCEPT !.pc = "ended", !.outcome = o]
      /\ t \in RunState
  BY DEF End, Amended
<1>2. /\ End(t, o) \in RunState
      /\ End(t, o).writes = t.writes /\ End(t, o).fix = t.fix
      /\ End(t, o).facts = t.facts /\ End(t, o).outcome = o
      /\ End(t, o).pc = "ended"
  BY <1>1 DEF RunState, Places
<1>3. QED BY <1>2 DEF Amended, Sound, Asking, Busy, Active

\* Moving an active run on leaves a sound state.
LEMMA GotoSound ==
  ASSUME IInv, NEW r \in Runs, run[r].pc \in Busy, UNCHANGED flags,
         NEW t, Amended(r, t), NEW pc \in Busy \ {"posting"},
         pc = "calls" \/ t.proposal # None
  PROVE  [t EXCEPT !.pc = pc] \in RunState /\ Sound(r, [t EXCEPT !.pc = pc])
<1> DEFINE s == [t EXCEPT !.pc = pc]
<1>1. Knows(r) /\ Posts(r) /\ run[r].left > 0 /\ run[r].outcome = ""
  BY DEF IInv, KnowledgeExact, PostingExact, Knows, Posts, Busy, Active, Asking
<1>2. /\ s \in RunState
      /\ s.writes = t.writes /\ s.fix = t.fix /\ s.facts = t.facts
      /\ s.outcome = t.outcome /\ s.left = t.left /\ s.proposal = t.proposal
      /\ s.pc = pc
  BY DEF Amended, RunState, Places, Busy
<1> HIDE DEF s
<1>3. Sound(r, s)
  BY <1>1, <1>2 DEF Amended, Sound, Asking, Busy, Active
<1>4. QED BY <1>2, <1>3 DEF s

\* The parts of the invariant a step reads of the run that takes it.
LEMMA RunFacts ==
  ASSUME IInv, NEW r \in Runs
  PROVE  /\ run \in [Runs -> RunState] /\ run[r] \in RunState
         /\ Knows(r) /\ Posts(r)
         /\ run[r].turns \in Nat /\ run[r].calls \in Nat /\ run[r].writes \in Nat
         /\ holder \in Runs \cup {None} /\ finished \in BOOLEAN
         /\ flags \in Nat /\ flags >= flags
<1>1. run \in [Runs -> RunState] /\ flags \in Nat
  BY DEF IInv, TypeOK
<1>2. run[r] \in RunState
  BY <1>1
<1>3. run[r].turns \in Nat /\ run[r].calls \in Nat /\ run[r].writes \in Nat
  BY <1>2 DEF RunState
<1>4. \A n \in Nat : n >= n
  OBVIOUS
<1>5. flags >= flags
  BY <1>1, <1>4
<1>6. QED BY <1>1, <1>2, <1>3, <1>5 DEF IInv, TypeOK, KnowledgeExact, PostingExact

-----------------------------------------------------------------------------
(* Starting, ending and the loop. *)

LEMMA StartPreserves ==
  ASSUME IInv, NEW r \in Runs, NEW known \in BOOLEAN, Start(r, known)
  PROVE  IInv'
<1> DEFINE facts == IF known THEN {"known"} ELSE {}
           s == [run[r] EXCEPT !.pc = "turn", !.facts = facts]
<1>1. run \in [Runs -> RunState] /\ run[r] \in RunState /\ Knows(r) /\ Posts(r)
      /\ flags \in Nat /\ flags >= flags
  BY RunFacts
<1>2. run' = [run EXCEPT ![r] = s]
  BY <1>1 DEF Start
<1>3. facts \in SUBSET Facts /\ "found" \notin facts /\ "flagged" \notin facts
  BY DEF Facts
<1>4. /\ s \in RunState /\ s.writes = run[r].writes /\ s.fix = run[r].fix
      /\ s.outcome = run[r].outcome /\ s.facts = facts /\ s.pc = "turn"
  BY <1>1, <1>3 DEF RunState, Places, Active
<1>5. run[r].outcome = ""
  BY <1>1 DEF Knows, Start, At
<1>6. Sound(r, s)
  BY <1>1, <1>3, <1>4, <1>5 DEF Sound, Busy, Start, Knows, At
<1>7. QED BY <1>1, <1>2, <1>4, <1>6, QuietStep DEF Start, IInv, TypeOK

-----------------------------------------------------------------------------
(* What tools and charges do to a run, and the steps made of it. *)

\* Charging the ledger amends a run.
LEMMA ChargeAmended ==
  ASSUME NEW r \in Runs, NEW t, Amended(r, t), NEW n \in Nat
  PROVE  /\ Amended(r, [t EXCEPT !.calls = n])
         /\ Amended(r, [t EXCEPT !.turns = n])
         /\ [t EXCEPT !.calls = n].calls = n /\ [t EXCEPT !.calls = n].turns = t.turns
         /\ [t EXCEPT !.calls = n].proposal = t.proposal
         /\ [t EXCEPT !.calls = n].facts = t.facts /\ [t EXCEPT !.calls = n].fix = t.fix
BY DEF Amended, RunState

\* So does learning what is true.
LEMMA LearnAmended ==
  ASSUME NEW r \in Runs, NEW t, Amended(r, t), NEW F \in SUBSET Facts,
         "found" \in F => HasDuplicates, "flagged" \in F => flags' > 0
  PROVE  Amended(r, Learn(t, F))
<1>1. Learn(t, F) = [t EXCEPT !.facts = t.facts \cup F]
  BY DEF Learn
<1>2. /\ t \in RunState
      /\ t.facts \cup F \in SUBSET Facts
  BY DEF Amended, RunState
<1>3. /\ Learn(t, F) \in RunState
      /\ Learn(t, F).facts = t.facts \cup F
      /\ Learn(t, F).left = t.left /\ Learn(t, F).writes = t.writes
      /\ Learn(t, F).outcome = t.outcome /\ Learn(t, F).fix = t.fix
  BY <1>1, <1>2 DEF RunState
<1>4. QED BY <1>3 DEF Amended

\* So does remembering a deferral, or forgetting it.
LEMMA DeferredAmended ==
  ASSUME NEW r \in Runs, NEW c, Amended(r, c), NEW pending \in BOOLEAN
  PROVE  Amended(r, Deferred(c, pending))
<1> DEFINE F == IF pending THEN c.facts \cup {"deferred"} ELSE c.facts \ {"deferred"}
           t == [c EXCEPT !.facts = F]
<1>1. Deferred(c, pending) = t
  BY DEF Deferred
<1>2. c \in RunState /\ F \in SUBSET Facts
      /\ ("found" \in F => "found" \in c.facts) /\ ("flagged" \in F => "flagged" \in c.facts)
  <2>1. c \in RunState /\ c.facts \in SUBSET Facts /\ "deferred" \in Facts
    BY DEF Amended, RunState, Facts
  <2>2. \A G \in SUBSET Facts : G \cup {"deferred"} \in SUBSET Facts /\ G \ {"deferred"} \in SUBSET Facts
    BY <2>1
  <2>3. F \in SUBSET Facts
    BY <2>1, <2>2
  <2>4. F \subseteq c.facts \cup {"deferred"}
    OBVIOUS
  <2>5. QED BY <2>1, <2>3, <2>4
<1> HIDE DEF F
<1>3. /\ t \in RunState /\ t.left = c.left /\ t.writes = c.writes
      /\ t.outcome = c.outcome /\ t.facts = F /\ t.fix = c.fix
  BY <1>2 DEF RunState
<1> HIDE DEF t
<1>4. QED BY <1>1, <1>2, <1>3 DEF Amended

\* A tool call is answered.
LEMMA AnswerStep ==
  ASSUME IInv, NEW r \in Runs, run[r].pc \in Busy, NEW t, Amended(r, t),
         run' = [run EXCEPT ![r] = Answer(t)],
         UNCHANGED <<channelVars, holder, receipt, effect, effects, finished>>,
         flags' \in Nat, flags' >= flags
  PROVE  IInv'
BY AnswerSound, QuietStep, RunFacts

\* A run ends.
LEMMA EndStep ==
  ASSUME IInv, NEW r \in Runs, run[r].pc \in Active, NEW t, Amended(r, t),
         NEW o \in Claims \cup Overrides,
         o = "resolved" => t.fix = "succeeded",
         o = "flagged_data_quality" => {"found", "flagged"} \subseteq t.facts,
         run' = [run EXCEPT ![r] = End(t, o)],
         UNCHANGED <<channelVars, holder, receipt, effect, effects, flags, finished>>
  PROVE  IInv'
<1>1. End(t, o) \in RunState /\ Sound(r, End(t, o))
  BY EndSound
<1>2. QED BY <1>1, QuietStep, RunFacts

\* A run ends without a claim of its own.
LEMMA OverrideStep ==
  ASSUME IInv, NEW r \in Runs, run[r].pc \in Active,
         NEW o \in Overrides \cup {"needs_human"}, EndRun(r, o),
         UNCHANGED <<channelVars, holder, receipt, effect, effects, flags, finished>>
  PROVE  IInv'
<1>1. o \in Claims \cup Overrides /\ o # "resolved" /\ o # "flagged_data_quality"
  BY DEF Claims, Overrides
<1>2. Amended(r, run[r])
  BY Unamended
<1>3. run' = [run EXCEPT ![r] = End(run[r], o)]
  BY RunFacts DEF EndRun
<1>4. QED BY <1>1, <1>2, <1>3, EndStep

\* A busy run moves on, without touching the row.
LEMMA MoveStep ==
  ASSUME IInv, NEW r \in Runs, run[r].pc \in Busy, NEW t, Amended(r, t),
         NEW pc \in Busy \ {"posting"}, pc = "calls" \/ t.proposal # None,
         run' = [run EXCEPT ![r] = [t EXCEPT !.pc = pc]],
         UNCHANGED <<channelVars, holder, receipt, effect, effects, flags, finished>>
  PROVE  IInv'
<1>1. [t EXCEPT !.pc = pc] \in RunState /\ Sound(r, [t EXCEPT !.pc = pc])
  BY GotoSound
<1>2. QED BY <1>1, QuietStep, RunFacts

-----------------------------------------------------------------------------
(* Interruptions, the end and the loop. *)

LEMMA InterruptPreserves ==
  ASSUME IInv, NEW r \in Runs, Interrupt(r)
  PROVE  IInv'
<1>1. CASE Crash(r)
  BY <1>1, OverrideStep DEF Crash, Overrides
<1>2. CASE TimeOut(r)
  BY <1>2, OverrideStep DEF TimeOut, Overrides, Active
<1>3. CASE Stop(r)
  <2> DEFINE s == [run[r] EXCEPT !.pc = "gone"]
  <2>1. run' = [run EXCEPT ![r] = s]
    BY <1>3, RunFacts DEF Stop, Goto
  <2>2. Knows(r) /\ run[r] \in RunState
    BY RunFacts
  <2>3. /\ s \in RunState /\ s.pc = "gone" /\ s.writes = run[r].writes
        /\ s.fix = run[r].fix /\ s.facts = run[r].facts /\ s.outcome = run[r].outcome
    BY <2>2 DEF RunState, Places
  <2>4. run[r].outcome = ""
    BY <1>3, <2>2 DEF Knows, Stop, Active, Asking
  <2> HIDE DEF s
  <2>5. UNCHANGED flags
    BY <1>3 DEF Stop
  <2>6. Sound(r, s)
    BY <2>2, <2>3, <2>4, <2>5 DEF Sound, Knows, Busy, Active, Asking
  <2>7. QED BY <1>3, <2>1, <2>3, <2>6, QuietStep, RunFacts DEF Stop
<1>4. QED BY <1>1, <1>2, <1>3 DEF Interrupt

LEMMA FinalizePreserves ==
  ASSUME IInv, NEW r \in Runs, Finalize(r)
  PROVE  IInv'
<1>1. TypeOK'
  BY DEF Finalize, IInv, TypeOK, ChannelTypeOK, channelVars
<1>2. RowExact' /\ EffectExact'
  BY DEF Finalize, IInv, RowExact, Said, EffectExact, channelVars
<1>3. PostingExact'
  BY DEF Finalize, IInv, PostingExact, Posts, channelVars
<1>4. KnowledgeExact'
  BY DEF Finalize, IInv, KnowledgeExact, Knows
<1>5. QED BY <1>1, <1>2, <1>3, <1>4 DEF IInv

LEMMA TurnPreserves ==
  ASSUME IInv, NEW r \in Runs, Turn(r)
  PROVE  IInv'
<1> DEFINE charged == ChargeTurn(run[r])
<1>1. Knows(r) /\ run[r] \in RunState /\ run[r].turns \in Nat /\ run \in [Runs -> RunState]
      /\ run[r].pc \in Active /\ run[r].pc = "turn" /\ UNCHANGED flags
  BY RunFacts DEF Turn, At, Active
<1>2. run[r].turns + 1 \in Nat
  BY <1>1
<1>3. charged = [run[r] EXCEPT !.turns = run[r].turns + 1]
  BY DEF ChargeTurn
<1>4. Amended(r, charged)
  <2>1. Amended(r, run[r])
    BY <1>1, Unamended
  <2>2. Amended(r, [run[r] EXCEPT !.turns = run[r].turns + 1])
    BY <1>2, <2>1, ChargeAmended
  <2>3. QED BY <1>3, <2>2
<1>5. CASE EndRun(r, "max_turns_exceeded")
  BY <1>1, <1>5, OverrideStep DEF Turn, Overrides
<1>6. CASE run' = [run EXCEPT ![r] = End(charged, "needs_human")]
  <2>1. "needs_human" \in Claims \cup Overrides
    BY DEF Claims
  <2> HIDE DEF charged
  <2>2. QED BY <1>1, <1>4, <1>6, <2>1, EndStep DEF Turn
<1>7. CASE run' = [run EXCEPT ![r] = End(charged, "budget_exceeded")]
  <2>1. "budget_exceeded" \in Claims \cup Overrides
    BY DEF Overrides
  <2> HIDE DEF charged
  <2>2. QED BY <1>1, <1>4, <1>7, <2>1, EndStep DEF Turn
<1>8. ASSUME NEW n \in 1..MaxBatch,
             run' = [run EXCEPT ![r] = [charged EXCEPT !.pc = "calls", !.left = n]]
      PROVE  IInv'
  <2> DEFINE s == [charged EXCEPT !.pc = "calls", !.left = n]
  <2>1. n \in Nat /\ n > 0
    <3>1. \A m \in Nat : \A k \in 1..m : k \in Nat /\ k > 0
      OBVIOUS
    <3>2. QED BY <3>1, RunAssumption
  <2>2. run[r].outcome = ""
    BY <1>1 DEF Knows
  <2> HIDE DEF charged
  <2>3. /\ s \in RunState /\ s.pc = "calls" /\ s.left = n /\ s.writes = charged.writes
        /\ s.fix = charged.fix /\ s.facts = charged.facts /\ s.outcome = charged.outcome
    BY <1>4, <2>1 DEF Amended, RunState, Places, Active
  <2> HIDE DEF s
  <2>4. Sound(r, s)
    BY <1>4, <2>1, <2>2, <2>3 DEF Sound, Amended, Busy
  <2>5. run' = [run EXCEPT ![r] = s]
    BY <1>8 DEF s
  <2>6. QED BY <2>3, <2>4, <2>5, QuietStep, RunFacts DEF Turn
<1>9.  \/ EndRun(r, "max_turns_exceeded")
       \/ \E n \in 1..MaxBatch :
            run' = [run EXCEPT ![r] = [charged EXCEPT !.pc = "calls", !.left = n]]
       \/ run' = [run EXCEPT ![r] = End(charged, "needs_human")]
       \/ run' = [run EXCEPT ![r] = End(charged, "budget_exceeded")]
  BY Zenon DEF Turn
<1> HIDE DEF charged
<1>10. QED BY <1>5, <1>6, <1>7, <1>8, <1>9

-----------------------------------------------------------------------------
(* The dispatcher and its tools. *)

\* A charged call amends the run that makes it, and keeps what it knows.
LEMMA CallFacts ==
  ASSUME IInv, NEW r \in Runs, CanCall(r), flags > 0 => flags' > 0
  PROVE  /\ run[r].pc \in Busy /\ run[r].pc \in Active
         /\ Amended(r, run[r]) /\ Amended(r, Charged(run[r]))
         /\ ChargeProposal(run[r]) = Charged(run[r])
         /\ Charged(run[r]).calls \in Nat /\ Charged(run[r]).turns = run[r].turns
         /\ Charged(run[r]).facts = run[r].facts /\ Charged(run[r]).fix = run[r].fix
<1>1. run[r].pc \in Busy /\ run[r].pc \in Active /\ run[r].calls \in Nat
  BY RunFacts DEF CanCall, At, Busy, Active
<1>2. run[r].calls + 1 \in Nat
  BY <1>1
<1>3. Amended(r, run[r])
  BY Unamended
<1> DEFINE s == [run[r] EXCEPT !.calls = run[r].calls + 1]
<1>4. Charged(run[r]) = s /\ ChargeProposal(run[r]) = s
  BY DEF Charged, ChargeProposal
<1>5. Amended(r, s) /\ s.calls = run[r].calls + 1 /\ s.turns = run[r].turns
      /\ s.facts = run[r].facts /\ s.fix = run[r].fix
  <2> DEFINE n == run[r].calls + 1
  <2>1. n \in Nat
    BY <1>2
  <2>2. s = [run[r] EXCEPT !.calls = n]
    OBVIOUS
  <2> HIDE DEF n, s
  <2>3. Amended(r, s) /\ s.calls = n /\ s.turns = run[r].turns
        /\ s.facts = run[r].facts /\ s.fix = run[r].fix
    BY <1>3, <2>1, <2>2 DEF Amended, RunState
  <2>4. QED BY <2>3 DEF n
<1> HIDE DEF s
<1>6. QED BY <1>1, <1>2, <1>3, <1>4, <1>5

LEMMA DiagnosePreserves ==
  ASSUME IInv, NEW r \in Runs, Diagnose(r)
  PROVE  IInv'
<1>1. Amended(r, Charged(run[r])) /\ run[r].pc \in Busy
  BY CallFacts DEF Diagnose
<1>2. run' = [run EXCEPT ![r] = Answer(Charged(run[r]))]
  BY RunFacts DEF Diagnose
<1>3. QED BY <1>1, <1>2, AnswerStep, RunFacts DEF Diagnose

LEMMA RefusedPreserves ==
  ASSUME IInv, NEW r \in Runs, UnknownTool(r) \/ OverBudget(r) \/ RefuseProposal(r)
  PROVE  IInv'
<1>1. {"blocked"} \in SUBSET Facts /\ "found" \notin {"blocked"} /\ "flagged" \notin {"blocked"}
  BY DEF Facts
<1>2. CASE UnknownTool(r)
  <2>1. Amended(r, run[r])
    BY <1>2, Unamended DEF UnknownTool
  <2>2. Amended(r, Learn(run[r], {"blocked"}))
    BY <1>1, <2>1, LearnAmended
  <2>3. run' = [run EXCEPT ![r] = Answer(Learn(run[r], {"blocked"}))]
    BY <1>2, RunFacts DEF UnknownTool
  <2>4. run[r].pc \in Busy
    BY <1>2 DEF UnknownTool, At, Busy, Active
  <2>5. QED BY <1>2, <2>2, <2>3, <2>4, AnswerStep, RunFacts DEF UnknownTool
<1>3. CASE OverBudget(r)
  BY <1>3, OverrideStep DEF OverBudget, Overrides, At, Active
<1>4. CASE RefuseProposal(r)
  <2> DEFINE c == ChargeProposal(run[r])
             t == IF run[r].writes >= MaxWrites THEN Learn(c, {"blocked"}) ELSE c
  <2>1. Amended(r, c) /\ run[r].pc \in Busy
    BY <1>4, CallFacts DEF RefuseProposal
  <2>2. Amended(r, Learn(c, {"blocked"}))
    BY <1>1, <2>1, LearnAmended
  <2>3. Amended(r, t)
    BY <2>1, <2>2
  <2>4. run' = [run EXCEPT ![r] = Answer(t)]
    BY <1>4, RunFacts DEF RefuseProposal
  <2> HIDE DEF t
  <2>5. QED BY <1>4, <2>1, <2>3, <2>4, AnswerStep, RunFacts DEF RefuseProposal
<1>5. QED BY <1>2, <1>3, <1>4

LEMMA CheckRerunPreserves ==
  ASSUME IInv, NEW r \in Runs, CheckRerun(r)
  PROVE  IInv'
<1> DEFINE t == [Charged(run[r]) EXCEPT !.fix = effect]
<1>1. Amended(r, Charged(run[r])) /\ run[r].pc \in Busy
      /\ Charged(run[r]).fix = run[r].fix
  BY CallFacts DEF CheckRerun
<1>2. run' = [run EXCEPT ![r] = Answer(t)]
  BY RunFacts DEF CheckRerun
<1>3. effect \in Effects /\ run[r].fix # "none"
  BY DEF CheckRerun, IInv, TypeOK
<1> DEFINE c == Charged(run[r])
<1> HIDE DEF c
<1>4. t = [c EXCEPT !.fix = effect]
  BY DEF c
<1>5. c \in RunState /\ Amended(r, c)
  BY <1>1 DEF c, Amended
<1>6. /\ t \in RunState /\ t.left = c.left /\ t.writes = c.writes
      /\ t.outcome = c.outcome /\ t.facts = c.facts /\ t.fix = effect
  BY <1>3, <1>4, <1>5 DEF RunState
<1> HIDE DEF t
<1>7. Amended(r, t)
  BY <1>3, <1>5, <1>6 DEF Amended
<1>8. QED BY <1>1, <1>2, <1>7, AnswerStep, RunFacts DEF CheckRerun

LEMMA ConsultPreserves ==
  ASSUME IInv, NEW r \in Runs, Consult(r)
  PROVE  IInv'
<1> DEFINE c == Charged(run[r])
           s == [c EXCEPT !.calls = c.calls + Tables]
           u == [s EXCEPT !.calls = MaxToolCalls]
           v == ChargeTurn(s)
           found == IF HasDuplicates THEN {"found"} ELSE {}
<1>1. Amended(r, c) /\ c.calls \in Nat /\ c.turns = run[r].turns /\ run[r].turns \in Nat
      /\ run[r].pc \in Busy /\ run[r].pc \in Active
  BY CallFacts, RunFacts DEF Consult
<1>2. \/ run' = [run EXCEPT ![r] = End(u, "budget_exceeded")]
      \/ run' = [run EXCEPT ![r] = End(s, "max_turns_exceeded")]
      \/ run' = [run EXCEPT ![r] = End(v, "budget_exceeded")]
      \/ run' = [run EXCEPT ![r] = Answer(Learn(v, found))]
      \/ run' = [run EXCEPT ![r] = Answer(v)]
  BY Zenon DEF Consult
<1> HIDE DEF c
<1>3. c.calls + Tables \in Nat
  BY <1>1, RunAssumption
<1>4. Amended(r, s) /\ s.turns = run[r].turns
  <2>1. PICK n \in Nat : n = c.calls + Tables
    BY <1>3
  <2>2. Amended(r, [c EXCEPT !.calls = n]) /\ [c EXCEPT !.calls = n].turns = c.turns
    BY <1>1 DEF Amended, RunState
  <2> QED BY <1>1, <2>1, <2>2
<1> HIDE DEF s
<1>5. Amended(r, u)
  BY <1>4, ChargeAmended, RunAssumption
<1>6. v = [s EXCEPT !.turns = s.turns + 1] /\ s.turns + 1 \in Nat
  BY <1>1, <1>4 DEF ChargeTurn
<1> HIDE DEF v
<1>7. Amended(r, v)
  BY <1>4, <1>6, ChargeAmended
<1>8. found \in SUBSET Facts /\ ("found" \in found => HasDuplicates) /\ "flagged" \notin found
  BY DEF Facts
<1> HIDE DEF found, u
<1>9. Amended(r, Learn(v, found))
  BY <1>7, <1>8, LearnAmended
<1>10. "budget_exceeded" \in Claims \cup Overrides /\ "max_turns_exceeded" \in Claims \cup Overrides
  BY DEF Overrides
<1>11. CASE run' = [run EXCEPT ![r] = End(u, "budget_exceeded")]
  BY <1>1, <1>5, <1>10, <1>11, EndStep DEF Consult
<1>12. CASE run' = [run EXCEPT ![r] = End(s, "max_turns_exceeded")]
  BY <1>1, <1>4, <1>10, <1>12, EndStep DEF Consult
<1>13. CASE run' = [run EXCEPT ![r] = Answer(Learn(v, found))]
  BY <1>1, <1>9, <1>13, AnswerStep, RunFacts DEF Consult
<1>14. CASE run' = [run EXCEPT ![r] = End(v, "budget_exceeded")]
  BY <1>1, <1>7, <1>10, <1>14, EndStep DEF Consult
<1>15. CASE run' = [run EXCEPT ![r] = Answer(v)]
  BY <1>1, <1>7, <1>15, AnswerStep, RunFacts DEF Consult
<1>16. QED BY <1>2, <1>11, <1>12, <1>13, <1>14, <1>15

LEMMA WriteFlagPreserves ==
  ASSUME IInv, NEW r \in Runs, WriteFlag(r)
  PROVE  IInv'
<1>1. CanCall(r) /\ flags \in Nat
  BY RunFacts DEF WriteFlag
<1>2. CASE "found" \in run[r].facts
  <2>1. flags' = flags + 1
    BY <1>2 DEF WriteFlag
  <2>2. flags' \in Nat /\ flags' > 0 /\ flags' >= flags
    BY <1>1, <2>1
  <2>3. Amended(r, Charged(run[r])) /\ run[r].pc \in Busy
    BY <1>1, <2>2, CallFacts
  <2>4. {"flagged"} \in SUBSET Facts /\ "found" \notin {"flagged"}
    BY DEF Facts
  <2>5. Amended(r, Learn(Charged(run[r]), {"flagged"}))
    BY <2>2, <2>3, <2>4, LearnAmended
  <2>6. run' = [run EXCEPT ![r] = Answer(Learn(Charged(run[r]), {"flagged"}))]
    BY <1>2, RunFacts DEF WriteFlag
  <2>7. QED BY <2>2, <2>3, <2>5, <2>6, AnswerStep DEF WriteFlag
<1>3. CASE "found" \notin run[r].facts
  <2>1. UNCHANGED flags
    BY <1>3 DEF WriteFlag
  <2>2. Amended(r, Charged(run[r])) /\ run[r].pc \in Busy
    BY <1>1, <2>1, CallFacts
  <2>3. run' = [run EXCEPT ![r] = Answer(Charged(run[r]))]
    BY <1>3, RunFacts DEF WriteFlag
  <2>4. QED BY <2>1, <2>2, <2>3, AnswerStep, RunFacts DEF WriteFlag
<1>4. QED BY <1>2, <1>3

LEMMA DeferPreserves ==
  ASSUME IInv, NEW r \in Runs, NEW pending \in BOOLEAN, Defer(r, pending)
  PROVE  IInv'
<1>1. Amended(r, Charged(run[r])) /\ run[r].pc \in Busy
  BY CallFacts DEF Defer
<1>2. Amended(r, Deferred(Charged(run[r]), pending))
  BY <1>1, DeferredAmended
<1>3. run' = [run EXCEPT ![r] = Answer(Deferred(Charged(run[r]), pending))]
  BY RunFacts DEF Defer
<1>4. QED BY <1>1, <1>2, <1>3, AnswerStep, RunFacts DEF Defer

LEMMA ProposePreserves ==
  ASSUME IInv, NEW r \in Runs, NEW p \in Proposals, Propose(r, p)
  PROVE  IInv'
<1> DEFINE c == ChargeProposal(run[r])
           t == [c EXCEPT !.proposal = p]
           pc == IF Gated THEN "asking" ELSE "allowed"
<1>1. Amended(r, c) /\ run[r].pc \in Busy
  BY CallFacts DEF Propose
<1>2. run' = [run EXCEPT ![r] = [c EXCEPT !.pc = pc, !.proposal = p]]
  BY RunFacts DEF Propose
<1> HIDE DEF c
<1>3. pc \in Busy \ {"posting"}
  BY DEF Busy, Active, Asking
<1> HIDE DEF pc
<1>4. /\ t \in RunState /\ t.left = c.left /\ t.writes = c.writes
      /\ t.outcome = c.outcome /\ t.facts = c.facts /\ t.fix = c.fix
      /\ t.proposal = p /\ p # None
      /\ [t EXCEPT !.pc = pc] = [c EXCEPT !.pc = pc, !.proposal = p]
  BY <1>1, ProposalAssumption DEF Amended, RunState
<1>5. run' = [run EXCEPT ![r] = [t EXCEPT !.pc = pc]]
  BY <1>2, <1>4, Zenon
<1> HIDE DEF t
<1>6. Amended(r, t)
  BY <1>1, <1>4 DEF Amended
<1>7. UNCHANGED <<channelVars, holder, receipt, effect, effects, flags, finished>>
  BY DEF Propose
<1>8. QED BY <1>1, <1>3, <1>4, <1>5, <1>6, <1>7, MoveStep

LEMMA ReportPreserves ==
  ASSUME IInv, NEW r \in Runs, NEW o \in Claims, Report(r, o)
  PROVE  IInv'
<1> DEFINE out == IF Supported(run[r], o) THEN o ELSE "needs_human"
           c == Charged(run[r])
<1>1. Amended(r, c) /\ run[r].pc \in Active
      /\ c.facts = run[r].facts /\ c.fix = run[r].fix
  BY CallFacts DEF Report
<1>2. run' = [run EXCEPT ![r] = End(c, out)]
  BY RunFacts DEF Report
<1>3. out \in Claims \cup Overrides
  BY DEF Claims
<1>4. /\ out = "resolved" => run[r].fix = "succeeded"
      /\ out = "flagged_data_quality" => {"found", "flagged"} \subseteq run[r].facts
  BY DEF Supported
<1>5. UNCHANGED <<channelVars, holder, receipt, effect, effects, flags, finished>>
  BY DEF Report
<1> HIDE DEF out, c
<1>6. /\ out = "resolved" => c.fix = "succeeded"
      /\ out = "flagged_data_quality" => {"found", "flagged"} \subseteq c.facts
  BY <1>1, <1>4
<1>7. QED BY <1>1, <1>2, <1>3, <1>5, <1>6, EndStep

LEMMA DispatchPreserves ==
  ASSUME IInv, NEW r \in Runs, Dispatch(r)
  PROVE  IInv'
BY RefusedPreserves, DiagnosePreserves, CheckRerunPreserves, ConsultPreserves,
   WriteFlagPreserves, DeferPreserves, ProposePreserves, ReportPreserves DEF Dispatch

-----------------------------------------------------------------------------
(* The approval. *)

\* Opening a request keeps the row exact.
LEMMA OpenExact ==
  ASSUME IInv, NEW p \in Proposals, Open(p), UNCHANGED <<binding, page, answers, receipt>>
  PROVE  /\ ChannelTypeOK' /\ RowExact'
         /\ Gated /\ receipt = "reserved" => row'.proposal = row.proposal
<1>1. ChannelTypeOK /\ RowExact
  BY DEF IInv, TypeOK
<1>2. CASE UNCHANGED row
  BY <1>1, <1>2 DEF ChannelTypeOK, RowExact, Said
<1>3. CASE row = None /\ row' = NewRow(p)
  <2>1. NewRow(p) \in Row /\ NewRow(p).proposal = p /\ NewRow(p).decision = ""
        /\ NewRow(p).consumed = FALSE
    BY DEF NewRow, Row
  <2>2. answers = {} /\ ~(Gated /\ receipt = "reserved")
    BY <1>1, <1>3 DEF RowExact
  <2>3. ChannelTypeOK'
    BY <1>1, <1>3, <2>1 DEF ChannelTypeOK
  <2>4. RowExact'
    BY <1>3, <2>1, <2>2 DEF RowExact, Said
  <2>5. QED BY <2>2, <2>3, <2>4
<1>4. QED BY <1>2, <1>3 DEF Open

\* A run in _seek_approval, or past it, has a proposal.
LEMMA ProposalKnown ==
  ASSUME IInv, NEW r \in Runs, run[r].pc \in Busy \ {"calls"}
  PROVE  run[r].proposal \in Proposals /\ run[r].proposal # None
<1>1. Posts(r) /\ run[r] \in RunState
  BY RunFacts
<1>2. QED BY <1>1 DEF Posts, RunState

LEMMA OpenRequestPreserves ==
  ASSUME IInv, NEW r \in Runs, OpenRequest(r) \/ GateOpen(r)
  PROVE  IInv'
<1>1. run[r].pc \in Busy \ {"calls"} /\ UNCHANGED flags
  BY DEF OpenRequest, GateOpen, At, Busy, Active, Asking
<1>2. run[r].proposal \in Proposals /\ run[r].proposal # None
  BY <1>1, ProposalKnown
<1>3. Amended(r, run[r])
  BY <1>1, Unamended
<1>4. PICK pc \in {"opened", "waiting"} : Goto(r, pc)
  BY DEF OpenRequest, GateOpen
<1> DEFINE s == [run[r] EXCEPT !.pc = pc]
<1>5. run' = [run EXCEPT ![r] = s]
  BY <1>4, RunFacts DEF Goto
<1>6. pc \in Busy \ {"posting"}
  BY DEF Busy, Active, Asking
<1>7. s \in RunState /\ Sound(r, s)
  BY <1>1, <1>2, <1>3, <1>6, GotoSound
<1> HIDE DEF s
<1>8. /\ Open(run[r].proposal)
      /\ UNCHANGED <<binding, page, answers, holder, receipt, effect, effects, flags, finished>>
  BY DEF OpenRequest, GateOpen
<1>9. /\ ChannelTypeOK' /\ RowExact'
      /\ Gated /\ receipt = "reserved" => row'.proposal = row.proposal
  BY <1>2, <1>8, OpenExact
<1>10. receipt \in {"none", "denied", "reserved"}
  BY DEF IInv, TypeOK
<1>11. QED BY <1>5, <1>7, <1>8, <1>9, <1>10, LocalStep, RunFacts

LEMMA OpenUnconfirmedPreserves ==
  ASSUME IInv, NEW r \in Runs, OpenUnconfirmed(r)
  PROVE  IInv'
<1>1. run[r].pc \in Busy \ {"calls"} /\ run[r].pc \in Active /\ UNCHANGED flags
  BY DEF OpenUnconfirmed, At, Busy, Active, Asking
<1>2. run[r].proposal \in Proposals
  BY <1>1, ProposalKnown
<1>3. Amended(r, run[r])
  BY <1>1, Unamended
<1> DEFINE s == End(run[r], "agent_crashed")
<1>4. run' = [run EXCEPT ![r] = s]
  BY RunFacts DEF OpenUnconfirmed, EndRun
<1>5. "agent_crashed" \in Claims \cup Overrides
  BY DEF Overrides
<1>6. s \in RunState /\ Sound(r, s)
  BY <1>1, <1>3, <1>5, EndSound
<1> HIDE DEF s
<1>7. /\ Open(run[r].proposal)
      /\ UNCHANGED <<binding, page, answers, holder, receipt, effect, effects, flags, finished>>
  BY DEF OpenUnconfirmed
<1>8. /\ ChannelTypeOK' /\ RowExact'
      /\ Gated /\ receipt = "reserved" => row'.proposal = row.proposal
  BY <1>2, <1>7, OpenExact
<1>9. receipt \in {"none", "denied", "reserved"}
  BY DEF IInv, TypeOK
<1>10. QED BY <1>4, <1>6, <1>7, <1>8, <1>9, LocalStep, RunFacts

LEMMA BindPreserves ==
  ASSUME IInv, NEW r \in Runs, BindApproval(r)
  PROVE  IInv'
<1>1. run[r].pc \in Busy \ {"calls"} /\ UNCHANGED flags
  BY DEF BindApproval, At, Busy, Active, Asking
<1>2. run[r].proposal \in Proposals /\ run[r].proposal # None
  BY <1>1, ProposalKnown
<1>3. Amended(r, run[r])
  BY <1>1, Unamended
<1> DEFINE s == [run[r] EXCEPT !.pc = "bound"]
<1>4. run' = [run EXCEPT ![r] = s]
  BY RunFacts DEF BindApproval, Goto
<1>5. "bound" \in Busy \ {"posting"}
  BY DEF Busy, Active, Asking
<1>6. s \in RunState /\ Sound(r, s)
  BY <1>1, <1>2, <1>3, <1>5, GotoSound
<1> HIDE DEF s
<1>7. /\ Bind(run[r].proposal)
      /\ UNCHANGED <<row, page, answers, holder, receipt, effect, effects, flags, finished>>
  BY DEF BindApproval
<1>8. ChannelTypeOK'
  BY <1>2, <1>7 DEF IInv, TypeOK, ChannelTypeOK, Bind
<1>9. RowExact' /\ receipt \in {"none", "denied", "reserved"}
  BY <1>7 DEF IInv, TypeOK, RowExact, Said
<1>10. QED BY <1>4, <1>6, <1>7, <1>8, <1>9, LocalStep, RunFacts

\* An answer that is not a yes is the tool's answer.
LEMMA NotApprovedPreserves ==
  ASSUME IInv, NEW r \in Runs, NotApproved(r), run[r].pc \in Busy,
         UNCHANGED <<channelVars, holder, receipt, effect, effects, flags, finished>>
  PROVE  IInv'
<1>1. Amended(r, run[r])
  BY Unamended
<1>2. {"ungranted"} \in SUBSET Facts /\ "found" \notin {"ungranted"} /\ "flagged" \notin {"ungranted"}
  BY DEF Facts
<1>3. Amended(r, Learn(run[r], {"ungranted"}))
  BY <1>1, <1>2, LearnAmended
<1>4. run' = [run EXCEPT ![r] = Answer(Learn(run[r], {"ungranted"}))]
  BY RunFacts DEF NotApproved
<1>5. QED BY <1>3, <1>4, AnswerStep, RunFacts

LEMMA PollPreserves ==
  ASSUME IInv, NEW r \in Runs, Poll(r)
  PROVE  IInv'
<1>1. run[r].pc \in Busy \ {"calls"} /\ UNCHANGED flags
  BY DEF Poll, At, Busy, Active, Asking
<1>2. run[r].proposal # None /\ Amended(r, run[r])
  BY <1>1, ProposalKnown, Unamended
<1>3. CASE NotApproved(r)
  BY <1>1, <1>3, NotApprovedPreserves DEF Poll
<1>4. CASE run' = [run EXCEPT ![r] = Learn([run[r] EXCEPT !.pc = "allowed"], {"granted"})]
  <2> DEFINE t == Learn(run[r], {"granted"})
  <2>1. {"granted"} \in SUBSET Facts /\ "found" \notin {"granted"} /\ "flagged" \notin {"granted"}
    BY DEF Facts
  <2>2. Amended(r, t)
    BY <1>2, <2>1, LearnAmended
  <2>3. run[r] \in RunState
    BY RunFacts
  <2>4. /\ t.proposal = run[r].proposal
        /\ Learn([run[r] EXCEPT !.pc = "allowed"], {"granted"}) = [t EXCEPT !.pc = "allowed"]
    BY <2>3 DEF Learn, RunState
  <2>5. run' = [run EXCEPT ![r] = [t EXCEPT !.pc = "allowed"]]
    BY <1>4, <2>4, Zenon
  <2>6. "allowed" \in Busy \ {"posting"}
    BY DEF Busy, Active
  <2> HIDE DEF t
  <2>7. UNCHANGED <<channelVars, holder, receipt, effect, effects, flags, finished>>
    BY DEF Poll
  <2>8. QED BY <1>1, <1>2, <2>2, <2>4, <2>5, <2>6, <2>7, MoveStep
<1>5. QED BY <1>3, <1>4 DEF Poll

LEMMA SeekApprovalPreserves ==
  ASSUME IInv, NEW r \in Runs, SeekApproval(r)
  PROVE  IInv'
<1>1. CASE ReopenRaises(r)
  BY <1>1, OverrideStep DEF ReopenRaises, Overrides, At, Active, Asking
<1>2. CASE BindRaises(r)
  BY <1>2, OverrideStep DEF BindRaises, Overrides, At, Active, Asking
<1>3. CASE GateError(r)
  BY <1>3, NotApprovedPreserves DEF GateError, At, Busy, Active, Asking
<1>4. CASE WaitOver(r)
  BY <1>4, NotApprovedPreserves DEF WaitOver, At, Busy, Active, Asking
<1>5. QED
  BY <1>1, <1>2, <1>3, <1>4, OpenRequestPreserves, OpenUnconfirmedPreserves,
     BindPreserves, PollPreserves DEF SeekApproval

-----------------------------------------------------------------------------
(* The remediation. *)

LEMMA RefusedRemediationPreserves ==
  ASSUME IInv, NEW r \in Runs, RefuseRemediation(r) \/ DenyReservation(r)
  PROVE  IInv'
<1>1. run[r].pc \in Busy /\ UNCHANGED flags
  BY DEF RefuseRemediation, DenyReservation, At, Busy, Active
<1>2. Answer(run[r]) \in RunState /\ Sound(r, Answer(run[r]))
  BY <1>1, Unamended, AnswerSound
<1>3. run' = [run EXCEPT ![r] = Answer(run[r])]
  BY RunFacts DEF RefuseRemediation, DenyReservation
<1>4. /\ UNCHANGED <<channelVars, holder, effect, effects, flags, finished>>
      /\ receipt' \in {"none", "denied", "reserved"}
      /\ receipt' = "reserved" <=> receipt = "reserved"
  BY DEF RefuseRemediation, DenyReservation, IInv, TypeOK
<1>5. ChannelTypeOK' /\ RowExact' /\ row' = row
  BY <1>4 DEF IInv, TypeOK, ChannelTypeOK, RowExact, Said, channelVars
<1>6. QED BY <1>2, <1>3, <1>4, <1>5, LocalStep, RunFacts

LEMMA RecheckPreserves ==
  ASSUME IInv, NEW r \in Runs, Recheck(r)
  PROVE  IInv'
<1>1. run[r].pc \in Busy \ {"calls"} /\ UNCHANGED flags
  BY DEF Recheck, At, Busy, Active
<1>2. run[r].proposal # None /\ Amended(r, run[r])
  BY <1>1, ProposalKnown, Unamended
<1>3. run' = [run EXCEPT ![r] = [run[r] EXCEPT !.pc = "reserving"]]
  BY RunFacts DEF Recheck, Goto
<1>4. "reserving" \in Busy \ {"posting"}
  BY DEF Busy, Active
<1>5. UNCHANGED <<channelVars, holder, receipt, effect, effects, flags, finished>>
  BY DEF Recheck
<1>6. QED BY <1>1, <1>2, <1>3, <1>4, <1>5, MoveStep

LEMMA ReservePreserves ==
  ASSUME IInv, NEW r \in Runs, Reserve(r)
  PROVE  IInv'
<1> DEFINE p == run[r].proposal
           s == [run[r] EXCEPT !.pc = "posting", !.writes = run[r].writes + 1]
<1>1. /\ run \in [Runs -> RunState] /\ run[r] \in RunState /\ Knows(r) /\ Posts(r)
      /\ run[r].writes \in Nat
  BY RunFacts
<1>2. /\ run[r].pc = "reserving" /\ run[r].pc \in Busy \ {"calls"}
      /\ receipt = "none" /\ receipt' = "reserved"
      /\ Gated => Authorizes(p) /\ row' = [row EXCEPT !.consumed = TRUE]
      /\ ~Gated => row' = row
      /\ UNCHANGED <<binding, page, answers, holder, effect, effects, flags, finished>>
  BY DEF Reserve, At, Unreserved, Consume, Busy, Active
<1>3. p \in Proposals /\ p # None
  BY <1>2, ProposalKnown
<1>4. run' = [run EXCEPT ![r] = s]
  BY <1>1 DEF Reserve
<1>5. run[r].writes + 1 \in Nat
  BY <1>1
<1>6. /\ s \in RunState /\ s.pc = "posting" /\ s.left = run[r].left
      /\ s.proposal = p /\ s.facts = run[r].facts /\ s.fix = run[r].fix
      /\ s.outcome = run[r].outcome
  BY <1>1, <1>5 DEF RunState, Places, Active
<1>7. run'[r] = s /\ run' \in [Runs -> RunState] /\ \A q \in Runs : q # r => run'[q] = run[q]
  BY <1>1, <1>4, <1>6
<1> HIDE DEF p, s
<1>8. ChannelTypeOK /\ RowExact /\ EffectExact /\ PostingExact /\ KnowledgeExact /\ TypeOK
  BY DEF IInv, TypeOK
<1>9. ChannelTypeOK' /\ RowExact' /\ (Gated => row'.proposal = p)
  <2>1. CASE Gated
    <3>1. /\ row # None /\ row \in Row /\ row.proposal = p /\ row.decision = "approve"
      BY <1>2, <1>8, <2>1 DEF Authorizes, Approved, ChannelTypeOK
    <3>2. /\ row' \in Row /\ row' # None /\ row'.proposal = p /\ row'.decision = "approve"
          /\ row'.consumed
      BY <1>2, <2>1, <3>1, ProposalAssumption DEF Row
    <3>3. ChannelTypeOK'
      BY <1>2, <1>8, <3>2 DEF ChannelTypeOK
    <3>4. RowExact'
      BY <1>2, <1>8, <2>1, <3>1, <3>2 DEF RowExact, Said
    <3>5. QED BY <3>2, <3>3, <3>4
  <2>2. CASE ~Gated
    BY <1>2, <1>8, <2>2 DEF ChannelTypeOK, RowExact, Said
  <2>3. QED BY <2>1, <2>2
<1>10. TypeOK'
  BY <1>2, <1>7, <1>8, <1>9 DEF TypeOK
<1>11. effects = <<>> /\ effect = "none"
  BY <1>2, <1>8 DEF EffectExact
<1>12. EffectExact'
  BY <1>2, <1>8, <1>11 DEF EffectExact
<1>13. \A q \in Runs : run[q].pc # "posting"
  BY <1>2, <1>8 DEF PostingExact, Posts
<1>14. PostingExact'
  <2>1. ASSUME NEW q \in Runs PROVE Posts(q)'
    <3>1. Posts(q)
      BY <1>8 DEF PostingExact
    <3>2. CASE q = r
      BY <1>1, <1>2, <1>3, <1>6, <1>7, <1>9, <1>11, <1>13, <3>2 DEF Posts
    <3>3. CASE q # r
      BY <1>7, <1>13, <3>1, <3>3 DEF Posts
    <3>4. QED BY <3>2, <3>3
  <2>2. QED BY <2>1 DEF PostingExact
<1>15. KnowledgeExact'
  <2>1. ASSUME NEW q \in Runs PROVE Knows(q)'
    <3>1. Knows(q)
      BY <1>8 DEF KnowledgeExact
    <3>2. CASE q = r
      BY <1>1, <1>2, <1>6, <1>7, <3>2 DEF Knows
    <3>3. CASE q # r
      BY <1>2, <1>7, <3>1, <3>3 DEF Knows
    <3>4. QED BY <3>2, <3>3
  <2>2. QED BY <2>1 DEF KnowledgeExact
<1>16. QED BY <1>9, <1>10, <1>12, <1>14, <1>15 DEF IInv

LEMMA ExecutePreserves ==
  ASSUME IInv, NEW r \in Runs, Execute(r)
  PROVE  IInv'
<1>1. /\ run \in [Runs -> RunState] /\ run[r] \in RunState /\ Knows(r) /\ Posts(r)
      /\ run[r].pc = "posting" /\ run[r].pc \in Busy \ {"calls"}
      /\ UNCHANGED <<channelVars, holder, receipt, flags, finished>>
      /\ UNCHANGED <<row, answers>>
  BY RunFacts DEF Execute, At, Busy, Active, channelVars
<1>2. run[r].proposal \in Proposals
  BY <1>1, ProposalKnown
<1>3. /\ receipt = "reserved" /\ effects = <<>>
      /\ Gated => row.proposal = run[r].proposal
      /\ run[r].left > 0 /\ run[r].outcome = ""
      /\ \A q \in Runs : run[q].pc = "posting" => q = r
  BY <1>1 DEF Posts, Knows
<1>4. PICK e \in Effects, throttled \in BOOLEAN, seen \in Effects :
        /\ seen \in {e, "running"} /\ effect' = e
        /\ run' = [run EXCEPT ![r] = Answer(Deferred(
                     [run[r] EXCEPT !.fix = IF seen = "none" THEN "failed" ELSE seen],
                     throttled))]
  <2>1. PICK e \in Effects, throttled \in BOOLEAN :
          /\ effect' = e
          /\ \E seen \in {e, "running"} :
               run' = [run EXCEPT ![r] = Answer(Deferred(
                     [run[r] EXCEPT !.fix = IF seen = "none" THEN "failed" ELSE seen],
                     throttled))]
    BY Zenon DEF Execute
  <2>2. "running" \in Effects
    BY DEF Effects
  <2>3. QED BY <2>1, <2>2, Zenon
<1> DEFINE fix == IF seen = "none" THEN "failed" ELSE seen
           c == [run[r] EXCEPT !.fix = fix]
           F == IF throttled THEN c.facts \cup {"deferred"} ELSE c.facts \ {"deferred"}
           t == [c EXCEPT !.facts = F]
           pc == IF t.left <= 1 THEN "turn" ELSE "calls"
           s == [t EXCEPT !.left = t.left - 1, !.pc = pc, !.proposal = None]
<1>5. run' = [run EXCEPT ![r] = s]
  BY <1>4 DEF Answer, Deferred
<1>6. fix \in Effects /\ fix # "none" /\ (fix = "succeeded" => effect' = "succeeded")
  BY <1>4 DEF Effects
<1> HIDE DEF fix
<1>7. c \in RunState /\ c.facts = run[r].facts /\ c.left = run[r].left /\ c.fix = fix
      /\ c.writes = run[r].writes /\ c.outcome = ""
  BY <1>1, <1>3, <1>6 DEF RunState
<1> HIDE DEF c
<1>8. F \in SUBSET Facts /\ F \subseteq run[r].facts \cup {"deferred"}
  <2>1. c.facts \in SUBSET Facts /\ "deferred" \in Facts
    BY <1>7 DEF RunState, Facts
  <2>2. \A G \in SUBSET Facts : G \cup {"deferred"} \in SUBSET Facts /\ G \ {"deferred"} \in SUBSET Facts
    BY <2>1
  <2>3. F \in SUBSET Facts
    BY <2>1, <2>2
  <2>4. F \subseteq c.facts \cup {"deferred"}
    OBVIOUS
  <2>5. QED BY <1>7, <2>3, <2>4
<1> HIDE DEF F
<1>9. t \in RunState /\ t.facts = F /\ t.left = run[r].left /\ t.fix = fix
      /\ t.writes = run[r].writes /\ t.outcome = ""
  BY <1>7, <1>8 DEF RunState
<1> HIDE DEF t
<1>10. t.left - 1 \in Nat /\ (~(t.left <= 1) => t.left - 1 > 0)
  <2>1. \A n \in Nat : n > 0 => n - 1 \in Nat /\ (~(n <= 1) => n - 1 > 0)
    OBVIOUS
  <2>2. t.left \in Nat
    BY <1>9 DEF RunState
  <2>3. QED BY <1>3, <1>9, <2>1, <2>2
<1>11. pc \in {"turn", "calls"} /\ (pc = "calls" => t.left - 1 > 0)
  BY <1>10
<1> HIDE DEF pc
<1>12. s \in RunState /\ s.facts = F /\ s.left = t.left - 1 /\ s.fix = fix /\ s.pc = pc
       /\ s.writes = run[r].writes /\ s.outcome = ""
  BY <1>9, <1>10, <1>11 DEF RunState, Places, Active
<1> HIDE DEF s
<1>13. run'[r] = s /\ run' \in [Runs -> RunState] /\ \A q \in Runs : q # r => run'[q] = run[q]
  BY <1>1, <1>5, <1>12
<1>14. /\ effects' = <<<<r, run[r].proposal>>>> /\ effects' # <<>> /\ Len(effects') = 1
       /\ effects'[1][1] = r /\ effects'[1][2] = run[r].proposal
       /\ effects' \in Seq(Runs \X Proposals)
  <2>1. effects' = Append(<<>>, <<r, run[r].proposal>>)
    BY <1>3 DEF Execute
  <2>2. <<r, run[r].proposal>> \in Runs \X Proposals
    BY <1>2
  <2>3. QED BY <2>1, <2>2
<1>15. TypeOK'
  BY <1>1, <1>4, <1>13, <1>14 DEF IInv, TypeOK, ChannelTypeOK, channelVars
<1>16. RowExact'
  BY <1>1 DEF IInv, RowExact, Said
<1>17. EffectExact'
  <2>1. Len(effects') <= 1
    BY <1>14
  <2>2. QED BY <1>1, <1>3, <1>14, <2>1 DEF EffectExact
<1>18. PostingExact'
  <2>1. ASSUME NEW q \in Runs PROVE Posts(q)'
    <3>1. Posts(q)
      BY DEF IInv, PostingExact
    <3>2. CASE q = r
      BY <1>11, <1>12, <1>13, <3>2 DEF Posts, Busy, Active, Asking
    <3>3. CASE q # r
      BY <1>3, <1>13, <3>1, <3>3 DEF Posts
    <3>4. QED BY <3>2, <3>3
  <2>2. QED BY <2>1 DEF PostingExact
<1>19. KnowledgeExact'
  <2>1. ASSUME NEW q \in Runs PROVE Knows(q)'
    <3>1. Knows(q) /\ UNCHANGED <<flags, receipt>>
      BY <1>1 DEF IInv, KnowledgeExact
    <3>2. CASE q = r
      <4>1. ("found" \in F => "found" \in run[r].facts) /\ ("flagged" \in F => "flagged" \in run[r].facts)
        BY <1>8
      <4>2. QED BY <1>3, <1>6, <1>12, <1>13, <1>14, <3>1, <3>2, <4>1 DEF Knows
    <3>3. CASE q # r
      BY <1>3, <1>13, <3>1, <3>3 DEF Knows
    <3>4. QED BY <3>2, <3>3
  <2>2. QED BY <2>1 DEF KnowledgeExact
<1>20. QED BY <1>15, <1>16, <1>17, <1>18, <1>19 DEF IInv

LEMMA RemediatePreserves ==
  ASSUME IInv, NEW r \in Runs, Remediate(r)
  PROVE  IInv'
<1>1. CASE ReferenceRaises(r)
  BY <1>1, OverrideStep DEF ReferenceRaises, Overrides, At, Active
<1>2. QED
  BY <1>1, RecheckPreserves, RefusedRemediationPreserves, ReservePreserves,
     ExecutePreserves DEF Remediate

-----------------------------------------------------------------------------
(* The people, time and the service. *)

\* A step that only touches the row preserves the invariant if it keeps the
\* row exact.
LEMMA RowStep ==
  ASSUME IInv, UNCHANGED runVars, ChannelTypeOK', RowExact',
         Gated /\ receipt = "reserved" => row'.proposal = row.proposal
  PROVE  IInv'
<1>1. TypeOK'
  BY DEF IInv, TypeOK, runVars
<1>2. EffectExact'
  BY DEF IInv, EffectExact, runVars
<1>3. ASSUME NEW r \in Runs PROVE Posts(r)' /\ Knows(r)'
  <2>1. Posts(r) /\ Knows(r)
    BY DEF IInv, PostingExact, KnowledgeExact
  <2>2. QED BY <2>1 DEF Posts, Knows, runVars
<1>4. QED BY <1>1, <1>2, <1>3 DEF IInv, PostingExact, KnowledgeExact

LEMMA PeoplePreserves ==
  ASSUME IInv, People
  PROVE  IInv'
<1>1. ChannelTypeOK /\ RowExact /\ UNCHANGED runVars /\ UNCHANGED receipt
  BY DEF IInv, TypeOK, People, runVars
<1>2. ASSUME NEW h \in Responders, View(h) PROVE IInv'
  <2>1. row \in Row
    BY <1>1, <1>2 DEF View, ChannelTypeOK
  <2>2. ChannelTypeOK'
    BY <1>1, <1>2, <2>1 DEF View, ChannelTypeOK, Row
  <2>3. RowExact' /\ row' = row
    BY <1>1, <1>2 DEF View, RowExact, Said
  <2>4. QED BY <1>1, <2>2, <2>3, RowStep
<1>3. ASSUME NEW h \in Responders, NEW d \in Decisions, Decide(h, d) PROVE IInv'
  <2>1. /\ row # None /\ row \in Row /\ row.proposal = page[h] /\ row.decision = ""
        /\ ~row.consumed
    BY <1>1, <1>3 DEF Decide, IsOpen, ChannelTypeOK
  <2>2. answers = {}
    <3>1. ASSUME NEW a \in answers PROVE FALSE
      BY <1>1, <2>1, <3>1 DEF RowExact, ChannelTypeOK, Decisions
    <3>2. QED BY <3>1
  <2>3. ~(Gated /\ receipt = "reserved")
    BY <1>1, <2>1 DEF RowExact
  <2>4. /\ row' \in Row /\ row' # None /\ row'.proposal = page[h] /\ row'.decision = d
        /\ ~row'.consumed
    BY <1>3, <2>1, ProposalAssumption DEF Decide, Row
  <2>5. page[h] \in Proposals
    BY <2>1 DEF Row
  <2>6. answers' = {[proposal |-> page[h], decision |-> d]}
    BY <1>3, <2>2 DEF Decide
  <2>7. ChannelTypeOK'
    BY <1>1, <1>3, <2>4, <2>5, <2>6 DEF Decide, ChannelTypeOK
  <2>8. RowExact'
    <3>1. \A a \in answers' : row' # None /\ a.proposal = row'.proposal /\ a.decision = row'.decision
      BY <2>4, <2>6
    <3>2. [proposal |-> row'.proposal, decision |-> row'.decision] \in answers'
      BY <2>4, <2>6
    <3>3. ~(Gated /\ receipt' = "reserved")
      BY <1>1, <2>3
    <3>4. QED BY <2>4, <3>1, <3>2, <3>3 DEF RowExact, Said
  <2>9. QED BY <1>1, <2>3, <2>7, <2>8, RowStep
<1>4. QED BY <1>2, <1>3 DEF People

LEMMA RowExpiresPreserves ==
  ASSUME IInv, RowExpires
  PROVE  IInv'
<1>1. ChannelTypeOK /\ RowExact /\ UNCHANGED runVars /\ UNCHANGED receipt /\ row \in Row
  BY DEF IInv, TypeOK, RowExpires, Expire, ChannelTypeOK, runVars
<1>2. /\ row' \in Row /\ row' # None /\ row'.proposal = row.proposal
      /\ row'.decision = row.decision /\ row'.consumed = row.consumed
  BY <1>1, ProposalAssumption DEF RowExpires, Expire, Row
<1>3. ChannelTypeOK'
  BY <1>1, <1>2 DEF RowExpires, Expire, ChannelTypeOK
<1>4. RowExact'
  <2>1. answers' = answers
    BY DEF RowExpires, Expire
  <2>2. row # None
    BY DEF RowExpires, Expire
  <2>3. \A a \in answers' : row' # None /\ a.proposal = row'.proposal /\ a.decision = row'.decision
    BY <1>1, <1>2, <2>1 DEF RowExact
  <2>4. row'.decision # "" => [proposal |-> row'.proposal, decision |-> row'.decision] \in answers'
    BY <1>1, <1>2, <2>1, <2>2 DEF RowExact, Said
  <2>5. QED BY <1>1, <1>2, <2>2, <2>3, <2>4 DEF RowExact, Said
<1>5. QED BY <1>1, <1>2, <1>3, <1>4, RowStep

LEMMA EffectEndsPreserves ==
  ASSUME IInv, EffectEnds
  PROVE  IInv'
<1>1. effect = "running" /\ effect' \in Effects
      /\ UNCHANGED <<channelVars, run, holder, receipt, effects, flags, finished>>
  BY DEF EffectEnds, Effects
<1>2. TypeOK'
  BY <1>1 DEF IInv, TypeOK, ChannelTypeOK, channelVars
<1>3. RowExact' /\ EffectExact'
  BY <1>1 DEF IInv, RowExact, Said, EffectExact, channelVars
<1>4. ASSUME NEW r \in Runs PROVE Posts(r)' /\ Knows(r)'
  <2>1. Posts(r) /\ Knows(r)
    BY DEF IInv, PostingExact, KnowledgeExact
  <2>2. Posts(r)'
    BY <1>1, <2>1 DEF Posts, channelVars
  <2>3. Knows(r)'
    BY <1>1, <2>1 DEF Knows
  <2>4. QED BY <2>2, <2>3
<1>5. QED BY <1>2, <1>3, <1>4 DEF IInv, PostingExact, KnowledgeExact

-----------------------------------------------------------------------------
(* The invariant, and what follows from it. *)

LEMMA InitIInv == Init => IInv
<1>1. SUFFICES ASSUME Init PROVE IInv
  OBVIOUS
<1>2. NewRun \in RunState
  BY DEF NewRun, RunState, Places, Effects
<1>3. run \in [Runs -> RunState] /\ \A r \in Runs : run[r] = NewRun
  BY <1>1, <1>2 DEF Init
<1>4. ChannelTypeOK
  BY <1>1 DEF Init, ChannelInit, ChannelTypeOK
<1>5. TypeOK
  <2>1. effects \in Seq(Runs \X Proposals) /\ flags \in Nat
    BY <1>1 DEF Init
  <2>2. QED BY <1>1, <1>3, <1>4, <2>1 DEF Init, TypeOK, Effects
<1>6. RowExact
  BY <1>1 DEF Init, ChannelInit, RowExact
<1>7. EffectExact
  BY <1>1 DEF Init, EffectExact
<1>8. ASSUME NEW r \in Runs PROVE Posts(r) /\ Knows(r)
  <2>1. /\ run[r].pc = "off" /\ run[r].writes = 0 /\ run[r].fix = "none"
        /\ run[r].facts = {} /\ run[r].outcome = ""
    <3>1. run[r] = NewRun
      BY <1>3
    <3>2. /\ NewRun.pc = "off" /\ NewRun.writes = 0 /\ NewRun.fix = "none"
          /\ NewRun.facts = {} /\ NewRun.outcome = ""
      BY DEF NewRun
    <3>3. QED BY <3>1, <3>2, Zenon
  <2>2. run[r].pc \notin Busy
    BY <2>1 DEF Busy, Active, Asking
  <2>3. ~(run[r].writes > 0)
    <3>1. ~(0 > 0)
      OBVIOUS
    <3>2. QED BY <2>1, <3>1, Zenon
  <2>4. QED BY <2>1, <2>2, <2>3 DEF Posts, Knows
<1>9. QED BY <1>5, <1>6, <1>7, <1>8 DEF IInv, PostingExact, KnowledgeExact

LEMMA NextIInv == IInv /\ [Next]_vars => IInv'
<1>1. SUFFICES ASSUME IInv, [Next]_vars PROVE IInv'
  OBVIOUS
<1>2. CASE UNCHANGED vars
  <2>1. UNCHANGED runVars /\ UNCHANGED <<row, binding, page, answers, receipt>>
    BY <1>2 DEF vars, channelVars, runVars
  <2>2. ChannelTypeOK' /\ RowExact'
    BY <1>1, <2>1 DEF IInv, TypeOK, ChannelTypeOK, RowExact, Said
  <2>3. QED BY <1>1, <2>1, <2>2, RowStep
<1>3. ASSUME NEW r \in Runs, RunStep(r) PROVE IInv'
  BY <1>1, <1>3, TurnPreserves, DispatchPreserves, SeekApprovalPreserves,
     RemediatePreserves DEF RunStep
<1>4. ASSUME NEW r \in Runs,
             (\E known \in BOOLEAN : Start(r, known)) \/ Interrupt(r) \/ Finalize(r)
      PROVE  IInv'
  BY <1>1, <1>4, StartPreserves, InterruptPreserves, FinalizePreserves
<1>5. CASE People \/ RowExpires \/ EffectEnds
  BY <1>1, <1>5, PeoplePreserves, RowExpiresPreserves, EffectEndsPreserves
<1>6. QED BY <1>1, <1>2, <1>3, <1>4, <1>5 DEF Next

\* The invariant holds of every reachable state: the row's answer is the only
\* one given, consumption and reservation go together, one run posts, and what
\* the runs know is true.
THEOREM Invariance == Spec => []IInv
BY InitIInv, NextIInv, PTL DEF Spec

\* No gated remediation reaches the service without a person's yes to exactly
\* that proposal (_seek_approval, reserve_action), for any number of runs that
\* race in the same approval row.
THEOREM Authorization == Spec => []EffectsAuthorized
<1>1. ASSUME IInv PROVE EffectsAuthorized
  <2>1. SUFFICES ASSUME Gated, NEW i \in 1..Len(effects)
        PROVE  /\ Said(effects[i][2], "approve") /\ ~Said(effects[i][2], "decline")
               /\ row # None /\ row.proposal = effects[i][2] /\ row.consumed
    BY DEF EffectsAuthorized
  <2>2. effects \in Seq(Runs \X Proposals) /\ Len(effects) <= 1
    BY <1>1 DEF IInv, TypeOK, EffectExact
  <2>3. i = 1 /\ effects # <<>>
    BY <2>1, <2>2
  <2>4. receipt = "reserved" /\ row.proposal = effects[1][2]
    BY <1>1, <2>1, <2>3 DEF IInv, EffectExact
  <2>5. row # None /\ row.consumed /\ row.decision = "approve"
    BY <1>1, <2>1, <2>4 DEF IInv, RowExact
  <2>6. Said(row.proposal, "approve")
    BY <1>1, <2>5 DEF IInv, RowExact
  <2>7. ~Said(row.proposal, "decline")
    BY <1>1, <2>5 DEF IInv, RowExact, Said
  <2>8. QED BY <2>3, <2>4, <2>5, <2>6, <2>7
<1>2. QED BY <1>1, Invariance, PTL

\* A refused remediation costs neither the run's ledger nor the approval.
THEOREM FreeRefusals == Spec => []RefusalsAreFree
<1>1. ASSUME IInv PROVE RefusalsAreFree
  <2>1. \A r \in Runs : run[r].writes > 0 => receipt = "reserved"
    BY <1>1 DEF IInv, KnowledgeExact, Knows
  <2>2. Gated /\ row # None => (row.consumed <=> receipt = "reserved")
    BY <1>1, ProposalAssumption DEF IInv, RowExact, TypeOK, ChannelTypeOK, Row
  <2>3. QED BY <2>1, <2>2 DEF RefusalsAreFree
<1>2. QED BY <1>1, Invariance, PTL

\* Whatever the limits, the runs of one work send one remediation at most.
THEOREM SingleEffect == Spec => []OneEffect
<1>1. ASSUME IInv PROVE OneEffect
  BY <1>1 DEF IInv, EffectExact, OneEffect
<1>2. QED BY <1>1, Invariance, PTL

\* The recorded outcomes are earned (_validate_outcome).
THEOREM EarnedOutcomes == Spec => []OutcomesEarned
<1>1. ASSUME IInv PROVE OutcomesEarned
  <2>1. SUFFICES ASSUME NEW r \in Runs
        PROVE /\ run[r].outcome = "resolved" =>
                   /\ effect = "succeeded"
                   /\ \E i \in 1..Len(effects) : effects[i][1] = r
              /\ run[r].outcome = "flagged_data_quality" => HasDuplicates /\ flags > 0
    BY DEF OutcomesEarned
  <2>2. Knows(r) /\ effects \in Seq(Runs \X Proposals)
    BY <1>1 DEF IInv, KnowledgeExact, TypeOK
  <2>3. effects # <<>> => 1 \in 1..Len(effects)
    BY <2>2
  <2>4. QED BY <2>2, <2>3 DEF Knows
<1>2. QED BY <1>1, Invariance, PTL

-----------------------------------------------------------------------------
(* What a step may do to the row. *)

\* Every step leaves the row alone, opens it, consumes it with the
\* reservation, answers it while it is unanswered or expires it.
LEMMA RowMoves ==
  ASSUME IInv, [Next]_vars
  PROVE  \/ row' = row
         \/ row = None
         \/ /\ row' = [row EXCEPT !.consumed = TRUE] /\ ~row.expired
            /\ receipt = "none" /\ receipt' = "reserved"
         \/ row.decision = "" /\ \E d \in Decisions : row' = [row EXCEPT !.decision = d]
         \/ row' = [row EXCEPT !.expired = TRUE]
<1>1. CASE UNCHANGED vars
  BY <1>1 DEF vars, channelVars
<1>2. ASSUME NEW r \in Runs, Turn(r) \/ Dispatch(r) PROVE row' = row
  BY <1>2 DEF Turn, Dispatch, UnknownTool, OverBudget, Diagnose, CheckRerun, Consult,
     WriteFlag, Defer, RefuseProposal, Propose, Report, channelVars
<1>3. ASSUME NEW r \in Runs, SeekApproval(r) PROVE row' = row \/ row = None
  BY <1>3 DEF SeekApproval, OpenRequest, ReopenRaises, OpenUnconfirmed, BindApproval,
     BindRaises, GateOpen, GateError, Poll, WaitOver, Open, channelVars
<1>4. ASSUME NEW r \in Runs, Reserve(r)
      PROVE  \/ row' = row
             \/ /\ row' = [row EXCEPT !.consumed = TRUE] /\ ~row.expired
                /\ receipt = "none" /\ receipt' = "reserved"
  BY <1>4 DEF Reserve, Unreserved, Authorizes, Consume
<1>5. ASSUME NEW r \in Runs,
             Recheck(r) \/ ReferenceRaises(r) \/ RefuseRemediation(r)
               \/ DenyReservation(r) \/ Execute(r)
      PROVE  row' = row
  BY <1>5 DEF Recheck, ReferenceRaises, RefuseRemediation, DenyReservation, Execute, channelVars
<1>6. ASSUME NEW r \in Runs,
             (\E known \in BOOLEAN : Start(r, known)) \/ Interrupt(r) \/ Finalize(r)
      PROVE  row' = row
  BY <1>6 DEF Start, Interrupt, Crash, Stop, TimeOut, Finalize, channelVars
<1>7. CASE People
  BY <1>7 DEF People, View, Decide, IsOpen
<1>8. CASE RowExpires
  BY <1>8 DEF RowExpires, Expire
<1>9. CASE EffectEnds
  BY <1>9 DEF EffectEnds, channelVars
<1>10. QED
  BY <1>1, <1>2, <1>3, <1>4, <1>5, <1>6, <1>7, <1>8, <1>9 DEF Next, RunStep, Remediate

\* A decided, consumed or expired request stays what it is, however often it
\* is asked for again (_write, decide_exact).
THEOREM FinalAnswers == Spec => AnswersAreFinal
<1> DEFINE Kept ==
      row # None =>
        /\ row' # None
        /\ row'.proposal = row.proposal
        /\ row.decision # "" => row'.decision = row.decision
        /\ row.consumed => row'.consumed
        /\ row.expired => row'.expired
<1>1. ASSUME IInv, [Next]_vars PROVE Kept
  <2>1. SUFFICES ASSUME row # None PROVE Kept
    OBVIOUS
  <2>2. row \in Row
    BY <1>1, <2>1 DEF IInv, TypeOK, ChannelTypeOK
  <2>3. CASE row' = row
    BY <2>1, <2>3
  <2>4. CASE row' = [row EXCEPT !.consumed = TRUE]
    BY <2>2, <2>4, ProposalAssumption DEF Row
  <2>5. CASE row.decision = "" /\ \E d \in Decisions : row' = [row EXCEPT !.decision = d]
    BY <2>2, <2>5, ProposalAssumption DEF Row
  <2>6. CASE row' = [row EXCEPT !.expired = TRUE]
    BY <2>2, <2>6, ProposalAssumption DEF Row
  <2>7. QED BY <1>1, <2>1, <2>3, <2>4, <2>5, <2>6, RowMoves
<1>2. QED BY <1>1, Invariance, PTL DEF Spec, AnswersAreFinal

\* Consent is spent only in the step that reserves, and not after its
\* deadline (_approval_denial inside reserve_action's transaction).
THEOREM TimelyConsent == Spec => ConsentSpentInTime
<1> DEFINE Timely ==
      row # None /\ row' # None /\ row'.consumed /\ ~row.consumed =>
        receipt' = "reserved" /\ receipt # "reserved" /\ ~row.expired
<1>1. ASSUME IInv, [Next]_vars PROVE Timely
  <2>1. SUFFICES ASSUME row # None, row' # None, row'.consumed, ~row.consumed
        PROVE  receipt' = "reserved" /\ receipt # "reserved" /\ ~row.expired
    OBVIOUS
  <2>2. row \in Row
    BY <1>1, <2>1 DEF IInv, TypeOK, ChannelTypeOK
  <2>3. row' # row
    BY <2>1
  <2>4. ~\E d \in Decisions : row' = [row EXCEPT !.decision = d]
    BY <2>1, <2>2 DEF Row
  <2>5. row' # [row EXCEPT !.expired = TRUE]
    BY <2>1, <2>2 DEF Row
  <2>6. QED BY <1>1, <2>1, <2>3, <2>4, <2>5, RowMoves
<1>2. QED BY <1>1, Invariance, PTL DEF Spec, ConsentSpentInTime

-----------------------------------------------------------------------------
(* Silent sweeps: the invariant, sweep by sweep. *)

\* What the invariant says of one sweep.
Own(s) ==
  /\ Silent!Sensible(sw[s].state)
  /\ sw[s].pc \in {"report", "post", "record", "quiet"} \/ Silent!Recorded(s) =>
       Silent!Sig(s) \in Silent!Signatures
  /\ sw[s].pc \in Silent!Scanning /\ ~overlapped => lease.owner = OwnerOf[s] /\ lease.left > 0
  /\ sw[s].pc \in {"circuit", "query"} /\ ~overlapped => Silent!SameEvidence(sw[s].state, reading)
  /\ sw[s].pc = "put" /\ ~overlapped => Silent!Follows(s)
  /\ sw[s].found.earned
  /\ sw[s].pc = "quiet" => Silent!Sig(s) \in posted
  /\ sw[s].sent => sw[s].pc = "record" /\ Silent!Sig(s) \in posted

\* What it says of the rows.
Rows ==
  /\ Silent!Sensible(reading)
  /\ lease \in Silent!Leases
  /\ inc \in [Silent!Signatures -> [open: BOOLEAN, notified: BOOLEAN]]
  /\ posted \subseteq Silent!Signatures
  /\ \A g \in Silent!Signatures : inc[g].notified => g \in posted
  /\ streak \in Silent!Streaks /\ overlapped \in BOOLEAN /\ sfaults \in 0 .. MaxFaults
  /\ Silent!Counted

LEMMA SweepParts ==
  ASSUME Silent!SweepInv
  PROVE  Rows /\ sw \in [Sweepers -> Silent!Sweeps] /\ \A s \in Sweepers : Own(s)
  BY DEF Silent!SweepInv, Silent!FindingsEarned, Silent!TypeOK, Silent!ConfirmedEarned,
    Silent!QuietWasAnnounced, Silent!RowsSensible, Silent!Reported, Silent!LeaseHeld,
    Silent!Current, Silent!Delivered, Rows, Own

LEMMA SweepWhole ==
  ASSUME Silent!WatchAssumption, Rows', sw' \in [Sweepers -> Silent!Sweeps],
         \A s \in Sweepers : Own(s)'
  PROVE  Silent!SweepInv'
  <1>1. Silent!TypeOK'
    BY DEF Silent!TypeOK, Rows, Silent!Sensible
  <1>2. Silent!OneSweepAtATime'
    BY DEF Silent!OneSweepAtATime, Own, Silent!WatchAssumption
  <1>3. Silent!ConfirmedEarned' /\ Silent!QuietWasAnnounced' /\ Silent!RowsSensible'
    BY DEF Silent!ConfirmedEarned, Silent!QuietWasAnnounced, Silent!RowsSensible, Own, Rows
  <1>4. Silent!Reported' /\ Silent!LeaseHeld' /\ Silent!Current'
    BY DEF Silent!Reported, Silent!LeaseHeld, Silent!Current, Own
  <1>5. Silent!Delivered' /\ Silent!Counted'
    BY DEF Silent!Delivered, Own, Rows
  <1> QED BY <1>1, <1>2, <1>3, <1>4, <1>5 DEF Silent!SweepInv, Silent!FindingsEarned

\* Sweep s takes a step: the others need their lease and the evidence they work on.
LEMMA SweepStep ==
  ASSUME Silent!WatchAssumption, Silent!SweepInv, NEW s \in Sweepers, NEW x \in Silent!Sweeps,
         sw' = [sw EXCEPT ![s] = x], overlapped' = overlapped, posted \subseteq posted',
         \A t \in Sweepers : t # s /\ sw[t].pc \in Silent!Scanning /\ ~overlapped =>
           /\ lease'.owner = lease.owner /\ lease'.left = lease.left
           /\ Silent!SameEvidence(reading', reading),
         Rows', Own(s)'
  PROVE  Silent!SweepInv'
  <1>2. sw \in [Sweepers -> Silent!Sweeps] /\ \A t \in Sweepers : Own(t)
    BY SweepParts
  <1>3. sw' \in [Sweepers -> Silent!Sweeps] /\ \A t \in Sweepers : t # s => sw'[t] = sw[t]
    BY <1>2
  <1>4. ASSUME NEW t \in Sweepers, t # s PROVE Own(t)'
    <2>1. sw'[t] = sw[t] /\ Own(t)
      BY <1>2, <1>3, <1>4
    <2>2. Silent!Sig(t)' = Silent!Sig(t) /\ (Silent!Recorded(t)' <=> Silent!Recorded(t))
      BY <2>1 DEF Silent!Sig, Silent!Recorded
    <2>3. sw[t].pc = "put" /\ ~overlapped => Silent!Follows(t)'
      BY <1>4, <2>1 DEF Own, Silent!Follows, Silent!SameEvidence, Silent!Scanning
    <2>4. sw[t].pc \in {"circuit", "query"} /\ ~overlapped => Silent!SameEvidence(sw[t].state, reading')
      BY <1>4, <2>1 DEF Own, Silent!SameEvidence, Silent!Scanning
    <2>5. sw[t].pc \in Silent!Scanning /\ ~overlapped => lease'.owner = OwnerOf[t] /\ lease'.left > 0
      BY <1>4, <2>1 DEF Own
    <2>6. Silent!Sensible(sw[t].state)'
      BY <2>1 DEF Own, Silent!Sensible, Silent!States
    <2> QED BY <2>1, <2>2, <2>3, <2>4, <2>5, <2>6 DEF Own, Silent!Signatures, Silent!Sensible, Silent!SameEvidence
  <1>5. \A t \in Sweepers : Own(t)'
    BY <1>4
  <1> QED BY <1>3, <1>5, SweepWhole

\* The types of a row that is not written, and of the lease.
LEMMA RowsKept ==
  ASSUME Rows, UNCHANGED <<reading, streak, overlapped>>, lease' \in Silent!Leases,
         inc' \in [Silent!Signatures -> [open: BOOLEAN, notified: BOOLEAN]],
         posted' \subseteq Silent!Signatures,
         \A g \in Silent!Signatures : inc'[g].notified => g \in posted',
         sfaults' \in 0 .. MaxFaults
  PROVE  Rows'
  BY DEF Rows, Silent!Sensible, Silent!States, Silent!Counted, Silent!Leases, Silent!Streaks,
    Silent!Signatures, Silent!Kinds, Silent!NotParked

LEMMA FaultKeeps ==
  ASSUME Silent!WatchAssumption, sfaults \in 0 .. MaxFaults,
         sfaults' = sfaults \/ Silent!Fault
  PROVE  sfaults' \in 0 .. MaxFaults
  BY DEF Silent!Fault, Silent!WatchAssumption

\* The lease is nobody's, the sweep's own or has run out: no other sweep scans.
LEMMA AcquireKeeps ==
  ASSUME Silent!WatchAssumption, Silent!SweepInv, NEW s \in Sweepers, Silent!Acquire(s)
  PROVE  Silent!SweepInv'
  <1> DEFINE x == [sw[s] EXCEPT !.pc = "get"]
  <1>1. Rows /\ sw \in [Sweepers -> Silent!Sweeps] /\ \A t \in Sweepers : Own(t)
    BY SweepParts
  <1>2. /\ sw[s].pc = "idle" /\ Silent!Free(s) /\ sw' = [sw EXCEPT ![s] = x]
        /\ lease' = [owner |-> OwnerOf[s], left |-> LeaseTicks]
        /\ UNCHANGED <<reading, inc, posted, streak, overlapped, sfaults>>
    BY DEF Silent!Acquire, Silent!Go, Silent!reports, Silent!ghosts
  <1>3. x \in Silent!Sweeps /\ x.pc = "get" /\ x.state = sw[s].state /\ x.found = sw[s].found /\ x.sent = sw[s].sent
    BY <1>1 DEF Silent!Sweeps, Silent!Scanning
  <1> HIDE DEF x
  <1>4. sw'[s] = x
    BY <1>1, <1>2
  <1>5. lease' \in Silent!Leases /\ lease'.owner = OwnerOf[s] /\ lease'.left > 0
    BY <1>2 DEF Silent!Leases, Silent!WatchAssumption
  <1>6. \A t \in Sweepers : t # s /\ sw[t].pc \in Silent!Scanning => overlapped
    BY <1>1, <1>2 DEF Own, Silent!Free, Silent!WatchAssumption, Silent!Leases, Rows
  <1>7. Rows'
    BY <1>1, <1>2, <1>5, RowsKept DEF Rows
  <1>8. Own(s)'
    <2>1. Silent!Sig(s)' = Silent!Sig(s) /\ (Silent!Recorded(s)' <=> Silent!Recorded(s))
      BY <1>3, <1>4 DEF Silent!Sig, Silent!Recorded
    <2> QED BY <2>1, <1>1, <1>2, <1>3, <1>4, <1>5
      DEF Own, Silent!Sensible, Silent!States, Silent!Signatures
  <1> QED BY <1>2, <1>3, <1>6, <1>7, <1>8, SweepStep

LEMMA IdleSweep ==
  ASSUME Silent!WatchAssumption
  PROVE  /\ Silent!Sensible(Silent!NoState) /\ Silent!NoFinding \in Silent!Findings
         /\ Silent!Idle \in Silent!Sweeps
  <1>1. Silent!NoState \in Silent!States /\ Silent!Sensible(Silent!NoState)
    BY DEF Silent!NoState, Silent!States, Silent!Sensible, Silent!WatchAssumption, Silent!NotParked
  <1>2. Silent!NoFinding \in Silent!Findings
    BY DEF Silent!NoFinding, Silent!Findings, Silent!Statuses
  <1> QED BY <1>1, <1>2 DEF Silent!Idle, Silent!Sweeps

\* A sweep that stops claims nothing.
LEMMA StoppedOwn ==
  ASSUME Silent!WatchAssumption, NEW s \in Sweepers, sw \in [Sweepers -> Silent!Sweeps],
         NEW x, x = Silent!Idle \/ x = [Silent!Idle EXCEPT !.pc = "release"],
         sw' = [sw EXCEPT ![s] = x]
  PROVE  x \in Silent!Sweeps /\ Own(s)'
  <1>1. x \in Silent!Sweeps /\ x.pc \in {"idle", "release"} /\ x.state = Silent!NoState
        /\ x.found = Silent!NoFinding /\ x.sent = FALSE
    <2>1. CASE x = Silent!Idle
      BY <2>1, IdleSweep DEF Silent!Idle
    <2>2. CASE x = [Silent!Idle EXCEPT !.pc = "release"]
      <3>1. x = [pc |-> "release", state |-> Silent!NoState, found |-> Silent!NoFinding, sent |-> FALSE]
        BY <2>2 DEF Silent!Idle
      <3> QED BY <3>1, IdleSweep DEF Silent!Sweeps, Silent!Sensible
    <2> QED BY <2>1, <2>2
  <1>2. sw'[s] = x
    OBVIOUS
  <1>3. ~Silent!Recorded(s)' /\ x.found.earned
    BY <1>1, <1>2 DEF Silent!Recorded, Silent!NoFinding
  <1>4. Silent!Sensible(sw[s].state)'
    BY <1>1, <1>2, IdleSweep DEF Silent!Sensible, Silent!States
  <1> QED BY <1>1, <1>2, <1>3, <1>4 DEF Own, Silent!Scanning

LEMMA ReleaseKeeps ==
  ASSUME Silent!WatchAssumption, Silent!SweepInv, NEW s \in Sweepers, Silent!Release(s)
  PROVE  Silent!SweepInv'
  <1> DEFINE x == IF Silent!Recorded(s)
                    THEN [Silent!Idle EXCEPT !.pc = "report", !.found = sw[s].found] ELSE Silent!Idle
  <1>1. Rows /\ sw \in [Sweepers -> Silent!Sweeps] /\ \A t \in Sweepers : Own(t)
    BY SweepParts
  <1>2. /\ sw[s].pc = "release" /\ sw' = [sw EXCEPT ![s] = x]
        /\ lease' = IF lease.owner = OwnerOf[s] THEN [owner |-> Nobody, left |-> 0] ELSE lease
        /\ UNCHANGED <<reading, inc, posted, streak, overlapped, sfaults>>
    BY DEF Silent!Release, Silent!reports, Silent!ghosts
  <1>3. lease' \in Silent!Leases
    BY <1>1, <1>2 DEF Silent!Leases, Silent!WatchAssumption, Rows
  <1>4. \A t \in Sweepers : t # s /\ sw[t].pc \in Silent!Scanning /\ ~overlapped => lease' = lease
    BY <1>1, <1>2 DEF Own, Silent!WatchAssumption
  <1>5. Rows'
    BY <1>1, <1>2, <1>3, RowsKept DEF Rows
  <1>6. x \in Silent!Sweeps /\ Own(s)'
    <2>1. CASE ~Silent!Recorded(s)
      BY <1>1, <1>2, <2>1, StoppedOwn
    <2>2. CASE Silent!Recorded(s)
      <3>1. sw[s].found \in Silent!Findings
        BY <1>1 DEF Silent!Sweeps
      <3>2. /\ x \in Silent!Sweeps /\ x.pc = "report" /\ x.state = Silent!NoState
            /\ x.found = sw[s].found /\ x.sent = FALSE
        BY <2>2, <3>1, IdleSweep DEF Silent!Idle, Silent!Sweeps
      <3> HIDE DEF x
      <3>3. sw'[s] = x
        BY <1>1, <1>2
      <3>4. Silent!Sig(s)' = Silent!Sig(s) /\ Silent!Sig(s) \in Silent!Signatures
        BY <1>1, <2>2, <3>2, <3>3 DEF Silent!Sig, Own
      <3>5. Silent!Sensible(sw[s].state)'
        BY <3>2, <3>3, IdleSweep DEF Silent!Sensible, Silent!States
      <3> QED BY <1>1, <3>2, <3>3, <3>4, <3>5 DEF Own, Silent!Scanning, Silent!Signatures
    <2> QED BY <2>1, <2>2
  <1> HIDE DEF x
  <1> QED BY <1>2, <1>4, <1>5, <1>6, SweepStep DEF Silent!SameEvidence

LEMMA GetStateKeeps ==
  ASSUME Silent!WatchAssumption, Silent!SweepInv, NEW s \in Sweepers, Silent!GetState(s)
  PROVE  Silent!SweepInv'
  <1> DEFINE next == IF reading.errors < MaxErrors THEN "query" ELSE "circuit"
             x == [sw[s] EXCEPT !.state = reading, !.pc = next]
  <1>1. Rows /\ sw \in [Sweepers -> Silent!Sweeps] /\ \A t \in Sweepers : Own(t)
    BY SweepParts
  <1>2. /\ sw[s].pc = "get" /\ sw' = [sw EXCEPT ![s] = x]
        /\ UNCHANGED <<reading, lease, inc, posted, streak, overlapped, sfaults>>
    BY DEF Silent!GetState, Silent!reports, Silent!ghosts
  <1>3. next \in {"query", "circuit"} /\ reading \in Silent!States
    BY <1>1 DEF Rows, Silent!Sensible
  <1> HIDE DEF next
  <1>4. x \in Silent!Sweeps /\ x.pc = next /\ x.state = reading /\ x.found = sw[s].found /\ x.sent = sw[s].sent
    BY <1>1, <1>3 DEF Silent!Sweeps, Silent!Scanning
  <1> HIDE DEF x
  <1>5. sw'[s] = x
    BY <1>1, <1>2
  <1>6. Rows'
    BY <1>1, <1>2, RowsKept DEF Rows
  <1>7. Own(s)'
    <2>1. Silent!Sig(s)' = Silent!Sig(s) /\ (Silent!Recorded(s)' <=> Silent!Recorded(s))
      BY <1>4, <1>5 DEF Silent!Sig, Silent!Recorded
    <2>2. Silent!Sensible(sw[s].state)'
      BY <1>1, <1>4, <1>5 DEF Rows, Silent!Sensible, Silent!States
    <2>3. Silent!SameEvidence(sw[s].state, reading)'
      BY <1>2, <1>4, <1>5 DEF Silent!SameEvidence
    <2> QED BY <2>1, <2>2, <2>3, <1>1, <1>2, <1>3, <1>4, <1>5
      DEF Own, Silent!Signatures, Silent!Scanning
  <1> QED BY <1>2, <1>4, <1>6, <1>7, SweepStep DEF Silent!SameEvidence

LEMMA ReportKeeps ==
  ASSUME Silent!WatchAssumption, Silent!SweepInv, NEW s \in Sweepers, Silent!Report(s)
  PROVE  Silent!SweepInv'
  <1> DEFINE next == IF Silent!Announced(Silent!Sig(s)) THEN "quiet" ELSE "post"
             x == [sw[s] EXCEPT !.pc = next]
  <1>1. Rows /\ sw \in [Sweepers -> Silent!Sweeps] /\ \A t \in Sweepers : Own(t)
    BY SweepParts
  <1>2. /\ sw[s].pc = "report" /\ sw' = [sw EXCEPT ![s] = x]
        /\ UNCHANGED <<reading, lease, inc, posted, streak, overlapped, sfaults>>
    BY DEF Silent!Report, Silent!reports, Silent!ghosts, Silent!Go
  <1>3. next \in {"quiet", "post"} /\ (next = "quiet" => Silent!Sig(s) \in posted)
    BY <1>1, <1>2 DEF Rows, Own, Silent!Announced
  <1> HIDE DEF next
  <1>4. x \in Silent!Sweeps /\ x.pc = next /\ x.state = sw[s].state /\ x.found = sw[s].found /\ x.sent = sw[s].sent
    BY <1>1, <1>3 DEF Silent!Sweeps, Silent!Scanning
  <1> HIDE DEF x
  <1>5. sw'[s] = x
    BY <1>1, <1>2
  <1>6. Rows'
    BY <1>1, <1>2, RowsKept DEF Rows
  <1>7. Own(s)'
    <2>1. Silent!Sig(s)' = Silent!Sig(s) /\ (Silent!Recorded(s)' <=> Silent!Recorded(s))
      BY <1>4, <1>5 DEF Silent!Sig, Silent!Recorded
    <2>2. Silent!Sensible(sw[s].state)'
      BY <1>1, <1>4, <1>5 DEF Own, Silent!Sensible, Silent!States
    <2> QED BY <2>1, <2>2, <1>1, <1>2, <1>3, <1>4, <1>5
      DEF Own, Silent!Signatures, Silent!Scanning
  <1> QED BY <1>2, <1>4, <1>6, <1>7, SweepStep DEF Silent!SameEvidence

LEMMA PostKeeps ==
  ASSUME Silent!WatchAssumption, Silent!SweepInv, NEW s \in Sweepers, Silent!Post(s)
  PROVE  Silent!SweepInv'
  <1>1. Rows /\ sw \in [Sweepers -> Silent!Sweeps] /\ \A t \in Sweepers : Own(t)
    BY SweepParts
  <1>2. PICK b \in BOOLEAN :
          /\ sw' = [sw EXCEPT ![s] = [sw[s] EXCEPT !.pc = "record", !.sent = b]]
          /\ IF b THEN posted' = posted \cup {Silent!Sig(s)} ELSE posted' = posted
    <2>1. CASE /\ sw' = [sw EXCEPT ![s] = [sw[s] EXCEPT !.pc = "record", !.sent = TRUE]]
               /\ posted' = posted \cup {Silent!Sig(s)}
      BY <2>1
    <2>2. CASE Silent!Go(s, "record") /\ posted' = posted
      <3>1. sw[s].sent = FALSE /\ sw[s] \in Silent!Sweeps
        BY <1>1 DEF Own, Silent!Post, Silent!Sweeps
      <3>2. [sw[s] EXCEPT !.pc = "record", !.sent = FALSE] = [sw[s] EXCEPT !.pc = "record"]
        BY <3>1 DEF Silent!Sweeps
      <3> QED BY <2>2, <3>2 DEF Silent!Go
    <2> QED BY <2>1, <2>2 DEF Silent!Post
  <1> DEFINE x == [sw[s] EXCEPT !.pc = "record", !.sent = b]
  <1>3. /\ sw[s].pc = "post" /\ UNCHANGED <<reading, lease, inc, streak, overlapped>>
        /\ sfaults' = sfaults \/ Silent!Fault
    BY DEF Silent!Post, Silent!ghosts
  <1>4. x \in Silent!Sweeps /\ x.pc = "record" /\ x.state = sw[s].state /\ x.found = sw[s].found /\ x.sent = b
    BY <1>1 DEF Silent!Sweeps, Silent!Scanning
  <1>5. sw' = [sw EXCEPT ![s] = x]
    BY <1>2
  <1> HIDE DEF x
  <1>6. sw'[s] = x
    BY <1>1, <1>5
  <1>7. Silent!Sig(s) \in Silent!Signatures /\ sfaults' \in 0 .. MaxFaults
    BY <1>1, <1>3, FaultKeeps DEF Own, Rows
  <1>8. Rows'
    BY <1>1, <1>2, <1>3, <1>7, RowsKept DEF Rows
  <1>9. Own(s)'
    <2>1. Silent!Sig(s)' = Silent!Sig(s) /\ (Silent!Recorded(s)' <=> Silent!Recorded(s))
      BY <1>4, <1>6 DEF Silent!Sig, Silent!Recorded
    <2>2. Silent!Sensible(sw[s].state)'
      BY <1>1, <1>4, <1>6 DEF Own, Silent!Sensible, Silent!States
    <2> QED BY <2>1, <2>2, <1>1, <1>2, <1>4, <1>6, <1>7
      DEF Own, Silent!Signatures, Silent!Scanning
  <1> QED BY <1>2, <1>3, <1>4, <1>5, <1>8, <1>9, SweepStep DEF Silent!SameEvidence

LEMMA RecordKeeps ==
  ASSUME Silent!WatchAssumption, Silent!SweepInv, NEW s \in Sweepers, Silent!Record(s)
  PROVE  Silent!SweepInv'
  <1>1. Rows /\ sw \in [Sweepers -> Silent!Sweeps] /\ \A t \in Sweepers : Own(t)
    BY SweepParts
  <1>2. /\ sw' = [sw EXCEPT ![s] = Silent!Idle]
        /\ inc' = [inc EXCEPT ![Silent!Sig(s)] =
                     [open |-> TRUE, notified |-> inc[Silent!Sig(s)].notified \/ sw[s].sent]]
        /\ UNCHANGED <<reading, lease, posted, streak, overlapped, sfaults>>
    BY DEF Silent!Record, Silent!ghosts
  <1>3. Silent!Sig(s) \in Silent!Signatures /\ sw[s].sent \in BOOLEAN
        /\ (sw[s].sent => Silent!Sig(s) \in posted)
    BY <1>1 DEF Own, Silent!Record, Silent!Sweeps
  <1>4. inc' \in [Silent!Signatures -> [open: BOOLEAN, notified: BOOLEAN]]
        /\ \A g \in Silent!Signatures : inc'[g].notified => g \in posted
    BY <1>1, <1>2, <1>3 DEF Rows
  <1>5. Rows'
    BY <1>1, <1>2, <1>4, RowsKept DEF Rows
  <1> QED BY <1>1, <1>2, <1>5, StoppedOwn, SweepStep DEF Silent!SameEvidence

LEMMA SweepCrashKeeps ==
  ASSUME Silent!WatchAssumption, Silent!SweepInv, NEW s \in Sweepers, Silent!Crash(s)
  PROVE  Silent!SweepInv'
  <1>1. Rows /\ sw \in [Sweepers -> Silent!Sweeps] /\ \A t \in Sweepers : Own(t)
    BY SweepParts
  <1>2. /\ sw' = [sw EXCEPT ![s] = Silent!Idle] /\ Silent!Fault
        /\ UNCHANGED <<reading, lease, inc, posted, streak, overlapped>>
    BY DEF Silent!Crash, Silent!reports, Silent!ghosts
  <1>3. Rows'
    BY <1>1, <1>2, FaultKeeps, RowsKept DEF Rows
  <1> QED BY <1>1, <1>2, <1>3, StoppedOwn, SweepStep DEF Silent!SameEvidence

LEMMA RowsWritten ==
  ASSUME Rows, Silent!Sensible(reading'), streak' \in Silent!Streaks,
         reading'.suspect > 0 /\ ~overlapped => streak'.kind = reading'.kind /\ streak'.n >= reading'.suspect,
         UNCHANGED <<lease, inc, posted, overlapped>>, sfaults' \in 0 .. MaxFaults
  PROVE  Rows'
  BY DEF Rows, Silent!Sensible, Silent!States, Silent!Counted, Silent!Leases, Silent!Streaks,
    Silent!Signatures, Silent!Kinds, Silent!NotParked

LEMMA CircuitKeeps ==
  ASSUME Silent!WatchAssumption, Silent!SweepInv, NEW s \in Sweepers, Silent!Circuit(s)
  PROVE  /\ Silent!SweepInv'
         /\ ~overlapped => reading'.rows = reading.rows /\ reading'.shape = reading.shape
  <1> DEFINE state == sw[s].state
             o == Silent!Opened(state)
  <1>1. Rows /\ sw \in [Sweepers -> Silent!Sweeps] /\ \A t \in Sweepers : Own(t)
    BY SweepParts
  <1>2. /\ sw[s].pc = "circuit" /\ UNCHANGED <<lease, inc, posted, streak, overlapped, sfaults>>
        /\ \/ /\ o > 0 /\ reading' = (IF o = state.opened THEN reading ELSE [state EXCEPT !.opened = o])
              /\ \E f \in Figures : sw' = [sw EXCEPT ![s] = Silent!ParkedFinding(f)]
           \/ /\ ~(o > 0) /\ reading' = [state EXCEPT !.opened = Silent!NotParked]
              /\ sw' = [sw EXCEPT ![s] = [sw[s] EXCEPT !.pc = "query", !.state = reading']]
    BY DEF Silent!Circuit, Silent!reports, Silent!ghosts
  <1>3. Silent!Sensible(state) /\ state \in Silent!States /\ (~overlapped => Silent!SameEvidence(state, reading))
    BY <1>1, <1>2 DEF Own, Silent!Sensible
  <1>4. o \in 0 .. Silent!NotParked
    BY <1>3 DEF Silent!Opened, Silent!NotParked, Silent!States, Silent!WatchAssumption
  <1>5. Silent!Sensible(reading') /\ (~overlapped => Silent!SameEvidence(reading', reading))
    <2>1. CASE reading' = reading
      BY <1>1, <2>1 DEF Rows, Silent!SameEvidence
    <2>2. ASSUME NEW e \in 0 .. Silent!NotParked, reading' = [state EXCEPT !.opened = e]
          PROVE  Silent!Sensible(reading') /\ (~overlapped => Silent!SameEvidence(reading', reading))
      <3> HIDE DEF state
      <3>1. /\ reading' \in Silent!States /\ reading'.rows = state.rows /\ reading'.shape = state.shape
            /\ reading'.suspect = state.suspect /\ reading'.kind = state.kind
        BY <2>2, <1>3 DEF Silent!States
      <3> QED BY <3>1, <1>3 DEF Silent!Sensible, Silent!SameEvidence
    <2>3. Silent!NotParked \in 0 .. Silent!NotParked
      BY DEF Silent!NotParked, Silent!WatchAssumption
    <2> HIDE DEF o, state
    <2> QED BY <1>2, <1>4, <2>1, <2>2, <2>3
  <1>6. Rows'
    BY <1>1, <1>2, <1>5, RowsWritten DEF Rows, Silent!SameEvidence, Silent!Counted
  <1>7. Silent!NotParked \in 0 .. Silent!NotParked
    BY DEF Silent!NotParked, Silent!WatchAssumption
  <1>8. ASSUME NEW f \in Figures, sw' = [sw EXCEPT ![s] = Silent!ParkedFinding(f)]
        PROVE  Silent!SweepInv'
    <2> DEFINE x == Silent!ParkedFinding(f)
    <2> DEFINE y == [Silent!NoFinding EXCEPT !.status = "parked", !.kind = "detector_fault", !.figure = f]
    <2>a. y \in Silent!Findings /\ y.kind = "detector_fault" /\ y.figure = f /\ y.status = "parked"
      BY IdleSweep DEF Silent!Findings, Silent!Statuses
    <2>b. y.earned = TRUE
      <3>1. y.earned = Silent!NoFinding.earned
        BY IdleSweep DEF Silent!Findings
      <3> QED BY <3>1 DEF Silent!NoFinding
    <2>c. x = [Silent!Idle EXCEPT !.pc = "release", !.found = y]
      BY DEF Silent!ParkedFinding
    <2> HIDE DEF x, y
    <2>1. x = [pc |-> "release", state |-> Silent!NoState, found |-> y, sent |-> FALSE]
      BY <2>c DEF Silent!Idle
    <2>2. x \in Silent!Sweeps
      BY <2>1, <2>a, IdleSweep DEF Silent!Sweeps, Silent!Sensible
    <2>3. sw' = [sw EXCEPT ![s] = x] /\ sw'[s] = x
      BY <1>1, <1>8 DEF x
    <2>4. Silent!Sensible(sw[s].state)'
      BY <2>1, <2>3, IdleSweep DEF Silent!Sensible, Silent!States
    <2>5. Silent!Sig(s)' \in Silent!Signatures
      BY <2>1, <2>a, <2>3 DEF Silent!Sig, Silent!Signatures
    <2>6. Own(s)'
      BY <2>1, <2>b, <2>3, <2>4, <2>5 DEF Own, Silent!Scanning, Silent!Signatures
    <2> QED BY <1>2, <1>5, <1>6, <2>2, <2>3, <2>6, SweepStep
  <1>9. ASSUME sw' = [sw EXCEPT ![s] = [sw[s] EXCEPT !.pc = "query", !.state = reading']]
        PROVE  Silent!SweepInv'
    <2> DEFINE x == [sw[s] EXCEPT !.pc = "query", !.state = reading']
    <2>1. /\ x \in Silent!Sweeps /\ x.pc = "query" /\ x.state = reading' /\ x.found = sw[s].found
          /\ x.sent = sw[s].sent
      BY <1>1, <1>5 DEF Silent!Sweeps, Silent!Scanning, Silent!Sensible
    <2>2. sw' = [sw EXCEPT ![s] = x]
      BY <1>9
    <2> HIDE DEF x
    <2>3. sw'[s] = x
      BY <1>1, <2>2
    <2>4. Silent!Sensible(sw[s].state)' /\ Silent!SameEvidence(sw[s].state, reading)'
      BY <1>5, <2>1, <2>3 DEF Silent!Sensible, Silent!States, Silent!SameEvidence
    <2>5. Silent!Sig(s)' = Silent!Sig(s) /\ (Silent!Recorded(s)' <=> Silent!Recorded(s))
      BY <2>1, <2>3 DEF Silent!Sig, Silent!Recorded
    <2>6. Own(s)'
      BY <1>1, <1>2, <2>1, <2>3, <2>4, <2>5 DEF Own, Silent!Scanning, Silent!Signatures
    <2> QED BY <1>2, <1>5, <1>6, <2>1, <2>2, <2>6, SweepStep
  <1> QED BY <1>2, <1>5, <1>8, <1>9 DEF Silent!SameEvidence

\* What the judgement of a reading does to the row it was judged against.
LEMMA Judged ==
  ASSUME Silent!WatchAssumption, NEW state, Silent!Sensible(state), NEW r \in Silent!Readings,
         NEW k, k = Silent!Judge(state, r),
         NEW new, new = IF k = "none" THEN Silent!RecordHealthy(state, r)
                        ELSE Silent!RecordSuspect(state, r, k)
  PROVE  /\ k \in Watch \cup {"none"} /\ Silent!Sensible(new) /\ new.kind = k
         /\ new.rows < state.rows => state.rows - new.rows < Drop
         /\ new.shape >= state.shape
         /\ new.suspect = IF k = "none" THEN 0
                          ELSE IF state.kind = k THEN Silent!AtMost(state.suspect + 1, Confirm) ELSE 1
  <1>1. /\ state \in Silent!States /\ r.rows \in Levels \cup {0} /\ r.shape \in 0 .. 2
        /\ Levels \subseteq Nat /\ Drop \in Nat \ {0} /\ Confirm \in Nat \ {0}
        /\ "row_collapse" \notin Watch => r.rows = 0
        /\ "schema_drift" \notin Watch => r.shape = 0
        /\ r.stale => "stale" \in Watch
    <2>1. /\ r.stale \in {"stale" \in Watch, FALSE}
          /\ r.rows \in IF "row_collapse" \in Watch THEN Levels ELSE {0}
          /\ r.shape \in IF "schema_drift" \in Watch THEN 0 .. 2 ELSE {0}
      BY DEF Silent!Readings
    <2>2. /\ state \in Silent!States /\ Levels \subseteq Nat /\ Drop \in Nat \ {0} /\ Confirm \in Nat \ {0}
      BY DEF Silent!Sensible, Silent!WatchAssumption
    <2>3. r.stale => "stale" \in Watch
      BY <2>1, Zenon
    <2>4. r.rows \in Levels \cup {0} /\ ("row_collapse" \notin Watch => r.rows = 0)
      BY <2>1
    <2>5. r.shape \in 0 .. 2 /\ ("schema_drift" \notin Watch => r.shape = 0)
      BY <2>1
    <2> QED BY <2>2, <2>3, <2>4, <2>5
  <1>2. k \in Watch \cup {"none"} /\ Watch \subseteq Silent!Kinds
    BY <1>1 DEF Silent!Judge, Silent!Sensible, Silent!WatchAssumption, Silent!States
  <1>3. k = "none" => ~(r.rows + Drop <= state.rows)
    BY <1>1 DEF Silent!Judge
  <1>4. PICK e \in 0 .. 2 : e = (IF r.shape >= state.shape THEN r.shape ELSE state.shape)
    BY <1>1 DEF Silent!States
  <1>5. e >= state.shape
    BY <1>1, <1>4 DEF Silent!States
  <1> DEFINE seen == Silent!Seen(state, r)
  <1>6. seen = [rows |-> state.rows, shape |-> e, suspect |-> state.suspect, kind |-> state.kind,
                errors |-> 0, opened |-> Silent!NotParked]
    <2>1. seen = [state EXCEPT !.errors = 0, !.opened = Silent!NotParked, !.shape = e]
      BY <1>1, <1>4 DEF Silent!Seen, Silent!States
    <2> HIDE DEF seen
    <2> QED BY <1>1, <2>1 DEF Silent!States
  <1> HIDE DEF seen
  <1>7. /\ 0 \in 0 .. MaxErrors /\ Silent!NotParked \in 0 .. Silent!NotParked /\ 0 \in 0 .. Confirm
        /\ state.rows \in Nat /\ r.rows \in Nat /\ state.rows \in Levels \cup {0}
        /\ state.suspect \in 0 .. Confirm
    <2>1. /\ 0 \in 0 .. MaxErrors /\ Silent!NotParked \in 0 .. Silent!NotParked /\ 0 \in 0 .. Confirm
      BY DEF Silent!NotParked, Silent!WatchAssumption
    <2>2. state.rows \in Levels \cup {0} /\ state.suspect \in 0 .. Confirm
      BY <1>1 DEF Silent!States
    <2>3. \A n \in Levels \cup {0} : n \in Nat
      BY <1>1
    <2>4. state.rows \in Nat /\ r.rows \in Nat
      BY <1>1, <2>2, <2>3, Zenon
    <2> QED BY <2>1, <2>2, <2>4, Zenon
  <1>8. CASE k = "none"
    <2>1. new = [seen EXCEPT !.rows = r.rows, !.suspect = 0, !.kind = "none"]
      BY <1>8 DEF Silent!RecordHealthy, seen
    <2>2. new = [rows |-> r.rows, shape |-> e, suspect |-> 0, kind |-> "none",
                 errors |-> 0, opened |-> Silent!NotParked]
      BY <1>6, <2>1
    <2>3. new \in Silent!States
      BY <1>1, <1>7, <2>2 DEF Silent!States
    <2>4. new.rows < state.rows => state.rows - new.rows < Drop
      BY <1>1, <1>3, <1>7, <1>8, <2>2
    <2> QED BY <1>1, <1>5, <1>8, <2>2, <2>3, <2>4 DEF Silent!Sensible
  <1>9. CASE k # "none"
    <2> DEFINE n == IF state.kind = k THEN Silent!AtMost(state.suspect + 1, Confirm) ELSE 1
    <2>1. n \in 0 .. Confirm /\ n > 0
      BY <1>1, <1>7 DEF Silent!AtMost
    <2>2. new = [seen EXCEPT !.kind = k, !.suspect = n]
      <3>1. new = [seen EXCEPT !.kind = k, !.suspect =
                     IF state.kind = k THEN Silent!AtMost(seen.suspect + 1, Confirm) ELSE 1]
        BY <1>9, <1>6 DEF Silent!RecordSuspect, seen
      <3> QED BY <1>6, <3>1
    <2> HIDE DEF n
    <2>3. new = [rows |-> state.rows, shape |-> e, suspect |-> n, kind |-> k,
                 errors |-> 0, opened |-> Silent!NotParked]
      BY <1>6, <2>2
    <2>4. new \in Silent!States
      BY <1>2, <1>7, <2>1, <2>3 DEF Silent!States
    <2>5. ~(new.rows < state.rows)
      BY <1>7, <2>3
    <2>6. Silent!Sensible(new)
      BY <1>9, <2>1, <2>3, <2>4 DEF Silent!Sensible
    <2>7. /\ new.kind = k /\ new.shape >= state.shape /\ new.suspect = n
      BY <1>5, <2>3
    <2> QED BY <1>2, <1>9, <2>5, <2>6, <2>7 DEF n
  <1> QED BY <1>8, <1>9

\* A judgement is bound to the row it was made against.
LEMMA QueryKeeps ==
  ASSUME Silent!WatchAssumption, Silent!SweepInv, NEW s \in Sweepers, Silent!Query(s)
  PROVE  Silent!SweepInv'
  <1> SUFFICES ASSUME NEW state, state = sw[s].state PROVE Silent!SweepInv'
    OBVIOUS
  <1>1. Rows /\ sw \in [Sweepers -> Silent!Sweeps] /\ \A t \in Sweepers : Own(t)
    BY SweepParts
  <1>2. PICK r \in Silent!Readings : \E k, new :
          /\ k = Silent!Judge(state, r)
          /\ new = IF k = "none" THEN Silent!RecordHealthy(state, r) ELSE Silent!RecordSuspect(state, r, k)
          /\ sw' = [sw EXCEPT ![s] = [sw[s] EXCEPT !.pc = "put", !.state = new,
                      !.found = [Silent!NoFinding EXCEPT
                        !.status = IF k = "none" THEN "healthy"
                                   ELSE IF new.suspect >= Confirm THEN "confirmed" ELSE "suspect",
                        !.kind = k, !.figure = r.figure]]]
    BY DEF Silent!Query
  <1>3. PICK k, new :
          /\ k = Silent!Judge(state, r)
          /\ new = IF k = "none" THEN Silent!RecordHealthy(state, r) ELSE Silent!RecordSuspect(state, r, k)
          /\ sw' = [sw EXCEPT ![s] = [sw[s] EXCEPT !.pc = "put", !.state = new,
                      !.found = [Silent!NoFinding EXCEPT
                        !.status = IF k = "none" THEN "healthy"
                                   ELSE IF new.suspect >= Confirm THEN "confirmed" ELSE "suspect",
                        !.kind = k, !.figure = r.figure]]]
    BY <1>2
  <1>4. sw[s].pc = "query" /\ UNCHANGED <<reading, lease, inc, posted, streak, overlapped, sfaults>>
    BY DEF Silent!Query, Silent!reports, Silent!ghosts
  <1>5. Silent!Sensible(state) /\ (~overlapped => Silent!SameEvidence(state, reading))
    BY <1>1, <1>4 DEF Own
  <1>6. /\ k \in Watch \cup {"none"} /\ Silent!Sensible(new) /\ new.kind = k
        /\ new.rows < state.rows => state.rows - new.rows < Drop
        /\ new.shape >= state.shape
        /\ new.suspect = IF k = "none" THEN 0
                         ELSE IF state.kind = k THEN Silent!AtMost(state.suspect + 1, Confirm) ELSE 1
    BY <1>3, <1>5, Judged
  <1> DEFINE status == IF k = "none" THEN "healthy"
                       ELSE IF new.suspect >= Confirm THEN "confirmed" ELSE "suspect"
             f == [Silent!NoFinding EXCEPT !.status = status, !.kind = k, !.figure = r.figure]
             x == [sw[s] EXCEPT !.pc = "put", !.state = new, !.found = f]
  <1>7. sw' = [sw EXCEPT ![s] = x]
    BY <1>3
  <1>8. /\ status \in {"healthy", "confirmed", "suspect"}
        /\ status = "confirmed" => k # "none" /\ new.suspect >= Confirm
    OBVIOUS
  <1> HIDE DEF status
  <1>9. /\ r.figure \in Figures /\ k \in Silent!Kinds \cup {"none", "detector_fault"}
    BY <1>6 DEF Silent!Readings, Silent!WatchAssumption
  <1>10. /\ f \in Silent!Findings /\ f.status = status /\ f.kind = k /\ f.figure = r.figure
         /\ f.earned = Silent!NoFinding.earned
    BY <1>8, <1>9, IdleSweep DEF Silent!Findings, Silent!Statuses
  <1>11. f.earned = TRUE
    BY <1>10 DEF Silent!NoFinding
  <1> HIDE DEF f
  <1>12. x \in Silent!Sweeps /\ x.pc = "put" /\ x.state = new /\ x.found = f /\ x.sent = sw[s].sent
    BY <1>1, <1>6, <1>10 DEF Silent!Sweeps, Silent!Scanning, Silent!Sensible
  <1> HIDE DEF x
  <1>13. sw'[s] = x
    BY <1>1, <1>7
  <1>14. Rows'
    BY <1>1, <1>4, RowsKept DEF Rows
  <1>15. Silent!Recorded(s)' => Silent!Sig(s)' \in Silent!Signatures
    <2>1. Silent!Recorded(s)' => k \in Watch
      BY <1>6, <1>8, <1>10, <1>12, <1>13 DEF Silent!Recorded, status
    <2> QED BY <2>1, <1>9, <1>10, <1>12, <1>13 DEF Silent!Sig, Silent!Signatures
  <1>16. Silent!Sensible(sw[s].state)'
    BY <1>6, <1>12, <1>13 DEF Silent!Sensible, Silent!States
  <1>17. ~overlapped => Silent!Follows(s)'
    <2>1. SUFFICES ASSUME ~overlapped PROVE Silent!Follows(s)'
      OBVIOUS
    <2>2. /\ reading.rows = state.rows /\ reading.shape = state.shape
          /\ reading.suspect = state.suspect /\ reading.kind = state.kind
      BY <1>5, <2>1 DEF Silent!SameEvidence
    <2>3. f.status # "detector_fault"
      BY <1>8, <1>10
    <2>4. f.status = "confirmed" => new.suspect >= Confirm
      BY <1>8, <1>10
    <2> QED BY <2>2, <2>3, <2>4, <1>4, <1>6, <1>10, <1>12, <1>13 DEF Silent!Follows
  <1>18. Own(s)'
    BY <1>1, <1>4, <1>11, <1>12, <1>13, <1>15, <1>16, <1>17 DEF Own, Silent!Scanning, Silent!Signatures
  <1> QED BY <1>4, <1>7, <1>12, <1>14, <1>18, SweepStep DEF Silent!SameEvidence

LEMMA QueryFailsKeeps ==
  ASSUME Silent!WatchAssumption, Silent!SweepInv, NEW s \in Sweepers, Silent!QueryFails(s)
  PROVE  Silent!SweepInv'
  <1> DEFINE n == Silent!AtMost(sw[s].state.errors + 1, MaxErrors)
             f == [Silent!NoFinding EXCEPT !.status = "detector_fault", !.kind = "detector_fault"]
             state == [sw[s].state EXCEPT !.errors = n]
             x == [sw[s] EXCEPT !.pc = "put", !.state = state, !.found = f]
  <1>1. Rows /\ sw \in [Sweepers -> Silent!Sweeps] /\ \A t \in Sweepers : Own(t)
    BY SweepParts
  <1>2. /\ sw[s].pc = "query" /\ sw' = [sw EXCEPT ![s] = x]
        /\ UNCHANGED <<reading, lease, inc, posted, streak, overlapped, sfaults>>
    BY <1>1 DEF Silent!QueryFails, Silent!reports, Silent!ghosts, Silent!Sweeps
  <1>3. /\ Silent!Sensible(sw[s].state) /\ sw[s].state \in Silent!States
        /\ (~overlapped => Silent!SameEvidence(sw[s].state, reading))
    BY <1>1, <1>2 DEF Own, Silent!Sensible
  <1>4. n \in 0 .. MaxErrors
    BY <1>3 DEF Silent!AtMost, Silent!States, Silent!WatchAssumption
  <1> HIDE DEF n
  <1>5. /\ state \in Silent!States /\ state.rows = sw[s].state.rows /\ state.shape = sw[s].state.shape
        /\ state.suspect = sw[s].state.suspect /\ state.kind = sw[s].state.kind
    BY <1>3, <1>4 DEF Silent!States
  <1> HIDE DEF state
  <1>6. f \in Silent!Findings /\ f.status = "detector_fault" /\ f.earned = Silent!NoFinding.earned
    BY IdleSweep DEF Silent!Findings, Silent!Statuses
  <1>7. f.earned = TRUE
    BY <1>6 DEF Silent!NoFinding
  <1> HIDE DEF f
  <1>8. x \in Silent!Sweeps /\ x.pc = "put" /\ x.state = state /\ x.found = f /\ x.sent = sw[s].sent
    BY <1>1, <1>5, <1>6 DEF Silent!Sweeps, Silent!Scanning
  <1> HIDE DEF x
  <1>9. sw'[s] = x
    BY <1>1, <1>2
  <1>10. Rows'
    BY <1>1, <1>2, RowsKept DEF Rows
  <1>11. ~Silent!Recorded(s)'
    BY <1>6, <1>8, <1>9 DEF Silent!Recorded
  <1>12. Silent!Sensible(sw[s].state)'
    BY <1>3, <1>5, <1>8, <1>9 DEF Silent!Sensible, Silent!States
  <1>13. ~overlapped => Silent!Follows(s)'
    BY <1>2, <1>3, <1>5, <1>6, <1>8, <1>9 DEF Silent!Follows, Silent!SameEvidence
  <1>14. Own(s)'
    BY <1>1, <1>2, <1>7, <1>8, <1>9, <1>11, <1>12, <1>13 DEF Own, Silent!Scanning, Silent!Signatures
  <1> QED BY <1>2, <1>8, <1>10, <1>14, SweepStep DEF Silent!SameEvidence

\* The row that a lone sweep is about to write has readings for its suspicions.
LEMMA WrittenRow ==
  ASSUME Silent!WatchAssumption, Silent!SweepInv, NEW s \in Sweepers, sw[s].pc = "put",
         NEW n, n = IF sw[s].found.status = "detector_fault" THEN streak
                    ELSE Silent!Longer(sw[s].found.kind)
  PROVE  /\ n \in Silent!Streaks
         /\ ~overlapped =>
              /\ sw[s].state.suspect > 0 => n.kind = sw[s].state.kind /\ n.n >= sw[s].state.suspect
              /\ sw[s].found.status = "confirmed" => n.n >= Confirm
              /\ sw[s].state.rows < reading.rows => reading.rows - sw[s].state.rows < Drop
              /\ sw[s].state.shape >= reading.shape
  <1> SUFFICES ASSUME NEW state, state = sw[s].state, NEW f, f = sw[s].found
               PROVE /\ n \in Silent!Streaks
                     /\ ~overlapped =>
                          /\ state.suspect > 0 => n.kind = state.kind /\ n.n >= state.suspect
                          /\ f.status = "confirmed" => n.n >= Confirm
                          /\ state.rows < reading.rows => reading.rows - state.rows < Drop
                          /\ state.shape >= reading.shape
    OBVIOUS
  <1>1. Rows /\ sw \in [Sweepers -> Silent!Sweeps] /\ Own(s)
    BY SweepParts
  <1>2. /\ streak.kind \in Silent!Kinds \cup {"none", "accepted", "detector_fault"} /\ streak.n \in 0 .. Confirm
        /\ streak = [kind |-> streak.kind, n |-> streak.n] /\ Confirm \in Nat \ {0}
    BY <1>1 DEF Rows, Silent!Streaks, Silent!WatchAssumption
  <1>3. /\ state \in Silent!States /\ f \in Silent!Findings /\ reading \in Silent!States
        /\ state.suspect > 0 <=> state.kind # "none"
        /\ reading.suspect > 0 <=> reading.kind # "none"
    BY <1>1 DEF Silent!Sweeps, Own, Silent!Sensible, Rows
  <1>4. /\ state.suspect \in 0 .. Confirm /\ reading.suspect \in 0 .. Confirm
        /\ state.shape \in 0 .. 2 /\ reading.shape \in 0 .. 2
    BY <1>3 DEF Silent!States
  <1>5. ~overlapped => (reading.suspect > 0 => streak.kind = reading.kind /\ streak.n >= reading.suspect)
    BY <1>1 DEF Rows, Silent!Counted
  <1>6. CASE f.status = "detector_fault"
    <2>1. n = streak
      BY <1>6
    <2>2. ~overlapped => Silent!SameEvidence(state, reading)
      BY <1>1, <1>6 DEF Own, Silent!Follows
    <2>3. n \in Silent!Streaks
      BY <2>1, <1>1 DEF Rows
    <2>4. ~overlapped =>
            /\ state.rows = reading.rows /\ state.shape = reading.shape
            /\ state.suspect = reading.suspect /\ state.kind = reading.kind
      BY <2>2 DEF Silent!SameEvidence
    <2>5. ~(reading.rows < reading.rows)
      <3>1. \A l \in Levels \cup {0} : ~(l < l)
        BY DEF Silent!WatchAssumption
      <3>2. reading.rows \in Levels \cup {0}
        BY <1>3 DEF Silent!States
      <3> QED BY <3>1, <3>2, Zenon
    <2> QED BY <1>4, <1>5, <1>6, <2>1, <2>3, <2>4, <2>5
  <1>7. CASE f.status # "detector_fault"
    <2> DEFINE m == IF f.kind = "none" THEN 0
                    ELSE IF f.kind = streak.kind THEN Silent!AtMost(streak.n + 1, Confirm) ELSE 1
    <2>1. n = [kind |-> f.kind, n |-> m]
      BY <1>7 DEF Silent!Longer
    <2>2. m \in 0 .. Confirm
      BY <1>2 DEF Silent!AtMost
    <2>3. n \in Silent!Streaks
      <3> HIDE DEF m
      <3> QED BY <1>3, <2>1, <2>2 DEF Silent!Streaks, Silent!Findings
    <2>4. ASSUME ~overlapped
          PROVE  /\ state.suspect > 0 => n.kind = state.kind /\ n.n >= state.suspect
                 /\ f.status = "confirmed" => n.n >= Confirm
                 /\ state.rows < reading.rows => reading.rows - state.rows < Drop
                 /\ state.shape >= reading.shape
      <3>1. /\ f.kind = state.kind
            /\ state.rows < reading.rows => reading.rows - state.rows < Drop
            /\ state.shape >= reading.shape
            /\ state.suspect = IF state.kind = "none" THEN 0
                               ELSE IF reading.kind = state.kind
                                    THEN Silent!AtMost(reading.suspect + 1, Confirm) ELSE 1
            /\ f.status = "confirmed" => state.suspect >= Confirm
        BY <1>1, <1>7, <2>4 DEF Own, Silent!Follows
      <3>2. state.kind # "none" => m >= state.suspect
        <4> SUFFICES ASSUME state.kind # "none" PROVE m >= state.suspect
          OBVIOUS
        <4>1. CASE reading.kind = state.kind
          <5>1. reading.suspect > 0 /\ streak.kind = reading.kind /\ streak.n >= reading.suspect
            BY <4>1, <1>3, <1>5, <2>4
          <5> QED BY <4>1, <5>1, <3>1, <1>2, <1>4 DEF Silent!AtMost
        <4>2. CASE reading.kind # state.kind
          BY <4>2, <3>1, <1>2 DEF Silent!AtMost
        <4> QED BY <4>1, <4>2
      <3>3. n.kind = f.kind /\ n.n = m
        BY <2>1
      <3> HIDE DEF m
      <3>4. f.status = "confirmed" => state.kind # "none"
        BY <1>2, <1>3, <1>4, <3>1
      <3> QED BY <1>2, <1>3, <1>4, <2>2, <3>1, <3>2, <3>3, <3>4
    <2> QED BY <2>3, <2>4
  <1> QED BY <1>6, <1>7

LEMMA PutKeeps ==
  ASSUME Silent!WatchAssumption, Silent!SweepInv, NEW s \in Sweepers, Silent!PutState(s)
  PROVE  /\ Silent!SweepInv'
         /\ ~overlapped =>
              /\ reading'.rows < reading.rows => reading.rows - reading'.rows < Drop
              /\ reading'.shape >= reading.shape
  <1> SUFFICES ASSUME NEW f, f = sw[s].found,
                      NEW n, n = IF f.status = "detector_fault" THEN streak ELSE Silent!Longer(f.kind)
               PROVE  /\ Silent!SweepInv'
                      /\ ~overlapped =>
                           /\ reading'.rows < reading.rows => reading.rows - reading'.rows < Drop
                           /\ reading'.shape >= reading.shape
    OBVIOUS
  <1> DEFINE e == (f.status = "confirmed" => n.n >= Confirm \/ overlapped)
             g == [f EXCEPT !.earned = e]
             x == [sw[s] EXCEPT !.pc = "release", !.state = Silent!NoState, !.found = g]
  <1>1. Rows /\ sw \in [Sweepers -> Silent!Sweeps] /\ \A t \in Sweepers : Own(t)
    BY SweepParts
  <1>2. /\ sw[s].pc = "put" /\ reading' = sw[s].state /\ streak' = n /\ sw' = [sw EXCEPT ![s] = x]
        /\ UNCHANGED <<lease, inc, posted, overlapped, sfaults>>
    BY DEF Silent!PutState, Silent!reports
  <1>3. /\ n \in Silent!Streaks
        /\ ~overlapped =>
             /\ sw[s].state.suspect > 0 => n.kind = sw[s].state.kind /\ n.n >= sw[s].state.suspect
             /\ f.status = "confirmed" => n.n >= Confirm
             /\ sw[s].state.rows < reading.rows => reading.rows - sw[s].state.rows < Drop
             /\ sw[s].state.shape >= reading.shape
    BY <1>2, WrittenRow
  <1>4. e = TRUE
    BY <1>1, <1>3 DEF Rows
  <1>5. Silent!Sensible(reading')
    BY <1>1, <1>2 DEF Own
  <1>6. Rows'
    BY <1>1, <1>2, <1>3, <1>5, RowsWritten DEF Rows
  <1> HIDE DEF e
  <1>7. /\ g \in Silent!Findings /\ g.earned /\ g.status = f.status /\ g.kind = f.kind /\ g.figure = f.figure
    BY <1>1, <1>4 DEF Silent!Sweeps, Silent!Findings
  <1> HIDE DEF g
  <1>8. /\ x \in Silent!Sweeps /\ x.pc = "release" /\ x.state = Silent!NoState /\ x.found = g
        /\ x.sent = sw[s].sent
    BY <1>1, <1>7, IdleSweep DEF Silent!Sweeps, Silent!Scanning, Silent!Sensible
  <1> HIDE DEF x
  <1>9. sw'[s] = x
    BY <1>1, <1>2
  <1>10. Silent!Sig(s)' = Silent!Sig(s) /\ (Silent!Recorded(s)' <=> Silent!Recorded(s))
    BY <1>7, <1>8, <1>9 DEF Silent!Sig, Silent!Recorded
  <1>11. Silent!Sensible(sw[s].state)'
    BY <1>8, <1>9, IdleSweep DEF Silent!Sensible, Silent!States
  <1>12. Own(s)'
    BY <1>1, <1>2, <1>7, <1>8, <1>9, <1>10, <1>11 DEF Own, Silent!Scanning, Silent!Signatures
  <1>13. \A t \in Sweepers : t # s /\ sw[t].pc \in Silent!Scanning => overlapped
    BY <1>1, <1>2 DEF Own, Silent!WatchAssumption, Silent!Scanning
  <1>14. Silent!SweepInv'
    BY <1>2, <1>6, <1>8, <1>12, <1>13, SweepStep
  <1> QED BY <1>2, <1>3, <1>14

LEMMA PutUnconfirmedKeeps ==
  ASSUME Silent!WatchAssumption, Silent!SweepInv, NEW s \in Sweepers, Silent!PutUnconfirmed(s)
  PROVE  /\ Silent!SweepInv'
         /\ ~overlapped =>
              \/ reading' = reading
              \/ /\ reading'.rows < reading.rows => reading.rows - reading'.rows < Drop
                 /\ reading'.shape >= reading.shape
  <1> DEFINE n == IF sw[s].found.status = "detector_fault" THEN streak
                  ELSE Silent!Longer(sw[s].found.kind)
             x == [Silent!Idle EXCEPT !.pc = "release"]
  <1>1. Rows /\ sw \in [Sweepers -> Silent!Sweeps] /\ \A t \in Sweepers : Own(t)
    BY SweepParts
  <1>2. /\ sw[s].pc = "put" /\ sw' = [sw EXCEPT ![s] = x]
        /\ \/ reading' = reading /\ streak' = streak
           \/ reading' = sw[s].state /\ streak' = n
        /\ Silent!Fault /\ UNCHANGED <<lease, inc, posted, overlapped>>
    BY DEF Silent!PutUnconfirmed, Silent!reports
  <1>3. /\ n \in Silent!Streaks
        /\ ~overlapped =>
             /\ sw[s].state.suspect > 0 => n.kind = sw[s].state.kind /\ n.n >= sw[s].state.suspect
             /\ sw[s].state.rows < reading.rows => reading.rows - sw[s].state.rows < Drop
             /\ sw[s].state.shape >= reading.shape
    BY <1>2, WrittenRow
  <1> HIDE DEF n
  <1>4. sfaults' \in 0 .. MaxFaults
    BY <1>1, <1>2, FaultKeeps DEF Rows
  <1>5. Rows'
    <2>1. CASE reading' = reading /\ streak' = streak
      BY <1>1, <1>2, <1>4, <2>1, RowsKept DEF Rows
    <2>2. CASE reading' = sw[s].state /\ streak' = n
      <3>1. Silent!Sensible(reading')
        BY <1>1, <2>2 DEF Own
      <3> QED BY <1>1, <1>2, <1>3, <1>4, <2>2, <3>1, RowsWritten
    <2> QED BY <1>2, <2>1, <2>2
  <1>6. x \in Silent!Sweeps /\ Own(s)'
    BY <1>1, <1>2, StoppedOwn
  <1> HIDE DEF x
  <1>7. \A t \in Sweepers : t # s /\ sw[t].pc \in Silent!Scanning => overlapped
    BY <1>1, <1>2 DEF Own, Silent!WatchAssumption, Silent!Scanning
  <1>8. Silent!SweepInv'
    BY <1>2, <1>5, <1>6, <1>7, SweepStep
  <1> QED BY <1>2, <1>3, <1>8

\* The operator or the clock steps while the sweeps stand still.
LEMMA AroundSweeps ==
  ASSUME Silent!WatchAssumption, Silent!SweepInv, UNCHANGED <<sw, inc, posted>>,
         overlapped' = overlapped \/ overlapped' = TRUE,
         \A t \in Sweepers : sw[t].pc \in Silent!Scanning /\ ~overlapped' =>
           /\ lease'.owner = lease.owner /\ lease'.left > 0
           /\ Silent!SameEvidence(reading', reading),
         Rows'
  PROVE  Silent!SweepInv'
  <1>1. Rows /\ sw \in [Sweepers -> Silent!Sweeps] /\ \A t \in Sweepers : Own(t)
    BY SweepParts
  <1>2. ASSUME NEW t \in Sweepers PROVE Own(t)'
    <2>1. sw'[t] = sw[t] /\ Own(t) /\ overlapped \in BOOLEAN
      BY <1>1 DEF Rows
    <2>2. Silent!Sig(t)' = Silent!Sig(t) /\ (Silent!Recorded(t)' <=> Silent!Recorded(t))
      BY <2>1 DEF Silent!Sig, Silent!Recorded
    <2>3. sw[t].pc = "put" /\ ~overlapped' => Silent!Follows(t)'
      BY <2>1 DEF Own, Silent!Follows, Silent!SameEvidence, Silent!Scanning
    <2>4. sw[t].pc \in {"circuit", "query"} /\ ~overlapped' => Silent!SameEvidence(sw[t].state, reading')
      BY <2>1 DEF Own, Silent!SameEvidence, Silent!Scanning
    <2>5. sw[t].pc \in Silent!Scanning /\ ~overlapped' => lease'.owner = OwnerOf[t] /\ lease'.left > 0
      BY <2>1 DEF Own
    <2>6. Silent!Sensible(sw[t].state)'
      BY <2>1 DEF Own, Silent!Sensible, Silent!States
    <2> QED BY <2>1, <2>2, <2>3, <2>4, <2>5, <2>6 DEF Own, Silent!Signatures, Silent!Sensible, Silent!SameEvidence
  <1> QED BY <1>1, <1>2, SweepWhole

LEMMA OverlapFacts ==
  ASSUME Silent!WatchAssumption, Rows, NEW b \in BOOLEAN, Silent!Overlap(b)
  PROVE  /\ sfaults' \in 0 .. MaxFaults /\ overlapped' \in BOOLEAN
         /\ overlapped' = overlapped \/ overlapped' = TRUE
         /\ b => overlapped' = TRUE
         /\ ~overlapped' => ~overlapped
  <1>1. overlapped \in BOOLEAN /\ sfaults \in 0 .. MaxFaults
    BY DEF Rows
  <1>2. CASE b
    <2>1. Silent!Fault /\ overlapped' = TRUE
      BY <1>2 DEF Silent!Overlap
    <2>2. sfaults' \in 0 .. MaxFaults
      BY <1>1, <2>1, FaultKeeps
    <2> QED BY <2>1, <2>2, Zenon
  <1>3. CASE ~b
    <2>1. overlapped' = overlapped /\ sfaults' = sfaults
      BY <1>3 DEF Silent!Overlap
    <2> QED BY <1>1, <1>3, <2>1, Zenon
  <1> QED BY <1>2, <1>3

LEMMA AcceptKeeps ==
  ASSUME Silent!WatchAssumption, Silent!SweepInv, Silent!Accept
  PROVE  Silent!SweepInv' /\ reading'.rows = reading.rows /\ reading'.shape = 0
  <1> DEFINE b == \E s \in Sweepers : sw[s].pc \in Silent!Scanning
  <1>1. Rows
    BY SweepParts
  <1>2. /\ reading' = [reading EXCEPT !.suspect = 0, !.kind = "none", !.shape = 0]
        /\ streak' = [kind |-> "accepted", n |-> 0] /\ Silent!Overlap(b)
        /\ UNCHANGED <<lease, sw, inc, posted>>
    BY DEF Silent!Accept, Silent!reports
  <1>3. b \in BOOLEAN
    OBVIOUS
  <1>4. /\ sfaults' \in 0 .. MaxFaults /\ overlapped' \in BOOLEAN
        /\ overlapped' = overlapped \/ overlapped' = TRUE
        /\ b => overlapped' = TRUE
    BY <1>1, <1>2, <1>3, OverlapFacts
  <1>5. /\ reading' \in Silent!States /\ reading'.rows = reading.rows /\ reading'.suspect = 0
        /\ reading'.kind = "none" /\ reading'.shape = 0
    <2>1. reading \in Silent!States /\ 0 \in 0 .. Confirm /\ 0 \in 0 .. 2
      BY <1>1 DEF Rows, Silent!Sensible, Silent!WatchAssumption
    <2> QED BY <1>2, <2>1 DEF Silent!States
  <1>6. Silent!Sensible(reading')
    BY <1>1, <1>5 DEF Silent!Sensible, Rows
  <1>7. streak' \in Silent!Streaks
    BY <1>2 DEF Silent!Streaks, Silent!WatchAssumption
  <1>8. Rows'
    BY <1>1, <1>2, <1>4, <1>5, <1>6, <1>7 DEF Rows, Silent!Sensible, Silent!States, Silent!Counted,
      Silent!Leases, Silent!Streaks, Silent!Signatures, Silent!Kinds, Silent!NotParked
  <1>9. \A t \in Sweepers : sw[t].pc \in Silent!Scanning => overlapped' = TRUE
    BY <1>4
  <1> QED BY <1>2, <1>4, <1>5, <1>8, <1>9, AroundSweeps

LEMMA LeaseTickKeeps ==
  ASSUME Silent!WatchAssumption, Silent!SweepInv, Silent!LeaseTick
  PROVE  Silent!SweepInv'
  <1> DEFINE b == lease.left = 1 /\ \E s \in Sweepers : sw[s].pc \in Silent!Scanning
  <1>1. Rows
    BY SweepParts
  <1>2. /\ lease.left > 0 /\ lease' = [lease EXCEPT !.left = lease.left - 1] /\ Silent!Overlap(b)
        /\ UNCHANGED <<reading, sw, inc, posted, streak>>
    BY DEF Silent!LeaseTick, Silent!reports
  <1>3. b \in BOOLEAN
    OBVIOUS
  <1>4. /\ sfaults' \in 0 .. MaxFaults /\ overlapped' \in BOOLEAN
        /\ overlapped' = overlapped \/ overlapped' = TRUE
        /\ b => overlapped' = TRUE
        /\ ~overlapped' => ~overlapped
    BY <1>1, <1>2, <1>3, OverlapFacts
  <1>5. lease' \in Silent!Leases /\ lease'.owner = lease.owner
        /\ lease'.left = lease.left - 1 /\ lease.left \in Nat
    BY <1>1, <1>2 DEF Rows, Silent!Leases, Silent!WatchAssumption
  <1>6. Rows'
    BY <1>1, <1>2, <1>4, <1>5 DEF Rows, Silent!Sensible, Silent!States, Silent!Counted,
      Silent!Leases, Silent!Streaks, Silent!Signatures, Silent!Kinds, Silent!NotParked
  <1>7. ASSUME NEW t \in Sweepers, sw[t].pc \in Silent!Scanning, ~overlapped' PROVE lease'.left > 0
    BY <1>2, <1>4, <1>5, <1>7
  <1> QED BY <1>2, <1>4, <1>5, <1>6, <1>7, AroundSweeps DEF Silent!SameEvidence

LEMMA CooldownTickKeeps ==
  ASSUME Silent!WatchAssumption, Silent!SweepInv, Silent!CooldownTick
  PROVE  Silent!SweepInv' /\ reading'.rows = reading.rows /\ reading'.shape = reading.shape
  <1>1. Rows /\ sw \in [Sweepers -> Silent!Sweeps] /\ \A t \in Sweepers : Own(t)
    BY SweepParts
  <1>2. /\ reading.opened \in 1 .. Cooldown /\ reading' = [reading EXCEPT !.opened = reading.opened - 1]
        /\ UNCHANGED <<lease, sw, inc, posted, streak, overlapped, sfaults>>
    BY DEF Silent!CooldownTick, Silent!reports, Silent!ghosts
  <1>3. reading.opened - 1 \in 0 .. Silent!NotParked /\ reading \in Silent!States
    BY <1>1, <1>2 DEF Silent!NotParked, Silent!WatchAssumption, Rows, Silent!Sensible
  <1>4. PICK o \in 0 .. Silent!NotParked : reading' = [reading EXCEPT !.opened = o]
    BY <1>2, <1>3
  <1>5. /\ reading' \in Silent!States /\ reading'.rows = reading.rows /\ reading'.shape = reading.shape
        /\ reading'.suspect = reading.suspect /\ reading'.kind = reading.kind
    BY <1>3, <1>4 DEF Silent!States
  <1>6. Silent!Sensible(reading')
    BY <1>1, <1>5 DEF Rows, Silent!Sensible
  <1>7. Rows'
    BY <1>1, <1>2, <1>5, <1>6, RowsWritten DEF Rows, Silent!Counted
  <1>8. \A t \in Sweepers : sw[t].pc \in Silent!Scanning /\ ~overlapped => lease.left > 0
    BY <1>1 DEF Own
  <1> QED BY <1>2, <1>5, <1>7, <1>8, AroundSweeps DEF Silent!SameEvidence

-----------------------------------------------------------------------------
(* Silent sweeps: the theorems. *)

LEMMA SilentInitial ==
  ASSUME Silent!WatchAssumption, Silent!Init
  PROVE  Silent!SweepInv
  <1>1. /\ reading = Silent!NoState /\ lease = [owner |-> Nobody, left |-> 0]
        /\ sw = [s \in Sweepers |-> Silent!Idle] /\ posted = {}
        /\ inc = [g \in Silent!Signatures |-> [open |-> FALSE, notified |-> FALSE]]
        /\ streak = [kind |-> "none", n |-> 0] /\ overlapped = FALSE /\ sfaults = 0
    BY DEF Silent!Init
  <1>2. /\ lease \in Silent!Leases /\ streak \in Silent!Streaks /\ sfaults \in 0 .. MaxFaults
    BY <1>1 DEF Silent!Leases, Silent!Streaks, Silent!WatchAssumption
  <1>3. inc \in [Silent!Signatures -> [open: BOOLEAN, notified: BOOLEAN]]
    BY <1>1
  <1>4. sw \in [Sweepers -> Silent!Sweeps] /\ \A s \in Sweepers : sw[s] = Silent!Idle
    BY <1>1, IdleSweep
  <1>5. /\ Silent!Idle.pc = "idle" /\ Silent!Idle.state = Silent!NoState
        /\ Silent!Idle.found = Silent!NoFinding /\ Silent!Idle.sent = FALSE
        /\ Silent!NoFinding.status = "none" /\ Silent!NoFinding.earned = TRUE
    BY DEF Silent!Idle, Silent!NoFinding
  <1>6. Silent!Sensible(reading) /\ reading \in Silent!States /\ ~(reading.suspect > 0)
    BY <1>1, IdleSweep DEF Silent!Sensible, Silent!NoState
  <1>7. Silent!TypeOK
    BY <1>1, <1>2, <1>3, <1>4, <1>6 DEF Silent!TypeOK
  <1>8. Silent!OneSweepAtATime /\ Silent!ConfirmedEarned /\ Silent!QuietWasAnnounced
    BY <1>4, <1>5 DEF Silent!OneSweepAtATime, Silent!ConfirmedEarned, Silent!QuietWasAnnounced, Silent!Scanning
  <1>9. Silent!RowsSensible /\ Silent!LeaseHeld /\ Silent!Current
    BY <1>4, <1>5, <1>6, IdleSweep
      DEF Silent!RowsSensible, Silent!LeaseHeld, Silent!Current, Silent!Scanning
  <1>10. Silent!Reported /\ Silent!Counted /\ Silent!Delivered
    BY <1>1, <1>4, <1>5, <1>6 DEF Silent!Reported, Silent!Recorded, Silent!Counted, Silent!Delivered
  <1> QED BY <1>7, <1>8, <1>9, <1>10 DEF Silent!SweepInv, Silent!FindingsEarned

\* What a step may do to what the detector has learned.
LearnsSoundly ==
  /\ reading'.rows < reading.rows => reading.rows - reading'.rows < Drop \/ overlapped
  /\ reading'.shape < reading.shape => reading'.shape = 0 \/ overlapped

LEMMA SilentKeeps ==
  ASSUME Silent!WatchAssumption, Silent!SweepInv, [Silent!Next]_(Silent!vars)
  PROVE  Silent!SweepInv' /\ LearnsSoundly
  <1>1. Rows
    BY SweepParts
  <1>2. /\ ~(reading.rows < reading.rows)
        /\ reading.shape \in Nat
    <2>1. \A l \in Levels \cup {0} : ~(l < l)
      BY DEF Silent!WatchAssumption
    <2>2. reading.rows \in Levels \cup {0} /\ reading.shape \in Nat
      BY <1>1 DEF Rows, Silent!Sensible, Silent!States
    <2> QED BY <2>1, <2>2, Zenon
  <1>3. reading' = reading => LearnsSoundly
    BY <1>2 DEF LearnsSoundly
  <1>4. ASSUME NEW s \in Sweepers, Silent!Step(s) \/ Silent!Crash(s)
        PROVE  Silent!SweepInv' /\ LearnsSoundly
    <2>1. CASE Silent!Acquire(s)
      BY <2>1, <1>3, AcquireKeeps DEF Silent!Acquire
    <2>2. CASE Silent!Release(s)
      BY <2>2, <1>3, ReleaseKeeps DEF Silent!Release
    <2>3. CASE Silent!GetState(s)
      BY <2>3, <1>3, GetStateKeeps DEF Silent!GetState
    <2>4. CASE Silent!Circuit(s)
      BY <2>4, <1>2, CircuitKeeps DEF LearnsSoundly
    <2>5. CASE Silent!Query(s)
      BY <2>5, <1>3, QueryKeeps DEF Silent!Query
    <2>6. CASE Silent!QueryFails(s)
      BY <2>6, <1>3, QueryFailsKeeps DEF Silent!QueryFails
    <2>7. CASE Silent!PutState(s)
      <3>1. /\ Silent!SweepInv'
            /\ ~overlapped =>
                 /\ reading'.rows < reading.rows => reading.rows - reading'.rows < Drop
                 /\ reading'.shape >= reading.shape
        BY <2>7, PutKeeps
      <3>2. reading'.shape \in Nat
        BY <3>1 DEF Silent!SweepInv, Silent!FindingsEarned, Silent!TypeOK, Silent!States
      <3> QED BY <1>2, <3>1, <3>2 DEF LearnsSoundly
    <2>8. CASE Silent!PutUnconfirmed(s)
      <3>1. /\ Silent!SweepInv'
            /\ ~overlapped =>
                 \/ reading' = reading
                 \/ /\ reading'.rows < reading.rows => reading.rows - reading'.rows < Drop
                    /\ reading'.shape >= reading.shape
        BY <2>8, PutUnconfirmedKeeps
      <3>2. reading'.shape \in Nat
        BY <3>1 DEF Silent!SweepInv, Silent!FindingsEarned, Silent!TypeOK, Silent!States
      <3> QED BY <1>2, <1>3, <3>1, <3>2 DEF LearnsSoundly
    <2>9. CASE Silent!Report(s)
      BY <2>9, <1>3, ReportKeeps DEF Silent!Report
    <2>10. CASE Silent!Post(s)
      BY <2>10, <1>3, PostKeeps DEF Silent!Post
    <2>11. CASE Silent!Record(s)
      BY <2>11, <1>3, RecordKeeps DEF Silent!Record
    <2>12. CASE Silent!Crash(s)
      BY <2>12, <1>3, SweepCrashKeeps DEF Silent!Crash
    <2> QED BY <1>4, <2>1, <2>2, <2>3, <2>4, <2>5, <2>6, <2>7, <2>8, <2>9, <2>10, <2>11, <2>12
      DEF Silent!Step
  <1>5. CASE Silent!Accept
    BY <1>2, <1>5, AcceptKeeps DEF LearnsSoundly
  <1>6. CASE Silent!LeaseTick
    BY <1>3, <1>6, LeaseTickKeeps DEF Silent!LeaseTick
  <1>7. CASE Silent!CooldownTick
    BY <1>2, <1>7, CooldownTickKeeps DEF LearnsSoundly
  <1>8. CASE UNCHANGED Silent!vars
    <2>1. UNCHANGED <<reading, lease, sw, inc, posted, streak, overlapped, sfaults>>
      BY <1>8 DEF Silent!vars
    <2>2. Rows'
      BY <1>1, <2>1, RowsKept DEF Rows
    <2>3. \A t \in Sweepers : sw[t].pc \in Silent!Scanning /\ ~overlapped => lease.left > 0
      BY SweepParts DEF Own
    <2> QED BY <1>3, <2>1, <2>2, <2>3, AroundSweeps DEF Silent!SameEvidence
  <1> QED BY <1>4, <1>5, <1>6, <1>7, <1>8 DEF Silent!Next

\* The inductive invariant of the silent sweeps.
THEOREM SweepsInvariant == Silent!Spec => []Silent!SweepInv
  <1>1. Silent!Init => Silent!SweepInv
    BY SilentInitial, SweepAssumption
  <1>2. Silent!SweepInv /\ [Silent!Next]_(Silent!vars) => Silent!SweepInv'
    BY SilentKeeps, SweepAssumption
  <1> QED BY <1>1, <1>2, PTL DEF Silent!Spec

\* Silent sweeps do not scan together unless one outlived its lease, a finding
\* is confirmed by readings of its kind in a row, and one that is kept quiet
\* was announced.
THEOREM FindingsAreEarned == Silent!Spec => []FindingsEarned
  <1>1. Silent!SweepInv => FindingsEarned
    BY DEF Silent!SweepInv, FindingsEarned
  <1> QED BY <1>1, SweepsInvariant, PTL

\* The detector never learns a collapse.
THEOREM CollapsesAreNotLearned == Silent!Spec => CollapseNotLearned
  <1>1. Silent!SweepInv /\ [Silent!Next]_(Silent!vars) =>
          [/\ reading'.rows < reading.rows => reading.rows - reading'.rows < Drop \/ overlapped
           /\ reading'.shape < reading.shape => reading'.shape = 0 \/ overlapped]_(Silent!vars)
    BY SilentKeeps, SweepAssumption DEF LearnsSoundly
  <1> QED BY <1>1, SweepsInvariant, PTL DEF Silent!Spec, CollapseNotLearned, Silent!CollapseNotLearned
=============================================================================
