------------------------- MODULE CommandQueueProofs -------------------------
(***************************************************************************)
(* What the drains of operator commands promise, for any number of         *)
(* commands, targets, controllers and faults, and any budget shorter than  *)
(* the lease.                                                              *)
(***************************************************************************)
EXTENDS CommandQueue, FiniteSetTheorems, WellFoundedInduction, TLAPS

CommandRow == [state: CommandStates, target: Targets, worker: Workers \cup {Nobody},
               left: 0 .. Lease, reconciled: BOOLEAN]
WorkerRow == [pc: Steps, todo: SUBSET Commands, spent: 0 .. Lease + 1, now: Commands \cup {0}]
ClaimRow == [owner: Workers \cup {Nobody}, left: 0 .. Lease]

-----------------------------------------------------------------------------
(* The oldest candidate. *)

\* A set of numbers up to n that is not empty has a least element.
LEMMA LeastBelow ==
  ASSUME NEW n \in Nat, NEW T \in SUBSET (1 .. n), T # {}
  PROVE  \E t \in T : \A u \in T : t <= u
  <1> DEFINE Below == {1 .. t : t \in T}
  <1>1. Below \subseteq FiniteSubsetsOf(1 .. n)
    <2>1. ASSUME NEW t \in T PROVE 1 .. t \in FiniteSubsetsOf(1 .. n)
      <3>1. 1 .. t \subseteq 1 .. n
        OBVIOUS
      <3>2. IsFiniteSet(1 .. t)
        BY FS_Interval
      <3> QED BY <3>1, <3>2 DEF FiniteSubsetsOf
    <2> QED BY <2>1
  <1>2. PICK t \in T : \A u \in T : ~ (<<1 .. u, 1 .. t>> \in StrictSubsetOrdering(1 .. n))
    <2>1. IsWellFoundedOn(StrictSubsetOrdering(1 .. n), FiniteSubsetsOf(1 .. n))
      BY FS_StrictSubsetOrderingWellFounded
    <2>2. PICK x \in Below : \A y \in Below : ~ (<<y, x>> \in StrictSubsetOrdering(1 .. n))
      <3>1. Below # {}
        OBVIOUS
      <3> HIDE DEF Below
      <3> QED BY <1>1, <2>1, <3>1, WFMin
    <2> QED BY <2>2
  <1>3. ASSUME NEW u \in T, u < t PROVE FALSE
    <2>1. t \in 1 .. t /\ t \notin 1 .. u
      BY <1>3
    <2>2. 1 .. u \subseteq 1 .. t /\ 1 .. t \subseteq 1 .. n /\ 1 .. u # 1 .. t
      BY <1>3, <2>1
    <2>3. <<1 .. u, 1 .. t>> \in StrictSubsetOrdering(1 .. n)
      BY <2>2 DEF StrictSubsetOrdering
    <2> QED BY <1>2, <2>3
  <1> QED BY <1>3

\* The oldest of some commands is one of them.
LEMMA OldestIsOne ==
  ASSUME NEW T \in SUBSET Commands, T # {}
  PROVE  Min(T) \in T
  <1>1. T \subseteq Nat \ {0}
    BY QueueAssumption
  <1>2. PICK n \in T : TRUE
    OBVIOUS
  <1> DEFINE Low == T \cap (1 .. n)
  <1>3. \E t \in Low : \A u \in Low : t <= u
    <2>1. n \in Nat /\ Low \in SUBSET (1 .. n) /\ n \in Low
      BY <1>1, <1>2
    <2> HIDE DEF Low
    <2> QED BY <2>1, LeastBelow
  <1>4. PICK t \in T : t \in 1 .. n /\ \A u \in T \cap (1 .. n) : t <= u
    BY <1>3
  <1>5. \A u \in T : t <= u
    <2> SUFFICES ASSUME NEW u \in T PROVE t <= u
      OBVIOUS
    <2>1. CASE u \in 1 .. n
      BY <1>4, <2>1
    <2>2. CASE u \notin 1 .. n
      BY <1>1, <1>2, <1>4, <2>2
    <2> QED BY <2>1, <2>2
  <1> QED BY <1>5 DEF Min

-----------------------------------------------------------------------------
(* The invariant, worker by worker and command by command. *)

\* A row that is still its worker's to account for.
Open(c) == c.state \in {"running", "interrupted"} \/ (c.state = "failed" /\ c.reconciled)

WorkerOK(w) ==
  /\ \A c \in wk[w].todo : cmd[c].state # "absent"
  /\ wk[w].pc \notin {"idle", "take"} => wk[w].now \in Commands /\ cmd[wk[w].now].state # "absent"
  /\ wk[w].pc \in PreDispatch /\ InBudget(w) =>
       rows[TargetOf(w)] = [owner |-> w, left |-> Lease - wk[w].spent]
  /\ wk[w].pc \in Working => Open(cmd[wk[w].now]) /\ cmd[wk[w].now].worker = w
  /\ wk[w].pc \in {"resolve", "refuse"} => entered[wk[w].now] = 0
  /\ wk[w].pc = "finish" => wk[w].now \in done

CommandOK(c) ==
  /\ cmd[c].state \in {"absent", "queued"} => entered[c] = 0
  /\ entered[c] <= 1
  /\ cmd[c].state = "completed" => c \in done
  /\ cmd[c].state = "failed" /\ entered[c] > 0 => cmd[c].reconciled

LEMMA Parts ==
  QueueInv <=> TypeOK /\ (\A w \in Workers : WorkerOK(w)) /\ (\A c \in Commands : CommandOK(c)) /\ Undisturbed
  <1>1. QueueInv => TypeOK /\ (\A w \in Workers : WorkerOK(w)) /\ (\A c \in Commands : CommandOK(c)) /\ Undisturbed
    <2>1. QueueInv => \A w \in Workers : WorkerOK(w)
      BY DEF QueueInv, WorkerOK, CommandsKnown, ClaimLive, RowOwned, DispatchKnown, Open
    <2>2. QueueInv => \A c \in Commands : CommandOK(c)
      BY DEF QueueInv, CommandOK, DispatchKnown, DispatchedOnce, OutcomeTruthful
    <2> QED BY <2>1, <2>2 DEF QueueInv
  <1>2. (\A w \in Workers : WorkerOK(w)) => CommandsKnown /\ ClaimLive /\ RowOwned
    BY DEF WorkerOK, CommandsKnown, ClaimLive, RowOwned, Open
  <1>3. (\A w \in Workers : WorkerOK(w)) /\ (\A c \in Commands : CommandOK(c)) =>
          DispatchKnown /\ DispatchedOnce /\ OutcomeTruthful
    BY DEF WorkerOK, CommandOK, DispatchKnown, DispatchedOnce, OutcomeTruthful
  <1> QED BY <1>1, <1>2, <1>3 DEF QueueInv

\* The same of the next state.
LEMMA PartsNext ==
  ASSUME TypeOK', \A w \in Workers : WorkerOK(w)', \A c \in Commands : CommandOK(c)', Undisturbed'
  PROVE  QueueInv'
  <1>1. CommandsKnown' /\ ClaimLive' /\ RowOwned'
    BY DEF WorkerOK, CommandsKnown, ClaimLive, RowOwned, Open
  <1>2. DispatchKnown' /\ DispatchedOnce' /\ OutcomeTruthful'
    BY DEF WorkerOK, CommandOK, DispatchKnown, DispatchedOnce, OutcomeTruthful
  <1> QED BY <1>1, <1>2 DEF QueueInv

LEMMA Types ==
  ASSUME TypeOK
  PROVE  /\ cmd \in [Commands -> CommandRow] /\ wk \in [Workers -> WorkerRow]
         /\ rows \in [Targets -> ClaimRow] /\ held \in [Workers -> SUBSET Targets]
         /\ entered \in [Commands -> Nat] /\ done \subseteq Commands /\ faults \in 0 .. MaxFaults
         /\ \A c \in Commands : cmd[c].state = "running" => cmd[c].worker # Nobody
  BY DEF TypeOK, Claims!ClaimTypeOK, Claims!Row, CommandRow, WorkerRow, ClaimRow

CommandTyped ==
  /\ cmd' \in [Commands -> CommandRow]
  /\ \A c \in Commands : cmd'[c].state = "running" => cmd'[c].worker # Nobody
ClaimTyped == rows' \in [Targets -> ClaimRow] /\ held' \in [Workers -> SUBSET Targets]

LEMMA TypesNext ==
  ASSUME CommandTyped, ClaimTyped, wk' \in [Workers -> WorkerRow],
         entered' \in [Commands -> Nat], done' \subseteq Commands, faults' \in 0 .. MaxFaults
  PROVE  TypeOK'
  BY DEF TypeOK, Claims!ClaimTypeOK, Claims!Row, CommandRow, WorkerRow, ClaimRow,
         CommandTyped, ClaimTyped

LEMMA FaultFacts ==
  ASSUME TypeOK, Fault \/ UNCHANGED faults
  PROVE  faults' \in 0 .. MaxFaults
  BY QueueAssumption DEF TypeOK, Fault

-----------------------------------------------------------------------------
(* What a step leaves alone. *)

\* Commands never go back to absent, change target or become unsettled.
Onward ==
  \A c \in Commands : cmd[c].state # "absent" =>
    /\ cmd'[c].state # "absent" /\ cmd'[c].target = cmd[c].target
    /\ cmd[c].reconciled => cmd'[c].reconciled

\* A step that leaves worker v, its claim and its command alone.
Spares(v) ==
  /\ wk'[v] = wk[v]
  /\ \A t \in Targets : rows[t].owner = v /\ rows[t].left > 0 => rows'[t] = rows[t]
  /\ \A c \in Commands : Open(cmd[c]) /\ cmd[c].worker = v =>
       Open(cmd'[c]) /\ cmd'[c].worker = v /\ entered'[c] = entered[c]

LEMMA SparedIsOK ==
  ASSUME TypeOK, NEW v \in Workers, WorkerOK(v), Onward, Spares(v), done \subseteq done'
  PROVE  WorkerOK(v)'
  <1> DEFINE n == wk[v].now
  <1>0. wk[v] \in WorkerRow /\ \A c \in Commands : cmd[c].target \in Targets
    BY Types DEF WorkerRow, CommandRow
  <1>1. wk'[v] = wk[v]
    BY DEF Spares
  <1>2. wk[v].pc \notin {"idle", "take"} =>
          n \in Commands /\ cmd[n].state # "absent" /\ cmd'[n].state # "absent" /\ cmd'[n].target = cmd[n].target
    BY DEF WorkerOK, Onward
  <1>3. \A c \in wk[v].todo : cmd'[c].state # "absent"
    BY <1>0 DEF WorkerOK, Onward, WorkerRow
  <1>4. ASSUME wk[v].pc \in PreDispatch, InBudget(v)
        PROVE  rows'[cmd'[n].target] = [owner |-> v, left |-> Lease - wk[v].spent]
    <2>1. n \in Commands /\ cmd'[n].target = cmd[n].target /\ cmd[n].target \in Targets
      BY <1>0, <1>2, <1>4 DEF PreDispatch
    <2>2. rows[cmd[n].target] = [owner |-> v, left |-> Lease - wk[v].spent]
      BY <1>4 DEF WorkerOK, TargetOf
    <2>3. wk[v].spent \in Nat /\ wk[v].spent < Lease /\ Lease \in Nat
      BY <1>0, <1>4, BudgetAssumption DEF InBudget, WorkerRow
    <2>4. rows[cmd[n].target].owner = v /\ rows[cmd[n].target].left > 0
      BY <2>2, <2>3
    <2> QED BY <2>1, <2>2, <2>4 DEF Spares
  <1>5. ASSUME wk[v].pc \in Working
        PROVE  Open(cmd'[n]) /\ cmd'[n].worker = v /\ entered'[n] = entered[n]
    BY <1>2, <1>5 DEF WorkerOK, Spares, Working
  <1>6. wk[v].pc \in {"resolve", "refuse"} => entered'[n] = 0
    BY <1>5 DEF WorkerOK, Working
  <1>7. wk[v].pc = "finish" => n \in done'
    BY DEF WorkerOK
  <1> QED BY <1>1, <1>2, <1>3, <1>4, <1>5, <1>6, <1>7 DEF WorkerOK, TargetOf, InBudget, Open

\* A command whose dispatches and outcome are as they were.
Settled(c) ==
  /\ cmd'[c].state \in {"absent", "queued"} => cmd[c].state \in {"absent", "queued"}
  /\ cmd'[c].state = "completed" => cmd[c].state = "completed"
  /\ cmd'[c].state = "failed" => cmd'[c].reconciled \/ (cmd[c].state = "failed" /\ ~cmd[c].reconciled)

LEMMA SettledIsOK ==
  ASSUME NEW c \in Commands, CommandOK(c), Settled(c), entered'[c] = entered[c], done \subseteq done'
  PROVE  CommandOK(c)'
  BY DEF CommandOK, Settled

\* A pair of workers neither of which moves.
LEMMA PairSpared ==
  ASSUME Undisturbed, Onward,
         NEW u \in Workers, NEW v \in Workers, u # v, WorkerOK(u), WorkerOK(v),
         wk'[u] = wk[u], wk'[v] = wk[v],
         Executing(u)', Executing(v)' \/ Dispatching(v)'
  PROVE  TargetOf(u)' # TargetOf(v)'
  <1>1. wk[u].now \in Commands /\ cmd[wk[u].now].state # "absent"
    BY DEF Executing, WorkerOK
  <1>2. wk[v].now \in Commands /\ cmd[wk[v].now].state # "absent"
    BY DEF Executing, Dispatching, WorkerOK
  <1>3. TargetOf(u)' = TargetOf(u) /\ TargetOf(v)' = TargetOf(v)
    BY <1>1, <1>2 DEF Onward, TargetOf
  <1>4. Executing(u)
    BY <1>1 DEF Onward, Executing
  <1>5. Executing(v) \/ Dispatching(v)
    BY <1>2 DEF Onward, Executing, Dispatching, InBudget
  <1> QED BY <1>3, <1>4, <1>5 DEF Undisturbed

\* A step of one worker.
Moves(w) ==
  /\ wk' \in [Workers -> WorkerRow]
  /\ \A v \in Workers : v # w => wk'[v] = wk[v]
  /\ \A t \in Targets : rows[t].owner \in Workers \ {w} /\ rows[t].left > 0 => rows'[t] = rows[t]
  /\ \A c \in Commands : Open(cmd[c]) /\ cmd[c].worker # w =>
       Open(cmd'[c]) /\ cmd'[c].worker = cmd[c].worker /\ entered'[c] = entered[c]

LEMMA MoveSpares ==
  ASSUME NEW w \in Workers, Moves(w), NEW v \in Workers, v # w
  PROVE  Spares(v)
  BY DEF Moves, Spares

LEMMA WorkerMoves ==
  ASSUME QueueInv, NEW w \in Workers, Moves(w), TypeOK', Onward, done \subseteq done',
         WorkerOK(w)', \A c \in Commands : CommandOK(c)',
         \A v \in Workers : v # w /\ Executing(v) /\ (Executing(w)' \/ Dispatching(w)') =>
           TargetOf(v) # TargetOf(w)',
         \A v \in Workers : v # w /\ Executing(w)' /\ (Executing(v) \/ Dispatching(v)) =>
           TargetOf(v) # TargetOf(w)'
  PROVE  QueueInv'
  <1>1. TypeOK /\ (\A v \in Workers : WorkerOK(v)) /\ Undisturbed
    BY Parts
  <1>2. \A v \in Workers : WorkerOK(v)'
    <2> SUFFICES ASSUME NEW v \in Workers, v # w PROVE WorkerOK(v)'
      OBVIOUS
    <2> QED BY <1>1, MoveSpares, SparedIsOK
  <1>3. ASSUME NEW v \in Workers, v # w
        PROVE  /\ Executing(v)' => Executing(v) /\ TargetOf(v)' = TargetOf(v)
               /\ Dispatching(v)' => Dispatching(v) /\ TargetOf(v)' = TargetOf(v)
    <2>1. wk'[v] = wk[v]
      BY <1>3 DEF Moves
    <2>2. wk[v].pc \notin {"idle", "take"} => wk[v].now \in Commands /\ cmd[wk[v].now].state # "absent"
      BY <1>1 DEF WorkerOK
    <2> QED BY <2>1, <2>2 DEF Onward, Executing, Dispatching, TargetOf, InBudget
  <1>4. ASSUME NEW u \in Workers, NEW v \in Workers, u # v, Executing(u)', Executing(v)' \/ Dispatching(v)'
        PROVE  TargetOf(u)' # TargetOf(v)'
    <2>1. CASE u = w
      BY <1>3, <1>4, <2>1
    <2>2. CASE v = w
      BY <1>3, <1>4, <2>2
    <2>3. CASE u # w /\ v # w
      <3>1. wk'[u] = wk[u] /\ wk'[v] = wk[v]
        BY <2>3 DEF Moves
      <3> QED BY <1>1, <1>4, <3>1, PairSpared
    <2> QED BY <2>1, <2>2, <2>3
  <1>5. Undisturbed'
    BY <1>4 DEF Undisturbed
  <1> QED BY <1>2, <1>5, PartsNext

\* A step that begins no execution and comes no nearer to one.
LEMMA QuietMove ==
  ASSUME QueueInv, NEW w \in Workers, Moves(w), TypeOK', Onward, done \subseteq done',
         WorkerOK(w)', \A c \in Commands : CommandOK(c)',
         wk'[w].pc # "execute",
         wk'[w].pc \in {"claim", "write", "resolve"} =>
           /\ wk[w].pc \in {"claim", "write", "resolve"}
           /\ wk'[w].now = wk[w].now /\ wk'[w].spent = wk[w].spent
  PROVE  QueueInv'
  <1>1. WorkerOK(w) /\ Undisturbed
    BY Parts
  <1>2. ~Executing(w)'
    BY DEF Executing
  <1>3. Dispatching(w)' => Dispatching(w) /\ TargetOf(w)' = TargetOf(w)
    BY <1>1 DEF Dispatching, InBudget, TargetOf, WorkerOK, Onward
  <1>4. \A v \in Workers : v # w /\ Executing(v) /\ (Executing(w)' \/ Dispatching(w)') =>
          TargetOf(v) # TargetOf(w)'
    BY <1>1, <1>2, <1>3 DEF Undisturbed
  <1> QED BY <1>2, <1>4, WorkerMoves

\* A step of the commands alone.
LEMMA CommandsMove ==
  ASSUME QueueInv, CommandTyped, Onward, UNCHANGED <<claimVars, wk, entered, done, faults>>,
         \A c \in Commands : Settled(c),
         \A c \in Commands : Open(cmd[c]) => Open(cmd'[c]) /\ cmd'[c].worker = cmd[c].worker
  PROVE  QueueInv'
  <1>0. rows' = rows /\ held' = held /\ wk' = wk /\ entered' = entered /\ done' = done /\ faults' = faults
    BY DEF claimVars
  <1>1. TypeOK /\ (\A v \in Workers : WorkerOK(v)) /\ Undisturbed /\ \A c \in Commands : CommandOK(c)
    BY Parts
  <1>2. TypeOK'
    BY <1>0, <1>1, Types, TypesNext DEF ClaimTyped
  <1>3. ASSUME NEW v \in Workers PROVE WorkerOK(v)'
    <2>1. Spares(v)
      BY <1>0 DEF Spares
    <2> QED BY <1>0, <1>1, <2>1, SparedIsOK
  <1>4. \A c \in Commands : CommandOK(c)'
    BY <1>0, <1>1, SettledIsOK
  <1>5. Undisturbed'
    <2>1. ASSUME NEW u \in Workers, NEW v \in Workers, u # v, Executing(u)', Executing(v)' \/ Dispatching(v)'
          PROVE  TargetOf(u)' # TargetOf(v)'
      BY <1>0, <1>1, <2>1, PairSpared
    <2> QED BY <2>1 DEF Undisturbed
  <1> QED BY <1>2, <1>3, <1>4, <1>5, PartsNext

-----------------------------------------------------------------------------
(* The steps. *)

LEMMA InitQueue == Init => QueueInv
  <1> SUFFICES ASSUME Init PROVE QueueInv
    OBVIOUS
  <1>1. NoCommand \in CommandRow /\ NoCommand.state = "absent"
    <2>1. NoCommand.target \in Targets
      BY QueueAssumption DEF NoCommand
    <2> QED BY <2>1, BudgetAssumption DEF NoCommand, CommandRow, CommandStates
  <1>2. Idle \in WorkerRow /\ Idle.pc = "idle" /\ Idle.todo = {}
    BY BudgetAssumption DEF Idle, WorkerRow, Steps
  <1>3. [k \in Targets |-> Claims!NoRow] \in [Targets -> ClaimRow]
    BY BudgetAssumption DEF Claims!NoRow, ClaimRow
  <1>4. cmd \in [Commands -> CommandRow] /\ (\A c \in Commands : cmd[c].state = "absent")
    BY <1>1 DEF Init
  <1>5. wk \in [Workers -> WorkerRow] /\ (\A w \in Workers : wk[w].pc = "idle" /\ wk[w].todo = {})
    BY <1>2 DEF Init
  <1>6. Claims!ClaimTypeOK
    BY <1>3 DEF Init, Claims!ClaimInit, Claims!ClaimTypeOK, Claims!Row, ClaimRow
  <1>7. TypeOK
    BY <1>4, <1>5, <1>6, QueueAssumption DEF Init, TypeOK, CommandRow, WorkerRow
  <1>8. \A w \in Workers : WorkerOK(w)
    BY <1>5 DEF WorkerOK, PreDispatch, Working
  <1>9. \A c \in Commands : CommandOK(c)
    BY <1>4 DEF CommandOK, Init
  <1>10. Undisturbed
    BY <1>5 DEF Undisturbed, Executing
  <1> QED BY <1>7, <1>8, <1>9, <1>10, Parts

LEMMA EnqueueKeeps ==
  ASSUME QueueInv, NEW c \in Commands, NEW t \in Targets, Enqueue(c, t)
  PROVE  QueueInv'
  <1> DEFINE r == [cmd[c] EXCEPT !.state = "queued", !.target = t]
  <1>1. TypeOK /\ cmd \in [Commands -> CommandRow] /\ cmd[c].state = "absent"
    BY Parts, Types DEF Enqueue
  <1>2. r \in CommandRow /\ r.state = "queued"
    BY <1>1 DEF CommandRow, CommandStates
  <1>3. cmd' = [cmd EXCEPT ![c] = r]
    BY DEF Enqueue, Enter
  <1> HIDE DEF r
  <1>4. cmd' \in [Commands -> CommandRow] /\ cmd'[c] = r /\ \A b \in Commands : b # c => cmd'[b] = cmd[b]
    BY <1>1, <1>2, <1>3
  <1>5. CommandTyped
    BY <1>1, <1>2, <1>4, Types DEF CommandTyped
  <1>6. Onward /\ (\A b \in Commands : Open(cmd[b]) => Open(cmd'[b]) /\ cmd'[b].worker = cmd[b].worker)
    BY <1>1, <1>4 DEF Onward, Open
  <1>7. \A b \in Commands : Settled(b)
    BY <1>1, <1>2, <1>4 DEF Settled
  <1> QED BY <1>5, <1>6, <1>7, CommandsMove DEF Enqueue

LEMMA ReconcileKeeps ==
  ASSUME QueueInv, NEW c \in Commands, Reconcile(c)
  PROVE  QueueInv'
  <1> DEFINE r == Reconciled(cmd[c])
  <1>1. TypeOK /\ cmd \in [Commands -> CommandRow] /\ cmd[c].state = "interrupted"
    BY Parts, Types DEF Reconcile
  <1>2. /\ r \in CommandRow /\ r.state = "failed" /\ r.reconciled
        /\ r.worker = cmd[c].worker /\ r.target = cmd[c].target
    BY <1>1 DEF CommandRow, CommandStates, Reconciled
  <1>3. cmd' = [cmd EXCEPT ![c] = r]
    BY DEF Reconcile
  <1> HIDE DEF r
  <1>4. cmd' \in [Commands -> CommandRow] /\ cmd'[c] = r /\ \A b \in Commands : b # c => cmd'[b] = cmd[b]
    BY <1>1, <1>2, <1>3
  <1>5. CommandTyped
    BY <1>1, <1>2, <1>4, Types DEF CommandTyped
  <1>6. Onward /\ (\A b \in Commands : Open(cmd[b]) => Open(cmd'[b]) /\ cmd'[b].worker = cmd[b].worker)
    BY <1>1, <1>2, <1>4 DEF Onward, Open
  <1>7. \A b \in Commands : Settled(b)
    BY <1>1, <1>2, <1>4 DEF Settled
  <1> QED BY <1>5, <1>6, <1>7, CommandsMove DEF Reconcile

LEMMA ExpireKeeps ==
  ASSUME QueueInv, ExpireCommands
  PROVE  QueueInv'
  <1>1. TypeOK /\ cmd \in [Commands -> CommandRow]
    BY Parts, Types
  <1>2. PICK late \in SUBSET Commands :
          /\ \A c \in late : cmd[c].state = "running"
          /\ cmd' = [c \in Commands |-> IF c \in late THEN Expired(cmd[c]) ELSE cmd[c]]
    BY DEF ExpireCommands
  <1>3. \A c \in Commands : c \in late =>
          /\ cmd'[c] \in CommandRow /\ cmd'[c].state = "interrupted" /\ cmd'[c].worker = cmd[c].worker
          /\ cmd'[c].target = cmd[c].target /\ cmd'[c].reconciled = cmd[c].reconciled
    BY <1>1, <1>2 DEF CommandRow, CommandStates, Expired
  <1>4. \A c \in Commands : c \notin late => cmd'[c] = cmd[c]
    BY <1>2
  <1>5. cmd' \in [Commands -> CommandRow]
    <2>1. \A c \in Commands : cmd'[c] \in CommandRow
      BY <1>1, <1>3, <1>4
    <2> QED BY <1>2, <2>1
  <1>6. CommandTyped
    BY <1>1, <1>3, <1>4, <1>5, Types DEF CommandTyped
  <1>7. Onward
    BY <1>3, <1>4 DEF Onward
  <1>8. \A b \in Commands : Open(cmd[b]) => Open(cmd'[b]) /\ cmd'[b].worker = cmd[b].worker
    BY <1>3, <1>4 DEF Open
  <1>9. \A b \in Commands : Settled(b)
    BY <1>3, <1>4 DEF Settled
  <1> QED BY <1>6, <1>7, <1>8, <1>9, CommandsMove DEF ExpireCommands

LEMMA GoFacts ==
  ASSUME TypeOK, NEW w \in Workers, NEW pc \in Steps, Go(w, pc)
  PROVE  /\ wk' \in [Workers -> WorkerRow]
         /\ wk'[w].pc = pc /\ wk'[w].todo = wk[w].todo
         /\ wk'[w].now = wk[w].now /\ wk'[w].spent = wk[w].spent
         /\ \A v \in Workers : v # w => wk'[v] = wk[v]
  <1> DEFINE r == [wk[w] EXCEPT !.pc = pc]
  <1>1. wk \in [Workers -> WorkerRow]
    BY Types
  <1>2. r \in WorkerRow /\ r.pc = pc /\ r.todo = wk[w].todo /\ r.now = wk[w].now /\ r.spent = wk[w].spent
    BY <1>1 DEF WorkerRow
  <1>3. wk' = [wk EXCEPT ![w] = r]
    BY <1>1 DEF Go
  <1> HIDE DEF r
  <1> QED BY <1>1, <1>2, <1>3

\* A step of a worker that writes no row.
LEMMA RowsKept ==
  ASSUME QueueInv, NEW w \in Workers,
         wk' \in [Workers -> WorkerRow], \A v \in Workers : v # w => wk'[v] = wk[v],
         UNCHANGED <<claimVars, cmd, entered>>, done \subseteq done', done' \subseteq Commands,
         faults' \in 0 .. MaxFaults
  PROVE  /\ rows' = rows /\ cmd' = cmd /\ entered' = entered
         /\ Moves(w) /\ TypeOK' /\ Onward /\ \A c \in Commands : CommandOK(c)'
  <1>0. rows' = rows /\ held' = held /\ cmd' = cmd /\ entered' = entered
    BY DEF claimVars
  <1>1. TypeOK /\ \A c \in Commands : CommandOK(c)
    BY Parts
  <1>2. TypeOK'
    BY <1>0, <1>1, Types, TypesNext DEF ClaimTyped, CommandTyped
  <1>3. Moves(w)
    BY <1>0 DEF Moves
  <1>4. Onward
    BY <1>0 DEF Onward
  <1>5. \A c \in Commands : CommandOK(c)'
    BY <1>0, <1>1, SettledIsOK DEF Settled
  <1> QED BY <1>0, <1>2, <1>3, <1>4, <1>5

LEMMA ListKeeps ==
  ASSUME QueueInv, NEW w \in Workers, ListCommands(w)
  PROVE  QueueInv'
  <1> DEFINE r == [Idle EXCEPT !.pc = "take", !.todo = Eligible]
  <1>1. TypeOK /\ wk \in [Workers -> WorkerRow] /\ done \subseteq Commands /\ faults \in 0 .. MaxFaults
    BY Parts, Types
  <1>2. Eligible \subseteq Commands /\ \A c \in Eligible : cmd[c].state # "absent"
    BY DEF Eligible
  <1>3. r \in WorkerRow /\ r.pc = "take" /\ r.todo = Eligible
    <2>1. 0 \in 0 .. Lease + 1
      BY BudgetAssumption
    <2> QED BY <1>2, <2>1 DEF Idle, WorkerRow, Steps
  <1>4. wk' = [wk EXCEPT ![w] = r]
    BY DEF ListCommands
  <1> HIDE DEF r
  <1>5. wk' \in [Workers -> WorkerRow] /\ wk'[w] = r /\ \A v \in Workers : v # w => wk'[v] = wk[v]
    BY <1>1, <1>3, <1>4
  <1>6. UNCHANGED <<claimVars, cmd, entered, done, faults>>
    BY DEF ListCommands
  <1>7. Moves(w) /\ TypeOK' /\ Onward /\ (\A c \in Commands : CommandOK(c)') /\ cmd' = cmd
    BY <1>1, <1>5, <1>6, RowsKept
  <1>8. WorkerOK(w)'
    BY <1>2, <1>3, <1>5, <1>7 DEF WorkerOK, PreDispatch, Working
  <1> QED BY <1>3, <1>5, <1>6, <1>7, <1>8, QuietMove

LEMMA EndDrainKeeps ==
  ASSUME QueueInv, NEW w \in Workers, EndDrain(w)
  PROVE  QueueInv'
  <1>1. TypeOK /\ wk \in [Workers -> WorkerRow] /\ done \subseteq Commands /\ faults \in 0 .. MaxFaults
    BY Parts, Types
  <1>2. Idle \in WorkerRow /\ Idle.pc = "idle" /\ Idle.todo = {}
    BY BudgetAssumption DEF Idle, WorkerRow, Steps
  <1>3. wk' \in [Workers -> WorkerRow] /\ wk'[w] = Idle /\ \A v \in Workers : v # w => wk'[v] = wk[v]
    BY <1>1, <1>2 DEF EndDrain
  <1>4. UNCHANGED <<claimVars, cmd, entered, done, faults>>
    BY DEF EndDrain
  <1>5. Moves(w) /\ TypeOK' /\ Onward /\ (\A c \in Commands : CommandOK(c)')
    BY <1>1, <1>3, <1>4, RowsKept
  <1>6. WorkerOK(w)'
    BY <1>2, <1>3 DEF WorkerOK, PreDispatch, Working
  <1> QED BY <1>2, <1>3, <1>4, <1>5, <1>6, QuietMove

\* What a worker executes unsettled blocks its target.
LEMMA ExecutingBlocks ==
  ASSUME QueueInv, NEW v \in Workers, Executing(v)
  PROVE  TargetBlocked(TargetOf(v))
  BY Parts DEF Executing, WorkerOK, Working, Open, TargetBlocked, TargetOf

LEMMA CheckTargetKeeps ==
  ASSUME QueueInv, NEW w \in Workers, CheckTarget(w)
  PROVE  QueueInv'
  <1> DEFINE pc == IF TargetBlocked(TargetOf(w)) THEN "release" ELSE "claim"
  <1>1. TypeOK /\ WorkerOK(w) /\ done \subseteq Commands /\ faults \in 0 .. MaxFaults /\ wk[w].pc = "check"
    BY Parts, Types DEF CheckTarget
  <1>2. pc \in {"release", "claim"} /\ (pc = "claim" => ~TargetBlocked(TargetOf(w)))
    OBVIOUS
  <1>3. UNCHANGED <<claimVars, cmd, entered, done, faults>> /\ Go(w, pc)
    BY DEF CheckTarget
  <1> HIDE DEF pc
  <1>4. /\ wk' \in [Workers -> WorkerRow] /\ \A v \in Workers : v # w => wk'[v] = wk[v]
        /\ wk'[w].pc = pc /\ wk'[w].todo = wk[w].todo /\ wk'[w].now = wk[w].now /\ wk'[w].spent = wk[w].spent
    <2>1. pc \in Steps
      BY <1>2 DEF Steps
    <2> QED BY <1>1, <1>3, <2>1, GoFacts
  <1>5. /\ Moves(w) /\ TypeOK' /\ Onward /\ \A c \in Commands : CommandOK(c)'
        /\ rows' = rows /\ cmd' = cmd /\ entered' = entered /\ done' = done
    BY <1>1, <1>3, <1>4, RowsKept
  <1>6. WorkerOK(w)'
    BY <1>1, <1>2, <1>4, <1>5 DEF WorkerOK, PreDispatch, Working, InBudget, TargetOf
  <1>7. TargetOf(w)' = TargetOf(w)
    BY <1>4, <1>5 DEF TargetOf
  <1>8. ~Executing(w)'
    BY <1>2, <1>4 DEF Executing
  <1>9. ASSUME NEW v \in Workers, Executing(v), Dispatching(w)' PROVE TargetOf(v) # TargetOf(w)'
    <2>1. pc = "claim"
      BY <1>2, <1>4, <1>9 DEF Dispatching
    <2>2. TargetBlocked(TargetOf(v))
      BY <1>9, ExecutingBlocks
    <2> QED BY <1>2, <1>7, <2>1, <2>2
  <1> QED BY <1>5, <1>6, <1>8, <1>9, WorkerMoves

LEMMA CheckBudgetKeeps ==
  ASSUME QueueInv, NEW w \in Workers, CheckBudget(w)
  PROVE  QueueInv'
  <1> DEFINE pc == IF InBudget(w) THEN "write" ELSE "release"
  <1>1. TypeOK /\ WorkerOK(w) /\ done \subseteq Commands /\ faults \in 0 .. MaxFaults /\ wk[w].pc = "claim"
    BY Parts, Types DEF CheckBudget
  <1>2. pc \in {"release", "write"}
    OBVIOUS
  <1>3. UNCHANGED <<claimVars, cmd, entered, done, faults>> /\ Go(w, pc)
    BY DEF CheckBudget
  <1> HIDE DEF pc
  <1>4. /\ wk' \in [Workers -> WorkerRow] /\ \A v \in Workers : v # w => wk'[v] = wk[v]
        /\ wk'[w].pc = pc /\ wk'[w].todo = wk[w].todo /\ wk'[w].now = wk[w].now /\ wk'[w].spent = wk[w].spent
    <2>1. pc \in Steps
      BY <1>2 DEF Steps
    <2> QED BY <1>1, <1>3, <2>1, GoFacts
  <1>5. /\ Moves(w) /\ TypeOK' /\ Onward /\ \A c \in Commands : CommandOK(c)'
        /\ rows' = rows /\ cmd' = cmd /\ entered' = entered /\ done' = done
    BY <1>1, <1>3, <1>4, RowsKept
  <1>6. WorkerOK(w)'
    BY <1>1, <1>2, <1>4, <1>5 DEF WorkerOK, PreDispatch, Working, InBudget, TargetOf
  <1> QED BY <1>1, <1>2, <1>4, <1>5, <1>6, QuietMove

\* The outcome of a dispatch that nobody could record.
LEMMA OutcomeLostKeeps ==
  ASSUME QueueInv, NEW w \in Workers, OutcomeLost(w)
  PROVE  QueueInv'
  <1>1. TypeOK /\ WorkerOK(w) /\ done \subseteq Commands /\ wk[w].pc \in {"finish", "interrupt", "refuse"}
    BY Parts, Types DEF OutcomeLost
  <1>2. UNCHANGED <<claimVars, cmd, entered, done>> /\ Go(w, "release") /\ Fault
    BY DEF OutcomeLost
  <1>3. /\ wk' \in [Workers -> WorkerRow] /\ \A v \in Workers : v # w => wk'[v] = wk[v]
        /\ wk'[w].pc = "release" /\ wk'[w].todo = wk[w].todo /\ wk'[w].now = wk[w].now
    BY <1>1, <1>2, GoFacts DEF Steps
  <1>4. faults' \in 0 .. MaxFaults
    BY <1>1, <1>2, FaultFacts
  <1>5. Moves(w) /\ TypeOK' /\ Onward /\ (\A c \in Commands : CommandOK(c)') /\ cmd' = cmd
    BY <1>1, <1>2, <1>3, <1>4, RowsKept
  <1>6. WorkerOK(w)'
    BY <1>1, <1>3, <1>5 DEF WorkerOK, PreDispatch, Working
  <1> QED BY <1>2, <1>3, <1>5, <1>6, QuietMove

LEMMA ExecuteKeeps ==
  ASSUME QueueInv, NEW w \in Workers, Execute(w)
  PROVE  QueueInv'
  <1>1. TypeOK /\ WorkerOK(w) /\ done \subseteq Commands /\ faults \in 0 .. MaxFaults /\ wk[w].pc = "execute"
    BY Parts, Types DEF Execute
  <1>2. UNCHANGED <<claimVars, cmd, entered, faults>>
    BY DEF Execute
  <1>3. PICK pc \in {"finish", "interrupt"} :
          /\ Go(w, pc) /\ done' \in {done, done \cup {wk[w].now}}
          /\ pc = "finish" => wk[w].now \in done'
    BY DEF Execute
  <1>4. /\ wk' \in [Workers -> WorkerRow] /\ \A v \in Workers : v # w => wk'[v] = wk[v]
        /\ wk'[w].pc = pc /\ wk'[w].todo = wk[w].todo /\ wk'[w].now = wk[w].now
    <2>1. pc \in Steps
      BY DEF Steps
    <2> QED BY <1>1, <1>3, <2>1, GoFacts
  <1>5. done \subseteq done' /\ done' \subseteq Commands
    BY <1>1, <1>3 DEF WorkerOK
  <1>6. Moves(w) /\ TypeOK' /\ Onward /\ (\A c \in Commands : CommandOK(c)') /\ cmd' = cmd
    BY <1>1, <1>2, <1>4, <1>5, RowsKept
  <1>7. WorkerOK(w)'
    BY <1>1, <1>3, <1>4, <1>6 DEF WorkerOK, PreDispatch, Working
  <1>8. wk'[w].pc \in {"finish", "interrupt"}
    BY <1>4
  <1> QED BY <1>5, <1>6, <1>7, <1>8, QuietMove

LEMMA DispatchKeeps ==
  ASSUME QueueInv, NEW w \in Workers, Dispatch(w)
  PROVE  QueueInv'
  <1> DEFINE n == wk[w].now
  <1>0. TypeOK /\ Undisturbed /\ (\A v \in Workers : WorkerOK(v)) /\ \A c \in Commands : CommandOK(c)
    BY Parts
  <1>1. /\ n \in Commands /\ Open(cmd[n]) /\ cmd[n].worker = w /\ entered[n] = 0 /\ cmd[n].state # "absent"
        /\ wk[w].pc = "resolve" /\ done \subseteq Commands /\ faults \in 0 .. MaxFaults
        /\ entered \in [Commands -> Nat]
    BY <1>0, Types DEF WorkerOK, Dispatch, Working
  <1>2. UNCHANGED <<claimVars, cmd, done, faults>>
    BY DEF Dispatch
  <1>3. CASE Go(w, "refuse") /\ UNCHANGED entered
    <2>1. /\ wk' \in [Workers -> WorkerRow] /\ \A v \in Workers : v # w => wk'[v] = wk[v]
          /\ wk'[w].pc = "refuse" /\ wk'[w].todo = wk[w].todo /\ wk'[w].now = n
      BY <1>0, <1>3, GoFacts DEF Steps
    <2>2. /\ Moves(w) /\ TypeOK' /\ Onward /\ \A c \in Commands : CommandOK(c)'
          /\ cmd' = cmd /\ entered' = entered /\ done' = done
      BY <1>1, <1>2, <1>3, <2>1, RowsKept
    <2>3. WorkerOK(w)'
      BY <1>0, <1>1, <2>1, <2>2 DEF WorkerOK, PreDispatch, Working
    <2> QED BY <2>1, <2>2, <2>3, QuietMove
  <1>4. CASE InBudget(w) /\ Go(w, "execute") /\ entered' = [entered EXCEPT ![n] = @ + 1]
    <2>1. /\ wk' \in [Workers -> WorkerRow] /\ \A v \in Workers : v # w => wk'[v] = wk[v]
          /\ wk'[w].pc = "execute" /\ wk'[w].todo = wk[w].todo /\ wk'[w].now = n
      BY <1>0, <1>4, GoFacts DEF Steps
    <2>2. /\ entered' \in [Commands -> Nat] /\ entered'[n] = 1
          /\ \A c \in Commands : c # n => entered'[c] = entered[c]
      BY <1>1, <1>4
    <2>3. rows' = rows /\ held' = held /\ cmd' = cmd /\ done' = done /\ faults' = faults
      BY <1>2 DEF claimVars
    <2>4. TypeOK'
      BY <1>0, <1>1, <2>1, <2>2, <2>3, Types, TypesNext DEF ClaimTyped, CommandTyped
    <2>5. Moves(w)
      BY <1>1, <2>1, <2>2, <2>3 DEF Moves
    <2>6. Onward
      BY <2>3 DEF Onward
    <2>7. \A c \in Commands : CommandOK(c)'
      BY <1>0, <1>1, <2>2, <2>3 DEF CommandOK, Open
    <2>8. WorkerOK(w)'
      BY <1>0, <1>1, <2>1, <2>3 DEF WorkerOK, PreDispatch, Working
    <2>9. TargetOf(w)' = TargetOf(w) /\ Dispatching(w)
      BY <1>1, <1>4, <2>1, <2>3 DEF TargetOf, Dispatching
    <2>10. ASSUME NEW v \in Workers, v # w, Executing(v) PROVE TargetOf(v) # TargetOf(w)'
      BY <1>0, <2>9, <2>10 DEF Undisturbed
    <2>11. ASSUME NEW v \in Workers, v # w, Dispatching(v) PROVE TargetOf(v) # TargetOf(w)'
      <3>1. rows[TargetOf(v)] = [owner |-> v, left |-> Lease - wk[v].spent]
        BY <1>0, <2>11 DEF WorkerOK, Dispatching, PreDispatch
      <3>2. rows[TargetOf(w)] = [owner |-> w, left |-> Lease - wk[w].spent]
        BY <1>0, <2>9 DEF WorkerOK, Dispatching, PreDispatch
      <3> QED BY <2>9, <2>11, <3>1, <3>2
    <2> QED BY <2>3, <2>4, <2>5, <2>6, <2>7, <2>8, <2>10, <2>11, WorkerMoves
  <1> QED BY <1>3, <1>4 DEF Dispatch

-----------------------------------------------------------------------------
(* The steps of a worker that write its command's row. *)

\* Only the row of command n changes: it was its worker's, or was queued.
Writes(w, n) ==
  /\ CommandTyped
  /\ \A c \in Commands : c # n => cmd'[c] = cmd[c]
  /\ cmd'[n].target = cmd[n].target /\ cmd'[n].state # "absent"
  /\ cmd[n].reconciled => cmd'[n].reconciled
  /\ cmd'[n] = cmd[n] \/ cmd[n].state = "queued" \/ (cmd[n].state = "running" /\ cmd[n].worker = w)

LEMMA RowWritten ==
  ASSUME QueueInv, NEW w \in Workers, NEW n \in Commands, Writes(w, n),
         wk' \in [Workers -> WorkerRow], \A v \in Workers : v # w => wk'[v] = wk[v],
         UNCHANGED <<claimVars, entered, done>>, faults' \in 0 .. MaxFaults, CommandOK(n)'
  PROVE  /\ rows' = rows /\ entered' = entered /\ done' = done
         /\ Moves(w) /\ TypeOK' /\ Onward /\ \A c \in Commands : CommandOK(c)'
  <1>0. rows' = rows /\ held' = held /\ entered' = entered /\ done' = done
    BY DEF claimVars
  <1>1. TypeOK /\ \A c \in Commands : CommandOK(c)
    BY Parts
  <1>2. TypeOK'
    BY <1>0, <1>1, Types, TypesNext DEF ClaimTyped, Writes
  <1>3. \A c \in Commands : Open(cmd[c]) /\ cmd[c].worker # w => cmd'[c] = cmd[c]
    BY DEF Writes, Open
  <1>4. Moves(w)
    BY <1>0, <1>3 DEF Moves
  <1>5. Onward
    BY DEF Onward, Writes
  <1>6. \A c \in Commands : CommandOK(c)'
    BY <1>0, <1>1, SettledIsOK DEF Settled, Writes
  <1> QED BY <1>0, <1>2, <1>4, <1>5, <1>6

\* The row a worker has got is its own.
LEMMA ClaimedFacts ==
  ASSUME QueueInv, NEW w \in Workers, wk[w].pc = "write", cmd[wk[w].now].state = "queued",
         cmd' = Claimed(w)
  PROVE  /\ Writes(w, wk[w].now)
         /\ cmd'[wk[w].now].state = "running" /\ cmd'[wk[w].now].worker = w
  <1> DEFINE n == wk[w].now
             r == [cmd[n] EXCEPT !.state = "running", !.worker = w, !.left = Lease]
  <1>1. TypeOK /\ cmd \in [Commands -> CommandRow] /\ n \in Commands
    BY Parts, Types DEF WorkerOK
  <1>2. /\ r \in CommandRow /\ r.state = "running" /\ r.worker = w
        /\ r.target = cmd[n].target /\ r.reconciled = cmd[n].reconciled
    <2>1. Lease \in 0 .. Lease
      BY BudgetAssumption
    <2> QED BY <1>1, <2>1 DEF CommandRow, CommandStates
  <1>3. cmd' = [cmd EXCEPT ![n] = r]
    BY DEF Claimed
  <1> HIDE DEF r
  <1>4. cmd' \in [Commands -> CommandRow] /\ cmd'[n] = r /\ \A b \in Commands : b # n => cmd'[b] = cmd[b]
    BY <1>1, <1>2, <1>3
  <1>5. CommandTyped
    <2>1. w # Nobody
      BY QueueAssumption
    <2> QED BY <1>1, <1>2, <1>4, <2>1, Types DEF CommandTyped
  <1> QED BY <1>2, <1>4, <1>5 DEF Writes

LEMMA NothingWritten ==
  ASSUME QueueInv, NEW w \in Workers, NEW n \in Commands, cmd[n].state # "absent", cmd' = cmd
  PROVE  Writes(w, n)
  BY Parts, Types DEF Writes, CommandTyped

LEMMA ClaimKeeps ==
  ASSUME QueueInv, NEW w \in Workers, ClaimCommand(w)
  PROVE  QueueInv'
  <1> SUFFICES ASSUME NEW n \in Commands, n = wk[w].now PROVE QueueInv'
    BY Parts DEF WorkerOK, ClaimCommand
  <1> DEFINE pc == IF cmd[n].state = "queued" THEN "resolve" ELSE "release"
  <1>1. /\ TypeOK /\ WorkerOK(w) /\ faults \in 0 .. MaxFaults /\ wk[w].pc = "write"
        /\ n \in Commands /\ cmd[n].state # "absent" /\ CommandOK(n)
    BY Parts, Types DEF ClaimCommand, WorkerOK
  <1>2. pc \in {"resolve", "release"} /\ (pc = "resolve" <=> cmd[n].state = "queued")
    OBVIOUS
  <1>3. UNCHANGED <<claimVars, entered, done, faults>> /\ Go(w, pc)
    BY DEF ClaimCommand
  <1> HIDE DEF pc
  <1>4. /\ wk' \in [Workers -> WorkerRow] /\ \A v \in Workers : v # w => wk'[v] = wk[v]
        /\ wk'[w].pc = pc /\ wk'[w].todo = wk[w].todo /\ wk'[w].now = n /\ wk'[w].spent = wk[w].spent
    <2>1. pc \in Steps
      BY <1>2 DEF Steps
    <2> QED BY <1>1, <1>3, <2>1, GoFacts
  <1>5. /\ Writes(w, n)
        /\ pc = "resolve" => cmd'[n].state = "running" /\ cmd'[n].worker = w
        /\ pc = "release" => cmd' = cmd
    <2>1. CASE pc = "resolve"
      <3>1. cmd' = Claimed(w)
        BY <1>2, <2>1 DEF ClaimCommand
      <3> QED BY <1>1, <1>2, <2>1, <3>1, ClaimedFacts
    <2>2. CASE pc = "release"
      <3>1. cmd' = cmd
        BY <1>2, <2>2 DEF ClaimCommand
      <3> QED BY <1>1, <2>2, <3>1, NothingWritten
    <2> QED BY <1>2, <2>1, <2>2
  <1>6. CommandOK(n)' /\ (pc = "resolve" => entered'[n] = 0)
    BY <1>1, <1>2, <1>3, <1>5 DEF CommandOK
  <1>7. /\ Moves(w) /\ TypeOK' /\ Onward /\ \A c \in Commands : CommandOK(c)'
        /\ rows' = rows /\ entered' = entered /\ done' = done
    BY <1>1, <1>3, <1>4, <1>5, <1>6, RowWritten
  <1>8. WorkerOK(w)'
    <2>1. \A c \in wk'[w].todo : cmd'[c].state # "absent"
      BY <1>1, <1>4, <1>7, Types DEF WorkerOK, Onward, WorkerRow
    <2>2. n \in Commands /\ cmd'[n].state # "absent" /\ cmd'[n].target = cmd[n].target
      BY <1>1, <1>5 DEF Writes
    <2>3. pc = "resolve" /\ InBudget(w) => rows'[cmd'[n].target] = [owner |-> w, left |-> Lease - wk[w].spent]
      BY <1>1, <1>7, <2>2 DEF WorkerOK, PreDispatch, TargetOf
    <2> QED BY <1>2, <1>4, <1>5, <1>6, <2>1, <2>2, <2>3 DEF WorkerOK, PreDispatch, Working, InBudget, TargetOf, Open
  <1> QED BY <1>1, <1>2, <1>4, <1>7, <1>8, QuietMove

LEMMA ClaimUnconfirmedKeeps ==
  ASSUME QueueInv, NEW w \in Workers, ClaimUnconfirmed(w)
  PROVE  QueueInv'
  <1> SUFFICES ASSUME NEW n \in Commands, n = wk[w].now PROVE QueueInv'
    BY Parts DEF WorkerOK, ClaimUnconfirmed
  <1> DEFINE r == [wk[w] EXCEPT !.pc = "release", !.todo = {}]
  <1>1. /\ TypeOK /\ WorkerOK(w) /\ wk[w].pc = "write" /\ wk \in [Workers -> WorkerRow]
        /\ n \in Commands /\ cmd[n].state # "absent" /\ CommandOK(n)
    BY Parts, Types DEF ClaimUnconfirmed, WorkerOK
  <1>2. UNCHANGED <<claimVars, entered, done>> /\ Fault
    BY DEF ClaimUnconfirmed
  <1>3. r \in WorkerRow /\ r.pc = "release" /\ r.todo = {} /\ r.now = n
    BY <1>1 DEF WorkerRow, Steps
  <1>4. wk' = [wk EXCEPT ![w] = r]
    BY DEF ClaimUnconfirmed
  <1> HIDE DEF r
  <1>5. wk' \in [Workers -> WorkerRow] /\ wk'[w] = r /\ \A v \in Workers : v # w => wk'[v] = wk[v]
    BY <1>1, <1>3, <1>4
  <1>6. Writes(w, n) /\ (cmd' = cmd \/ (cmd[n].state = "queued" /\ cmd'[n].state = "running"))
    <2>1. CASE cmd' = cmd
      BY <1>1, <2>1, NothingWritten
    <2>2. CASE cmd[n].state = "queued" /\ cmd' = Claimed(w)
      BY <1>1, <2>2, ClaimedFacts
    <2> QED BY <2>1, <2>2 DEF ClaimUnconfirmed
  <1>7. CommandOK(n)'
    BY <1>1, <1>2, <1>6 DEF CommandOK
  <1>8. faults' \in 0 .. MaxFaults
    BY <1>1, <1>2, FaultFacts
  <1>9. /\ Moves(w) /\ TypeOK' /\ Onward /\ \A c \in Commands : CommandOK(c)'
        /\ done' = done
    BY <1>1, <1>2, <1>5, <1>6, <1>7, <1>8, RowWritten
  <1>10. WorkerOK(w)'
    BY <1>1, <1>3, <1>5, <1>6 DEF WorkerOK, PreDispatch, Working, Writes
  <1> QED BY <1>3, <1>5, <1>9, <1>10, QuietMove

LEMMA FinishKeeps ==
  ASSUME QueueInv, NEW w \in Workers, FinishCommand(w)
  PROVE  QueueInv'
  <1> SUFFICES ASSUME NEW n \in Commands, n = wk[w].now PROVE QueueInv'
    BY Parts DEF WorkerOK, FinishCommand
  <1> DEFINE state == IF wk[w].pc = "finish" THEN "completed" ELSE "failed"
             r == [cmd[n] EXCEPT !.state = state]
  <1>1. /\ TypeOK /\ WorkerOK(w) /\ wk[w].pc \in {"finish", "refuse"} /\ cmd \in [Commands -> CommandRow]
        /\ n \in Commands /\ cmd[n].state # "absent" /\ CommandOK(n) /\ faults \in 0 .. MaxFaults
    BY Parts, Types DEF FinishCommand, WorkerOK
  <1>2. UNCHANGED <<claimVars, entered, done, faults>> /\ Go(w, "release") /\ cmd' = Finished(w, state)
    BY DEF FinishCommand
  <1>3. /\ wk' \in [Workers -> WorkerRow] /\ \A v \in Workers : v # w => wk'[v] = wk[v]
        /\ wk'[w].pc = "release" /\ wk'[w].todo = wk[w].todo /\ wk'[w].now = n
    BY <1>1, <1>2, GoFacts DEF Steps
  <1>4. /\ wk[w].pc = "finish" => state = "completed" /\ n \in done
        /\ wk[w].pc = "refuse" => state = "failed" /\ entered[n] = 0
    BY <1>1 DEF WorkerOK
  <1>5. state \in {"completed", "failed"}
    OBVIOUS
  <1>6. \/ cmd' = cmd
        \/ /\ cmd[n].state = "running" /\ cmd[n].worker = w
           /\ cmd' = [cmd EXCEPT ![n] = r]
    <2>1. cmd' = cmd \/ (cmd' = [cmd EXCEPT ![n].state = state] /\ cmd[n].state = "running" /\ cmd[n].worker = w)
      BY <1>2 DEF Finished
    <2>2. [cmd EXCEPT ![n].state = state] = [cmd EXCEPT ![n] = r]
      BY <1>1
    <2> QED BY <2>1, <2>2
  <1>7. r \in CommandRow /\ r.state = state /\ r.target = cmd[n].target /\ r.reconciled = cmd[n].reconciled
    BY <1>1, <1>5 DEF CommandRow, CommandStates
  <1> HIDE DEF r, state
  <1>8. Writes(w, n) /\ (cmd' = cmd \/ cmd'[n].state = state)
    <2>1. CASE cmd' = cmd
      BY <1>1, <2>1, NothingWritten
    <2>2. CASE cmd[n].state = "running" /\ cmd[n].worker = w /\ cmd' = [cmd EXCEPT ![n] = r]
      <3>1. cmd' \in [Commands -> CommandRow] /\ cmd'[n] = r /\ \A b \in Commands : b # n => cmd'[b] = cmd[b]
        BY <1>1, <1>7, <2>2
      <3>2. CommandTyped
        BY <1>1, <1>5, <1>7, <3>1, Types DEF CommandTyped
      <3> QED BY <1>5, <1>7, <2>2, <3>1, <3>2 DEF Writes
    <2> QED BY <1>6, <2>1, <2>2
  <1>9. CommandOK(n)'
    BY <1>1, <1>2, <1>4, <1>8 DEF CommandOK
  <1>10. /\ Moves(w) /\ TypeOK' /\ Onward /\ \A c \in Commands : CommandOK(c)'
         /\ done' = done
    BY <1>1, <1>2, <1>3, <1>8, <1>9, RowWritten
  <1>11. WorkerOK(w)'
    <2>1. \A c \in wk'[w].todo : cmd'[c].state # "absent"
      BY <1>1, <1>3, <1>10, Types DEF WorkerOK, Onward, WorkerRow
    <2> QED BY <1>1, <1>3, <1>8, <2>1 DEF WorkerOK, PreDispatch, Working, Writes
  <1> QED BY <1>3, <1>10, <1>11, QuietMove

LEMMA InterruptKeeps ==
  ASSUME QueueInv, NEW w \in Workers, InterruptCommand(w)
  PROVE  QueueInv'
  <1> SUFFICES ASSUME NEW n \in Commands, n = wk[w].now PROVE QueueInv'
    BY Parts DEF WorkerOK, InterruptCommand
  <1> DEFINE r == [cmd[n] EXCEPT !.state = "interrupted"]
  <1>1. /\ TypeOK /\ WorkerOK(w) /\ wk[w].pc = "interrupt" /\ cmd \in [Commands -> CommandRow]
        /\ n \in Commands /\ cmd[n].state # "absent" /\ CommandOK(n) /\ faults \in 0 .. MaxFaults
    BY Parts, Types DEF InterruptCommand, WorkerOK
  <1>2. UNCHANGED <<claimVars, entered, done, faults>> /\ Go(w, "release")
    BY DEF InterruptCommand
  <1>3. /\ wk' \in [Workers -> WorkerRow] /\ \A v \in Workers : v # w => wk'[v] = wk[v]
        /\ wk'[w].pc = "release" /\ wk'[w].todo = wk[w].todo /\ wk'[w].now = n
    BY <1>1, <1>2, GoFacts DEF Steps
  <1>4. cmd' = cmd \/ (cmd' = [cmd EXCEPT ![n] = r] /\ cmd[n].state = "running" /\ cmd[n].worker = w)
    <2>1. cmd' = cmd \/ (cmd' = [cmd EXCEPT ![n].state = "interrupted"] /\ cmd[n].state = "running" /\ cmd[n].worker = w)
      BY DEF InterruptCommand
    <2>2. [cmd EXCEPT ![n].state = "interrupted"] = [cmd EXCEPT ![n] = r]
      BY <1>1
    <2> QED BY <2>1, <2>2
  <1>5. r \in CommandRow /\ r.state = "interrupted" /\ r.target = cmd[n].target /\ r.reconciled = cmd[n].reconciled
    BY <1>1 DEF CommandRow, CommandStates
  <1> HIDE DEF r
  <1>6. Writes(w, n) /\ (cmd' = cmd \/ cmd'[n].state = "interrupted")
    <2>1. CASE cmd' = cmd
      BY <1>1, <2>1, NothingWritten
    <2>2. CASE cmd[n].state = "running" /\ cmd[n].worker = w /\ cmd' = [cmd EXCEPT ![n] = r]
      <3>1. cmd' \in [Commands -> CommandRow] /\ cmd'[n] = r /\ \A b \in Commands : b # n => cmd'[b] = cmd[b]
        BY <1>1, <1>5, <2>2
      <3>2. CommandTyped
        BY <1>1, <1>5, <3>1, Types DEF CommandTyped
      <3> QED BY <1>5, <2>2, <3>1, <3>2 DEF Writes
    <2> QED BY <1>4, <2>1, <2>2
  <1>7. CommandOK(n)'
    BY <1>1, <1>2, <1>6 DEF CommandOK
  <1>8. /\ Moves(w) /\ TypeOK' /\ Onward /\ \A c \in Commands : CommandOK(c)'
        /\ done' = done
    BY <1>1, <1>2, <1>3, <1>6, <1>7, RowWritten
  <1>9. WorkerOK(w)'
    <2>1. \A c \in wk'[w].todo : cmd'[c].state # "absent"
      BY <1>1, <1>3, <1>8, Types DEF WorkerOK, Onward, WorkerRow
    <2> QED BY <1>1, <1>3, <1>6, <2>1 DEF WorkerOK, PreDispatch, Working, Writes
  <1> QED BY <1>3, <1>8, <1>9, QuietMove

-----------------------------------------------------------------------------
(* The steps of a worker that write the claims. *)

\* A live claim of another worker is left alone.
ClaimMoved(w) ==
  /\ ClaimTyped
  /\ \A t \in Targets : rows[t].owner \in Workers \ {w} /\ rows[t].left > 0 => rows'[t] = rows[t]

LEMMA ClaimTaken ==
  ASSUME TypeOK, NEW w \in Workers, NEW t \in Targets, Claims!InsertClaim(w, t) \/ Claims!StealClaim(w, t)
  PROVE  ClaimMoved(w) /\ rows'[t] = [owner |-> w, left |-> Lease]
  <1> DEFINE r == [owner |-> w, left |-> Lease]
  <1>1. rows \in [Targets -> ClaimRow] /\ held \in [Workers -> SUBSET Targets]
    BY Types
  <1>2. r \in ClaimRow
    BY BudgetAssumption DEF ClaimRow
  <1>3. rows' = [rows EXCEPT ![t] = r] /\ held' = [held EXCEPT ![w] = held[w] \cup {t}]
    BY <1>1 DEF Claims!InsertClaim, Claims!StealClaim, Claims!NewRow, Claims!Hold
  <1>4. rows[t].owner = Nobody \/ rows[t].left = 0
    BY DEF Claims!InsertClaim, Claims!StealClaim, Claims!HasRow
  <1>5. held' \in [Workers -> SUBSET Targets]
    BY <1>1, <1>3
  <1> HIDE DEF r
  <1>6. rows' \in [Targets -> ClaimRow] /\ rows'[t] = r /\ \A u \in Targets : u # t => rows'[u] = rows[u]
    BY <1>1, <1>2, <1>3
  <1>7. ~(rows[t].owner \in Workers /\ rows[t].left > 0)
    BY <1>4, QueueAssumption
  <1>8. ClaimMoved(w)
    BY <1>5, <1>6, <1>7 DEF ClaimMoved, ClaimTyped
  <1> QED BY <1>6, <1>8 DEF r

LEMMA ClaimLeft ==
  ASSUME TypeOK, NEW w \in Workers, NEW t \in Targets,
         Claims!InsertUnconfirmed(w, t) \/ Claims!ReleaseClaim(w, t) \/ Claims!LoseInstance(w)
  PROVE  ClaimMoved(w)
  <1> DEFINE r == [owner |-> w, left |-> Lease]
  <1>1. rows \in [Targets -> ClaimRow] /\ held \in [Workers -> SUBSET Targets]
    BY Types
  <1>2. r \in ClaimRow /\ Claims!NoRow \in ClaimRow
    BY BudgetAssumption DEF ClaimRow, Claims!NoRow
  <1>3. held' \in [Workers -> SUBSET Targets]
    BY <1>1 DEF Claims!InsertUnconfirmed, Claims!ReleaseClaim, Claims!LoseInstance
  <1>4. \/ rows' = rows
        \/ rows[t].owner = Nobody /\ rows' = [rows EXCEPT ![t] = r]
        \/ rows[t].owner = w /\ rows' = [rows EXCEPT ![t] = Claims!NoRow]
    BY DEF Claims!InsertUnconfirmed, Claims!ReleaseClaim, Claims!LoseInstance, Claims!HasRow, Claims!NewRow
  <1> HIDE DEF r
  <1>5. CASE rows' = rows
    BY <1>1, <1>3, <1>5 DEF ClaimMoved, ClaimTyped
  <1>6. CASE rows[t].owner = Nobody /\ rows' = [rows EXCEPT ![t] = r]
    BY <1>1, <1>2, <1>3, <1>6, QueueAssumption DEF ClaimMoved, ClaimTyped
  <1>7. CASE rows[t].owner = w /\ rows' = [rows EXCEPT ![t] = Claims!NoRow]
    BY <1>1, <1>2, <1>3, <1>7 DEF ClaimMoved, ClaimTyped
  <1> QED BY <1>4, <1>5, <1>6, <1>7

LEMMA ClaimsWritten ==
  ASSUME QueueInv, NEW w \in Workers, ClaimMoved(w),
         wk' \in [Workers -> WorkerRow], \A v \in Workers : v # w => wk'[v] = wk[v],
         UNCHANGED <<cmd, entered, done>>, faults' \in 0 .. MaxFaults
  PROVE  Moves(w) /\ TypeOK' /\ Onward /\ \A c \in Commands : CommandOK(c)'
  <1>1. TypeOK /\ \A c \in Commands : CommandOK(c)
    BY Parts
  <1>2. TypeOK'
    BY <1>1, Types, TypesNext DEF ClaimMoved, CommandTyped
  <1>3. Moves(w)
    BY DEF Moves, ClaimMoved
  <1>4. Onward
    BY DEF Onward
  <1>5. \A c \in Commands : CommandOK(c)'
    BY <1>1, SettledIsOK DEF Settled
  <1> QED BY <1>2, <1>3, <1>4, <1>5

LEMMA TakeKeeps ==
  ASSUME QueueInv, NEW w \in Workers, TakeNext(w)
  PROVE  QueueInv'
  <1>1. /\ TypeOK /\ WorkerOK(w) /\ wk \in [Workers -> WorkerRow] /\ wk[w].pc = "take"
        /\ faults \in 0 .. MaxFaults /\ UNCHANGED <<cmd, entered, done>>
        /\ wk[w] \in WorkerRow /\ wk[w].todo \in SUBSET Commands /\ wk[w].todo # {}
    BY Parts, Types DEF TakeNext, WorkerRow
  <1>2. Min(wk[w].todo) \in wk[w].todo
    BY <1>1, OldestIsOne
  <1> SUFFICES ASSUME NEW c \in Commands, c = Min(wk[w].todo), c \in wk[w].todo PROVE QueueInv'
    BY <1>1, <1>2
  <1>3. cmd[c].target \in Targets /\ cmd[c].state # "absent"
    BY <1>1, Types DEF CommandRow, WorkerOK
  <1>4. CASE /\ Claims!InsertClaim(w, cmd[c].target) \/ Claims!StealClaim(w, cmd[c].target)
             /\ wk' = [wk EXCEPT ![w] = [@ EXCEPT !.pc = "check", !.todo = wk[w].todo \ {c}, !.now = c, !.spent = 0]]
             /\ UNCHANGED faults
    <2> DEFINE r == [wk[w] EXCEPT !.pc = "check", !.todo = wk[w].todo \ {c}, !.now = c, !.spent = 0]
    <2>1. /\ r \in WorkerRow /\ r.pc = "check" /\ r.todo = wk[w].todo \ {c}
          /\ r.now = c /\ r.spent = 0
      <3>1. 0 \in 0 .. Lease + 1
        BY BudgetAssumption
      <3> QED BY <1>1, <3>1 DEF WorkerRow, Steps
    <2>2. wk' = [wk EXCEPT ![w] = r]
      BY <1>4
    <2> HIDE DEF r
    <2>3. wk' \in [Workers -> WorkerRow] /\ wk'[w] = r /\ \A v \in Workers : v # w => wk'[v] = wk[v]
      BY <1>1, <2>1, <2>2
    <2>4. ClaimMoved(w) /\ rows'[cmd[c].target] = [owner |-> w, left |-> Lease]
      BY <1>1, <1>3, <1>4, ClaimTaken
    <2>5. faults' \in 0 .. MaxFaults
      BY <1>1, <1>4
    <2>6. Moves(w) /\ TypeOK' /\ Onward /\ \A b \in Commands : CommandOK(b)'
      BY <1>1, <2>3, <2>4, <2>5, ClaimsWritten
    <2>7. WorkerOK(w)'
      <3>1. cmd' = cmd /\ wk'[w].now = c /\ wk'[w].pc = "check" /\ Lease - wk'[w].spent = Lease
        BY <1>1, <2>1, <2>3, BudgetAssumption
      <3>2. \A b \in wk'[w].todo : cmd'[b].state # "absent"
        BY <1>1, <2>1, <2>3 DEF WorkerOK
      <3>3. rows'[cmd'[wk'[w].now].target] = [owner |-> w, left |-> Lease - wk'[w].spent]
        BY <2>4, <3>1
      <3> QED BY <1>3, <3>1, <3>2, <3>3 DEF WorkerOK, Working, TargetOf
    <2>8. wk'[w].pc = "check" /\ done \subseteq done'
      BY <1>1, <2>1, <2>3
    <2> QED BY <2>6, <2>7, <2>8, QuietMove
  <1>5. CASE /\ wk' = [wk EXCEPT ![w].todo = @ \ {c}]
             /\ UNCHANGED <<claimVars, faults>> \/ (Fault /\ Claims!InsertUnconfirmed(w, cmd[c].target))
    <2> DEFINE r == [wk[w] EXCEPT !.todo = wk[w].todo \ {c}]
    <2>1. r \in WorkerRow /\ r.pc = "take" /\ r.todo = wk[w].todo \ {c}
      BY <1>1 DEF WorkerRow
    <2>2. wk' = [wk EXCEPT ![w] = r]
      BY <1>1, <1>5
    <2> HIDE DEF r
    <2>3. wk' \in [Workers -> WorkerRow] /\ wk'[w] = r /\ \A v \in Workers : v # w => wk'[v] = wk[v]
      BY <1>1, <2>1, <2>2
    <2>4. ClaimMoved(w)
      <3>1. CASE UNCHANGED <<claimVars, faults>>
        BY <1>1, <3>1, Types DEF ClaimMoved, ClaimTyped, claimVars
      <3>2. CASE Claims!InsertUnconfirmed(w, cmd[c].target)
        BY <1>1, <1>3, <3>2, ClaimLeft
      <3> QED BY <1>5, <3>1, <3>2
    <2>5. faults' \in 0 .. MaxFaults
      BY <1>1, <1>5, FaultFacts
    <2>6. Moves(w) /\ TypeOK' /\ Onward /\ \A b \in Commands : CommandOK(b)'
      BY <1>1, <2>3, <2>4, <2>5, ClaimsWritten
    <2>7. WorkerOK(w)'
      <3>1. \A b \in wk'[w].todo : cmd'[b].state # "absent"
        BY <1>1, <2>1, <2>3 DEF WorkerOK
      <3> QED BY <2>1, <2>3, <3>1 DEF WorkerOK, Working, PreDispatch
    <2>8. wk'[w].pc = "take" /\ done \subseteq done'
      BY <1>1, <2>1, <2>3
    <2> QED BY <2>6, <2>7, <2>8, QuietMove
  <1> QED BY <1>4, <1>5 DEF TakeNext

LEMMA ReleaseKeeps ==
  ASSUME QueueInv, NEW w \in Workers, ReleaseTarget(w)
  PROVE  QueueInv'
  <1> DEFINE r == [wk[w] EXCEPT !.pc = "take", !.now = 0, !.spent = 0]
  <1>1. /\ TypeOK /\ WorkerOK(w) /\ wk \in [Workers -> WorkerRow] /\ wk[w].pc = "release"
        /\ TargetOf(w) \in Targets /\ UNCHANGED <<cmd, entered, done>>
    BY Parts, Types DEF ReleaseTarget, WorkerOK, TargetOf, CommandRow
  <1>2. r \in WorkerRow /\ r.pc = "take" /\ r.todo = wk[w].todo
    <2>1. 0 \in 0 .. Lease + 1
      BY BudgetAssumption
    <2> QED BY <1>1, <2>1 DEF WorkerRow, Steps
  <1>3. wk' = [wk EXCEPT ![w] = r]
    BY DEF ReleaseTarget
  <1> HIDE DEF r
  <1>4. wk' \in [Workers -> WorkerRow] /\ wk'[w] = r /\ \A v \in Workers : v # w => wk'[v] = wk[v]
    BY <1>1, <1>2, <1>3
  <1>5. ClaimMoved(w)
    BY <1>1, ClaimLeft DEF ReleaseTarget
  <1>6. faults' \in 0 .. MaxFaults
    <2>1. Fault \/ UNCHANGED faults
      BY DEF ReleaseTarget
    <2> QED BY <1>1, <2>1, FaultFacts
  <1>7. Moves(w) /\ TypeOK' /\ Onward /\ \A b \in Commands : CommandOK(b)'
    BY <1>1, <1>4, <1>5, <1>6, ClaimsWritten
  <1>8. WorkerOK(w)'
    BY <1>1, <1>2, <1>4 DEF WorkerOK, Working, PreDispatch
  <1>9. wk'[w].pc = "take" /\ done \subseteq done'
    BY <1>1, <1>2, <1>4
  <1> QED BY <1>7, <1>8, <1>9, QuietMove

LEMMA CrashKeeps ==
  ASSUME QueueInv, NEW w \in Workers, Crash(w)
  PROVE  QueueInv'
  <1>1. TypeOK /\ WorkerOK(w) /\ wk \in [Workers -> WorkerRow] /\ UNCHANGED <<cmd, entered, done>>
    BY Parts, Types DEF Crash
  <1>2. Idle \in WorkerRow /\ Idle.pc = "idle" /\ Idle.todo = {}
    BY BudgetAssumption DEF Idle, WorkerRow, Steps
  <1>3. wk' \in [Workers -> WorkerRow] /\ wk'[w] = Idle /\ \A v \in Workers : v # w => wk'[v] = wk[v]
    BY <1>1, <1>2 DEF Crash
  <1>4. ClaimMoved(w)
    <2>1. PICK t \in Targets : TRUE
      BY QueueAssumption
    <2> QED BY <1>1, <2>1, ClaimLeft DEF Crash
  <1>5. faults' \in 0 .. MaxFaults
    BY <1>1, FaultFacts DEF Crash
  <1>6. Moves(w) /\ TypeOK' /\ Onward /\ \A b \in Commands : CommandOK(b)'
    BY <1>1, <1>3, <1>4, <1>5, ClaimsWritten
  <1>7. WorkerOK(w)'
    BY <1>2, <1>3 DEF WorkerOK, Working, PreDispatch
  <1>8. wk'[w].pc = "idle" /\ done \subseteq done'
    BY <1>1, <1>2, <1>3
  <1> QED BY <1>6, <1>7, <1>8, QuietMove

-----------------------------------------------------------------------------
(* Time. *)

\* A worker's clock and its claim's run at the same rate.
LEMMA TickKeeps ==
  ASSUME QueueInv, Tick
  PROVE  QueueInv'
  <1>1. /\ TypeOK /\ Undisturbed /\ (\A w \in Workers : WorkerOK(w)) /\ \A c \in Commands : CommandOK(c)
        /\ cmd \in [Commands -> CommandRow] /\ wk \in [Workers -> WorkerRow]
        /\ rows \in [Targets -> ClaimRow] /\ held \in [Workers -> SUBSET Targets]
        /\ entered' = entered /\ done' = done
    BY Parts, Types DEF Tick
  <1>2. \A n \in 0 .. Lease : Claims!Ticked(n) \in 0 .. Lease
    BY BudgetAssumption DEF Claims!Ticked
  <1>3. /\ rows' = [k \in Targets |-> [rows[k] EXCEPT !.left = Claims!Ticked(rows[k].left)]]
        /\ held' = held
        /\ cmd' = [c \in Commands |-> [cmd[c] EXCEPT !.left = Claims!Ticked(cmd[c].left)]]
    BY DEF Tick, Claims!ClockTick
  <1>4. \A c \in Commands :
          /\ cmd'[c] \in CommandRow /\ cmd'[c].state = cmd[c].state /\ cmd'[c].target = cmd[c].target
          /\ cmd'[c].worker = cmd[c].worker /\ cmd'[c].reconciled = cmd[c].reconciled
    <2> SUFFICES ASSUME NEW c \in Commands
                 PROVE  /\ cmd'[c] \in CommandRow /\ cmd'[c].state = cmd[c].state /\ cmd'[c].target = cmd[c].target
                        /\ cmd'[c].worker = cmd[c].worker /\ cmd'[c].reconciled = cmd[c].reconciled
      OBVIOUS
    <2> DEFINE n == Claims!Ticked(cmd[c].left)
    <2>1. cmd[c] \in CommandRow /\ cmd'[c] = [cmd[c] EXCEPT !.left = n]
      BY <1>1, <1>3
    <2>2. n \in 0 .. Lease
      BY <1>2, <2>1 DEF CommandRow
    <2> HIDE DEF n
    <2> QED BY <2>1, <2>2 DEF CommandRow
  <1>5. \A t \in Targets : rows'[t] \in ClaimRow
    <2> SUFFICES ASSUME NEW t \in Targets PROVE rows'[t] \in ClaimRow
      OBVIOUS
    <2> DEFINE n == Claims!Ticked(rows[t].left)
    <2>1. rows[t] \in ClaimRow /\ rows'[t] = [rows[t] EXCEPT !.left = n]
      BY <1>1, <1>3
    <2>2. n \in 0 .. Lease
      BY <1>2, <2>1 DEF ClaimRow
    <2> HIDE DEF n
    <2> QED BY <2>1, <2>2 DEF ClaimRow
  <1>6. \A w \in Workers :
          /\ wk'[w] \in WorkerRow /\ wk'[w].pc = wk[w].pc /\ wk'[w].todo = wk[w].todo /\ wk'[w].now = wk[w].now
          /\ wk[w].now = 0 \/ wk[w].spent > Lease \/ wk'[w].spent = wk[w].spent + 1
          /\ wk'[w].spent >= wk[w].spent
    <2> SUFFICES ASSUME NEW w \in Workers
                 PROVE  /\ wk'[w] \in WorkerRow /\ wk'[w].pc = wk[w].pc /\ wk'[w].todo = wk[w].todo
                        /\ wk'[w].now = wk[w].now
                        /\ wk[w].now = 0 \/ wk[w].spent > Lease \/ wk'[w].spent = wk[w].spent + 1
                        /\ wk'[w].spent >= wk[w].spent
      OBVIOUS
    <2>1. wk[w] \in WorkerRow /\ wk[w].spent \in 0 .. Lease + 1 /\ Lease \in Nat
      BY <1>1, BudgetAssumption DEF WorkerRow
    <2>2. CASE wk[w].now = 0 \/ wk[w].spent > Lease
      <3>1. wk'[w] = wk[w]
        BY <2>2 DEF Tick
      <3> QED BY <2>1, <2>2, <3>1
    <2>3. CASE ~(wk[w].now = 0 \/ wk[w].spent > Lease)
      <3> DEFINE n == wk[w].spent + 1
      <3>1. wk'[w] = [wk[w] EXCEPT !.spent = n]
        BY <2>3 DEF Tick
      <3>2. n \in 0 .. Lease + 1 /\ n >= wk[w].spent
        BY <2>1, <2>3
      <3>3. wk'[w].spent = n
        BY <2>1, <3>1 DEF WorkerRow
      <3> HIDE DEF n
      <3>4. /\ wk'[w] \in WorkerRow /\ wk'[w].pc = wk[w].pc /\ wk'[w].todo = wk[w].todo
            /\ wk'[w].now = wk[w].now /\ wk'[w].spent >= wk[w].spent
        BY <2>1, <3>1, <3>2, <3>3 DEF WorkerRow
      <3> QED BY <3>3, <3>4 DEF n
    <2> QED BY <2>2, <2>3
  <1>7. TypeOK'
    <2>1. cmd' \in [Commands -> CommandRow] /\ rows' \in [Targets -> ClaimRow]
      BY <1>3, <1>4, <1>5
    <2>2. wk' \in [Workers -> WorkerRow]
      <3>1. wk' = [w \in Workers |-> wk'[w]]
        BY DEF Tick
      <3> QED BY <1>6, <3>1
    <2>3. CommandTyped
      BY <1>1, <1>4, <2>1, Types DEF CommandTyped
    <2>4. faults' \in 0 .. MaxFaults
      <3>1. Fault \/ UNCHANGED faults
        BY DEF Tick
      <3> QED BY <1>1, <3>1, FaultFacts
    <2> QED BY <1>1, <1>3, <2>1, <2>2, <2>3, <2>4, Types, TypesNext DEF ClaimTyped
  <1>8. \A c \in Commands : CommandOK(c)'
    BY <1>1, <1>4 DEF CommandOK
  <1>9. ASSUME NEW w \in Workers, wk[w].pc \notin {"idle", "take"}
        PROVE  wk[w].now \in Commands /\ cmd[wk[w].now].target \in Targets /\ TargetOf(w)' = TargetOf(w)
    <2>1. wk[w].now \in Commands
      BY <1>1, <1>9 DEF WorkerOK
    <2> QED BY <1>1, <1>4, <1>6, <2>1 DEF TargetOf, CommandRow
  <1>10. ASSUME NEW w \in Workers, InBudget(w)' PROVE InBudget(w)
    <2>1. wk'[w].spent >= wk[w].spent /\ wk'[w].spent \in Nat /\ wk[w].spent \in Nat /\ Budget \in Nat
      BY <1>1, <1>6, BudgetAssumption DEF WorkerRow
    <2> QED BY <1>10, <2>1 DEF InBudget
  <1>11. ASSUME NEW w \in Workers, wk[w].pc \in PreDispatch, InBudget(w)'
         PROVE  rows'[TargetOf(w)'] = [owner |-> w, left |-> Lease - wk'[w].spent]
    <2> DEFINE t == TargetOf(w)
               s == wk[w].spent
    <2>1. t \in Targets /\ TargetOf(w)' = t /\ wk[w].now # 0
      BY <1>9, <1>11, QueueAssumption DEF PreDispatch, TargetOf
    <2>2. rows[t] = [owner |-> w, left |-> Lease - s]
      BY <1>1, <1>10, <1>11 DEF WorkerOK
    <2>3. s \in Nat /\ s <= Budget /\ Budget \in Nat /\ Lease \in Nat /\ Budget < Lease
      BY <1>1, <1>10, <1>11, BudgetAssumption DEF InBudget, WorkerRow
    <2>4. wk'[w].spent = s + 1
      BY <1>6, <2>1, <2>3
    <2>5. Claims!Ticked(Lease - s) = Lease - (s + 1)
      BY <2>3 DEF Claims!Ticked
    <2>6. rows'[t] = [rows[t] EXCEPT !.left = Claims!Ticked(rows[t].left)]
      BY <1>3, <2>1
    <2> HIDE DEF t, s
    <2>7. rows[t].left = Lease - s
      BY <2>2
    <2>8. rows'[t] = [rows[t] EXCEPT !.left = Lease - (s + 1)]
      BY <2>5, <2>6, <2>7
    <2>9. rows'[t] = [owner |-> w, left |-> Lease - (s + 1)]
      BY <2>2, <2>8
    <2> QED BY <2>1, <2>4, <2>9
  <1>12. ASSUME NEW w \in Workers PROVE WorkerOK(w)'
    <2>1. \A c \in wk'[w].todo : cmd'[c].state # "absent"
      <3>1. wk[w].todo \subseteq Commands /\ \A c \in wk[w].todo : cmd[c].state # "absent"
        BY <1>1 DEF WorkerOK, WorkerRow
      <3>2. wk'[w].todo = wk[w].todo
        BY <1>6
      <3>3. ASSUME NEW c \in wk[w].todo PROVE cmd'[c].state # "absent"
        <4>1. c \in Commands /\ cmd[c].state # "absent"
          BY <3>1
        <4>2. cmd'[c].state = cmd[c].state
          BY <1>4, <4>1
        <4> QED BY <4>1, <4>2
      <3> QED BY <3>2, <3>3
    <2>2. wk[w].pc \notin {"idle", "take"} =>
            /\ wk'[w].now \in Commands /\ cmd'[wk'[w].now].state = cmd[wk[w].now].state
            /\ cmd'[wk'[w].now].worker = cmd[wk[w].now].worker
            /\ cmd'[wk'[w].now].reconciled = cmd[wk[w].now].reconciled
      BY <1>4, <1>6, <1>9
    <2>3. wk'[w].pc = wk[w].pc /\ wk'[w].now = wk[w].now
      BY <1>6
    <2>4. wk'[w].pc \in PreDispatch /\ InBudget(w)' =>
            rows'[TargetOf(w)'] = [owner |-> w, left |-> Lease - wk'[w].spent]
      BY <1>11, <2>3
    <2>5. wk'[w].pc \in Working => Open(cmd'[wk'[w].now]) /\ cmd'[wk'[w].now].worker = w
      BY <1>1, <2>2, <2>3 DEF WorkerOK, Working, Open
    <2>6. /\ wk'[w].pc \in {"resolve", "refuse"} => entered'[wk'[w].now] = 0
          /\ wk'[w].pc = "finish" => wk'[w].now \in done'
      BY <1>1, <2>3 DEF WorkerOK
    <2>7. wk'[w].pc \notin {"idle", "take"} => wk'[w].now \in Commands /\ cmd'[wk'[w].now].state # "absent"
      BY <1>1, <2>2, <2>3 DEF WorkerOK
    <2> QED BY <2>1, <2>4, <2>5, <2>6, <2>7 DEF WorkerOK
  <1>13. Undisturbed'
    <2>1. ASSUME NEW u \in Workers, NEW v \in Workers, u # v, Executing(u)', Executing(v)' \/ Dispatching(v)'
          PROVE  TargetOf(u)' # TargetOf(v)'
      <3>1. wk[u].pc = "execute" /\ wk[v].pc \notin {"idle", "take"}
        BY <1>6, <2>1 DEF Executing, Dispatching
      <3>2. TargetOf(u)' = TargetOf(u) /\ TargetOf(v)' = TargetOf(v) /\ wk[u].now \in Commands /\ wk[v].now \in Commands
        BY <1>9, <3>1
      <3>3. Executing(u) /\ (Executing(v) \/ Dispatching(v))
        BY <1>4, <1>6, <1>10, <2>1, <3>2 DEF Executing, Dispatching
      <3> QED BY <1>1, <2>1, <3>2, <3>3 DEF Undisturbed
    <2> QED BY <2>1 DEF Undisturbed
  <1> QED BY <1>7, <1>8, <1>12, <1>13, PartsNext

-----------------------------------------------------------------------------
(* The theorems. *)

LEMMA QueueStutters == QueueInv /\ UNCHANGED vars => QueueInv'
  <1> SUFFICES ASSUME QueueInv, UNCHANGED vars PROVE QueueInv'
    OBVIOUS
  <1>1. /\ rows' = rows /\ held' = held /\ cmd' = cmd /\ wk' = wk
        /\ entered' = entered /\ done' = done /\ faults' = faults
    BY DEF vars
  <1> QED BY <1>1 DEF QueueInv, TypeOK, Claims!ClaimTypeOK, CommandsKnown, ClaimLive, RowOwned,
       DispatchKnown, Undisturbed, DispatchedOnce, OutcomeTruthful, Executing, Dispatching, InBudget, TargetOf

LEMMA NextKeeps ==
  ASSUME QueueInv, Next
  PROVE  QueueInv'
  <1>1. ASSUME NEW c \in Commands, NEW t \in Targets, Enqueue(c, t) PROVE QueueInv'
    BY <1>1, EnqueueKeeps
  <1>2. ASSUME NEW c \in Commands, Reconcile(c) PROVE QueueInv'
    BY <1>2, ReconcileKeeps
  <1>3. ASSUME NEW w \in Workers, WorkerStep(w) PROVE QueueInv'
    BY <1>3, ListKeeps, TakeKeeps, EndDrainKeeps, CheckTargetKeeps, CheckBudgetKeeps, ClaimKeeps,
       ClaimUnconfirmedKeeps, DispatchKeeps, ExecuteKeeps, FinishKeeps, InterruptKeeps,
       OutcomeLostKeeps, ReleaseKeeps DEF WorkerStep
  <1>4. ASSUME NEW w \in Workers, Crash(w) PROVE QueueInv'
    BY <1>4, CrashKeeps
  <1>5. CASE ExpireCommands
    BY <1>5, ExpireKeeps
  <1>6. CASE Tick
    BY <1>6, TickKeeps
  <1> QED BY <1>1, <1>2, <1>3, <1>4, <1>5, <1>6 DEF Next

\* The inductive invariant of the drains holds: in time a worker's claim is
\* live, its command's row is its own, what it knows of the dispatch is true,
\* and nobody who can still dispatch is past the check of a target that is
\* being executed (drain_commands, AzureSqlCommandCenterStore).
THEOREM QueueInvariant == Spec => []QueueInv
  <1>1. QueueInv /\ [Next]_vars => QueueInv'
    BY NextKeeps, QueueStutters
  <1> QED BY InitQueue, <1>1, PTL DEF Spec

\* Of the operator's commands no two execute on one target at a time, none is
\* dispatched twice, and the outcome recorded is what happened, however
\* controllers crash, stall and lose their leases and answers.
THEOREM CommandsAreSafe == Spec => []CommandsSafe
  <1>1. QueueInv => CommandsSafe
    <2> SUFFICES ASSUME QueueInv PROVE CommandsSafe
      OBVIOUS
    <2>1. OneExecutionPerTarget
      BY DEF QueueInv, Undisturbed, OneExecutionPerTarget, Executing
    <2> QED BY <2>1 DEF QueueInv, CommandsSafe
  <1> QED BY QueueInvariant, <1>1, PTL
=============================================================================
