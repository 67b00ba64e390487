----------------------- MODULE SourceAdmissionProofs -----------------------
(***************************************************************************)
(* What discovery and admission promise, for any number of items, passes,  *)
(* policies and faults.                                                    *)
(***************************************************************************)
EXTENDS SourceAdmission, FiniteSetTheorems, WellFoundedInduction, TLAPS

-----------------------------------------------------------------------------
(* The order of passes. *)

\* A bounded set of numbers that is not empty has a greatest element.
LEMMA GreatestElement ==
  ASSUME NEW n \in Nat, NEW T \in SUBSET (0 .. n), T # {}
  PROVE  \E t \in T : \A u \in T : u <= t
  <1> DEFINE Above == {t .. n : t \in T}
  <1>1. Above \subseteq FiniteSubsetsOf(0 .. n)
    <2>1. ASSUME NEW t \in T PROVE t .. n \in FiniteSubsetsOf(0 .. n)
      <3>1. t .. n \subseteq 0 .. n
        OBVIOUS
      <3>2. IsFiniteSet(t .. n)
        BY FS_Interval
      <3> QED BY <3>1, <3>2 DEF FiniteSubsetsOf
    <2> QED BY <2>1
  <1>2. PICK t \in T : \A u \in T : ~ (<<u .. n, t .. n>> \in StrictSubsetOrdering(0 .. n))
    <2>1. IsWellFoundedOn(StrictSubsetOrdering(0 .. n), FiniteSubsetsOf(0 .. n))
      BY FS_StrictSubsetOrderingWellFounded
    <2>2. PICK x \in Above : \A y \in Above : ~ (<<y, x>> \in StrictSubsetOrdering(0 .. n))
      <3>1. Above # {}
        OBVIOUS
      <3> HIDE DEF Above
      <3> QED BY <1>1, <2>1, <3>1, WFMin
    <2> QED BY <2>2
  <1>3. ASSUME NEW u \in T, t < u PROVE FALSE
    <2>1. u .. n \subseteq t .. n /\ t .. n \subseteq 0 .. n /\ u .. n # t .. n
      <3>1. t \in t .. n /\ t \notin u .. n
        BY <1>3
      <3> QED BY <1>3, <3>1
    <2>2. <<u .. n, t .. n>> \in StrictSubsetOrdering(0 .. n)
      BY <2>1 DEF StrictSubsetOrdering
    <2> QED BY <1>2, <2>2
  <1> QED BY <1>3

\* Passes are ordered by their start and their identity, totally.
LEMMA PassOrder ==
  ASSUME TypeOK
  PROVE  /\ \A p \in Passes : ~Older(p, p)
         /\ \A p, q \in Passes : p = q \/ Older(p, q) \/ Older(q, p)
         /\ \A p, q \in Passes : ~(Older(p, q) /\ Older(q, p))
         /\ \A p, q, r \in Passes : Older(p, q) /\ Older(q, r) => Older(p, r)
  <1>1. \A p \in Passes : p \in Int /\ pass[p].started \in Int
    BY AdmissionAssumption DEF TypeOK, Generation, Passes
  <1> QED BY <1>1 DEF Older

\* So some passes have a newest one, and only one.
LEMMA NewestPass ==
  ASSUME TypeOK, NEW S \in SUBSET Passes, S # {}
  PROVE  Newest(S) \in S /\ \A q \in S \ {Newest(S)} : Older(q, Newest(S))
  <1>1. MaxTime \in Nat /\ MaxPass \in Nat /\ \A p \in Passes : pass[p].started \in 0 .. MaxTime
    BY AdmissionAssumption DEF TypeOK, Generation
  <1>2. PICK p \in S : \A q \in S : pass[q].started <= pass[p].started
    <2> DEFINE Starts == {pass[q].started : q \in S}
    <2>1. Starts \in SUBSET (0 .. MaxTime) /\ Starts # {}
      BY <1>1
    <2>2. PICK t \in Starts : \A u \in Starts : u <= t
      <3> HIDE DEF Starts
      <3> QED BY <1>1, <2>1, GreatestElement
    <2> QED BY <2>2
  <1> DEFINE Last == {q \in S : pass[q].started = pass[p].started}
  <1>3. Last \in SUBSET (0 .. MaxPass) /\ Last # {}
    <2>1. \A q \in S : q \in 0 .. MaxPass
      BY <1>1 DEF Passes
    <2>2. p \in Last
      OBVIOUS
    <2>3. Last \subseteq S
      OBVIOUS
    <2> HIDE DEF Last
    <2> QED BY <2>1, <2>2, <2>3
  <1>4. PICK m \in Last : \A q \in Last : q <= m
    <2> HIDE DEF Last
    <2> QED BY <1>1, <1>3, GreatestElement
  <1>5. ASSUME NEW q \in S \ {m} PROVE Older(q, m)
    <2>1. pass[q].started <= pass[m].started /\ pass[q].started \in Int /\ pass[m].started \in Int
      BY <1>1, <1>2, <1>4
    <2>2. CASE pass[q].started < pass[m].started
      BY <2>2 DEF Older
    <2>3. CASE pass[q].started = pass[m].started
      <3>1. q <= m /\ q # m /\ q \in Int /\ m \in Int
        BY <1>1, <1>4, <2>3 DEF Passes
      <3> QED BY <2>3, <3>1 DEF Older
    <2> QED BY <2>1, <2>2, <2>3
  <1>6. m \in S
    BY <1>4
  <1> QED BY <1>5, <1>6 DEF Newest

LEMMA NewestUnique ==
  ASSUME TypeOK, NEW S \in SUBSET Passes, NEW m \in S, \A q \in S \ {m} : Older(q, m)
  PROVE  Newest(S) = m
  <1>1. Newest(S) \in S /\ \A q \in S \ {Newest(S)} : Older(q, Newest(S))
    BY NewestPass
  <1>2. CASE Newest(S) # m
    <2>1. Older(Newest(S), m) /\ Older(m, Newest(S))
      BY <1>1, <1>2
    <2> QED BY <1>1, <2>1, PassOrder
  <1> QED BY <1>2

-----------------------------------------------------------------------------
(* The invariant. *)

LEMMA Bounds ==
  /\ MaxTime \in Nat /\ MaxPass \in Nat /\ MaxPolicy \in Nat /\ MaxFaults \in Nat
  /\ 3 \in 0 .. MaxTime /\ 2 \in 0 .. MaxTime /\ 1 \in 0 .. MaxTime /\ 0 \in 0 .. MaxTime
  /\ 1 \in Passes /\ 1 \in Policies /\ 0 \in 0 .. MaxPass /\ 1 \in 0 .. MaxPass
  /\ 1 \in 0 .. MaxPolicy /\ 0 \in 0 .. MaxPolicy /\ 0 \in 0 .. MaxFaults
  BY AdmissionAssumption DEF Passes, Policies

LEMMA EmptyRecords ==
  /\ NoWork \in Work /\ NoPass \in Generation /\ NoPage \in Page
  /\ ProbeDone \in [state: {"none", "queued", "done"}, policy: Policies]
  BY Bounds DEF NoWork, Work, Active, NoPass, Generation, NoPage, Page, ProbeDone

\* A fresh workspace with its first pass satisfies the invariant.
LEMMA AdmissionStart == Init => AdmissionInv
  <1> SUFFICES ASSUME Init PROVE AdmissionInv
    OBVIOUS
  <1>1. now \in 0 .. MaxTime /\ exists \subseteq Items /\ absent \in [Items -> 0 .. MaxTime]
    BY Bounds DEF Init
  <1>2. work \in [Passes -> Work]
    <2>1. ASSUME NEW p \in Passes PROVE work[p] \in Work
      BY <2>1, Bounds DEF Init, NoWork, Work, Active
    <2> QED BY <2>1 DEF Init
  <1>3. ASSUME NEW p \in Passes
        PROVE  /\ pass[p] \in Generation /\ pass[p].started <= now
               /\ pass[p].ended # 0 => pass[p].started < pass[p].ended
               /\ pass[p].complete => pass[p].stage = "done" /\ ~pass[p].gap
    <2>1. CASE p = 1
      <3>1. PICK g : g = [NoPass EXCEPT !.stage = "done", !.started = 1, !.ended = 3, !.complete = TRUE,
                                        !.ws = "present", !.bound = {1}, !.window = "validated", !.grace = FALSE]
        OBVIOUS
      <3>2. /\ g \in Generation /\ g.started = 1 /\ g.ended = 3 /\ g.stage = "done"
            /\ g.complete = TRUE /\ g.gap = FALSE
        BY <3>1, Bounds, EmptyRecords DEF NoPass, Generation
      <3>3. pass[p] = g /\ now = 3
        BY <2>1, <3>1 DEF Init
      <3> QED BY <3>2, <3>3
    <2>2. CASE p = 2
      <3>1. PICK g : g = [NoPass EXCEPT !.stage = "workspace", !.started = 3, !.bound = {1}, !.window = "open"]
        OBVIOUS
      <3>2. /\ g \in Generation /\ g.started = 3 /\ g.ended = 0 /\ g.complete = FALSE
        BY <3>1, Bounds, EmptyRecords DEF NoPass, Generation
      <3>3. pass[p] = g /\ now = 3
        BY <2>2, <3>1 DEF Init
      <3> QED BY <3>2, <3>3
    <2>3. CASE p # 1 /\ p # 2
      <3>1. pass[p] = NoPass /\ now = 3
        BY <2>3 DEF Init
      <3> QED BY <3>1, EmptyRecords DEF NoPass
    <2> QED BY <2>1, <2>2, <2>3
  <1>4. pass \in [Passes -> Generation] /\ page \in [Passes -> Page]
    BY <1>3, EmptyRecords DEF Init
  <1>5. ASSUME NEW p \in Passes PROVE page[p] = NoPage /\ page[p].at <= now
    BY <1>5 DEF Init, NoPage
  <1>6. /\ ws \in [state: {"present", "unknown"}, pass: Passes, at: 0 .. MaxTime]
        /\ item \in [Items -> [state: States, pass: Passes, at: 0 .. MaxTime]]
        /\ sighted \in [Items -> 0 .. MaxTime] /\ ws.at <= now
    BY Bounds DEF Init, States
  <1>7. /\ probe \in [Passes -> [Items -> [state: {"none", "queued", "done"}, policy: Policies]]]
        /\ evidence \subseteq [item: Items, pass: Passes, ok: BOOLEAN, at: 0 .. MaxTime, policy: Policies]
        /\ cap \in [Items -> [ok: BOOLEAN, live: BOOLEAN, pass: Passes, at: 0 .. MaxTime]]
    BY Bounds DEF Init, ProbeDone
  <1>8. /\ policy \in Policies /\ scope \in [on: BOOLEAN, except: SUBSET Items]
        /\ intent \in [kind: {"none", "scope", "disable"}, policy: 0 .. MaxPolicy, reviewed: SUBSET Items]
        /\ target \in [Items -> Target] /\ faults \in 0 .. MaxFaults
    BY Bounds DEF Init, Enabled, NoIntent, Target
  <1>9. TypeOK
    BY <1>1, <1>2, <1>3, <1>4, <1>5, <1>6, <1>7, <1>8 DEF TypeOK
  <1>10. \A i \in Items : ItemSound(i)
    BY DEF Init, ItemSound
  <1> QED BY <1>3, <1>5, <1>6, <1>9, <1>10 DEF AdmissionInv, PassSound, PageSound

-----------------------------------------------------------------------------
(* The steps. *)

\* What the types say of one record.
LEMMA Members ==
  ASSUME TypeOK
  PROVE  /\ \A p \in Passes : work[p] \in Work /\ pass[p] \in Generation /\ page[p] \in Page
         /\ \A i \in Items : /\ item[i] \in [state: States, pass: Passes, at: 0 .. MaxTime]
                              /\ absent[i] \in 0 .. MaxTime /\ sighted[i] \in 0 .. MaxTime
                              /\ target[i] \in Target
         /\ policy \in Policies /\ now \in 0 .. MaxTime
  BY DEF TypeOK

\* A step that leaves passes, pages and the catalogue alone only has to keep the types.
LEMMA QuietStep ==
  ASSUME AdmissionInv, UNCHANGED <<now, sourceVars, pass, page, catalogueVars>>,
         work' \in [Passes -> Work],
         probe' \in [Passes -> [Items -> [state: {"none", "queued", "done"}, policy: Policies]]],
         evidence' \subseteq [item: Items, pass: Passes, ok: BOOLEAN, at: 0 .. MaxTime, policy: Policies],
         cap' \in [Items -> [ok: BOOLEAN, live: BOOLEAN, pass: Passes, at: 0 .. MaxTime]],
         policy' \in Policies, scope' \in [on: BOOLEAN, except: SUBSET Items],
         intent' \in [kind: {"none", "scope", "disable"}, policy: 0 .. MaxPolicy, reviewed: SUBSET Items],
         target' \in [Items -> Target], faults' \in 0 .. MaxFaults
  PROVE  AdmissionInv'
  <1>1. TypeOK'
    BY DEF AdmissionInv, TypeOK, sourceVars, catalogueVars
  <1>2. ASSUME NEW p \in Passes PROVE PassSound(p)'
    BY DEF AdmissionInv, PassSound, PageSound, sourceVars
  <1>3. ASSUME NEW i \in Items PROVE ItemSound(i)'
    BY DEF AdmissionInv, ItemSound, sourceVars, catalogueVars
  <1>4. (ws.at <= now)'
    BY DEF AdmissionInv, catalogueVars
  <1> QED BY <1>1, <1>2, <1>3, <1>4 DEF AdmissionInv

\* Nor has one that decides, ages or forgets passes: none starts later for it.
LEMMA PassStep ==
  ASSUME AdmissionInv, UNCHANGED <<now, sourceVars, page, catalogueVars>>,
         work' \in [Passes -> Work], pass' \in [Passes -> Generation],
         \A p \in Passes :
           /\ pass'[p].started <= pass[p].started /\ (pass'[p].stage = "none" => pass[p].stage = "none")
           /\ pass'[p].ended # 0 => pass'[p].started < pass'[p].ended
           /\ pass'[p].complete => pass'[p].stage = "done" /\ ~pass'[p].gap,
         probe' \in [Passes -> [Items -> [state: {"none", "queued", "done"}, policy: Policies]]],
         target' \in [Items -> Target], faults' \in 0 .. MaxFaults,
         UNCHANGED <<evidence, cap, scopeVars>>
  PROVE  AdmissionInv'
  <1>1. TypeOK'
    BY DEF AdmissionInv, TypeOK, sourceVars, catalogueVars, scopeVars
  <1>2. ASSUME NEW p \in Passes PROVE PassSound(p)'
    <2>1. /\ pass[p].started \in Int /\ pass'[p].started \in Int /\ page[p].at \in Int /\ now \in Int
          /\ pass'[p].started <= pass[p].started /\ pass[p].started <= now
      BY Bounds, <1>1 DEF AdmissionInv, TypeOK, Generation, Page, PassSound
    <2> QED BY <2>1 DEF AdmissionInv, PassSound, PageSound, sourceVars
  <1>3. ASSUME NEW i \in Items PROVE ItemSound(i)'
    BY DEF AdmissionInv, ItemSound, sourceVars, catalogueVars
  <1>4. (ws.at <= now)'
    BY DEF AdmissionInv, catalogueVars
  <1> QED BY <1>1, <1>2, <1>3, <1>4 DEF AdmissionInv

LEMMA FaultTyped ==
  ASSUME TypeOK, Fault
  PROVE  faults' \in 0 .. MaxFaults
  BY Bounds DEF TypeOK, Fault

\* _enqueue: probes stay probes.
LEMMA ProbesTyped ==
  ASSUME TypeOK, NEW wanted
  PROVE  WithProbes(wanted) \in [Passes -> [Items -> [state: {"none", "queued", "done"}, policy: Policies]]]
  BY DEF TypeOK, WithProbes

\* _reconcile_item: targets stay targets.
LEMMA ReconciledTyped ==
  ASSUME TypeOK, NEW i \in Items, NEW reviewed
  PROVE  ReconciledTarget(i, reviewed) \in Target
  <1>1. target[i] \in Target /\ policy \in 0 .. MaxPolicy
    BY Bounds DEF TypeOK, Policies
  <1>2. PICK t \in Target : t = target[i]
    BY <1>1
  <1>3. ASSUME NEW s \in {"removed", "paused"}
        PROVE  [t EXCEPT !.policy = policy, !.state = s] \in Target
    BY <1>1 DEF Target
  <1>4. ASSUME NEW s \in {"current", "review_required", "paused"},
               NEW b \in {"pending_review", "reviewed", "auto_detection_only"}
        PROVE  [basis |-> b, policy |-> policy, state |-> s] \in Target
    BY <1>1 DEF Target
  <1> QED BY <1>2, <1>3, <1>4 DEF ReconciledTarget

\* Work keeps its shape whatever becomes of its state and policy.
LEMMA WorkTyped ==
  ASSUME TypeOK, NEW p \in Passes, NEW s \in Active \cup {"none", "done"}
  PROVE  /\ [work EXCEPT ![p].state = s] \in [Passes -> Work]
         /\ [work EXCEPT ![p].state = s, ![p].policy = 1] \in [Passes -> Work]
  <1>1. PICK w \in Work : w = work[p]
    BY DEF TypeOK
  <1>2. [w EXCEPT !.state = s] \in Work /\ [w EXCEPT !.state = s, !.policy = 1] \in Work
    BY Bounds DEF Work
  <1>3. /\ [work EXCEPT ![p].state = s] = [work EXCEPT ![p] = [w EXCEPT !.state = s]]
        /\ [work EXCEPT ![p].state = s, ![p].policy = 1] = [work EXCEPT ![p] = [w EXCEPT !.state = s, !.policy = 1]]
    BY <1>1 DEF TypeOK
  <1> QED BY <1>2, <1>3 DEF TypeOK

\* The source loses an item, or has it back.
LEMMA VanishKeeps ==
  ASSUME AdmissionInv, NEW i \in Items, Vanish(i)
  PROVE  AdmissionInv'
  <1> USE DEF Vanish
  <1>1. faults' \in 0 .. MaxFaults
    BY FaultTyped DEF AdmissionInv
  <1>2. TypeOK'
    BY <1>1 DEF AdmissionInv, TypeOK, passVars, catalogueVars, accessVars, scopeVars
  <1>3. ASSUME NEW p \in Passes PROVE PassSound(p)'
    BY DEF AdmissionInv, PassSound, PageSound, passVars
  <1>4. ASSUME NEW j \in Items PROVE ItemSound(j)'
    BY DEF AdmissionInv, ItemSound, catalogueVars
  <1> QED BY <1>2, <1>3, <1>4 DEF AdmissionInv, catalogueVars

LEMMA AppearKeeps ==
  ASSUME AdmissionInv, NEW i \in Items, Appear(i)
  PROVE  AdmissionInv'
  <1> USE DEF Appear
  <1>1. /\ absent' \in [Items -> 0 .. MaxTime] /\ exists' = exists \cup {i} /\ absent'[i] = now
        /\ \A j \in Items \ {i} : absent'[j] = absent[j]
    BY DEF AdmissionInv, TypeOK
  <1>2. TypeOK'
    BY <1>1 DEF AdmissionInv, TypeOK, passVars, catalogueVars, accessVars, scopeVars
  <1>3. ASSUME NEW p \in Passes PROVE PassSound(p)'
    BY <1>1 DEF AdmissionInv, TypeOK, PassSound, PageSound, passVars
  <1>4. ASSUME NEW j \in Items PROVE ItemSound(j)'
    BY <1>1 DEF AdmissionInv, ItemSound, catalogueVars
  <1> QED BY <1>2, <1>3, <1>4 DEF AdmissionInv, catalogueVars

LEMMA AccessExpiresKeeps ==
  ASSUME AdmissionInv, NEW i \in Items, AccessExpires(i)
  PROVE  AdmissionInv'
  <1>1. cap' \in [Items -> [ok: BOOLEAN, live: BOOLEAN, pass: Passes, at: 0 .. MaxTime]]
    <2>1. cap \in [Items -> [ok: BOOLEAN, live: BOOLEAN, pass: Passes, at: 0 .. MaxTime]]
      BY DEF AdmissionInv, TypeOK
    <2>2. PICK c \in [ok: BOOLEAN, live: BOOLEAN, pass: Passes, at: 0 .. MaxTime] : c = cap[i]
      BY <2>1
    <2>3. PICK d : d = [c EXCEPT !.live = FALSE]
      OBVIOUS
    <2>4. d \in [ok: BOOLEAN, live: BOOLEAN, pass: Passes, at: 0 .. MaxTime]
      BY <2>3
    <2>5. cap' = [cap EXCEPT ![i] = d]
      BY <2>2, <2>3 DEF AccessExpires
    <2> QED BY <2>1, <2>4, <2>5
  <1>2. faults' \in 0 .. MaxFaults
    BY FaultTyped DEF AccessExpires, AdmissionInv
  <1> QED BY <1>1, <1>2, QuietStep
        DEF AccessExpires, AdmissionInv, TypeOK, sourceVars, passVars, catalogueVars, scopeVars

LEMMA GraceEndsKeeps ==
  ASSUME AdmissionInv, NEW p \in Passes, GraceEnds(p)
  PROVE  AdmissionInv'
  <1>1. faults' \in 0 .. MaxFaults
    BY FaultTyped DEF GraceEnds, AdmissionInv
  <1>2. ASSUME NEW q \in Passes
        PROVE  /\ pass'[q] \in Generation /\ pass'[q].started = pass[q].started
               /\ pass'[q].stage = pass[q].stage /\ pass'[q].ended = pass[q].ended
               /\ pass'[q].complete = pass[q].complete /\ pass'[q].gap = pass[q].gap
    <2>1. PICK g \in Generation : g = pass[q]
      BY DEF AdmissionInv, TypeOK
    <2>2. pass'[q] = g \/ pass'[q] = [g EXCEPT !.grace = FALSE]
      BY <2>1 DEF GraceEnds
    <2> QED BY <2>1, <2>2 DEF Generation
  <1>3. pass' \in [Passes -> Generation]
    BY <1>2 DEF GraceEnds
  <1>4. \A q \in Passes :
           /\ pass'[q].started <= pass[q].started /\ (pass'[q].stage = "none" => pass[q].stage = "none")
           /\ pass'[q].ended # 0 => pass'[q].started < pass'[q].ended
           /\ pass'[q].complete => pass'[q].stage = "done" /\ ~pass'[q].gap
    BY <1>2 DEF AdmissionInv, TypeOK, Generation
  <1> QED BY <1>1, <1>3, <1>4, PassStep
        DEF GraceEnds, AdmissionInv, TypeOK, sourceVars, catalogueVars, accessVars, scopeVars

LEMMA RetireKeeps ==
  ASSUME AdmissionInv, NEW p \in Passes, Retire(p)
  PROVE  AdmissionInv'
  <1>1. PICK g \in Generation : g = pass[p]
    BY DEF AdmissionInv, TypeOK
  <1>2. PICK r : r = [NoPass EXCEPT !.stage = "retired", !.grace = FALSE]
    OBVIOUS
  <1>3. r \in Generation /\ r.started = 0 /\ r.stage = "retired" /\ r.ended = 0 /\ r.complete = FALSE
    BY <1>2, EmptyRecords DEF NoPass, Generation
  <1>4. PICK b : b = [g EXCEPT !.ws = "none"]
    OBVIOUS
  <1>5. /\ b \in Generation /\ b.started = g.started /\ b.stage = g.stage /\ b.ended = g.ended
        /\ b.complete = g.complete /\ b.gap = g.gap
    BY <1>4 DEF Generation
  <1>6. PICK h \in {r, b} : pass' = [pass EXCEPT ![p] = h]
    <2>1. CASE pass' = [pass EXCEPT ![p] = [NoPass EXCEPT !.stage = "retired", !.grace = FALSE]]
      BY <1>2, <2>1
    <2>2. CASE pass' = [pass EXCEPT ![p].ws = "none"]
      BY <1>1, <1>4, <2>2
    <2> QED BY <2>1, <2>2 DEF Retire
  <1>7. pass' \in [Passes -> Generation] /\ pass'[p] = h /\ \A q \in Passes \ {p} : pass'[q] = pass[q]
    BY <1>3, <1>5, <1>6 DEF AdmissionInv, TypeOK
  <1>8. ASSUME NEW q \in Passes
        PROVE  /\ pass'[q].started <= pass[q].started /\ (pass'[q].stage = "none" => pass[q].stage = "none")
               /\ pass'[q].ended # 0 => pass'[q].started < pass'[q].ended
               /\ pass'[q].complete => pass'[q].stage = "done" /\ ~pass'[q].gap
    <2>1. /\ pass[q].started \in Int /\ 0 <= pass[q].started
          /\ pass[q].ended # 0 => pass[q].started < pass[q].ended
          /\ pass[q].complete => pass[q].stage = "done" /\ ~pass[q].gap
      BY Bounds DEF AdmissionInv, TypeOK, Generation
    <2>2. CASE q # p
      BY <1>7, <2>1, <2>2
    <2>3. CASE q = p /\ h = r
      BY <1>3, <1>7, <2>1, <2>3
    <2>4. CASE q = p /\ h = b
      BY <1>1, <1>5, <1>7, <2>1, <2>4
    <2> QED BY <2>2, <2>3, <2>4
  <1> QED BY <1>7, <1>8, PassStep
        DEF Retire, AdmissionInv, TypeOK, sourceVars, catalogueVars, accessVars, scopeVars

LEMMA LoseWorkerKeeps ==
  ASSUME AdmissionInv, NEW p \in Passes, LoseWorker(p)
  PROVE  AdmissionInv'
  <1> USE DEF LoseWorker
  <1>1. faults' \in 0 .. MaxFaults
    BY FaultTyped DEF AdmissionInv
  <1>2. work' \in [Passes -> Work] /\ page' \in [Passes -> Page]
    BY EmptyRecords, WorkTyped DEF AdmissionInv, TypeOK, Active
  <1>3. \A q \in Passes : page'[q] = NoPage \/ page'[q] = page[q]
    BY DEF AdmissionInv, TypeOK
  <1>4. \A q \in Passes : page'[q].at <= now
    BY <1>3 DEF AdmissionInv, TypeOK, NoPage
  <1>5. TypeOK'
    BY <1>1, <1>2, <1>4 DEF AdmissionInv, TypeOK, sourceVars, catalogueVars, accessVars, scopeVars
  <1>6. ASSUME NEW q \in Passes PROVE PassSound(q)'
    BY <1>3 DEF AdmissionInv, PassSound, PageSound, sourceVars
  <1>7. ASSUME NEW i \in Items PROVE ItemSound(i)'
    BY DEF AdmissionInv, ItemSound, sourceVars, catalogueVars
  <1> QED BY <1>5, <1>6, <1>7 DEF AdmissionInv, catalogueVars

LEMMA ClaimKeeps ==
  ASSUME AdmissionInv, NEW p \in Passes, Claim(p)
  PROVE  AdmissionInv'
  <1>1. work' \in [Passes -> Work]
    BY WorkTyped DEF Claim, AdmissionInv, Active
  <1>2. CASE UNCHANGED pass
    BY <1>1, <1>2, QuietStep
       DEF Claim, AdmissionInv, TypeOK, sourceVars, catalogueVars, accessVars, scopeVars
  <1>3. CASE /\ pass[p].stage = "none"
             /\ pass' = [pass EXCEPT ![p] = [NoPass EXCEPT !.stage = "workspace", !.started = now,
                                                           !.bound = {policy}, !.window = "open"]]
    <2>1. PICK g : g = [NoPass EXCEPT !.stage = "workspace", !.started = now,
                                      !.bound = {policy}, !.window = "open"]
      OBVIOUS
    <2>2. g \in Generation /\ g.started = now /\ g.ended = 0 /\ g.complete = FALSE
      <3>1. PICK e \in Generation : e = NoPass /\ e.ended = 0 /\ e.complete = FALSE
        BY EmptyRecords DEF NoPass
      <3>2. now \in 0 .. MaxTime /\ {policy} \in SUBSET Policies
        BY DEF AdmissionInv, TypeOK
      <3>3. g = [e EXCEPT !.stage = "workspace", !.started = now, !.bound = {policy}, !.window = "open"]
        BY <2>1, <3>1
      <3> QED BY <3>1, <3>2, <3>3 DEF Generation
    <2>3. /\ pass' \in [Passes -> Generation] /\ pass'[p] = g
          /\ \A q \in Passes \ {p} : pass'[q] = pass[q]
      BY <1>3, <2>1, <2>2 DEF AdmissionInv, TypeOK
    <2>4. page[p] = NoPage
      BY <1>3 DEF AdmissionInv, PassSound, PageSound
    <2>5. UNCHANGED <<now, exists, absent, page, ws, item, sighted, probe, evidence, cap, policy,
                      scope, intent, target, faults>>
      BY DEF Claim, sourceVars, catalogueVars, accessVars, scopeVars
    <2>6. \A q \in Passes : /\ pass'[q].ended # 0 => pass'[q].started < pass'[q].ended
                            /\ pass'[q].complete => pass'[q].stage = "done" /\ ~pass'[q].gap
                            /\ page[q].at <= now
      BY <2>2, <2>3 DEF AdmissionInv, TypeOK
    <2>7. TypeOK'
      BY <1>1, <2>3, <2>5, <2>6 DEF AdmissionInv, TypeOK
    <2>8. ASSUME NEW q \in Passes PROVE PassSound(q)'
      <3>1. now \in Int /\ now <= now
        BY Bounds DEF AdmissionInv, TypeOK
      <3>2. CASE q = p
        BY <2>2, <2>3, <2>4, <2>5, <3>1, <3>2 DEF PassSound, PageSound
      <3>3. CASE q # p
        BY <2>3, <2>5, <3>3 DEF AdmissionInv, PassSound, PageSound
      <3> QED BY <3>2, <3>3
    <2>9. ASSUME NEW i \in Items PROVE ItemSound(i)'
      BY <2>5 DEF AdmissionInv, ItemSound
    <2> QED BY <2>5, <2>7, <2>8, <2>9 DEF AdmissionInv
  <1> QED BY <1>2, <1>3 DEF Claim

LEMMA SupersedeKeeps ==
  ASSUME AdmissionInv, NEW p \in Passes, Supersede(p)
  PROVE  AdmissionInv'
  <1>1. work' \in [Passes -> Work]
    BY WorkTyped DEF Supersede, AdmissionInv, Active
  <1> QED BY <1>1, QuietStep
        DEF Supersede, AdmissionInv, TypeOK, sourceVars, catalogueVars, accessVars, scopeVars

\* The first work that is still free can be queued.
LEMMA QueuedTyped ==
  ASSUME TypeOK, NEW after \in 0 .. MaxPass,
         NEW free, free = {q \in Passes : work[q].state = "none"}, free # {}
  PROVE  [work EXCEPT ![Min(free)] = [state |-> "queued", policy |-> policy, after |-> after]] \in [Passes -> Work]
  <1>1. [state |-> "queued", policy |-> policy, after |-> after] \in Work
    BY DEF TypeOK, Work, Active
  <1> QED BY <1>1 DEF TypeOK

LEMMA SuccessorTyped ==
  ASSUME TypeOK, NEW p \in Passes
  PROVE  Successor(p) \in [Passes -> Work]
  <1>1. p \in 0 .. MaxPass
    BY Bounds DEF Passes
  <1>2. PICK free : free = {q \in Passes : work[q].state = "none"}
    OBVIOUS
  <1>3. \/ Successor(p) = work
        \/ free # {} /\ Successor(p) = [work EXCEPT ![Min(free)] =
                                            [state |-> "queued", policy |-> policy, after |-> p]]
    BY <1>2 DEF Successor
  <1>4. CASE Successor(p) = work
    BY <1>4 DEF TypeOK
  <1>5. CASE free # {} /\ Successor(p) = [work EXCEPT ![Min(free)] =
                                            [state |-> "queued", policy |-> policy, after |-> p]]
    BY <1>1, <1>2, <1>5, QueuedTyped
  <1> QED BY <1>3, <1>4, <1>5

\* One pass is decided: it keeps its times, its phase and its completeness.
LEMMA PassFrame ==
  ASSUME AdmissionInv, UNCHANGED <<now, sourceVars, page, catalogueVars>>,
         NEW p \in Passes, NEW h \in Generation,
         h.started = pass[p].started, h.stage = pass[p].stage, h.ended = pass[p].ended,
         h.complete = pass[p].complete, h.gap = pass[p].gap,
         pass' \in [Passes -> Generation], pass'[p] = h, \A q \in Passes \ {p} : pass'[q] = pass[q],
         work' \in [Passes -> Work],
         probe' \in [Passes -> [Items -> [state: {"none", "queued", "done"}, policy: Policies]]],
         target' \in [Items -> Target], faults' \in 0 .. MaxFaults,
         UNCHANGED <<evidence, cap, scopeVars>>
  PROVE  AdmissionInv'
  <1>1. ASSUME NEW q \in Passes
        PROVE  /\ pass'[q].started <= pass[q].started /\ (pass'[q].stage = "none" => pass[q].stage = "none")
               /\ pass'[q].ended # 0 => pass'[q].started < pass'[q].ended
               /\ pass'[q].complete => pass'[q].stage = "done" /\ ~pass'[q].gap
    <2>1. /\ pass'[q].started = pass[q].started /\ pass'[q].stage = pass[q].stage /\ pass'[q].ended = pass[q].ended
          /\ pass'[q].complete = pass[q].complete /\ pass'[q].gap = pass[q].gap
      OBVIOUS
    <2>2. /\ pass[q].started \in Int
          /\ pass[q].ended # 0 => pass[q].started < pass[q].ended
          /\ pass[q].complete => pass[q].stage = "done" /\ ~pass[q].gap
      BY Bounds DEF AdmissionInv, TypeOK, Generation
    <2> QED BY <2>1, <2>2
  <1> QED BY <1>1, PassStep

LEMMA RejectPassKeeps ==
  ASSUME AdmissionInv, NEW p \in Passes, RejectPass(p)
  PROVE  AdmissionInv'
  <1>1. PICK g \in Generation : g = pass[p]
    BY DEF AdmissionInv, TypeOK
  <1>2. PICK h : h = [g EXCEPT !.window = "rejected", !.bound = {}]
    OBVIOUS
  <1>3. /\ h \in Generation /\ h.started = g.started /\ h.stage = g.stage /\ h.ended = g.ended
        /\ h.complete = g.complete /\ h.gap = g.gap
    BY <1>2 DEF Generation
  <1>4. pass' = [pass EXCEPT ![p] = h]
    BY <1>1, <1>2 DEF RejectPass, AdmissionInv, TypeOK
  <1>5. pass' \in [Passes -> Generation] /\ pass'[p] = h /\ \A q \in Passes \ {p} : pass'[q] = pass[q]
    BY <1>3, <1>4 DEF AdmissionInv, TypeOK
  <1>6. UNCHANGED <<now, sourceVars, page, catalogueVars, work, probe, target, faults, evidence, cap, scopeVars>>
    BY DEF RejectPass, accessVars
  <1>7. /\ work' \in [Passes -> Work] /\ target' \in [Items -> Target] /\ faults' \in 0 .. MaxFaults
        /\ probe' \in [Passes -> [Items -> [state: {"none", "queued", "done"}, policy: Policies]]]
    BY <1>6 DEF AdmissionInv, TypeOK
  <1> QED BY <1>1, <1>3, <1>5, <1>6, <1>7, PassFrame

LEMMA PublishPassKeeps ==
  ASSUME AdmissionInv, NEW p \in Passes, PublishPass(p)
  PROVE  AdmissionInv'
  <1>1. PICK g \in Generation : g = pass[p]
    BY DEF AdmissionInv, TypeOK
  <1>2. PICK w : w = CASE ~Finished(p) -> g.window [] pass[p].complete -> "validated" [] OTHER -> "rejected"
    OBVIOUS
  <1>3. PICK h : h = [g EXCEPT !.window = w]
    OBVIOUS
  <1>4. /\ h \in Generation /\ h.started = g.started /\ h.stage = g.stage /\ h.ended = g.ended
        /\ h.complete = g.complete /\ h.gap = g.gap
    <2>1. w \in {"none", "open", "validated", "rejected"}
      BY <1>2 DEF Generation
    <2> QED BY <1>3, <2>1 DEF Generation
  <1>5. pass' = [pass EXCEPT ![p] = h]
    <2>1. pass' = [pass EXCEPT ![p].window = w]
      BY <1>1, <1>2 DEF PublishPass, AdmissionInv, TypeOK, Finished
    <2> QED BY <1>1, <1>3, <2>1 DEF AdmissionInv, TypeOK
  <1>6. pass' \in [Passes -> Generation] /\ pass'[p] = h /\ \A q \in Passes \ {p} : pass'[q] = pass[q]
    BY <1>4, <1>5 DEF AdmissionInv, TypeOK
  <1>7. work' \in [Passes -> Work]
    BY SuccessorTyped DEF PublishPass, AdmissionInv
  <1>8. target' \in [Items -> Target]
    BY ReconciledTyped DEF PublishPass, AdmissionInv
  <1>9. probe' \in [Passes -> [Items -> [state: {"none", "queued", "done"}, policy: Policies]]]
    BY ProbesTyped DEF PublishPass, AdmissionInv
  <1>10. UNCHANGED <<now, sourceVars, page, catalogueVars, evidence, cap, scopeVars, faults>>
    BY DEF PublishPass
  <1>11. faults' \in 0 .. MaxFaults
    BY <1>10 DEF AdmissionInv, TypeOK
  <1> QED BY <1>1, <1>4, <1>6, <1>7, <1>8, <1>9, <1>10, <1>11, PassFrame

\* _publish_scope brings the targets to the policy and keeps everything else.
LEMMA PublishIntentKeeps ==
  ASSUME AdmissionInv, PublishIntent
  PROVE  AdmissionInv'
  <1>1. intent' \in [kind: {"none", "scope", "disable"}, policy: 0 .. MaxPolicy, reviewed: SUBSET Items]
    BY Bounds DEF PublishIntent, NoIntent
  <1>2. target' \in [Items -> Target]
    <2>1. CASE intent.kind = "scope" /\ target' = [i \in Items |-> ReconciledTarget(i, i \in intent.reviewed)]
      <3>1. ASSUME NEW i \in Items PROVE ReconciledTarget(i, i \in intent.reviewed) \in Target
        BY ReconciledTyped, Zenon DEF AdmissionInv
      <3> QED BY <2>1, <3>1
    <2>2. CASE target' = [i \in Items |-> IF target[i].state \in {"none", "removed"} THEN target[i]
                                          ELSE [target[i] EXCEPT !.state = "paused", !.policy = policy]]
      <3>1. ASSUME NEW i \in Items PROVE target'[i] \in Target
        <4>1. PICK t \in Target : t = target[i]
          BY DEF AdmissionInv, TypeOK
        <4>2. policy \in 0 .. MaxPolicy
          BY Bounds DEF AdmissionInv, TypeOK, Policies
        <4>3. [t EXCEPT !.state = "paused", !.policy = policy] \in Target
          BY <4>2 DEF Target
        <4> QED BY <2>2, <4>1, <4>3
      <3> QED BY <2>2, <3>1
    <2> QED BY <2>1, <2>2 DEF PublishIntent
  <1>3. probe' \in [Passes -> [Items -> [state: {"none", "queued", "done"}, policy: Policies]]]
    <2>1. CASE UNCHANGED probe
      BY <2>1 DEF AdmissionInv, TypeOK
    <2>2. CASE probe' = WithProbes({i \in Items : ProbeWanted(i)})
      BY <2>2, ProbesTyped DEF AdmissionInv
    <2> QED BY <2>1, <2>2 DEF PublishIntent
  <1> QED BY <1>1, <1>2, <1>3, QuietStep
        DEF PublishIntent, AdmissionInv, TypeOK, sourceVars, passVars, catalogueVars

LEMMA ActivateScopeKeeps ==
  ASSUME AdmissionInv, NEW s \in Scopes, ActivateScope(s)
  PROVE  AdmissionInv'
  <1>1. policy' = policy + 1 /\ policy' \in Policies /\ policy' \in 0 .. MaxPolicy
    BY Bounds DEF ActivateScope, AdmissionInv, TypeOK, Policies
  <1>2. scope' \in [on: BOOLEAN, except: SUBSET Items]
    <2>1. Enabled \in [on: BOOLEAN, except: SUBSET Items]
      BY DEF Enabled
    <2>2. PICK e \in [on: BOOLEAN, except: SUBSET Items] : e = Enabled
      BY <2>1
    <2>3. \A i \in Items : [e EXCEPT !.except = {i}] \in [on: BOOLEAN, except: SUBSET Items]
      OBVIOUS
    <2>4. [e EXCEPT !.on = FALSE] \in [on: BOOLEAN, except: SUBSET Items]
      OBVIOUS
    <2> QED BY <2>2, <2>3, <2>4 DEF ActivateScope, Scopes
  <1>3. intent' \in [kind: {"none", "scope", "disable"}, policy: 0 .. MaxPolicy, reviewed: SUBSET Items]
    <2>1. PICK v \in SUBSET Items : intent' = [kind |-> IF s.on THEN "scope" ELSE "disable",
                                               policy |-> policy + 1, reviewed |-> v]
      BY DEF ActivateScope
    <2> QED BY <1>1, <2>1
  <1> QED BY <1>1, <1>2, <1>3, QuietStep
        DEF ActivateScope, AdmissionInv, TypeOK, sourceVars, passVars, catalogueVars, accessVars

LEMMA RequestDiscoveryKeeps ==
  ASSUME AdmissionInv, RequestDiscovery
  PROVE  AdmissionInv'
  <1>1. work' \in [Passes -> Work]
    BY Bounds, QueuedTyped DEF RequestDiscovery, AdmissionInv
  <1> QED BY <1>1, QuietStep
        DEF RequestDiscovery, AdmissionInv, TypeOK, sourceVars, catalogueVars, accessVars, scopeVars

\* Probes and the evidence they leave touch neither passes nor the catalogue.
LEMMA RunProbeKeeps ==
  ASSUME AdmissionInv, NEW p \in Passes, NEW i \in Items, RunProbe(p, i)
  PROVE  AdmissionInv'
  <1>1. PICK ok \in BOOLEAN :
          /\ IF ok THEN UNCHANGED faults ELSE Fault
          /\ evidence' = evidence \cup
               {[item |-> i, pass |-> item[i].pass, ok |-> ok, at |-> now, policy |-> policy]}
          /\ probe' = IF ok THEN [probe EXCEPT ![p][i] = ProbeDone] ELSE probe
    BY DEF RunProbe
  <1>2. faults' \in 0 .. MaxFaults
    BY <1>1, FaultTyped DEF AdmissionInv, TypeOK
  <1>3. evidence' \subseteq [item: Items, pass: Passes, ok: BOOLEAN, at: 0 .. MaxTime, policy: Policies]
    BY <1>1 DEF AdmissionInv, TypeOK
  <1>4. probe' \in [Passes -> [Items -> [state: {"none", "queued", "done"}, policy: Policies]]]
    BY <1>1, EmptyRecords DEF AdmissionInv, TypeOK
  <1> QED BY <1>2, <1>3, <1>4, QuietStep
        DEF RunProbe, AdmissionInv, TypeOK, sourceVars, passVars, catalogueVars, scopeVars

LEMMA SupersedeProbeKeeps ==
  ASSUME AdmissionInv, NEW p \in Passes, NEW i \in Items, SupersedeProbe(p, i)
  PROVE  AdmissionInv'
  <1>1. probe' \in [Passes -> [Items -> [state: {"none", "queued", "done"}, policy: Policies]]]
    BY EmptyRecords DEF SupersedeProbe, AdmissionInv, TypeOK
  <1> QED BY <1>1, QuietStep
        DEF SupersedeProbe, AdmissionInv, TypeOK, sourceVars, passVars, catalogueVars, scopeVars

LEMMA DecideEvidenceKeeps ==
  ASSUME AdmissionInv, NEW e \in evidence, DecideEvidence(e)
  PROVE  AdmissionInv'
  <1> DEFINE i == e.item
  <1>1. /\ i \in Items /\ e.pass \in Passes /\ e.ok \in BOOLEAN /\ e.at \in 0 .. MaxTime
        /\ evidence' \subseteq [item: Items, pass: Passes, ok: BOOLEAN, at: 0 .. MaxTime, policy: Policies]
    BY DEF DecideEvidence, AdmissionInv, TypeOK
  <1> HIDE DEF i
  <1>2. probe' \in [Passes -> [Items -> [state: {"none", "queued", "done"}, policy: Policies]]]
    <2>1. CASE UNCHANGED probe
      BY <2>1 DEF AdmissionInv, TypeOK
    <2>2. CASE SupersedeEvidence(e)
      BY <2>2, ProbesTyped DEF SupersedeEvidence, AdmissionInv
    <2>3. CASE PublishEvidence(e) /\ probe' = WithProbes({e.item})
      BY <2>3, ProbesTyped DEF AdmissionInv
    <2> QED BY <2>1, <2>2, <2>3 DEF DecideEvidence, PublishEvidence
  <1>3. cap' \in [Items -> [ok: BOOLEAN, live: BOOLEAN, pass: Passes, at: 0 .. MaxTime]]
    <2>1. CASE UNCHANGED cap
      BY <2>1 DEF AdmissionInv, TypeOK
    <2>2. CASE cap' = [cap EXCEPT ![i] = [ok |-> e.ok, live |-> TRUE, pass |-> e.pass, at |-> e.at]]
      BY <1>1, <2>2 DEF AdmissionInv, TypeOK
    <2> QED BY <2>1, <2>2 DEF DecideEvidence, SupersedeEvidence, PublishEvidence, i
  <1>4. target' \in [Items -> Target]
    <2>1. CASE UNCHANGED target
      BY <2>1 DEF AdmissionInv, TypeOK
    <2>2. CASE PublishEvidence(e) /\ cap[i].at <= e.at
      <3>1. PICK t \in Target : t = ReconciledTarget(i, FALSE)
        BY <1>1, ReconciledTyped DEF AdmissionInv
      <3>2. [t EXCEPT !.state = "current"] \in Target /\ [t EXCEPT !.state = "paused"] \in Target
        BY DEF Target
      <3>3. PICK u \in Target : target' = [target EXCEPT ![i] = u]
        BY <2>2, <3>1, <3>2 DEF PublishEvidence, i
      <3> QED BY <3>3 DEF AdmissionInv, TypeOK
    <2> QED BY <2>1, <2>2 DEF DecideEvidence, SupersedeEvidence, PublishEvidence, i
  <1> QED BY <1>1, <1>2, <1>3, <1>4, QuietStep
        DEF DecideEvidence, AdmissionInv, TypeOK, sourceVars, passVars, catalogueVars, scopeVars

-----------------------------------------------------------------------------
(* Reading and recording pages. *)

\* What was read is not durable: only the page of the pass changes.
LEMMA ReadItemsKeeps ==
  ASSUME AdmissionInv, NEW p \in Passes, ReadItems(p)
  PROVE  AdmissionInv'
  <1> DEFINE Listed(odd) == [i \in Items |-> CASE i \notin exists -> "none"
                                               [] i \in exists /\ (i \in odd \/ pass[p].ws # "present") -> "unknown"
                                               [] OTHER -> "present"]
  <1>0. pass[p].stage = "items"
    BY DEF ReadItems
  <1>1. /\ now \in 0 .. MaxTime /\ now' = now + 1 /\ now' \in 0 .. MaxTime /\ now < now' /\ now \in Int /\ now' \in Int
    <2>1. now \in 0 .. MaxTime /\ now' = now + 1 /\ now < MaxTime /\ MaxTime \in Nat
      BY Bounds DEF ReadItems, AdmissionInv, TypeOK
    <2> QED BY <2>1
  <1>2. UNCHANGED <<exists, absent, work, pass, ws, item, sighted, probe, evidence, cap, policy, scope, intent, target>>
    BY DEF ReadItems, sourceVars, catalogueVars, accessVars, scopeVars
  <1>3. faults' \in 0 .. MaxFaults
    BY FaultTyped DEF ReadItems, AdmissionInv, TypeOK
  <1>4. ASSUME NEW odd
        PROVE  /\ Listed(odd) \in [Items -> {"none", "present", "unknown"}]
               /\ \A i \in Items : Listed(odd)[i] = "none" => i \notin exists
    OBVIOUS
  <1> HIDE DEF Listed
  <1>5. PICK g \in Page : /\ page' = [page EXCEPT ![p] = g] /\ g.at = now'
                          /\ ~g.gap => \A i \in Items : g.seen[i] = "none" => i \notin exists
    <2>1. PICK read \in Page : read = [NoPage EXCEPT !.at = now + 1] /\ read.at = now' /\ read.gap = FALSE
      <3>1. [NoPage EXCEPT !.at = now + 1] \in Page
        BY <1>1, EmptyRecords DEF Page, NoPage
      <3>2. [NoPage EXCEPT !.at = now + 1].at = now' /\ [NoPage EXCEPT !.at = now + 1].gap = FALSE
        BY <1>1 DEF NoPage
      <3> QED BY <3>1, <3>2
    <2>2. ASSUME NEW s \in [Items -> {"none", "present", "unknown"}]
          PROVE  /\ [read EXCEPT !.seen = s] \in Page /\ [read EXCEPT !.seen = s].at = now'
                 /\ [read EXCEPT !.seen = s].seen = s
                 /\ [read EXCEPT !.seen = s, !.gap = TRUE] \in Page /\ [read EXCEPT !.seen = s, !.gap = TRUE].at = now'
                 /\ [read EXCEPT !.seen = s, !.gap = TRUE].gap = TRUE
                 /\ [read EXCEPT !.gap = TRUE] \in Page /\ [read EXCEPT !.gap = TRUE].at = now'
                 /\ [read EXCEPT !.gap = TRUE].gap = TRUE
      BY <2>1 DEF Page
    <2>3. CASE page' = [page EXCEPT ![p] = [read EXCEPT !.seen = Listed({})]]
      <3>1. PICK s : s = Listed({})
        OBVIOUS
      <3>2. s \in [Items -> {"none", "present", "unknown"}] /\ \A i \in Items : s[i] = "none" => i \notin exists
        BY <1>4, <3>1
      <3>3. PICK n : n = [read EXCEPT !.seen = s]
        OBVIOUS
      <3>4. n \in Page /\ n.at = now' /\ n.seen = s
        BY <2>2, <3>2, <3>3
      <3>5. page' = [page EXCEPT ![p] = n]
        BY <2>3, <3>1, <3>3
      <3> QED BY <3>2, <3>4, <3>5
    <2>4. CASE page' = [page EXCEPT ![p] = [read EXCEPT !.gap = TRUE]]
      <3>1. [i \in Items |-> "none"] \in [Items -> {"none", "present", "unknown"}]
        OBVIOUS
      <3>2. PICK n : n = [read EXCEPT !.gap = TRUE]
        OBVIOUS
      <3>3. n \in Page /\ n.at = now' /\ n.gap = TRUE
        BY <2>2, <3>1, <3>2
      <3> QED BY <2>4, <3>2, <3>3
    <2>5. CASE \E i \in exists : page' = [page EXCEPT ![p] = [read EXCEPT !.seen = Listed({i}), !.gap = TRUE]]
      <3>1. PICK i \in exists : page' = [page EXCEPT ![p] = [read EXCEPT !.seen = Listed({i}), !.gap = TRUE]]
        BY <2>5
      <3>2. PICK s \in [Items -> {"none", "present", "unknown"}] : s = Listed({i})
        BY <1>4
      <3>3. PICK n : n = [read EXCEPT !.seen = s, !.gap = TRUE]
        OBVIOUS
      <3>4. n \in Page /\ n.at = now' /\ n.gap = TRUE
        BY <2>2, <3>3
      <3>5. page' = [page EXCEPT ![p] = n]
        BY <3>1, <3>2, <3>3
      <3> QED BY <3>4, <3>5
    <2> QED BY <2>1, <2>3, <2>4, <2>5 DEF ReadItems, Listed
  <1>6. page' \in [Passes -> Page] /\ page'[p] = g /\ \A q \in Passes \ {p} : page'[q] = page[q]
    BY <1>5 DEF AdmissionInv, TypeOK
  <1>7. ASSUME NEW q \in Passes PROVE page'[q].at <= now'
    <2>1. page[q].at \in Int /\ page[q].at <= now
      BY Bounds DEF AdmissionInv, TypeOK, Page
    <2> QED BY <1>1, <1>5, <1>6, <2>1
  <1>8. TypeOK'
    BY <1>1, <1>2, <1>3, <1>6, <1>7 DEF AdmissionInv, TypeOK
  <1>9. ASSUME NEW q \in Passes PROVE PassSound(q)'
    <2>1. pass[q].started \in Int /\ pass[q].started <= now
      BY Bounds DEF AdmissionInv, TypeOK, Generation, PassSound
    <2>2. CASE q # p
      BY <1>1, <1>2, <1>6, <2>1, <2>2 DEF AdmissionInv, PassSound, PageSound
    <2>3. CASE q = p
      <3>1. pass'[q].started < page'[q].at /\ pass'[q].stage # "none" /\ pass'[q].started <= now'
        BY <1>0, <1>1, <1>2, <1>5, <1>6, <2>1, <2>3
      <3>2. ~page'[q].gap => \A i \in Items : page'[q].seen[i] = "none" => i \notin exists'
        BY <1>2, <1>5, <1>6, <2>3
      <3> QED BY <3>1, <3>2 DEF PassSound, PageSound
    <2> QED BY <2>2, <2>3
  <1>10. ASSUME NEW i \in Items PROVE ItemSound(i)'
    <2>1. item[i].at \in Int /\ item[i].at <= now
      BY Bounds DEF AdmissionInv, TypeOK, ItemSound
    <2> QED BY <1>1, <1>2, <2>1 DEF AdmissionInv, ItemSound
  <1>11. (ws.at <= now)'
    <2>1. ws.at \in Int /\ ws.at <= now
      BY Bounds DEF AdmissionInv, TypeOK
    <2> QED BY <1>1, <1>2, <2>1
  <1> QED BY <1>8, <1>9, <1>10, <1>11 DEF AdmissionInv

\* record_inventory: a page that ends a pass without a gap names everything the
\* source still has, so what it deletes the source is without.
LEMMA RecordKeeps ==
  ASSUME AdmissionInv, NEW p \in Passes, NEW new \in Page, RecordInventory(p, new),
         pass[p].started < new.at, new.at <= now',
         now' \in now .. MaxTime,
         NextStage(p, new) = "done" /\ ~new.gap =>
           \A i \in Items : new.seen[i] = "none" => i \notin exists \/ absent[i] >= new.at,
         \A q \in Passes : page'[q] \in {page[q], NoPage},
         page' \in [Passes -> Page],
         UNCHANGED <<sourceVars, accessVars, scopeVars, target>>, faults' \in 0 .. MaxFaults
  PROVE  AdmissionInv'
  <1>1. PICK g \in Generation : g = pass[p]
    BY DEF AdmissionInv, TypeOK
  <1>2. PICK next \in {"items", "done"} : next = NextStage(p, new)
    BY DEF NextStage
  <1>3. PICK gap \in BOOLEAN : gap = (pass[p].gap \/ new.gap)
    OBVIOUS
  <1>4. PICK complete \in BOOLEAN : complete = (next = "done" /\ ~gap)
    OBVIOUS
  <1>5. PICK deleted : deleted = IF complete THEN Gone(p, new) ELSE {}
    OBVIOUS
  <1>6. /\ new.at \in 0 .. MaxTime /\ new.at \in Int /\ now \in Int /\ now' \in Int /\ now <= now'
        /\ now' \in 0 .. MaxTime /\ new.seen \in [Items -> {"none", "present", "unknown"}]
        /\ new.ws \in {"none", "present", "unknown"} /\ pass[p].started \in Int
    BY Bounds DEF AdmissionInv, TypeOK, Page, Generation
  <1>7. PICK h : h = [g EXCEPT !.stage = next, !.gap = gap, !.complete = complete,
                               !.ended = IF next = "done" THEN new.at ELSE 0,
                               !.ws = IF new.ws # "none" THEN new.ws ELSE g.ws,
                               !.bound = g.bound \cup {policy}]
    OBVIOUS
  <1>8. /\ h \in Generation /\ h.started = g.started /\ h.stage = next /\ h.gap = gap /\ h.complete = complete
        /\ h.ended = IF next = "done" THEN new.at ELSE 0
    <2>1. policy \in Policies
      BY DEF AdmissionInv, TypeOK
    <2> QED BY <1>6, <1>7, <2>1, Bounds DEF Generation
  <1>9. pass' = [pass EXCEPT ![p] = h]
    <2>1. pass \in [Passes -> Generation]
      BY DEF AdmissionInv, TypeOK
    <2>2. PICK ended : ended = IF next = "done" THEN new.at ELSE 0
      OBVIOUS
    <2>3. PICK place : place = IF new.ws # "none" THEN new.ws ELSE g.ws
      OBVIOUS
    <2>4. pass' = [pass EXCEPT ![p].stage = next, ![p].gap = gap, ![p].complete = complete,
                               ![p].ended = IF next = "done" THEN new.at ELSE 0,
                               ![p].ws = IF new.ws # "none" THEN new.ws ELSE @,
                               ![p].bound = @ \cup {policy}]
      BY <1>2, <1>3, <1>4 DEF RecordInventory
    <2>5. pass' = [pass EXCEPT ![p] = [g EXCEPT !.stage = next, !.gap = gap, !.complete = complete,
                                                !.ended = ended, !.ws = place, !.bound = g.bound \cup {policy}]]
      BY <1>1, <2>1, <2>2, <2>3, <2>4 DEF Generation
    <2> QED BY <1>7, <2>2, <2>3, <2>5
  <1>10. pass' \in [Passes -> Generation] /\ pass'[p] = h /\ \A q \in Passes \ {p} : pass'[q] = pass[q]
    BY <1>8, <1>9 DEF AdmissionInv, TypeOK
  <1>11. /\ ws' = IF new.ws # "none" /\ ws.at <= new.at THEN [state |-> new.ws, pass |-> p, at |-> new.at] ELSE ws
         /\ item' = [i \in Items |->
              CASE i \in Restamped(new) -> [state |-> new.seen[i], pass |-> p, at |-> new.at]
                [] i \in deleted -> [state |-> "deleted", pass |-> p, at |-> new.at]
                [] OTHER -> item[i]]
         /\ sighted' = [i \in Items |-> IF new.seen[i] = "present" /\ sighted[i] < new.at THEN new.at ELSE sighted[i]]
         /\ work' = IF next = "done" THEN [work EXCEPT ![p].state = "done", ![p].policy = 1] ELSE work
    BY <1>2, <1>3, <1>4, <1>5 DEF RecordInventory
  <1>12. work' \in [Passes -> Work]
    BY <1>11, WorkTyped DEF AdmissionInv, TypeOK
  <1>13. ws' \in [state: {"present", "unknown"}, pass: Passes, at: 0 .. MaxTime] /\ ws'.at <= now'
    <2>1. ws.at \in Int /\ ws.at <= now
      BY Bounds DEF AdmissionInv, TypeOK
    <2> QED BY <1>6, <1>11, <2>1 DEF AdmissionInv, TypeOK
  <1>14. ASSUME NEW i \in Items
         PROVE  /\ item'[i] \in [state: States, pass: Passes, at: 0 .. MaxTime] /\ sighted'[i] \in 0 .. MaxTime
                /\ ItemSound(i)'
    <2>1. /\ item[i] \in [state: States, pass: Passes, at: 0 .. MaxTime] /\ sighted[i] \in 0 .. MaxTime
          /\ item[i].at \in Int /\ item[i].at <= now /\ sighted[i] \in Int /\ sighted[i] <= item[i].at
          /\ item[i].state = "deleted" => i \notin exists \/ absent[i] >= item[i].at
          /\ new.seen[i] \in {"none", "present", "unknown"} /\ exists' = exists /\ absent' = absent
      BY <1>6, Bounds DEF AdmissionInv, TypeOK, ItemSound, sourceVars
    <2>2. sighted'[i] = IF new.seen[i] = "present" /\ sighted[i] < new.at THEN new.at ELSE sighted[i]
      BY <1>11
    <2>0. item'[i] = CASE i \in Restamped(new) -> [state |-> new.seen[i], pass |-> p, at |-> new.at]
                       [] i \in deleted -> [state |-> "deleted", pass |-> p, at |-> new.at]
                       [] OTHER -> item[i]
      BY <1>11
    <2>6. i \in Restamped(new) => i \notin deleted
      BY <1>5 DEF Gone
    <2>3. CASE i \in Restamped(new)
      <3>1. PICK r : r = [state |-> new.seen[i], pass |-> p, at |-> new.at]
        OBVIOUS
      <3>2. new.seen[i] \in {"present", "unknown"} /\ item[i].at <= new.at
        BY <2>1, <2>3 DEF Restamped
      <3>3. item'[i] = r
        BY <2>0, <2>3, <2>6, <3>1
      <3>4. /\ r \in [state: States, pass: Passes, at: 0 .. MaxTime] /\ r.at = new.at /\ r.state # "deleted"
        BY <1>6, <3>1, <3>2 DEF States
      <3> QED BY <1>6, <2>1, <2>2, <3>2, <3>3, <3>4 DEF ItemSound
    <2>4. CASE i \notin Restamped(new) /\ i \in deleted
      <3>1. PICK r : r = [state |-> "deleted", pass |-> p, at |-> new.at]
        OBVIOUS
      <3>2. complete /\ item[i].at <= pass[p].started
        BY <1>5, <2>4 DEF Gone
      <3>3. item[i].at < new.at
        BY <1>6, <2>1, <3>2
      <3>4. new.seen[i] = "none"
        BY <1>6, <2>1, <2>4, <3>3 DEF Restamped
      <3>5. i \notin exists \/ absent[i] >= new.at
        BY <1>2, <1>3, <1>4, <3>2, <3>4
      <3>6. item'[i] = r
        BY <2>0, <2>4, <3>1
      <3>7. r \in [state: States, pass: Passes, at: 0 .. MaxTime] /\ r.at = new.at
        BY <1>6, <3>1 DEF States
      <3> QED BY <1>6, <2>1, <2>2, <3>3, <3>4, <3>5, <3>6, <3>7 DEF ItemSound
    <2>5. CASE i \notin Restamped(new) /\ i \notin deleted
      <3>1. item'[i] = item[i]
        BY <2>0, <2>5
      <3>2. new.seen[i] = "none" \/ new.at < item[i].at
        BY <1>6, <2>1, <2>5 DEF Restamped
      <3> QED BY <1>6, <2>1, <2>2, <3>1, <3>2 DEF ItemSound
    <2> QED BY <2>3, <2>4, <2>5
  <1>15. item' \in [Items -> [state: States, pass: Passes, at: 0 .. MaxTime]] /\ sighted' \in [Items -> 0 .. MaxTime]
    BY <1>11, <1>14
  <1>16. ASSUME NEW q \in Passes
         PROVE  /\ pass'[q].ended # 0 => pass'[q].started < pass'[q].ended
                /\ pass'[q].complete => pass'[q].stage = "done" /\ ~pass'[q].gap
                /\ page'[q].at <= now'
                /\ pass'[q].started = pass[q].started
                /\ pass'[q].stage = "none" => pass[q].stage = "none"
    <2>1. /\ page[q].at \in Int /\ page[q].at <= now /\ NoPage.at = 0 /\ 0 <= now
          /\ pass[q].ended # 0 => pass[q].started < pass[q].ended
          /\ pass[q].complete => pass[q].stage = "done" /\ ~pass[q].gap
      BY Bounds DEF AdmissionInv, TypeOK, Page, NoPage
    <2>2. page'[q].at <= now'
      <3>1. CASE page'[q] = page[q]
        BY <1>6, <2>1, <3>1
      <3>2. CASE page'[q] = NoPage
        BY <1>6, <2>1, <3>2
      <3> QED BY <3>1, <3>2
    <2>3. CASE q # p
      BY <1>10, <2>1, <2>2, <2>3
    <2>4. CASE q = p
      BY <1>1, <1>2, <1>4, <1>8, <1>10, <2>2, <2>4
    <2> QED BY <2>3, <2>4
  <1>17. TypeOK'
    BY <1>6, <1>10, <1>12, <1>13, <1>15, <1>16 DEF AdmissionInv, TypeOK, sourceVars, accessVars, scopeVars
  <1>18. ASSUME NEW q \in Passes PROVE PassSound(q)'
    <2>1. pass[q].started \in Int /\ pass[q].started <= now
      BY Bounds DEF AdmissionInv, TypeOK, Generation, PassSound
    <2>2. pass'[q].started <= now' /\ exists' = exists /\ absent' = absent
      BY <1>6, <1>16, <2>1 DEF sourceVars
    <2>3. CASE page'[q] = NoPage
      BY <2>2, <2>3 DEF PassSound, PageSound
    <2>4. CASE page'[q] = page[q]
      BY <1>16, <2>2, <2>4 DEF AdmissionInv, PassSound, PageSound
    <2> QED BY <2>3, <2>4
  <1> QED BY <1>13, <1>14, <1>17, <1>18 DEF AdmissionInv

LEMMA CollectWorkspaceKeeps ==
  ASSUME AdmissionInv, NEW p \in Passes, CollectWorkspace(p)
  PROVE  AdmissionInv'
  <1>1. /\ now \in Int /\ now' = now + 1 /\ now' \in now .. MaxTime /\ now' \in 0 .. MaxTime /\ now < now'
        /\ pass[p].stage = "workspace" /\ pass[p].started <= now /\ pass[p].started \in Int
    BY Bounds DEF CollectWorkspace, AdmissionInv, TypeOK, PassSound, Generation
  <1>2. faults' \in 0 .. MaxFaults
    BY FaultTyped DEF CollectWorkspace, AdmissionInv, TypeOK
  <1>3. page' = page /\ page' \in [Passes -> Page] /\ UNCHANGED <<sourceVars, accessVars, scopeVars, target>>
    BY DEF CollectWorkspace, AdmissionInv, TypeOK
  <1>4. PICK new \in Page : /\ RecordInventory(p, new) /\ new.at = now' /\ (new.ws = "none" => new.gap)
    <2>1. PICK e \in Page : e = NoPage
      BY EmptyRecords
    <2>2. e.gap = FALSE
      BY <2>1 DEF NoPage
    <2>3. CASE RecordInventory(p, [NoPage EXCEPT !.at = now + 1, !.ws = "present"])
      <3>1. PICK n : n = [e EXCEPT !.at = now', !.ws = "present"]
        OBVIOUS
      <3>2. n \in Page /\ n.at = now' /\ n.ws = "present"
        BY <1>1, <3>1 DEF Page
      <3>3. RecordInventory(p, n)
        BY <1>1, <2>1, <2>3, <3>1
      <3> QED BY <3>2, <3>3
    <2>4. CASE \E s \in {"unknown", "none"} :
                 RecordInventory(p, [NoPage EXCEPT !.at = now + 1, !.ws = s, !.gap = TRUE])
      <3>1. PICK s \in {"unknown", "none"} :
               RecordInventory(p, [NoPage EXCEPT !.at = now + 1, !.ws = s, !.gap = TRUE])
        BY <2>4
      <3>2. PICK n : n = [e EXCEPT !.at = now', !.ws = s, !.gap = TRUE]
        OBVIOUS
      <3>3. n \in Page /\ n.at = now' /\ n.gap = TRUE
        BY <1>1, <3>2 DEF Page
      <3>4. RecordInventory(p, n)
        BY <1>1, <2>1, <3>1, <3>2
      <3> QED BY <3>3, <3>4
    <2> QED BY <2>3, <2>4 DEF CollectWorkspace
  <1>5. ~(NextStage(p, new) = "done" /\ ~new.gap)
    BY <1>1, <1>4 DEF NextStage
  <1> QED BY <1>1, <1>2, <1>3, <1>4, <1>5, RecordKeeps

LEMMA RecordItemsKeeps ==
  ASSUME AdmissionInv, NEW p \in Passes, RecordItems(p)
  PROVE  AdmissionInv'
  <1>1. PICK new \in Page : new = page[p]
    BY DEF AdmissionInv, TypeOK
  <1>2. /\ pass[p].started < new.at /\ new.at <= now
        /\ ~new.gap => \A i \in Items : new.seen[i] = "none" => i \notin exists \/ absent[i] >= new.at
    BY <1>1 DEF RecordItems, AdmissionInv, TypeOK, PassSound, PageSound
  <1>3. now' = now /\ now' \in now .. MaxTime
    BY Bounds DEF RecordItems, AdmissionInv, TypeOK
  <1>4. /\ page' \in [Passes -> Page] /\ \A q \in Passes : page'[q] \in {page[q], NoPage}
        /\ faults' \in 0 .. MaxFaults /\ UNCHANGED <<sourceVars, accessVars, scopeVars, target>>
    BY EmptyRecords DEF RecordItems, AdmissionInv, TypeOK
  <1>5. RecordInventory(p, new)
    BY <1>1 DEF RecordItems
  <1> QED BY <1>2, <1>3, <1>4, <1>5, RecordKeeps

-----------------------------------------------------------------------------
(* What admission promises. *)

LEMMA AdmissionKept ==
  ASSUME AdmissionInv, [Next]_vars
  PROVE  AdmissionInv'
  <1>1. CASE UNCHANGED vars
    <2>1. UNCHANGED <<now, sourceVars, pass, page, catalogueVars>> /\ UNCHANGED <<work, probe, evidence, cap, policy,
                      scope, intent, target, faults>>
      BY <1>1 DEF vars, passVars, accessVars, scopeVars
    <2> QED BY <2>1, QuietStep DEF AdmissionInv, TypeOK
  <1>2. CASE \E i \in Items : Vanish(i) \/ Appear(i) \/ AccessExpires(i)
    BY <1>2, VanishKeeps, AppearKeeps, AccessExpiresKeeps
  <1>3. CASE \E p \in Passes : GraceEnds(p) \/ LoseWorker(p) \/ Retire(p)
    BY <1>3, GraceEndsKeeps, LoseWorkerKeeps, RetireKeeps
  <1>4. CASE \E p \in Passes : Collect(p)
    BY <1>4, ClaimKeeps, SupersedeKeeps, CollectWorkspaceKeeps, ReadItemsKeeps, RecordItemsKeeps DEF Collect
  <1>5. CASE Control
    BY <1>5, PublishPassKeeps, RejectPassKeeps, DecideEvidenceKeeps, PublishIntentKeeps DEF Control
  <1>6. CASE Probing
    BY <1>6, RunProbeKeeps, SupersedeProbeKeeps DEF Probing
  <1>7. CASE \E s \in Scopes : ActivateScope(s)
    BY <1>7, ActivateScopeKeeps
  <1>8. CASE RequestDiscovery
    BY <1>8, RequestDiscoveryKeeps
  <1> QED BY <1>1, <1>2, <1>3, <1>4, <1>5, <1>6, <1>7, <1>8 DEF Next

\* The inductive invariant of discovery and admission (record_inventory,
\* _publish_inventory, retire_inventory_history and their siblings).
THEOREM AdmissionInvariant == Spec => []AdmissionInv
  <1>1. Init => AdmissionInv
    BY AdmissionStart
  <1>2. AdmissionInv /\ [Next]_vars => AdmissionInv'
    BY AdmissionKept
  <1> QED BY <1>1, <1>2, PTL DEF Spec

\* record_inventory marks an item deleted only when the source was without it
\* after it was last recorded present, whichever passes overlap.
THEOREM AdmissionIsSafe == Spec => []AdmissionSafe
  <1>1. ASSUME AdmissionInv PROVE AdmissionSafe
    <2>1. ASSUME NEW i \in Items, item[i].state = "deleted" PROVE i \notin exists \/ absent[i] >= sighted[i]
      <3>1. /\ sighted[i] <= item[i].at /\ (i \notin exists \/ absent[i] >= item[i].at)
            /\ sighted[i] \in Int /\ item[i].at \in Int /\ absent[i] \in Int
        BY <1>1, <2>1, Bounds DEF AdmissionInv, ItemSound, TypeOK
      <3> QED BY <3>1
    <2> QED BY <1>1, <2>1 DEF AdmissionSafe, DeletionEarned, AdmissionInv
  <1> QED BY <1>1, AdmissionInvariant, PTL

-----------------------------------------------------------------------------
(* Retirement and refresh. *)

\* The newest of some passes is the newest of them in the next state, too.
LEMMA NewestUniqueNext ==
  ASSUME TypeOK', NEW S \in SUBSET Passes, NEW m \in S, \A q \in S \ {m} : Older(q, m)'
  PROVE  Newest(S)' = m
  <1>1. \A p \in Passes : p \in Int /\ pass'[p].started \in Int
    BY Bounds DEF TypeOK, Generation, Passes
  <1>2. PICK n : n = Newest(S)'
    OBVIOUS
  <1>3. n \in S /\ \A q \in S \ {n} : Older(q, n)'
    BY <1>2 DEF Newest
  <1>4. CASE n # m
    <2>1. Older(n, m)' /\ Older(m, n)'
      BY <1>3, <1>4
    <2> QED BY <1>1, <1>3, <2>1 DEF Older
  <1> QED BY <1>2, <1>4

\* _settled_pass of a pass still collecting.
LEMMA Deferred ==
  ASSUME NEW w, ~Finished(w), pass[w].grace,
         NEW S, S = {q \in Generations : Finished(q) /\ Older(q, w)}
  PROVE  SettledPass(w) = IF S = {} THEN 0 ELSE Newest(S)
  BY DEF SettledPass

LEMMA DeferredNext ==
  ASSUME NEW w, ~Finished(w)', pass'[w].grace,
         NEW S, S = {q \in Generations' : Finished(q)' /\ Older(q, w)'}
  PROVE  SettledPass(w)' = IF S = {} THEN 0 ELSE Newest(S)'
  BY DEF SettledPass

\* A retired pass is not the one that a pass still collecting defers to.
LEMMA VerifiedKept ==
  ASSUME AdmissionInv, AdmissionInv', NEW p \in Passes, Retire(p)
  PROVE  WorkspaceVerified' <=> WorkspaceVerified
  <1>1. PICK w \in Passes : w = ws.pass /\ w # p /\ ws' = ws
    BY DEF Retire, PassInUse, AdmissionInv, TypeOK, catalogueVars
  <1>2. /\ \A q \in Passes \ {p} : pass'[q] = pass[q]
        /\ p \in Generations' => pass'[p].started = pass[p].started /\ pass'[p].ended = pass[p].ended
    <2>1. PICK g \in Generation : g = pass[p]
      BY DEF AdmissionInv, TypeOK
    <2>2. CASE pass' = [pass EXCEPT ![p] = [NoPass EXCEPT !.stage = "retired", !.grace = FALSE]]
      <3>1. PICK r : r = [NoPass EXCEPT !.stage = "retired", !.grace = FALSE]
        OBVIOUS
      <3>2. r.stage = "retired"
        BY <3>1 DEF NoPass
      <3>3. pass'[p] = r /\ \A q \in Passes \ {p} : pass'[q] = pass[q]
        BY <2>2, <3>1 DEF AdmissionInv, TypeOK
      <3> QED BY <3>2, <3>3 DEF Generations
    <2>3. CASE pass' = [pass EXCEPT ![p].ws = "none"]
      <3>1. PICK b : b = [g EXCEPT !.ws = "none"]
        OBVIOUS
      <3>2. b.started = g.started /\ b.ended = g.ended
        BY <3>1 DEF Generation
      <3>3. pass'[p] = b /\ \A q \in Passes \ {p} : pass'[q] = pass[q]
        BY <2>1, <2>3, <3>1 DEF AdmissionInv, TypeOK
      <3> QED BY <2>1, <3>2, <3>3
    <2> QED BY <2>2, <2>3 DEF Retire
  <1>3. \A q \in Passes \ {p} : q \in Generations' <=> q \in Generations
    BY <1>2 DEF Generations
  <1>4. \A q \in Passes \ {p} : Finished(q)' <=> Finished(q)
    BY <1>2 DEF Finished
  <1>5. \A q, r \in Passes \ {p} : Older(q, r)' <=> Older(q, r)
    BY <1>2 DEF Older
  <1>6. CASE w \notin Generations
    BY <1>1, <1>3, <1>6 DEF WorkspaceVerified
  <1>7. CASE w \in Generations /\ Finished(w)
    <2>1. SettledPass(w) = w /\ SettledPass(w)' = w /\ pass'[w] = pass[w]
      BY <1>1, <1>2, <1>4, <1>7 DEF SettledPass
    <2> QED BY <1>1, <1>3, <1>7, <2>1 DEF WorkspaceVerified
  <1>8. CASE w \in Generations /\ ~Finished(w) /\ ~pass[w].grace
    <2>1. SettledPass(w) = 0 /\ SettledPass(w)' = 0
      BY <1>1, <1>2, <1>4, <1>8 DEF SettledPass
    <2> QED BY <1>1, <2>1 DEF WorkspaceVerified
  <1>9. CASE w \in Generations /\ ~Finished(w) /\ pass[w].grace
    <2>1. PICK S : S = {q \in Generations : Finished(q) /\ Older(q, w)}
      OBVIOUS
    <2>2. PICK T : T = {q \in Generations' : Finished(q)' /\ Older(q, w)'}
      OBVIOUS
    <2>3. S \subseteq Passes /\ T \subseteq Passes
      BY <2>1, <2>2 DEF Generations
    <2>4. \A q \in Passes \ {p} : q \in T <=> q \in S
      BY <1>1, <1>3, <1>4, <1>5, <2>1, <2>2
    <2>5. p \in T => p \in S
      <3>1. ASSUME p \in T PROVE p \in S
        <4>1. p \in Generations' /\ Finished(p)' /\ Older(p, w)'
          BY <2>2, <3>1
        <4>2. Finished(p) /\ Older(p, w)
          BY <1>1, <1>2, <4>1 DEF Finished, Older
        <4> QED BY <2>1, <4>2 DEF Retire
      <3> QED BY <3>1
    <2>6. SettledPass(w) = IF S = {} THEN 0 ELSE Newest(S)
      BY <1>9, <2>1, Deferred
    <2>7. SettledPass(w)' = IF T = {} THEN 0 ELSE Newest(T)'
      BY <1>1, <1>2, <1>4, <1>9, <2>2, DeferredNext
    <2>8. CASE S = {}
      <3>1. T = {}
        BY <2>3, <2>4, <2>5, <2>8
      <3> QED BY <1>1, <2>6, <2>7, <2>8, <3>1 DEF WorkspaceVerified
    <2>9. CASE S # {}
      <3>1. PICK m \in S : m = Newest(S) /\ \A q \in S \ {m} : Older(q, m)
        BY <2>3, <2>9, NewestPass DEF AdmissionInv
      <3>2. m # p
        <4>1. CASE p \in S /\ m = p
          <5>1. Finished(p) /\ Older(p, w) /\ w \in Newer(p)
            BY <1>9, <2>1, <4>1 DEF Newer
          <5>2. PICK r \in Newer(p) : Finished(r) /\ Older(r, w)
            BY <1>9, <5>1 DEF Retire, PassSuperseded
          <5>3. r \in S /\ Older(p, r) /\ r \in Passes
            BY <2>1, <5>2 DEF Newer, Generations
          <5>4. r # p
            BY <5>3, PassOrder DEF AdmissionInv
          <5>5. Older(r, p)
            BY <3>1, <4>1, <5>3, <5>4
          <5> QED BY <5>3, <5>5, PassOrder DEF AdmissionInv
        <4> QED BY <4>1
      <3>3. m \in T /\ m \in Passes
        BY <2>3, <2>4, <3>1, <3>2
      <3>4. \A q \in T \ {m} : Older(q, m)'
        <4>1. ASSUME NEW q \in T \ {m} PROVE Older(q, m)'
          <5>1. q \in S /\ Older(q, m)
            BY <2>3, <2>4, <2>5, <3>1
          <5>2. CASE q # p
            BY <1>5, <2>3, <3>2, <3>3, <5>1, <5>2
          <5>3. CASE q = p
            <6>1. p \in Generations'
              BY <2>2, <5>3
            <6> QED BY <1>2, <3>2, <3>3, <5>1, <5>3, <6>1 DEF Older
          <5> QED BY <5>2, <5>3
        <4> QED BY <4>1
      <3>5. Newest(T)' = m
        BY <2>3, <3>3, <3>4, NewestUniqueNext DEF AdmissionInv
      <3>6. SettledPass(w) = m /\ SettledPass(w)' = m /\ pass'[m] = pass[m]
        BY <1>2, <2>6, <2>7, <2>9, <3>1, <3>2, <3>3, <3>5
      <3> QED BY <1>1, <1>3, <3>6 DEF WorkspaceVerified
    <2> QED BY <2>8, <2>9
  <1> QED BY <1>6, <1>7, <1>8, <1>9

LEMMA RetireUnseen ==
  ASSUME AdmissionInv, AdmissionInv', NEW p \in Passes, Retire(p)
  PROVE  /\ \A i \in Items : Admitted(i)' = Admitted(i) /\ AbsenceProven(i)' = AbsenceProven(i)
         /\ WorkspaceVerified' = WorkspaceVerified
  <1>1. WorkspaceVerified' <=> WorkspaceVerified
    BY VerifiedKept
  <1>2. UNCHANGED <<item, target, policy, scope, cap>>
    BY DEF Retire, catalogueVars, accessVars, scopeVars
  <1>3. ASSUME NEW i \in Items PROVE Admitted(i)' <=> Admitted(i)
    BY <1>1, <1>2 DEF Admitted, Matches, Excluded, AllowRead
  <1>4. ASSUME NEW i \in Items PROVE AbsenceProven(i)' <=> AbsenceProven(i)
    <2>1. PICK q \in Passes : q = item[i].pass
      BY DEF AdmissionInv, TypeOK
    <2>2. q # p
      BY <2>1 DEF Retire, PassInUse
    <2>3. pass'[q] = pass[q]
      BY <2>2 DEF Retire, AdmissionInv, TypeOK
    <2>4. q \in Generations' <=> q \in Generations
      BY <2>3 DEF Generations
    <2> QED BY <1>2, <2>1, <2>3, <2>4 DEF AbsenceProven
  <1> QED BY <1>1, <1>3, <1>4 DEF WorkspaceVerified, Admitted, AbsenceProven

\* A refresh settles on the pass that finished before it.
LEMMA RefreshAdmits ==
  ASSUME AdmissionInv, AdmissionInv', NEW p \in Passes, CollectWorkspace(p), ~Finished(p)', ~pass'[p].gap,
         pass[p].grace, LastFinishedVerified(p), NEW i \in Items, Admitted(i)
  PROVE  Admitted(i)'
  <1>1. PICK q \in Generations :
          /\ Finished(q) /\ Older(q, p) /\ pass[q].complete /\ pass[q].ws = "present"
          /\ \A r \in Generations : Finished(r) /\ Older(r, p) => r = q \/ Older(r, q)
    BY DEF LastFinishedVerified
  <1>2. q \in Passes /\ q # p
    BY <1>1, PassOrder DEF AdmissionInv, Generations
  <1>3. PICK new \in Page : /\ RecordInventory(p, new) /\ new.at = now + 1 /\ new.ws = "present"
                            /\ \A j \in Items : new.seen[j] = "none"
    <2>1. PICK e \in Page : e = NoPage
      BY EmptyRecords
    <2>2. \A j \in Items : e.seen[j] = "none"
      BY <2>1 DEF NoPage
    <2>3. now + 1 \in 0 .. MaxTime
      BY Bounds DEF CollectWorkspace, AdmissionInv, TypeOK
    <2>4. CASE RecordInventory(p, [NoPage EXCEPT !.at = now + 1, !.ws = "present"])
      <3>1. PICK n : n = [e EXCEPT !.at = now + 1, !.ws = "present"]
        OBVIOUS
      <3>2. n \in Page /\ n.at = now + 1 /\ n.ws = "present" /\ n.seen = e.seen
        BY <2>3, <3>1 DEF Page
      <3>3. RecordInventory(p, n)
        BY <2>1, <2>4, <3>1
      <3> QED BY <2>2, <3>2, <3>3
    <2>5. CASE \E s \in {"unknown", "none"} :
                 RecordInventory(p, [NoPage EXCEPT !.at = now + 1, !.ws = s, !.gap = TRUE])
      <3>1. PICK s \in {"unknown", "none"} :
               RecordInventory(p, [NoPage EXCEPT !.at = now + 1, !.ws = s, !.gap = TRUE])
        BY <2>5
      <3>2. PICK n : n = [e EXCEPT !.at = now + 1, !.ws = s, !.gap = TRUE]
        OBVIOUS
      <3>3. n.gap = TRUE
        BY <3>2 DEF Page
      <3>4. RecordInventory(p, n)
        BY <2>1, <3>1, <3>2
      <3>5. pass'[p].gap
        <4>1. PICK g \in Generation : g = pass[p]
          BY DEF AdmissionInv, TypeOK
        <4>2. PICK gap \in BOOLEAN : gap = (pass[p].gap \/ n.gap)
          OBVIOUS
        <4>3. PICK next, complete, ended, place, bound :
                pass' = [pass EXCEPT ![p].stage = next, ![p].gap = gap, ![p].complete = complete,
                                     ![p].ended = ended, ![p].ws = place, ![p].bound = bound]
          BY <3>4, <4>2 DEF RecordInventory
        <4>4. pass'[p].gap = gap
          <5>1. pass \in [Passes -> Generation]
            BY DEF AdmissionInv, TypeOK
          <5>2. PICK r : r = [g EXCEPT !.stage = next, !.gap = gap, !.complete = complete,
                                       !.ended = ended, !.ws = place, !.bound = bound]
            OBVIOUS
          <5>3. pass' = [pass EXCEPT ![p] = r]
            BY <4>1, <4>3, <5>2
          <5>4. r.gap = gap
            BY <4>1, <5>2 DEF Generation
          <5>5. pass'[p] = r
            BY <5>1, <5>3
          <5> QED BY <5>4, <5>5
        <4> QED BY <3>3, <4>2, <4>4
      <3> QED BY <3>5
    <2> QED BY <2>4, <2>5 DEF CollectWorkspace
  <1>4. NextStage(p, new) = "items"
    BY <1>3 DEF NextStage, CollectWorkspace
  <1>5. PICK h : /\ h = [pass[p] EXCEPT !.stage = "items", !.gap = pass[p].gap \/ new.gap, !.complete = FALSE,
                                       !.ended = 0, !.ws = "present", !.bound = pass[p].bound \cup {policy}]
    OBVIOUS
  <1>6. h.started = pass[p].started /\ h.stage = "items" /\ h.ended = 0 /\ h.grace = pass[p].grace
    <2>1. PICK g \in Generation : g = pass[p]
      BY DEF AdmissionInv, TypeOK
    <2> QED BY <1>5, <2>1 DEF Generation
  <1>7. pass' = [pass EXCEPT ![p] = h]
    <2>1. PICK g \in Generation : g = pass[p]
      BY DEF AdmissionInv, TypeOK
    <2>2. PICK gap \in BOOLEAN : gap = (pass[p].gap \/ new.gap)
      OBVIOUS
    <2>3. pass' = [pass EXCEPT ![p].stage = "items", ![p].gap = gap, ![p].complete = FALSE,
                               ![p].ended = 0, ![p].ws = "present", ![p].bound = @ \cup {policy}]
      BY <1>3, <1>4, <2>2 DEF RecordInventory
    <2>4. h = [g EXCEPT !.stage = "items", !.gap = gap, !.complete = FALSE,
                        !.ended = 0, !.ws = "present", !.bound = g.bound \cup {policy}]
      BY <1>5, <2>1, <2>2
    <2>5. pass \in [Passes -> Generation]
      BY DEF AdmissionInv, TypeOK
    <2> QED BY <2>1, <2>3, <2>4, <2>5 DEF Generation
  <1>8. pass'[p] = h /\ \A r \in Passes \ {p} : pass'[r] = pass[r]
    BY <1>7 DEF AdmissionInv, TypeOK
  <1>9. ws'.state = "present" /\ ws'.pass = p
    <2>1. ws.at \in Int /\ now \in Int /\ ws.at <= now
      BY Bounds DEF AdmissionInv, TypeOK
    <2>2. ws.at <= new.at
      BY <1>3, <2>1
    <2>3. ws' = [state |-> "present", pass |-> p, at |-> new.at]
      BY <1>3, <2>2 DEF RecordInventory
    <2> QED BY <2>3
  <1>10. item'[i] = item[i]
    <2>1. Restamped(new) = {}
      BY <1>3 DEF Restamped
    <2> QED BY <1>3, <1>4, <2>1 DEF RecordInventory
  <1>11. PICK T : T = {r \in Generations' : Finished(r)' /\ Older(r, p)'}
    OBVIOUS
  <1>12. ASSUME NEW r \in T PROVE r \in Generations /\ r # p /\ r \in Passes /\ (r = q \/ Older(r, q))
    <2>1. r \in Passes /\ r # p
      BY <1>6, <1>8, <1>11 DEF Generations, Finished
    <2>2. r \in Generations /\ Finished(r) /\ Older(r, p)
      BY <1>6, <1>8, <1>11, <2>1 DEF Generations, Finished, Older
    <2> QED BY <1>1, <2>1, <2>2
  <1>13. q \in T
    BY <1>1, <1>2, <1>6, <1>8, <1>11 DEF Generations, Finished, Older
  <1>14. \A r \in T \ {q} : Older(r, q)'
    BY <1>2, <1>8, <1>12 DEF Older
  <1>15. Newest(T)' = q
    <2>1. T \subseteq Passes
      BY <1>12
    <2> QED BY <1>13, <1>14, <2>1, NewestUniqueNext DEF AdmissionInv
  <1>16. SettledPass(p)' = q
    BY <1>6, <1>8, <1>11, <1>13, <1>15, DeferredNext
  <1>17. WorkspaceVerified'
    <2>1. p \in Generations' /\ q # 0
      BY <1>2, <1>6, <1>8 DEF Generations, Passes
    <2> QED BY <1>1, <1>2, <1>8, <1>9, <1>16, <2>1 DEF WorkspaceVerified
  <1>18. UNCHANGED <<target, policy, scope, cap>>
    BY DEF CollectWorkspace, accessVars, scopeVars
  <1> QED BY <1>10, <1>17, <1>18 DEF Admitted, Matches, Excluded, AllowRead

\* retire_inventory_history is invisible to admission, and a refresh that has
\* just recorded the workspace takes no admission away (_settled_pass).
THEOREM PassesAreHarmless == Spec => PassesHarmless
  <1>1. ASSUME AdmissionInv, AdmissionInv', [Next]_vars, NEW p \in Passes, Retire(p)
        PROVE  /\ \A i \in Items : Admitted(i)' = Admitted(i) /\ AbsenceProven(i)' = AbsenceProven(i)
               /\ WorkspaceVerified' = WorkspaceVerified
    BY <1>1, RetireUnseen
  <1>2. ASSUME AdmissionInv, AdmissionInv', [Next]_vars, NEW p \in Passes,
               CollectWorkspace(p) /\ ~Finished(p)' /\ ~pass[p].gap' /\ pass[p].grace /\ LastFinishedVerified(p)
        PROVE  \A i \in Items : Admitted(i) => Admitted(i)'
    BY <1>2, RefreshAdmits
  <1>3. AdmissionInv /\ AdmissionInv' /\ [Next]_vars =>
          [\A p \in Passes : Retire(p) =>
             /\ \A i \in Items : Admitted(i)' = Admitted(i) /\ AbsenceProven(i)' = AbsenceProven(i)
             /\ WorkspaceVerified' = WorkspaceVerified]_vars
    BY <1>1
  <1>4. AdmissionInv /\ AdmissionInv' /\ [Next]_vars =>
          [\A p \in Passes :
             CollectWorkspace(p) /\ ~Finished(p)' /\ ~pass[p].gap' /\ pass[p].grace /\ LastFinishedVerified(p) =>
               \A i \in Items : Admitted(i) => Admitted(i)']_vars
    BY <1>2
  <1> QED BY <1>3, <1>4, AdmissionInvariant, PTL DEF Spec, PassesHarmless, RetirementInvisible, RefreshKeepsAdmission

=============================================================================
