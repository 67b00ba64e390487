----------------------------- MODULE RateBudget -----------------------------
(***************************************************************************)
(* The request budgets that all collectors of a tenant share               *)
(* (src/triage/monitoring/rate_limit.py, KernelRateBudget of sql_store.py  *)
(* and worker.rate_budget of sql_kernel_intake.py), as the REST clients of *)
(* inventory.py and provisioning.py use them.                              *)
(*                                                                         *)
(* A read of a route charges the bucket of its service and the bucket of   *)
(* its API in one transaction.  A response that asks for backoff blocks    *)
(* the two buckets in two further transactions.  Times are abstract units  *)
(* of the database's clock.                                                *)
(***************************************************************************)
EXTENDS Integers, Sequences, SequencesExt, FiniteSetsExt

CONSTANTS
  Clients,      \* collectors and provisioners
  Routes,       \* APIs of one service
  Limit,        \* requests per window of the service's bucket
  ApiLimit,     \* requests per window of an API's bucket
  Window,       \* length of the service bucket's window
  ApiWindow,    \* length of an API bucket's window
  Delays,       \* backoffs the service asks for, the 60-second default among them
  MaxTime       \* bound: end of the clock

BudgetAssumption ==
  /\ {Limit, ApiLimit, Window, ApiWindow} \subseteq Nat \ {0}
  /\ Delays \subseteq Nat
  /\ MaxTime \in Nat
  /\ "service" \notin Routes

Service == "service"
Buckets == Routes \cup {Service}

\* The policies get passes, in the order its deferrals are made.
BucketsOf(r) == <<Service, r>>
Charges(b, r) == b \in {Service, r}

LimitOf(b) == IF b = Service THEN Limit ELSE ApiLimit
WindowOf(b) == IF b = Service THEN Window ELSE ApiWindow

VARIABLES
  now,        \* SYSUTCDATETIME()
  row,        \* monitoring_rate_budget: [used, ends, blocked]
  client,     \* client -> [pc, route, due, todo]
  granted,    \* bucket -> times of its latest grants
  told,       \* route -> the latest retry_at a caller was told
  quiet       \* the service asked all callers to wait until then

vars == <<now, row, client, granted, told, quiet>>

Idle == [pc |-> "idle", route |-> Service, due |-> 0, todo |-> <<>>]

TypeOK ==
  /\ now \in 0 .. MaxTime
  /\ row \in [Buckets -> [used: Nat, ends: Nat, blocked: Nat]]
  /\ \A b \in Buckets : row[b].used <= LimitOf(b) /\ row[b].ends <= now + WindowOf(b)
  /\ granted \in [Buckets -> Seq(Nat)]
  /\ client \in [Clients -> [pc: {"idle", "sending", "throttled"}, route: Buckets,
                             due: Nat, todo: Seq(Delays \X Buckets)]]
  /\ told \in [Routes -> Nat]
  /\ quiet \in Nat

\* Provisioned by the deployer, unused.
Init ==
  /\ now = 0
  /\ row = [b \in Buckets |-> [used |-> 0, ends |-> WindowOf(b), blocked |-> 0]]
  /\ client = [c \in Clients |-> Idle]
  /\ granted = [b \in Buckets |-> <<>>]
  /\ told = [r \in Routes |-> 0]
  /\ quiet = 0

-----------------------------------------------------------------------------
(* worker.rate_budget *)

Open(b) ==
  /\ row[b].blocked <= now
  /\ row[b].ends <= now \/ row[b].used < LimitOf(b)

\* A slip: the request that opens a window is not counted in it.
ChargedFromZero(b) ==
  IF row[b].ends <= now
  THEN [row[b] EXCEPT !.used = 0, !.ends = now + WindowOf(b)]
  ELSE [row[b] EXCEPT !.used = @ + 1]

Charged(b) ==
  IF row[b].ends <= now
  THEN [row[b] EXCEPT !.used = 1, !.ends = now + WindowOf(b)]
  ELSE [row[b] EXCEPT !.used = @ + 1]

\* A slip: the latest backoff wins.
BlockedAnew(b, delay) == [row[b] EXCEPT !.blocked = now + delay]

Blocked(b, delay) == [row[b] EXCEPT !.blocked = Max({@, now + delay})]

\* When a bucket in state rw may be asked again.
RetryAt(b, rw) ==
  Max({now, rw.blocked, IF rw.used >= LimitOf(b) THEN rw.ends ELSE now})

-----------------------------------------------------------------------------
(* KernelRateBudget.acquire_many *)

Admitted(r) == Open(Service) /\ Open(r)

ChargeAll(r) == row' = [b \in Buckets |-> IF Charges(b, r) THEN Charged(b) ELSE row[b]]

\* Enough grants to look back over two windows.
Recent(b, times) ==
  SubSeq(times, Max({1, Len(times) - 2 * LimitOf(b)}), Len(times))

Acquire(c, r) ==
  /\ client[c].pc = "idle"
  /\ Admitted(r)
  /\ ChargeAll(r)
  /\ client' = [client EXCEPT ![c] =
       [pc |-> "sending", route |-> r, due |-> 0, todo |-> <<>>]]
  /\ granted' = [b \in Buckets |->
       IF Charges(b, r) THEN Recent(b, Append(granted[b], now)) ELSE granted[b]]
  /\ UNCHANGED <<now, told, quiet>>

\* The charge is committed, but the caller does not learn so: no request.
AcquireUncertain(c, r) ==
  /\ client[c].pc = "idle"
  /\ Admitted(r)
  /\ ChargeAll(r)
  /\ UNCHANGED <<now, client, granted, told, quiet>>

\* One bucket is closed: every provisional charge is rolled back.
Denied(c, r) ==
  /\ client[c].pc = "idle"
  /\ ~Admitted(r)
  /\ told' = [told EXCEPT ![r] =
       Max({@} \cup {RetryAt(b, row[b]) : b \in {x \in {Service, r} : ~Open(x)}})]
  /\ UNCHANGED <<now, row, client, granted, quiet>>

-----------------------------------------------------------------------------
(* TenantBoundRestClient.get, ProvisioningRestClient *)

\* Any response that asks for no backoff, or none.
Respond(c) ==
  /\ client[c].pc = "sending"
  /\ client' = [client EXCEPT ![c] = Idle]
  /\ UNCHANGED <<now, row, granted, told, quiet>>

\* 429, or 502, 503, 504 with Retry-After.
Throttle(c, delay) ==
  /\ client[c].pc = "sending"
  /\ client' = [client EXCEPT
       ![c].pc = "throttled", ![c].due = now + delay,
       ![c].todo = [i \in 1 .. 2 |-> <<delay, BucketsOf(client[c].route)[i]>>]]
  /\ UNCHANGED <<now, row, granted, told, quiet>>

\* One bucket per transaction; after the last the caller is told when to retry.
Defer(c) ==
  LET b == Head(client[c].todo)[2]
      delay == Head(client[c].todo)[1]
      last == Len(client[c].todo) = 1
      r == client[c].route IN
  /\ client[c].pc = "throttled"
  /\ row' = [row EXCEPT ![b] = Blocked(b, delay)]
  /\ client' = [client EXCEPT ![c] = IF last THEN Idle ELSE [client[c] EXCEPT !.todo = Tail(client[c].todo)]]
  /\ IF last
     THEN /\ told' = [told EXCEPT ![r] = Max({@, RetryAt(b, row'[b])})]
          /\ quiet' = Max({quiet, client[c].due})
     ELSE UNCHANGED <<told, quiet>>
  /\ UNCHANGED <<now, granted>>

\* The process stops, or the database fails it: nothing more is deferred.
Crash(c) ==
  /\ client[c].pc # "idle"
  /\ client' = [client EXCEPT ![c] = Idle]
  /\ UNCHANGED <<now, row, granted, told, quiet>>

Tick ==
  /\ now < MaxTime
  /\ now' = now + 1
  /\ UNCHANGED <<row, client, granted, told, quiet>>

Next ==
  \/ Tick
  \/ \E c \in Clients :
       \/ \E r \in Routes : Acquire(c, r) \/ AcquireUncertain(c, r) \/ Denied(c, r)
       \/ \E d \in Delays : Throttle(c, d)
       \/ Respond(c) \/ Defer(c) \/ Crash(c)

Spec == Init /\ [][Next]_vars
-----------------------------------------------------------------------------
(* Safety. *)

\* Every grant made in a bucket's current window is counted in it, whatever
\* was rolled back, lost or deferred in between: of the latest grants, no more
\* than the row has counted lie in the window (acquire_many, _budget).
NeverUndercounted == \A b \in Buckets :
  \A i \in 1 .. Len(granted[b]) - row[b].used : granted[b][i] < row[b].ends - WindowOf(b)

\* No interval shorter than a window holds more than twice the window's
\* requests, summed over all collectors: the price of fixed windows.
SlidingBound == \A b \in Buckets :
  Len(granted[b]) > 2 * LimitOf(b) =>
    Last(granted[b]) - Head(granted[b]) >= WindowOf(b)

Granted(r) == \E c \in Clients : client[c].pc = "idle"
                  /\ client'[c].pc = "sending" /\ client'[c].route = r

\* Once the error of a throttled read is raised, no collector and no other API
\* of the service gets a request before the backoff the service asked for is
\* over, also when a shorter one is asked for meanwhile (get, defer).
CooldownHonoured == [][\A r \in Routes : Granted(r) => now >= quiet]_vars

\* A retry_at is never too early: nobody is granted a request of the route
\* before the time a caller of it was told (RateDecision.retry_at).
RetryAtHonest == [][\A r \in Routes : Granted(r) => now >= told[r]]_vars

\* No grant is forgotten, and no burst is longer than two windows' requests.
GrantsBounded == TypeOK /\ NeverUndercounted /\ SlidingBound

\* Nobody is served before the backoff, or the retry time, that was announced.
PromisesKept == CooldownHonoured /\ RetryAtHonest

(* Why they hold. *)

\* A grant lies in the window that is open, or in an earlier one; before that
\* one begins a window of Limit grants at most.
WindowsFollow == \A b \in Buckets :
  /\ \A i \in DOMAIN granted[b] : granted[b][i] < row[b].ends
  /\ \A i \in 1 .. Len(granted[b]) - row[b].used - LimitOf(b) :
       granted[b][i] < row[b].ends - 2 * WindowOf(b)

\* A backoff reaches the bucket of the service before that of the API, and is
\* announced after both.
Deferring == \A c \in Clients :
  /\ client[c].pc # "idle" => client[c].route \in Routes
  /\ client[c].pc = "throttled" => \E d \in Delays :
       \/ /\ client[c].todo = <<<<d, Service>>, <<d, client[c].route>>>>
          /\ client[c].due <= now + d
       \/ /\ client[c].todo = <<<<d, client[c].route>>>>
          /\ client[c].due <= row[Service].blocked

\* Until the time that was told, one of the buckets stays closed.
ToldBacked == \A r \in Routes :
  \/ told[r] <= now
  \/ \E b \in {Service, r} :
       \/ told[r] <= row[b].blocked
       \/ row[b].used >= LimitOf(b) /\ told[r] <= row[b].ends

BudgetInv ==
  /\ GrantsBounded /\ WindowsFollow /\ Deferring /\ ToldBacked
  /\ quiet <= row[Service].blocked
=============================================================================
