----------------------------- MODULE ClaimStore -----------------------------
(***************************************************************************)
(* AzureSqlClaimStore (src/triage/store/claims.py): a lease per key, held  *)
(* as one row of a shared table.  A claim is an INSERT on the primary key, *)
(* and, when that key exists, a conditional UPDATE that steals an expired  *)
(* row: two statements, between which other instances run.  A release      *)
(* deletes the row only where it still carries this instance's token.      *)
(*                                                                         *)
(* Time is kept as what is left of each lease: ClockTick takes one tick    *)
(* off every row, so a row with left = 0 has expires_at < now.  The        *)
(* random owner token of a claim is represented by the instance that drew  *)
(* it: an instance holds at most one claim per key, and a restarted        *)
(* instance starts with nothing held, so the token of one instance never   *)
(* has to be told from an older token of the same instance.                *)
(***************************************************************************)
EXTENDS Naturals

CONSTANTS
  Instances,    \* the AzureSqlClaimStore objects, one per invocation
  Keys,         \* the claim keys
  Lease,        \* lease_seconds, in ticks
  NoInstance    \* the absent owner

ASSUME LeaseAssumption == Lease \in Nat \ {0}
ASSUME NoInstanceAssumption == NoInstance \notin Instances

VARIABLES
  rows,         \* the claim table: key -> its row
  held          \* each instance's _held: the keys it believes it owns

claimVars == <<rows, held>>

Row == [owner: Instances \cup {NoInstance}, left: 0..Lease]

NoRow == [owner |-> NoInstance, left |-> 0]

HasRow(k) == rows[k].owner # NoInstance

ClaimTypeOK ==
  /\ rows \in [Keys -> Row]
  /\ held \in [Instances -> SUBSET Keys]

ClaimInit ==
  /\ rows = [k \in Keys |-> NoRow]
  /\ held = [i \in Instances |-> {}]

-----------------------------------------------------------------------------
NewRow(i) == [owner |-> i, left |-> Lease]

Hold(i, k) == held' = [held EXCEPT ![i] = @ \cup {k}]

\* The INSERT succeeds: nobody has a row for this key.
InsertClaim(i, k) ==
  /\ ~HasRow(k)
  /\ rows' = [rows EXCEPT ![k] = NewRow(i)]
  /\ Hold(i, k)

\* The INSERT raises something other than a duplicate key; claim() returns
\* False.  The statement may have committed before the connection dropped.
InsertUnconfirmed(i, k) ==
  /\ \/ rows' = rows
     \/ ~HasRow(k) /\ rows' = [rows EXCEPT ![k] = NewRow(i)]
  /\ UNCHANGED held

\* Mutant: the UPDATE without its expires_at condition.
StealLive(i, k) ==
  /\ HasRow(k)
  /\ rows' = [rows EXCEPT ![k] = NewRow(i)]
  /\ Hold(i, k)

\* UPDATE ... WHERE claim_key = ? AND expires_at < now matched one row.
StealClaim(i, k) ==
  /\ HasRow(k)
  /\ rows[k].left = 0
  /\ rows' = [rows EXCEPT ![k] = NewRow(i)]
  /\ Hold(i, k)

\* The UPDATE matched no row (the lease is live, or the row has gone), or
\* raised: claim() returns False.  A raising UPDATE may have committed.
StealRefused(i, k) ==
  /\ \/ rows' = rows
     \/ HasRow(k) /\ rows[k].left = 0 /\ rows' = [rows EXCEPT ![k] = NewRow(i)]
  /\ UNCHANGED held

\* Mutant: the DELETE without its owner condition.
ReleaseAnyOwner(i, k) ==
  /\ held' = [held EXCEPT ![i] = @ \ {k}]
  /\ rows' = [rows EXCEPT ![k] = NoRow]

\* release(): forget the token, then DELETE WHERE claim_key AND owner.  A
\* failing DELETE is logged and swallowed.
ReleaseClaim(i, k) ==
  /\ held' = [held EXCEPT ![i] = @ \ {k}]
  /\ \/ rows' = rows
     \/ k \in held[i] /\ rows[k].owner = i /\ rows' = [rows EXCEPT ![k] = NoRow]

\* The process that owned this store object is gone; its rows stay.
LoseInstance(i) ==
  /\ held' = [held EXCEPT ![i] = {}]
  /\ UNCHANGED rows

Ticked(n) == IF n = 0 THEN 0 ELSE n - 1

\* The database clock advances by one tick.
ClockTick ==
  /\ rows' = [k \in Keys |-> [rows[k] EXCEPT !.left = Ticked(@)]]
  /\ UNCHANGED held
=============================================================================
