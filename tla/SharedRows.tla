----------------------------- MODULE SharedRows -----------------------------
(***************************************************************************)
(* Tables whose rows several processes share, each with the processes that *)
(* use it: the claims of the mailbox sweep, the rows of postponed retries, *)
(* the request budgets, the incidents with their journal.                  *)
(***************************************************************************)
EXTENDS MailboxSweep

CONSTANTS
  Sources, Signatures, SignatureOf, MaxAttempts, Drains,                   \* RetryQueue
  Clients, Routes, Limit, ApiLimit, Window, ApiWindow, Delays, MaxTime,    \* RateBudget
  Workflows, Operators, Requests, NoRequest, Cases, MaxRecords, MaxFaults  \* IncidentCase

VARIABLES
  revoked, row, work, fate, posts, proc,           \* RetryQueue
  now, bucket, client, granted, told, quiet,       \* RateBudget
  inc, ctl, journal, op, runs, sure, unsure, asked, replied, ifaults  \* IncidentCase

Retry == INSTANCE RetryQueue WITH Processes <- Drains
Budget == INSTANCE RateBudget WITH row <- bucket
Incidents == INSTANCE IncidentCase WITH
  Controllers <- Workflows, Keys <- Requests, NoKey <- NoRequest, faults <- ifaults

ASSUME RowsAssumption ==
  Retry!RetryAssumption /\ Budget!BudgetAssumption /\ Incidents!IncidentAssumption

-----------------------------------------------------------------------------
\* However many operators drain, and although the controller executes the same
\* work, an attempt sends one request, and a row with work stands for work of
\* its signature that exists (_drain_due_retries, claim_work).
RetriesSafe == Retry!RetriesSafe

\* A projection that arrives late neither puts an earlier attempt in the place
\* of a later one nor reopens a closed row (record_linked_retry).
LateProjectionsHarmless == Retry!LateProjectionsHarmless

\* Every grant made in a bucket's window is counted in it, whatever was rolled
\* back or lost, and no interval shorter than a window holds more than twice
\* its requests (acquire_many, _budget).
GrantsBounded == Budget!GrantsBounded

\* Nobody gets a request before the backoff a throttled read asked for is over,
\* nor before the time a caller was told to retry (defer, RateDecision.retry_at).
PromisesKept == Budget!PromisesKept

\* No occurrence is lost to a concurrent writer or counted twice, a closure is
\* written over the evidence its author saw, and a question costs one observer
\* call whose end the thread tells (record, append, _finish_question).
CasesTruthful == Incidents!CasesTruthful

\* A new occurrence is never hidden behind a closure made before it (record).
RecurrenceReopens == Incidents!RecurrenceReopens
=============================================================================
