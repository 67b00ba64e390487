----------------------------- MODULE Collection -----------------------------
(***************************************************************************)
(* The two ways evidence is collected: the receivers of one partition of   *)
(* the stream, and the polling windows of one target.  They share no state *)
(* before the controller.                                                  *)
(***************************************************************************)
EXTENDS PartitionStream

CONSTANTS
  Collectors, Adapter, PageSize, Retained, Lookback, PollSeconds, MaxTime, Finishes, MaxPolicy,
  MaxPollFaults      \* CollectionWindow

VARIABLES
  now, runs, policy, admitted, schedule, poll, progress, pages, rows, ambiguous,
  status, coverage, ingested, col, wfaults     \* CollectionWindow

Windows == INSTANCE CollectionWindow WITH
  MaxFaults <- MaxPollFaults, Nobody <- None, faults <- wfaults

ASSUME CollectionAssumption == Windows!WindowAssumption

-----------------------------------------------------------------------------
\* Every run the coverage watermark has passed was admitted as source authority,
\* or accepted under a policy that has since been replaced, and a window is
\* validated with all its pages decided and all its rows admitted
\* (_publish_rest_window, _validate_rest_window).
CoverageTruthful == Windows!CoverageTruthful

\* Monitoring of an admitted target never stops: a poll of the current policy is
\* queued or running, or a last page is still to be decided, which schedules one
\* (_schedule_poll, record_rest_page).
PollingContinues == Windows!PollingContinues
=============================================================================
