----------------------------- MODULE Assessment -----------------------------
(***************************************************************************)
(* The two ways a failure is assessed: the triage runs of a work, and the  *)
(* sweeps that look for failures which raise no alert.                     *)
(***************************************************************************)
EXTENDS TriageRun

CONSTANTS
  Sweepers, OwnerOf, Nobody, Confirm, MaxErrors, Cooldown, LeaseTicks, Watch, Levels, Drop,
  Figures, MaxFaults   \* SilentSweep

VARIABLES reading, lease, sw, inc, posted, streak, overlapped, sfaults   \* SilentSweep

Silent == INSTANCE SilentSweep WITH row <- reading, faults <- sfaults

ASSUME SweepAssumption == Silent!WatchAssumption

-----------------------------------------------------------------------------
\* Silent sweeps do not scan together unless one outlived its lease, a finding
\* is confirmed by readings of its kind in a row, and one that is kept quiet
\* was announced (try_acquire_lease, observe, _record_silent_finding).
FindingsEarned == Silent!FindingsEarned

\* The detector never learns a collapse: the accepted row count does not fall
\* by as much in one step, and a lost schema only goes by acceptance (observe).
CollapseNotLearned == Silent!CollapseNotLearned
=============================================================================
