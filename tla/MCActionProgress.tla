-------------------------- MODULE MCActionProgress --------------------------
(* One failure with its throttled retry.                                   *)
EXTENDS ActionProgress, MCActionFence
=============================================================================
