--------------------------- MODULE MCMailboxSweep ---------------------------
(* Two overlapping invocations, two alerts, one crash. *)
EXTENDS MailboxSweep, TLC

Interchangeable == Permutations(Instances) \cup Permutations(Keys)
=============================================================================
