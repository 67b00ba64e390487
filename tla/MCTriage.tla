------------------------------ MODULE MCTriage ------------------------------
(***************************************************************************)
(* Runs of a gated work, runs of an ungated work whose ledger allows two   *)
(* remediations over tables with duplicates, and silent sweeps.  One of    *)
(* them moves in a behaviour.                                              *)
(***************************************************************************)
EXTENDS Assessment, TLC

VARIABLES
  part,
  lrow, lbinding, lpage, lanswers,
  lrun, lholder, lreceipt, leffect, leffects, lflags, lfinished

Ledger == INSTANCE TriageRun WITH
  Redacted <- {}, Responders <- {}, MaxTurns <- 3, MaxToolCalls <- 4, MaxWrites <- 2,
  Tables <- 1, MaxBatch <- 1, Gated <- FALSE, HasDuplicates <- TRUE, Faults <- FALSE,
  row <- lrow, binding <- lbinding, page <- lpage, answers <- lanswers,
  run <- lrun, holder <- lholder, receipt <- lreceipt, effect <- leffect,
  effects <- leffects, flags <- lflags, finished <- lfinished

\* Each sweep in a process of its own.
Owners == [s \in Sweepers |-> s]

ledgerVars == <<lrow, lbinding, lpage, lanswers, lrun, lholder, lreceipt, leffect,
                leffects, lflags, lfinished>>
silentVars == <<reading, lease, sw, inc, posted, streak, overlapped, sfaults>>

TriageInit ==
  part \in {"gated", "ledger", "silent"} /\ Init /\ Ledger!Init /\ Silent!Init

TriageNext ==
  /\ UNCHANGED part
  /\ \/ part = "gated" /\ Next /\ UNCHANGED <<ledgerVars, silentVars>>
     \/ part = "ledger" /\ Ledger!Next /\ UNCHANGED <<vars, silentVars>>
     \/ part = "silent" /\ Silent!Next /\ UNCHANGED <<vars, ledgerVars>>

TriageSpec == TriageInit /\ [][TriageNext]_<<part, vars, ledgerVars, silentVars>>

\* One of them moves in a behaviour: the others stay as Init has them.
Interchangeable ==
  {f @@ g : f \in Permutations(Runs), g \in Permutations(Responders)}
    \cup Permutations(Sweepers)

-----------------------------------------------------------------------------
\* However many remediations its ledger allows, and although two runs execute
\* it, a work sends one remediation, and a recorded outcome is earned whatever
\* the model claims (reserve, _execute_write, _validate_outcome).
LedgerSafe == Ledger!IInv /\ Ledger!OneEffect /\ Ledger!OutcomesEarned
=============================================================================
