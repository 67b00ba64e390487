---------------------------- MODULE MCSharedRows ----------------------------
(***************************************************************************)
(* Small tables; they have no row in common, so one of them moves in a     *)
(* behaviour.                                                              *)
(***************************************************************************)
EXTENDS SharedRows, TLC

VARIABLE part    \* the table in question

OneSignature == [s \in Sources |-> "x"]

retryVars == <<revoked, row, work, fate, posts, proc>>
budgetVars == <<now, bucket, client, granted, told, quiet>>
caseVars == <<inc, ctl, journal, op, runs, sure, unsure, asked, replied, ifaults>>
rowsVars == <<vars, part, retryVars, budgetVars, caseVars>>

RowsInit ==
  /\ part \in {"mailbox", "retries", "budgets", "incidents"}
  /\ Init /\ Retry!Init /\ Budget!Init /\ Incidents!Init

RowsNext ==
  /\ UNCHANGED part
  /\ \/ /\ part = "mailbox" /\ Next
        /\ UNCHANGED <<retryVars, budgetVars, caseVars>>
     \/ /\ part = "retries" /\ Retry!Next
        /\ UNCHANGED <<vars, budgetVars, caseVars>>
     \/ /\ part = "budgets" /\ Budget!Next
        /\ UNCHANGED <<vars, retryVars, caseVars>>
     \/ /\ part = "incidents" /\ Incidents!Next
        /\ UNCHANGED <<vars, retryVars, budgetVars>>

RowsSpec == RowsInit /\ [][RowsNext]_rowsVars

\* Only one table's processes move, so their pairs are swapped together.
Flips(S) == Permutations(S) \ {[x \in S |-> x]}
Id(S) == [x \in S |-> x]

ProcessFlips ==
  {Id(Instances)} \cup
  {f @@ g @@ h @@ k : f \in Flips(Instances), g \in Flips(Drains), h \in Flips(Clients),
                      k \in Flips(Workflows)}
RowFlips ==
  {Id(Keys)} \cup
  {f @@ g @@ h : f \in Flips(Keys), g \in Flips(Routes), h \in Flips(Operators)}

Interchangeable ==
  {f @@ g @@ h : f \in ProcessFlips, g \in RowFlips, h \in Permutations(Requests)}
=============================================================================
