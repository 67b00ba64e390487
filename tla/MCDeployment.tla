---------------------------- MODULE MCDeployment ----------------------------
EXTENDS Deployment, TLC

VARIABLE part    \* one of them moves in a behaviour

\* Rival baselines, one registration to renew, two resets.
Plans == [initialize |-> 1, register |-> 1, reset |-> 2]

bootVars == <<receipt, recovery, applied, deployer, told, adjudged>>

\* The first baseline of an empty database, resets beside services that write
\* to a registered one, the bootstrap script.
ToolsInit ==
  /\ part \in {"baseline", "reset", "bootstrap"}
  /\ Init /\ Bootstrap!Init
  /\ part = "reset" <=> control # NoControl

ToolsNext ==
  /\ UNCHANGED part
  /\ \/ part = "baseline" /\ Next /\ UNCHANGED <<rows, bootVars>>
     \/ part = "reset" /\ Next /\ UNCHANGED bootVars
     \/ part = "bootstrap" /\ Bootstrap!Next /\ UNCHANGED vars

ToolsSpec == ToolsInit /\ [][ToolsNext]_<<part, vars, bootVars>>

Interchangeable == Permutations(Operators)
=============================================================================
