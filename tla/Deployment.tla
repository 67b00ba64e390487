----------------------------- MODULE Deployment -----------------------------
(***************************************************************************)
(* Two tools that change a deployment, each with rivals of its own: the    *)
(* reset of monitoring state and the bootstrap of the database.            *)
(***************************************************************************)
EXTENDS DeploymentReset

CONSTANTS
  Migrations, Deployers   \* bootstrap operations and the processes that run them

VARIABLES receipt, recovery, applied, deployer, told, adjudged   \* SqlBootstrap

Bootstrap == INSTANCE SqlBootstrap WITH Operations <- Migrations, None <- Nobody

ASSUME ScriptAssumption == ResetAssumption /\ Bootstrap!BootstrapAssumption

-----------------------------------------------------------------------------
\* A bundle is in the database exactly when its receipt says so and was run
\* once, an operation adjudicated as rolled back never takes effect, nothing
\* overtakes its replacement, and what a run reports is so for good (run,
\* recover, reconcile, reconcile_recovery, _pending_count).
BootstrapSafe == Bootstrap!BootstrapSafe
=============================================================================
