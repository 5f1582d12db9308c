----------------------------- MODULE MCLifecycle -----------------------------
(***************************************************************************)
(* Instances of Lifecycle for TLC: a public deployment on a host that      *)
(* restarts it and migrates, with a real secret or with the demo one it    *)
(* was given by mistake, and the local stack, which leaves the database to *)
(* initdb and restarts nothing.                                            *)
(***************************************************************************)
EXTENDS Lifecycle

Deploy(deployment, secret, migrations, restarts) ==
  [deployment |-> deployment, secret |-> secret, migrations |-> migrations, restarts |-> restarts]

MCEnvironments ==
  {Deploy("production", "strong", "On", TRUE), Deploy("production", "unset", "true", TRUE),
   Deploy("unset", "lab-only-secret-change-me", "unset", FALSE)}
=============================================================================
