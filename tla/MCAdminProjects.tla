-------------------------- MODULE MCAdminProjects --------------------------
(***************************************************************************)
(* An instance of AdminProjects: a project that declares a backend before  *)
(* the sim it uses.                                                        *)
(***************************************************************************)
EXTENDS AdminProjects, TLC

CONSTANTS be, sim

TwoDeclared == <<be, sim>>
TwoKinds == (be :> "backend") @@ (sim :> "sim")
TwoSims == (be :> sim) @@ (sim :> None)
============================================================================
