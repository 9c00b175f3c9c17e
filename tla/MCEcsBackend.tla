---------------------------- MODULE MCEcsBackend ----------------------------
(***************************************************************************)
(* Instances of EcsBackend: one container, whose cycles share everything   *)
(* the backend keeps, as no map has an entry for more than one container.  *)
(***************************************************************************)
EXTENDS EcsBackend

CONSTANT c1
=============================================================================
