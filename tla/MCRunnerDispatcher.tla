------------------------ MODULE MCRunnerDispatcher ------------------------
(***************************************************************************)
(* RunnerDispatcher with the jobs of one run.                              *)
(***************************************************************************)
EXTENDS RunnerDispatcher

CONSTANTS j1, j2, r1

OneRun == [j \in {j1, j2} |-> r1]
=============================================================================
