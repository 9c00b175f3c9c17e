------------------------------ MODULE MCBroker ------------------------------
(***************************************************************************)
(* Small instances of the broker.  Messages and polls are interchangeable; *)
(* sessions are not, the round robin sorts their ids.                      *)
(***************************************************************************)
EXTENDS Broker, TLC

CONSTANTS m1, m2, d1

BrokerSymmetry == Permutations(WorkflowMsgs) \cup Permutations(Pollers)
=============================================================================
