------------------------------ MODULE Mailbox -------------------------------
(***************************************************************************)
(* What bleephub's broker promises of its job messages, without sessions,  *)
(* channels, lists and drains: a message waits until it is offered to a    *)
(* runner, is then taken at most once or lost with the runner's            *)
(* connection, and never comes back.  Messages move one at a time.         *)
(***************************************************************************)
CONSTANTS Msgs,      \* the messages
          Droppable  \* those that may be dropped instead of offered

VARIABLE place       \* place[m]: where message m is

Move(m, from, to) == place[m] = from /\ place' = [place EXCEPT ![m] = to]

Init == place = [m \in Msgs |-> "waiting"]

Offer(m) == Move(m, "waiting", "offered")
Drop(m) == m \in Droppable /\ Move(m, "waiting", "dropped")
Take(m) == Move(m, "offered", "taken")
Lose(m) == Move(m, "offered", "lost")

Next == \E m \in Msgs : Offer(m) \/ Drop(m) \/ Take(m) \/ Lose(m)

Spec == Init /\ [][Next]_place
=============================================================================
