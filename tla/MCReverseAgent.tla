--------------------------- MODULE MCReverseAgent ---------------------------
\* Small instances of the reverse agent.
EXTENDS ReverseAgent, TLC

CONSTANTS x1, x2

\* Two calls that derive their session id from the container, as
\* RunAndCapture("top-" + id) and Attach("attach-" + id) do.
SharedKey == [x \in Execs |-> "derived"]

\* Execs with ids of their own, as docker exec has.
OwnKeys == [x \in Execs |-> IF x = x1 THEN "e1" ELSE "e2"]

=============================================================================
