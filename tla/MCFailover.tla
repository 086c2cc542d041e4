------------------------------ MODULE MCFailover ------------------------------
(* Instances of Failover for TLC. *)
EXTENDS Failover
CONSTANTS m1, m2, c1, b1

World(up, pin, f, k) ==
  [nodes |-> [n \in Nodes |-> IF n \in up THEN "up" ELSE "down"],
   pins |-> pin, changes |-> f, mishaps |-> k]

\* Everything works, also with a pin of the owner's, or only the node of another
\* country.
MCWorlds == {World(Nodes, None, 2, 0), World(Nodes, None, 1, 1),
             World(Nodes, m1, 1, 1), World({b1}, None, 1, 0)}
=============================================================================
