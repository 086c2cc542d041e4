--------------------------- MODULE MCAgentJournal ---------------------------
(* Instances of AgentJournal for TLC. *)
EXTENDS AgentJournal, TLC
CONSTANTS t1, u1, r1, v0, v1

MCVersion == [j \in {u1} |-> v1]
=============================================================================
