---------------------------- MODULE MCPanelJobs ----------------------------
(* Instances of PanelJobs for TLC. *)
EXTENDS PanelJobs, TLC
CONSTANTS a1, a2, b1, p1, p2, u1, x1, h1, h2, h3, r1, r2, key1, upd, foreign, o1, o2

MCTarget == [j \in Jobs |-> CASE j \in {a1, a2} -> r1
                              [] j = b1 -> r2
                              [] j \in {p1, p2} -> key1
                              [] j = u1 -> upd
                              [] OTHER -> foreign]

Symmetry == Permutations(Calls) \cup Permutations(Jobs \cap {a1, a2})
                \cup Permutations(Jobs \cap {p1, p2})
                \cup Permutations(Owners)
=============================================================================
