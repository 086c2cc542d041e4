--------------------------- MODULE MCJobProtocol ---------------------------
(* Instances of JobProtocol for TLC. *)
EXTENDS JobProtocol, TLC
CONSTANTS a1, a2, u1, h1, h2, r1, r2, upd, v0, v1

MCTarget == [j \in Jobs |-> CASE j = a1 -> r1 [] j = a2 -> r2 [] OTHER -> upd]
Symmetry == Permutations(Calls)
MCVersion == [j \in UpdateJobs |-> v1]
=============================================================================
