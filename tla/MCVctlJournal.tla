--------------------------- MODULE MCVctlJournal ---------------------------
(* Instances of VctlJournal for TLC. *)
EXTENDS VctlJournal, TLC
CONSTANTS p1, p2, u1, a1, a2, r1, r2, o1, o2, v0, v1

MCVersion == [t \in Updates |-> v1]
MCOneOwner == [t \in Connect |-> o1]
MCTwoOwners == [t \in Connect |-> IF t \in {a2, r2} THEN o2 ELSE o1]
=============================================================================
