-------------------------- MODULE MCPasswdTable --------------------------
(* Small instances of PasswdTable: all ids in one chain of the hash. *)
EXTENDS PasswdTable, TLC

CONSTANTS a, b, c, p1, p2

MCIds == {a, b, c}
MCProcs == {p1, p2}
MCHash == [x \in MCIds |-> 1]
NoFaults == {}
AllFaults == {"crash", "io"}

Symmetry == Permutations(MCProcs) \cup Permutations(MCIds)
==========================================================================
