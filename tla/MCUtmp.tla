------------------------------ MODULE MCUtmp ------------------------------
(* Small instances of Utmp. *)
EXTENDS Utmp, TLC

CONSTANTS a, t1, t2, r1, r2, h1, h2

OneUser == {a}
TwoTelnet == {t1, t2}
OneRequest == {r1}
OneHost == {h1}
OneHash == [h \in Hosts |-> 1]

(* The bound on the state space: what follows after a logout has freed     *)
(* somebody else's slot is not explored (wwwguestnum would grow for ever). *)
NoForeignLogout == "logout" \notin harm

Symmetry == Permutations(Telnet) \cup Permutations(Requests)
==========================================================================
