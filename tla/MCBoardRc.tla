------------------------------ MODULE MCBoardRc ------------------------------
(* A small instance of BoardRc: a user with a telnet session and a web       *)
(* session, another with a web session, served by one web process.           *)
EXTENDS BoardRc

CONSTANTS u1, u2, t1, w1, w2, b1, b2

TwoAtATime == {{t1, w1}, {w1, w2}}
WhoseSession == [s \in {t1, w1, w2} |-> IF s = w2 THEN u2 ELSE u1]

(* The first user has settings and, of one board, the list 10, 1; the second *)
(* no file.                                                                  *)
SomeMarks == [u \in {u1, u2} |->
    IF u = u1 THEN {<<InfoBlock, [board |-> b2, len |-> 6, first |-> 10,
                                  diffs |-> <<[width |-> 3, value |-> 9]>>]>>}
    ELSE {}]

(* At most six of the seven bounded steps (openings, marks, saves, faults)  *)
(* are taken, the sixth as the last.                                         *)
FewSteps == opens + marks + saves + faults <= 5
==============================================================================
