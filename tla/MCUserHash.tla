---------------------------- MODULE MCUserHash ----------------------------
(* A small instance of UserHash: both ids belong to one chain.             *)
EXTENDS UserHash

CONSTANTS a, b, w, r1

TwoIds == {a, b}
MCWriters == {w}
MCReaders == {r1}
MCHash == [x \in Ids |-> 1]
Crashes == {"crash"}
==========================================================================
