------------------------------ MODULE MCVotes ------------------------------
(* A small instance of Votes: a by telnet and by web, b by telnet. *)
EXTENDS Votes, TLC

CONSTANTS ta, wa, tb, a, b

Sessions == {ta, tb}
WebProcs == {wa}
Whose == (ta :> a @@ wa :> a @@ tb :> b)

Cast(a1, a2, b1) == (ta :> a1 @@ wa :> a2 @@ tb :> b1)

(* Two processes at a time, in every combination that meets. *)
Pairs == {Cast({"vote"}, {"vote"}, {}),
          Cast({"vote"}, {}, {"vote"}),
          Cast({"vote"}, {}, {"close"}),
          Cast({"vote"}, {}, {"poll"}),
          Cast({}, {"vote"}, {"close"}),
          Cast({}, {"vote"}, {"poll"}),
          Cast({"open", "close"}, {}, {}),
          Cast({"open"}, {}, {"close", "die"}),
          Cast({"open"}, {}, {"poll", "die"}),
          Cast({"poll"}, {}, {"poll"})}
Second == {2}
==========================================================================
