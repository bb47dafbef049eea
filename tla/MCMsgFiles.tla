---------------------------- MODULE MCMsgFiles ----------------------------
(* Small instances of MsgFiles. *)
EXTENDS MsgFiles, TLC

CONSTANTS p1, p2, p3

MCProcs == {p1, p2, p3}

(* At most three operations at a time: two senders, or a sender or two     *)
(* sessions of the owner beside a third that clears, and so on.            *)
MCJobs == [p \in MCProcs |->
    IF p = p1 THEN {"send", "mail", "clear"}
    ELSE IF p = p2 THEN {"send", "wall", "copy", "r_msg"}
    ELSE {"r_msg", "web", "browse"}]
==========================================================================
