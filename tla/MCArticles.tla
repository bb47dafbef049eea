----------------------------- MODULE MCArticles -----------------------------
(* Small instances of Articles. *)
EXTENDS Articles, TLC

CONSTANTS p1, p2, p3

ThreeProcs == {p1, p2, p3}
FirstOwns == {p1}

Cast(a, b, c) == [p \in Procs |-> IF p = p1 THEN a ELSE IF p = p2 THEN b ELSE c]

(* Posting, in the order of names; the same beside the removal of lost     *)
(* files; requests of the web that name a place; flags and ranges; edits   *)
(* of what is deleted and restored; excerpts, made and given up by several *)
(* managers; deletion, restoring and the programs run from cron.           *)
BoardCasts ==
    {Cast({"post"}, {"webpost"}, {"del"}),
     Cast({"post"}, {"rmlost"}, {"edit"}),
     Cast({"del"}, {"webdel"}, {"webedit"}),
     Cast({"webdel"}, {"webpost"}, {"webdel"}),
     Cast({"flag"}, {"range"}, {"webset", "webpost"}),
     Cast({"edit", "del"}, {"webedit"}, {"undelete"}),
     Cast({"digest"}, {"del"}, {"webdel"}),
     Cast({"digest"}, {"digest", "rmjunk"}, {"del"}),
     Cast({"digest"}, {"digest"}, {"digest", "range"}),
     Cast({"digest"}, {"digest"}, {"webedit"}),
     Cast({"digest"}, {"digest"}, {"webset"}),
     Cast({"undelete"}, {"del", "rmjunk"}, {"del"}),
     Cast({"del", "undelete"}, {"undelete", "del"}, {}),
     Cast({"del", "digest"}, {"rmlost"}, {"undelete"})}
=============================================================================
