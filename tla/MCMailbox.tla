----------------------------- MODULE MCMailbox -----------------------------
(* Small instances of Mailbox. *)
EXTENDS Mailbox, TLC

CONSTANTS p1, p2, p3

TwoProcs == {p1, p2}
ThreeProcs == {p1, p2, p3}

(* A part of numtable: one kilobyte and three kilobytes. *)
Table == {1040, 3073}
OneKilobyte == {1040}
Short == {1000}
ShortAndLong == {1000, 3000}

NoFlags == {}
BothFlags == {"marked", "del"}
MailOnly == {"mail_file"}
AllKinds == AllCalls

Cast(a, b, c) == [p \in Procs |-> IF p = p1 THEN a ELSE IF p = p2 THEN b ELSE c]

(* A sender, a web request and the POP3 daemon; and a sender that asks for *)
(* recounts beside a session that marks and deletes ranges.                *)
Deletions == {Cast({"send"}, {"web"}, {"pop"}),
              Cast({"send", "ask", "fix"}, {"range", "mark", "del"}, {})}

(* Two sessions whose views of the index grow old; one of them sends. *)
Stale == {Cast({"send", "del"}, {"mark", "edit", "web"}, {})}

(* The bounds on the mailbox; three processes share a smaller one. *)
TwoMails == Len(dir) <= 2 /\ \A t \in files : t <= 3
ThreeMails == Len(dir) <= 3 /\ \A t \in files : t <= 4
FewMails == IF jobs[p3] # {} THEN TwoMails
            ELSE ThreeMails /\ \A p \in Procs : loc[p].mail.length \notin {3000}
=============================================================================
