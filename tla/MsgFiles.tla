------------------------------ MODULE MsgFiles ------------------------------
(***************************************************************************)
(* The messages one account has received, in three files of its home       *)
(* directory: msgindex with the header of every message sent or received,  *)
(* msgindex2 with the headers of the received ones behind a counter of     *)
(* those already shown, and msgcontent with the texts.                     *)
(*                                                                         *)
(* Senders append to all three, sessions of the owner show the next unread *)
(* message, browse, mail everything back, and clear.  save_msgtext holds a *)
(* write lock (fcntl) on one index while it writes there, get_unreadmsg a  *)
(* read lock only, and clear_msg unlinks the files one by one under no     *)
(* lock at all: a process goes on writing to the file it has opened though *)
(* the name leads to another one by now.  So files are inodes here.        *)
(***************************************************************************)
EXTENDS Integers, Sequences, SequencesExt, FiniteSets

CONSTANTS Procs,      \* processes that send, show or clear messages
          Jobs,       \* Jobs[p]: the operations process p may run
          MaxMessage, \* MAXMESSAGE: more unread messages than that refuse
          MaxMsgs,    \* bound: messages that are ever sent
          MaxClears   \* bound: how often the files are cleared

AllJobs == {"send", "wall", "copy", "r_msg", "web", "browse", "clear", "mail"}

ASSUME MsgFilesAssumption ==
    /\ Jobs \in [Procs -> SUBSET AllJobs]
    /\ MaxMessage \in Nat /\ MaxMsgs \in Nat /\ MaxClears \in Nat

Msgs == 1..MaxMsgs

(* Every unlink makes room for one more inode under a name; 0 is no file. *)
Inodes == 1..MaxClears + 1
Names == {"index", "index2", "content"}

VARIABLES
    cur,     \* cur[n]: the inode that name n leads to
    made,    \* made[n]: inodes created under name n so far
    index,   \* the headers in each inode of msgindex
    index2,  \* the same for msgindex2, with the counter in front of them
    content, \* the texts in each inode of msgcontent
    pc,      \* where every process is
    loc,     \* its local variables, see NoLocals
    sent,    \* messages numbered so far
    given,   \* history: how often get_unreadmsg has returned a message
    hurt,    \* history: messages whose save met clear_msg or one adrift, or was killed
    late,    \* history: messages saved while the owner mailed all of them
    raced,   \* history: two sessions were in get_unreadmsg at a time
    mailed,  \* history: messages sent to the mailbox of the owner
    wiped,   \* history: messages cleared on the owner's wish
    clears   \* how often clear_msg was called

files == <<cur, made, index, index2, content>>
marks == <<given, hurt, late, raced, mailed, wiped>>
vars == <<files, pc, loc, sent, clears, marks>>

(* A header names its message and the place of the text in msgcontent.     *)
(* Texts are one unit long; Blank is what a read past the end yields.      *)
(* Garbage is the header of a function that has not filled it in.          *)
Header == [msg : Msgs, pos : Nat]
Garbage == [msg |-> 0, pos |-> 0]
Blank == 0

(* An empty file has no counter yet (size 0). *)
NewIndex2 == [counter |-> -1, heads |-> <<>>]

(* job: what the process does; msg: the message it sends; ino, cino: the   *)
(* files it has open; pos: the place of its text; at: the index that       *)
(* get_unreadmsg or get_msgcount gave it; head, text: what it has loaded;  *)
(* copy: the messages it mails.  lone (history): no other session took a   *)
(* message, and none cleared the files, behind its back.                   *)
NoLocals == [job |-> "none", msg |-> 0, ino |-> 0, cino |-> 0, pos |-> 0,
             at |-> 0, head |-> Garbage, text |-> Blank, copy |-> {}, lone |-> TRUE]

Init ==
    /\ cur = [n \in Names |-> 0] /\ made = [n \in Names |-> 0]
    /\ index = [i \in Inodes |-> <<>>]
    /\ index2 = [i \in Inodes |-> NewIndex2]
    /\ content = [i \in Inodes |-> <<>>]
    /\ pc = [p \in Procs |-> "idle"] /\ loc = [p \in Procs |-> NoLocals]
    /\ sent = 0 /\ given = [m \in Msgs |-> 0]
    /\ hurt = {} /\ late = {} /\ raced = FALSE /\ mailed = {} /\ wiped = {} /\ clears = 0

Goto(p, where, l) == pc' = [pc EXCEPT ![p] = where] /\ loc' = [loc EXCEPT ![p] = l]
Return(p) == Goto(p, "idle", NoLocals)
Does(p, job) == pc[p] = "idle" /\ job \in Jobs[p]

(* open with O_CREAT. *)
Opened(n) == IF cur[n] = 0 THEN made[n] + 1 ELSE cur[n]
Open(n) == /\ cur' = [cur EXCEPT ![n] = Opened(n)]
           /\ made' = [made EXCEPT ![n] = IF cur[n] = 0 THEN @ + 1 ELSE @]

(* msgindex2 under its name, an empty file if there is none. *)
Index2 == IF cur["index2"] = 0 THEN NewIndex2 ELSE index2[cur["index2"]]
Heads == IF cur["index"] = 0 THEN <<>> ELSE index[cur["index"]]
Heads2 == Index2.heads
get_unreadcount == IF Index2.counter \in 0..Len(Heads2) THEN Len(Heads2) - Index2.counter
                   ELSE 0

(* Who is in the middle of save_msgtext, of clear_msg, of mail_msg; and    *)
(* who still writes to a msgindex that was unlinked: its lock keeps nobody *)
(* away from the msgcontent it shares with the senders of today.           *)
Saving == {p \in Procs : pc[p] \in {"open_content", "head", "text",
                                    "open2", "head2"}}
Clearing == {p \in Procs : pc[p] \in {"unlink2", "unlink_content"}}
Adrift == {p \in Procs : pc[p] \in {"open_content", "head", "text"}
                         /\ loc[p].ino # cur["index"]}
Mailing == {p \in Procs : pc[p] \in {"mail_copy", "mail_send", "unlink"}
                          /\ loc[p].job = "mail"}

-----------------------------------------------------------------------------
(***************************************************************************)
(* save_msgtext.  sendmsgfunc and the web form ask for the unread messages *)
(* first, broadcasts (mode 0) do not, and the owner's own copies are only  *)
(* entered in msgindex.  The count and the first open are one step: what   *)
(* clear_msg does in between only makes the count smaller.                 *)
(***************************************************************************)
MaySend(job) == job # "send" \/ get_unreadcount <= MaxMessage

SendStart(p) ==
    \E job \in {"send", "wall", "copy"} :
      /\ Does(p, job) /\ MaySend(job)
      /\ sent < MaxMsgs
      /\ sent' = sent + 1
      /\ Open("index")
      /\ Goto(p, "open_content", [NoLocals EXCEPT !.job = job, !.msg = sent + 1,
                                                  !.ino = Opened("index")])
      /\ hurt' = IF Clearing # {} \/ Adrift # {} THEN hurt \cup {sent + 1} ELSE hurt
      /\ late' = IF Mailing # {} THEN late \cup {sent + 1} ELSE late
      /\ UNCHANGED <<index, index2, content, clears, given, raced, mailed, wiped>>

OpenContent(p) ==
    /\ pc[p] = "open_content"
    /\ Open("content")
    /\ Goto(p, "head", [loc[p] EXCEPT !.cino = Opened("content")])
    /\ UNCHANGED <<index, index2, content, sent, clears, marks>>

(* The lock on this inode of msgindex lasts until the text is written. *)
IndexLocked(i) == \E q \in Procs : pc[q] = "text" /\ loc[q].ino = i

HeadOf(p, pos) == [msg |-> loc[p].msg, pos |-> pos]

(* Faulty form: the lock is forgotten. *)
WriteHeadUnlocked(p) ==
    LET pos == Len(content[loc[p].cino]) IN
    /\ pc[p] = "head"
    /\ index' = [index EXCEPT ![loc[p].ino] = Append(@, HeadOf(p, pos))]
    /\ Goto(p, "text", [loc[p] EXCEPT !.pos = pos])
    /\ UNCHANGED <<cur, made, index2, content, sent, clears, marks>>

WriteHead(p) ==
    LET pos == Len(content[loc[p].cino]) IN
    /\ pc[p] = "head" /\ ~IndexLocked(loc[p].ino)
    /\ index' = [index EXCEPT ![loc[p].ino] = Append(@, HeadOf(p, pos))]
    /\ Goto(p, "text", [loc[p] EXCEPT !.pos = pos])
    /\ UNCHANGED <<cur, made, index2, content, sent, clears, marks>>

(* The text goes where the end of the file was; close, unlock. *)
Written(c, pos, m) == IF pos < Len(c) THEN [c EXCEPT ![pos + 1] = m] ELSE Append(c, m)

WriteText(p) ==
    /\ pc[p] = "text"
    /\ content' = [content EXCEPT ![loc[p].cino] = Written(@, loc[p].pos, loc[p].msg)]
    /\ IF loc[p].job = "copy" THEN Return(p) ELSE Goto(p, "open2", loc[p])
    /\ UNCHANGED <<cur, made, index, index2, sent, clears, marks>>

OpenIndex2(p) ==
    /\ pc[p] = "open2"
    /\ Open("index2")
    /\ Goto(p, "head2", [loc[p] EXCEPT !.ino = Opened("index2")])
    /\ UNCHANGED <<index, index2, content, sent, clears, marks>>

(* The write lock waits for the read locks of get_unreadmsg. *)
Advancing(i) == {q \in Procs : pc[q] = "advance" /\ loc[q].ino = i}

WriteHead2(p) ==
    LET f == index2[loc[p].ino] IN
    /\ pc[p] = "head2" /\ Advancing(loc[p].ino) = {}
    /\ index2' = [index2 EXCEPT ![loc[p].ino] =
                    [counter |-> IF f.counter = -1 THEN 0 ELSE f.counter,
                     heads |-> Append(f.heads, HeadOf(p, loc[p].pos))]]
    /\ Return(p)
    /\ UNCHANGED <<cur, made, index, content, sent, clears, marks>>

(* The process is killed; its locks and files go with it. *)
KillSender(p) ==
    /\ p \in Saving
    /\ hurt' = hurt \cup {loc[p].msg}
    /\ Return(p)
    /\ UNCHANGED <<files, sent, clears, given, late, raced, mailed, wiped>>

-----------------------------------------------------------------------------
(***************************************************************************)
(* Showing the next unread message: the loop of r_msg in a telnet session, *)
(* and bbsgetmsg on the web, which trusts unreadmsg of its slot in utmp    *)
(* (any value, here) instead of counting.                                  *)
(***************************************************************************)
ShowStart(p) ==
    /\ \/ Does(p, "r_msg") /\ get_unreadcount > 0
          /\ Goto(p, "take", [NoLocals EXCEPT !.job = "r_msg"])
       \/ Does(p, "web")
          /\ Goto(p, "take", [NoLocals EXCEPT !.job = "web"])
    /\ UNCHANGED <<files, sent, clears, marks>>

(* get_unreadmsg creates the file if need be; with -1 r_msg goes on. *)
NextUnread == IF get_unreadcount = 0 THEN -1 ELSE Index2.counter

(* The other sessions that have counted the unread messages but have not   *)
(* come to take one find one less.                                         *)
TakenFrom(p, l) == [q \in Procs |-> IF q # p /\ pc[q] = "take"
                                    THEN [l[q] EXCEPT !.lone = FALSE] ELSE l[q]]

Take(p) ==
    LET ino == Opened("index2") IN
    /\ pc[p] = "take"
    /\ Open("index2")
    /\ IF NextUnread = -1
         THEN /\ IF loc[p].job = "web" THEN Return(p)
                 ELSE Goto(p, "load", [loc[p] EXCEPT !.at = -1])
              /\ UNCHANGED <<given, raced>>
         ELSE /\ pc' = [pc EXCEPT ![p] = "advance"]
              /\ loc' = [loc EXCEPT ![p].at = NextUnread, ![p].ino = ino]
              /\ given' = [given EXCEPT ![Heads2[NextUnread + 1].msg] = @ + 1]
              /\ raced' = (raced \/ Advancing(ino) # {})
    /\ UNCHANGED <<index, index2, content, sent, clears, hurt, late, mailed, wiped>>

(* Faulty forms: the counter stays, or goes up by two. *)
AdvanceNot(p) ==
    /\ pc[p] = "advance"
    /\ Goto(p, "load", [loc[p] EXCEPT !.ino = 0])
    /\ UNCHANGED <<files, sent, clears, marks>>

Advance(p) ==
    /\ pc[p] = "advance"
    /\ index2' = [index2 EXCEPT ![loc[p].ino].counter = loc[p].at + 1]
    /\ pc' = [pc EXCEPT ![p] = "load"]
    /\ loc' = TakenFrom(p, [loc EXCEPT ![p].ino = 0])
    /\ UNCHANGED <<cur, made, index, content, sent, clears, marks>>

(* r_msg2 goes through the received messages, by numbers below a count     *)
(* made at the start; the count of an empty file is no count at all.       *)
BrowseStart(p) ==
    /\ Does(p, "browse")
    /\ cur["index2"] # 0
    /\ \E i \in 0..Len(Index2.heads) :
         /\ i < Len(Index2.heads) \/ Index2.counter = -1
         /\ Goto(p, "load", [NoLocals EXCEPT !.job = "browse", !.at = i,
                                             !.lone = Index2.counter # -1])
    /\ UNCHANGED <<files, sent, clears, marks>>

(* Faulty form: the number is looked up among all messages. *)
HeadAtAll(p) == IF loc[p].at \in 0..Len(Heads) - 1 THEN Heads[loc[p].at + 1] ELSE loc[p].head

(* load_msghead: if there is no such header, the old one stays. *)
HeadAt(p) == IF loc[p].at \in 0..Len(Heads2) - 1 THEN Heads2[loc[p].at + 1] ELSE loc[p].head

LoadHead(p) ==
    /\ pc[p] = "load"
    /\ Goto(p, "load_text", [loc[p] EXCEPT !.head = HeadAt(p)])
    /\ UNCHANGED <<files, sent, clears, marks>>

(* load_msgtext *)
TextAt(pos) == LET c == cur["content"] IN
               IF c # 0 /\ pos < Len(content[c]) THEN content[c][pos + 1] ELSE Blank

LoadText(p) ==
    /\ pc[p] = "load_text"
    /\ Goto(p, "shown", [loc[p] EXCEPT !.text = TextAt(loc[p].head.pos)])
    /\ UNCHANGED <<files, sent, clears, marks>>

(* r_msg shows messages as long as there are any; the others are done. *)
ShowOn(p) ==
    /\ pc[p] = "shown"
    /\ IF loc[p].job = "r_msg" /\ get_unreadcount > 0
         THEN Goto(p, "take", [loc[p] EXCEPT !.text = Blank, !.lone = TRUE])
         ELSE Return(p)
    /\ UNCHANGED <<files, sent, clears, marks>>

-----------------------------------------------------------------------------
(***************************************************************************)
(* mail_msg: the messages up to the count made at the start are put into a *)
(* file, which is mailed to the owner; if that works, they are cleared.    *)
(***************************************************************************)
MsgsOf(heads) == {h.msg : h \in ToSet(heads)}

MailCount(p) ==
    /\ Does(p, "mail") /\ clears < MaxClears
    /\ Goto(p, "mail_copy", [NoLocals EXCEPT !.job = "mail", !.at = Len(Heads)])
    /\ late' = late \cup {loc[q].msg : q \in Saving}
    /\ UNCHANGED <<files, sent, clears, given, hurt, raced, mailed, wiped>>

(* Faulty form: the last message is left out. *)
CopyAllButOne(p) == MsgsOf(SubSeq(Heads, 1, loc[p].at - 1))

CopyOf(p) == MsgsOf(SubSeq(Heads, 1, IF loc[p].at <= Len(Heads) THEN loc[p].at ELSE Len(Heads)))

MailCopy(p) ==
    /\ pc[p] = "mail_copy"
    /\ Goto(p, "mail_send", [loc[p] EXCEPT !.copy = CopyOf(p)])
    /\ UNCHANGED <<files, sent, clears, marks>>

MailSend(p) ==
    /\ pc[p] = "mail_send"
    /\ \/ /\ clears < MaxClears
          /\ clears' = clears + 1
          /\ mailed' = mailed \cup loc[p].copy
          /\ Goto(p, "unlink", loc[p])
       \/ Return(p) /\ UNCHANGED <<mailed, clears>>
    /\ UNCHANGED <<files, sent, given, hurt, late, raced, wiped>>

(* clear_msg, one unlink after the other. *)
Unlink(n) ==
    /\ cur' = [cur EXCEPT ![n] = 0]
    /\ hurt' = hurt \cup {loc[q].msg : q \in Saving}
    /\ UNCHANGED <<made, index, index2, content, sent, given, late, raced, mailed>>

ClearedUnder(p, l) == [q \in Procs |-> IF q = p THEN l ELSE [loc[q] EXCEPT !.lone = FALSE]]

(* bbsdelmsg, show_allmsgs, Goodbye; or mail_msg has come this far. *)
UnlinkIndex(p) ==
    \E job \in {"clear", "mail"} :
      /\ \/ job = "clear" /\ Does(p, "clear") /\ clears < MaxClears /\ clears' = clears + 1
         \/ job = "mail" /\ pc[p] = "unlink" /\ UNCHANGED clears
      /\ Unlink("index")
      /\ pc' = [pc EXCEPT ![p] = "unlink2"]
      /\ loc' = ClearedUnder(p, [loc[p] EXCEPT !.job = job])
      /\ wiped' = IF job = "clear" THEN wiped \cup MsgsOf(Heads) ELSE wiped

UnlinkIndex2(p) ==
    /\ pc[p] = "unlink2"
    /\ Unlink("index2")
    /\ pc' = [pc EXCEPT ![p] = "unlink_content"]
    /\ loc' = ClearedUnder(p, loc[p])
    /\ UNCHANGED <<wiped, clears>>

UnlinkContent(p) ==
    /\ pc[p] = "unlink_content"
    /\ Unlink("content")
    /\ pc' = [pc EXCEPT ![p] = "idle"]
    /\ loc' = ClearedUnder(p, NoLocals)
    /\ UNCHANGED <<wiped, clears>>

Save(p) == \/ SendStart(p) \/ OpenContent(p) \/ WriteHead(p)
           \/ WriteText(p) \/ OpenIndex2(p) \/ WriteHead2(p) \/ KillSender(p)

Show(p) == \/ ShowStart(p) \/ BrowseStart(p) \/ Take(p) \/ Advance(p)
           \/ LoadHead(p) \/ LoadText(p) \/ ShowOn(p)

Clear(p) == \/ MailCount(p) \/ MailCopy(p) \/ MailSend(p)
            \/ UnlinkIndex(p) \/ UnlinkIndex2(p) \/ UnlinkContent(p)

Next == \E p \in Procs : Save(p) \/ Show(p) \/ Clear(p)

Spec == Init /\ [][Next]_vars

-----------------------------------------------------------------------------
(***************************************************************************)
(* Properties                                                              *)
(***************************************************************************)

(* The values every variable can have; the counter of msgindex2 never      *)
(* passes the messages it counts.                                          *)
TypeOK ==
    /\ cur \in [Names -> 0..MaxClears + 1] /\ made \in [Names -> 0..MaxClears + 1]
    /\ \A i \in Inodes :
         /\ ToSet(index[i]) \subseteq Header
         /\ ToSet(index2[i].heads) \subseteq Header
         /\ index2[i].counter \in -1..Len(index2[i].heads)
         /\ ToSet(content[i]) \subseteq Msgs
    /\ given \in [Msgs -> Nat]

(* Every header under msgindex and msgindex2 leads to the text of its own  *)
(* message, though the three files are written one after the other, unless *)
(* its save was killed, or ran at the same time as a clear_msg or as a     *)
(* save that had met a clear_msg (see Adrift).                             *)
OwnText ==
    Clearing = {} =>
      \A h \in ToSet(Heads2) \cup
               {g \in ToSet(Heads) : \A q \in Saving : loc[q].msg # g.msg} :
          h.msg \notin hurt => TextAt(h.pos) = h.msg

(* The counter passes over no message: each one before it was handed to a  *)
(* session.                                                                *)
NoneSkipped ==
    \A i \in 1..Len(Heads2) :
        i <= Index2.counter => given[Heads2[i].msg] > 0

(* A message is handed out twice only if two sessions were between reading *)
(* and writing the counter, under their shared lock, at the same time.     *)
ShownOnce == \A m \in Msgs : given[m] > 1 => raced

(* The three files of a user stay in step, whoever saves, reads and clears *)
(* them: positions lead to texts, the counter to the first unread message, *)
(* and no message is handed out again.                                     *)
FilesRight == TypeOK /\ OwnText /\ NoneSkipped /\ ShownOnce

(* What a session puts on the screen is a message with its own sender and  *)
(* text, unless another session took the last unread message or cleared    *)
(* the files after it had counted, or the count was that of a file nobody  *)
(* had written to yet.                                                     *)
ViewRight ==
    \A p \in Procs :
        pc[p] = "shown" /\ loc[p].lone /\ loc[p].head.msg \notin hurt
            => loc[p].head.msg # 0 /\ loc[p].text = loc[p].head.msg

(* A message that was saved stays in the index until the owner clears or   *)
(* gets it by mail, unless its save met clear_msg or mail_msg.             *)
NoMessageLost ==
    \A m \in (1..sent) \ (hurt \cup late \cup {loc[p].msg : p \in Saving}) :
        m \in MsgsOf(Heads) \/ m \in mailed \/ m \in wiped
=============================================================================
