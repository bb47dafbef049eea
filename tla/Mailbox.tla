------------------------------ MODULE Mailbox ------------------------------
(***************************************************************************)
(* The mailbox of one account: the index .DIR with a fileheader for every  *)
(* mail, the mail files M.<time>.A beside it, and mailsize, the number of  *)
(* kilobytes in the account's record that the quota is checked against.    *)
(*                                                                         *)
(* Several processes work on it: mail_buf, mail_file and the system_mail   *)
(* calls deliver, telnet sessions and web requests of the owner delete,    *)
(* mark and edit, the POP3 daemon deletes when the client quits, and       *)
(* fixmailsize asks for a recount.  All but the marks and fixmailsize      *)
(* hold flock on .DIR while they change the index and mailsize.  flock     *)
(* belongs to the open file: a process that opens .DIR a second time and   *)
(* locks it waits for itself.                                              *)
(***************************************************************************)
EXTENDS Integers, Sequences, SequencesExt, FiniteSets, Records

CONSTANTS Procs,       \* processes
          Nobody,      \* holder of a lock that is free
          Casts,       \* who takes part: the operations of every process
          Calls,       \* the calls that deliver mail, a subset of AllCalls
          Flags,       \* the flags the owner sets: "marked", "del" or none
          NumTable,    \* the sizes a sizebyte can stand for, in bytes (21196124
                       \* at most, 20699 kilobytes)
          Lengths,     \* lengths of the mails that are written, in bytes
          MaxMailSize, \* max_mailsize of an open mailbox, in kilobytes
          ShrtMax,     \* SHRT_MAX
          NoLimit,     \* the account is one of mailsize_nolimit
          Misses,      \* getuser may miss the account (see UserHash)
          MaxTry,      \* names trycreatefile tries (100)
          MaxTime      \* bound: the clock stops here

ASSUME MailboxAssumption ==
    /\ Nobody \notin Procs
    /\ NumTable \subseteq Nat \ {0} /\ Lengths \subseteq Nat \ {0}
    /\ \A n \in Lengths \cup {1024} : \E k \in NumTable : n <= k
    /\ Flags \subseteq {"marked", "del"}
    /\ MaxMailSize \in Nat /\ ShrtMax \in Nat \ {0}
    /\ \A n \in NumTable : n \div 1024 <= ShrtMax
    /\ NoLimit \in BOOLEAN /\ Misses \in BOOLEAN
    /\ MaxTry \in Nat \ {0} /\ MaxTime \in Nat \ {0}

VARIABLES
    dir,      \* the records of .DIR
    files,    \* the numbers t for which M.t.A exists
    lock,     \* the process that holds flock on .DIR
    mailsize, \* userec.mailsize: kilobytes, -1 too many, -2 to be counted
    closed,   \* the owner has closed the mailbox (DEF_SEEWELC1 is off)
    jobs,     \* jobs[p]: the operations process p may run
    now,      \* time(0)
    pc,       \* where every process is
    loc       \* its local variables, see NoLocals

vars == <<dir, files, lock, mailsize, closed, jobs, now, pc, loc>>

(***************************************************************************)
(* Sizes.  A fileheader keeps its size in one byte; bytenum(numbyte(n)) is *)
(* the least entry of numtable that is not below n.  Every mail counts at  *)
(* least one kilobyte.                                                     *)
(***************************************************************************)
Rounded(n) == CHOOSE k \in NumTable :
                  n <= k /\ \A j \in NumTable : n <= j => k <= j

Kilo(n) == IF n \div 1024 = 0 THEN 1 ELSE n \div 1024

(* C division rounds towards zero. *)
KiloDiff(new, old) == IF new >= old THEN (new - old) \div 1024
                      ELSE -((old - new) \div 1024)

(* A record of .DIR: file number, size, and the flags FH_MARKED, FH_DEL;   *)
(* and the zero bytes of a hole in the file.                               *)
Hole == [filetime |-> 0, size |-> 0, marked |-> FALSE, del |-> FALSE]
Header == [filetime : Nat, size : NumTable \cup {0},
           marked : BOOLEAN, del : BOOLEAN]

(* What calc_mailsize adds up. *)
SizeOf(d) ==
    LET upto[i \in 0..Len(d)] ==
            IF i = 0 THEN 0 ELSE upto[i - 1] + Kilo(d[i].size)
    IN  upto[Len(d)]

calc_mailsize(d) == IF SizeOf(d) > ShrtMax THEN -1 ELSE SizeOf(d)

max_mailsize == IF closed THEN 0 ELSE MaxMailSize

(***************************************************************************)
(* The operations.  A mail under way: the call and whether it is FH_SYSMAIL*)
(***************************************************************************)
AllCalls == {"mail_file", "system_mail_buf", "system_mail_file", "system_mail_link"}

ASSUME CallsAssumption == Calls \subseteq AllCalls

NoMail == [call |-> "mail_file", sysmail |-> FALSE, length |-> 1, filetime |-> 0]

(***************************************************************************)
(* back: where to go on after calc_mailsize.  mail: the mail that is being *)
(* sent, or the new length of the one being edited.  list: lines of the    *)
(* index as they were read, one of them in a telnet session, all of them   *)
(* (fcache) in the POP3 daemon.  todo: the lines still to be deleted.      *)
(* dele: the lines the POP3 client has asked to delete.  sel, read, at:    *)
(* what a deletion in one pass looks for, the index as it reads it, and    *)
(* how far it has come.                                                    *)
(***************************************************************************)
NoSel == [by |-> "file", set |-> {}]
NoLocals == [back |-> "idle", mail |-> NoMail, list |-> <<>>, todo |-> <<>>,
             dele |-> {}, sel |-> NoSel, read |-> <<>>, at |-> 0]

Init ==
    /\ dir = <<>> /\ files = {}
    /\ lock = Nobody
    /\ mailsize \in {0, -2}
    /\ closed \in BOOLEAN
    /\ jobs \in Casts
    /\ now = 1
    /\ pc = [p \in Procs |-> "idle"]
    /\ loc = [p \in Procs |-> NoLocals]

Does(p, job) == pc[p] = "idle" /\ job \in jobs[p]

Goto(p, where) == pc' = [pc EXCEPT ![p] = where]

Locks(p) == lock = Nobody /\ lock' = p

-----------------------------------------------------------------------------
(***************************************************************************)
(* get_mailsize: the counter, counted first when it is -2.  calc_mailsize  *)
(* opens .DIR once more and locks it, whatever the caller holds.           *)
(***************************************************************************)
get_mailsize(p, where, l) ==
    /\ Goto(p, IF mailsize = -2 THEN "calc" ELSE where)
    /\ loc' = [loc EXCEPT ![p] =
                   IF mailsize = -2 THEN [l EXCEPT !.back = where] ELSE l]

(* The end of an operation: its locals are gone. *)
Return(p) == Goto(p, "idle") /\ loc' = [loc EXCEPT ![p] = NoLocals]

CalcLock(p) ==
    /\ pc[p] = "calc"
    /\ Locks(p)
    /\ Goto(p, "count")
    /\ UNCHANGED <<dir, files, mailsize, closed, jobs, now, loc>>

CalcWrite(p) ==
    /\ pc[p] = "count"
    /\ mailsize' = calc_mailsize(dir)
    /\ lock' = Nobody
    /\ Goto(p, loc[p].back)
    /\ loc' = [loc EXCEPT ![p].back = "idle"]
    /\ UNCHANGED <<dir, files, closed, jobs, now>>

(* m_new, main menu, login: somebody asks for the size. *)
AskSize(p) ==
    /\ Does(p, "ask")
    /\ mailsize = -2
    /\ get_mailsize(p, "idle", NoLocals)
    /\ UNCHANGED <<dir, files, lock, mailsize, closed, jobs, now>>

(* fixmailsize -f *)
FixMailsize(p) ==
    /\ Does(p, "fix")
    /\ mailsize' = -2
    /\ UNCHANGED <<dir, files, lock, closed, jobs, now, pc, loc>>

Tick ==
    /\ now < MaxTime
    /\ now' = now + 1
    /\ UNCHANGED <<dir, files, lock, mailsize, closed, jobs, pc, loc>>

-----------------------------------------------------------------------------
(***************************************************************************)
(* Delivery: _mail_buf and _mail_file with append_dir_callback.            *)
(***************************************************************************)
IsSysmail(call, bySysop) ==
    \/ call \in {"system_mail_file", "system_mail_link"}
    \/ call = "mail_file" /\ bySysop

Send(p) ==
    /\ Does(p, "send")
    /\ \E call \in Calls, bySysop \in BOOLEAN, n \in Lengths :
         /\ IsSysmail(call, bySysop) \/ ~closed
         /\ get_mailsize(p, "append", [NoLocals EXCEPT !.mail =
                [call |-> call, sysmail |-> IsSysmail(call, bySysop),
                 length |-> IF call = "system_mail_link" THEN 1024 ELSE n,
                 filetime |-> 0]])
    /\ UNCHANGED <<dir, files, lock, mailsize, closed, jobs, now>>

(* Faulty form: open without O_EXCL. *)
FreeNamesShared == {now}

(* The names trycreatefile may give: the first one that is not taken. *)
FreeNames == {t \in now..(now + MaxTry - 1) :
                  t \notin files /\ \A u \in now..(t - 1) : u \in files}

AppendLock(p) ==
    /\ pc[p] = "append"
    /\ \E t \in FreeNames :
         /\ Locks(p)
         /\ files' = files \cup {t}
         /\ loc' = [loc EXCEPT ![p].mail.filetime = t]
         /\ Goto(p, "charge")
    /\ UNCHANGED <<dir, mailsize, closed, jobs, now>>

(* No name in MaxTry tries. *)
AppendFails(p) ==
    /\ pc[p] = "append"
    /\ lock = Nobody
    /\ FreeNames = {}
    /\ Return(p)
    /\ UNCHANGED <<dir, files, lock, mailsize, closed, jobs, now>>

(***************************************************************************)
(* update_mailsize_up, called by append_dir_callback under the lock.       *)
(***************************************************************************)
(* Faulty form: the new mail is not counted. *)
RoomBefore(m) == mailsize # -1 /\ mailsize <= max_mailsize

Room(m) ==
    LET size == Kilo(Rounded(m.length))
    IN  /\ mailsize # -1
        /\ size + mailsize <= ShrtMax
        /\ size + mailsize <= max_mailsize

update_mailsize_up(m) ==
    IF mailsize = -1 \/ Kilo(Rounded(m.length)) + mailsize > ShrtMax THEN -1
    ELSE mailsize + Kilo(Rounded(m.length))

Charge(p) ==
    /\ pc[p] = "charge"
    /\ LET m == loc[p].mail IN
       /\ ~NoLimit => mailsize # -2 /\ (m.sysmail \/ Room(m))
       /\ mailsize' = IF NoLimit THEN mailsize ELSE update_mailsize_up(m)
    /\ Goto(p, "write")
    /\ UNCHANGED <<dir, files, lock, closed, jobs, now, loc>>

(* The mail is refused; the file trycreatefile has made stays.  A lookup   *)
(* that misses the account refuses it too.                                 *)
Refuse(p) ==
    /\ pc[p] = "charge"
    /\ \/ ~NoLimit /\ mailsize # -2 /\ ~loc[p].mail.sysmail /\ ~Room(loc[p].mail)
       \/ Misses
    /\ lock' = Nobody
    /\ Return(p)
    /\ UNCHANGED <<dir, files, mailsize, closed, jobs, now>>

AppendWrite(p) ==
    /\ pc[p] = "write"
    /\ dir' = Append(dir, [filetime |-> loc[p].mail.filetime,
                           size |-> Rounded(loc[p].mail.length),
                           marked |-> FALSE, del |-> FALSE])
    /\ lock' = Nobody
    /\ Goto(p, "body")
    /\ UNCHANGED <<files, mailsize, closed, jobs, now, loc>>

(* fopen(filepath, "w"), or the symlink and its rename. *)
SendBody(p) ==
    /\ pc[p] = "body"
    /\ files' = files \cup {loc[p].mail.filetime}
    /\ Return(p)
    /\ UNCHANGED <<dir, lock, mailsize, closed, jobs, now>>

-----------------------------------------------------------------------------
(***************************************************************************)
(* The owner's telnet session.  View: the line of the index under the      *)
(* cursor, read without a lock; it is used later, whatever others do.      *)
(***************************************************************************)
View(p) ==
    /\ \E job \in {"del", "mark", "edit"} : Does(p, job)
    /\ \E i \in DOMAIN dir :
         loc' = [loc EXCEPT ![p].list = <<[ent |-> i, fh |-> dir[i]]>>]
    /\ UNCHANGED <<dir, files, lock, mailsize, closed, jobs, now, pc>>

(* The record is written at its old place without asking for flock.        *)
(* mail_mark and mail_markdel; mail_read, mail_reply and read_new_mail set *)
(* FH_READ and FH_REPLIED, which nothing here looks at, in the same way.   *)
Mark(p) ==
    /\ Does(p, "mark") /\ loc[p].list # <<>>
    /\ LET l == loc[p].list[1] IN
       \E fh \in {l.fh} \cup {[l.fh EXCEPT ![f] = ~@] : f \in Flags} :
         dir' = substitute_record(dir, fh, l.ent, Hole)
    /\ Return(p)
    /\ UNCHANGED <<files, lock, mailsize, closed, jobs, now>>

(***************************************************************************)
(* edit_post: the file is rewritten, then change_dir enters the new size.  *)
(***************************************************************************)
EditSave(p) ==
    /\ Does(p, "edit") /\ loc[p].list # <<>>
    /\ files' = files \cup {loc[p].list[1].fh.filetime}
    /\ \E n \in Lengths : loc' = [loc EXCEPT ![p].mail.length = n]
    /\ Goto(p, "editlock")
    /\ UNCHANGED <<dir, lock, mailsize, closed, jobs, now>>

EditLock(p) ==
    /\ pc[p] = "editlock"
    /\ Locks(p)
    /\ Goto(p, "resize")
    /\ UNCHANGED <<dir, files, mailsize, closed, jobs, now, loc>>

Seen(p) == Place(dir, loc[p].list[1].fh.filetime, loc[p].list[1].ent)

DIR_do_editmail(new, old) ==
    LET size == KiloDiff(new, old)
    IN  IF mailsize + size > ShrtMax THEN ShrtMax
        ELSE IF mailsize + size < 0 THEN 0 ELSE mailsize + size

EditResize(p) ==
    /\ pc[p] = "resize"
    /\ LET i == Seen(p)
           new == Rounded(loc[p].mail.length)
       IN  /\ i # 0
           /\ dir' = [dir EXCEPT ![i].size = new]
           /\ \/ mailsize # -2 /\ mailsize' = DIR_do_editmail(new, dir[i].size)
              \/ Misses /\ mailsize' = mailsize
    /\ lock' = Nobody
    /\ Return(p)
    /\ UNCHANGED <<files, closed, jobs, now>>

EditNotFound(p) ==
    /\ pc[p] = "resize"
    /\ Seen(p) = 0
    /\ lock' = Nobody
    /\ Return(p)
    /\ UNCHANGED <<dir, files, mailsize, closed, jobs, now>>

-----------------------------------------------------------------------------
(***************************************************************************)
(* delete_dir_callback with update_mailsize_down: mail_del and mail_spam   *)
(* delete one line, the POP3 daemon several.                               *)
(***************************************************************************)
MailDel(p) ==
    /\ Does(p, "del") /\ loc[p].list # <<>>
    /\ get_mailsize(p, "dellock", [loc[p] EXCEPT !.todo = loc[p].list])
    /\ UNCHANGED <<dir, files, lock, mailsize, closed, jobs, now>>

DelLock(p) ==
    /\ pc[p] = "dellock"
    /\ Locks(p)
    /\ Goto(p, "remove")
    /\ UNCHANGED <<dir, files, mailsize, closed, jobs, now, loc>>

(* Faulty form: the line is taken to be where it was seen. *)
FoundByPosition(p) == LET l == Head(loc[p].todo)
                      IN  IF l.ent > Len(dir) THEN Len(dir) ELSE l.ent

(* The position delete_dir_callback decides on, 0 if it finds none.        *)
(* Records past the end of the file are zero.                              *)
Found(p) ==
    LET l == Head(loc[p].todo)
        key == l.fh.filetime
        pos == IF Len(dir) > l.ent THEN l.ent ELSE Len(dir)
        bin == Search_Bin(dir, key, 0, pos - 1) + 1
    IN  IF pos = 0 THEN 0
        ELSE IF dir[pos].filetime = key THEN pos
        ELSE IF bin > 0 THEN bin
        ELSE SelectLastInSubSeq(dir, 1, pos, LAMBDA fh : fh.filetime = key)

(***************************************************************************)
(* update_mailsize_down.  When the counter is -1 the index is counted, the *)
(* mail that goes away included, without the lock, and the result stored.  *)
(***************************************************************************)
(* Faulty form: the record is not written back. *)
update_mailsize_down_unsaved(counter, fh) == counter

update_mailsize_down(counter, fh) ==
    LET currsize == IF counter = -1 THEN SizeOf(dir) ELSE counter
        stored == IF counter = -1 THEN calc_mailsize(dir) ELSE counter
        size == Kilo(fh.size)
    IN  IF NoLimit THEN counter
        ELSE IF currsize < size THEN 0
        ELSE IF currsize - size > ShrtMax THEN -1
        ELSE stored - size

DelRemove(p) ==
    /\ pc[p] = "remove"
    /\ ~NoLimit => mailsize # -2
    /\ Found(p) # 0
    /\ mailsize' = update_mailsize_down(mailsize, dir[Found(p)])
    /\ dir' = RemoveAt(dir, Found(p))
    /\ lock' = Nobody
    /\ Goto(p, "unlink")
    /\ UNCHANGED <<files, closed, jobs, now, loc>>

(* update_mailsize_down fails: no record is moved, but the file is cut. *)
DelMisses(p) ==
    /\ Misses
    /\ pc[p] = "remove"
    /\ Found(p) # 0
    /\ dir' = Front(dir)
    /\ lock' = Nobody
    /\ Goto(p, "unlink")
    /\ UNCHANGED <<files, mailsize, closed, jobs, now, loc>>

Advance(p) ==
    IF Len(loc[p].todo) = 1 THEN Return(p)
    ELSE Goto(p, "dellock") /\ loc' = [loc EXCEPT ![p].todo = Tail(@)]

(* Faulty form: an early return that leaves the file open and locked. *)
DelNotFoundLocked(p) ==
    /\ pc[p] = "remove"
    /\ dir # <<>> /\ Found(p) = 0
    /\ Return(p)
    /\ UNCHANGED <<dir, files, lock, mailsize, closed, jobs, now>>

DelNotFound(p) ==
    /\ pc[p] = "remove"
    /\ dir # <<>> /\ Found(p) = 0
    /\ lock' = Nobody
    /\ Advance(p)
    /\ UNCHANGED <<dir, files, mailsize, closed, jobs, now>>

(* An empty file cannot be mapped: the process dies. *)
DelDies(p) ==
    /\ pc[p] = "remove"
    /\ dir = <<>>
    /\ lock' = Nobody
    /\ Return(p)
    /\ UNCHANGED <<dir, files, mailsize, closed, jobs, now>>

(* deltree of the mail file, after the lock is gone. *)
DelUnlink(p) ==
    /\ pc[p] = "unlink"
    /\ files' = files \ {Head(loc[p].todo).fh.filetime}
    /\ Advance(p)
    /\ UNCHANGED <<dir, lock, mailsize, closed, jobs, now>>

-----------------------------------------------------------------------------
(***************************************************************************)
(* The POP3 daemon.                                                        *)
(***************************************************************************)
PopLogin(p) ==
    /\ Does(p, "pop")
    /\ get_mailsize(p, "login", NoLocals)
    /\ UNCHANGED <<dir, files, lock, mailsize, closed, jobs, now>>

Login_init(p) ==
    /\ pc[p] = "login"
    /\ loc' = [loc EXCEPT ![p].list =
                   [i \in DOMAIN dir |-> [ent |-> i, fh |-> dir[i]]]]
    /\ Goto(p, "pop")
    /\ UNCHANGED <<dir, files, lock, mailsize, closed, jobs, now>>

Dele(p) ==
    /\ pc[p] = "pop"
    /\ \E i \in DOMAIN loc[p].list \ loc[p].dele :
         loc' = [loc EXCEPT ![p].dele = @ \cup {i}]
    /\ UNCHANGED <<dir, files, lock, mailsize, closed, jobs, now, pc>>

Rset(p) ==
    /\ pc[p] = "pop"
    /\ loc' = [loc EXCEPT ![p].dele = {}]
    /\ UNCHANGED <<dir, files, lock, mailsize, closed, jobs, now, pc>>

(* The lines do_delete passes over: !accessed & FH_DIGEST is never true. *)
Skips(l) == l.fh.marked

Quit(p) ==
    /\ pc[p] = "pop"
    /\ LET list == loc[p].list
           gone == Without(list, {i \in DOMAIN list : Skips(list[i])}) IN
       IF loc[p].dele # {} /\ gone # <<>>
       THEN Goto(p, "dellock") /\ loc' = [loc EXCEPT ![p].todo = gone]
       ELSE Return(p)
    /\ UNCHANGED <<dir, files, lock, mailsize, closed, jobs, now>>

-----------------------------------------------------------------------------
(***************************************************************************)
(* Deletion in one pass over the index: delete_range of the telnet session *)
(* by numbers (at least three of them) or by FH_DEL, bbsdelmail of the web *)
(* by file names.                                                          *)
(***************************************************************************)
DelRange(p) ==
    /\ Does(p, "range")
    /\ \E sel \in {[by |-> "flag", set |-> {}]} \cup
              {[by |-> "number", set |-> i..j] : i, j \in DOMAIN dir} :
         /\ sel.by = "number" => Cardinality(sel.set) > 2
         /\ get_mailsize(p, "sweeplock", [NoLocals EXCEPT !.sel = sel])
    /\ UNCHANGED <<dir, files, lock, mailsize, closed, jobs, now>>

bbsdelmail(p) ==
    /\ Does(p, "web")
    /\ \E set \in SUBSET {dir[i].filetime : i \in DOMAIN dir} \ {{}} :
         get_mailsize(p, "sweeplock",
                      [NoLocals EXCEPT !.sel = [by |-> "file", set |-> set]])
    /\ UNCHANGED <<dir, files, lock, mailsize, closed, jobs, now>>

SweepLock(p) ==
    /\ pc[p] = "sweeplock"
    /\ Locks(p)
    /\ loc' = [loc EXCEPT ![p].read = dir]
    /\ Goto(p, "sweep")
    /\ UNCHANGED <<dir, files, mailsize, closed, jobs, now>>

Selected(p) ==
    LET sel == loc[p].sel
        read == loc[p].read
    IN  {i \in DOMAIN read :
            \/ sel.by = "file" /\ read[i].filetime \in sel.set
            \/ sel.by = "flag" /\ read[i].del
            \/ sel.by = "number" /\ i \in sel.set /\ ~read[i].marked}

(* The mails still to be charged back and unlinked. *)
Ahead(p) == {i \in Selected(p) : i > loc[p].at /\ loc[p].read[i].filetime # 0}

SweepOne(p) ==
    /\ pc[p] = "sweep"
    /\ \E i \in Ahead(p) :
         /\ \A j \in Ahead(p) : i <= j
         /\ \/ /\ ~NoLimit => mailsize # -2
               /\ mailsize' = update_mailsize_down(mailsize, loc[p].read[i])
            \/ Misses /\ mailsize' = mailsize
         /\ files' = files \ {loc[p].read[i].filetime}
         /\ loc' = [loc EXCEPT ![p].at = i]
    /\ UNCHANGED <<dir, lock, closed, jobs, now, pc>>

SweepEnd(p) ==
    /\ pc[p] = "sweep"
    /\ Ahead(p) = {}
    /\ dir' = Rewritten(dir, loc[p].read, Selected(p))
    /\ lock' = Nobody
    /\ Return(p)
    /\ UNCHANGED <<files, mailsize, closed, jobs, now>>

-----------------------------------------------------------------------------
(* get_mailsize finds -2 in a callback and counts: the lock is its own. *)
Recount(p) ==
    /\ mailsize = -2
    /\ \/ ~NoLimit /\ pc[p] = "charge"
       \/ ~NoLimit /\ pc[p] = "remove" /\ Found(p) # 0
       \/ ~NoLimit /\ pc[p] = "sweep" /\ Ahead(p) # {}
       \/ pc[p] = "resize" /\ Seen(p) # 0
    /\ get_mailsize(p, pc[p], loc[p])
    /\ UNCHANGED <<dir, files, lock, mailsize, closed, jobs, now>>

(* What a process does once it has begun an operation. *)
Deliver(p) == \/ AppendLock(p) \/ AppendFails(p) \/ Charge(p) \/ Refuse(p)
              \/ AppendWrite(p) \/ SendBody(p)

Count(p) == CalcLock(p) \/ CalcWrite(p) \/ Recount(p)

Edit(p) == EditLock(p) \/ EditResize(p) \/ EditNotFound(p)

Delete(p) == \/ DelLock(p) \/ DelRemove(p) \/ DelMisses(p) \/ DelNotFound(p)
             \/ DelDies(p) \/ DelUnlink(p)

Sweep(p) == SweepLock(p) \/ SweepOne(p) \/ SweepEnd(p)

Step(p) == Deliver(p) \/ Count(p) \/ Edit(p) \/ Delete(p) \/ Sweep(p)

Next ==
    \/ Tick
    \/ \E p \in Procs :
         \/ Step(p)
         \/ AskSize(p) \/ FixMailsize(p) \/ Send(p)
         \/ View(p) \/ Mark(p) \/ EditSave(p) \/ MailDel(p)
         \/ PopLogin(p) \/ Login_init(p) \/ Dele(p) \/ Rset(p) \/ Quit(p)
         \/ DelRange(p) \/ bbsdelmail(p)

Spec == Init /\ [][Next]_vars

(* A process that is not waiting for its user goes on. *)
LiveSpec == Spec /\ \A p \in Procs : WF_vars(Step(p))

-----------------------------------------------------------------------------
(***************************************************************************)
(* Properties.                                                             *)
(***************************************************************************)
Line == [ent : Nat \ {0}, fh : Header]

Where == {"idle", "calc", "count", "append", "charge", "write", "body",
          "editlock", "resize", "dellock", "remove", "unlink", "login", "pop",
          "sweeplock", "sweep"}

(* Types.  mailsize is a short. *)
TypeOK ==
    /\ dir \in Seq(Header)
    /\ files \subseteq Nat
    /\ lock \in Procs \cup {Nobody}
    /\ mailsize \in (-ShrtMax - 1)..ShrtMax
    /\ closed \in BOOLEAN
    /\ jobs \in Casts
    /\ now \in 1..MaxTime
    /\ pc \in [Procs -> Where]
    /\ \A p \in Procs :
         /\ loc[p].back \in Where
         /\ loc[p].mail \in [call : AllCalls, sysmail : BOOLEAN,
                              length : Lengths \cup {1, 1024}, filetime : Nat]
         /\ loc[p].list \in Seq(Line) /\ loc[p].todo \in Seq(Line)
         /\ loc[p].read \in Seq(Header)

Names(d) == {d[i].filetime : i \in DOMAIN d}

(* While nobody changes the index the counter of the account is what the   *)
(* mails in it add up to, or a recount is due.  Not so after an edit,      *)
(* which rounds the difference of two sizes and not the sizes, and not     *)
(* with more than SHRT_MAX kilobytes.                                      *)
SizeRight == lock = Nobody /\ ~NoLimit => mailsize \in {SizeOf(dir), -2}

(* An ordinary mail is entered only when the mailbox does not exceed the   *)
(* quota with it: update_mailsize_up looks and adds under the same lock.   *)
(* (Under the same conditions: a deletion from -1 leaves a counter below   *)
(* -1, and the quota is not enforced any more.)                            *)
QuotaKept ==
    [][\A p \in Procs :
          pc[p] = "write" /\ pc'[p] = "body" /\ ~loc[p].mail.sysmail /\ ~NoLimit
              => SizeOf(dir') <= max_mailsize]_vars

(* Every line of the index has its mail file, and no two lines share one:  *)
(* a name is not given out while its file is there, and the line goes      *)
(* before the file.                                                        *)
LinesHaveFiles ==
    lock = Nobody => /\ Names(dir) \subseteq files
                     /\ Cardinality(Names(dir)) = Len(dir)

(* What deliveries, recounts and deletions leave of a mailbox when none is *)
(* at work is a mailbox: its numbers in their range, a file to every line, *)
(* and in the account what its mails add up to.                            *)
BoxRight == TypeOK /\ LinesHaveFiles /\ SizeRight

(* The mails process p is removing from the index. *)
Removing(p) ==
    IF pc[p] = "remove" THEN {Head(loc[p].todo).fh.filetime}
    ELSE IF pc[p] = "sweep" THEN {loc[p].read[i].filetime : i \in Selected(p)}
    ELSE {}

(* A mail leaves the index only through a process that is to remove this   *)
(* very mail, however the lines have moved since it was chosen.            *)
NoMailLost ==
    [][\A t \in Names(dir) \ Names(dir') :
          \E p \in Procs : lock = p /\ t \in Removing(p)]_vars

(* The same with marks and failing lookups: the line of a mail whose file  *)
(* is there is lost besides only when update_mailsize_down has failed and  *)
(* the index is cut at its end, when a mark is written where another line  *)
(* has moved to, or when the rest of an index is written back after a mark *)
(* has put the line where it was not read.                                 *)
LossExplained ==
    [][\A t \in files \cap (Names(dir) \ Names(dir')) : \E p \in Procs :
          \/ lock = p /\ t \in Removing(p)
          \/ pc[p] = "remove" /\ pc'[p] = "unlink" /\ t = Last(dir).filetime
          \/ /\ pc[p] = "idle" /\ loc[p].list # <<>> /\ loc'[p].list = <<>>
             /\ dir[loc[p].list[1].ent].filetime = t
          \/ /\ pc[p] = "sweep" /\ pc'[p] = "idle"
             /\ \A i \in DOMAIN dir \cap DOMAIN loc[p].read :
                   dir[i].filetime = t => loc[p].read[i].filetime # t]_vars

(* Whoever locks the index lets go of it, also when the mail is not found, *)
(* is refused or the lookup fails, unless it begins to recount under its   *)
(* own lock.                                                               *)
LockReleased == \A p \in Procs : (lock = p) ~> (lock # p \/ pc[p] = "calc")
=============================================================================
