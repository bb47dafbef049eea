------------------------------- MODULE Votes -------------------------------
(***************************************************************************)
(* The votes of one board: the file control with a votebal for every open  *)
(* vote, a file flag.<opendate> with the ballots of each, and VOTE_FLAG in *)
(* the header of the board.                                                *)
(*                                                                         *)
(* Telnet sessions and web requests cast ballots, managers open and close  *)
(* votes, and every telnet login closes the votes whose time is over when  *)
(* pollvote says so.  None of them takes a lock that another one respects: *)
(* delete_record copies control to .tmpfile and renames it, append_record  *)
(* opens the file first and writes to it later.                            *)
(***************************************************************************)
EXTENDS Integers, Sequences, SequencesExt, FiniteSets

CONSTANTS Telnet, Web,  \* sessions and web processes
          UserOf,       \* the user of each of them
          Casts,        \* who takes part: the jobs of every process, see Jobs
          Nobody,       \* the uid in the zero bytes of a hole
          Values,       \* what a ballot may say
          SaveLog,      \* votes with VOTE_FLAG_SAVELOG
          MaxVotes,     \* bound: votes that are opened
          MaxBallots,   \* bound: ballots that are written
          MaxFiles,     \* bound: files that have been control
          MaxFaults     \* bound: processes that are killed

Procs == Telnet \cup Web
Jobs == {"vote", "open", "close", "poll", "die"}

ASSUME VotesAssumption ==
    /\ Telnet \cap Web = {}
    /\ Casts \subseteq [Procs -> SUBSET Jobs]
    /\ \A p \in Procs : UserOf[p] # Nobody
    /\ Values \subseteq Nat \ {0}
    /\ MaxVotes \in Nat \ {0} /\ SaveLog \subseteq 1..MaxVotes
    /\ MaxBallots \in Nat /\ MaxFiles \in Nat \ {0} /\ MaxFaults \in Nat

VARIABLES
    cast,     \* what every process may do
    inode,    \* the files that are or were control, as sequences of votes
    control,  \* the one that has this name now, 0 if there is none
    tmp,      \* the one that is .tmpfile, 0 if there is none
    box,      \* flag.<opendate>: the ballots of every vote
    voteflag, \* VOTE_FLAG of the board
    opened,   \* the votes opened so far; a vote stands for its opendate
    expired,  \* the votes whose maxdays are over
    due,      \* time(0) >= pollvote
    result,   \* the ballots the last result posted for a vote has counted
    ballots, faults, \* how often, see the bounds
    pc, loc,  \* where every process is, and its local variables
    hist      \* what the properties have to except, see NoHistory

vars == <<cast, inode, control, tmp, box, voteflag, opened, expired, due, result,
          ballots, faults, pc, loc, hist>>

(* What the steps of casting a ballot leave alone, and of closing a vote. *)
list == <<inode, control, tmp>>
votes == <<opened, expired, due, result>>
bounds == <<cast, ballots, faults>>

Vote == 0..MaxVotes     \* 0: a votebal that has not been filled in
File == 1..MaxFiles
Rng(s) == {s[i] : i \in DOMAIN s}

Ballot == [uid : {UserOf[p] : p \in Procs}, voted : Values]
Hole == [uid |-> Nobody, voted |-> 0]

(***************************************************************************)
(* vote: currvote, which a telnet session keeps.  num: a line of control.  *)
(* file: the open file.  pos, ballot: the place and the value of the user's*)
(* ballot.  back, vnum, over: the pass of b_closepolls, and the votes that *)
(* are over at its time.  tally: the ballots counted.  range: the length   *)
(* of the list on the screen.  History: counted, a result is being made;   *)
(* raced, somebody else has changed what this process relies on; meant, the*)
(* vote whose form the user sees.                                          *)
(***************************************************************************)
NoLocals == [vote |-> 0, num |-> 0, file |-> 0, pos |-> 0, ballot |-> 0,
             back |-> "idle", vnum |-> 0, over |-> {}, tally |-> {},
             range |-> 0, counted |-> FALSE, raced |-> FALSE, meant |-> 0]

(* gone: boxes that were removed.  late: ballots cast while a result was   *)
(* being made.  twice: votes closed by two at once or not struck off the   *)
(* list.  flag: the vote flag was cleared while a vote was opened or the   *)
(* list was being copied and renamed.                                      *)
NoHistory == [gone |-> {}, late |-> {}, twice |-> {}, flag |-> FALSE]

None == {Hole}          \* no result has been posted

Init ==
    /\ cast \in Casts
    /\ opened \in 0..MaxVotes
    /\ inode = [f \in File |-> IF f = 1 THEN [v \in 1..opened |-> v] ELSE <<>>]
    /\ control = (IF opened = 0 THEN 0 ELSE 1) /\ tmp = 0
    /\ box = [v \in Vote |-> <<>>]
    /\ voteflag = (opened > 0)
    /\ expired = {0} /\ due = FALSE
    /\ result = [v \in Vote |-> None]
    /\ ballots = 0 /\ faults = 0
    /\ pc = [p \in Procs |-> "idle"]
    /\ loc = [p \in Procs |-> NoLocals]
    /\ hist = NoHistory

Does(p, job, where) == job \in cast[p] /\ pc[p] = where
Goto(p, where) == pc' = [pc EXCEPT ![p] = where]

(* Back to the list of votes, or out of it when it is empty.  (Below 0     *)
(* choose draws the list for ever: the session is of no use any more.)     *)
Kept(p, r) == [NoLocals EXCEPT !.vote = IF p \in Web THEN 0 ELSE loc[p].vote,
                               !.range = IF r > 0 THEN r ELSE 0]
Back(p, r) == Goto(p, IF r > 0 THEN "list" ELSE "idle")
Return(p, r) == Back(p, r) /\ loc' = [loc EXCEPT ![p] = Kept(p, r)]

Lines(f) == IF f = 0 THEN <<>> ELSE inode[f]

(* get_record: when there is no such line currvote stays what it is. *)
Record(p, n) == IF n <= Len(Lines(control)) THEN Lines(control)[n] ELSE loc[p].vote

(* search_record with cmpvuid, and the loop of bbsvote_main: the place of  *)
(* the user's first ballot, or 0.                                          *)
Search(u, v) == SelectInSeq(box[v], LAMBDA b : b.uid = u)
Voted(u, v) == IF Search(u, v) = 0 THEN 0 ELSE box[v][Search(u, v)].voted

-----------------------------------------------------------------------------
(***************************************************************************)
(* Casting a ballot.                                                       *)
(***************************************************************************)
Deleting == {"delopen", "deltmp", "delcopy", "ren1", "ren2"}
FlagRaced == \E p \in Procs : pc[p] \in {"open", "openwrite"} \cup Deleting

ClearFlag == /\ voteflag' = FALSE
             /\ hist' = [hist EXCEPT !.flag = FlagRaced]

(* b_vote, when there is no vote and when there are some. *)
BVoteNone(p) ==
    /\ p \in Telnet /\ Does(p, "vote", "idle")
    /\ Lines(control) = <<>> /\ voteflag
    /\ ClearFlag
    /\ UNCHANGED <<list, box, votes, bounds, pc, loc>>

BVote(p) ==
    /\ p \in Telnet /\ (Does(p, "vote", "idle") \/ Does(p, "close", "idle"))
    /\ Lines(control) # <<>>
    /\ loc' = [loc EXCEPT ![p].range = Len(Lines(control))]
    /\ Goto(p, "list")
    /\ UNCHANGED <<list, box, voteflag, votes, bounds, hist>>

Leave(p) ==
    /\ pc[p] = "list"
    /\ Return(p, 0)
    /\ UNCHANGED <<list, box, voteflag, votes, bounds, hist>>

(* user_vote, up to the form: the line of the list the cursor is on. *)
UserVote(p) ==
    /\ Does(p, "vote", "list")
    /\ \E n \in 1..loc[p].range :
         /\ Record(p, n) # 0
         /\ loc' = [loc EXCEPT ![p] = [@ EXCEPT
                       !.vote = Record(p, n), !.ballot = Voted(UserOf[p], Record(p, n))]]
    /\ Goto(p, "form")
    /\ UNCHANGED <<list, box, voteflag, votes, bounds, hist>>

Abort(p) ==
    /\ pc[p] = "form"
    /\ Return(p, loc[p].range)
    /\ UNCHANGED <<list, box, voteflag, votes, bounds, hist>>

(* Faulty form: the ballot is looked for when the form is shown. *)
FillInKnown(p) ==
    /\ pc[p] = "form"
    /\ \E c \in Values \ {loc[p].ballot} :
         loc' = [loc EXCEPT ![p] = [@ EXCEPT
                    !.pos = IF loc[p].ballot = 0 THEN 0 ELSE Search(UserOf[p], loc[p].vote),
                    !.ballot = c]]
    /\ Goto(p, "put")
    /\ UNCHANGED <<list, box, voteflag, votes, bounds, hist>>

(* The user has voted and commented; the ballot is looked for again. *)
FillIn(p) ==
    /\ pc[p] = "form"
    /\ \E c \in Values \ {loc[p].ballot} :
         loc' = [loc EXCEPT ![p] = [@ EXCEPT
                    !.pos = Search(UserOf[p], loc[p].vote), !.ballot = c]]
    /\ Goto(p, "put")
    /\ UNCHANGED <<list, box, voteflag, votes, bounds, hist>>

(* bbsvote_main without procvote: the form of line voteidx. *)
WebForm(p) ==
    /\ p \in Web /\ Does(p, "vote", "idle")
    /\ \E n \in DOMAIN Lines(control) :
         loc' = [loc EXCEPT ![p] = [@ EXCEPT !.num = n, !.meant = Lines(control)[n]]]
    /\ Goto(p, "webform")
    /\ UNCHANGED <<list, box, voteflag, votes, bounds, hist>>

(* Faulty form: lines are counted from 0. *)
WebPostOff(p) ==
    /\ pc[p] = "webform"
    /\ loc[p].num + 1 \in DOMAIN Lines(control)
    /\ LET v == Lines(control)[loc[p].num + 1] IN
       \E c \in Values \ {Voted(UserOf[p], v)} :
         loc' = [loc EXCEPT ![p] = [@ EXCEPT
                    !.vote = v, !.pos = Search(UserOf[p], v), !.ballot = c, !.raced = FALSE]]
    /\ Goto(p, "put")
    /\ UNCHANGED <<list, box, voteflag, votes, bounds, hist>>

(* The same with procvote: line voteidx is read again. *)
WebPost(p) ==
    /\ pc[p] = "webform"
    /\ loc[p].num \in DOMAIN Lines(control)
    /\ LET v == Lines(control)[loc[p].num] IN
       \E c \in Values \ {Voted(UserOf[p], v)} :
         loc' = [loc EXCEPT ![p] = [@ EXCEPT
                    !.vote = v, !.pos = Search(UserOf[p], v), !.ballot = c, !.raced = FALSE]]
    /\ Goto(p, "put")
    /\ UNCHANGED <<list, box, voteflag, votes, bounds, hist>>

(* No such line, the same choice as before, or a user who goes away. *)
WebRefused(p) ==
    /\ pc[p] = "webform"
    /\ Return(p, 0)
    /\ UNCHANGED <<list, box, voteflag, votes, bounds, hist>>

(* substitute_record at pos, past the end of the file if need be, or       *)
(* append_record; the web locks the file while it does the same.           *)
PutAt(s, pos, b) ==
    IF pos = 0 THEN Append(s, b)
    ELSE [i \in 1..(IF pos > Len(s) THEN pos ELSE Len(s)) |->
             IF i = pos THEN b ELSE IF i <= Len(s) THEN s[i] ELSE Hole]

(* The other sessions of the user that have looked for a ballot of this    *)
(* vote and not found it.                                                  *)
Behind(p) == {q \in Procs \ {p} : /\ pc[q] = "put" /\ loc[q].pos = 0
                                  /\ UserOf[q] = UserOf[p]
                                  /\ loc[q].vote = loc[p].vote}

Put(p) ==
    /\ pc[p] = "put"
    /\ ballots < MaxBallots
    /\ LET v == loc[p].vote
           u == UserOf[p]
       IN  /\ box' = [box EXCEPT ![v] = PutAt(@, loc[p].pos, [uid |-> u, voted |-> loc[p].ballot])]
           /\ hist' = [hist EXCEPT !.late =
                  @ \cup {<<v, u>> : q \in {q \in Procs : loc[q].counted /\ loc[q].vote = v}}]
    /\ ballots' = ballots + 1
    /\ Back(p, loc[p].range)
    /\ loc' = [q \in Procs |->
                 IF q = p THEN Kept(p, loc[p].range)
                 ELSE IF q \in Behind(p) THEN [loc[q] EXCEPT !.raced = TRUE]
                 ELSE loc[q]]
    /\ UNCHANGED <<list, voteflag, votes, cast, faults>>

-----------------------------------------------------------------------------
(***************************************************************************)
(* vote_maintain: the flag is set, then the vote is appended to control.   *)
(***************************************************************************)
OpenVote(p) ==
    /\ Does(p, "open", "idle") \/ Does(p, "open", "list")
    /\ opened < MaxVotes
    /\ opened' = opened + 1
    /\ voteflag' = TRUE
    /\ hist' = [hist EXCEPT !.flag = FALSE]
    /\ loc' = [loc EXCEPT ![p].vote = opened + 1]
    /\ Goto(p, "open")
    /\ UNCHANGED <<list, box, expired, due, result, bounds>>

(* A new file: one that has no name and that nobody has open. *)
Held(f) == f \in {control, tmp} \/ \E p \in Procs : loc[p].file = f
NewFile == {f \in File : ~Held(f) /\ \A g \in File : ~Held(g) => f <= g}

(* Those who rely on lines of control that are not what they were. *)
Disturb(l, p, least) ==
    [q \in Procs |->
        IF q # p /\ (pc[q] \in Deleting \/ (pc[q] = "webform" /\ l[q].num >= least))
        THEN [l[q] EXCEPT !.raced = TRUE] ELSE l[q]]

OpenFile(p) ==
    /\ pc[p] = "open"
    /\ \/ /\ control # 0
          /\ loc' = [loc EXCEPT ![p].file = control]
          /\ UNCHANGED list
       \/ /\ control = 0 /\ control' \in NewFile
          /\ inode' = [inode EXCEPT ![control'] = <<>>]
          /\ loc' = Disturb([loc EXCEPT ![p].file = control'], p, 0)
          /\ UNCHANGED tmp
    /\ Goto(p, "openwrite")
    /\ UNCHANGED <<box, voteflag, votes, bounds, hist>>

OpenWrite(p) ==
    /\ pc[p] = "openwrite"
    /\ inode' = [inode EXCEPT ![loc[p].file] = Append(@, loc[p].vote)]
    /\ LET r == IF loc[p].range > 0 THEN loc[p].range + 1 ELSE 0 IN
       /\ Back(p, r)
       /\ loc' = Disturb([loc EXCEPT ![p] = Kept(p, r)], p, MaxVotes + 1)
    /\ UNCHANGED <<control, tmp, box, voteflag, votes, bounds, hist>>

-----------------------------------------------------------------------------
(***************************************************************************)
(* Closing a vote.  Time passes: votes expire, pollvote is reached (in a   *)
(* cast where somebody looks at it).                                       *)
(***************************************************************************)
Timely == \E p \in Procs : "poll" \in cast[p]

Expire(v) ==
    /\ Timely /\ v \in 1..opened \ expired
    /\ expired' = expired \cup {v}
    /\ UNCHANGED <<list, box, voteflag, opened, due, result, bounds, pc, loc, hist>>

Tick ==
    /\ Timely /\ ~due /\ due' = TRUE
    /\ UNCHANGED <<list, box, voteflag, opened, expired, result, bounds, pc, loc, hist>>

(* b_closepolls, once in every login. *)
PollCheck(p) ==
    /\ Does(p, "poll", "idle")
    /\ due
    /\ loc' = [loc EXCEPT ![p] = [NoLocals EXCEPT !.over = expired]]
    /\ Goto(p, "pollset")
    /\ UNCHANGED <<list, box, voteflag, votes, bounds, hist>>

(* Faulty form: the last vote of the list is left out. *)
PollSetShort(p) ==
    /\ pc[p] = "pollset"
    /\ due' = FALSE
    /\ loc' = [loc EXCEPT ![p].vnum = IF Lines(control) = <<>> THEN 0 ELSE Len(Lines(control)) - 1]
    /\ Goto(p, "poll")
    /\ UNCHANGED <<list, box, voteflag, opened, expired, result, bounds, hist>>

PollSet(p) ==
    /\ pc[p] = "pollset"
    /\ due' = FALSE
    /\ loc' = [loc EXCEPT ![p].vnum = Len(Lines(control))]
    /\ Goto(p, "poll")
    /\ UNCHANGED <<list, box, voteflag, opened, expired, result, bounds, hist>>

Closing == {"count", "post", "dele", "delfiles", "delend"} \cup Deleting

(* mk_result(1) or dele_vote begins for vote v, taken from line n; others  *)
(* may be closing it, or there is no such line.                            *)
Begin(p, v, n, l) ==
    /\ loc' = [loc EXCEPT ![p] = l]
    /\ hist' = [hist EXCEPT !.twice = @ \cup
           {u \in {v} : \/ n > Len(Lines(control))
                        \/ \E q \in Procs \ {p} : pc[q] \in Closing /\ loc[q].vote = v}]

PollNext(p) ==
    /\ pc[p] = "poll" /\ loc[p].vnum >= 1
    /\ LET v == Record(p, loc[p].vnum) IN
       IF v \in loc[p].over
       THEN /\ Begin(p, v, loc[p].vnum, [loc[p] EXCEPT !.vote = v, !.back = "poll"])
            /\ Goto(p, "count")
       ELSE /\ loc' = [loc EXCEPT ![p] = [@ EXCEPT !.vote = v, !.vnum = loc[p].vnum - 1]]
            /\ UNCHANGED <<pc, hist>>
    /\ UNCHANGED <<list, box, voteflag, votes, bounds>>

PollEnd(p) ==
    /\ pc[p] = "poll" /\ loc[p].vnum = 0
    /\ due' = FALSE
    /\ Return(p, 0)
    /\ UNCHANGED <<list, box, voteflag, opened, expired, result, bounds, hist>>

(* Keys o and d of vote_key. *)
CloseEarly(p) ==
    /\ Does(p, "close", "list")
    /\ \E n \in 1..loc[p].range :
         /\ Begin(p, Record(p, n), n, [loc[p] EXCEPT !.vote = Record(p, n), !.num = 1])
         /\ Goto(p, "count") \/ Goto(p, "dele")
    /\ UNCHANGED <<list, box, voteflag, votes, bounds>>

(* Faulty form: the last ballot is not counted. *)
CountedShort(v) == Rng(SubSeq(box[v], 1, Len(box[v]) - 1))

Counted(v) == Rng(box[v])

(* mk_result: apply_record with count_result. *)
Count(p) ==
    /\ pc[p] = "count"
    /\ loc' = [loc EXCEPT ![p] = [@ EXCEPT !.tally = Counted(loc[p].vote), !.counted = TRUE]]
    /\ Goto(p, "post")
    /\ UNCHANGED <<list, box, voteflag, votes, bounds, hist>>

(* The result is posted; dele_vote begins. *)
Post(p) ==
    /\ pc[p] = "post"
    /\ result' = [result EXCEPT ![loc[p].vote] = loc[p].tally]
    /\ loc' = [loc EXCEPT ![p].num = 1]
    /\ Goto(p, "dele")
    /\ UNCHANGED <<list, box, voteflag, opened, expired, due, bounds, hist>>

(* dele_vote: the vote is looked for in control, one get_record a line. *)
DeleFind(p) ==
    /\ pc[p] = "dele"
    /\ loc[p].num \in DOMAIN Lines(control)
    /\ IF Lines(control)[loc[p].num] = loc[p].vote
       THEN Goto(p, "delopen") /\ loc' = [loc EXCEPT ![p].raced = FALSE]
       ELSE loc' = [loc EXCEPT ![p].num = @ + 1] /\ UNCHANGED pc
    /\ UNCHANGED <<list, box, voteflag, votes, bounds, hist>>

DeleNone(p) ==
    /\ pc[p] = "dele"
    /\ loc[p].num \notin DOMAIN Lines(control)
    /\ Goto(p, "delend")
    /\ UNCHANGED <<list, box, voteflag, votes, bounds, loc, hist>>

(***************************************************************************)
(* delete_record(controlfile, num).                                        *)
(***************************************************************************)
DelOpen(p) ==
    /\ pc[p] = "delopen"
    /\ control # 0
    /\ loc' = [loc EXCEPT ![p].file = control]
    /\ Goto(p, "deltmp")
    /\ UNCHANGED <<list, box, voteflag, votes, bounds, hist>>

(* control is not there, or another .tmpfile is (O_EXCL). *)
DelFails(p) ==
    /\ \/ pc[p] = "delopen" /\ control = 0
       \/ pc[p] = "deltmp" /\ tmp # 0
    /\ Goto(p, "delfiles")
    /\ hist' = [hist EXCEPT !.twice = @ \cup {loc[p].vote}]
    /\ UNCHANGED <<list, box, voteflag, votes, bounds, loc>>

DelTmp(p) ==
    /\ pc[p] = "deltmp"
    /\ tmp = 0 /\ tmp' \in NewFile
    /\ inode' = [inode EXCEPT ![tmp'] = <<>>]
    /\ Goto(p, "delcopy")
    /\ UNCHANGED <<control, box, voteflag, votes, bounds, loc, hist>>

(* Faulty form: lines are counted from 0. *)
WithoutNext(s, id) == SelectSeq(s, LAMBDA v : v # s[IF id < Len(s) THEN id + 1 ELSE id])

(* All lines but number id. *)
Without(s, id) == IF id \in DOMAIN s THEN RemoveAt(s, id) ELSE s

DelCopy(p) ==
    /\ pc[p] = "delcopy"
    /\ inode' = [inode EXCEPT ![tmp] = Without(inode[loc[p].file], loc[p].num)]
    /\ loc' = [loc EXCEPT ![p].file = 0]
    /\ Goto(p, "ren1")
    /\ UNCHANGED <<control, tmp, box, voteflag, votes, bounds, hist>>

(* rename(control, .del); what nobody has open is of no more use. *)
Rename1(p) ==
    /\ pc[p] = "ren1"
    /\ control' = 0
    /\ inode' = IF \E q \in Procs : loc[q].file = control THEN inode
                ELSE [inode EXCEPT ![control] = <<>>]
    /\ Goto(p, "ren2")
    /\ UNCHANGED <<tmp, box, voteflag, votes, bounds, loc, hist>>

(* rename(.tmpfile, control) *)
Rename2(p) ==
    /\ pc[p] = "ren2"
    /\ control' = tmp /\ tmp' = 0
    /\ loc' = Disturb(loc, p, IF loc[p].raced THEN 0 ELSE loc[p].num)
    /\ hist' = [hist EXCEPT !.twice = @ \cup
                  (IF loc[p].raced THEN 1..MaxVotes ELSE {})]
    /\ Goto(p, "delfiles")
    /\ UNCHANGED <<inode, box, voteflag, votes, bounds>>

-----------------------------------------------------------------------------
(* Back in dele_vote, whether the line is gone or not: a vote that is to   *)
(* be saved is written to control.<opendate> and looked for once more;     *)
(* otherwise its files are removed.                                        *)
DelFiles(p) ==
    /\ pc[p] = "delfiles"
    /\ IF loc[p].vote \in SaveLog
       THEN Goto(p, "dele") /\ UNCHANGED <<box, hist>>
       ELSE /\ box' = [box EXCEPT ![loc[p].vote] = <<>>]
            /\ hist' = [hist EXCEPT !.gone = @ \cup {loc[p].vote}]
            /\ Goto(p, "delend")
    /\ loc' = [loc EXCEPT ![p].range = IF @ > 0 THEN @ - 1 ELSE 0]
    /\ UNCHANGED <<list, voteflag, votes, bounds>>

DelEnd(p) ==
    /\ pc[p] = "delend"
    /\ IF Lines(control) = <<>> THEN ClearFlag ELSE UNCHANGED <<voteflag, hist>>
    /\ IF loc[p].back = "poll"
       THEN /\ Goto(p, "poll")
            /\ loc' = [loc EXCEPT ![p] = [NoLocals EXCEPT !.vote = loc[p].vote,
                          !.over = loc[p].over, !.vnum = loc[p].vnum - 1]]
       ELSE Return(p, loc[p].range)
    /\ UNCHANGED <<list, box, votes, bounds>>

(* A hangup: the next session of this user is a new process. *)
Kill(p) ==
    /\ "die" \in cast[p] /\ faults < MaxFaults
    /\ pc[p] # "idle"
    /\ faults' = faults + 1
    /\ Goto(p, "idle")
    /\ loc' = [loc EXCEPT ![p] = NoLocals]
    /\ hist' = [hist EXCEPT !.twice = @ \cup
                  (IF pc[p] \in Closing THEN 1..MaxVotes ELSE {})]
    /\ UNCHANGED <<list, box, voteflag, votes, cast, ballots>>

Step(p) ==
    \/ Put(p) \/ OpenFile(p) \/ OpenWrite(p)
    \/ PollSet(p) \/ PollNext(p) \/ PollEnd(p) \/ Count(p) \/ Post(p)
    \/ DeleFind(p) \/ DeleNone(p) \/ DelOpen(p) \/ DelFails(p) \/ DelTmp(p)
    \/ DelCopy(p) \/ Rename1(p) \/ Rename2(p) \/ DelFiles(p) \/ DelEnd(p)

Next ==
    \/ Tick
    \/ \E v \in Vote : Expire(v)
    \/ \E p \in Procs :
         \/ Step(p)
         \/ BVoteNone(p) \/ BVote(p) \/ Leave(p) \/ UserVote(p) \/ Abort(p) \/ FillIn(p)
         \/ WebForm(p) \/ WebPost(p) \/ WebRefused(p)
         \/ OpenVote(p) \/ PollCheck(p) \/ CloseEarly(p) \/ Kill(p)

Spec == Init /\ [][Next]_vars

(* A process that is not waiting for its user goes on, time passes, and    *)
(* people keep logging in.                                                 *)
LiveSpec ==
    /\ Spec
    /\ WF_vars(Tick)
    /\ \A p \in Procs : WF_vars(Step(p))
    /\ SF_vars(\E p \in Procs : PollCheck(p))

-----------------------------------------------------------------------------
(***************************************************************************)
(* Properties.                                                             *)
(***************************************************************************)
Where == {"idle", "list", "form", "webform", "put", "open", "openwrite", "pollset", "poll"}
             \cup Closing

(* Types; a ballot box holds ballots of users and holes, and what a user   *)
(* is about to write is a ballot.                                          *)
Locals == [vote : Vote, num : Nat, file : 0..MaxFiles, pos : Nat, ballot : Values \cup {0},
           back : {"idle", "poll"}, vnum : Int, over : SUBSET Vote,
           tally : SUBSET (Ballot \cup {Hole}), range : Nat,
           counted : BOOLEAN, raced : BOOLEAN, meant : Vote]
Histories == [gone : SUBSET Vote, late : SUBSET (Vote \X {UserOf[p] : p \in Procs}),
              twice : SUBSET Vote, flag : BOOLEAN]

TypeOK ==
    /\ inode \in [File -> Seq(Vote)]
    /\ control \in 0..MaxFiles /\ tmp \in 0..MaxFiles
    /\ box \in [Vote -> Seq(Ballot \cup {Hole})]
    /\ result \in [Vote -> SUBSET (Ballot \cup {Hole})]
    /\ voteflag \in BOOLEAN /\ due \in BOOLEAN
    /\ opened \in 0..MaxVotes /\ expired \subseteq Vote
    /\ pc \in [Procs -> Where] /\ loc \in [Procs -> Locals] /\ hist \in Histories
    /\ \A p \in Procs : pc[p] = "put" => loc[p].ballot \in Values

(* The list of votes: what control is, or is about to be. *)
Listed == IF \E p \in Procs : pc[p] = "ren2" THEN Lines(tmp) ELSE Lines(control)

Of(u, v) == Cardinality({i \in DOMAIN box[v] : box[v][i].uid = u})

(* One ballot each, and where it was meant to go: a user gets a second one *)
(* into a box only through two sessions that both look before either of    *)
(* them writes, and the web puts a ballot into the box whose form it has   *)
(* shown, unless a vote listed before it, or it itself, has been closed.   *)
(* (Once the box of a closed vote was removed, the places found in it mean *)
(* nothing.)                                                               *)
BallotsRight ==
    [][\A p \in Procs :
          /\ pc[p] = "put" /\ pc'[p] # "put" /\ ballots' # ballots =>
                \A u \in {UserOf[p]}, v \in {loc[p].vote} :
                    Of(u, v)' > Of(u, v) /\ Of(u, v)' > 1 => loc[p].raced \/ v \in hist.gone
          /\ p \in Web /\ pc[p] = "webform" /\ pc'[p] = "put" =>
                loc'[p].vote = loc[p].meant \/ loc[p].raced]_vars

(* A box is removed with ballots in it only after a result that counts     *)
(* them was posted, or they came while the result was made, or a manager   *)
(* has removed the vote without a result.                                  *)
NoneUncounted ==
    [][\A p \in Procs : pc[p] = "delfiles" /\ pc'[p] = "delend" /\ loc[p].counted =>
          \A b \in Rng(box[loc[p].vote]) \ {Hole} :
              b \in result[loc[p].vote] \/ <<loc[p].vote, b.uid>> \in hist.late]_vars

(* No result is posted for a vote whose ballots are gone already, unless   *)
(* two were closing votes at once or one of them failed.                   *)
NoEmptyResult ==
    \A p \in Procs : pc[p] = "post" /\ loc[p].vote \in hist.gone
                         => loc[p].vote \in hist.twice

(* A vote leaves the list only when it is closed, unless the list has been *)
(* changed by another process while one was removing a line, or it was     *)
(* killed between the two renames.                                         *)
VotesKept ==
    [][\A v \in Rng(Listed) \ Rng(Listed') : \E p \in Procs :
          \/ pc[p] = "ren1" /\ pc'[p] = "ren2" /\ (loc[p].vote = v \/ loc[p].raced)
          \/ pc[p] = "ren2" /\ pc'[p] = "idle"]_vars

(* When nobody is at work the board shows its flag if votes are open.      *)
FlagRight ==
    (\A p \in Procs : pc[p] \notin {"open", "openwrite"} \cup Closing) /\ Listed # <<>>
        => voteflag \/ hist.flag

(* While votes are opened, taken and closed in turns, what belongs to a    *)
(* vote goes with it: its ballots, its result, the flag of its board.      *)
VotesRight == TypeOK /\ FlagRight /\ NoEmptyResult

(* .tmpfile has been left behind by a process that is dead. *)
Leftover == tmp # 0 /\ \A p \in Procs : pc[p] \notin {"delcopy", "ren1", "ren2"}

(* Votes whose time is over are closed some day, all of them, likewise.    *)
ExpiredClosed == []<>(expired \cap Rng(Listed) \subseteq {0} \/ Leftover)
=============================================================================
