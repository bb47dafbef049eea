------------------------------ MODULE Articles ------------------------------
(***************************************************************************)
(* The articles of one board: the index .DIR, the excerpts .DIGEST, the    *)
(* deleted articles .DELETED and .JUNK, each a file of fileheaders; the    *)
(* files M.<time>.A and, for excerpts, G.<time>.A; and what the board      *)
(* cache knows of .DIR, the number of lines and the time of the last one.  *)
(*                                                                         *)
(* Telnet sessions and web requests post, delete, mark and edit; a board   *)
(* manager makes excerpts and restores what was deleted.  Programs run     *)
(* from cron shorten .DELETED and .JUNK and remove files no index names.   *)
(* A session works on the line its screen shows, however old it is.  Every *)
(* write to an index is made under flock, but for the flags set by         *)
(* bbsman, and the lock is held for one write only, but in delete_range.   *)
(***************************************************************************)
EXTENDS Integers, Sequences, SequencesExt, FiniteSets, Records

CONSTANTS Procs,    \* processes
          Nobody,   \* holder of a lock that is free
          Casts,    \* bound: who does what, every request once
          Owners,   \* the processes whose user has written the articles
          Old,      \* the number of articles in the beginning
          MinAge,   \* MINAGE: find_rm_lost spares files younger than this
          MaxTry,   \* names tried for an article (100 and MAX_POSTRETRY)
          MaxTime   \* bound: the clock stops here

ASSUME ArticlesAssumption ==
    /\ Nobody \notin Procs /\ Owners \subseteq Procs
    /\ Old \in Nat /\ MinAge \in Nat \ {0} /\ MaxTry \in Nat \ {0}
    /\ MaxTime \in Nat /\ MaxTime > Old

VARIABLES
    list,     \* the records of "dir", "digest", "deleted" and "junk"
    file,     \* file[k][t]: the article in the file k.t.A, 0 if there is none
    lock,     \* the process that holds flock on "dir" and on "digest"
    total,    \* boardmem.total
    lastpost, \* boardmem.lastpost
    now,      \* time(0)
    posted,   \* the articles so far
    jobs,     \* jobs[p]: the requests p has still to make
    todo,     \* todo[p]: the steps of its request that p has not taken
    loc,      \* local variables, see NoLocals
    hist      \* what the properties make exceptions for, see Init

board == <<list, file, lock>>
cache == <<total, lastpost>>
vars == <<board, cache, now, posted, jobs, todo, loc, hist>>

Lists == {"dir", "digest", "deleted", "junk"}
Kinds == {"M", "G"}
Names == 1..(MaxTime + MaxTry)

(***************************************************************************)
(* A fileheader: the name of its file, the article it was made for, and    *)
(* the flags FH_ISDIGEST (kind "G"), FH_MARKED, FH_DIGEST and FH_DEL.      *)
(***************************************************************************)
Header == [filetime : Names \cup {0}, art : Nat, kind : Kinds, marked : BOOLEAN,
           digest : BOOLEAN, del : BOOLEAN, edittime : Nat]

NewLine(t, a) == [filetime |-> t, art |-> a, kind |-> "M", marked |-> FALSE,
                  digest |-> FALSE, del |-> FALSE, edittime |-> 0]
Hole == NewLine(0, 0)

Times(l) == {list[l][i].filetime : i \in DOMAIN list[l]}

FileOf(fh) == <<fh.kind, fh.filetime>>
FilesOf(d) == {FileOf(d[i]) : i \in DOMAIN d}

(***************************************************************************)
(* view: the list on the screen; ent, fh: the line chosen from it.  new,   *)
(* into: a line to be appended, and to which list; from: the names .DIR    *)
(* had when it got its own.  n: the length getlastpost has read.  sel,     *)
(* read, at: a deletion of a range, or the lines that are to be kept.      *)
(* lost: files no index has named so far; moving: the articles that were   *)
(* between two lists when .DIR or .DIGEST was read.                        *)
(***************************************************************************)
NoLocals == [view |-> "dir", ent |-> 0, fh |-> Hole, new |-> Hole,
             into |-> "dir", from |-> {}, n |-> 0, sel |-> {}, read |-> <<>>,
             at |-> 0, lost |-> {}, moving |-> {}, start |-> 0]

(***************************************************************************)
(* freed: names that were given up again.  stale: files a restored article *)
(* has left or kept, or a post has kept since it was begun.  dropped:      *)
(* files that auto_rm_junk has dropped a line of, or a request that meant  *)
(* another line.  crossed: articles whose excerpt was touched by two at a  *)
(* time, or set as a mere flag, or restored, or that were entered twice.   *)
(* behind: what of the board cache was last written from an index that had *)
(* changed meanwhile.                                                      *)
(***************************************************************************)
Init ==
    /\ list = [l \in Lists |-> IF l = "dir" THEN [i \in 1..Old |-> NewLine(i, i)]
                                            ELSE <<>>]
    /\ file = [k \in Kinds |-> [t \in Names |->
                                   IF k = "M" /\ t <= Old THEN t ELSE 0]]
    /\ lock = [l \in {"dir", "digest"} |-> Nobody]
    /\ total = Old /\ lastpost = Old
    /\ now = Old + 1 /\ posted = Old
    /\ jobs \in Casts
    /\ todo = [p \in Procs |-> <<>>]
    /\ loc = [p \in Procs |-> NoLocals]
    /\ hist = [freed |-> {}, stale |-> {}, dropped |-> {}, crossed |-> {},
               behind |-> {}]

-----------------------------------------------------------------------------
Idle(p) == todo[p] = <<>>
At(p, step) == ~Idle(p) /\ Head(todo[p]) = step

(* A request is begun, and has these steps before it. *)
Begin(p, job, steps) ==
    /\ Idle(p) /\ job \in jobs[p]
    /\ jobs' = [jobs EXCEPT ![p] = @ \ {job}]
    /\ todo' = [todo EXCEPT ![p] = steps]

(* A step is done; after the last one the locals are gone. *)
Done(p, l) ==
    /\ todo' = [todo EXCEPT ![p] = Tail(@)]
    /\ loc' = [loc EXCEPT ![p] = IF Len(todo[p]) = 1 THEN NoLocals ELSE l]
    /\ UNCHANGED jobs

(* The rest of the request is not carried out. *)
Return(p) ==
    /\ todo' = [todo EXCEPT ![p] = <<>>]
    /\ loc' = [loc EXCEPT ![p] = NoLocals]

Free(l) == l \in DOMAIN lock => lock[l] = Nobody

Put(l, d) == list' = [list EXCEPT ![l] = d]

Cross(names) == hist' = [hist EXCEPT !.crossed = @ \cup names]
GiveUp(t) == hist' = [hist EXCEPT !.freed = @ \cup {t}]
Drop(files) == hist' = [hist EXCEPT !.dropped = @ \cup files]
Keep(files) == hist' = [hist EXCEPT !.stale = @ \cup files]

(* The processes at work on the excerpt of the article named t. *)
Excerpting(t) == {p \in Procs : /\ loc[p].fh.filetime = t
                                /\ {"toggle", "normal"} \cap ToSet(todo[p]) # {}}

(* The file of another line at the place where p is about to write. *)
UnderPen(p) ==
    LET d == list[loc[p].view]
    IN  {FileOf(d[i]) : i \in DOMAIN d \cap {loc[p].ent}} \ {FileOf(loc[p].fh)}

(* The name an article gets: the first that is not taken, if it is found   *)
(* in time.                                                                *)
FreeNames(k) == {t \in now..(now + MaxTry - 1) :
                    file[k][t] = 0 /\ \A u \in now..(t - 1) : file[k][u] # 0}

(* A request does not take so long that find_rm_lost sees its new file.    *)
Tick ==
    /\ now < MaxTime
    /\ \A p \in Procs : At(p, "append") => now + 1 - loc[p].new.filetime # MinAge
    /\ now' = now + 1
    /\ UNCHANGED <<board, cache, posted, jobs, todo, loc, hist>>

-----------------------------------------------------------------------------
(* getlastpost: fstat; the length; then the record that was the last one. *)
update == <<"stat", "total", "store">>

Stat(p) ==
    /\ At(p, "stat")
    /\ Done(p, [loc[p] EXCEPT !.n = Len(list["dir"])])
    /\ UNCHANGED <<board, cache, now, posted, hist>>

LastTime(d, n) ==
    IF n = 0 THEN 0
    ELSE IF n > Len(d) THEN lastpost
    ELSE IF d[n].edittime = 0 THEN d[n].filetime ELSE d[n].edittime

Behind(p, field) ==
    hist' = [hist EXCEPT !.behind = IF loc[p].n = Len(list["dir"]) THEN @ \ {field}
                                                                   ELSE @ \cup {field}]

StoreTotal(p) ==
    /\ At(p, "total")
    /\ total' = loc[p].n
    /\ Behind(p, "total")
    /\ Done(p, loc[p])
    /\ UNCHANGED <<board, lastpost, now, posted>>

Store(p) ==
    /\ At(p, "store")
    /\ lastpost' = LastTime(list["dir"], loc[p].n)
    /\ Behind(p, "lastpost")
    /\ Done(p, loc[p])
    /\ UNCHANGED <<board, total, now, posted>>

-----------------------------------------------------------------------------
(***************************************************************************)
(* Posting.  A telnet session makes the file, lets its user write, and     *)
(* gives the article a later name; a web request writes at once.           *)
(***************************************************************************)
Named(p, t, a) == [NoLocals EXCEPT !.new = NewLine(t, a), !.from = Times("dir")]

PostStart(p) ==
    /\ Begin(p, "post", <<"write", "append">> \o update)
    /\ \E t \in FreeNames("M"), l \in {"dir", "digest"} :
         /\ file' = [file EXCEPT !["M"][t] = posted + 1]
         /\ loc' = [loc EXCEPT ![p] = [Named(p, t, posted + 1) EXCEPT !.into = l]]
    /\ posted' = posted + 1
    /\ UNCHANGED <<list, lock, cache, now, hist>>

PostAbort(p) ==
    /\ At(p, "write")
    /\ file' = [file EXCEPT !["M"][loc[p].new.filetime] = 0]
    /\ GiveUp(loc[p].new.filetime)
    /\ Return(p)
    /\ UNCHANGED <<list, lock, cache, now, posted, jobs>>

(* Faulty form: the article keeps the name it got before it was written. *)
PostEndEarlyName(p) ==
    /\ At(p, "write")
    /\ Done(p, [loc[p] EXCEPT !.from = Times("dir")])
    /\ UNCHANGED <<board, cache, now, posted, hist>>

(* Its own file is in the way of a name, too. *)
PostEnd(p) ==
    /\ At(p, "write")
    /\ LET old == loc[p].new.filetime
           a == loc[p].new.art
           names == {t \in now..(now + MaxTry - 1) :
                        \A u \in now..t : (file["M"][u] # 0 \/ u = old) <=> u # t}
       IN  IF names = {}
           THEN /\ file' = [file EXCEPT !["M"][old] = a]
                /\ Done(p, loc[p])
                /\ Keep({FileOf(loc[p].new)})
           ELSE \E t \in names :
                  /\ file' = [file EXCEPT !["M"][t] = a, !["M"][old] = 0]
                  /\ Done(p, [loc[p] EXCEPT !.new.filetime = t,
                                            !.from = Times("dir")])
                  /\ GiveUp(old)
    /\ UNCHANGED <<list, lock, cache, now, posted>>

WebPost(p) ==
    /\ Begin(p, "webpost", <<"append">> \o update)
    /\ \E t \in FreeNames("M") :
         /\ file' = [file EXCEPT !["M"][t] = posted + 1]
         /\ loc' = [loc EXCEPT ![p] = Named(p, t, posted + 1)]
    /\ posted' = posted + 1
    /\ UNCHANGED <<list, lock, cache, now, hist>>

AppendLine(p) ==
    /\ At(p, "append")
    /\ Free(loc[p].into)
    /\ Put(loc[p].into, Append(list[loc[p].into], loc[p].new))
    /\ LET t == loc[p].new.filetime
       IN  Cross(IF \/ loc[p].new.kind = "G" \/ Excerpting(t) # {}
                    \/ t \in Times("dir") \cup Times("digest")
                 THEN {t} ELSE {})
    /\ Done(p, loc[p])
    /\ UNCHANGED <<file, lock, cache, now, posted>>

-----------------------------------------------------------------------------
(***************************************************************************)
(* The line under the cursor of a telnet session.                          *)
(***************************************************************************)
Shows(l) ==
    CASE l = "dir" -> {"del", "edit", "flag", "digest"}
      [] l = "digest" -> {"del", "edit"}
      [] OTHER -> {"undelete"}

View(p) ==
    /\ Idle(p)
    /\ \E l \in Lists : \E i \in DOMAIN list[l] :
         /\ Shows(l) \cap jobs[p] # {}
         /\ loc' = [loc EXCEPT ![p] = [NoLocals EXCEPT
                        !.view = l, !.ent = i, !.fh = list[l][i]]]
    /\ UNCHANGED <<board, cache, now, posted, jobs, todo, hist>>

Sees(p, job) == loc[p].ent > 0 /\ job \in Shows(loc[p].view)
Seen(p) == Place(list[loc[p].view], loc[p].fh.filetime, loc[p].ent)

Flagged(t) == \E i \in DOMAIN list["dir"] :
                 list["dir"][i].filetime = t /\ list["dir"][i].digest
Entered(t) == \E i \in DOMAIN list["digest"] :
                 list["digest"][i].filetime = t /\ list["digest"][i].kind = "G"

(***************************************************************************)
(* del_post: delete_file, updatelastpost, cancelpost; in the excerpts the  *)
(* flag of the article is changed as well.                                 *)
(***************************************************************************)
(* Faulty form: the flag is left alone. *)
AfterDeleteFlagKept(l) == update \o <<"cancel">>

AfterDelete(l) == update \o (IF l = "digest" THEN <<"cancel", "normal">>
                                             ELSE <<"cancel">>)

Delete(p) ==
    /\ Sees(p, "del")
    /\ Begin(p, "del", IF Seen(p) = 0 THEN <<>> ELSE AfterDelete(loc[p].view))
    /\ Free(loc[p].view)
    /\ LET l == loc[p].view
           t == loc[p].fh.filetime
       IN  IF Seen(p) = 0
           THEN loc' = [loc EXCEPT ![p] = NoLocals] /\ UNCHANGED <<list, hist>>
           ELSE /\ Put(l, RemoveAt(list[l], Seen(p)))
                /\ hist' = [hist EXCEPT
                       !.crossed = IF l = "digest" /\ Excerpting(t) # {}
                                   THEN @ \cup {t} ELSE @,
                       !.dropped = @ \cup ({FileOf(list[l][Seen(p)])}
                                           \ {FileOf(loc[p].fh)})]
                /\ UNCHANGED loc
    /\ UNCHANGED <<file, lock, cache, now, posted>>

Trash(fh) == [fh EXCEPT !.marked = FALSE, !.digest = FALSE]

Cancel(p) ==
    /\ At(p, "cancel")
    /\ LET l == IF p \in Owners /\ loc[p].view = "dir" THEN "junk" ELSE "deleted"
       IN  Put(l, Append(list[l], Trash(loc[p].fh)))
    /\ Done(p, loc[p])
    /\ UNCHANGED <<file, lock, cache, now, posted, hist>>

(* change_dir from bp->total downwards. *)
Normal(p) ==
    /\ At(p, "normal")
    /\ Free("dir")
    /\ LET i == Place(list["dir"], loc[p].fh.filetime, total) IN
       IF i = 0 THEN Cross({loc[p].fh.filetime}) /\ UNCHANGED list
       ELSE list' = [list EXCEPT !["dir"][i].digest = ~@] /\ UNCHANGED hist
    /\ Done(p, loc[p])
    /\ UNCHANGED <<file, lock, cache, now, posted>>

-----------------------------------------------------------------------------
(***************************************************************************)
(* Requests of the web name an article; its place is looked up first.      *)
(* bbsdel: deletes whatever is there by then, and cancels what was found.  *)
(* bbsedit: writes the record back there.                                  *)
(***************************************************************************)
WebFind(p) ==
    /\ \E t \in Times("dir") :
         \/ LET i == Search_Bin(list["dir"], t, 0, Len(list["dir"]) - 1) + 1
            IN  /\ i > 0
                /\ Begin(p, "webdel", <<"remove", "cancel">> \o update)
                /\ loc' = [loc EXCEPT ![p] = [NoLocals EXCEPT
                               !.ent = i, !.fh = list["dir"][i]]]
         \/ LET i == SelectInSeq(list["dir"], LAMBDA fh : fh.filetime = t)
            IN  /\ t \in Names /\ file["M"][t] # 0
                /\ Begin(p, "webedit", <<"put">> \o update)
                /\ loc' = [loc EXCEPT ![p] = [NoLocals EXCEPT
                               !.ent = i, !.fh = list["dir"][i]]]
    /\ UNCHANGED <<board, cache, now, posted, hist>>

WebRemove(p) ==
    /\ At(p, "remove")
    /\ Free("dir")
    /\ IF loc[p].ent > Len(list["dir"]) THEN UNCHANGED list
       ELSE Put("dir", RemoveAt(list["dir"], loc[p].ent))
    /\ Drop(UnderPen(p))
    /\ Done(p, loc[p])
    /\ UNCHANGED <<file, lock, cache, now, posted>>

put_record(p) ==
    /\ At(p, "put")
    /\ Free("dir")
    /\ LET d == list["dir"]
           i == loc[p].ent
       IN  /\ Put("dir", substitute_record(d, [loc[p].fh EXCEPT !.edittime = now],
                                           i, Hole))
           /\ hist' = [hist EXCEPT
                  !.crossed = IF i \in DOMAIN d /\ d[i] = loc[p].fh THEN @
                              ELSE @ \cup {loc[p].fh.filetime},
                  !.dropped = @ \cup UnderPen(p)]
    /\ Done(p, loc[p])
    /\ UNCHANGED <<file, lock, cache, now, posted>>

(* bbsman: do_set changes the record in a shared map of the file. *)
do_set(p) ==
    /\ Begin(p, "webset", <<>>)
    /\ \E t \in Times("dir"), flags \in {"marked", "digest", "del", "none"} :
         LET i == Search_Bin(list["dir"], t, 0, Len(list["dir"]) - 1) + 1
             fh == list["dir"][i]
         IN  /\ i > 0
             /\ list' = [list EXCEPT !["dir"][i] =
                    IF flags = "none"
                    THEN [fh EXCEPT !.marked = FALSE, !.digest = FALSE, !.del = FALSE]
                    ELSE [fh EXCEPT ![flags] = TRUE]]
             /\ Cross(IF flags \in {"digest", "none"} THEN {t} ELSE {})
    /\ UNCHANGED <<file, lock, cache, now, posted, loc>>

-----------------------------------------------------------------------------
(***************************************************************************)
(* delete_range, by numbers or by FH_DEL.  The lock is held throughout.    *)
(***************************************************************************)
RangeLock(p) ==
    /\ Begin(p, "range", <<"range">> \o update)
    /\ \E l \in {"dir", "digest"} : \E i, j \in DOMAIN list[l] \cup {0} :
         /\ (i = 0 /\ j = 0) \/ (i > 0 /\ j - i > 1)
         /\ Free(l)
         /\ lock' = [lock EXCEPT ![l] = p]
         /\ loc' = [loc EXCEPT ![p] = [NoLocals EXCEPT !.view = l,
                        !.read = list[l], !.sel = IF i = 0 THEN {} ELSE i..j]]
    /\ UNCHANGED <<list, file, cache, now, posted, hist>>

Selected(p) ==
    LET d == loc[p].read
    IN  {i \in DOMAIN d : IF loc[p].sel = {} THEN d[i].del
                          ELSE i \in loc[p].sel /\ ~d[i].marked /\ ~d[i].digest}

Ahead(p) == {i \in Selected(p) : i > loc[p].at /\ loc[p].read[i].filetime # 0}

RangeCancel(p) ==
    /\ At(p, "range")
    /\ \E i \in Ahead(p) :
         /\ \A j \in Ahead(p) : i <= j
         /\ Put("deleted", Append(list["deleted"], Trash(loc[p].read[i])))
         /\ loc' = [loc EXCEPT ![p].at = i]
    /\ UNCHANGED <<file, lock, cache, now, posted, jobs, todo, hist>>

RangeEnd(p) ==
    /\ At(p, "range")
    /\ Ahead(p) = {}
    /\ LET l == loc[p].view IN
       /\ Put(l, Rewritten(list[l], loc[p].read, Selected(p)))
       /\ lock' = [lock EXCEPT ![l] = Nobody]
       /\ Cross(IF l = "dir" THEN {}
                ELSE {loc[p].read[i].filetime : i \in Selected(p)})
    /\ Done(p, loc[p])
    /\ UNCHANGED <<file, cache, now, posted>>

-----------------------------------------------------------------------------
(* mark_post, markdel_post. *)
Flag(p) ==
    /\ Sees(p, "flag")
    /\ Begin(p, "flag", <<>>)
    /\ Free("dir")
    /\ IF Seen(p) = 0 THEN UNCHANGED list
       ELSE \E f \in {"marked", "del"} :
              list' = [list EXCEPT !["dir"][Seen(p)][f] = ~@]
    /\ loc' = [loc EXCEPT ![p] = NoLocals]
    /\ UNCHANGED <<file, lock, cache, now, posted, hist>>

(***************************************************************************)
(* edit_post: the file was there when the editor was opened; it is written *)
(* anew.  Among the excerpts change_dir does nothing.                      *)
(***************************************************************************)
EditStart(p) ==
    /\ Sees(p, "edit") /\ loc[p].fh.filetime # 0
    /\ file[loc[p].fh.kind][loc[p].fh.filetime] # 0
    /\ Begin(p, "edit", <<"save", "enter">> \o update)
    /\ UNCHANGED <<board, cache, now, posted, loc, hist>>

EditSave(p) ==
    /\ At(p, "save")
    /\ file' = [file EXCEPT ![loc[p].fh.kind][loc[p].fh.filetime] = loc[p].fh.art]
    /\ Done(p, [loc[p] EXCEPT !.fh.edittime = now])
    /\ UNCHANGED <<list, lock, cache, now, posted, hist>>

EditEnter(p) ==
    /\ At(p, "enter")
    /\ Free("dir")
    /\ IF loc[p].view = "digest" \/ Seen(p) = 0 THEN UNCHANGED list
       ELSE list' = [list EXCEPT !["dir"][Seen(p)].edittime = loc[p].fh.edittime]
    /\ Done(p, loc[p])
    /\ UNCHANGED <<file, lock, cache, now, posted, hist>>

-----------------------------------------------------------------------------
(***************************************************************************)
(* digest_post: the flag the screen shows decides.                         *)
(***************************************************************************)
Digest(p) ==
    /\ Sees(p, "digest") /\ loc[p].fh.filetime # 0
    /\ LET t == loc[p].fh.filetime
           there == file["G"][t] # 0
       IN  /\ Begin(p, "digest",
                    IF loc[p].fh.digest THEN <<"undigest", "unlink", "toggle">>
                    ELSE IF there THEN <<"toggle">> ELSE <<"excerpt", "toggle">>)
           /\ Cross(IF \/ Excerpting(t) # {} \/ Seen(p) = 0
                       \/ loc[p].fh.digest # list["dir"][Seen(p)].digest
                       \/ there /\ ~loc[p].fh.digest
                    THEN {t} ELSE {})
    /\ UNCHANGED <<board, cache, now, posted, loc>>

(* link fails when there is such a file by now, or the article is gone. *)
Excerpt(p) ==
    /\ At(p, "excerpt")
    /\ Free("digest")
    /\ LET fh == loc[p].fh
           t == fh.filetime
       IN  /\ file' = [file EXCEPT !["G"][t] = IF @ = 0 THEN file["M"][t] ELSE @]
           /\ Put("digest", Append(list["digest"],
                  [NewLine(t, fh.art) EXCEPT !.kind = "G", !.edittime = fh.edittime]))
    /\ Done(p, loc[p])
    /\ UNCHANGED <<lock, cache, now, posted, hist>>

(* dele_digest *)
Undigest(p) ==
    /\ At(p, "undigest")
    /\ Free("digest")
    /\ LET d == list["digest"]
           t == loc[p].fh.filetime
           i == SelectInSeq(d, LAMBDA fh : fh.filetime = t)
       IN  IF i = 0
           THEN /\ todo' = [todo EXCEPT ![p] = <<"toggle">>]
                /\ UNCHANGED <<list, jobs, loc, hist>>
           ELSE /\ Put("digest", RemoveAt(d, i))
                /\ Drop({FileOf(d[i])} \ {<<"G", t>>})
                /\ Done(p, loc[p])
    /\ UNCHANGED <<file, lock, cache, now, posted>>

UndigestUnlink(p) ==
    /\ At(p, "unlink")
    /\ file' = [file EXCEPT !["G"][loc[p].fh.filetime] = 0]
    /\ Done(p, loc[p])
    /\ UNCHANGED <<list, lock, cache, now, posted, hist>>

Toggle(p) ==
    /\ At(p, "toggle")
    /\ Free("dir")
    /\ IF Seen(p) = 0 THEN Cross({loc[p].fh.filetime}) /\ UNCHANGED list
       ELSE list' = [list EXCEPT !["dir"][Seen(p)].digest = ~@] /\ UNCHANGED hist
    /\ Done(p, loc[p])
    /\ UNCHANGED <<file, lock, cache, now, posted>>

-----------------------------------------------------------------------------
(***************************************************************************)
(* UndeleteArticle: a new name, a line in .DIR or .DIGEST, and a zero      *)
(* where the line was on the screen.                                       *)
(***************************************************************************)
(* Faulty form: the board cache is not told. *)
restore_silently == <<"relink", "append", "strike">>

restore == <<"relink", "append">> \o update \o <<"strike">>

Undelete(p) ==
    /\ Sees(p, "undelete") /\ loc[p].fh.filetime # 0
    /\ file[loc[p].fh.kind][loc[p].fh.filetime] # 0
    /\ Begin(p, "undelete", restore)
    /\ UNCHANGED <<board, cache, now, posted, loc, hist>>

(* When the file is gone by now, or no name is free, the old name stays. *)
Relink(p) ==
    /\ At(p, "relink")
    /\ LET fh == loc[p].fh
           k == fh.kind
           new == [loc[p] EXCEPT !.new = [fh EXCEPT !.del = FALSE],
                                 !.into = IF k = "G" THEN "digest" ELSE "dir"]
       IN  IF file[k][fh.filetime] = 0 \/ FreeNames(k) = {}
           THEN Done(p, new) /\ Keep({FileOf(fh)}) /\ UNCHANGED file
           ELSE \E t \in FreeNames(k) :
                  /\ file' = [file EXCEPT ![k][t] = file[k][fh.filetime],
                                          ![k][fh.filetime] = 0]
                  /\ Done(p, [new EXCEPT !.new.filetime = t, !.from = Times("dir")])
                  /\ hist' = [hist EXCEPT !.freed = @ \cup {fh.filetime},
                                          !.stale = @ \cup {FileOf(fh)}]
    /\ UNCHANGED <<list, lock, cache, now, posted>>

Strike(p) ==
    /\ At(p, "strike")
    /\ LET l == loc[p].view IN
       Put(l, substitute_record(list[l], [loc[p].fh EXCEPT !.filetime = 0],
                                loc[p].ent, Hole))
    /\ Drop(UnderPen(p))
    /\ Done(p, loc[p])
    /\ UNCHANGED <<file, lock, cache, now, posted>>

-----------------------------------------------------------------------------
(***************************************************************************)
(* auto_rm_junk copies the lines that are not yet old, and renames.        *)
(***************************************************************************)
JunkRead(p) ==
    /\ Begin(p, "rmjunk", <<"swap">>)
    /\ \E l \in {"deleted", "junk"} : \E n \in DOMAIN list[l] :
         loc' = [loc EXCEPT ![p] = [NoLocals EXCEPT !.view = l,
                     !.read = SubSeq(list[l], n + 1, Len(list[l]))]]
    /\ UNCHANGED <<board, cache, now, posted, hist>>

JunkSwap(p) ==
    /\ At(p, "swap")
    /\ Put(loc[p].view, loc[p].read)
    /\ Drop(FilesOf(list[loc[p].view]) \ FilesOf(loc[p].read))
    /\ Done(p, loc[p])
    /\ UNCHANGED <<file, lock, cache, now, posted>>

(***************************************************************************)
(* find_rm_lost: the files of the board, then the indices one by one.      *)
(***************************************************************************)
(* Faulty form: the other way round. *)
LostOrderReversed == <<"junk", "deleted", "digest", "dir", "rmlost">>

LostOrder == <<"dir", "digest", "deleted", "junk", "rmlost">>

Moving == {loc[p].fh.art : p \in {q \in Procs : "cancel" \in ToSet(todo[q])}}

LostStart(p) ==
    /\ Begin(p, "rmlost", LostOrder)
    /\ loc' = [loc EXCEPT ![p] = [NoLocals EXCEPT !.start = now,
                   !.lost = {f \in Kinds \X Names : file[f[1]][f[2]] # 0},
                   !.moving = Moving]]
    /\ UNCHANGED <<board, cache, now, posted, hist>>

LostRead(p) ==
    /\ \E l \in Lists :
         /\ At(p, l)
         /\ Done(p, [loc[p] EXCEPT
                !.lost = @ \ FilesOf(list[l]),
                !.moving = CASE l = "dir" -> Moving
                             [] l = "digest" -> @ \cup Moving
                             [] OTHER -> @])
    /\ UNCHANGED <<board, cache, now, posted, hist>>

RmLost(p) ==
    /\ At(p, "rmlost")
    /\ file' = [k \in Kinds |-> [t \in Names |->
           IF <<k, t>> \in loc[p].lost /\ loc[p].start - t >= MinAge
           THEN 0 ELSE file[k][t]]]
    /\ Done(p, loc[p])
    /\ UNCHANGED <<list, lock, cache, now, posted, hist>>

-----------------------------------------------------------------------------
Post(p) == PostStart(p) \/ PostAbort(p) \/ PostEnd(p) \/ WebPost(p) \/ AppendLine(p)

Web(p) == WebFind(p) \/ WebRemove(p) \/ put_record(p) \/ do_set(p)

Session(p) == \/ View(p) \/ Delete(p) \/ Cancel(p) \/ Normal(p) \/ Flag(p)
              \/ EditStart(p) \/ EditSave(p) \/ EditEnter(p)

Manager(p) == \/ RangeLock(p) \/ RangeCancel(p) \/ RangeEnd(p)
              \/ Digest(p) \/ Excerpt(p) \/ Undigest(p) \/ UndigestUnlink(p)
              \/ Toggle(p) \/ Undelete(p) \/ Relink(p) \/ Strike(p)

Cron(p) == JunkRead(p) \/ JunkSwap(p) \/ LostStart(p) \/ LostRead(p) \/ RmLost(p)

Finished == (\A p \in Procs : Idle(p)) /\ UNCHANGED vars

Next ==
    \/ Tick
    \/ \E p \in Procs :
         Stat(p) \/ StoreTotal(p) \/ Store(p) \/ Post(p) \/ Web(p) \/ Session(p) \/ Manager(p) \/ Cron(p)
    \/ Finished

Spec == Init /\ [][Next]_vars

-----------------------------------------------------------------------------
(***************************************************************************)
(* Properties.                                                             *)
(***************************************************************************)
Steps == ToSet(update) \cup ToSet(LostOrder) \cup
         {"write", "append", "cancel", "normal", "remove", "put", "range", "save",
          "enter", "undigest", "unlink", "excerpt", "toggle", "relink", "strike",
          "swap"}

(* Types. *)
TypeOK ==
    /\ list \in [Lists -> Seq(Header)]
    /\ file \in [Kinds -> [Names -> 0..posted]]
    /\ lock \in [{"dir", "digest"} -> Procs \cup {Nobody}]
    /\ total \in Nat /\ lastpost \in Nat /\ now \in 1..MaxTime /\ posted \in Nat
    /\ todo \in [Procs -> Seq(Steps)]
    /\ \A p \in Procs :
         /\ loc[p].view \in Lists /\ loc[p].into \in Lists
         /\ loc[p].fh \in Header /\ loc[p].new \in Header
         /\ loc[p].read \in Seq(Header)
         /\ loc[p].ent \in Nat /\ loc[p].n \in Nat /\ loc[p].at \in Nat
    /\ hist.freed \subseteq Names /\ hist.stale \cup hist.dropped \subseteq Kinds \X (Names \cup {0})
    /\ hist.behind \subseteq {"total", "lastpost"}

(* When no request is between a change to .DIR and the end of its          *)
(* updatelastpost, the board cache has the number of lines and the time of *)
(* the last one: whoever adds, removes or edits a line tells the cache.    *)
(* Unless, that is, the last to tell it had looked at .DIR before another  *)
(* changed it: updatelastpost reads and writes without a lock.             *)
LastPostRight ==
    (\A p \in Procs : "store" \notin ToSet(todo[p]))
        => /\ "total" \notin hist.behind => total = Len(list["dir"])
           /\ "lastpost" \notin hist.behind
                  => lastpost = LastTime(list["dir"], Len(list["dir"]))

(* The board is a board: types, and a cache that follows .DIR. *)
BoardRight == TypeOK /\ LastPostRight

(* An article of .DIR is flagged FH_DIGEST just when .DIGEST has a line    *)
(* for it, once the request that changes them is over: digest_post and     *)
(* del_post among the excerpts change both.  Not so for articles that two  *)
(* requests have changed at a time, or one that acted on an old flag or    *)
(* met an excerpt's file without its line, or did not find the line; that  *)
(* bbsman has flagged, or a web edit overwritten; whose excerpt was        *)
(* restored, or deleted in a range; or that were entered while there was a *)
(* line of that name, or a request at work on it.                          *)
DigestAgrees ==
    \A t \in Times("dir") \ (hist.crossed \cup {0}) :
        Excerpting(t) = {} => (Flagged(t) <=> Entered(t))

(* What leads to the articles: the lines of the indices, and those that    *)
(* processes are about to enter.  A line is whole when the article it was  *)
(* made for is in its file; excerpts are copies and do not count.          *)
Lines ==
    UNION {ToSet(list[l]) : l \in Lists} \cup
    {loc[p].new : p \in {q \in Procs : At(q, "append")}} \cup
    {loc[p].fh : p \in {q \in Procs : "cancel" \in ToSet(todo[q])}}

Whole(fh) == fh.kind = "M" /\ fh.filetime # 0 /\ file["M"][fh.filetime] = fh.art

Reachable == {fh.art : fh \in {g \in Lines : Whole(g)}}

(* p makes this step now. *)
Takes(p, step) == At(p, step) /\ todo'[p] # todo[p]

(* An article that has been posted stays within reach, deleted or not.     *)
(* Lines are dropped by auto_rm_junk, which lets go of what has expired    *)
(* and of what was entered while it copied; by requests of the web, which  *)
(* delete or overwrite the line that has moved to the place of their own;  *)
(* by a restored article, which strikes out such a line; and by deletions  *)
(* that meet an article and an excerpt of one name.  An article is lost    *)
(* only in such a step, or later, or under a name that was not new when    *)
(* its line was entered; or when find_rm_lost comes while it is on its way *)
(* from .DIR or .DIGEST to .DELETED.                                       *)
NothingLost ==
    [][\A fh \in Lines :
          Whole(fh) /\ FileOf(fh) \notin hist.stale \cup hist.dropped =>
              \/ fh.art \in Reachable'
              \/ FileOf(fh) \in hist'.dropped
              \/ \E p \in Procs : Takes(p, "rmlost") /\ fh.art \in loc[p].moving]_vars

(* .DIR stays in the order Search_Bin needs: an article is entered behind  *)
(* lines with earlier names, as far as they stood there when it got its    *)
(* own.  Others may come between: a name is given before the line is       *)
(* entered.  And a name that was given up may be given out again.          *)
Ordered ==
    [][\A p \in Procs :
          /\ Takes(p, "append") /\ loc[p].into = "dir"
          /\ loc[p].new.filetime \notin hist.freed
          => \A t \in loc[p].from : t < loc[p].new.filetime]_vars
=============================================================================
