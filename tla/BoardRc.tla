------------------------------ MODULE BoardRc ------------------------------
(***************************************************************************)
(* The read marks of the users: what a session holds of the board it is    *)
(* on (brc), what a process has read of a user's file (allbrc), the file,  *)
(* and how they are saved.                                                 *)
(*                                                                         *)
(*   telnet  src/boards.c: allbrc is kept while the list of boards is open *)
(*   web     nju09/boardrc.c: brc lives in the session's slot of utmp,     *)
(*           allbrc is static and read anew by each request                *)
(*                                                                         *)
(* No lock is taken.  A file is read at once, but saved in three steps:    *)
(* open of <user>.tmp, write, rename.  save_brc moves the files from the   *)
(* file system in memory to the users' homes.                              *)
(***************************************************************************)
EXTENDS BrcMarks, FiniteSets

CONSTANTS
    Users, Boards,
    Telnet,     \* telnet processes, each a session
    Web,        \* web processes
    Windows,    \* web sessions
    UserOf,     \* the user of a telnet process or of a web session
    Casts,      \* the sets of sessions that may be on line together
    Times,      \* times of articles, from 2 on
    MaxSize,    \* size of allbrc.brc_c
    Before,     \* user -> the blocks a file may have at first; {} for no file
    NoBoard, Info, NoWindow,
    MaxOpens, MaxMarks, MaxSaves, MaxFaults \* bounds

ASSUME BoardRcAssumption ==
    /\ UserOf \in [Telnet \cup Windows -> Users]
    /\ Casts \subseteq SUBSET (Telnet \cup Windows)
    /\ Telnet \cap (Web \cup Windows) = {}
    /\ Times \subseteq Nat \ {0, 1}
    /\ NoBoard \notin Boards \cup {Info} /\ Info \notin Boards /\ NoWindow \notin Windows

(* allbrc has room for #INFO and the longest block of a board. *)
ASSUME MaxSizeAssumption ==
    /\ MaxSize \in Nat
    /\ 2 * HeadLen + (2 * (MaxNum - 1) + 7) \div 8 + 4 * (MaxNum - 1) <= MaxSize

(* What a file may hold: blocks of lists that are in order, and #INFO      *)
(* before all.                                                             *)
Block_c == [board : Boards \cup {Info}, len : Nat, first : Nat,
            diffs : Seq([width : 1..4, value : Nat])]
Listed(l) == l \in Seq(Nat) /\ Len(l) \in 1..MaxNum /\ Descending(l)
WellFormed(blocks) ==
    /\ blocks \in Seq(Block_c)
    /\ \A i \in DOMAIN blocks :
           IF blocks[i].board = Info THEN i = 1 /\ blocks[i].len = HeadLen
           ELSE /\ blocks[i].len = BlockLen(blocks[i].diffs)
                /\ Listed(uncompress_brc(blocks[i]))

ASSUME BeforeAssumption ==
    \A u \in Users : \A blocks \in Before[u] : WellFormed(blocks) /\ SizeOf(blocks) <= MaxSize

Procs == Telnet \cup Web
Sessions == Telnet \cup Windows

VARIABLES
    cast,    \* the sessions on line
    brc,     \* session -> the marks on its current board
    all,     \* process -> allbrc: blocks, and whether telnet has it allocated
    serve,   \* web process -> the session of its request
    expired, \* web process -> brcexpired
    owner,   \* web process -> allbrcuser, as a set
    pc,      \* process -> step of brc_fini
    fd,      \* process -> where the file it has opened is now
    then,    \* process -> what follows brc_fini
    file, tmp, home, \* user -> the file in memory, <user>.tmp, the file at home
    cron,    \* user -> save_brc: "no", "copied", "changed" since it was copied
    opens, marks, saves, faults, \* bounded counters
    ever,    \* history: the articles a user has marked as read, by board
    current, \* history: processes whose allbrc nobody has saved over
    fresh,   \* history: sessions whose board nobody else has saved
    strangers, \* history: users given the blocks of another user
    doubt    \* history: process -> boards whose marks its save may lose

net == <<cast, serve, expired, owner>>
disk == <<file, tmp, home, cron>>
saving == <<pc, fd, then>>
counters == <<opens, marks, saves, faults>>
history == <<ever, current, fresh, strangers, doubt>>
vars == <<brc, all, net, saving, disk, counters, history>>

Zero == OneBrc(NoBoard, <<>>, 0, FALSE)
InfoBlock == [board |-> Info, len |-> HeadLen, first |-> 1, diffs |-> <<>>]
NoFile == [there |-> FALSE, blocks |-> <<>>]
IsFile(b) == [there |-> TRUE, blocks |-> b]
Stay == [board |-> NoBoard, keep |-> TRUE, leave |-> FALSE]

SessionOf(p) == IF p \in Telnet THEN p ELSE serve[p]
Owner(p) == UserOf[SessionOf(p)]
Active(p) == IF p \in Web THEN serve[p] # NoWindow ELSE p \in cast
Ready(p) == Active(p) /\ pc[p] = "idle"

-----------------------------------------------------------------------------
(***************************************************************************)
(* allbrc: a sequence of blocks, the last saved first, #INFO before all.   *)
(***************************************************************************)
Position(blocks, name) == {i \in DOMAIN blocks : blocks[i].board = name}

(* brc_getblock *)
HasBlock(blocks, name) == Position(blocks, name) # {}
Block(blocks, name) == blocks[Least(Position(blocks, name))]

(* The loop of brc_putblock: copies until a block does not fit, even one   *)
(* that would have been left out.                                          *)
CopyBlocks(start, blocks, name) ==
    LET Copy[i \in 0 .. Len(blocks)] ==
            IF i = 0 THEN [out |-> start, full |-> FALSE]
            ELSE IF Copy[i - 1].full \/ SizeOf(Copy[i - 1].out) + blocks[i].len > MaxSize
              THEN [Copy[i - 1] EXCEPT !.full = TRUE]
            ELSE IF blocks[i].board = name THEN Copy[i - 1]
            ELSE [Copy[i - 1] EXCEPT !.out = Append(@, blocks[i])]
    IN  Copy[Len(blocks)].out

brc_putblock(blocks, new) ==
    IF blocks # <<>> /\ new.board # Info /\ Head(blocks).board = Info
      THEN CopyBlocks(<<Head(blocks), new>>, Tail(blocks), new.board)
      ELSE CopyBlocks(<<new>>, blocks, new.board)

(* Faulty form: the block is looked for in vain. *)
GetNothing(r, blocks, board) == OneBrc(board, <<1>>, 0, FALSE)

(* brc_getboard: the cursor stays where the last board left it. *)
brc_getboard(r, blocks, board) ==
    IF HasBlock(blocks, board)
      THEN OneBrc(board, uncompress_brc(Block(blocks, board)), r.cur, FALSE)
      ELSE OneBrc(board, <<1>>, 0, FALSE)

brc_unreadt_quick(blocks, board, t) ==
    HasBlock(blocks, board) => brc_c_unreadt(Block(blocks, board), t)

(* The articles a block calls read, and those blocks call read on a board. *)
ReadsOf(c) == {t \in Times : ReadIn(uncompress_brc(c), t)}
Reads(blocks, board) ==
    IF HasBlock(blocks, board)
      THEN ReadsOf(Block(blocks, board)) ELSE {}

(* The same of all blocks, with those that are left over from before. *)
ReadAnywhere(blocks, board) == UNION {ReadsOf(blocks[i]) : i \in Position(blocks, board)}

Init ==
    /\ cast \in Casts
    /\ brc = [s \in Sessions |-> Zero]
    /\ all = [p \in Procs |-> [blocks |-> <<>>, kept |-> FALSE]]
    /\ serve = [p \in Web |-> NoWindow] /\ expired = [p \in Web |-> TRUE]
    /\ owner = [p \in Web |-> {}]
    /\ pc = [p \in Procs |-> "idle"] /\ fd = [p \in Procs |-> "none"]
    /\ then = [p \in Procs |-> Stay]
    /\ file \in {f \in [Users -> {NoFile} \cup {IsFile(b) : b \in UNION {Before[u] : u \in Users}}] :
                   \A u \in Users : IF Before[u] = {} THEN ~f[u].there
                                    ELSE f[u].there /\ f[u].blocks \in Before[u]}
    /\ tmp = [u \in Users |-> NoFile] /\ home = tmp
    /\ cron = [u \in Users |-> "no"]
    /\ opens = 0 /\ marks = 0 /\ saves = 0 /\ faults = 0
    /\ ever = [u \in Users |-> [b \in Boards |-> ReadAnywhere(file[u].blocks, b)]]
    /\ current = {} /\ fresh = {} /\ strangers = {}
    /\ doubt = [p \in Procs |-> {}]

(* What brc_init would find. *)
SourceIn(f, h, u) == IF f[u].there THEN f[u] ELSE h[u]
Source(u) == SourceIn(file, home, u)

(* brc_init: without a file, allbrc stays as it is.  In a web process that *)
(* is what was read for the user before; telnet has new memory, which may  *)
(* be that of an earlier allbrc.                                           *)
Loads(p, u) ==
    IF Source(u).there THEN {Source(u).blocks}
    ELSE IF p \in Web THEN {all[p].blocks} ELSE {all[p].blocks, <<>>}

(* What is left in freed memory matters as long as the user has no file. *)
Kept(blocks) == [blocks |-> blocks, kept |-> TRUE]
Freed(p, blocks) ==
    [blocks |-> IF Source(Owner(p)).there THEN <<>> ELSE blocks, kept |-> FALSE]

Known(p, u, loaded) == IF loaded = Source(u).blocks THEN current \cup {p} ELSE current \ {p}
Inherits(p, u) == /\ ~Source(u).there /\ p \in Web
                  /\ all[p].blocks # <<>>
                  /\ owner[p] # {u}

-----------------------------------------------------------------------------
(***************************************************************************)
(* What follows once the file was saved, or needed no saving: the marks of *)
(* another board are fetched, telnet frees allbrc, a web session ends.     *)
(***************************************************************************)
Opened(b) ==
    /\ b # NoBoard => opens < MaxOpens
    /\ opens' = IF b = NoBoard THEN opens ELSE opens + 1

(* Another process is saving the marks of the same session. *)
Raced(p) == \E q \in Procs \ {p} :
                Active(q) /\ pc[q] # "idle" /\ SessionOf(q) = SessionOf(p)

Finish(p, r, blocks, next, now) ==
    LET s == SessionOf(p)
    IN  /\ brc' = [brc EXCEPT ![s] = IF next.leave THEN Zero
                                     ELSE IF next.board = NoBoard THEN r
                                     ELSE brc_getboard(r, blocks, next.board)]
        /\ all' = [all EXCEPT ![p] = IF next.keep THEN Kept(blocks) ELSE Freed(p, blocks)]
        /\ fresh' = IF next.board = NoBoard /\ ~next.leave THEN fresh
                    ELSE IF p \in now /\ ~next.leave /\ ~Raced(p) THEN fresh \cup {s}
                    ELSE fresh \ {s}

(* Faulty form: a block that is there already is left as it is. *)
PutOnce(p, blocks) ==
    LET r == brc[SessionOf(p)] IN
    [rc |-> [r EXCEPT !.changed = FALSE],
     blocks |-> IF r.changed /\ ~HasBlock(blocks, r.board)
                  THEN brc_putblock(blocks, compress_brc(r.board, shorter_brc(r.list)))
                  ELSE blocks]

(* brc_putboard *)
PutBoard(p, blocks) ==
    LET r == brc[SessionOf(p)]
        l == shorter_brc(r.list)
    IN  IF r.changed
          THEN [rc |-> OneBrc(r.board, l, r.cur, FALSE),
                blocks |-> brc_putblock(blocks, compress_brc(r.board, l))]
          ELSE [rc |-> r, blocks |-> blocks]

(* What a put has pushed out. *)
PushedOut(old, new) == {old[i].board : i \in {j \in DOMAIN old : ~HasBlock(new, old[j].board)}}

StartSave(p, r, blocks, next, doubts) ==
    /\ saves < MaxSaves /\ saves' = saves + 1
    /\ brc' = [brc EXCEPT ![SessionOf(p)] = r]
    /\ all' = [all EXCEPT ![p] = Kept(blocks)]
    /\ pc' = [pc EXCEPT ![p] = "open"] /\ then' = [then EXCEPT ![p] = next]
    /\ doubt' = [doubt EXCEPT ![p] = doubts]
    /\ fresh' = IF Raced(p) THEN fresh \ {SessionOf(p)} ELSE fresh

(* readwritebrc, or readuserallbrc and brc_putboard, up to brc_fini. *)
SaveBoard(p, loaded, next, now) ==
    LET put == PutBoard(p, loaded)
        s == SessionOf(p)
    IN  /\ current' = (IF next.keep \/ brc[s].changed THEN now ELSE now \ {p}) /\ Opened(next.board)
        /\ IF brc[s].changed
             THEN StartSave(p, put.rc, put.blocks, next, PushedOut(loaded, put.blocks)
                              \cup IF s \in fresh /\ ~Raced(p) THEN {} ELSE {brc[s].board})
             ELSE /\ Finish(p, put.rc, loaded, next, now)
                  /\ UNCHANGED <<pc, then, saves, doubt>>
        /\ UNCHANGED <<fd, disk, marks, faults, ever>>

-----------------------------------------------------------------------------
(***************************************************************************)
(* Telnet                                                                  *)
(***************************************************************************)
readwritebrc(p, next) ==
    \E loaded \in Loads(p, UserOf[p]) :
        SaveBoard(p, loaded, next, Known(p, UserOf[p], loaded)) /\ UNCHANGED <<net, strangers>>

(* brc_initial *)
TelnetInitial(p, b, keep) ==
    /\ p \in Telnet /\ Ready(p)
    /\ LET next == [board |-> b, keep |-> keep, leave |-> FALSE] IN
       \/ /\ brc[p].board = b
          /\ all[p].kept /\ ~keep
          /\ all' = [all EXCEPT ![p] = Freed(p, @.blocks)] /\ current' = current \ {p}
          /\ UNCHANGED <<brc, net, saving, disk, counters, ever, fresh, strangers, doubt>>
       \/ /\ brc[p].board # b /\ (~all[p].kept \/ brc[p].changed)
          /\ readwritebrc(p, next)
       \/ /\ brc[p].board # b /\ all[p].kept /\ ~brc[p].changed
          /\ Finish(p, brc[p], all[p].blocks, next, current) /\ Opened(b)
          /\ current' = IF keep THEN current ELSE current \ {p}
          /\ UNCHANGED <<net, saving, disk, marks, saves, faults, ever, strangers, doubt>>

(* brc_update, at the end of Read *)
TelnetUpdate(p) ==
    /\ p \in Telnet /\ Ready(p) /\ brc[p].changed
    /\ readwritebrc(p, [Stay EXCEPT !.keep = all[p].kept])

(* check_newpostt, for the list of boards; the end of the list. *)
TelnetList(p) ==
    /\ p \in Telnet /\ Ready(p) /\ ~all[p].kept
    /\ readwritebrc(p, Stay)

TelnetListEnd(p) ==
    /\ p \in Telnet /\ Ready(p) /\ all[p].kept
    /\ all' = [all EXCEPT ![p] = Freed(p, @.blocks)] /\ current' = current \ {p}
    /\ UNCHANGED <<brc, net, saving, disk, counters, ever, fresh, strangers, doubt>>

-----------------------------------------------------------------------------
(***************************************************************************)
(* Web                                                                     *)
(***************************************************************************)

(* The main loop: brc_expired before every request.  The blocks of the     *)
(* last request matter only to users without a file.                       *)
WebRequest(p, w) ==
    /\ p \in Web /\ pc[p] = "idle" /\ w \in cast
    /\ serve' = [serve EXCEPT ![p] = w] /\ expired' = [expired EXCEPT ![p] = TRUE]
    /\ IF \A s \in cast : Source(UserOf[s]).there
         THEN all' = [all EXCEPT ![p].blocks = <<>>] /\ owner' = [owner EXCEPT ![p] = {}]
         ELSE UNCHANGED <<all, owner>>
    /\ current' = current \ {p}
    /\ UNCHANGED <<cast, brc, saving, disk, counters, ever, fresh, strangers, doubt>>

(* readuserallbrc *)
MustRead(p) == expired[p] \/ owner[p] # {Owner(p)}
WebLoads(p) == IF MustRead(p) THEN Loads(p, Owner(p)) ELSE {all[p].blocks}
WebKnown(p, loaded) == IF MustRead(p) THEN Known(p, Owner(p), loaded) ELSE current
WebRead(p) ==
    /\ expired' = [expired EXCEPT ![p] = FALSE]
    /\ owner' = [owner EXCEPT ![p] = {Owner(p)}]
    /\ strangers' = IF MustRead(p) /\ Inherits(p, Owner(p)) THEN strangers \cup {Owner(p)}
                    ELSE strangers
    /\ UNCHANGED <<cast, serve>>

(* brc_initial, with a board or without *)
WebInitial(p, b) ==
    /\ p \in Web /\ Ready(p)
    /\ b # NoBoard => brc[serve[p]].board # b
    /\ \E loaded \in WebLoads(p) :
           SaveBoard(p, loaded, [Stay EXCEPT !.board = b], WebKnown(p, loaded))
    /\ WebRead(p)

(* brc_readinfo and brc_saveinfo *)
WebInfo(p) ==
    /\ p \in Web /\ Ready(p)
    /\ \E loaded \in WebLoads(p) :
           LET put == brc_putblock(loaded, InfoBlock)
           IN  /\ StartSave(p, brc[serve[p]], put, Stay, PushedOut(loaded, put))
               /\ current' = WebKnown(p, loaded)
    /\ WebRead(p)
    /\ UNCHANGED <<fd, disk, opens, marks, faults, ever>>

(* brc_uentfinial, when the session logs out *)
WebLogout(p) ==
    /\ p \in Web /\ Ready(p) /\ brc[serve[p]] # Zero
    /\ LET leave == [Stay EXCEPT !.leave = TRUE] IN
       IF brc[serve[p]].changed
         THEN /\ \E loaded \in WebLoads(p) : SaveBoard(p, loaded, leave, WebKnown(p, loaded))
              /\ WebRead(p)
         ELSE /\ Finish(p, brc[serve[p]], all[p].blocks, leave, current)
              /\ UNCHANGED <<net, saving, disk, counters, ever, current, strangers, doubt>>

-----------------------------------------------------------------------------
(***************************************************************************)
(* Reading articles: SETREAD, and clear_new_flag_quick or brc_clear.       *)
(***************************************************************************)
Marked(p, r) ==
    LET s == SessionOf(p)
        u == Owner(p)
    IN  /\ marks < MaxMarks /\ marks' = marks + 1
        /\ brc' = [brc EXCEPT ![s] = r]
        /\ ever' = [ever EXCEPT ![u][r.board] = @ \cup {t \in Times : ReadIn(r.list, t)}]
        /\ UNCHANGED <<all, net, saving, disk, opens, saves, faults, current, fresh, strangers, doubt>>

SetRead(p, t) ==
    /\ Ready(p) /\ brc[SessionOf(p)].board # NoBoard
    /\ Marked(p, brc_addlistt(brc[SessionOf(p)], t))

Clear(p, t) ==
    /\ p \in Web => t = Greatest(Times)   \* the time now
    /\ Ready(p) /\ brc[SessionOf(p)].board # NoBoard
    /\ Marked(p, brc_clearto(brc[SessionOf(p)], t))

-----------------------------------------------------------------------------
(***************************************************************************)
(* brc_fini.  Nothing is truncated: what the file held beyond the bytes    *)
(* written stays, and may be read as blocks again.                         *)
(***************************************************************************)
Offset(blocks, k) == SizeOf(SubSeq(blocks, 1, k - 1))
Tails(old, n) ==
    LET Cut == {k \in 1 .. Len(old) + 1 : Offset(old, k) >= n}
        Even == {k \in Cut : Offset(old, k) = n}
    IN  IF Cut = {} THEN {<<>>}
        ELSE {SubSeq(old, k, Len(old)) : k \in IF Even = {} THEN Cut ELSE Even}

(* The others no longer know the user's file; the process itself does if   *)
(* there is nothing in it but what it has written.                         *)
Touch(p, u) ==
    LET Changed(s) == LET b == brc[s].board IN
                      Reads(Source(u).blocks, b) # Reads(SourceIn(file', home, u).blocks, b)
        sure == p \in current /\ file'[u].blocks = all[p].blocks
        Lost == {q \in Procs : Active(q) /\ Owner(q) = u /\ (q = p => ~sure)}
    IN  /\ current' = current \ Lost
        /\ cron' = [cron EXCEPT ![u] = IF @ = "copied" THEN "changed" ELSE @]
        /\ fresh' = {s \in fresh : IF s = SessionOf(p) THEN sure /\ brc[s].board \notin doubt[p]
                                   ELSE UserOf[s] = u => ~Changed(s)}

OpenTmp(p) ==
    LET u == Owner(p)
        Others == {q \in Procs \ {p} : fd[q] = "tmp" /\ Owner(q) = u}
    IN  /\ pc[p] = "open" /\ pc' = [pc EXCEPT ![p] = "write"]
        /\ tmp' = [tmp EXCEPT ![u].there = TRUE]
        /\ fd' = [fd EXCEPT ![p] = "tmp"]
        /\ current' = IF Others = {} THEN current ELSE current \ (Others \cup {p})
        /\ UNCHANGED <<brc, all, net, then, file, home, cron, counters, ever, fresh, strangers, doubt>>

(* The marks are in allbrc only, and brc is no longer "changed". *)
OpenFails(p) ==
    /\ pc[p] = "open" /\ faults < MaxFaults /\ faults' = faults + 1
    /\ pc' = [pc EXCEPT ![p] = "done"]
    /\ current' = current \ {p} /\ fresh' = fresh \ {SessionOf(p)}
    /\ UNCHANGED <<brc, all, net, fd, then, disk, opens, marks, saves, ever, strangers, doubt>>

WriteTmp(p) ==
    LET u == Owner(p)
        Over(f) == {IsFile(all[p].blocks \o tail) : tail \in Tails(f.blocks, SizeOf(all[p].blocks))}
    IN  /\ pc[p] = "write" /\ pc' = [pc EXCEPT ![p] = "rename"]
        /\ \/ /\ fd[p] = "tmp"
              /\ \E f \in Over(tmp[u]) : tmp' = [tmp EXCEPT ![u] = f]
              /\ UNCHANGED <<file, cron, current, fresh>>
           \/ /\ fd[p] = "file"   \* renamed meanwhile
              /\ \E f \in Over(file[u]) : file' = [file EXCEPT ![u] = f]
              /\ UNCHANGED tmp
              /\ Touch(p, u)
           \/ /\ fd[p] = "gone"
              /\ UNCHANGED <<file, tmp, cron, current, fresh>>
        /\ UNCHANGED <<brc, all, net, fd, then, home, counters, ever, strangers, doubt>>

Moved(p, u) ==
    [q \in Procs |-> IF q = p THEN "none"
                     ELSE IF Active(q) /\ Owner(q) = u
                       THEN IF fd[q] = "tmp" THEN "file" ELSE IF fd[q] = "file" THEN "gone" ELSE fd[q]
                     ELSE fd[q]]

(* Of two savers the first renames what the last has written; the rename   *)
(* of the other fails.                                                     *)
Rename(p) ==
    LET u == Owner(p) IN
    /\ pc[p] = "rename" /\ pc' = [pc EXCEPT ![p] = "done"]
    /\ \/ /\ tmp[u].there
          /\ file' = [file EXCEPT ![u] = tmp[u]] /\ tmp' = [tmp EXCEPT ![u] = NoFile]
          /\ fd' = Moved(p, u)
          /\ Touch(p, u)
       \/ /\ ~tmp[u].there
          /\ fd' = [fd EXCEPT ![p] = "none"]
          /\ current' = current \ {p} /\ fresh' = fresh \ {SessionOf(p)}
          /\ UNCHANGED <<file, tmp, cron>>
    /\ UNCHANGED <<brc, all, net, then, home, counters, ever, strangers, doubt>>

Saved(p) ==
    /\ pc[p] = "done" /\ pc' = [pc EXCEPT ![p] = "idle"]
    /\ Finish(p, brc[SessionOf(p)], all[p].blocks, then[p], current)
    /\ then' = [then EXCEPT ![p] = Stay] /\ doubt' = [doubt EXCEPT ![p] = {}]
    /\ current' = IF then[p].keep THEN current ELSE current \ {p}
    /\ UNCHANGED <<net, fd, disk, counters, ever, strangers>>

-----------------------------------------------------------------------------
(***************************************************************************)
(* Faults, and save_brc.                                                   *)
(***************************************************************************)

(* A process dies in the middle of brc_fini; the session of a web process  *)
(* goes on.  A telnet user comes back.                                     *)
Kill(p) ==
    /\ pc[p] # "idle" /\ faults < MaxFaults /\ faults' = faults + 1
    /\ brc' = IF p \in Telnet THEN [brc EXCEPT ![p] = Zero] ELSE brc
    /\ all' = [all EXCEPT ![p] = [blocks |-> <<>>, kept |-> FALSE]]
    /\ serve' = [w \in Web |-> IF w = p THEN NoWindow ELSE serve[w]]
    /\ expired' = [w \in Web |-> w = p \/ expired[w]]
    /\ owner' = [w \in Web |-> IF w = p THEN {} ELSE owner[w]]
    /\ pc' = [pc EXCEPT ![p] = "idle"] /\ fd' = [fd EXCEPT ![p] = "none"]
    /\ then' = [then EXCEPT ![p] = Stay] /\ doubt' = [doubt EXCEPT ![p] = {}]
    /\ current' = current \ {p} /\ fresh' = fresh \ {SessionOf(p)}
    /\ UNCHANGED <<cast, disk, opens, marks, saves, ever, strangers>>

(* copy_brc, then unlink if nobody has used the file for two hours. *)
CronCopy(u) ==
    /\ file[u].there /\ cron[u] = "no"
    /\ faults < MaxFaults /\ faults' = faults + 1
    /\ home' = [home EXCEPT ![u] = file[u]]
    /\ cron' = [cron EXCEPT ![u] = "copied"]
    /\ UNCHANGED <<brc, all, net, saving, file, tmp, opens, marks, saves, history>>

CronKeep(u) ==
    /\ cron[u] # "no" /\ cron' = [cron EXCEPT ![u] = "no"]
    /\ UNCHANGED <<brc, all, net, saving, file, tmp, home, counters, history>>

(* A file saved since it was copied is unlinked all the same. *)
CronUnlink(u) ==
    /\ cron[u] # "no" /\ cron' = [cron EXCEPT ![u] = "no"]
    /\ file' = [file EXCEPT ![u] = NoFile]
    /\ fd' = [q \in Procs |-> IF Active(q) /\ Owner(q) = u /\ fd[q] = "file" THEN "gone" ELSE fd[q]]
    /\ IF cron[u] = "changed"
         THEN /\ current' = current \ {q \in Procs : Active(q) /\ Owner(q) = u}
              /\ fresh' = {s \in fresh : UserOf[s] # u}
         ELSE UNCHANGED <<current, fresh>>
    /\ UNCHANGED <<brc, all, net, pc, then, tmp, home, counters, ever, strangers, doubt>>

Next ==
    \/ \E p \in Telnet, b \in Boards, keep \in BOOLEAN : TelnetInitial(p, b, keep)
    \/ \E p \in Telnet : TelnetUpdate(p)
    \/ \E p \in Telnet : TelnetList(p)
    \/ \E p \in Telnet : TelnetListEnd(p)
    \/ \E p \in Web, w \in Windows : WebRequest(p, w)
    \/ \E p \in Web, b \in Boards \cup {NoBoard} : WebInitial(p, b)
    \/ \E p \in Web : WebInfo(p)
    \/ \E p \in Web : WebLogout(p)
    \/ \E p \in Procs, t \in Times : SetRead(p, t)
    \/ \E p \in Procs, t \in Times : Clear(p, t)
    \/ \E p \in Procs : OpenTmp(p)
    \/ \E p \in Procs : OpenFails(p)
    \/ \E p \in Procs : WriteTmp(p)
    \/ \E p \in Procs : Rename(p)
    \/ \E p \in Procs : Saved(p)
    \/ \E p \in Procs : Kill(p)
    \/ \E u \in Users : CronCopy(u)
    \/ \E u \in Users : CronKeep(u)
    \/ \E u \in Users : CronUnlink(u)

Spec == Init /\ [][Next]_vars

-----------------------------------------------------------------------------
(***************************************************************************)
(* Properties                                                              *)
(***************************************************************************)
ReadBy(s) == {t \in Times : ReadIn(brc[s].list, t)}

(* Lists stay in order and within BRC_MAXNUM, blocks within the buffer     *)
(* allbrc has for them.                                                    *)
TypeOK ==
    /\ \A s \in Sessions : /\ brc[s].board \in Boards \cup {NoBoard}
                           /\ Len(brc[s].list) <= MaxNum /\ Descending(brc[s].list)
                           /\ brc[s].cur \in 0 .. MaxNum
    /\ \A p \in Procs : SizeOf(all[p].blocks) <= MaxSize
    /\ \A u \in Users : SizeOf(file[u].blocks) <= MaxSize /\ SizeOf(tmp[u].blocks) <= MaxSize

(* Wherever the cursor was left, by this board or another, brc_unreadt     *)
(* tells what the list says.                                               *)
CursorFree ==
    \A l \in {brc[s].list : s \in Sessions}, t \in Times, c \in 0 .. MaxNum :
        Unread(Locate(OneBrc(NoBoard, l, c, FALSE), t)) <=> ~ReadIn(l, t)

(* The list of boards (brc_unreadt_quick, on the compressed block) and the *)
(* board itself (brc_getboard, brc_unreadt) agree on what is new.          *)
QuickAgrees ==
    \A blocks \in {all[p].blocks : p \in Procs}, b \in Boards, t \in Times :
        brc_unreadt_quick(blocks, b, t) <=> Unread(Locate(brc_getboard(Zero, blocks, b), t))

(* The two forms of a list of marks, numbers in memory and blocks in the   *)
(* file, keep to their limits and answer alike.                            *)
ListsRight == TypeOK /\ CursorFree /\ QuickAgrees

(* No article is called read, in memory or in a file, that the user has    *)
(* not marked on that board: not by shortening, compressing, mixing up     *)
(* boards or sessions, torn or left-over files.  Except for users without  *)
(* a file, whom a web process gives the marks it read for another user.    *)
NothingInvented ==
    \A u \in Users \ strangers, b \in Boards :
        /\ \A f \in {file[u], tmp[u], home[u]} : Reads(f.blocks, b) \subseteq ever[u][b]
        /\ \A s \in Sessions : UserOf[s] = u /\ brc[s].board = b => ReadBy(s) \subseteq ever[u][b]

(* What a session shows of its board is what the user's file has, and once *)
(* its own marks are saved the file has them; as long as nobody else has   *)
(* saved the board, pushed it out or raced the session's saves.            *)
SessionRight ==
    \A s \in fresh :
        (\A p \in Procs : Active(p) /\ SessionOf(p) = s => pc[p] = "idle") =>
            LET saved == Reads(Source(UserOf[s]).blocks, brc[s].board)
            IN  IF brc[s].changed THEN saved \subseteq ReadBy(s) ELSE saved = ReadBy(s)

(* The known ways to lose marks: the board was pushed out, or the session  *)
(* had fetched it before another saved it; the save overlapped another;    *)
(* save_brc unlinks a file saved since it was copied.                      *)
Excused(u, b) ==
    \/ cron[u] = "changed"
    \/ \E p \in Procs : /\ pc[p] \in {"write", "rename"} /\ pc'[p] # pc[p]
                         /\ Owner(p) = u /\ (b \in doubt[p] \/ p \notin current)

(* A mark in the file is never lost, however the saves of sessions and the *)
(* job that moves files between the disks meet, except in one of those     *)
(* ways; nor do the boards crowd out the #INFO block.                      *)
MarksKept ==
    [][<<file, home>>' # <<file, home>> => \A u \in Users :
          /\ \A b \in Boards : Reads(Source(u).blocks, b) \subseteq Reads(Source(u)'.blocks, b)
                                   \/ Excused(u, b)
          /\ HasBlock(Source(u).blocks, Info) => HasBlock(Source(u)'.blocks, Info)
                                                     \/ Excused(u, NoBoard)]_vars

============================================================================
