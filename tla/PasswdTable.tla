--------------------------- MODULE PasswdTable ---------------------------
(***************************************************************************)
(* The account table of the BBS: the file .PASSWDS (mapped read-only by    *)
(* every process as passwdptr[]) and the user-id hash in shared memory     *)
(* that indexes it (struct UCACHEHASH).                                    *)
(*                                                                         *)
(* Registration (insertuserec), deletion (deluserec) and the rebuild of    *)
(* the hash (load_ucache) run under the file lock .PASSWDS.lock; expelling *)
(* an account (kickoutuserec) and updating one (updateuserec) take no lock *)
(* at all.  Here a hash chain is the set of the slots linked in it; its    *)
(* pointers, and what a reader without the lock sees of them, are the      *)
(* subject of module UserHash.                                             *)
(*                                                                         *)
(* Every process runs one call at a time.  A step is the code between two  *)
(* points where another process can see a difference.                      *)
(***************************************************************************)
EXTENDS Integers, FiniteSets

CONSTANTS Ids,        \* user ids (ucache_hash and strcasecmp ignore case)
          Procs,      \* processes that may call the library
          MaxUsers,   \* MAXUSERS, the number of slots of .PASSWDS
          Hash,       \* ucache_hash: a chain number > 0 for every id
          NoId,       \* the empty user id of an unused slot
          Nobody,     \* no process holds the lock
          Faults      \* the faults the environment may inject

ASSUME ConstantsAssumption ==
    /\ MaxUsers \in Nat \ {0}
    /\ NoId \notin Ids
    /\ Nobody \notin Procs
    /\ Hash \in [Ids -> Nat \ {0}]
    /\ Faults \subseteq {"crash", "io"}

Slot == 1..MaxUsers

(* Chain 0 holds the unused slots: ucache_hash("") is 0. *)
Bucket == {0} \cup {Hash[x] : x \in Ids}

BucketOf(id) == IF id = NoId THEN 0 ELSE Hash[id]

(***************************************************************************)
(* The part of struct userec that decides what the calls do: the id, and   *)
(* the time of the expulsion seen from now: "no" (kickout is 0), "recent"  *)
(* (at most 23 hours ago), "old" (longer ago).                             *)
(***************************************************************************)
Kick == {"no", "recent", "old"}
Userec == {r \in [id : Ids \cup {NoId}, kick : Kick] :
                r.id = NoId => r.kick = "no"}
EmptyRec == [id |-> NoId, kick |-> "no"]

VARIABLES
    passwd,   \* passwdptr[]: the record in every slot
    chain,    \* the slots linked in every chain of the hash
    empty,    \* UCACHEHASH.next[0], the number of unused slots
    lock,     \* the holder of .PASSWDS.lock
    pc,       \* where every process is in its call
    arg,      \* the id its call is about
    slot,     \* the slot its call has found (or the cursor of load_ucache)
    home,     \* the ids that have a home and a mail directory
    damaged   \* history: a fault has hit the hash and no rebuild has succeeded

vars == <<passwd, chain, empty, lock, pc, arg, slot, home, damaged>>

InsertPC == {"ins_take", "ins_write", "ins_link"}
DeletePC == {"del_unlink", "del_write", "del_link"}
LockedPC == InsertPC \cup DeletePC \cup {"load"}
WriterPC == {"kick_files", "kick_write", "upd_write"}

PC == {"idle", "ins_home"} \cup LockedPC \cup WriterPC

(* As shminit leaves it: any table with every id once, expelled accounts   *)
(* included; every chain holds its slots, no process runs.                 *)
Init ==
    /\ passwd \in [Slot -> Userec]
    /\ \A i, j \in Slot : passwd[i].id = passwd[j].id =>
            i = j \/ passwd[i].id = NoId
    /\ chain = [b \in Bucket |-> {i \in Slot : BucketOf(passwd[i].id) = b}]
    /\ empty = Cardinality({i \in Slot : passwd[i].id = NoId})
    /\ lock = Nobody
    /\ pc = [p \in Procs |-> "idle"]
    /\ arg = [p \in Procs |-> NoId]
    /\ slot = [p \in Procs |-> 0]
    /\ home = {x \in Ids : \E i \in Slot :
                   passwd[i].id = x /\ passwd[i].kick = "no"}
    /\ damaged = FALSE

-----------------------------------------------------------------------------
(***************************************************************************)
(* The hash operations.                                                    *)
(***************************************************************************)

Linked(id) == {i \in chain[BucketOf(id)] : passwd[i].id = id}

(* finduseridhash(id); 0 stands for -1, not found. *)
finduseridhash(id) == IF Linked(id) = {} THEN 0
                      ELSE CHOOSE i \in Linked(id) : TRUE

insertuseridhash(id, i) ==
    /\ chain' = [chain EXCEPT ![BucketOf(id)] = @ \cup {i}]
    /\ empty' = IF id = NoId THEN empty + 1 ELSE empty

(* deluseridhash(id) when its search stops at slot i. *)
deluseridhash(id, i) ==
    /\ chain' = [chain EXCEPT ![BucketOf(id)] = @ \ {i}]
    /\ empty' = IF id = NoId THEN empty - 1 ELSE empty

(* A search without the lock may also miss the id when the chain changes   *)
(* under it (module UserHash shows when).                                  *)
FoundWithoutLock(id) ==
    {finduseridhash(id)} \cup (IF lock = Nobody THEN {} ELSE {0})

-----------------------------------------------------------------------------
(***************************************************************************)
(* Steps of a call.                                                        *)
(***************************************************************************)

(* A call about id x that has found slot i goes on at label. *)
Begin(p, x, i, label) ==
    /\ pc' = [pc EXCEPT ![p] = label]
    /\ arg' = [arg EXCEPT ![p] = x]
    /\ slot' = [slot EXCEPT ![p] = i]

Goto(p, label) ==
    /\ pc' = [pc EXCEPT ![p] = label]
    /\ UNCHANGED arg

Return(p) ==
    /\ pc' = [pc EXCEPT ![p] = "idle"]
    /\ arg' = [arg EXCEPT ![p] = NoId]
    /\ slot' = [slot EXCEPT ![p] = 0]

lock_passwd(p) == lock = Nobody /\ lock' = p

unlock_passwd(p) == lock' = IF lock = p THEN Nobody ELSE lock

(***************************************************************************)
(* insertuserec(x), and what its callers (new_register, the web form) do   *)
(* after it: make the home directory.                                      *)
(***************************************************************************)

(* Faulty form: the caller's own search is relied on. *)
InsertLookupBlind(p, x) ==
    /\ pc[p] = "idle" /\ lock = Nobody
    /\ Begin(p, x, 0, "ins_take") /\ lock_passwd(p)
    /\ UNCHANGED <<passwd, chain, empty, home, damaged>>

InsertLookup(p, x) ==
    /\ pc[p] = "idle" /\ lock = Nobody
    /\ IF finduseridhash(x) > 0
         THEN Return(p) /\ UNCHANGED lock
         ELSE Begin(p, x, 0, "ins_take") /\ lock_passwd(p)
    /\ UNCHANGED <<passwd, chain, empty, home, damaged>>

(* Faulty form: the slot is found but not unlinked. *)
InsertTakeStillLinked(p) ==
    /\ pc[p] = "ins_take"
    /\ \E i \in Linked(NoId) : slot' = [slot EXCEPT ![p] = i]
    /\ Goto(p, "ins_write")
    /\ UNCHANGED <<passwd, chain, empty, lock, home, damaged>>

(* Faulty form: the return for a full table forgets the lock. *)
InsertTakeKeepsLock(p) ==
    /\ pc[p] = "ins_take"
    /\ \/ Linked(NoId) = {} /\ Return(p) /\ UNCHANGED <<chain, empty>>
       \/ /\ \E i \in Linked(NoId) :
                /\ deluseridhash(NoId, i)
                /\ slot' = [slot EXCEPT ![p] = i]
          /\ Goto(p, "ins_write")
    /\ UNCHANGED <<passwd, lock, home, damaged>>

(* deluseridhash("") takes the first slot of chain 0 whose id is empty. *)
InsertTake(p) ==
    /\ pc[p] = "ins_take"
    /\ \/ /\ Linked(NoId) = {}
          /\ Return(p)
          /\ unlock_passwd(p)
          /\ UNCHANGED <<chain, empty>>
       \/ /\ \E i \in Linked(NoId) :
                /\ deluseridhash(NoId, i)
                /\ slot' = [slot EXCEPT ![p] = i]
          /\ Goto(p, "ins_write")
          /\ UNCHANGED lock
    /\ UNCHANGED <<passwd, home, damaged>>

InsertWrite(p) ==
    /\ pc[p] = "ins_write"
    /\ passwd' = [passwd EXCEPT ![slot[p]] = [id |-> arg[p], kick |-> "no"]]
    /\ Goto(p, "ins_link")
    /\ UNCHANGED <<chain, empty, lock, slot, home, damaged>>

(* Faulty form: the slot is not given back. *)
InsertOpenFailsLeaks(p) ==
    /\ pc[p] = "ins_write" /\ "io" \in Faults
    /\ Return(p)
    /\ unlock_passwd(p)
    /\ UNCHANGED <<passwd, chain, empty, home, damaged>>

(* open or lseek of .PASSWDS fails: the slot goes back to chain 0. *)
InsertOpenFails(p) ==
    /\ pc[p] = "ins_write" /\ "io" \in Faults
    /\ insertuseridhash(NoId, slot[p])
    /\ Return(p)
    /\ unlock_passwd(p)
    /\ UNCHANGED <<passwd, home, damaged>>

(* write fails or is short; the slot stays out of every chain. *)
InsertWriteFails(p) ==
    /\ pc[p] = "ins_write" /\ "io" \in Faults
    /\ \/ UNCHANGED passwd
       \/ passwd' = [passwd EXCEPT ![slot[p]] = [id |-> arg[p], kick |-> "no"]]
    /\ Return(p)
    /\ unlock_passwd(p)
    /\ damaged' = TRUE
    /\ UNCHANGED <<chain, empty, home>>

InsertLink(p) ==
    /\ pc[p] = "ins_link"
    /\ insertuseridhash(arg[p], slot[p])
    /\ Goto(p, "ins_home")
    /\ unlock_passwd(p)
    /\ UNCHANGED <<passwd, slot, home, damaged>>

(* The web form makes it at once; new_register looks the account up first  *)
(* and gives up when getuser does not find it.                             *)
MakeHome(p) ==
    /\ pc[p] = "ins_home"
    /\ \/ home' = home \cup {arg[p]}
       \/ /\ \E i \in FoundWithoutLock(arg[p]) : i > 0 => passwd[i].kick # "no"
          /\ UNCHANGED home
    /\ Return(p)
    /\ UNCHANGED <<passwd, chain, empty, lock, damaged>>

(***************************************************************************)
(* deluserec(x), called by the nightly auto_deluser.                       *)
(***************************************************************************)

(* Faulty form: any account that is found is deleted. *)
DeleteLookupAny(p, x) ==
    /\ pc[p] = "idle" /\ lock = Nobody /\ finduseridhash(x) > 0
    /\ Begin(p, x, finduseridhash(x), "del_unlink") /\ lock_passwd(p)
    /\ UNCHANGED <<passwd, chain, empty, home, damaged>>

(* Faulty form: the age of the expulsion is compared the wrong way round. *)
DeleteLookupEarly(p, x) ==
    /\ pc[p] = "idle" /\ lock = Nobody
    /\ LET i == finduseridhash(x) IN
         IF i > 0 /\ passwd[i].kick = "recent"
           THEN Begin(p, x, i, "del_unlink") /\ lock_passwd(p)
           ELSE Return(p) /\ UNCHANGED lock
    /\ UNCHANGED <<passwd, chain, empty, home, damaged>>

(* Too early or not there: nothing is done. *)
DeleteLookup(p, x) ==
    /\ pc[p] = "idle" /\ lock = Nobody
    /\ LET i == finduseridhash(x) IN
         IF i > 0 /\ passwd[i].kick = "old"
           THEN Begin(p, x, i, "del_unlink") /\ lock_passwd(p)
           ELSE Return(p) /\ UNCHANGED lock
    /\ UNCHANGED <<passwd, chain, empty, home, damaged>>

DeleteUnlink(p) ==
    /\ pc[p] = "del_unlink"
    /\ deluseridhash(arg[p], slot[p])
    /\ Goto(p, "del_write")
    /\ UNCHANGED <<passwd, lock, slot, home, damaged>>

(* Faulty form: only the id is cleared. *)
DeleteWriteIdOnly(p) ==
    /\ pc[p] = "del_write"
    /\ passwd' = [passwd EXCEPT ![slot[p]].id = NoId]
    /\ Goto(p, "del_link")
    /\ UNCHANGED <<chain, empty, lock, slot, home, damaged>>

DeleteWrite(p) ==
    /\ pc[p] = "del_write"
    /\ passwd' = [passwd EXCEPT ![slot[p]] = EmptyRec]
    /\ Goto(p, "del_link")
    /\ UNCHANGED <<chain, empty, lock, slot, home, damaged>>

(* open or lseek fails: the account is linked again. *)
DeleteOpenFails(p) ==
    /\ pc[p] = "del_write" /\ "io" \in Faults
    /\ insertuseridhash(arg[p], slot[p])
    /\ Return(p)
    /\ unlock_passwd(p)
    /\ UNCHANGED <<passwd, home, damaged>>

(* The result of write is not looked at: the record may stay. *)
DeleteWriteFails(p) ==
    /\ pc[p] = "del_write" /\ "io" \in Faults
    /\ Goto(p, "del_link")
    /\ damaged' = TRUE
    /\ UNCHANGED <<passwd, chain, empty, lock, slot, home>>

DeleteLink(p) ==
    /\ pc[p] = "del_link"
    /\ insertuseridhash(NoId, slot[p])
    /\ Return(p)
    /\ unlock_passwd(p)
    /\ UNCHANGED <<passwd, home, damaged>>

(***************************************************************************)
(* kickoutuserec(x): copy the record, remove the account's directories,    *)
(* write the copy back with kickout set.  No lock.                         *)
(***************************************************************************)

KickLookup(p, x) ==
    /\ pc[p] = "idle"
    /\ \E i \in FoundWithoutLock(x) :
         \/ i = 0 /\ Return(p)
         \/ i > 0 /\ passwd[i].kick # "no" /\ Return(p)
         \/ /\ i > 0 /\ passwd[i].kick = "no"
            /\ Begin(p, x, i, "kick_files") \/ ("io" \in Faults /\ Return(p))
    /\ UNCHANGED <<passwd, chain, empty, lock, home, damaged>>

KickFiles(p) ==
    /\ pc[p] = "kick_files"
    /\ home' = home \ {arg[p]}
    /\ Goto(p, "kick_write")
    /\ UNCHANGED <<passwd, chain, empty, lock, slot, damaged>>

(* The result of write is not looked at. *)
KickWrite(p) ==
    /\ pc[p] = "kick_write"
    /\ \/ passwd' = [passwd EXCEPT ![slot[p]] =
                        [id |-> arg[p], kick |-> "recent"]]
       \/ "io" \in Faults /\ UNCHANGED passwd
    /\ Return(p)
    /\ UNCHANGED <<chain, empty, lock, home, damaged>>

(***************************************************************************)
(* updateuserec(x, usernum): the caller names the slot it has cached, or 0 *)
(* for a search.  Everything but the last field, kickout, is written.      *)
(* No lock.                                                                *)
(***************************************************************************)

UpdateCheck(p, x, usernum) ==
    /\ pc[p] = "idle"
    /\ \E i \in IF usernum = 0 THEN FoundWithoutLock(x) ELSE {usernum} :
         \/ /\ \/ i = 0
               \/ i > 0 /\ (passwd[i].id # x \/ passwd[i].kick # "no")
               \/ "io" \in Faults
            /\ Return(p)
         \/ /\ i > 0 /\ passwd[i].id = x /\ passwd[i].kick = "no"
            /\ Begin(p, x, i, "upd_write")
    /\ UNCHANGED <<passwd, chain, empty, lock, home, damaged>>

(* Faulty form: the last field is written too. *)
UpdateWriteAll(p) ==
    /\ pc[p] = "upd_write"
    /\ passwd' = [passwd EXCEPT ![slot[p]] = [id |-> arg[p], kick |-> "no"]]
    /\ Return(p)
    /\ UNCHANGED <<chain, empty, lock, home, damaged>>

UpdateWrite(p) ==
    /\ pc[p] = "upd_write"
    /\ \/ passwd' = [passwd EXCEPT ![slot[p]] = [id |-> arg[p], kick |-> @.kick]]
       \/ "io" \in Faults /\ UNCHANGED passwd
    /\ Return(p)
    /\ UNCHANGED <<chain, empty, lock, home, damaged>>

(***************************************************************************)
(* load_ucache: clear the hash, then link the slots in order.  shminit     *)
(* runs it at boot, fixuhash at any time.                                  *)
(***************************************************************************)

LoadClear(p) ==
    /\ pc[p] = "idle"
    /\ lock_passwd(p)
    /\ chain' = [b \in Bucket |-> {}]
    /\ empty' = 0
    /\ Begin(p, NoId, 1, "load")
    /\ UNCHANGED <<passwd, home, damaged>>

(* ucache_hashinit cannot read uhashgen.dat: the hash stays empty. *)
LoadInitFails(p) ==
    /\ pc[p] = "load" /\ slot[p] = 1 /\ "io" \in Faults
    /\ Return(p)
    /\ unlock_passwd(p)
    /\ damaged' = TRUE
    /\ UNCHANGED <<passwd, chain, empty, home>>

(* A second record with an id already linked ends the rebuild. *)
LoadSlot(p) ==
    /\ pc[p] = "load" /\ slot[p] \in Slot
    /\ LET x == passwd[slot[p]].id IN
         IF x # NoId /\ finduseridhash(x) > 0
           THEN /\ Return(p)
                /\ unlock_passwd(p)
                /\ damaged' = TRUE
                /\ UNCHANGED <<chain, empty>>
           ELSE /\ insertuseridhash(x, slot[p])
                /\ slot' = [slot EXCEPT ![p] = @ + 1]
                /\ UNCHANGED <<lock, pc, arg, damaged>>
    /\ UNCHANGED <<passwd, home>>

LoadDone(p) ==
    /\ pc[p] = "load" /\ slot[p] = MaxUsers + 1
    /\ Return(p)
    /\ unlock_passwd(p)
    /\ damaged' = FALSE
    /\ UNCHANGED <<passwd, chain, empty, home>>

(***************************************************************************)
(* The environment.                                                        *)
(***************************************************************************)

(* A process is killed in the middle of a call; the kernel drops its lock. *)
Crash(p) ==
    /\ pc[p] # "idle" /\ "crash" \in Faults
    /\ Return(p)
    /\ unlock_passwd(p)
    /\ damaged' = (damaged \/ pc[p] \in LockedPC \ {"ins_take", "del_unlink"})
    /\ UNCHANGED <<passwd, chain, empty, home>>

(* 23 hours pass since the expulsion of the account in slot i.  A call     *)
(* does not take that long: one that is still going to write this slot     *)
(* finishes first.                                                         *)
TimePasses(i) ==
    /\ passwd[i].kick = "recent"
    /\ \A p \in Procs : pc[p] \in WriterPC => slot[p] # i
    /\ passwd' = [passwd EXCEPT ![i].kick = "old"]
    /\ UNCHANGED <<chain, empty, lock, pc, arg, slot, home, damaged>>

-----------------------------------------------------------------------------
Insert(p) == \/ \E x \in Ids : InsertLookup(p, x)
             \/ InsertTake(p) \/ InsertWrite(p) \/ InsertLink(p)
             \/ InsertOpenFails(p) \/ InsertWriteFails(p) \/ MakeHome(p)

Delete(p) == \/ \E x \in Ids : DeleteLookup(p, x)
             \/ DeleteUnlink(p) \/ DeleteWrite(p) \/ DeleteLink(p)
             \/ DeleteOpenFails(p) \/ DeleteWriteFails(p)

Kickout(p) == \/ \E x \in Ids : KickLookup(p, x)
              \/ KickFiles(p) \/ KickWrite(p)

Update(p) == \/ \E x \in Ids : \E i \in {0} \cup Slot : UpdateCheck(p, x, i)
             \/ UpdateWrite(p)

Load(p) == LoadClear(p) \/ LoadInitFails(p) \/ LoadSlot(p) \/ LoadDone(p)

Next == \/ \E p \in Procs : \/ Insert(p) \/ Delete(p) \/ Kickout(p)
                            \/ Update(p) \/ Load(p) \/ Crash(p)
        \/ \E i \in Slot : TimePasses(i)

Spec == Init /\ [][Next]_vars

(***************************************************************************)
(* The processes go on with a call they have begun, time passes, and the   *)
(* nightly auto_deluser calls deluserec for every expelled account: it     *)
(* waits in flock, which grants the lock in turn.                          *)
(***************************************************************************)
Continue(p) ==
    \/ InsertTake(p) \/ InsertWrite(p) \/ InsertLink(p) \/ MakeHome(p)
    \/ DeleteUnlink(p) \/ DeleteWrite(p) \/ DeleteLink(p)
    \/ KickFiles(p) \/ KickWrite(p) \/ UpdateWrite(p)
    \/ LoadSlot(p) \/ LoadDone(p)

Fairness ==
    /\ \A p \in Procs : WF_vars(Continue(p))
    /\ \A i \in Slot : WF_vars(TimePasses(i))
    /\ \A x \in Ids : SF_vars(\E p \in Procs : DeleteLookup(p, x))

LiveSpec == Spec /\ Fairness

-----------------------------------------------------------------------------
(***************************************************************************)
(* Properties                                                              *)
(***************************************************************************)

(* The values every variable can have. *)
TypeOK ==
    /\ passwd \in [Slot -> Userec]
    /\ chain \in [Bucket -> SUBSET Slot]
    /\ empty \in Int
    /\ lock \in Procs \cup {Nobody}
    /\ pc \in [Procs -> PC]
    /\ arg \in [Procs -> Ids \cup {NoId}]
    /\ slot \in [Procs -> 0..MaxUsers + 1]
    /\ home \in SUBSET Ids
    /\ damaged \in BOOLEAN

(* What checkuhash of checkshm.c examines: when nobody holds the lock and  *)
(* no fault has hit the hash, a slot is linked in the chain of the id it   *)
(* holds and in no other, and next[0] counts the unused slots.             *)
HashAgrees ==
    lock = Nobody /\ ~damaged =>
        /\ \A b \in Bucket : chain[b] = {i \in Slot : BucketOf(passwd[i].id) = b}
        /\ empty = Cardinality({i \in Slot : passwd[i].id = NoId})

(* No two slots hold the same id (insertuserec returns 0 for a registered  *)
(* id), as long as no fault has hit the hash.                              *)
UniqueIds ==
    ~damaged => \A i, j \in Slot :
        passwd[i].id = passwd[j].id => i = j \/ passwd[i].id = NoId

(* A slot is linked in at most one chain at every moment, whatever fails:  *)
(* no id can lead to the slot of two owners.                               *)
OneChain == \A b, c \in Bucket : b # c => chain[b] \cap chain[c] = {}

(* The id in a slot changes only under the lock, from unused to an id and  *)
(* from an expelled id to unused.  kickoutuserec and updateuserec write    *)
(* whole records without the lock; the 23 hours deluserec waits keep a     *)
(* late write from landing on the slot's next owner.                       *)
SlotIdentity ==
    [][\A i \in Slot : passwd[i].id # passwd'[i].id =>
            /\ lock # Nobody
            /\ passwd[i].id = NoId \/ passwd'[i].id = NoId
            /\ passwd[i].id # NoId => passwd[i].kick = "old"]_vars

(* An expelled account stays expelled until its record is deleted, in      *)
(* particular when an update of it was under way.                          *)
KickoutSticks ==
    [][\A i \in Slot : passwd[i].kick # "no" =>
            passwd'[i].kick # "no" \/ passwd'[i].id = NoId]_vars

(* The lock never stays taken: every path of the calls that lock releases  *)
(* it, and the kernel does for a process that is killed.                   *)
LockReleased == lock # Nobody ~> lock = Nobody

(* "The account has just died and awaits cleaning, register tomorrow" says *)
(* the registration form: the id of an expelled account becomes free.      *)
KickedIdFreed ==
    \A x \in Ids : (\E i \in Slot : passwd[i].id = x /\ passwd[i].kick # "no")
                    ~> (\A i \in Slot : passwd[i].id = x => passwd[i].kick = "no")
==========================================================================
