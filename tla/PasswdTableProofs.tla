------------------------ MODULE PasswdTableProofs ------------------------
(***************************************************************************)
(* Proofs about PasswdTable, for every number of slots, ids and processes, *)
(* every hash function and every combination of faults.                    *)
(***************************************************************************)
EXTENDS PasswdTable, FiniteSetTheorems, TLAPS

-----------------------------------------------------------------------------
(***************************************************************************)
(* The inductive invariant, in named parts.                                *)
(***************************************************************************)

(* The states in which a call has a slot that is linked nowhere. *)
HeldPC == {"ins_write", "ins_link", "del_write", "del_link"}

(* A process is inside the locked part of a call exactly while it holds    *)
(* the lock.                                                               *)
LockInv == \A p \in Procs : pc[p] \in LockedPC <=> lock = p

(* What a call that holds the lock knows. *)
HolderInv == \A p \in Procs :
    /\ pc[p] \in (LockedPC \ {"load"}) \cup {"ins_home"} => arg[p] \in Ids
    /\ pc[p] \in HeldPC \cup {"del_unlink"} => slot[p] \in Slot
    /\ pc[p] \in HeldPC => \A c \in Bucket : slot[p] \notin chain[c]
    /\ pc[p] = "ins_write" => passwd[slot[p]].id = NoId
    /\ pc[p] = "ins_link" => passwd[slot[p]].id = arg[p]
    /\ pc[p] \in {"del_unlink", "del_write"} =>
            passwd[slot[p]].id = arg[p] /\ passwd[slot[p]].kick = "old"
    /\ pc[p] = "del_unlink" => slot[p] \in chain[Hash[arg[p]]]

(* A write without the lock is aimed at a slot of the id it writes, and    *)
(* that slot has not been expelled for 23 hours.                           *)
WriterInv == \A p \in Procs : pc[p] \in WriterPC =>
    /\ slot[p] \in Slot /\ arg[p] \in Ids
    /\ passwd[slot[p]].id = arg[p]
    /\ passwd[slot[p]].kick # "old"

(* The rebuild has linked the slots before its cursor and no other. *)
LoadInv == \A p \in Procs : pc[p] = "load" =>
    /\ slot[p] \in 1..MaxUsers + 1
    /\ \A i \in Slot : \A c \in Bucket :
            i \in chain[c] <=> i < slot[p] /\ c = BucketOf(passwd[i].id)
    /\ \A i, j \in Slot : i < slot[p] /\ j < slot[p]
            /\ passwd[i].id = passwd[j].id => i = j \/ passwd[i].id = NoId

(* Without damage an id that is being registered is in no slot, and a slot *)
(* about to be linked as unused is unused.                                 *)
FreshInv == ~damaged => \A p \in Procs :
    /\ pc[p] \in {"ins_take", "ins_write"} =>
            \A i \in Slot : passwd[i].id # arg[p]
    /\ pc[p] = "del_link" => passwd[slot[p]].id = NoId

Held(i) == \E p \in Procs : pc[p] \in HeldPC /\ slot[p] = i
Loading == \E p \in Procs : pc[p] = "load"

(* Without damage a slot that no call holds is linked in the chain of its  *)
(* id and in no other.                                                     *)
LinkedInv == ~damaged /\ ~Loading =>
    \A i \in Slot : ~Held(i) =>
        \A c \in Bucket : i \in chain[c] <=> c = BucketOf(passwd[i].id)

(* next[0] counts the slots of chain 0. *)
CountInv == empty = Cardinality(chain[0])

IInv == /\ TypeOK /\ LockInv /\ HolderInv /\ WriterInv /\ LoadInv
        /\ UniqueIds /\ FreshInv /\ LinkedInv /\ OneChain /\ CountInv

USE DEF LockedPC, InsertPC, DeletePC, WriterPC, HeldPC
-----------------------------------------------------------------------------
(* Chain 0 belongs to the empty id and to no other. *)
LEMMA BucketFacts ==
    /\ 0 \in Bucket
    /\ \A x \in Ids \cup {NoId} : BucketOf(x) \in Bucket
    /\ \A x \in Ids : BucketOf(x) = Hash[x] /\ BucketOf(x) # 0
    /\ BucketOf(NoId) = 0
BY ConstantsAssumption DEF Bucket, BucketOf

(* What finduseridhash returns: a linked slot of the id, or 0 if none is. *)
LEMMA FindFacts ==
    ASSUME TypeOK, NEW x \in Ids \cup {NoId}
    PROVE  /\ finduseridhash(x) \in Slot \cup {0}
           /\ finduseridhash(x) # 0 =>
                 /\ finduseridhash(x) \in chain[BucketOf(x)]
                 /\ passwd[finduseridhash(x)].id = x
           /\ finduseridhash(x) = 0 <=> Linked(x) = {}
<1>1. Linked(x) \subseteq Slot
  BY BucketFacts DEF TypeOK, Linked
<1>2. 0 \notin Slot
  BY ConstantsAssumption DEF Slot
<1>3. CASE Linked(x) = {}
  BY <1>3 DEF finduseridhash
<1>4. CASE Linked(x) # {}
  <2>1. finduseridhash(x) \in Linked(x)
    BY <1>4 DEF finduseridhash
  <2> QED
    BY <2>1, <1>1, <1>2, <1>4 DEF Linked
<1> QED
  BY <1>3, <1>4


(* The end of a call keeps the types of its local state. *)
LEMMA ReturnType ==
    ASSUME TypeOK, NEW p \in Procs, Return(p)
    PROVE  /\ pc' \in [Procs -> PC] /\ arg' \in [Procs -> Ids \cup {NoId}]
           /\ slot' \in [Procs -> 0..MaxUsers + 1]
BY ConstantsAssumption DEF TypeOK, Return, PC

(* The beginning of a call keeps the types of its local state. *)
LEMMA BeginType ==
    ASSUME TypeOK, NEW p \in Procs, NEW x \in Ids \cup {NoId},
           NEW i \in Slot \cup {0}, NEW l \in PC, Begin(p, x, i, l)
    PROVE  /\ pc' \in [Procs -> PC] /\ arg' \in [Procs -> Ids \cup {NoId}]
           /\ slot' \in [Procs -> 0..MaxUsers + 1]
BY ConstantsAssumption DEF TypeOK, Begin, Slot

(* Going on inside a call keeps the types of its local state. *)
LEMMA GotoType ==
    ASSUME TypeOK, NEW p \in Procs, NEW l \in PC, Goto(p, l)
    PROVE  /\ pc' \in [Procs -> PC] /\ arg' \in [Procs -> Ids \cup {NoId}]
BY DEF TypeOK, Goto

(* insertuseridhash and deluseridhash keep the type of the hash. *)
LEMMA LinkType ==
    ASSUME TypeOK, NEW x \in Ids \cup {NoId}, NEW i \in Slot,
           insertuseridhash(x, i) \/ deluseridhash(x, i)
    PROVE  chain' \in [Bucket -> SUBSET Slot] /\ empty' \in Int
<1>1. BucketOf(x) \in Bucket
  BY BucketFacts
<1> QED
  BY <1>1 DEF TypeOK, insertuseridhash, deluseridhash

(* Writing a record keeps the type of .PASSWDS. *)
LEMMA WriteType ==
    ASSUME TypeOK, NEW i \in Slot, NEW r \in Userec,
           passwd' = [passwd EXCEPT ![i] = r]
    PROVE  passwd' \in [Slot -> Userec]
BY DEF TypeOK

(* insertuseridhash keeps next[0] equal to the length of chain 0. *)
LEMMA CountAdd ==
    ASSUME TypeOK, CountInv, NEW x \in Ids \cup {NoId}, NEW i \in Slot,
           i \notin chain[BucketOf(x)], insertuseridhash(x, i)
    PROVE  CountInv'
<1>1. IsFiniteSet(chain[0])
  <2>1. IsFiniteSet(Slot)
    BY FS_Interval, ConstantsAssumption DEF Slot
  <2>2. chain[0] \subseteq Slot
    BY BucketFacts DEF TypeOK
  <2> QED
    BY <2>1, <2>2, FS_Subset
<1>2. CASE x = NoId
  <2>1. chain'[0] = chain[0] \cup {i} /\ empty' = empty + 1
    BY <1>2, BucketFacts DEF TypeOK, insertuseridhash
  <2>2. i \notin chain[0]
    BY <1>2, BucketFacts
  <2>3. Cardinality(chain[0] \cup {i}) = Cardinality(chain[0]) + 1
    BY <1>1, <2>2, FS_AddElement
  <2> QED
    BY <2>1, <2>3 DEF CountInv
<1>3. CASE x # NoId
  BY <1>3, BucketFacts DEF TypeOK, insertuseridhash, CountInv
<1> QED
  BY <1>2, <1>3

(* deluseridhash keeps next[0] equal to the length of chain 0. *)
LEMMA CountDel ==
    ASSUME TypeOK, CountInv, NEW x \in Ids \cup {NoId}, NEW i \in Slot,
           i \in chain[BucketOf(x)], deluseridhash(x, i)
    PROVE  CountInv'
<1>1. IsFiniteSet(chain[0])
  <2>1. IsFiniteSet(Slot)
    BY FS_Interval, ConstantsAssumption DEF Slot
  <2>2. chain[0] \subseteq Slot
    BY BucketFacts DEF TypeOK
  <2> QED
    BY <2>1, <2>2, FS_Subset
<1>2. CASE x = NoId
  <2>1. chain'[0] = chain[0] \ {i} /\ empty' = empty - 1
    BY <1>2, BucketFacts DEF TypeOK, deluseridhash
  <2> QED
    BY <2>1, <1>1, <1>2, BucketFacts, FS_RemoveElement DEF CountInv
<1>3. CASE x # NoId
  BY <1>3, BucketFacts DEF TypeOK, deluseridhash, CountInv
<1> QED
  BY <1>2, <1>3

-----------------------------------------------------------------------------
(***************************************************************************)
(* Calls that do not hold the lock.                                        *)
(***************************************************************************)

(* A step that leaves the chains and the ids in the slots alone, and moves *)
(* only processes outside the locked parts, keeps the parts of the         *)
(* invariant that are about the hash.                                      *)
LEMMA UnlockedFrame ==
    ASSUME IInv, UNCHANGED <<chain, empty, lock, damaged>>,
           \A i \in Slot : passwd'[i].id = passwd[i].id,
           \A q \in Procs :
              \/ pc'[q] = pc[q] /\ slot'[q] = slot[q] /\ arg'[q] = arg[q]
              \/ pc[q] \notin LockedPC /\ pc'[q] \notin LockedPC
    PROVE  /\ LockInv' /\ LoadInv' /\ UniqueIds' /\ FreshInv' /\ LinkedInv'
           /\ OneChain' /\ CountInv'
<1>1. LockInv'
  BY DEF IInv, LockInv
<1>2. LoadInv'
  BY DEF IInv, LoadInv
<1>3. UniqueIds'
  BY DEF IInv, UniqueIds
<1>4. FreshInv'
  <2>1. \A q \in Procs : pc[q] = "del_link" => slot[q] \in Slot
    BY DEF IInv, HolderInv
  <2> QED
    BY <2>1 DEF IInv, FreshInv
<1>5. LinkedInv'
  <2>1. Loading' <=> Loading
    BY DEF Loading
  <2>2. \A i \in Slot : Held(i)' <=> Held(i)
    BY DEF Held
  <2> QED
    BY <2>1, <2>2 DEF IInv, LinkedInv
<1>6. OneChain' /\ CountInv'
  BY DEF IInv, OneChain, CountInv
<1> QED
  BY <1>1, <1>2, <1>3, <1>4, <1>5, <1>6

(* Returning from a call, outside the locked part. *)
LEMMA UnlockedReturn ==
    ASSUME IInv, NEW p \in Procs, Return(p),
           pc[p] \notin LockedPC, UNCHANGED <<passwd, chain, empty, lock, damaged>>,
           home' \in SUBSET Ids
    PROVE  IInv'
<1>1. TypeOK'
  BY ReturnType DEF IInv, TypeOK
<1>2. HolderInv'
  BY DEF IInv, HolderInv, Return, TypeOK
<1>3. WriterInv'
  BY DEF IInv, WriterInv, Return, TypeOK
<1>4. \A q \in Procs :
         \/ pc'[q] = pc[q] /\ slot'[q] = slot[q] /\ arg'[q] = arg[q]
         \/ pc[q] \notin LockedPC /\ pc'[q] \notin LockedPC
  BY DEF IInv, TypeOK, Return
<1> QED
  BY <1>1, <1>2, <1>3, <1>4, UnlockedFrame DEF IInv

(* The two calls without a lock have chosen the slot they will write. *)
LEMMA UnlockedBegin ==
    ASSUME IInv, NEW p \in Procs, NEW x \in Ids, NEW i \in Slot,
           NEW l \in {"kick_files", "upd_write"}, Begin(p, x, i, l),
           pc[p] = "idle", passwd[i].id = x, passwd[i].kick = "no",
           UNCHANGED <<passwd, chain, empty, lock, home, damaged>>
    PROVE  IInv'
<1>1. TypeOK'
  BY BeginType DEF IInv, TypeOK, PC
<1>2. HolderInv'
  BY DEF IInv, HolderInv, Begin, TypeOK
<1>3. WriterInv'
  BY DEF IInv, WriterInv, Begin, TypeOK
<1>4. \A q \in Procs :
         \/ pc'[q] = pc[q] /\ slot'[q] = slot[q] /\ arg'[q] = arg[q]
         \/ pc[q] \notin LockedPC /\ pc'[q] \notin LockedPC
  BY DEF IInv, TypeOK, Begin
<1> QED
  BY <1>1, <1>2, <1>3, <1>4, UnlockedFrame DEF IInv

(* The callers of insertuserec keep the invariant. *)
LEMMA MakeHomeStep ==
    ASSUME IInv, NEW p \in Procs, MakeHome(p) PROVE IInv'
<1>1. arg[p] \in Ids
  BY DEF MakeHome, IInv, HolderInv
<1> QED
  BY <1>1, UnlockedReturn DEF MakeHome, IInv, TypeOK

(* The search of kickoutuserec keeps the invariant. *)
LEMMA KickLookupStep ==
    ASSUME IInv, NEW p \in Procs, NEW x \in Ids, KickLookup(p, x) PROVE IInv'
<1> PICK i \in FoundWithoutLock(x) :
         \/ i = 0 /\ Return(p)
         \/ i > 0 /\ passwd[i].kick # "no" /\ Return(p)
         \/ /\ i > 0 /\ passwd[i].kick = "no"
            /\ Begin(p, x, i, "kick_files") \/ ("io" \in Faults /\ Return(p))
  BY DEF KickLookup
<1>1. CASE Return(p)
  BY <1>1, UnlockedReturn DEF KickLookup, IInv, TypeOK
<1>2. CASE i > 0 /\ passwd[i].kick = "no" /\ Begin(p, x, i, "kick_files")
  <2>1. i \in Slot /\ passwd[i].id = x
    BY <1>2, FindFacts DEF IInv, FoundWithoutLock
  <2> QED
    BY <1>2, <2>1, UnlockedBegin DEF KickLookup
<1> QED
  BY <1>1, <1>2

(* The checks of updateuserec keep the invariant. *)
LEMMA UpdateCheckStep ==
    ASSUME IInv, NEW p \in Procs, NEW x \in Ids, NEW n \in {0} \cup Slot,
           UpdateCheck(p, x, n)
    PROVE  IInv'
<1> PICK i \in IF n = 0 THEN FoundWithoutLock(x) ELSE {n} :
         \/ Return(p)
         \/ /\ i > 0 /\ passwd[i].id = x /\ passwd[i].kick = "no"
            /\ Begin(p, x, i, "upd_write")
  BY DEF UpdateCheck
<1>1. CASE Return(p)
  BY <1>1, UnlockedReturn DEF UpdateCheck, IInv, TypeOK
<1>2. CASE /\ i > 0 /\ passwd[i].id = x /\ passwd[i].kick = "no"
           /\ Begin(p, x, i, "upd_write")
  <2>1. i \in Slot
    BY <1>2, FindFacts DEF IInv, FoundWithoutLock
  <2> QED
    BY <1>2, <2>1, UnlockedBegin DEF UpdateCheck
<1> QED
  BY <1>1, <1>2

(* deltree in kickoutuserec keeps the invariant. *)
LEMMA KickFilesStep ==
    ASSUME IInv, NEW p \in Procs, KickFiles(p) PROVE IInv'
<1>1. TypeOK'
  BY GotoType DEF IInv, TypeOK, KickFiles, PC
<1>2. HolderInv' /\ WriterInv'
  BY DEF IInv, TypeOK, HolderInv, WriterInv, KickFiles, Goto
<1>3. \A q \in Procs :
         \/ pc'[q] = pc[q] /\ slot'[q] = slot[q] /\ arg'[q] = arg[q]
         \/ pc[q] \notin LockedPC /\ pc'[q] \notin LockedPC
  BY DEF IInv, TypeOK, KickFiles, Goto
<1> QED
  BY <1>1, <1>2, <1>3, UnlockedFrame DEF IInv, KickFiles

(* A write without the lock: the grace period keeps the id it writes the   *)
(* id that is there, and keeps it away from the slot of a deletion.        *)
LEMMA UnlockedWrite ==
    ASSUME IInv, NEW p \in Procs, NEW k \in Kick, k # "old",
           pc[p] \in {"kick_write", "upd_write"}, Return(p),
           passwd' = [passwd EXCEPT ![slot[p]] = [id |-> arg[p], kick |-> k]],
           UNCHANGED <<chain, empty, lock, home, damaged>>
    PROVE  IInv'
<1>1. slot[p] \in Slot /\ arg[p] \in Ids /\ passwd[slot[p]].id = arg[p]
      /\ passwd[slot[p]].kick # "old"
  BY DEF IInv, WriterInv
<1>2. TypeOK'
  <2>1. [id |-> arg[p], kick |-> k] \in Userec
    BY <1>1, ConstantsAssumption DEF Userec
  <2> QED
    BY <1>1, <2>1, ReturnType, WriteType DEF IInv, TypeOK
<1>3. \A i \in Slot : passwd'[i].id = passwd[i].id
  BY <1>1 DEF IInv, TypeOK
<1>4. \A i \in Slot : passwd[i].kick # "old" <=> passwd'[i].kick # "old"
  BY <1>1 DEF IInv, TypeOK
<1>5. \A i \in Slot : passwd[i].kick = "old" => passwd'[i] = passwd[i]
  BY <1>1 DEF IInv, TypeOK
<1>6. HolderInv'
  <2> SUFFICES ASSUME NEW q \in Procs, q # p
               PROVE  HolderInv!(q)'
    BY DEF HolderInv, Return, IInv, TypeOK
  <2> QED
    BY <1>3, <1>5 DEF IInv, TypeOK, HolderInv, Return
<1>7. WriterInv'
  BY <1>3, <1>4 DEF IInv, TypeOK, WriterInv, Return
<1>8. \A q \in Procs :
         \/ pc'[q] = pc[q] /\ slot'[q] = slot[q] /\ arg'[q] = arg[q]
         \/ pc[q] \notin LockedPC /\ pc'[q] \notin LockedPC
  BY DEF IInv, TypeOK, Return
<1> QED
  BY <1>2, <1>3, <1>6, <1>7, <1>8, UnlockedFrame DEF IInv

(* The write of kickoutuserec keeps the invariant. *)
LEMMA KickWriteStep ==
    ASSUME IInv, NEW p \in Procs, KickWrite(p) PROVE IInv'
<1>1. CASE UNCHANGED passwd
  BY <1>1, UnlockedReturn DEF KickWrite, IInv, TypeOK
<1>2. CASE passwd' = [passwd EXCEPT ![slot[p]] = [id |-> arg[p], kick |-> "recent"]]
  BY <1>2, UnlockedWrite DEF KickWrite, Kick
<1> QED
  BY <1>1, <1>2 DEF KickWrite

(* The write of updateuserec keeps the invariant. *)
LEMMA UpdateWriteStep ==
    ASSUME IInv, NEW p \in Procs, UpdateWrite(p) PROVE IInv'
<1>1. CASE UNCHANGED passwd
  BY <1>1, UnlockedReturn DEF UpdateWrite, IInv, TypeOK
<1>2. CASE passwd' = [passwd EXCEPT ![slot[p]] = [id |-> arg[p], kick |-> @.kick]]
  <2>1. slot[p] \in Slot /\ passwd[slot[p]].kick # "old"
    BY DEF IInv, WriterInv, UpdateWrite
  <2>2. passwd[slot[p]].kick \in Kick
    BY <2>1 DEF IInv, TypeOK, Userec
  <2> QED
    BY <1>2, <2>1, <2>2, UnlockedWrite DEF UpdateWrite
<1> QED
  BY <1>1, <1>2 DEF UpdateWrite

(* The passing of 23 hours keeps the invariant. *)
LEMMA TimePassesStep ==
    ASSUME IInv, NEW i \in Slot, TimePasses(i) PROVE IInv'
<1>1. TypeOK'
  <2>1. passwd' \in [Slot -> Userec]
    BY DEF IInv, TypeOK, TimePasses, Userec, Kick
  <2> QED
    BY <2>1 DEF IInv, TypeOK, TimePasses
<1>2. \A j \in Slot : /\ passwd'[j].id = passwd[j].id
                      /\ j # i => passwd'[j] = passwd[j]
                      /\ passwd[j].kick = "old" => j # i
  BY DEF IInv, TypeOK, TimePasses, Userec
<1>3. HolderInv'
  BY <1>2 DEF IInv, HolderInv, TimePasses
<1>4. WriterInv'
  BY <1>2 DEF IInv, WriterInv, TimePasses
<1> QED
  BY <1>1, <1>2, <1>3, <1>4, UnlockedFrame DEF IInv, TimePasses

-----------------------------------------------------------------------------
(***************************************************************************)
(* Calls that hold the lock.                                               *)
(***************************************************************************)

(* Only one process is in a locked part. *)
LEMMA OneHolder ==
    ASSUME IInv, NEW p \in Procs, pc[p] \in LockedPC,
           NEW q \in Procs, q # p
    PROVE  pc[q] \notin LockedPC
BY DEF IInv, LockInv

(* A step of the holder p changes only its own slot. *)
LEMMA LinkedFrame ==
    ASSUME IInv, NEW p \in Procs, pc[p] \in LockedPC \ {"load"}, NEW i \in Slot,
           damaged' => damaged,
           chain' \in [Bucket -> SUBSET Slot],
           \A q \in Procs : q # p => pc'[q] = pc[q] /\ slot'[q] = slot[q],
           pc[p] \in HeldPC => slot[p] = i,
           \A j \in Slot : j # i => passwd'[j].id = passwd[j].id,
           \A j \in Slot : \A c \in Bucket : j # i =>
                (j \in chain'[c] <=> j \in chain[c]),
           \/ pc'[p] \in HeldPC /\ slot'[p] = i
           \/ \A c \in Bucket : i \in chain'[c] <=> c = BucketOf(passwd'[i].id)
    PROVE  damaged \/ LinkedInv'
<1> SUFFICES ASSUME ~damaged, NEW j \in Slot, ~Held(j)',
                    NEW c \in Bucket
             PROVE  j \in chain'[c] <=> c = BucketOf(passwd'[j].id)
  BY DEF LinkedInv
<1>1. CASE j = i
  <2>1. ~(pc'[p] \in HeldPC /\ slot'[p] = i)
    BY <1>1 DEF Held
  <2> QED
    BY <2>1, <1>1
<1>2. CASE j # i
  <2>1. ~Held(j)
    BY <1>2, OneHolder DEF Held
  <2>2. ~Loading
    BY OneHolder DEF Loading
  <2>3. j \in chain[c] <=> c = BucketOf(passwd[j].id)
    BY <2>1, <2>2 DEF IInv, LinkedInv
  <2> QED
    BY <1>2, <2>3
<1> QED
  BY <1>1, <1>2


(* The lock is free: nobody holds a slot and no rebuild is under way. *)
LEMMA NoHolder ==
    ASSUME IInv, lock = Nobody
    PROVE  /\ \A q \in Procs : pc[q] \notin LockedPC
           /\ ~Loading /\ \A i \in Slot : ~Held(i)
<1>1. \A q \in Procs : pc[q] \notin LockedPC
  BY ConstantsAssumption DEF IInv, LockInv
<1> QED
  BY <1>1 DEF Loading, Held

(* A call enters its locked part without having changed the table yet. *)
LEMMA LockedBegin ==
    ASSUME IInv, NEW p \in Procs, NEW x \in Ids, NEW i \in Slot \cup {0},
           NEW l \in {"ins_take", "del_unlink"}, Begin(p, x, i, l),
           pc[p] = "idle", lock_passwd(p),
           l = "ins_take" /\ ~damaged => \A j \in Slot : passwd[j].id # x,
           l = "del_unlink" => /\ i \in Slot
                               /\ passwd[i].id = x /\ passwd[i].kick = "old"
                               /\ i \in chain[Hash[x]],
           UNCHANGED <<passwd, chain, empty, home, damaged>>
    PROVE  IInv'
<1>1. \A q \in Procs : pc[q] \notin LockedPC
  BY NoHolder DEF lock_passwd
<1>2. /\ pc'[p] = l /\ arg'[p] = x /\ slot'[p] = i
      /\ \A q \in Procs : q # p =>
            pc'[q] = pc[q] /\ arg'[q] = arg[q] /\ slot'[q] = slot[q]
  BY DEF IInv, TypeOK, Begin
<1>3. TypeOK'
  BY BeginType DEF IInv, TypeOK, PC, lock_passwd
<1>4. LockInv'
  BY <1>1, <1>2 DEF LockInv, lock_passwd
<1>5. HolderInv'
  BY <1>1, <1>2 DEF IInv, HolderInv
<1>6. WriterInv' /\ LoadInv'
  BY <1>1, <1>2 DEF IInv, WriterInv, LoadInv
<1>7. UniqueIds' /\ OneChain' /\ CountInv'
  BY DEF IInv, UniqueIds, OneChain, CountInv
<1>8. FreshInv'
  BY <1>1, <1>2 DEF IInv, FreshInv
<1>9. LinkedInv'
  <2>1. ~Loading /\ \A j \in Slot : ~Held(j)
    BY NoHolder DEF lock_passwd
  <2> QED
    BY <2>1 DEF IInv, LinkedInv
<1> QED
  BY <1>3, <1>4, <1>5, <1>6, <1>7, <1>8, <1>9 DEF IInv

(* The check of insertuserec that the id is free keeps the invariant. *)
LEMMA InsertLookupStep ==
    ASSUME IInv, NEW p \in Procs, NEW x \in Ids, InsertLookup(p, x) PROVE IInv'
<1>1. CASE finduseridhash(x) > 0
  BY <1>1, UnlockedReturn DEF InsertLookup, IInv, TypeOK
<1>2. CASE ~(finduseridhash(x) > 0)
  <2>1. Linked(x) = {}
    BY <1>2, FindFacts DEF IInv, Slot
  <2>2. ~damaged => \A j \in Slot : passwd[j].id # x
    <3>1. ~Loading /\ \A j \in Slot : ~Held(j)
      BY NoHolder DEF InsertLookup
    <3> QED
      BY <2>1, <3>1, BucketFacts DEF IInv, LinkedInv, Linked
  <2> QED
    BY <1>2, <2>2, LockedBegin DEF InsertLookup
<1> QED
  BY <1>1, <1>2

(* The checks of deluserec keep the invariant. *)
LEMMA DeleteLookupStep ==
    ASSUME IInv, NEW p \in Procs, NEW x \in Ids, DeleteLookup(p, x) PROVE IInv'
<1> DEFINE i == finduseridhash(x)
<1>1. CASE i > 0 /\ passwd[i].kick = "old"
  <2>1. i \in Slot /\ i \in chain[Hash[x]] /\ passwd[i].id = x
    BY <1>1, FindFacts, BucketFacts DEF IInv
  <2> QED
    BY <1>1, <2>1, LockedBegin DEF DeleteLookup
<1>2. CASE ~(i > 0 /\ passwd[i].kick = "old")
  BY <1>2, UnlockedReturn DEF DeleteLookup, IInv, TypeOK
<1> QED
  BY <1>1, <1>2

(* The holder leaves its locked part; its slot, if it had one, is linked   *)
(* where it belongs unless the hash is damaged.                            *)
LEMMA LockedReturn ==
    ASSUME IInv, NEW p \in Procs, pc[p] \in LockedPC, Return(p),
           unlock_passwd(p),
           passwd' \in [Slot -> Userec],
           \A i \in Slot : passwd'[i] = passwd[i] \/
                           (passwd[i].id = NoId /\ pc[p] = "ins_write"),
           chain' \in [Bucket -> SUBSET Slot], empty' \in Int,
           damaged' \in BOOLEAN, home' = home,
           OneChain', CountInv', LinkedInv', UniqueIds'
    PROVE  IInv'
<1>1. \A q \in Procs : q # p => pc[q] \notin LockedPC
  BY OneHolder
<1>2. /\ pc'[p] = "idle"
      /\ \A q \in Procs : q # p =>
            pc'[q] = pc[q] /\ arg'[q] = arg[q] /\ slot'[q] = slot[q]
  BY DEF IInv, TypeOK, Return
<1>3. lock' = Nobody
  BY DEF IInv, LockInv, unlock_passwd
<1>4. TypeOK'
  BY <1>3, ReturnType DEF IInv, TypeOK
<1>5. LockInv'
  BY <1>1, <1>2, <1>3, ConstantsAssumption DEF LockInv
<1>6. HolderInv' /\ LoadInv' /\ FreshInv'
  BY <1>1, <1>2 DEF IInv, HolderInv, LoadInv, FreshInv
<1>7. WriterInv'
  <2> SUFFICES ASSUME NEW q \in Procs, q # p, pc[q] \in WriterPC
               PROVE  /\ slot[q] \in Slot /\ arg[q] \in Ids
                      /\ passwd'[slot[q]].id = arg[q]
                      /\ passwd'[slot[q]].kick # "old"
    BY <1>2 DEF WriterInv
  <2>1. /\ slot[q] \in Slot /\ arg[q] \in Ids
        /\ passwd[slot[q]].id = arg[q]
        /\ passwd[slot[q]].kick # "old"
    BY DEF IInv, WriterInv
  <2> QED
    BY <2>1, ConstantsAssumption
<1> QED
  BY <1>4, <1>5, <1>6, <1>7 DEF IInv


(* What linking a slot that is linked nowhere does to the chains. *)
LEMMA LinkFacts ==
    ASSUME IInv, NEW x \in Ids \cup {NoId}, NEW i \in Slot,
           \A c \in Bucket : i \notin chain[c], insertuseridhash(x, i)
    PROVE  /\ chain' \in [Bucket -> SUBSET Slot] /\ empty' \in Int
           /\ OneChain' /\ CountInv'
           /\ \A c \in Bucket : i \in chain'[c] <=> c = BucketOf(x)
           /\ \A j \in Slot : \A c \in Bucket : j # i =>
                (j \in chain'[c] <=> j \in chain[c])
<1>1. chain' \in [Bucket -> SUBSET Slot] /\ empty' \in Int
  BY LinkType DEF IInv
<1>2. BucketOf(x) \in Bucket
  BY BucketFacts
<1>3. \A c \in Bucket : chain'[c] = IF c = BucketOf(x) THEN chain[c] \cup {i}
                                    ELSE chain[c]
  BY <1>2 DEF IInv, TypeOK, insertuseridhash
<1>4. OneChain'
  BY <1>3 DEF IInv, OneChain
<1>5. CountInv'
  BY <1>2, CountAdd DEF IInv
<1> QED
  BY <1>1, <1>3, <1>4, <1>5

(* What unlinking a slot does to the chains. *)
LEMMA UnlinkFacts ==
    ASSUME IInv, NEW x \in Ids \cup {NoId}, NEW i \in Slot,
           i \in chain[BucketOf(x)], deluseridhash(x, i)
    PROVE  /\ chain' \in [Bucket -> SUBSET Slot] /\ empty' \in Int
           /\ OneChain' /\ CountInv'
           /\ \A c \in Bucket : i \notin chain'[c]
           /\ \A j \in Slot : \A c \in Bucket : j # i =>
                (j \in chain'[c] <=> j \in chain[c])
<1>1. chain' \in [Bucket -> SUBSET Slot] /\ empty' \in Int
  BY LinkType DEF IInv
<1>2. BucketOf(x) \in Bucket
  BY BucketFacts
<1>3. \A c \in Bucket : chain'[c] = IF c = BucketOf(x) THEN chain[c] \ {i}
                                    ELSE chain[c]
  BY <1>2 DEF IInv, TypeOK, deluseridhash
<1>4. OneChain'
  BY <1>3 DEF IInv, OneChain
<1>5. CountInv'
  BY CountDel DEF IInv
<1>6. \A c \in Bucket : i \notin chain'[c]
  BY <1>2, <1>3 DEF IInv, OneChain
<1> QED
  BY <1>1, <1>3, <1>4, <1>5, <1>6

(* Taking a slot off chain 0 in insertuserec keeps the invariant. *)
LEMMA InsertTakeStep ==
    ASSUME IInv, NEW p \in Procs, InsertTake(p) PROVE IInv'
<1>0. pc[p] = "ins_take" /\ arg[p] \in Ids
  BY DEF InsertTake, IInv, HolderInv
<1>1. CASE Return(p) /\ unlock_passwd(p) /\ UNCHANGED <<chain, empty>>
  <2>1. UniqueIds' /\ OneChain' /\ CountInv'
    BY <1>1 DEF InsertTake, IInv, UniqueIds, OneChain, CountInv
  <2>2. LinkedInv'
    <3>1. ~Loading
      BY <1>0, OneHolder DEF Loading
    <3>2. \A i \in Slot : ~Held(i)
      BY <1>0, OneHolder DEF Held
    <3> QED
      BY <1>1, <3>1, <3>2 DEF IInv, LinkedInv, InsertTake
  <2> QED
    BY <1>0, <1>1, <2>1, <2>2, LockedReturn DEF InsertTake, IInv, TypeOK
<1>2. ASSUME NEW i \in Linked(NoId), deluseridhash(NoId, i),
             slot' = [slot EXCEPT ![p] = i], Goto(p, "ins_write"), UNCHANGED lock
      PROVE  IInv'
  <2>1. i \in Slot /\ i \in chain[BucketOf(NoId)] /\ passwd[i].id = NoId
    BY BucketFacts DEF Linked, IInv, TypeOK
  <2>2. /\ chain' \in [Bucket -> SUBSET Slot] /\ empty' \in Int
        /\ OneChain' /\ CountInv'
        /\ \A c \in Bucket : i \notin chain'[c]
        /\ \A j \in Slot : \A c \in Bucket : j # i =>
                (j \in chain'[c] <=> j \in chain[c])
    BY <1>2, <2>1, UnlinkFacts
  <2>3. /\ pc'[p] = "ins_write" /\ slot'[p] = i
        /\ \A q \in Procs : q # p => pc'[q] = pc[q] /\ slot'[q] = slot[q]
        /\ arg' = arg
    BY <1>2 DEF IInv, TypeOK, Goto
  <2>4. \A q \in Procs : q # p => pc[q] \notin LockedPC
    BY <1>0, OneHolder
  <2>5. TypeOK'
    <3>1. slot' \in [Procs -> 0..MaxUsers + 1]
      BY <1>2, <2>1, ConstantsAssumption DEF IInv, TypeOK, Slot
    <3> QED
      BY <1>2, <2>2, <3>1, GotoType DEF InsertTake, IInv, TypeOK, PC
  <2>6. LockInv'
    BY <1>0, <1>2, <2>3, <2>4 DEF IInv, LockInv
  <2>7. HolderInv'
    BY <1>0, <2>1, <2>2, <2>3, <2>4 DEF InsertTake, IInv, HolderInv
  <2>8. WriterInv'
    BY <2>3 DEF InsertTake, IInv, WriterInv
  <2>9. LoadInv'
    BY <2>3, <2>4 DEF LoadInv
  <2>10. UniqueIds' /\ FreshInv'
    BY <1>0, <2>3, <2>4 DEF InsertTake, IInv, UniqueIds, FreshInv
  <2>11. LinkedInv'
    <3>1. damaged \/ LinkedInv'
      BY <1>0, <2>1, <2>2, <2>3, LinkedFrame DEF InsertTake
    <3> QED
      BY <3>1 DEF LinkedInv, InsertTake
  <2> QED
    BY <2>2, <2>5, <2>6, <2>7, <2>8, <2>9, <2>10, <2>11 DEF IInv
<1> QED
  BY <1>1, <1>2 DEF InsertTake

(* The two writes under the lock touch only the slot of their call, which  *)
(* no call without the lock is going to write.                             *)
LEMMA LockedWrite ==
    ASSUME IInv, NEW p \in Procs, NEW r \in Userec,
           NEW l \in {"ins_link", "del_link"},
           \/ pc[p] = "ins_write" /\ l = "ins_link" /\ r.id = arg[p]
           \/ pc[p] = "del_write" /\ l = "del_link" /\ r.id = NoId,
           passwd' = [passwd EXCEPT ![slot[p]] = r], Goto(p, l),
           UNCHANGED <<chain, empty, lock, slot, home, damaged>>
    PROVE  IInv'
<1>1. slot[p] \in Slot /\ arg[p] \in Ids
  BY DEF IInv, HolderInv
<1>2. /\ pc'[p] = l /\ arg' = arg
      /\ \A q \in Procs : q # p => pc'[q] = pc[q]
  BY DEF IInv, TypeOK, Goto
<1>3. \A q \in Procs : q # p => pc[q] \notin LockedPC
  BY OneHolder
<1>4. passwd'[slot[p]] = r /\ \A j \in Slot : j # slot[p] => passwd'[j] = passwd[j]
  BY <1>1 DEF IInv, TypeOK
<1>5. TypeOK'
  BY <1>1, GotoType, WriteType DEF IInv, TypeOK, PC
<1>6. LockInv'
  BY <1>2, <1>3 DEF IInv, LockInv
<1>7. HolderInv'
  BY <1>1, <1>2, <1>3, <1>4 DEF IInv, HolderInv
<1>8. WriterInv'
  <2>1. passwd[slot[p]].id = NoId \/ passwd[slot[p]].kick = "old"
    BY DEF IInv, HolderInv
  <2>2. \A q \in Procs : pc[q] \in WriterPC => slot[q] # slot[p]
    BY <2>1, ConstantsAssumption DEF IInv, WriterInv
  <2> QED
    BY <1>2, <1>4, <2>2 DEF IInv, WriterInv
<1>9. LoadInv'
  BY <1>2, <1>3 DEF LoadInv
<1>10. UniqueIds'
  <2> SUFFICES ASSUME ~damaged, NEW i \in Slot, NEW j \in Slot,
                      passwd'[i].id = passwd'[j].id, i # j
               PROVE  passwd'[i].id = NoId
    BY DEF UniqueIds
  <2>1. CASE pc[p] = "ins_write"
    <3>1. \A n \in Slot : passwd[n].id # arg[p]
      BY <2>1 DEF IInv, FreshInv
    <3> QED
      BY <2>1, <3>1, <1>4 DEF IInv, UniqueIds
  <2>2. CASE pc[p] = "del_write"
    BY <2>2, <1>4 DEF IInv, UniqueIds
  <2> QED
    BY <2>1, <2>2
<1>11. FreshInv'
  BY <1>2, <1>3, <1>4 DEF FreshInv
<1>12. LinkedInv'
  <2>1. damaged \/ LinkedInv'
    BY <1>1, <1>2, <1>4, LinkedFrame DEF IInv, TypeOK
  <2> QED
    BY <2>1 DEF LinkedInv
<1> QED
  BY <1>5, <1>6, <1>7, <1>8, <1>9, <1>10, <1>11, <1>12 DEF IInv, OneChain, CountInv

(* The writes of insertuserec and deluserec keep the invariant. *)
LEMMA WriteSteps ==
    ASSUME IInv, NEW p \in Procs, InsertWrite(p) \/ DeleteWrite(p) PROVE IInv'
<1>1. CASE InsertWrite(p)
  <2>1. [id |-> arg[p], kick |-> "no"] \in Userec
    BY <1>1 DEF InsertWrite, IInv, HolderInv, Userec, Kick
  <2> QED
    BY <1>1, <2>1, LockedWrite DEF InsertWrite
<1>2. CASE DeleteWrite(p)
  <2>1. EmptyRec \in Userec
    BY DEF EmptyRec, Userec, Kick
  <2> QED
    BY <1>2, <2>1, LockedWrite DEF DeleteWrite, EmptyRec
<1> QED
  BY <1>1, <1>2


(* The holder links its slot and leaves the locked part. *)
LEMMA LinkAndReturn ==
    ASSUME IInv, NEW p \in Procs, NEW x \in Ids \cup {NoId},
           pc[p] \in HeldPC, insertuseridhash(x, slot[p]),
           ~damaged => passwd[slot[p]].id = x,
           Return(p), unlock_passwd(p), UNCHANGED <<passwd, home, damaged>>
    PROVE  IInv'
<1>1. slot[p] \in Slot /\ \A c \in Bucket : slot[p] \notin chain[c]
  BY DEF IInv, HolderInv
<1>2. /\ chain' \in [Bucket -> SUBSET Slot] /\ empty' \in Int
      /\ OneChain' /\ CountInv'
      /\ \A c \in Bucket : slot[p] \in chain'[c] <=> c = BucketOf(x)
      /\ \A j \in Slot : \A c \in Bucket : j # slot[p] =>
                (j \in chain'[c] <=> j \in chain[c])
  BY <1>1, LinkFacts
<1>3. LinkedInv'
  <2>1. \A q \in Procs : q # p => pc'[q] = pc[q] /\ slot'[q] = slot[q]
    BY DEF IInv, TypeOK, Return
  <2>2. damaged \/ LinkedInv'
    BY <1>1, <1>2, <2>1, LinkedFrame
  <2> QED
    BY <2>2 DEF LinkedInv
<1>4. UniqueIds'
  BY DEF IInv, UniqueIds
<1> QED
  BY <1>2, <1>3, <1>4, LockedReturn DEF IInv, TypeOK

(* The error paths that link the slot again keep the invariant. *)
LEMMA OpenFailsSteps ==
    ASSUME IInv, NEW p \in Procs, InsertOpenFails(p) \/ DeleteOpenFails(p)
    PROVE  IInv'
<1>1. CASE InsertOpenFails(p)
  <2>1. passwd[slot[p]].id = NoId
    BY <1>1 DEF InsertOpenFails, IInv, HolderInv
  <2> QED
    BY <1>1, <2>1, LinkAndReturn DEF InsertOpenFails
<1>2. CASE DeleteOpenFails(p)
  <2>1. arg[p] \in Ids /\ passwd[slot[p]].id = arg[p]
    BY <1>2 DEF DeleteOpenFails, IInv, HolderInv
  <2> QED
    BY <1>2, <2>1, LinkAndReturn DEF DeleteOpenFails
<1> QED
  BY <1>1, <1>2

(* Linking the slot as unused in deluserec keeps the invariant. *)
LEMMA DeleteLinkStep ==
    ASSUME IInv, NEW p \in Procs, DeleteLink(p) PROVE IInv'
<1>1. ~damaged => passwd[slot[p]].id = NoId
  BY DEF DeleteLink, IInv, FreshInv
<1> QED
  BY <1>1, LinkAndReturn DEF DeleteLink

(* Linking the new account in insertuserec keeps the invariant. *)
LEMMA InsertLinkStep ==
    ASSUME IInv, NEW p \in Procs, InsertLink(p) PROVE IInv'
<1>1. /\ slot[p] \in Slot /\ \A c \in Bucket : slot[p] \notin chain[c]
      /\ arg[p] \in Ids /\ passwd[slot[p]].id = arg[p] /\ pc[p] = "ins_link"
  BY DEF InsertLink, IInv, HolderInv
<1>2. /\ chain' \in [Bucket -> SUBSET Slot] /\ empty' \in Int
      /\ OneChain' /\ CountInv'
      /\ \A c \in Bucket : slot[p] \in chain'[c] <=> c = BucketOf(arg[p])
      /\ \A j \in Slot : \A c \in Bucket : j # slot[p] =>
                (j \in chain'[c] <=> j \in chain[c])
  BY <1>1, LinkFacts DEF InsertLink
<1>3. /\ pc'[p] = "ins_home" /\ lock' = Nobody
      /\ UNCHANGED <<arg, slot, passwd, damaged>>
      /\ \A q \in Procs : q # p => pc'[q] = pc[q] /\ pc[q] \notin LockedPC
  BY <1>1, OneHolder DEF InsertLink, Goto, unlock_passwd, IInv, TypeOK, LockInv
<1>4. TypeOK'
  BY <1>2, <1>3, GotoType DEF InsertLink, IInv, TypeOK, PC
<1>5. LockInv' /\ HolderInv'
  BY <1>1, <1>3, ConstantsAssumption DEF IInv, LockInv, HolderInv
<1>6. WriterInv' /\ LoadInv' /\ FreshInv'
  BY <1>3 DEF IInv, WriterInv, LoadInv, FreshInv
<1>7. UniqueIds'
  BY <1>3 DEF IInv, UniqueIds
<1>8. LinkedInv'
  <2>1. damaged \/ LinkedInv'
    BY <1>1, <1>2, <1>3, LinkedFrame
  <2> QED
    BY <1>3, <2>1 DEF LinkedInv
<1> QED
  BY <1>2, <1>4, <1>5, <1>6, <1>7, <1>8 DEF IInv

(* The failed write of insertuserec keeps the invariant. *)
LEMMA InsertWriteFailsStep ==
    ASSUME IInv, NEW p \in Procs, InsertWriteFails(p) PROVE IInv'
<1>1. /\ pc[p] = "ins_write" /\ slot[p] \in Slot /\ arg[p] \in Ids
      /\ passwd[slot[p]].id = NoId
  BY DEF InsertWriteFails, IInv, HolderInv
<1>2. UniqueIds' /\ LinkedInv' /\ OneChain' /\ CountInv'
  BY DEF InsertWriteFails, UniqueIds, LinkedInv, IInv, OneChain, CountInv
<1>3. [id |-> arg[p], kick |-> "no"] \in Userec
  BY <1>1 DEF Userec, Kick
<1>4. /\ passwd' \in [Slot -> Userec]
      /\ \A i \in Slot : passwd'[i] = passwd[i] \/ passwd[i].id = NoId
  BY <1>1, <1>3, WriteType DEF InsertWriteFails, IInv, TypeOK
<1> QED
  BY <1>1, <1>2, <1>4, LockedReturn DEF InsertWriteFails, IInv, TypeOK

(* Unlinking the account in deluserec keeps the invariant. *)
LEMMA DeleteUnlinkStep ==
    ASSUME IInv, NEW p \in Procs, DeleteUnlink(p) PROVE IInv'
<1>1. /\ slot[p] \in Slot /\ arg[p] \in Ids /\ pc[p] = "del_unlink"
      /\ slot[p] \in chain[BucketOf(arg[p])]
  BY BucketFacts DEF DeleteUnlink, IInv, HolderInv
<1>2. /\ chain' \in [Bucket -> SUBSET Slot] /\ empty' \in Int
      /\ OneChain' /\ CountInv'
      /\ \A c \in Bucket : slot[p] \notin chain'[c]
      /\ \A j \in Slot : \A c \in Bucket : j # slot[p] =>
                (j \in chain'[c] <=> j \in chain[c])
  BY <1>1, UnlinkFacts DEF DeleteUnlink
<1>3. /\ pc'[p] = "del_write" /\ UNCHANGED <<arg, slot, passwd, lock, damaged>>
      /\ \A q \in Procs : q # p => pc'[q] = pc[q] /\ pc[q] \notin LockedPC
  BY <1>1, OneHolder DEF DeleteUnlink, Goto, IInv, TypeOK
<1>4. TypeOK'
  BY <1>2, <1>3, GotoType DEF DeleteUnlink, IInv, TypeOK, PC
<1>5. LockInv' /\ HolderInv'
  BY <1>1, <1>2, <1>3 DEF IInv, LockInv, HolderInv
<1>6. WriterInv' /\ LoadInv' /\ FreshInv'
  BY <1>3 DEF IInv, WriterInv, LoadInv, FreshInv
<1>7. UniqueIds'
  BY <1>3 DEF IInv, UniqueIds
<1>8. LinkedInv'
  <2>1. damaged \/ LinkedInv'
    BY <1>1, <1>2, <1>3, LinkedFrame
  <2> QED
    BY <1>3, <2>1 DEF LinkedInv
<1> QED
  BY <1>2, <1>4, <1>5, <1>6, <1>7, <1>8 DEF IInv

(* The failed write of deluserec keeps the invariant. *)
LEMMA DeleteWriteFailsStep ==
    ASSUME IInv, NEW p \in Procs, DeleteWriteFails(p) PROVE IInv'
<1>1. /\ pc[p] = "del_write" /\ pc'[p] = "del_link"
      /\ damaged' = TRUE
      /\ UNCHANGED <<passwd, chain, empty, lock, arg, slot>>
      /\ \A q \in Procs : q # p => pc'[q] = pc[q] /\ pc[q] \notin LockedPC
  BY OneHolder DEF DeleteWriteFails, Goto, IInv, TypeOK
<1>2. TypeOK'
  BY <1>1, GotoType DEF DeleteWriteFails, IInv, TypeOK, PC
<1>3. LockInv' /\ HolderInv' /\ WriterInv' /\ LoadInv'
  BY <1>1 DEF IInv, LockInv, HolderInv, WriterInv, LoadInv
<1>4. UniqueIds' /\ FreshInv' /\ LinkedInv' /\ OneChain' /\ CountInv'
  BY <1>1 DEF IInv, UniqueIds, FreshInv, LinkedInv, OneChain, CountInv
<1> QED
  BY <1>2, <1>3, <1>4 DEF IInv

-----------------------------------------------------------------------------
(***************************************************************************)
(* The rebuild of the hash, and processes that are killed.                 *)
(***************************************************************************)

(* Clearing the hash in load_ucache keeps the invariant. *)
LEMMA LoadClearStep ==
    ASSUME IInv, NEW p \in Procs, LoadClear(p) PROVE IInv'
<1>1. /\ pc'[p] = "load" /\ slot'[p] = 1 /\ lock' = p
      /\ UNCHANGED <<passwd, damaged>>
      /\ \A q \in Procs : q # p => pc'[q] = pc[q] /\ slot'[q] = slot[q]
                                   /\ arg'[q] = arg[q]
  BY DEF LoadClear, lock_passwd, Begin, IInv, TypeOK
<1>2. \A q \in Procs : pc[q] \notin LockedPC
  BY NoHolder DEF LoadClear, lock_passwd
<1>3. \A c \in Bucket : chain'[c] = {}
  BY DEF LoadClear
<1>4. TypeOK'
  <2>1. 1 \in Slot
    BY ConstantsAssumption DEF Slot
  <2>2. chain' \in [Bucket -> SUBSET Slot]
    BY DEF LoadClear
  <2>3. Begin(p, NoId, 1, "load") /\ "load" \in PC
    BY DEF LoadClear, PC
  <2>4. /\ pc' \in [Procs -> PC] /\ arg' \in [Procs -> Ids \cup {NoId}]
        /\ slot' \in [Procs -> 0..MaxUsers + 1]
    BY <2>1, <2>3, BeginType DEF IInv
  <2> QED
    BY <1>1, <2>2, <2>4 DEF LoadClear, IInv, TypeOK
<1>5. LockInv' /\ HolderInv' /\ WriterInv'
  BY <1>1, <1>2 DEF IInv, LockInv, HolderInv, WriterInv
<1>6. LoadInv'
  <2>1. 1 \in 1..MaxUsers + 1 /\ \A i \in Slot : ~(i < 1)
    BY ConstantsAssumption DEF Slot
  <2> QED
    BY <1>1, <1>2, <1>3, <2>1 DEF LoadInv
<1>7. UniqueIds' /\ FreshInv'
  BY <1>1, <1>2 DEF IInv, UniqueIds, FreshInv
<1>8. LinkedInv'
  BY <1>1 DEF LinkedInv, Loading
<1>9. OneChain'
  BY <1>3 DEF OneChain
<1>10. CountInv'
  BY <1>3, BucketFacts, FS_EmptySet DEF CountInv, LoadClear
<1> QED
  BY <1>4, <1>5, <1>6, <1>7, <1>8, <1>9, <1>10 DEF IInv

(* The rebuild gives up; the hash it leaves counts as damaged. *)
LEMMA LoadAbort ==
    ASSUME IInv, NEW p \in Procs, pc[p] = "load", Return(p),
           unlock_passwd(p), damaged' = TRUE,
           UNCHANGED <<passwd, chain, empty, home>>
    PROVE  IInv'
<1>1. UniqueIds' /\ LinkedInv' /\ OneChain' /\ CountInv'
  BY DEF UniqueIds, LinkedInv, IInv, OneChain, CountInv
<1> QED
  BY <1>1, LockedReturn DEF IInv, TypeOK

(* Linking one slot in load_ucache keeps the invariant. *)
LEMMA LoadSlotStep ==
    ASSUME IInv, NEW p \in Procs, LoadSlot(p) PROVE IInv'
<1> DEFINE n == slot[p]
           x == passwd[n].id
<1>0. pc[p] = "load" /\ n \in Slot /\ x \in Ids \cup {NoId}
  BY DEF LoadSlot, IInv, TypeOK, Userec
<1>1. CASE x # NoId /\ finduseridhash(x) > 0
  BY <1>0, <1>1, LoadAbort DEF LoadSlot
<1>2. CASE ~(x # NoId /\ finduseridhash(x) > 0)
  <2>1. /\ insertuseridhash(x, n) /\ slot' = [slot EXCEPT ![p] = @ + 1]
        /\ UNCHANGED <<passwd, lock, pc, arg, damaged, home>>
    BY <1>2 DEF LoadSlot
  <2>2. \A q \in Procs : q # p => pc[q] \notin LockedPC /\ slot'[q] = slot[q]
    BY <1>0, <2>1, OneHolder DEF IInv, TypeOK
  <2>3. /\ slot'[p] = n + 1
        /\ \A i \in Slot : \A c \in Bucket :
               i \in chain[c] <=> i < n /\ c = BucketOf(passwd[i].id)
        /\ \A i, j \in Slot : i < n /\ j < n
               /\ passwd[i].id = passwd[j].id => i = j \/ passwd[i].id = NoId
    BY <1>0, <2>1 DEF IInv, TypeOK, LoadInv
  <2>4. \A c \in Bucket : n \notin chain[c]
    BY <1>0, <2>3 DEF Slot
  <2>5. /\ chain' \in [Bucket -> SUBSET Slot] /\ empty' \in Int
        /\ OneChain' /\ CountInv'
        /\ \A c \in Bucket : n \in chain'[c] <=> c = BucketOf(x)
        /\ \A j \in Slot : \A c \in Bucket : j # n =>
                (j \in chain'[c] <=> j \in chain[c])
    BY <1>0, <2>1, <2>4, LinkFacts
  <2>6. TypeOK'
    <3>1. slot' \in [Procs -> 0..MaxUsers + 1]
      BY <1>0, <2>1, ConstantsAssumption DEF IInv, TypeOK, Slot
    <3> QED
      BY <2>1, <2>5, <3>1 DEF IInv, TypeOK
  <2>7. LockInv'
    BY <2>1 DEF IInv, LockInv
  <2>8. HolderInv' /\ WriterInv'
    BY <1>0, <2>1, <2>2 DEF IInv, HolderInv, WriterInv
  <2>9. LoadInv'
    <3>1. n + 1 \in 1..MaxUsers + 1
      BY <1>0, ConstantsAssumption DEF Slot
    <3>2. \A i \in Slot : i < n + 1 <=> i < n \/ i = n
      BY <1>0, ConstantsAssumption DEF Slot
    <3>3. \A i \in Slot : \A c \in Bucket :
             i \in chain'[c] <=> i < n + 1 /\ c = BucketOf(passwd[i].id)
      BY <1>0, <2>3, <2>5, <3>2 DEF Slot
    <3>4. x # NoId => \A i \in Slot : i < n => passwd[i].id # x
      <4>1. x # NoId => Linked(x) = {}
        BY <1>0, <1>2, FindFacts DEF IInv, Slot
      <4> QED
        BY <1>0, <2>3, <4>1, BucketFacts DEF Linked
    <3>5. \A i, j \in Slot : i < n + 1 /\ j < n + 1
             /\ passwd[i].id = passwd[j].id => i = j \/ passwd[i].id = NoId
      BY <1>0, <2>3, <3>2, <3>4
    <3> QED
      BY <1>0, <2>1, <2>2, <2>3, <3>1, <3>3, <3>5 DEF LoadInv
  <2>10. UniqueIds' /\ FreshInv'
    BY <1>0, <2>1, <2>2 DEF IInv, UniqueIds, FreshInv
  <2>11. LinkedInv'
    BY <1>0, <2>1 DEF LinkedInv, Loading
  <2> QED
    BY <2>5, <2>6, <2>7, <2>8, <2>9, <2>10, <2>11 DEF IInv
<1> QED
  BY <1>1, <1>2

(* The end of load_ucache establishes the undamaged hash. *)
LEMMA LoadDoneStep ==
    ASSUME IInv, NEW p \in Procs, LoadDone(p) PROVE IInv'
<1>1. pc[p] = "load" /\ \A i \in Slot : i < slot[p]
  BY ConstantsAssumption DEF LoadDone, Slot
<1>2. /\ \A i \in Slot : \A c \in Bucket :
              i \in chain[c] <=> c = BucketOf(passwd[i].id)
      /\ \A i, j \in Slot : passwd[i].id = passwd[j].id =>
              i = j \/ passwd[i].id = NoId
  BY <1>1 DEF IInv, LoadInv
<1>3. UniqueIds' /\ LinkedInv'
  BY <1>2 DEF LoadDone, UniqueIds, LinkedInv
<1>4. OneChain' /\ CountInv'
  BY DEF LoadDone, IInv, OneChain, CountInv
<1> QED
  BY <1>1, <1>3, <1>4, LockedReturn DEF LoadDone, IInv, TypeOK

(* A process killed inside a call keeps the invariant. *)
LEMMA CrashStep ==
    ASSUME IInv, NEW p \in Procs, Crash(p) PROVE IInv'
<1>1. CASE pc[p] \notin LockedPC
  <2>1. damaged' = damaged /\ lock' = lock
    BY <1>1 DEF Crash, IInv, TypeOK, LockInv, unlock_passwd
  <2> QED
    BY <1>1, <2>1, UnlockedReturn DEF Crash, IInv, TypeOK
<1>2. CASE pc[p] \in LockedPC
  <2>1. UniqueIds' /\ OneChain' /\ CountInv'
    BY DEF Crash, IInv, UniqueIds, OneChain, CountInv
  <2>2. LinkedInv'
    <3>1. CASE damaged'
      BY <3>1 DEF LinkedInv
    <3>2. CASE ~damaged'
      <4>1. ~damaged /\ pc[p] \in {"ins_take", "del_unlink"}
        BY <1>2, <3>2 DEF Crash
      <4>2. ~Loading /\ \A i \in Slot : ~Held(i)
        BY <1>2, <4>1, OneHolder DEF Loading, Held
      <4> QED
        BY <4>1, <4>2 DEF Crash, IInv, LinkedInv
    <3> QED
      BY <3>1, <3>2
  <2> QED
    BY <1>2, <2>1, <2>2, LockedReturn DEF Crash, IInv, TypeOK
<1> QED
  BY <1>1, <1>2

-----------------------------------------------------------------------------
(***************************************************************************)
(* The theorems.                                                           *)
(***************************************************************************)

(* The invariant holds in the table shminit builds. *)
LEMMA InitInv == Init => IInv
<1> SUFFICES ASSUME Init PROVE IInv
  OBVIOUS
<1>1. TypeOK
  <2>0. IsFiniteSet(Slot)
    BY FS_Interval, ConstantsAssumption DEF Slot
  <2>1. IsFiniteSet({i \in Slot : passwd[i].id = NoId})
    BY <2>0, FS_Subset
  <2>2. empty \in Int
    BY <2>1, FS_CardinalityType DEF Init
  <2>3. passwd \in [Slot -> Userec]
    BY DEF Init, Userec, Kick
  <2>4. slot \in [Procs -> 0..MaxUsers + 1]
    BY ConstantsAssumption DEF Init
  <2> QED
    BY <2>2, <2>3, <2>4 DEF Init, TypeOK, PC
<1>2. LockInv /\ HolderInv /\ WriterInv /\ LoadInv /\ FreshInv
  BY ConstantsAssumption DEF Init, LockInv, HolderInv, WriterInv, LoadInv, FreshInv
<1>3. UniqueIds
  BY DEF Init, UniqueIds
<1>4. LinkedInv /\ OneChain
  BY DEF Init, LinkedInv, OneChain
<1>5. CountInv
  <2>1. \A i \in Slot : BucketOf(passwd[i].id) = 0 <=> passwd[i].id = NoId
    BY <1>1, BucketFacts DEF TypeOK, Userec
  <2>2. chain[0] = {i \in Slot : passwd[i].id = NoId}
    BY <2>1, BucketFacts DEF Init
  <2> QED
    BY <2>2 DEF Init, CountInv
<1> QED
  BY <1>1, <1>2, <1>3, <1>4, <1>5 DEF IInv

(* Every step keeps the invariant. *)
LEMMA NextInv == IInv /\ [Next]_vars => IInv'
<1> SUFFICES ASSUME IInv, [Next]_vars PROVE IInv'
  OBVIOUS
<1>1. ASSUME NEW p \in Procs, Insert(p) PROVE IInv'
  BY <1>1, InsertLookupStep, InsertTakeStep, WriteSteps, InsertLinkStep,
     OpenFailsSteps, InsertWriteFailsStep, MakeHomeStep DEF Insert
<1>2. ASSUME NEW p \in Procs, Delete(p) PROVE IInv'
  BY <1>2, DeleteLookupStep, DeleteUnlinkStep, WriteSteps, DeleteLinkStep,
     OpenFailsSteps, DeleteWriteFailsStep DEF Delete
<1>3. ASSUME NEW p \in Procs, Kickout(p) PROVE IInv'
  BY <1>3, KickLookupStep, KickFilesStep, KickWriteStep DEF Kickout
<1>4. ASSUME NEW p \in Procs, Update(p) PROVE IInv'
  BY <1>4, UpdateCheckStep, UpdateWriteStep DEF Update
<1>5. ASSUME NEW p \in Procs, Load(p) PROVE IInv'
  <2>1. CASE LoadInitFails(p)
    BY <2>1, LoadAbort DEF LoadInitFails
  <2> QED
    BY <1>5, <2>1, LoadClearStep, LoadSlotStep, LoadDoneStep DEF Load
<1>6. CASE UNCHANGED vars
  <2>1. TypeOK' /\ LockInv' /\ HolderInv' /\ WriterInv' /\ LoadInv'
    BY <1>6 DEF vars, IInv, TypeOK, LockInv, HolderInv, WriterInv, LoadInv
  <2>2. UniqueIds' /\ FreshInv' /\ LinkedInv' /\ OneChain' /\ CountInv'
    BY <1>6 DEF vars, IInv, UniqueIds, FreshInv, LinkedInv, Loading, Held,
                OneChain, CountInv
  <2> QED
    BY <2>1, <2>2 DEF IInv
<1> QED
  BY <1>1, <1>2, <1>3, <1>4, <1>5, <1>6, CrashStep, TimePassesStep DEF Next

(* The invariant holds in every reachable state. *)
LEMMA Invariance == Spec => []IInv
BY InitInv, NextInv, PTL DEF Spec

(* Every variable keeps its type, in every execution of the calls, with    *)
(* every fault.                                                            *)
THEOREM TypeCorrect == Spec => []TypeOK
<1>1. IInv => TypeOK
  BY DEF IInv
<1> QED
  BY <1>1, Invariance, PTL

(* As long as no fault has hit the hash, insertuserec never puts an id     *)
(* into the table twice.                                                   *)
THEOREM NoDuplicates == Spec => []UniqueIds
<1>1. IInv => UniqueIds
  BY DEF IInv
<1> QED
  BY <1>1, Invariance, PTL

(* No slot is ever linked in two chains, whatever fails or is killed.      *)
THEOREM ChainsDisjoint == Spec => []OneChain
<1>1. IInv => OneChain
  BY DEF IInv
<1> QED
  BY <1>1, Invariance, PTL

(* Between the locked calls the hash says what checkuhash expects of it,   *)
(* as long as no fault has hit it, and again after a rebuild.              *)
THEOREM HashRight == Spec => []HashAgrees
<1>1. IInv => HashAgrees
  <2> SUFFICES ASSUME IInv, lock = Nobody, ~damaged
               PROVE  /\ \A b \in Bucket :
                           chain[b] = {i \in Slot : BucketOf(passwd[i].id) = b}
                      /\ empty = Cardinality({i \in Slot : passwd[i].id = NoId})
    BY DEF HashAgrees
  <2>1. ~Loading /\ \A i \in Slot : ~Held(i)
    BY NoHolder
  <2>2. \A i \in Slot : \A c \in Bucket :
           i \in chain[c] <=> c = BucketOf(passwd[i].id)
    BY <2>1 DEF IInv, LinkedInv
  <2>3. \A b \in Bucket : chain[b] = {i \in Slot : BucketOf(passwd[i].id) = b}
    BY <2>2 DEF IInv, TypeOK
  <2>4. chain[0] = {i \in Slot : passwd[i].id = NoId}
    <3>1. \A i \in Slot : BucketOf(passwd[i].id) = 0 <=> passwd[i].id = NoId
      BY BucketFacts DEF IInv, TypeOK, Userec
    <3> QED
      BY <2>3, <3>1, BucketFacts
  <2> QED
    BY <2>3, <2>4 DEF IInv, CountInv
<1> QED
  BY <1>1, Invariance, PTL

(* Steps other than the six that write .PASSWDS leave every record alone. *)
LEMMA Writers ==
    ASSUME Next
    PROVE  \/ UNCHANGED passwd
           \/ \E p \in Procs : \/ InsertWrite(p) \/ InsertWriteFails(p)
                               \/ DeleteWrite(p) \/ KickWrite(p) \/ UpdateWrite(p)
           \/ \E i \in Slot : TimePasses(i)
<1>1. ASSUME NEW p \in Procs, Insert(p), ~InsertWrite(p), ~InsertWriteFails(p)
      PROVE  UNCHANGED passwd
  BY <1>1 DEF Insert, InsertLookup, InsertTake, InsertLink, InsertOpenFails, MakeHome
<1>2. ASSUME NEW p \in Procs, Delete(p), ~DeleteWrite(p) PROVE UNCHANGED passwd
  BY <1>2 DEF Delete, DeleteLookup, DeleteUnlink, DeleteLink, DeleteOpenFails,
              DeleteWriteFails
<1>3. ASSUME NEW p \in Procs, Kickout(p), ~KickWrite(p) PROVE UNCHANGED passwd
  BY <1>3 DEF Kickout, KickLookup, KickFiles
<1>4. ASSUME NEW p \in Procs, Update(p), ~UpdateWrite(p) PROVE UNCHANGED passwd
  BY <1>4 DEF Update, UpdateCheck
<1>5. ASSUME NEW p \in Procs, Load(p) \/ Crash(p) PROVE UNCHANGED passwd
  BY <1>5 DEF Load, LoadClear, LoadInitFails, LoadSlot, LoadDone, Crash
<1> QED
  BY <1>1, <1>2, <1>3, <1>4, <1>5 DEF Next

(* What one step does to the record in a slot. *)
LEMMA RecordStep ==
    ASSUME IInv, Next, NEW i \in Slot
    PROVE  \/ passwd'[i] = passwd[i]
           \/ passwd'[i].id = passwd[i].id /\
              (passwd[i].kick # "no" => passwd'[i].kick # "no")
           \/ /\ lock # Nobody /\ passwd[i].id = NoId /\ passwd[i].kick = "no"
           \/ /\ lock # Nobody /\ passwd[i].kick = "old" /\ passwd'[i].id = NoId
<1> DEFINE Goal == \/ passwd'[i] = passwd[i]
                   \/ passwd'[i].id = passwd[i].id /\
                      (passwd[i].kick # "no" => passwd'[i].kick # "no")
                   \/ /\ lock # Nobody /\ passwd[i].id = NoId /\ passwd[i].kick = "no"
                   \/ /\ lock # Nobody /\ passwd[i].kick = "old" /\ passwd'[i].id = NoId
<1>1. ASSUME NEW p \in Procs, InsertWrite(p) \/ InsertWriteFails(p) PROVE Goal
  <2>1. /\ slot[p] \in Slot /\ lock # Nobody
        /\ passwd[slot[p]].id = NoId
        /\ \A j \in Slot : j # slot[p] => passwd'[j] = passwd[j]
    BY <1>1, ConstantsAssumption DEF InsertWrite, InsertWriteFails, IInv, TypeOK,
        LockInv, HolderInv
  <2>2. passwd[slot[p]].kick = "no"
    BY <2>1 DEF IInv, TypeOK, Userec
  <2> QED
    BY <2>1, <2>2
<1>2. ASSUME NEW p \in Procs, DeleteWrite(p) PROVE Goal
  <2>1. /\ slot[p] \in Slot /\ lock # Nobody
        /\ passwd[slot[p]].kick = "old"
        /\ passwd' = [passwd EXCEPT ![slot[p]] = EmptyRec]
    BY <1>2, ConstantsAssumption DEF DeleteWrite, IInv, LockInv, HolderInv
  <2> QED
    BY <2>1 DEF IInv, TypeOK, EmptyRec
<1>3. ASSUME NEW p \in Procs, KickWrite(p) \/ UpdateWrite(p) PROVE Goal
  <2>1. slot[p] \in Slot /\ passwd[slot[p]].id = arg[p]
    BY <1>3 DEF KickWrite, UpdateWrite, IInv, WriterInv
  <2> QED
    BY <1>3, <2>1 DEF KickWrite, UpdateWrite, IInv, TypeOK
<1>4. ASSUME NEW j \in Slot, TimePasses(j) PROVE Goal
  BY <1>4 DEF TimePasses, IInv, TypeOK, Userec
<1> QED
  BY <1>1, <1>2, <1>3, <1>4, Writers

(* A slot changes its owner only under the lock, and only through being    *)
(* unused, 23 hours after the expulsion: no late write without the lock    *)
(* lands on a later owner.                                                 *)
THEOREM SlotIdentityHolds == Spec => SlotIdentity
<1> DEFINE A == \A i \in Slot : passwd[i].id # passwd'[i].id =>
                   /\ lock # Nobody
                   /\ passwd[i].id = NoId \/ passwd'[i].id = NoId
                   /\ passwd[i].id # NoId => passwd[i].kick = "old"
<1>1. ASSUME IInv, Next PROVE A
  BY <1>1, RecordStep
<1>2. IInv /\ [Next]_vars => [A]_vars
  BY <1>1
<1> QED
  BY <1>2, Invariance, PTL DEF Spec, SlotIdentity

(* An expelled account stays expelled, whatever updates were under way,    *)
(* until its record is deleted.                                            *)
THEOREM KickoutSticksHolds == Spec => KickoutSticks
<1> DEFINE A == \A i \in Slot : passwd[i].kick # "no" =>
                   passwd'[i].kick # "no" \/ passwd'[i].id = NoId
<1>1. ASSUME IInv, Next PROVE A
  BY <1>1, RecordStep
<1>2. IInv /\ [Next]_vars => [A]_vars
  BY <1>1
<1> QED
  BY <1>2, Invariance, PTL DEF Spec, KickoutSticks

==========================================================================
