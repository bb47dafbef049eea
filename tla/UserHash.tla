----------------------------- MODULE UserHash -----------------------------
(***************************************************************************)
(* The user-id hash as it lies in shared memory: chains of slot numbers    *)
(* linked by hash_head[] and next[], changed by the calls that hold        *)
(* .PASSWDS.lock one store at a time, and walked by finduseridhash in      *)
(* processes that hold no lock (getuser and everything built on it).       *)
(*                                                                         *)
(* The locked calls are the ones of PasswdTable and this module implements *)
(* it: a chain of PasswdTable is the set of slots reachable from a head.   *)
(* I/O errors are left to PasswdTable.  An account must have been expelled *)
(* 23 hours before it is deleted, and no search takes that long: the       *)
(* accounts that can be deleted in the course of a search are the ones     *)
(* expelled long before it, and expulsion is no step of this module.       *)
(***************************************************************************)
EXTENDS Naturals, FiniteSets

CONSTANTS Ids, MaxUsers, Hash, NoId, Nobody,
          Writers,   \* processes that run the locked calls
          Readers,   \* processes that look ids up
          Faults     \* {} or {"crash"}

ASSUME UserHashAssumption ==
    /\ MaxUsers \in Nat \ {0}
    /\ NoId \notin Ids /\ Nobody \notin Writers
    /\ Hash \in [Ids -> Nat \ {0}]
    /\ Faults \subseteq {"crash"}

Slot == 1..MaxUsers
Bucket == {0} \cup {Hash[x] : x \in Ids}
BucketOf(id) == IF id = NoId THEN 0 ELSE Hash[id]
NotFound == MaxUsers + 1

VARIABLES
    head, next,   \* UCACHEHASH.hash_head and next[1..]; 0 ends a chain
    empty,        \* UCACHEHASH.next[0]
    ready,        \* the tables of ucache_hash are loaded
    lastspace,    \* the static variable of insertuseridhash in load_ucache
    passwd,       \* passwdptr[]
    lock, pc, arg, slot, home, damaged,  \* of the locked calls: see PasswdTable
    walk          \* of every reader: the id it looks for, where it stands,
                  \* and two marks that only the properties use

shared == <<head, next, empty, ready, lastspace>>
calls == <<lock, pc, arg, slot, home, damaged>>
vars == <<shared, passwd, calls, walk>>

Userec == {r \in [id : Ids \cup {NoId}, kick : {"no", "old"}] :
                r.id = NoId => r.kick = "no"}

(***************************************************************************)
(* One getuser: "walk" stands on slot at of a chain (0: past its end),     *)
(* "check" has found slot at, "idle" has returned result (0: not found).   *)
(* Two marks are for the properties only.  moved: a slot on its way, the   *)
(* one it stood on or one it was still to come to, went to another chain,  *)
(* or the hash was cleared.  there: the id has been linked, and not        *)
(* expelled, since the call began.                                         *)
(***************************************************************************)
NoWalk == [pc |-> "idle", id |-> NoId, at |-> 0, result |-> 0,
           moved |-> FALSE, there |-> FALSE]

Links(h, n, b) ==
    LET reached[k \in 0..MaxUsers] ==
          IF k = 0 THEN {h[b]} \ {0}
          ELSE reached[k - 1] \cup ({n[i] : i \in reached[k - 1]} \ {0})
    IN reached[MaxUsers]

(* The slot after k hops down a chain, 0 past its end. *)
Hop(b, k) ==
    LET at[j \in 0..k] == IF j = 0 THEN head[b]
                          ELSE IF at[j - 1] = 0 THEN 0 ELSE next[at[j - 1]]
    IN at[k]

(* load_ucache pushes accounts, so their chains run down from the highest  *)
(* slot, and appends unused slots, so chain 0 runs up.                     *)
InChain(tab, b) == {i \in Slot : BucketOf(tab[i].id) = b}
MaxOf(S) == IF S = {} THEN 0 ELSE CHOOSE i \in S : \A j \in S : j <= i
MinOf(S) == IF S = {} THEN 0 ELSE CHOOSE i \in S : \A j \in S : j >= i

Init ==
    /\ passwd \in [Slot -> Userec]
    /\ \A i, j \in Slot : passwd[i].id = passwd[j].id =>
            i = j \/ passwd[i].id = NoId
    /\ head = [b \in Bucket |-> IF b = 0 THEN MinOf(InChain(passwd, 0))
                                ELSE MaxOf(InChain(passwd, b))]
    /\ next = [i \in Slot |->
                 LET C == InChain(passwd, BucketOf(passwd[i].id)) IN
                 IF passwd[i].id = NoId THEN MinOf({j \in C : j > i})
                 ELSE MaxOf({j \in C : j < i})]
    /\ empty = Cardinality(InChain(passwd, 0))
    /\ ready = TRUE
    /\ lastspace = 0
    /\ lock = Nobody
    /\ pc = [p \in Writers |-> "idle"]
    /\ arg = [p \in Writers |-> NoId]
    /\ slot = [p \in Writers |-> 0]
    /\ home = {x \in Ids : \E i \in Slot :
                   passwd[i].id = x /\ passwd[i].kick = "no"}
    /\ damaged = FALSE
    /\ walk = [r \in Readers |-> NoWalk]

-----------------------------------------------------------------------------
(***************************************************************************)
(* The search, under the lock: the first slot of the chain with the id,    *)
(* and the slot before it.                                                 *)
(***************************************************************************)
HopOf(id) ==
    LET K == {k \in 0..MaxUsers : LET i == Hop(BucketOf(id), k) IN
                                    i # 0 /\ passwd[i].id = id}
    IN IF K = {} THEN NotFound ELSE MinOf({k + 1 : k \in K}) - 1

finduseridhash(id) ==
    IF HopOf(id) = NotFound THEN 0 ELSE Hop(BucketOf(id), HopOf(id))

(* Faulty form: the pointer of the slot that leaves the chain is cleared. *)
UnlinkAndClear(b, k) ==
    IF k = 0 THEN /\ head' = [head EXCEPT ![b] = next[Hop(b, 0)]]
                  /\ next' = [next EXCEPT ![Hop(b, 0)] = 0]
    ELSE /\ next' = [next EXCEPT ![Hop(b, k - 1)] = next[Hop(b, k)],
                                 ![Hop(b, k)] = 0]
         /\ UNCHANGED head

(* Unlink the slot found after k hops: one store, into head or next. *)
Unlink(b, k) ==
    IF k = 0 THEN /\ head' = [head EXCEPT ![b] = next[Hop(b, 0)]]
                  /\ UNCHANGED next
    ELSE /\ next' = [next EXCEPT ![Hop(b, k - 1)] = next[Hop(b, k)]]
         /\ UNCHANGED head

(* insertuseridhash at the head of a chain: first the slot's pointer,      *)
(* then the head.                                                          *)
PushNext(b, i) == next' = [next EXCEPT ![i] = head[b]] /\ UNCHANGED head
PushHead(b, i) == head' = [head EXCEPT ![b] = i] /\ UNCHANGED next

(* The id is linked in its chain, with a record that is not expelled. *)
LinkedIn(h, n, tab, id) ==
    \E i \in Links(h, n, Hash[id]) : tab[i].id = id /\ tab[i].kick = "no"

(* The slots a search standing on slot i has on its way. *)
Ahead(i) == {j \in Slot : \A S \in SUBSET ({0} \cup Slot) :
                i \in S /\ (\A s \in S \ {0} : next[s] \in S) => j \in S}

(* What a step of a locked call does to the marks of the walks: it         *)
(* redirects the pointer of slot i (0: of none), or clears all of them.    *)
Marks(i, clear) ==
    walk' = [r \in Readers |->
        IF walk[r].pc = "idle" THEN walk[r]
        ELSE [walk[r] EXCEPT
                !.moved = @ \/ clear \/ i \in Ahead(walk[r].at),
                !.there = @ /\ LinkedIn(head', next', passwd', walk[r].id)]]

-----------------------------------------------------------------------------
(***************************************************************************)
(* The locked calls.                                                       *)
(***************************************************************************)

Goto(p, label) == pc' = [pc EXCEPT ![p] = label]

Lock(p, x, i, label) ==
    /\ pc[p] = "idle" /\ lock = Nobody
    /\ lock' = p
    /\ Goto(p, label)
    /\ arg' = [arg EXCEPT ![p] = x]
    /\ slot' = [slot EXCEPT ![p] = i]

Unlock(p) ==
    /\ lock' = IF lock = p THEN Nobody ELSE lock
    /\ Goto(p, "idle")
    /\ arg' = [arg EXCEPT ![p] = NoId]
    /\ slot' = [slot EXCEPT ![p] = 0]

(* insertuserec *)
InsertLookup(p, x) ==
    /\ finduseridhash(x) = 0
    /\ Lock(p, x, 0, "ins_take")
    /\ UNCHANGED <<shared, passwd, home, damaged, walk>>

InsertFull(p) ==
    /\ pc[p] = "ins_take" /\ finduseridhash(NoId) = 0
    /\ Unlock(p)
    /\ UNCHANGED <<shared, passwd, home, damaged, walk>>

InsertTake(p) ==
    /\ pc[p] = "ins_take" /\ finduseridhash(NoId) # 0
    /\ slot' = [slot EXCEPT ![p] = finduseridhash(NoId)]
    /\ Unlink(0, HopOf(NoId))
    /\ empty' = empty - 1
    /\ Goto(p, "ins_write")
    /\ UNCHANGED <<ready, lastspace, passwd, lock, arg, home, damaged>>
    /\ Marks(0, FALSE)

InsertWrite(p) ==
    /\ pc[p] = "ins_write"
    /\ passwd' = [passwd EXCEPT ![slot[p]] = [id |-> arg[p], kick |-> "no"]]
    /\ Goto(p, "ins_next")
    /\ UNCHANGED <<shared, lock, arg, slot, home, damaged>>
    /\ Marks(0, FALSE)

InsertNext(p) ==
    /\ pc[p] = "ins_next"
    /\ PushNext(BucketOf(arg[p]), slot[p])
    /\ Goto(p, "ins_head")
    /\ UNCHANGED <<empty, ready, lastspace, passwd, lock, arg, slot, home, damaged>>
    /\ Marks(slot[p], FALSE)

InsertHead(p) ==
    /\ pc[p] = "ins_head"
    /\ PushHead(BucketOf(arg[p]), slot[p])
    /\ lock' = Nobody
    /\ Goto(p, "ins_home")
    /\ UNCHANGED <<empty, ready, lastspace, passwd, arg, slot, home, damaged>>
    /\ Marks(0, FALSE)

MakeHome(p) ==
    /\ pc[p] = "ins_home"
    /\ home' = home \cup {arg[p]}
    /\ Unlock(p)
    /\ UNCHANGED <<shared, passwd, damaged, walk>>

(* deluserec *)
DeleteLookup(p, x) ==
    LET i == finduseridhash(x) IN
    /\ i # 0 /\ passwd[i].kick = "old"
    /\ Lock(p, x, i, "del_unlink")
    /\ UNCHANGED <<shared, passwd, home, damaged, walk>>

(* Faulty form: deluseridhash is forgotten. *)
DeleteStillLinked(p) ==
    /\ pc[p] = "del_unlink"
    /\ Goto(p, "del_write")
    /\ UNCHANGED <<shared, passwd, lock, arg, slot, home, damaged, walk>>

DeleteUnlink(p) ==
    /\ pc[p] = "del_unlink"
    /\ Unlink(BucketOf(arg[p]), HopOf(arg[p]))
    /\ Goto(p, "del_write")
    /\ UNCHANGED <<empty, ready, lastspace, passwd, lock, arg, slot, home, damaged>>
    /\ Marks(0, FALSE)

DeleteWrite(p) ==
    /\ pc[p] = "del_write"
    /\ passwd' = [passwd EXCEPT ![slot[p]] = [id |-> NoId, kick |-> "no"]]
    /\ Goto(p, "del_next")
    /\ UNCHANGED <<shared, lock, arg, slot, home, damaged>>
    /\ Marks(0, FALSE)

DeleteNext(p) ==
    /\ pc[p] = "del_next"
    /\ PushNext(0, slot[p])
    /\ Goto(p, "del_head")
    /\ UNCHANGED <<empty, ready, lastspace, passwd, lock, arg, slot, home, damaged>>
    /\ Marks(slot[p], FALSE)

DeleteHead(p) ==
    /\ pc[p] = "del_head"
    /\ PushHead(0, slot[p])
    /\ empty' = empty + 1
    /\ Unlock(p)
    /\ UNCHANGED <<ready, lastspace, passwd, home, damaged>>
    /\ Marks(0, FALSE)

(* Faulty form: the static variable keeps the slot of an earlier rebuild. *)
LoadClearStale(p) ==
    /\ Lock(p, NoId, 1, "load")
    /\ head' = [b \in Bucket |-> 0]
    /\ next' = [i \in Slot |-> 0]
    /\ empty' = 0
    /\ ready' = FALSE
    /\ UNCHANGED <<lastspace, passwd, home, damaged>>
    /\ Marks(0, TRUE)

(* load_ucache: bzero, then ucache_hashinit, then slot by slot. *)
LoadClear(p) ==
    /\ Lock(p, NoId, 1, "load")
    /\ head' = [b \in Bucket |-> 0]
    /\ next' = [i \in Slot |-> 0]
    /\ empty' = 0
    /\ ready' = FALSE
    /\ lastspace' = 0
    /\ UNCHANGED <<passwd, home, damaged>>
    /\ Marks(0, TRUE)

LoadInit(p) ==
    /\ pc[p] = "load" /\ ~ready
    /\ ready' = TRUE
    /\ UNCHANGED <<head, next, empty, lastspace, passwd, calls, walk>>

(* Users are pushed; empty slots are appended after lastspace. *)
LoadSlot(p) ==
    LET i == slot[p]
        x == passwd[i].id
    IN
    /\ pc[p] = "load" /\ ready /\ i \in Slot
    /\ x # NoId => finduseridhash(x) = 0
    /\ \/ /\ x # NoId
          /\ head' = [head EXCEPT ![Hash[x]] = i]
          /\ next' = [next EXCEPT ![i] = head[Hash[x]]]
          /\ UNCHANGED <<empty, lastspace>>
       \/ /\ x = NoId
          /\ IF lastspace = 0
               THEN head' = [head EXCEPT ![0] = i] /\ UNCHANGED next
               ELSE next' = [next EXCEPT ![lastspace] = i] /\ UNCHANGED head
          /\ lastspace' = i
          /\ empty' = empty + 1
    /\ slot' = [slot EXCEPT ![p] = @ + 1]
    /\ UNCHANGED <<ready, passwd, lock, pc, arg, home, damaged>>
    /\ Marks(0, FALSE)

LoadDuplicate(p) ==
    /\ pc[p] = "load" /\ ready /\ slot[p] \in Slot
    /\ passwd[slot[p]].id # NoId /\ finduseridhash(passwd[slot[p]].id) # 0
    /\ Unlock(p)
    /\ damaged' = TRUE
    /\ UNCHANGED <<shared, passwd, home, walk>>

LoadDone(p) ==
    /\ pc[p] = "load" /\ ready /\ slot[p] = MaxUsers + 1
    /\ Unlock(p)
    /\ damaged' = FALSE
    /\ UNCHANGED <<shared, passwd, home, walk>>

Crash(p) ==
    /\ pc[p] # "idle" /\ "crash" \in Faults
    /\ Unlock(p)
    /\ damaged' = (damaged \/ pc[p] \notin {"ins_take", "del_unlink", "ins_home"})
    /\ UNCHANGED <<shared, passwd, home, walk>>

-----------------------------------------------------------------------------
(***************************************************************************)
(* getuser(x), without the lock.                                           *)
(***************************************************************************)

(* While the tables of ucache_hash are blank it yields some other chain. *)
StartWalk(r, x) ==
    /\ walk[r].pc = "idle"
    /\ \E b \in IF ready THEN {Hash[x]} ELSE Bucket \ {0} :
         walk' = [walk EXCEPT ![r] =
                    [pc |-> "walk", id |-> x, at |-> head[b], result |-> 0,
                     moved |-> FALSE, there |-> LinkedIn(head, next, passwd, x)]]
    /\ UNCHANGED <<shared, passwd, calls>>

StepWalk(r) ==
    LET i == walk[r].at IN
    /\ walk[r].pc = "walk" /\ i # 0
    /\ walk' = [walk EXCEPT ![r] =
                  IF passwd[i].id = @.id THEN [@ EXCEPT !.pc = "check"]
                  ELSE [@ EXCEPT !.at = next[i]]]
    /\ UNCHANGED <<shared, passwd, calls>>

EndWalk(r) ==
    /\ walk[r].pc = "walk" /\ walk[r].at = 0
    /\ walk' = [walk EXCEPT ![r].pc = "idle"]
    /\ UNCHANGED <<shared, passwd, calls>>

CheckWalk(r) ==
    LET i == walk[r].at IN
    /\ walk[r].pc = "check"
    /\ walk' = [walk EXCEPT ![r].pc = "idle", ![r].at = 0,
                  ![r].result = IF passwd[i].id = walk[r].id /\ passwd[i].kick = "no"
                                THEN i ELSE 0]
    /\ UNCHANGED <<shared, passwd, calls>>

Insert(p) == \/ \E x \in Ids : InsertLookup(p, x)
             \/ InsertFull(p) \/ InsertTake(p) \/ InsertWrite(p)
             \/ InsertNext(p) \/ InsertHead(p) \/ MakeHome(p)

Delete(p) == \/ \E x \in Ids : DeleteLookup(p, x)
             \/ DeleteUnlink(p) \/ DeleteWrite(p)
             \/ DeleteNext(p) \/ DeleteHead(p)

Load(p) == \/ LoadClear(p) \/ LoadInit(p) \/ LoadSlot(p)
           \/ LoadDuplicate(p) \/ LoadDone(p)

Lookup(r) == \/ \E x \in Ids : StartWalk(r, x)
             \/ StepWalk(r) \/ EndWalk(r) \/ CheckWalk(r)

Next == \/ \E p \in Writers : Insert(p) \/ Delete(p) \/ Load(p) \/ Crash(p)
        \/ \E r \in Readers : Lookup(r)

Spec == Init /\ [][Next]_vars

(* A search goes on by itself: it waits for nobody. *)
LiveSpec == /\ Spec
            /\ \A r \in Readers : WF_vars(StepWalk(r) \/ EndWalk(r) \/ CheckWalk(r))

-----------------------------------------------------------------------------
(***************************************************************************)
(* Properties                                                              *)
(***************************************************************************)

(* The values every variable can have. *)
TypeOK ==
    /\ head \in [Bucket -> 0..MaxUsers] /\ next \in [Slot -> 0..MaxUsers]
    /\ empty \in 0..MaxUsers /\ ready \in BOOLEAN /\ lastspace \in 0..MaxUsers
    /\ passwd \in [Slot -> Userec]
    /\ lock \in Writers \cup {Nobody}
    /\ \A r \in Readers : walk[r].at \in 0..MaxUsers

(* Following next from any head ends: no search can run in circles, in the *)
(* middle of a change or after a process was killed in one.                *)
NoCycle == \A b \in Bucket : Hop(b, MaxUsers) = 0

(* Every search ends, though the chain it walks changes under it.  (A      *)
(* search whose slot moves on before it can step is carried to the end of  *)
(* another chain.)                                                         *)
LookupEnds == \A r \in Readers : walk[r].pc # "idle" ~> walk[r].pc = "idle"

(* A search without the lock misses an account that was there all the time *)
(* only if the slot it stood on, or one on its way from there, went to     *)
(* another chain meanwhile, or the hash was being rebuilt: registrations   *)
(* alone never hide anybody.  (A slot on the way goes to another chain     *)
(* when a deletion was killed and left its slot pointing to that one.)     *)
MissExplained ==
    \A r \in Readers :
        walk[r].pc = "idle" /\ walk[r].id # NoId /\ walk[r].result = 0
            => walk[r].moved \/ ~walk[r].there

(* A search meets sound chains at any moment of a change and after a kill  *)
(* in one, and finds who is there.                                         *)
SearchesRight == TypeOK /\ NoCycle /\ MissExplained

(* The pointers implement the chains of PasswdTable. *)
MappedPC == [p \in Writers |->
    CASE pc[p] \in {"ins_next", "ins_head"} -> "ins_link"
      [] pc[p] \in {"del_next", "del_head"} -> "del_link"
      [] OTHER -> pc[p]]

Table == INSTANCE PasswdTable WITH
            Procs <- Writers, pc <- MappedPC,
            chain <- [b \in Bucket |-> Links(head, next, b)]

(* Every step of the pointers is a step of PasswdTable or leaves its state *)
(* as it is.                                                               *)
ImplementsTable == Table!Spec
==========================================================================
