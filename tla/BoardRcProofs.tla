---------------------------- MODULE BoardRcProofs ----------------------------
(***************************************************************************)
(* Proofs about BoardRc, for any users, boards, processes and sessions,    *)
(* and any sizes of lists, bytes and files: the two forms of the marks     *)
(* agree, nothing unread is called read, a session shows what its user's   *)
(* file has, and marks in the file are lost in the known ways only.        *)
(***************************************************************************)
EXTENDS BoardRc, SequenceTheorems, WellFoundedInduction, TLAPS

-----------------------------------------------------------------------------
(***************************************************************************)
(* The inductive invariant, in named parts.                                *)
(***************************************************************************)
Rc == [board : Boards \cup {NoBoard}, list : Seq(Nat), cur : 0..MaxNum, changed : BOOLEAN]
Steps == {"idle", "open", "write", "rename", "done"}
Follows == [board : Boards \cup {NoBoard}, keep : BOOLEAN, leave : BOOLEAN]

(* Blocks that fit. *)
Fit(blocks) == WellFormed(blocks) /\ SizeOf(blocks) <= MaxSize
OnDisk(f) == /\ f.there \in BOOLEAN /\ Fit(f.blocks) /\ f = [there |-> f.there, blocks |-> f.blocks]
             /\ ~f.there => f.blocks = <<>>
InMemory(a) == /\ a.kept \in BOOLEAN /\ Fit(a.blocks)
               /\ a = [blocks |-> a.blocks, kept |-> a.kept]

(* A session is on a board just when it has a list.                        *)
OnBoard(r) == IF r.board = NoBoard THEN r.list = <<>> /\ ~r.changed ELSE Listed(r.list)

MarksTyped == brc \in [Sessions -> Rc] /\ \A s \in Sessions : OnBoard(brc[s])
BlocksTyped == all = [p \in Procs |-> all[p]] /\ \A p \in Procs : InMemory(all[p])
NetTyped ==
    /\ cast \subseteq Sessions
    /\ serve \in [Web -> (Windows \cap cast) \cup {NoWindow}]
    /\ expired \in [Web -> BOOLEAN]
    /\ owner \in [Web -> {{u} : u \in Users} \cup {{}}]
SavingTyped ==
    /\ pc \in [Procs -> Steps] /\ fd \in [Procs -> {"none", "tmp", "file", "gone"}]
    /\ then \in [Procs -> Follows]
DiskTyped ==
    /\ file = [u \in Users |-> file[u]] /\ tmp = [u \in Users |-> tmp[u]]
    /\ home = [u \in Users |-> home[u]]
    /\ \A u \in Users : OnDisk(file[u]) /\ OnDisk(tmp[u]) /\ OnDisk(home[u])
    /\ cron \in [Users -> {"no", "copied", "changed"}]
HistoryTyped ==
    /\ ever \in [Users -> [Boards -> SUBSET Times]]
    /\ current \subseteq Procs /\ fresh \subseteq Sessions /\ strangers \subseteq Users
    /\ doubt \in [Procs -> SUBSET (Boards \cup {Info})]
Typed == MarksTyped /\ BlocksTyped /\ NetTyped /\ SavingTyped /\ DiskTyped /\ HistoryTyped

(* Who saves serves a session and has its user's blocks; a file is open    *)
(* only while it is saved.                                                 *)
Busy(p) == /\ pc[p] # "idle" => Active(p) /\ (p \in Web => owner[p] = {Owner(p)})
           /\ fd[p] # "none" => pc[p] \in {"write", "rename"}

BaseInv == Typed /\ \A p \in Procs : Busy(p)

(* The articles a list calls read. *)
ReadOf(l) == {t \in Times : ReadIn(l, t)}

(* No block anywhere calls an article read that its user has not marked.   *)
HonestTo(blocks, marked) ==
    \A i \in DOMAIN blocks :
        blocks[i].board # Info => ReadsOf(blocks[i]) \subseteq marked[blocks[i].board]
Honest(blocks, u) == HonestTo(blocks, ever[u])

HonestDisk == \A u \in Users \ strangers :
    Honest(file[u].blocks, u) /\ Honest(tmp[u].blocks, u) /\ Honest(home[u].blocks, u)
HonestAt(p) ==
    /\ p \in Telnet /\ UserOf[p] \notin strangers => Honest(all[p].blocks, UserOf[p])
    /\ p \in Web => /\ owner[p] = {} => all[p].blocks = <<>>
                    /\ \A u \in owner[p] \ strangers : Honest(all[p].blocks, u)
HonestMemory == \A p \in Procs : HonestAt(p)
HonestOn(s) == brc[s].board # NoBoard /\ UserOf[s] \notin strangers
                   => ReadOf(brc[s].list) \subseteq ever[UserOf[s]][brc[s].board]
HonestSessions == \A s \in Sessions : HonestOn(s)

HonestInv == HonestDisk /\ HonestMemory /\ HonestSessions

(* What save_brc has copied is the file, until somebody saves.             *)
CopyInv == \A u \in Users : cron[u] = "copied" => file[u].there /\ home[u] = file[u]

(* The blocks of a file begin with those that were written.                *)
Begins(written, blocks) == /\ Len(written) <= Len(blocks)
                           /\ \A i \in DOMAIN written : blocks[i] = written[i]

(* A process whose blocks nobody has saved over has what is in the file,   *)
(* and what it has put in itself.                                          *)
Writing == {"open", "write", "rename"}
Synced(p) == pc[p] \in {"idle", "done"} /\ (p \in Telnet => all[p].kept \/ pc[p] = "done")
Keeps(blocks, old, doubts) ==
    /\ \A b \in Boards \ doubts : Reads(old, b) \subseteq Reads(blocks, b)
    /\ HasBlock(old, Info) => HasBlock(blocks, Info)
CurrentAt(p) ==
    /\ Synced(p) => all[p].blocks = Source(Owner(p)).blocks
    /\ pc[p] \in Writing => Keeps(all[p].blocks, Source(Owner(p)).blocks, doubt[p])
    /\ pc[p] \in {"write", "rename"} => fd[p] = "tmp" /\ tmp[Owner(p)].there
    /\ pc[p] = "rename" => Begins(all[p].blocks, tmp[Owner(p)].blocks)
CurrentInv == \A p \in current : Active(p) => CurrentAt(p)

(* Nobody else writes to the same <user>.tmp. *)
AloneInv ==
    \A p \in current : \A q \in Procs \ {p} :
        Active(p) /\ Active(q) /\ Owner(p) = Owner(q) /\ pc[p] \in {"write", "rename"}
            => fd[q] # "tmp"

(* A session whose board nobody else has saved shows what the user's file  *)
(* has, or is about to have once its own save is over.                     *)
Savers(s) == {p \in Procs : Active(p) /\ pc[p] # "idle" /\ SessionOf(p) = s}
Agree(blocks, r) ==
    LET saved == Reads(blocks, r.board)
    IN  IF r.changed THEN saved \subseteq ReadOf(r.list) ELSE saved = ReadOf(r.list)
FreshAt(s) ==
    /\ brc[s].board # NoBoard
    /\ \A p, q \in Savers(s) : p = q
    /\ (\A p \in Savers(s) : pc[p] = "done") => Agree(Source(UserOf[s]).blocks, brc[s])
    /\ \A p \in Savers(s) \cap current :
           pc[p] \in Writing /\ brc[s].board \notin doubt[p] => Agree(all[p].blocks, brc[s])
FreshInv == \A s \in fresh : FreshAt(s)

IInv == BaseInv /\ HonestInv /\ CopyInv /\ CurrentInv /\ AloneInv /\ FreshInv

-----------------------------------------------------------------------------
(***************************************************************************)
(* Numbers, and one step of induction without an operator.                 *)
(***************************************************************************)
LEMMA Limits == /\ MaxNum \in Nat /\ MaxNum >= 1 /\ Byte \in Nat /\ Byte >= 2
                /\ HeadLen \in Nat /\ HeadLen >= 1 /\ MaxSize \in Nat
  BY BrcMarksAssumption, MaxSizeAssumption

LEMMA Names == /\ UserOf \in [Sessions -> Users]
               /\ Telnet \cap Web = {} /\ Telnet \cap Windows = {}
               /\ NoBoard \notin Boards /\ NoBoard # Info /\ Info \notin Boards
               /\ NoWindow \notin Windows
  BY BoardRcAssumption DEF Sessions

LEMMA TimesAre == \A t \in Times : t \in Nat /\ t >= 2
  BY BoardRcAssumption

LEMMA Upwards ==
    ASSUME NEW S, NEW n \in Nat, 0 \in S,
           \A k \in 1..n : k - 1 \in S => k \in S
    PROVE  0..n \subseteq S
<1> DEFINE D == {k \in 0..n : k \notin S}
<1>1. SUFFICES ASSUME D # {} PROVE FALSE
  OBVIOUS
<1>2. PICK m \in D : \A y \in D : m <= y
  <2>1. D \subseteq Nat /\ D # {}
    BY <1>1
  <2> DEFINE R == OpToRel(<, Nat)
  <2>2. \A x, y \in Nat : <<x, y>> \in R <=> x < y
    BY DEF OpToRel
  <2>3. IsWellFoundedOn(R, Nat)
    BY NatLessThanWellFounded
  <2> HIDE DEF D, R
  <2>4. PICK m \in D : \A y \in D : <<y, m>> \notin R
    BY <2>1, <2>3, WFMin
  <2>5. \A y \in D : m \in Nat /\ y \in Nat /\ ~(y < m)
    BY <2>1, <2>2, <2>4
  <2>6. \A y \in D : m <= y
    BY <2>5
  <2>7. QED
    BY <2>6
<1>3. m \in 1..n /\ m - 1 \in 0..n
  BY <1>2
<1>4. m - 1 \in S
  BY <1>2, <1>3
<1>5. QED
  BY <1>2, <1>3, <1>4

LEMMA LeastIs ==
    ASSUME NEW n \in Nat, NEW S, S \subseteq 0..n, S # {}
    PROVE  Least(S) \in S /\ \A y \in S : Least(S) <= y
<1>1. \E m \in S : \A y \in S : m <= y
  <2> DEFINE T == {k \in 0..n : \A y \in S : k <= y}
  <2>1. SUFFICES ASSUME ~\E m \in S : \A y \in S : m <= y PROVE FALSE
    OBVIOUS
  <2>2. 0 \in T
    OBVIOUS
  <2>3. ASSUME NEW k \in 1..n, k - 1 \in T PROVE k \in T
    <3>1. k - 1 \notin S
      BY <2>1, <2>3
    <3>2. QED
      BY <2>3, <3>1
  <2> HIDE DEF T
  <2>4. 0..n \subseteq T
    BY <2>2, <2>3, Upwards
  <2>5. n \in T
    BY <2>4
  <2>6. \A y \in S : y \in Nat /\ n <= y /\ y <= n
    BY <2>5 DEF T
  <2>7. PICK y \in S : TRUE
    OBVIOUS
  <2>8. n \in S /\ \A x \in S : n <= x
    BY <2>6, <2>7
  <2>9. QED
    BY <2>1, <2>8
<1>2. QED
  BY <1>1 DEF Least

LEMMA GreatestIs ==
    ASSUME NEW n \in Nat, NEW S, S \subseteq 0..n, S # {}
    PROVE  Greatest(S) \in S /\ \A y \in S : Greatest(S) >= y
<1>1. \E m \in S : \A y \in S : m >= y
  <2> DEFINE T == {k \in 0..n : n - k \in S}
  <2>1. T \subseteq 0..n /\ T # {}
    <3>1. PICK y \in S : TRUE
      OBVIOUS
    <3>2. y \in 0..n /\ n - y \in 0..n /\ n - (n - y) = y
      OBVIOUS
    <3>3. n - y \in T
      BY <3>1, <3>2
    <3>4. QED
      BY <3>3
  <2>2. PICK k \in T : \A y \in T : k <= y
    <3> HIDE DEF T
    <3>1. QED
      BY <2>1, LeastIs
  <2>3. n - k \in S
    BY <2>2
  <2>4. ASSUME NEW y \in S PROVE n - k >= y
    <3>1. y \in 0..n /\ n - y \in 0..n /\ n - (n - y) = y
      OBVIOUS
    <3>2. n - y \in T
      BY <3>1
    <3>3. k <= n - y
      BY <2>2, <3>2
    <3>4. k \in 0..n
      BY <2>1, <2>2
    <3>5. QED
      BY <3>1, <3>3, <3>4
  <2>5. QED
    BY <2>3, <2>4
<1>2. QED
  BY <1>1 DEF Greatest

LEMMA ModSmall == ASSUME NEW d \in Nat, NEW n \in Nat, d < n PROVE d % n = d
  OBVIOUS

-----------------------------------------------------------------------------
(***************************************************************************)
(* Lists of marks.                                                         *)
(***************************************************************************)
LEMMA DescendingAll ==
    ASSUME NEW l \in Seq(Nat), Descending(l)
    PROVE  \A i, j \in 1..Len(l) : i < j => l[i] > l[j]
<1>1. SUFFICES ASSUME NEW i \in 1..Len(l), NEW j \in 1..Len(l), i < j PROVE l[i] > l[j]
  OBVIOUS
<1>2. PICK n \in Nat : n = Len(l)
  OBVIOUS
<1>3. \A k \in 1..n : l[k] \in Nat
  BY <1>2
<1>4. \A k \in 1..n - 1 : l[k] > l[k + 1]
  BY <1>2 DEF Descending
<1> DEFINE S == {k \in 0..n - i : k = 0 \/ l[i] > l[i + k]}
<1>5. ASSUME NEW k \in 1..n - i, k - 1 \in S PROVE k \in S
  <2>1. i + k - 1 \in 1..n - 1 /\ i + k - 1 + 1 = i + k /\ i + k \in 1..n /\ i \in 1..n
    BY <1>1, <1>2
  <2>2. l[i + k - 1] > l[i + k]
    BY <1>4, <2>1
  <2>3. l[i + k - 1] \in Nat /\ l[i + k] \in Nat /\ l[i] \in Nat
    BY <1>3, <2>1
  <2>4. k - 1 = 0 \/ l[i] > l[i + (k - 1)]
    BY <1>5
  <2>5. i + (k - 1) = i + k - 1
    BY <2>1
  <2>6. CASE k = 1
    <3>1. i + k - 1 = i
      BY <2>6, <2>1
    <3>2. l[i] > l[i + k]
      BY <2>2, <3>1
    <3>3. QED
      BY <3>2
  <2>7. CASE k # 1
    <3>1. l[i] > l[i + k - 1]
      BY <2>4, <2>5, <2>7
    <3>2. l[i] > l[i + k]
      BY <3>1, <2>2, <2>3
    <3>3. QED
      BY <3>2
  <2>8. QED
    BY <2>6, <2>7
<1>6. 0 \in S /\ n - i \in Nat
  BY <1>1, <1>2
<1> HIDE DEF S
<1>7. 0..n - i \subseteq S
  BY <1>5, <1>6, Upwards
<1>8. j - i \in S
  BY <1>1, <1>2, <1>7
<1>9. j - i # 0 /\ i + (j - i) = j
  BY <1>1
<1>10. QED
  BY <1>8, <1>9 DEF S

LEMMA PairwiseDescending ==
    ASSUME NEW l \in Seq(Nat), \A i, j \in 1..Len(l) : i < j => l[i] > l[j]
    PROVE  Descending(l)
  BY DEF Descending

(* brc_locate moves the cursor behind the later entries, wherever it was.  *)
LEMMA LocateIs ==
    ASSUME NEW r, r.list \in Seq(Nat), Descending(r.list), r.cur \in Nat, NEW t \in Nat
    PROVE  \E at \in 0..Len(r.list) :
               /\ Locate(r, t).rc = [r EXCEPT !.cur = at]
               /\ Locate(r, t).found <=> at < Len(r.list) /\ r.list[at + 1] = t
               /\ \A i \in 1..Len(r.list) : r.list[i] > t <=> i <= at
<1> DEFINE l == r.list
           num == Len(l)
           c == IF r.cur >= num THEN num - 1 ELSE r.cur
           Down == {i \in c .. num - 1 : t >= At(l, i)} \cup {num}
           Up == {i \in 0 .. c : \/ i = 0 \/ t < At(l, i - 1)
                                 \/ i < c /\ t = At(l, i)}
           at == IF num = 0 THEN 0
                 ELSE IF t <= At(l, c) THEN Least(Down) ELSE Greatest(Up)
<1>1. /\ Locate(r, t).rc = [r EXCEPT !.cur = at]
      /\ Locate(r, t).found <=> at < num /\ t = At(l, at)
  BY DEF Locate
<1>2. PICK n \in Nat : n = num
  OBVIOUS
<1>3. /\ \A i \in 0..n - 1 : l[i + 1] \in Nat /\ At(l, i) = l[i + 1]
      /\ \A i, j \in 0..n - 1 : i < j => At(l, i) > At(l, j)
  <2>1. \A i, j \in 1..n : i < j => l[i] > l[j]
    BY <1>2, DescendingAll
  <2>2. \A i \in 0..n - 1 : i + 1 \in 1..n
    BY <1>2
  <2>3. \A i \in 0..n - 1 : l[i + 1] \in Nat /\ At(l, i) = l[i + 1]
    BY <1>2, <2>2 DEF At
  <2>4. QED
    BY <2>1, <2>2, <2>3
<1>4. at \in 0..n /\ \A i \in 0..n - 1 : At(l, i) > t <=> i < at
  <2>1. CASE n = 0
    <3>1. at = 0
      BY <1>2, <2>1
    <3> HIDE DEF at
    <3>2. QED
      BY <2>1, <3>1
  <2>2. CASE n # 0
    <3>1. c \in 0..n - 1
      BY <1>2, <2>2
    <3>2. at = IF t <= At(l, c) THEN Least(Down) ELSE Greatest(Up)
      BY <1>2, <2>2
    <3>3. Down = {i \in c .. n - 1 : t >= At(l, i)} \cup {n}
      BY <1>2
    <3> HIDE DEF c, num, at, Down
    <3>4. CASE t <= At(l, c)
      <4>1. Down \subseteq 0..n /\ Down # {}
        BY <3>1, <3>3
      <4>2. at \in Down /\ \A y \in Down : at <= y
        BY <3>2, <3>4, <4>1, LeastIs
      <4>3. at \in c..n /\ (at < n => t >= At(l, at))
        BY <3>1, <3>3, <4>2
      <4>4. \A i \in c..n - 1 : i < at => t < At(l, i)
        <5>1. SUFFICES ASSUME NEW i \in c..n - 1, i < at PROVE t < At(l, i)
          OBVIOUS
        <5>2. i \notin Down /\ i \in 0..n - 1
          BY <3>1, <4>2, <4>3, <5>1
        <5>3. At(l, i) \in Nat
          BY <1>3, <5>2
        <5>4. ~(t >= At(l, i))
          BY <3>3, <5>1, <5>2
        <5>5. QED
          BY <5>3, <5>4
      <4>5. ASSUME NEW i \in 0..n - 1 PROVE At(l, i) > t <=> i < at
        <5>1. At(l, i) \in Nat /\ At(l, c) \in Nat
          BY <1>3, <3>1
        <5>2. CASE i < c
          <6>1. At(l, i) > At(l, c)
            BY <1>3, <3>1, <5>2
          <6>2. QED
            BY <3>1, <3>4, <4>3, <5>1, <5>2, <6>1
        <5>3. CASE i >= c /\ i < at
          BY <3>1, <4>4, <5>1, <5>3
        <5>4. CASE i >= at
          <6>1. at \in 0..n - 1 /\ At(l, at) \in Nat
            BY <1>3, <3>1, <4>3, <5>4
          <6>2. t >= At(l, at)
            BY <4>3, <6>1
          <6>3. i = at \/ At(l, at) > At(l, i)
            BY <1>3, <5>4, <6>1
          <6>4. QED
            BY <5>1, <5>4, <6>1, <6>2, <6>3
        <5>5. QED
          BY <3>1, <4>3, <5>2, <5>3, <5>4
      <4>6. QED
        BY <3>1, <4>3, <4>5
    <3>5. CASE ~(t <= At(l, c))
      <4>1. \A i : i \in Up <=> i \in 0..c /\ (i = 0 \/ t < At(l, i - 1) \/ (i < c /\ t = At(l, i)))
        <5> HIDE DEF l
        <5>1. QED
          OBVIOUS
      <4> HIDE DEF Up
      <4>2. Up \subseteq 0..n /\ Up # {}
        <5>1. 0 \in 0..c
          BY <3>1
        <5>2. 0 \in Up
          BY <4>1, <5>1, Zenon
        <5>3. \A i \in Up : i \in 0..c
          BY <4>1
        <5>4. QED
          BY <3>1, <5>2, <5>3
      <4>3. at \in Up /\ \A y \in Up : at >= y
        <5>1. at = Greatest(Up)
          BY <3>2, <3>5
        <5>2. QED
          BY <4>2, <5>1, GreatestIs
      <4>4. at \in 0..c /\ (at = 0 \/ t < At(l, at - 1) \/ (at < c /\ t = At(l, at)))
        BY <4>1, <4>3
      <4>5. At(l, c) \in Nat /\ t > At(l, c)
        BY <1>3, <3>1, <3>5
      <4>6. ASSUME at < c PROVE t >= At(l, at)
        <5>1. PICK k \in 0..c : k = at + 1
          BY <3>1, <4>4, <4>6
        <5>2. k \notin Up
          BY <3>1, <4>3, <4>4, <5>1
        <5>3. \A j : j \in 0..c /\ j \notin Up => ~(t < At(l, j - 1))
          BY <4>1, Zenon
        <5>4. ~(t < At(l, k - 1))
          BY <5>2, <5>3
        <5>5. k - 1 = at
          BY <3>1, <4>4, <5>1
        <5>6. ~(t < At(l, at))
          BY <5>4, <5>5
        <5>7. At(l, at) \in Nat
          BY <1>3, <3>1, <4>4
        <5>8. QED
          BY <5>6, <5>7
      <4>7. at \in 0..n - 1 /\ At(l, at) \in Nat /\ t >= At(l, at)
        <5>1. at \in 0..n - 1
          BY <3>1, <4>4
        <5>2. CASE at = c
          BY <4>5, <5>1, <5>2
        <5>3. CASE at < c
          BY <1>3, <4>6, <5>1, <5>3
        <5>4. QED
          BY <3>1, <4>4, <5>1, <5>2, <5>3
      <4>8. at > 0 => at - 1 \in 0..n - 1 /\ At(l, at - 1) > t
        <5>1. SUFFICES ASSUME at > 0 PROVE at - 1 \in 0..n - 1 /\ At(l, at - 1) > t
          OBVIOUS
        <5>2. at - 1 \in 0..n - 1 /\ At(l, at - 1) \in Nat /\ At(l, at - 1) > At(l, at)
          BY <1>3, <4>7, <5>1
        <5>3. QED
          BY <4>4, <4>7, <5>1, <5>2
      <4>9. ASSUME NEW i \in 0..n - 1 PROVE At(l, i) > t <=> i < at
        <5>1. At(l, i) \in Nat
          BY <1>3
        <5>2. CASE i < at
          <6>1. i = at - 1 \/ At(l, i) > At(l, at - 1)
            BY <1>3, <4>8, <5>2, <4>7
          <6>2. At(l, at - 1) \in Nat /\ At(l, at - 1) > t
            BY <1>3, <4>7, <4>8, <5>2
          <6>3. QED
            BY <5>1, <5>2, <6>1, <6>2
        <5>3. CASE i >= at
          <6>1. i = at \/ At(l, at) > At(l, i)
            BY <1>3, <4>7, <5>3
          <6>2. QED
            BY <4>7, <5>1, <5>3, <6>1
        <5>4. QED
          BY <4>7, <5>2, <5>3
      <4>10. QED
        BY <4>7, <4>9
    <3>6. QED
      BY <3>4, <3>5
  <2>3. QED
    BY <2>1, <2>2
<1>5. \A i \in 1..n : l[i] > t <=> i <= at
  <2>1. SUFFICES ASSUME NEW i \in 1..n PROVE l[i] > t <=> i <= at
    OBVIOUS
  <2>2. i - 1 \in 0..n - 1 /\ i - 1 + 1 = i
    BY <2>1
  <2>3. At(l, i - 1) = l[i]
    BY <1>3, <2>2
  <2> HIDE DEF at
  <2>4. l[i] > t <=> i - 1 < at
    BY <1>4, <2>2, <2>3
  <2>5. QED
    BY <1>4, <2>1, <2>4
<1>6. at < num /\ t = At(l, at) <=> at < num /\ l[at + 1] = t
  BY DEF At
<1> HIDE DEF at
<1>7. QED
  BY <1>1, <1>2, <1>4, <1>5, <1>6

-----------------------------------------------------------------------------
(***************************************************************************)
(* What marking does to a list.                                            *)
(***************************************************************************)
LEMMA OneBrcIs ==
    ASSUME NEW b \in Boards \cup {NoBoard}, NEW l \in Seq(Nat), NEW c \in 0..MaxNum,
           NEW d \in BOOLEAN
    PROVE  /\ OneBrc(b, l, c, d) \in Rc
           /\ OneBrc(b, l, c, d).board = b /\ OneBrc(b, l, c, d).list = l
           /\ OneBrc(b, l, c, d).cur = c /\ OneBrc(b, l, c, d).changed = d
  BY DEF OneBrc, Rc

LEMMA RcIs == ASSUME NEW r \in Rc
              PROVE  /\ r = OneBrc(r.board, r.list, r.cur, r.changed)
                     /\ r.board \in Boards \cup {NoBoard} /\ r.list \in Seq(Nat)
                     /\ r.cur \in 0..MaxNum /\ r.cur \in Nat /\ r.changed \in BOOLEAN
  BY Limits DEF Rc, OneBrc

LEMMA RcMoved ==
    ASSUME NEW r \in Rc, NEW c \in 0..MaxNum
    PROVE  /\ [r EXCEPT !.cur = c] = OneBrc(r.board, r.list, c, r.changed)
           /\ [r EXCEPT !.cur = c] \in Rc /\ [r EXCEPT !.cur = c].cur = c
           /\ [r EXCEPT !.cur = c].list = r.list /\ [r EXCEPT !.cur = c].board = r.board
           /\ [r EXCEPT !.cur = c].changed = r.changed
  BY DEF Rc, OneBrc

LEMMA PartIs ==
    ASSUME NEW S, NEW l \in Seq(S), NEW m \in 1..Len(l) + 1, NEW n \in 0..Len(l)
    PROVE  /\ SubSeq(l, m, n) \in Seq(S)
           /\ Len(SubSeq(l, m, n)) = IF m <= n THEN n - m + 1 ELSE 0
           /\ \A i \in 1..n - m + 1 : SubSeq(l, m, n)[i] = l[m + i - 1]
<1>1. \A i \in m..n : l[i] \in S
  <2>1. SUFFICES ASSUME NEW i \in m..n PROVE l[i] \in S
    OBVIOUS
  <2>2. i \in 1..Len(l)
    BY <2>1
  <2>3. QED
    BY <2>2, ElementOfSeq
<1>2. m \in Int /\ n \in Int
  OBVIOUS
<1>3. QED
  BY <1>1, <1>2, SubSeqProperties

(* A list with t behind the first at entries, and of the others those up   *)
(* to the m-th.                                                            *)
LEMMA SplicedIs ==
    ASSUME NEW l \in Seq(Nat), NEW t \in Nat, NEW at \in 0..Len(l), NEW m \in at..Len(l),
           NEW e, e = SubSeq(l, 1, at) \o <<t>> \o SubSeq(l, at + 1, m)
    PROVE  /\ e \in Seq(Nat) /\ Len(e) = m + 1
           /\ \A i \in 1..m + 1 : e[i] = IF i <= at THEN l[i] ELSE IF i = at + 1 THEN t ELSE l[i - 1]
<1> DEFINE a == SubSeq(l, 1, at)
           b == SubSeq(l, at + 1, m)
           at1 == a \o <<t>>
           e1 == at1 \o b
<1>0. e = e1
  OBVIOUS
<1>1. PICK n \in Nat : n = Len(l)
  OBVIOUS
<1>2. at \in 0..n /\ m \in at..n /\ at + 1 \in 1..n + 1 /\ 1 \in 1..n + 1 /\ m \in 0..n
  BY <1>1
<1>3. a \in Seq(Nat) /\ Len(a) = at /\ \A i \in 1..at : a[i] = l[i]
  <2>1. /\ a \in Seq(Nat) /\ Len(a) = (IF 1 <= at THEN at - 1 + 1 ELSE 0)
        /\ \A i \in 1..at - 1 + 1 : a[i] = l[1 + i - 1]
    BY <1>1, <1>2, PartIs
  <2> HIDE DEF a
  <2>2. QED
    BY <1>2, <2>1
<1>4. b \in Seq(Nat) /\ Len(b) = m - at /\ \A i \in 1..m - at : b[i] = l[at + i]
  <2>1. /\ b \in Seq(Nat) /\ Len(b) = (IF at + 1 <= m THEN m - (at + 1) + 1 ELSE 0)
        /\ \A i \in 1..m - (at + 1) + 1 : b[i] = l[at + 1 + i - 1]
    BY <1>1, <1>2, PartIs
  <2> HIDE DEF b
  <2>2. Len(b) = m - at
    BY <1>2, <2>1
  <2>3. m - (at + 1) + 1 = m - at /\ \A i \in 1..m - at : at + 1 + i - 1 = at + i
    BY <1>2
  <2>4. QED
    BY <2>1, <2>2, <2>3
<1>5. <<t>> \in Seq(Nat) /\ Len(<<t>>) = 1 /\ <<t>>[1] = t
  OBVIOUS
<1> HIDE DEF a, b
<1>6. /\ at1 \in Seq(Nat) /\ Len(at1) = at + 1
      /\ \A i \in 1..at + 1 : at1[i] = IF i <= at THEN l[i] ELSE t
  <2>1. /\ at1 \in Seq(Nat) /\ Len(at1) = Len(a) + Len(<<t>>)
        /\ \A i \in 1..Len(a) + Len(<<t>>) : at1[i] = IF i <= Len(a) THEN a[i] ELSE <<t>>[i - Len(a)]
    BY <1>3, <1>5, ConcatProperties
  <2> HIDE DEF at1
  <2>2. \A i \in 1..at + 1 : ~(i <= at) => i - at = 1
    BY <1>2
  <2>3. \A i \in 1..at + 1 : at1[i] = IF i <= at THEN a[i] ELSE <<t>>[i - at]
    BY <1>3, <1>5, <2>1
  <2>4. \A i \in 1..at + 1 : at1[i] = IF i <= at THEN l[i] ELSE t
    BY <1>2, <1>3, <1>5, <2>2, <2>3
  <2>5. QED
    BY <1>3, <1>5, <2>1, <2>4
<1> HIDE DEF at1
<1>7. /\ e \in Seq(Nat) /\ Len(e) = at + 1 + (m - at)
      /\ \A i \in 1..at + 1 + (m - at) : e[i] = IF i <= at + 1 THEN at1[i] ELSE b[i - (at + 1)]
  <2>1. /\ e1 \in Seq(Nat) /\ Len(e1) = Len(at1) + Len(b)
        /\ \A i \in 1..Len(at1) + Len(b) : e1[i] = IF i <= Len(at1) THEN at1[i] ELSE b[i - Len(at1)]
    BY <1>4, <1>6, ConcatProperties
  <2>2. Len(at1) = at + 1 /\ Len(b) = m - at
    BY <1>4, <1>6
  <2> HIDE DEF e1
  <2>3. QED
    BY <1>0, <2>1, <2>2
<1>8. \A i \in 1..m + 1 : e[i] = IF i <= at THEN l[i] ELSE IF i = at + 1 THEN t ELSE l[i - 1]
  <2>1. SUFFICES ASSUME NEW i \in 1..m + 1
                 PROVE  e[i] = IF i <= at THEN l[i] ELSE IF i = at + 1 THEN t ELSE l[i - 1]
    OBVIOUS
  <2>2. e[i] = IF i <= at + 1 THEN at1[i] ELSE b[i - (at + 1)]
    <3>1. m + 1 = at + 1 + (m - at)
      BY <1>2
    <3>2. i \in 1..at + 1 + (m - at)
      BY <3>1
    <3>3. QED
      BY <1>7, <3>2, Zenon
  <2>3. CASE i <= at + 1
    BY <1>2, <1>6, <2>2, <2>3
  <2>4. CASE i > at + 1
    <3>1. i - (at + 1) \in 1..m - at /\ at + (i - (at + 1)) = i - 1
      BY <1>2, <2>4
    <3>2. b[i - (at + 1)] = l[i - 1]
      BY <1>4, <3>1
    <3>3. QED
      BY <1>2, <2>2, <2>4, <3>2
  <2>5. QED
    BY <1>2, <2>3, <2>4
<1>9. at + 1 + (m - at) = m + 1
  BY <1>2
<1>10. e \in Seq(Nat) /\ Len(e) = m + 1
  BY <1>7, <1>9
<1>11. QED
  BY <1>8, <1>10

(* What that gives when t is at its place.                                 *)
LEMMA SplicedListed ==
    ASSUME NEW l \in Seq(Nat), Listed(l), NEW t \in Nat, NEW at \in 0..Len(l) - 1,
           NEW m \in at..Len(l), m < MaxNum,
           \A i \in 1..Len(l) : l[i] > t <=> i <= at,
           m > at => l[at + 1] # t, m = at \/ m >= Len(l) - 1,
           NEW e \in Seq(Nat), Len(e) = m + 1,
           \A i \in 1..m + 1 : e[i] = IF i <= at THEN l[i] ELSE IF i = at + 1 THEN t ELSE l[i - 1]
    PROVE  Listed(e) /\ \A x \in Nat : ReadIn(l, x) => ReadIn(e, x)
<1>1. PICK n \in Nat : n = Len(l)
  OBVIOUS
<1>2. /\ at \in 0..n - 1 /\ m \in at..n /\ m \in Nat /\ (m = at \/ m >= n - 1) /\ n >= 1
      /\ m + 1 \in 1..MaxNum /\ MaxNum \in Nat
  BY <1>1, Limits
<1>3. /\ \A i \in 1..n : l[i] \in Nat
      /\ \A i, j \in 1..n : i < j => l[i] > l[j]
      /\ \A i \in 1..n : l[i] > t <=> i <= at
  <2>1. \A i, j \in 1..n : i < j => l[i] > l[j]
    BY <1>1, DescendingAll DEF Listed
  <2>2. \A i \in 1..n : l[i] \in Nat
    BY <1>1, ElementOfSeq
  <2>3. \A i \in 1..n : l[i] > t <=> i <= at
    BY <1>1
  <2>4. QED
    BY <2>1, <2>2, <2>3
<1>4. \A i \in 1..m + 1 : e[i] \in Nat
  <2>1. Len(e) = m + 1
    OBVIOUS
  <2>2. QED
    BY <2>1, ElementOfSeq
<1>5. \A i, j \in 1..m + 1 : i < j => e[i] > e[j]
  <2>1. SUFFICES ASSUME NEW i \in 1..m + 1, NEW j \in 1..m + 1, i < j PROVE e[i] > e[j]
    OBVIOUS
  <2>2. /\ e[i] = IF i <= at THEN l[i] ELSE IF i = at + 1 THEN t ELSE l[i - 1]
        /\ e[j] = IF j <= at THEN l[j] ELSE IF j = at + 1 THEN t ELSE l[j - 1]
    OBVIOUS
  <2>3. CASE j <= at
    <3>1. i \in 1..n /\ j \in 1..n
      BY <1>2, <2>1, <2>3
    <3>2. QED
      BY <1>2, <1>3, <2>1, <2>2, <2>3, <3>1
  <2>4. CASE j = at + 1
    <3>1. i \in 1..n /\ i <= at
      BY <1>2, <2>1, <2>4
    <3>2. l[i] > t
      BY <1>3, <3>1
    <3>3. QED
      BY <1>2, <2>2, <2>4, <3>1, <3>2
  <2>5. CASE j > at + 1
    <3>1. j - 1 \in 1..n /\ ~(j - 1 <= at) /\ m > at /\ at + 1 \in 1..n
      BY <1>2, <2>1, <2>5
    <3>2. e[j] = l[j - 1] /\ l[j - 1] \in Nat /\ l[at + 1] \in Nat
      BY <1>2, <1>3, <2>2, <2>5, <3>1
    <3>3. l[at + 1] < t
      BY <1>2, <1>3, <3>1, <3>2
    <3>4. l[j - 1] < t
      <4>1. j - 1 = at + 1 \/ l[at + 1] > l[j - 1]
        BY <1>2, <1>3, <2>5, <3>1
      <4>2. QED
        BY <3>2, <3>3, <4>1
    <3>5. CASE i <= at
      <4>1. i \in 1..n /\ i < j - 1
        BY <1>2, <2>5, <3>5
      <4>2. l[i] > l[j - 1]
        BY <1>3, <3>1, <4>1
      <4>3. QED
        BY <2>2, <3>2, <3>5, <4>2
    <3>6. CASE i = at + 1
      <4>1. ~(i <= at)
        BY <1>2, <3>6
      <4>2. e[i] = t
        BY <2>2, <3>6, <4>1
      <4>3. QED
        BY <3>2, <3>4, <4>2
    <3>7. CASE i > at + 1
      <4>1. i - 1 \in 1..n /\ i - 1 < j - 1
        BY <1>2, <2>1, <3>7
      <4>2. l[i - 1] > l[j - 1]
        BY <1>3, <3>1, <4>1
      <4>3. ~(i <= at) /\ i # at + 1
        BY <1>2, <3>7
      <4>4. e[i] = l[i - 1]
        BY <2>2, <4>3
      <4>5. QED
        BY <3>2, <4>2, <4>4
    <3>8. QED
      BY <1>2, <3>5, <3>6, <3>7
  <2>6. QED
    BY <1>2, <2>3, <2>4, <2>5
<1>6. Listed(e)
  <2>1. Len(e) = m + 1
    OBVIOUS
  <2>2. Descending(e)
    BY <1>5, <2>1, PairwiseDescending
  <2>3. QED
    BY <1>2, <2>1, <2>2 DEF Listed
<1>7. ASSUME NEW x \in Nat, ReadIn(l, x) PROVE ReadIn(e, x)
  <2>1. e # <<>> /\ DOMAIN e = 1..m + 1 /\ e[m + 1] = e[Len(e)]
    <3>1. Len(e) = m + 1 /\ m + 1 # 0
      BY <1>2
    <3>2. QED
      BY <3>1
  <2>2. \A i \in 1..m + 1 : e[i] = x => ReadIn(e, x)
    BY <2>1 DEF ReadIn
  <2>3. x < e[m + 1] => ReadIn(e, x)
    BY <2>1 DEF ReadIn
  <2>4. n = Len(l) /\ n \in 1..n /\ DOMAIN l = 1..n
    BY <1>1, <1>2
  <2>5. (\E i \in 1..n : l[i] = x) \/ x < l[n]
    BY <1>7, <2>4 DEF ReadIn
  <2>6. /\ m + 1 \in 1..m + 1
        /\ e[m + 1] = IF m = at THEN t ELSE l[m]
    <3>1. m + 1 \in 1..m + 1
      BY <1>2
    <3>2. e[m + 1] = IF m + 1 <= at THEN l[m + 1] ELSE IF m + 1 = at + 1 THEN t ELSE l[m + 1 - 1]
      BY <3>1
    <3>3. m + 1 - 1 = m /\ ~(m + 1 <= at) /\ (m + 1 = at + 1 <=> m = at)
      BY <1>2
    <3>4. QED
      BY <3>1, <3>2, <3>3
  <2>7. e[m + 1] \in Nat
    BY <1>4, <2>6
  <2>8. l[n] \in Nat /\ l[n] <= t
    <3>1. ~(n <= at)
      BY <1>2
    <3>2. QED
      BY <1>3, <2>4, <3>1
  <2>9. CASE x < l[n]
    <3>1. CASE m = at
      BY <2>3, <2>6, <2>7, <2>8, <2>9, <3>1
    <3>2. CASE m # at
      <4>1. m \in 1..n /\ (m = n \/ m < n)
        BY <1>2, <3>2
      <4>2. l[m] = l[n] \/ l[m] > l[n]
        BY <1>3, <2>4, <4>1
      <4>3. e[m + 1] = l[m]
        BY <2>6, <3>2
      <4>4. l[m] \in Nat
        BY <1>3, <4>1
      <4>5. x < l[m]
        BY <2>8, <2>9, <4>2, <4>4
      <4>6. QED
        BY <2>3, <4>3, <4>5
    <3>3. QED
      BY <3>1, <3>2
  <2>10. CASE \E i \in 1..n : l[i] = x
    <3>1. PICK i \in 1..n : l[i] = x
      BY <2>10
    <3>2. CASE i <= at
      <4>1. i \in 1..m + 1
        BY <1>2, <3>2
      <4>2. e[i] = l[i]
        BY <3>2, <4>1
      <4>3. QED
        BY <2>2, <3>1, <4>1, <4>2
    <3>3. CASE i > at /\ m = at
      <4>1. x <= t
        BY <1>2, <1>3, <3>1, <3>3
      <4>2. QED
        BY <2>2, <2>3, <2>6, <2>7, <3>3, <4>1
    <3>4. CASE i > at /\ m # at /\ i <= m
      <4>1. i + 1 \in 1..m + 1 /\ ~(i + 1 <= at) /\ i + 1 # at + 1 /\ i + 1 - 1 = i
        BY <1>2, <3>4
      <4>2. e[i + 1] = l[i]
        <5>1. PICK k \in 1..m + 1 : k = i + 1
          BY <4>1
        <5>2. ~(k <= at) /\ k # at + 1 /\ k - 1 = i
          BY <1>2, <3>4, <5>1
        <5>3. e[k] = l[k - 1]
          BY <5>2
        <5>4. QED
          BY <5>1, <5>2, <5>3
      <4>3. QED
        BY <2>2, <3>1, <4>1, <4>2
    <3>5. CASE i > at /\ m # at /\ i > m
      <4>1. m \in 1..n /\ m < i
        BY <1>2, <3>5
      <4>2. l[m] > l[i]
        BY <1>3, <4>1
      <4>3. QED
        BY <2>3, <2>6, <3>1, <3>5, <4>2
    <3>6. QED
      BY <1>2, <3>2, <3>3, <3>4, <3>5
  <2>11. QED
    BY <2>5, <2>9, <2>10
<1>8. QED
  BY <1>6, <1>7

(* Whether an article is new, by what is at the place brc_locate found.    *)
LEMMA ReadAt ==
    ASSUME NEW l \in Seq(Nat), Descending(l), NEW t \in Nat, NEW at \in 0..Len(l),
           \A i \in 1..Len(l) : l[i] > t <=> i <= at
    PROVE  /\ at < Len(l) => (ReadIn(l, t) <=> l[at + 1] = t)
           /\ at = Len(l) => (ReadIn(l, t) <=> l # <<>>)
<1>1. PICK n \in Nat : n = Len(l)
  OBVIOUS
<1>2. /\ DOMAIN l = 1..n /\ at \in 0..n /\ \A i \in 1..n : l[i] \in Nat
      /\ \A i \in 1..n : l[i] > t <=> i <= at
      /\ l # <<>> <=> n # 0
  BY <1>1
<1>3. ReadIn(l, t) <=> n # 0 /\ ((\E i \in 1..n : l[i] = t) \/ t < l[n])
  BY <1>1, <1>2 DEF ReadIn
<1>4. \A i, j \in 1..n : i < j => l[i] > l[j]
  BY <1>1, DescendingAll
<1>5. CASE at < n
  <2>1. PICK k \in 1..n : k = at + 1
    BY <1>2, <1>5
  <2>2. l[k] <= t /\ l[n] <= t /\ l[n] \in Nat /\ l[k] \in Nat
    BY <1>2, <1>5, <2>1
  <2>3. ASSUME NEW i \in 1..n, l[i] = t PROVE i = k
    <3>1. ~(i <= at)
      BY <1>2, <2>3
    <3>2. i = k \/ k < i
      BY <1>2, <2>1, <3>1
    <3>3. k < i => l[k] > l[i]
      BY <1>4
    <3>4. QED
      BY <2>2, <2>3, <3>2, <3>3
  <2>4. n # 0 /\ ~(t < l[n])
    BY <1>2, <1>5, <2>2
  <2>5. ReadIn(l, t) <=> l[k] = t
    BY <1>3, <2>3, <2>4
  <2>6. at # n
    BY <1>2, <1>5
  <2>7. QED
    BY <1>1, <2>1, <2>4, <2>5, <2>6
<1>6. CASE at = n
  <2>1. n # 0 => n \in 1..n /\ l[n] > t /\ l[n] \in Nat
    BY <1>2, <1>6
  <2>2. n # 0 => t < l[n]
    BY <2>1
  <2>3. QED
    BY <1>1, <1>2, <1>3, <1>6, <2>2
<1>7. QED
  BY <1>2, <1>5, <1>6

(* CursorFree *)
LEMMA CursorRight ==
    ASSUME NEW r, r.list \in Seq(Nat), Descending(r.list), r.cur \in Nat, NEW t \in Nat,
           \A c : [r EXCEPT !.cur = c].list = r.list /\ [r EXCEPT !.cur = c].cur = c
    PROVE  Unread(Locate(r, t)) <=> ~ReadIn(r.list, t)
<1>1. PICK at \in 0..Len(r.list) :
          /\ Locate(r, t).rc = [r EXCEPT !.cur = at]
          /\ Locate(r, t).found <=> at < Len(r.list) /\ r.list[at + 1] = t
          /\ \A i \in 1..Len(r.list) : r.list[i] > t <=> i <= at
  BY LocateIs
<1> DEFINE found == Locate(r, t).found
           rc == Locate(r, t).rc
<1>2. rc.list = r.list /\ rc.cur = at
  BY <1>1
<1>3. Unread(Locate(r, t)) <=> ~found /\ (rc.list = <<>> \/ rc.cur < Len(rc.list))
  BY DEF Unread
<1>4. found <=> at < Len(r.list) /\ r.list[at + 1] = t
  BY <1>1
<1> HIDE DEF found, rc
<1>5. Unread(Locate(r, t)) <=> ~found /\ (r.list = <<>> \/ at < Len(r.list))
  BY <1>2, <1>3
<1>6. /\ at < Len(r.list) => (ReadIn(r.list, t) <=> r.list[at + 1] = t)
      /\ at = Len(r.list) => (ReadIn(r.list, t) <=> r.list # <<>>)
  BY <1>1, ReadAt
<1>7. r.list = <<>> <=> Len(r.list) = 0
  OBVIOUS
<1>8. Len(r.list) \in Nat /\ (at < Len(r.list) \/ at = Len(r.list))
  BY <1>1
<1>9. QED
  BY <1>4, <1>5, <1>6, <1>7, <1>8

(* Marking keeps a list in order and forgets nothing.                      *)
Kept1(r, e) ==
    /\ e \in Rc /\ Listed(e.list) /\ e.board = r.board
    /\ \A x \in Nat : ReadIn(r.list, x) => ReadIn(e.list, x)
    /\ e.changed \/ (e.list = r.list /\ ~r.changed)

LEMMA MovedKept ==
    ASSUME NEW r \in Rc, Listed(r.list), NEW c \in 0..MaxNum
    PROVE  Kept1(r, [r EXCEPT !.cur = c])
<1>1. PICK e : e = [r EXCEPT !.cur = c]
  OBVIOUS
<1>2. e \in Rc /\ e.list = r.list /\ e.board = r.board /\ e.changed = r.changed
  BY <1>1, RcMoved
<1>3. r.changed \in BOOLEAN
  BY RcIs
<1>4. Kept1(r, e)
  BY <1>2, <1>3, Zenon DEF Kept1
<1>5. QED
  BY <1>1, <1>4

LEMMA MadeKept ==
    ASSUME NEW r \in Rc, NEW c \in 0..MaxNum, NEW l \in Seq(Nat), Listed(l),
           \A x \in Nat : ReadIn(r.list, x) => ReadIn(l, x)
    PROVE  Kept1(r, OneBrc(r.board, l, c, TRUE))
<1>1. PICK e : e = OneBrc(r.board, l, c, TRUE)
  OBVIOUS
<1>2. e \in Rc /\ e.list = l /\ e.board = r.board /\ e.changed = TRUE
  <2>1. r.board \in Boards \cup {NoBoard}
    BY RcIs
  <2>2. \A b \in Boards \cup {NoBoard} :
            /\ OneBrc(b, l, c, TRUE) \in Rc /\ OneBrc(b, l, c, TRUE).list = l
            /\ OneBrc(b, l, c, TRUE).board = b /\ OneBrc(b, l, c, TRUE).changed = TRUE
    BY DEF OneBrc, Rc
  <2>3. QED
    BY <1>1, <2>1, <2>2, Zenon
<1>3. Kept1(r, e)
  BY <1>2, Zenon DEF Kept1
<1>4. QED
  BY <1>1, <1>3

LEMMA AddKept ==
    ASSUME NEW r \in Rc, Listed(r.list), NEW t \in Nat
    PROVE  Kept1(r, brc_addlistt(r, t))
<1>1. /\ r.list \in Seq(Nat) /\ Descending(r.list) /\ r.cur \in Nat
      /\ Len(r.list) \in 1..MaxNum /\ MaxNum \in Nat
  BY RcIs, Limits DEF Listed
<1>2. PICK at \in 0..Len(r.list) :
          /\ Locate(r, t).rc = [r EXCEPT !.cur = at]
          /\ Locate(r, t).found <=> at < Len(r.list) /\ r.list[at + 1] = t
          /\ \A i \in 1..Len(r.list) : r.list[i] > t <=> i <= at
  BY <1>1, LocateIs
<1>3. at \in 0..MaxNum
  BY <1>1, <1>2
<1>4. PICK rc : rc = Locate(r, t).rc
  OBVIOUS
<1>5. rc = [r EXCEPT !.cur = at] /\ rc.list = r.list /\ rc.cur = at /\ rc.board = r.board
  BY <1>2, <1>3, <1>4, RcMoved
<1>6. Kept1(r, rc)
  BY <1>3, <1>5, MovedKept
<1>7. brc_addlistt(r, t) = IF Unread(Locate(r, t)) THEN Insert(rc, t) ELSE rc
  BY <1>4 DEF brc_addlistt
<1>8. Unread(Locate(r, t)) => at < Len(r.list) /\ r.list[at + 1] # t
  <2>1. Unread(Locate(r, t)) => ~Locate(r, t).found /\ (rc.list = <<>> \/ rc.cur < Len(rc.list))
    BY <1>4 DEF Unread
  <2>2. rc.list # <<>>
    BY <1>1, <1>5
  <2>3. QED
    BY <1>2, <1>5, <2>1, <2>2
<1>9. ASSUME at < Len(r.list), r.list[at + 1] # t PROVE Kept1(r, Insert(rc, t))
  <2> DEFINE num == IF Len(rc.list) < MaxNum THEN Len(rc.list) + 1 ELSE Len(rc.list)
             l == SubSeq(rc.list, 1, rc.cur) \o <<t>> \o SubSeq(rc.list, rc.cur + 1, num - 1)
  <2>1. Insert(rc, t) = IF rc.cur >= num THEN rc ELSE OneBrc(rc.board, l, rc.cur, TRUE)
    BY DEF Insert
  <2>2. PICK m \in Nat : m = num - 1
    BY <1>1, <1>5
  <2>3. /\ m \in at..Len(r.list) /\ m < MaxNum /\ m >= Len(r.list) - 1
        /\ at \in 0..Len(r.list) - 1
    BY <1>1, <1>2, <1>5, <1>9, <2>2
  <2> HIDE DEF num
  <2>4. l = SubSeq(r.list, 1, at) \o <<t>> \o SubSeq(r.list, at + 1, m)
    BY <1>5, <2>2
  <2> HIDE DEF l
  <2>5. /\ l \in Seq(Nat) /\ Len(l) = m + 1
        /\ \A i \in 1..m + 1 : l[i] = IF i <= at THEN r.list[i] ELSE IF i = at + 1 THEN t ELSE r.list[i - 1]
    <3>1. PICK k : k = r.list
      OBVIOUS
    <3>2. k \in Seq(Nat) /\ at \in 0..Len(k) /\ m \in at..Len(k)
      BY <1>1, <1>2, <2>3, <3>1
    <3>3. l = SubSeq(k, 1, at) \o <<t>> \o SubSeq(k, at + 1, m)
      BY <2>4, <3>1, Zenon
    <3>4. /\ l \in Seq(Nat) /\ Len(l) = m + 1
          /\ \A i \in 1..m + 1 : l[i] = IF i <= at THEN k[i] ELSE IF i = at + 1 THEN t ELSE k[i - 1]
      BY <3>2, <3>3, SplicedIs
    <3>5. QED
      BY <3>1, <3>4
  <2>6. Listed(l) /\ \A x \in Nat : ReadIn(r.list, x) => ReadIn(l, x)
    BY <1>1, <1>2, <1>9, <2>3, <2>5, SplicedListed
  <2>7. Kept1(r, OneBrc(r.board, l, at, TRUE))
    BY <1>3, <2>5, <2>6, MadeKept
  <2>8. QED
    BY <1>5, <1>6, <2>1, <2>7, Zenon
<1>10. QED
  BY <1>6, <1>7, <1>8, <1>9, Zenon

LEMMA ClearKept ==
    ASSUME NEW r \in Rc, Listed(r.list), NEW t \in Nat
    PROVE  Kept1(r, brc_clearto(r, t))
<1>1. /\ r.list \in Seq(Nat) /\ Descending(r.list) /\ r.cur \in Nat
      /\ Len(r.list) \in 1..MaxNum /\ MaxNum \in Nat
  BY RcIs, Limits DEF Listed
<1>2. PICK at \in 0..Len(r.list) :
          /\ Locate(r, t).rc = [r EXCEPT !.cur = at]
          /\ \A i \in 1..Len(r.list) : r.list[i] > t <=> i <= at
  BY <1>1, LocateIs
<1>3. at \in 0..MaxNum
  BY <1>1, <1>2
<1>4. PICK rc : rc = Locate(r, t).rc
  OBVIOUS
<1>5. rc = [r EXCEPT !.cur = at] /\ rc.list = r.list /\ rc.cur = at /\ rc.board = r.board
  BY <1>2, <1>3, <1>4, RcMoved
<1>6. Kept1(r, rc)
  BY <1>3, <1>5, MovedKept
<1> DEFINE l == SubSeq(rc.list, 1, rc.cur) \o <<t>>
<1>7. brc_clearto(r, t) = IF rc.list # <<>> /\ rc.cur >= Len(rc.list) THEN rc
                          ELSE OneBrc(rc.board, l, rc.cur, TRUE)
  BY <1>4 DEF brc_clearto, SetLast
<1>8. CASE at = Len(r.list)
  <2>1. rc.list # <<>> /\ rc.cur >= Len(rc.list)
    BY <1>1, <1>5, <1>8
  <2>2. QED
    BY <1>6, <1>7, <2>1, Zenon
<1>9. CASE at < Len(r.list)
  <2>1. ~(rc.cur >= Len(rc.list))
    BY <1>1, <1>2, <1>5, <1>9
  <2>2. /\ at \in at..Len(r.list) /\ at < MaxNum /\ at \in 0..Len(r.list) - 1
    BY <1>1, <1>2, <1>9
  <2>3. l = SubSeq(r.list, 1, at) \o <<t>>
    BY <1>5
  <2> HIDE DEF l
  <2>4. l = l \o SubSeq(r.list, at + 1, at)
    <3>1. SubSeq(r.list, at + 1, at) \in Seq(Nat) /\ Len(SubSeq(r.list, at + 1, at)) = 0
      <4>1. at + 1 \in 1..Len(r.list) + 1 /\ at \in 0..Len(r.list) /\ ~(at + 1 <= at)
        BY <1>1, <1>2
      <4>2. QED
        BY <1>1, <4>1, PartIs
    <3>2. SubSeq(r.list, at + 1, at) = <<>>
      BY <3>1, EmptySeq
    <3>3. l \in Seq(Nat)
      <4>1. SubSeq(r.list, 1, at) \in Seq(Nat)
        <5>1. 1 \in 1..Len(r.list) + 1
          BY <1>1
        <5>2. QED
          BY <1>1, <5>1, PartIs
      <4>2. <<t>> \in Seq(Nat)
        OBVIOUS
      <4>3. QED
        BY <2>3, <4>1, <4>2, ConcatProperties
    <3>4. l \o <<>> = l
      BY <3>3, ConcatEmptySeq
    <3>5. QED
      BY <3>2, <3>4
  <2>5. l = SubSeq(r.list, 1, at) \o <<t>> \o SubSeq(r.list, at + 1, at)
    BY <2>3, <2>4
  <2>6. /\ l \in Seq(Nat) /\ Len(l) = at + 1
        /\ \A i \in 1..at + 1 : l[i] = IF i <= at THEN r.list[i] ELSE IF i = at + 1 THEN t ELSE r.list[i - 1]
    <3>1. PICK k : k = r.list
      OBVIOUS
    <3>2. k \in Seq(Nat) /\ at \in 0..Len(k) /\ at \in at..Len(k)
      BY <1>1, <1>2, <2>2, <3>1
    <3>3. l = SubSeq(k, 1, at) \o <<t>> \o SubSeq(k, at + 1, at)
      BY <2>5, <3>1, Zenon
    <3>4. /\ l \in Seq(Nat) /\ Len(l) = at + 1
          /\ \A i \in 1..at + 1 : l[i] = IF i <= at THEN k[i] ELSE IF i = at + 1 THEN t ELSE k[i - 1]
      BY <3>2, <3>3, SplicedIs
    <3>5. QED
      BY <3>1, <3>4
  <2>7. Listed(l) /\ \A x \in Nat : ReadIn(r.list, x) => ReadIn(l, x)
    <3>1. ~(at > at)
      BY <1>2
    <3>2. QED
      BY <1>1, <1>2, <2>2, <2>6, <3>1, SplicedListed
  <2>8. Kept1(r, OneBrc(r.board, l, at, TRUE))
    BY <1>3, <2>6, <2>7, MadeKept
  <2>9. QED
    BY <1>5, <1>7, <2>1, <2>8, Zenon
<1>10. QED
  BY <1>2, <1>8, <1>9

-----------------------------------------------------------------------------
(***************************************************************************)
(* Sums.                                                                   *)
(***************************************************************************)
SumsTo(w, s, n) ==
    s \in [0..n -> Nat] /\ s[0] = 0 /\ \A i \in 1..n : s[i] = s[i - 1] + w[i]

LEMMA SumsExist ==
    ASSUME NEW n \in Nat, NEW w, \A i \in 1..n : w[i] \in Nat
    PROVE  \E s : SumsTo(w, s, n)
<1> DEFINE S == {m \in 0..n : \E s : SumsTo(w, s, m)}
<1>1. 0 \in S
  <2>1. SumsTo(w, [i \in 0..0 |-> 0], 0)
    BY DEF SumsTo
  <2>2. QED
    BY <2>1
<1>2. ASSUME NEW m \in 1..n, m - 1 \in S PROVE m \in S
  <2>1. PICK s : SumsTo(w, s, m - 1)
    BY <1>2
  <2> DEFINE t == [i \in 0..m |-> IF i = m THEN s[m - 1] + w[m] ELSE s[i]]
  <2>2. /\ s \in [0..m - 1 -> Nat] /\ s[0] = 0 /\ m \in Nat
        /\ \A i \in 1..m - 1 : s[i] = s[i - 1] + w[i]
    BY <2>1 DEF SumsTo
  <2>3. \A i \in 0..m : i = m \/ (i # m /\ i \in 0..m - 1)
    BY <2>2
  <2>4. t \in [0..m -> Nat] /\ t[m] = s[m - 1] + w[m] /\ \A i \in 0..m - 1 : t[i] = s[i]
    <3>1. s[m - 1] \in Nat /\ w[m] \in Nat
      BY <2>2
    <3>2. QED
      BY <2>2, <2>3, <3>1
  <2> HIDE DEF t
  <2>5. SumsTo(w, t, m)
    <3>1. t[0] = 0
      BY <2>2, <2>4
    <3>2. ASSUME NEW i \in 1..m PROVE t[i] = t[i - 1] + w[i]
      <4>1. i - 1 \in 0..m - 1 /\ (i = m \/ i \in 1..m - 1)
        BY <2>2
      <4>2. QED
        BY <2>2, <2>4, <4>1
    <3>3. QED
      BY <2>4, <3>1, <3>2 DEF SumsTo
  <2>6. QED
    BY <2>5
<1> HIDE DEF S
<1>3. 0..n \subseteq S
  BY <1>1, <1>2, Upwards
<1>4. QED
  BY <1>3 DEF S

LEMMA SumsAgree ==
    ASSUME NEW n \in Nat, NEW v, NEW w, NEW s, NEW t, SumsTo(v, s, n), SumsTo(w, t, n),
           \A i \in 1..n : v[i] = w[i]
    PROVE  s[n] = t[n]
<1> DEFINE S == {i \in 0..n : s[i] = t[i]}
<1>1. 0 \in S
  BY DEF SumsTo
<1>2. ASSUME NEW i \in 1..n, i - 1 \in S PROVE i \in S
  BY <1>2 DEF SumsTo
<1> HIDE DEF S
<1>3. 0..n \subseteq S
  BY <1>1, <1>2, Upwards
<1>4. QED
  BY <1>3 DEF S

LEMMA SumsBound ==
    ASSUME NEW n \in Nat, NEW w, NEW s, SumsTo(w, s, n), \A i \in 1..n : w[i] \in 1..4
    PROVE  s[n] <= 4 * n
<1> DEFINE S == {i \in 0..n : s[i] <= 4 * i}
<1>1. 0 \in S
  BY DEF SumsTo
<1>2. ASSUME NEW i \in 1..n, i - 1 \in S PROVE i \in S
  <2>1. s[i] = s[i - 1] + w[i] /\ s[i - 1] \in Nat /\ w[i] \in 1..4 /\ s[i - 1] <= 4 * (i - 1)
    BY <1>2 DEF SumsTo
  <2>2. QED
    BY <2>1
<1> HIDE DEF S
<1>3. 0..n \subseteq S
  BY <1>1, <1>2, Upwards
<1>4. QED
  BY <1>3 DEF S

LEMMA SizeOfIs ==
    ASSUME NEW d \in Seq(Block_c), NEW n \in Nat, n = Len(d), NEW w,
           \A i \in 1..n : w[i] = d[i].len, NEW s, SumsTo(w, s, n)
    PROVE  SizeOf(d) = s[n]
<1> DEFINE F(f, i) == IF i = 0 THEN 0 ELSE f[i - 1] + d[i].len
           Sum == CHOOSE f : f = [i \in 0..Len(d) |-> F(f, i)]
<1>1. s = [i \in 0..n |-> F(s, i)]
  <2>1. s = [i \in 0..n |-> s[i]] /\ \A i \in 0..n : s[i] = F(s, i)
    BY DEF SumsTo
  <2> HIDE DEF F
  <2>2. QED
    BY <2>1
<1>2. Sum = [i \in 0..n |-> F(Sum, i)]
  <2> HIDE DEF F
  <2>1. s = [i \in 0..Len(d) |-> F(s, i)]
    BY <1>1
  <2>2. QED
    BY <2>1
<1>3. SizeOf(d) = Sum[n]
  BY DEF SizeOf
<1>4. \A i \in 0..n : Sum[i] = F(Sum, i) /\ s[i] = F(s, i)
  <2>1. \A i \in 0..n : s[i] = F(s, i)
    <3> HIDE DEF F, Sum
    <3>1. QED
      BY <1>1
  <2>2. \A i \in 0..n : Sum[i] = F(Sum, i)
    <3> HIDE DEF F, Sum
    <3>1. QED
      BY <1>2
  <2> HIDE DEF F, Sum
  <2>3. QED
    BY <2>1, <2>2
<1> DEFINE S == {i \in 0..n : Sum[i] = s[i]}
<1>5. 0 \in S
  <2> HIDE DEF Sum
  <2>1. QED
    BY <1>4
<1>6. ASSUME NEW i \in 1..n, i - 1 \in S PROVE i \in S
  <2>1. i # 0 /\ Sum[i - 1] = s[i - 1] /\ i \in 0..n
    BY <1>6
  <2> HIDE DEF Sum
  <2>2. QED
    BY <1>4, <2>1
<1> HIDE DEF S, Sum, F
<1>7. 0..n \subseteq S
  BY <1>5, <1>6, Upwards
<1>8. QED
  BY <1>3, <1>7 DEF S

LEMMA LensAre ==
    ASSUME NEW d \in Seq(Block_c)
    PROVE  Len(d) \in Nat /\ DOMAIN d = 1..Len(d) /\ \A i \in 1..Len(d) : d[i] \in Block_c /\ d[i].len \in Nat
<1>1. Len(d) \in Nat /\ DOMAIN d = 1..Len(d) /\ \A i \in 1..Len(d) : d[i] \in Block_c
  OBVIOUS
<1>2. \A c \in Block_c : c.len \in Nat
  BY DEF Block_c
<1>3. QED
  BY <1>1, <1>2

LEMMA SizeSums ==
    ASSUME NEW d \in Seq(Block_c)
    PROVE  \E s : SumsTo([i \in 1..Len(d) |-> d[i].len], s, Len(d)) /\ SizeOf(d) = s[Len(d)]
<1>1. PICK n \in Nat : n = Len(d)
  BY LensAre
<1> DEFINE w == [i \in 1..n |-> d[i].len]
<1>2. \A i \in 1..n : w[i] = d[i].len /\ w[i] \in Nat
  BY <1>1, LensAre
<1> HIDE DEF w
<1>3. PICK s : SumsTo(w, s, n)
  BY <1>2, SumsExist
<1>4. SizeOf(d) = s[n]
  BY <1>1, <1>2, <1>3, SizeOfIs
<1>5. QED
  BY <1>1, <1>3, <1>4 DEF w

LEMMA SizeInNat == ASSUME NEW d \in Seq(Block_c) PROVE SizeOf(d) \in Nat
<1>1. PICK s : SumsTo([i \in 1..Len(d) |-> d[i].len], s, Len(d)) /\ SizeOf(d) = s[Len(d)]
  BY SizeSums
<1>2. s[Len(d)] \in Nat
  BY <1>1, LensAre DEF SumsTo
<1>3. QED
  BY <1>1, <1>2

LEMMA SizeEmpty == SizeOf(<<>>) = 0
<1>1. <<>> \in Seq(Block_c) /\ Len(<<>>) = 0
  OBVIOUS
<1>2. PICK s : SumsTo([i \in 1..Len(<<>>) |-> <<>>[i].len], s, Len(<<>>)) /\ SizeOf(<<>>) = s[Len(<<>>)]
  BY <1>1, SizeSums
<1>3. QED
  BY <1>1, <1>2 DEF SumsTo

LEMMA SizeAppended ==
    ASSUME NEW d \in Seq(Block_c), NEW c \in Block_c
    PROVE  /\ Append(d, c) \in Seq(Block_c) /\ SizeOf(Append(d, c)) = SizeOf(d) + c.len
<1>1. PICK e \in Seq(Block_c) : e = Append(d, c)
  BY AppendProperties
<1>2. PICK n \in Nat : n = Len(d)
  BY LensAre
<1>3. /\ Len(e) = n + 1 /\ n + 1 \in Nat
      /\ \A i \in 1..n + 1 : e[i] = IF i = n + 1 THEN c ELSE d[i]
  BY <1>1, <1>2
<1> DEFINE v == [i \in 1..n |-> d[i].len]
           w == [i \in 1..n + 1 |-> e[i].len]
<1>4. PICK s : SumsTo(v, s, n) /\ SizeOf(d) = s[n]
  BY <1>2, SizeSums
<1>5. PICK t : SumsTo(w, t, n + 1) /\ SizeOf(e) = t[n + 1]
  BY <1>3, SizeSums
<1>6. \A i \in 1..n : v[i] = w[i]
  BY <1>2, <1>3
<1>7. w[n + 1] = c.len
  BY <1>3
<1> HIDE DEF v, w
<1> DEFINE t0 == [i \in 0..n |-> t[i]]
<1>8. /\ t \in [0..n + 1 -> Nat] /\ t[0] = 0 /\ t[n + 1] = t[n + 1 - 1] + w[n + 1]
      /\ \A i \in 1..n : t[i] = t[i - 1] + w[i]
  BY <1>5 DEF SumsTo
<1>9. SumsTo(w, t0, n)
  BY <1>8 DEF SumsTo
<1>10. t0[n] = t[n]
  OBVIOUS
<1> HIDE DEF t0
<1>11. s[n] = t[n]
  BY <1>4, <1>6, <1>9, <1>10, SumsAgree
<1>12. n + 1 - 1 = n
  OBVIOUS
<1>13. QED
  BY <1>1, <1>4, <1>5, <1>7, <1>8, <1>11, <1>12

LEMMA SizeConcat ==
    ASSUME NEW d \in Seq(Block_c), NEW e \in Seq(Block_c)
    PROVE  d \o e \in Seq(Block_c) /\ SizeOf(d \o e) = SizeOf(d) + SizeOf(e)
<1> DEFINE S == {k \in 0..Len(e) : SizeOf(d \o SubSeq(e, 1, k)) = SizeOf(d) + SizeOf(SubSeq(e, 1, k))}
<1>1. PICK n \in Nat : n = Len(e)
  BY LensAre
<1>2. SubSeq(e, 1, 0) = <<>> /\ SubSeq(e, 1, n) = e
  <2>1. 1 \in 1..Len(e) + 1 /\ 0 \in 0..Len(e) /\ ~(1 <= 0)
    BY <1>1
  <2>2. SubSeq(e, 1, 0) \in Seq(Block_c) /\ Len(SubSeq(e, 1, 0)) = 0
    BY <2>1, PartIs
  <2>3. SubSeq(e, 1, Len(e)) = e
    BY SubSeqFull
  <2>4. QED
    BY <1>1, <2>2, <2>3, EmptySeq
<1>3. 0 \in S
  <2>1. d \o <<>> = d
    BY ConcatEmptySeq
  <2>2. SizeOf(d) \in Nat
    BY SizeInNat
  <2>3. SizeOf(d \o SubSeq(e, 1, 0)) = SizeOf(d) + SizeOf(SubSeq(e, 1, 0))
    <3>1. SizeOf(d) = SizeOf(d) + 0
      BY <2>2
    <3>2. QED
      BY <1>2, <2>1, <3>1, SizeEmpty, Zenon
  <2>4. QED
    BY <1>1, <2>3
<1>4. ASSUME NEW k \in 1..n, k - 1 \in S PROVE k \in S
  <2>1. PICK a \in Seq(Block_c) : a = SubSeq(e, 1, k - 1)
    <3>1. 1 \in 1..Len(e) + 1 /\ k - 1 \in 0..Len(e)
      BY <1>1, <1>4
    <3>2. QED
      BY <3>1, PartIs
  <2>2. e[k] \in Block_c /\ e[k].len \in Nat
    BY <1>1, <1>4, LensAre
  <2>3. SubSeq(e, 1, k) = Append(a, e[k])
    <3>1. 1 \in 1..Len(e) /\ k \in 1..Len(e)
      BY <1>1, <1>4
    <3>2. SubSeq(e, 1, k) = SubSeq(e, 1, k - 1) \o <<e[k]>>
      BY <3>1, SubSeqRecursiveSecond
    <3>3. Append(a, e[k]) = a \o <<e[k]>>
      BY <2>1, <2>2, AppendIsConcat
    <3>4. QED
      BY <2>1, <3>2, <3>3, Zenon
  <2>4. d \o SubSeq(e, 1, k) = Append(d \o a, e[k])
    <3>1. Append(a, e[k]) = a \o <<e[k]>> /\ <<e[k]>> \in Seq(Block_c)
      BY <2>1, <2>2, AppendIsConcat
    <3>2. d \o a \in Seq(Block_c)
      BY <2>1, ConcatProperties
    <3>3. Append(d \o a, e[k]) = (d \o a) \o <<e[k]>>
      BY <2>2, <3>2, AppendIsConcat
    <3>4. d \o (a \o <<e[k]>>) = (d \o a) \o <<e[k]>>
      <4>1. PICK x \in Seq(Block_c) : x = <<e[k]>>
        BY <3>1
      <4>2. d \o (a \o x) = (d \o a) \o x
        BY <2>1, ConcatAssociative
      <4>3. QED
        BY <4>1, <4>2, Zenon
    <3>5. QED
      BY <2>3, <3>1, <3>3, <3>4
  <2>5. d \o a \in Seq(Block_c)
    BY <2>1, ConcatProperties
  <2>6. SizeOf(d \o a) = SizeOf(d) + SizeOf(a)
    BY <1>4, <2>1
  <2>7. /\ SizeOf(Append(d \o a, e[k])) = SizeOf(d \o a) + e[k].len
        /\ SizeOf(Append(a, e[k])) = SizeOf(a) + e[k].len
    BY <2>1, <2>2, <2>5, SizeAppended
  <2>8. SizeOf(d) \in Nat /\ SizeOf(a) \in Nat
    BY <2>1, SizeInNat
  <2>9. SizeOf(d \o SubSeq(e, 1, k)) = SizeOf(d) + SizeOf(SubSeq(e, 1, k))
    <3>1. SizeOf(Append(d \o a, e[k])) = SizeOf(d) + SizeOf(Append(a, e[k]))
      <4>1. \A x, y, z \in Nat : (x + y) + z = x + (y + z)
        OBVIOUS
      <4>2. (SizeOf(d) + SizeOf(a)) + e[k].len = SizeOf(d) + (SizeOf(a) + e[k].len)
        BY <2>2, <2>8, <4>1, Zenon
      <4>3. QED
        BY <2>6, <2>7, <4>2, Zenon
    <3>2. QED
      BY <2>3, <2>4, <3>1, Zenon
  <2>10. QED
    BY <1>1, <2>9
<1> HIDE DEF S
<1>5. 0..n \subseteq S
  BY <1>3, <1>4, Upwards
<1>6. n \in S
  BY <1>5
<1>7. QED
  BY <1>2, <1>6, ConcatProperties DEF S

-----------------------------------------------------------------------------
(***************************************************************************)
(* The compressed form of a list.                                          *)
(***************************************************************************)
LEMMA UncompressIs ==
    ASSUME NEW c, NEW n \in Nat, n = Len(c.diffs), NEW l \in Seq(Nat), Len(l) = n + 1,
           l[1] = c.first, \A i \in 2..n + 1 : l[i] = l[i - 1] - c.diffs[i - 1].value
    PROVE  uncompress_brc(c) = l
<1> DEFINE F(f, i) == IF i = 1 THEN c.first ELSE f[i - 1] - c.diffs[i - 1].value
           list == CHOOSE f : f = [i \in 1..Len(c.diffs) + 1 |-> F(f, i)]
<1>1. l = [i \in 1..n + 1 |-> l[i]]
  OBVIOUS
<1>2. l = [i \in 1..Len(c.diffs) + 1 |-> F(l, i)]
  <2>1. \A i \in 1..n + 1 : l[i] = F(l, i)
    <3>1. SUFFICES ASSUME NEW i \in 1..n + 1 PROVE l[i] = F(l, i)
      OBVIOUS
    <3>2. i = 1 \/ (i # 1 /\ i \in 2..n + 1)
      OBVIOUS
    <3>3. QED
      BY <3>2
  <2> HIDE DEF F
  <2>2. QED
    BY <1>1, <2>1
<1>3. list = [i \in 1..n + 1 |-> F(list, i)]
  <2> HIDE DEF F
  <2>1. QED
    BY <1>2
<1>4. uncompress_brc(c) = [i \in 1..n + 1 |-> list[i]]
  BY DEF uncompress_brc
<1>5. \A i \in 1..n + 1 : list[i] = F(list, i) /\ l[i] = F(l, i)
  <2>1. \A i \in 1..n + 1 : list[i] = F(list, i)
    <3> HIDE DEF F, list
    <3>1. QED
      BY <1>3
  <2>2. \A i \in 1..n + 1 : l[i] = F(l, i)
    <3> HIDE DEF F, list
    <3>1. QED
      BY <1>2
  <2> HIDE DEF F, list
  <2>3. QED
    BY <2>1, <2>2
<1> DEFINE S == {k \in 0..n : list[k + 1] = l[k + 1]}
<1>6. 0 \in S
  <2>1. 0 + 1 = 1 /\ 1 \in 1..n + 1
    OBVIOUS
  <2>2. list[1] = l[1]
    <3> HIDE DEF list
    <3>1. QED
      BY <1>5, <2>1
  <2> HIDE DEF list
  <2>3. QED
    BY <2>1, <2>2
<1>7. ASSUME NEW k \in 1..n, k - 1 \in S PROVE k \in S
  <2>1. PICK j \in 1..n + 1 : j = k + 1
    BY <1>7
  <2>2. j # 1 /\ j - 1 = k /\ k - 1 + 1 = k
    BY <2>1
  <2> HIDE DEF list
  <2>3. list[k] = l[k]
    BY <1>7, <2>2
  <2>4. list[j] = list[j - 1] - c.diffs[j - 1].value /\ l[j] = l[j - 1] - c.diffs[j - 1].value
    BY <1>5, <2>2
  <2>5. list[j] = l[j]
    BY <2>2, <2>3, <2>4
  <2>6. QED
    BY <2>1, <2>5
<1> HIDE DEF S, list, F
<1>8. 0..n \subseteq S
  BY <1>6, <1>7, Upwards
<1>9. \A i \in 1..n + 1 : list[i] = l[i]
  <2>1. SUFFICES ASSUME NEW i \in 1..n + 1 PROVE list[i] = l[i]
    OBVIOUS
  <2>2. i - 1 \in 0..n /\ i - 1 + 1 = i
    BY <2>1
  <2>3. i - 1 \in S
    BY <1>8, <2>2
  <2>4. list[i - 1 + 1] = l[i - 1 + 1]
    BY <2>3 DEF S
  <2>5. QED
    BY <2>2, <2>4
<1>10. QED
  BY <1>1, <1>4, <1>9

LEMMA DiffIs ==
    ASSUME NEW d \in Nat
    PROVE  Diff(d) \in [width : 1..4, value : Nat] /\ Diff(d).width \in 1..4 /\ Diff(d).value = d
<1>1. PICK x \in Nat : x = Byte
  BY Limits
<1>2. PICK y \in Nat : y = Byte * Byte
  BY <1>1
<1>3. PICK z \in Nat : z = Byte * Byte * Byte
  BY <1>1, <1>2
<1>4. Limit[1] = x /\ Limit[2] = y /\ Limit[3] = z
  BY <1>1, <1>2, <1>3 DEF Limit
<1>5. Width(d) = IF d < x THEN 1 ELSE IF d < y THEN 2 ELSE IF d < z THEN 3 ELSE 4
  BY <1>4 DEF Width
<1>6. Width(d) \in 1..4 /\ (Width(d) # 4 => d < Limit[Width(d)] /\ Limit[Width(d)] \in Nat)
  BY <1>4, <1>5
<1>7. Width(d) # 4 => d % Limit[Width(d)] = d
  BY <1>6, ModSmall
<1>8. (IF Width(d) = 4 THEN d ELSE d % Limit[Width(d)]) = d
  BY <1>7
<1>9. Diff(d) = [width |-> Width(d), value |-> d]
  BY <1>8, Zenon DEF Diff
<1>10. QED
  BY <1>6, <1>9

LEMMA BlockLenIs ==
    ASSUME NEW f, NEW n \in Nat, n = Len(f), NEW s, NEW w, \A i \in 1..n : w[i] = f[i].width,
           SumsTo(w, s, n)
    PROVE  BlockLen(f) = HeadLen + (2 * n + 7) \div 8 + s[n]
<1> DEFINE F(g, i) == IF i = 0 THEN 0 ELSE g[i - 1] + f[i].width
           Sum == CHOOSE g : g = [i \in 0..Len(f) |-> F(g, i)]
<1>1. s = [i \in 0..n |-> F(s, i)]
  <2>1. s = [i \in 0..n |-> s[i]] /\ \A i \in 0..n : s[i] = F(s, i)
    BY DEF SumsTo
  <2> HIDE DEF F
  <2>2. QED
    BY <2>1
<1>2. Sum = [i \in 0..n |-> F(Sum, i)]
  <2> HIDE DEF F
  <2>1. s = [i \in 0..Len(f) |-> F(s, i)]
    BY <1>1
  <2>2. QED
    BY <2>1
<1>3. BlockLen(f) = HeadLen + (2 * n + 7) \div 8 + Sum[n]
  <2>1. BlockLen(f) = HeadLen + (2 * Len(f) + 7) \div 8 + Sum[Len(f)]
    BY DEF BlockLen
  <2> HIDE DEF Sum
  <2>2. QED
    BY <2>1
<1>4. \A i \in 0..n : Sum[i] = F(Sum, i) /\ s[i] = F(s, i)
  <2>1. \A i \in 0..n : s[i] = F(s, i)
    <3> HIDE DEF F, Sum
    <3>1. QED
      BY <1>1
  <2>2. \A i \in 0..n : Sum[i] = F(Sum, i)
    <3> HIDE DEF F, Sum
    <3>1. QED
      BY <1>2
  <2> HIDE DEF F, Sum
  <2>3. QED
    BY <2>1, <2>2
<1> DEFINE S == {i \in 0..n : Sum[i] = s[i]}
<1>5. 0 \in S
  <2> HIDE DEF Sum
  <2>1. QED
    BY <1>4
<1>6. ASSUME NEW i \in 1..n, i - 1 \in S PROVE i \in S
  <2>1. i # 0 /\ Sum[i - 1] = s[i - 1] /\ i \in 0..n
    BY <1>6
  <2> HIDE DEF Sum
  <2>2. QED
    BY <1>4, <2>1
<1> HIDE DEF S, Sum, F
<1>7. 0..n \subseteq S
  BY <1>5, <1>6, Upwards
<1>8. QED
  BY <1>3, <1>7 DEF S

(* A block is as long as its list allows at most.                          *)
Longest == HeadLen + (2 * (MaxNum - 1) + 7) \div 8 + 4 * (MaxNum - 1)

LEMMA BlockFits ==
    ASSUME NEW f, NEW n \in Nat, n = Len(f), n < MaxNum, \A i \in 1..n : f[i].width \in 1..4
    PROVE  BlockLen(f) \in Nat /\ BlockLen(f) >= HeadLen /\ BlockLen(f) <= Longest
<1> DEFINE w == [i \in 1..n |-> f[i].width]
<1>1. \A i \in 1..n : w[i] = f[i].width /\ w[i] \in 1..4
  OBVIOUS
<1> HIDE DEF w
<1>2. \A i \in 1..n : w[i] \in Nat
  BY <1>1
<1>3. PICK s : SumsTo(w, s, n)
  BY <1>2, SumsExist
<1>4. s[n] \in Nat /\ s[n] <= 4 * n
  <2>1. s[n] <= 4 * n
    BY <1>1, <1>3, SumsBound
  <2>2. s[n] \in Nat
    BY <1>3 DEF SumsTo
  <2>3. QED
    BY <2>1, <2>2
<1>5. BlockLen(f) = HeadLen + (2 * n + 7) \div 8 + s[n]
  BY <1>1, <1>3, BlockLenIs
<1>6. PICK m \in Nat : m = MaxNum - 1
  BY Limits
<1>7. n <= m
  BY <1>6, Limits
<1>8. (2 * n + 7) \div 8 \in Nat /\ (2 * m + 7) \div 8 \in Nat /\ (2 * n + 7) \div 8 <= (2 * m + 7) \div 8
  BY <1>7
<1>9. 4 * n <= 4 * m
  BY <1>7
<1>10. Longest = HeadLen + (2 * m + 7) \div 8 + 4 * m
  BY <1>6 DEF Longest
<1>11. PICK x \in Nat : x = (2 * n + 7) \div 8
  BY <1>8
<1>12. PICK y \in Nat : y = (2 * m + 7) \div 8
  BY <1>8
<1>13. BlockLen(f) = HeadLen + x + s[n] /\ Longest = HeadLen + y + 4 * m /\ x <= y
  BY <1>5, <1>8, <1>10, <1>11, <1>12
<1>14. QED
  BY <1>4, <1>9, <1>13, Limits

(* What is compressed comes out as it was.                                 *)
LEMMA CompressIs ==
    ASSUME NEW b \in Boards, NEW l, Listed(l)
    PROVE  /\ compress_brc(b, l) \in Block_c /\ compress_brc(b, l).board = b
           /\ uncompress_brc(compress_brc(b, l)) = l
           /\ compress_brc(b, l).len = BlockLen(compress_brc(b, l).diffs)
           /\ compress_brc(b, l).len <= Longest
<1>1. l \in Seq(Nat) /\ Len(l) \in 1..MaxNum /\ Descending(l)
  BY DEF Listed
<1>2. PICK n \in Nat : n = Len(l) - 1
  BY <1>1
<1>3. /\ n + 1 = Len(l) /\ n < MaxNum
      /\ \A i \in 1..n + 1 : l[i] \in Nat
      /\ \A i \in 1..n : l[i] - l[i + 1] \in Nat
  <2>1. n + 1 = Len(l) /\ n < MaxNum
    BY <1>1, <1>2, Limits
  <2>2. \A i \in 1..n + 1 : l[i] \in Nat
    BY <1>1, <2>1
  <2>3. \A i \in 1..n : l[i] > l[i + 1]
    BY <1>1, <1>2 DEF Descending
  <2>4. ASSUME NEW i \in 1..n PROVE l[i] - l[i + 1] \in Nat
    <3>1. PICK j \in 1..n + 1 : j = i + 1
      OBVIOUS
    <3>2. i \in 1..n + 1
      OBVIOUS
    <3>3. l[i] \in Nat /\ l[j] \in Nat /\ l[i] > l[j]
      BY <2>2, <2>3, <3>1, <3>2
    <3>4. QED
      BY <3>1, <3>3
  <2>5. QED
    BY <2>1, <2>2, <2>4
<1> DEFINE diffs == [i \in 1..n |-> Diff(l[i] - l[i + 1])]
           c == [board |-> b, len |-> BlockLen(diffs), first |-> l[1], diffs |-> diffs]
<1>4. compress_brc(b, l) = c
  BY <1>2 DEF compress_brc
<1>5. /\ diffs \in Seq([width : 1..4, value : Nat]) /\ Len(diffs) = n
      /\ \A i \in 1..n : diffs[i].width \in 1..4 /\ diffs[i].value = l[i] - l[i + 1]
  <2>1. \A i \in 1..n : diffs[i] = Diff(l[i] - l[i + 1])
    OBVIOUS
  <2>2. \A i \in 1..n : /\ Diff(l[i] - l[i + 1]) \in [width : 1..4, value : Nat]
                        /\ Diff(l[i] - l[i + 1]).width \in 1..4
                        /\ Diff(l[i] - l[i + 1]).value = l[i] - l[i + 1]
    BY <1>3, DiffIs
  <2>3. diffs = [i \in 1..n |-> diffs[i]]
    OBVIOUS
  <2> HIDE DEF diffs
  <2>4. \A i \in 1..n : diffs[i] \in [width : 1..4, value : Nat]
    BY <2>1, <2>2
  <2>5. diffs \in [1..n -> [width : 1..4, value : Nat]]
    BY <2>3, <2>4
  <2>6. \A S : diffs \in [1..n -> S] => diffs \in Seq(S) /\ Len(diffs) = n
    BY <2>3
  <2>7. diffs \in Seq([width : 1..4, value : Nat]) /\ Len(diffs) = n
    BY <2>5, <2>6, Zenon
  <2>8. QED
    BY <2>1, <2>2, <2>7
<1> HIDE DEF diffs
<1>6. c.board = b /\ c.len = BlockLen(diffs) /\ c.first = l[1] /\ c.diffs = diffs
  OBVIOUS
<1>7. BlockLen(diffs) \in Nat /\ BlockLen(diffs) <= Longest
  BY <1>3, <1>5, BlockFits
<1>8. l[1] \in Nat
  BY <1>3
<1>9. c \in Block_c
  BY <1>5, <1>7, <1>8 DEF Block_c
<1> HIDE DEF c
<1>10. \A i \in 2..n + 1 : l[i] = l[i - 1] - c.diffs[i - 1].value
  <2>1. SUFFICES ASSUME NEW i \in 2..n + 1 PROVE l[i] = l[i - 1] - c.diffs[i - 1].value
    OBVIOUS
  <2>2. PICK k \in 1..n : k = i - 1
    OBVIOUS
  <2>3. k + 1 = i /\ k \in 1..n + 1
    BY <2>2
  <2>4. c.diffs[k].value = l[k] - l[k + 1]
    BY <1>5, <1>6
  <2>5. l[k] \in Nat /\ l[i] \in Nat
    BY <1>3, <2>3
  <2>6. QED
    BY <2>2, <2>3, <2>4, <2>5
<1>11. uncompress_brc(c) = l
  BY <1>1, <1>3, <1>5, <1>6, <1>10, UncompressIs
<1>12. QED
  BY <1>4, <1>6, <1>7, <1>9, <1>11

(* shorter_brc leaves out what the last entry it keeps implies.            *)
LEMMA ShorterIs ==
    ASSUME NEW l, Listed(l)
    PROVE  \E k \in 1..Len(l) : /\ shorter_brc(l) = SubSeq(l, 1, k)
                                /\ \A i \in k..Len(l) - 1 : l[i] - l[i + 1] = 1
<1>1. l \in Seq(Nat) /\ Len(l) \in 1..MaxNum /\ Descending(l) /\ MaxNum \in Nat
  BY Limits DEF Listed
<1>2. PICK m \in Nat : m = Len(l)
  BY <1>1
<1>3. CASE m < 2
  <2>1. shorter_brc(l) = l /\ m = 1
    BY <1>1, <1>2, <1>3 DEF shorter_brc
  <2>2. SubSeq(l, 1, Len(l)) = l
    BY <1>1, SubSeqFull
  <2>3. QED
    BY <1>2, <2>1, <2>2
<1>4. CASE m >= 2
  <2> DEFINE n == IF l[1] >= 2 /\ l[Len(l)] = 1 /\ l[Len(l) - 1] = 2
                  THEN Len(l) - 1 ELSE Len(l)
             K == {k \in 1..n : \A i \in k..n - 1 : l[i] - l[i + 1] = 1}
  <2>1. shorter_brc(l) = SubSeq(l, 1, Least(K))
    <3>1. ~(Len(l) < 2)
      BY <1>2, <1>4
    <3>2. QED
      BY <3>1, Zenon DEF shorter_brc
  <2>2. /\ n \in Nat /\ n >= 1 /\ (n = m \/ n = m - 1)
        /\ n = m - 1 => l[m] = 1 /\ l[m - 1] = 2
    BY <1>2, <1>4
  <2>3. K = {k \in 1..n : \A i \in k..n - 1 : l[i] - l[i + 1] = 1}
    OBVIOUS
  <2> HIDE DEF n, K
  <2>4. n \in K
    <3>1. n \in 1..n /\ \A i : i \notin n..n - 1
      BY <2>2
    <3>2. QED
      BY <2>3, <3>1
  <2>5. Least(K) \in K
    <3>1. K \subseteq 0..n /\ K # {}
      BY <2>2, <2>3, <2>4
    <3>2. QED
      BY <2>2, <3>1, LeastIs
  <2>6. PICK k \in 1..n : k = Least(K) /\ \A i \in k..n - 1 : l[i] - l[i + 1] = 1
    BY <2>3, <2>5
  <2>7. ASSUME NEW i \in k..m - 1 PROVE l[i] - l[i + 1] = 1
    <3>1. CASE i \in k..n - 1
      BY <2>6, <3>1
    <3>2. CASE i \notin k..n - 1
      <4>1. n = m - 1 /\ i = m - 1 /\ i + 1 = m
        BY <1>2, <2>2, <2>6, <2>7, <3>2
      <4>2. l[i] = 2 /\ l[i + 1] = 1
        BY <2>2, <4>1
      <4>3. QED
        BY <4>2
    <3>3. QED
      BY <3>1, <3>2
  <2>8. k \in 1..m
    BY <1>2, <2>2, <2>6
  <2>9. QED
    BY <1>2, <2>1, <2>6, <2>7, <2>8
<1>5. QED
  BY <1>2, <1>3, <1>4

LEMMA ShorterKeeps ==
    ASSUME NEW l, Listed(l)
    PROVE  /\ Listed(shorter_brc(l))
           /\ \A x \in Nat : ReadIn(shorter_brc(l), x) <=> ReadIn(l, x)
<1>1. l \in Seq(Nat) /\ Len(l) \in 1..MaxNum /\ Descending(l) /\ MaxNum \in Nat
  BY Limits DEF Listed
<1>2. PICK m \in Nat : m = Len(l)
  BY <1>1
<1>3. PICK k \in 1..m : /\ shorter_brc(l) = SubSeq(l, 1, k)
                        /\ \A i \in k..m - 1 : l[i] - l[i + 1] = 1
  BY <1>2, ShorterIs
<1>4. PICK e : e = shorter_brc(l)
  OBVIOUS
<1>5. e \in Seq(Nat) /\ Len(e) = k /\ \A i \in 1..k : e[i] = l[i]
  <2>1. 1 \in 1..Len(l) + 1 /\ k \in 0..Len(l) /\ 1 <= k /\ k - 1 + 1 = k
    BY <1>1, <1>2
  <2>2. /\ e \in Seq(Nat) /\ Len(e) = (IF 1 <= k THEN k - 1 + 1 ELSE 0)
        /\ \A i \in 1..k - 1 + 1 : e[i] = l[1 + i - 1]
    BY <1>1, <1>3, <1>4, <2>1, PartIs
  <2>3. \A i \in 1..k : 1 + i - 1 = i
    OBVIOUS
  <2>4. QED
    BY <2>1, <2>2, <2>3
<1>6. /\ \A i \in 1..m : l[i] \in Nat
      /\ \A i, j \in 1..m : i < j => l[i] > l[j]
  <2>1. \A i, j \in 1..Len(l) : i < j => l[i] > l[j]
    BY <1>1, DescendingAll
  <2>2. QED
    BY <1>1, <1>2, <2>1
<1>7. Listed(e)
  <2>1. Len(e) \in 1..MaxNum
    BY <1>1, <1>2, <1>5
  <2>2. \A i, j \in 1..Len(e) : i < j => e[i] > e[j]
    <3>1. \A i \in 1..k : i \in 1..m
      BY <1>2
    <3>2. QED
      BY <1>5, <1>6, <3>1
  <2>3. Descending(e)
    BY <1>5, <2>2, PairwiseDescending
  <2>4. QED
    BY <1>5, <2>1, <2>3 DEF Listed
<1>8. \A j \in 0..m - k : l[k + j] = l[k] - j
  <2> DEFINE S == {j \in 0..m - k : l[k + j] = l[k] - j}
  <2>1. 0 \in S
    <3>1. k + 0 = k /\ l[k] \in Nat /\ 0 \in 0..m - k
      BY <1>6
    <3>2. QED
      BY <3>1
  <2>2. ASSUME NEW j \in 1..m - k, j - 1 \in S PROVE j \in S
    <3>1. PICK x \in k..m - 1 : x = k + (j - 1)
      BY <2>2
    <3>2. x + 1 = k + j /\ x \in 1..m /\ x + 1 \in 1..m
      BY <2>2, <3>1
    <3>3. l[x] = l[k] - (j - 1) /\ l[x] - l[x + 1] = 1
      BY <1>3, <2>2, <3>1
    <3>4. l[x] \in Nat /\ l[x + 1] \in Nat /\ l[k] \in Nat
      BY <1>6, <3>2
    <3>5. l[x + 1] = l[k] - j
      BY <3>3, <3>4
    <3>6. QED
      BY <3>2, <3>5
  <2>3. m - k \in Nat
    BY <1>2
  <2> HIDE DEF S
  <2>4. 0..m - k \subseteq S
    BY <2>1, <2>2, <2>3, Upwards
  <2>5. QED
    BY <2>4 DEF S
<1>9. ASSUME NEW x \in Nat PROVE ReadIn(e, x) <=> ReadIn(l, x)
  <2>1. ReadIn(e, x) <=> (\E i \in 1..k : e[i] = x) \/ x < e[k]
    <3>1. e # <<>> /\ DOMAIN e = 1..k /\ Len(e) = k
      BY <1>5
    <3>2. QED
      BY <3>1 DEF ReadIn
  <2>2. ReadIn(l, x) <=> (\E i \in 1..m : l[i] = x) \/ x < l[m]
    <3>1. l # <<>> /\ DOMAIN l = 1..m /\ Len(l) = m
      BY <1>1, <1>2
    <3>2. QED
      BY <3>1 DEF ReadIn
  <2>3. k \in 1..k /\ e[k] = l[k] /\ l[k] \in Nat /\ m \in 1..m /\ l[m] \in Nat
    BY <1>5, <1>6
  <2>4. m - k \in 0..m - k /\ k + (m - k) = m
    OBVIOUS
  <2>5. l[m] = l[k] - (m - k)
    BY <1>8, <2>4
  <2>6. ReadIn(e, x) => ReadIn(l, x)
    <3>1. CASE \E i \in 1..k : e[i] = x
      BY <1>5, <2>2, <3>1
    <3>2. CASE x < e[k]
      <4>1. CASE x < l[m]
        BY <2>2, <4>1
      <4>2. CASE x >= l[m]
        <5>1. PICK j \in 0..m - k : j = l[k] - x
          BY <2>3, <2>5, <3>2, <4>2
        <5>2. l[k + j] = x /\ k + j \in 1..m
          BY <1>8, <2>3, <5>1
        <5>3. QED
          BY <2>2, <5>2
      <4>3. QED
        BY <2>3, <4>1, <4>2
    <3>3. QED
      BY <2>1, <3>1, <3>2
  <2>7. ReadIn(l, x) => ReadIn(e, x)
    <3>1. CASE x < l[m]
      <4>1. x < e[k]
        BY <2>3, <2>5, <3>1
      <4>2. QED
        BY <2>1, <4>1
    <3>2. CASE \E i \in 1..m : l[i] = x
      <4>1. PICK i \in 1..m : l[i] = x
        BY <3>2
      <4>2. CASE i <= k
        <5>1. i \in 1..k
          BY <4>2
        <5>2. QED
          BY <1>5, <2>1, <4>1, <5>1
      <4>3. CASE i > k
        <5>1. l[k] > l[i]
          BY <1>6, <4>3
        <5>2. QED
          BY <2>1, <2>3, <4>1, <5>1
      <4>4. QED
        BY <4>2, <4>3
    <3>3. QED
      BY <2>2, <3>1, <3>2
  <2>8. QED
    BY <2>6, <2>7
<1>10. QED
  BY <1>4, <1>7, <1>9

(* The walk along a block says what its list says.                         *)
LEMMA QuickIs ==
    ASSUME NEW c, Listed(uncompress_brc(c)), NEW t \in Nat
    PROVE  brc_c_unreadt(c, t) <=> ~ReadIn(uncompress_brc(c), t)
<1>1. PICK l : l = uncompress_brc(c)
  OBVIOUS
<1>2. l \in Seq(Nat) /\ Len(l) \in 1..MaxNum /\ Descending(l) /\ MaxNum \in Nat
  BY <1>1, Limits DEF Listed
<1>3. PICK m \in Nat : m = Len(l) /\ m >= 1
  BY <1>2
<1>4. /\ \A i \in 1..m : l[i] \in Nat
      /\ \A i, j \in 1..m : i < j => l[i] > l[j]
  <2>1. \A i, j \in 1..Len(l) : i < j => l[i] > l[j]
    BY <1>2, DescendingAll
  <2>2. QED
    BY <1>2, <1>3, <2>1
<1> DEFINE Stop == {i \in 1..m : t >= l[i]}
<1>5. brc_c_unreadt(c, t) <=> Stop # {} /\ t > l[Least(Stop)]
  BY <1>1, <1>3 DEF brc_c_unreadt
<1>6. ReadIn(l, t) <=> (\E i \in 1..m : l[i] = t) \/ t < l[m]
  <2>1. l # <<>> /\ DOMAIN l = 1..m /\ Len(l) = m
    BY <1>2, <1>3
  <2>2. QED
    BY <2>1 DEF ReadIn
<1>7. \A i : i \in Stop <=> i \in 1..m /\ t >= l[i]
  OBVIOUS
<1> HIDE DEF Stop
<1>8. CASE Stop = {}
  <2>1. m \in 1..m /\ ~(t >= l[m]) /\ l[m] \in Nat
    BY <1>3, <1>4, <1>7, <1>8
  <2>2. t < l[m]
    BY <2>1
  <2>3. QED
    BY <1>1, <1>5, <1>6, <1>8, <2>2
<1>9. CASE Stop # {}
  <2>1. PICK k : k = Least(Stop) /\ k \in Stop /\ \A y \in Stop : k <= y
    <3>1. Stop \subseteq 0..m
      BY <1>7
    <3>2. QED
      BY <1>9, <3>1, LeastIs
  <2>2. k \in 1..m /\ t >= l[k] /\ l[k] \in Nat
    BY <1>4, <1>7, <2>1
  <2>3. l[m] \in Nat /\ l[m] <= l[k] /\ m \in 1..m
    <3>1. m \in 1..m /\ (k = m \/ k < m)
      BY <1>3, <2>2
    <3>2. QED
      BY <1>4, <2>2, <3>1
  <2>4. (\E i \in 1..m : l[i] = t) <=> t = l[k]
    <3>1. ASSUME NEW i \in 1..m, l[i] = t PROVE t = l[k]
      <4>1. i \in Stop
        BY <1>4, <1>7, <3>1
      <4>2. k <= i
        BY <2>1, <4>1
      <4>3. k = i \/ l[k] > l[i]
        BY <1>4, <2>2, <4>2
      <4>4. QED
        BY <2>2, <3>1, <4>3
    <3>2. QED
      BY <2>2, <3>1
  <2>5. ReadIn(l, t) <=> t = l[k]
    BY <1>6, <2>2, <2>3, <2>4
  <2>6. QED
    BY <1>1, <1>5, <1>9, <2>1, <2>2, <2>5
<1>10. QED
  BY <1>8, <1>9

-----------------------------------------------------------------------------
(***************************************************************************)
(* Blocks.                                                                 *)
(***************************************************************************)

(* c is the first block of a board. *)
First(blocks, b, c) ==
    \E i \in DOMAIN blocks : /\ blocks[i] = c /\ c.board = b
                             /\ \A j \in DOMAIN blocks : j < i => blocks[j].board # b

LEMMA BlockIsFirst ==
    ASSUME NEW d \in Seq(Block_c), NEW b
    PROVE  /\ HasBlock(d, b) => First(d, b, Block(d, b))
           /\ \A c : First(d, b, c) => HasBlock(d, b) /\ Block(d, b) = c
<1>1. PICK n \in Nat : n = Len(d) /\ DOMAIN d = 1..n
  BY LensAre
<1>2. PICK S : S = Position(d, b) /\ S = {i \in 1..n : d[i].board = b}
  BY <1>1 DEF Position
<1>3. S \subseteq 0..n
  BY <1>2
<1>4. HasBlock(d, b) <=> S # {}
  BY <1>2 DEF HasBlock
<1>5. Block(d, b) = d[Least(S)]
  BY <1>2 DEF Block
<1>6. S # {} => Least(S) \in S /\ \A y \in S : Least(S) <= y
  BY <1>3, LeastIs
<1>7. ASSUME S # {} PROVE First(d, b, d[Least(S)])
  <2>1. PICK k \in 1..n : k = Least(S) /\ d[k].board = b /\ \A y \in S : k <= y
    BY <1>2, <1>6, <1>7
  <2>2. \A j \in 1..n : j < k => d[j].board # b
    BY <1>2, <2>1
  <2>3. QED
    BY <1>1, <2>1, <2>2 DEF First
<1>8. ASSUME NEW c, First(d, b, c) PROVE S # {} /\ d[Least(S)] = c
  <2>1. PICK i \in 1..n : d[i] = c /\ c.board = b /\ \A j \in 1..n : j < i => d[j].board # b
    BY <1>1, <1>8 DEF First
  <2>2. i \in S
    BY <1>2, <2>1
  <2>3. Least(S) \in 1..n /\ d[Least(S)].board = b /\ Least(S) <= i
    BY <1>2, <1>6, <2>2
  <2>4. Least(S) = i
    BY <2>1, <2>3
  <2>5. QED
    BY <2>1, <2>2, <2>4
<1>9. QED
  BY <1>4, <1>5, <1>7, <1>8

LEMMA HasBlockIs ==
    ASSUME NEW d, NEW b
    PROVE  HasBlock(d, b) <=> \E i \in DOMAIN d : d[i].board = b
  BY DEF HasBlock, Position

LEMMA ReadsAre ==
    ASSUME NEW d \in Seq(Block_c), NEW b
    PROVE  /\ ~HasBlock(d, b) => Reads(d, b) = {}
           /\ \A c : First(d, b, c) => Reads(d, b) = ReadsOf(c)
  BY BlockIsFirst, Zenon DEF Reads

LEMMA FitParts ==
    ASSUME NEW d, Fit(d)
    PROVE  /\ d \in Seq(Block_c) /\ SizeOf(d) <= MaxSize /\ SizeOf(d) \in Nat
           /\ Len(d) \in Nat /\ DOMAIN d = 1..Len(d)
           /\ \A i \in 1..Len(d) : d[i] \in Block_c /\ d[i].board \in Boards \cup {Info} /\ d[i].len \in Nat
           /\ \A i \in 1..Len(d) : d[i].board = Info => i = 1 /\ d[i].len = HeadLen
           /\ \A i \in 1..Len(d) : d[i].board # Info =>
                  d[i].len = BlockLen(d[i].diffs) /\ Listed(uncompress_brc(d[i]))
<1>1. d \in Seq(Block_c) /\ SizeOf(d) <= MaxSize
  BY DEF Fit, WellFormed
<1>2. SizeOf(d) \in Nat /\ Len(d) \in Nat /\ DOMAIN d = 1..Len(d)
  BY <1>1, SizeInNat, LensAre
<1>3. \A i \in 1..Len(d) : d[i] \in Block_c /\ d[i].len \in Nat
  BY <1>1, LensAre
<1>4. \A c \in Block_c : c.board \in Boards \cup {Info}
  BY DEF Block_c
<1>5. \A i \in 1..Len(d) : d[i].board \in Boards \cup {Info}
  BY <1>3, <1>4
<1>6. \A i \in 1..Len(d) : IF d[i].board = Info THEN i = 1 /\ d[i].len = HeadLen
                           ELSE d[i].len = BlockLen(d[i].diffs) /\ Listed(uncompress_brc(d[i]))
  BY <1>2 DEF Fit, WellFormed
<1>7. QED
  BY <1>1, <1>2, <1>3, <1>5, <1>6, Zenon

LEMMA FitMade ==
    ASSUME NEW d \in Seq(Block_c), SizeOf(d) <= MaxSize,
           \A i \in 1..Len(d) : d[i].board = Info => i = 1 /\ d[i].len = HeadLen,
           \A i \in 1..Len(d) : d[i].board # Info =>
                  d[i].len = BlockLen(d[i].diffs) /\ Listed(uncompress_brc(d[i]))
    PROVE  Fit(d)
<1>1. DOMAIN d = 1..Len(d)
  BY LensAre
<1>2. QED
  BY <1>1, Zenon DEF Fit, WellFormed

LEMMA FitEmpty == Fit(<<>>) /\ \A b : Reads(<<>>, b) = {} /\ ~HasBlock(<<>>, b)
<1>1. <<>> \in Seq(Block_c) /\ Len(<<>>) = 0 /\ DOMAIN <<>> = {}
  OBVIOUS
<1>2. \A i \in 1..Len(<<>>) : FALSE
  BY <1>1
<1>3. SizeOf(<<>>) <= MaxSize
  BY SizeEmpty, Limits
<1>4. Fit(<<>>)
  BY <1>1, <1>2, <1>3, FitMade
<1>5. \A b : ~HasBlock(<<>>, b)
  BY <1>1, HasBlockIs
<1>6. QED
  BY <1>1, <1>4, <1>5, ReadsAre

(* A block that may be put. *)
Puttable(c) ==
    /\ c \in Block_c
    /\ IF c.board = Info THEN c.len = HeadLen
       ELSE c.len = BlockLen(c.diffs) /\ Listed(uncompress_brc(c)) /\ c.len <= Longest

(* What the loop of brc_putblock has copied of the first i blocks. *)
Copied(start, blocks, name, i, out, full) ==
    /\ out \in Seq(Block_c) /\ full \in BOOLEAN /\ SizeOf(out) <= MaxSize
    /\ Begins(start, out)
    /\ \A j \in DOMAIN out : j \in DOMAIN start
           \/ \E x \in 1..i : out[j] = blocks[x] /\ blocks[x].board # name
    /\ ~full => \A x \in 1..i : blocks[x].board # name => HasBlock(out, blocks[x].board)
    /\ \A b, c : (b # name /\ ~HasBlock(start, b) /\ First(out, b, c)) => First(blocks, b, c)

LEMMA CopiedOne ==
    ASSUME NEW start \in Seq(Block_c), NEW blocks \in Seq(Block_c), NEW name,
           NEW i \in 1..Len(blocks), NEW out, NEW full, Copied(start, blocks, name, i - 1, out, full),
           blocks[i].board # name, ~full, SizeOf(out) + blocks[i].len <= MaxSize
    PROVE  Copied(start, blocks, name, i, Append(out, blocks[i]), full)
<1> DEFINE d == blocks[i]
<1>1. PICK n \in Nat : n = Len(blocks) /\ DOMAIN blocks = 1..n
  BY LensAre
<1>2. d \in Block_c /\ d.len \in Nat /\ i \in 1..n
  BY <1>1, LensAre
<1>3. /\ out \in Seq(Block_c) /\ full \in BOOLEAN /\ Begins(start, out)
      /\ \A j \in DOMAIN out : j \in DOMAIN start
             \/ \E x \in 1..i - 1 : out[j] = blocks[x] /\ blocks[x].board # name
      /\ \A x \in 1..i - 1 : blocks[x].board # name => HasBlock(out, blocks[x].board)
      /\ \A b, c : (b # name /\ ~HasBlock(start, b) /\ First(out, b, c)) => First(blocks, b, c)
  BY DEF Copied
<1>4. PICK m \in Nat : m = Len(out) /\ DOMAIN out = 1..m
  BY <1>3, LensAre
<1>5. PICK e : e = Append(out, d)
  OBVIOUS
<1>6. /\ e \in Seq(Block_c) /\ Len(e) = m + 1 /\ DOMAIN e = 1..m + 1
      /\ \A j \in 1..m : e[j] = out[j]
      /\ e[m + 1] = d
  <2>1. /\ e \in Seq(Block_c) /\ Len(e) = Len(out) + 1
        /\ \A j \in 1..Len(out) : e[j] = out[j]
        /\ e[Len(out) + 1] = d
    BY <1>2, <1>3, <1>5, AppendProperties
  <2>2. DOMAIN e = 1..Len(e)
    BY <2>1, LensAre
  <2>3. QED
    BY <1>4, <2>1, <2>2
<1>7. SizeOf(e) <= MaxSize
  <2>1. SizeOf(e) = SizeOf(out) + d.len
    BY <1>2, <1>3, <1>5, SizeAppended
  <2>2. QED
    BY <2>1
<1>8. Begins(start, e)
  <2>1. Len(start) \in Nat /\ DOMAIN start = 1..Len(start)
    BY LensAre
  <2>2. Len(start) <= m /\ \A j \in DOMAIN start : out[j] = start[j]
    BY <1>3, <1>4 DEF Begins
  <2>3. \A j \in DOMAIN start : j \in 1..m
    BY <2>1, <2>2
  <2>4. QED
    BY <1>6, <2>1, <2>2, <2>3 DEF Begins
<1>9. \A j \in DOMAIN e : j \in 1..m \/ j = m + 1
  BY <1>6
<1>10. ASSUME NEW j \in DOMAIN e
       PROVE  j \in DOMAIN start \/ \E x \in 1..i : e[j] = blocks[x] /\ blocks[x].board # name
  <2>1. CASE j \in 1..m
    <3>1. j \in DOMAIN start \/ \E x \in 1..i - 1 : out[j] = blocks[x] /\ blocks[x].board # name
      BY <1>3, <1>4, <2>1
    <3>2. \A x \in 1..i - 1 : x \in 1..i
      BY <1>2
    <3>3. QED
      BY <1>6, <2>1, <3>1, <3>2
  <2>2. CASE j = m + 1
    <3>1. i \in 1..i
      BY <1>2
    <3>2. QED
      BY <1>6, <2>2, <3>1
  <2>3. QED
    BY <1>9, <2>1, <2>2
<1>11. \A b : HasBlock(out, b) => HasBlock(e, b)
  BY <1>4, <1>6, HasBlockIs
<1>12. ASSUME NEW x \in 1..i, blocks[x].board # name PROVE HasBlock(e, blocks[x].board)
  <2>1. CASE x = i
    <3>1. m + 1 \in DOMAIN e /\ e[m + 1].board = blocks[x].board
      BY <1>6, <2>1
    <3>2. QED
      BY <3>1, HasBlockIs
  <2>2. CASE x # i
    <3>1. x \in 1..i - 1
      BY <1>2, <2>2
    <3>2. QED
      BY <1>3, <1>11, <1>12, <3>1
  <2>3. QED
    BY <2>1, <2>2
<1>13. ASSUME NEW b, NEW c, b # name, ~HasBlock(start, b), First(e, b, c) PROVE First(blocks, b, c)
  <2>1. PICK k \in 1..m + 1 : e[k] = c /\ c.board = b /\ \A j \in 1..m + 1 : j < k => e[j].board # b
    BY <1>6, <1>13 DEF First
  <2>2. CASE k \in 1..m
    <3>1. out[k] = c /\ \A j \in 1..m : j < k => out[j].board # b
      <4>1. \A j \in 1..m : j \in 1..m + 1
        OBVIOUS
      <4>2. QED
        BY <1>6, <2>1, <2>2, <4>1
    <3>2. First(out, b, c)
      BY <1>4, <2>1, <2>2, <3>1 DEF First
    <3>3. QED
      BY <1>3, <1>13, <3>2
  <2>3. CASE k = m + 1
    <3>1. c = blocks[i] /\ c.board = b
      BY <1>6, <2>1, <2>3
    <3>2. \A j \in 1..m : out[j].board # b
      <4>1. \A j \in 1..m : j \in 1..m + 1 /\ j < m + 1
        OBVIOUS
      <4>2. QED
        BY <1>6, <2>1, <2>3, <4>1
    <3>3. ~HasBlock(out, b)
      BY <1>4, <3>2, HasBlockIs
    <3>4. \A x \in 1..i - 1 : blocks[x].board # b
      BY <1>3, <1>13, <3>3
    <3>5. \A j \in 1..n : j < i => j \in 1..i - 1
      BY <1>2
    <3>6. QED
      BY <1>1, <1>2, <3>1, <3>4, <3>5 DEF First
  <2>4. QED
    BY <1>9, <1>6, <2>1, <2>2, <2>3
<1>14. Copied(start, blocks, name, i, e, full)
  BY <1>3, <1>6, <1>7, <1>8, <1>10, <1>12, <1>13, Zenon DEF Copied
<1>15. QED
  BY <1>5, <1>14

(* A block that is not copied. *)
LEMMA CopiedNone ==
    ASSUME NEW start \in Seq(Block_c), NEW blocks \in Seq(Block_c), NEW name,
           NEW i \in 1..Len(blocks), NEW out, NEW full, NEW over \in BOOLEAN,
           Copied(start, blocks, name, i - 1, out, full),
           over \/ (blocks[i].board = name /\ full = over)
    PROVE  Copied(start, blocks, name, i, out, over)
<1>1. /\ out \in Seq(Block_c) /\ SizeOf(out) <= MaxSize /\ Begins(start, out)
      /\ \A j \in DOMAIN out : j \in DOMAIN start
             \/ \E x \in 1..i - 1 : out[j] = blocks[x] /\ blocks[x].board # name
      /\ ~full => \A x \in 1..i - 1 : blocks[x].board # name => HasBlock(out, blocks[x].board)
      /\ \A b, c : (b # name /\ ~HasBlock(start, b) /\ First(out, b, c)) => First(blocks, b, c)
  BY DEF Copied
<1>2. \A x \in 1..i - 1 : x \in 1..i
  BY LensAre
<1>3. \A x \in 1..i : x \in 1..i - 1 \/ x = i
  BY LensAre
<1>4. \A j \in DOMAIN out : j \in DOMAIN start
             \/ \E x \in 1..i : out[j] = blocks[x] /\ blocks[x].board # name
  BY <1>1, <1>2, Zenon
<1>5. ~over => \A x \in 1..i : blocks[x].board # name => HasBlock(out, blocks[x].board)
  BY <1>1, <1>3, Zenon
<1>6. QED
  BY <1>1, <1>4, <1>5, Zenon DEF Copied

LEMMA CopiedStart ==
    ASSUME NEW start \in Seq(Block_c), SizeOf(start) <= MaxSize, NEW blocks, NEW name
    PROVE  Copied(start, blocks, name, 0, start, FALSE)
<1>1. Begins(start, start)
  BY LensAre DEF Begins
<1>2. \A b, c : ~HasBlock(start, b) => ~First(start, b, c)
  BY BlockIsFirst
<1>3. \A x \in 1..0 : FALSE
  OBVIOUS
<1>4. FALSE \in BOOLEAN
  OBVIOUS
<1>5. QED
  BY <1>1, <1>2, <1>3, <1>4, Zenon DEF Copied

LEMMA CopyIs ==
    ASSUME NEW start \in Seq(Block_c), SizeOf(start) <= MaxSize, NEW blocks \in Seq(Block_c), NEW name
    PROVE  \E full : Copied(start, blocks, name, Len(blocks), CopyBlocks(start, blocks, name), full)
<1> DEFINE R == [out : Seq(Block_c), full : BOOLEAN]
           G(x, i) == IF x.full \/ SizeOf(x.out) + blocks[i].len > MaxSize
                        THEN [x EXCEPT !.full = TRUE]
                      ELSE IF blocks[i].board = name THEN x
                      ELSE [x EXCEPT !.out = Append(@, blocks[i])]
           F(f, i) == IF i = 0 THEN [out |-> start, full |-> FALSE] ELSE G(f[i - 1], i)
           Copy == CHOOSE f : f = [i \in 0..Len(blocks) |-> F(f, i)]
<1>1. PICK n \in Nat : n = Len(blocks)
  BY LensAre
<1>2. \E f : f = [i \in 0..n |-> F(f, i)]
  <2> DEFINE S == {m \in 0..n : \E f : f = [i \in 0..m |-> F(f, i)]}
  <2>1. 0 \in S
    <3> DEFINE f == [i \in 0..0 |-> [out |-> start, full |-> FALSE]]
    <3>1. f = [i \in 0..0 |-> F(f, i)]
      <4>1. \A i \in 0..0 : F(f, i) = [out |-> start, full |-> FALSE]
        OBVIOUS
      <4> HIDE DEF F
      <4>2. QED
        BY <4>1
    <3> HIDE DEF f, F
    <3>2. QED
      BY <3>1
  <2>2. ASSUME NEW m \in 1..n, m - 1 \in S PROVE m \in S
    <3>1. PICK s : s = [i \in 0..m - 1 |-> F(s, i)]
      BY <2>2
    <3> DEFINE t == [i \in 0..m |-> IF i = m THEN G(s[m - 1], m) ELSE s[i]]
    <3>2. \A i \in 0..m - 1 : t[i] = s[i]
      <4> HIDE DEF G
      <4>1. QED
        OBVIOUS
    <3>3. t[m] = G(s[m - 1], m)
      <4> HIDE DEF G
      <4>1. QED
        OBVIOUS
    <3>4. t = [i \in 0..m |-> t[i]]
      <4> HIDE DEF G
      <4>1. QED
        OBVIOUS
    <3> HIDE DEF t
    <3>5. \A i \in 0..m - 1 : s[i] = F(s, i)
      <4> HIDE DEF F
      <4>1. QED
        BY <3>1
    <3>6. ASSUME NEW i \in 0..m PROVE t[i] = F(t, i)
      <4>1. CASE i = m
        <5>1. m # 0 /\ m - 1 \in 0..m - 1
          OBVIOUS
        <5>2. t[m - 1] = s[m - 1]
          BY <3>2, <5>1
        <5>3. F(t, m) = G(t[m - 1], m)
          <6> HIDE DEF G
          <6>1. QED
            BY <5>1
        <5> HIDE DEF F, G
        <5>4. QED
          BY <3>3, <4>1, <5>2, <5>3
      <4>2. CASE i = 0
        <5>1. 0 \in 0..m - 1
          OBVIOUS
        <5>2. F(t, 0) = F(s, 0)
          <6> HIDE DEF G
          <6>1. QED
            OBVIOUS
        <5> HIDE DEF F
        <5>3. QED
          BY <3>2, <3>5, <4>2, <5>1, <5>2
      <4>3. CASE i # m /\ i # 0
        <5>1. i \in 0..m - 1 /\ i - 1 \in 0..m - 1
          BY <4>3
        <5>2. t[i - 1] = s[i - 1] /\ t[i] = s[i] /\ s[i] = F(s, i)
          <6> HIDE DEF F
          <6>1. QED
            BY <3>2, <3>5, <5>1
        <5>3. F(t, i) = G(t[i - 1], i) /\ F(s, i) = G(s[i - 1], i)
          <6> HIDE DEF G
          <6>1. QED
            BY <4>3
        <5> HIDE DEF F, G
        <5>4. QED
          BY <5>2, <5>3
      <4>4. QED
        BY <4>1, <4>2, <4>3
    <3> HIDE DEF F
    <3>7. t = [i \in 0..m |-> F(t, i)]
      BY <3>4, <3>6
    <3>8. QED
      BY <3>7
  <2> HIDE DEF S, F
  <2>3. 0..n \subseteq S
    BY <2>1, <2>2, Upwards
  <2>4. n \in S
    BY <2>3
  <2>5. QED
    BY <2>4 DEF S
<1>3. Copy = [i \in 0..n |-> F(Copy, i)]
  <2> HIDE DEF F
  <2>1. \E f : f = [i \in 0..Len(blocks) |-> F(f, i)]
    BY <1>1, <1>2
  <2>2. QED
    BY <1>1, <2>1
<1>4. CopyBlocks(start, blocks, name) = Copy[n].out
  <2>1. CopyBlocks(start, blocks, name) = Copy[Len(blocks)].out
    BY DEF CopyBlocks
  <2> HIDE DEF Copy
  <2>2. QED
    BY <1>1, <2>1
<1> HIDE DEF Copy
<1>5. \A i \in 0..n : Copy[i] = F(Copy, i)
  <2> HIDE DEF F
  <2>1. QED
    BY <1>3
<1>6. /\ Copy[0] = [out |-> start, full |-> FALSE]
      /\ \A i \in 1..n : Copy[i] = G(Copy[i - 1], i)
  <2>1. F(Copy, 0) = [out |-> start, full |-> FALSE] /\ \A i \in 1..n : F(Copy, i) = G(Copy[i - 1], i)
    <3> HIDE DEF G
    <3>1. QED
      OBVIOUS
  <2> HIDE DEF F, G
  <2>2. 0 \in 0..n /\ \A i \in 1..n : i \in 0..n
    OBVIOUS
  <2>3. QED
    BY <1>5, <2>1, <2>2, Zenon
<1> HIDE DEF F
<1> DEFINE S == {k \in 0..n : Copy[k] \in R /\ Copied(start, blocks, name, k, Copy[k].out, Copy[k].full)}
<1>7. 0 \in S
  <2>1. Copy[0] \in R /\ Copy[0].out = start /\ Copy[0].full = FALSE
    BY <1>6
  <2>2. Copied(start, blocks, name, 0, Copy[0].out, Copy[0].full)
    BY <2>1, CopiedStart, Zenon
  <2> HIDE DEF R
  <2>3. QED
    BY <2>1, <2>2
<1>8. ASSUME NEW k \in 1..n, k - 1 \in S PROVE k \in S
  <2>1. PICK x \in R : x = Copy[k - 1] /\ Copied(start, blocks, name, k - 1, x.out, x.full)
    BY <1>8
  <2>2. Copy[k] = G(x, k)
    <3> HIDE DEF G
    <3>1. QED
      BY <1>6, <2>1
  <2>3. x.out \in Seq(Block_c) /\ x.full \in BOOLEAN
    BY <2>1
  <2>4. SizeOf(x.out) \in Nat /\ blocks[k] \in Block_c /\ blocks[k].len \in Nat
    BY <1>1, <2>3, SizeInNat, LensAre
  <2> DEFINE large == SizeOf(x.out) + blocks[k].len > MaxSize
  <2>5. CASE x.full \/ large
    <3>1. Copy[k] = [x EXCEPT !.full = TRUE]
      BY <2>2, <2>5
    <3>2. Copy[k] \in R /\ Copy[k].out = x.out /\ Copy[k].full = TRUE
      BY <3>1, <2>1
    <3>3. Copied(start, blocks, name, k, x.out, TRUE)
      BY <1>1, <2>1, CopiedNone
    <3> HIDE DEF R
    <3>4. k \in 0..n
      OBVIOUS
    <3>5. QED
      BY <3>2, <3>3, <3>4, Zenon
  <2>6. CASE ~(x.full \/ large) /\ blocks[k].board = name
    <3>1. Copy[k] = x
      BY <2>2, <2>6
    <3>2. Copied(start, blocks, name, k, x.out, x.full)
      BY <1>1, <2>1, <2>3, <2>6, CopiedNone
    <3> HIDE DEF R
    <3>3. QED
      BY <2>1, <3>1, <3>2
  <2>7. CASE ~(x.full \/ large) /\ blocks[k].board # name
    <3>1. Copy[k] = [x EXCEPT !.out = Append(@, blocks[k])]
      BY <2>2, <2>7
    <3>2. Append(x.out, blocks[k]) \in Seq(Block_c)
      BY <2>3, <2>4, AppendProperties
    <3>3. Copy[k] \in R /\ Copy[k].out = Append(x.out, blocks[k]) /\ Copy[k].full = x.full
      BY <2>1, <3>1, <3>2
    <3>4. SizeOf(x.out) + blocks[k].len <= MaxSize
      BY <2>4, <2>7, Limits
    <3>5. Copied(start, blocks, name, k, Append(x.out, blocks[k]), x.full)
      BY <1>1, <2>1, <2>7, <3>4, CopiedOne
    <3> HIDE DEF R
    <3>6. k \in 0..n
      OBVIOUS
    <3>7. QED
      BY <3>3, <3>5, <3>6, Zenon
  <2>8. QED
    BY <2>5, <2>6, <2>7
<1> HIDE DEF S, G, R
<1>9. 0..n \subseteq S
  BY <1>7, <1>8, Upwards
<1>10. n \in S
  BY <1>9
<1>11. Copied(start, blocks, name, n, Copy[n].out, Copy[n].full)
  BY <1>10 DEF S
<1>12. QED
  BY <1>1, <1>4, <1>11

LEMMA FirstInFront ==
    ASSUME NEW start \in Seq(Block_c), NEW d \in Seq(Block_c), Begins(start, d), NEW b, HasBlock(start, b)
    PROVE  HasBlock(d, b) /\ \A c : First(d, b, c) <=> First(start, b, c)
<1>1. PICK m \in Nat : m = Len(start) /\ DOMAIN start = 1..m
  BY LensAre
<1>2. PICK n \in Nat : n = Len(d) /\ DOMAIN d = 1..n
  BY LensAre
<1>3. m <= n /\ \A i \in 1..m : d[i] = start[i] /\ i \in 1..n
  BY <1>1, <1>2 DEF Begins
<1>4. PICK k \in 1..m : start[k].board = b
  BY <1>1, HasBlockIs
<1>5. HasBlock(d, b)
  BY <1>2, <1>3, <1>4, HasBlockIs
<1>6. ASSUME NEW c, First(start, b, c) PROVE First(d, b, c)
  <2>1. PICK i \in 1..m : start[i] = c /\ c.board = b /\ \A j \in 1..m : j < i => start[j].board # b
    BY <1>1, <1>6 DEF First
  <2>2. \A j \in 1..n : j < i => j \in 1..m
    OBVIOUS
  <2>3. QED
    BY <1>2, <1>3, <2>1, <2>2 DEF First
<1>7. ASSUME NEW c, First(d, b, c) PROVE First(start, b, c)
  <2>1. PICK i \in 1..n : d[i] = c /\ c.board = b /\ \A j \in 1..n : j < i => d[j].board # b
    BY <1>2, <1>7 DEF First
  <2>2. i <= k
    BY <1>3, <1>4, <2>1
  <2>3. i \in 1..m
    BY <2>2
  <2>4. QED
    BY <1>1, <1>3, <2>1, <2>3 DEF First
<1>8. QED
  BY <1>5, <1>6, <1>7

(* What brc_putblock gives: the new block, and behind it of the old ones   *)
(* as many as fit, #INFO before all.                                       *)
LEMMA PutIs ==
    ASSUME NEW blocks, Fit(blocks), NEW new, Puttable(new)
    PROVE  /\ Fit(brc_putblock(blocks, new)) /\ brc_putblock(blocks, new) # <<>>
           /\ First(brc_putblock(blocks, new), new.board, new)
           /\ \A b, c : b # new.board /\ First(brc_putblock(blocks, new), b, c) => First(blocks, b, c)
           /\ HasBlock(blocks, Info) => HasBlock(brc_putblock(blocks, new), Info)
           /\ \A i \in DOMAIN brc_putblock(blocks, new) :
                  \/ brc_putblock(blocks, new)[i] = new
                  \/ \E j \in DOMAIN blocks : brc_putblock(blocks, new)[i] = blocks[j]
<1>1. PICK n \in Nat : n = Len(blocks) /\ DOMAIN blocks = 1..n
  BY FitParts
<1>2. /\ blocks \in Seq(Block_c) /\ SizeOf(blocks) \in Nat
      /\ \A i \in 1..n : blocks[i] \in Block_c /\ blocks[i].len \in Nat
      /\ \A i \in 1..n : blocks[i].board = Info => i = 1 /\ blocks[i].len = HeadLen
      /\ \A i \in 1..n : blocks[i].board # Info =>
             blocks[i].len = BlockLen(blocks[i].diffs) /\ Listed(uncompress_brc(blocks[i]))
  BY <1>1, FitParts
<1>3. new \in Block_c /\ new.len \in Nat
  <2>1. \A c \in Block_c : c.len \in Nat
    BY DEF Block_c
  <2>2. QED
    BY <2>1 DEF Puttable
<1>4. PICK P : P = brc_putblock(blocks, new)
  OBVIOUS
<1>5. HeadLen + Longest <= MaxSize /\ Longest \in Nat
  <2>1. PICK k \in Nat : k = MaxNum - 1
    BY Limits
  <2>2. (2 * k + 7) \div 8 \in Nat
    OBVIOUS
  <2>3. PICK x \in Nat : x = (2 * (MaxNum - 1) + 7) \div 8
    BY <2>1, <2>2
  <2>4. Longest = HeadLen + x + 4 * k /\ 2 * HeadLen + x + 4 * k <= MaxSize
    BY <2>1, <2>3, MaxSizeAssumption DEF Longest
  <2>5. QED
    BY <2>4, Limits
<1>6. new.len <= Longest
  <2>1. CASE new.board = Info
    <3>1. new.len = HeadLen
      BY <2>1 DEF Puttable
    <3>2. HeadLen <= Longest
      <4>1. PICK k \in Nat : k = MaxNum - 1
        BY Limits
      <4>2. (2 * k + 7) \div 8 \in Nat
        OBVIOUS
      <4>3. Longest = HeadLen + (2 * k + 7) \div 8 + 4 * k
        BY <4>1 DEF Longest
      <4>4. QED
        BY <4>2, <4>3, Limits
    <3>3. QED
      BY <3>1, <3>2
  <2>2. CASE new.board # Info
    BY <2>2 DEF Puttable
  <2>3. QED
    BY <2>1, <2>2
(* What follows from a copy, however it began. *)
<1>7. ASSUME NEW start \in Seq(Block_c), NEW rest \in Seq(Block_c), NEW full,
             Copied(start, rest, new.board, Len(rest), P, full),
             First(start, new.board, new),
             \A i \in DOMAIN start : start[i] = new \/ \E j \in DOMAIN blocks : start[i] = blocks[j],
             \A i \in DOMAIN start : start[i].board = Info => i = 1,
             \A x \in DOMAIN rest : \E j \in DOMAIN blocks : rest[x] = blocks[j],
             \A x \in DOMAIN rest : rest[x].board # Info,
             \A b, c : b # new.board /\ (First(start, b, c) \/ (~HasBlock(start, b) /\ First(rest, b, c)))
                 => First(blocks, b, c),
             HasBlock(blocks, Info) => HasBlock(start, Info)
      PROVE  /\ Fit(P) /\ P # <<>>
             /\ First(P, new.board, new)
             /\ \A b, c : b # new.board /\ First(P, b, c) => First(blocks, b, c)
             /\ HasBlock(blocks, Info) => HasBlock(P, Info)
             /\ \A i \in DOMAIN P : P[i] = new \/ \E j \in DOMAIN blocks : P[i] = blocks[j]
  <2>1. /\ P \in Seq(Block_c) /\ SizeOf(P) <= MaxSize /\ Begins(start, P)
        /\ \A j \in DOMAIN P : j \in DOMAIN start
               \/ \E x \in 1..Len(rest) : P[j] = rest[x] /\ rest[x].board # new.board
        /\ \A b, c : (b # new.board /\ ~HasBlock(start, b) /\ First(P, b, c)) => First(rest, b, c)
    BY <1>7 DEF Copied
  <2>2. DOMAIN rest = 1..Len(rest)
    BY LensAre
  <2>3. \A j \in DOMAIN start : P[j] = start[j]
    BY <2>1 DEF Begins
  <2>4. \A i \in DOMAIN P : P[i] = new \/ \E j \in DOMAIN blocks : P[i] = blocks[j]
    <3>1. SUFFICES ASSUME NEW i \in DOMAIN P PROVE P[i] = new \/ \E j \in DOMAIN blocks : P[i] = blocks[j]
      OBVIOUS
    <3>2. CASE i \in DOMAIN start
      <4>1. P[i] = start[i]
        BY <2>3, <3>2
      <4>2. start[i] = new \/ \E j \in DOMAIN blocks : start[i] = blocks[j]
        BY <1>7, <3>2
      <4>3. QED
        BY <4>1, <4>2
    <3>3. CASE \E x \in 1..Len(rest) : P[i] = rest[x]
      <4>1. PICK x \in DOMAIN rest : P[i] = rest[x]
        BY <2>2, <3>3
      <4>2. \E j \in DOMAIN blocks : rest[x] = blocks[j]
        BY <1>7
      <4>3. QED
        BY <4>1, <4>2
    <3>4. QED
      BY <2>1, <3>1, <3>2, <3>3
  <2>5. \A i \in DOMAIN P : P[i].board = Info => i = 1
    BY <1>7, <2>1, <2>2, <2>3, Zenon
  <2>6. DOMAIN P = 1..Len(P) /\ Len(P) \in Nat
    BY <2>1, LensAre
  <2>7. ASSUME NEW i \in 1..Len(P)
        PROVE  /\ P[i].board = Info => P[i].len = HeadLen
               /\ P[i].board # Info => P[i].len = BlockLen(P[i].diffs) /\ Listed(uncompress_brc(P[i]))
    <3>1. P[i] = new \/ \E j \in 1..n : P[i] = blocks[j]
      BY <1>1, <2>4, <2>6
    <3>2. QED
      BY <1>2, <3>1, Zenon DEF Puttable
  <2>8. Fit(P)
    BY <2>1, <2>5, <2>6, <2>7, FitMade
  <2>9. HasBlock(start, new.board)
    BY <1>7, BlockIsFirst
  <2>10. First(P, new.board, new)
    BY <1>7, <2>1, <2>9, FirstInFront
  <2>11. HasBlock(P, new.board)
    BY <2>1, <2>9, FirstInFront
  <2>12. P # <<>>
    BY <2>11, FitEmpty
  <2>13. ASSUME NEW b, NEW c, b # new.board, First(P, b, c) PROVE First(blocks, b, c)
    <3>1. CASE HasBlock(start, b)
      <4>1. First(start, b, c)
        BY <2>1, <2>13, <3>1, FirstInFront
      <4>2. QED
        BY <1>7, <2>13, <4>1
    <3>2. CASE ~HasBlock(start, b)
      <4>1. First(rest, b, c)
        BY <2>1, <2>13, <3>2
      <4>2. QED
        BY <1>7, <2>13, <3>2, <4>1
    <3>3. QED
      BY <3>1, <3>2
  <2>14. HasBlock(blocks, Info) => HasBlock(P, Info)
    BY <1>7, <2>1, FirstInFront
  <2>15. QED
    BY <2>4, <2>8, <2>10, <2>12, <2>13, <2>14
<1>8. CASE blocks # <<>> /\ new.board # Info /\ Head(blocks).board = Info
  <2> DEFINE start == <<Head(blocks), new>>
             rest == Tail(blocks)
  <2>1. P = CopyBlocks(start, rest, new.board)
    BY <1>4, <1>8 DEF brc_putblock
  <2>2. PICK h \in Block_c : h = Head(blocks) /\ h = blocks[1] /\ h.len = HeadLen /\ 1 \in 1..n
    BY <1>1, <1>2, <1>8
  <2>3. PICK s \in Seq(Block_c) : s = start /\ Len(s) = 2 /\ s[1] = h /\ s[2] = new
    <3>1. <<h, new>> \in Seq(Block_c) /\ Len(<<h, new>>) = 2 /\ <<h, new>>[1] = h /\ <<h, new>>[2] = new
      BY <1>3
    <3>2. start = <<h, new>>
      BY <2>2
    <3>3. QED
      BY <3>1, <3>2, Zenon
  <2>4. DOMAIN s = 1..2
    BY <2>3, LensAre
  <2>5. PICK r \in Seq(Block_c) : r = rest /\ Len(r) = n - 1 /\ \A x \in 1..n - 1 : r[x] = blocks[x + 1]
    <3>1. Tail(blocks) \in Seq(Block_c) /\ Len(Tail(blocks)) = Len(blocks) - 1
      BY <1>2, <1>8
    <3>2. \A x \in 1..n - 1 : Tail(blocks)[x] = blocks[x + 1]
      BY <1>1, <1>2, <1>8
    <3>3. QED
      BY <1>1, <3>1, <3>2
  <2>6. DOMAIN r = 1..n - 1
    BY <2>5, LensAre
  <2>7. P = CopyBlocks(s, r, new.board)
    BY <2>1, <2>3, <2>5
  <2> HIDE DEF start, rest
  <2>8. SizeOf(s) <= MaxSize
    <3>1. <<>> \in Seq(Block_c) /\ <<h>> \in Seq(Block_c) /\ Append(<<>>, h) = <<h>> /\ s = Append(<<h>>, new)
      BY <1>3, <2>2, <2>3 DEF start
    <3>2. h.len \in Nat
      BY <1>2, <2>2
    <3>3. SizeOf(<<h>>) = 0 + h.len
      BY <3>1, SizeAppended, SizeEmpty
    <3>4. SizeOf(s) = SizeOf(<<h>>) + new.len
      BY <1>3, <3>1, SizeAppended
    <3>5. QED
      BY <1>3, <1>5, <1>6, <2>2, <3>2, <3>3, <3>4, Limits
  <2>9. PICK full : Copied(s, r, new.board, Len(r), P, full)
    BY <2>7, <2>8, CopyIs
  <2>10. /\ HasBlock(s, Info)
         /\ \A i \in DOMAIN s : s[i] = new \/ \E j \in DOMAIN blocks : s[i] = blocks[j]
         /\ \A i \in DOMAIN s : s[i].board = Info => i = 1
         /\ First(s, new.board, new)
    <3>1. \A i \in DOMAIN s : i = 1 \/ i = 2
      BY <2>4
    <3>2. 1 \in DOMAIN s /\ 2 \in DOMAIN s
      BY <2>4
    <3>3. s[1].board = Info
      BY <1>8, <2>2, <2>3
    <3>4. HasBlock(s, Info)
      BY <3>2, <3>3, HasBlockIs
    <3>5. \A i \in DOMAIN s : i < 2 => s[i].board # new.board
      BY <1>8, <3>1, <3>3
    <3>6. First(s, new.board, new)
      BY <2>3, <3>2, <3>5 DEF First
    <3>7. QED
      BY <1>1, <1>8, <2>2, <2>3, <3>1, <3>4, <3>6
  <2>11. \A x \in DOMAIN r : x + 1 \in DOMAIN blocks /\ r[x] = blocks[x + 1] /\ x + 1 # 1
    BY <1>1, <2>5, <2>6
  <2>12. /\ \A x \in DOMAIN r : \E j \in DOMAIN blocks : r[x] = blocks[j]
         /\ \A x \in DOMAIN r : r[x].board # Info
    BY <1>1, <1>2, <2>11
  <2>13. ASSUME NEW b, NEW c, b # new.board, First(s, b, c) \/ (~HasBlock(s, b) /\ First(r, b, c))
         PROVE  First(blocks, b, c)
    <3>1. CASE First(s, b, c)
      <4>1. PICK i \in 1..2 : s[i] = c /\ c.board = b
        BY <2>4, <3>1 DEF First
      <4>2. i = 1
        BY <2>3, <2>13, <4>1
      <4>3. blocks[1] = c /\ 1 \in DOMAIN blocks /\ \A j \in 1..n : ~(j < 1)
        BY <1>1, <2>2, <2>3, <4>1, <4>2
      <4>4. QED
        BY <1>1, <4>1, <4>3 DEF First
    <3>2. CASE ~HasBlock(s, b) /\ First(r, b, c)
      <4>1. PICK i \in 1..n - 1 : r[i] = c /\ c.board = b /\ \A j \in 1..n - 1 : j < i => r[j].board # b
        BY <2>6, <3>2 DEF First
      <4>2. blocks[1].board # b
        BY <2>2, <2>3, <2>4, <3>2, HasBlockIs
      <4>3. PICK k \in 1..n : k = i + 1
        OBVIOUS
      <4>4. blocks[k] = c
        BY <2>5, <4>1, <4>3
      <4>5. ASSUME NEW j \in 1..n, j < k PROVE blocks[j].board # b
        <5>1. CASE j = 1
          BY <4>2, <5>1
        <5>2. CASE j # 1
          <6>1. PICK x \in 1..n - 1 : x = j - 1
            BY <5>2
          <6>2. x < i /\ x + 1 = j
            BY <4>3, <4>5, <6>1
          <6>3. r[x] = blocks[x + 1]
            BY <2>5
          <6>4. QED
            BY <4>1, <6>2, <6>3
        <5>3. QED
          BY <5>1, <5>2
      <4>6. QED
        BY <1>1, <4>1, <4>4, <4>5 DEF First
    <3>3. QED
      BY <2>13, <3>1, <3>2
  <2>14. QED
    BY <1>4, <1>7, <2>9, <2>10, <2>12, <2>13
<1>9. CASE ~(blocks # <<>> /\ new.board # Info /\ Head(blocks).board = Info)
  <2>1. P = CopyBlocks(<<new>>, blocks, new.board)
    BY <1>4, <1>9 DEF brc_putblock
  <2>2. PICK s \in Seq(Block_c) : s = <<new>> /\ Len(s) = 1 /\ s[1] = new /\ Append(<<>>, new) = s
    <3>1. <<new>> \in Seq(Block_c) /\ Len(<<new>>) = 1 /\ <<new>>[1] = new
      BY <1>3
    <3>2. Append(<<>>, new) = <<new>>
      OBVIOUS
    <3>3. QED
      BY <3>1, <3>2, Zenon
  <2>3. DOMAIN s = 1..1
    BY <2>2, LensAre
  <2>4. SizeOf(s) <= MaxSize
    <3>1. <<>> \in Seq(Block_c)
      OBVIOUS
    <3>2. SizeOf(s) = 0 + new.len
      BY <1>3, <2>2, <3>1, SizeAppended, SizeEmpty
    <3>3. QED
      BY <1>3, <1>5, <1>6, <3>2, Limits
  <2>5. PICK full : Copied(s, blocks, new.board, Len(blocks), P, full)
    BY <1>2, <2>1, <2>2, <2>4, CopyIs
  <2>6. First(s, new.board, new)
    <3>1. 1 \in DOMAIN s /\ \A j \in DOMAIN s : ~(j < 1)
      BY <2>3
    <3>2. QED
      BY <2>2, <3>1 DEF First
  <2>7. /\ \A i \in DOMAIN s : s[i] = new \/ \E j \in DOMAIN blocks : s[i] = blocks[j]
        /\ \A i \in DOMAIN s : s[i].board = Info => i = 1
    <3>1. \A i \in DOMAIN s : i = 1
      BY <2>3
    <3>2. QED
      BY <2>2, <3>1
  <2>8. CASE new.board # Info
    <3>1. \A x \in 1..n : blocks[x].board # Info
      <4>1. SUFFICES ASSUME NEW x \in 1..n, blocks[x].board = Info PROVE FALSE
        OBVIOUS
      <4>2. x = 1 /\ blocks # <<>>
        BY <1>1, <1>2, <4>1
      <4>3. Head(blocks) = blocks[1]
        BY <4>2
      <4>4. QED
        BY <1>9, <2>8, <4>1, <4>2, <4>3
    <3>2. \A x \in DOMAIN blocks : blocks[x].board # Info /\ \E j \in DOMAIN blocks : blocks[x] = blocks[j]
      BY <1>1, <3>1
    <3>3. ~HasBlock(blocks, Info)
      BY <3>2, HasBlockIs
    <3>4. \A b, c : b # new.board => ~First(s, b, c)
      <4>1. \A i \in DOMAIN s : s[i].board = new.board
        BY <2>2, <2>3
      <4>2. QED
        BY <4>1 DEF First
    <3>5. \A b, c : b # new.board /\ (First(s, b, c) \/ (~HasBlock(s, b) /\ First(blocks, b, c)))
              => First(blocks, b, c)
      BY <3>4
    <3>6. QED
      BY <1>2, <1>4, <1>7, <2>5, <2>6, <2>7, <3>2, <3>3, <3>5
  <2>9. CASE new.board = Info
    <3>1. /\ P \in Seq(Block_c) /\ SizeOf(P) <= MaxSize /\ Begins(s, P)
          /\ \A j \in DOMAIN P : j \in DOMAIN s
                 \/ \E x \in 1..Len(blocks) : P[j] = blocks[x] /\ blocks[x].board # new.board
          /\ \A b, c : (b # new.board /\ ~HasBlock(s, b) /\ First(P, b, c)) => First(blocks, b, c)
      BY <2>5 DEF Copied
    <3>2. \A j \in DOMAIN s : P[j] = s[j]
      BY <3>1 DEF Begins
    <3>3. \A i \in DOMAIN P : \/ i = 1 /\ P[i] = new
                              \/ \E j \in 1..n : P[i] = blocks[j] /\ blocks[j].board # Info
      <4>1. \A i \in DOMAIN s : i = 1 /\ s[i] = new
        BY <2>2, <2>3
      <4>2. QED
        BY <1>1, <2>9, <3>1, <3>2, <4>1
    <3>4. DOMAIN P = 1..Len(P) /\ Len(P) \in Nat
      BY <3>1, LensAre
    <3>5. ASSUME NEW i \in 1..Len(P)
          PROVE  /\ P[i].board = Info => i = 1 /\ P[i].len = HeadLen
                 /\ P[i].board # Info => P[i].len = BlockLen(P[i].diffs) /\ Listed(uncompress_brc(P[i]))
      <4>1. (i = 1 /\ P[i] = new) \/ \E j \in 1..n : P[i] = blocks[j] /\ blocks[j].board # Info
        BY <3>3, <3>4
      <4>2. new.len = HeadLen
        BY <2>9 DEF Puttable
      <4>3. QED
        BY <1>2, <2>9, <4>1, <4>2, Zenon
    <3>6. Fit(P)
      BY <3>1, <3>5, FitMade
    <3>7. HasBlock(s, new.board)
      BY <2>2, <2>6, BlockIsFirst
    <3>8. First(P, new.board, new) /\ HasBlock(P, new.board)
      BY <2>6, <3>1, <3>7, FirstInFront
    <3>9. P # <<>>
      BY <3>8, FitEmpty
    <3>10. \A b : b # new.board => ~HasBlock(s, b)
      <4>1. \A i \in DOMAIN s : s[i].board = new.board
        BY <2>2, <2>3
      <4>2. QED
        BY <4>1, HasBlockIs
    <3>11. \A b, c : b # new.board /\ First(P, b, c) => First(blocks, b, c)
      BY <3>1, <3>10
    <3>12. \A i \in DOMAIN P : P[i] = new \/ \E j \in DOMAIN blocks : P[i] = blocks[j]
      BY <1>1, <3>3
    <3>13. QED
      BY <1>4, <2>9, <3>6, <3>8, <3>9, <3>11, <3>12
  <2>10. QED
    BY <2>8, <2>9
<1>10. QED
  BY <1>8, <1>9

(* The same in terms of what the blocks call read.                         *)
LEMMA PutReads ==
    ASSUME NEW blocks, Fit(blocks), NEW new, Puttable(new), NEW P, P = brc_putblock(blocks, new)
    PROVE  /\ Fit(P) /\ Reads(P, new.board) = ReadsOf(new)
           /\ \A b : b # new.board /\ b \notin PushedOut(blocks, P) => Reads(P, b) = Reads(blocks, b)
           /\ HasBlock(blocks, Info) => HasBlock(P, Info)
           /\ PushedOut(blocks, P) \subseteq Boards \cup {Info}
           /\ \A i \in DOMAIN P : P[i] = new \/ \E j \in DOMAIN blocks : P[i] = blocks[j]
<1>1. /\ Fit(P) /\ First(P, new.board, new)
      /\ \A b, c : b # new.board /\ First(P, b, c) => First(blocks, b, c)
      /\ HasBlock(blocks, Info) => HasBlock(P, Info)
      /\ \A i \in DOMAIN P : P[i] = new \/ \E j \in DOMAIN blocks : P[i] = blocks[j]
  <2>1. /\ Fit(brc_putblock(blocks, new)) /\ brc_putblock(blocks, new) # <<>>
        /\ First(brc_putblock(blocks, new), new.board, new)
        /\ \A b, c : b # new.board /\ First(brc_putblock(blocks, new), b, c) => First(blocks, b, c)
        /\ HasBlock(blocks, Info) => HasBlock(brc_putblock(blocks, new), Info)
        /\ \A i \in DOMAIN brc_putblock(blocks, new) :
               \/ brc_putblock(blocks, new)[i] = new
               \/ \E j \in DOMAIN blocks : brc_putblock(blocks, new)[i] = blocks[j]
    BY PutIs
  <2>2. QED
    BY <2>1
<1>2. P \in Seq(Block_c) /\ blocks \in Seq(Block_c)
  BY <1>1, FitParts
<1>3. Reads(P, new.board) = ReadsOf(new)
  BY <1>1, <1>2, ReadsAre
<1>4. ASSUME NEW b, b # new.board, b \notin PushedOut(blocks, P) PROVE Reads(P, b) = Reads(blocks, b)
  <2>1. HasBlock(blocks, b) => HasBlock(P, b)
    <3>1. SUFFICES ASSUME HasBlock(blocks, b), ~HasBlock(P, b) PROVE FALSE
      OBVIOUS
    <3>2. PICK i \in DOMAIN blocks : blocks[i].board = b
      BY <3>1, HasBlockIs
    <3>3. QED
      BY <1>4, <3>1, <3>2 DEF PushedOut
  <2>2. CASE HasBlock(P, b)
    <3>1. PICK c : First(P, b, c)
      BY <1>2, <2>2, BlockIsFirst
    <3>2. First(blocks, b, c)
      BY <1>1, <1>4, <3>1
    <3>3. QED
      BY <1>2, <3>1, <3>2, ReadsAre
  <2>3. CASE ~HasBlock(P, b)
    BY <1>2, <2>1, <2>3, ReadsAre
  <2>4. QED
    BY <2>2, <2>3
<1>5. PushedOut(blocks, P) \subseteq Boards \cup {Info}
  <2>1. \A i \in DOMAIN blocks : blocks[i].board \in Boards \cup {Info}
    BY FitParts
  <2>2. QED
    BY <2>1 DEF PushedOut
<1>6. QED
  BY <1>1, <1>3, <1>4, <1>5

LEMMA InfoPuttable == Puttable(InfoBlock) /\ InfoBlock.board = Info
<1>1. InfoBlock.board = Info /\ InfoBlock.len = HeadLen
  BY DEF InfoBlock
<1>2. InfoBlock \in Block_c
  <2>1. <<>> \in Seq([width : 1..4, value : Nat])
    OBVIOUS
  <2>2. QED
    BY <2>1, Limits DEF InfoBlock, Block_c
<1>3. QED
  BY <1>1, <1>2 DEF Puttable

LEMMA ReadsOfIs == \A c : ReadsOf(c) = ReadOf(uncompress_brc(c))
  BY DEF ReadsOf, ReadOf

LEMMA ReadOfIs ==
    ASSUME NEW l, NEW e, \A x \in Nat : ReadIn(l, x) => ReadIn(e, x)
    PROVE  ReadOf(l) \subseteq ReadOf(e)
  BY TimesAre DEF ReadOf

(* What brc_putboard does to the marks r and the blocks. *)
PutGood(r, blocks, put) ==
    /\ put.rc \in Rc /\ OnBoard(put.rc) /\ put.rc.board = r.board
    /\ ReadOf(put.rc.list) = ReadOf(r.list) /\ put.rc.changed = FALSE
    /\ ~r.changed => put.rc = r /\ put.blocks = blocks
    /\ r.changed => \E c : /\ Puttable(c) /\ c.board = r.board /\ r.board \in Boards
                           /\ ReadsOf(c) = ReadOf(r.list)
                           /\ put.blocks = brc_putblock(blocks, c)

LEMMA PutBoardIs ==
    ASSUME NEW p, NEW r \in Rc, r = brc[SessionOf(p)], OnBoard(r), NEW blocks, Fit(blocks),
           NEW put, put = PutBoard(p, blocks)
    PROVE  PutGood(r, blocks, put)
<1>0. SUFFICES /\ put.rc \in Rc /\ OnBoard(put.rc) /\ put.rc.board = r.board
               /\ ReadOf(put.rc.list) = ReadOf(r.list) /\ put.rc.changed = FALSE
               /\ ~r.changed => put.rc = r /\ put.blocks = blocks
               /\ r.changed => \E c : /\ Puttable(c) /\ c.board = r.board /\ r.board \in Boards
                                      /\ ReadsOf(c) = ReadOf(r.list)
                                      /\ put.blocks = brc_putblock(blocks, c)
  BY DEF PutGood
<1> DEFINE l == shorter_brc(r.list)
           c == compress_brc(r.board, l)
<1>1. put = IF r.changed THEN [rc |-> OneBrc(r.board, l, r.cur, FALSE), blocks |-> brc_putblock(blocks, c)]
            ELSE [rc |-> r, blocks |-> blocks]
  BY DEF PutBoard
<1>2. /\ r.board \in Boards \cup {NoBoard} /\ r.list \in Seq(Nat) /\ r.cur \in 0..MaxNum
      /\ r.changed \in BOOLEAN
  BY RcIs
<1>3. CASE ~r.changed
  <2> HIDE DEF l, c
  <2>1. put = [rc |-> r, blocks |-> blocks]
    BY <1>1, <1>3
  <2>2. put.rc = r /\ put.blocks = blocks
    BY <2>1
  <2>3. r.changed = FALSE
    BY <1>2, <1>3
  <2>4. QED
    BY <1>3, <2>2, <2>3
<1>4. CASE r.changed
  <2>1. r.board \in Boards /\ Listed(r.list)
    BY <1>2, <1>4 DEF OnBoard
  <2>2. Listed(l) /\ \A x \in Nat : ReadIn(l, x) <=> ReadIn(r.list, x)
    BY <2>1, ShorterKeeps
  <2>3. /\ c \in Block_c /\ c.board = r.board /\ uncompress_brc(c) = l
        /\ c.len = BlockLen(c.diffs) /\ c.len <= Longest
    BY <2>1, <2>2, CompressIs
  <2> HIDE DEF c
  <2>4. Puttable(c)
    BY <2>1, <2>2, <2>3, Names DEF Puttable
  <2>5. ReadOf(l) = ReadOf(r.list)
    BY <2>2, TimesAre DEF ReadOf
  <2>6. ReadsOf(c) = ReadOf(r.list)
    BY <2>3, <2>5, ReadsOfIs
  <2>7. put.rc = OneBrc(r.board, l, r.cur, FALSE) /\ put.blocks = brc_putblock(blocks, c)
    BY <1>1, <1>4
  <2>8. PICK k : k = l
    OBVIOUS
  <2>9. PICK e : e = OneBrc(r.board, k, r.cur, FALSE)
    OBVIOUS
  <2>10. e \in Rc /\ e.board = r.board /\ e.list = k /\ e.changed = FALSE
    <3>1. k \in Seq(Nat)
      BY <2>2, <2>8 DEF Listed
    <3>2. QED
      BY <1>2, <2>9, <3>1 DEF Rc, OneBrc
  <2>11. OnBoard(e)
    BY <2>1, <2>2, <2>8, <2>10, Names DEF OnBoard
  <2>12. put.rc = e
    BY <2>7, <2>8, <2>9
  <2> HIDE DEF l
  <2>13. QED
    BY <1>4, <2>1, <2>3, <2>4, <2>5, <2>6, <2>7, <2>8, <2>10, <2>11, <2>12
<1>5. QED
  BY <1>3, <1>4

LEMMA OnlyOldest == \A t \in Times : ~ReadIn(<<1>>, t)
<1>1. SUFFICES ASSUME NEW t \in Times PROVE ~ReadIn(<<1>>, t)
  OBVIOUS
<1>2. t \in Nat /\ t >= 2
  BY TimesAre
<1>3. PICK l \in Seq(Nat) : l = <<1>> /\ Len(l) = 1 /\ l[1] = 1
  <2>1. <<1>> \in Seq(Nat) /\ Len(<<1>>) = 1 /\ <<1>>[1] = 1
    OBVIOUS
  <2>2. QED
    BY <2>1, Zenon
<1>4. DOMAIN l = 1..1 /\ l[Len(l)] = 1
  BY <1>3
<1>5. ~ReadIn(l, t)
  BY <1>2, <1>3, <1>4 DEF ReadIn
<1>6. QED
  BY <1>3, <1>5

LEMMA OneListed == Listed(<<1>>)
<1>1. PICK l \in Seq(Nat) : l = <<1>> /\ Len(l) = 1
  <2>1. <<1>> \in Seq(Nat) /\ Len(<<1>>) = 1
    OBVIOUS
  <2>2. QED
    BY <2>1, Zenon
<1>2. Descending(l) /\ Len(l) \in 1..MaxNum
  BY <1>1, Limits DEF Descending
<1>3. QED
  BY <1>1, <1>2 DEF Listed

(* What brc_getboard gives for a board. *)
GotBoard(e, b, blocks) == /\ e \in Rc /\ OnBoard(e) /\ e.board = b /\ e.changed = FALSE
                          /\ ReadOf(e.list) = Reads(blocks, b)

LEMMA GetBoardIs ==
    ASSUME NEW r \in Rc, NEW blocks, Fit(blocks), NEW b \in Boards,
           NEW e, e = brc_getboard(r, blocks, b)
    PROVE  GotBoard(e, b, blocks)
<1>0. SUFFICES /\ e \in Rc /\ OnBoard(e) /\ e.board = b /\ e.changed = FALSE
               /\ ReadOf(e.list) = Reads(blocks, b)
  BY DEF GotBoard
<1>1. b # Info /\ b # NoBoard
  BY Names
<1>2. r.cur \in 0..MaxNum /\ 0 \in 0..MaxNum
  BY RcIs, Limits
<1>3. ASSUME NEW l, Listed(l), NEW c \in 0..MaxNum, e = OneBrc(b, l, c, FALSE)
      PROVE  e \in Rc /\ OnBoard(e) /\ e.board = b /\ e.changed = FALSE /\ e.list = l
  <2>1. l \in Seq(Nat)
    BY <1>3 DEF Listed
  <2>2. e \in Rc /\ e.board = b /\ e.list = l /\ e.changed = FALSE
    BY <1>3, <2>1 DEF Rc, OneBrc
  <2>3. OnBoard(e)
    BY <1>1, <1>3, <2>2 DEF OnBoard
  <2>4. QED
    BY <2>2, <2>3
<1>4. CASE HasBlock(blocks, b)
  <2>1. PICK c : c = Block(blocks, b) /\ First(blocks, b, c)
    BY <1>4, FitParts, BlockIsFirst
  <2>2. PICK i \in DOMAIN blocks : blocks[i] = c /\ c.board = b
    BY <2>1 DEF First
  <2>3. Listed(uncompress_brc(c))
    BY <1>1, <2>2, FitParts
  <2>4. e = OneBrc(b, uncompress_brc(c), r.cur, FALSE)
    BY <1>4, <2>1 DEF brc_getboard
  <2>5. e \in Rc /\ OnBoard(e) /\ e.board = b /\ e.changed = FALSE /\ e.list = uncompress_brc(c)
    BY <1>2, <1>3, <2>3, <2>4
  <2>6. Reads(blocks, b) = ReadsOf(c)
    BY <2>1, FitParts, ReadsAre
  <2>7. QED
    BY <2>5, <2>6, ReadsOfIs
<1>5. CASE ~HasBlock(blocks, b)
  <2>1. e = OneBrc(b, <<1>>, 0, FALSE)
    BY <1>5 DEF brc_getboard
  <2>2. e \in Rc /\ OnBoard(e) /\ e.board = b /\ e.changed = FALSE /\ e.list = <<1>>
    BY <1>2, <1>3, <2>1, OneListed
  <2>3. Reads(blocks, b) = {}
    BY <1>5, FitParts, ReadsAre
  <2>4. ReadOf(<<1>>) = {}
    BY OnlyOldest DEF ReadOf
  <2>5. QED
    BY <2>2, <2>3, <2>4
<1>6. QED
  BY <1>4, <1>5

LEMMA BlockHasLength ==
    ASSUME NEW c \in Block_c, c.len = BlockLen(c.diffs) PROVE c.len \in Nat /\ c.len >= 1
<1>1. PICK f : f = c.diffs
  OBVIOUS
<1>2. f \in Seq([width : 1..4, value : Nat])
  BY <1>1 DEF Block_c
<1>3. PICK n \in Nat : n = Len(f) /\ \A i \in 1..n : f[i].width \in Nat
  <2>1. Len(f) \in Nat /\ \A i \in 1..Len(f) : f[i] \in [width : 1..4, value : Nat]
    <3>1. \A S : f \in Seq(S) => Len(f) \in Nat /\ \A i \in 1..Len(f) : f[i] \in S
      OBVIOUS
    <3>2. QED
      BY <1>2, <3>1, Zenon
  <2>2. QED
    BY <2>1
<1> DEFINE w == [i \in 1..n |-> f[i].width]
<1>4. \A i \in 1..n : w[i] = f[i].width /\ w[i] \in Nat
  BY <1>3
<1> HIDE DEF w
<1>5. PICK s : SumsTo(w, s, n)
  BY <1>4, SumsExist
<1>6. s[n] \in Nat
  BY <1>5 DEF SumsTo
<1>7. BlockLen(f) = HeadLen + (2 * n + 7) \div 8 + s[n]
  BY <1>3, <1>4, <1>5, BlockLenIs
<1>8. (2 * n + 7) \div 8 \in Nat
  OBVIOUS
<1>9. PICK x \in Nat : x = (2 * n + 7) \div 8
  BY <1>8
<1>10. QED
  BY <1>1, <1>6, <1>7, <1>9, Limits

(* What a file holds once blocks are written over it.                      *)
LEMMA TailsIs ==
    ASSUME NEW old, Fit(old), NEW w, Fit(w), NEW tail \in Tails(old, SizeOf(w))
    PROVE  /\ Fit(w \o tail) /\ Begins(w, w \o tail)
           /\ \A i \in DOMAIN (w \o tail) :
                  \/ \E j \in DOMAIN w : (w \o tail)[i] = w[j]
                  \/ \E j \in DOMAIN old : (w \o tail)[i] = old[j]
<1>1. PICK n \in Nat : n = Len(old) /\ DOMAIN old = 1..n
  BY FitParts
<1>2. PICK m \in Nat : m = Len(w) /\ DOMAIN w = 1..m
  BY FitParts
<1>3. w \in Seq(Block_c) /\ old \in Seq(Block_c)
  BY FitParts
<1>4. SizeOf(w) \in Nat /\ SizeOf(old) \in Nat /\ SizeOf(old) <= MaxSize /\ SizeOf(w) <= MaxSize
  BY FitParts
<1>5. tail = <<>> \/ \E k \in 1..n + 1 : Offset(old, k) >= SizeOf(w) /\ tail = SubSeq(old, k, n)
  BY <1>1, Zenon DEF Tails
<1>6. /\ tail \in Seq(Block_c)
      /\ \A i \in 1..Len(tail) : \E j \in 1..n : tail[i] = old[j] /\ (j = 1 => SizeOf(w) = 0 /\ i = 1)
      /\ SizeOf(w) + SizeOf(tail) <= MaxSize
  <2>1. CASE tail = <<>>
    <3>1. tail \in Seq(Block_c) /\ Len(tail) = 0 /\ SizeOf(tail) = 0
      BY <2>1, SizeEmpty
    <3>2. QED
      BY <1>4, <3>1
  <2>2. CASE \E k \in 1..n + 1 : Offset(old, k) >= SizeOf(w) /\ tail = SubSeq(old, k, n)
    <3>1. PICK k \in 1..n + 1 : Offset(old, k) >= SizeOf(w) /\ tail = SubSeq(old, k, n)
      BY <2>2
    <3>2. PICK front : front = SubSeq(old, 1, k - 1)
      OBVIOUS
    <3>3. front \in Seq(Block_c)
      <4>1. 1 \in 1..Len(old) + 1 /\ k - 1 \in 0..Len(old)
        BY <1>1
      <4>2. QED
        BY <1>3, <3>2, <4>1, PartIs
    <3>4. /\ tail \in Seq(Block_c) /\ Len(tail) = (IF k <= n THEN n - k + 1 ELSE 0)
          /\ \A i \in 1..n - k + 1 : tail[i] = old[k + i - 1]
      <4>1. k \in 1..Len(old) + 1 /\ n \in 0..Len(old)
        BY <1>1
      <4>2. QED
        BY <1>3, <3>1, <4>1, PartIs
    <3>5. front \o tail = old
      <4>1. CASE k = n + 1
        <5>1. tail = <<>>
          BY <3>4, <4>1, EmptySeq
        <5>2. front = old
          BY <1>1, <1>3, <3>2, <4>1, SubSeqFull
        <5>3. QED
          BY <1>3, <5>1, <5>2, ConcatEmptySeq
      <4>2. CASE k = 1
        <5>1. front = <<>>
          BY <3>2, <4>2, SubSeqEmpty
        <5>2. tail = old
          BY <1>1, <1>3, <3>1, <4>2, SubSeqFull
        <5>3. QED
          BY <1>3, <5>1, <5>2, ConcatEmptySeq
      <4>3. CASE k # 1 /\ k # n + 1
        <5>1. PICK j \in 1..n : j = k - 1
          BY <4>3
        <5>2. j + 1 = k /\ k \in 1..n /\ Len(front) = j /\ \A i \in 1..j : front[i] = old[i]
          <6>1. 1 \in 1..Len(old) + 1 /\ j \in 0..Len(old) /\ 1 <= j /\ j - 1 + 1 = j
            BY <1>1, <5>1
          <6>2. /\ Len(front) = (IF 1 <= j THEN j - 1 + 1 ELSE 0)
                /\ \A i \in 1..j - 1 + 1 : front[i] = old[1 + i - 1]
            BY <1>3, <3>2, <5>1, <6>1, PartIs
          <6>3. \A i \in 1..j : 1 + i - 1 = i
            OBVIOUS
          <6>4. QED
            BY <4>3, <5>1, <6>1, <6>2, <6>3
        <5>3. Len(tail) = n - j
          BY <3>4, <5>1, <5>2
        <5>4. PICK e : e = front \o tail
          OBVIOUS
        <5>5. /\ e \in Seq(Block_c) /\ Len(e) = Len(front) + Len(tail)
              /\ \A i \in 1..Len(front) + Len(tail) : e[i] = IF i <= Len(front) THEN front[i] ELSE tail[i - Len(front)]
          BY <3>3, <3>4, <5>4, ConcatProperties
        <5>6. Len(front) + Len(tail) = n
          BY <5>2, <5>3
        <5>7. ASSUME NEW i \in 1..n PROVE e[i] = old[i]
          <6>1. e[i] = IF i <= j THEN front[i] ELSE tail[i - j]
            BY <5>2, <5>5, <5>6
          <6>2. CASE i <= j
            BY <5>2, <6>1, <6>2
          <6>3. CASE ~(i <= j)
            <7>1. i - j \in 1..n - k + 1 /\ k + (i - j) - 1 = i
              BY <5>2, <6>3
            <7>2. QED
              BY <3>4, <6>1, <6>3, <7>1
          <6>4. QED
            BY <6>2, <6>3
        <5>8. e = old
          BY <1>1, <1>3, <5>5, <5>6, <5>7, SeqEqual
        <5>9. QED
          BY <5>4, <5>8
      <4>4. QED
        BY <4>1, <4>2, <4>3
    <3>6. SizeOf(old) = SizeOf(front) + SizeOf(tail)
      BY <3>3, <3>4, <3>5, SizeConcat
    <3>7. SizeOf(front) \in Nat /\ SizeOf(tail) \in Nat
      BY <3>3, <3>4, SizeInNat
    <3>8. SizeOf(front) >= SizeOf(w)
      BY <3>1, <3>2 DEF Offset
    <3>9. SizeOf(w) + SizeOf(tail) <= MaxSize
      BY <1>4, <3>6, <3>7, <3>8, Limits
    <3>10. k = 1 => SizeOf(w) = 0
      <4>1. SUFFICES ASSUME k = 1 PROVE SizeOf(w) = 0
        OBVIOUS
      <4>2. front = <<>>
        BY <3>2, <4>1, SubSeqEmpty
      <4>3. QED
        BY <1>4, <3>8, <4>2, SizeEmpty
    <3>11. ASSUME NEW i \in 1..Len(tail) PROVE \E j \in 1..n : tail[i] = old[j] /\ (j = 1 => SizeOf(w) = 0 /\ i = 1)
      <4>1. k <= n /\ i \in 1..n - k + 1
        BY <3>4, <3>11
      <4>2. PICK j \in 1..n : j = k + i - 1
        BY <4>1
      <4>3. j = 1 => k = 1 /\ i = 1
        BY <4>1, <4>2
      <4>4. QED
        BY <3>4, <3>10, <4>1, <4>2, <4>3
    <3>12. QED
      BY <3>4, <3>9, <3>11
  <2>3. QED
    BY <1>5, <2>1, <2>2
<1>7. PICK e : e = w \o tail
  OBVIOUS
<1>8. PICK k \in Nat : k = Len(tail)
  BY <1>6, LensAre
<1>9. /\ e \in Seq(Block_c) /\ Len(e) = m + k /\ DOMAIN e = 1..m + k
      /\ \A i \in 1..m + k : e[i] = IF i <= m THEN w[i] ELSE tail[i - m]
  <2>1. /\ e \in Seq(Block_c) /\ Len(e) = Len(w) + Len(tail)
        /\ \A i \in 1..Len(w) + Len(tail) : e[i] = IF i <= Len(w) THEN w[i] ELSE tail[i - Len(w)]
    BY <1>3, <1>6, <1>7, ConcatProperties
  <2>2. DOMAIN e = 1..Len(e)
    BY <2>1, LensAre
  <2>3. QED
    BY <1>2, <1>8, <2>1, <2>2
<1>10. SizeOf(e) <= MaxSize
  <2>1. SizeOf(e) = SizeOf(w) + SizeOf(tail)
    BY <1>3, <1>6, <1>7, SizeConcat
  <2>2. QED
    BY <1>6, <2>1
<1>11. Begins(w, e)
  <2>1. m <= m + k /\ \A i \in 1..m : i \in 1..m + k
    OBVIOUS
  <2>2. QED
    BY <1>2, <1>9, <2>1 DEF Begins
<1>12. ASSUME NEW i \in 1..m + k
       PROVE  \/ \E j \in 1..m : e[i] = w[j] /\ i = j
              \/ \E j \in 1..n : e[i] = old[j] /\ (j = 1 => SizeOf(w) = 0 /\ i = m + 1)
  <2>1. CASE i <= m
    <3>1. i \in 1..m
      BY <2>1
    <3>2. QED
      BY <1>9, <2>1, <3>1
  <2>2. CASE i > m
    <3>1. i - m \in 1..Len(tail)
      BY <1>8, <2>2
    <3>2. PICK x \in 1..Len(tail) : x = i - m
      BY <3>1
    <3>3. PICK j \in 1..n : tail[x] = old[j] /\ (j = 1 => SizeOf(w) = 0 /\ x = 1)
      BY <1>6
    <3>4. e[i] = tail[x]
      BY <1>9, <2>2, <3>2
    <3>5. x = 1 => i = m + 1
      BY <3>2
    <3>6. QED
      BY <3>3, <3>4, <3>5
  <2>3. QED
    BY <2>1, <2>2
(* Only what is written over nothing keeps the first block of the file.    *)
<1>13. SizeOf(w) = 0 => m = 0
  <2>1. SUFFICES ASSUME SizeOf(w) = 0, m # 0 PROVE FALSE
    OBVIOUS
  <2>2. m \in 1..m /\ w[m] \in Block_c /\ w[m].len \in Nat /\ w[m].len >= 1
    <3>1. m \in 1..m
      BY <2>1
    <3>2. w[m] \in Block_c /\ w[m].len \in Nat
      BY <1>2, <1>3, <3>1, LensAre
    <3>3. CASE w[m].board = Info
      <4>1. w[m].len = HeadLen
        BY <1>2, <3>1, <3>3, FitParts
      <4>2. QED
        BY <3>1, <3>2, <4>1, Limits
    <3>4. CASE w[m].board # Info
      BY <1>2, <3>1, <3>2, <3>4, FitParts, BlockHasLength
    <3>5. QED
      BY <3>3, <3>4
  <2>3. SubSeq(w, 1, m) = SubSeq(w, 1, m - 1) \o <<w[m]>> /\ SubSeq(w, 1, m) = w
    <3>1. 1 \in 1..Len(w) /\ m \in 1..Len(w)
      BY <1>2, <2>1
    <3>2. SubSeq(w, 1, m) = SubSeq(w, 1, m - 1) \o <<w[m]>>
      BY <1>3, <3>1, SubSeqRecursiveSecond
    <3>3. SubSeq(w, 1, Len(w)) = w
      BY <1>3, SubSeqFull
    <3>4. QED
      BY <1>2, <3>2, <3>3
  <2>4. PICK a \in Seq(Block_c) : a = SubSeq(w, 1, m - 1)
    <3>1. 1 \in 1..Len(w) + 1 /\ m - 1 \in 0..Len(w)
      BY <1>2, <2>1
    <3>2. QED
      BY <1>3, <3>1, PartIs
  <2>5. w = Append(a, w[m])
    BY <2>2, <2>3, <2>4, AppendIsConcat
  <2>6. SizeOf(w) = SizeOf(a) + w[m].len /\ SizeOf(a) \in Nat
    BY <2>2, <2>4, <2>5, SizeAppended, SizeInNat
  <2>7. QED
    BY <2>1, <2>2, <2>6
<1>14. \A i \in 1..m + k : e[i].board = Info => i = 1
  <2>1. SUFFICES ASSUME NEW i \in 1..m + k, e[i].board = Info PROVE i = 1
    OBVIOUS
  <2>2. CASE \E j \in 1..m : e[i] = w[j] /\ i = j
    BY <1>2, <2>1, <2>2, FitParts
  <2>3. CASE \E j \in 1..n : e[i] = old[j] /\ (j = 1 => SizeOf(w) = 0 /\ i = m + 1)
    <3>1. PICK j \in 1..n : e[i] = old[j] /\ (j = 1 => SizeOf(w) = 0 /\ i = m + 1)
      BY <2>3
    <3>2. j = 1
      BY <1>1, <2>1, <3>1, FitParts
    <3>3. QED
      BY <1>13, <3>1, <3>2
  <2>4. QED
    BY <1>12, <2>2, <2>3
<1>15. \A i \in 1..m + k : (\E j \in 1..m : e[i] = w[j]) \/ \E j \in 1..n : e[i] = old[j]
  BY <1>12
<1>16. ASSUME NEW i \in 1..m + k
       PROVE  /\ e[i].board = Info => e[i].len = HeadLen
              /\ e[i].board # Info => e[i].len = BlockLen(e[i].diffs) /\ Listed(uncompress_brc(e[i]))
  <2>1. CASE \E j \in 1..m : e[i] = w[j]
    BY <1>2, <2>1, FitParts
  <2>2. CASE \E j \in 1..n : e[i] = old[j]
    BY <1>1, <2>2, FitParts
  <2>3. QED
    BY <1>15, <2>1, <2>2
<1>17. Fit(e)
  BY <1>9, <1>10, <1>14, <1>16, FitMade
<1>18. QED
  BY <1>1, <1>2, <1>7, <1>9, <1>11, <1>15, <1>17

-----------------------------------------------------------------------------
(***************************************************************************)
(* The invariant gives the properties, and holds at first.                 *)
(***************************************************************************)
LEMMA TypedParts ==
    ASSUME Typed
    PROVE  /\ \A s \in Sessions : brc[s] \in Rc /\ OnBoard(brc[s])
           /\ \A p \in Procs : InMemory(all[p]) /\ Fit(all[p].blocks)
           /\ \A u \in Users : OnDisk(file[u]) /\ OnDisk(tmp[u]) /\ OnDisk(home[u])
           /\ \A u \in Users : Fit(file[u].blocks) /\ Fit(tmp[u].blocks) /\ Fit(home[u].blocks)
<1>1. \A s \in Sessions : brc[s] \in Rc /\ OnBoard(brc[s])
  BY DEF Typed, MarksTyped
<1>2. \A p \in Procs : InMemory(all[p])
  BY DEF Typed, BlocksTyped
<1>3. \A u \in Users : OnDisk(file[u]) /\ OnDisk(tmp[u]) /\ OnDisk(home[u])
  BY DEF Typed, DiskTyped
<1>4. \A p \in Procs : Fit(all[p].blocks)
  BY <1>2, Zenon DEF InMemory
<1>5. \A u \in Users : Fit(file[u].blocks) /\ Fit(tmp[u].blocks) /\ Fit(home[u].blocks)
  BY <1>3, Zenon DEF OnDisk
<1>6. QED
  BY <1>1, <1>2, <1>3, <1>4, <1>5

LEMMA ListOrdered ==
    ASSUME NEW r \in Rc, OnBoard(r)
    PROVE  r.list \in Seq(Nat) /\ Descending(r.list) /\ Len(r.list) <= MaxNum
<1>1. r.list \in Seq(Nat)
  BY RcIs
<1>2. CASE r.board = NoBoard
  <2>1. r.list = <<>>
    BY <1>2 DEF OnBoard
  <2>2. Len(r.list) = 0
    BY <2>1
  <2>3. QED
    BY <1>1, <2>2, Limits DEF Descending
<1>3. CASE r.board # NoBoard
  <2>1. Listed(r.list)
    BY <1>3 DEF OnBoard
  <2>2. QED
    BY <1>1, <2>1, Limits DEF Listed
<1>4. QED
  BY <1>2, <1>3

LEMMA UnreadIs ==
    ASSUME NEW l \in Seq(Nat), Descending(l), NEW c \in Nat, NEW t \in Nat, NEW b, NEW d,
           NEW r, r = OneBrc(b, l, c, d)
    PROVE  Unread(Locate(r, t)) <=> ~ReadIn(l, t)
<1>1. /\ r.list = l /\ r.cur = c
      /\ \A x : [r EXCEPT !.cur = x].list = l /\ [r EXCEPT !.cur = x].cur = x
  BY DEF OneBrc
<1>2. r.list \in Seq(Nat) /\ Descending(r.list) /\ r.cur \in Nat
  BY <1>1
<1>3. \A x : [r EXCEPT !.cur = x].list = r.list /\ [r EXCEPT !.cur = x].cur = x
  BY <1>1
<1>4. Unread(Locate(r, t)) <=> ~ReadIn(r.list, t)
  BY <1>2, <1>3, CursorRight
<1>5. QED
  BY <1>1, <1>4

LEMMA ListsFollow == ASSUME Typed PROVE ListsRight
<1>1. TypeOK
  <2>1. ASSUME NEW s \in Sessions
        PROVE  /\ brc[s].board \in Boards \cup {NoBoard}
               /\ Len(brc[s].list) <= MaxNum /\ Descending(brc[s].list)
               /\ brc[s].cur \in 0 .. MaxNum
    <3>1. brc[s] \in Rc /\ OnBoard(brc[s])
      BY TypedParts
    <3>2. QED
      BY <3>1, ListOrdered, RcIs
  <2>2. \A p \in Procs : SizeOf(all[p].blocks) <= MaxSize
    BY TypedParts, Zenon DEF Fit
  <2>3. \A u \in Users : SizeOf(file[u].blocks) <= MaxSize /\ SizeOf(tmp[u].blocks) <= MaxSize
    BY TypedParts, Zenon DEF Fit
  <2>4. QED
    BY <2>1, <2>2, <2>3 DEF TypeOK
<1>2. CursorFree
  <2>1. SUFFICES ASSUME NEW s \in Sessions, NEW t \in Times, NEW c \in 0..MaxNum, NEW l, l = brc[s].list
                 PROVE  Unread(Locate(OneBrc(NoBoard, l, c, FALSE), t)) <=> ~ReadIn(l, t)
    BY DEF CursorFree
  <2>2. brc[s] \in Rc /\ OnBoard(brc[s])
    BY TypedParts
  <2>3. l \in Seq(Nat) /\ Descending(l) /\ c \in Nat /\ t \in Nat
    BY <2>1, <2>2, ListOrdered, TimesAre, Limits
  <2>4. QED
    BY <2>3, UnreadIs
<1>3. QuickAgrees
  <2>1. SUFFICES ASSUME NEW p \in Procs, NEW b \in Boards, NEW t \in Times, NEW d, d = all[p].blocks
                 PROVE  brc_unreadt_quick(d, b, t) <=> Unread(Locate(brc_getboard(Zero, d, b), t))
    BY DEF QuickAgrees
  <2>2. Fit(d) /\ t \in Nat /\ b # Info
    BY <2>1, TypedParts, TimesAre, Names
  <2>3. PICK e : e = brc_getboard(Zero, d, b)
    OBVIOUS
  <2>4. ASSUME NEW l, Listed(l), e = OneBrc(b, l, 0, FALSE)
        PROVE  Unread(Locate(e, t)) <=> ~ReadIn(l, t)
    <3>1. l \in Seq(Nat) /\ Descending(l)
      BY <2>4 DEF Listed
    <3>2. QED
      BY <2>2, <2>4, <3>1, UnreadIs
  <2>5. CASE HasBlock(d, b)
    <3>1. PICK c : c = Block(d, b) /\ First(d, b, c)
      BY <2>2, <2>5, FitParts, BlockIsFirst
    <3>2. PICK i \in DOMAIN d : d[i] = c /\ c.board = b
      BY <3>1 DEF First
    <3>3. Listed(uncompress_brc(c))
      BY <2>2, <3>2, FitParts
    <3>4. Zero.cur = 0
      BY DEF Zero, OneBrc
    <3>5. e = OneBrc(b, uncompress_brc(c), 0, FALSE)
      BY <2>3, <2>5, <3>1, <3>4 DEF brc_getboard
    <3>6. Unread(Locate(e, t)) <=> ~ReadIn(uncompress_brc(c), t)
      BY <2>4, <3>3, <3>5
    <3>7. brc_c_unreadt(c, t) <=> ~ReadIn(uncompress_brc(c), t)
      BY <2>2, <3>3, QuickIs
    <3>8. brc_unreadt_quick(d, b, t) <=> brc_c_unreadt(c, t)
      BY <2>5, <3>1 DEF brc_unreadt_quick
    <3>9. QED
      BY <2>3, <3>6, <3>7, <3>8
  <2>6. CASE ~HasBlock(d, b)
    <3>1. e = OneBrc(b, <<1>>, 0, FALSE)
      BY <2>3, <2>6 DEF brc_getboard
    <3>2. Unread(Locate(e, t)) <=> ~ReadIn(<<1>>, t)
      BY <2>4, <3>1, OneListed
    <3>3. brc_unreadt_quick(d, b, t)
      BY <2>6 DEF brc_unreadt_quick
    <3>4. QED
      BY <2>3, <3>2, <3>3, OnlyOldest
  <2>7. QED
    BY <2>5, <2>6
<1>4. QED
  BY <1>1, <1>2, <1>3 DEF ListsRight

LEMMA HonestReads ==
    ASSUME NEW d, Fit(d), NEW u, Honest(d, u), NEW b \in Boards
    PROVE  Reads(d, b) \subseteq ever[u][b]
<1>1. CASE HasBlock(d, b)
  <2>1. PICK c : First(d, b, c)
    BY <1>1, FitParts, BlockIsFirst
  <2>2. PICK i \in DOMAIN d : d[i] = c /\ c.board = b
    BY <2>1 DEF First
  <2>3. ReadsOf(c) \subseteq ever[u][b]
    BY <2>2, Names DEF Honest, HonestTo
  <2>4. QED
    BY <2>1, <2>3, FitParts, ReadsAre
<1>2. CASE ~HasBlock(d, b)
  BY <1>2, FitParts, ReadsAre
<1>3. QED
  BY <1>1, <1>2

LEMMA NothingFollows == ASSUME Typed, HonestInv PROVE NothingInvented
<1>1. SUFFICES ASSUME NEW u \in Users \ strangers, NEW b \in Boards
               PROVE  /\ \A f \in {file[u], tmp[u], home[u]} : Reads(f.blocks, b) \subseteq ever[u][b]
                      /\ \A s \in Sessions : UserOf[s] = u /\ brc[s].board = b => ReadBy(s) \subseteq ever[u][b]
  BY DEF NothingInvented
<1>2. Fit(file[u].blocks) /\ Fit(tmp[u].blocks) /\ Fit(home[u].blocks)
  BY TypedParts
<1>3. Honest(file[u].blocks, u) /\ Honest(tmp[u].blocks, u) /\ Honest(home[u].blocks, u)
  BY DEF HonestInv, HonestDisk
<1>4. \A f \in {file[u], tmp[u], home[u]} : Reads(f.blocks, b) \subseteq ever[u][b]
  BY <1>2, <1>3, HonestReads
<1>5. \A s \in Sessions : UserOf[s] = u /\ brc[s].board = b => ReadBy(s) \subseteq ever[u][b]
  BY <1>1, Names DEF HonestInv, HonestSessions, HonestOn, ReadBy, ReadOf
<1>6. QED
  BY <1>4, <1>5

LEMMA SessionFollows == ASSUME FreshInv PROVE SessionRight
<1>1. SUFFICES ASSUME NEW s \in fresh, \A p \in Procs : Active(p) /\ SessionOf(p) = s => pc[p] = "idle"
               PROVE  LET saved == Reads(Source(UserOf[s]).blocks, brc[s].board)
                      IN  IF brc[s].changed THEN saved \subseteq ReadBy(s) ELSE saved = ReadBy(s)
  BY DEF SessionRight
<1>2. Savers(s) = {}
  BY <1>1 DEF Savers
<1>3. FreshAt(s)
  BY DEF FreshInv
<1>4. Agree(Source(UserOf[s]).blocks, brc[s])
  BY <1>2, <1>3 DEF FreshAt
<1>5. ReadBy(s) = ReadOf(brc[s].list)
  BY DEF ReadBy, ReadOf
<1>6. QED
  BY <1>4, <1>5 DEF Agree

LEMMA Starts == Init => IInv
<1>1. SUFFICES ASSUME Init PROVE IInv
  OBVIOUS
<1>2. Zero \in Rc /\ OnBoard(Zero) /\ Zero.board = NoBoard
  <2>1. /\ Zero.board = NoBoard /\ Zero.list = <<>> /\ Zero.changed = FALSE
        /\ Zero = [board |-> NoBoard, list |-> <<>>, cur |-> 0, changed |-> FALSE]
    BY DEF Zero, OneBrc
  <2>2. 0 \in 0..MaxNum /\ <<>> \in Seq(Nat)
    BY Limits
  <2>3. Zero \in Rc
    BY <2>1, <2>2 DEF Rc
  <2>4. QED
    BY <2>1, <2>3 DEF OnBoard
<1>3. OnDisk(NoFile) /\ NoFile.there = FALSE /\ NoFile.blocks = <<>>
  BY FitEmpty DEF NoFile, OnDisk
<1>4. \A u \in Users : OnDisk(file[u])
  <2>1. SUFFICES ASSUME NEW u \in Users PROVE OnDisk(file[u])
    OBVIOUS
  <2>2. file \in {f \in [Users -> {NoFile} \cup {IsFile(b) : b \in UNION {Before[v] : v \in Users}}] :
                   \A v \in Users : IF Before[v] = {} THEN ~f[v].there
                                    ELSE f[v].there /\ f[v].blocks \in Before[v]}
    BY <1>1 DEF Init
  <2>3. /\ file[u] \in {NoFile} \cup {IsFile(b) : b \in UNION {Before[v] : v \in Users}}
        /\ IF Before[u] = {} THEN ~file[u].there ELSE file[u].there /\ file[u].blocks \in Before[u]
    BY <2>2
  <2>4. CASE file[u] = NoFile
    BY <1>3, <2>4
  <2>5. CASE file[u] # NoFile
    <3>1. PICK b : file[u] = IsFile(b)
      BY <2>3, <2>5
    <3>2. file[u] = [there |-> TRUE, blocks |-> b]
      BY <3>1 DEF IsFile
    <3>3. file[u].there = TRUE /\ file[u].blocks = b
      BY <3>2
    <3>4. b \in Before[u]
      BY <2>3, <3>3
    <3>5. Fit(b)
      BY <3>4, BeforeAssumption DEF Fit
    <3>6. QED
      BY <3>2, <3>3, <3>5, Zenon DEF OnDisk
  <2>6. QED
    BY <2>4, <2>5
<1>5. \A u \in Users : tmp[u] = NoFile /\ home[u] = NoFile
  BY <1>1 DEF Init
<1>6. \A p \in Procs : all[p] = [blocks |-> <<>>, kept |-> FALSE]
  BY <1>1 DEF Init
<1>7. \A s \in Sessions : brc[s] = Zero
  BY <1>1 DEF Init
<1>8. Typed
  <2>1. cast \subseteq Sessions
    BY <1>1, BoardRcAssumption DEF Init, Sessions
  <2>2. brc \in [Sessions -> Rc] /\ \A s \in Sessions : OnBoard(brc[s])
    BY <1>1, <1>2, <1>7 DEF Init
  <2>3. all = [p \in Procs |-> all[p]] /\ \A p \in Procs : InMemory(all[p])
    <3>1. all = [p \in Procs |-> all[p]]
      BY <1>1 DEF Init
    <3>2. ASSUME NEW a, a = [blocks |-> <<>>, kept |-> FALSE] PROVE InMemory(a)
      BY <3>2, FitEmpty DEF InMemory
    <3>3. QED
      BY <1>6, <3>1, <3>2
  <2>4. /\ serve \in [Web -> (Windows \cap cast) \cup {NoWindow}]
        /\ expired \in [Web -> BOOLEAN] /\ owner \in [Web -> {{u} : u \in Users} \cup {{}}]
        /\ pc \in [Procs -> Steps] /\ fd \in [Procs -> {"none", "tmp", "file", "gone"}]
        /\ cron \in [Users -> {"no", "copied", "changed"}]
        /\ current \subseteq Procs /\ fresh \subseteq Sessions /\ strangers \subseteq Users
        /\ doubt \in [Procs -> SUBSET (Boards \cup {Info})]
    BY <1>1 DEF Init, Steps
  <2>5. then \in [Procs -> Follows]
    <3>1. Stay \in Follows
      BY DEF Stay, Follows
    <3>2. QED
      BY <1>1, <3>1 DEF Init
  <2>6. file = [u \in Users |-> file[u]] /\ tmp = [u \in Users |-> tmp[u]] /\ home = [u \in Users |-> home[u]]
    <3>1. file = [u \in Users |-> file[u]]
      BY <1>1 DEF Init
    <3>2. tmp = [u \in Users |-> NoFile] /\ home = tmp
      BY <1>1 DEF Init
    <3>3. QED
      BY <3>1, <3>2
  <2>7. \A u \in Users : OnDisk(file[u]) /\ OnDisk(tmp[u]) /\ OnDisk(home[u])
    BY <1>3, <1>4, <1>5
  <2>8. ever \in [Users -> [Boards -> SUBSET Times]]
    <3>1. \A u \in Users, b \in Boards : ReadAnywhere(file[u].blocks, b) \subseteq Times
      BY DEF ReadAnywhere, ReadsOf
    <3>2. ever = [u \in Users |-> [b \in Boards |-> ReadAnywhere(file[u].blocks, b)]]
      BY <1>1 DEF Init
    <3>3. QED
      BY <3>1, <3>2
  <2>9. QED
    BY <2>1, <2>2, <2>3, <2>4, <2>5, <2>6, <2>7, <2>8, Zenon
    DEF Typed, MarksTyped, BlocksTyped, NetTyped, SavingTyped, DiskTyped, HistoryTyped
<1>9. \A p \in Procs : pc[p] = "idle" /\ fd[p] = "none"
  BY <1>1 DEF Init
<1>10. BaseInv
  BY <1>8, <1>9 DEF BaseInv, Busy
<1>11. \A u : Honest(<<>>, u)
  BY DEF Honest, HonestTo
<1>12. HonestInv
  <2>1. ASSUME NEW u \in Users PROVE Honest(file[u].blocks, u)
    <3>1. SUFFICES ASSUME NEW i \in DOMAIN file[u].blocks, file[u].blocks[i].board # Info
                   PROVE  ReadsOf(file[u].blocks[i]) \subseteq ever[u][file[u].blocks[i].board]
      BY DEF Honest, HonestTo
    <3>2. PICK d : d = file[u].blocks
      OBVIOUS
    <3>3. Fit(d)
      BY <1>8, <3>2, TypedParts
    <3>4. d[i].board \in Boards /\ i \in Position(d, d[i].board)
      <4>1. i \in 1..Len(d)
        BY <3>1, <3>2, <3>3, FitParts
      <4>2. d[i].board \in Boards \cup {Info}
        BY <3>3, <4>1, FitParts
      <4>3. QED
        BY <3>1, <3>2, <4>2 DEF Position
    <3>5. ReadsOf(d[i]) \subseteq ReadAnywhere(d, d[i].board)
      BY <3>4 DEF ReadAnywhere
    <3>6. ever[u][d[i].board] = ReadAnywhere(file[u].blocks, d[i].board)
      BY <1>1, <3>4 DEF Init
    <3>7. QED
      BY <3>2, <3>5, <3>6
  <2>2. HonestDisk
    BY <1>3, <1>5, <1>11, <2>1 DEF HonestDisk
  <2>3. \A p \in Procs : all[p].blocks = <<>>
    BY <1>6
  <2>4. HonestMemory
    BY <1>11, <2>3 DEF HonestMemory, HonestAt, Procs
  <2>5. HonestSessions
    BY <1>2, <1>7 DEF HonestSessions, HonestOn
  <2>6. QED
    BY <2>2, <2>4, <2>5 DEF HonestInv
<1>13. CopyInv
  <2>1. \A u \in Users : cron[u] = "no"
    BY <1>1 DEF Init
  <2>2. QED
    BY <2>1 DEF CopyInv
<1>14. current = {} /\ fresh = {}
  BY <1>1 DEF Init
<1>15. CurrentInv /\ AloneInv /\ FreshInv
  BY <1>14 DEF CurrentInv, AloneInv, FreshInv
<1>16. QED
  BY <1>10, <1>12, <1>13, <1>15 DEF IInv

-----------------------------------------------------------------------------
(***************************************************************************)
(* Who serves whom, and what a single update keeps of the types.           *)
(***************************************************************************)
LEMMA Serving ==
    ASSUME Typed, NEW p \in Procs, Active(p)
    PROVE  SessionOf(p) \in Sessions /\ Owner(p) \in Users
<1>1. CASE p \in Telnet
  <2>1. SessionOf(p) = p /\ p \in Sessions
    BY <1>1 DEF SessionOf, Sessions
  <2>2. QED
    BY <2>1, Names DEF Owner
<1>2. CASE p \in Web
  <2>1. p \notin Telnet
    BY <1>2, Names
  <2>2. SessionOf(p) = serve[p] /\ serve[p] # NoWindow
    BY <1>2, <2>1 DEF SessionOf, Active
  <2>3. serve[p] \in Windows
    BY <1>2, <2>2 DEF Typed, NetTyped
  <2>4. SessionOf(p) \in Sessions
    BY <2>2, <2>3 DEF Sessions
  <2>5. QED
    BY <2>4, Names DEF Owner
<1>3. QED
  BY <1>1, <1>2 DEF Procs

LEMMA SameNet ==
    ASSUME cast' = cast, serve' = serve
    PROVE  \A q : /\ SessionOf(q)' = SessionOf(q) /\ Owner(q)' = Owner(q)
                  /\ Active(q)' <=> Active(q)
BY DEF SessionOf, Owner, Active

LEMMA SameSource ==
    ASSUME file' = file, home' = home
    PROVE  \A u : Source(u)' = Source(u)
BY DEF Source, SourceIn

LEMMA SourceFits ==
    ASSUME Typed, NEW u \in Users
    PROVE  Fit(Source(u).blocks) /\ OnDisk(Source(u))
<1>1. Source(u) = file[u] \/ Source(u) = home[u]
  BY DEF Source, SourceIn
<1>2. QED
  BY <1>1, TypedParts

LEMMA MarksSet ==
    ASSUME MarksTyped, NEW s \in Sessions, NEW r \in Rc, OnBoard(r), brc' = [brc EXCEPT ![s] = r]
    PROVE  MarksTyped' /\ brc'[s] = r /\ \A z \in Sessions \ {s} : brc'[z] = brc[z]
<1>1. brc' \in [Sessions -> Rc] /\ brc'[s] = r /\ \A z \in Sessions \ {s} : brc'[z] = brc[z]
  BY DEF MarksTyped
<1>2. \A z \in Sessions : OnBoard(brc'[z])
  BY <1>1 DEF MarksTyped
<1>3. QED
  BY <1>1, <1>2 DEF MarksTyped

LEMMA BlocksSet ==
    ASSUME BlocksTyped, NEW p \in Procs, NEW d, Fit(d), NEW k \in BOOLEAN, NEW a,
           a = [blocks |-> d, kept |-> k], all' = [all EXCEPT ![p] = a]
    PROVE  /\ BlocksTyped' /\ all'[p].blocks = d /\ all'[p].kept = k
           /\ \A q \in Procs \ {p} : all'[q] = all[q]
<1>1. a.blocks = d /\ a.kept = k
  OBVIOUS
<1>2. InMemory(a)
  BY <1>1, Zenon DEF InMemory
<1>3. all' = [q \in Procs |-> all'[q]] /\ all'[p] = a /\ \A q \in Procs \ {p} : all'[q] = all[q]
  BY DEF BlocksTyped
<1>4. \A q \in Procs : InMemory(all'[q])
  BY <1>2, <1>3 DEF BlocksTyped
<1>5. QED
  BY <1>1, <1>3, <1>4 DEF BlocksTyped

LEMMA StepSet ==
    ASSUME pc \in [Procs -> Steps], NEW p \in Procs, NEW k \in Steps, pc' = [pc EXCEPT ![p] = k]
    PROVE  /\ pc' \in [Procs -> Steps] /\ pc'[p] = k /\ \A q \in Procs \ {p} : pc'[q] = pc[q]
BY DEF Steps

LEMMA ThenSet ==
    ASSUME then \in [Procs -> Follows], NEW p \in Procs, NEW k \in Follows, then' = [then EXCEPT ![p] = k]
    PROVE  then' \in [Procs -> Follows] /\ then'[p] = k
BY DEF Follows

LEMMA DoubtSet ==
    ASSUME HistoryTyped, NEW p \in Procs, NEW k \in SUBSET (Boards \cup {Info}), doubt' = [doubt EXCEPT ![p] = k]
    PROVE  /\ doubt' \in [Procs -> SUBSET (Boards \cup {Info})] /\ doubt'[p] = k
           /\ \A q \in Procs \ {p} : doubt'[q] = doubt[q]
BY DEF HistoryTyped

LEMMA StayIs == /\ Stay \in Follows /\ Stay.board = NoBoard /\ Stay.keep = TRUE /\ Stay.leave = FALSE
                /\ \A b \in Boards \cup {NoBoard} : /\ [Stay EXCEPT !.board = b] \in Follows
                                                    /\ [Stay EXCEPT !.board = b].board = b
                                                    /\ [Stay EXCEPT !.board = b].keep = TRUE
                                                    /\ [Stay EXCEPT !.board = b].leave = FALSE
                /\ \A k \in BOOLEAN : /\ [Stay EXCEPT !.keep = k] \in Follows
                                      /\ [Stay EXCEPT !.keep = k].board = NoBoard
                                      /\ [Stay EXCEPT !.keep = k].keep = k
                                      /\ [Stay EXCEPT !.keep = k].leave = FALSE
                /\ [Stay EXCEPT !.leave = TRUE] \in Follows
                /\ [Stay EXCEPT !.leave = TRUE].board = NoBoard
                /\ [Stay EXCEPT !.leave = TRUE].keep = TRUE
                /\ [Stay EXCEPT !.leave = TRUE].leave = TRUE
BY DEF Stay, Follows

LEMMA FreedIs ==
    ASSUME NEW p \in Procs, NEW d, Fit(d)
    PROVE  \E e : Freed(p, d) = [blocks |-> e, kept |-> FALSE] /\ Fit(e) /\ e \in {<<>>, d}
<1>1. PICK e : e = IF Source(Owner(p)).there THEN <<>> ELSE d
  OBVIOUS
<1>2. Freed(p, d) = [blocks |-> e, kept |-> FALSE]
  BY <1>1 DEF Freed
<1>3. e \in {<<>>, d} /\ Fit(e)
  BY <1>1, FitEmpty
<1>4. QED
  BY <1>2, <1>3

-----------------------------------------------------------------------------
(***************************************************************************)
(* The kinds of steps.  What readuserallbrc and brc_init give a process,   *)
(* or what it has already; what follows a save; the start of a save.       *)
(***************************************************************************)
Reading(p, loaded, now) ==
    /\ cast' = cast /\ serve' = serve
    /\ \/ /\ p \in Telnet /\ loaded \in Loads(p, Owner(p)) /\ now = Known(p, Owner(p), loaded)
          /\ expired' = expired /\ owner' = owner /\ strangers' = strangers
       \/ /\ p \in Web /\ loaded \in WebLoads(p) /\ now = WebKnown(p, loaded)
          /\ WebRead(p)
Holding(p, loaded, now) ==
    /\ loaded = all[p].blocks /\ now = current
    /\ p \in Telnet => all[p].kept \/ pc[p] = "done"
    /\ cast' = cast /\ serve' = serve /\ expired' = expired /\ owner' = owner
    /\ strangers' = strangers

Frees(p) ==
    /\ p \in Telnet /\ Ready(p)
    /\ all' = [all EXCEPT ![p] = Freed(p, all[p].blocks)] /\ current' = current \ {p}
    /\ UNCHANGED <<brc, net, saving, disk, ever, fresh, strangers, doubt>>

Finishes(p, blocks, next, now) ==
    /\ p \in Procs /\ Active(p) /\ Fit(blocks) /\ next \in Follows
    /\ Finish(p, brc[SessionOf(p)], blocks, next, now)
    /\ current' = IF next.keep THEN now ELSE now \ {p}
    /\ \/ /\ pc[p] = "idle"
          /\ \/ Reading(p, blocks, now)
             \/ Holding(p, blocks, now) /\ (p \in Web => next.leave)
          /\ pc' = pc /\ then' = then /\ doubt' = doubt
       \/ /\ pc[p] = "done" /\ Holding(p, blocks, now)
          /\ pc' = [pc EXCEPT ![p] = "idle"] /\ then' = [then EXCEPT ![p] = Stay]
          /\ doubt' = [doubt EXCEPT ![p] = {}]
    /\ fd' = fd /\ UNCHANGED disk /\ ever' = ever

Saves(p, loaded, now, r, new, next, doubts) ==
    LET s == SessionOf(p)
        put == brc_putblock(loaded, new)
    IN  /\ p \in Procs /\ Ready(p) /\ Fit(loaded) /\ Reading(p, loaded, now)
        /\ Puttable(new) /\ next \in Follows
        /\ r \in Rc /\ OnBoard(r) /\ r.board = brc[s].board /\ ReadOf(r.list) = ReadOf(brc[s].list)
        /\ \/ r = brc[s] /\ new.board = Info /\ doubts = PushedOut(loaded, put)
           \/ /\ ~r.changed /\ brc[s].changed /\ new.board = r.board /\ r.board \in Boards
              /\ ReadsOf(new) = ReadOf(r.list)
              /\ doubts = PushedOut(loaded, put) \cup IF s \in fresh /\ ~Raced(p) THEN {} ELSE {r.board}
        /\ brc' = [brc EXCEPT ![s] = r] /\ all' = [all EXCEPT ![p] = Kept(put)]
        /\ pc' = [pc EXCEPT ![p] = "open"] /\ then' = [then EXCEPT ![p] = next]
        /\ doubt' = [doubt EXCEPT ![p] = doubts]
        /\ fresh' = IF Raced(p) THEN fresh \ {s} ELSE fresh
        /\ current' = now
        /\ fd' = fd /\ UNCHANGED disk /\ ever' = ever

Marks(p, r) ==
    LET s == SessionOf(p) IN
    /\ p \in Procs /\ Ready(p) /\ brc[s].board \in Boards /\ Kept1(brc[s], r)
    /\ Marked(p, r)

LEMMA LoadsFit ==
    ASSUME Typed, NEW p \in Procs, Active(p), NEW loaded, NEW now, Reading(p, loaded, now)
    PROVE  Fit(loaded)
<1>1. Fit(Source(Owner(p)).blocks) /\ Fit(all[p].blocks) /\ Fit(<<>>)
  BY Serving, SourceFits, TypedParts, FitEmpty
<1>2. \A d \in Loads(p, Owner(p)) : Fit(d)
  BY <1>1 DEF Loads
<1>3. QED
  BY <1>1, <1>2 DEF Reading, WebLoads

LEMMA SaveBoardIs ==
    ASSUME Typed, NEW p \in Procs, Ready(p), NEW loaded, NEW now, Reading(p, loaded, now),
           NEW next \in Follows, SaveBoard(p, loaded, next, now)
    PROVE  \/ Finishes(p, loaded, next, now)
           \/ \E r, new, doubts : Saves(p, loaded, now, r, new, next, doubts)
<1>1. PICK s : s = SessionOf(p)
  OBVIOUS
<1>2. Active(p) /\ pc[p] = "idle"
  BY DEF Ready
<1>3. s \in Sessions /\ Fit(loaded)
  BY <1>1, <1>2, Serving, LoadsFit
<1>4. PICK r0 : r0 = brc[s]
  OBVIOUS
<1>5. r0 \in Rc /\ OnBoard(r0)
  BY <1>3, <1>4, TypedParts
<1>6. PICK put : put = PutBoard(p, loaded)
  OBVIOUS
<1>7. /\ put.rc \in Rc /\ OnBoard(put.rc) /\ put.rc.board = r0.board
      /\ ReadOf(put.rc.list) = ReadOf(r0.list) /\ put.rc.changed = FALSE
      /\ ~r0.changed => put.rc = r0 /\ put.blocks = loaded
      /\ r0.changed => \E c : /\ Puttable(c) /\ c.board = r0.board /\ r0.board \in Boards
                              /\ ReadsOf(c) = ReadOf(r0.list)
                              /\ put.blocks = brc_putblock(loaded, c)
  <2>1. r0 = brc[SessionOf(p)] /\ Fit(loaded)
    BY <1>1, <1>3, <1>4
  <2>2. PutGood(r0, loaded, put)
    BY <1>5, <1>6, <2>1, PutBoardIs
  <2>3. QED
    BY <2>2, Zenon DEF PutGood
<1>8. CASE ~r0.changed
  <2>1. /\ Finish(p, put.rc, loaded, next, now) /\ UNCHANGED <<pc, then, saves, doubt>>
        /\ current' = IF next.keep THEN now ELSE now \ {p}
        /\ UNCHANGED <<fd, disk, marks, faults, ever>>
    BY <1>1, <1>4, <1>6, <1>8 DEF SaveBoard
  <2>2. Finish(p, r0, loaded, next, now)
    BY <1>7, <1>8, <2>1
  <2>3. pc' = pc /\ then' = then /\ doubt' = doubt /\ fd' = fd /\ UNCHANGED disk /\ ever' = ever
    BY <2>1
  <2>4. QED
    BY <1>1, <1>2, <1>3, <1>4, <2>1, <2>2, <2>3 DEF Finishes
<1>9. CASE r0.changed
  <2>1. PICK c : /\ Puttable(c) /\ c.board = r0.board /\ r0.board \in Boards
                 /\ ReadsOf(c) = ReadOf(r0.list)
                 /\ put.blocks = brc_putblock(loaded, c)
    BY <1>7, <1>9
  <2>2. PICK doubts : doubts = PushedOut(loaded, put.blocks)
                                   \cup IF s \in fresh /\ ~Raced(p) THEN {} ELSE {r0.board}
    OBVIOUS
  <2>3. /\ StartSave(p, put.rc, put.blocks, next, doubts)
        /\ current' = now /\ UNCHANGED <<fd, disk, marks, faults, ever>>
    BY <1>1, <1>4, <1>6, <1>9, <2>2 DEF SaveBoard
  <2>4. /\ brc' = [brc EXCEPT ![s] = put.rc] /\ all' = [all EXCEPT ![p] = Kept(put.blocks)]
        /\ pc' = [pc EXCEPT ![p] = "open"] /\ then' = [then EXCEPT ![p] = next]
        /\ doubt' = [doubt EXCEPT ![p] = doubts]
        /\ fresh' = IF Raced(p) THEN fresh \ {s} ELSE fresh
    BY <1>1, <2>3 DEF StartSave
  <2>5. fd' = fd /\ UNCHANGED disk /\ ever' = ever
    BY <2>3
  <2>6. PICK r : r = put.rc
    OBVIOUS
  <2>7. r \in Rc /\ OnBoard(r) /\ r.board = r0.board /\ ReadOf(r.list) = ReadOf(r0.list) /\ ~r.changed
    BY <1>7, <2>6
  <2>8. Saves(p, loaded, now, r, c, next, doubts)
    BY <1>1, <1>2, <1>3, <1>4, <1>9, <2>1, <2>2, <2>3, <2>4, <2>5, <2>6, <2>7 DEF Saves
  <2>9. QED
    BY <2>8
<1>10. QED
  BY <1>8, <1>9

LEMMA InfoSaves ==
    ASSUME Typed, NEW p \in Web, WebInfo(p)
    PROVE  \E loaded, now, r, new, next, doubts : Saves(p, loaded, now, r, new, next, doubts)
<1>1. PICK s : s = serve[p] /\ s = SessionOf(p)
  BY Names DEF SessionOf
<1>2. p \in Procs /\ Ready(p) /\ Active(p) /\ WebRead(p)
  BY DEF WebInfo, Ready, Procs
<1>3. PICK loaded \in WebLoads(p) :
          LET put == brc_putblock(loaded, InfoBlock)
          IN  /\ StartSave(p, brc[serve[p]], put, Stay, PushedOut(loaded, put))
              /\ current' = WebKnown(p, loaded)
  BY DEF WebInfo
<1>4. PICK put : put = brc_putblock(loaded, InfoBlock)
  OBVIOUS
<1>5. PICK doubts : doubts = PushedOut(loaded, put)
  OBVIOUS
<1>6. PICK now : now = WebKnown(p, loaded)
  OBVIOUS
<1>7. Reading(p, loaded, now)
  BY <1>2, <1>3, <1>6 DEF Reading, WebRead
<1>8. Fit(loaded) /\ s \in Sessions
  BY <1>1, <1>2, <1>7, Serving, LoadsFit
<1>9. PICK r : r = brc[s]
  OBVIOUS
<1>10. r \in Rc /\ OnBoard(r)
  BY <1>8, <1>9, TypedParts
<1>11. StartSave(p, r, put, Stay, doubts) /\ current' = now
  BY <1>1, <1>3, <1>4, <1>5, <1>6, <1>9
<1>12. /\ brc' = [brc EXCEPT ![s] = r] /\ all' = [all EXCEPT ![p] = Kept(put)]
       /\ pc' = [pc EXCEPT ![p] = "open"] /\ then' = [then EXCEPT ![p] = Stay]
       /\ doubt' = [doubt EXCEPT ![p] = doubts]
       /\ fresh' = IF Raced(p) THEN fresh \ {s} ELSE fresh
  BY <1>1, <1>11 DEF StartSave
<1>13. fd' = fd /\ UNCHANGED disk /\ ever' = ever
  BY DEF WebInfo
<1>14. PICK new : new = InfoBlock
  OBVIOUS
<1>15. Puttable(new) /\ new.board = Info /\ Stay \in Follows
  BY <1>14, InfoPuttable, StayIs
<1>16. PICK next : next = Stay
  OBVIOUS
<1>17. /\ brc' = [brc EXCEPT ![SessionOf(p)] = r] /\ all' = [all EXCEPT ![p] = Kept(brc_putblock(loaded, new))]
       /\ then' = [then EXCEPT ![p] = next] /\ r = brc[SessionOf(p)]
       /\ fresh' = IF Raced(p) THEN fresh \ {SessionOf(p)} ELSE fresh
       /\ doubts = PushedOut(loaded, brc_putblock(loaded, new)) /\ next \in Follows
  BY <1>1, <1>4, <1>5, <1>9, <1>12, <1>14, <1>15, <1>16
<1>18. Saves(p, loaded, now, r, new, next, doubts)
  BY <1>2, <1>7, <1>8, <1>10, <1>11, <1>12, <1>13, <1>15, <1>17 DEF Saves
<1>19. QED
  BY <1>18

LEMMA TelnetReads ==
    ASSUME Typed, NEW p \in Telnet, Ready(p), NEW next \in Follows, readwritebrc(p, next)
    PROVE  \E loaded, now : \/ Finishes(p, loaded, next, now)
                            \/ \E r, new, doubts : Saves(p, loaded, now, r, new, next, doubts)
<1>1. Owner(p) = UserOf[p] /\ p \in Procs
  BY DEF Owner, SessionOf, Procs
<1>2. PICK loaded \in Loads(p, Owner(p)) :
          SaveBoard(p, loaded, next, Known(p, Owner(p), loaded)) /\ UNCHANGED <<net, strangers>>
  BY <1>1 DEF readwritebrc
<1>3. PICK now : now = Known(p, Owner(p), loaded)
  OBVIOUS
<1>4. Reading(p, loaded, now)
  BY <1>2, <1>3 DEF Reading, net
<1>5. SaveBoard(p, loaded, next, now)
  BY <1>2, <1>3
<1>6. QED
  BY <1>1, <1>4, <1>5, SaveBoardIs

LEMMA WebReads ==
    ASSUME Typed, NEW p \in Web, Ready(p), NEW next \in Follows, NEW loaded \in WebLoads(p),
           SaveBoard(p, loaded, next, WebKnown(p, loaded)), WebRead(p)
    PROVE  \E now : \/ Finishes(p, loaded, next, now)
                    \/ \E r, new, doubts : Saves(p, loaded, now, r, new, next, doubts)
<1>1. PICK now : now = WebKnown(p, loaded)
  OBVIOUS
<1>2. p \in Procs
  BY DEF Procs
<1>3. Reading(p, loaded, now)
  BY <1>1 DEF Reading, WebRead
<1>4. SaveBoard(p, loaded, next, now)
  BY <1>1
<1>5. QED
  BY <1>2, <1>3, <1>4, SaveBoardIs

(* Going to a board, or ending, with what is in memory. *)
LEMMA HoldsFinishes ==
    ASSUME Typed, NEW p \in Procs, Active(p), NEW next \in Follows, NEW d, d = all[p].blocks,
           p \in Telnet => all[p].kept \/ pc[p] = "done",
           Finish(p, brc[SessionOf(p)], d, next, current),
           current' = IF next.keep THEN current ELSE current \ {p},
           cast' = cast, serve' = serve, expired' = expired, owner' = owner, strangers' = strangers,
           \/ /\ pc[p] = "idle" /\ (p \in Web => next.leave)
              /\ pc' = pc /\ then' = then /\ doubt' = doubt
           \/ /\ pc[p] = "done" /\ pc' = [pc EXCEPT ![p] = "idle"] /\ then' = [then EXCEPT ![p] = Stay]
              /\ doubt' = [doubt EXCEPT ![p] = {}],
           fd' = fd, UNCHANGED disk, ever' = ever
    PROVE  Finishes(p, d, next, current)
<1>1. Holding(p, d, current)
  BY DEF Holding
<1>2. Fit(d)
  BY TypedParts
<1>3. QED
  BY <1>1, <1>2 DEF Finishes

LEMMA InitialKinds ==
    ASSUME Typed, NEW p \in Telnet, NEW b \in Boards, NEW keep \in BOOLEAN, TelnetInitial(p, b, keep)
    PROVE  \/ Frees(p)
           \/ \E d, next, now : Finishes(p, d, next, now)
           \/ \E d, now, r, new, next, doubts : Saves(p, d, now, r, new, next, doubts)
<1>1. PICK next : next = [board |-> b, keep |-> keep, leave |-> FALSE]
  OBVIOUS
<1>2. next \in Follows /\ next.keep = keep /\ next.board = b /\ p \in Procs /\ SessionOf(p) = p
  BY <1>1 DEF Follows, Procs, SessionOf
<1>0. p \notin Web
  BY Names
<1>3. Ready(p) /\ Active(p) /\ pc[p] = "idle"
  BY DEF TelnetInitial, Ready
<1>4. CASE /\ brc[p].board = b
           /\ all[p].kept /\ ~keep
           /\ all' = [all EXCEPT ![p] = Freed(p, all[p].blocks)] /\ current' = current \ {p}
           /\ UNCHANGED <<brc, net, saving, disk, counters, ever, fresh, strangers, doubt>>
  BY <1>3, <1>4 DEF Frees
<1>5. CASE readwritebrc(p, next)
  BY <1>2, <1>3, <1>5, TelnetReads
<1>6. CASE /\ brc[p].board # b /\ all[p].kept /\ ~brc[p].changed
           /\ Finish(p, brc[p], all[p].blocks, next, current) /\ Opened(b)
           /\ current' = IF keep THEN current ELSE current \ {p}
           /\ UNCHANGED <<net, saving, disk, marks, saves, faults, ever, strangers, doubt>>
  <2>1. PICK d : d = all[p].blocks
    OBVIOUS
  <2>2. cast' = cast /\ serve' = serve /\ expired' = expired /\ owner' = owner /\ strangers' = strangers
    BY <1>6 DEF net
  <2>3. pc' = pc /\ then' = then /\ doubt' = doubt /\ fd' = fd /\ UNCHANGED disk /\ ever' = ever
    BY <1>6 DEF saving
  <2>4. Finish(p, brc[SessionOf(p)], d, next, current)
    BY <1>2, <1>6, <2>1
  <2>5. Finishes(p, d, next, current)
    BY <1>0, <1>2, <1>3, <1>6, <2>1, <2>2, <2>3, <2>4, HoldsFinishes
  <2>6. QED
    BY <2>5
<1>7. QED
  <2>1. \/ /\ brc[p].board = b
           /\ all[p].kept /\ ~keep
           /\ all' = [all EXCEPT ![p] = Freed(p, @.blocks)] /\ current' = current \ {p}
           /\ UNCHANGED <<brc, net, saving, disk, counters, ever, fresh, strangers, doubt>>
        \/ /\ brc[p].board # b /\ (~all[p].kept \/ brc[p].changed)
           /\ readwritebrc(p, next)
        \/ /\ brc[p].board # b /\ all[p].kept /\ ~brc[p].changed
           /\ Finish(p, brc[p], all[p].blocks, next, current) /\ Opened(b)
           /\ current' = IF keep THEN current ELSE current \ {p}
           /\ UNCHANGED <<net, saving, disk, marks, saves, faults, ever, strangers, doubt>>
    BY <1>1 DEF TelnetInitial
  <2>2. QED
    BY <1>4, <1>5, <1>6, <2>1

LEMMA LogoutKinds ==
    ASSUME Typed, NEW p \in Web, WebLogout(p)
    PROVE  \/ \E d, next, now : Finishes(p, d, next, now)
           \/ \E d, now, r, new, next, doubts : Saves(p, d, now, r, new, next, doubts)
<1>1. PICK leave : leave = [Stay EXCEPT !.leave = TRUE]
  OBVIOUS
<1>2. leave \in Follows /\ leave.keep = TRUE /\ leave.leave
  BY <1>1, StayIs
<1>3. /\ Ready(p) /\ Active(p) /\ pc[p] = "idle" /\ p \in Procs
      /\ SessionOf(p) = serve[p] /\ p \notin Telnet
  BY Names DEF WebLogout, Ready, Procs, SessionOf
<1>4. CASE brc[serve[p]].changed
  <2>1. PICK d \in WebLoads(p) : SaveBoard(p, d, leave, WebKnown(p, d)) /\ WebRead(p)
    BY <1>1, <1>4 DEF WebLogout
  <2>2. QED
    BY <1>2, <1>3, <2>1, WebReads
<1>5. CASE ~brc[serve[p]].changed
  <2>1. /\ Finish(p, brc[serve[p]], all[p].blocks, leave, current)
        /\ UNCHANGED <<net, saving, disk, counters, ever, current, strangers, doubt>>
    BY <1>1, <1>5 DEF WebLogout
  <2>2. PICK d : d = all[p].blocks
    OBVIOUS
  <2>3. Finish(p, brc[SessionOf(p)], d, leave, current)
    BY <1>3, <2>1, <2>2
  <2>4. current' = IF leave.keep THEN current ELSE current \ {p}
    BY <1>2, <2>1
  <2>5. cast' = cast /\ serve' = serve /\ expired' = expired /\ owner' = owner /\ strangers' = strangers
    BY <2>1 DEF net
  <2>6. pc' = pc /\ then' = then /\ doubt' = doubt /\ fd' = fd /\ UNCHANGED disk /\ ever' = ever
    BY <2>1 DEF saving
  <2>7. Finishes(p, d, leave, current)
    BY <1>2, <1>3, <2>2, <2>3, <2>4, <2>5, <2>6, HoldsFinishes
  <2>8. QED
    BY <2>7
<1>6. QED
  BY <1>4, <1>5

LEMMA SavedFinishes ==
    ASSUME BaseInv, NEW p \in Procs, Saved(p)
    PROVE  \E d, next, now : Finishes(p, d, next, now)
<1>1. Active(p) /\ pc[p] = "done" /\ Typed
  BY DEF BaseInv, Busy, Saved
<1>2. PICK d : d = all[p].blocks
  OBVIOUS
<1>3. PICK next : next = then[p]
  OBVIOUS
<1>4. next \in Follows
  BY <1>1, <1>3 DEF Typed, SavingTyped
<1>5. Finish(p, brc[SessionOf(p)], d, next, current)
  BY <1>2, <1>3 DEF Saved
<1>6. current' = IF next.keep THEN current ELSE current \ {p}
  BY <1>3 DEF Saved
<1>7. /\ cast' = cast /\ serve' = serve /\ expired' = expired /\ owner' = owner /\ strangers' = strangers
      /\ fd' = fd /\ UNCHANGED disk /\ ever' = ever
  BY DEF Saved, net
<1>8. /\ pc' = [pc EXCEPT ![p] = "idle"] /\ then' = [then EXCEPT ![p] = Stay]
      /\ doubt' = [doubt EXCEPT ![p] = {}]
  BY DEF Saved
<1>9. Finishes(p, d, next, current)
  BY <1>1, <1>2, <1>4, <1>5, <1>6, <1>7, <1>8, HoldsFinishes
<1>10. QED
  BY <1>9

LEMMA SetReadMarks ==
    ASSUME BaseInv, NEW p \in Procs, NEW t \in Times, SetRead(p, t) \/ Clear(p, t)
    PROVE  \E r : Marks(p, r)
<1>1. PICK r0 : r0 = brc[SessionOf(p)]
  OBVIOUS
<1>2. Ready(p) /\ Active(p) /\ r0.board # NoBoard /\ Typed /\ t \in Nat
  BY <1>1, TimesAre DEF SetRead, Clear, Ready, BaseInv
<1>3. r0 \in Rc /\ OnBoard(r0)
  BY <1>1, <1>2, Serving, TypedParts
<1>4. Listed(r0.list) /\ r0.board \in Boards
  BY <1>2, <1>3, RcIs DEF OnBoard
<1>5. PICK r : r \in {brc_addlistt(r0, t), brc_clearto(r0, t)} /\ Marked(p, r)
  BY <1>1 DEF SetRead, Clear
<1>6. Kept1(r0, r)
  BY <1>2, <1>3, <1>4, <1>5, AddKept, ClearKept
<1>7. Marks(p, r)
  BY <1>1, <1>2, <1>4, <1>5, <1>6 DEF Marks
<1>8. QED
  BY <1>7

LEMMA Kinds ==
    ASSUME BaseInv, Next
    PROVE  \/ \E p \in Telnet : Frees(p)
           \/ \E p \in Procs : \E d, next, now : Finishes(p, d, next, now)
           \/ \E p \in Procs : \E d, now, r, new, next, doubts : Saves(p, d, now, r, new, next, doubts)
           \/ \E p \in Web, w \in Windows : WebRequest(p, w)
           \/ \E p \in Procs : \E r : Marks(p, r)
           \/ \E p \in Procs : OpenTmp(p) \/ OpenFails(p) \/ WriteTmp(p) \/ Rename(p) \/ Kill(p)
           \/ \E u \in Users : CronCopy(u) \/ CronKeep(u) \/ CronUnlink(u)
<1>0. Typed /\ Telnet \subseteq Procs /\ Web \subseteq Procs
  BY DEF BaseInv, Procs
<1>1. ASSUME NEW p \in Telnet, NEW b \in Boards, NEW keep \in BOOLEAN, TelnetInitial(p, b, keep)
      PROVE  \/ Frees(p)
             \/ \E d, next, now : Finishes(p, d, next, now)
             \/ \E d, now, r, new, next, doubts : Saves(p, d, now, r, new, next, doubts)
  BY <1>0, <1>1, InitialKinds
<1>2. ASSUME NEW p \in Telnet, TelnetUpdate(p) \/ TelnetList(p)
      PROVE  \/ \E d, next, now : Finishes(p, d, next, now)
             \/ \E d, now, r, new, next, doubts : Saves(p, d, now, r, new, next, doubts)
  <2>1. Ready(p) /\ all[p].kept \in BOOLEAN
    BY <1>0, <1>2, TypedParts DEF TelnetUpdate, TelnetList, InMemory
  <2>2. PICK next \in Follows : readwritebrc(p, next)
    BY <1>2, <2>1, StayIs DEF TelnetUpdate, TelnetList
  <2>3. QED
    BY <1>0, <2>1, <2>2, TelnetReads
<1>3. ASSUME NEW p \in Telnet, TelnetListEnd(p) PROVE Frees(p)
  BY <1>3 DEF TelnetListEnd, Frees
<1>4. ASSUME NEW p \in Web, NEW b \in Boards \cup {NoBoard}, WebInitial(p, b)
      PROVE  \/ \E d, next, now : Finishes(p, d, next, now)
             \/ \E d, now, r, new, next, doubts : Saves(p, d, now, r, new, next, doubts)
  <2>1. PICK next : next = [Stay EXCEPT !.board = b]
    OBVIOUS
  <2>2. next \in Follows
    BY <2>1, StayIs
  <2>3. PICK d \in WebLoads(p) : SaveBoard(p, d, next, WebKnown(p, d))
    BY <1>4, <2>1 DEF WebInitial
  <2>4. Ready(p) /\ WebRead(p)
    BY <1>4 DEF WebInitial
  <2>5. QED
    BY <1>0, <2>2, <2>3, <2>4, WebReads
<1>5. QED
  BY <1>0, <1>1, <1>2, <1>3, <1>4, InfoSaves, LogoutKinds, SavedFinishes, SetReadMarks, Zenon DEF Next

-----------------------------------------------------------------------------
(***************************************************************************)
(* Types, and who may have a file open, after each kind of step.           *)
(***************************************************************************)
LEMMA NetKept ==
    ASSUME Typed, NEW p \in Procs, Active(p), NEW d, NEW now, Reading(p, d, now) \/ Holding(p, d, now)
    PROVE  /\ NetTyped' /\ cast' = cast /\ serve' = serve
           /\ strangers \subseteq strangers' /\ strangers' \subseteq strangers \cup {Owner(p)}
           /\ strangers' \subseteq Users
           /\ \A q \in Web : q # p => owner'[q] = owner[q]
           /\ Holding(p, d, now) => owner' = owner /\ strangers' = strangers
           /\ p \in Web /\ Reading(p, d, now) => owner'[p] = {Owner(p)}
           /\ now \subseteq Procs
<1>1. Owner(p) \in Users /\ current \subseteq Procs /\ strangers \subseteq Users
  BY Serving DEF Typed, HistoryTyped
<1>2. NetTyped
  BY DEF Typed
<1>3. CASE expired' = expired /\ owner' = owner /\ strangers' = strangers /\ (p \in Web => ~Reading(p, d, now))
  <2>1. cast' = cast /\ serve' = serve
    BY DEF Reading, Holding
  <2>2. NetTyped'
    BY <1>2, <1>3, <2>1 DEF NetTyped
  <2>3. now \subseteq Procs
    BY <1>1 DEF Reading, Holding, Known, WebKnown
  <2>4. QED
    BY <1>1, <1>3, <2>1, <2>2, <2>3
<1>4. CASE p \in Web /\ Reading(p, d, now)
  <2>1. p \notin Telnet
    BY <1>4, Names
  <2>2. cast' = cast /\ serve' = serve /\ WebRead(p) /\ now = WebKnown(p, d)
    BY <1>4, <2>1 DEF Reading
  <2>3. /\ expired' = [expired EXCEPT ![p] = FALSE] /\ owner' = [owner EXCEPT ![p] = {Owner(p)}]
        /\ strangers' \in {strangers, strangers \cup {Owner(p)}}
    BY <2>2 DEF WebRead
  <2>4. NetTyped' /\ owner'[p] = {Owner(p)} /\ \A q \in Web : q # p => owner'[q] = owner[q]
    BY <1>1, <1>2, <1>4, <2>2, <2>3 DEF NetTyped
  <2>5. now \subseteq Procs
    BY <1>1, <2>2 DEF Known, WebKnown
  <2>6. Holding(p, d, now) => owner' = owner /\ strangers' = strangers
    BY DEF Holding
  <2>7. QED
    BY <1>1, <2>2, <2>3, <2>4, <2>5, <2>6
<1>5. QED
  <2>1. p \in Web => p \notin Telnet
    BY Names
  <2>2. ~(p \in Web /\ Reading(p, d, now)) => expired' = expired /\ owner' = owner /\ strangers' = strangers
    BY DEF Reading, Holding
  <2>3. QED
    BY <1>3, <1>4, <2>2

(* What Finish leaves: the marks r of the session, the blocks e.           *)
Finished(p, d, next, now, r, e) ==
    LET s == SessionOf(p) IN
    /\ s \in Sessions /\ Owner(p) \in Users /\ now \subseteq Procs /\ Typed
    /\ brc' = [brc EXCEPT ![s] = r] /\ r \in Rc /\ OnBoard(r)
    /\ \/ next.leave /\ r = Zero
       \/ ~next.leave /\ next.board = NoBoard /\ r = brc[s]
       \/ /\ ~next.leave /\ next.board \in Boards /\ r.board = next.board
          /\ ~r.changed /\ ReadOf(r.list) = Reads(d, next.board)
    /\ all' = [all EXCEPT ![p] = [blocks |-> e, kept |-> next.keep]] /\ next.keep \in BOOLEAN
    /\ Fit(e) /\ e \in {<<>>, d} /\ (next.keep => e = d)
    /\ fresh' = IF next.board = NoBoard /\ ~next.leave THEN fresh
                ELSE IF p \in now /\ ~next.leave /\ ~Raced(p) THEN fresh \cup {s}
                ELSE fresh \ {s}
    /\ pc'[p] = "idle" /\ pc' \in [Procs -> Steps] /\ \A q \in Procs \ {p} : pc'[q] = pc[q]
    /\ then' \in [Procs -> Follows]
    /\ doubt' \in [Procs -> SUBSET (Boards \cup {Info})] /\ \A q \in Procs \ {p} : doubt'[q] = doubt[q]

LEMMA ZeroIs == Zero \in Rc /\ OnBoard(Zero) /\ Zero.board = NoBoard
<1>1. /\ Zero.board = NoBoard /\ Zero.list = <<>> /\ Zero.changed = FALSE
      /\ Zero = [board |-> NoBoard, list |-> <<>>, cur |-> 0, changed |-> FALSE]
  BY DEF Zero, OneBrc
<1>2. 0 \in 0..MaxNum /\ <<>> \in Seq(Nat)
  BY Limits
<1>3. Zero \in Rc
  BY <1>1, <1>2 DEF Rc
<1>4. QED
  BY <1>1, <1>3 DEF OnBoard

LEMMA FinishIs ==
    ASSUME Typed, NEW p, NEW d, NEW next, NEW now, Finishes(p, d, next, now)
    PROVE  \E r, e : Finished(p, d, next, now, r, e)
<1>1. /\ p \in Procs /\ Active(p) /\ Fit(d) /\ next \in Follows
      /\ Reading(p, d, now) \/ Holding(p, d, now)
  BY DEF Finishes
<1>2. PICK s : s = SessionOf(p)
  OBVIOUS
<1>3. s \in Sessions /\ Owner(p) \in Users /\ now \subseteq Procs
  BY <1>1, <1>2, Serving, NetKept
<1>4. next.board \in Boards \cup {NoBoard} /\ next.keep \in BOOLEAN /\ next.leave \in BOOLEAN
  BY <1>1 DEF Follows
<1>5. PICK r0 : r0 = brc[s]
  OBVIOUS
<1>6. r0 \in Rc /\ OnBoard(r0)
  BY <1>3, <1>5, TypedParts
<1>7. Finish(p, r0, d, next, now)
  BY <1>2, <1>5 DEF Finishes
<1>8. PICK r : r = IF next.leave THEN Zero ELSE IF next.board = NoBoard THEN r0
                   ELSE brc_getboard(r0, d, next.board)
  OBVIOUS
<1>9. brc' = [brc EXCEPT ![s] = r]
  BY <1>2, <1>7, <1>8 DEF Finish
<1>10. /\ r \in Rc /\ OnBoard(r)
       /\ \/ next.leave /\ r = Zero
          \/ ~next.leave /\ next.board = NoBoard /\ r = r0
          \/ /\ ~next.leave /\ next.board \in Boards /\ r.board = next.board
             /\ ~r.changed /\ ReadOf(r.list) = Reads(d, next.board)
  <2>1. CASE next.leave
    BY <1>8, <2>1, ZeroIs
  <2>2. CASE ~next.leave /\ next.board = NoBoard
    BY <1>6, <1>8, <2>2
  <2>3. CASE ~next.leave /\ next.board # NoBoard
    <3>1. PICK b : b = next.board /\ b \in Boards
      BY <1>4, <2>3
    <3>2. r = brc_getboard(r0, d, b)
      BY <1>8, <2>3, <3>1
    <3>3. /\ r \in Rc /\ OnBoard(r) /\ r.board = b /\ r.changed = FALSE
          /\ ReadOf(r.list) = Reads(d, b)
      <4>1. Fit(d) /\ b \in Boards
        BY <1>1, <3>1
      <4>2. GotBoard(r, b, d)
        BY <1>6, <3>2, <4>1, GetBoardIs
      <4>3. QED
        BY <4>2 DEF GotBoard
    <3>4. QED
      BY <2>3, <3>1, <3>3
  <2>4. QED
    BY <2>1, <2>2, <2>3
<1>11. \E e : /\ all' = [all EXCEPT ![p] = [blocks |-> e, kept |-> next.keep]]
              /\ Fit(e) /\ e \in {<<>>, d} /\ (next.keep => e = d)
  <2>1. all' = [all EXCEPT ![p] = IF next.keep THEN Kept(d) ELSE Freed(p, d)]
    BY <1>7 DEF Finish
  <2>2. CASE next.keep
    <3>1. Kept(d) = [blocks |-> d, kept |-> next.keep]
      BY <1>4, <2>2 DEF Kept
    <3>2. QED
      BY <1>1, <2>1, <2>2, <3>1
  <2>3. CASE ~next.keep
    <3>1. PICK e : Freed(p, d) = [blocks |-> e, kept |-> FALSE] /\ Fit(e) /\ e \in {<<>>, d}
      BY <1>1, FreedIs
    <3>2. all' = [all EXCEPT ![p] = [blocks |-> e, kept |-> next.keep]]
      BY <1>4, <2>1, <2>3, <3>1
    <3>3. QED
      BY <2>3, <3>1, <3>2
  <2>4. QED
    BY <2>2, <2>3
<1>12. PICK e : /\ all' = [all EXCEPT ![p] = [blocks |-> e, kept |-> next.keep]]
                /\ Fit(e) /\ e \in {<<>>, d} /\ (next.keep => e = d)
  BY <1>11
<1>13. fresh' = IF next.board = NoBoard /\ ~next.leave THEN fresh
                ELSE IF p \in now /\ ~next.leave /\ ~Raced(p) THEN fresh \cup {s}
                ELSE fresh \ {s}
  BY <1>2, <1>7 DEF Finish
<1>14. SavingTyped /\ HistoryTyped
  BY DEF Typed
<1>15. /\ pc'[p] = "idle" /\ pc' \in [Procs -> Steps] /\ \A q \in Procs \ {p} : pc'[q] = pc[q]
       /\ then' \in [Procs -> Follows]
       /\ doubt' \in [Procs -> SUBSET (Boards \cup {Info})] /\ \A q \in Procs \ {p} : doubt'[q] = doubt[q]
  <2>1. CASE pc[p] = "idle" /\ pc' = pc /\ then' = then /\ doubt' = doubt
    BY <1>14, <2>1 DEF SavingTyped, HistoryTyped
  <2>2. CASE /\ pc' = [pc EXCEPT ![p] = "idle"] /\ then' = [then EXCEPT ![p] = Stay]
             /\ doubt' = [doubt EXCEPT ![p] = {}]
    <3>1. "idle" \in Steps /\ {} \in SUBSET (Boards \cup {Info})
      BY DEF Steps
    <3>2. pc'[p] = "idle" /\ pc' \in [Procs -> Steps] /\ \A q \in Procs \ {p} : pc'[q] = pc[q]
      BY <1>1, <1>14, <2>2, <3>1, StepSet DEF SavingTyped
    <3>3. then' \in [Procs -> Follows]
      BY <1>1, <1>14, <2>2, StayIs, ThenSet DEF SavingTyped
    <3>4. doubt' \in [Procs -> SUBSET (Boards \cup {Info})] /\ \A q \in Procs \ {p} : doubt'[q] = doubt[q]
      BY <1>1, <1>14, <2>2, <3>1, DoubtSet
    <3>5. QED
      BY <3>2, <3>3, <3>4
  <2>3. \/ pc[p] = "idle" /\ pc' = pc /\ then' = then /\ doubt' = doubt
        \/ /\ pc' = [pc EXCEPT ![p] = "idle"] /\ then' = [then EXCEPT ![p] = Stay]
           /\ doubt' = [doubt EXCEPT ![p] = {}]
    BY Zenon DEF Finishes
  <2>4. QED
    BY <2>1, <2>2, <2>3, Zenon
<1>16. Finished(p, d, next, now, r, e)
  BY <1>2, <1>3, <1>4, <1>5, <1>9, <1>10, <1>12, <1>13, <1>15 DEF Finished
<1>17. QED
  BY <1>16

LEMMA BusyAlike ==
    ASSUME NEW q \in Procs, Busy(q), SessionOf(q)' = SessionOf(q), Active(q)' <=> Active(q),
           pc'[q] = pc[q], fd'[q] # "none" => fd[q] # "none", q \in Web => owner'[q] = owner[q]
    PROVE  Busy(q)'
<1>1. Owner(q)' = Owner(q)
  BY DEF Owner
<1>2. QED
  BY <1>1 DEF Busy

LEMMA PartsSame ==
    ASSUME Typed
    PROVE  /\ brc' = brc => MarksTyped'
           /\ all' = all => BlocksTyped'
           /\ UNCHANGED net => NetTyped'
           /\ UNCHANGED saving => SavingTyped'
           /\ UNCHANGED disk => DiskTyped'
<1>1. brc' = brc => MarksTyped'
  BY DEF Typed, MarksTyped
<1>2. all' = all => BlocksTyped'
  BY DEF Typed, BlocksTyped
<1>3. UNCHANGED net => NetTyped'
  BY DEF Typed, NetTyped, net
<1>4. UNCHANGED saving => SavingTyped'
  BY DEF Typed, SavingTyped, saving
<1>5. UNCHANGED disk => DiskTyped'
  BY DEF Typed, DiskTyped, disk
<1>6. QED
  BY <1>1, <1>2, <1>3, <1>4, <1>5

LEMMA FrameBase ==
    ASSUME BaseInv, UNCHANGED net, UNCHANGED saving
    PROVE  NetTyped' /\ SavingTyped' /\ \A q \in Procs : Busy(q)'
<1>1. Typed
  BY DEF BaseInv
<1>2. cast' = cast /\ serve' = serve /\ owner' = owner /\ pc' = pc /\ fd' = fd
  BY DEF net, saving
<1>3. \A q \in Procs : Busy(q)'
  <2>1. SUFFICES ASSUME NEW q \in Procs PROVE Busy(q)'
    OBVIOUS
  <2>2. SessionOf(q)' = SessionOf(q) /\ (Active(q)' <=> Active(q))
    BY <1>2, SameNet
  <2>3. QED
    BY <1>2, <2>2, BusyAlike DEF BaseInv
<1>4. QED
  BY <1>1, <1>3, PartsSame

LEMMA FreesBase == ASSUME BaseInv, NEW p \in Telnet, Frees(p) PROVE BaseInv'
<1>1. Typed /\ p \in Procs /\ Fit(all[p].blocks)
  BY TypedParts DEF BaseInv, Procs
<1>2. /\ all' = [all EXCEPT ![p] = Freed(p, all[p].blocks)] /\ current' = current \ {p}
      /\ UNCHANGED net /\ UNCHANGED saving /\ UNCHANGED disk
      /\ UNCHANGED <<brc, ever, fresh, strangers, doubt>>
  BY DEF Frees
<1>3. PICK e : Freed(p, all[p].blocks) = [blocks |-> e, kept |-> FALSE] /\ Fit(e)
  BY <1>1, FreedIs
<1>4. BlocksTyped'
  BY <1>1, <1>2, <1>3, BlocksSet DEF Typed
<1>5. MarksTyped' /\ DiskTyped'
  BY <1>1, <1>2, PartsSame
<1>6. HistoryTyped'
  BY <1>1, <1>2 DEF Typed, HistoryTyped
<1>7. QED
  BY <1>2, <1>4, <1>5, <1>6, FrameBase DEF BaseInv, Typed

LEMMA FinishesBase ==
    ASSUME BaseInv, NEW p \in Procs, NEW d, NEW next, NEW now, Finishes(p, d, next, now)
    PROVE  BaseInv'
<1>1. Typed
  BY DEF BaseInv
<1>2. PICK r, e : Finished(p, d, next, now, r, e)
  BY <1>1, FinishIs
<1>3. /\ Active(p)
      /\ Reading(p, d, now) \/ Holding(p, d, now)
      /\ current' = IF next.keep THEN now ELSE now \ {p}
      /\ fd' = fd /\ UNCHANGED disk /\ ever' = ever
  BY Zenon DEF Finishes
<1>4. /\ NetTyped' /\ cast' = cast /\ serve' = serve /\ strangers' \subseteq Users /\ now \subseteq Procs
      /\ \A q \in Web : q # p => owner'[q] = owner[q]
  BY <1>1, <1>3, NetKept
<1>5. MarksTyped'
  BY <1>1, <1>2, MarksSet DEF Typed, Finished
<1>6. BlocksTyped'
  BY <1>1, <1>2, BlocksSet DEF Typed, Finished
<1>7. SavingTyped'
  BY <1>1, <1>2, <1>3 DEF Typed, SavingTyped, Finished
<1>8. DiskTyped'
  BY <1>1, <1>3, PartsSame
<1>9. HistoryTyped'
  <2>1. fresh' \subseteq fresh \cup {SessionOf(p)} /\ SessionOf(p) \in Sessions
    BY <1>2 DEF Finished
  <2>2. doubt' \in [Procs -> SUBSET (Boards \cup {Info})]
    BY <1>2 DEF Finished
  <2>3. QED
    BY <1>1, <1>3, <1>4, <2>1, <2>2 DEF Typed, HistoryTyped
<1>10. ASSUME NEW q \in Procs PROVE Busy(q)'
  <2>1. pc'[p] = "idle" /\ (q # p => pc'[q] = pc[q])
    BY <1>2 DEF Finished
  <2>2. Busy(q) /\ (q = p => fd[q] = "none")
    <3>1. pc[p] \in {"idle", "done"}
      BY Zenon DEF Finishes
    <3>2. QED
      BY <3>1 DEF BaseInv, Busy
  <2>3. CASE q = p
    BY <1>3, <2>1, <2>2, <2>3 DEF Busy
  <2>4. CASE q # p
    <3>1. SessionOf(q)' = SessionOf(q) /\ (Active(q)' <=> Active(q))
      BY <1>4, SameNet
    <3>2. QED
      BY <1>3, <1>4, <2>1, <2>2, <2>4, <3>1, BusyAlike
  <2>5. QED
    BY <2>3, <2>4
<1>11. QED
  BY <1>4, <1>5, <1>6, <1>7, <1>8, <1>9, <1>10 DEF BaseInv, Typed

(* The same for what the start of a save leaves: the blocks P. *)
Begun(p, loaded, now, r, new, next, doubts, P) ==
    LET s == SessionOf(p) IN
    /\ p \in Procs /\ Active(p) /\ pc[p] = "idle" /\ s \in Sessions /\ Owner(p) \in Users
    /\ Typed /\ Fit(loaded) /\ P = brc_putblock(loaded, new) /\ Fit(P) /\ Puttable(new)
    /\ r \in Rc /\ OnBoard(r) /\ brc' = [brc EXCEPT ![s] = r]
    /\ all' = [all EXCEPT ![p] = [blocks |-> P, kept |-> TRUE]]
    /\ pc'[p] = "open" /\ pc' \in [Procs -> Steps] /\ \A q \in Procs \ {p} : pc'[q] = pc[q]
    /\ then' \in [Procs -> Follows]
    /\ doubt' \in [Procs -> SUBSET (Boards \cup {Info})] /\ doubt'[p] = doubts
    /\ \A q \in Procs \ {p} : doubt'[q] = doubt[q]
    /\ now \subseteq Procs /\ current' = now /\ fd' = fd /\ UNCHANGED disk /\ ever' = ever
    /\ fresh' = IF Raced(p) THEN fresh \ {s} ELSE fresh

LEMMA SavesIs ==
    ASSUME Typed, NEW p, NEW d, NEW now, NEW r, NEW new, NEW next, NEW doubts,
           Saves(p, d, now, r, new, next, doubts)
    PROVE  \E P : Begun(p, d, now, r, new, next, doubts, P)
<1>1. PICK s : s = SessionOf(p)
  OBVIOUS
<1>2. PICK P : P = brc_putblock(d, new)
  OBVIOUS
<1>3. /\ p \in Procs /\ Ready(p) /\ Active(p) /\ pc[p] = "idle" /\ Fit(d) /\ Reading(p, d, now)
      /\ Puttable(new) /\ next \in Follows /\ r \in Rc /\ OnBoard(r)
  BY DEF Saves, Ready
<1>4. /\ brc' = [brc EXCEPT ![s] = r] /\ all' = [all EXCEPT ![p] = Kept(P)]
      /\ pc' = [pc EXCEPT ![p] = "open"] /\ then' = [then EXCEPT ![p] = next]
      /\ doubt' = [doubt EXCEPT ![p] = doubts]
      /\ fresh' = IF Raced(p) THEN fresh \ {s} ELSE fresh
      /\ current' = now /\ fd' = fd /\ UNCHANGED disk /\ ever' = ever
  BY <1>1, <1>2 DEF Saves
<1>5. s \in Sessions /\ Owner(p) \in Users /\ now \subseteq Procs
  BY <1>1, <1>3, Serving, NetKept
<1>6. Fit(P) /\ PushedOut(d, P) \subseteq Boards \cup {Info}
  BY <1>2, <1>3, PutReads
<1>7. doubts \in SUBSET (Boards \cup {Info})
  BY <1>2, <1>6 DEF Saves
<1>8. SavingTyped /\ HistoryTyped /\ "open" \in Steps
  BY DEF Typed, Steps
<1>9. pc'[p] = "open" /\ pc' \in [Procs -> Steps] /\ \A q \in Procs \ {p} : pc'[q] = pc[q]
  BY <1>3, <1>4, <1>8, StepSet DEF SavingTyped
<1>10. then' \in [Procs -> Follows]
  BY <1>3, <1>4, <1>8, ThenSet DEF SavingTyped
<1>11. /\ doubt' \in [Procs -> SUBSET (Boards \cup {Info})] /\ doubt'[p] = doubts
       /\ \A q \in Procs \ {p} : doubt'[q] = doubt[q]
  BY <1>3, <1>4, <1>7, <1>8, DoubtSet
<1>12. all' = [all EXCEPT ![p] = [blocks |-> P, kept |-> TRUE]]
  BY <1>4 DEF Kept
<1>13. Begun(p, d, now, r, new, next, doubts, P)
  BY <1>1, <1>2, <1>3, <1>4, <1>5, <1>6, <1>9, <1>10, <1>11, <1>12 DEF Begun
<1>14. QED
  BY <1>13

LEMMA SavesBase ==
    ASSUME BaseInv, NEW p \in Procs, NEW d, NEW now, NEW r, NEW new, NEW next, NEW doubts,
           Saves(p, d, now, r, new, next, doubts)
    PROVE  BaseInv'
<1>1. Typed /\ Reading(p, d, now)
  BY DEF BaseInv, Saves
<1>2. PICK P : Begun(p, d, now, r, new, next, doubts, P)
  BY <1>1, SavesIs
<1>3. Active(p) /\ pc[p] = "idle" /\ UNCHANGED disk /\ fd' = fd
  BY <1>2 DEF Begun
<1>4. /\ NetTyped' /\ cast' = cast /\ serve' = serve /\ strangers' \subseteq Users /\ now \subseteq Procs
      /\ \A q \in Web : q # p => owner'[q] = owner[q]
      /\ p \in Web => owner'[p] = {Owner(p)}
  BY <1>1, <1>3, NetKept
<1>5. MarksTyped'
  BY <1>1, <1>2, MarksSet DEF Typed, Begun
<1>6. BlocksTyped'
  BY <1>1, <1>2, BlocksSet DEF Typed, Begun
<1>7. SavingTyped'
  BY <1>1, <1>2, <1>3 DEF Typed, SavingTyped, Begun
<1>8. DiskTyped'
  BY <1>1, <1>3, PartsSame
<1>9. HistoryTyped'
  BY <1>1, <1>2, <1>4 DEF Typed, HistoryTyped, Begun
<1>10. ASSUME NEW q \in Procs PROVE Busy(q)'
  <2>1. pc'[p] = "open" /\ (q # p => pc'[q] = pc[q])
    BY <1>2 DEF Begun
  <2>2. Busy(q) /\ (q = p => fd[q] = "none")
    BY <1>3 DEF BaseInv, Busy
  <2>3. SessionOf(q)' = SessionOf(q) /\ (Active(q)' <=> Active(q)) /\ Owner(q)' = Owner(q)
    BY <1>4, SameNet
  <2>4. CASE q = p
    BY <1>3, <1>4, <2>1, <2>2, <2>3, <2>4 DEF Busy
  <2>5. CASE q # p
    BY <1>3, <1>4, <2>1, <2>2, <2>3, <2>5, BusyAlike
  <2>6. QED
    BY <2>4, <2>5
<1>11. QED
  BY <1>4, <1>5, <1>6, <1>7, <1>8, <1>9, <1>10 DEF BaseInv, Typed

LEMMA RequestBase == ASSUME BaseInv, NEW p \in Web, NEW w \in Windows, WebRequest(p, w) PROVE BaseInv'
<1>1. Typed /\ p \in Procs
  BY DEF BaseInv, Procs
<1>2. /\ pc[p] = "idle" /\ w \in cast /\ cast' = cast
      /\ serve' = [serve EXCEPT ![p] = w] /\ expired' = [expired EXCEPT ![p] = TRUE]
      /\ \/ all' = [all EXCEPT ![p].blocks = <<>>] /\ owner' = [owner EXCEPT ![p] = {}]
         \/ all' = all /\ owner' = owner
      /\ current' = current \ {p}
      /\ brc' = brc /\ UNCHANGED saving /\ UNCHANGED disk /\ ever' = ever /\ fresh' = fresh
      /\ strangers' = strangers /\ doubt' = doubt
  BY DEF WebRequest
<1>3. MarksTyped' /\ SavingTyped' /\ DiskTyped'
  BY <1>1, <1>2, PartsSame
<1>4. HistoryTyped'
  BY <1>1, <1>2 DEF Typed, HistoryTyped
<1>5. BlocksTyped'
  <2>1. CASE all' = all
    BY <1>1, <2>1, PartsSame
  <2>2. CASE all' = [all EXCEPT ![p].blocks = <<>>]
    <3>1. PICK a : a = [all[p] EXCEPT !.blocks = <<>>]
      OBVIOUS
    <3>2. all' = [all EXCEPT ![p] = a]
      BY <2>2, <3>1
    <3>3. InMemory(all[p])
      BY <1>1, TypedParts
    <3>4. PICK k \in BOOLEAN : k = all[p].kept
      BY <3>3 DEF InMemory
    <3>5. all[p] = [blocks |-> all[p].blocks, kept |-> k]
      BY <3>3, <3>4, Zenon DEF InMemory
    <3>6. a = [blocks |-> <<>>, kept |-> k]
      BY <3>1, <3>5
    <3>7. Fit(<<>>) /\ BlocksTyped
      BY <1>1, FitEmpty DEF Typed
    <3>8. QED
      BY <1>1, <3>2, <3>6, <3>7, BlocksSet
  <2>3. QED
    BY <1>2, <2>1, <2>2
<1>6. NetTyped'
  BY <1>1, <1>2 DEF Typed, NetTyped
<1>7. ASSUME NEW q \in Procs PROVE Busy(q)'
  <2>1. pc' = pc /\ fd' = fd
    BY <1>2 DEF saving
  <2>2. CASE q = p
    <3>1. fd[q] = "none"
      BY <1>2, <2>2 DEF BaseInv, Busy
    <3>2. QED
      BY <1>2, <2>1, <2>2, <3>1 DEF Busy
  <2>3. CASE q # p
    <3>1. serve'[q] = serve[q] \/ q \notin Web
      BY <1>1, <1>2, <2>3 DEF Typed, NetTyped
    <3>2. SessionOf(q)' = SessionOf(q) /\ (Active(q)' <=> Active(q))
      BY <1>2, <3>1 DEF SessionOf, Active, Procs
    <3>3. q \in Web => owner'[q] = owner[q]
      BY <1>1, <1>2, <2>3 DEF Typed, NetTyped
    <3>4. QED
      BY <2>1, <3>2, <3>3, BusyAlike DEF BaseInv
  <2>4. QED
    BY <2>2, <2>3
<1>8. QED
  BY <1>3, <1>4, <1>5, <1>6, <1>7 DEF BaseInv, Typed

LEMMA MarksBase == ASSUME BaseInv, NEW p \in Procs, NEW r, Marks(p, r) PROVE BaseInv'
<1>1. Typed /\ Active(p)
  BY DEF BaseInv, Marks, Ready
<1>2. PICK s : s = SessionOf(p)
  OBVIOUS
<1>3. PICK u : u = Owner(p)
  OBVIOUS
<1>4. s \in Sessions /\ u \in Users
  BY <1>1, <1>2, <1>3, Serving
<1>5. Kept1(brc[s], r) /\ Marked(p, r) /\ brc[s].board \in Boards
  BY <1>2 DEF Marks
<1>6. r \in Rc /\ r.board \in Boards /\ OnBoard(r)
  BY <1>5, Names DEF Kept1, OnBoard
<1>7. /\ brc' = [brc EXCEPT ![s] = r]
      /\ ever' = [ever EXCEPT ![u][r.board] = @ \cup {t \in Times : ReadIn(r.list, t)}]
      /\ all' = all /\ UNCHANGED net /\ UNCHANGED saving /\ UNCHANGED disk
      /\ current' = current /\ fresh' = fresh /\ strangers' = strangers /\ doubt' = doubt
  BY <1>2, <1>3, <1>5 DEF Marked
<1>8. MarksTyped'
  BY <1>1, <1>4, <1>6, <1>7, MarksSet DEF Typed
<1>9. BlocksTyped' /\ DiskTyped'
  BY <1>1, <1>7, PartsSame
<1>10. HistoryTyped'
  <2>1. ever' \in [Users -> [Boards -> SUBSET Times]]
    BY <1>1, <1>4, <1>6, <1>7 DEF Typed, HistoryTyped
  <2>2. QED
    BY <1>1, <1>7, <2>1 DEF Typed, HistoryTyped
<1>11. QED
  BY <1>7, <1>8, <1>9, <1>10, FrameBase DEF BaseInv, Typed

(* A file replaced. *)
LEMMA DiskEntry ==
    ASSUME NEW g, g = [v \in Users |-> g[v]], \A v \in Users : OnDisk(g[v]),
           NEW u \in Users, NEW f, OnDisk(f), NEW h, h = [g EXCEPT ![u] = f]
    PROVE  /\ h = [v \in Users |-> h[v]] /\ h[u] = f
           /\ \A v \in Users : v # u => h[v] = g[v]
           /\ \A v \in Users : OnDisk(h[v])
<1>1. h = [v \in Users |-> h[v]] /\ h[u] = f /\ \A v \in Users : v # u => h[v] = g[v]
  OBVIOUS
<1>2. QED
  BY <1>1

LEMMA FileMade ==
    ASSUME NEW d, Fit(d)
    PROVE  OnDisk(IsFile(d)) /\ IsFile(d).there = TRUE /\ IsFile(d).blocks = d
<1>1. PICK f : f = IsFile(d)
  OBVIOUS
<1>2. f = [there |-> TRUE, blocks |-> d]
  BY <1>1 DEF IsFile
<1>3. f.there = TRUE /\ f.blocks = d
  BY <1>2
<1>4. OnDisk(f)
  BY <1>2, <1>3, Zenon DEF OnDisk
<1>5. QED
  BY <1>1, <1>3, <1>4

LEMMA NoFileIs == OnDisk(NoFile) /\ NoFile.there = FALSE /\ NoFile.blocks = <<>>
  BY FitEmpty DEF NoFile, OnDisk

(* What a step that moves p on in brc_fini keeps. *)
LEMMA MovesBase ==
    ASSUME BaseInv, NEW p \in Procs, pc[p] # "idle", NEW k \in Steps, pc' = [pc EXCEPT ![p] = k],
           UNCHANGED net, then' = then, brc' = brc, all' = all, DiskTyped',
           fd' \in [Procs -> {"none", "tmp", "file", "gone"}],
           \A q \in Procs : q # p /\ fd'[q] # "none" => fd[q] # "none",
           fd'[p] # "none" => k \in {"write", "rename"},
           ever' = ever, current' \subseteq current, fresh' \subseteq fresh, strangers' = strangers,
           doubt' = doubt
    PROVE  BaseInv'
<1>1. Typed /\ Busy(p)
  BY DEF BaseInv
<1>2. pc' \in [Procs -> Steps] /\ pc'[p] = k /\ \A q \in Procs \ {p} : pc'[q] = pc[q]
  BY <1>1, StepSet DEF Typed, SavingTyped
<1>3. MarksTyped' /\ BlocksTyped' /\ NetTyped'
  BY <1>1, PartsSame
<1>4. SavingTyped'
  BY <1>1, <1>2 DEF Typed, SavingTyped
<1>5. HistoryTyped'
  BY <1>1 DEF Typed, HistoryTyped
<1>6. ASSUME NEW q \in Procs PROVE Busy(q)'
  <2>1. cast' = cast /\ serve' = serve /\ owner' = owner
    BY DEF net
  <2>2. SessionOf(q)' = SessionOf(q) /\ (Active(q)' <=> Active(q)) /\ Owner(q)' = Owner(q)
    BY <2>1, SameNet
  <2>3. CASE q = p
    BY <1>1, <1>2, <2>1, <2>2, <2>3 DEF Busy
  <2>4. CASE q # p
    BY <1>2, <2>1, <2>2, <2>4, BusyAlike DEF BaseInv
  <2>5. QED
    BY <2>3, <2>4
<1>7. QED
  BY <1>3, <1>4, <1>5, <1>6 DEF BaseInv, Typed

LEMMA TouchKeeps ==
    ASSUME Typed, NEW p, NEW u, Touch(p, u)
    PROVE  /\ current' \subseteq current /\ fresh' \subseteq fresh
           /\ cron' \in [Users -> {"no", "copied", "changed"}]
           /\ \A v \in Users : v # u => cron'[v] = cron[v]
           /\ u \in Users => cron'[u] # "copied"
<1>1. cron \in [Users -> {"no", "copied", "changed"}]
  BY DEF Typed, DiskTyped
<1>2. cron' = [cron EXCEPT ![u] = IF @ = "copied" THEN "changed" ELSE @]
  BY DEF Touch
<1>3. current' \subseteq current /\ fresh' \subseteq fresh
  BY DEF Touch
<1>4. QED
  BY <1>1, <1>2, <1>3

LEMMA Saver ==
    ASSUME BaseInv, NEW p \in Procs, pc[p] # "idle"
    PROVE  /\ Typed /\ Active(p) /\ SessionOf(p) \in Sessions /\ Owner(p) \in Users
           /\ Fit(all[p].blocks)
<1>1. Typed /\ Active(p)
  BY DEF BaseInv, Busy
<1>2. QED
  BY <1>1, Serving, TypedParts

LEMMA OpenBase == ASSUME BaseInv, NEW p \in Procs, OpenTmp(p) PROVE BaseInv'
<1>1. PICK u : u = Owner(p)
  OBVIOUS
<1>2. /\ pc[p] = "open" /\ pc' = [pc EXCEPT ![p] = "write"]
      /\ tmp' = [tmp EXCEPT ![u].there = TRUE]
      /\ fd' = [fd EXCEPT ![p] = "tmp"]
      /\ current' \subseteq current
      /\ brc' = brc /\ all' = all /\ UNCHANGED net /\ then' = then /\ file' = file /\ home' = home
      /\ cron' = cron /\ ever' = ever /\ fresh' = fresh /\ strangers' = strangers /\ doubt' = doubt
  BY <1>1 DEF OpenTmp
<1>3. Typed /\ u \in Users
  BY <1>1, <1>2, Saver
<1>4. OnDisk(tmp[u])
  BY <1>3, TypedParts
<1>5. PICK f : f = [tmp[u] EXCEPT !.there = TRUE]
  OBVIOUS
<1>6. f = IsFile(tmp[u].blocks)
  <2>1. tmp[u] = [there |-> tmp[u].there, blocks |-> tmp[u].blocks]
    BY <1>4, Zenon DEF OnDisk
  <2>2. QED
    BY <1>5, <2>1 DEF IsFile
<1>7. OnDisk(f)
  BY <1>4, <1>6, FileMade DEF OnDisk
<1>8. tmp' = [tmp EXCEPT ![u] = f]
  BY <1>2, <1>5
<1>9. DiskTyped
  BY <1>3 DEF Typed
<1>10. tmp' = [v \in Users |-> tmp'[v]] /\ \A v \in Users : OnDisk(tmp'[v])
  <2>1. tmp = [v \in Users |-> tmp[v]] /\ \A v \in Users : OnDisk(tmp[v])
    BY <1>9 DEF DiskTyped
  <2>2. QED
    BY <1>3, <1>7, <1>8, <2>1, DiskEntry
<1>11. DiskTyped'
  BY <1>2, <1>9, <1>10 DEF DiskTyped
<1>12. /\ fd' \in [Procs -> {"none", "tmp", "file", "gone"}]
       /\ \A q \in Procs : q # p /\ fd'[q] # "none" => fd[q] # "none"
  BY <1>2, <1>3 DEF Typed, SavingTyped
<1>13. pc[p] # "idle" /\ "write" \in Steps
  BY <1>2 DEF Steps
<1>14. QED
  BY <1>2, <1>11, <1>12, <1>13, MovesBase

LEMMA FailsBase == ASSUME BaseInv, NEW p \in Procs, OpenFails(p) PROVE BaseInv'
<1>1. /\ pc[p] = "open" /\ pc' = [pc EXCEPT ![p] = "done"]
      /\ current' \subseteq current /\ fresh' \subseteq fresh
      /\ brc' = brc /\ all' = all /\ UNCHANGED net /\ then' = then /\ UNCHANGED disk /\ fd' = fd
      /\ ever' = ever /\ strangers' = strangers /\ doubt' = doubt
  BY DEF OpenFails
<1>2. Typed
  BY DEF BaseInv
<1>3. DiskTyped'
  BY <1>1, <1>2, PartsSame
<1>4. fd' \in [Procs -> {"none", "tmp", "file", "gone"}]
  BY <1>1, <1>2 DEF Typed, SavingTyped
<1>5. pc[p] # "idle" /\ "done" \in Steps /\ fd[p] = "none"
  BY <1>1 DEF Steps, BaseInv, Busy
<1>6. \A q \in Procs : q # p /\ fd'[q] # "none" => fd[q] # "none"
  BY <1>1
<1>7. fd'[p] = "none"
  BY <1>1, <1>5
<1>8. QED
  BY <1>1, <1>3, <1>4, <1>5, <1>6, <1>7, MovesBase

(* Writing the blocks w over what a file holds. *)
Written(f, old, w) ==
    /\ OnDisk(f) /\ f.there = TRUE /\ Fit(f.blocks) /\ Begins(w, f.blocks)
    /\ \A i \in DOMAIN f.blocks : \/ \E j \in DOMAIN w : f.blocks[i] = w[j]
                                  \/ \E j \in DOMAIN old : f.blocks[i] = old[j]

LEMMA Overwritten ==
    ASSUME NEW old, Fit(old), NEW w, Fit(w), NEW f,
           f \in {IsFile(w \o tail) : tail \in Tails(old, SizeOf(w))}
    PROVE  Written(f, old, w)
<1>1. PICK tail \in Tails(old, SizeOf(w)) : f = IsFile(w \o tail)
  OBVIOUS
<1>2. PICK e : e = w \o tail
  OBVIOUS
<1>3. /\ Fit(e) /\ Begins(w, e)
      /\ \A i \in DOMAIN e : (\E j \in DOMAIN w : e[i] = w[j]) \/ (\E j \in DOMAIN old : e[i] = old[j])
  BY <1>2, TailsIs
<1>4. OnDisk(f) /\ f.there = TRUE /\ f.blocks = e
  BY <1>1, <1>2, <1>3, FileMade
<1>5. QED
  BY <1>3, <1>4 DEF Written

(* WriteTmp: to <user>.tmp, to the file it has become, or to nowhere. *)
WriteSame(p) ==
    /\ pc[p] = "write" /\ pc' = [pc EXCEPT ![p] = "rename"]
    /\ brc' = brc /\ all' = all /\ UNCHANGED net /\ fd' = fd /\ then' = then /\ home' = home
    /\ ever' = ever /\ strangers' = strangers /\ doubt' = doubt
WritesTmp(p, u, f) ==
    /\ fd[p] = "tmp" /\ Written(f, tmp[u].blocks, all[p].blocks)
    /\ tmp' = [tmp EXCEPT ![u] = f]
    /\ file' = file /\ cron' = cron /\ current' = current /\ fresh' = fresh
WritesFile(p, u, f) ==
    /\ fd[p] = "file" /\ Written(f, file[u].blocks, all[p].blocks)
    /\ file' = [file EXCEPT ![u] = f] /\ tmp' = tmp /\ Touch(p, u)
WritesNothing(p) ==
    /\ fd[p] = "gone"
    /\ file' = file /\ tmp' = tmp /\ cron' = cron /\ current' = current /\ fresh' = fresh

LEMMA WriteCases ==
    ASSUME BaseInv, NEW p \in Procs, WriteTmp(p), NEW u, u = Owner(p)
    PROVE  /\ WriteSame(p)
           /\ \/ \E f : WritesTmp(p, u, f)
              \/ \E f : WritesFile(p, u, f)
              \/ WritesNothing(p)
<1>1. WriteSame(p)
  BY DEF WriteTmp, WriteSame
<1>2. PICK w : w = all[p].blocks
  OBVIOUS
<1>3. pc[p] # "idle"
  BY DEF WriteTmp
<1>4. Typed /\ u \in Users /\ Fit(w)
  BY <1>2, <1>3, Saver
<1>5. Fit(file[u].blocks) /\ Fit(tmp[u].blocks)
  BY <1>4, TypedParts
<1>6. \/ /\ fd[p] = "tmp"
         /\ \E f \in {IsFile(w \o tail) : tail \in Tails(tmp[u].blocks, SizeOf(w))} :
               /\ tmp' = [tmp EXCEPT ![u] = f]
               /\ file' = file /\ cron' = cron /\ current' = current /\ fresh' = fresh
      \/ /\ fd[p] = "file"
         /\ \E f \in {IsFile(w \o tail) : tail \in Tails(file[u].blocks, SizeOf(w))} :
               file' = [file EXCEPT ![u] = f] /\ tmp' = tmp /\ Touch(p, u)
      \/ fd[p] = "gone" /\ UNCHANGED <<file, tmp, cron, current, fresh>>
  BY <1>2 DEF WriteTmp
<1>7. CASE /\ fd[p] = "tmp"
           /\ \E f \in {IsFile(w \o tail) : tail \in Tails(tmp[u].blocks, SizeOf(w))} :
                 /\ tmp' = [tmp EXCEPT ![u] = f]
                 /\ file' = file /\ cron' = cron /\ current' = current /\ fresh' = fresh
  <2>1. PICK f \in {IsFile(w \o tail) : tail \in Tails(tmp[u].blocks, SizeOf(w))} :
                 /\ tmp' = [tmp EXCEPT ![u] = f]
                 /\ file' = file /\ cron' = cron /\ current' = current /\ fresh' = fresh
    BY <1>7
  <2>2. Written(f, tmp[u].blocks, w)
    BY <1>4, <1>5, Overwritten
  <2>3. WritesTmp(p, u, f)
    BY <1>2, <1>7, <2>1, <2>2 DEF WritesTmp
  <2>4. QED
    BY <1>1, <2>3
<1>8. CASE /\ fd[p] = "file"
           /\ \E f \in {IsFile(w \o tail) : tail \in Tails(file[u].blocks, SizeOf(w))} :
                 file' = [file EXCEPT ![u] = f] /\ tmp' = tmp /\ Touch(p, u)
  <2>1. PICK f \in {IsFile(w \o tail) : tail \in Tails(file[u].blocks, SizeOf(w))} :
                 file' = [file EXCEPT ![u] = f] /\ tmp' = tmp /\ Touch(p, u)
    BY <1>8
  <2>2. Written(f, file[u].blocks, w)
    BY <1>4, <1>5, Overwritten
  <2>3. WritesFile(p, u, f)
    BY <1>2, <1>8, <2>1, <2>2 DEF WritesFile
  <2>4. QED
    BY <1>1, <2>3
<1>9. CASE fd[p] = "gone" /\ UNCHANGED <<file, tmp, cron, current, fresh>>
  BY <1>1, <1>9 DEF WritesNothing
<1>10. QED
  BY <1>6, <1>7, <1>8, <1>9

LEMMA WriteBase == ASSUME BaseInv, NEW p \in Procs, WriteTmp(p) PROVE BaseInv'
<1>1. PICK u : u = Owner(p)
  OBVIOUS
<1>2. /\ WriteSame(p)
      /\ (\E f : WritesTmp(p, u, f)) \/ (\E f : WritesFile(p, u, f)) \/ WritesNothing(p)
  BY <1>1, WriteCases
<1>3. /\ pc[p] = "write" /\ pc' = [pc EXCEPT ![p] = "rename"]
      /\ brc' = brc /\ all' = all /\ UNCHANGED net /\ fd' = fd /\ then' = then /\ home' = home
      /\ ever' = ever /\ strangers' = strangers /\ doubt' = doubt
  BY <1>2 DEF WriteSame
<1>4. Typed /\ u \in Users /\ DiskTyped
  BY <1>1, <1>3, Saver DEF Typed
<1>5. /\ file = [v \in Users |-> file[v]] /\ tmp = [v \in Users |-> tmp[v]]
      /\ \A v \in Users : OnDisk(file[v]) /\ OnDisk(tmp[v])
  BY <1>4 DEF DiskTyped
<1>6. DiskTyped' /\ current' \subseteq current /\ fresh' \subseteq fresh
  <2>1. ASSUME NEW f, WritesTmp(p, u, f)
        PROVE  DiskTyped' /\ current' \subseteq current /\ fresh' \subseteq fresh
    <3>1. OnDisk(f) /\ tmp' = [tmp EXCEPT ![u] = f]
      BY <2>1 DEF WritesTmp, Written
    <3>2. tmp' = [v \in Users |-> tmp'[v]] /\ \A v \in Users : OnDisk(tmp'[v])
      BY <1>4, <1>5, <3>1, DiskEntry
    <3>3. QED
      BY <1>3, <1>4, <2>1, <3>2 DEF DiskTyped, WritesTmp
  <2>2. ASSUME NEW f, WritesFile(p, u, f)
        PROVE  DiskTyped' /\ current' \subseteq current /\ fresh' \subseteq fresh
    <3>1. OnDisk(f) /\ file' = [file EXCEPT ![u] = f] /\ tmp' = tmp /\ Touch(p, u)
      BY <2>2 DEF WritesFile, Written
    <3>2. file' = [v \in Users |-> file'[v]] /\ \A v \in Users : OnDisk(file'[v])
      BY <1>4, <1>5, <3>1, DiskEntry
    <3>3. /\ current' \subseteq current /\ fresh' \subseteq fresh
          /\ cron' \in [Users -> {"no", "copied", "changed"}]
      BY <1>4, <3>1, TouchKeeps
    <3>4. QED
      BY <1>3, <1>4, <3>1, <3>2, <3>3 DEF DiskTyped
  <2>3. CASE WritesNothing(p)
    BY <1>3, <1>4, <2>3 DEF DiskTyped, WritesNothing
  <2>4. QED
    BY <1>2, <2>1, <2>2, <2>3
<1>7. fd' \in [Procs -> {"none", "tmp", "file", "gone"}]
  BY <1>3, <1>4 DEF Typed, SavingTyped
<1>8. pc[p] # "idle" /\ "rename" \in Steps
  BY <1>3 DEF Steps
<1>9. \A q \in Procs : q # p /\ fd'[q] # "none" => fd[q] # "none"
  BY <1>3
<1>10. QED
  BY <1>3, <1>6, <1>7, <1>8, <1>9, MovesBase

(* Rename: <user>.tmp becomes the file, or is gone already. *)
RenameSame(p) ==
    /\ pc[p] = "rename" /\ pc' = [pc EXCEPT ![p] = "done"]
    /\ brc' = brc /\ all' = all /\ UNCHANGED net /\ then' = then /\ home' = home
    /\ ever' = ever /\ strangers' = strangers /\ doubt' = doubt
    /\ fd'[p] = "none" /\ fd' \in [Procs -> {"none", "tmp", "file", "gone"}]
    /\ \A q \in Procs : q # p /\ fd'[q] # fd[q] =>
              fd[q] \in {"tmp", "file"} /\ fd'[q] \in {"file", "gone"}
Renames(p, u) ==
    /\ tmp[u].there
    /\ file' = [file EXCEPT ![u] = tmp[u]] /\ tmp' = [tmp EXCEPT ![u] = NoFile]
    /\ fd' = Moved(p, u) /\ Touch(p, u)
RenamesNothing(p, u) ==
    /\ ~tmp[u].there /\ fd' = [fd EXCEPT ![p] = "none"]
    /\ current' = current \ {p} /\ fresh' = fresh \ {SessionOf(p)}
    /\ file' = file /\ tmp' = tmp /\ cron' = cron

LEMMA RenameCases ==
    ASSUME BaseInv, NEW p \in Procs, Rename(p), NEW u, u = Owner(p)
    PROVE  RenameSame(p) /\ (Renames(p, u) \/ RenamesNothing(p, u))
<1>1. Renames(p, u) \/ RenamesNothing(p, u)
  BY DEF Rename, Renames, RenamesNothing
<1>2. fd \in [Procs -> {"none", "tmp", "file", "gone"}]
  BY DEF BaseInv, Typed, SavingTyped
<1>3. /\ fd'[p] = "none" /\ fd' \in [Procs -> {"none", "tmp", "file", "gone"}]
      /\ \A q \in Procs : q # p /\ fd'[q] # fd[q] =>
              fd[q] \in {"tmp", "file"} /\ fd'[q] \in {"file", "gone"}
  <2>1. CASE fd' = Moved(p, u)
    BY <1>2, <2>1 DEF Moved
  <2>2. CASE fd' = [fd EXCEPT ![p] = "none"]
    BY <1>2, <2>2
  <2>3. QED
    BY <1>1, <2>1, <2>2 DEF Renames, RenamesNothing
<1>4. QED
  BY <1>1, <1>3 DEF Rename, RenameSame

LEMMA RenameBase == ASSUME BaseInv, NEW p \in Procs, Rename(p) PROVE BaseInv'
<1>1. PICK u : u = Owner(p)
  OBVIOUS
<1>2. RenameSame(p) /\ (Renames(p, u) \/ RenamesNothing(p, u))
  BY <1>1, RenameCases
<1>3. /\ pc[p] = "rename" /\ pc' = [pc EXCEPT ![p] = "done"]
      /\ brc' = brc /\ all' = all /\ UNCHANGED net /\ then' = then /\ home' = home
      /\ ever' = ever /\ strangers' = strangers /\ doubt' = doubt
      /\ fd'[p] = "none" /\ fd' \in [Procs -> {"none", "tmp", "file", "gone"}]
  BY <1>2 DEF RenameSame
<1>4. \A q \in Procs : q # p /\ fd'[q] # "none" => fd[q] # "none"
  BY <1>2 DEF RenameSame
<1>5. Typed /\ u \in Users /\ DiskTyped
  BY <1>1, <1>3, Saver DEF Typed
<1>6. /\ file = [v \in Users |-> file[v]] /\ tmp = [v \in Users |-> tmp[v]]
      /\ \A v \in Users : OnDisk(file[v]) /\ OnDisk(tmp[v])
  BY <1>5 DEF DiskTyped
<1>7. DiskTyped' /\ current' \subseteq current /\ fresh' \subseteq fresh
  <2>1. CASE Renames(p, u)
    <3>1. file' = [file EXCEPT ![u] = tmp[u]] /\ tmp' = [tmp EXCEPT ![u] = NoFile] /\ Touch(p, u)
      BY <2>1 DEF Renames
    <3>2. file' = [v \in Users |-> file'[v]] /\ \A v \in Users : OnDisk(file'[v])
      BY <1>5, <1>6, <3>1, DiskEntry
    <3>3. tmp' = [v \in Users |-> tmp'[v]] /\ \A v \in Users : OnDisk(tmp'[v])
      BY <1>5, <1>6, <3>1, DiskEntry, NoFileIs
    <3>4. /\ current' \subseteq current /\ fresh' \subseteq fresh
          /\ cron' \in [Users -> {"no", "copied", "changed"}]
      BY <1>5, <3>1, TouchKeeps
    <3>5. QED
      BY <1>3, <1>5, <3>2, <3>3, <3>4 DEF DiskTyped
  <2>2. CASE RenamesNothing(p, u)
    BY <1>3, <1>5, <2>2 DEF DiskTyped, RenamesNothing
  <2>3. QED
    BY <1>2, <2>1, <2>2
<1>8. pc[p] # "idle" /\ "done" \in Steps
  BY <1>3 DEF Steps
<1>9. QED
  BY <1>3, <1>4, <1>7, <1>8, MovesBase

(* A process dies: what is left of it, and of others. *)
Killed(p) ==
    /\ pc[p] # "idle"
    /\ \/ brc' = brc
       \/ p \in Telnet /\ brc' = [brc EXCEPT ![p] = Zero]
    /\ all' = [all EXCEPT ![p] = [blocks |-> <<>>, kept |-> FALSE]]
    /\ cast' = cast /\ serve' \in [Web -> (Windows \cap cast) \cup {NoWindow}]
    /\ expired' \in [Web -> BOOLEAN] /\ owner' \in [Web -> {{u} : u \in Users} \cup {{}}]
    /\ p \in Web => serve'[p] = NoWindow /\ owner'[p] = {}
    /\ \A q \in Web : q # p => serve'[q] = serve[q] /\ owner'[q] = owner[q]
    /\ pc' = [pc EXCEPT ![p] = "idle"] /\ pc'[p] = "idle" /\ \A q \in Procs : q # p => pc'[q] = pc[q]
    /\ fd' = [fd EXCEPT ![p] = "none"] /\ fd'[p] = "none" /\ \A q \in Procs : q # p => fd'[q] = fd[q]
    /\ then' = [then EXCEPT ![p] = Stay] /\ doubt' = [doubt EXCEPT ![p] = {}]
    /\ current' = current \ {p} /\ fresh' = fresh \ {SessionOf(p)}
    /\ UNCHANGED disk /\ ever' = ever /\ strangers' = strangers

LEMMA KillIs == ASSUME BaseInv, NEW p \in Procs, Kill(p) PROVE Killed(p)
<1>1. Typed
  BY DEF BaseInv
<1>2. /\ pc[p] # "idle"
      /\ brc' = IF p \in Telnet THEN [brc EXCEPT ![p] = Zero] ELSE brc
      /\ all' = [all EXCEPT ![p] = [blocks |-> <<>>, kept |-> FALSE]]
      /\ serve' = [w \in Web |-> IF w = p THEN NoWindow ELSE serve[w]]
      /\ expired' = [w \in Web |-> w = p \/ expired[w]]
      /\ owner' = [w \in Web |-> IF w = p THEN {} ELSE owner[w]]
      /\ pc' = [pc EXCEPT ![p] = "idle"] /\ fd' = [fd EXCEPT ![p] = "none"]
      /\ then' = [then EXCEPT ![p] = Stay] /\ doubt' = [doubt EXCEPT ![p] = {}]
      /\ current' = current \ {p} /\ fresh' = fresh \ {SessionOf(p)}
      /\ cast' = cast /\ UNCHANGED disk /\ ever' = ever /\ strangers' = strangers
  BY DEF Kill
<1>3. NetTyped /\ SavingTyped
  BY <1>1 DEF Typed
<1>4. /\ serve' \in [Web -> (Windows \cap cast) \cup {NoWindow}]
      /\ p \in Web => serve'[p] = NoWindow
      /\ \A q \in Web : q # p => serve'[q] = serve[q]
  BY <1>2, <1>3 DEF NetTyped
<1>5. expired' \in [Web -> BOOLEAN]
  <2>1. \A w \in Web : (w = p \/ expired[w]) \in BOOLEAN
    OBVIOUS
  <2>2. QED
    BY <1>2, <2>1, Zenon
<1>6. /\ owner' \in [Web -> {{u} : u \in Users} \cup {{}}]
      /\ p \in Web => owner'[p] = {}
      /\ \A q \in Web : q # p => owner'[q] = owner[q]
  BY <1>2, <1>3 DEF NetTyped
<1>7. pc'[p] = "idle" /\ fd'[p] = "none" /\ \A q \in Procs : q # p => pc'[q] = pc[q] /\ fd'[q] = fd[q]
  BY <1>2, <1>3 DEF SavingTyped
<1>8. QED
  BY <1>2, <1>4, <1>5, <1>6, <1>7 DEF Killed

LEMMA KillBase == ASSUME BaseInv, NEW p \in Procs, Kill(p) PROVE BaseInv'
<1>1. Killed(p) /\ Typed
  BY KillIs DEF BaseInv
<1>2. MarksTyped'
  <2>1. CASE brc' = brc
    BY <1>1, <2>1, PartsSame
  <2>2. CASE p \in Telnet /\ brc' = [brc EXCEPT ![p] = Zero]
    <3>1. p \in Sessions
      BY <2>2 DEF Sessions
    <3>2. QED
      BY <1>1, <2>2, <3>1, ZeroIs, MarksSet DEF Typed
  <2>3. QED
    BY <1>1, <2>1, <2>2 DEF Killed
<1>3. BlocksTyped'
  BY <1>1, FitEmpty, BlocksSet DEF Typed, Killed
<1>4. NetTyped'
  BY <1>1 DEF Typed, NetTyped, Killed
<1>5. SavingTyped'
  <2>1. "idle" \in Steps
    BY DEF Steps
  <2>2. QED
    BY <1>1, <2>1, StayIs DEF Typed, SavingTyped, Killed
<1>6. DiskTyped'
  BY <1>1, PartsSame DEF Killed
<1>7. HistoryTyped'
  <2>1. doubt' \in [Procs -> SUBSET (Boards \cup {Info})]
    BY <1>1, DoubtSet DEF Typed, Killed
  <2>2. QED
    BY <1>1, <2>1 DEF Typed, HistoryTyped, Killed
<1>8. ASSUME NEW q \in Procs PROVE Busy(q)'
  <2>1. CASE q = p
    BY <1>1, <2>1 DEF Busy, Killed
  <2>2. CASE q # p
    <3>1. /\ pc'[q] = pc[q] /\ fd'[q] = fd[q] /\ cast' = cast
          /\ q \in Web => serve'[q] = serve[q] /\ owner'[q] = owner[q]
      BY <1>1, <2>2 DEF Killed
    <3>2. SessionOf(q)' = SessionOf(q) /\ (Active(q)' <=> Active(q))
      BY <3>1 DEF SessionOf, Active, Procs
    <3>3. QED
      BY <3>1, <3>2, BusyAlike DEF BaseInv
  <2>3. QED
    BY <2>1, <2>2
<1>9. QED
  BY <1>2, <1>3, <1>4, <1>5, <1>6, <1>7, <1>8 DEF BaseInv, Typed

LEMMA CronBase ==
    ASSUME BaseInv, NEW u \in Users, CronCopy(u) \/ CronKeep(u) \/ CronUnlink(u)
    PROVE  BaseInv'
<1>1. Typed /\ DiskTyped /\ SavingTyped
  BY DEF BaseInv, Typed
<1>2. /\ file = [v \in Users |-> file[v]] /\ home = [v \in Users |-> home[v]]
      /\ \A v \in Users : OnDisk(file[v]) /\ OnDisk(home[v])
      /\ cron \in [Users -> {"no", "copied", "changed"}]
  BY <1>1 DEF DiskTyped
<1>3. CASE CronCopy(u)
  <2>1. /\ home' = [home EXCEPT ![u] = file[u]] /\ cron' = [cron EXCEPT ![u] = "copied"]
        /\ brc' = brc /\ all' = all /\ UNCHANGED net /\ UNCHANGED saving /\ file' = file /\ tmp' = tmp
        /\ UNCHANGED history
    BY <1>3 DEF CronCopy
  <2>2. home' = [v \in Users |-> home'[v]] /\ \A v \in Users : OnDisk(home'[v])
    BY <1>2, <2>1, DiskEntry
  <2>3. DiskTyped'
    BY <1>1, <2>1, <2>2 DEF DiskTyped
  <2>4. HistoryTyped'
    BY <1>1, <2>1 DEF Typed, HistoryTyped, history
  <2>5. QED
    BY <1>1, <2>1, <2>3, <2>4, PartsSame, FrameBase DEF BaseInv, Typed
<1>4. CASE CronKeep(u)
  <2>1. /\ cron' = [cron EXCEPT ![u] = "no"] /\ home' = home
        /\ brc' = brc /\ all' = all /\ UNCHANGED net /\ UNCHANGED saving /\ file' = file /\ tmp' = tmp
        /\ UNCHANGED history
    BY <1>4 DEF CronKeep
  <2>2. DiskTyped'
    BY <1>1, <2>1 DEF DiskTyped
  <2>3. HistoryTyped'
    BY <1>1, <2>1 DEF Typed, HistoryTyped, history
  <2>4. QED
    BY <1>1, <2>1, <2>2, <2>3, PartsSame, FrameBase DEF BaseInv, Typed
<1>5. CASE CronUnlink(u)
  <2>1. /\ cron' = [cron EXCEPT ![u] = "no"] /\ file' = [file EXCEPT ![u] = NoFile]
        /\ fd' = [q \in Procs |-> IF Active(q) /\ Owner(q) = u /\ fd[q] = "file" THEN "gone" ELSE fd[q]]
        /\ current' \subseteq current /\ fresh' \subseteq fresh
        /\ brc' = brc /\ all' = all /\ UNCHANGED net /\ pc' = pc /\ then' = then /\ tmp' = tmp
        /\ home' = home /\ ever' = ever /\ strangers' = strangers /\ doubt' = doubt
    BY <1>5 DEF CronUnlink
  <2>2. file' = [v \in Users |-> file'[v]] /\ \A v \in Users : OnDisk(file'[v])
    BY <1>2, <2>1, NoFileIs, DiskEntry
  <2>3. DiskTyped'
    BY <1>1, <2>1, <2>2 DEF DiskTyped
  <2>4. HistoryTyped'
    BY <1>1, <2>1 DEF Typed, HistoryTyped
  <2>5. /\ fd' \in [Procs -> {"none", "tmp", "file", "gone"}]
        /\ \A q \in Procs : fd'[q] # "none" => fd[q] # "none"
    BY <1>1, <2>1 DEF SavingTyped
  <2>6. SavingTyped'
    BY <1>1, <2>1, <2>5 DEF SavingTyped
  <2>7. ASSUME NEW q \in Procs PROVE Busy(q)'
    <3>1. cast' = cast /\ serve' = serve /\ owner' = owner
      BY <2>1 DEF net
    <3>2. SessionOf(q)' = SessionOf(q) /\ (Active(q)' <=> Active(q))
      BY <3>1, SameNet
    <3>3. QED
      BY <2>1, <2>5, <3>1, <3>2, BusyAlike DEF BaseInv
  <2>8. QED
    BY <1>1, <2>1, <2>3, <2>4, <2>6, <2>7, PartsSame DEF BaseInv, Typed
<1>6. QED
  BY <1>3, <1>4, <1>5

LEMMA BaseStep == ASSUME BaseInv, [Next]_vars PROVE BaseInv'
<1>1. CASE UNCHANGED vars
  <2>1. /\ brc' = brc /\ all' = all /\ UNCHANGED net /\ UNCHANGED saving /\ UNCHANGED disk
        /\ UNCHANGED history
    BY <1>1 DEF vars
  <2>2. HistoryTyped'
    BY <2>1 DEF BaseInv, Typed, HistoryTyped, history
  <2>3. QED
    BY <2>1, <2>2, PartsSame, FrameBase DEF BaseInv, Typed
<1>2. CASE Next
  BY <1>2, Kinds, FreesBase, FinishesBase, SavesBase, RequestBase, MarksBase, OpenBase, FailsBase,
     WriteBase, RenameBase, KillBase, CronBase, Zenon
<1>3. QED
  BY <1>1, <1>2

(* The two forms of a list of marks keep to their limits and answer alike, *)
(* whatever the lists, the widths of differences and the size of allbrc.   *)
THEOREM ListsAgree == Spec => []ListsRight
<1>1. Init => BaseInv
  BY Starts DEF IInv
<1>2. BaseInv /\ [Next]_vars => BaseInv'
  BY BaseStep
<1>3. BaseInv => ListsRight
  BY ListsFollow DEF BaseInv
<1>4. QED
  BY <1>1, <1>2, <1>3, PTL DEF Spec

-----------------------------------------------------------------------------
(***************************************************************************)
(* Nothing is called read that was not marked.                             *)
(***************************************************************************)
LEMMA HonestPart ==
    ASSUME NEW d, NEW e, NEW m, HonestTo(d, m), \A i \in DOMAIN e : \E j \in DOMAIN d : e[i] = d[j]
    PROVE  HonestTo(e, m)
BY DEF HonestTo

LEMMA HonestNothing == \A m : HonestTo(<<>>, m)
  BY DEF HonestTo

LEMMA HonestGrows ==
    ASSUME NEW d, Fit(d), NEW m, NEW n, HonestTo(d, m), \A b \in Boards : m[b] \subseteq n[b]
    PROVE  HonestTo(d, n)
<1>1. SUFFICES ASSUME NEW i \in DOMAIN d, d[i].board # Info PROVE ReadsOf(d[i]) \subseteq n[d[i].board]
  BY DEF HonestTo
<1>2. d[i].board \in Boards
  BY <1>1, FitParts
<1>3. QED
  BY <1>1, <1>2 DEF HonestTo

LEMMA HonestSource ==
    ASSUME HonestInv, NEW u \in Users \ strangers
    PROVE  Honest(Source(u).blocks, u)
<1>1. Source(u) = file[u] \/ Source(u) = home[u]
  BY DEF Source, SourceIn
<1>2. QED
  BY <1>1 DEF HonestInv, HonestDisk

(* What a process reads, or has, is what its user has marked; unless it is *)
(* what a web process has left from another.                               *)
LEMMA HonestLoads ==
    ASSUME Typed, HonestInv, NEW p \in Procs, Active(p), NEW d, NEW now, Reading(p, d, now),
           Owner(p) \notin strangers'
    PROVE  Honest(d, Owner(p))
<1>1. PICK u : u = Owner(p)
  OBVIOUS
<1>2. u \in Users /\ strangers \subseteq strangers'
  BY <1>1, Serving, NetKept
<1>3. u \in Users \ strangers
  BY <1>1, <1>2
<1>4. Honest(Source(u).blocks, u)
  BY <1>3, HonestSource
<1>5. CASE p \in Telnet
  <2>1. u = UserOf[p]
    BY <1>1, <1>5 DEF Owner, SessionOf
  <2>2. Honest(all[p].blocks, u)
    BY <1>3, <1>5, <2>1 DEF HonestInv, HonestMemory, HonestAt, Procs
  <2>3. p \notin Web
    BY <1>5, Names
  <2>4. d \in Loads(p, u)
    BY <1>1, <2>3 DEF Reading
  <2>5. QED
    BY <1>1, <1>4, <2>2, <2>4, HonestNothing DEF Loads, Honest
<1>6. CASE p \in Web
  <2>1. p \notin Telnet
    BY <1>6, Names
  <2>2. d \in WebLoads(p) /\ WebRead(p)
    BY <2>1 DEF Reading
  <2>3. \A v \in owner[p] : v = u => Honest(all[p].blocks, u)
    BY <1>3, <1>6 DEF HonestInv, HonestMemory, HonestAt, Procs
  <2>4. owner[p] = {} => all[p].blocks = <<>>
    BY <1>6 DEF HonestInv, HonestMemory, HonestAt, Procs
  <2>5. CASE MustRead(p)
    <3>1. ~Inherits(p, u)
      BY <1>1, <2>2, <2>5 DEF WebRead
    <3>2. CASE Source(u).there
      BY <1>1, <1>4, <2>2, <2>5, <3>2 DEF WebLoads, Loads
    <3>3. CASE ~Source(u).there
      <4>1. d = all[p].blocks
        BY <1>1, <1>6, <2>2, <2>5, <3>3 DEF WebLoads, Loads
      <4>2. d = <<>> \/ owner[p] = {u}
        BY <1>6, <3>1, <3>3, <4>1 DEF Inherits
      <4>3. QED
        BY <1>1, <2>3, <4>1, <4>2, HonestNothing DEF Honest
    <3>4. QED
      BY <3>2, <3>3
  <2>6. CASE ~MustRead(p)
    <3>1. d = all[p].blocks /\ owner[p] = {u}
      BY <1>1, <2>2, <2>6 DEF WebLoads, MustRead
    <3>2. QED
      BY <1>1, <2>3, <3>1
  <2>7. QED
    BY <2>5, <2>6
<1>7. QED
  BY <1>5, <1>6 DEF Procs

Grows == \A u \in Users, b \in Boards : ever[u][b] \subseteq ever'[u][b]

LEMMA SameGrows == ever' = ever => Grows
  BY DEF Grows

LEMMA HonestDiskSame ==
    ASSUME Typed, HonestInv, Grows, UNCHANGED disk, strangers \subseteq strangers'
    PROVE  HonestDisk'
<1>1. SUFFICES ASSUME NEW u \in Users \ strangers'
               PROVE  /\ HonestTo(file'[u].blocks, ever'[u]) /\ HonestTo(tmp'[u].blocks, ever'[u])
                      /\ HonestTo(home'[u].blocks, ever'[u])
  BY DEF HonestDisk, Honest
<1>2. u \in Users \ strangers /\ file' = file /\ tmp' = tmp /\ home' = home
  BY <1>1 DEF disk
<1>3. /\ HonestTo(file[u].blocks, ever[u]) /\ HonestTo(tmp[u].blocks, ever[u])
      /\ HonestTo(home[u].blocks, ever[u])
  BY <1>2 DEF HonestInv, HonestDisk, Honest
<1>4. \A b \in Boards : ever[u][b] \subseteq ever'[u][b]
  BY DEF Grows
<1>5. Fit(file[u].blocks) /\ Fit(tmp[u].blocks) /\ Fit(home[u].blocks)
  BY TypedParts
<1>6. ASSUME NEW d, Fit(d), HonestTo(d, ever[u]) PROVE HonestTo(d, ever'[u])
  BY <1>4, <1>6, HonestGrows
<1>7. QED
  BY <1>2, <1>3, <1>5, <1>6

LEMMA HonestDiskStep ==
    ASSUME HonestInv, ever' = ever, strangers' = strangers, NEW u \in Users,
           \A v \in Users : v # u => file'[v] = file[v] /\ tmp'[v] = tmp[v] /\ home'[v] = home[v],
           u \notin strangers => /\ Honest(file'[u].blocks, u) /\ Honest(tmp'[u].blocks, u)
                                 /\ Honest(home'[u].blocks, u)
    PROVE  HonestDisk'
<1>1. SUFFICES ASSUME NEW v \in Users \ strangers
               PROVE  /\ HonestTo(file'[v].blocks, ever[v]) /\ HonestTo(tmp'[v].blocks, ever[v])
                      /\ HonestTo(home'[v].blocks, ever[v])
  BY DEF HonestDisk, Honest
<1>2. CASE v = u
  BY <1>2 DEF Honest
<1>3. CASE v # u
  BY <1>3 DEF HonestInv, HonestDisk, Honest
<1>4. QED
  BY <1>2, <1>3

LEMMA HonestAtSame ==
    ASSUME Typed, HonestInv, Grows, strangers \subseteq strangers', NEW q \in Procs,
           all'[q].blocks = all[q].blocks, q \in Web => owner'[q] = owner[q]
    PROVE  HonestAt(q)'
<1>1. PICK d : d = all[q].blocks
  OBVIOUS
<1>2. Fit(d) /\ all'[q].blocks = d
  BY <1>1, TypedParts
<1>3. ASSUME NEW u \in Users, u \notin strangers', HonestTo(d, ever[u]) PROVE HonestTo(d, ever'[u])
  <2>1. \A b \in Boards : ever[u][b] \subseteq ever'[u][b]
    BY DEF Grows
  <2>2. QED
    BY <1>2, <1>3, <2>1, HonestGrows
<1>4. HonestAt(q)
  BY DEF HonestInv, HonestMemory
<1>5. q \in Telnet /\ UserOf[q] \notin strangers' => HonestTo(d, ever'[UserOf[q]])
  <2>1. q \in Telnet => UserOf[q] \in Users
    BY Names DEF Sessions
  <2>2. QED
    BY <1>1, <1>3, <1>4, <2>1 DEF HonestAt, Honest
<1>6. q \in Web => /\ owner[q] = {} => d = <<>>
                   /\ \A u \in owner[q] \ strangers' : HonestTo(d, ever'[u])
  <2>1. q \in Web => owner[q] \subseteq Users
    BY DEF Typed, NetTyped
  <2>2. QED
    BY <1>1, <1>3, <1>4, <2>1 DEF HonestAt, Honest
<1>7. QED
  BY <1>2, <1>5, <1>6 DEF HonestAt, Honest

LEMMA HonestAtEmpty ==
    ASSUME NEW q \in Procs, all'[q].blocks = <<>> PROVE HonestAt(q)'
BY HonestNothing DEF HonestAt, Honest

LEMMA HonestOnSame ==
    ASSUME Typed, HonestInv, Grows, strangers \subseteq strangers', NEW s \in Sessions, brc'[s] = brc[s]
    PROVE  HonestOn(s)'
<1>1. SUFFICES ASSUME brc[s].board # NoBoard, UserOf[s] \notin strangers'
               PROVE  ReadOf(brc[s].list) \subseteq ever'[UserOf[s]][brc[s].board]
  BY DEF HonestOn
<1>2. brc[s].board \in Boards /\ UserOf[s] \in Users
  BY <1>1, TypedParts, RcIs, Names
<1>3. ReadOf(brc[s].list) \subseteq ever[UserOf[s]][brc[s].board]
  BY <1>1 DEF HonestInv, HonestSessions, HonestOn
<1>4. QED
  BY <1>2, <1>3 DEF Grows

LEMMA SaverHonest ==
    ASSUME BaseInv, HonestInv, NEW p \in Procs, pc[p] # "idle", Owner(p) \notin strangers
    PROVE  Honest(all[p].blocks, Owner(p))
<1>1. HonestAt(p) /\ (p \in Web => owner[p] = {Owner(p)})
  BY DEF HonestInv, HonestMemory, BaseInv, Busy
<1>2. p \in Telnet => Owner(p) = UserOf[p]
  BY DEF Owner, SessionOf
<1>3. QED
  BY <1>1, <1>2 DEF HonestAt, Procs

(* Most steps leave the blocks, the marks or the files of all but one be.  *)
LEMMA FreesHonest == ASSUME BaseInv, HonestInv, NEW p \in Telnet, Frees(p) PROVE HonestInv'
<1>1. Typed /\ p \in Procs /\ Fit(all[p].blocks) /\ p \notin Web
  BY TypedParts, Names DEF BaseInv, Procs
<1>2. /\ all' = [all EXCEPT ![p] = Freed(p, all[p].blocks)]
      /\ UNCHANGED disk /\ owner' = owner /\ brc' = brc /\ ever' = ever /\ strangers' = strangers
  BY DEF Frees, net
<1>3. PICK e : Freed(p, all[p].blocks) = [blocks |-> e, kept |-> FALSE] /\ Fit(e) /\ e \in {<<>>, all[p].blocks}
  BY <1>1, FreedIs
<1>4. all'[p].blocks = e /\ \A q \in Procs \ {p} : all'[q] = all[q]
  BY <1>1, <1>2, <1>3, BlocksSet DEF Typed
<1>5. HonestDisk'
  BY <1>1, <1>2, SameGrows, HonestDiskSame
<1>6. HonestMemory'
  BY <1>1, <1>2, <1>3, <1>4, SameGrows, HonestAtSame, HonestAtEmpty DEF HonestMemory
<1>7. HonestSessions'
  BY <1>1, <1>2, SameGrows, HonestOnSame DEF HonestSessions
<1>8. QED
  BY <1>5, <1>6, <1>7 DEF HonestInv

LEMMA FinishesHonest ==
    ASSUME BaseInv, HonestInv, NEW p \in Procs, NEW d, NEW next, NEW now, Finishes(p, d, next, now)
    PROVE  HonestInv'
<1>1. Typed
  BY DEF BaseInv
<1>2. PICK r, e : Finished(p, d, next, now, r, e)
  BY <1>1, FinishIs
<1>3. /\ Active(p) /\ Fit(d)
      /\ Reading(p, d, now) \/ Holding(p, d, now)
      /\ UNCHANGED disk /\ ever' = ever
  BY Zenon DEF Finishes
<1>4. /\ cast' = cast /\ serve' = serve /\ strangers \subseteq strangers'
      /\ \A q \in Web : q # p => owner'[q] = owner[q]
      /\ Holding(p, d, now) => owner' = owner
      /\ p \in Web /\ Reading(p, d, now) => owner'[p] = {Owner(p)}
  BY <1>1, <1>3, NetKept
<1>5. PICK s : s = SessionOf(p)
  OBVIOUS
<1>6. PICK u : u = Owner(p)
  OBVIOUS
<1>7. s \in Sessions /\ u \in Users /\ u = UserOf[s]
  BY <1>1, <1>3, <1>5, <1>6, Serving DEF Owner
<1>8. /\ brc'[s] = r /\ \A z \in Sessions \ {s} : brc'[z] = brc[z]
  BY <1>1, <1>2, <1>5, MarksSet DEF Typed, Finished
<1>9. all'[p].blocks = e /\ \A q \in Procs \ {p} : all'[q] = all[q]
  BY <1>1, <1>2, BlocksSet DEF Typed, Finished
<1>10. e \in {<<>>, d} /\ Grows
  BY <1>2, <1>3, SameGrows DEF Finished
<1>11. Reading(p, d, now) /\ u \notin strangers' => Honest(d, u)
  BY <1>1, <1>3, <1>6, HonestLoads
<1>12. HonestDisk'
  BY <1>1, <1>3, <1>4, SameGrows, HonestDiskSame
<1>13. HonestAt(p)'
  <2>1. CASE e = <<>>
    BY <1>9, <2>1, HonestAtEmpty
  <2>2. CASE e = d /\ Holding(p, d, now)
    BY <1>1, <1>4, <1>9, <1>10, <2>2, HonestAtSame DEF Holding
  <2>3. CASE e = d /\ Reading(p, d, now)
    <3>1. p \in Telnet => UserOf[p] = u
      BY <1>6 DEF Owner, SessionOf
    <3>2. QED
      BY <1>3, <1>4, <1>6, <1>9, <1>11, <2>3, <3>1 DEF HonestAt, Honest
  <2>4. QED
    BY <1>3, <1>10, <2>1, <2>2, <2>3
<1>14. HonestMemory'
  BY <1>1, <1>4, <1>9, <1>10, <1>13, HonestAtSame DEF HonestMemory
<1>15. HonestOn(s)'
  <2>1. CASE r = Zero
    BY <1>8, <2>1, ZeroIs DEF HonestOn
  <2>2. CASE r = brc[s]
    BY <1>1, <1>4, <1>7, <1>8, <1>10, <2>2, HonestOnSame
  <2>3. CASE ~next.leave /\ next.board \in Boards /\ r.board = next.board /\ ReadOf(r.list) = Reads(d, next.board)
    <3>1. SUFFICES ASSUME u \notin strangers'
                   PROVE  ReadOf(r.list) \subseteq ever[u][r.board]
      BY <1>3, <1>7, <1>8 DEF HonestOn
    <3>2. Honest(d, u)
      <4>1. CASE Reading(p, d, now)
        BY <1>11, <3>1, <4>1
      <4>2. CASE Holding(p, d, now) /\ ~Reading(p, d, now)
        <5>1. d = all[p].blocks
          BY <4>2 DEF Holding
        <5>2. CASE pc[p] # "idle"
          BY <1>4, <1>6, <3>1, <5>1, <5>2, SaverHonest
        <5>3. CASE pc[p] = "idle"
          <6>1. p \notin Web
            BY <2>3, <4>2, <5>3 DEF Finishes
          <6>2. p \in Telnet /\ UserOf[p] = u
            BY <1>6, <6>1 DEF Procs, Owner, SessionOf
          <6>3. QED
            BY <1>4, <3>1, <5>1, <6>2 DEF HonestInv, HonestMemory, HonestAt
        <5>4. QED
          BY <5>2, <5>3
      <4>3. QED
        BY <1>3, <4>1, <4>2
    <3>3. PICK b \in Boards : b = next.board
      BY <2>3
    <3>4. Reads(d, b) \subseteq ever[u][b]
      BY <1>3, <3>2, <3>3, HonestReads
    <3>5. QED
      BY <2>3, <3>3, <3>4
  <2>4. QED
    BY <1>2, <1>5, <2>1, <2>2, <2>3 DEF Finished
<1>16. HonestSessions'
  BY <1>1, <1>4, <1>8, <1>10, <1>15, HonestOnSame DEF HonestSessions
<1>17. QED
  BY <1>12, <1>14, <1>16 DEF HonestInv

LEMMA SavesHonest ==
    ASSUME BaseInv, HonestInv, NEW p \in Procs, NEW d, NEW now, NEW r, NEW new, NEW next, NEW doubts,
           Saves(p, d, now, r, new, next, doubts)
    PROVE  HonestInv'
<1>1. Typed /\ Reading(p, d, now)
  BY DEF BaseInv, Saves
<1>2. PICK P : Begun(p, d, now, r, new, next, doubts, P)
  BY <1>1, SavesIs
<1>3. /\ Active(p) /\ UNCHANGED disk /\ ever' = ever /\ Fit(d) /\ Fit(P) /\ Puttable(new)
      /\ P = brc_putblock(d, new)
  BY <1>2 DEF Begun
<1>4. /\ cast' = cast /\ serve' = serve /\ strangers \subseteq strangers'
      /\ \A q \in Web : q # p => owner'[q] = owner[q]
      /\ p \in Web => owner'[p] = {Owner(p)}
  BY <1>1, <1>3, NetKept
<1>5. PICK s : s = SessionOf(p)
  OBVIOUS
<1>6. PICK u : u = Owner(p)
  OBVIOUS
<1>7. s \in Sessions /\ u \in Users /\ u = UserOf[s]
  BY <1>1, <1>3, <1>5, <1>6, Serving DEF Owner
<1>8. brc'[s] = r /\ \A z \in Sessions \ {s} : brc'[z] = brc[z]
  <2>1. MarksTyped /\ r \in Rc /\ OnBoard(r) /\ brc' = [brc EXCEPT ![s] = r]
    BY <1>1, <1>2, <1>5 DEF Typed, Begun
  <2>2. QED
    BY <1>7, <2>1, MarksSet
<1>9. all'[p].blocks = P /\ \A q \in Procs \ {p} : all'[q] = all[q]
  BY <1>1, <1>2, BlocksSet DEF Typed, Begun
<1>10. Grows
  BY <1>3, SameGrows
<1>11. /\ r.board = brc[s].board /\ ReadOf(r.list) = ReadOf(brc[s].list)
       /\ \/ new.board = Info
          \/ new.board = r.board /\ r.board \in Boards /\ ReadsOf(new) = ReadOf(r.list)
  BY <1>5 DEF Saves
<1>12. HonestDisk'
  BY <1>1, <1>3, <1>4, SameGrows, HonestDiskSame
<1>13. ASSUME u \notin strangers' PROVE Honest(P, u)
  <2>1. Honest(d, u)
    BY <1>1, <1>3, <1>6, <1>13, HonestLoads
  <2>2. new.board # Info => ReadsOf(new) \subseteq ever[u][new.board]
    <3>1. HonestOn(s)
      BY <1>7 DEF HonestInv, HonestSessions
    <3>2. QED
      BY <1>4, <1>7, <1>11, <1>13, <3>1, Names DEF HonestOn
  <2>3. ASSUME NEW i \in DOMAIN P, P[i].board # Info PROVE ReadsOf(P[i]) \subseteq ever[u][P[i].board]
    <3>1. P[i] = new \/ \E j \in DOMAIN d : P[i] = d[j]
      BY <1>3, PutReads
    <3>2. QED
      BY <2>1, <2>2, <2>3, <3>1 DEF Honest, HonestTo
  <2>4. QED
    BY <2>3 DEF Honest, HonestTo
<1>14. HonestAt(p)'
  <2>1. p \in Telnet => UserOf[p] = u
    BY <1>6 DEF Owner, SessionOf
  <2>2. QED
    BY <1>3, <1>4, <1>6, <1>9, <1>13, <2>1 DEF HonestAt, Honest
<1>15. HonestMemory'
  BY <1>1, <1>4, <1>9, <1>10, <1>14, HonestAtSame DEF HonestMemory
<1>16. HonestOn(s)'
  <2>1. HonestOn(s)
    BY <1>7 DEF HonestInv, HonestSessions
  <2>2. QED
    BY <1>3, <1>4, <1>8, <1>11, <2>1 DEF HonestOn
<1>17. HonestSessions'
  BY <1>1, <1>4, <1>8, <1>10, <1>16, HonestOnSame DEF HonestSessions
<1>18. QED
  BY <1>12, <1>15, <1>17 DEF HonestInv

LEMMA RequestHonest ==
    ASSUME BaseInv, HonestInv, NEW p \in Web, NEW w \in Windows, WebRequest(p, w) PROVE HonestInv'
<1>1. Typed /\ BlocksTyped /\ NetTyped /\ p \in Procs
  BY DEF BaseInv, Typed, Procs
<1>2. /\ \/ all' = [all EXCEPT ![p].blocks = <<>>] /\ owner' = [owner EXCEPT ![p] = {}]
         \/ all' = all /\ owner' = owner
      /\ brc' = brc /\ UNCHANGED disk /\ ever' = ever /\ strangers' = strangers
  BY DEF WebRequest
<1>3. HonestDisk' /\ HonestSessions'
  BY <1>1, <1>2, SameGrows, HonestDiskSame, HonestOnSame DEF HonestSessions
<1>4. ASSUME NEW q \in Procs PROVE HonestAt(q)'
  <2>1. CASE all'[q].blocks = all[q].blocks /\ (q \in Web => owner'[q] = owner[q])
    BY <1>1, <1>2, <2>1, SameGrows, HonestAtSame
  <2>2. CASE all'[q].blocks = <<>>
    BY <2>2, HonestAtEmpty
  <2>3. CASE all' = all /\ owner' = owner
    BY <2>1, <2>3
  <2>4. CASE all' = [all EXCEPT ![p].blocks = <<>>] /\ owner' = [owner EXCEPT ![p] = {}]
    <3>1. CASE q = p
      <4>1. PICK a : a = [all[p] EXCEPT !.blocks = <<>>]
        OBVIOUS
      <4>2. InMemory(all[p])
        BY <1>1, TypedParts
      <4>3. all[p] = [blocks |-> all[p].blocks, kept |-> all[p].kept]
        BY <4>2, Zenon DEF InMemory
      <4>4. a.blocks = <<>>
        BY <4>1, <4>3
      <4>5. all'[p] = a
        BY <1>1, <2>4, <4>1 DEF BlocksTyped
      <4>6. QED
        BY <2>2, <3>1, <4>4, <4>5
    <3>2. CASE q # p
      BY <1>1, <2>1, <2>4, <3>2 DEF BlocksTyped, NetTyped
    <3>3. QED
      BY <3>1, <3>2
  <2>5. QED
    BY <1>2, <2>3, <2>4
<1>5. QED
  BY <1>3, <1>4 DEF HonestInv, HonestMemory

LEMMA MarksHonest == ASSUME BaseInv, HonestInv, NEW p \in Procs, NEW r, Marks(p, r) PROVE HonestInv'
<1>1. Typed /\ Active(p)
  BY DEF BaseInv, Marks, Ready
<1>2. PICK s : s = SessionOf(p)
  OBVIOUS
<1>3. PICK u : u = Owner(p)
  OBVIOUS
<1>4. s \in Sessions /\ u \in Users /\ u = UserOf[s]
  BY <1>1, <1>2, <1>3, Serving DEF Owner
<1>5. Kept1(brc[s], r) /\ Marked(p, r) /\ brc[s].board \in Boards
  BY <1>2 DEF Marks
<1>6. r \in Rc /\ r.board \in Boards /\ OnBoard(r)
  BY <1>5, Names DEF Kept1, OnBoard
<1>7. /\ brc' = [brc EXCEPT ![s] = r]
      /\ ever' = [ever EXCEPT ![u][r.board] = @ \cup {t \in Times : ReadIn(r.list, t)}]
      /\ all' = all /\ owner' = owner /\ UNCHANGED disk /\ strangers' = strangers
  BY <1>2, <1>3, <1>5 DEF Marked, net
<1>8. Grows /\ ever'[u][r.board] = ever[u][r.board] \cup ReadOf(r.list)
  BY <1>1, <1>4, <1>6, <1>7 DEF Grows, ReadOf, Typed, HistoryTyped
<1>9. brc'[s] = r /\ \A z \in Sessions \ {s} : brc'[z] = brc[z]
  BY <1>1, <1>4, <1>6, <1>7, MarksSet DEF Typed
<1>10. HonestDisk' /\ HonestMemory'
  BY <1>1, <1>7, <1>8, HonestDiskSame, HonestAtSame DEF HonestMemory
<1>11. HonestOn(s)'
  BY <1>4, <1>8, <1>9 DEF HonestOn
<1>12. HonestSessions'
  BY <1>1, <1>7, <1>8, <1>9, <1>11, HonestOnSame DEF HonestSessions
<1>13. QED
  BY <1>10, <1>12 DEF HonestInv

(* The steps of brc_fini, and of save_brc, change files only. *)
LEMMA FilesHonest ==
    ASSUME BaseInv, HonestInv, all' = all, owner' = owner, brc' = brc, ever' = ever,
           strangers' = strangers, HonestDisk'
    PROVE  HonestInv'
<1>1. Typed
  BY DEF BaseInv
<1>2. HonestMemory' /\ HonestSessions'
  BY <1>1, SameGrows, HonestAtSame, HonestOnSame DEF HonestMemory, HonestSessions
<1>3. QED
  BY <1>2 DEF HonestInv

LEMMA HonestWritten ==
    ASSUME NEW f, NEW old, NEW w, Written(f, old, w), NEW u, Honest(old, u), Honest(w, u)
    PROVE  Honest(f.blocks, u)
BY DEF Written, Honest, HonestTo

LEMMA OpenHonest ==
    ASSUME BaseInv, HonestInv, NEW p \in Procs, OpenTmp(p) \/ OpenFails(p) PROVE HonestInv'
<1>1. PICK u : u = Owner(p)
  OBVIOUS
<1>2. pc[p] # "idle" /\ all' = all /\ owner' = owner /\ brc' = brc /\ ever' = ever /\ strangers' = strangers
  BY DEF OpenTmp, OpenFails, net
<1>3. Typed /\ u \in Users
  BY <1>1, <1>2, Saver
<1>4. CASE OpenTmp(p)
  <2>1. tmp' = [tmp EXCEPT ![u].there = TRUE] /\ file' = file /\ home' = home
    BY <1>1, <1>4 DEF OpenTmp
  <2>2. DiskTyped /\ OnDisk(tmp[u])
    BY <1>3, TypedParts DEF Typed
  <2>3. PICK f : f = [tmp[u] EXCEPT !.there = TRUE]
    OBVIOUS
  <2>4. f.blocks = tmp[u].blocks
    <3>1. tmp[u] = [there |-> tmp[u].there, blocks |-> tmp[u].blocks]
      BY <2>2, Zenon DEF OnDisk
    <3>2. QED
      BY <2>3, <3>1
  <2>5. tmp'[u] = f /\ \A v \in Users : v # u => tmp'[v] = tmp[v]
    BY <1>3, <2>1, <2>2, <2>3 DEF DiskTyped
  <2>6. u \notin strangers => /\ Honest(file[u].blocks, u) /\ Honest(tmp[u].blocks, u)
                              /\ Honest(home[u].blocks, u)
    BY <1>3 DEF HonestInv, HonestDisk
  <2>7. /\ \A v \in Users : v # u => file'[v] = file[v] /\ tmp'[v] = tmp[v] /\ home'[v] = home[v]
        /\ u \notin strangers => /\ Honest(file'[u].blocks, u) /\ Honest(tmp'[u].blocks, u)
                                 /\ Honest(home'[u].blocks, u)
    BY <2>1, <2>4, <2>5, <2>6
  <2>8. HonestDisk'
    BY <1>2, <1>3, <2>7, HonestDiskStep
  <2>9. QED
    BY <1>2, <2>8, FilesHonest
<1>5. CASE OpenFails(p)
  <2>1. UNCHANGED disk
    BY <1>5 DEF OpenFails
  <2>2. HonestDisk'
    BY <1>2, <1>3, <2>1, SameGrows, HonestDiskSame
  <2>3. QED
    BY <1>2, <2>2, FilesHonest
<1>6. QED
  BY <1>4, <1>5

LEMMA WriteHonest == ASSUME BaseInv, HonestInv, NEW p \in Procs, WriteTmp(p) PROVE HonestInv'
<1>1. PICK u : u = Owner(p)
  OBVIOUS
<1>2. /\ WriteSame(p)
      /\ (\E f : WritesTmp(p, u, f)) \/ (\E f : WritesFile(p, u, f)) \/ WritesNothing(p)
  BY <1>1, WriteCases
<1>3. /\ pc[p] # "idle" /\ all' = all /\ owner' = owner /\ brc' = brc /\ ever' = ever
      /\ strangers' = strangers /\ home' = home
  BY <1>2 DEF WriteSame, net
<1>4. Typed /\ u \in Users /\ DiskTyped
  BY <1>1, <1>3, Saver DEF Typed
<1>5. u \notin strangers => Honest(all[p].blocks, u)
  BY <1>1, <1>3, SaverHonest
<1>6. u \notin strangers => /\ Honest(file[u].blocks, u) /\ Honest(tmp[u].blocks, u)
                            /\ Honest(home[u].blocks, u)
  BY <1>4 DEF HonestInv, HonestDisk
<1>7. /\ \A v \in Users : v # u => file'[v] = file[v] /\ tmp'[v] = tmp[v] /\ home'[v] = home[v]
      /\ u \notin strangers => /\ Honest(file'[u].blocks, u) /\ Honest(tmp'[u].blocks, u)
                               /\ Honest(home'[u].blocks, u)
  <2>1. CASE \E f : WritesTmp(p, u, f)
    <3>1. PICK f : WritesTmp(p, u, f)
      BY <2>1
    <3>2. /\ Written(f, tmp[u].blocks, all[p].blocks) /\ tmp' = [tmp EXCEPT ![u] = f] /\ file' = file
      BY <3>1 DEF WritesTmp
    <3>3. tmp'[u] = f /\ \A v \in Users : v # u => tmp'[v] = tmp[v]
      BY <1>4, <3>2 DEF DiskTyped
    <3>4. u \notin strangers => Honest(f.blocks, u)
      BY <1>5, <1>6, <3>2, HonestWritten
    <3>5. QED
      BY <1>3, <1>6, <3>2, <3>3, <3>4
  <2>2. CASE \E f : WritesFile(p, u, f)
    <3>1. PICK f : WritesFile(p, u, f)
      BY <2>2
    <3>2. /\ Written(f, file[u].blocks, all[p].blocks) /\ file' = [file EXCEPT ![u] = f] /\ tmp' = tmp
      BY <3>1 DEF WritesFile
    <3>3. file'[u] = f /\ \A v \in Users : v # u => file'[v] = file[v]
      BY <1>4, <3>2 DEF DiskTyped
    <3>4. u \notin strangers => Honest(f.blocks, u)
      BY <1>5, <1>6, <3>2, HonestWritten
    <3>5. QED
      BY <1>3, <1>6, <3>2, <3>3, <3>4
  <2>3. CASE WritesNothing(p)
    BY <1>3, <1>6, <2>3 DEF WritesNothing
  <2>4. QED
    BY <1>2, <2>1, <2>2, <2>3
<1>8. HonestDisk'
  BY <1>3, <1>4, <1>7, HonestDiskStep
<1>9. QED
  BY <1>3, <1>8, FilesHonest

LEMMA RenameHonest == ASSUME BaseInv, HonestInv, NEW p \in Procs, Rename(p) PROVE HonestInv'
<1>1. PICK u : u = Owner(p)
  OBVIOUS
<1>2. RenameSame(p) /\ (Renames(p, u) \/ RenamesNothing(p, u))
  BY <1>1, RenameCases
<1>3. /\ pc[p] # "idle" /\ all' = all /\ owner' = owner /\ brc' = brc /\ ever' = ever
      /\ strangers' = strangers /\ home' = home
  BY <1>2 DEF RenameSame, net
<1>4. Typed /\ u \in Users /\ DiskTyped
  BY <1>1, <1>3, Saver DEF Typed
<1>5. u \notin strangers => /\ Honest(file[u].blocks, u) /\ Honest(tmp[u].blocks, u)
                            /\ Honest(home[u].blocks, u)
  BY <1>4 DEF HonestInv, HonestDisk
<1>6. /\ \A v \in Users : v # u => file'[v] = file[v] /\ tmp'[v] = tmp[v] /\ home'[v] = home[v]
      /\ u \notin strangers => /\ Honest(file'[u].blocks, u) /\ Honest(tmp'[u].blocks, u)
                               /\ Honest(home'[u].blocks, u)
  <2>1. CASE Renames(p, u)
    <3>1. file' = [file EXCEPT ![u] = tmp[u]] /\ tmp' = [tmp EXCEPT ![u] = NoFile]
      BY <2>1 DEF Renames
    <3>2. /\ file'[u] = tmp[u] /\ tmp'[u] = NoFile
          /\ \A v \in Users : v # u => file'[v] = file[v] /\ tmp'[v] = tmp[v]
      BY <1>4, <3>1 DEF DiskTyped
    <3>3. Honest(NoFile.blocks, u)
      BY NoFileIs, HonestNothing DEF Honest
    <3>4. QED
      BY <1>3, <1>5, <3>2, <3>3
  <2>2. CASE RenamesNothing(p, u)
    BY <1>3, <1>5, <2>2 DEF RenamesNothing
  <2>3. QED
    BY <1>2, <2>1, <2>2
<1>7. HonestDisk'
  BY <1>3, <1>4, <1>6, HonestDiskStep
<1>8. QED
  BY <1>3, <1>7, FilesHonest

LEMMA KillHonest == ASSUME BaseInv, HonestInv, NEW p \in Procs, Kill(p) PROVE HonestInv'
<1>1. Killed(p) /\ Typed
  BY KillIs DEF BaseInv
<1>2. UNCHANGED disk /\ ever' = ever /\ strangers' = strangers
  BY <1>1 DEF Killed
<1>3. HonestDisk'
  BY <1>1, <1>2, SameGrows, HonestDiskSame
<1>4. all'[p].blocks = <<>> /\ \A q \in Procs \ {p} : all'[q] = all[q]
  <2>1. all' = [all EXCEPT ![p] = [blocks |-> <<>>, kept |-> FALSE]] /\ BlocksTyped
    BY <1>1 DEF Typed, Killed
  <2>2. QED
    BY <2>1, FitEmpty, BlocksSet
<1>5. \A q \in Web : q # p => owner'[q] = owner[q]
  BY <1>1 DEF Killed
<1>6. HonestMemory'
  BY <1>1, <1>2, <1>4, <1>5, SameGrows, HonestAtSame, HonestAtEmpty DEF HonestMemory
<1>7. ASSUME NEW s \in Sessions PROVE HonestOn(s)'
  <2>1. brc'[s] = brc[s] \/ brc'[s] = Zero
    BY <1>1 DEF Typed, MarksTyped, Killed
  <2>2. CASE brc'[s] = brc[s]
    BY <1>1, <1>2, <2>2, SameGrows, HonestOnSame
  <2>3. CASE brc'[s] = Zero
    BY <2>3, ZeroIs DEF HonestOn
  <2>4. QED
    BY <2>1, <2>2, <2>3
<1>8. QED
  BY <1>3, <1>6, <1>7 DEF HonestInv, HonestSessions

LEMMA CronHonest ==
    ASSUME BaseInv, HonestInv, NEW u \in Users, CronCopy(u) \/ CronKeep(u) \/ CronUnlink(u)
    PROVE  HonestInv'
<1>1. Typed /\ DiskTyped
  BY DEF BaseInv, Typed
<1>2. /\ all' = all /\ owner' = owner /\ brc' = brc /\ ever' = ever
      /\ strangers' = strangers /\ tmp' = tmp
  BY DEF CronCopy, CronKeep, CronUnlink, net, history
<1>3. /\ \A v \in Users : v # u => file'[v] = file[v] /\ home'[v] = home[v]
      /\ \/ home'[u] = file[u] /\ file'[u] = file[u]
         \/ home'[u] = home[u] /\ file'[u] \in {file[u], NoFile}
  <2>1. CASE CronCopy(u)
    BY <1>1, <2>1 DEF CronCopy, DiskTyped
  <2>2. CASE CronKeep(u)
    BY <2>2 DEF CronKeep
  <2>3. CASE CronUnlink(u)
    BY <1>1, <2>3 DEF CronUnlink, DiskTyped
  <2>4. QED
    BY <2>1, <2>2, <2>3
<1>4. u \notin strangers => /\ Honest(file[u].blocks, u) /\ Honest(tmp[u].blocks, u)
                            /\ Honest(home[u].blocks, u)
  BY DEF HonestInv, HonestDisk
<1>5. Honest(NoFile.blocks, u)
  BY NoFileIs, HonestNothing DEF Honest
<1>6. HonestDisk'
  <2>1. u \notin strangers => /\ Honest(file'[u].blocks, u) /\ Honest(tmp'[u].blocks, u)
                              /\ Honest(home'[u].blocks, u)
    BY <1>2, <1>3, <1>4, <1>5
  <2>2. \A v \in Users : v # u => file'[v] = file[v] /\ tmp'[v] = tmp[v] /\ home'[v] = home[v]
    BY <1>2, <1>3
  <2>3. QED
    BY <1>2, <2>1, <2>2, HonestDiskStep
<1>7. QED
  BY <1>2, <1>6, FilesHonest

LEMMA HonestStep == ASSUME BaseInv, HonestInv, [Next]_vars PROVE HonestInv'
<1>1. CASE UNCHANGED vars
  <2>1. /\ all' = all /\ owner' = owner /\ brc' = brc /\ ever' = ever
        /\ strangers' = strangers /\ UNCHANGED disk
    BY <1>1 DEF vars, net, history
  <2>2. HonestDisk'
    BY <2>1, SameGrows, HonestDiskSame DEF BaseInv
  <2>3. QED
    BY <2>1, <2>2, FilesHonest
<1>2. CASE Next
  BY <1>2, Kinds, FreesHonest, FinishesHonest, SavesHonest, RequestHonest, MarksHonest, OpenHonest,
     WriteHonest, RenameHonest, KillHonest, CronHonest, Zenon
<1>3. QED
  BY <1>1, <1>2

(* No article is called read, in memory or in a file, that the user has    *)
(* not marked on that board, unless a web process left him another's marks.*)
THEOREM NothingIsInvented == Spec => []NothingInvented
<1>1. Init => BaseInv /\ HonestInv
  BY Starts DEF IInv
<1>2. BaseInv /\ HonestInv /\ [Next]_vars => (BaseInv /\ HonestInv)'
  BY BaseStep, HonestStep
<1>3. BaseInv /\ HonestInv => NothingInvented
  BY NothingFollows DEF BaseInv
<1>4. QED
  BY <1>1, <1>2, <1>3, PTL DEF Spec

-----------------------------------------------------------------------------
(***************************************************************************)
(* Whose file a step changes, and how.                                     *)
(***************************************************************************)
LEMMA DiskMoves ==
    ASSUME BaseInv, [Next]_vars
    PROVE  \/ UNCHANGED disk
           \/ \E p \in Procs : OpenTmp(p) \/ WriteTmp(p) \/ Rename(p)
           \/ \E u \in Users : CronCopy(u) \/ CronKeep(u) \/ CronUnlink(u)
<1>1. CASE UNCHANGED vars
  BY <1>1 DEF vars
<1>2. CASE Next
  <2>1. ASSUME NEW p \in Telnet, Frees(p) PROVE UNCHANGED disk
    BY <2>1 DEF Frees
  <2>2. ASSUME NEW p \in Procs, NEW d, NEW next, NEW now, Finishes(p, d, next, now)
        PROVE  UNCHANGED disk
    BY <2>2, Zenon DEF Finishes
  <2>3. ASSUME NEW p \in Procs, NEW d, NEW now, NEW r, NEW new, NEW next, NEW doubts,
               Saves(p, d, now, r, new, next, doubts)
        PROVE  UNCHANGED disk
    BY <2>3, Zenon DEF Saves
  <2>4. ASSUME NEW p \in Web, NEW w \in Windows, WebRequest(p, w) PROVE UNCHANGED disk
    BY <2>4 DEF WebRequest
  <2>5. ASSUME NEW p \in Procs, NEW r, Marks(p, r) PROVE UNCHANGED disk
    BY <2>5 DEF Marks, Marked
  <2>6. ASSUME NEW p \in Procs, OpenFails(p) \/ Kill(p) PROVE UNCHANGED disk
    BY <2>6 DEF OpenFails, Kill
  <2>7. QED
    BY <1>2, <2>1, <2>2, <2>3, <2>4, <2>5, <2>6, Kinds, Zenon
<1>3. QED
  BY <1>1, <1>2

LEMMA SourceAt ==
    ASSUME NEW v, file'[v] = file[v], home'[v] = home[v]
    PROVE  Source(v)' = Source(v)
BY DEF Source, SourceIn

(* The save of a process makes f the file of its user.                     *)
Replaces(p, u, f) ==
    /\ Typed /\ p \in Procs /\ Active(p) /\ u = Owner(p) /\ u \in Users /\ f.there = TRUE
    /\ file'[u] = f /\ home' = home
    /\ \A v \in Users : v # u => file'[v] = file[v] /\ tmp'[v] = tmp[v]
    /\ brc' = brc /\ all' = all /\ cast' = cast /\ serve' = serve /\ doubt' = doubt
    /\ \A q \in Procs : q # p => pc'[q] = pc[q]
    /\ pc[p] \in {"write", "rename"} /\ pc'[p] # pc[p] /\ pc'[p] # "idle"
    /\ Touch(p, u)

LEMMA SaverSteps ==
    ASSUME BaseInv, NEW p \in Procs, NEW k \in Steps, pc' = [pc EXCEPT ![p] = k]
    PROVE  pc'[p] = k /\ \A q \in Procs : q # p => pc'[q] = pc[q]
BY StepSet DEF BaseInv, Typed, SavingTyped

LEMMA WritesReplaces ==
    ASSUME BaseInv, NEW p \in Procs, NEW u, u = Owner(p), WriteSame(p), NEW f, WritesFile(p, u, f)
    PROVE  Replaces(p, u, f)
<1>1. pc[p] = "write" /\ pc' = [pc EXCEPT ![p] = "rename"]
  BY DEF WriteSame
<1>2. Typed /\ Active(p) /\ u \in Users /\ DiskTyped
  BY <1>1, Saver DEF Typed
<1>3. file' = [file EXCEPT ![u] = f] /\ tmp' = tmp /\ Touch(p, u) /\ f.there = TRUE
  BY DEF WritesFile, Written
<1>4. file'[u] = f /\ \A v \in Users : v # u => file'[v] = file[v] /\ tmp'[v] = tmp[v]
  BY <1>2, <1>3 DEF DiskTyped
<1>5. pc'[p] = "rename" /\ \A q \in Procs : q # p => pc'[q] = pc[q]
  <2>1. "rename" \in Steps
    BY DEF Steps
  <2>2. QED
    BY <1>1, <2>1, SaverSteps
<1>6. /\ brc' = brc /\ all' = all /\ cast' = cast /\ serve' = serve /\ doubt' = doubt /\ home' = home
  BY DEF WriteSame, net
<1>7. QED
  BY <1>1, <1>2, <1>3, <1>4, <1>5, <1>6 DEF Replaces

LEMMA RenamesReplaces ==
    ASSUME BaseInv, NEW p \in Procs, NEW u, u = Owner(p), RenameSame(p), Renames(p, u)
    PROVE  Replaces(p, u, tmp[u])
<1>1. pc[p] = "rename" /\ pc' = [pc EXCEPT ![p] = "done"]
  BY DEF RenameSame
<1>2. Typed /\ Active(p) /\ u \in Users /\ DiskTyped /\ OnDisk(tmp[u])
  BY <1>1, Saver, TypedParts DEF Typed
<1>3. /\ file' = [file EXCEPT ![u] = tmp[u]] /\ tmp' = [tmp EXCEPT ![u] = NoFile] /\ Touch(p, u)
      /\ tmp[u].there
  BY DEF Renames
<1>4. file'[u] = tmp[u] /\ \A v \in Users : v # u => file'[v] = file[v] /\ tmp'[v] = tmp[v]
  BY <1>2, <1>3 DEF DiskTyped
<1>5. pc'[p] = "done" /\ \A q \in Procs : q # p => pc'[q] = pc[q]
  <2>1. "done" \in Steps
    BY DEF Steps
  <2>2. QED
    BY <1>1, <2>1, SaverSteps
<1>6. /\ brc' = brc /\ all' = all /\ cast' = cast /\ serve' = serve /\ doubt' = doubt /\ home' = home
  BY DEF RenameSame, net
<1>7. tmp[u].there = TRUE
  BY <1>2, <1>3, Zenon DEF OnDisk
<1>8. QED
  BY <1>1, <1>2, <1>3, <1>4, <1>5, <1>6, <1>7 DEF Replaces

(* Who still has the file then, and which sessions show what is in it.     *)
LEMMA ReplacesIs ==
    ASSUME NEW p, NEW u, NEW f, Replaces(p, u, f)
    PROVE  /\ Source(u)' = f /\ \A v \in Users : v # u => Source(v)' = Source(v)
           /\ current' \subseteq current /\ fresh' \subseteq fresh
           /\ \A q \in Procs : q \in current' /\ Active(q) /\ Owner(q) = u
                  => q = p /\ f.blocks = all[p].blocks
           /\ SessionOf(p) \in fresh' => /\ p \in current /\ f.blocks = all[p].blocks
                                         /\ brc[SessionOf(p)].board \notin doubt[p]
           /\ \A z \in fresh' : z # SessionOf(p) /\ UserOf[z] = u =>
                  Reads(Source(u).blocks, brc[z].board) = Reads(f.blocks, brc[z].board)
<1>1. /\ Typed /\ file'[u] = f /\ f.there = TRUE /\ home' = home /\ Touch(p, u)
      /\ \A v \in Users : v # u => file'[v] = file[v]
  BY DEF Replaces
<1>2. SourceIn(file', home, u) = f /\ Source(u)' = f
  BY <1>1 DEF Source, SourceIn
<1>3. \A v \in Users : v # u => Source(v)' = Source(v)
  BY <1>1, SourceAt
<1>4. current' \subseteq current /\ fresh' \subseteq fresh
  BY <1>1, TouchKeeps
<1>5. \A q \in Procs : q \in current' /\ Active(q) /\ Owner(q) = u
          => q = p /\ f.blocks = all[p].blocks
  BY <1>1 DEF Touch
<1>6. SessionOf(p) \in fresh' => /\ p \in current /\ f.blocks = all[p].blocks
                                 /\ brc[SessionOf(p)].board \notin doubt[p]
  BY <1>1 DEF Touch
<1>7. \A z \in fresh' : z # SessionOf(p) /\ UserOf[z] = u =>
          Reads(Source(u).blocks, brc[z].board) = Reads(f.blocks, brc[z].board)
  BY <1>1, <1>2, Zenon DEF Touch
<1>8. QED
  BY <1>2, <1>3, <1>4, <1>5, <1>6, <1>7

-----------------------------------------------------------------------------
(***************************************************************************)
(* What save_brc has copied.                                               *)
(***************************************************************************)
LEMMA CopySame ==
    ASSUME CopyInv, \A v \in Users : cron'[v] = "copied" =>
                        cron[v] = "copied" /\ file'[v] = file[v] /\ home'[v] = home[v]
    PROVE  CopyInv'
BY DEF CopyInv

LEMMA CopyReplaced ==
    ASSUME CopyInv, NEW p, NEW u, NEW f, Replaces(p, u, f) PROVE CopyInv'
<1>1. Typed /\ Touch(p, u) /\ u \in Users /\ home' = home
      /\ \A v \in Users : v # u => file'[v] = file[v]
  BY DEF Replaces
<1>2. cron'[u] # "copied" /\ \A v \in Users : v # u => cron'[v] = cron[v]
  BY <1>1, TouchKeeps
<1>3. QED
  BY <1>1, <1>2, CopySame

LEMMA CopyStep == ASSUME BaseInv, CopyInv, [Next]_vars PROVE CopyInv'
<1>1. CASE UNCHANGED disk
  BY <1>1, CopySame DEF disk
<1>2. ASSUME NEW p \in Procs, OpenTmp(p) PROVE CopyInv'
  BY <1>2, CopySame DEF OpenTmp
<1>3. ASSUME NEW p \in Procs, WriteTmp(p) PROVE CopyInv'
  <2>1. PICK u : u = Owner(p)
    OBVIOUS
  <2>2. /\ WriteSame(p)
        /\ (\E f : WritesTmp(p, u, f)) \/ (\E f : WritesFile(p, u, f)) \/ WritesNothing(p)
    BY <1>3, <2>1, WriteCases
  <2>3. CASE (\E f : WritesTmp(p, u, f)) \/ WritesNothing(p)
    BY <2>2, <2>3, CopySame DEF WriteSame, WritesTmp, WritesNothing
  <2>4. ASSUME NEW f, WritesFile(p, u, f) PROVE CopyInv'
    BY <2>1, <2>2, <2>4, WritesReplaces, CopyReplaced
  <2>5. QED
    BY <2>2, <2>3, <2>4
<1>4. ASSUME NEW p \in Procs, Rename(p) PROVE CopyInv'
  <2>1. PICK u : u = Owner(p)
    OBVIOUS
  <2>2. RenameSame(p) /\ (Renames(p, u) \/ RenamesNothing(p, u))
    BY <1>4, <2>1, RenameCases
  <2>3. CASE Renames(p, u)
    BY <2>1, <2>2, <2>3, RenamesReplaces, CopyReplaced
  <2>4. CASE RenamesNothing(p, u)
    BY <2>2, <2>4, CopySame DEF RenameSame, RenamesNothing
  <2>5. QED
    BY <2>2, <2>3, <2>4
<1>5. ASSUME NEW u \in Users, CronCopy(u) \/ CronKeep(u) \/ CronUnlink(u) PROVE CopyInv'
  <2>1. DiskTyped /\ cron \in [Users -> {"no", "copied", "changed"}]
    BY DEF BaseInv, Typed, DiskTyped
  <2>2. CASE CronCopy(u)
    BY <2>1, <2>2 DEF CronCopy, CopyInv, DiskTyped
  <2>3. CASE CronKeep(u)
    BY <2>1, <2>3, CopySame DEF CronKeep
  <2>4. CASE CronUnlink(u)
    BY <2>1, <2>4, CopySame DEF CronUnlink, DiskTyped
  <2>5. QED
    BY <1>5, <2>2, <2>3, <2>4
<1>6. QED
  BY <1>1, <1>2, <1>3, <1>4, <1>5, DiskMoves

-----------------------------------------------------------------------------
(***************************************************************************)
(* What a process does leaves the others alone.                            *)
(***************************************************************************)
Alike(q) == /\ SessionOf(q)' = SessionOf(q) /\ Owner(q)' = Owner(q) /\ (Active(q)' <=> Active(q))
            /\ all'[q] = all[q] /\ pc'[q] = pc[q] /\ doubt'[q] = doubt[q] /\ fd'[q] = fd[q]
Apart(p) == UNCHANGED disk /\ \A q \in Procs : q # p => Alike(q)

LEMMA ApartIs ==
    ASSUME NEW p, cast' = cast, serve' = serve, UNCHANGED disk, fd' = fd,
           \A q \in Procs : q # p => all'[q] = all[q] /\ pc'[q] = pc[q] /\ doubt'[q] = doubt[q]
    PROVE  Apart(p)
BY SameNet DEF Apart, Alike

LEMMA FreesApart == ASSUME BaseInv, NEW p \in Telnet, Frees(p) PROVE Apart(p)
<1>1. /\ cast' = cast /\ serve' = serve /\ UNCHANGED disk /\ fd' = fd /\ pc' = pc /\ doubt' = doubt
      /\ all' = [all EXCEPT ![p] = Freed(p, all[p].blocks)]
  BY DEF Frees, net, saving
<1>2. BlocksTyped
  BY DEF BaseInv, Typed
<1>3. \A q \in Procs : q # p => all'[q] = all[q]
  BY <1>1, <1>2 DEF BlocksTyped
<1>4. QED
  BY <1>1, <1>3, ApartIs

LEMMA FinishesApart ==
    ASSUME BaseInv, NEW p \in Procs, NEW d, NEW next, NEW now, Finishes(p, d, next, now)
    PROVE  Apart(p)
<1>1. Typed /\ BlocksTyped
  BY DEF BaseInv, Typed
<1>2. PICK r, e : Finished(p, d, next, now, r, e)
  BY <1>1, FinishIs
<1>3. /\ all' = [all EXCEPT ![p] = [blocks |-> e, kept |-> next.keep]]
      /\ \A q \in Procs \ {p} : pc'[q] = pc[q] /\ doubt'[q] = doubt[q]
  BY <1>2, Zenon DEF Finished
<1>4. \A q \in Procs : q # p => all'[q] = all[q]
  BY <1>1, <1>3 DEF BlocksTyped
<1>5. fd' = fd /\ UNCHANGED disk /\ Active(p) /\ (Reading(p, d, now) \/ Holding(p, d, now))
  BY Zenon DEF Finishes
<1>6. cast' = cast /\ serve' = serve
  BY <1>5 DEF Reading, Holding
<1>7. QED
  BY <1>3, <1>4, <1>5, <1>6, ApartIs

LEMMA SavesApart ==
    ASSUME BaseInv, NEW p \in Procs, NEW d, NEW now, NEW r, NEW new, NEW next, NEW doubts,
           Saves(p, d, now, r, new, next, doubts)
    PROVE  Apart(p)
<1>1. Typed /\ BlocksTyped
  BY DEF BaseInv, Typed
<1>2. PICK P : Begun(p, d, now, r, new, next, doubts, P)
  BY <1>1, SavesIs
<1>3. /\ all' = [all EXCEPT ![p] = [blocks |-> P, kept |-> TRUE]]
      /\ \A q \in Procs \ {p} : pc'[q] = pc[q] /\ doubt'[q] = doubt[q]
      /\ fd' = fd /\ UNCHANGED disk
  BY <1>2, Zenon DEF Begun
<1>4. \A q \in Procs : q # p => all'[q] = all[q]
  BY <1>1, <1>3 DEF BlocksTyped
<1>5. Reading(p, d, now)
  BY Zenon DEF Saves
<1>6. cast' = cast /\ serve' = serve
  BY <1>5 DEF Reading
<1>7. QED
  BY <1>3, <1>4, <1>6, ApartIs

LEMMA RequestApart ==
    ASSUME BaseInv, NEW p \in Web, NEW w \in Windows, WebRequest(p, w) PROVE Apart(p)
<1>1. /\ serve' = [serve EXCEPT ![p] = w] /\ cast' = cast /\ fd' = fd /\ pc' = pc /\ doubt' = doubt
      /\ UNCHANGED disk /\ (all' = [all EXCEPT ![p].blocks = <<>>] \/ all' = all)
  BY DEF WebRequest, saving
<1>2. BlocksTyped /\ NetTyped
  BY DEF BaseInv, Typed
<1>3. \A q \in Procs : q # p => all'[q] = all[q]
  BY <1>1, <1>2 DEF BlocksTyped
<1>4. \A q \in Web : q # p => serve'[q] = serve[q]
  BY <1>1, <1>2 DEF NetTyped
<1>5. ASSUME NEW q \in Procs, q # p PROVE Alike(q)
  <2>1. SessionOf(q)' = SessionOf(q) /\ (Active(q)' <=> Active(q)) /\ Owner(q)' = Owner(q)
    BY <1>1, <1>4, <1>5 DEF SessionOf, Active, Owner, Procs
  <2>2. QED
    BY <1>1, <1>3, <1>5, <2>1 DEF Alike
<1>6. QED
  BY <1>1, <1>5 DEF Apart

LEMMA MarksApart == ASSUME NEW p \in Procs, NEW r, Marks(p, r) PROVE Apart(p)
BY ApartIs DEF Marks, Marked, net, saving

LEMMA FailsApart == ASSUME BaseInv, NEW p \in Procs, OpenFails(p) PROVE Apart(p)
<1>1. pc' = [pc EXCEPT ![p] = "done"] /\ "done" \in Steps
  BY DEF OpenFails, Steps
<1>2. QED
  BY <1>1, SaverSteps, ApartIs DEF OpenFails, net

LEMMA KillApart == ASSUME BaseInv, NEW p \in Procs, Kill(p) PROVE Apart(p)
<1>1. Killed(p) /\ Typed /\ BlocksTyped
  BY KillIs DEF BaseInv, Typed
<1>2. all' = [all EXCEPT ![p] = [blocks |-> <<>>, kept |-> FALSE]] /\ doubt' = [doubt EXCEPT ![p] = {}]
  BY <1>1 DEF Killed
<1>3. \A q \in Procs : q # p => all'[q] = all[q]
  BY <1>1, <1>2 DEF BlocksTyped
<1>4. \A q \in Procs : q # p => doubt'[q] = doubt[q]
  BY <1>1, <1>2 DEF Typed, HistoryTyped
<1>5. ASSUME NEW q \in Procs, q # p PROVE Alike(q)
  <2>1. /\ pc'[q] = pc[q] /\ fd'[q] = fd[q] /\ cast' = cast /\ (q \in Web => serve'[q] = serve[q])
    BY <1>1, <1>5 DEF Killed
  <2>2. SessionOf(q)' = SessionOf(q) /\ (Active(q)' <=> Active(q)) /\ Owner(q)' = Owner(q)
    BY <2>1 DEF SessionOf, Active, Owner, Procs
  <2>3. QED
    BY <1>3, <1>4, <1>5, <2>1, <2>2 DEF Alike
<1>6. UNCHANGED disk
  BY <1>1 DEF Killed
<1>7. QED
  BY <1>5, <1>6 DEF Apart

-----------------------------------------------------------------------------
(***************************************************************************)
(* Nobody else writes to a <user>.tmp that is still right.                 *)
(***************************************************************************)
Halfway == {"write", "rename"}

LEMMA AloneApart ==
    ASSUME AloneInv, BaseInv', NEW p \in Procs, Apart(p), current' \ {p} \subseteq current,
           pc'[p] \notin Halfway
    PROVE  AloneInv'
<1>1. fd'[p] = "none" /\ current' \subseteq Procs
  BY DEF BaseInv, Typed, HistoryTyped, Busy, Halfway
<1>2. ASSUME NEW x \in current', NEW q \in Procs \ {x}, Active(x)', Active(q)', Owner(x)' = Owner(q)',
             pc'[x] \in Halfway
      PROVE  fd'[q] # "tmp"
  <2>1. x # p /\ x \in current /\ x \in Procs /\ Alike(x)
    BY <1>1, <1>2 DEF Apart
  <2>2. CASE q = p
    BY <1>1, <2>2
  <2>3. CASE q # p
    <3>1. Alike(q)
      BY <2>3 DEF Apart
    <3>2. /\ Active(x) /\ Active(q) /\ Owner(x) = Owner(q) /\ pc[x] \in Halfway /\ fd'[q] = fd[q]
      BY <1>2, <2>1, <3>1 DEF Alike
    <3>3. QED
      BY <2>1, <3>2 DEF AloneInv, Halfway
  <2>4. QED
    BY <2>2, <2>3
<1>3. QED
  BY <1>2 DEF AloneInv, Halfway

(* The steps that leave processes at work on the same users.               *)
LEMMA AloneStay ==
    ASSUME AloneInv, Typed', cast' = cast, serve' = serve,
           \A x \in Procs : x \in current' /\ pc'[x] \in Halfway => x \in current /\ pc[x] \in Halfway,
           \A q \in Procs : fd'[q] = "tmp" => fd[q] = "tmp"
    PROVE  AloneInv'
<1>1. current' \subseteq Procs
  BY DEF Typed, HistoryTyped
<1>2. ASSUME NEW x \in current', NEW q \in Procs \ {x}, Active(x)', Active(q)', Owner(x)' = Owner(q)',
             pc'[x] \in Halfway
      PROVE  fd'[q] # "tmp"
  <2>1. x \in current /\ pc[x] \in Halfway
    BY <1>1, <1>2
  <2>2. Active(x) /\ Active(q) /\ Owner(x) = Owner(q)
    BY <1>2, SameNet
  <2>3. fd[q] # "tmp"
    BY <2>1, <2>2 DEF AloneInv, Halfway
  <2>4. QED
    BY <2>3
<1>3. QED
  BY <1>2 DEF AloneInv, Halfway

LEMMA AloneOpen ==
    ASSUME BaseInv, CurrentInv, AloneInv, NEW p \in Procs, OpenTmp(p), BaseInv' PROVE AloneInv'
<1>1. PICK u : u = Owner(p)
  OBVIOUS
<1>2. PICK A : A = {q \in Procs \ {p} : fd[q] = "tmp" /\ Owner(q) = u}
  OBVIOUS
<1>3. /\ cast' = cast /\ serve' = serve /\ pc[p] = "open" /\ fd' = [fd EXCEPT ![p] = "tmp"]
      /\ pc' = [pc EXCEPT ![p] = "write"]
      /\ current' = IF A = {} THEN current ELSE current \ (A \cup {p})
  BY <1>1, <1>2 DEF OpenTmp, net
<1>4. /\ \A q \in Procs : q # p => fd'[q] = fd[q] /\ pc'[q] = pc[q]
      /\ current \subseteq Procs
  BY <1>3 DEF BaseInv, Typed, SavingTyped, HistoryTyped
<1>5. ASSUME NEW x \in current', NEW q \in Procs \ {x}, Active(x)', Active(q)', Owner(x)' = Owner(q)',
             pc'[x] \in Halfway
      PROVE  fd'[q] # "tmp"
  <2>1. Active(x) /\ Active(q) /\ Owner(x) = Owner(q) /\ x \in current /\ x \in Procs
    BY <1>3, <1>4, <1>5, SameNet
  <2>2. CASE x = p
    <3>1. A = {} /\ q # p
      BY <1>3, <1>5, <2>2
    <3>2. fd[q] # "tmp"
      BY <1>1, <1>2, <2>1, <2>2, <3>1
    <3>3. QED
      BY <1>4, <3>1, <3>2
  <2>3. CASE x # p
    <3>1. pc[x] \in Halfway
      BY <1>4, <1>5, <2>1, <2>3
    <3>2. CurrentAt(x)
      BY <2>1 DEF CurrentInv
    <3>3. fd[x] = "tmp"
      BY <3>1, <3>2 DEF CurrentAt, Halfway
    <3>4. Owner(x) # u
      BY <1>2, <1>3, <1>5, <2>1, <2>3, <3>3
    <3>5. q # p
      BY <1>1, <2>1, <3>4
    <3>6. fd[q] # "tmp"
      BY <2>1, <3>1 DEF AloneInv, Halfway
    <3>7. QED
      BY <1>4, <3>5, <3>6
  <2>4. QED
    BY <2>2, <2>3
<1>6. QED
  BY <1>5 DEF AloneInv, Halfway

-----------------------------------------------------------------------------
(***************************************************************************)
(* A process whose blocks nobody has saved over has what is in the file.   *)
(***************************************************************************)
LEMMA CurrentSame ==
    ASSUME NEW q, CurrentAt(q), NEW v, v = Owner(q), Owner(q)' = v,
           all'[q] = all[q], pc'[q] = pc[q], doubt'[q] = doubt[q], Source(v)' = Source(v),
           fd[q] = "tmp" => fd'[q] = "tmp",
           pc[q] \in Halfway => /\ tmp[v].there => tmp'[v].there
                                /\ tmp'[v].blocks = tmp[v].blocks
    PROVE  CurrentAt(q)'
<1>1. Synced(q)' => all'[q].blocks = Source(v)'.blocks
  <2>1. Synced(q)' => Synced(q)
    BY DEF Synced
  <2>2. QED
    BY <2>1 DEF CurrentAt
<1>2. pc'[q] \in Writing => Keeps(all'[q].blocks, Source(v)'.blocks, doubt'[q])
  BY DEF CurrentAt
<1>3. pc'[q] \in {"write", "rename"} => fd'[q] = "tmp" /\ tmp'[v].there
  BY DEF CurrentAt, Halfway
<1>4. pc'[q] = "rename" => Begins(all'[q].blocks, tmp'[v].blocks)
  BY DEF CurrentAt, Halfway
<1>5. QED
  BY <1>1, <1>2, <1>3, <1>4 DEF CurrentAt

LEMMA CurrentApart ==
    ASSUME Typed, CurrentInv, NEW p, Apart(p), current' \ {p} \subseteq current,
           p \in current' /\ Active(p)' => CurrentAt(p)'
    PROVE  CurrentInv'
<1>1. file' = file /\ tmp' = tmp /\ home' = home /\ current \subseteq Procs
  BY DEF Apart, disk, Typed, HistoryTyped
<1>2. ASSUME NEW q \in current', Active(q)', q # p PROVE CurrentAt(q)'
  <2>1. q \in current /\ q \in Procs /\ Alike(q)
    BY <1>1, <1>2 DEF Apart
  <2>2. CurrentAt(q)
    BY <1>2, <2>1 DEF CurrentInv, Alike
  <2>3. PICK v : v = Owner(q)
    OBVIOUS
  <2>4. Source(v)' = Source(v)
    BY <1>1, SameSource
  <2>5. /\ Owner(q)' = v /\ all'[q] = all[q] /\ pc'[q] = pc[q] /\ doubt'[q] = doubt[q]
        /\ fd'[q] = fd[q]
    BY <2>1, <2>3 DEF Alike
  <2>6. QED
    BY <1>1, <2>2, <2>3, <2>4, <2>5, CurrentSame
<1>3. QED
  BY <1>2 DEF CurrentInv

(* What the blocks read are, if nobody is known to have saved since.       *)
LEMMA NowHas ==
    ASSUME Typed, CurrentInv, NEW p \in Procs, Active(p), pc[p] \in {"idle", "done"}, NEW d, NEW now,
           Reading(p, d, now) \/ Holding(p, d, now), p \in now
    PROVE  d = Source(Owner(p)).blocks
<1>1. Telnet \cap Web = {} /\ Procs = Telnet \cup Web
  BY Names DEF Procs
<1>2. ASSUME p \in current, d = all[p].blocks, p \in Telnet => all[p].kept \/ pc[p] = "done"
      PROVE  d = Source(Owner(p)).blocks
  <2>1. CurrentAt(p)
    BY <1>2 DEF CurrentInv
  <2>2. Synced(p)
    BY <1>2 DEF Synced
  <2>3. QED
    BY <1>2, <2>1, <2>2 DEF CurrentAt
<1>3. CASE now = Known(p, Owner(p), d)
  BY <1>3 DEF Known
<1>4. CASE p \in Web /\ d \in WebLoads(p) /\ now = WebKnown(p, d)
  <2>1. CASE MustRead(p)
    BY <1>3, <1>4, <2>1 DEF WebKnown
  <2>2. CASE ~MustRead(p)
    BY <1>1, <1>2, <1>4, <2>2 DEF WebKnown, WebLoads
  <2>3. QED
    BY <2>1, <2>2
<1>5. CASE Holding(p, d, now)
  BY <1>2, <1>5 DEF Holding
<1>6. QED
  BY <1>3, <1>4, <1>5, Zenon DEF Reading

LEMMA NowOthers ==
    ASSUME NEW p, NEW d, NEW now, Reading(p, d, now) \/ Holding(p, d, now)
    PROVE  now \ {p} \subseteq current
<1>1. \A u : Known(p, u, d) \ {p} \subseteq current
  BY DEF Known
<1>2. WebKnown(p, d) \ {p} \subseteq current
  BY <1>1 DEF WebKnown
<1>3. QED
  BY <1>1, <1>2 DEF Reading, Holding

LEMMA FinishesCurrent ==
    ASSUME BaseInv, CurrentInv, NEW p \in Procs, NEW d, NEW next, NEW now, Finishes(p, d, next, now)
    PROVE  CurrentInv' /\ current' \ {p} \subseteq current
<1>1. /\ Typed /\ Active(p) /\ (Reading(p, d, now) \/ Holding(p, d, now)) /\ pc[p] \in {"idle", "done"}
      /\ current' = (IF next.keep THEN now ELSE now \ {p}) /\ UNCHANGED disk
  BY DEF Finishes, BaseInv
<1>2. PICK r, e : Finished(p, d, next, now, r, e)
  BY <1>1, FinishIs
<1>3. /\ all' = [all EXCEPT ![p] = [blocks |-> e, kept |-> next.keep]] /\ next.keep \in BOOLEAN
      /\ Fit(e) /\ (next.keep => e = d) /\ pc'[p] = "idle"
  BY <1>2, Zenon DEF Finished
<1>4. BlocksTyped
  BY <1>1 DEF Typed
<1>5. all'[p].blocks = e
  BY <1>3, <1>4, BlocksSet
<1>6. Apart(p) /\ current' \ {p} \subseteq current
  BY <1>1, FinishesApart, NowOthers
<1>7. ASSUME p \in current' PROVE CurrentAt(p)'
  <2>1. next.keep /\ p \in now
    BY <1>1, <1>7
  <2>2. d = Source(Owner(p)).blocks
    BY <1>1, <2>1, NowHas
  <2>3. cast' = cast /\ serve' = serve /\ file' = file /\ home' = home
    BY <1>1 DEF Reading, Holding, disk
  <2>4. Source(Owner(p))'.blocks = d
    BY <2>2, <2>3, SameNet, SameSource
  <2>5. all'[p].blocks = Source(Owner(p))'.blocks
    BY <1>3, <1>5, <2>1, <2>4
  <2>6. QED
    BY <1>3, <2>5 DEF CurrentAt, Writing
<1>8. QED
  BY <1>1, <1>6, <1>7, CurrentApart

LEMMA SavesCurrent ==
    ASSUME BaseInv, CurrentInv, FreshInv, NEW p \in Procs, NEW d, NEW now, NEW r, NEW new, NEW next,
           NEW doubts, Saves(p, d, now, r, new, next, doubts)
    PROVE  CurrentInv' /\ current' \ {p} \subseteq current
<1>1. PICK s : s = SessionOf(p)
  OBVIOUS
<1>2. PICK P : Begun(p, d, now, r, new, next, doubts, P)
  BY SavesIs DEF BaseInv
<1>3. /\ Active(p) /\ pc[p] = "idle" /\ s \in Sessions /\ Owner(p) \in Users /\ Typed /\ Fit(d)
      /\ P = brc_putblock(d, new) /\ Fit(P) /\ Puttable(new)
      /\ all' = [all EXCEPT ![p] = [blocks |-> P, kept |-> TRUE]]
      /\ pc'[p] = "open" /\ doubt'[p] = doubts /\ current' = now /\ UNCHANGED disk
  BY <1>1, <1>2, Zenon DEF Begun
<1>4. /\ Reading(p, d, now) /\ r.board = brc[s].board /\ ReadOf(r.list) = ReadOf(brc[s].list)
      /\ \/ r = brc[s] /\ new.board = Info /\ doubts = PushedOut(d, P)
         \/ /\ ~r.changed /\ brc[s].changed /\ new.board = r.board /\ r.board \in Boards
            /\ ReadsOf(new) = ReadOf(r.list)
            /\ doubts = PushedOut(d, P) \cup IF s \in fresh /\ ~Raced(p) THEN {} ELSE {r.board}
  BY <1>1, <1>3 DEF Saves
<1>5. BlocksTyped
  BY <1>3 DEF Typed
<1>6. all'[p].blocks = P
  BY <1>3, <1>5, BlocksSet
<1>7. Apart(p) /\ current' \ {p} \subseteq current
  BY <1>3, <1>4, SavesApart, NowOthers
<1>8. ASSUME p \in now PROVE CurrentAt(p)'
  <2>1. d = Source(Owner(p)).blocks
    BY <1>3, <1>4, <1>8, NowHas
  <2>2. cast' = cast /\ serve' = serve /\ file' = file /\ home' = home
    BY <1>3, <1>4 DEF Reading, disk
  <2>3. Source(Owner(p))'.blocks = d
    BY <2>1, <2>2, SameNet, SameSource
  <2>4. /\ Reads(P, new.board) = ReadsOf(new)
        /\ \A b : b # new.board /\ b \notin PushedOut(d, P) => Reads(P, b) = Reads(d, b)
        /\ HasBlock(d, Info) => HasBlock(P, Info)
    BY <1>3, PutReads
  <2>5. ASSUME NEW b \in Boards, b \notin doubts PROVE Reads(d, b) \subseteq Reads(P, b)
    <3>1. b # Info /\ b \notin PushedOut(d, P)
      BY <1>4, <2>5, Names
    <3>2. CASE b # new.board
      BY <2>4, <3>1, <3>2
    <3>3. CASE b = new.board
      <4>1. /\ brc[s].changed /\ r.board = b /\ ReadsOf(new) = ReadOf(brc[s].list)
            /\ doubts = PushedOut(d, P) \cup IF s \in fresh /\ ~Raced(p) THEN {} ELSE {r.board}
        BY <1>4, <3>1, <3>3
      <4>2. s \in fresh /\ ~Raced(p)
        BY <2>5, <4>1
      <4>3. \A q \in Savers(s) : pc[q] = "done"
        BY <1>1, <1>3, <4>2 DEF Savers, Raced
      <4>4. Agree(Source(UserOf[s]).blocks, brc[s])
        BY <4>2, <4>3 DEF FreshInv, FreshAt
      <4>5. Agree(d, brc[s]) /\ brc[s].board = b
        BY <1>1, <1>4, <2>1, <4>1, <4>4 DEF Owner
      <4>6. Reads(d, b) \subseteq ReadOf(brc[s].list)
        BY <4>1, <4>5 DEF Agree
      <4>7. QED
        BY <2>4, <3>3, <4>1, <4>6
    <3>4. QED
      BY <3>2, <3>3
  <2>6. Keeps(P, d, doubts)
    BY <2>4, <2>5 DEF Keeps
  <2>7. Keeps(all'[p].blocks, Source(Owner(p))'.blocks, doubt'[p])
    BY <1>3, <1>6, <2>3, <2>6
  <2>8. QED
    BY <1>3, <2>7 DEF CurrentAt, Synced
<1>9. QED
  BY <1>3, <1>7, <1>8, CurrentApart

(* The steps after which the process itself knows nothing of the file.     *)
LEMMA DropsCurrent ==
    ASSUME BaseInv, CurrentInv, NEW p \in Procs, current' \subseteq current \ {p},
           \/ p \in Telnet /\ Frees(p)
           \/ p \in Web /\ \E w \in Windows : WebRequest(p, w)
           \/ OpenFails(p)
           \/ Kill(p)
    PROVE  CurrentInv'
<1>1. Apart(p)
  BY FreesApart, RequestApart, FailsApart, KillApart
<1>2. QED
  BY <1>1, CurrentApart DEF BaseInv

LEMMA Dropped ==
    ASSUME NEW p, Frees(p) \/ (\E w \in Windows : WebRequest(p, w)) \/ OpenFails(p) \/ Kill(p)
    PROVE  current' = current \ {p}
BY Zenon DEF Frees, WebRequest, OpenFails, Kill

LEMMA MarksCurrent ==
    ASSUME BaseInv, CurrentInv, NEW p \in Procs, NEW r, Marks(p, r)
    PROVE  CurrentInv' /\ current' = current
<1>1. /\ all' = all /\ UNCHANGED net /\ UNCHANGED saving /\ UNCHANGED disk /\ current' = current
      /\ doubt' = doubt
  BY DEF Marks, Marked
<1>2. ASSUME p \in current', Active(p)' PROVE CurrentAt(p)'
  <2>1. cast' = cast /\ serve' = serve /\ file' = file /\ home' = home /\ tmp' = tmp /\ pc' = pc /\ fd' = fd
    BY <1>1 DEF net, disk, saving
  <2>2. PICK v : v = Owner(p)
    OBVIOUS
  <2>3. Owner(p)' = v /\ Active(p) /\ Source(v)' = Source(v)
    BY <1>2, <2>1, <2>2, SameNet, SameSource
  <2>4. CurrentAt(p)
    BY <1>1, <1>2, <2>3 DEF CurrentInv
  <2>5. QED
    BY <1>1, <2>1, <2>2, <2>3, <2>4, CurrentSame
<1>3. QED
  BY <1>1, <1>2, MarksApart, CurrentApart DEF BaseInv

(* A process that still has the file after another has changed something.  *)
LEMMA CurrentStays ==
    ASSUME CurrentInv, cast' = cast, serve' = serve, all' = all, doubt' = doubt,
           NEW q \in current, Active(q)', pc'[q] = pc[q], fd[q] = "tmp" => fd'[q] = "tmp",
           NEW v, v = Owner(q), Source(v)' = Source(v),
           pc[q] \in Halfway => (tmp[v].there => tmp'[v].there) /\ tmp'[v].blocks = tmp[v].blocks
    PROVE  CurrentAt(q)'
<1>1. Active(q) /\ Owner(q)' = v
  BY SameNet
<1>2. CurrentAt(q)
  BY <1>1 DEF CurrentInv
<1>3. all'[q] = all[q] /\ doubt'[q] = doubt[q]
  OBVIOUS
<1>4. QED
  BY <1>1, <1>2, <1>3, CurrentSame

LEMMA OpenCurrent ==
    ASSUME BaseInv, CurrentInv, NEW p \in Procs, OpenTmp(p)
    PROVE  CurrentInv' /\ current' \subseteq current
<1>1. PICK u : u = Owner(p)
  OBVIOUS
<1>2. /\ cast' = cast /\ serve' = serve /\ all' = all /\ doubt' = doubt
      /\ pc[p] = "open" /\ fd' = [fd EXCEPT ![p] = "tmp"]
      /\ pc' = [pc EXCEPT ![p] = "write"] /\ file' = file /\ home' = home
      /\ tmp' = [tmp EXCEPT ![u].there = TRUE] /\ current' \subseteq current
  BY <1>1 DEF OpenTmp, net
<1>3. Typed /\ u \in Users /\ Active(p) /\ DiskTyped /\ OnDisk(tmp[u])
  BY <1>1, <1>2, Saver, TypedParts DEF Typed
<1>4. /\ \A q \in Procs : q # p => fd'[q] = fd[q] /\ pc'[q] = pc[q]
      /\ fd'[p] = "tmp" /\ pc'[p] = "write" /\ current \subseteq Procs
  BY <1>2, <1>3 DEF Typed, SavingTyped, HistoryTyped
<1>5. PICK f : f = [tmp[u] EXCEPT !.there = TRUE]
  OBVIOUS
<1>6. f.blocks = tmp[u].blocks /\ f.there = TRUE
  <2>1. tmp[u] = [there |-> tmp[u].there, blocks |-> tmp[u].blocks]
    BY <1>3, Zenon DEF OnDisk
  <2>2. QED
    BY <1>5, <2>1
<1>7. tmp'[u] = f /\ \A v \in Users : v # u => tmp'[v] = tmp[v]
  BY <1>2, <1>3, <1>5 DEF DiskTyped
<1>8. ASSUME NEW q \in current', Active(q)' PROVE CurrentAt(q)'
  <2>1. PICK v : v = Owner(q)
    OBVIOUS
  <2>2. /\ q \in current /\ q \in Procs /\ Active(q) /\ Owner(q)' = v /\ Source(v)' = Source(v)
    BY <1>2, <1>4, <1>8, <2>1, SameNet, SameSource
  <2>3. v \in Users
    BY <1>3, <2>1, <2>2, Serving
  <2>4. CASE q # p
    <3>1. (tmp[v].there => tmp'[v].there) /\ tmp'[v].blocks = tmp[v].blocks
      BY <1>6, <1>7, <2>3
    <3>2. pc'[q] = pc[q] /\ fd'[q] = fd[q]
      BY <1>4, <2>2, <2>4
    <3>3. QED
      BY <1>2, <1>8, <2>1, <2>2, <3>1, <3>2, CurrentStays
  <2>5. CASE q = p
    <3>1. CurrentAt(p) /\ v = u
      BY <1>1, <2>1, <2>2, <2>5 DEF CurrentInv
    <3>2. Keeps(all[p].blocks, Source(v).blocks, doubt[p])
      BY <1>2, <2>1, <2>5, <3>1 DEF CurrentAt, Writing
    <3>3. Keeps(all'[p].blocks, Source(v)'.blocks, doubt'[p])
      BY <1>2, <2>2, <3>2
    <3>4. fd'[p] = "tmp" /\ tmp'[v].there
      BY <1>4, <1>6, <1>7, <3>1
    <3>5. QED
      BY <1>4, <2>2, <2>5, <3>3, <3>4 DEF CurrentAt, Synced
  <2>6. QED
    BY <2>4, <2>5
<1>9. QED
  BY <1>2, <1>8 DEF CurrentInv

(* A file replaced by a process that may know it.                          *)
LEMMA ReplacedOthers ==
    ASSUME BaseInv, CurrentInv, NEW p, NEW u, NEW f, Replaces(p, u, f),
           \A q \in Procs : q # p /\ fd[q] = "tmp" /\ Owner(q) # u => fd'[q] = "tmp",
           NEW q \in current', Active(q)', q # p
    PROVE  CurrentAt(q)'
<1>1. /\ cast' = cast /\ serve' = serve /\ all' = all /\ doubt' = doubt /\ u \in Users
      /\ \A v \in Users : v # u => tmp'[v] = tmp[v]
      /\ \A x \in Procs : x # p => pc'[x] = pc[x]
  BY DEF Replaces
<1>2. /\ current' \subseteq current /\ current \subseteq Procs
      /\ \A x \in Procs : x \in current' /\ Active(x) /\ Owner(x) = u => x = p
      /\ \A v \in Users : v # u => Source(v)' = Source(v)
  BY ReplacesIs DEF BaseInv, Typed, HistoryTyped
<1>3. PICK v : v = Owner(q)
  OBVIOUS
<1>4. q \in current /\ q \in Procs /\ Active(q)
  BY <1>1, <1>2, SameNet
<1>5. v \in Users /\ v # u
  BY <1>2, <1>3, <1>4, Serving DEF BaseInv
<1>6. /\ Source(v)' = Source(v) /\ tmp'[v] = tmp[v] /\ pc'[q] = pc[q]
      /\ fd[q] = "tmp" => fd'[q] = "tmp"
  BY <1>1, <1>2, <1>3, <1>4, <1>5
<1>7. QED
  BY <1>1, <1>3, <1>4, <1>6, CurrentStays

(* Who writes to anything but <user>.tmp has lost track of the file.       *)
LEMMA Astray ==
    ASSUME BaseInv, CurrentInv, NEW p \in Procs, pc[p] \in Halfway, fd[p] # "tmp" \/ ~tmp[Owner(p)].there
    PROVE  p \notin current
<1>1. Active(p)
  BY Saver DEF Halfway
<1>2. QED
  BY <1>1 DEF CurrentInv, CurrentAt, Halfway

LEMMA WriteCurrent ==
    ASSUME BaseInv, CurrentInv, AloneInv, NEW p \in Procs, WriteTmp(p)
    PROVE  CurrentInv' /\ current' \subseteq current
<1>1. PICK u : u = Owner(p)
  OBVIOUS
<1>2. /\ WriteSame(p)
      /\ (\E f : WritesTmp(p, u, f)) \/ (\E f : WritesFile(p, u, f)) \/ WritesNothing(p)
  BY <1>1, WriteCases
<1>3. /\ pc[p] = "write" /\ pc' = [pc EXCEPT ![p] = "rename"]
      /\ cast' = cast /\ serve' = serve /\ all' = all /\ doubt' = doubt /\ fd' = fd /\ home' = home
  BY <1>2 DEF WriteSame, net
<1>4. /\ Typed /\ u \in Users /\ Active(p) /\ DiskTyped /\ current \subseteq Procs
      /\ pc[p] \in Halfway
  BY <1>1, <1>3, Saver DEF Typed, HistoryTyped, Halfway
<1>5. pc'[p] = "rename" /\ \A q \in Procs : q # p => pc'[q] = pc[q]
  <2>1. "rename" \in Steps
    BY DEF Steps
  <2>2. QED
    BY <1>3, <2>1, SaverSteps
<1>6. CASE \E f : WritesTmp(p, u, f)
  <2>1. PICK f : WritesTmp(p, u, f)
    BY <1>6
  <2>2. /\ fd[p] = "tmp" /\ Begins(all[p].blocks, f.blocks) /\ f.there = TRUE
        /\ tmp' = [tmp EXCEPT ![u] = f] /\ file' = file /\ current' = current
    BY <2>1 DEF WritesTmp, Written
  <2>3. tmp'[u] = f /\ \A v \in Users : v # u => tmp'[v] = tmp[v]
    BY <1>4, <2>2 DEF DiskTyped
  <2>4. ASSUME NEW q \in current', Active(q)' PROVE CurrentAt(q)'
    <3>1. PICK v : v = Owner(q)
      OBVIOUS
    <3>2. /\ q \in current /\ q \in Procs /\ Active(q) /\ Owner(q)' = v /\ Source(v)' = Source(v)
      BY <1>3, <1>4, <2>2, <2>4, <3>1, SameNet, SameSource
    <3>3. v \in Users
      BY <1>4, <3>1, <3>2, Serving
    <3>4. CASE q # p
      <4>1. pc[q] \in Halfway => v # u
        BY <1>1, <1>4, <2>2, <3>1, <3>2, <3>4 DEF AloneInv, Halfway
      <4>2. pc[q] \in Halfway => (tmp[v].there => tmp'[v].there) /\ tmp'[v].blocks = tmp[v].blocks
        BY <2>3, <3>3, <4>1
      <4>3. pc'[q] = pc[q] /\ fd'[q] = fd[q]
        BY <1>3, <1>5, <3>2, <3>4
      <4>4. QED
        BY <1>3, <2>4, <3>1, <3>2, <4>2, <4>3, CurrentStays
    <3>5. CASE q = p
      <4>1. CurrentAt(p) /\ v = u
        BY <1>1, <3>1, <3>2, <3>5 DEF CurrentInv
      <4>2. Keeps(all[p].blocks, Source(v).blocks, doubt[p])
        BY <1>3, <3>1, <3>5, <4>1 DEF CurrentAt, Writing
      <4>3. Keeps(all'[p].blocks, Source(v)'.blocks, doubt'[p])
        BY <1>3, <3>2, <4>2
      <4>4. fd'[p] = "tmp" /\ tmp'[v].there /\ Begins(all'[p].blocks, tmp'[v].blocks)
        BY <1>3, <2>2, <2>3, <4>1
      <4>5. QED
        BY <1>5, <3>2, <3>5, <4>3, <4>4 DEF CurrentAt, Synced
    <3>6. QED
      BY <3>4, <3>5
  <2>5. QED
    BY <2>2, <2>4 DEF CurrentInv
<1>7. CASE \E f : WritesFile(p, u, f)
  <2>1. PICK f : WritesFile(p, u, f)
    BY <1>7
  <2>2. Replaces(p, u, f)
    BY <1>1, <1>2, <2>1, WritesReplaces
  <2>3. p \notin current
    BY <1>4, <2>1, Astray DEF WritesFile
  <2>4. current' \subseteq current
    BY <2>2, ReplacesIs
  <2>5. \A q \in current' : Active(q)' => CurrentAt(q)'
    BY <1>3, <2>2, <2>3, <2>4, ReplacedOthers
  <2>6. QED
    BY <2>4, <2>5 DEF CurrentInv
<1>8. CASE WritesNothing(p)
  <2>1. p \notin current
    BY <1>4, <1>8, Astray DEF WritesNothing
  <2>2. file' = file /\ tmp' = tmp /\ current' = current
    BY <1>8 DEF WritesNothing
  <2>3. ASSUME NEW q \in current', Active(q)' PROVE CurrentAt(q)'
    <3>1. PICK v : v = Owner(q)
      OBVIOUS
    <3>2. q \in current /\ pc'[q] = pc[q] /\ fd'[q] = fd[q] /\ Source(v)' = Source(v)
      BY <1>3, <1>4, <1>5, <2>1, <2>2, <2>3, SameSource
    <3>3. QED
      BY <1>3, <2>2, <2>3, <3>1, <3>2, CurrentStays
  <2>4. QED
    BY <2>2, <2>3 DEF CurrentInv
<1>9. QED
  BY <1>2, <1>6, <1>7, <1>8

LEMMA RenameCurrent ==
    ASSUME BaseInv, CurrentInv, NEW p \in Procs, Rename(p)
    PROVE  CurrentInv' /\ current' \subseteq current
<1>1. PICK u : u = Owner(p)
  OBVIOUS
<1>2. RenameSame(p) /\ (Renames(p, u) \/ RenamesNothing(p, u))
  BY <1>1, RenameCases
<1>3. /\ pc[p] = "rename" /\ pc' = [pc EXCEPT ![p] = "done"]
      /\ cast' = cast /\ serve' = serve /\ all' = all /\ doubt' = doubt /\ home' = home
  BY <1>2 DEF RenameSame, net
<1>4. /\ Typed /\ u \in Users /\ Active(p) /\ current \subseteq Procs /\ "done" \in Steps
  BY <1>1, <1>3, Saver DEF Typed, HistoryTyped, Steps
<1>5. pc'[p] = "done" /\ \A q \in Procs : q # p => pc'[q] = pc[q]
  BY <1>3, <1>4, SaverSteps
<1>6. CASE Renames(p, u)
  <2>1. Replaces(p, u, tmp[u])
    BY <1>1, <1>2, <1>6, RenamesReplaces
  <2>2. /\ current' \subseteq current /\ Source(u)' = tmp[u]
        /\ \A q \in Procs : q \in current' /\ Active(q) /\ Owner(q) = u => tmp[u].blocks = all[p].blocks
    BY <2>1, ReplacesIs
  <2>3. \A q \in Procs : q # p /\ fd[q] = "tmp" /\ Owner(q) # u => fd'[q] = "tmp"
    BY <1>6 DEF Renames, Moved
  <2>4. p \in current' => CurrentAt(p)'
    <3>1. ASSUME p \in current' PROVE tmp[u].blocks = all[p].blocks
      BY <1>1, <1>4, <2>2, <3>1
    <3>2. Owner(p)' = u
      BY <1>1, <1>3, SameNet
    <3>3. QED
      BY <1>3, <1>5, <2>2, <3>1, <3>2 DEF CurrentAt, Writing
  <2>5. \A q \in current' : Active(q)' => CurrentAt(q)'
    BY <2>1, <2>3, <2>4, ReplacedOthers
  <2>6. QED
    BY <2>2, <2>5 DEF CurrentInv
<1>7. CASE RenamesNothing(p, u)
  <2>1. /\ file' = file /\ tmp' = tmp /\ current' = current \ {p} /\ fd' = [fd EXCEPT ![p] = "none"]
    BY <1>7 DEF RenamesNothing
  <2>2. \A q \in Procs : q # p => fd'[q] = fd[q]
    BY <1>4, <2>1 DEF Typed, SavingTyped
  <2>3. ASSUME NEW q \in current', Active(q)' PROVE CurrentAt(q)'
    <3>1. PICK v : v = Owner(q)
      OBVIOUS
    <3>2. q \in current /\ pc'[q] = pc[q] /\ fd'[q] = fd[q] /\ Source(v)' = Source(v)
      BY <1>3, <1>4, <1>5, <2>1, <2>2, <2>3, SameSource
    <3>3. QED
      BY <1>3, <2>1, <2>3, <3>1, <3>2, CurrentStays
  <2>4. QED
    BY <2>1, <2>3 DEF CurrentInv
<1>8. QED
  BY <1>2, <1>6, <1>7

(* save_brc: a file that is unlinked is at home, unless it was changed.    *)
LEMMA CronSource ==
    ASSUME BaseInv, CopyInv, NEW u \in Users, CronCopy(u) \/ CronKeep(u) \/ CronUnlink(u)
    PROVE  /\ \A v \in Users : v # u => Source(v)' = Source(v)
           /\ Source(u)' = Source(u) \/ (CronUnlink(u) /\ cron[u] = "changed")
<1>1. DiskTyped
  BY DEF BaseInv, Typed
<1>2. CASE CronCopy(u)
  BY <1>1, <1>2 DEF CronCopy, Source, SourceIn, DiskTyped
<1>3. CASE CronKeep(u)
  BY <1>3, SameSource DEF CronKeep
<1>4. CASE CronUnlink(u)
  <2>1. file' = [file EXCEPT ![u] = NoFile] /\ home' = home /\ cron[u] # "no"
    BY <1>4 DEF CronUnlink
  <2>2. file'[u] = NoFile /\ \A v \in Users : v # u => file'[v] = file[v]
    BY <1>1, <2>1 DEF DiskTyped
  <2>3. \A v \in Users : v # u => Source(v)' = Source(v)
    BY <2>1, <2>2, SourceAt
  <2>4. cron[u] = "copied" \/ cron[u] = "changed"
    BY <1>1, <2>1 DEF DiskTyped
  <2>5. CASE cron[u] = "copied"
    <3>1. file[u].there /\ home[u] = file[u]
      BY <2>5 DEF CopyInv
    <3>2. Source(u) = file[u]
      BY <3>1 DEF Source, SourceIn
    <3>3. Source(u)' = home[u]
      BY <2>1, <2>2, NoFileIs DEF Source, SourceIn
    <3>4. QED
      BY <2>3, <3>1, <3>2, <3>3
  <2>6. QED
    BY <1>4, <2>3, <2>4, <2>5
<1>5. QED
  BY <1>2, <1>3, <1>4

LEMMA CronSame ==
    ASSUME BaseInv, NEW u \in Users, CronCopy(u) \/ CronKeep(u) \/ CronUnlink(u)
    PROVE  /\ cast' = cast /\ serve' = serve /\ all' = all /\ brc' = brc /\ pc' = pc /\ doubt' = doubt
           /\ tmp' = tmp /\ \A q \in Procs : fd'[q] = "tmp" <=> fd[q] = "tmp"
           /\ current' \subseteq current /\ fresh' \subseteq fresh
           /\ CronUnlink(u) /\ cron[u] = "changed" =>
                  /\ \A q \in Procs : q \in current' /\ Active(q) => Owner(q) # u
                  /\ \A z \in fresh' : UserOf[z] # u
<1>1. SavingTyped
  BY DEF BaseInv, Typed
<1>2. CASE CronCopy(u)
  BY <1>2 DEF CronCopy, CronUnlink, net, saving, history
<1>3. CASE CronKeep(u)
  BY <1>3 DEF CronKeep, CronUnlink, net, saving, history
<1>4. CASE CronUnlink(u)
  BY <1>1, <1>4 DEF CronUnlink, net, SavingTyped
<1>5. QED
  BY <1>2, <1>3, <1>4

LEMMA CronCurrent ==
    ASSUME BaseInv, CopyInv, CurrentInv, NEW u \in Users, CronCopy(u) \/ CronKeep(u) \/ CronUnlink(u)
    PROVE  CurrentInv'
<1>1. /\ cast' = cast /\ serve' = serve /\ all' = all /\ pc' = pc /\ doubt' = doubt
      /\ tmp' = tmp /\ \A q \in Procs : fd'[q] = "tmp" <=> fd[q] = "tmp"
      /\ current' \subseteq current /\ current \subseteq Procs /\ Typed
  BY CronSame DEF BaseInv, Typed, HistoryTyped
<1>2. ASSUME NEW q \in current', Active(q)' PROVE CurrentAt(q)'
  <2>1. PICK v : v = Owner(q)
    OBVIOUS
  <2>2. q \in current /\ q \in Procs /\ Active(q)
    BY <1>1, <1>2, SameNet
  <2>3. v \in Users
    BY <1>1, <2>1, <2>2, Serving
  <2>4. Source(v)' = Source(v)
    BY <1>2, <2>1, <2>2, <2>3, CronSource, CronSame
  <2>5. QED
    BY <1>1, <1>2, <2>1, <2>2, <2>4, CurrentStays
<1>3. QED
  BY <1>2 DEF CurrentInv

(* One step: what is known of the files, and who writes to <user>.tmp.     *)
LEMMA WriteAlone ==
    ASSUME BaseInv, CurrentInv, AloneInv, NEW p \in Procs, WriteTmp(p), BaseInv'
    PROVE  AloneInv'
<1>1. PICK u : u = Owner(p)
  OBVIOUS
<1>2. WriteSame(p)
  BY <1>1, WriteCases
<1>3. /\ pc[p] = "write" /\ pc' = [pc EXCEPT ![p] = "rename"] /\ cast' = cast /\ serve' = serve /\ fd' = fd
  BY <1>2 DEF WriteSame, net
<1>4. \A q \in Procs : q # p => pc'[q] = pc[q]
  BY <1>3 DEF BaseInv, Typed, SavingTyped
<1>5. current' \subseteq current
  BY WriteCurrent
<1>6. \A x \in Procs : x \in current' /\ pc'[x] \in Halfway => x \in current /\ pc[x] \in Halfway
  BY <1>3, <1>4, <1>5 DEF Halfway
<1>7. QED
  BY <1>3, <1>6, AloneStay DEF BaseInv

LEMMA RenameAlone ==
    ASSUME BaseInv, CurrentInv, AloneInv, NEW p \in Procs, Rename(p), BaseInv'
    PROVE  AloneInv'
<1>1. RenameSame(p)
  BY RenameCases
<1>2. /\ pc[p] = "rename" /\ pc' = [pc EXCEPT ![p] = "done"] /\ cast' = cast /\ serve' = serve
      /\ fd'[p] = "none"
      /\ \A q \in Procs : q # p /\ fd'[q] # fd[q] => fd'[q] \in {"file", "gone"}
  BY <1>1 DEF RenameSame, net
<1>3. pc'[p] = "done" /\ \A q \in Procs : q # p => pc'[q] = pc[q]
  BY <1>2 DEF BaseInv, Typed, SavingTyped
<1>4. current' \subseteq current
  BY RenameCurrent
<1>5. \A x \in Procs : x \in current' /\ pc'[x] \in Halfway => x \in current /\ pc[x] \in Halfway
  BY <1>3, <1>4 DEF Halfway
<1>6. \A q \in Procs : fd'[q] = "tmp" => fd[q] = "tmp"
  BY <1>2
<1>7. QED
  BY <1>2, <1>5, <1>6, AloneStay DEF BaseInv

LEMMA CronAlone ==
    ASSUME BaseInv, AloneInv, NEW u \in Users, CronCopy(u) \/ CronKeep(u) \/ CronUnlink(u), BaseInv'
    PROVE  AloneInv'
<1>1. /\ cast' = cast /\ serve' = serve /\ pc' = pc /\ current' \subseteq current
      /\ \A q \in Procs : fd'[q] = "tmp" <=> fd[q] = "tmp"
  BY CronSame
<1>2. QED
  BY <1>1, AloneStay DEF BaseInv

KnownInv == CopyInv /\ CurrentInv /\ AloneInv

LEMMA KnownStep ==
    ASSUME BaseInv, KnownInv, FreshInv, [Next]_vars PROVE KnownInv'
<1>1. CopyInv' /\ BaseInv' /\ CurrentInv /\ AloneInv /\ CopyInv
  BY CopyStep, BaseStep DEF KnownInv
<1>2. ASSUME NEW p \in Procs, NEW d, NEW next, NEW now, Finishes(p, d, next, now)
      PROVE  CurrentInv' /\ AloneInv'
  <2>1. pc'[p] = "idle"
    <3>1. PICK r, e : Finished(p, d, next, now, r, e)
      BY <1>2, FinishIs DEF BaseInv
    <3>2. QED
      BY <3>1, Zenon DEF Finished
  <2>2. CurrentInv' /\ current' \ {p} \subseteq current /\ Apart(p)
    BY <1>1, <1>2, FinishesCurrent, FinishesApart
  <2>3. QED
    BY <1>1, <2>1, <2>2, AloneApart DEF Halfway
<1>3. ASSUME NEW p \in Procs, NEW d, NEW now, NEW r, NEW new, NEW next, NEW doubts,
             Saves(p, d, now, r, new, next, doubts)
      PROVE  CurrentInv' /\ AloneInv'
  <2>1. pc'[p] = "open"
    <3>1. PICK P : Begun(p, d, now, r, new, next, doubts, P)
      BY <1>3, SavesIs DEF BaseInv
    <3>2. QED
      BY <3>1, Zenon DEF Begun
  <2>2. CurrentInv' /\ current' \ {p} \subseteq current /\ Apart(p)
    BY <1>1, <1>3, SavesCurrent, SavesApart
  <2>3. QED
    BY <1>1, <2>1, <2>2, AloneApart DEF Halfway
<1>4. ASSUME NEW p \in Procs, NEW r, Marks(p, r) PROVE CurrentInv' /\ AloneInv'
  <2>1. pc'[p] = "idle"
    BY <1>4 DEF Marks, Marked, Ready, saving
  <2>2. CurrentInv' /\ current' = current /\ Apart(p)
    BY <1>1, <1>4, MarksCurrent, MarksApart
  <2>3. QED
    BY <1>1, <2>1, <2>2, AloneApart DEF Halfway
<1>5. ASSUME NEW p \in Procs, (p \in Telnet /\ Frees(p)) \/ (p \in Web /\ \E w \in Windows : WebRequest(p, w))
                                \/ OpenFails(p) \/ Kill(p)
      PROVE  CurrentInv' /\ AloneInv'
  <2>1. pc'[p] \in {"idle", "done"}
    <3>1. CASE Frees(p)
      BY <3>1 DEF Frees, Ready, saving
    <3>2. CASE \E w \in Windows : WebRequest(p, w)
      BY <3>2 DEF WebRequest, saving
    <3>3. CASE OpenFails(p)
      <4>1. pc' = [pc EXCEPT ![p] = "done"] /\ "done" \in Steps
        BY <3>3 DEF OpenFails, Steps
      <4>2. QED
        BY <4>1, SaverSteps
    <3>4. CASE Kill(p)
      BY <3>4, KillIs DEF Killed
    <3>5. QED
      BY <1>5, <3>1, <3>2, <3>3, <3>4
  <2>2. current' = current \ {p}
    BY <1>5, Dropped
  <2>3. CurrentInv'
    BY <1>1, <1>5, <2>2, DropsCurrent
  <2>4. Apart(p)
    BY <1>5, FreesApart, RequestApart, FailsApart, KillApart
  <2>5. QED
    BY <1>1, <2>1, <2>2, <2>3, <2>4, AloneApart DEF Halfway
<1>6. ASSUME NEW p \in Procs, OpenTmp(p) \/ WriteTmp(p) \/ Rename(p) PROVE CurrentInv' /\ AloneInv'
  BY <1>1, <1>6, OpenCurrent, AloneOpen, WriteCurrent, WriteAlone, RenameCurrent, RenameAlone
<1>7. ASSUME NEW u \in Users, CronCopy(u) \/ CronKeep(u) \/ CronUnlink(u) PROVE CurrentInv' /\ AloneInv'
  BY <1>1, <1>7, CronCurrent, CronAlone
<1>8. CASE UNCHANGED vars
  <2>1. \A q \in current : SessionOf(q)' = SessionOf(q) /\ Owner(q)' = Owner(q) /\ (Active(q)' <=> Active(q))
    BY <1>8, SameNet DEF vars, net
  <2>2. \A u : Source(u)' = Source(u)
    BY <1>8, SameSource DEF vars, disk
  <2>3. /\ current' = current /\ all' = all /\ pc' = pc /\ doubt' = doubt /\ fd' = fd /\ tmp' = tmp
        /\ cast' = cast /\ serve' = serve
    BY <1>8 DEF vars, net, disk, saving, history
  <2>4. \A q \in current' : Active(q)' => CurrentAt(q)'
    BY <1>1, <2>2, <2>3, CurrentStays
  <2>5. CurrentInv'
    BY <2>4 DEF CurrentInv
  <2>6. AloneInv'
    BY <1>1, <2>3, AloneStay DEF BaseInv
  <2>7. QED
    BY <1>1, <2>5, <2>6 DEF KnownInv
<1>9. CASE Next
  <2>1. \A p \in Telnet : p \in Procs
    BY DEF Procs
  <2>2. \A p \in Web : p \in Procs
    BY DEF Procs
  <2>3. CurrentInv' /\ AloneInv'
    BY <1>2, <1>3, <1>4, <1>5, <1>6, <1>7, <1>9, <2>1, <2>2, Kinds, Zenon
  <2>4. QED
    BY <1>1, <2>3 DEF KnownInv
<1>10. QED
  BY <1>1, <1>8, <1>9 DEF KnownInv

-----------------------------------------------------------------------------
(***************************************************************************)
(* A session whose board nobody else has saved shows what the file has.    *)
(***************************************************************************)
LEMMA FreshSame ==
    ASSUME NEW z, FreshAt(z), brc'[z] = brc[z],
           Reads(Source(UserOf[z])'.blocks, brc[z].board) = Reads(Source(UserOf[z]).blocks, brc[z].board),
           Savers(z)' \subseteq Savers(z),
           \A q \in Savers(z) : q \notin Savers(z)' \/ pc'[q] = "done" => pc[q] = "done",
           \A q \in Savers(z)' : q \in current' /\ pc'[q] \in Writing =>
               q \in current /\ pc[q] \in Writing /\ all'[q] = all[q] /\ doubt'[q] = doubt[q]
    PROVE  FreshAt(z)'
<1>1. brc'[z].board # NoBoard /\ \A p, q \in Savers(z)' : p = q
  BY DEF FreshAt
<1>2. ASSUME \A p \in Savers(z)' : pc'[p] = "done"
      PROVE  Agree(Source(UserOf[z])'.blocks, brc'[z])
  <2>1. \A p \in Savers(z) : pc[p] = "done"
    BY <1>2
  <2>2. Agree(Source(UserOf[z]).blocks, brc[z])
    BY <2>1 DEF FreshAt
  <2>3. QED
    BY <2>2 DEF Agree
<1>3. ASSUME NEW p \in Savers(z)' \cap current', pc'[p] \in Writing, brc'[z].board \notin doubt'[p]
      PROVE  Agree(all'[p].blocks, brc'[z])
  <2>1. p \in Savers(z) \cap current /\ pc[p] \in Writing /\ all'[p] = all[p] /\ doubt'[p] = doubt[p]
    BY <1>3
  <2>2. Agree(all[p].blocks, brc[z])
    BY <1>3, <2>1 DEF FreshAt
  <2>3. QED
    BY <2>1, <2>2
<1>4. QED
  BY <1>1, <1>2, <1>3 DEF FreshAt

LEMMA SaversAlike ==
    ASSUME NEW q \in Procs, Alike(q), NEW z PROVE q \in Savers(z)' <=> q \in Savers(z)
BY DEF Alike, Savers

LEMMA SaversAre ==
    \A z : Savers(z) \subseteq Procs /\ \A q \in Savers(z) : Active(q) /\ pc[q] # "idle" /\ SessionOf(q) = z
BY DEF Savers

LEMMA FreshApart ==
    ASSUME FreshInv, NEW p \in Procs, Apart(p), current' \ {p} \subseteq current,
           NEW z \in fresh, brc'[z] = brc[z], p \notin Savers(z)', p \in Savers(z) => pc[p] = "done"
    PROVE  FreshAt(z)'
<1>1. FreshAt(z) /\ Savers(z) \subseteq Procs /\ Savers(z)' \subseteq Procs
  BY DEF FreshInv, Savers
<1>2. Source(UserOf[z])' = Source(UserOf[z])
  BY SameSource DEF Apart, disk
<1>3. \A q \in Procs : q # p => Alike(q)
  BY DEF Apart
<1>4. \A q \in Procs : q # p => (q \in Savers(z)' <=> q \in Savers(z))
  BY <1>3, SaversAlike
<1>5. Savers(z)' \subseteq Savers(z)
  BY <1>1, <1>4
<1>6. \A q \in Savers(z) : q \notin Savers(z)' \/ pc'[q] = "done" => pc[q] = "done"
  BY <1>1, <1>3, <1>4 DEF Alike
<1>7. \A q \in Savers(z)' : q \in current' /\ pc'[q] \in Writing =>
          q \in current /\ pc[q] \in Writing /\ all'[q] = all[q] /\ doubt'[q] = doubt[q]
  BY <1>1, <1>3 DEF Alike
<1>8. Reads(Source(UserOf[z])'.blocks, brc[z].board) = Reads(Source(UserOf[z]).blocks, brc[z].board)
  BY <1>2
<1>9. QED
  BY <1>1, <1>5, <1>6, <1>7, <1>8, FreshSame

(* Without another process at work on the session there is no other saver. *)
LEMMA NotRaced ==
    ASSUME NEW p \in Procs, ~Raced(p), NEW s, s = SessionOf(p)
    PROVE  Savers(s) \subseteq {p}
BY DEF Raced, Savers

LEMMA FinishesFresh ==
    ASSUME BaseInv, KnownInv, FreshInv, NEW p \in Procs, NEW d, NEW next, NEW now,
           Finishes(p, d, next, now)
    PROVE  FreshInv'
<1>1. PICK s : s = SessionOf(p)
  OBVIOUS
<1>2. /\ Typed /\ Active(p) /\ (Reading(p, d, now) \/ Holding(p, d, now)) /\ pc[p] \in {"idle", "done"}
      /\ UNCHANGED disk
  BY DEF Finishes, BaseInv
<1>3. PICK r, e : Finished(p, d, next, now, r, e)
  BY <1>2, FinishIs
<1>4. /\ s \in Sessions /\ Owner(p) \in Users /\ brc' = [brc EXCEPT ![s] = r] /\ r \in Rc /\ OnBoard(r)
      /\ pc'[p] = "idle"
  BY <1>1, <1>3, Zenon DEF Finished
<1>5. \/ next.leave /\ r = Zero
      \/ ~next.leave /\ next.board = NoBoard /\ r = brc[s]
      \/ /\ ~next.leave /\ next.board \in Boards /\ r.board = next.board
         /\ ~r.changed /\ ReadOf(r.list) = Reads(d, next.board)
  BY <1>1, <1>3, Zenon DEF Finished
<1>6. fresh' = IF next.board = NoBoard /\ ~next.leave THEN fresh
               ELSE IF p \in now /\ ~next.leave /\ ~Raced(p) THEN fresh \cup {s}
               ELSE fresh \ {s}
  BY <1>1, <1>3, Zenon DEF Finished
<1>7. brc'[s] = r /\ \A z \in Sessions \ {s} : brc'[z] = brc[z]
  BY <1>2, <1>4, MarksSet DEF Typed
<1>8. Apart(p) /\ current' \ {p} \subseteq current /\ CurrentInv /\ fresh \subseteq Sessions
  BY <1>2, FinishesApart, FinishesCurrent DEF KnownInv, Typed, HistoryTyped
<1>9. \A z : p \notin Savers(z)' /\ (p \in Savers(z) => pc[p] = "done")
  BY <1>2, <1>4 DEF Savers
<1>10. ASSUME NEW z \in fresh', z # s \/ r = brc[s], z \in fresh PROVE FreshAt(z)'
  <2>1. brc'[z] = brc[z]
    BY <1>7, <1>8, <1>10
  <2>2. QED
    BY <1>8, <1>9, <1>10, <2>1, FreshApart
<1>11. ASSUME s \in fresh', r # brc[s] \/ s \notin fresh PROVE FreshAt(s)'
  <2>1. /\ p \in now /\ ~next.leave /\ ~Raced(p)
        /\ next.board \in Boards /\ r.board = next.board /\ ~r.changed /\ ReadOf(r.list) = Reads(d, r.board)
    BY <1>5, <1>6, <1>11, Names
  <2>2. d = Source(Owner(p)).blocks
    BY <1>2, <1>8, <2>1, NowHas
  <2>3. UserOf[s] = Owner(p) /\ file' = file /\ home' = home
    BY <1>1, <1>2 DEF Owner, disk
  <2>4. Source(UserOf[s])'.blocks = d
    BY <2>2, <2>3, SameSource
  <2>5. Agree(Source(UserOf[s])'.blocks, brc'[s])
    BY <1>7, <2>1, <2>4 DEF Agree
  <2>6. Savers(s)' = {}
    <3>1. Savers(s) \subseteq {p}
      BY <1>1, <2>1, NotRaced
    <3>2. \A q \in Procs : q # p => q \notin Savers(s)'
      BY <1>8, <3>1, SaversAlike DEF Apart
    <3>3. QED
      BY <1>9, <3>2 DEF Savers
  <2>7. brc'[s].board # NoBoard
    BY <1>7, <2>1, Names
  <2>8. QED
    BY <2>5, <2>6, <2>7 DEF FreshAt
<1>12. \A z \in fresh' : z \in fresh \/ z = s
  BY <1>6
<1>13. QED
  BY <1>10, <1>11, <1>12 DEF FreshInv

LEMMA SavesFresh ==
    ASSUME BaseInv, KnownInv, FreshInv, NEW p \in Procs, NEW d, NEW now, NEW r, NEW new, NEW next,
           NEW doubts, Saves(p, d, now, r, new, next, doubts)
    PROVE  FreshInv'
<1>1. PICK s : s = SessionOf(p)
  OBVIOUS
<1>2. PICK P : Begun(p, d, now, r, new, next, doubts, P)
  BY SavesIs DEF BaseInv
<1>3. /\ Active(p) /\ pc[p] = "idle" /\ s \in Sessions /\ Owner(p) \in Users /\ Typed /\ Fit(d)
      /\ P = brc_putblock(d, new) /\ Fit(P) /\ Puttable(new) /\ r \in Rc
      /\ brc' = [brc EXCEPT ![s] = r] /\ OnBoard(r)
      /\ all' = [all EXCEPT ![p] = [blocks |-> P, kept |-> TRUE]]
      /\ pc'[p] = "open" /\ doubt'[p] = doubts /\ current' = now
      /\ fresh' = IF Raced(p) THEN fresh \ {s} ELSE fresh
  BY <1>1, <1>2, Zenon DEF Begun
<1>4. /\ Reading(p, d, now) /\ r.board = brc[s].board
      /\ \/ r = brc[s] /\ new.board = Info /\ doubts = PushedOut(d, P)
         \/ /\ ~r.changed /\ brc[s].changed /\ new.board = r.board /\ r.board \in Boards
            /\ ReadsOf(new) = ReadOf(r.list)
            /\ doubts = PushedOut(d, P) \cup IF s \in fresh /\ ~Raced(p) THEN {} ELSE {r.board}
  BY <1>1, <1>3 DEF Saves
<1>5. BlocksTyped /\ MarksTyped /\ fresh \subseteq Sessions
  BY <1>3 DEF Typed, HistoryTyped
<1>6. all'[p].blocks = P /\ brc'[s] = r /\ \A z \in Sessions \ {s} : brc'[z] = brc[z]
  BY <1>3, <1>5, BlocksSet, MarksSet
<1>7. Apart(p) /\ current' \ {p} \subseteq current /\ CurrentInv
  BY <1>3, <1>4, SavesApart, NowOthers DEF KnownInv
<1>8. SessionOf(p)' = s
  BY <1>1, <1>4, SameNet DEF Reading
<1>9. ASSUME NEW z \in fresh', z # s PROVE FreshAt(z)'
  <2>1. z \in fresh /\ brc'[z] = brc[z] /\ p \notin Savers(z) /\ p \notin Savers(z)'
    BY <1>3, <1>5, <1>6, <1>8, <1>9 DEF Savers
  <2>2. QED
    BY <1>7, <2>1, FreshApart
<1>10. ASSUME s \in fresh' PROVE FreshAt(s)'
  <2>1. s \in fresh /\ ~Raced(p) /\ FreshAt(s)
    BY <1>3, <1>10 DEF FreshInv
  <2>2. Savers(s) = {}
    BY <1>1, <1>3, <2>1, NotRaced DEF Savers
  <2>3. Savers(s)' \subseteq {p} /\ Savers(s)' \subseteq Procs
    BY <1>7, <2>2, SaversAlike DEF Apart, Savers
  <2>4. p \in Savers(s)'
    <3>1. Active(p)'
      BY <1>3, <1>4, SameNet DEF Reading
    <3>2. QED
      BY <1>3, <1>8, <3>1 DEF Savers
  <2>5. brc'[s].board # NoBoard /\ brc[s].board = r.board
    BY <1>4, <1>6, <2>1 DEF FreshAt
  <2>6. ASSUME p \in current', r.board \notin doubts PROVE Agree(P, r)
    <3>1. d = Source(UserOf[s]).blocks
      BY <1>1, <1>3, <1>4, <1>7, <2>6, NowHas DEF Owner
    <3>2. Agree(d, brc[s])
      BY <2>1, <2>2, <3>1 DEF FreshAt
    <3>3. /\ Reads(P, new.board) = ReadsOf(new)
          /\ \A b : b # new.board /\ b \notin PushedOut(d, P) => Reads(P, b) = Reads(d, b)
      BY <1>3, PutReads
    <3>4. CASE r = brc[s] /\ new.board = Info /\ doubts = PushedOut(d, P)
      <4>1. r.board # Info
        BY <1>3, RcIs, Names
      <4>2. Reads(P, r.board) = Reads(d, r.board)
        BY <2>6, <3>3, <3>4, <4>1
      <4>3. QED
        BY <3>2, <3>4, <4>2 DEF Agree
    <3>5. CASE ~r.changed /\ new.board = r.board /\ ReadsOf(new) = ReadOf(r.list)
      BY <3>3, <3>5 DEF Agree
    <3>6. QED
      BY <1>4, <3>4, <3>5
  <2>7. \A q \in Savers(s)' \cap current' :
            pc'[q] \in Writing /\ brc'[s].board \notin doubt'[q] => Agree(all'[q].blocks, brc'[s])
    BY <1>3, <1>6, <2>3, <2>6
  <2>8. ~\A q \in Savers(s)' : pc'[q] = "done"
    BY <1>3, <2>4
  <2>9. \A q, x \in Savers(s)' : q = x
    BY <2>3
  <2>10. QED
    BY <2>5, <2>7, <2>8, <2>9 DEF FreshAt
<1>11. QED
  BY <1>9, <1>10 DEF FreshInv

(* The steps of processes that leave sessions' marks alone.                *)
LEMMA IdleFresh ==
    ASSUME BaseInv, FreshInv, NEW p \in Procs, Apart(p), current' \subseteq current, fresh' \subseteq fresh,
           SessionOf(p) \notin fresh' \/ (pc[p] = "idle" /\ pc'[p] = "idle"),
           pc'[p] = "idle" \/ SessionOf(p)' = SessionOf(p),
           \A z \in fresh' : brc'[z] = brc[z]
    PROVE  FreshInv'
<1>1. ASSUME NEW z \in fresh' PROVE FreshAt(z)'
  <2>1. p \notin Savers(z)' /\ p \notin Savers(z)
    BY <1>1 DEF Savers
  <2>2. QED
    BY <1>1, <2>1, FreshApart
<1>2. QED
  BY <1>1 DEF FreshInv

LEMMA DropsFresh ==
    ASSUME BaseInv, FreshInv, NEW p \in Procs,
           \/ p \in Telnet /\ Frees(p)
           \/ p \in Web /\ \E w \in Windows : WebRequest(p, w)
           \/ OpenFails(p)
           \/ Kill(p)
    PROVE  FreshInv'
<1>1. Apart(p) /\ current' \subseteq current
  BY FreesApart, RequestApart, FailsApart, KillApart, Dropped
<1>2. CASE Frees(p)
  BY <1>1, <1>2, IdleFresh DEF Frees, Ready, saving
<1>3. CASE \E w \in Windows : WebRequest(p, w)
  BY <1>1, <1>3, IdleFresh DEF WebRequest, saving
<1>4. CASE OpenFails(p)
  <2>1. /\ fresh' = fresh \ {SessionOf(p)} /\ brc' = brc /\ cast' = cast /\ serve' = serve
    BY <1>4 DEF OpenFails, net
  <2>2. QED
    BY <1>1, <2>1, SameNet, IdleFresh
<1>5. CASE Kill(p)
  <2>1. Killed(p) /\ Typed
    BY <1>5, KillIs DEF BaseInv
  <2>2. /\ fresh' = fresh \ {SessionOf(p)} /\ pc'[p] = "idle"
        /\ brc' = brc \/ (p \in Telnet /\ brc' = [brc EXCEPT ![p] = Zero])
    BY <2>1 DEF Killed
  <2>3. \A z \in fresh' : brc'[z] = brc[z]
    <3>1. CASE brc' = brc
      BY <3>1
    <3>2. CASE p \in Telnet /\ brc' = [brc EXCEPT ![p] = Zero]
      <4>1. SessionOf(p) = p /\ fresh' \subseteq Sessions
        BY <2>1, <2>2, <3>2 DEF SessionOf, Typed, HistoryTyped
      <4>2. QED
        BY <2>1, <2>2, <3>2, <4>1 DEF Typed, MarksTyped
    <3>3. QED
      BY <2>2, <3>1, <3>2
  <2>4. QED
    BY <1>1, <2>2, <2>3, IdleFresh
<1>6. QED
  BY <1>2, <1>3, <1>4, <1>5

LEMMA AgreeMarked ==
    ASSUME NEW r \in Rc, NEW e, Kept1(r, e), NEW d, Agree(d, r) PROVE Agree(d, e)
<1>1. /\ e.board = r.board /\ ReadOf(r.list) \subseteq ReadOf(e.list)
      /\ e.changed \/ (e.list = r.list /\ ~r.changed)
  BY ReadOfIs DEF Kept1
<1>2. Reads(d, r.board) \subseteq ReadOf(r.list) /\ (~r.changed => Reads(d, r.board) = ReadOf(r.list))
  BY DEF Agree
<1>3. CASE e.changed
  <2>1. Reads(d, e.board) \subseteq ReadOf(e.list)
    BY <1>1, <1>2
  <2>2. QED
    BY <1>3, <2>1 DEF Agree
<1>4. CASE ~e.changed
  <2>1. Reads(d, e.board) = ReadOf(e.list)
    BY <1>1, <1>2, <1>4
  <2>2. QED
    BY <1>4, <2>1 DEF Agree
<1>5. QED
  BY <1>3, <1>4

LEMMA MarksFresh ==
    ASSUME BaseInv, FreshInv, NEW p \in Procs, NEW r, Marks(p, r) PROVE FreshInv'
<1>1. PICK s : s = SessionOf(p)
  OBVIOUS
<1>2. /\ Active(p) /\ pc[p] = "idle" /\ Kept1(brc[s], r) /\ brc' = [brc EXCEPT ![s] = r]
      /\ all' = all /\ cast' = cast /\ serve' = serve /\ pc' = pc /\ file' = file /\ home' = home
      /\ current' = current /\ fresh' = fresh /\ doubt' = doubt
  BY <1>1 DEF Marks, Marked, Ready, net, saving, disk
<1>3. Typed /\ s \in Sessions /\ brc[s] \in Rc /\ fresh \subseteq Sessions
  BY <1>1, <1>2, Serving, TypedParts DEF BaseInv, Typed, HistoryTyped
<1>4. brc'[s] = r /\ \A z \in Sessions : z # s => brc'[z] = brc[z]
  BY <1>2, <1>3 DEF Typed, MarksTyped
<1>5. \A z : Savers(z)' = Savers(z)
  BY <1>2, SameNet DEF Savers
<1>6. \A u : Source(u)' = Source(u)
  BY <1>2, SameSource
<1>7. ASSUME NEW z \in fresh' PROVE FreshAt(z)'
  <2>1. FreshAt(z) /\ z \in Sessions
    BY <1>2, <1>3, <1>7 DEF FreshInv
  <2>2. CASE z # s
    <3>1. brc'[z] = brc[z]
      BY <1>4, <2>1, <2>2
    <3>2. Reads(Source(UserOf[z])'.blocks, brc[z].board) = Reads(Source(UserOf[z]).blocks, brc[z].board)
      BY <1>6
    <3>3. /\ Savers(z)' \subseteq Savers(z)
          /\ \A q \in Savers(z) : q \notin Savers(z)' \/ pc'[q] = "done" => pc[q] = "done"
          /\ \A q \in Savers(z)' : q \in current' /\ pc'[q] \in Writing =>
                 q \in current /\ pc[q] \in Writing /\ all'[q] = all[q] /\ doubt'[q] = doubt[q]
      BY <1>2, <1>5
    <3>4. QED
      BY <2>1, <3>1, <3>2, <3>3, FreshSame
  <2>3. CASE z = s
    <3>1. \A d : Agree(d, brc[s]) => Agree(d, r)
      BY <1>2, <1>3, AgreeMarked
    <3>2. r.board = brc[s].board
      BY <1>2 DEF Kept1
    <3>3. (\A q \in Savers(s)' : pc'[q] = "done") => Agree(Source(UserOf[s])'.blocks, r)
      BY <1>2, <1>5, <1>6, <2>1, <2>3, <3>1 DEF FreshAt
    <3>4. \A q \in Savers(s)' \cap current' :
              pc'[q] \in Writing /\ r.board \notin doubt'[q] => Agree(all'[q].blocks, r)
      BY <1>2, <1>5, <2>1, <2>3, <3>1, <3>2 DEF FreshAt
    <3>5. r.board # NoBoard /\ \A q, x \in Savers(s)' : q = x
      BY <1>5, <2>1, <2>3, <3>2 DEF FreshAt
    <3>6. QED
      BY <1>4, <2>3, <3>3, <3>4, <3>5 DEF FreshAt
  <2>4. QED
    BY <2>2, <2>3
<1>8. QED
  BY <1>7 DEF FreshInv

(* The steps of brc_fini and of save_brc, for a session that nobody who    *)
(* takes one has just saved.                                               *)
LEMMA FreshStays ==
    ASSUME BaseInv, FreshInv, cast' = cast, serve' = serve, brc' = brc, all' = all, doubt' = doubt,
           current' \subseteq current, NEW z \in fresh,
           \A q \in Procs : SessionOf(q) = z =>
               pc'[q] = pc[q] \/ (pc[q] \in Writing /\ pc'[q] \in Writing),
           Reads(Source(UserOf[z])'.blocks, brc[z].board) = Reads(Source(UserOf[z]).blocks, brc[z].board)
    PROVE  FreshAt(z)'
<1>1. FreshAt(z)
  BY DEF FreshInv
<1>2. \A q : SessionOf(q)' = SessionOf(q) /\ (Active(q)' <=> Active(q))
  BY SameNet
<1>3. Savers(z)' = Savers(z)
  BY <1>2 DEF Savers, Writing
<1>4. \A q \in Savers(z) : q \notin Savers(z)' \/ pc'[q] = "done" => pc[q] = "done"
  BY <1>3 DEF Savers, Writing
<1>5. \A q \in Savers(z)' : q \in current' /\ pc'[q] \in Writing =>
          q \in current /\ pc[q] \in Writing /\ all'[q] = all[q] /\ doubt'[q] = doubt[q]
  BY <1>3 DEF Savers
<1>6. brc'[z] = brc[z] /\ Savers(z)' \subseteq Savers(z)
  BY <1>3
<1>7. QED
  BY <1>1, <1>4, <1>5, <1>6, FreshSame

LEMMA ReplacedFresh ==
    ASSUME BaseInv, FreshInv, NEW p, NEW u, NEW f, Replaces(p, u, f), NEW z \in fresh', z # SessionOf(p)
    PROVE  FreshAt(z)'
<1>1. /\ brc' = brc /\ all' = all /\ cast' = cast /\ serve' = serve /\ doubt' = doubt /\ p \in Procs
      /\ \A q \in Procs : q # p => pc'[q] = pc[q]
  BY DEF Replaces
<1>2. /\ Source(u)' = f /\ \A v \in Users : v # u => Source(v)' = Source(v)
      /\ current' \subseteq current /\ fresh' \subseteq fresh
      /\ UserOf[z] = u => Reads(Source(u).blocks, brc[z].board) = Reads(f.blocks, brc[z].board)
  BY ReplacesIs
<1>3. z \in fresh /\ UserOf[z] \in Users
  BY <1>2, Names DEF BaseInv, Typed, HistoryTyped
<1>4. Reads(Source(UserOf[z])'.blocks, brc[z].board) = Reads(Source(UserOf[z]).blocks, brc[z].board)
  BY <1>2, <1>3
<1>5. \A q \in Procs : SessionOf(q) = z => pc'[q] = pc[q]
  BY <1>1
<1>6. QED
  BY <1>1, <1>2, <1>3, <1>4, <1>5, FreshStays

LEMMA OpenFresh == ASSUME BaseInv, FreshInv, NEW p \in Procs, OpenTmp(p) PROVE FreshInv'
<1>1. /\ cast' = cast /\ serve' = serve /\ brc' = brc /\ all' = all /\ doubt' = doubt
      /\ current' \subseteq current /\ fresh' = fresh /\ file' = file /\ home' = home
      /\ pc[p] = "open" /\ pc' = [pc EXCEPT ![p] = "write"]
  BY DEF OpenTmp, net
<1>2. \A q \in Procs : pc'[q] = pc[q] \/ (pc[q] \in Writing /\ pc'[q] \in Writing)
  BY <1>1 DEF BaseInv, Typed, SavingTyped, Writing
<1>3. \A u : Source(u)' = Source(u)
  BY <1>1, SameSource
<1>4. \A z \in fresh : Reads(Source(UserOf[z])'.blocks, brc[z].board)
                         = Reads(Source(UserOf[z]).blocks, brc[z].board)
  BY <1>3
<1>5. \A z \in fresh' : FreshAt(z)'
  BY <1>1, <1>2, <1>4, FreshStays
<1>6. QED
  BY <1>5 DEF FreshInv

LEMMA WriteFresh ==
    ASSUME BaseInv, KnownInv, FreshInv, NEW p \in Procs, WriteTmp(p) PROVE FreshInv'
<1>1. PICK u : u = Owner(p)
  OBVIOUS
<1>2. /\ WriteSame(p)
      /\ (\E f : WritesTmp(p, u, f)) \/ (\E f : WritesFile(p, u, f)) \/ WritesNothing(p)
  BY <1>1, WriteCases
<1>3. /\ pc[p] = "write" /\ pc' = [pc EXCEPT ![p] = "rename"] /\ pc[p] \in Halfway
      /\ cast' = cast /\ serve' = serve /\ brc' = brc /\ all' = all /\ doubt' = doubt /\ home' = home
  BY <1>2 DEF WriteSame, net, Halfway
<1>4. CASE file' = file /\ current' = current /\ fresh' = fresh
  <2>1. \A q \in Procs : pc'[q] = pc[q] \/ (pc[q] \in Writing /\ pc'[q] \in Writing)
    BY <1>3 DEF BaseInv, Typed, SavingTyped, Writing
  <2>2. \A v : Source(v)' = Source(v)
    BY <1>3, <1>4, SameSource
  <2>3. \A z \in fresh : Reads(Source(UserOf[z])'.blocks, brc[z].board)
                           = Reads(Source(UserOf[z]).blocks, brc[z].board)
    BY <2>2
  <2>4. \A z \in fresh' : FreshAt(z)'
    BY <1>3, <1>4, <2>1, <2>3, FreshStays
  <2>5. QED
    BY <2>4 DEF FreshInv
<1>5. CASE \E f : WritesFile(p, u, f)
  <2>1. PICK f : WritesFile(p, u, f)
    BY <1>5
  <2>2. Replaces(p, u, f)
    BY <1>1, <1>2, <2>1, WritesReplaces
  <2>3. p \notin current
    BY <1>3, <2>1, Astray DEF WritesFile, KnownInv
  <2>4. SessionOf(p) \notin fresh'
    BY <2>2, <2>3, ReplacesIs
  <2>5. \A z \in fresh' : FreshAt(z)'
    BY <2>2, <2>4, ReplacedFresh
  <2>6. QED
    BY <2>5 DEF FreshInv
<1>6. QED
  BY <1>2, <1>4, <1>5 DEF WritesTmp, WritesNothing

LEMMA RenameFresh ==
    ASSUME BaseInv, KnownInv, FreshInv, NEW p \in Procs, Rename(p) PROVE FreshInv'
<1>1. PICK u : u = Owner(p)
  OBVIOUS
<1>2. RenameSame(p) /\ (Renames(p, u) \/ RenamesNothing(p, u))
  BY <1>1, RenameCases
<1>3. /\ pc[p] = "rename" /\ pc' = [pc EXCEPT ![p] = "done"]
      /\ cast' = cast /\ serve' = serve /\ brc' = brc /\ all' = all /\ doubt' = doubt /\ home' = home
  BY <1>2 DEF RenameSame, net
<1>4. "done" \in Steps /\ Active(p) /\ Typed
  BY <1>3, Saver DEF Steps
<1>5. pc'[p] = "done" /\ \A q \in Procs : q # p => pc'[q] = pc[q]
  BY <1>3, <1>4, SaverSteps
<1>6. PICK s : s = SessionOf(p)
  OBVIOUS
<1>7. CASE Renames(p, u)
  <2>1. Replaces(p, u, tmp[u])
    BY <1>1, <1>2, <1>7, RenamesReplaces
  <2>2. ASSUME s \in fresh' PROVE FreshAt(s)'
    <3>1. /\ s \in fresh /\ p \in current /\ tmp[u].blocks = all[p].blocks /\ brc[s].board \notin doubt[p]
          /\ Source(u)' = tmp[u]
      BY <1>6, <2>1, <2>2, ReplacesIs
    <3>2. FreshAt(s) /\ p \in Savers(s)
      BY <1>3, <1>4, <1>6, <3>1 DEF FreshInv, Savers
    <3>3. Agree(all[p].blocks, brc[s])
      BY <1>3, <3>1, <3>2 DEF FreshAt, Writing
    <3>4. UserOf[s] = u
      BY <1>1, <1>6 DEF Owner
    <3>5. Agree(Source(UserOf[s])'.blocks, brc'[s])
      BY <1>3, <3>1, <3>3, <3>4
    <3>6. \A q : SessionOf(q)' = SessionOf(q) /\ (Active(q)' <=> Active(q))
      BY <1>3, SameNet
    <3>7. Savers(s)' \subseteq Savers(s)
      BY <1>3, <1>5, <3>6 DEF Savers
    <3>8. Savers(s)' \subseteq {p}
      BY <3>2, <3>7 DEF FreshAt
    <3>9. QED
      BY <1>3, <1>5, <3>2, <3>5, <3>8 DEF FreshAt, Writing
  <2>3. \A z \in fresh' : z # s => FreshAt(z)'
    BY <1>6, <2>1, ReplacedFresh
  <2>4. QED
    BY <2>2, <2>3 DEF FreshInv
<1>8. CASE RenamesNothing(p, u)
  <2>1. file' = file /\ current' \subseteq current /\ fresh' = fresh \ {s}
    BY <1>6, <1>8 DEF RenamesNothing
  <2>2. \A v : Source(v)' = Source(v)
    BY <1>3, <2>1, SameSource
  <2>3. ASSUME NEW z \in fresh' PROVE FreshAt(z)'
    <3>1. z \in fresh /\ \A q \in Procs : SessionOf(q) = z => pc'[q] = pc[q]
      BY <1>5, <1>6, <2>1, <2>3
    <3>2. Reads(Source(UserOf[z])'.blocks, brc[z].board) = Reads(Source(UserOf[z]).blocks, brc[z].board)
      BY <2>2
    <3>3. QED
      BY <1>3, <2>1, <3>1, <3>2, FreshStays
  <2>4. QED
    BY <2>3 DEF FreshInv
<1>9. QED
  BY <1>2, <1>7, <1>8

LEMMA CronFresh ==
    ASSUME BaseInv, KnownInv, FreshInv, NEW u \in Users, CronCopy(u) \/ CronKeep(u) \/ CronUnlink(u)
    PROVE  FreshInv'
<1>1. /\ cast' = cast /\ serve' = serve /\ brc' = brc /\ all' = all /\ doubt' = doubt /\ pc' = pc
      /\ current' \subseteq current /\ fresh' \subseteq fresh
  BY CronSame
<1>2. ASSUME NEW z \in fresh' PROVE FreshAt(z)'
  <2>1. z \in fresh /\ UserOf[z] \in Users
    BY <1>1, <1>2, Names DEF BaseInv, Typed, HistoryTyped
  <2>2. Source(UserOf[z])' = Source(UserOf[z])
    BY <1>2, <2>1, CronSource, CronSame DEF KnownInv
  <2>3. Reads(Source(UserOf[z])'.blocks, brc[z].board) = Reads(Source(UserOf[z]).blocks, brc[z].board)
    BY <2>2
  <2>4. \A q \in Procs : pc'[q] = pc[q]
    BY <1>1
  <2>5. QED
    BY <1>1, <2>1, <2>3, <2>4, FreshStays
<1>3. QED
  BY <1>2 DEF FreshInv

LEMMA FreshStep == ASSUME BaseInv, KnownInv, FreshInv, [Next]_vars PROVE FreshInv'
<1>1. CASE UNCHANGED vars
  <2>1. /\ cast' = cast /\ serve' = serve /\ brc' = brc /\ all' = all /\ doubt' = doubt /\ pc' = pc
        /\ current' = current /\ fresh' = fresh /\ file' = file /\ home' = home
    BY <1>1 DEF vars, net, saving, disk, history
  <2>2. \A v : Source(v)' = Source(v)
    BY <2>1, SameSource
  <2>3. \A z \in fresh : Reads(Source(UserOf[z])'.blocks, brc[z].board)
                           = Reads(Source(UserOf[z]).blocks, brc[z].board)
    BY <2>2
  <2>4. \A z \in fresh' : FreshAt(z)'
    BY <2>1, <2>3, FreshStays
  <2>5. QED
    BY <2>4 DEF FreshInv
<1>2. CASE Next
  <2>1. \A p : p \in Telnet \/ p \in Web => p \in Procs
    BY DEF Procs
  <2>2. QED
    BY <1>2, <2>1, Kinds, FinishesFresh, SavesFresh, DropsFresh, MarksFresh, OpenFresh, WriteFresh,
       RenameFresh, CronFresh, Zenon
<1>3. QED
  BY <1>1, <1>2

-----------------------------------------------------------------------------
(***************************************************************************)
(* Every part of the invariant together.                                   *)
(***************************************************************************)
LEMMA IInvStep == ASSUME IInv, [Next]_vars PROVE IInv'
<1>1. BaseInv /\ HonestInv /\ KnownInv /\ FreshInv
  BY DEF IInv, KnownInv
<1>2. BaseInv' /\ HonestInv' /\ KnownInv' /\ FreshInv'
  BY <1>1, BaseStep, HonestStep, KnownStep, FreshStep
<1>3. QED
  BY <1>2 DEF IInv, KnownInv

(* What a session shows of its board is what the user's file has, and once *)
(* its own marks are saved the file has them; as long as nobody else has   *)
(* saved the board, pushed it out or raced the session's saves.            *)
THEOREM SessionShowsTheFile == Spec => []SessionRight
<1>1. IInv => SessionRight
  BY SessionFollows DEF IInv
<1>2. QED
  BY <1>1, Starts, IInvStep, PTL DEF Spec

-----------------------------------------------------------------------------
(***************************************************************************)
(* Marks in the file are lost in the known ways only.                      *)
(***************************************************************************)
LEMMA KeptWritten ==
    ASSUME NEW w, Fit(w), NEW f, Fit(f), Begins(w, f), NEW old, NEW doubts, Keeps(w, old, doubts)
    PROVE  Keeps(f, old, doubts)
<1>1. w \in Seq(Block_c) /\ f \in Seq(Block_c)
  BY FitParts
<1>2. ASSUME NEW b, HasBlock(w, b) PROVE HasBlock(f, b) /\ Reads(f, b) = Reads(w, b)
  <2>1. HasBlock(f, b) /\ \A c : First(f, b, c) <=> First(w, b, c)
    BY <1>1, <1>2, FirstInFront
  <2>2. First(w, b, Block(w, b))
    BY <1>1, <1>2, BlockIsFirst
  <2>3. QED
    BY <1>1, <2>1, <2>2, ReadsAre
<1>3. ASSUME NEW b \in Boards \ doubts PROVE Reads(old, b) \subseteq Reads(f, b)
  <2>1. Reads(old, b) \subseteq Reads(w, b)
    BY DEF Keeps
  <2>2. CASE HasBlock(w, b)
    BY <1>2, <2>1, <2>2
  <2>3. CASE ~HasBlock(w, b)
    <3>1. Reads(w, b) = {}
      BY <1>1, <2>3, ReadsAre
    <3>2. QED
      BY <2>1, <3>1
  <2>4. QED
    BY <2>2, <2>3
<1>4. HasBlock(old, Info) => HasBlock(f, Info)
  BY <1>2 DEF Keeps
<1>5. QED
  BY <1>3, <1>4 DEF Keeps

(* What a step that changes the files does to those of one user.           *)
KeptFor(u) ==
    /\ \A b \in Boards : Reads(Source(u).blocks, b) \subseteq Reads(Source(u)'.blocks, b)
                             \/ Excused(u, b)
    /\ HasBlock(Source(u).blocks, Info) => HasBlock(Source(u)'.blocks, Info) \/ Excused(u, NoBoard)

LEMMA KeptSame == ASSUME NEW u, Source(u)' = Source(u) PROVE KeptFor(u)
BY DEF KeptFor

LEMMA KeptExcused == ASSUME NEW u, \A b : Excused(u, b) PROVE KeptFor(u)
BY DEF KeptFor

LEMMA SaverExcused ==
    ASSUME NEW p, NEW u, NEW f, Replaces(p, u, f), NEW b, b \in doubt[p] \/ p \notin current
    PROVE  Excused(u, b)
BY DEF Replaces, Excused

LEMMA WriteKeeps ==
    ASSUME BaseInv, KnownInv, NEW p \in Procs, WriteTmp(p), <<file, home>>' # <<file, home>>,
           NEW v \in Users
    PROVE  KeptFor(v)
<1>1. PICK u : u = Owner(p)
  OBVIOUS
<1>2. /\ WriteSame(p)
      /\ (\E f : WritesTmp(p, u, f)) \/ (\E f : WritesFile(p, u, f)) \/ WritesNothing(p)
  BY <1>1, WriteCases
<1>3. PICK f : WritesFile(p, u, f)
  BY <1>2 DEF WriteSame, WritesTmp, WritesNothing
<1>4. Replaces(p, u, f) /\ pc[p] \in Halfway
  BY <1>1, <1>2, <1>3, WritesReplaces DEF WriteSame, Halfway
<1>5. p \notin current
  BY <1>3, <1>4, Astray DEF WritesFile, KnownInv
<1>6. v # u => Source(v)' = Source(v)
  BY <1>4, ReplacesIs
<1>7. \A b : Excused(u, b)
  BY <1>4, <1>5, SaverExcused
<1>8. QED
  BY <1>6, <1>7, KeptSame, KeptExcused

LEMMA RenameKeeps ==
    ASSUME BaseInv, KnownInv, NEW p \in Procs, Rename(p), <<file, home>>' # <<file, home>>,
           NEW v \in Users
    PROVE  KeptFor(v)
<1>1. PICK u : u = Owner(p)
  OBVIOUS
<1>2. RenameSame(p) /\ (Renames(p, u) \/ RenamesNothing(p, u))
  BY <1>1, RenameCases
<1>3. Renames(p, u)
  BY <1>2 DEF RenameSame, RenamesNothing
<1>4. Replaces(p, u, tmp[u]) /\ pc[p] = "rename"
  BY <1>1, <1>2, <1>3, RenamesReplaces DEF RenameSame
<1>5. Source(u)' = tmp[u] /\ (v # u => Source(v)' = Source(v))
  BY <1>4, ReplacesIs
<1>6. CASE p \notin current
  <2>1. \A b : Excused(u, b)
    BY <1>4, <1>6, SaverExcused
  <2>2. QED
    BY <1>5, <2>1, KeptSame, KeptExcused
<1>7. CASE p \in current
  <2>1. Typed /\ u \in Users /\ Active(p) /\ Fit(all[p].blocks) /\ Fit(tmp[u].blocks)
    BY <1>1, <1>4, Saver, TypedParts
  <2>2. CurrentAt(p)
    BY <1>7, <2>1 DEF KnownInv, CurrentInv
  <2>3. Keeps(all[p].blocks, Source(u).blocks, doubt[p]) /\ Begins(all[p].blocks, tmp[u].blocks)
    BY <1>1, <1>4, <2>2 DEF CurrentAt, Writing
  <2>4. Keeps(tmp[u].blocks, Source(u).blocks, doubt[p])
    BY <2>1, <2>3, KeptWritten
  <2>5. \A b \in doubt[p] : Excused(u, b)
    BY <1>4, SaverExcused
  <2>6. KeptFor(u)
    BY <1>5, <2>4, <2>5 DEF Keeps, KeptFor
  <2>7. QED
    BY <1>5, <2>6, KeptSame
<1>8. QED
  BY <1>6, <1>7

LEMMA CronKeeps ==
    ASSUME BaseInv, KnownInv, NEW u \in Users, CronCopy(u) \/ CronKeep(u) \/ CronUnlink(u),
           NEW v \in Users
    PROVE  KeptFor(v)
<1>1. /\ v # u => Source(v)' = Source(v)
      /\ Source(u)' = Source(u) \/ cron[u] = "changed"
  BY CronSource DEF KnownInv
<1>2. cron[u] = "changed" => \A b : Excused(u, b)
  BY DEF Excused
<1>3. QED
  BY <1>1, <1>2, KeptSame, KeptExcused

(* A mark in the file is never lost, however the saves of sessions and the *)
(* job that moves files between the disks meet, except in one of the known *)
(* ways; nor do the boards crowd out the #INFO block.                      *)
THEOREM MarksAreKept == Spec => MarksKept
<1>1. ASSUME IInv, [Next]_vars, <<file, home>>' # <<file, home>>, NEW v \in Users PROVE KeptFor(v)
  <2>1. BaseInv /\ KnownInv
    BY <1>1 DEF IInv, KnownInv
  <2>2. ~UNCHANGED disk /\ \A p \in Procs : ~OpenTmp(p)
    BY <1>1 DEF disk, OpenTmp
  <2>3. QED
    BY <1>1, <2>1, <2>2, DiskMoves, WriteKeeps, RenameKeeps, CronKeeps
<1>2. IInv /\ [Next]_vars =>
          [<<file, home>>' # <<file, home>> => \A u \in Users :
              /\ \A b \in Boards : Reads(Source(u).blocks, b) \subseteq Reads(Source(u)'.blocks, b)
                                       \/ Excused(u, b)
              /\ HasBlock(Source(u).blocks, Info) => HasBlock(Source(u)'.blocks, Info)
                                                         \/ Excused(u, NoBoard)]_vars
  BY <1>1 DEF KeptFor
<1>3. QED
  BY <1>2, Starts, IInvStep, PTL DEF Spec, MarksKept
=============================================================================
