---------------------------- MODULE MsgProofs ----------------------------
(***************************************************************************)
(* Proofs about messages between users.                                    *)
(*                                                                         *)
(* MsgFiles, for any number of processes, messages and clearings: the      *)
(* inductive invariant behind its three invariants, in named parts, one    *)
(* lemma for what each step does, and one for each part and step.          *)
(*                                                                         *)
(* MsgSession, the session of one user, for any number of messages: none   *)
(* is forgotten in another way than the four listed, and blocking ends.    *)
(***************************************************************************)
EXTENDS MsgFiles, MsgSession, FiniteSetTheorems, TLAPS

-----------------------------------------------------------------------------
Saves == {"open_content", "head", "text", "open2", "head2"}
Steps == Saves \cup {"idle", "take", "advance", "load", "load_text", "shown",
                     "mail_copy", "mail_send", "unlink", "unlink2", "unlink_content"}
Held == [msg : 0..MaxMsgs, pos : Nat]
Locals == [job : AllJobs \cup {"none"}, msg : 0..MaxMsgs, ino : Nat, cino : Nat, pos : Nat,
           at : Int, head : Held, text : 0..MaxMsgs, copy : SUBSET Msgs, lone : BOOLEAN]

Typed ==
    /\ cur \in [Names -> Nat] /\ made \in [Names -> Nat]
    /\ index \in [Inodes -> Seq(Header)]
    /\ index2 \in [Inodes -> [counter : Int, heads : Seq(Header)]]
    /\ content \in [Inodes -> Seq(Msgs)]
    /\ pc \in [Procs -> Steps] /\ loc \in [Procs -> Locals]
    /\ sent \in 0..MaxMsgs /\ clears \in 0..MaxClears
    /\ given \in [Msgs -> Nat] /\ raced \in BOOLEAN
    /\ hurt \subseteq Msgs /\ late \subseteq Msgs

(* Those who are still going to unlink a name; none makes a file twice.    *)
Pend(n) == {p \in Procs : pc[p] \in {"unlink"}
                \cup (IF n # "index" THEN {"unlink2"} ELSE {})
                \cup (IF n = "content" THEN {"unlink_content"} ELSE {})}
RoomInv == \A n \in Names :
    /\ cur[n] <= made[n]
    /\ IsFiniteSet(Pend(n))
    /\ made[n] + Cardinality(Pend(n)) <= clears + (IF cur[n] = 0 THEN 0 ELSE 1)

(* What was not made yet is empty, and what a save has open was made.      *)
FileInv ==
    /\ \A i \in Inodes : /\ i > made["index"] => index[i] = <<>>
                         /\ i > made["index2"] => index2[i] = NewIndex2
                         /\ i > made["content"] => content[i] = <<>>
    /\ \A p \in Procs :
         /\ pc[p] \in {"open_content", "head", "text"} => loc[p].ino \in 1..made["index"]
         /\ pc[p] \in {"head", "text"} => loc[p].cino \in 1..made["content"]
         /\ pc[p] \in {"head2", "advance"} => loc[p].ino \in 1..made["index2"]

LockInv == \A p, q \in Procs :
    pc[p] = "text" /\ pc[q] = "text" /\ loc[p].ino = loc[q].ino => p = q

CountInv ==
    /\ \A i \in Inodes : index2[i].counter \in -1..Len(index2[i].heads)
    /\ \A p \in Procs : pc[p] = "advance" =>
          loc[p].at \in 0..Len(index2[loc[p].ino].heads) - 1

(* A message is saved by one process, which enters it once.                *)
SaveInv ==
    /\ \A p \in Saving : loc[p].msg \in 1..sent
    /\ \A p, q \in Saving : loc[p].msg = loc[q].msg => p = q
    /\ \A m \in Msgs : given[m] > 0 => m <= sent /\ \A p \in Saving : loc[p].msg # m
HeadInv == \A i \in Inodes : \A k \in 1..Len(index[i]) :
    /\ index[i][k].msg <= sent
    /\ \A p \in Saving : loc[p].msg = index[i][k].msg =>
          pc[p] \in {"text", "open2", "head2"} /\ loc[p].pos = index[i][k].pos
Head2Inv == \A i \in Inodes : \A k \in 1..Len(index2[i].heads) :
    /\ index2[i].heads[k].msg <= sent
    /\ \A p \in Saving : loc[p].msg # index2[i].heads[k].msg
    /\ \A j \in Inodes : \A l \in 1..Len(index2[j].heads) :
          index2[i].heads[k].msg = index2[j].heads[l].msg => i = j /\ k = l

(* The counter and what it counts.                                         *)
SkipInv ==
    /\ \A i \in Inodes : \A k \in 1..Len(index2[i].heads) :
          k <= index2[i].counter => given[index2[i].heads[k].msg] > 0
    /\ \A p \in Procs : pc[p] = "advance" =>
          \A k \in 1..Len(index2[loc[p].ino].heads) :
             k <= loc[p].at + 1 => given[index2[loc[p].ino].heads[k].msg] > 0
OnceInv == ~raced =>
    /\ \A p, q \in Procs : pc[p] = "advance" /\ pc[q] = "advance" /\ loc[p].ino = loc[q].ino
                              => p = q
    /\ \A p \in Procs : pc[p] = "advance" => loc[p].at = index2[loc[p].ino].counter
    /\ \A i \in Inodes : \A k \in 1..Len(index2[i].heads) :
          k > index2[i].counter + 1 \/ (k = index2[i].counter + 1 /\ Advancing(i) = {})
             => given[index2[i].heads[k].msg] = 0
    /\ \A m \in Msgs : given[m] <= 1

(* A save that has met no clear_msg is the work of one epoch.              *)
EpochInv ==
    /\ \A p \in Saving : loc[p].msg \notin hurt =>
         /\ Clearing = {} /\ Adrift = {}
         /\ pc[p] \in {"head", "text"} => loc[p].cino = cur["content"]
         /\ pc[p] = "head2" => loc[p].ino = cur["index2"]
    /\ Clearing # {} => \A k \in 1..Len(Heads) : Heads[k].msg \in hurt
    /\ (\E p \in Procs : pc[p] = "unlink_content") =>
          \A k \in 1..Len(Heads2) : Heads2[k].msg \in hurt

(* The text of a message is at its place, and nobody writes there.         *)
Good(m, pos) ==
    /\ TextAt(pos) = m
    /\ \A q \in Procs : pc[q] = "text" /\ loc[q].cino = cur["content"] => loc[q].pos > pos
TextInv ==
    /\ \A p \in Saving : loc[p].msg \notin hurt =>
         /\ pc[p] = "text" => loc[p].pos = Len(content[loc[p].cino])
         /\ pc[p] \in {"open2", "head2"} => Good(loc[p].msg, loc[p].pos)
    /\ \A k \in 1..Len(Heads2) : Heads2[k].msg \notin hurt => Good(Heads2[k].msg, Heads2[k].pos)
    /\ \A k \in 1..Len(Heads) :
         Heads[k].msg \notin hurt /\ (\A p \in Saving : loc[p].msg # Heads[k].msg)
            => Good(Heads[k].msg, Heads[k].pos)

(* What a session that nobody disturbs has in its hands.                   *)
ShowPart(p) ==
    /\ pc[p] = "take" => loc[p].job \in {"r_msg", "web"}
    /\ loc[p].lone =>
       /\ pc[p] = "take" /\ loc[p].job = "r_msg" => get_unreadcount > 0
       /\ pc[p] = "advance" => loc[p].ino = cur["index2"]
       /\ pc[p] \in {"advance", "load"} => loc[p].at \in 0..Len(Heads2) - 1
       /\ pc[p] = "load_text" => \E k \in 1..Len(Heads2) : loc[p].head = Heads2[k]
       /\ pc[p] = "shown" /\ loc[p].head.msg \notin hurt =>
             loc[p].head.msg # 0 /\ loc[p].text = loc[p].head.msg
ShowInv == \A p \in Procs : ShowPart(p)

(* Where a message is that was saved and met neither clear_msg nor mail.   *)
Safe == (1..sent) \ (hurt \cup late \cup {loc[p].msg : p \in Saving})
MailPart(p) ==
    /\ pc[p] \in {"mail_copy", "mail_send", "unlink"} => loc[p].job = "mail"
    /\ pc[p] \in {"mail_copy", "mail_send", "unlink"} =>
          \A q \in Saving : loc[q].msg \in late
    /\ pc[p] = "mail_copy" => loc[p].at \in Nat
MailInv == \A p \in Procs : MailPart(p)
InIndex(m, n) == \E k \in 1..Len(Heads) : k <= n /\ Heads[k].msg = m
Kept(m) == m \in mailed \/ m \in wiped
KeepPart(p) == \A m \in Safe :
    /\ pc[p] = "mail_copy" => InIndex(m, loc[p].at) \/ Kept(m)
    /\ pc[p] = "mail_send" => m \in loc[p].copy \/ Kept(m)
    /\ pc[p] = "unlink" => Kept(m)
KeepInv ==
    /\ \A p \in Saving : loc[p].msg \notin hurt /\ pc[p] \in {"text", "open2", "head2"}
                            => InIndex(loc[p].msg, Len(Heads))
    /\ \A m \in Safe : InIndex(m, Len(Heads)) \/ Kept(m)
    /\ \A p \in Procs : KeepPart(p)

IInv == Typed /\ RoomInv /\ FileInv /\ LockInv /\ CountInv /\ SaveInv /\ HeadInv /\ Head2Inv
            /\ SkipInv /\ OnceInv /\ EpochInv /\ TextInv /\ ShowInv /\ MailInv /\ KeepInv

-----------------------------------------------------------------------------
(***************************************************************************)
(* What the steps do.                                                      *)
(***************************************************************************)
USE MsgFilesAssumption

(* The other processes stay where they are, with all they have. *)
Others(p) == \A q \in Procs \ {p} :
    /\ pc'[q] = pc[q] /\ loc'[q].job = loc[q].job /\ loc'[q].msg = loc[q].msg
    /\ loc'[q].ino = loc[q].ino /\ loc'[q].cino = loc[q].cino /\ loc'[q].pos = loc[q].pos
    /\ loc'[q].at = loc[q].at /\ loc'[q].head = loc[q].head /\ loc'[q].text = loc[q].text
    /\ loc'[q].copy = loc[q].copy /\ (loc'[q].lone => loc[q].lone)

LocTypes == pc \in [Procs -> Steps] /\ loc \in [Procs -> Locals]
FileTypes == /\ cur \in [Names -> Nat] /\ made \in [Names -> Nat]
             /\ index \in [Inodes -> Seq(Header)]
             /\ index2 \in [Inodes -> [counter : Int, heads : Seq(Header)]]
             /\ content \in [Inodes -> Seq(Msgs)]
MarkTypes == /\ sent \in 0..MaxMsgs /\ clears \in 0..MaxClears
             /\ given \in [Msgs -> Nat]
             /\ hurt \subseteq Msgs /\ late \subseteq Msgs
RaceTypes == raced \in BOOLEAN

LEMMA TypedParts == Typed <=> LocTypes /\ FileTypes /\ MarkTypes /\ RaceTypes
  BY DEF Typed, LocTypes, FileTypes, MarkTypes, RaceTypes
LEMMA TypedPartsNext == Typed' <=> LocTypes' /\ FileTypes' /\ MarkTypes' /\ RaceTypes'
  BY DEF Typed, LocTypes, FileTypes, MarkTypes, RaceTypes

LEMMA NoLocalsType == NoLocals \in Locals
  BY DEF NoLocals, Locals, Held, Garbage, Blank

LEMMA Moved ==
    ASSUME LocTypes, NEW p \in Procs, NEW w \in Steps, NEW l \in Locals,
           pc' = [pc EXCEPT ![p] = w], loc' = [loc EXCEPT ![p] = l]
    PROVE  LocTypes' /\ Others(p) /\ pc'[p] = w /\ loc'[p] = l
  BY DEF LocTypes, Others

LEMMA Returned ==
    ASSUME LocTypes, NEW p \in Procs, Return(p)
    PROVE  LocTypes' /\ Others(p) /\ pc'[p] = "idle" /\ loc'[p] = NoLocals
  BY Moved, NoLocalsType DEF Return, Goto, Steps

(* Some of the others are not alone any more. *)
LEMMA Disturbed ==
    ASSUME LocTypes, NEW p \in Procs, NEW w \in Steps, NEW l \in Locals,
           pc' = [pc EXCEPT ![p] = w], loc' = [q \in Procs |-> loc'[q]], loc'[p] = l,
           \A q \in Procs \ {p} :
              loc'[q] = loc[q] \/ loc'[q] = [loc[q] EXCEPT !.lone = FALSE]
    PROVE  /\ LocTypes' /\ Others(p) /\ pc'[p] = w
           /\ \A q \in Procs \ {p} : loc'[q] = [loc[q] EXCEPT !.lone = FALSE] => ~loc'[q].lone
<1>1. ASSUME NEW q \in Procs \ {p}
      PROVE  /\ loc'[q] \in Locals /\ loc'[q].job = loc[q].job /\ loc'[q].msg = loc[q].msg
             /\ loc'[q].ino = loc[q].ino /\ loc'[q].cino = loc[q].cino /\ loc'[q].pos = loc[q].pos
             /\ loc'[q].at = loc[q].at /\ loc'[q].head = loc[q].head /\ loc'[q].text = loc[q].text
             /\ loc'[q].copy = loc[q].copy /\ (loc'[q].lone => loc[q].lone)
             /\ (loc'[q] = [loc[q] EXCEPT !.lone = FALSE] => ~loc'[q].lone)
  <2>1. loc[q] \in Locals
    BY DEF LocTypes
  <2> DEFINE r == [loc[q] EXCEPT !.lone = FALSE]
  <2>2. /\ r \in Locals /\ r.job = loc[q].job /\ r.msg = loc[q].msg /\ r.ino = loc[q].ino
        /\ r.cino = loc[q].cino /\ r.pos = loc[q].pos /\ r.at = loc[q].at
        /\ r.head = loc[q].head /\ r.text = loc[q].text /\ r.copy = loc[q].copy /\ ~r.lone
    BY <2>1 DEF Locals
  <2>3. loc'[q] = loc[q] \/ loc'[q] = r
    OBVIOUS
  <2> HIDE DEF r
  <2>4. (loc'[q] = r => ~loc'[q].lone) /\ (loc'[q].lone => loc[q].lone)
    BY <2>2, <2>3
  <2>5. QED
    BY <2>1, <2>2, <2>3, <2>4 DEF r
<1>2. /\ pc'[p] = w /\ pc' \in [Procs -> Steps]
      /\ \A q \in Procs \ {p} : pc'[q] = pc[q]
  BY DEF LocTypes
<1>3. loc' \in [Procs -> Locals]
  <2>1. \A q \in Procs : loc'[q] \in Locals
    BY <1>1
  <2>2. QED
    BY <2>1
<1>4. QED
  BY <1>1, <1>2, <1>3 DEF LocTypes, Others

LEMMA Own ==
    ASSUME Typed, NEW p \in Procs
    PROVE  /\ loc[p] \in Locals /\ pc[p] \in Steps
           /\ loc[p].msg \in 0..MaxMsgs /\ loc[p].ino \in Nat /\ loc[p].cino \in Nat
           /\ loc[p].pos \in Nat /\ loc[p].at \in Int /\ loc[p].text \in 0..MaxMsgs
           /\ loc[p].head \in Held /\ loc[p].copy \subseteq Msgs
  BY DEF Typed, Locals

(* What stands under a name. *)
LEMMA Views ==
    ASSUME Typed, RoomInv
    PROVE  /\ \A n \in Names : cur[n] \in 0..MaxClears + 1 /\ made[n] \in 0..MaxClears + 1
           /\ \A n \in Names : Opened(n) \in 1..MaxClears + 1
           /\ Heads \in Seq(Header) /\ Heads2 \in Seq(Header) /\ Index2.counter \in Int
           /\ Index2 \in [counter : Int, heads : Seq(Header)]
<1>1. ASSUME NEW n \in Names
      PROVE  /\ cur[n] \in 0..MaxClears + 1 /\ made[n] \in 0..MaxClears + 1
             /\ Opened(n) \in 1..MaxClears + 1
  <2>1. IsFiniteSet(Pend(n)) /\ cur[n] <= made[n]
        /\ made[n] + Cardinality(Pend(n)) <= clears + (IF cur[n] = 0 THEN 0 ELSE 1)
    BY DEF RoomInv
  <2>2. Cardinality(Pend(n)) \in Nat
    BY <2>1, FS_CardinalityType
  <2>3. QED
    BY <2>1, <2>2 DEF Typed, Opened
<1>2. Heads \in Seq(Header)
  <2>1. cur["index"] \in 0..MaxClears + 1
    BY <1>1 DEF Names
  <2>2. CASE cur["index"] = 0
    <3>1. Heads = <<>>
      BY <2>2 DEF Heads
    <3>2. QED
      BY <3>1
  <2>3. CASE cur["index"] # 0
    <3>1. Heads = index[cur["index"]] /\ cur["index"] \in Inodes
      BY <2>1, <2>3 DEF Heads, Inodes
    <3>2. QED
      BY <3>1 DEF Typed
  <2>4. QED
    BY <2>2, <2>3
<1>3. Index2 \in [counter : Int, heads : Seq(Header)]
  <2>1. NewIndex2 \in [counter : Int, heads : Seq(Header)]
    BY DEF NewIndex2
  <2>2. cur["index2"] \in 0..MaxClears + 1
    BY <1>1 DEF Names
  <2>3. CASE cur["index2"] = 0
    BY <2>1, <2>3 DEF Index2
  <2>4. CASE cur["index2"] # 0
    <3>1. Index2 = index2[cur["index2"]] /\ cur["index2"] \in Inodes
      BY <2>2, <2>4 DEF Index2, Inodes
    <3>2. QED
      BY <3>1 DEF Typed
  <2>5. QED
    BY <2>3, <2>4
<1>4. Heads2 \in Seq(Header) /\ Index2.counter \in Int
  BY <1>3 DEF Heads2
<1>5. QED
  BY <1>1, <1>2, <1>3, <1>4

(* open makes a new, empty file at most: what there is to be read stays. *)
LEMMA OpenFacts ==
    ASSUME Typed, RoomInv, FileInv, NEW n \in Names, Open(n), UNCHANGED <<index, index2, content>>
    PROVE  /\ FileTypes' /\ cur'[n] = Opened(n) /\ Opened(n) \in 1..made'[n]
           /\ made'[n] \in 1..MaxClears + 1
           /\ cur[n] # 0 => cur' = cur /\ made' = made
           /\ cur[n] = 0 => made'[n] = made[n] + 1
           /\ \A k \in Names \ {n} : cur'[k] = cur[k] /\ made'[k] = made[k]
           /\ \A k \in Names : made[k] <= made'[k] /\ (cur[k] # 0 => cur'[k] = cur[k])
           /\ Heads' = Heads /\ Index2' = Index2 /\ Heads2' = Heads2
           /\ \A pos \in Nat : TextAt(pos)' = TextAt(pos)
<1>1. /\ cur \in [Names -> Nat] /\ made \in [Names -> Nat]
      /\ cur[n] <= made[n] /\ Opened(n) \in 1..MaxClears + 1
  BY Views DEF Typed, RoomInv
<1>2. /\ cur' = [cur EXCEPT ![n] = Opened(n)]
      /\ made' = [made EXCEPT ![n] = IF cur[n] = 0 THEN @ + 1 ELSE @]
  BY DEF Open
<1>3. CASE cur[n] # 0
  <2>1. cur' = cur /\ made' = made /\ Opened(n) = cur[n]
    BY <1>1, <1>2, <1>3 DEF Opened
  <2>2. UNCHANGED <<Heads, Index2>> /\ \A pos \in Nat : TextAt(pos)' = TextAt(pos)
    BY <2>1 DEF Heads, Index2, TextAt
  <2>3. made[n] <= MaxClears + 1
    BY Views
  <2>4. QED
    BY <1>1, <1>3, <2>1, <2>2, <2>3 DEF Typed, FileTypes, Heads2
<1>4. CASE cur[n] = 0
  <2>1. Opened(n) = made[n] + 1 /\ cur'[n] = made[n] + 1 /\ made'[n] = made[n] + 1
    BY <1>1, <1>2, <1>4 DEF Opened
  <2>2. \A k \in Names \ {n} : cur'[k] = cur[k] /\ made'[k] = made[k]
    BY <1>1, <1>2
  <2>3. made[n] + 1 \in Inodes
    BY <1>1, <2>1 DEF Inodes
  <2>4. Heads' = Heads
    <3>1. CASE n = "index"
      <4>1. Heads = <<>>
        BY <1>4, <3>1 DEF Heads
      <4>2. index[made[n] + 1] = <<>>
        BY <2>3, <3>1, <1>1 DEF FileInv
      <4>3. cur'["index"] = made[n] + 1 /\ made[n] + 1 # 0
        BY <2>1, <3>1, <1>1
      <4>4. Heads' = index[made[n] + 1]
        BY <4>3 DEF Heads
      <4>5. QED
        BY <4>1, <4>2, <4>4
    <3>2. CASE n # "index"
      <4>1. cur'["index"] = cur["index"]
        BY <2>2, <3>2 DEF Names
      <4>2. QED
        BY <4>1 DEF Heads
    <3>3. QED
      BY <3>1, <3>2
  <2>5. Index2' = Index2
    <3>1. CASE n = "index2"
      <4>1. Index2 = NewIndex2
        BY <1>4, <3>1 DEF Index2
      <4>2. index2[made[n] + 1] = NewIndex2
        BY <2>3, <3>1, <1>1 DEF FileInv
      <4>3. cur'["index2"] = made[n] + 1 /\ made[n] + 1 # 0
        BY <2>1, <3>1, <1>1
      <4>4. Index2' = index2[made[n] + 1]
        BY <4>3 DEF Index2
      <4>5. QED
        BY <4>1, <4>2, <4>4
    <3>2. CASE n # "index2"
      <4>1. cur'["index2"] = cur["index2"]
        BY <2>2, <3>2 DEF Names
      <4>2. QED
        BY <4>1 DEF Index2
    <3>3. QED
      BY <3>1, <3>2
  <2>6. ASSUME NEW pos \in Nat PROVE TextAt(pos)' = TextAt(pos)
    <3>1. CASE n = "content"
      <4>1. content[made[n] + 1] = <<>>
        BY <2>3, <3>1, <1>1 DEF FileInv, Names
      <4>2. Len(content'[cur'["content"]]) = 0
        BY <2>1, <3>1, <4>1
      <4>3. QED
        BY <1>4, <3>1, <4>2 DEF TextAt
    <3>2. CASE n # "content"
      <4>1. cur'["content"] = cur["content"]
        BY <2>2, <3>2 DEF Names
      <4>2. QED
        BY <4>1 DEF TextAt
    <3>3. QED
      BY <3>1, <3>2
  <2>7. cur' \in [Names -> Nat] /\ made' \in [Names -> Nat]
    BY <1>1, <1>2
  <2>8. QED
    BY <1>1, <1>4, <2>1, <2>2, <2>4, <2>5, <2>6, <2>7 DEF Typed, FileTypes, Heads2
<1>5. QED
  BY <1>3, <1>4

(* A sequence of headers gets one more. *)
Grown(s, t, m, pos) ==
    /\ Len(t) = Len(s) + 1 /\ \A k \in 1..Len(s) : t[k] = s[k]
    /\ t[Len(s) + 1].msg = m /\ t[Len(s) + 1].pos = pos

LEMMA AppendFacts ==
    ASSUME NEW s \in Seq(Header), NEW m \in Msgs, NEW pos \in Nat
    PROVE  /\ Append(s, [msg |-> m, pos |-> pos]) \in Seq(Header)
           /\ Grown(s, Append(s, [msg |-> m, pos |-> pos]), m, pos)
<1> DEFINE h == [msg |-> m, pos |-> pos]
<1>1. h \in Header /\ h.msg = m /\ h.pos = pos
  BY DEF Header
<1> HIDE DEF h
<1>2. Append(s, h) \in Seq(Header) /\ Grown(s, Append(s, h), m, pos)
  BY <1>1 DEF Grown
<1>3. QED
  BY <1>2 DEF h

LEMMA WrittenFacts ==
    ASSUME NEW c \in Seq(Msgs), NEW m \in Msgs, NEW pos \in Nat
    PROVE  /\ Written(c, pos, m) \in Seq(Msgs) /\ Len(Written(c, pos, m)) >= Len(c)
           /\ \A k \in 1..Len(c) : k # pos + 1 => Written(c, pos, m)[k] = c[k]
           /\ pos = Len(c) => Len(Written(c, pos, m)) = Len(c) + 1 /\ Written(c, pos, m)[pos + 1] = m
  BY DEF Written

LEMMA SendStartFacts ==
    ASSUME Typed, RoomInv, FileInv, NEW p \in Procs, SendStart(p)
    PROVE  /\ Typed' /\ Others(p) /\ pc[p] = "idle" /\ pc'[p] = "open_content"
           /\ loc'[p].msg = sent + 1 /\ loc'[p].ino = Opened("index")
           /\ sent' = sent + 1 /\ Open("index")
           /\ hurt' = IF Clearing # {} \/ Adrift # {} THEN hurt \cup {sent + 1} ELSE hurt
           /\ late' = IF Mailing # {} THEN late \cup {sent + 1} ELSE late
           /\ UNCHANGED <<index, index2, content, clears, given, raced, mailed, wiped>>
<1>1. PICK job \in {"send", "wall", "copy"} :
          Goto(p, "open_content", [NoLocals EXCEPT !.job = job, !.msg = sent + 1,
                                                   !.ino = Opened("index")])
  BY DEF SendStart
<1> DEFINE l == [NoLocals EXCEPT !.job = job, !.msg = sent + 1, !.ino = Opened("index")]
<1>2. /\ pc[p] = "idle" /\ sent < MaxMsgs /\ sent' = sent + 1 /\ Open("index")
      /\ hurt' = IF Clearing # {} \/ Adrift # {} THEN hurt \cup {sent + 1} ELSE hurt
      /\ late' = IF Mailing # {} THEN late \cup {sent + 1} ELSE late
      /\ UNCHANGED <<index, index2, content, clears, given, raced, mailed, wiped>>
  BY DEF SendStart, Does
<1>3. sent + 1 \in Msgs /\ Opened("index") \in Nat
  BY <1>2, Views, SMTT(30) DEF Typed, Msgs, Names
<1>4. l \in Locals /\ l.msg = sent + 1 /\ l.ino = Opened("index")
  <2>1. job \in AllJobs /\ sent + 1 \in 0..MaxMsgs
    BY <1>3 DEF AllJobs, Msgs
  <2>2. l \in Locals
    BY <1>3, <2>1, NoLocalsType DEF Locals
  <2>3. l.msg = sent + 1 /\ l.ino = Opened("index")
    BY DEF NoLocals
  <2>4. QED
    BY <2>2, <2>3
<1> HIDE DEF l
<1>5. LocTypes' /\ Others(p) /\ pc'[p] = "open_content" /\ loc'[p] = l
  BY <1>1, <1>4, Moved, TypedParts DEF Goto, l, Steps, Saves
<1>6. FileTypes'
  BY <1>2, OpenFacts DEF Names
<1>7. MarkTypes'
  BY <1>2, <1>3, TypedParts DEF MarkTypes, Msgs
<1>8. RaceTypes'
  BY <1>2, TypedParts DEF RaceTypes
<1>9. QED
  BY <1>2, <1>4, <1>5, <1>6, <1>7, <1>8, TypedPartsNext

LEMMA OpenContentFacts ==
    ASSUME Typed, RoomInv, FileInv, NEW p \in Procs, OpenContent(p)
    PROVE  /\ Typed' /\ Others(p) /\ pc[p] = "open_content" /\ pc'[p] = "head"
           /\ loc'[p].msg = loc[p].msg /\ loc'[p].ino = loc[p].ino
           /\ loc'[p].cino = Opened("content") /\ Open("content")
           /\ UNCHANGED <<index, index2, content, sent, clears,
                          given, hurt, late, raced, mailed, wiped>>
<1> DEFINE l == [loc[p] EXCEPT !.cino = Opened("content")]
<1>1. /\ pc[p] = "open_content" /\ Open("content") /\ Goto(p, "head", l)
      /\ UNCHANGED <<index, index2, content, sent, clears,
                     given, hurt, late, raced, mailed, wiped>>
  BY DEF OpenContent, marks
<1>2. Opened("content") \in Nat
  BY Views DEF Names
<1>3. /\ l \in Locals /\ l.msg = loc[p].msg /\ l.ino = loc[p].ino
      /\ l.cino = Opened("content")
  BY <1>2, Own DEF Locals
<1>4. LocTypes' /\ Others(p) /\ pc'[p] = "head" /\ loc'[p] = l
  BY <1>1, <1>3, Moved, TypedParts DEF Goto, Steps, Saves
<1> HIDE DEF l
<1>5. FileTypes'
  BY <1>1, OpenFacts DEF Names
<1>6. MarkTypes' /\ RaceTypes'
  BY <1>1, TypedParts DEF MarkTypes, RaceTypes
<1>7. QED
  BY <1>1, <1>3, <1>4, <1>5, <1>6, TypedPartsNext

LEMMA WriteHeadFacts ==
    ASSUME Typed, RoomInv, FileInv, SaveInv, NEW p \in Procs, WriteHead(p)
    PROVE  /\ Typed' /\ Others(p) /\ pc[p] = "head" /\ pc'[p] = "text"
           /\ loc'[p].msg = loc[p].msg /\ loc'[p].ino = loc[p].ino /\ loc'[p].cino = loc[p].cino
           /\ loc'[p].pos = Len(content[loc[p].cino]) /\ loc'[p].pos \in Nat
           /\ \A q \in Procs : pc[q] = "text" => loc[q].ino # loc[p].ino
           /\ \A i \in Inodes \ {loc[p].ino} : index'[i] = index[i]
           /\ Grown(index[loc[p].ino], index'[loc[p].ino], loc[p].msg, loc'[p].pos)
           /\ loc[p].ino = cur["index"] => Grown(Heads, Heads', loc[p].msg, loc'[p].pos)
           /\ loc[p].ino # cur["index"] => Heads' = Heads
           /\ Index2' = Index2 /\ Heads2' = Heads2 /\ \A pos \in Nat : TextAt(pos)' = TextAt(pos)
           /\ UNCHANGED <<cur, made, index2, content, sent, clears,
                          given, hurt, late, raced, mailed, wiped>>
<1> DEFINE n == Len(content[loc[p].cino])
           l == [loc[p] EXCEPT !.pos = n]
           i == loc[p].ino
           m == loc[p].msg
<1>1. /\ pc[p] = "head" /\ Goto(p, "text", l)
      /\ index' = [index EXCEPT ![i] = Append(@, [msg |-> m, pos |-> n])]
      /\ UNCHANGED <<cur, made, index2, content, sent, clears,
                     given, hurt, late, raced, mailed, wiped>>
      /\ \A q \in Procs : pc[q] = "text" => loc[q].ino # loc[p].ino
  BY DEF WriteHead, marks, HeadOf, IndexLocked
<1>2. i \in Inodes /\ i # 0 /\ loc[p].cino \in Inodes
  <2>1. i \in 1..made["index"] /\ loc[p].cino \in 1..made["content"]
    BY <1>1 DEF FileInv
  <2>2. made["index"] \in 0..MaxClears + 1 /\ made["content"] \in 0..MaxClears + 1
    BY Views DEF Names
  <2>3. QED
    BY <2>1, <2>2 DEF Inodes
<1>3. m \in Msgs
  BY <1>1 DEF SaveInv, Saving, Typed, Msgs
<1>4. n \in Nat
  BY <1>2 DEF Typed
<1>5. /\ l \in Locals /\ l.msg = m /\ l.ino = i /\ l.cino = loc[p].cino /\ l.pos = n
  BY <1>4, Own DEF Locals
<1>6. pc' = [pc EXCEPT ![p] = "text"] /\ loc' = [loc EXCEPT ![p] = l]
  BY <1>1 DEF Goto
<1> HIDE DEF l, n, m
<1>17. LocTypes' /\ Others(p) /\ pc'[p] = "text" /\ loc'[p] = l
  BY <1>5, <1>6, Moved, TypedParts DEF Steps, Saves
<1>7. index[i] \in Seq(Header) /\ index \in [Inodes -> Seq(Header)]
  BY <1>2 DEF Typed
<1> DEFINE t == Append(index[i], [msg |-> m, pos |-> n])
<1>8. t \in Seq(Header) /\ Grown(index[i], t, m, n)
  BY <1>3, <1>4, <1>7, AppendFacts
<1>9. index' = [index EXCEPT ![i] = t]
  BY <1>1
<1> HIDE DEF t, i
<1>10. index' \in [Inodes -> Seq(Header)] /\ index'[i] = t
       /\ \A j \in Inodes \ {i} : index'[j] = index[j]
  BY <1>2, <1>7, <1>8, <1>9
<1>11. FileTypes'
  BY <1>1, <1>10, TypedParts DEF FileTypes
<1>12. MarkTypes' /\ RaceTypes'
  BY <1>1, TypedParts DEF MarkTypes, RaceTypes
<1>13. i = cur["index"] => Grown(Heads, Heads', m, n)
  BY <1>1, <1>2, <1>8, <1>10 DEF Heads
<1>14. i # cur["index"] => Heads' = Heads
  <2>1. cur["index"] \in 0..MaxClears + 1
    BY Views DEF Names
  <2>2. QED
    BY <1>1, <1>10, <2>1 DEF Heads, Inodes
<1>15. Index2' = Index2 /\ Heads2' = Heads2 /\ \A pos \in Nat : TextAt(pos)' = TextAt(pos)
  BY <1>1 DEF Index2, Heads2, TextAt
<1>16. Typed'
  BY <1>11, <1>12, <1>17, TypedPartsNext
<1>18. loc'[p].pos = n /\ loc'[p].msg = m /\ loc'[p].ino = i /\ loc'[p].cino = loc[p].cino
  BY <1>5, <1>17
<1>19. Grown(index[i], index'[i], m, n)
  BY <1>8, <1>10
<1>20. QED
  BY <1>1, <1>4, <1>10, <1>13, <1>14, <1>15, <1>16, <1>17, <1>18, <1>19 DEF i, m, n

LEMMA WriteTextFacts ==
    ASSUME Typed, RoomInv, FileInv, SaveInv, NEW p \in Procs, WriteText(p)
    PROVE  /\ Typed' /\ Others(p) /\ pc[p] = "text"
           /\ \/ pc'[p] = "idle"
              \/ /\ pc'[p] = "open2" /\ loc'[p].msg = loc[p].msg /\ loc'[p].pos = loc[p].pos
           /\ loc[p].cino \in Inodes /\ loc[p].pos \in Nat /\ loc[p].msg \in Msgs
           /\ \A i \in Inodes \ {loc[p].cino} : content'[i] = content[i]
           /\ content'[loc[p].cino] = Written(content[loc[p].cino], loc[p].pos, loc[p].msg)
           /\ Heads' = Heads /\ Index2' = Index2 /\ Heads2' = Heads2
           /\ UNCHANGED <<cur, made, index, index2, sent, clears,
                          given, hurt, late, raced, mailed, wiped>>
<1> DEFINE i == loc[p].cino
           m == loc[p].msg
           n == loc[p].pos
           t == Written(content[i], n, m)
<1>1. /\ pc[p] = "text" /\ content' = [content EXCEPT ![i] = t]
      /\ IF loc[p].job = "copy" THEN Return(p) ELSE Goto(p, "open2", loc[p])
      /\ UNCHANGED <<cur, made, index, index2, sent, clears,
                     given, hurt, late, raced, mailed, wiped>>
  BY DEF WriteText, marks
<1>2. i \in Inodes /\ m \in Msgs /\ n \in Nat
  <2>1. i \in 1..made["content"] /\ made["content"] \in 0..MaxClears + 1
    BY <1>1, Views DEF FileInv, Names
  <2>2. m \in 1..sent
    BY <1>1 DEF SaveInv, Saving
  <2>3. QED
    BY <2>1, <2>2, Own, SMTT(30) DEF Typed, Inodes, Msgs
<1> HIDE DEF m, n
<1>3. t \in Seq(Msgs) /\ content \in [Inodes -> Seq(Msgs)]
  BY <1>2, WrittenFacts DEF Typed
<1> HIDE DEF t
<1>4. /\ content' \in [Inodes -> Seq(Msgs)] /\ content'[i] = t
      /\ \A j \in Inodes \ {i} : content'[j] = content[j]
  BY <1>1, <1>2, <1>3
<1>5. /\ LocTypes' /\ Others(p)
      /\ pc'[p] = "idle" \/ (pc'[p] = "open2" /\ loc'[p] = loc[p])
  <2>1. CASE Return(p)
    BY <2>1, Returned, TypedParts
  <2>2. CASE Goto(p, "open2", loc[p])
    BY <2>2, Own, Moved, TypedParts DEF Goto, Steps, Saves
  <2>3. QED
    BY <1>1, <2>1, <2>2
<1>6. FileTypes' /\ MarkTypes' /\ RaceTypes'
  BY <1>1, <1>4, TypedParts DEF FileTypes, MarkTypes, RaceTypes
<1>7. Heads' = Heads /\ Index2' = Index2 /\ Heads2' = Heads2
  BY <1>1 DEF Heads, Index2, Heads2
<1>8. QED
  BY <1>1, <1>2, <1>4, <1>5, <1>6, <1>7, TypedPartsNext DEF m, n, t

LEMMA OpenIndex2Facts ==
    ASSUME Typed, RoomInv, FileInv, NEW p \in Procs, OpenIndex2(p)
    PROVE  /\ Typed' /\ Others(p) /\ pc[p] = "open2" /\ pc'[p] = "head2"
           /\ loc'[p].msg = loc[p].msg /\ loc'[p].pos = loc[p].pos
           /\ loc'[p].ino = Opened("index2") /\ Open("index2")
           /\ UNCHANGED <<index, index2, content, sent, clears,
                          given, hurt, late, raced, mailed, wiped>>
<1> DEFINE l == [loc[p] EXCEPT !.ino = Opened("index2")]
<1>1. /\ pc[p] = "open2" /\ Open("index2") /\ Goto(p, "head2", l)
      /\ UNCHANGED <<index, index2, content, sent, clears,
                     given, hurt, late, raced, mailed, wiped>>
  BY DEF OpenIndex2, marks
<1>2. Opened("index2") \in Nat
  BY Views DEF Names
<1>3. /\ l \in Locals /\ l.msg = loc[p].msg /\ l.pos = loc[p].pos
      /\ l.ino = Opened("index2")
  BY <1>2, Own DEF Locals
<1>4. LocTypes' /\ Others(p) /\ pc'[p] = "head2" /\ loc'[p] = l
  BY <1>1, <1>3, Moved, TypedParts DEF Goto, Steps, Saves
<1> HIDE DEF l
<1>5. FileTypes'
  BY <1>1, OpenFacts DEF Names
<1>6. MarkTypes' /\ RaceTypes'
  BY <1>1, TypedParts DEF MarkTypes, RaceTypes
<1>7. QED
  BY <1>1, <1>3, <1>4, <1>5, <1>6, TypedPartsNext

(* An inode of msgindex2 changes; the others and what they hide do not. *)
LEMMA Index2Facts ==
    ASSUME Typed, RoomInv, NEW i \in Inodes, NEW f \in [counter : Int, heads : Seq(Header)],
           index2' = [index2 EXCEPT ![i] = f], UNCHANGED <<cur, made, index, content>>
    PROVE  /\ FileTypes' /\ index2'[i] = f /\ \A j \in Inodes \ {i} : index2'[j] = index2[j]
           /\ i = cur["index2"] => Index2 = index2[i] /\ Index2' = f /\ Heads2' = f.heads
           /\ i # cur["index2"] => Index2' = Index2 /\ Heads2' = Heads2
           /\ Heads' = Heads /\ \A pos \in Nat : TextAt(pos)' = TextAt(pos)
<1>1. index2 \in [Inodes -> [counter : Int, heads : Seq(Header)]]
  BY DEF Typed
<1>2. /\ index2' \in [Inodes -> [counter : Int, heads : Seq(Header)]]
      /\ index2'[i] = f /\ \A j \in Inodes \ {i} : index2'[j] = index2[j]
  BY <1>1
<1>3. FileTypes'
  BY <1>2, TypedParts DEF FileTypes
<1>4. ASSUME i = cur["index2"] PROVE Index2 = index2[i] /\ Index2' = f
  BY <1>2, <1>4 DEF Index2, Inodes
<1>5. ASSUME i # cur["index2"] PROVE Index2' = Index2
  <2>1. cur["index2"] \in 0..MaxClears + 1
    BY Views DEF Names
  <2>2. QED
    BY <1>2, <1>5, <2>1 DEF Index2, Inodes
<1>6. Heads' = Heads /\ \A pos \in Nat : TextAt(pos)' = TextAt(pos)
  BY DEF Heads, TextAt
<1>7. QED
  BY <1>2, <1>3, <1>4, <1>5, <1>6 DEF Heads2

LEMMA WriteHead2Facts ==
    ASSUME Typed, RoomInv, FileInv, SaveInv, NEW p \in Procs, WriteHead2(p)
    PROVE  LET i == loc[p].ino IN
           /\ Typed' /\ Others(p) /\ pc[p] = "head2" /\ pc'[p] = "idle"
           /\ i \in Inodes /\ i <= made["index2"] /\ Advancing(i) = {}
           /\ \A j \in Inodes \ {i} : index2'[j] = index2[j]
           /\ Grown(index2[i].heads, index2'[i].heads, loc[p].msg, loc[p].pos)
           /\ index2'[i].counter = IF index2[i].counter = -1 THEN 0 ELSE index2[i].counter
           /\ i = cur["index2"] => /\ Index2 = index2[i] /\ Index2' = index2'[i]
                                   /\ Grown(Heads2, Heads2', loc[p].msg, loc[p].pos)
           /\ i # cur["index2"] => Index2' = Index2 /\ Heads2' = Heads2
           /\ Heads' = Heads /\ \A pos \in Nat : TextAt(pos)' = TextAt(pos)
           /\ UNCHANGED <<cur, made, index, content, sent, clears,
                          given, hurt, late, raced, mailed, wiped>>
<1> DEFINE i == loc[p].ino
           m == loc[p].msg
           n == loc[p].pos
           c == IF index2[i].counter = -1 THEN 0 ELSE index2[i].counter
           hs == Append(index2[i].heads, [msg |-> m, pos |-> n])
           f == [counter |-> c, heads |-> hs]
<1>1. /\ pc[p] = "head2" /\ Advancing(i) = {} /\ Return(p)
      /\ index2' = [index2 EXCEPT ![i] = f]
      /\ UNCHANGED <<cur, made, index, content, sent, clears,
                     given, hurt, late, raced, mailed, wiped>>
  BY DEF WriteHead2, marks, HeadOf
<1>2. i \in Inodes /\ i <= made["index2"] /\ m \in Msgs /\ n \in Nat
  <2>1. i \in 1..made["index2"] /\ made["index2"] \in 0..MaxClears + 1
    BY <1>1, Views DEF FileInv, Names
  <2>2. m \in 1..sent
    BY <1>1 DEF SaveInv, Saving
  <2>3. n \in Nat /\ sent \in 0..MaxMsgs
    BY Own DEF Typed
  <2>4. QED
    BY <2>1, <2>2, <2>3 DEF Inodes, Msgs
<1> HIDE DEF m, n
<1>3. index2[i].heads \in Seq(Header) /\ index2[i].counter \in Int
  BY <1>2 DEF Typed
<1>4. hs \in Seq(Header) /\ Grown(index2[i].heads, hs, m, n)
  BY <1>2, <1>3, AppendFacts
<1>5. c \in Int
  BY <1>3
<1> HIDE DEF hs, c
<1>6. f \in [counter : Int, heads : Seq(Header)] /\ f.counter = c /\ f.heads = hs
  BY <1>4, <1>5
<1> HIDE DEF f, i
<1>7. /\ FileTypes' /\ index2'[i] = f /\ \A j \in Inodes \ {i} : index2'[j] = index2[j]
      /\ i = cur["index2"] => Index2 = index2[i] /\ Index2' = f /\ Heads2' = f.heads
      /\ i # cur["index2"] => Index2' = Index2 /\ Heads2' = Heads2
      /\ Heads' = Heads /\ \A pos \in Nat : TextAt(pos)' = TextAt(pos)
  BY <1>1, <1>2, <1>6, Index2Facts
<1>8. LocTypes' /\ Others(p) /\ pc'[p] = "idle"
  BY <1>1, Returned, TypedParts
<1>9. Typed'
  BY <1>1, <1>7, <1>8, TypedParts, TypedPartsNext DEF MarkTypes, RaceTypes
<1>10. Grown(index2[i].heads, index2'[i].heads, m, n)
  BY <1>4, <1>6, <1>7
<1>11. i = cur["index2"] => /\ Index2 = index2[i] /\ Index2' = index2'[i]
                            /\ Grown(Heads2, Heads2', m, n)
  BY <1>4, <1>6, <1>7 DEF Heads2
<1>12. QED
  BY <1>1, <1>2, <1>6, <1>7, <1>8, <1>9, <1>10, <1>11 DEF i, m, n, c

LEMMA KillFacts ==
    ASSUME Typed, SaveInv, NEW p \in Procs, KillSender(p)
    PROVE  /\ Typed' /\ Others(p) /\ p \in Saving /\ pc'[p] = "idle"
           /\ hurt' = hurt \cup {loc[p].msg}
           /\ Heads' = Heads /\ Index2' = Index2 /\ Heads2' = Heads2
           /\ \A pos \in Nat : TextAt(pos)' = TextAt(pos)
           /\ UNCHANGED <<cur, made, index, index2, content, sent, clears,
                          given, late, raced, mailed, wiped>>
<1>1. /\ p \in Saving /\ Return(p) /\ hurt' = hurt \cup {loc[p].msg}
      /\ UNCHANGED <<cur, made, index, index2, content, sent, clears,
                     given, late, raced, mailed, wiped>>
  BY DEF KillSender, files
<1>2. LocTypes' /\ Others(p) /\ pc'[p] = "idle"
  BY <1>1, Returned, TypedParts
<1>3. loc[p].msg \in Msgs
  BY <1>1 DEF SaveInv, Typed, Msgs
<1>4. Typed'
  BY <1>1, <1>2, <1>3, TypedParts, TypedPartsNext DEF FileTypes, MarkTypes, RaceTypes
<1>5. /\ Heads' = Heads /\ Index2' = Index2 /\ Heads2' = Heads2
      /\ \A pos \in Nat : TextAt(pos)' = TextAt(pos)
  BY <1>1 DEF Heads, Index2, Heads2, TextAt
<1>6. QED
  BY <1>1, <1>2, <1>4, <1>5

LEMMA CountFacts ==
    ASSUME Typed, RoomInv
    PROVE  /\ get_unreadcount \in Nat
           /\ get_unreadcount # 0 <=> Index2.counter \in 0..Len(Heads2) - 1
           /\ get_unreadcount # 0 => cur["index2"] \in Inodes /\ Index2 = index2[cur["index2"]]
<1>1. Index2.counter \in Int /\ Len(Heads2) \in Nat /\ cur["index2"] \in 0..MaxClears + 1
  BY Views DEF Names
<1>2. get_unreadcount \in Nat /\ (get_unreadcount # 0 <=> Index2.counter \in 0..Len(Heads2) - 1)
  BY <1>1 DEF get_unreadcount
<1>3. ASSUME get_unreadcount # 0
      PROVE  cur["index2"] \in Inodes /\ Index2 = index2[cur["index2"]]
  <2>1. cur["index2"] # 0
    <3>1. SUFFICES ASSUME cur["index2"] = 0 PROVE FALSE
      OBVIOUS
    <3>2. Index2.counter = -1
      BY <3>1 DEF Index2, NewIndex2
    <3>3. QED
      BY <1>2, <1>3, <3>2
  <2>2. QED
    BY <1>1, <2>1 DEF Index2, Inodes
<1>4. QED
  BY <1>2, <1>3

LEMMA TakeFacts ==
    ASSUME Typed, RoomInv, FileInv, NEW p \in Procs, Take(p)
    PROVE  /\ Typed' /\ Others(p) /\ pc[p] = "take" /\ Open("index2")
           /\ UNCHANGED <<index, index2, content, sent, clears, hurt, late, mailed, wiped>>
           /\ \/ /\ get_unreadcount = 0 /\ UNCHANGED <<given, raced>>
                 /\ \/ pc'[p] = "idle"
                    \/ pc'[p] = "load" /\ loc[p].job # "web" /\ loc'[p].lone = loc[p].lone
              \/ /\ pc'[p] = "advance" /\ loc'[p].ino = cur["index2"]
                 /\ loc'[p].at = Index2.counter /\ loc'[p].lone = loc[p].lone
                 /\ get_unreadcount # 0 /\ cur' = cur /\ made' = made
                 /\ given' = [given EXCEPT ![Heads2[Index2.counter + 1].msg] = @ + 1]
                 /\ raced' <=> raced \/ Advancing(cur["index2"]) # {}
<1> DEFINE ino == Opened("index2")
           la == [loc[p] EXCEPT !.at = -1]
           lb == [loc[p] EXCEPT !.at = NextUnread, !.ino = ino]
<1>1. /\ pc[p] = "take" /\ Open("index2")
      /\ UNCHANGED <<index, index2, content, sent, clears, hurt, late, mailed, wiped>>
  BY DEF Take
<1>2. FileTypes'
  BY <1>1, OpenFacts DEF Names
<1>3. get_unreadcount \in Nat /\ Index2.counter \in Int
  BY CountFacts, Views
<1>4. CASE NextUnread = -1
  <2>1. get_unreadcount = 0
    <3>1. SUFFICES ASSUME get_unreadcount # 0 PROVE FALSE
      OBVIOUS
    <3>2. QED
      BY <1>4, <3>1, CountFacts, Views DEF NextUnread
  <2>2. /\ IF loc[p].job = "web" THEN Return(p) ELSE Goto(p, "load", la)
        /\ UNCHANGED <<given, raced>>
    BY <1>4 DEF Take
  <2>3. LocTypes' /\ Others(p)
        /\ \/ pc'[p] = "idle"
           \/ pc'[p] = "load" /\ loc[p].job # "web" /\ loc'[p].lone = loc[p].lone
    <3>1. CASE loc[p].job = "web"
      BY <2>2, <3>1, Returned, TypedParts
    <3>2. CASE loc[p].job # "web"
      <4>1. la \in Locals /\ la.lone = loc[p].lone
        BY Own DEF Locals
      <4>2. pc' = [pc EXCEPT ![p] = "load"] /\ loc' = [loc EXCEPT ![p] = la]
        BY <2>2, <3>2 DEF Goto
      <4> HIDE DEF la
      <4>3. QED
        BY <3>2, <4>1, <4>2, Moved, TypedParts DEF Steps
    <3>3. QED
      BY <3>1, <3>2
  <2>4. MarkTypes' /\ RaceTypes'
    BY <1>1, <2>2, TypedParts DEF MarkTypes, RaceTypes
  <2>5. QED
    BY <1>1, <1>2, <2>1, <2>2, <2>3, <2>4, TypedPartsNext
<1>5. CASE NextUnread # -1
  <2>1. get_unreadcount # 0 /\ NextUnread = Index2.counter
    BY <1>5 DEF NextUnread
  <2>2. /\ Index2.counter \in 0..Len(Heads2) - 1
        /\ cur["index2"] \in Inodes /\ Index2 = index2[cur["index2"]]
    BY <2>1, CountFacts
  <2>3. ino = cur["index2"] /\ cur["index2"] # 0
    BY <2>2 DEF Opened, Inodes
  <2>4. cur' = cur /\ made' = made
    BY <1>1, <2>3, OpenFacts DEF Names
  <2>5. /\ pc' = [pc EXCEPT ![p] = "advance"]
        /\ loc' = [loc EXCEPT ![p] = lb]
        /\ given' = [given EXCEPT ![Heads2[NextUnread + 1].msg] = @ + 1]
        /\ raced' = (raced \/ Advancing(ino) # {})
    <3>1. /\ pc' = [pc EXCEPT ![p] = "advance"]
          /\ loc' = [loc EXCEPT ![p].at = NextUnread, ![p].ino = ino]
          /\ given' = [given EXCEPT ![Heads2[NextUnread + 1].msg] = @ + 1]
          /\ raced' = (raced \/ Advancing(ino) # {})
      BY <1>5, Zenon DEF Take
    <3>2. loc' = [loc EXCEPT ![p] = lb]
      BY <3>1 DEF Typed
    <3>3. QED
      BY <3>1, <3>2, Zenon
  <2>6. lb \in Locals /\ lb.at = NextUnread /\ lb.ino = ino /\ lb.lone = loc[p].lone
    <3>1. NextUnread \in Int /\ ino \in Nat
      BY <1>3, <2>1, <2>2, <2>3 DEF Inodes
    <3>2. QED
      BY <3>1, Own DEF Locals
  <2> HIDE DEF lb, ino
  <2>7. LocTypes' /\ Others(p) /\ pc'[p] = "advance" /\ loc'[p] = lb
    BY <2>5, <2>6, Moved, TypedParts DEF Steps
  <2>8. RaceTypes' /\ (raced' <=> raced \/ Advancing(cur["index2"]) # {})
    BY <2>3, <2>5, Zenon DEF RaceTypes
  <2>9. MarkTypes'
    <3>1. given \in [Msgs -> Nat]
      BY DEF Typed
    <3>2. Heads2[NextUnread + 1].msg \in Msgs
      <4>1. NextUnread + 1 \in 1..Len(Heads2) /\ Heads2 \in Seq(Header)
        BY <2>1, <2>2, Views
      <4>2. Heads2[NextUnread + 1] \in Header
        BY <4>1
      <4>3. QED
        BY <4>2 DEF Header
    <3>3. given' \in [Msgs -> Nat]
      BY <2>5, <3>1, <3>2
    <3>4. QED
      BY <1>1, <3>3, TypedParts DEF MarkTypes
  <2>10. Typed'
    BY <1>2, <2>7, <2>8, <2>9, TypedPartsNext
  <2>11. loc'[p].ino = cur["index2"] /\ loc'[p].at = Index2.counter /\ loc'[p].lone = loc[p].lone
    BY <2>1, <2>3, <2>6, <2>7
  <2>12. given' = [given EXCEPT ![Heads2[Index2.counter + 1].msg] = @ + 1]
    BY <2>1, <2>5
  <2>13. QED
    BY <1>1, <2>1, <2>4, <2>7, <2>8, <2>10, <2>11, <2>12
<1>6. QED
  BY <1>4, <1>5

LEMMA AdvanceFacts ==
    ASSUME Typed, RoomInv, FileInv, NEW p \in Procs, Advance(p)
    PROVE  LET i == loc[p].ino IN
           /\ Typed' /\ Others(p) /\ pc[p] = "advance" /\ pc'[p] = "load"
           /\ loc'[p].at = loc[p].at /\ loc'[p].lone = loc[p].lone
           /\ \A q \in Procs \ {p} : pc[q] = "take" => ~loc'[q].lone
           /\ i \in Inodes /\ \A j \in Inodes \ {i} : index2'[j] = index2[j]
           /\ i <= made["index2"]
           /\ index2'[i].heads = index2[i].heads /\ index2'[i].counter = loc[p].at + 1
           /\ i = cur["index2"] => Index2 = index2[i] /\ Index2' = index2'[i]
           /\ i # cur["index2"] => Index2' = Index2
           /\ Heads' = Heads /\ Heads2' = Heads2 /\ \A pos \in Nat : TextAt(pos)' = TextAt(pos)
           /\ UNCHANGED <<cur, made, index, content, sent, clears,
                          given, hurt, late, raced, mailed, wiped>>
<1> DEFINE i == loc[p].ino
           f == [index2[i] EXCEPT !.counter = loc[p].at + 1]
           l == [loc[p] EXCEPT !.ino = 0]
<1>1. /\ pc[p] = "advance" /\ pc' = [pc EXCEPT ![p] = "load"]
      /\ index2' = [index2 EXCEPT ![i].counter = loc[p].at + 1]
      /\ loc' = TakenFrom(p, [loc EXCEPT ![p].ino = 0])
      /\ UNCHANGED <<cur, made, index, content, sent, clears,
                     given, hurt, late, raced, mailed, wiped>>
  BY DEF Advance, marks
<1>2. i \in Inodes /\ i <= made["index2"]
  <2>1. i \in 1..made["index2"] /\ made["index2"] \in 0..MaxClears + 1
    BY <1>1, Views DEF FileInv, Names
  <2>2. QED
    BY <2>1 DEF Inodes
<1>3. index2[i] \in [counter : Int, heads : Seq(Header)]
  BY <1>2 DEF Typed
<1>4. index2' = [index2 EXCEPT ![i] = f]
  BY <1>1
<1>5. /\ f \in [counter : Int, heads : Seq(Header)]
      /\ f.counter = loc[p].at + 1 /\ f.heads = index2[i].heads
  <2>1. loc[p].at + 1 \in Int
    BY Own
  <2>2. QED
    BY <1>3, <2>1
<1> HIDE DEF f, i
<1>6. /\ FileTypes' /\ index2'[i] = f /\ \A j \in Inodes \ {i} : index2'[j] = index2[j]
      /\ i = cur["index2"] => Index2 = index2[i] /\ Index2' = f /\ Heads2' = f.heads
      /\ i # cur["index2"] => Index2' = Index2 /\ Heads2' = Heads2
      /\ Heads' = Heads /\ \A pos \in Nat : TextAt(pos)' = TextAt(pos)
  BY <1>1, <1>2, <1>4, <1>5, Index2Facts
<1>7. l \in Locals /\ l.at = loc[p].at /\ l.lone = loc[p].lone
  BY Own DEF Locals
<1>8. /\ loc' = [q \in Procs |-> loc'[q]] /\ loc'[p] = l
      /\ \A q \in Procs \ {p} : loc'[q] = IF pc[q] = "take" THEN [loc[q] EXCEPT !.lone = FALSE]
                                          ELSE loc[q]
  BY <1>1 DEF TakenFrom, Typed
<1> HIDE DEF l
<1>9. /\ LocTypes' /\ Others(p) /\ pc'[p] = "load"
      /\ \A q \in Procs \ {p} : loc'[q] = [loc[q] EXCEPT !.lone = FALSE] => ~loc'[q].lone
  <2>1. "load" \in Steps /\ LocTypes
    BY TypedParts DEF Steps
  <2>2. \A q \in Procs \ {p} : loc'[q] = loc[q] \/ loc'[q] = [loc[q] EXCEPT !.lone = FALSE]
    BY <1>8
  <2>3. QED
    BY <1>1, <1>7, <1>8, <2>1, <2>2, Disturbed
<1>10. \A q \in Procs \ {p} : pc[q] = "take" => ~loc'[q].lone
  BY <1>8, <1>9
<1>11. Typed'
  BY <1>1, <1>6, <1>9, TypedParts, TypedPartsNext DEF MarkTypes, RaceTypes
<1>12. Heads2' = Heads2
  BY <1>5, <1>6 DEF Heads2
<1>13. QED
  BY <1>1, <1>2, <1>5, <1>6, <1>7, <1>8, <1>9, <1>10, <1>11, <1>12 DEF i

(* A step of the owner that leaves the files and the savers alone. *)
Calm == {"idle", "take", "load", "load_text", "shown", "mail_copy", "mail_send", "unlink"}
Plain(p) ==
    /\ UNCHANGED <<cur, made, index, index2, content, sent, hurt, given, raced, wiped>>
    /\ Others(p) /\ pc[p] \in Calm /\ pc'[p] \in Calm /\ late \subseteq late'

LEMMA PlainFacts ==
    ASSUME Typed, NEW p \in Procs, NEW w \in Calm, NEW l \in Locals,
           pc[p] \in Calm, pc' = [pc EXCEPT ![p] = w], loc' = [loc EXCEPT ![p] = l],
           UNCHANGED <<cur, made, index, index2, content, sent, hurt, given, raced, wiped>>,
           late \subseteq late', late' \subseteq Msgs, clears' \in 0..MaxClears
    PROVE  Typed' /\ Plain(p) /\ pc'[p] = w /\ loc'[p] = l
<1>1. LocTypes' /\ Others(p) /\ pc'[p] = w /\ loc'[p] = l
  BY Moved, TypedParts DEF Calm, Steps
<1>2. Typed'
  BY <1>1, TypedParts, TypedPartsNext DEF FileTypes, MarkTypes, RaceTypes
<1>3. QED
  BY <1>1, <1>2 DEF Plain

LEMMA ShowStartFacts ==
    ASSUME Typed, NEW p \in Procs, ShowStart(p)
    PROVE  /\ Typed' /\ Plain(p) /\ pc'[p] = "take" /\ loc'[p].job \in {"r_msg", "web"}
           /\ loc'[p].job = "r_msg" => get_unreadcount > 0
           /\ UNCHANGED <<clears, late, mailed>>
<1>1. PICK job \in {"r_msg", "web"} :
          /\ pc[p] = "idle" /\ (job = "r_msg" => get_unreadcount > 0)
          /\ Goto(p, "take", [NoLocals EXCEPT !.job = job])
  BY DEF ShowStart, Does
<1> DEFINE l == [NoLocals EXCEPT !.job = job]
<1>2. /\ UNCHANGED <<cur, made, index, index2, content, sent, hurt, given, raced, wiped>>
      /\ UNCHANGED <<clears, late, mailed>>
  BY DEF ShowStart, files, marks
<1>3. l \in Locals /\ l.job = job
  <2>1. job \in AllJobs
    BY DEF AllJobs
  <2>2. l.job = job
    BY DEF NoLocals
  <2>3. QED
    BY <2>1, <2>2, NoLocalsType DEF Locals
<1>4. pc' = [pc EXCEPT ![p] = "take"] /\ loc' = [loc EXCEPT ![p] = l]
  BY <1>1 DEF Goto
<1> HIDE DEF l
<1>5. "take" \in Calm /\ pc[p] \in Calm /\ late' \subseteq Msgs /\ clears' \in 0..MaxClears
  BY <1>1, <1>2 DEF Calm, Typed
<1>6. Typed' /\ Plain(p) /\ pc'[p] = "take" /\ loc'[p] = l
  BY <1>2, <1>3, <1>4, <1>5, PlainFacts
<1>7. QED
  BY <1>1, <1>2, <1>3, <1>6

LEMMA BrowseStartFacts ==
    ASSUME Typed, RoomInv, NEW p \in Procs, BrowseStart(p)
    PROVE  /\ Typed' /\ Plain(p) /\ pc'[p] = "load"
           /\ loc'[p].lone => loc'[p].at \in 0..Len(Heads2) - 1
           /\ UNCHANGED <<clears, late, mailed>>
<1>1. PICK i \in 0..Len(Heads2) :
          /\ i < Len(Heads2) \/ Index2.counter = -1
          /\ pc[p] = "idle"
          /\ Goto(p, "load", [NoLocals EXCEPT !.job = "browse", !.at = i,
                                              !.lone = Index2.counter # -1])
  BY DEF BrowseStart, Does, Heads2
<1> DEFINE l == [NoLocals EXCEPT !.job = "browse", !.at = i, !.lone = Index2.counter # -1]
<1>2. /\ UNCHANGED <<cur, made, index, index2, content, sent, hurt, given, raced, wiped>>
      /\ UNCHANGED <<clears, late, mailed>>
  BY DEF BrowseStart, files, marks
<1>3. Len(Heads2) \in Nat /\ Index2.counter \in Int
  BY Views
<1>4. l \in Locals /\ l.at = i /\ (l.lone => i \in 0..Len(Heads2) - 1)
  <2>1. "browse" \in AllJobs /\ i \in Int
    BY <1>3 DEF AllJobs
  <2>2. PICK b \in BOOLEAN : b = (Index2.counter # -1)
    BY Zenon
  <2>3. l = [NoLocals EXCEPT !.job = "browse", !.at = i, !.lone = b]
    BY <2>2, Zenon
  <2>4. l \in Locals
    BY <2>1, <2>3, NoLocalsType DEF Locals
  <2>5. l.at = i /\ l.lone = b
    BY <2>3 DEF NoLocals
  <2>6. b => Index2.counter # -1
    BY <2>2, Zenon
  <2>7. QED
    BY <1>1, <1>3, <2>4, <2>5, <2>6
<1>5. pc' = [pc EXCEPT ![p] = "load"] /\ loc' = [loc EXCEPT ![p] = l]
  BY <1>1, Zenon DEF Goto
<1> HIDE DEF l
<1>6. "load" \in Calm /\ pc[p] \in Calm /\ late' \subseteq Msgs /\ clears' \in 0..MaxClears
  BY <1>1, <1>2 DEF Calm, Typed
<1>7. Typed' /\ Plain(p) /\ pc'[p] = "load" /\ loc'[p] = l
  BY <1>2, <1>4, <1>5, <1>6, PlainFacts
<1>8. QED
  BY <1>2, <1>4, <1>7

LEMMA LoadHeadFacts ==
    ASSUME Typed, RoomInv, NEW p \in Procs, LoadHead(p)
    PROVE  /\ Typed' /\ Plain(p) /\ pc[p] = "load" /\ pc'[p] = "load_text"
           /\ loc'[p].head = HeadAt(p) /\ loc'[p].lone = loc[p].lone
           /\ UNCHANGED <<clears, late, mailed>>
<1> DEFINE h == HeadAt(p)
           l == [loc[p] EXCEPT !.head = h]
<1>1. /\ pc[p] = "load" /\ Goto(p, "load_text", l)
      /\ UNCHANGED <<cur, made, index, index2, content, sent, hurt, given, raced, wiped>>
      /\ UNCHANGED <<clears, late, mailed>>
  BY DEF LoadHead, files, marks
<1>2. h \in Held
  <2>1. CASE loc[p].at \in 0..Len(Heads2) - 1
    <3>1. loc[p].at + 1 \in 1..Len(Heads2) /\ Heads2 \in Seq(Header)
      BY <2>1, Views
    <3>2. Heads2[loc[p].at + 1] \in Header /\ h = Heads2[loc[p].at + 1]
      BY <2>1, <3>1 DEF HeadAt
    <3>3. QED
      BY <3>2 DEF Header, Held, Msgs
  <2>2. CASE loc[p].at \notin 0..Len(Heads2) - 1
    BY <2>2, Own DEF HeadAt
  <2>3. QED
    BY <2>1, <2>2
<1> HIDE DEF h
<1>3. l \in Locals /\ l.head = h /\ l.lone = loc[p].lone
  BY <1>2, Own DEF Locals
<1>4. pc' = [pc EXCEPT ![p] = "load_text"] /\ loc' = [loc EXCEPT ![p] = l]
  BY <1>1 DEF Goto
<1> HIDE DEF l
<1>5. "load_text" \in Calm /\ pc[p] \in Calm /\ late' \subseteq Msgs /\ clears' \in 0..MaxClears
  BY <1>1 DEF Calm, Typed
<1>6. Typed' /\ Plain(p) /\ pc'[p] = "load_text" /\ loc'[p] = l
  BY <1>1, <1>3, <1>4, <1>5, PlainFacts
<1>7. QED
  BY <1>1, <1>3, <1>6 DEF h

LEMMA LoadTextFacts ==
    ASSUME Typed, RoomInv, NEW p \in Procs, LoadText(p)
    PROVE  /\ Typed' /\ Plain(p) /\ pc[p] = "load_text" /\ pc'[p] = "shown"
           /\ loc'[p].head = loc[p].head /\ loc'[p].lone = loc[p].lone
           /\ loc'[p].text = TextAt(loc[p].head.pos)
           /\ UNCHANGED <<clears, late, mailed>>
<1> DEFINE x == TextAt(loc[p].head.pos)
           l == [loc[p] EXCEPT !.text = x]
<1>1. /\ pc[p] = "load_text" /\ Goto(p, "shown", l)
      /\ UNCHANGED <<cur, made, index, index2, content, sent, hurt, given, raced, wiped>>
      /\ UNCHANGED <<clears, late, mailed>>
  BY DEF LoadText, files, marks
<1>2. x \in 0..MaxMsgs
  <2> DEFINE pos == loc[p].head.pos
             c == cur["content"]
  <2>1. pos \in Nat /\ c \in 0..MaxClears + 1
    BY Own, Views DEF Held, Names
  <2>2. CASE c # 0 /\ pos < Len(content[c])
    <3>1. content[c] \in Seq(Msgs)
      BY <2>1, <2>2 DEF Typed, Inodes
    <3>2. x = content[c][pos + 1] /\ pos + 1 \in 1..Len(content[c])
      BY <2>1, <2>2, <3>1 DEF TextAt
    <3>3. x \in Msgs
      BY <3>1, <3>2
    <3>4. QED
      BY <3>3 DEF Msgs
  <2>3. CASE ~(c # 0 /\ pos < Len(content[c]))
    BY <2>3 DEF TextAt, Blank
  <2>4. QED
    BY <2>2, <2>3
<1> HIDE DEF x
<1>3. l \in Locals /\ l.head = loc[p].head /\ l.lone = loc[p].lone /\ l.text = x
  BY <1>2, Own DEF Locals
<1>4. pc' = [pc EXCEPT ![p] = "shown"] /\ loc' = [loc EXCEPT ![p] = l]
  BY <1>1 DEF Goto
<1> HIDE DEF l
<1>5. "shown" \in Calm /\ pc[p] \in Calm /\ late' \subseteq Msgs /\ clears' \in 0..MaxClears
  BY <1>1 DEF Calm, Typed
<1>6. Typed' /\ Plain(p) /\ pc'[p] = "shown" /\ loc'[p] = l
  BY <1>1, <1>3, <1>4, <1>5, PlainFacts
<1>7. QED
  BY <1>1, <1>3, <1>6 DEF x

LEMMA ShowOnFacts ==
    ASSUME Typed, NEW p \in Procs, ShowOn(p)
    PROVE  /\ Typed' /\ Plain(p)
           /\ \/ pc'[p] = "idle"
              \/ pc'[p] = "take" /\ loc'[p].job = "r_msg" /\ get_unreadcount > 0
           /\ UNCHANGED <<clears, late, mailed>>
<1> DEFINE l == [loc[p] EXCEPT !.text = Blank, !.lone = TRUE]
<1>1. /\ pc[p] = "shown"
      /\ UNCHANGED <<cur, made, index, index2, content, sent, hurt, given, raced, wiped>>
      /\ UNCHANGED <<clears, late, mailed>>
  BY DEF ShowOn, files, marks
<1>2. {"idle", "take"} \subseteq Calm /\ pc[p] \in Calm /\ late' \subseteq Msgs
      /\ clears' \in 0..MaxClears
  BY <1>1 DEF Calm, Typed
<1>3. CASE loc[p].job = "r_msg" /\ get_unreadcount > 0
  <2>1. l \in Locals /\ l.job = loc[p].job
    <3>1. loc[p] \in Locals /\ Blank \in 0..MaxMsgs /\ TRUE \in BOOLEAN
      BY Own DEF Blank
    <3>2. QED
      BY <3>1 DEF Locals
  <2>2. pc' = [pc EXCEPT ![p] = "take"] /\ loc' = [loc EXCEPT ![p] = l]
    BY <1>3 DEF ShowOn, Goto
  <2> HIDE DEF l
  <2>3. Typed' /\ Plain(p) /\ pc'[p] = "take" /\ loc'[p] = l
    BY <1>1, <1>2, <2>1, <2>2, PlainFacts
  <2>4. QED
    BY <1>1, <1>3, <2>1, <2>3
<1>4. CASE ~(loc[p].job = "r_msg" /\ get_unreadcount > 0)
  <2>1. pc' = [pc EXCEPT ![p] = "idle"] /\ loc' = [loc EXCEPT ![p] = NoLocals]
    BY <1>4 DEF ShowOn, Goto, Return
  <2>2. Typed' /\ Plain(p) /\ pc'[p] = "idle"
    BY <1>1, <1>2, <2>1, NoLocalsType, PlainFacts
  <2>3. QED
    BY <1>1, <2>2
<1>5. QED
  BY <1>3, <1>4

LEMMA MailCountFacts ==
    ASSUME Typed, RoomInv, SaveInv, NEW p \in Procs, MailCount(p)
    PROVE  /\ Typed' /\ Plain(p) /\ pc[p] = "idle" /\ pc'[p] = "mail_copy"
           /\ loc'[p].job = "mail" /\ loc'[p].at = Len(Heads)
           /\ late' = late \cup {loc[q].msg : q \in Saving}
           /\ UNCHANGED <<clears, mailed>>
<1> DEFINE l == [NoLocals EXCEPT !.job = "mail", !.at = Len(Heads)]
<1>1. /\ pc[p] = "idle" /\ Goto(p, "mail_copy", l)
      /\ UNCHANGED <<cur, made, index, index2, content, sent, hurt, given, raced, wiped>>
      /\ UNCHANGED <<clears, mailed>> /\ late' = late \cup {loc[q].msg : q \in Saving}
  BY DEF MailCount, files, Does
<1>2. l \in Locals /\ l.job = "mail" /\ l.at = Len(Heads)
  <2>1. "mail" \in AllJobs /\ Len(Heads) \in Int
    BY Views DEF AllJobs
  <2>2. l.job = "mail" /\ l.at = Len(Heads)
    BY DEF NoLocals
  <2>3. QED
    BY <2>1, <2>2, NoLocalsType DEF Locals
<1>3. pc' = [pc EXCEPT ![p] = "mail_copy"] /\ loc' = [loc EXCEPT ![p] = l]
  BY <1>1 DEF Goto
<1> HIDE DEF l
<1>4. \A q \in Saving : loc[q].msg \in Msgs
  BY DEF SaveInv, Typed, Msgs
<1>5. "mail_copy" \in Calm /\ pc[p] \in Calm /\ late \subseteq late' /\ late' \subseteq Msgs
      /\ clears' \in 0..MaxClears
  BY <1>1, <1>4 DEF Calm, Typed
<1>6. Typed' /\ Plain(p) /\ pc'[p] = "mail_copy" /\ loc'[p] = l
  BY <1>1, <1>2, <1>3, <1>5, PlainFacts
<1>7. QED
  BY <1>1, <1>2, <1>6

(* The copy has the messages that were in the index when it was counted. *)
LEMMA CopyFacts ==
    ASSUME Typed, RoomInv, NEW p \in Procs, loc[p].at \in Nat
    PROVE  CopyOf(p) \subseteq Msgs /\ \A m : InIndex(m, loc[p].at) => m \in CopyOf(p)
<1> DEFINE n == IF loc[p].at <= Len(Heads) THEN loc[p].at ELSE Len(Heads)
           s == SubSeq(Heads, 1, n)
<1>1. Heads \in Seq(Header) /\ Len(Heads) \in Nat
  BY Views
<1>2. n \in 0..Len(Heads) /\ \A k \in 1..Len(Heads) : k <= loc[p].at => k <= n
  BY <1>1
<1>3. CopyOf(p) = MsgsOf(s)
  BY DEF CopyOf
<1> HIDE DEF n
<1>4. /\ s \in Seq(Header) /\ DOMAIN s = 1..n /\ \A k \in 1..n : s[k] = Heads[k]
  BY <1>1, <1>2
<1> HIDE DEF s
<1>5. \A k \in 1..n : s[k] \in Header /\ s[k].msg \in Msgs
  <2>1. \A k \in 1..n : s[k] \in Header
    BY <1>1, <1>2, <1>4
  <2>2. QED
    BY <2>1 DEF Header
<1>6. \A m : m \in MsgsOf(s) <=> \E k \in 1..n : s[k].msg = m
  BY <1>4 DEF MsgsOf, ToSet
<1>7. ASSUME NEW m, InIndex(m, loc[p].at) PROVE m \in MsgsOf(s)
  <2>1. PICK k \in 1..Len(Heads) : k <= loc[p].at /\ Heads[k].msg = m
    BY <1>7 DEF InIndex
  <2>2. k \in 1..n /\ s[k].msg = m
    BY <1>1, <1>2, <1>4, <2>1
  <2>3. QED
    BY <1>6, <2>2
<1>8. QED
  BY <1>3, <1>5, <1>6, <1>7

LEMMA MailCopyFacts ==
    ASSUME Typed, RoomInv, MailInv, NEW p \in Procs, MailCopy(p)
    PROVE  /\ Typed' /\ Plain(p) /\ pc[p] = "mail_copy" /\ pc'[p] = "mail_send"
           /\ loc'[p].job = loc[p].job /\ loc[p].at \in Nat
           /\ \A m : InIndex(m, loc[p].at) => m \in loc'[p].copy
           /\ UNCHANGED <<clears, late, mailed>>
<1> DEFINE c == CopyOf(p)
           l == [loc[p] EXCEPT !.copy = c]
<1>1. /\ pc[p] = "mail_copy" /\ Goto(p, "mail_send", l)
      /\ UNCHANGED <<cur, made, index, index2, content, sent, hurt, given, raced, wiped>>
      /\ UNCHANGED <<clears, late, mailed>>
  BY DEF MailCopy, files, marks
<1>2. loc[p].at \in Nat
  BY <1>1 DEF MailInv, MailPart
<1>3. c \subseteq Msgs /\ \A m : InIndex(m, loc[p].at) => m \in c
  BY <1>2, CopyFacts
<1> HIDE DEF c
<1>4. l \in Locals /\ l.job = loc[p].job /\ l.copy = c
  BY <1>3, Own DEF Locals
<1>5. pc' = [pc EXCEPT ![p] = "mail_send"] /\ loc' = [loc EXCEPT ![p] = l]
  BY <1>1 DEF Goto
<1> HIDE DEF l
<1>6. "mail_send" \in Calm /\ pc[p] \in Calm /\ late' \subseteq Msgs /\ clears' \in 0..MaxClears
  BY <1>1 DEF Calm, Typed
<1>7. Typed' /\ Plain(p) /\ pc'[p] = "mail_send" /\ loc'[p] = l
  BY <1>1, <1>4, <1>5, <1>6, PlainFacts
<1>8. QED
  BY <1>1, <1>2, <1>3, <1>4, <1>7

LEMMA MailSendFacts ==
    ASSUME Typed, NEW p \in Procs, MailSend(p)
    PROVE  /\ Typed' /\ Plain(p) /\ pc[p] = "mail_send" /\ UNCHANGED late
           /\ \/ /\ pc'[p] = "unlink" /\ loc'[p].job = loc[p].job
                 /\ clears' = clears + 1 /\ mailed' = mailed \cup loc[p].copy
              \/ pc'[p] = "idle" /\ UNCHANGED <<clears, mailed>>
<1>1. /\ pc[p] = "mail_send"
      /\ UNCHANGED <<cur, made, index, index2, content, sent, hurt, given, raced, wiped, late>>
  BY DEF MailSend, files
<1>2. {"idle", "unlink"} \subseteq Calm /\ pc[p] \in Calm /\ late' \subseteq Msgs
  BY <1>1 DEF Calm, Typed
<1>3. CASE /\ clears < MaxClears /\ clears' = clears + 1
           /\ mailed' = mailed \cup loc[p].copy /\ Goto(p, "unlink", loc[p])
  <2>1. clears' \in 0..MaxClears /\ loc[p] \in Locals
    BY <1>3, Own DEF Typed
  <2>2. Typed' /\ Plain(p) /\ pc'[p] = "unlink" /\ loc'[p] = loc[p]
    BY <1>1, <1>2, <1>3, <2>1, PlainFacts DEF Goto
  <2>3. QED
    BY <1>1, <1>3, <2>2
<1>4. CASE Return(p) /\ UNCHANGED <<mailed, clears>>
  <2>1. clears' \in 0..MaxClears
    BY <1>4 DEF Typed
  <2>2. pc' = [pc EXCEPT ![p] = "idle"] /\ loc' = [loc EXCEPT ![p] = NoLocals]
    BY <1>4 DEF Return, Goto
  <2>3. Typed' /\ Plain(p) /\ pc'[p] = "idle"
    BY <1>1, <1>2, <2>1, <2>2, NoLocalsType, PlainFacts
  <2>4. QED
    BY <1>1, <1>4, <2>3
<1>5. QED
  BY <1>3, <1>4 DEF MailSend

(* A name is unlinked, and nobody is alone any more. *)
Unlinked(p, n) ==
    /\ cur' = [cur EXCEPT ![n] = 0] /\ \A k \in Names \ {n} : cur'[k] = cur[k]
    /\ cur'[n] = 0
    /\ hurt' = hurt \cup {loc[q].msg : q \in Saving}
    /\ Others(p) /\ \A q \in Procs \ {p} : ~loc'[q].lone
    /\ UNCHANGED <<made, index, index2, content, sent, given, late, raced, mailed>>

LEMMA UnlinkFacts ==
    ASSUME Typed, SaveInv, NEW p \in Procs, NEW n \in Names, NEW w \in Steps, NEW l \in Locals,
           Unlink(n), pc' = [pc EXCEPT ![p] = w], loc' = ClearedUnder(p, l),
           clears' \in 0..MaxClears
    PROVE  Typed' /\ Unlinked(p, n) /\ pc'[p] = w /\ loc'[p] = l
<1>1. /\ cur' = [cur EXCEPT ![n] = 0]
      /\ hurt' = hurt \cup {loc[q].msg : q \in Saving}
      /\ UNCHANGED <<made, index, index2, content, sent, given, late, raced, mailed>>
  BY DEF Unlink
<1>2. cur' \in [Names -> Nat] /\ cur'[n] = 0 /\ \A k \in Names \ {n} : cur'[k] = cur[k]
  BY <1>1 DEF Typed
<1>3. /\ loc' = [q \in Procs |-> loc'[q]] /\ loc'[p] = l
      /\ \A q \in Procs \ {p} : loc'[q] = [loc[q] EXCEPT !.lone = FALSE]
  BY DEF ClearedUnder
<1>4. /\ LocTypes' /\ Others(p) /\ pc'[p] = w
      /\ \A q \in Procs \ {p} : loc'[q] = [loc[q] EXCEPT !.lone = FALSE] => ~loc'[q].lone
  <2>1. LocTypes
    BY TypedParts
  <2>2. \A q \in Procs \ {p} : loc'[q] = loc[q] \/ loc'[q] = [loc[q] EXCEPT !.lone = FALSE]
    BY <1>3
  <2>3. QED
    BY <1>3, <2>1, <2>2, Disturbed
<1>5. \A q \in Saving : loc[q].msg \in Msgs
  BY DEF SaveInv, Typed, Msgs
<1>6. MarkTypes'
  BY <1>1, <1>5, TypedParts DEF MarkTypes
<1>7. FileTypes' /\ RaceTypes'
  BY <1>1, <1>2, TypedParts DEF FileTypes, RaceTypes
<1>8. Typed'
  BY <1>4, <1>6, <1>7, TypedPartsNext
<1>9. \A q \in Procs \ {p} : ~loc'[q].lone
  BY <1>3, <1>4
<1>10. QED
  BY <1>1, <1>2, <1>3, <1>4, <1>8, <1>9 DEF Unlinked

LEMMA UnlinkIndexFacts ==
    ASSUME Typed, SaveInv, NEW p \in Procs, UnlinkIndex(p)
    PROVE  /\ Typed' /\ Unlinked(p, "index") /\ pc'[p] = "unlink2"
           /\ \/ /\ pc[p] = "idle" /\ clears' = clears + 1
                 /\ wiped' = wiped \cup MsgsOf(Heads)
              \/ pc[p] = "unlink" /\ UNCHANGED <<clears, wiped>>
           /\ Heads' = <<>> /\ Index2' = Index2 /\ Heads2' = Heads2
           /\ \A pos \in Nat : TextAt(pos)' = TextAt(pos)
<1>1. PICK job \in {"clear", "mail"} :
          /\ \/ job = "clear" /\ Does(p, "clear") /\ clears < MaxClears /\ clears' = clears + 1
             \/ job = "mail" /\ pc[p] = "unlink" /\ UNCHANGED clears
          /\ Unlink("index")
          /\ pc' = [pc EXCEPT ![p] = "unlink2"]
          /\ loc' = ClearedUnder(p, [loc[p] EXCEPT !.job = job])
          /\ wiped' = IF job = "clear" THEN wiped \cup MsgsOf(Heads) ELSE wiped
  BY DEF UnlinkIndex
<1> DEFINE l == [loc[p] EXCEPT !.job = job]
<1>2. l \in Locals
  <2>1. job \in AllJobs
    BY DEF AllJobs
  <2>2. QED
    BY <2>1, Own DEF Locals
<1> HIDE DEF l
<1>3. clears' \in 0..MaxClears /\ "unlink2" \in Steps /\ "index" \in Names
  BY <1>1 DEF Typed, Steps, Names
<1>4. Typed' /\ Unlinked(p, "index") /\ pc'[p] = "unlink2"
  BY <1>1, <1>2, <1>3, UnlinkFacts DEF l
<1>5. cur'["index"] = 0 /\ cur'["index2"] = cur["index2"] /\ cur'["content"] = cur["content"]
      /\ UNCHANGED <<index2, content>>
  BY <1>4 DEF Unlinked, Names
<1>6. /\ Heads' = <<>> /\ Index2' = Index2 /\ Heads2' = Heads2
      /\ \A pos \in Nat : TextAt(pos)' = TextAt(pos)
  BY <1>5 DEF Heads, Index2, Heads2, TextAt
<1>7. \/ pc[p] = "idle" /\ clears' = clears + 1 /\ wiped' = wiped \cup MsgsOf(Heads)
      \/ pc[p] = "unlink" /\ UNCHANGED <<clears, wiped>>
  BY <1>1 DEF Does
<1>8. QED
  BY <1>4, <1>6, <1>7

LEMMA UnlinkIndex2Facts ==
    ASSUME Typed, SaveInv, NEW p \in Procs, UnlinkIndex2(p)
    PROVE  /\ Typed' /\ Unlinked(p, "index2") /\ pc[p] = "unlink2" /\ pc'[p] = "unlink_content"
           /\ UNCHANGED <<clears, wiped>>
           /\ Heads' = Heads /\ Index2' = NewIndex2 /\ Heads2' = <<>>
           /\ \A pos \in Nat : TextAt(pos)' = TextAt(pos)
<1>1. /\ pc[p] = "unlink2" /\ Unlink("index2") /\ pc' = [pc EXCEPT ![p] = "unlink_content"]
      /\ loc' = ClearedUnder(p, loc[p]) /\ UNCHANGED <<wiped, clears>>
  BY DEF UnlinkIndex2
<1>2. clears' \in 0..MaxClears /\ "unlink_content" \in Steps /\ "index2" \in Names
      /\ loc[p] \in Locals
  BY <1>1, Own DEF Typed, Steps, Names
<1>3. Typed' /\ Unlinked(p, "index2") /\ pc'[p] = "unlink_content"
  BY <1>1, <1>2, UnlinkFacts
<1>4. cur'["index2"] = 0 /\ cur'["index"] = cur["index"] /\ cur'["content"] = cur["content"]
      /\ UNCHANGED <<index, content>>
  BY <1>3 DEF Unlinked, Names
<1>5. /\ Heads' = Heads /\ Index2' = NewIndex2
      /\ \A pos \in Nat : TextAt(pos)' = TextAt(pos)
  BY <1>4 DEF Heads, Index2, TextAt
<1>6. Heads2' = <<>>
  BY <1>5 DEF Heads2, NewIndex2
<1>7. QED
  BY <1>1, <1>3, <1>5, <1>6

LEMMA UnlinkContentFacts ==
    ASSUME Typed, SaveInv, NEW p \in Procs, UnlinkContent(p)
    PROVE  /\ Typed' /\ Unlinked(p, "content") /\ pc[p] = "unlink_content" /\ pc'[p] = "idle"
           /\ UNCHANGED <<clears, wiped>>
           /\ Heads' = Heads /\ Index2' = Index2 /\ Heads2' = Heads2
<1>1. /\ pc[p] = "unlink_content" /\ Unlink("content") /\ pc' = [pc EXCEPT ![p] = "idle"]
      /\ loc' = ClearedUnder(p, NoLocals) /\ UNCHANGED <<wiped, clears>>
  BY DEF UnlinkContent
<1>2. clears' \in 0..MaxClears /\ "idle" \in Steps /\ "content" \in Names
  BY <1>1 DEF Typed, Steps, Names
<1>3. Typed' /\ Unlinked(p, "content") /\ pc'[p] = "idle"
  BY <1>1, <1>2, NoLocalsType, UnlinkFacts
<1>4. cur'["index"] = cur["index"] /\ cur'["index2"] = cur["index2"] /\ UNCHANGED <<index, index2>>
  BY <1>3 DEF Unlinked, Names
<1>5. Heads' = Heads /\ Index2' = Index2 /\ Heads2' = Heads2
  BY <1>4 DEF Heads, Index2, Heads2
<1>6. QED
  BY <1>1, <1>3, <1>5

-----------------------------------------------------------------------------
(***************************************************************************)
(* The invariant holds at the start, and the steps that leave the files    *)
(* and the savers alone keep it.                                           *)
(***************************************************************************)
FilePart == /\ FileInv /\ LockInv /\ CountInv /\ SaveInv /\ HeadInv /\ Head2Inv
            /\ SkipInv /\ OnceInv /\ EpochInv /\ TextInv

LEMMA InitInv == ASSUME Init PROVE IInv
<1>1. /\ cur = [n \in Names |-> 0] /\ made = [n \in Names |-> 0]
      /\ index = [i \in Inodes |-> <<>>] /\ index2 = [i \in Inodes |-> NewIndex2]
      /\ content = [i \in Inodes |-> <<>>]
      /\ pc = [p \in Procs |-> "idle"] /\ loc = [p \in Procs |-> NoLocals]
      /\ sent = 0 /\ given = [m \in Msgs |-> 0] /\ hurt = {} /\ late = {} /\ clears = 0
  BY DEF Init
<1>2. Typed
  <2>1. FileTypes
    BY <1>1 DEF FileTypes, NewIndex2
  <2>2. LocTypes
    BY <1>1, NoLocalsType DEF LocTypes, Steps
  <2>3. MarkTypes
    BY <1>1 DEF MarkTypes
  <2>4. RaceTypes
    BY Zenon DEF Init, RaceTypes
  <2>5. QED
    BY <2>1, <2>2, <2>3, <2>4, TypedParts
<1>3. \A p \in Procs : pc[p] = "idle"
  BY <1>1
<1>4. Saving = {} /\ Heads = <<>> /\ Heads2 = <<>>
  BY <1>1, <1>3 DEF Saving, Heads, Heads2, Index2, NewIndex2, Names
<1>5. RoomInv
  <2>1. \A n \in Names : Pend(n) = {}
    BY <1>3 DEF Pend
  <2>2. \A n \in Names : IsFiniteSet(Pend(n)) /\ Cardinality(Pend(n)) = 0
    BY <2>1, FS_EmptySet
  <2>3. QED
    BY <1>1, <2>2 DEF RoomInv
<1>6. FileInv /\ LockInv /\ CountInv
  BY <1>1, <1>3 DEF FileInv, LockInv, CountInv, NewIndex2
<1>7. SaveInv /\ HeadInv /\ Head2Inv
  BY <1>1, <1>4 DEF SaveInv, HeadInv, Head2Inv, NewIndex2
<1>8. SkipInv /\ OnceInv
  BY <1>1, <1>3 DEF SkipInv, OnceInv, NewIndex2
<1>9. EpochInv /\ TextInv
  BY <1>3, <1>4 DEF EpochInv, TextInv, Clearing
<1>10. ShowInv /\ MailInv
  BY <1>3 DEF ShowInv, ShowPart, MailInv, MailPart
<1>11. KeepInv
  BY <1>1, <1>3, <1>4 DEF KeepInv, KeepPart, Safe
<1>12. QED
  BY <1>2, <1>5, <1>6, <1>7, <1>8, <1>9, <1>10, <1>11 DEF IInv

LEMMA Places ==
    ASSUME Typed, RoomInv
    PROVE  /\ \A p \in Procs : loc[p].pos \in Nat
           /\ \A k \in 1..Len(Heads) : Heads[k].msg \in Msgs /\ Heads[k].pos \in Nat
           /\ \A k \in 1..Len(Heads2) : Heads2[k].msg \in Msgs /\ Heads2[k].pos \in Nat
           /\ Len(Heads) \in Nat /\ Len(Heads2) \in Nat
<1>1. Heads \in Seq(Header) /\ Heads2 \in Seq(Header)
  BY Views
<1>2. \A s \in Seq(Header) : \A k \in 1..Len(s) : s[k].msg \in Msgs /\ s[k].pos \in Nat
  <2>1. ASSUME NEW s \in Seq(Header), NEW k \in 1..Len(s)
        PROVE  s[k].msg \in Msgs /\ s[k].pos \in Nat
    <3>1. s[k] \in Header
      OBVIOUS
    <3>2. QED
      BY <3>1 DEF Header
  <2>2. QED
    BY <2>1
<1>3. QED
  BY <1>1, <1>2, Own

-----------------------------------------------------------------------------
(***************************************************************************)
(* What several steps do to parts of the invariant.                        *)
(***************************************************************************)
Unlinks == {"unlink", "unlink2", "unlink_content"}
Mails == {"mail_copy", "mail_send", "unlink"}
Views5 == {"take", "advance", "load", "load_text", "shown"}

LEMMA RoomKept ==
    ASSUME Typed, Typed', RoomInv, NEW p \in Procs, Others(p),
           pc[p] \notin Unlinks, pc'[p] \notin Unlinks, UNCHANGED <<cur, made, clears>>
    PROVE  RoomInv'
<1>1. ASSUME NEW n \in Names PROVE Pend(n)' = Pend(n)
  BY DEF Pend, Others, Unlinks
<1>2. QED
  BY <1>1 DEF RoomInv

(* One more inode under a name, which leads to it. *)
LEMMA RoomOpen ==
    ASSUME Typed, Typed', RoomInv, FileInv, NEW p \in Procs, Others(p), NEW n \in Names, Open(n),
           pc[p] \notin Unlinks, pc'[p] \notin Unlinks,
           UNCHANGED <<index, index2, content, clears>>
    PROVE  RoomInv'
<1>1. ASSUME NEW k \in Names PROVE Pend(k)' = Pend(k)
  BY DEF Pend, Others, Unlinks
<1>2. /\ cur'[n] = Opened(n) /\ Opened(n) \in 1..made'[n]
      /\ cur[n] # 0 => cur' = cur /\ made' = made
      /\ cur[n] = 0 => made'[n] = made[n] + 1
      /\ \A k \in Names \ {n} : cur'[k] = cur[k] /\ made'[k] = made[k]
  BY OpenFacts
<1>3. \A k \in Names : IsFiniteSet(Pend(k)) /\ Cardinality(Pend(k)) \in Nat
  BY FS_CardinalityType DEF RoomInv
<1>4. \A k \in Names :
         /\ cur[k] <= made[k]
         /\ made[k] + Cardinality(Pend(k)) <= clears + (IF cur[k] = 0 THEN 0 ELSE 1)
  BY DEF RoomInv
<1>5. ASSUME NEW k \in Names
      PROVE  /\ cur'[k] <= made'[k]
             /\ made'[k] + Cardinality(Pend(k)) <= clears + (IF cur'[k] = 0 THEN 0 ELSE 1)
  <2>1. made[k] \in Nat /\ made'[k] \in Nat /\ cur[k] \in Nat /\ cur'[k] \in Nat /\ clears \in Nat
    BY DEF Typed
  <2>2. QED
    BY <1>2, <1>3, <1>4, <2>1
<1>6. QED
  BY <1>1, <1>3, <1>5 DEF RoomInv

LEMMA FileOpen ==
    ASSUME Typed, Typed', RoomInv, FileInv, NEW p \in Procs, Others(p), NEW n \in Names, Open(n),
           UNCHANGED <<index, index2, content>>,
           pc'[p] \in {"open_content", "head", "text"} => loc'[p].ino \in 1..made'["index"],
           pc'[p] \in {"head", "text"} => loc'[p].cino \in 1..made'["content"],
           pc'[p] \in {"head2", "advance"} => loc'[p].ino \in 1..made'["index2"]
    PROVE  FileInv'
<1>1. \A k \in Names : made[k] <= made'[k] /\ made[k] \in Nat /\ made'[k] \in Nat
  BY OpenFacts DEF Typed
<1>2. {"index", "index2", "content"} \subseteq Names
  BY DEF Names
<1>3. \A i \in Inodes : /\ i > made'["index"] => index'[i] = <<>>
                        /\ i > made'["index2"] => index2'[i] = NewIndex2
                        /\ i > made'["content"] => content'[i] = <<>>
  BY <1>1, <1>2 DEF FileInv, Inodes
<1>4. ASSUME NEW q \in Procs
      PROVE  /\ pc'[q] \in {"open_content", "head", "text"} => loc'[q].ino \in 1..made'["index"]
             /\ pc'[q] \in {"head", "text"} => loc'[q].cino \in 1..made'["content"]
             /\ pc'[q] \in {"head2", "advance"} => loc'[q].ino \in 1..made'["index2"]
  <2>1. CASE q = p
    BY <2>1
  <2>2. CASE q # p
    <3>1. pc'[q] = pc[q] /\ loc'[q].ino = loc[q].ino /\ loc'[q].cino = loc[q].cino
      BY <2>2 DEF Others
    <3>2. QED
      BY <1>1, <1>2, <3>1 DEF FileInv
  <2>3. QED
    BY <2>1, <2>2
<1>5. QED
  BY <1>3, <1>4 DEF FileInv

(* Who has a msgindex open that is gone by now does not see the new one. *)
LEMMA AdriftOpen ==
    ASSUME Typed, RoomInv, FileInv, NEW p \in Procs, Others(p), NEW n \in Names, Open(n),
           UNCHANGED <<index, index2, content>>
    PROVE  /\ Adrift' \subseteq Adrift \cup {p}
           /\ \A q \in Procs \ {p} :
                 /\ pc[q] \in {"open_content", "head", "text"} /\ loc[q].ino = cur["index"]
                       => loc'[q].ino = cur'["index"]
                 /\ pc[q] \in {"head", "text"} /\ loc[q].cino = cur["content"]
                       => loc'[q].cino = cur'["content"]
                 /\ pc[q] \in {"head2", "advance"} /\ loc[q].ino = cur["index2"]
                       => loc'[q].ino = cur'["index2"]
<1>1. \A k \in Names : cur[k] # 0 => cur'[k] = cur[k]
  BY OpenFacts
<1>2. {"index", "index2", "content"} \subseteq Names
  BY DEF Names
<1>3. \A q \in Procs \ {p} :
         /\ pc[q] \in {"open_content", "head", "text"} /\ loc[q].ino = cur["index"]
               => loc'[q].ino = cur'["index"]
         /\ pc[q] \in {"head", "text"} /\ loc[q].cino = cur["content"]
               => loc'[q].cino = cur'["content"]
         /\ pc[q] \in {"head2", "advance"} /\ loc[q].ino = cur["index2"]
               => loc'[q].ino = cur'["index2"]
  BY <1>1, <1>2 DEF FileInv, Others
<1>4. QED
  BY <1>3 DEF Adrift, Others

LEMMA CurFacts ==
    ASSUME Typed, RoomInv
    PROVE  /\ \A k \in 1..Len(Heads) : cur["index"] \in Inodes
                 /\ k \in 1..Len(index[cur["index"]]) /\ Heads[k] = index[cur["index"]][k]
           /\ \A k \in 1..Len(Heads2) : cur["index2"] \in Inodes
                 /\ k \in 1..Len(index2[cur["index2"]].heads)
                 /\ Heads2[k] = index2[cur["index2"]].heads[k]
<1>1. cur["index"] \in 0..MaxClears + 1 /\ cur["index2"] \in 0..MaxClears + 1
  BY Views DEF Names
<1>2. ASSUME NEW k \in 1..Len(Heads)
      PROVE  cur["index"] \in Inodes /\ Heads = index[cur["index"]]
  <2>1. CASE cur["index"] = 0
    BY <1>2, <2>1 DEF Heads
  <2>2. CASE cur["index"] # 0
    BY <1>1, <2>2 DEF Heads, Inodes
  <2>3. QED
    BY <2>1, <2>2
<1>3. ASSUME NEW k \in 1..Len(Heads2)
      PROVE  cur["index2"] \in Inodes /\ Heads2 = index2[cur["index2"]].heads
  <2>1. CASE cur["index2"] = 0
    BY <1>3, <2>1 DEF Heads2, Index2, NewIndex2
  <2>2. CASE cur["index2"] # 0
    BY <1>1, <2>2 DEF Heads2, Index2, Inodes
  <2>3. QED
    BY <2>1, <2>2
<1>4. QED
  BY <1>2, <1>3

LEMMA HeaderFacts ==
    ASSUME Typed
    PROVE  /\ \A i \in Inodes : \A k \in 1..Len(index[i]) :
                 index[i][k].msg \in Msgs /\ index[i][k].pos \in Nat
           /\ \A i \in Inodes : \A k \in 1..Len(index2[i].heads) :
                 index2[i].heads[k].msg \in Msgs /\ index2[i].heads[k].pos \in Nat
           /\ \A i \in Inodes : Len(index[i]) \in Nat /\ Len(index2[i].heads) \in Nat
<1>1. \A s \in Seq(Header) : Len(s) \in Nat
                             /\ \A k \in 1..Len(s) : s[k].msg \in Msgs /\ s[k].pos \in Nat
  <2>1. ASSUME NEW s \in Seq(Header), NEW k \in 1..Len(s)
        PROVE  s[k].msg \in Msgs /\ s[k].pos \in Nat
    <3>1. s[k] \in Header
      OBVIOUS
    <3>2. QED
      BY <3>1 DEF Header
  <2>2. QED
    BY <2>1
<1>2. \A i \in Inodes : index[i] \in Seq(Header) /\ index2[i].heads \in Seq(Header)
  BY DEF Typed
<1>3. QED
  BY <1>1, <1>2

(* One saver goes on, or is done. *)
LEMMA SaveKept ==
    ASSUME SaveInv, NEW p \in Procs, Others(p), UNCHANGED <<sent, given>>,
           pc'[p] \in Saves => pc[p] \in Saves /\ loc'[p].msg = loc[p].msg
    PROVE  SaveInv' /\ Saving' \subseteq Saving /\ \A q \in Saving' : loc'[q].msg = loc[q].msg
<1>1. Saving' \subseteq Saving /\ \A q \in Saving' : loc'[q].msg = loc[q].msg
  BY DEF Saving, Saves, Others
<1>2. QED
  BY <1>1 DEF SaveInv

LEMMA HeadKept ==
    ASSUME HeadInv, NEW p \in Procs, Others(p), UNCHANGED <<index, sent>>,
           pc'[p] \in Saves => pc[p] \in Saves /\ loc'[p].msg = loc[p].msg,
           pc'[p] \in Saves /\ pc[p] \in {"text", "open2", "head2"} =>
               pc'[p] \in {"text", "open2", "head2"} /\ loc'[p].pos = loc[p].pos
    PROVE  HeadInv'
<1>1. \A q \in Saving' :
        /\ q \in Saving /\ loc'[q].msg = loc[q].msg
        /\ pc[q] \in {"text", "open2", "head2"} =>
             pc'[q] \in {"text", "open2", "head2"} /\ loc'[q].pos = loc[q].pos
  BY DEF Saving, Saves, Others
<1>2. QED
  BY <1>1 DEF HeadInv

LEMMA Head2Kept ==
    ASSUME Head2Inv, NEW p \in Procs, Others(p), sent' = sent,
           \A i \in Inodes : index2'[i].heads = index2[i].heads,
           pc'[p] \in Saves => pc[p] \in Saves /\ loc'[p].msg = loc[p].msg
    PROVE  Head2Inv'
<1>1. \A q \in Saving' : q \in Saving /\ loc'[q].msg = loc[q].msg
  BY DEF Saving, Saves, Others
<1>2. QED
  BY <1>1, SMTT(30) DEF Head2Inv

Clears == {"unlink2", "unlink_content"}

LEMMA EpochKept ==
    ASSUME Typed, Typed', RoomInv, EpochInv, NEW p \in Procs, Others(p), hurt \subseteq hurt',
           pc[p] \notin Clears, pc'[p] \notin Clears, Adrift' \subseteq Adrift,
           pc'[p] \in Saves /\ loc'[p].msg \notin hurt' =>
              /\ Clearing = {} /\ Adrift = {}
              /\ pc'[p] \in {"head", "text"} => loc'[p].cino = cur'["content"]
              /\ pc'[p] = "head2" => loc'[p].ino = cur'["index2"],
           \A q \in Procs \ {p} :
              /\ pc[q] \in {"head", "text"} /\ loc[q].cino = cur["content"]
                    => loc'[q].cino = cur'["content"]
              /\ pc[q] = "head2" /\ loc[q].ino = cur["index2"]
                    => loc'[q].ino = cur'["index2"],
           Clearing # {} => \A k \in 1..Len(Heads') :
              (k \in 1..Len(Heads) /\ Heads'[k] = Heads[k]) \/ Heads'[k].msg \in hurt',
           (\E q \in Procs : pc[q] = "unlink_content") => \A k \in 1..Len(Heads2') :
              (k \in 1..Len(Heads2) /\ Heads2'[k] = Heads2[k]) \/ Heads2'[k].msg \in hurt'
    PROVE  EpochInv'
<1>1. Clearing' = Clearing
  BY DEF Clearing, Clears, Others
<1>2. (\E q \in Procs : pc'[q] = "unlink_content") => \E q \in Procs : pc[q] = "unlink_content"
  BY DEF Others, Clears
<1>3. ASSUME NEW q \in Saving', loc'[q].msg \notin hurt'
      PROVE  /\ Clearing = {} /\ Adrift = {}
             /\ pc'[q] \in {"head", "text"} => loc'[q].cino = cur'["content"]
             /\ pc'[q] = "head2" => loc'[q].ino = cur'["index2"]
  <2>1. CASE q = p
    BY <1>3, <2>1 DEF Saving, Saves
  <2>2. CASE q # p
    <3>1. q \in Saving /\ loc[q].msg \notin hurt /\ pc'[q] = pc[q] /\ q \in Procs
      BY <1>3, <2>2 DEF Others, Saving
    <3>2. QED
      BY <2>2, <3>1 DEF EpochInv
  <2>3. QED
    BY <2>1, <2>2
<1>4. Clearing # {} => \A k \in 1..Len(Heads') : Heads'[k].msg \in hurt'
  BY DEF EpochInv
<1>5. (\E q \in Procs : pc[q] = "unlink_content") => \A k \in 1..Len(Heads2') : Heads2'[k].msg \in hurt'
  BY DEF EpochInv
<1>6. QED
  BY <1>1, <1>2, <1>3, <1>4, <1>5 DEF EpochInv

LEMMA TextKept ==
    ASSUME Typed, RoomInv, SaveInv, TextInv, NEW p \in Procs, Others(p), hurt \subseteq hurt',
           \A m \in Msgs : \A pos \in Nat : Good(m, pos) => Good(m, pos)',
           \A q \in Procs \ {p} : pc[q] = "text" /\ loc[q].msg \notin hurt' =>
              Len(content'[loc[q].cino]) = Len(content[loc[q].cino]),
           pc'[p] \in Saves /\ loc'[p].msg \notin hurt' =>
              /\ pc'[p] = "text" => loc'[p].pos = Len(content'[loc'[p].cino])
              /\ pc'[p] \in {"open2", "head2"} => Good(loc[p].msg, loc[p].pos)',
           \A k \in 1..Len(Heads2') :
              (k \in 1..Len(Heads2) /\ Heads2'[k] = Heads2[k])
              \/ (Heads2'[k].msg \notin hurt' => Good(Heads2[k].msg, Heads2[k].pos)'),
           \A k \in 1..Len(Heads') :
              (k \in 1..Len(Heads) /\ Heads'[k] = Heads[k])
              \/ \E q \in Saving' : loc'[q].msg = Heads'[k].msg,
           pc[p] \in Saves /\ pc'[p] \in Saves => loc'[p].msg = loc[p].msg,
           pc[p] \in Saves /\ pc'[p] \notin Saves /\ loc[p].msg \notin hurt' =>
              \A k \in 1..Len(Heads') : Heads'[k].msg = loc[p].msg
                                       => Good(Heads[k].msg, Heads[k].pos)'
    PROVE  TextInv'
<1>1. \A q \in Procs \ {p} : /\ pc'[q] = pc[q] /\ loc'[q].msg = loc[q].msg
                             /\ loc'[q].pos = loc[q].pos /\ loc'[q].cino = loc[q].cino
  BY DEF Others
<1>2. ASSUME NEW q \in Saving', loc'[q].msg \notin hurt'
      PROVE  /\ pc'[q] = "text" => loc'[q].pos = Len(content'[loc'[q].cino])
             /\ pc'[q] \in {"open2", "head2"} => Good(loc[q].msg, loc[q].pos)'
  <2>1. CASE q = p
    BY <1>2, <2>1 DEF Saving, Saves
  <2>2. CASE q # p
    <3>1. q \in Saving /\ loc[q].msg \notin hurt /\ q \in Procs
      BY <1>1, <1>2, <2>2 DEF Saving
    <3>2. /\ pc[q] = "text" => loc[q].pos = Len(content[loc[q].cino])
          /\ pc[q] \in {"open2", "head2"} => Good(loc[q].msg, loc[q].pos)
          /\ loc[q].pos \in Nat /\ loc[q].msg \in Msgs
      BY <3>1, Places DEF TextInv, SaveInv, Typed, Msgs
    <3>3. pc[q] \in {"open2", "head2"} => Good(loc[q].msg, loc[q].pos)'
      BY <1>1, <2>2, <3>1, <3>2
    <3>4. pc[q] = "text" => loc'[q].pos = Len(content'[loc'[q].cino])
      BY <1>1, <1>2, <2>2, <3>1, <3>2
    <3>5. QED
      BY <1>1, <2>2, <3>1, <3>3, <3>4
  <2>3. QED
    BY <2>1, <2>2
<1>3. ASSUME NEW k \in 1..Len(Heads2'), Heads2'[k].msg \notin hurt'
      PROVE  Good(Heads2[k].msg, Heads2[k].pos)'
  <2>1. CASE k \in 1..Len(Heads2) /\ Heads2'[k] = Heads2[k]
    <3>1. Good(Heads2[k].msg, Heads2[k].pos)
          /\ Heads2[k].pos \in Nat /\ Heads2[k].msg \in Msgs
      BY <1>3, <2>1, Places DEF TextInv
    <3>2. QED
      BY <2>1, <3>1
  <2>2. QED
    BY <1>3, <2>1
<1>4. ASSUME NEW k \in 1..Len(Heads'), Heads'[k].msg \notin hurt',
             \A q \in Saving' : loc'[q].msg # Heads'[k].msg
      PROVE  Good(Heads[k].msg, Heads[k].pos)'
  <2>1. k \in 1..Len(Heads) /\ Heads'[k] = Heads[k]
    BY <1>4
  <2>2. CASE \E q \in Saving : loc[q].msg = Heads[k].msg
    <3>1. PICK q \in Saving : loc[q].msg = Heads[k].msg
      BY <2>2
    <3>2. q = p
      <4>1. SUFFICES ASSUME q # p PROVE FALSE
        OBVIOUS
      <4>2. q \in Saving' /\ loc'[q].msg = loc[q].msg
        BY <1>1, <4>1 DEF Saving
      <4>3. QED
        BY <1>4, <2>1, <3>1, <4>2
    <3>3. pc[p] \in Saves /\ pc'[p] \notin Saves
      <4>1. pc[p] \in Saves
        BY <3>2 DEF Saving, Saves
      <4>2. pc'[p] \in Saves => p \in Saving' /\ loc'[p].msg = loc[p].msg
        BY <4>1 DEF Saving, Saves
      <4>3. QED
        BY <1>4, <2>1, <3>1, <3>2, <4>1, <4>2
    <3>4. QED
      BY <1>4, <2>1, <3>1, <3>2, <3>3
  <2>3. CASE ~ \E q \in Saving : loc[q].msg = Heads[k].msg
    <3>1. Good(Heads[k].msg, Heads[k].pos)
          /\ Heads[k].pos \in Nat /\ Heads[k].msg \in Msgs
      BY <1>4, <2>1, <2>3, Places DEF TextInv
    <3>2. QED
      BY <2>1, <3>1
  <2>4. QED
    BY <2>2, <2>3
<1>5. QED
  BY <1>2, <1>3, <1>4 DEF TextInv

LEMMA ReadKept ==
    ASSUME Typed, Typed', CountInv, SkipInv, OnceInv, NEW p \in Procs, Others(p),
           pc[p] # "advance", pc'[p] # "advance", UNCHANGED <<index2, given, raced>>
    PROVE  CountInv' /\ SkipInv' /\ OnceInv'
<1>1. \A q \in Procs : pc[q] = "advance" \/ pc'[q] = "advance" =>
          pc'[q] = pc[q] /\ loc'[q].at = loc[q].at /\ loc'[q].ino = loc[q].ino
  BY DEF Others
<1>2. \A i \in Inodes : Advancing(i)' = Advancing(i)
  BY <1>1 DEF Advancing
<1>3. CountInv'
  BY <1>1 DEF CountInv
<1>4. SkipInv'
  BY <1>1 DEF SkipInv
<1>5. OnceInv'
  BY <1>1, <1>2 DEF OnceInv
<1>6. QED
  BY <1>3, <1>4, <1>5

(* What the others have in their hands. *)
LEMMA ShowOthers ==
    ASSUME Typed, FileInv, ShowInv, NEW p \in Procs, Others(p), hurt \subseteq hurt',
           \A q \in Procs \ {p} : pc[q] = "take" /\ loc'[q].lone /\ get_unreadcount > 0
                                     => get_unreadcount' > 0,
           Len(Heads2) \in Nat, Len(Heads2') \in Nat, Len(Heads2') >= Len(Heads2),
           \A k \in 1..Len(Heads2) : Heads2'[k] = Heads2[k],
           cur["index2"] # 0 => cur'["index2"] = cur["index2"]
    PROVE  \A q \in Procs \ {p} : ShowPart(q)'
<1>1. ASSUME NEW q \in Procs \ {p} PROVE ShowPart(q)'
  <2>1. /\ pc'[q] = pc[q] /\ loc'[q].job = loc[q].job /\ loc'[q].ino = loc[q].ino
        /\ loc'[q].at = loc[q].at /\ loc'[q].head = loc[q].head /\ loc'[q].text = loc[q].text
        /\ (loc'[q].lone => loc[q].lone)
    BY DEF Others
  <2>2. pc[q] = "advance" => loc[q].ino # 0
    BY DEF FileInv
  <2>3. pc[q] = "take" => loc[q].job \in {"r_msg", "web"}
    BY DEF ShowInv, ShowPart
  <2>4. loc[q].lone =>
          /\ pc[q] = "take" /\ loc[q].job = "r_msg" => get_unreadcount > 0
          /\ pc[q] = "advance" => loc[q].ino = cur["index2"]
          /\ pc[q] \in {"advance", "load"} => loc[q].at \in 0..Len(Heads2) - 1
          /\ pc[q] = "load_text" => \E k \in 1..Len(Heads2) : loc[q].head = Heads2[k]
          /\ pc[q] = "shown" /\ loc[q].head.msg \notin hurt =>
                loc[q].head.msg # 0 /\ loc[q].text = loc[q].head.msg
    BY DEF ShowInv, ShowPart
  <2>5. pc[q] \in {"advance", "load"} => loc[q].at \in Int
    BY Own
  <2>6. loc'[q].lone =>
          /\ pc'[q] = "take" /\ loc'[q].job = "r_msg" => get_unreadcount' > 0
          /\ pc'[q] = "advance" => loc'[q].ino = cur'["index2"]
    BY <2>1, <2>2, <2>4
  <2>7. loc'[q].lone =>
          /\ pc'[q] \in {"advance", "load"} => loc'[q].at \in 0..Len(Heads2') - 1
          /\ pc'[q] = "load_text" => \E k \in 1..Len(Heads2') : loc'[q].head = Heads2'[k]
    BY <2>1, <2>4, <2>5
  <2>8. loc'[q].lone /\ pc'[q] = "shown" /\ loc'[q].head.msg \notin hurt' =>
          loc'[q].head.msg # 0 /\ loc'[q].text = loc'[q].head.msg
    BY <2>1, <2>4
  <2>9. pc'[q] = "take" => loc'[q].job \in {"r_msg", "web"}
    BY <2>1, <2>3
  <2>10. QED
    BY <2>6, <2>7, <2>8, <2>9 DEF ShowPart
<1>2. QED
  BY <1>1

LEMMA ShowKept ==
    ASSUME Typed, FileInv, ShowInv, NEW p \in Procs, Others(p), pc'[p] \notin Views5,
           hurt \subseteq hurt', get_unreadcount > 0 => get_unreadcount' > 0,
           Len(Heads2) \in Nat, Len(Heads2') \in Nat, Len(Heads2') >= Len(Heads2),
           \A k \in 1..Len(Heads2) : Heads2'[k] = Heads2[k],
           cur["index2"] # 0 => cur'["index2"] = cur["index2"]
    PROVE  ShowInv'
<1>1. \A q \in Procs \ {p} : ShowPart(q)'
  BY ShowOthers
<1>2. ShowPart(p)'
  BY DEF ShowPart, Views5
<1>3. QED
  BY <1>1, <1>2 DEF ShowInv

LEMMA ShowSame ==
    ASSUME Typed, RoomInv, FileInv, ShowInv, NEW p \in Procs, Others(p), pc'[p] \notin Views5,
           Index2' = Index2, Heads2' = Heads2, hurt \subseteq hurt',
           cur["index2"] # 0 => cur'["index2"] = cur["index2"]
    PROVE  ShowInv'
<1>1. get_unreadcount' = get_unreadcount
  BY DEF get_unreadcount
<1>2. Len(Heads2) \in Nat
  BY Places
<1>3. QED
  BY <1>1, <1>2, ShowKept

LEMMA MailKept ==
    ASSUME MailInv, NEW p \in Procs, Others(p), pc'[p] \notin Mails, late \subseteq late',
           pc'[p] \in Saves /\ (\E q \in Procs \ {p} : pc[q] \in Mails) => loc'[p].msg \in late'
    PROVE  MailInv'
<1>1. \A q \in Procs : pc'[q] \in Mails =>
        q # p /\ pc'[q] = pc[q] /\ loc'[q].job = loc[q].job /\ loc'[q].at = loc[q].at
  BY DEF Others
<1>2. ASSUME NEW q \in Procs, pc'[q] \in Mails, NEW r \in Saving' PROVE loc'[r].msg \in late'
  <2>1. q # p /\ pc[q] \in Mails
    BY <1>1, <1>2
  <2>2. CASE r = p
    BY <1>2, <2>1, <2>2 DEF Saving, Saves
  <2>3. CASE r # p
    <3>1. r \in Saving /\ loc'[r].msg = loc[r].msg
      BY <1>2, <2>3 DEF Saving, Others
    <3>2. QED
      BY <2>1, <3>1 DEF MailInv, MailPart, Mails
  <2>4. QED
    BY <2>2, <2>3
<1>3. QED
  BY <1>1, <1>2 DEF MailInv, MailPart, Mails

LEMMA KeepKept ==
    ASSUME Typed, Typed', KeepInv, NEW p \in Procs, Others(p), pc'[p] \notin Mails,
           Safe' \subseteq Safe \/ \A q \in Procs \ {p} : pc[q] \notin Mails,
           \A m \in Safe' : m \notin Safe => InIndex(m, Len(Heads))',
           hurt \subseteq hurt', mailed \subseteq mailed', wiped \subseteq wiped',
           \A m : \A n \in Int : InIndex(m, n) => InIndex(m, n)',
           \A m : InIndex(m, Len(Heads)) => InIndex(m, Len(Heads))',
           loc'[p].msg \notin hurt' /\ pc'[p] \in {"text", "open2", "head2"}
              => InIndex(loc[p].msg, Len(Heads))'
    PROVE  KeepInv'
<1>1. \A m : Kept(m) => Kept(m)'
  BY DEF Kept
<1>2. ASSUME NEW q \in Procs \ {p}
      PROVE  /\ pc'[q] = pc[q] /\ loc'[q].msg = loc[q].msg /\ loc'[q].at = loc[q].at
             /\ loc'[q].copy = loc[q].copy /\ loc[q].at \in Int
  BY Own DEF Others
<1>3. ASSUME NEW q \in Procs, pc'[q] \in {"text", "open2", "head2"}, loc'[q].msg \notin hurt'
      PROVE  InIndex(loc[q].msg, Len(Heads))'
  <2>1. CASE q = p
    BY <1>3, <2>1
  <2>2. CASE q # p
    <3>1. q \in Saving /\ loc[q].msg \notin hurt /\ pc[q] \in {"text", "open2", "head2"}
      BY <1>2, <1>3, <2>2 DEF Saving
    <3>2. InIndex(loc[q].msg, Len(Heads))
      BY <3>1 DEF KeepInv, KeepPart
    <3>3. QED
      BY <1>2, <2>2, <3>2
  <2>3. QED
    BY <2>1, <2>2
<1>4. ASSUME NEW m \in Safe' PROVE InIndex(m, Len(Heads))' \/ Kept(m)'
  BY <1>1 DEF KeepInv, KeepPart
<1>5. ASSUME NEW q \in Procs, NEW m \in Safe'
      PROVE  /\ pc'[q] = "mail_copy" => InIndex(m, loc[q].at)' \/ Kept(m)'
             /\ pc'[q] = "mail_send" => m \in loc'[q].copy \/ Kept(m)'
             /\ pc'[q] = "unlink" => Kept(m)'
  <2>1. CASE q = p
    BY <2>1 DEF Mails
  <2>2. CASE q # p
    <3>1. m \in Safe \/ pc[q] \notin Mails
      BY <2>2
    <3>2. /\ pc[q] = "mail_copy" => InIndex(m, loc[q].at) \/ Kept(m)
          /\ pc[q] = "mail_send" => m \in loc[q].copy \/ Kept(m)
          /\ pc[q] = "unlink" => Kept(m)
      BY <3>1 DEF KeepInv, KeepPart, Mails
    <3>3. InIndex(m, loc[q].at) => InIndex(m, loc[q].at)'
      BY <1>2, <2>2
    <3>4. QED
      BY <1>1, <1>2, <2>2, <3>2, <3>3
  <2>3. QED
    BY <2>1, <2>2
<1>6. \A q \in Saving' : loc'[q].msg \notin hurt' /\ pc'[q] \in {"text", "open2", "head2"}
                            => InIndex(loc[q].msg, Len(Heads))'
  BY <1>3 DEF Saving
<1>7. QED
  BY <1>4, <1>5, <1>6 DEF KeepInv, KeepPart

LEMMA KeepStill ==
    ASSUME Typed, Typed', KeepInv, NEW p \in Procs, Others(p), pc'[p] \notin Mails,
           Safe' \subseteq Safe, hurt \subseteq hurt',
           mailed \subseteq mailed', wiped \subseteq wiped',
           \A m : \A n \in Int : InIndex(m, n) => InIndex(m, n)',
           \A m : InIndex(m, Len(Heads)) => InIndex(m, Len(Heads))',
           loc'[p].msg \notin hurt' /\ pc'[p] \in {"text", "open2", "head2"}
              => InIndex(loc[p].msg, Len(Heads))'
    PROVE  KeepInv'
<1>1. \A m \in Safe' : m \notin Safe => InIndex(m, Len(Heads))'
  OBVIOUS
<1>2. QED
  BY <1>1, KeepKept

LEMMA PlainKeeps ==
    ASSUME Typed, Typed', RoomInv, FilePart, NEW p \in Procs, Plain(p)
    PROVE  /\ FilePart' /\ Saving' = Saving
           /\ \A q \in Saving : loc'[q].msg = loc[q].msg /\ pc'[q] = pc[q]
           /\ Heads' = Heads /\ Index2' = Index2 /\ Heads2' = Heads2
           /\ \A pos \in Nat : TextAt(pos)' = TextAt(pos)
<1>1. UNCHANGED <<cur, made, index, index2, content, sent, hurt, given, raced>>
  BY DEF Plain
<1>2. \A q \in Procs : pc[q] \notin Calm \/ pc'[q] \notin Calm =>
          /\ pc'[q] = pc[q] /\ loc'[q].msg = loc[q].msg /\ loc'[q].ino = loc[q].ino
          /\ loc'[q].cino = loc[q].cino /\ loc'[q].pos = loc[q].pos /\ loc'[q].at = loc[q].at
  BY DEF Plain, Others
<1>3. Saves \cap Calm = {} /\ "advance" \notin Calm /\ "unlink2" \notin Calm
      /\ "unlink_content" \notin Calm
  BY DEF Saves, Calm
<1>4. Saving' = Saving /\ \A q \in Saving : loc'[q].msg = loc[q].msg /\ pc'[q] = pc[q]
  BY <1>2 DEF Saving, Calm
<1>5. Clearing' = Clearing /\ \A i \in Inodes : Advancing(i)' = Advancing(i)
  BY <1>2 DEF Clearing, Advancing, Calm
<1>6. Adrift' = Adrift
  BY <1>1, <1>2 DEF Adrift, Calm
<1>7. /\ Heads' = Heads /\ Index2' = Index2 /\ Heads2' = Heads2
      /\ \A pos \in Nat : TextAt(pos)' = TextAt(pos)
  BY <1>1 DEF Heads, Index2, Heads2, TextAt
<1>8. FileInv' /\ LockInv' /\ CountInv'
  <2>1. FileInv'
    BY <1>1, <1>2 DEF FilePart, FileInv, Calm
  <2>2. LockInv'
    BY <1>2 DEF FilePart, LockInv, Calm
  <2>3. CountInv'
    BY <1>1, <1>2 DEF FilePart, CountInv, Calm
  <2>4. QED
    BY <2>1, <2>2, <2>3
<1>9. SaveInv' /\ HeadInv' /\ Head2Inv'
  BY <1>1, <1>2, <1>4 DEF FilePart, SaveInv, HeadInv, Head2Inv, Saving, Calm
<1>10. SkipInv' /\ OnceInv'
  BY <1>1, <1>2, <1>3, <1>5 DEF FilePart, SkipInv, OnceInv
<1>11. EpochInv'
  <2>1. pc[p] \notin Clears /\ pc'[p] \notin Clears \cup Saves
    BY DEF Plain, Calm, Clears, Saves
  <2>2. \A q \in Procs \ {p} : loc'[q].cino = loc[q].cino /\ loc'[q].ino = loc[q].ino
    BY DEF Plain, Others
  <2>3. QED
    BY <1>1, <1>6, <1>7, <2>1, <2>2, EpochKept DEF FilePart, Plain
<1>12. TextInv'
  <2>1. ASSUME NEW m \in Msgs, NEW pos \in Nat, Good(m, pos) PROVE Good(m, pos)'
    BY <1>1, <1>2, <1>7, <2>1 DEF Good, Calm
  <2>2. pc[p] \notin Saves /\ pc'[p] \notin Saves
    BY DEF Plain, Calm, Saves
  <2>3. QED
    BY <1>1, <1>7, <2>1, <2>2, TextKept DEF FilePart, Plain
<1>13. QED
  BY <1>4, <1>7, <1>8, <1>9, <1>10, <1>11, <1>12 DEF FilePart

-----------------------------------------------------------------------------
(***************************************************************************)
(* The steps of save_msgtext.                                              *)
(***************************************************************************)
LEMMA SendStartKeeps ==
    ASSUME IInv, NEW p \in Procs, SendStart(p)
    PROVE  IInv'
<1>1. /\ Typed /\ RoomInv /\ FileInv /\ LockInv /\ CountInv /\ SaveInv /\ HeadInv /\ Head2Inv
      /\ SkipInv /\ OnceInv /\ EpochInv /\ TextInv /\ ShowInv /\ MailInv /\ KeepInv
  BY DEF IInv
<1>2. /\ Typed' /\ Others(p) /\ pc[p] = "idle" /\ pc'[p] = "open_content"
      /\ loc'[p].msg = sent + 1 /\ loc'[p].ino = Opened("index")
      /\ sent' = sent + 1 /\ Open("index")
      /\ hurt' = IF Clearing # {} \/ Adrift # {} THEN hurt \cup {sent + 1} ELSE hurt
      /\ late' = IF Mailing # {} THEN late \cup {sent + 1} ELSE late
      /\ UNCHANGED <<index, index2, content, clears, given, raced, mailed, wiped>>
  BY <1>1, SendStartFacts
<1>3. "index" \in Names /\ "index2" \in Names /\ "content" \in Names
  BY DEF Names
<1>4. /\ cur'["index"] = Opened("index") /\ Opened("index") \in 1..made'["index"]
      /\ cur'["index2"] = cur["index2"] /\ cur'["content"] = cur["content"]
      /\ Heads' = Heads /\ Index2' = Index2 /\ Heads2' = Heads2
      /\ \A pos \in Nat : TextAt(pos)' = TextAt(pos)
  BY <1>1, <1>2, <1>3, OpenFacts
<1>5. /\ Saving' = Saving \cup {p} /\ p \notin Saving
      /\ \A q \in Saving : q # p /\ pc'[q] = pc[q] /\ loc'[q].msg = loc[q].msg
                           /\ loc'[q].pos = loc[q].pos /\ loc'[q].cino = loc[q].cino
  BY <1>2 DEF Saving, Others
<1>6. sent \in Nat /\ hurt \subseteq hurt' /\ late \subseteq late'
  BY <1>1, <1>2 DEF Typed
<1>7. RoomInv' /\ FileInv'
  <2>1. RoomInv'
    BY <1>1, <1>2, <1>3, RoomOpen DEF Unlinks
  <2>2. FileInv'
    BY <1>1, <1>2, <1>3, <1>4, FileOpen
  <2>3. QED
    BY <2>1, <2>2
<1>8. LockInv'
  BY <1>1, <1>2 DEF LockInv, Others
<1>9. CountInv' /\ SkipInv' /\ OnceInv'
  BY <1>1, <1>2, ReadKept
<1>10. SaveInv'
  <2>1. \A q \in Saving' : loc'[q].msg \in 1..sent'
    BY <1>1, <1>2, <1>5, <1>6 DEF SaveInv
  <2>2. \A q, r \in Saving' : loc'[q].msg = loc'[r].msg => q = r
    BY <1>1, <1>2, <1>5, <1>6 DEF SaveInv
  <2>3. \A m \in Msgs : given'[m] > 0 => m <= sent' /\ \A q \in Saving' : loc'[q].msg # m
    BY <1>1, <1>2, <1>5, <1>6 DEF SaveInv, Msgs
  <2>4. QED
    BY <2>1, <2>2, <2>3 DEF SaveInv
<1>11. HeadInv' /\ Head2Inv'
  <2>1. HeadInv'
    <3>1. ASSUME NEW i \in Inodes, NEW k \in 1..Len(index[i])
          PROVE  /\ index[i][k].msg \in Nat /\ index[i][k].msg <= sent
                 /\ \A q \in Saving : loc[q].msg = index[i][k].msg =>
                       pc[q] \in {"text", "open2", "head2"} /\ loc[q].pos = index[i][k].pos
      <4>1. index[i][k].msg \in Nat
        BY <1>1, HeaderFacts DEF Msgs
      <4>2. QED
        BY <1>1, <4>1 DEF HeadInv
    <3>2. ASSUME NEW i \in Inodes, NEW k \in 1..Len(index[i])
          PROVE  /\ index[i][k].msg <= sent'
                 /\ \A q \in Saving' : loc'[q].msg = index[i][k].msg =>
                       pc'[q] \in {"text", "open2", "head2"} /\ loc'[q].pos = index[i][k].pos
      <4>1. index[i][k].msg < sent'
        BY <1>2, <1>6, <3>1
      <4>2. ASSUME NEW q \in Saving', loc'[q].msg = index[i][k].msg
            PROVE  pc'[q] \in {"text", "open2", "head2"} /\ loc'[q].pos = index[i][k].pos
        <5>1. q # p
          BY <1>2, <1>6, <3>1, <4>1, <4>2
        <5>2. QED
          BY <1>5, <3>1, <4>2, <5>1
      <4>3. QED
        BY <1>2, <1>6, <3>1, <4>2
    <3>3. index' = index
      BY <1>2
    <3>4. QED
      BY <3>2, <3>3 DEF HeadInv
  <2>2. Head2Inv'
    <3>1. \A i \in Inodes : \A k \in 1..Len(index2[i].heads) :
             /\ index2[i].heads[k].msg \in Nat /\ index2[i].heads[k].msg <= sent
             /\ \A q \in Saving : loc[q].msg # index2[i].heads[k].msg
      BY <1>1, HeaderFacts DEF Head2Inv, Msgs
    <3>2. \A i \in Inodes : \A k \in 1..Len(index2[i].heads) :
             /\ index2[i].heads[k].msg <= sent'
             /\ \A q \in Saving' : loc'[q].msg # index2[i].heads[k].msg
      BY <1>2, <1>5, <1>6, <3>1
    <3>3. QED
      BY <1>1, <1>2, <3>2 DEF Head2Inv
  <2>3. QED
    BY <2>1, <2>2
<1>12. EpochInv'
  <2>1. p \notin Adrift'
    BY <1>2, <1>4 DEF Adrift
  <2>2. Adrift' \subseteq Adrift
    BY <1>1, <1>2, <1>3, <2>1, AdriftOpen
  <2>3. loc'[p].msg \notin hurt' => Clearing = {} /\ Adrift = {}
    BY <1>2
  <2>4. QED
    BY <1>1, <1>2, <1>4, <1>6, <1>7, <2>2, <2>3, EpochKept DEF Clears, Others
<1>13. TextInv'
  <2>1. ASSUME NEW m \in Msgs, NEW pos \in Nat, Good(m, pos) PROVE Good(m, pos)'
    BY <1>2, <1>4, <2>1 DEF Good, Others
  <2>2. QED
    BY <1>1, <1>2, <1>4, <1>6, <2>1, TextKept DEF Saves
<1>14. ShowInv'
  BY <1>1, <1>2, <1>4, <1>6, ShowSame DEF Views5
<1>15. MailInv'
  <2>1. (\E q \in Procs \ {p} : pc[q] \in Mails) => loc'[p].msg \in late'
    BY <1>1, <1>2 DEF MailInv, MailPart, Mailing, Mails
  <2>2. QED
    BY <1>1, <1>2, <1>6, <2>1, MailKept DEF Mails
<1>16. KeepInv'
  <2>1. Safe' \subseteq Safe
    BY <1>2, <1>5, <1>6 DEF Safe
  <2>2. \A m : \A n \in Int : InIndex(m, n) => InIndex(m, n)'
    BY <1>4 DEF InIndex
  <2>3. \A m : InIndex(m, Len(Heads)) => InIndex(m, Len(Heads))'
    BY <1>4 DEF InIndex
  <2>4. QED
    BY <1>1, <1>2, <1>6, <2>1, <2>2, <2>3, KeepStill DEF Mails
<1>17. QED
  BY <1>2, <1>7, <1>8, <1>9, <1>10, <1>11, <1>12, <1>13, <1>14, <1>15, <1>16 DEF IInv

LEMMA OpenContentKeeps ==
    ASSUME IInv, NEW p \in Procs, OpenContent(p)
    PROVE  IInv'
<1>1. /\ Typed /\ RoomInv /\ FileInv /\ LockInv /\ CountInv /\ SaveInv /\ HeadInv /\ Head2Inv
      /\ SkipInv /\ OnceInv /\ EpochInv /\ TextInv /\ ShowInv /\ MailInv /\ KeepInv
  BY DEF IInv
<1>2. /\ Typed' /\ Others(p) /\ pc[p] = "open_content" /\ pc'[p] = "head"
      /\ loc'[p].msg = loc[p].msg /\ loc'[p].ino = loc[p].ino
      /\ loc'[p].cino = Opened("content") /\ Open("content")
      /\ UNCHANGED <<index, index2, content, sent, clears,
                     given, hurt, late, raced, mailed, wiped>>
  BY <1>1, OpenContentFacts
<1>3. "index" \in Names /\ "index2" \in Names /\ "content" \in Names
  BY DEF Names
<1>4. /\ cur'["content"] = Opened("content") /\ Opened("content") \in 1..made'["content"]
      /\ cur'["index"] = cur["index"] /\ cur'["index2"] = cur["index2"]
      /\ made'["index"] = made["index"]
      /\ cur["content"] # 0 => cur'["content"] = cur["content"]
      /\ Heads' = Heads /\ Index2' = Index2 /\ Heads2' = Heads2
      /\ \A pos \in Nat : TextAt(pos)' = TextAt(pos)
  BY <1>1, <1>2, <1>3, OpenFacts
<1>5. RoomInv' /\ FileInv'
  <2>1. RoomInv'
    BY <1>1, <1>2, <1>3, RoomOpen DEF Unlinks
  <2>2. loc'[p].ino \in 1..made'["index"]
    BY <1>1, <1>2, <1>4 DEF FileInv
  <2>3. FileInv'
    BY <1>1, <1>2, <1>3, <1>4, <2>2, FileOpen
  <2>4. QED
    BY <2>1, <2>3
<1>6. LockInv'
  BY <1>1, <1>2 DEF LockInv, Others
<1>7. CountInv' /\ SkipInv' /\ OnceInv'
  BY <1>1, <1>2, ReadKept
<1>8. SaveInv' /\ Saving' \subseteq Saving /\ \A q \in Saving' : loc'[q].msg = loc[q].msg
  BY <1>1, <1>2, SaveKept DEF Saves
<1>9. HeadInv' /\ Head2Inv'
  BY <1>1, <1>2, HeadKept, Head2Kept DEF Saves
<1>10. EpochInv'
  <2>1. Adrift' \subseteq Adrift
    <3>1. Adrift' \subseteq Adrift \cup {p}
      BY <1>1, <1>2, <1>3, AdriftOpen
    <3>2. p \in Adrift' => p \in Adrift
      BY <1>2, <1>4 DEF Adrift
    <3>3. QED
      BY <3>1, <3>2
  <2>2. loc[p].msg \notin hurt => Clearing = {} /\ Adrift = {}
    BY <1>1, <1>2 DEF EpochInv, Saving
  <2>3. \A q \in Procs \ {p} :
          /\ pc[q] \in {"head", "text"} /\ loc[q].cino = cur["content"]
                => loc'[q].cino = cur'["content"]
          /\ pc[q] = "head2" /\ loc[q].ino = cur["index2"]
                => loc'[q].ino = cur'["index2"]
    BY <1>1, <1>2, <1>3, AdriftOpen
  <2>4. QED
    BY <1>1, <1>2, <1>4, <1>5, <2>1, <2>2, <2>3, EpochKept DEF Clears
<1>11. TextInv'
  <2>1. ASSUME NEW m \in Msgs, NEW pos \in Nat, Good(m, pos) PROVE Good(m, pos)'
    <3>1. \A q \in Procs : pc'[q] = "text" /\ loc'[q].cino = cur'["content"] =>
            pc[q] = "text" /\ loc[q].cino = cur["content"] /\ loc'[q].pos = loc[q].pos
      <4>1. ASSUME NEW q \in Procs, pc'[q] = "text", loc'[q].cino = cur'["content"]
            PROVE  pc[q] = "text" /\ loc[q].cino = cur["content"] /\ loc'[q].pos = loc[q].pos
        <5>1. q # p /\ pc[q] = "text" /\ loc'[q].cino = loc[q].cino /\ loc'[q].pos = loc[q].pos
          BY <1>2, <4>1 DEF Others
        <5>2. cur["content"] = 0 => cur'["content"] = made["content"] + 1
          BY <1>4 DEF Opened
        <5>3. loc[q].cino \in 1..made["content"] /\ made["content"] \in Nat
          BY <1>1, <1>3, <5>1 DEF FileInv, Typed
        <5>4. QED
          BY <1>4, <4>1, <5>1, <5>2, <5>3
      <4>2. QED
        BY <4>1
    <3>2. QED
      BY <1>4, <2>1, <3>1 DEF Good
  <2>2. QED
    BY <1>1, <1>2, <1>4, <2>1, TextKept DEF Saves
<1>12. ShowInv'
  BY <1>1, <1>2, <1>4, ShowSame DEF Views5
<1>13. MailInv'
  <2>1. (\E q \in Procs \ {p} : pc[q] \in Mails) => loc[p].msg \in late
    BY <1>1, <1>2 DEF MailInv, MailPart, Mails, Saving
  <2>2. QED
    BY <1>1, <1>2, <2>1, MailKept DEF Mails
<1>14. KeepInv'
  <2>1. Safe' \subseteq Safe
    <3>1. Saving \subseteq Saving'
      BY <1>2 DEF Saving, Others
    <3>2. QED
      BY <1>2, <1>8, <3>1 DEF Safe
  <2>2. \A m : \A n \in Int : InIndex(m, n) => InIndex(m, n)'
    BY <1>4 DEF InIndex
  <2>3. \A m : InIndex(m, Len(Heads)) => InIndex(m, Len(Heads))'
    BY <1>4 DEF InIndex
  <2>4. QED
    BY <1>1, <1>2, <2>1, <2>2, <2>3, KeepStill DEF Mails
<1>15. QED
  BY <1>2, <1>5, <1>6, <1>7, <1>8, <1>9, <1>10, <1>11, <1>12, <1>13, <1>14 DEF IInv

LEMMA WriteHeadKeeps ==
    ASSUME IInv, NEW p \in Procs, WriteHead(p)
    PROVE  IInv'
<1>1. /\ Typed /\ RoomInv /\ FileInv /\ LockInv /\ CountInv /\ SaveInv /\ HeadInv /\ Head2Inv
      /\ SkipInv /\ OnceInv /\ EpochInv /\ TextInv /\ ShowInv /\ MailInv /\ KeepInv
  BY DEF IInv
<1>2. /\ Typed' /\ Others(p) /\ pc[p] = "head" /\ pc'[p] = "text"
      /\ loc'[p].msg = loc[p].msg /\ loc'[p].ino = loc[p].ino /\ loc'[p].cino = loc[p].cino
      /\ loc'[p].pos = Len(content[loc[p].cino]) /\ loc'[p].pos \in Nat
      /\ \A q \in Procs : pc[q] = "text" => loc[q].ino # loc[p].ino
      /\ \A i \in Inodes \ {loc[p].ino} : index'[i] = index[i]
      /\ Grown(index[loc[p].ino], index'[loc[p].ino], loc[p].msg, loc'[p].pos)
      /\ loc[p].ino = cur["index"] => Grown(Heads, Heads', loc[p].msg, loc'[p].pos)
      /\ loc[p].ino # cur["index"] => Heads' = Heads
      /\ Index2' = Index2 /\ Heads2' = Heads2 /\ \A pos \in Nat : TextAt(pos)' = TextAt(pos)
      /\ UNCHANGED <<cur, made, index2, content, sent, clears,
                     given, hurt, late, raced, mailed, wiped>>
  BY <1>1, WriteHeadFacts
<1>3. p \in Saving /\ loc[p].ino \in Inodes /\ Len(Heads) \in Nat
  <2>1. loc[p].ino \in 1..made["index"] /\ made["index"] \in 0..MaxClears + 1
    BY <1>1, <1>2, Views DEF FileInv, Names
  <2>2. QED
    BY <1>1, <1>2, <2>1, Places DEF Saving, Inodes
<1>4. RoomInv'
  BY <1>1, <1>2, RoomKept DEF Unlinks
<1>5. FileInv'
  <2>1. \A i \in Inodes : i > made'["index"] => index'[i] = <<>>
    <3>1. loc[p].ino \in 1..made["index"] /\ made' = made
      BY <1>1, <1>2 DEF FileInv
    <3>2. \A i \in Inodes : i > made["index"] => index[i] = <<>> /\ i # loc[p].ino
      <4>1. made["index"] \in Nat
        BY <1>1 DEF Typed, Names
      <4>2. \A i \in Inodes : i > made["index"] => i # loc[p].ino
        BY <3>1, <4>1 DEF Inodes
      <4>3. QED
        BY <1>1, <4>2 DEF FileInv
    <3>3. QED
      BY <1>2, <3>1, <3>2
  <2>2. \A q \in Procs :
         /\ pc'[q] \in {"open_content", "head", "text"} => loc'[q].ino \in 1..made'["index"]
         /\ pc'[q] \in {"head", "text"} => loc'[q].cino \in 1..made'["content"]
         /\ pc'[q] \in {"head2", "advance"} => loc'[q].ino \in 1..made'["index2"]
    BY <1>1, <1>2 DEF FileInv, Others
  <2>3. QED
    BY <1>1, <1>2, <2>1, <2>2 DEF FileInv
<1>6. LockInv'
  BY <1>1, <1>2 DEF LockInv, Others
<1>7. CountInv' /\ SkipInv' /\ OnceInv'
  BY <1>1, <1>2, ReadKept
<1>8. SaveInv' /\ Saving' = Saving /\ \A q \in Saving' : loc'[q].msg = loc[q].msg
  <2>1. Saving \subseteq Saving'
    BY <1>2 DEF Saving, Others
  <2>2. QED
    BY <1>1, <1>2, <2>1, SaveKept DEF Saves
<1>9. Head2Inv'
  BY <1>1, <1>2, Head2Kept DEF Saves
<1>10. HeadInv'
  <2>1. ASSUME NEW i \in Inodes, NEW k \in 1..Len(index'[i])
        PROVE  /\ index'[i][k].msg <= sent'
               /\ \A q \in Saving' : loc'[q].msg = index'[i][k].msg =>
                    pc'[q] \in {"text", "open2", "head2"} /\ loc'[q].pos = index'[i][k].pos
    <3>1. CASE k \in 1..Len(index[i]) /\ index'[i][k] = index[i][k]
      <4>1. /\ index[i][k].msg <= sent
            /\ \A q \in Saving : loc[q].msg = index[i][k].msg =>
                 pc[q] \in {"text", "open2", "head2"} /\ loc[q].pos = index[i][k].pos
        BY <1>1, <3>1 DEF HeadInv
      <4>2. ASSUME NEW q \in Saving', loc'[q].msg = index'[i][k].msg
            PROVE  pc'[q] \in {"text", "open2", "head2"} /\ loc'[q].pos = index'[i][k].pos
        <5>1. pc[q] \in {"text", "open2", "head2"} /\ loc[q].pos = index[i][k].pos /\ q \in Procs
          BY <1>8, <3>1, <4>1, <4>2 DEF Saving
        <5>2. q # p
          BY <1>2, <5>1
        <5>3. QED
          BY <1>2, <3>1, <5>1, <5>2 DEF Others
      <4>3. QED
        BY <1>2, <3>1, <4>1, <4>2
    <3>2. CASE index'[i][k].msg = loc[p].msg /\ index'[i][k].pos = loc'[p].pos
      <4>1. loc[p].msg <= sent
        BY <1>1, <1>3 DEF SaveInv
      <4>2. \A q \in Saving' : loc'[q].msg = loc[p].msg => q = p
        BY <1>1, <1>3, <1>8 DEF SaveInv
      <4>3. QED
        BY <1>2, <3>2, <4>1, <4>2
    <3>3. \/ k \in 1..Len(index[i]) /\ index'[i][k] = index[i][k]
          \/ index'[i][k].msg = loc[p].msg /\ index'[i][k].pos = loc'[p].pos
      <4>1. Len(index[i]) \in Nat
        BY <1>1, HeaderFacts
      <4>2. CASE i = loc[p].ino
        BY <1>2, <4>1, <4>2, SMTT(30) DEF Grown
      <4>3. CASE i # loc[p].ino
        BY <1>2, <4>3
      <4>4. QED
        BY <4>2, <4>3
    <3>4. QED
      BY <3>1, <3>2, <3>3
  <2>2. QED
    BY <2>1 DEF HeadInv
<1>11. /\ \A k \in 1..Len(Heads) : k \in 1..Len(Heads') /\ Heads'[k] = Heads[k]
       /\ Len(Heads') >= Len(Heads) /\ Len(Heads') \in Nat
       /\ \A k \in 1..Len(Heads') :
            (k \in 1..Len(Heads) /\ Heads'[k] = Heads[k])
            \/ /\ Heads'[k].msg = loc[p].msg /\ Heads'[k].pos = loc'[p].pos
               /\ loc[p].ino = cur["index"]
       /\ loc[p].ino = cur["index"] =>
            \E k \in 1..Len(Heads') : Heads'[k].msg = loc[p].msg
  <2>1. CASE loc[p].ino = cur["index"]
    <3>1. Grown(Heads, Heads', loc[p].msg, loc'[p].pos)
      BY <1>2, <2>1
    <3>2. QED
      BY <1>3, <2>1, <3>1 DEF Grown
  <2>2. CASE loc[p].ino # cur["index"]
    BY <1>2, <1>3, <2>2
  <2>3. QED
    BY <2>1, <2>2
<1>12. EpochInv'
  <2>1. Adrift' \subseteq Adrift
    BY <1>2 DEF Adrift, Others
  <2>2. loc[p].msg \notin hurt => Clearing = {} /\ Adrift = {} /\ loc[p].cino = cur["content"]
    BY <1>1, <1>2, <1>3 DEF EpochInv
  <2>3. Clearing # {} => \A k \in 1..Len(Heads') :
            (k \in 1..Len(Heads) /\ Heads'[k] = Heads[k]) \/ Heads'[k].msg \in hurt'
    BY <1>2, <1>11, <2>2
  <2>4. QED
    BY <1>1, <1>2, <1>4, <2>1, <2>2, <2>3, EpochKept DEF Clears, Others
<1>13. TextInv'
  <2>1. ASSUME NEW m \in Msgs, NEW pos \in Nat, Good(m, pos) PROVE Good(m, pos)'
    <3>1. loc[p].cino = cur["content"] => loc'[p].pos > pos
      BY <1>2, <2>1 DEF Good, TextAt, Msgs, Blank
    <3>2. QED
      BY <1>2, <2>1, <3>1 DEF Good, Others
  <2>2. QED
    BY <1>1, <1>2, <1>3, <1>8, <1>11, <2>1, TextKept DEF Saves
<1>14. ShowInv'
  BY <1>1, <1>2, ShowSame DEF Views5
<1>15. MailInv'
  <2>1. (\E q \in Procs \ {p} : pc[q] \in Mails) => loc[p].msg \in late
    BY <1>1, <1>3 DEF MailInv, MailPart, Mails
  <2>2. QED
    BY <1>1, <1>2, <2>1, MailKept DEF Mails
<1>16. KeepInv'
  <2>1. Safe' \subseteq Safe
    BY <1>2, <1>8 DEF Safe
  <2>2. \A m : \A n \in Int : InIndex(m, n) => InIndex(m, n)'
    BY <1>11 DEF InIndex
  <2>3. \A m : InIndex(m, Len(Heads)) => InIndex(m, Len(Heads))'
    BY <1>3, <1>11 DEF InIndex
  <2>4. loc[p].msg \notin hurt => InIndex(loc[p].msg, Len(Heads))'
    <3>1. loc[p].msg \notin hurt => loc[p].ino = cur["index"]
      BY <1>1, <1>2, <1>3 DEF EpochInv, Adrift
    <3>2. QED
      BY <1>2, <1>11, <3>1 DEF InIndex
  <2>5. QED
    BY <1>1, <1>2, <2>1, <2>2, <2>3, <2>4, KeepStill DEF Mails
<1>17. QED
  BY <1>2, <1>4, <1>5, <1>6, <1>7, <1>8, <1>9, <1>10, <1>12, <1>13, <1>14, <1>15, <1>16 DEF IInv

(* What a saver leaves behind when it is done is safe. *)
LEMMA KeepDone ==
    ASSUME Typed, Typed', SaveInv, MailInv, KeepInv, NEW p \in Saving, Others(p), pc'[p] \notin Mails \cup Saves,
           pc[p] \in {"text", "open2", "head2"}, Heads' = Heads,
           UNCHANGED <<sent, hurt, late, mailed, wiped>>
    PROVE  KeepInv'
<1>1. p \in Procs
  BY DEF Saving
<1>2. \A q \in Saving \ {p} : q \in Saving' /\ loc'[q].msg = loc[q].msg
  BY DEF Saving, Others
<1>3. \A m \in Safe' : m \notin Safe => m = loc[p].msg /\ m \notin hurt /\ m \notin late
  BY <1>2 DEF Safe
<1>4. \A m : \A n \in Int : InIndex(m, n) => InIndex(m, n)'
  BY DEF InIndex
<1>5. \A m : InIndex(m, Len(Heads)) => InIndex(m, Len(Heads))'
  BY DEF InIndex
<1>6. \A m \in Safe' : m \notin Safe => InIndex(m, Len(Heads))'
  <2>1. loc[p].msg \notin hurt => InIndex(loc[p].msg, Len(Heads))
    BY <1>1 DEF KeepInv, KeepPart
  <2>2. QED
    BY <1>3, <1>5, <2>1
<1>7. Safe' \subseteq Safe \/ \A q \in Procs \ {p} : pc[q] \notin Mails
  <2>1. (\E q \in Procs : pc[q] \in Mails) => loc[p].msg \in late
    BY DEF MailInv, MailPart, Mails
  <2>2. QED
    BY <1>3, <2>1
<1>8. pc'[p] \notin {"text", "open2", "head2"} /\ pc'[p] \notin Mails
  BY DEF Saves
<1>9. QED
  BY <1>1, <1>4, <1>5, <1>6, <1>7, <1>8, KeepKept

LEMMA WriteTextKeeps ==
    ASSUME IInv, NEW p \in Procs, WriteText(p)
    PROVE  IInv'
<1>1. /\ Typed /\ RoomInv /\ FileInv /\ LockInv /\ CountInv /\ SaveInv /\ HeadInv /\ Head2Inv
      /\ SkipInv /\ OnceInv /\ EpochInv /\ TextInv /\ ShowInv /\ MailInv /\ KeepInv
  BY DEF IInv
<1>2. /\ Typed' /\ Others(p) /\ pc[p] = "text"
      /\ \/ pc'[p] = "idle"
         \/ /\ pc'[p] = "open2" /\ loc'[p].msg = loc[p].msg /\ loc'[p].pos = loc[p].pos
      /\ loc[p].cino \in Inodes /\ loc[p].pos \in Nat /\ loc[p].msg \in Msgs
      /\ \A i \in Inodes \ {loc[p].cino} : content'[i] = content[i]
      /\ content'[loc[p].cino] = Written(content[loc[p].cino], loc[p].pos, loc[p].msg)
      /\ Heads' = Heads /\ Index2' = Index2 /\ Heads2' = Heads2
      /\ UNCHANGED <<cur, made, index, index2, sent, clears,
                     given, hurt, late, raced, mailed, wiped>>
  BY <1>1, WriteTextFacts
<1>3. p \in Saving
  BY <1>2 DEF Saving
<1>4. RoomInv'
  BY <1>1, <1>2, RoomKept DEF Unlinks
<1>5. FileInv'
  <2>1. \A i \in Inodes : i > made["content"] => i # loc[p].cino
    <3>1. loc[p].cino \in 1..made["content"] /\ made["content"] \in Nat
      BY <1>1, <1>2 DEF FileInv, Typed, Names
    <3>2. QED
      BY <3>1 DEF Inodes
  <2>2. \A i \in Inodes : i > made["content"] => content'[i] = <<>>
    BY <1>1, <1>2, <2>1 DEF FileInv
  <2>3. \A q \in Procs : pc'[q] \in {"open_content", "head", "text", "head2", "advance"} =>
            q # p /\ pc'[q] = pc[q] /\ loc'[q].ino = loc[q].ino /\ loc'[q].cino = loc[q].cino
    BY <1>2 DEF Others
  <2>4. QED
    BY <1>1, <1>2, <2>2, <2>3 DEF FileInv
<1>6. LockInv'
  BY <1>1, <1>2 DEF LockInv, Others
<1>7. CountInv' /\ SkipInv' /\ OnceInv'
  BY <1>1, <1>2, ReadKept
<1>8. SaveInv'
  BY <1>1, <1>2, SaveKept DEF Saves
<1>9. HeadInv' /\ Head2Inv'
  BY <1>1, <1>2, HeadKept, Head2Kept DEF Saves
<1>10. EpochInv'
  <2>1. Adrift' \subseteq Adrift
    BY <1>2 DEF Adrift, Others
  <2>2. loc[p].msg \notin hurt => Clearing = {} /\ Adrift = {}
    BY <1>1, <1>3 DEF EpochInv
  <2>3. QED
    BY <1>1, <1>2, <2>1, <2>2, EpochKept DEF Clears, Others, Saves
<1>11. TextInv'
  <2> DEFINE i == loc[p].cino
             at == loc[p].pos
             mine == loc[p].msg
  <2>1. /\ content[i] \in Seq(Msgs) /\ at \in Nat /\ mine \in Msgs
        /\ content'[i] = Written(content[i], at, mine)
    BY <1>1, <1>2 DEF Typed
  <2> HIDE DEF i, at, mine
  <2>5. /\ content'[i] \in Seq(Msgs) /\ Len(content'[i]) >= Len(content[i])
        /\ \A k \in 1..Len(content[i]) : k # at + 1 => content'[i][k] = content[i][k]
        /\ at = Len(content[i]) =>
             Len(content'[i]) = Len(content[i]) + 1 /\ content'[i][at + 1] = mine
    <3> DEFINE c == content[i]
               w == Written(c, at, mine)
    <3>1. c \in Seq(Msgs)
      BY <2>1
    <3> HIDE DEF c
    <3>2. /\ w \in Seq(Msgs) /\ Len(w) >= Len(c)
          /\ \A k \in 1..Len(c) : k # at + 1 => w[k] = c[k]
          /\ at = Len(c) => Len(w) = Len(c) + 1 /\ w[at + 1] = mine
      BY <2>1, <3>1, WrittenFacts
    <3>3. w = content'[i]
      BY <2>1 DEF c
    <3> HIDE DEF w
    <3>4. QED
      BY <3>2, <3>3 DEF c
  <2> USE DEF i, at, mine
  <2>2. ASSUME NEW m \in Msgs, NEW pos \in Nat, TextAt(pos) = m,
               loc[p].cino = cur["content"] => loc[p].pos # pos
        PROVE  TextAt(pos)' = m
    <3>1. CASE loc[p].cino = cur["content"]
      <4>1. pos + 1 \in 1..Len(content[loc[p].cino]) /\ content[loc[p].cino][pos + 1] = m
        BY <2>1, <2>2, <3>1 DEF TextAt, Blank, Msgs
      <4>2. /\ Len(content'[loc[p].cino]) >= Len(content[loc[p].cino])
            /\ content'[loc[p].cino][pos + 1] = m /\ Len(content'[loc[p].cino]) \in Nat
        BY <2>1, <2>2, <2>5, <3>1, <4>1
      <4>3. QED
        BY <1>2, <2>1, <3>1, <4>1, <4>2 DEF TextAt, Inodes
    <3>2. CASE loc[p].cino # cur["content"]
      <4>1. cur["content"] \in 0..MaxClears + 1
        BY <1>1, Views DEF Names
      <4>2. QED
        BY <1>2, <2>2, <3>2, <4>1, SMTT(30) DEF TextAt, Inodes
    <3>3. QED
      BY <3>1, <3>2
  <2>3. ASSUME NEW m \in Msgs, NEW pos \in Nat, Good(m, pos) PROVE Good(m, pos)'
    <3>1. TextAt(pos) = m /\ (loc[p].cino = cur["content"] => loc[p].pos # pos)
      BY <1>2, <2>3 DEF Good
    <3>2. \A q \in Procs : pc'[q] = "text" => pc[q] = "text"
            /\ loc'[q].cino = loc[q].cino /\ loc'[q].pos = loc[q].pos
      BY <1>2 DEF Others
    <3>3. TextAt(pos)' = m
      BY <2>2, <3>1
    <3>4. QED
      BY <1>2, <2>3, <3>2, <3>3 DEF Good
  <2>4. \A q \in Procs \ {p} : pc[q] = "text" =>
            loc[p].msg \in hurt /\ loc[q].msg \in hurt
    <3>1. ASSUME NEW q \in Procs \ {p}, pc[q] = "text", Adrift = {} PROVE FALSE
      <4>1. loc[q].ino = cur["index"] /\ loc[p].ino = cur["index"]
        BY <1>2, <3>1 DEF Adrift
      <4>2. QED
        BY <1>1, <1>2, <3>1, <4>1 DEF LockInv
    <3>2. QED
      BY <1>1, <1>2, <3>1 DEF EpochInv, Saving
  <2>6. ASSUME NEW m, NEW pos, m = loc[p].msg, pos = loc[p].pos, loc[p].msg \notin hurt
        PROVE  Good(m, pos)'
    <3>1. loc[p].cino = cur["content"]
      BY <1>1, <1>2, <1>3, <2>6 DEF EpochInv
    <3>2. loc[p].pos = Len(content[loc[p].cino])
      BY <1>1, <1>2, <1>3, <2>6 DEF TextInv
    <3>3. content'[loc[p].cino][pos + 1] = m /\ Len(content'[loc[p].cino]) = pos + 1
      BY <2>1, <2>5, <2>6, <3>2
    <3>4. TextAt(pos)' = m
      BY <1>2, <2>6, <3>1, <3>3 DEF TextAt, Inodes
    <3>5. \A q \in Procs : pc'[q] # "text"
      BY <1>2, <2>4, <2>6 DEF Others
    <3>6. QED
      BY <3>4, <3>5 DEF Good
  <2>7. \A k \in 1..Len(Heads) : Heads[k].msg = loc[p].msg => Heads[k].pos = loc[p].pos
    BY <1>1, <1>3, CurFacts DEF HeadInv
  <2>8. pc'[p] \in Saves /\ loc'[p].msg \notin hurt' =>
           /\ pc'[p] = "text" => loc'[p].pos = Len(content'[loc'[p].cino])
           /\ pc'[p] \in {"open2", "head2"} => Good(loc[p].msg, loc[p].pos)'
    BY <1>2, <2>6 DEF Saves
  <2>9. pc[p] \in Saves /\ pc'[p] \notin Saves /\ loc[p].msg \notin hurt' =>
              \A k \in 1..Len(Heads') : Heads'[k].msg = loc[p].msg
                                       => Good(Heads[k].msg, Heads[k].pos)'
    BY <1>2, <2>6, <2>7
  <2>10. pc[p] \in Saves /\ pc'[p] \in Saves => loc'[p].msg = loc[p].msg
    BY <1>2 DEF Saves
  <2>11. \A q \in Procs \ {p} : pc[q] = "text" /\ loc[q].msg \notin hurt' =>
              Len(content'[loc[q].cino]) = Len(content[loc[q].cino])
    BY <1>2, <2>4
  <2>12. QED
    BY <1>1, <1>2, <2>3, <2>8, <2>9, <2>10, <2>11, TextKept
<1>12. ShowInv'
  BY <1>1, <1>2, ShowSame DEF Views5
<1>13. MailInv'
  <2>1. (\E q \in Procs \ {p} : pc[q] \in Mails) => loc[p].msg \in late
    BY <1>1, <1>3 DEF MailInv, MailPart, Mails
  <2>2. QED
    BY <1>1, <1>2, <2>1, MailKept DEF Mails, Saves
<1>14. KeepInv'
  <2>1. CASE pc'[p] = "idle"
    BY <1>1, <1>2, <1>3, <2>1, KeepDone DEF Mails, Saves
  <2>2. CASE pc'[p] = "open2" /\ loc'[p].msg = loc[p].msg
    <3>1. Safe' \subseteq Safe
      <4>1. \A q \in Saving : q \in Saving' /\ loc'[q].msg = loc[q].msg
        BY <1>2, <2>2 DEF Saving, Others
      <4>2. QED
        BY <1>2, <4>1 DEF Safe
    <3>2. \A m : \A n \in Int : InIndex(m, n) => InIndex(m, n)'
      BY <1>2 DEF InIndex
    <3>3. \A m : InIndex(m, Len(Heads)) => InIndex(m, Len(Heads))'
      BY <1>2 DEF InIndex
    <3>4. loc[p].msg \notin hurt => InIndex(loc[p].msg, Len(Heads))
      BY <1>1, <1>2, <1>3 DEF KeepInv, KeepPart
    <3>5. QED
      BY <1>1, <1>2, <2>2, <3>1, <3>2, <3>3, <3>4, KeepStill DEF Mails
  <2>3. QED
    BY <1>2, <2>1, <2>2
<1>15. QED
  BY <1>2, <1>4, <1>5, <1>6, <1>7, <1>8, <1>9, <1>10, <1>11, <1>12, <1>13, <1>14 DEF IInv

LEMMA OpenIndex2Keeps ==
    ASSUME IInv, NEW p \in Procs, OpenIndex2(p)
    PROVE  IInv'
<1>1. /\ Typed /\ RoomInv /\ FileInv /\ LockInv /\ CountInv /\ SaveInv /\ HeadInv /\ Head2Inv
      /\ SkipInv /\ OnceInv /\ EpochInv /\ TextInv /\ ShowInv /\ MailInv /\ KeepInv
  BY DEF IInv
<1>2. /\ Typed' /\ Others(p) /\ pc[p] = "open2" /\ pc'[p] = "head2"
      /\ loc'[p].msg = loc[p].msg /\ loc'[p].pos = loc[p].pos
      /\ loc'[p].ino = Opened("index2") /\ Open("index2")
      /\ UNCHANGED <<index, index2, content, sent, clears,
                     given, hurt, late, raced, mailed, wiped>>
  BY <1>1, OpenIndex2Facts
<1>3. "index" \in Names /\ "index2" \in Names /\ "content" \in Names /\ p \in Saving
  BY <1>2 DEF Names, Saving
<1>4. /\ cur'["index2"] = Opened("index2") /\ Opened("index2") \in 1..made'["index2"]
      /\ cur'["index"] = cur["index"] /\ cur'["content"] = cur["content"]
      /\ cur["index2"] # 0 => cur'["index2"] = cur["index2"]
      /\ Heads' = Heads /\ Index2' = Index2 /\ Heads2' = Heads2
      /\ \A pos \in Nat : TextAt(pos)' = TextAt(pos)
  BY <1>1, <1>2, <1>3, OpenFacts
<1>5. RoomInv' /\ FileInv'
  <2>1. RoomInv'
    BY <1>1, <1>2, <1>3, RoomOpen DEF Unlinks
  <2>2. FileInv'
    BY <1>1, <1>2, <1>3, <1>4, FileOpen
  <2>3. QED
    BY <2>1, <2>2
<1>6. LockInv'
  BY <1>1, <1>2 DEF LockInv, Others
<1>7. CountInv' /\ SkipInv' /\ OnceInv'
  BY <1>1, <1>2, ReadKept
<1>8. SaveInv'
  BY <1>1, <1>2, SaveKept DEF Saves
<1>9. HeadInv' /\ Head2Inv'
  BY <1>1, <1>2, HeadKept, Head2Kept DEF Saves
<1>10. EpochInv'
  <2>1. Adrift' \subseteq Adrift
    <3>1. Adrift' \subseteq Adrift \cup {p}
      BY <1>1, <1>2, <1>3, AdriftOpen
    <3>2. p \notin Adrift'
      BY <1>2 DEF Adrift
    <3>3. QED
      BY <3>1, <3>2
  <2>2. loc[p].msg \notin hurt => Clearing = {} /\ Adrift = {}
    BY <1>1, <1>3 DEF EpochInv
  <2>3. \A q \in Procs \ {p} :
          /\ pc[q] \in {"head", "text"} /\ loc[q].cino = cur["content"]
                => loc'[q].cino = cur'["content"]
          /\ pc[q] = "head2" /\ loc[q].ino = cur["index2"]
                => loc'[q].ino = cur'["index2"]
    BY <1>1, <1>2, <1>3, AdriftOpen
  <2>4. QED
    BY <1>1, <1>2, <1>4, <2>1, <2>2, <2>3, EpochKept DEF Clears
<1>11. TextInv'
  <2>1. ASSUME NEW m \in Msgs, NEW pos \in Nat, Good(m, pos) PROVE Good(m, pos)'
    BY <1>2, <1>4, <2>1 DEF Good, Others
  <2>2. ASSUME loc[p].msg \notin hurt PROVE Good(loc[p].msg, loc[p].pos)'
    <3>1. loc[p].msg \in Msgs /\ loc[p].pos \in Nat
      <4>1. loc[p].msg \in 1..sent /\ sent \in 0..MaxMsgs
        BY <1>1, <1>3 DEF SaveInv, Typed
      <4>2. QED
        BY <1>1, <4>1, Places DEF Msgs, Saving
    <3>2. Good(loc[p].msg, loc[p].pos)
      BY <1>1, <1>2, <1>3, <2>2 DEF TextInv
    <3>3. QED
      BY <1>2, <2>1, <3>1, <3>2
  <2>3. QED
    BY <1>1, <1>2, <1>4, <2>1, <2>2, TextKept DEF Saves
<1>12. ShowInv'
  BY <1>1, <1>2, <1>4, ShowSame DEF Views5
<1>13. MailInv'
  <2>1. (\E q \in Procs \ {p} : pc[q] \in Mails) => loc[p].msg \in late
    BY <1>1, <1>3 DEF MailInv, MailPart, Mails
  <2>2. QED
    BY <1>1, <1>2, <2>1, MailKept DEF Mails
<1>14. KeepInv'
  <2>1. Safe' \subseteq Safe
    <3>1. \A q \in Saving : q \in Saving' /\ loc'[q].msg = loc[q].msg
      BY <1>2 DEF Saving, Others
    <3>2. QED
      BY <1>2, <3>1 DEF Safe
  <2>2. \A m : \A n \in Int : InIndex(m, n) => InIndex(m, n)'
    BY <1>4 DEF InIndex
  <2>3. \A m : InIndex(m, Len(Heads)) => InIndex(m, Len(Heads))'
    BY <1>4 DEF InIndex
  <2>4. loc[p].msg \notin hurt => InIndex(loc[p].msg, Len(Heads))
    BY <1>1, <1>2, <1>3 DEF KeepInv, KeepPart
  <2>5. QED
    BY <1>1, <1>2, <2>1, <2>2, <2>3, <2>4, KeepStill DEF Mails
<1>15. QED
  BY <1>2, <1>5, <1>6, <1>7, <1>8, <1>9, <1>10, <1>11, <1>12, <1>13, <1>14 DEF IInv

LEMMA WriteHead2Keeps ==
    ASSUME IInv, NEW p \in Procs, WriteHead2(p)
    PROVE  IInv'
<1>1. /\ Typed /\ RoomInv /\ FileInv /\ LockInv /\ CountInv /\ SaveInv /\ HeadInv /\ Head2Inv
      /\ SkipInv /\ OnceInv /\ EpochInv /\ TextInv /\ ShowInv /\ MailInv /\ KeepInv
  BY DEF IInv
<1> DEFINE i == loc[p].ino
           m == loc[p].msg
           n == Len(index2[i].heads)
<1>2. /\ Typed' /\ Others(p) /\ pc[p] = "head2" /\ pc'[p] = "idle"
      /\ i \in Inodes /\ i <= made["index2"] /\ Advancing(i) = {}
      /\ \A j \in Inodes \ {i} : index2'[j] = index2[j]
      /\ Grown(index2[i].heads, index2'[i].heads, m, loc[p].pos)
      /\ index2'[i].counter = IF index2[i].counter = -1 THEN 0 ELSE index2[i].counter
      /\ i = cur["index2"] => /\ Index2 = index2[i] /\ Index2' = index2'[i]
                              /\ Grown(Heads2, Heads2', m, loc[p].pos)
      /\ i # cur["index2"] => Index2' = Index2 /\ Heads2' = Heads2
      /\ Heads' = Heads /\ \A pos \in Nat : TextAt(pos)' = TextAt(pos)
      /\ UNCHANGED <<cur, made, index, content, sent, clears,
                     given, hurt, late, raced, mailed, wiped>>
  BY <1>1, WriteHead2Facts
<1> HIDE DEF i, m, n
<1>3. p \in Saving
  BY <1>2 DEF Saving
<1>4. /\ \A j \in Inodes : \A k \in 1..Len(index2'[j].heads) :
           \/ k \in 1..Len(index2[j].heads) /\ index2'[j].heads[k] = index2[j].heads[k]
           \/ j = i /\ k = n + 1 /\ index2'[j].heads[k].msg = m
      /\ \A j \in Inodes : \A k \in 1..Len(index2[j].heads) :
           k \in 1..Len(index2'[j].heads) /\ index2'[j].heads[k] = index2[j].heads[k]
      /\ \A j \in Inodes : Len(index2[j].heads) \in Nat /\ Len(index2'[j].heads) \in Nat
                           /\ index2[j].counter \in Int
      /\ n \in Nat /\ Len(index2'[i].heads) = n + 1
  <2>1. \A j \in Inodes : Len(index2[j].heads) \in Nat /\ index2[j].counter \in Int
    BY <1>1, HeaderFacts DEF Typed
  <2>2. n \in Nat
    BY <1>2, <2>1 DEF n
  <2>3. /\ Len(index2'[i].heads) = n + 1
        /\ \A k \in 1..n : index2'[i].heads[k] = index2[i].heads[k]
        /\ index2'[i].heads[n + 1].msg = m
    BY <1>2 DEF Grown, n
  <2>4. n = Len(index2[i].heads)
    BY DEF n
  <2>5. ASSUME NEW j \in Inodes
        PROVE  /\ \A k \in 1..Len(index2'[j].heads) :
                    \/ k \in 1..Len(index2[j].heads) /\ index2'[j].heads[k] = index2[j].heads[k]
                    \/ j = i /\ k = n + 1 /\ index2'[j].heads[k].msg = m
               /\ \A k \in 1..Len(index2[j].heads) :
                    k \in 1..Len(index2'[j].heads) /\ index2'[j].heads[k] = index2[j].heads[k]
               /\ Len(index2'[j].heads) \in Nat
    <3>1. CASE j = i
      BY <2>2, <2>3, <2>4, <3>1
    <3>2. CASE j # i
      BY <1>2, <2>1, <3>2
    <3>3. QED
      BY <3>1, <3>2
  <2>6. QED
    BY <2>1, <2>2, <2>3, <2>5
<1>5. /\ index2[i].counter \in -1..n /\ index2'[i].counter \in 0..n
      /\ index2'[i].counter >= index2[i].counter
      /\ index2'[i].counter > 0 => index2'[i].counter = index2[i].counter
  BY <1>1, <1>2, <1>4 DEF CountInv, n
<1>6. \A q \in Procs : pc'[q] = "advance" =>
        /\ pc[q] = "advance" /\ q # p /\ loc'[q].at = loc[q].at /\ loc'[q].ino = loc[q].ino
        /\ loc[q].ino \in Inodes /\ loc[q].ino # i /\ index2'[loc[q].ino] = index2[loc[q].ino]
  <2>1. ASSUME NEW q \in Procs, pc'[q] = "advance"
        PROVE  /\ pc[q] = "advance" /\ q # p /\ loc'[q].at = loc[q].at /\ loc'[q].ino = loc[q].ino
               /\ loc[q].ino \in Inodes /\ loc[q].ino # i
    <3>1. pc[q] = "advance" /\ q # p /\ loc'[q].at = loc[q].at /\ loc'[q].ino = loc[q].ino
      BY <1>2, <2>1 DEF Others
    <3>2. loc[q].ino \in 1..made["index2"] /\ made["index2"] \in 0..MaxClears + 1
      BY <1>1, <3>1, Views DEF FileInv, Names
    <3>3. loc[q].ino # i
      BY <1>2, <3>1 DEF Advancing
    <3>4. QED
      BY <3>1, <3>2, <3>3 DEF Inodes
  <2>2. QED
    BY <1>2, <2>1
<1>7. \A j \in Inodes : Advancing(j)' = Advancing(j)
  BY <1>2 DEF Advancing, Others
<1>8. RoomInv'
  BY <1>1, <1>2, RoomKept DEF Unlinks
<1>9. FileInv'
  <2>1. \A j \in Inodes : j > made["index2"] => j # i
    <3>1. made["index2"] \in Nat /\ i \in Nat
      BY <1>1, <1>2 DEF Typed, Names, Inodes
    <3>2. QED
      BY <1>2, <3>1 DEF Inodes
  <2>2. \A j \in Inodes : j > made["index2"] => index2'[j] = NewIndex2
    BY <1>1, <1>2, <2>1 DEF FileInv
  <2>3. \A q \in Procs : pc'[q] \in {"open_content", "head", "text", "head2", "advance"} =>
            q # p /\ pc'[q] = pc[q] /\ loc'[q].ino = loc[q].ino /\ loc'[q].cino = loc[q].cino
    BY <1>2 DEF Others
  <2>4. QED
    BY <1>1, <1>2, <2>2, <2>3 DEF FileInv
<1>10. LockInv'
  BY <1>1, <1>2 DEF LockInv, Others
<1>11. CountInv'
  <2>1. \A j \in Inodes : index2'[j].counter \in -1..Len(index2'[j].heads)
    <3>1. index2'[i].counter \in -1..Len(index2'[i].heads)
      BY <1>4, <1>5
    <3>2. QED
      BY <1>1, <1>2, <3>1 DEF CountInv
  <2>2. QED
    BY <1>1, <1>6, <2>1 DEF CountInv
<1>12. SaveInv' /\ Saving' \subseteq Saving /\ \A q \in Saving' : loc'[q].msg = loc[q].msg
  BY <1>1, <1>2, SaveKept DEF Saves
<1>13. p \notin Saving'
  BY <1>2 DEF Saving
<1>14. HeadInv'
  BY <1>1, <1>2, HeadKept DEF Saves
<1>15. /\ \A j \in Inodes : \A k \in 1..Len(index2[j].heads) :
             /\ index2[j].heads[k].msg <= sent /\ index2[j].heads[k].msg # m
             /\ \A q \in Saving : loc[q].msg # index2[j].heads[k].msg
       /\ m <= sent /\ m \in Msgs /\ \A q \in Saving' : loc'[q].msg # m
  <2>1. m \in 1..sent /\ sent \in 0..MaxMsgs
    BY <1>1, <1>3 DEF SaveInv, Typed, m
  <2>2. \A q \in Saving' : loc'[q].msg # m
    BY <1>1, <1>3, <1>12, <1>13 DEF SaveInv, m
  <2>3. \A j \in Inodes : \A k \in 1..Len(index2[j].heads) :
             /\ index2[j].heads[k].msg <= sent /\ index2[j].heads[k].msg # m
             /\ \A q \in Saving : loc[q].msg # index2[j].heads[k].msg
    BY <1>1, <1>3 DEF Head2Inv, m
  <2>4. QED
    BY <2>1, <2>2, <2>3 DEF Msgs
<1>16. Head2Inv'
  <2>1. ASSUME NEW j \in Inodes, NEW k \in 1..Len(index2'[j].heads)
        PROVE  /\ index2'[j].heads[k].msg <= sent'
               /\ \A q \in Saving' : loc'[q].msg # index2'[j].heads[k].msg
    <3>1. CASE k \in 1..Len(index2[j].heads) /\ index2'[j].heads[k] = index2[j].heads[k]
      <4>1. index2[j].heads[k].msg <= sent
        BY <1>15, <3>1
      <4>2. \A q \in Saving : loc[q].msg # index2[j].heads[k].msg
        BY <1>15, <3>1
      <4>3. QED
        BY <1>2, <1>12, <3>1, <4>1, <4>2
    <3>2. CASE j = i /\ k = n + 1 /\ index2'[j].heads[k].msg = m
      BY <1>2, <1>15, <3>2
    <3>3. QED
      BY <1>4, <3>1, <3>2
  <2>2. ASSUME NEW j \in Inodes, NEW k \in 1..Len(index2'[j].heads),
               NEW jj \in Inodes, NEW kk \in 1..Len(index2'[jj].heads),
               index2'[j].heads[k].msg = index2'[jj].heads[kk].msg
        PROVE  j = jj /\ k = kk
    <3>1. CASE /\ k \in 1..Len(index2[j].heads) /\ index2'[j].heads[k] = index2[j].heads[k]
               /\ kk \in 1..Len(index2[jj].heads) /\ index2'[jj].heads[kk] = index2[jj].heads[kk]
      BY <1>1, <2>2, <3>1 DEF Head2Inv
    <3>2. CASE j = i /\ k = n + 1 /\ jj = i /\ kk = n + 1
      BY <3>2
    <3>3. CASE k \in 1..Len(index2[j].heads) /\ index2'[j].heads[k] = index2[j].heads[k]
      <4>1. index2'[jj].heads[kk].msg # m
        BY <1>15, <2>2, <3>3
      <4>2. QED
        BY <1>4, <3>1, <3>3, <4>1
    <3>4. CASE j = i /\ k = n + 1 /\ index2'[j].heads[k].msg = m
      <4>1. ~(kk \in 1..Len(index2[jj].heads) /\ index2'[jj].heads[kk] = index2[jj].heads[kk])
        BY <1>15, <2>2, <3>4
      <4>2. QED
        BY <1>4, <3>2, <3>4, <4>1
    <3>5. QED
      BY <1>4, <3>3, <3>4
  <2>3. QED
    BY <2>1, <2>2 DEF Head2Inv
<1>17. SkipInv'
  <2>1. ASSUME NEW j \in Inodes, NEW k \in 1..Len(index2'[j].heads), k <= index2'[j].counter
        PROVE  given'[index2'[j].heads[k].msg] > 0
    <3>1. k <= index2[j].counter /\ k \in 1..Len(index2[j].heads)
          /\ index2'[j].heads[k] = index2[j].heads[k]
      <4>1. CASE j = i
        BY <1>4, <1>5, <2>1, <4>1
      <4>2. CASE j # i
        BY <1>2, <2>1, <4>2
      <4>3. QED
        BY <4>1, <4>2
    <3>2. QED
      BY <1>1, <1>2, <3>1 DEF SkipInv
  <2>2. ASSUME NEW q \in Procs, pc'[q] = "advance",
               NEW k \in 1..Len(index2'[loc'[q].ino].heads), k <= loc'[q].at + 1
        PROVE  given'[index2'[loc'[q].ino].heads[k].msg] > 0
    <3>1. /\ pc[q] = "advance" /\ loc'[q].at = loc[q].at /\ loc'[q].ino = loc[q].ino
          /\ index2'[loc[q].ino] = index2[loc[q].ino]
      BY <1>6, <2>2
    <3>2. k \in 1..Len(index2[loc[q].ino].heads) /\ k <= loc[q].at + 1
      BY <2>2, <3>1
    <3>3. given[index2[loc[q].ino].heads[k].msg] > 0
      BY <1>1, <3>1, <3>2 DEF SkipInv
    <3>4. QED
      BY <1>2, <3>1, <3>3
  <2>3. QED
    BY <2>1, <2>2 DEF SkipInv
<1>18. OnceInv'
  <2>1. SUFFICES ASSUME ~raced PROVE OnceInv'
    BY <1>2 DEF OnceInv
  <2>2. given[m] = 0
    <3>1. given[m] \in Nat
      BY <1>1, <1>15 DEF Typed
    <3>2. ~(given[m] > 0)
      BY <1>1, <1>3, <1>15 DEF SaveInv, m
    <3>3. QED
      BY <3>1, <3>2
  <2>3. ASSUME NEW j \in Inodes, NEW k \in 1..Len(index2'[j].heads),
               k > index2'[j].counter + 1 \/ (k = index2'[j].counter + 1 /\ Advancing(j) = {})
        PROVE  given'[index2'[j].heads[k].msg] = 0
    <3>1. CASE index2'[j].heads[k].msg = m
      BY <1>2, <2>2, <3>1
    <3>2. CASE k \in 1..Len(index2[j].heads) /\ index2'[j].heads[k] = index2[j].heads[k]
      <4>1. k > index2[j].counter + 1 \/ (k = index2[j].counter + 1 /\ Advancing(j) = {})
        <5>1. CASE j = i
          BY <1>2, <1>5, <2>3, <5>1
        <5>2. CASE j # i
          BY <1>2, <2>3, <5>2
        <5>3. QED
          BY <5>1, <5>2
      <4>2. QED
        BY <1>1, <1>2, <2>1, <3>2, <4>1 DEF OnceInv
    <3>3. QED
      BY <1>4, <3>1, <3>2
  <2>4. \A q, r \in Procs : pc'[q] = "advance" /\ pc'[r] = "advance" /\ loc'[q].ino = loc'[r].ino
                              => q = r
    BY <1>1, <1>6, <2>1 DEF OnceInv
  <2>5. \A q \in Procs : pc'[q] = "advance" => loc'[q].at = index2'[loc'[q].ino].counter
    BY <1>1, <1>6, <2>1 DEF OnceInv
  <2>6. \A q \in Msgs : given'[q] <= 1
    BY <1>1, <1>2, <2>1 DEF OnceInv
  <2>7. QED
    BY <1>7, <2>3, <2>4, <2>5, <2>6 DEF OnceInv
<1>19. /\ \A k \in 1..Len(Heads2) : Heads2'[k] = Heads2[k]
       /\ Len(Heads2) \in Nat /\ Len(Heads2') \in Nat /\ Len(Heads2') >= Len(Heads2)
       /\ \A k \in 1..Len(Heads2') :
            (k \in 1..Len(Heads2) /\ Heads2'[k] = Heads2[k])
            \/ (Heads2'[k].msg = m /\ Heads2'[k].pos = loc[p].pos)
  <2>1. Len(Heads2) \in Nat
    BY <1>1, Places
  <2>2. CASE i = cur["index2"]
    <3>1. Grown(Heads2, Heads2', m, loc[p].pos)
      BY <1>2, <2>2
    <3>2. /\ Len(Heads2') = Len(Heads2) + 1
          /\ \A k \in 1..Len(Heads2) : Heads2'[k] = Heads2[k]
          /\ Heads2'[Len(Heads2) + 1].msg = m /\ Heads2'[Len(Heads2) + 1].pos = loc[p].pos
      BY <3>1 DEF Grown
    <3>3. Len(Heads2') \in Nat /\ Len(Heads2') >= Len(Heads2)
      BY <2>1, <3>2
    <3>4. ASSUME NEW k \in 1..Len(Heads2'), k \notin 1..Len(Heads2)
          PROVE  k = Len(Heads2) + 1
      BY <2>1, <3>2, <3>4
    <3>5. QED
      BY <2>1, <3>2, <3>3, <3>4, Zenon
  <2>3. CASE i # cur["index2"]
    <3>1. Heads2' = Heads2 /\ Len(Heads2') = Len(Heads2)
      BY <1>2, <2>3
    <3>2. Len(Heads2') >= Len(Heads2)
      BY <2>1, <3>1
    <3>3. QED
      BY <2>1, <3>1, <3>2, Zenon
  <2>4. QED
    BY <2>2, <2>3
<1>20. EpochInv'
  <2>1. Adrift' \subseteq Adrift
    BY <1>2 DEF Adrift, Others
  <2>2. m \notin hurt => Clearing = {}
    BY <1>1, <1>3 DEF EpochInv, m
  <2>3. (\E q \in Procs : pc[q] = "unlink_content") => \A k \in 1..Len(Heads2') :
           (k \in 1..Len(Heads2) /\ Heads2'[k] = Heads2[k]) \/ Heads2'[k].msg \in hurt'
    BY <1>2, <1>19, <2>2 DEF Clearing
  <2>4. QED
    BY <1>1, <1>2, <1>8, <2>1, <2>3, EpochKept DEF Clears, Others, Saves
<1>21. TextInv'
  <2>1. ASSUME NEW x \in Msgs, NEW pos \in Nat, Good(x, pos) PROVE Good(x, pos)'
    BY <1>2, <2>1 DEF Good, Others
  <2>2. ASSUME NEW x, NEW pos, x = m, pos = loc[p].pos, m \notin hurt PROVE Good(x, pos)'
    <3>1. x \in Msgs /\ pos \in Nat
      BY <1>1, <1>15, <2>2, Places
    <3>2. Good(x, pos)
      BY <1>1, <1>2, <1>3, <2>2 DEF TextInv, m
    <3>3. QED
      BY <2>1, <3>1, <3>2
  <2>3. \A k \in 1..Len(Heads) : Heads[k].msg = m => Heads[k].pos = loc[p].pos
    BY <1>1, <1>3, CurFacts DEF HeadInv, m
  <2>8. ASSUME NEW k \in 1..Len(Heads'), Heads'[k].msg = m, m \notin hurt
        PROVE  Good(Heads[k].msg, Heads[k].pos)'
    <3>1. Heads'[k].pos = loc[p].pos
      BY <1>2, <2>3, <2>8
    <3>2. QED
      BY <2>2, <2>8, <3>1
  <2>4. \A k \in 1..Len(Heads2') :
           (k \in 1..Len(Heads2) /\ Heads2'[k] = Heads2[k])
           \/ (Heads2'[k].msg \notin hurt' => Good(Heads2[k].msg, Heads2[k].pos)')
    BY <1>2, <1>19, <2>2
  <2>5. m \notin hurt' => \A k \in 1..Len(Heads') : Heads'[k].msg = m
                                                   => Good(Heads[k].msg, Heads[k].pos)'
    BY <1>2, <2>8
  <2>6. pc'[p] \notin Saves
    BY <1>2 DEF Saves
  <2>7. QED
    BY <1>1, <1>2, <2>1, <2>4, <2>5, <2>6, TextKept DEF m
<1>22. ShowInv'
  <2>1. get_unreadcount > 0 => get_unreadcount' > 0
    <3>1. CASE i = cur["index2"]
      <4>1. /\ Index2.counter = index2[i].counter /\ Index2'.counter = index2'[i].counter
            /\ Len(Heads2') = Len(Heads2) + 1 /\ Len(Heads2) = n
        BY <1>2, <3>1 DEF Grown, Heads2, n
      <4>2. QED
        BY <1>4, <1>5, <4>1 DEF get_unreadcount
    <3>2. CASE i # cur["index2"]
      BY <1>2, <3>2 DEF get_unreadcount
    <3>3. QED
      BY <3>1, <3>2
  <2>2. QED
    BY <1>1, <1>2, <1>19, <2>1, ShowKept DEF Views5
<1>23. MailInv'
  BY <1>1, <1>2, MailKept DEF Mails, Saves
<1>24. KeepInv'
  BY <1>1, <1>2, <1>3, KeepDone DEF Mails, Saves
<1>25. QED
  BY <1>2, <1>8, <1>9, <1>10, <1>11, <1>12, <1>14, <1>16, <1>17, <1>18, <1>20, <1>21, <1>22,
     <1>23, <1>24 DEF IInv

LEMMA KillKeeps ==
    ASSUME IInv, NEW p \in Procs, KillSender(p)
    PROVE  IInv'
<1>1. /\ Typed /\ RoomInv /\ FileInv /\ LockInv /\ CountInv /\ SaveInv /\ HeadInv /\ Head2Inv
      /\ SkipInv /\ OnceInv /\ EpochInv /\ TextInv /\ ShowInv /\ MailInv /\ KeepInv
  BY DEF IInv
<1>2. /\ Typed' /\ Others(p) /\ p \in Saving /\ pc'[p] = "idle"
      /\ hurt' = hurt \cup {loc[p].msg}
      /\ Heads' = Heads /\ Index2' = Index2 /\ Heads2' = Heads2
      /\ \A pos \in Nat : TextAt(pos)' = TextAt(pos)
      /\ UNCHANGED <<cur, made, index, index2, content, sent, clears,
                     given, late, raced, mailed, wiped>>
  BY <1>1, KillFacts
<1>3. pc[p] \in Saves /\ pc'[p] \notin Saves /\ hurt \subseteq hurt' /\ loc[p].msg \in hurt'
  BY <1>2 DEF Saving, Saves
<1>4. RoomInv'
  BY <1>1, <1>2, <1>3, RoomKept DEF Unlinks, Saves
<1>5. FileInv'
  BY <1>1, <1>2 DEF FileInv, Others
<1>6. LockInv'
  BY <1>1, <1>2 DEF LockInv, Others
<1>7. CountInv' /\ SkipInv' /\ OnceInv'
  BY <1>1, <1>2, <1>3, ReadKept DEF Saves
<1>8. SaveInv' /\ HeadInv' /\ Head2Inv'
  BY <1>1, <1>2, <1>3, SaveKept, HeadKept, Head2Kept
<1>9. EpochInv'
  <2>1. Adrift' \subseteq Adrift
    BY <1>2 DEF Adrift, Others
  <2>2. pc[p] \notin Clears /\ pc'[p] \notin Clears
    BY <1>2, <1>3 DEF Clears, Saves
  <2>3. QED
    BY <1>1, <1>2, <1>3, <2>1, <2>2, EpochKept DEF Others
<1>10. TextInv'
  <2>1. ASSUME NEW m \in Msgs, NEW pos \in Nat, Good(m, pos) PROVE Good(m, pos)'
    BY <1>2, <2>1 DEF Good, Others
  <2>2. QED
    BY <1>1, <1>2, <1>3, <2>1, TextKept
<1>11. ShowInv'
  BY <1>1, <1>2, <1>3, ShowSame DEF Views5
<1>12. MailInv'
  BY <1>1, <1>2, <1>3, MailKept DEF Mails
<1>13. KeepInv'
  <2>1. Safe' \subseteq Safe
    <3>1. \A q \in Saving \ {p} : q \in Saving' /\ loc'[q].msg = loc[q].msg
      BY <1>2 DEF Saving, Others
    <3>2. QED
      BY <1>2, <3>1 DEF Safe
  <2>2. \A m : \A n \in Int : InIndex(m, n) => InIndex(m, n)'
    BY <1>2 DEF InIndex
  <2>3. \A m : InIndex(m, Len(Heads)) => InIndex(m, Len(Heads))'
    BY <1>2 DEF InIndex
  <2>4. QED
    BY <1>1, <1>2, <1>3, <2>1, <2>2, <2>3, KeepStill DEF Mails
<1>14. QED
  BY <1>2, <1>4, <1>5, <1>6, <1>7, <1>8, <1>9, <1>10, <1>11, <1>12, <1>13 DEF IInv

LEMMA AdvanceKeeps ==
    ASSUME IInv, NEW p \in Procs, Advance(p)
    PROVE  IInv'
<1>1. /\ Typed /\ RoomInv /\ FileInv /\ LockInv /\ CountInv /\ SaveInv /\ HeadInv /\ Head2Inv
      /\ SkipInv /\ OnceInv /\ EpochInv /\ TextInv /\ ShowInv /\ MailInv /\ KeepInv
  BY DEF IInv
<1> DEFINE i == loc[p].ino
           n == loc[p].at
<1>2. /\ Typed' /\ Others(p) /\ pc[p] = "advance" /\ pc'[p] = "load"
      /\ loc'[p].at = n /\ loc'[p].lone = loc[p].lone
      /\ \A q \in Procs \ {p} : pc[q] = "take" => ~loc'[q].lone
      /\ i \in Inodes /\ \A j \in Inodes \ {i} : index2'[j] = index2[j]
      /\ i <= made["index2"]
      /\ index2'[i].heads = index2[i].heads /\ index2'[i].counter = n + 1
      /\ Heads' = Heads /\ Heads2' = Heads2 /\ \A pos \in Nat : TextAt(pos)' = TextAt(pos)
      /\ UNCHANGED <<cur, made, index, content, sent, clears,
                     given, hurt, late, raced, mailed, wiped>>
  BY <1>1, AdvanceFacts
<1> HIDE DEF i, n
<1>3. n \in 0..Len(index2[i].heads) - 1 /\ Len(index2[i].heads) \in Nat
  BY <1>1, <1>2, HeaderFacts DEF CountInv, i, n
<1>4. \A j \in Inodes : index2'[j].heads = index2[j].heads
  BY <1>2
<1>5. \A q \in Procs : pc'[q] = "advance" =>
        /\ pc[q] = "advance" /\ q # p /\ loc'[q].at = loc[q].at /\ loc'[q].ino = loc[q].ino
        /\ loc[q].ino \in Inodes
  <2>1. ASSUME NEW q \in Procs, pc'[q] = "advance"
        PROVE  /\ pc[q] = "advance" /\ q # p /\ loc'[q].at = loc[q].at
               /\ loc'[q].ino = loc[q].ino /\ loc[q].ino \in Inodes
    <3>1. pc[q] = "advance" /\ q # p /\ loc'[q].at = loc[q].at /\ loc'[q].ino = loc[q].ino
      BY <1>2, <2>1 DEF Others
    <3>2. loc[q].ino \in 1..made["index2"] /\ made["index2"] \in 0..MaxClears + 1
      BY <1>1, <3>1, Views DEF FileInv, Names
    <3>3. QED
      BY <3>1, <3>2 DEF Inodes
  <2>2. QED
    BY <2>1
<1>6. pc'[p] \notin Saves \cup Clears \cup Unlinks \cup Mails
      /\ pc[p] \notin Saves \cup Clears \cup Unlinks
  BY <1>2 DEF Saves, Clears, Unlinks, Mails
<1>7. RoomInv'
  BY <1>1, <1>2, <1>6, RoomKept
<1>8. FileInv'
  <2>1. \A j \in Inodes : j > made["index2"] => j # i
    <3>1. made["index2"] \in Nat /\ i \in Nat
      BY <1>1, <1>2 DEF Typed, Names, Inodes
    <3>2. QED
      BY <1>2, <3>1 DEF Inodes
  <2>2. \A j \in Inodes : j > made["index2"] => index2'[j] = NewIndex2
    BY <1>1, <1>2, <2>1 DEF FileInv
  <2>3. \A q \in Procs : pc'[q] \in {"open_content", "head", "text", "head2", "advance"} =>
            q # p /\ pc'[q] = pc[q] /\ loc'[q].ino = loc[q].ino /\ loc'[q].cino = loc[q].cino
    BY <1>2 DEF Others
  <2>4. QED
    BY <1>1, <1>2, <2>2, <2>3 DEF FileInv
<1>9. LockInv'
  BY <1>1, <1>2 DEF LockInv, Others
<1>10. CountInv'
  <2>1. index2'[i].counter \in -1..Len(index2'[i].heads)
    BY <1>2, <1>3
  <2>2. \A j \in Inodes : index2'[j].counter \in -1..Len(index2'[j].heads)
    BY <1>1, <1>2, <2>1 DEF CountInv
  <2>3. ASSUME NEW q \in Procs, pc'[q] = "advance"
        PROVE  loc'[q].at \in 0..Len(index2'[loc'[q].ino].heads) - 1
    <3>1. loc[q].at \in 0..Len(index2[loc[q].ino].heads) - 1
      BY <1>1, <1>5, <2>3 DEF CountInv
    <3>2. QED
      BY <1>4, <1>5, <2>3, <3>1
  <2>4. QED
    BY <2>2, <2>3 DEF CountInv
<1>11. SkipInv'
  <2>1. ASSUME NEW j \in Inodes, NEW k \in 1..Len(index2'[j].heads), k <= index2'[j].counter
        PROVE  given'[index2'[j].heads[k].msg] > 0
    <3>1. CASE j = i
      BY <1>1, <1>2, <2>1, <3>1 DEF SkipInv, i, n
    <3>2. CASE j # i
      BY <1>1, <1>2, <2>1, <3>2 DEF SkipInv
    <3>3. QED
      BY <3>1, <3>2
  <2>2. ASSUME NEW q \in Procs, pc'[q] = "advance",
               NEW k \in 1..Len(index2'[loc'[q].ino].heads), k <= loc'[q].at + 1
        PROVE  given'[index2'[loc'[q].ino].heads[k].msg] > 0
    <3>1. /\ pc[q] = "advance" /\ loc'[q].at = loc[q].at /\ loc'[q].ino = loc[q].ino
          /\ index2'[loc[q].ino].heads = index2[loc[q].ino].heads
      BY <1>4, <1>5, <2>2
    <3>2. QED
      BY <1>1, <1>2, <2>2, <3>1 DEF SkipInv
  <2>3. QED
    BY <2>1, <2>2 DEF SkipInv
<1>12. OnceInv'
  <2>1. SUFFICES ASSUME ~raced PROVE OnceInv'
    BY <1>2 DEF OnceInv
  <2>2. n = index2[i].counter /\ \A q \in Procs : pc[q] = "advance" /\ loc[q].ino = i => q = p
    BY <1>1, <1>2, <2>1 DEF OnceInv, i, n
  <2>3. ASSUME NEW j \in Inodes, NEW k \in 1..Len(index2'[j].heads),
               k > index2'[j].counter + 1
                 \/ (k = index2'[j].counter + 1 /\ Advancing(j)' = {})
        PROVE  given'[index2'[j].heads[k].msg] = 0
    <3>1. CASE j = i
      <4>1. k > index2[i].counter + 1 /\ k \in 1..Len(index2[i].heads)
        BY <1>2, <1>3, <2>2, <2>3, <3>1
      <4>2. QED
        BY <1>1, <1>2, <2>1, <3>1, <4>1 DEF OnceInv
    <3>2. CASE j # i
      <4>1. Advancing(j)' = Advancing(j)
        BY <1>2, <3>2 DEF Advancing, Others, i
      <4>2. QED
        BY <1>1, <1>2, <2>1, <2>3, <3>2, <4>1 DEF OnceInv
    <3>3. QED
      BY <3>1, <3>2
  <2>4. \A q, r \in Procs : pc'[q] = "advance" /\ pc'[r] = "advance" /\ loc'[q].ino = loc'[r].ino
                              => q = r
    BY <1>1, <1>5, <2>1 DEF OnceInv
  <2>5. ASSUME NEW q \in Procs, pc'[q] = "advance"
        PROVE  loc'[q].at = index2'[loc'[q].ino].counter
    <3>1. /\ pc[q] = "advance" /\ loc'[q].at = loc[q].at /\ loc'[q].ino = loc[q].ino
          /\ loc[q].ino \in Inodes /\ loc[q].ino # i
      BY <1>5, <2>2, <2>5
    <3>2. QED
      BY <1>1, <1>2, <2>1, <3>1 DEF OnceInv
  <2>6. \A q \in Msgs : given'[q] <= 1
    BY <1>1, <1>2, <2>1 DEF OnceInv
  <2>7. QED
    BY <2>3, <2>4, <2>5, <2>6 DEF OnceInv
<1>13. SaveInv' /\ HeadInv' /\ Head2Inv'
  BY <1>1, <1>2, <1>4, <1>6, SaveKept, HeadKept, Head2Kept
<1>14. EpochInv'
  <2>1. Adrift' \subseteq Adrift
    BY <1>2 DEF Adrift, Others
  <2>2. QED
    BY <1>1, <1>2, <1>6, <2>1, EpochKept DEF Others
<1>15. TextInv'
  <2>1. ASSUME NEW m \in Msgs, NEW pos \in Nat, Good(m, pos) PROVE Good(m, pos)'
    BY <1>2, <2>1 DEF Good, Others
  <2>2. QED
    BY <1>1, <1>2, <1>6, <2>1, TextKept
<1>16. ShowInv'
  <2>1. Len(Heads2) \in Nat
    BY <1>1, Places
  <2>2. \A q \in Procs \ {p} : ShowPart(q)'
    BY <1>1, <1>2, <2>1, ShowOthers
  <2>3. loc[p].lone => n \in 0..Len(Heads2) - 1
    BY <1>1, <1>2 DEF ShowInv, ShowPart, n
  <2>4. ShowPart(p)'
    BY <1>2, <2>3 DEF ShowPart
  <2>5. QED
    BY <2>2, <2>4 DEF ShowInv
<1>17. MailInv'
  BY <1>1, <1>2, <1>6, MailKept
<1>18. KeepInv'
  <2>1. Safe' \subseteq Safe
    <3>1. \A q \in Saving : q \in Saving' /\ loc'[q].msg = loc[q].msg
      BY <1>2 DEF Saving, Others
    <3>2. QED
      BY <1>2, <3>1 DEF Safe
  <2>2. \A m : \A k \in Int : InIndex(m, k) => InIndex(m, k)'
    BY <1>2 DEF InIndex
  <2>3. \A m : InIndex(m, Len(Heads)) => InIndex(m, Len(Heads))'
    BY <1>2 DEF InIndex
  <2>4. QED
    BY <1>1, <1>2, <1>6, <2>1, <2>2, <2>3, KeepStill
<1>19. QED
  BY <1>2, <1>7, <1>8, <1>9, <1>10, <1>11, <1>12, <1>13, <1>14, <1>15, <1>16, <1>17, <1>18 DEF IInv

(* What the two ways through get_unreadmsg have in common. *)
LEMMA TakeCommon ==
    ASSUME IInv, NEW p \in Procs, Typed', Others(p), pc[p] = "take", Open("index2"),
           pc'[p] \in {"idle", "load", "advance"},
           pc'[p] = "advance" => loc'[p].ino \in 1..made'["index2"],
           UNCHANGED <<index, index2, content, sent, clears, hurt, late, mailed, wiped>>
    PROVE  /\ RoomInv' /\ FileInv' /\ LockInv' /\ HeadInv' /\ Head2Inv' /\ EpochInv' /\ TextInv'
           /\ MailInv' /\ KeepInv' /\ \A q \in Procs \ {p} : ShowPart(q)'
           /\ Saving' = Saving /\ \A q \in Saving : loc'[q].msg = loc[q].msg
           /\ Heads2' = Heads2
<1>1. /\ Typed /\ RoomInv /\ FileInv /\ LockInv /\ CountInv /\ SaveInv /\ HeadInv /\ Head2Inv
      /\ SkipInv /\ OnceInv /\ EpochInv /\ TextInv /\ ShowInv /\ MailInv /\ KeepInv
  BY DEF IInv
<1>2. "index" \in Names /\ "index2" \in Names /\ "content" \in Names
  BY DEF Names
<1>3. /\ cur'["index"] = cur["index"] /\ cur'["content"] = cur["content"]
      /\ cur["index2"] # 0 => cur'["index2"] = cur["index2"]
      /\ Heads' = Heads /\ Index2' = Index2 /\ Heads2' = Heads2
      /\ \A pos \in Nat : TextAt(pos)' = TextAt(pos)
  BY <1>1, <1>2, OpenFacts
<1>4. /\ pc[p] \notin Saves \cup Clears \cup Unlinks
      /\ pc'[p] \notin Saves \cup Clears \cup Unlinks \cup Mails
  BY DEF Saves, Clears, Unlinks, Mails
<1>5. RoomInv'
  BY <1>1, <1>2, <1>4, RoomOpen
<1>6. FileInv'
  <2>1. pc'[p] \notin {"open_content", "head", "text", "head2"}
    BY <1>4 DEF Saves
  <2>2. QED
    BY <1>1, <1>2, <2>1, FileOpen
<1>7. LockInv'
  BY <1>1, <1>4 DEF LockInv, Others, Saves
<1>8. Saving' = Saving /\ \A q \in Saving : loc'[q].msg = loc[q].msg
  BY <1>4 DEF Saving, Others, Saves
<1>9. HeadInv' /\ Head2Inv'
  BY <1>1, <1>4, HeadKept, Head2Kept
<1>10. EpochInv'
  <2>1. Adrift' \subseteq Adrift
    <3>1. Adrift' \subseteq Adrift \cup {p}
      BY <1>1, <1>2, AdriftOpen
    <3>2. p \notin Adrift'
      BY <1>4 DEF Adrift, Saves
    <3>3. QED
      BY <3>1, <3>2
  <2>2. \A q \in Procs \ {p} :
          /\ pc[q] \in {"head", "text"} /\ loc[q].cino = cur["content"]
                => loc'[q].cino = cur'["content"]
          /\ pc[q] = "head2" /\ loc[q].ino = cur["index2"]
                => loc'[q].ino = cur'["index2"]
    BY <1>1, <1>2, AdriftOpen
  <2>3. QED
    BY <1>1, <1>3, <1>4, <2>1, <2>2, EpochKept
<1>11. TextInv'
  <2>1. ASSUME NEW m \in Msgs, NEW pos \in Nat, Good(m, pos) PROVE Good(m, pos)'
    BY <1>3, <1>4, <2>1 DEF Good, Others, Saves
  <2>2. QED
    BY <1>1, <1>3, <1>4, <2>1, TextKept
<1>12. \A q \in Procs \ {p} : ShowPart(q)'
  <2>1. get_unreadcount' = get_unreadcount
    BY <1>3 DEF get_unreadcount
  <2>2. Len(Heads2) \in Nat
    BY <1>1, Places
  <2>3. QED
    BY <1>1, <1>3, <2>1, <2>2, ShowOthers
<1>13. MailInv'
  BY <1>1, <1>4, MailKept
<1>14. KeepInv'
  <2>1. Safe' \subseteq Safe
    BY <1>8 DEF Safe
  <2>2. \A m : \A k \in Int : InIndex(m, k) => InIndex(m, k)'
    BY <1>3 DEF InIndex
  <2>3. \A m : InIndex(m, Len(Heads)) => InIndex(m, Len(Heads))'
    BY <1>3 DEF InIndex
  <2>4. pc'[p] \notin {"text", "open2", "head2"} /\ pc'[p] \notin Mails
    BY <1>4 DEF Saves
  <2>5. QED
    BY <1>1, <2>1, <2>2, <2>3, <2>4, KeepStill
<1>15. QED
  BY <1>3, <1>5, <1>6, <1>7, <1>8, <1>9, <1>10, <1>11, <1>12, <1>13, <1>14

LEMMA TakeKeeps ==
    ASSUME IInv, NEW p \in Procs, Take(p)
    PROVE  IInv'
<1>1. /\ Typed /\ RoomInv /\ FileInv /\ LockInv /\ CountInv /\ SaveInv /\ HeadInv /\ Head2Inv
      /\ SkipInv /\ OnceInv /\ EpochInv /\ TextInv /\ ShowInv /\ MailInv /\ KeepInv
  BY DEF IInv
<1>2. /\ Typed' /\ Others(p) /\ pc[p] = "take" /\ Open("index2")
      /\ UNCHANGED <<index, index2, content, sent, clears, hurt, late, mailed, wiped>>
  BY <1>1, TakeFacts
<1>3. CASE /\ get_unreadcount = 0 /\ UNCHANGED <<given, raced>>
           /\ \/ pc'[p] = "idle"
              \/ pc'[p] = "load" /\ loc[p].job # "web" /\ loc'[p].lone = loc[p].lone
  <2>1. /\ RoomInv' /\ FileInv' /\ LockInv' /\ HeadInv' /\ Head2Inv' /\ EpochInv' /\ TextInv'
        /\ MailInv' /\ KeepInv' /\ \A q \in Procs \ {p} : ShowPart(q)'
        /\ Saving' = Saving /\ \A q \in Saving : loc'[q].msg = loc[q].msg
    <3>1. pc'[p] \in {"idle", "load", "advance"} /\ pc'[p] # "advance"
      BY <1>3
    <3>2. QED
      BY <1>2, <3>1, TakeCommon
  <2>2. CountInv' /\ SkipInv' /\ OnceInv'
    <3>1. pc[p] # "advance" /\ pc'[p] # "advance"
      BY <1>2, <1>3
    <3>2. QED
      BY <1>1, <1>2, <1>3, <3>1, ReadKept
  <2>3. SaveInv'
    BY <1>1, <1>2, <1>3, <2>1 DEF SaveInv
  <2>4. ShowPart(p)'
    <3>1. loc[p].job \in {"r_msg", "web"} /\ ~(loc[p].lone /\ loc[p].job = "r_msg")
      BY <1>1, <1>2, <1>3 DEF ShowInv, ShowPart
    <3>2. CASE pc'[p] = "idle"
      BY <3>2 DEF ShowPart
    <3>3. CASE pc'[p] = "load" /\ ~loc'[p].lone
      BY <3>3 DEF ShowPart
    <3>4. QED
      BY <1>3, <3>1, <3>2, <3>3
  <2>5. QED
    BY <1>2, <2>1, <2>2, <2>3, <2>4 DEF IInv, ShowInv
<1>4. CASE /\ pc'[p] = "advance" /\ loc'[p].ino = cur["index2"]
           /\ loc'[p].at = Index2.counter /\ loc'[p].lone = loc[p].lone
           /\ get_unreadcount # 0 /\ cur' = cur /\ made' = made
           /\ given' = [given EXCEPT ![Heads2[Index2.counter + 1].msg] = @ + 1]
           /\ raced' <=> raced \/ Advancing(cur["index2"]) # {}
  <2> DEFINE i == cur["index2"]
             n == index2[i].counter
             m == index2[i].heads[n + 1].msg
  <2>1. /\ i \in Inodes /\ Index2 = index2[i] /\ Heads2 = index2[i].heads
        /\ n \in 0..Len(index2[i].heads) - 1 /\ n \in Nat
    <3>1. i \in Inodes /\ Index2 = index2[i] /\ Index2.counter \in 0..Len(Heads2) - 1
      BY <1>1, <1>4, CountFacts
    <3>2. Heads2 = index2[i].heads
      BY <3>1 DEF Heads2
    <3>3. QED
      BY <3>1, <3>2
  <2>2. /\ pc'[p] = "advance" /\ loc'[p].ino = i /\ loc'[p].at = n /\ loc'[p].lone = loc[p].lone
        /\ cur' = cur /\ made' = made /\ given' = [given EXCEPT ![m] = @ + 1]
    BY <1>4, <2>1
  <2>3. raced' <=> raced \/ Advancing(i) # {}
    BY <1>4
  <2>4. i \in 1..made'["index2"]
    <3>1. cur'["index2"] \in 1..made'["index2"]
      BY <1>1, <1>2, OpenFacts DEF Names
    <3>2. QED
      BY <2>2, <3>1
  <2> HIDE DEF i, n, m
  <2>5. /\ RoomInv' /\ FileInv' /\ LockInv' /\ HeadInv' /\ Head2Inv' /\ EpochInv' /\ TextInv'
        /\ MailInv' /\ KeepInv' /\ \A q \in Procs \ {p} : ShowPart(q)'
        /\ Saving' = Saving /\ \A q \in Saving : loc'[q].msg = loc[q].msg
        /\ Heads2' = Heads2
    <3>1. pc'[p] \in {"idle", "load", "advance"} /\ loc'[p].ino \in 1..made'["index2"]
      BY <2>2, <2>4
    <3>2. QED
      BY <1>2, <3>1, TakeCommon
  <2>6. n + 1 \in 1..Len(index2[i].heads) /\ m = index2[i].heads[n + 1].msg
        /\ n = index2[i].counter /\ Len(index2[i].heads) \in Nat
    BY <1>1, <2>1, HeaderFacts DEF m, n
  <2>7. m \in Msgs /\ m <= sent /\ \A q \in Saving : loc[q].msg # m
    BY <1>1, <2>1, <2>6, HeaderFacts DEF Head2Inv
  <2>8. given \in [Msgs -> Nat] /\ given'[m] = given[m] + 1 /\ given[m] \in Nat
        /\ \A x \in Msgs \ {m} : given'[x] = given[x]
    BY <1>1, <2>2, <2>7 DEF Typed
  <2>9. \A x \in Msgs : given[x] > 0 => given'[x] > 0
    BY <2>8
  <2>10. \A j \in Inodes : \A k \in 1..Len(index2[j].heads) :
            index2[j].heads[k].msg \in Msgs
            /\ (index2[j].heads[k].msg = m => j = i /\ k = n + 1)
    <3>1. \A j \in Inodes : \A k \in 1..Len(index2[j].heads) :
             index2[j].heads[k].msg = index2[i].heads[n + 1].msg => j = i /\ k = n + 1
      BY <1>1, <2>1, <2>6 DEF Head2Inv
    <3>2. QED
      BY <1>1, <2>6, <3>1, HeaderFacts
  <2>11. \A q \in Procs \ {p} : pc'[q] = "advance" =>
            pc[q] = "advance" /\ loc'[q].at = loc[q].at /\ loc'[q].ino = loc[q].ino
    BY <1>2 DEF Others
  <2>12. \A q \in Procs : pc[q] = "advance" => loc[q].ino \in Inodes
    <3>1. made["index2"] \in 0..MaxClears + 1
      BY <1>1, Views DEF Names
    <3>2. QED
      BY <1>1, <3>1 DEF FileInv, Inodes
  <2>13. CountInv'
    <3>1. loc'[p].at \in 0..Len(index2[loc'[p].ino].heads) - 1
      BY <2>1, <2>2
    <3>2. QED
      BY <1>1, <1>2, <2>11, <3>1 DEF CountInv
  <2>14. SaveInv'
    <3>1. \A x \in Msgs : given'[x] > 0 => x <= sent /\ \A q \in Saving : loc[q].msg # x
      BY <1>1, <2>7, <2>8 DEF SaveInv
    <3>2. QED
      BY <1>1, <1>2, <2>5, <3>1 DEF SaveInv
  <2>15. SkipInv'
    <3>1. ASSUME NEW j \in Inodes, NEW k \in 1..Len(index2[j].heads), k <= index2[j].counter
          PROVE  given'[index2[j].heads[k].msg] > 0
      BY <1>1, <2>9, <2>10, <3>1 DEF SkipInv
    <3>2. ASSUME NEW k \in 1..Len(index2[i].heads), k <= n + 1
          PROVE  given'[index2[i].heads[k].msg] > 0
      <4>1. CASE k = n + 1
        BY <2>6, <2>8, <4>1
      <4>2. CASE k # n + 1
        <5>1. k <= n
          BY <2>1, <3>2, <4>2
        <5>2. QED
          BY <2>1, <2>6, <3>1, <5>1
      <4>3. QED
        BY <4>1, <4>2
    <3>3. ASSUME NEW q \in Procs, pc'[q] = "advance",
                 NEW k \in 1..Len(index2'[loc'[q].ino].heads), k <= loc'[q].at + 1
          PROVE  given'[index2'[loc'[q].ino].heads[k].msg] > 0
      <4>1. CASE q = p
        BY <1>2, <2>2, <3>2, <3>3, <4>1
      <4>2. CASE q # p
        <5>1. /\ pc[q] = "advance" /\ loc'[q].at = loc[q].at /\ loc'[q].ino = loc[q].ino
              /\ index2' = index2 /\ loc[q].ino \in Inodes
          BY <1>2, <2>11, <2>12, <3>3, <4>2
        <5>2. given[index2[loc[q].ino].heads[k].msg] > 0
          BY <1>1, <3>3, <5>1 DEF SkipInv
        <5>3. QED
          BY <2>9, <2>10, <3>3, <5>1, <5>2
      <4>3. QED
        BY <4>1, <4>2
    <3>4. QED
      BY <1>2, <3>1, <3>3 DEF SkipInv
  <2>16. OnceInv'
    <3>1. SUFFICES ASSUME ~raced' PROVE OnceInv'
      BY DEF OnceInv
    <3>2. ~raced /\ Advancing(i) = {}
      BY <2>3, <3>1, Zenon
    <3>3. \A q \in Procs : pc[q] = "advance" => loc[q].ino # i
      BY <3>2 DEF Advancing
    <3>4. given[m] = 0
      BY <1>1, <2>1, <2>6, <3>2 DEF OnceInv
    <3>5. ASSUME NEW q \in Procs, NEW r \in Procs, pc'[q] = "advance", pc'[r] = "advance",
                 loc'[q].ino = loc'[r].ino
          PROVE  q = r
      <4>1. CASE q = p \/ r = p
        BY <2>2, <2>11, <3>3, <3>5, <4>1
      <4>2. CASE q # p /\ r # p
        BY <1>1, <2>11, <3>2, <3>5, <4>2 DEF OnceInv
      <4>3. QED
        BY <4>1, <4>2
    <3>6. ASSUME NEW q \in Procs, pc'[q] = "advance"
          PROVE  loc'[q].at = index2'[loc'[q].ino].counter
      <4>1. CASE q = p
        BY <1>2, <2>2, <2>6, <4>1
      <4>2. CASE q # p
        BY <1>1, <1>2, <2>11, <3>2, <3>6, <4>2 DEF OnceInv
      <4>3. QED
        BY <4>1, <4>2
    <3>7. ASSUME NEW j \in Inodes, NEW k \in 1..Len(index2'[j].heads),
                 k > index2'[j].counter + 1
                   \/ (k = index2'[j].counter + 1 /\ Advancing(j)' = {})
          PROVE  given'[index2'[j].heads[k].msg] = 0
      <4>1. index2[j].heads[k].msg # m
            /\ (k > index2[j].counter + 1 \/ (k = index2[j].counter + 1 /\ Advancing(j) = {}))
        <5>1. CASE j = i
          <6>1. p \in Advancing(j)'
            BY <2>2, <5>1 DEF Advancing
          <6>2. k > n + 1
            BY <1>2, <2>6, <3>7, <5>1, <6>1
          <6>3. QED
            BY <1>2, <2>1, <2>6, <2>10, <3>7, <5>1, <6>2
        <5>2. CASE j # i
          <6>1. Advancing(j)' = Advancing(j)
            BY <1>2, <2>2, <5>2 DEF Advancing, Others
          <6>2. QED
            BY <1>2, <2>10, <3>7, <5>2, <6>1
        <5>3. QED
          BY <5>1, <5>2
      <4>2. given[index2[j].heads[k].msg] = 0
        BY <1>1, <1>2, <3>2, <3>7, <4>1 DEF OnceInv
      <4>3. QED
        BY <1>2, <2>8, <2>10, <3>7, <4>1, <4>2
    <3>8. \A x \in Msgs : given'[x] <= 1
      BY <1>1, <2>8, <3>2, <3>4 DEF OnceInv
    <3>9. QED
      BY <3>5, <3>6, <3>7, <3>8 DEF OnceInv
  <2>17. ShowPart(p)'
    <3>1. loc'[p].ino = cur'["index2"] /\ loc'[p].at \in 0..Len(Heads2') - 1
      BY <2>1, <2>2, <2>5 DEF i
    <3>2. QED
      BY <2>2, <3>1 DEF ShowPart
  <2>18. QED
    BY <1>2, <2>5, <2>13, <2>14, <2>15, <2>16, <2>17 DEF IInv, ShowInv
<1>5. QED
  BY <1>1, <1>3, <1>4, TakeFacts

(* The inodes still to be made, when a name is gone. *)
LEMMA RoomUnlink ==
    ASSUME Typed, Typed', RoomInv, NEW p \in Procs, NEW n \in Names, Unlinked(p, n),
           p \notin Pend(n)', clears' \in {clears, clears + 1},
           \A k \in Names : p \in Pend(k)' => p \in Pend(k) \/ clears' = clears + 1,
           p \in Pend(n) \/ clears' = clears + 1
    PROVE  RoomInv'
<1>1. cur'[n] = 0 /\ (\A k \in Names \ {n} : cur'[k] = cur[k]) /\ made' = made
  BY DEF Unlinked
<1>2. ASSUME NEW k \in Names
      PROVE  /\ IsFiniteSet(Pend(k)) /\ Cardinality(Pend(k)) \in Nat /\ cur[k] <= made[k]
             /\ made[k] + Cardinality(Pend(k)) <= clears + (IF cur[k] = 0 THEN 0 ELSE 1)
             /\ cur[k] \in Nat /\ made[k] \in Nat /\ clears \in Nat
  BY FS_CardinalityType DEF RoomInv, Typed
<1>3. ASSUME NEW k \in Names PROVE Pend(k)' \ {p} = Pend(k) \ {p}
  BY DEF Unlinked, Others, Pend
<1>4. ASSUME NEW k \in Names
      PROVE  /\ IsFiniteSet(Pend(k)') /\ Cardinality(Pend(k)') \in Nat
             /\ p \in Pend(k) <=> p \in Pend(k)' =>
                   Cardinality(Pend(k)') = Cardinality(Pend(k))
             /\ p \in Pend(k)' /\ p \notin Pend(k) =>
                   Cardinality(Pend(k)') = Cardinality(Pend(k)) + 1
             /\ p \notin Pend(k)' /\ p \in Pend(k) =>
                   Cardinality(Pend(k)') = Cardinality(Pend(k)) - 1
  <2>1. CASE p \in Pend(k) <=> p \in Pend(k)'
    <3>1. Pend(k)' = Pend(k)
      BY <1>3, <2>1
    <3>2. QED
      BY <1>2, <2>1, <3>1
  <2>2. CASE p \in Pend(k)' /\ p \notin Pend(k)
    <3>1. Pend(k)' = Pend(k) \cup {p}
      BY <1>3, <2>2
    <3>2. IsFiniteSet(Pend(k) \cup {p})
          /\ Cardinality(Pend(k) \cup {p}) = Cardinality(Pend(k)) + 1
      BY <1>2, <2>2, FS_AddElement
    <3>3. QED
      BY <1>2, <2>2, <3>1, <3>2
  <2>3. CASE p \notin Pend(k)' /\ p \in Pend(k)
    <3>1. Pend(k)' = Pend(k) \ {p}
      BY <1>3, <2>3
    <3>2. IsFiniteSet(Pend(k) \ {p})
          /\ Cardinality(Pend(k) \ {p}) = Cardinality(Pend(k)) - 1
      BY <1>2, <2>3, FS_RemoveElement
    <3>3. Cardinality(Pend(k) \ {p}) \in Nat
      BY <3>2, FS_CardinalityType
    <3>4. QED
      BY <2>3, <3>1, <3>2, <3>3
  <2>4. QED
    BY <2>1, <2>2, <2>3
<1>5. ASSUME NEW k \in Names
      PROVE  /\ cur'[k] <= made'[k] /\ IsFiniteSet(Pend(k)')
             /\ made'[k] + Cardinality(Pend(k)') <= clears' + (IF cur'[k] = 0 THEN 0 ELSE 1)
  <2>1. CASE k = n
    BY <1>1, <1>2, <1>4, <2>1
  <2>2. CASE k # n
    BY <1>1, <1>2, <1>4, <2>2
  <2>3. QED
    BY <2>1, <2>2
<1>6. QED
  BY <1>5 DEF RoomInv

(* What the three unlinks have in common. *)
LEMMA UnlinkCommon ==
    ASSUME IInv, NEW p \in Procs, NEW n \in Names, Typed', Unlinked(p, n),
           pc[p] \in {"idle", "unlink", "unlink2", "unlink_content"},
           pc'[p] \in {"idle", "unlink2", "unlink_content"}
    PROVE  /\ FileInv' /\ LockInv' /\ CountInv' /\ SkipInv' /\ OnceInv'
           /\ SaveInv' /\ HeadInv' /\ Head2Inv' /\ ShowInv' /\ MailInv'
           /\ Saving' = Saving /\ \A q \in Saving : loc'[q].msg = loc[q].msg /\ loc[q].msg \in hurt'
           /\ Safe' \subseteq Safe /\ hurt \subseteq hurt' /\ Others(p)
           /\ Clearing' \subseteq Clearing \cup {p}
<1>1. /\ Typed /\ RoomInv /\ FileInv /\ LockInv /\ CountInv /\ SaveInv /\ HeadInv /\ Head2Inv
      /\ SkipInv /\ OnceInv /\ EpochInv /\ TextInv /\ ShowInv /\ MailInv /\ KeepInv
  BY DEF IInv
<1>2. /\ hurt' = hurt \cup {loc[q].msg : q \in Saving}
      /\ Others(p) /\ \A q \in Procs \ {p} : ~loc'[q].lone
      /\ UNCHANGED <<made, index, index2, content, sent, given, late, raced, mailed>>
  BY DEF Unlinked
<1>3. /\ pc[p] \notin Saves /\ pc'[p] \notin Saves \cup Mails \cup Views5
      /\ pc[p] # "advance" /\ pc'[p] # "advance"
  BY DEF Saves, Mails, Views5
<1>4. FileInv'
  BY <1>1, <1>2, <1>3 DEF FileInv, Others, Saves
<1>5. LockInv'
  BY <1>1, <1>2, <1>3 DEF LockInv, Others, Saves
<1>6. CountInv' /\ SkipInv' /\ OnceInv'
  BY <1>1, <1>2, <1>3, ReadKept
<1>7. SaveInv' /\ HeadInv' /\ Head2Inv'
  BY <1>1, <1>2, <1>3, SaveKept, HeadKept, Head2Kept
<1>8. Saving' = Saving /\ \A q \in Saving : loc'[q].msg = loc[q].msg
  BY <1>2, <1>3 DEF Saving, Others, Saves
<1>9. ShowInv'
  <2>1. ASSUME NEW q \in Procs PROVE ShowPart(q)'
    <3>1. CASE q = p
      BY <1>3, <3>1 DEF ShowPart, Views5
    <3>2. CASE q # p
      <4>1. ~loc'[q].lone /\ pc'[q] = pc[q] /\ loc'[q].job = loc[q].job
        BY <1>2, <3>2 DEF Others
      <4>2. pc[q] = "take" => loc[q].job \in {"r_msg", "web"}
        BY <1>1 DEF ShowInv, ShowPart
      <4>3. QED
        BY <4>1, <4>2 DEF ShowPart
    <3>3. QED
      BY <3>1, <3>2
  <2>2. QED
    BY <2>1 DEF ShowInv
<1>10. MailInv'
  BY <1>1, <1>2, <1>3, MailKept
<1>11. Safe' \subseteq Safe
  BY <1>2, <1>8 DEF Safe
<1>12. Clearing' \subseteq Clearing \cup {p}
  BY <1>2 DEF Clearing, Others
<1>13. QED
  BY <1>2, <1>4, <1>5, <1>6, <1>7, <1>8, <1>9, <1>10, <1>11, <1>12

LEMMA UnlinkIndexKeeps ==
    ASSUME IInv, NEW p \in Procs, UnlinkIndex(p)
    PROVE  IInv'
<1>1. /\ Typed /\ RoomInv /\ FileInv /\ LockInv /\ CountInv /\ SaveInv /\ HeadInv /\ Head2Inv
      /\ SkipInv /\ OnceInv /\ EpochInv /\ TextInv /\ ShowInv /\ MailInv /\ KeepInv
  BY DEF IInv
<1>2. /\ Typed' /\ Unlinked(p, "index") /\ pc'[p] = "unlink2"
      /\ \/ /\ pc[p] = "idle" /\ clears' = clears + 1
            /\ wiped' = wiped \cup MsgsOf(Heads)
         \/ pc[p] = "unlink" /\ UNCHANGED <<clears, wiped>>
      /\ Heads' = <<>> /\ Index2' = Index2 /\ Heads2' = Heads2
      /\ \A pos \in Nat : TextAt(pos)' = TextAt(pos)
  BY <1>1, UnlinkIndexFacts
<1>3. /\ pc[p] \in {"idle", "unlink", "unlink2", "unlink_content"}
      /\ pc'[p] \in {"idle", "unlink2", "unlink_content"} /\ "index" \in Names
  BY <1>2 DEF Names
<1>4. /\ FileInv' /\ LockInv' /\ CountInv' /\ SkipInv' /\ OnceInv'
      /\ SaveInv' /\ HeadInv' /\ Head2Inv' /\ ShowInv' /\ MailInv'
      /\ Saving' = Saving /\ \A q \in Saving : loc'[q].msg = loc[q].msg /\ loc[q].msg \in hurt'
      /\ Safe' \subseteq Safe /\ hurt \subseteq hurt' /\ Others(p)
  BY <1>2, <1>3, UnlinkCommon
<1>5. /\ cur'["content"] = cur["content"]
      /\ UNCHANGED <<made, index, index2, content, sent, given, late, raced, mailed>>
  BY <1>2 DEF Unlinked, Names
<1>6. RoomInv'
  <2>1. p \notin Pend("index")'
    BY <1>2 DEF Pend
  <2>2. pc[p] = "unlink" => \A k \in Names : p \in Pend(k)
    BY DEF Pend
  <2>3. QED
    BY <1>1, <1>2, <1>3, <2>1, <2>2, RoomUnlink
<1>7. EpochInv'
  <2>1. \A k \in 1..Len(Heads') : Heads'[k].msg \in hurt'
    BY <1>2
  <2>2. (\E q \in Procs : pc'[q] = "unlink_content") => \E q \in Procs : pc[q] = "unlink_content"
    BY <1>2, <1>4 DEF Others
  <2>3. (\E q \in Procs : pc'[q] = "unlink_content") =>
           \A k \in 1..Len(Heads2') : Heads2'[k].msg \in hurt'
    BY <1>1, <1>2, <1>4, <2>2 DEF EpochInv
  <2>4. QED
    BY <1>4, <2>1, <2>3 DEF EpochInv
<1>8. TextInv'
  <2>1. ASSUME NEW m \in Msgs, NEW pos \in Nat, Good(m, pos) PROVE Good(m, pos)'
    BY <1>2, <1>4, <1>5, <2>1 DEF Good, Others
  <2>2. \A k \in 1..Len(Heads2') : Heads2'[k].msg \notin hurt'
                                     => Good(Heads2[k].msg, Heads2[k].pos)'
    <3>1. \A k \in 1..Len(Heads2) : Heads2[k].msg \notin hurt =>
             /\ Good(Heads2[k].msg, Heads2[k].pos)
             /\ Heads2[k].msg \in Msgs /\ Heads2[k].pos \in Nat
      BY <1>1, Places DEF TextInv
    <3>2. QED
      BY <1>2, <1>4, <2>1, <3>1
  <2>3. QED
    BY <1>2, <1>4, <2>2 DEF TextInv
<1>9. KeepInv'
  <2>1. ASSUME NEW m \in Safe' PROVE Kept(m)'
    <3>1. m \in Safe
      BY <1>4
    <3>2. CASE pc[p] = "unlink" /\ UNCHANGED <<clears, wiped>>
      BY <1>1, <1>5, <3>1, <3>2 DEF KeepInv, KeepPart, Kept
    <3>3. CASE wiped' = wiped \cup MsgsOf(Heads)
      <4>1. InIndex(m, Len(Heads)) => m \in MsgsOf(Heads)
        <5>1. Heads \in Seq(Header)
          BY <1>1, Views
        <5>2. DOMAIN Heads = 1..Len(Heads)
          BY <5>1
        <5>3. QED
          BY <5>2 DEF InIndex, MsgsOf, ToSet
      <4>2. InIndex(m, Len(Heads)) \/ Kept(m)
        BY <1>1, <3>1 DEF KeepInv, KeepPart
      <4>3. QED
        BY <1>5, <3>3, <4>1, <4>2 DEF Kept
    <3>4. QED
      BY <1>2, <3>2, <3>3
  <2>2. \A q \in Saving' : loc'[q].msg \in hurt'
    BY <1>4
  <2>3. QED
    BY <2>1, <2>2 DEF KeepInv, KeepPart
<1>10. QED
  BY <1>2, <1>4, <1>6, <1>7, <1>8, <1>9 DEF IInv

LEMMA UnlinkIndex2Keeps ==
    ASSUME IInv, NEW p \in Procs, UnlinkIndex2(p)
    PROVE  IInv'
<1>1. /\ Typed /\ RoomInv /\ FileInv /\ LockInv /\ CountInv /\ SaveInv /\ HeadInv /\ Head2Inv
      /\ SkipInv /\ OnceInv /\ EpochInv /\ TextInv /\ ShowInv /\ MailInv /\ KeepInv
  BY DEF IInv
<1>2. /\ Typed' /\ Unlinked(p, "index2") /\ pc[p] = "unlink2" /\ pc'[p] = "unlink_content"
      /\ UNCHANGED <<clears, wiped>>
      /\ Heads' = Heads /\ Index2' = NewIndex2 /\ Heads2' = <<>>
  BY <1>1, UnlinkIndex2Facts
<1>3. /\ pc[p] \in {"idle", "unlink", "unlink2", "unlink_content"}
      /\ pc'[p] \in {"idle", "unlink2", "unlink_content"} /\ "index2" \in Names
  BY <1>2 DEF Names
<1>4. /\ FileInv' /\ LockInv' /\ CountInv' /\ SkipInv' /\ OnceInv'
      /\ SaveInv' /\ HeadInv' /\ Head2Inv' /\ ShowInv' /\ MailInv'
      /\ Saving' = Saving /\ \A q \in Saving : loc'[q].msg = loc[q].msg /\ loc[q].msg \in hurt'
      /\ Safe' \subseteq Safe /\ hurt \subseteq hurt' /\ Others(p)
  BY <1>2, <1>3, UnlinkCommon
<1>5. RoomInv'
  <2>1. p \notin Pend("index2")' /\ p \in Pend("index2")
    BY <1>2 DEF Pend
  <2>2. \A k \in Names : p \in Pend(k)' => p \in Pend(k)
    BY <1>2 DEF Pend, Names
  <2>3. QED
    BY <1>1, <1>2, <1>3, <2>1, <2>2, RoomUnlink
<1>6. \A k \in 1..Len(Heads') : Heads'[k].msg \in hurt'
  BY <1>1, <1>2, <1>4 DEF EpochInv, Clearing
<1>7. EpochInv' /\ TextInv'
  BY <1>2, <1>4, <1>6 DEF EpochInv, TextInv
<1>8. KeepInv'
  <2>1. \A m : \A k \in Int : InIndex(m, k) => InIndex(m, k)'
    BY <1>2 DEF InIndex
  <2>2. \A m : InIndex(m, Len(Heads)) => InIndex(m, Len(Heads))'
    BY <1>2 DEF InIndex
  <2>3. pc'[p] \notin Mails /\ pc'[p] \notin {"text", "open2", "head2"}
        /\ mailed' = mailed /\ wiped' = wiped
    BY <1>2 DEF Mails, Unlinked
  <2>4. QED
    BY <1>1, <1>2, <1>4, <2>1, <2>2, <2>3, KeepStill
<1>9. QED
  BY <1>2, <1>4, <1>5, <1>7, <1>8 DEF IInv

LEMMA UnlinkContentKeeps ==
    ASSUME IInv, NEW p \in Procs, UnlinkContent(p)
    PROVE  IInv'
<1>1. /\ Typed /\ RoomInv /\ FileInv /\ LockInv /\ CountInv /\ SaveInv /\ HeadInv /\ Head2Inv
      /\ SkipInv /\ OnceInv /\ EpochInv /\ TextInv /\ ShowInv /\ MailInv /\ KeepInv
  BY DEF IInv
<1>2. /\ Typed' /\ Unlinked(p, "content") /\ pc[p] = "unlink_content" /\ pc'[p] = "idle"
      /\ UNCHANGED <<clears, wiped>>
      /\ Heads' = Heads /\ Index2' = Index2 /\ Heads2' = Heads2
  BY <1>1, UnlinkContentFacts
<1>3. /\ pc[p] \in {"idle", "unlink", "unlink2", "unlink_content"}
      /\ pc'[p] \in {"idle", "unlink2", "unlink_content"} /\ "content" \in Names
  BY <1>2 DEF Names
<1>4. /\ FileInv' /\ LockInv' /\ CountInv' /\ SkipInv' /\ OnceInv'
      /\ SaveInv' /\ HeadInv' /\ Head2Inv' /\ ShowInv' /\ MailInv'
      /\ Saving' = Saving /\ \A q \in Saving : loc'[q].msg = loc[q].msg /\ loc[q].msg \in hurt'
      /\ Safe' \subseteq Safe /\ hurt \subseteq hurt' /\ Others(p)
  BY <1>2, <1>3, UnlinkCommon
<1>5. RoomInv'
  <2>1. \A k \in Names : p \notin Pend(k)'
    BY <1>2 DEF Pend
  <2>2. p \in Pend("content")
    BY <1>2 DEF Pend
  <2>3. QED
    BY <1>1, <1>2, <1>3, <2>1, <2>2, RoomUnlink
<1>6. /\ \A k \in 1..Len(Heads') : Heads'[k].msg \in hurt'
      /\ \A k \in 1..Len(Heads2') : Heads2'[k].msg \in hurt'
  BY <1>1, <1>2, <1>4 DEF EpochInv, Clearing
<1>7. EpochInv' /\ TextInv'
  BY <1>4, <1>6 DEF EpochInv, TextInv
<1>8. KeepInv'
  <2>1. \A m : \A k \in Int : InIndex(m, k) => InIndex(m, k)'
    BY <1>2 DEF InIndex
  <2>2. \A m : InIndex(m, Len(Heads)) => InIndex(m, Len(Heads))'
    BY <1>2 DEF InIndex
  <2>3. pc'[p] \notin Mails /\ pc'[p] \notin {"text", "open2", "head2"}
        /\ mailed' = mailed /\ wiped' = wiped
    BY <1>2 DEF Mails, Unlinked
  <2>4. QED
    BY <1>1, <1>2, <1>4, <2>1, <2>2, <2>3, KeepStill
<1>9. QED
  BY <1>2, <1>4, <1>5, <1>7, <1>8 DEF IInv

(* A plain step keeps the invariant if it keeps what the process itself    *)
(* brings into it.                                                         *)
LEMMA PlainCommon ==
    ASSUME IInv, NEW p \in Procs, Typed', Plain(p), mailed \subseteq mailed'
    PROVE  /\ FilePart' /\ (ShowPart(p)' => ShowInv') /\ (MailPart(p)' => MailInv')
           /\ (KeepPart(p)' => KeepInv') /\ Safe' \subseteq Safe
           /\ Saving' = Saving /\ \A q \in Saving : loc'[q].msg = loc[q].msg
           /\ Heads' = Heads /\ Index2' = Index2 /\ Heads2' = Heads2
           /\ \A m : Kept(m) => Kept(m)'
<1>1. /\ Typed /\ RoomInv /\ FilePart /\ ShowInv /\ MailInv /\ KeepInv /\ FileInv
  BY DEF IInv, FilePart
<1>2. /\ FilePart' /\ Saving' = Saving
      /\ \A q \in Saving : loc'[q].msg = loc[q].msg /\ pc'[q] = pc[q]
      /\ Heads' = Heads /\ Index2' = Index2 /\ Heads2' = Heads2
  BY <1>1, PlainKeeps
<1>3. /\ Others(p) /\ late \subseteq late'
      /\ UNCHANGED <<cur, sent, hurt, wiped>>
  BY DEF Plain
<1>4. \A m : Kept(m) => Kept(m)'
  BY <1>3 DEF Kept
<1>5. Safe' \subseteq Safe
  BY <1>2, <1>3 DEF Safe
<1>6. \A q \in Procs \ {p} : ShowPart(q)'
  <2>1. get_unreadcount' = get_unreadcount
    BY <1>2 DEF get_unreadcount
  <2>2. Len(Heads2) \in Nat
    BY <1>1, Places
  <2>3. QED
    BY <1>1, <1>2, <1>3, <2>1, <2>2, ShowOthers
<1>7. ASSUME NEW q \in Procs \ {p} PROVE MailPart(q)'
  <2>1. pc'[q] = pc[q] /\ loc'[q].job = loc[q].job /\ loc'[q].at = loc[q].at
    BY <1>3 DEF Others
  <2>2. MailPart(q)
    BY <1>1 DEF MailInv
  <2>3. QED
    BY <1>2, <1>3, <2>1, <2>2 DEF MailPart
<1>8. ASSUME NEW q \in Procs \ {p} PROVE KeepPart(q)'
  <2>1. pc'[q] = pc[q] /\ loc'[q].copy = loc[q].copy /\ loc'[q].at = loc[q].at
    BY <1>3 DEF Others
  <2>2. KeepPart(q)
    BY <1>1 DEF KeepInv
  <2>3. \A m : InIndex(m, loc[q].at) => InIndex(m, loc[q].at)'
    BY <1>2, <2>1 DEF InIndex
  <2>4. QED
    BY <1>4, <1>5, <2>1, <2>2, <2>3 DEF KeepPart
<1>9. \A m : InIndex(m, Len(Heads)) => InIndex(m, Len(Heads))'
  BY <1>2 DEF InIndex
<1>10. \A q \in Saving' : loc'[q].msg \notin hurt' /\ pc'[q] \in {"text", "open2", "head2"}
                             => InIndex(loc[q].msg, Len(Heads))'
  BY <1>1, <1>2, <1>3, <1>9 DEF KeepInv
<1>11. \A m \in Safe' : InIndex(m, Len(Heads))' \/ Kept(m)'
  BY <1>1, <1>4, <1>5, <1>9 DEF KeepInv
<1>12. KeepPart(p)' => KeepInv'
  BY <1>8, <1>10, <1>11 DEF KeepInv
<1>13. (ShowPart(p)' => ShowInv') /\ (MailPart(p)' => MailInv')
  BY <1>6, <1>7 DEF ShowInv, MailInv
<1>14. QED
  BY <1>2, <1>4, <1>5, <1>12, <1>13

LEMMA PlainDone ==
    ASSUME IInv, NEW p \in Procs, Typed', Plain(p), UNCHANGED <<clears, mailed>>,
           pc'[p] \notin Unlinks, pc[p] \notin Unlinks, ShowPart(p)', MailPart(p)', KeepPart(p)'
    PROVE  IInv'
<1>1. RoomInv'
  <2>1. Typed /\ RoomInv /\ Others(p) /\ UNCHANGED <<cur, made>>
    BY DEF IInv, Plain
  <2>2. QED
    BY <2>1, RoomKept
<1>2. FilePart' /\ ShowInv' /\ MailInv' /\ KeepInv'
  BY PlainCommon
<1>3. QED
  BY <1>1, <1>2 DEF IInv, FilePart

LEMMA ShowStartKeeps ==
    ASSUME IInv, NEW p \in Procs, ShowStart(p)
    PROVE  IInv'
<1>1. /\ Typed' /\ Plain(p) /\ pc'[p] = "take" /\ loc'[p].job \in {"r_msg", "web"}
      /\ loc'[p].job = "r_msg" => get_unreadcount > 0
      /\ UNCHANGED <<clears, late, mailed>>
  BY ShowStartFacts DEF IInv
<1>2. pc[p] = "idle"
  BY DEF ShowStart, Does
<1>3. get_unreadcount' = get_unreadcount
  BY <1>1, PlainCommon DEF get_unreadcount
<1>4. ShowPart(p)' /\ MailPart(p)' /\ KeepPart(p)'
  BY <1>1, <1>3 DEF ShowPart, MailPart, KeepPart
<1>5. QED
  BY <1>1, <1>2, <1>4, PlainDone DEF Unlinks

LEMMA BrowseStartKeeps ==
    ASSUME IInv, NEW p \in Procs, BrowseStart(p)
    PROVE  IInv'
<1>1. /\ Typed' /\ Plain(p) /\ pc'[p] = "load"
      /\ loc'[p].lone => loc'[p].at \in 0..Len(Heads2) - 1
      /\ UNCHANGED <<clears, late, mailed>>
  BY BrowseStartFacts DEF IInv
<1>2. pc[p] = "idle"
  BY DEF BrowseStart, Does
<1>3. Heads2' = Heads2
  BY <1>1, PlainCommon
<1>4. ShowPart(p)' /\ MailPart(p)' /\ KeepPart(p)'
  BY <1>1, <1>3 DEF ShowPart, MailPart, KeepPart
<1>5. QED
  BY <1>1, <1>2, <1>4, PlainDone DEF Unlinks

LEMMA LoadHeadKeeps ==
    ASSUME IInv, NEW p \in Procs, LoadHead(p)
    PROVE  IInv'
<1>1. /\ Typed' /\ Plain(p) /\ pc[p] = "load" /\ pc'[p] = "load_text"
      /\ loc'[p].head = HeadAt(p) /\ loc'[p].lone = loc[p].lone
      /\ UNCHANGED <<clears, late, mailed>>
  BY LoadHeadFacts DEF IInv
<1>2. Heads2' = Heads2
  BY <1>1, PlainCommon
<1>3. ASSUME loc[p].lone PROVE \E k \in 1..Len(Heads2) : HeadAt(p) = Heads2[k]
  <2>1. loc[p].at \in 0..Len(Heads2) - 1 /\ Len(Heads2) \in Nat
    BY <1>1, <1>3, Places DEF IInv, ShowInv, ShowPart
  <2>2. HeadAt(p) = Heads2[loc[p].at + 1] /\ loc[p].at + 1 \in 1..Len(Heads2)
    BY <2>1 DEF HeadAt
  <2>3. QED
    BY <2>2
<1>4. ShowPart(p)' /\ MailPart(p)' /\ KeepPart(p)'
  BY <1>1, <1>2, <1>3 DEF ShowPart, MailPart, KeepPart
<1>5. QED
  BY <1>1, <1>4, PlainDone DEF Unlinks

LEMMA LoadTextKeeps ==
    ASSUME IInv, NEW p \in Procs, LoadText(p)
    PROVE  IInv'
<1>1. /\ Typed' /\ Plain(p) /\ pc[p] = "load_text" /\ pc'[p] = "shown"
      /\ loc'[p].head = loc[p].head /\ loc'[p].lone = loc[p].lone
      /\ loc'[p].text = TextAt(loc[p].head.pos)
      /\ UNCHANGED <<clears, late, mailed>>
  BY LoadTextFacts DEF IInv
<1>2. ASSUME loc[p].lone, loc[p].head.msg \notin hurt
      PROVE  loc[p].head.msg # 0 /\ TextAt(loc[p].head.pos) = loc[p].head.msg
  <2>1. PICK k \in 1..Len(Heads2) : loc[p].head = Heads2[k]
    BY <1>1, <1>2 DEF IInv, ShowInv, ShowPart
  <2>2. Good(Heads2[k].msg, Heads2[k].pos)
    BY <1>2, <2>1 DEF IInv, TextInv
  <2>3. Heads2[k].msg \in Msgs
    BY Places DEF IInv
  <2>4. QED
    BY <2>1, <2>2, <2>3 DEF Good, Msgs
<1>3. ShowPart(p)' /\ MailPart(p)' /\ KeepPart(p)'
  BY <1>1, <1>2 DEF ShowPart, MailPart, KeepPart, Plain
<1>4. QED
  BY <1>1, <1>3, PlainDone DEF Unlinks

LEMMA ShowOnKeeps ==
    ASSUME IInv, NEW p \in Procs, ShowOn(p)
    PROVE  IInv'
<1>1. /\ Typed' /\ Plain(p)
      /\ \/ pc'[p] = "idle"
         \/ pc'[p] = "take" /\ loc'[p].job = "r_msg" /\ get_unreadcount > 0
      /\ UNCHANGED <<clears, late, mailed>>
  BY ShowOnFacts DEF IInv
<1>2. pc[p] = "shown"
  BY DEF ShowOn
<1>3. get_unreadcount' = get_unreadcount
  BY <1>1, PlainCommon DEF get_unreadcount
<1>4. ShowPart(p)' /\ MailPart(p)' /\ KeepPart(p)'
  BY <1>1, <1>3 DEF ShowPart, MailPart, KeepPart
<1>5. QED
  BY <1>1, <1>2, <1>4, PlainDone DEF Unlinks

LEMMA MailCountKeeps ==
    ASSUME IInv, NEW p \in Procs, MailCount(p)
    PROVE  IInv'
<1>1. /\ Typed' /\ Plain(p) /\ pc[p] = "idle" /\ pc'[p] = "mail_copy"
      /\ loc'[p].job = "mail" /\ loc'[p].at = Len(Heads)
      /\ late' = late \cup {loc[q].msg : q \in Saving}
      /\ UNCHANGED <<clears, mailed>>
  BY MailCountFacts DEF IInv
<1>2. /\ Safe' \subseteq Safe /\ Saving' = Saving /\ \A q \in Saving : loc'[q].msg = loc[q].msg
      /\ Heads' = Heads /\ \A m : Kept(m) => Kept(m)'
  BY <1>1, PlainCommon
<1>3. ShowPart(p)'
  BY <1>1 DEF ShowPart
<1>4. MailPart(p)'
  <2>1. Len(Heads) \in Nat
    BY Places DEF IInv
  <2>2. QED
    BY <1>1, <1>2, <2>1 DEF MailPart
<1>5. KeepPart(p)'
  <2>1. \A m \in Safe : InIndex(m, Len(Heads)) \/ Kept(m)
    BY DEF IInv, KeepInv
  <2>2. \A m : InIndex(m, Len(Heads)) => InIndex(m, loc[p].at)'
    BY <1>1, <1>2 DEF InIndex
  <2>3. QED
    BY <1>1, <1>2, <2>1, <2>2 DEF KeepPart
<1>6. QED
  BY <1>1, <1>3, <1>4, <1>5, PlainDone DEF Unlinks

LEMMA MailCopyKeeps ==
    ASSUME IInv, NEW p \in Procs, MailCopy(p)
    PROVE  IInv'
<1>1. /\ Typed' /\ Plain(p) /\ pc[p] = "mail_copy" /\ pc'[p] = "mail_send"
      /\ loc'[p].job = loc[p].job
      /\ \A m : InIndex(m, loc[p].at) => m \in loc'[p].copy
      /\ UNCHANGED <<clears, late, mailed>>
  BY MailCopyFacts DEF IInv
<1>2. /\ Safe' \subseteq Safe /\ Saving' = Saving /\ \A q \in Saving : loc'[q].msg = loc[q].msg
      /\ \A m : Kept(m) => Kept(m)'
  BY <1>1, PlainCommon
<1>3. ShowPart(p)'
  BY <1>1 DEF ShowPart
<1>4. MailPart(p)'
  <2>1. MailPart(p)
    BY DEF IInv, MailInv
  <2>2. QED
    BY <1>1, <1>2, <2>1 DEF MailPart
<1>5. KeepPart(p)'
  <2>1. KeepPart(p)
    BY DEF IInv, KeepInv
  <2>2. QED
    BY <1>1, <1>2, <2>1 DEF KeepPart
<1>6. QED
  BY <1>1, <1>3, <1>4, <1>5, PlainDone DEF Unlinks

LEMMA MailSendKeeps ==
    ASSUME IInv, NEW p \in Procs, MailSend(p)
    PROVE  IInv'
<1>1. /\ Typed' /\ Plain(p) /\ pc[p] = "mail_send" /\ UNCHANGED late
      /\ \/ /\ pc'[p] = "unlink" /\ loc'[p].job = loc[p].job
            /\ clears' = clears + 1 /\ mailed' = mailed \cup loc[p].copy
         \/ pc'[p] = "idle" /\ UNCHANGED <<clears, mailed>>
  BY MailSendFacts DEF IInv
<1>2. /\ FilePart' /\ (ShowPart(p)' => ShowInv') /\ (MailPart(p)' => MailInv')
      /\ (KeepPart(p)' => KeepInv') /\ Safe' \subseteq Safe
      /\ Saving' = Saving /\ \A q \in Saving : loc'[q].msg = loc[q].msg
      /\ \A m : Kept(m) => Kept(m)'
  BY <1>1, PlainCommon
<1>3. ShowPart(p)'
  BY <1>1 DEF ShowPart
<1>4. MailPart(p)'
  <2>1. MailPart(p)
    BY DEF IInv, MailInv
  <2>2. QED
    BY <1>1, <1>2, <2>1 DEF MailPart
<1>5. KeepPart(p)'
  <2>1. KeepPart(p)
    BY DEF IInv, KeepInv
  <2>2. CASE pc'[p] = "unlink" /\ mailed' = mailed \cup loc[p].copy
    <3>1. ASSUME NEW m \in Safe' PROVE Kept(m)'
      <4>1. m \in loc[p].copy \/ Kept(m)
        BY <1>1, <1>2, <2>1 DEF KeepPart
      <4>2. QED
        BY <1>2, <2>2, <4>1 DEF Kept
    <3>2. QED
      BY <2>2, <3>1 DEF KeepPart
  <2>3. CASE pc'[p] = "idle"
    BY <2>3 DEF KeepPart
  <2>4. QED
    BY <1>1, <2>2, <2>3
<1>6. RoomInv'
  <2>1. Typed /\ RoomInv /\ Others(p) /\ UNCHANGED <<cur, made>>
    BY <1>1 DEF IInv, Plain
  <2>2. CASE pc'[p] = "idle" /\ UNCHANGED <<clears, mailed>>
    BY <1>1, <2>1, <2>2, RoomKept DEF Unlinks
  <2>3. CASE pc'[p] = "unlink" /\ clears' = clears + 1
    <3>1. ASSUME NEW n \in Names PROVE Pend(n)' = Pend(n) \cup {p} /\ p \notin Pend(n)
      BY <1>1, <2>1, <2>3 DEF Pend, Others
    <3>2. ASSUME NEW n \in Names
          PROVE  /\ cur'[n] <= made'[n] /\ IsFiniteSet(Pend(n)')
                 /\ made'[n] + Cardinality(Pend(n)') <= clears' + (IF cur'[n] = 0 THEN 0 ELSE 1)
      <4>1. /\ IsFiniteSet(Pend(n)) /\ Cardinality(Pend(n)) \in Nat /\ cur[n] <= made[n]
            /\ made[n] + Cardinality(Pend(n)) <= clears + (IF cur[n] = 0 THEN 0 ELSE 1)
            /\ cur[n] \in Nat /\ made[n] \in Nat /\ clears \in Nat
        BY <2>1, FS_CardinalityType DEF RoomInv, Typed
      <4>2. IsFiniteSet(Pend(n) \cup {p})
            /\ Cardinality(Pend(n) \cup {p}) = Cardinality(Pend(n)) + 1
        BY <3>1, <4>1, FS_AddElement
      <4>3. IsFiniteSet(Pend(n)') /\ Cardinality(Pend(n)') = Cardinality(Pend(n)) + 1
        BY <3>1, <4>2
      <4>4. QED
        BY <2>1, <2>3, <4>1, <4>3
    <3>3. QED
      BY <3>2 DEF RoomInv
  <2>4. QED
    BY <1>1, <2>2, <2>3
<1>7. QED
  BY <1>1, <1>2, <1>3, <1>4, <1>5, <1>6 DEF IInv, FilePart

-----------------------------------------------------------------------------
(***************************************************************************)
(* The theorems.                                                           *)
(***************************************************************************)

(* Every step keeps the invariant. *)
LEMMA Inductive == IInv /\ [Next]_vars => IInv'
<1> SUFFICES ASSUME IInv, [Next]_vars PROVE IInv'
  OBVIOUS
<1>1. CASE UNCHANGED vars
  <2>1. /\ UNCHANGED <<cur, made, index, index2, content, pc, loc, sent, clears>>
        /\ UNCHANGED <<given, hurt, late, raced, mailed, wiped>>
    BY <1>1 DEF vars, files, marks
  <2>2. Heads' = Heads /\ Index2' = Index2 /\ Heads2' = Heads2
        /\ Saving' = Saving /\ Clearing' = Clearing /\ Adrift' = Adrift
    BY <2>1 DEF Heads, Index2, Heads2, Saving, Clearing, Adrift
  <2>3. get_unreadcount' = get_unreadcount /\ Safe' = Safe
    BY <2>1, <2>2 DEF get_unreadcount, Safe
  <2>4. Typed' /\ RoomInv' /\ FileInv' /\ LockInv' /\ CountInv'
    BY <2>1 DEF IInv, Typed, RoomInv, Pend, FileInv, LockInv, CountInv
  <2>5. SaveInv' /\ HeadInv' /\ Head2Inv' /\ SkipInv' /\ OnceInv'
    BY <2>1, <2>2 DEF IInv, SaveInv, HeadInv, Head2Inv, SkipInv, OnceInv, Advancing
  <2>6. EpochInv' /\ TextInv'
    BY <2>1, <2>2 DEF IInv, EpochInv, TextInv, Good, TextAt
  <2>7. ShowInv' /\ MailInv' /\ KeepInv'
    BY <2>1, <2>2, <2>3 DEF IInv, ShowInv, ShowPart, MailInv, MailPart, KeepInv, KeepPart,
                            InIndex, Kept
  <2>8. QED
    BY <2>4, <2>5, <2>6, <2>7 DEF IInv
<1>2. ASSUME NEW p \in Procs, Save(p) PROVE IInv'
  BY <1>2, SendStartKeeps, OpenContentKeeps, WriteHeadKeeps, WriteTextKeeps, OpenIndex2Keeps,
     WriteHead2Keeps, KillKeeps DEF Save
<1>3. ASSUME NEW p \in Procs, Show(p) PROVE IInv'
  BY <1>3, ShowStartKeeps, BrowseStartKeeps, TakeKeeps, AdvanceKeeps, LoadHeadKeeps,
     LoadTextKeeps, ShowOnKeeps DEF Show
<1>4. ASSUME NEW p \in Procs, Clear(p) PROVE IInv'
  BY <1>4, MailCountKeeps, MailCopyKeeps, MailSendKeeps, UnlinkIndexKeeps, UnlinkIndex2Keeps,
     UnlinkContentKeeps DEF Clear
<1>5. QED
  BY <1>1, <1>2, <1>3, <1>4 DEF Next

LEMMA Always == Spec => []IInv
<1>1. Init => IInv
  BY InitInv
<1>2. QED
  BY <1>1, Inductive, PTL DEF Spec

LEMMA ToSetFacts ==
    ASSUME NEW S, NEW s \in Seq(S)
    PROVE  ToSet(s) \subseteq S /\ \A x : x \in ToSet(s) <=> \E k \in 1..Len(s) : s[k] = x
<1>1. DOMAIN s = 1..Len(s) /\ \A k \in 1..Len(s) : s[k] \in S
  OBVIOUS
<1>2. QED
  BY <1>1 DEF ToSet

LEMMA FilesFollow == IInv => FilesRight
<1> SUFFICES ASSUME IInv PROVE FilesRight
  OBVIOUS
<1>1. Typed /\ RoomInv /\ CountInv /\ SkipInv /\ OnceInv /\ TextInv
  BY DEF IInv
<1>2. /\ \A x : x \in ToSet(Heads) <=> \E k \in 1..Len(Heads) : Heads[k] = x
      /\ \A x : x \in ToSet(Heads2) <=> \E k \in 1..Len(Heads2) : Heads2[k] = x
  <2>1. Heads \in Seq(Header) /\ Heads2 \in Seq(Header)
    BY <1>1, Views
  <2>2. QED
    BY <2>1, ToSetFacts
<1>3. TypeOK
  <2>1. cur \in [Names -> 0..MaxClears + 1] /\ made \in [Names -> 0..MaxClears + 1]
    <3>1. \A n \in Names : cur[n] \in 0..MaxClears + 1 /\ made[n] \in 0..MaxClears + 1
      BY <1>1, Views
    <3>2. QED
      BY <1>1, <3>1 DEF Typed
  <2>2. ASSUME NEW i \in Inodes
        PROVE  /\ ToSet(index[i]) \subseteq Header
               /\ ToSet(index2[i].heads) \subseteq Header
               /\ index2[i].counter \in -1..Len(index2[i].heads)
               /\ ToSet(content[i]) \subseteq Msgs
    <3>1. index[i] \in Seq(Header) /\ index2[i].heads \in Seq(Header) /\ content[i] \in Seq(Msgs)
      BY <1>1 DEF Typed
    <3>2. ToSet(index[i]) \subseteq Header
      BY <3>1, ToSetFacts
    <3>3. ToSet(index2[i].heads) \subseteq Header
      BY <3>1, ToSetFacts
    <3>4. ToSet(content[i]) \subseteq Msgs
      BY <3>1, ToSetFacts
    <3>5. QED
      BY <1>1, <3>2, <3>3, <3>4 DEF CountInv
  <2>3. given \in [Msgs -> Nat]
    BY <1>1 DEF Typed
  <2>4. QED
    BY <2>1, <2>2, <2>3 DEF TypeOK
<1>4. OwnText
  <2>1. ASSUME NEW h \in ToSet(Heads2), h.msg \notin hurt PROVE TextAt(h.pos) = h.msg
    BY <1>1, <1>2, <2>1 DEF TextInv, Good
  <2>2. ASSUME NEW h \in ToSet(Heads), \A q \in Saving : loc[q].msg # h.msg, h.msg \notin hurt
        PROVE  TextAt(h.pos) = h.msg
    <3>1. PICK k \in 1..Len(Heads) : Heads[k] = h
      BY <1>2
    <3>2. Good(Heads[k].msg, Heads[k].pos)
      BY <1>1, <2>2, <3>1 DEF TextInv
    <3>3. QED
      BY <3>1, <3>2 DEF Good
  <2>3. QED
    BY <2>1, <2>2 DEF OwnText
<1>5. NoneSkipped
  <2>1. ASSUME NEW k \in 1..Len(Heads2), k <= Index2.counter PROVE given[Heads2[k].msg] > 0
    <3>1. /\ cur["index2"] \in Inodes /\ k \in 1..Len(index2[cur["index2"]].heads)
          /\ Heads2[k] = index2[cur["index2"]].heads[k]
      BY <1>1, CurFacts
    <3>2. Index2 = index2[cur["index2"]]
      BY <3>1 DEF Index2, Inodes
    <3>3. QED
      BY <1>1, <2>1, <3>1, <3>2 DEF SkipInv
  <2>2. QED
    BY <2>1 DEF NoneSkipped
<1>6. ShownOnce
  <2>1. \A m \in Msgs : given[m] \in Nat
    BY <1>1 DEF Typed
  <2>2. QED
    BY <1>1, <2>1 DEF ShownOnce, OnceInv
<1>7. QED
  BY <1>3, <1>4, <1>5, <1>6 DEF FilesRight

(* The three files of an account stay in step, for any number of senders,  *)
(* sessions and clearings: every header leads to the text of its message,  *)
(* the counter of msgindex2 passes over none, and none is handed out again *)
(* unless two sessions were in get_unreadmsg at a time.                    *)
THEOREM FilesAreRight == Spec => []FilesRight
BY Always, FilesFollow, PTL

(* A session that nobody disturbs shows a message with its own text:       *)
(* get_unreadmsg, load_msghead and load_msgtext, one after the other,      *)
(* under no common lock, agree.                                            *)
THEOREM ViewsAreRight == Spec => []ViewRight
<1>1. IInv => ViewRight
  BY DEF IInv, ShowInv, ShowPart, ViewRight
<1>2. QED
  BY <1>1, Always, PTL

(* mail_msg and clear_msg lose no message that was saved before or after   *)
(* them: each is in msgindex, or was mailed, or was cleared on purpose.    *)
THEOREM NoMessageIsLost == Spec => []NoMessageLost
<1>1. ASSUME IInv PROVE NoMessageLost
  <2>1. ASSUME NEW m, InIndex(m, Len(Heads)) PROVE m \in MsgsOf(Heads)
    <3>1. Heads \in Seq(Header)
      BY <1>1, Views DEF IInv
    <3>2. DOMAIN Heads = 1..Len(Heads)
      BY <3>1
    <3>3. QED
      BY <2>1, <3>2 DEF InIndex, MsgsOf, ToSet
  <2>2. \A m \in Safe : InIndex(m, Len(Heads)) \/ Kept(m)
    BY <1>1 DEF IInv, KeepInv
  <2>3. QED
    BY <2>1, <2>2 DEF NoMessageLost, Safe, Kept
<1>2. QED
  BY <1>1, Always, PTL
-----------------------------------------------------------------------------
(***************************************************************************)
(* The inductive invariant, in named parts.                                *)
(***************************************************************************)

Froms == {"signal", "switch", "ctrlz"}
Frames == [at : {"none", "count", "key", "end"}, from : Froms \cup {"none"}, save : Modes]

(* Types of what SessionTypeOK leaves open, and the messages by where they are. *)
SessionTyped ==
    /\ arrivals \in 0..MaxArrivals
    /\ unread \in Nat /\ quiet \in Nat /\ kills \in Nat
    /\ unread + quiet <= arrivals /\ kills <= arrivals
    /\ mode \in Modes /\ ctx \in Contexts /\ io \in IoStates
    /\ frame \in Frames
    /\ outer \in [ctx : Contexts, mode : Modes, block : BOOLEAN]
    /\ excuse \subseteq {"mode", "quiet", "reset", "stuck"}

FlagsTyped ==
    /\ received \in BOOLEAN /\ sig \in BOOLEAN
    /\ can \in BOOLEAN /\ occurred \in BOOLEAN /\ blocked \in BOOLEAN /\ have \in BOOLEAN
    /\ nomsg \in BOOLEAN /\ getkey \in BOOLEAN

(* While messages are shown the mode is MSG, and igetch is not just about  *)
(* to call r_msg itself.                                                   *)
FrameInv == Showing => mode = "MSG" /\ io # "mask"

(* A locked screen is silent, and cannot be left but by unlocking it. *)
ScreenInv == /\ ctx = "lock" => /\ mode = "LOCKSCREEN" /\ blocked
                                /\ ~Showing /\ io # "z_unmask"
             /\ outer.ctx # "lock"

(* Where messages are not blocked: in a menu, a message being written, and *)
(* in the editor of a user who does not want it; ^Z puts back what it      *)
(* found.                                                                  *)
Unblocked == ctx \in {"menu", "compose"} \/ (ctx = "edit" /\ ~nomsg)
BlockInv == Unblocked /\ "stuck" \notin excuse =>
                IF io = "z_unmask" THEN ~outer.block ELSE ~blocked

(* An unread message whose signal was sent and that nothing excuses. *)
Waiting == unread > 0 /\ kills = 0 /\ excuse = {} /\ ctx # "lock"

(* r_msg is going to look at the messages again. *)
Looking == frame.at \in {"count", "key"}

(* Such a message is remembered; by the time r_msg is over have does not   *)
(* count, which it resets, and from the moment switchSIGUSR2 has asked     *)
(* r_msg the note in occurred does not, which it resets itself.            *)
RememberInv == Waiting =>
    /\ Looking \/ sig \/ occurred \/ have
    /\ frame.at = "end" => sig \/ occurred
    /\ io \in {"unmask", "clear"} => Looking \/ sig \/ have
    /\ io \in {"unmask", "clear"} /\ frame.at = "end" => sig

SessionInv == SessionTyped /\ FlagsTyped /\ FrameInv /\ ScreenInv /\ BlockInv /\ RememberInv

USE MsgSessionAssumption DEF SessionTyped, FrameInv, ScreenInv, BlockInv, RememberInv,
    Waiting, Looking, Unblocked, Showing, Masked, NoFrame, NoOuter,
    Contexts, Modes, IoStates, Froms, Frames, senders, prefs, flags

-----------------------------------------------------------------------------
LEMMA SessionBegins == ASSUME SessionInit PROVE SessionInv
<1>1. FlagsTyped
  <2>1. received \in BOOLEAN
    BY DEF SessionInit
  <2>2. QED
    BY <2>1, Zenon DEF SessionInit, FlagsTyped
<1>2. SessionTyped
  BY DEF SessionInit
<1>3. FrameInv /\ ScreenInv /\ BlockInv /\ RememberInv
  BY DEF SessionInit
<1>4. QED
  BY <1>1, <1>2, <1>3 DEF SessionInv

(* What r_msg does at once: it leaves a note, or a flag, or begins to show. *)
LEMMA RMsgFacts ==
    ASSUME SessionInv, NEW s \in BOOLEAN, NEW from \in Froms, NEW block \in BOOLEAN,
           r_msg(s, from, block)
    PROVE  /\ frame' \in Frames /\ mode' \in Modes
           /\ \/ occurred' = TRUE /\ Deferred(s) /\ UNCHANGED <<have, mode, frame>>
              \/ have' = TRUE /\ block /\ ~Showing /\ UNCHANGED <<occurred, mode, frame>>
              \/ /\ frame'.at = "count" /\ mode' = "MSG" /\ ~block /\ ~Showing
                 /\ UNCHANGED <<occurred, have>>
<1>1. CASE Deferred(s)
  BY <1>1, Zenon DEF SessionInv, r_msg
<1>2. CASE ~Deferred(s) /\ block
  BY <1>2 DEF SessionInv, r_msg, Deferred
<1>3. CASE ~Deferred(s) /\ ~block
  BY <1>3 DEF SessionInv, r_msg, Deferred
<1>4. QED
  BY <1>1, <1>2, <1>3

(* The steps of senders and of other sessions of the user. *)
LEMMA SendersKeep == ASSUME SessionInv, Senders PROVE SessionInv'
<1>1. CASE Arrive
  <2>1. SessionTyped'
    BY <1>1 DEF SessionInv, Arrive
  <2>6. FlagsTyped'
    BY <1>1, Zenon DEF SessionInv, FlagsTyped, Arrive
  <2>2. FrameInv'
    BY <1>1 DEF SessionInv, Arrive
  <2>3. ScreenInv'
    BY <1>1 DEF SessionInv, Arrive
  <2>4. BlockInv'
    BY <1>1 DEF SessionInv, Arrive
  <2>5. RememberInv'
    BY <1>1 DEF SessionInv, Arrive
  <2>7. QED
    BY <2>1, <2>2, <2>3, <2>4, <2>5, <2>6 DEF SessionInv
<1>2. CASE FindLocked
  <2>1. SessionTyped'
    BY <1>2 DEF SessionInv, FindLocked
  <2>6. FlagsTyped'
    BY <1>2, Zenon DEF SessionInv, FlagsTyped, FindLocked
  <2>2. FrameInv'
    BY <1>2 DEF SessionInv, FindLocked
  <2>3. ScreenInv'
    BY <1>2 DEF SessionInv, FindLocked
  <2>4. BlockInv'
    BY <1>2 DEF SessionInv, FindLocked
  <2>5. RememberInv'
    BY <1>2 DEF SessionInv, FindLocked
  <2>7. QED
    BY <2>1, <2>2, <2>3, <2>4, <2>5, <2>6 DEF SessionInv
<1>3. CASE ArriveQuietly
  <2>1. SessionTyped'
    BY <1>3 DEF SessionInv, ArriveQuietly
  <2>6. FlagsTyped'
    BY <1>3, Zenon DEF SessionInv, FlagsTyped, ArriveQuietly
  <2>2. FrameInv'
    BY <1>3 DEF SessionInv, ArriveQuietly
  <2>3. ScreenInv'
    BY <1>3 DEF SessionInv, ArriveQuietly
  <2>4. BlockInv'
    BY <1>3 DEF SessionInv, ArriveQuietly
  <2>5. RememberInv'
    BY <1>3 DEF SessionInv, ArriveQuietly
  <2>7. QED
    BY <2>1, <2>2, <2>3, <2>4, <2>5, <2>6 DEF SessionInv
<1>4. CASE Kill
  <2>0. frame' \in Frames /\ mode' \in Modes /\ io' \in IoStates
    <3>1. blocked \in BOOLEAN
      BY DEF SessionInv, FlagsTyped
    <3>2. CASE Masked \/ frame.at = "key"
      BY <1>4, <3>2 DEF SessionInv, Kill
    <3>3. CASE ~Masked /\ frame.at # "key"
      <4>1. r_msg(TRUE, "signal", blocked)
        BY <1>4, <3>3 DEF Kill
      <4>2. frame' \in Frames /\ mode' \in Modes
        BY <3>1, <4>1, RMsgFacts
      <4>3. io' \in IoStates
        BY <1>4, <3>3 DEF SessionInv, Kill, Interrupted
      <4>4. QED
        BY <4>2, <4>3
    <3>4. QED
      BY <3>2, <3>3
  <2>8. excuse' \subseteq {"mode", "quiet", "reset", "stuck"}
    BY <1>4 DEF SessionInv, Kill, NoteLate
  <2>1. SessionTyped'
    BY <1>4, <2>0, <2>8 DEF SessionInv, Kill
  <2>6. FlagsTyped'
    BY <1>4, Zenon DEF SessionInv, FlagsTyped, Kill, r_msg, Deferred, Interrupted, NoteLate
  <2>2. FrameInv'
    BY <1>4 DEF SessionInv, Kill, r_msg, Deferred, Interrupted, NoteLate
  <2>3. ScreenInv'
    BY <1>4 DEF SessionInv, Kill, r_msg, Deferred, Interrupted, NoteLate
  <2>4. BlockInv'
    BY <1>4 DEF SessionInv, Kill, r_msg, Deferred, Interrupted, NoteLate
  <2>5. RememberInv'
    BY <1>4 DEF SessionInv, Kill, r_msg, Deferred, Interrupted, NoteLate
  <2>7. QED
    BY <2>1, <2>2, <2>3, <2>4, <2>5, <2>6 DEF SessionInv
<1>5. CASE OtherShows
  <2>1. SessionTyped'
    BY <1>5 DEF SessionInv, OtherShows
  <2>6. FlagsTyped'
    BY <1>5, Zenon DEF SessionInv, FlagsTyped, OtherShows
  <2>2. FrameInv'
    BY <1>5 DEF SessionInv, OtherShows
  <2>3. ScreenInv'
    BY <1>5 DEF SessionInv, OtherShows
  <2>4. BlockInv'
    BY <1>5 DEF SessionInv, OtherShows
  <2>5. RememberInv'
    BY <1>5 DEF SessionInv, OtherShows
  <2>7. QED
    BY <2>1, <2>2, <2>3, <2>4, <2>5, <2>6 DEF SessionInv
<1>6. CASE OtherClears
  <2>1. SessionTyped'
    BY <1>6 DEF SessionInv, OtherClears
  <2>6. FlagsTyped'
    BY <1>6, Zenon DEF SessionInv, FlagsTyped, OtherClears
  <2>2. FrameInv'
    BY <1>6 DEF SessionInv, OtherClears
  <2>3. ScreenInv'
    BY <1>6 DEF SessionInv, OtherClears
  <2>4. BlockInv'
    BY <1>6 DEF SessionInv, OtherClears
  <2>5. RememberInv'
    BY <1>6 DEF SessionInv, OtherClears
  <2>7. QED
    BY <2>1, <2>2, <2>3, <2>4, <2>5, <2>6 DEF SessionInv
<1>7. QED
  BY <1>1, <1>2, <1>3, <1>4, <1>5, <1>6 DEF Senders

(* The steps of r_msg. *)
LEMMA ShowsKeep == ASSUME SessionInv, Shows PROVE SessionInv'
<1>1. CASE ShowNext
  <2>1. SessionTyped'
    BY <1>1 DEF SessionInv, ShowNext
  <2>6. FlagsTyped'
    BY <1>1, Zenon DEF SessionInv, FlagsTyped, ShowNext
  <2>2. FrameInv'
    BY <1>1 DEF SessionInv, ShowNext
  <2>3. ScreenInv'
    BY <1>1 DEF SessionInv, ShowNext
  <2>4. BlockInv'
    BY <1>1 DEF SessionInv, ShowNext
  <2>5. RememberInv'
    BY <1>1 DEF SessionInv, ShowNext
  <2>7. QED
    BY <2>1, <2>2, <2>3, <2>4, <2>5, <2>6 DEF SessionInv
<1>2. CASE PressKey
  <2>1. SessionTyped'
    BY <1>2 DEF SessionInv, PressKey
  <2>6. FlagsTyped'
    BY <1>2, Zenon DEF SessionInv, FlagsTyped, PressKey
  <2>2. FrameInv'
    BY <1>2 DEF SessionInv, PressKey
  <2>3. ScreenInv'
    BY <1>2 DEF SessionInv, PressKey
  <2>4. BlockInv'
    BY <1>2 DEF SessionInv, PressKey
  <2>5. RememberInv'
    BY <1>2 DEF SessionInv, PressKey
  <2>7. QED
    BY <2>1, <2>2, <2>3, <2>4, <2>5, <2>6 DEF SessionInv
<1>3. CASE NoMore
  <2>1. SessionTyped'
    BY <1>3 DEF SessionInv, NoMore
  <2>6. FlagsTyped'
    BY <1>3, Zenon DEF SessionInv, FlagsTyped, NoMore
  <2>2. FrameInv'
    BY <1>3 DEF SessionInv, NoMore
  <2>3. ScreenInv'
    BY <1>3 DEF SessionInv, NoMore
  <2>4. BlockInv'
    BY <1>3 DEF SessionInv, NoMore
  <2>5. RememberInv'
    BY <1>3 DEF SessionInv, NoMore
  <2>7. QED
    BY <2>1, <2>2, <2>3, <2>4, <2>5, <2>6 DEF SessionInv
<1>4. CASE EndFrame
  <2>1. SessionTyped'
    BY <1>4 DEF SessionInv, EndFrame, Interrupted
  <2>6. FlagsTyped'
    BY <1>4, Zenon DEF SessionInv, FlagsTyped, EndFrame, Interrupted
  <2>2. FrameInv'
    BY <1>4 DEF SessionInv, EndFrame, Interrupted
  <2>3. ScreenInv'
    BY <1>4 DEF SessionInv, EndFrame, Interrupted
  <2>4. BlockInv'
    BY <1>4 DEF SessionInv, EndFrame, Interrupted
  <2>5. RememberInv'
    BY <1>4 DEF SessionInv, EndFrame, Interrupted
  <2>7. QED
    BY <2>1, <2>2, <2>3, <2>4, <2>5, <2>6 DEF SessionInv
<1>5. QED
  BY <1>1, <1>2, <1>3, <1>4 DEF Shows

(* The steps of igetch and of ^Z. *)
LEMMA WaitsKeep == ASSUME SessionInv, Waits PROVE SessionInv'
<1>1. CASE SwitchOn
  <2>1. SessionTyped'
    BY <1>1 DEF SessionInv, SwitchOn
  <2>6. FlagsTyped'
    BY <1>1, Zenon DEF SessionInv, FlagsTyped, SwitchOn
  <2>2. FrameInv'
    BY <1>1 DEF SessionInv, SwitchOn
  <2>3. ScreenInv'
    BY <1>1 DEF SessionInv, SwitchOn
  <2>4. BlockInv'
    BY <1>1 DEF SessionInv, SwitchOn
  <2>5. RememberInv'
    BY <1>1 DEF SessionInv, SwitchOn
  <2>7. QED
    BY <2>1, <2>2, <2>3, <2>4, <2>5, <2>6 DEF SessionInv
<1>2. CASE SwitchCall
  <2>1. SessionTyped'
    BY <1>2 DEF SessionInv, SwitchCall, r_msg, Deferred
  <2>6. FlagsTyped'
    BY <1>2, Zenon DEF SessionInv, FlagsTyped, SwitchCall, r_msg, Deferred
  <2>2. FrameInv'
    BY <1>2 DEF SessionInv, SwitchCall, r_msg, Deferred
  <2>3. ScreenInv'
    BY <1>2 DEF SessionInv, SwitchCall, r_msg, Deferred
  <2>4. BlockInv'
    BY <1>2 DEF SessionInv, SwitchCall, r_msg, Deferred
  <2>5. RememberInv'
    BY <1>2 DEF SessionInv, SwitchCall, r_msg, Deferred
  <2>7. QED
    BY <2>1, <2>2, <2>3, <2>4, <2>5, <2>6 DEF SessionInv
<1>3. CASE Unmask
  <2>0. frame' \in Frames /\ mode' \in Modes
    <3>1. blocked \in BOOLEAN
      BY DEF SessionInv, FlagsTyped
    <3>2. CASE sig
      BY <1>3, <3>1, <3>2, RMsgFacts DEF Unmask
    <3>3. CASE ~sig
      BY <1>3, <3>3 DEF SessionInv, Unmask
    <3>4. QED
      BY <3>2, <3>3
  <2>1. SessionTyped'
    BY <1>3, <2>0 DEF SessionInv, Unmask, NoteLate
  <2>6. FlagsTyped'
    BY <1>3, Zenon DEF SessionInv, FlagsTyped, Unmask, r_msg, Deferred, NoteLate
  <2>2. FrameInv'
    BY <1>3 DEF SessionInv, Unmask, r_msg, Deferred, NoteLate
  <2>3. ScreenInv'
    BY <1>3 DEF SessionInv, Unmask, r_msg, Deferred, NoteLate
  <2>4. BlockInv'
    BY <1>3 DEF SessionInv, Unmask, r_msg, Deferred, NoteLate
  <2>5. RememberInv'
    BY <1>3 DEF SessionInv, Unmask, r_msg, Deferred, NoteLate
  <2>7. QED
    BY <2>1, <2>2, <2>3, <2>4, <2>5, <2>6 DEF SessionInv
<1>4. CASE SwitchReset
  <2>1. SessionTyped'
    BY <1>4 DEF SessionInv, SwitchReset
  <2>6. FlagsTyped'
    BY <1>4, Zenon DEF SessionInv, FlagsTyped, SwitchReset
  <2>2. FrameInv'
    BY <1>4 DEF SessionInv, SwitchReset
  <2>3. ScreenInv'
    BY <1>4 DEF SessionInv, SwitchReset
  <2>4. BlockInv'
    BY <1>4 DEF SessionInv, SwitchReset
  <2>5. RememberInv'
    BY <1>4 DEF SessionInv, SwitchReset
  <2>7. QED
    BY <2>1, <2>2, <2>3, <2>4, <2>5, <2>6 DEF SessionInv
<1>5. CASE SwitchOff
  <2>1. SessionTyped'
    BY <1>5 DEF SessionInv, SwitchOff
  <2>6. FlagsTyped'
    BY <1>5, Zenon DEF SessionInv, FlagsTyped, SwitchOff
  <2>2. FrameInv'
    BY <1>5 DEF SessionInv, SwitchOff
  <2>3. ScreenInv'
    BY <1>5 DEF SessionInv, SwitchOff
  <2>4. BlockInv'
    BY <1>5 DEF SessionInv, SwitchOff
  <2>5. RememberInv'
    BY <1>5 DEF SessionInv, SwitchOff
  <2>7. QED
    BY <2>1, <2>2, <2>3, <2>4, <2>5, <2>6 DEF SessionInv
<1>6. CASE Key
  <2>1. SessionTyped'
    BY <1>6 DEF SessionInv, Key
  <2>6. FlagsTyped'
    BY <1>6, Zenon DEF SessionInv, FlagsTyped, Key
  <2>2. FrameInv'
    BY <1>6 DEF SessionInv, Key
  <2>3. ScreenInv'
    BY <1>6 DEF SessionInv, Key
  <2>4. BlockInv'
    BY <1>6 DEF SessionInv, Key
  <2>5. RememberInv'
    BY <1>6 DEF SessionInv, Key
  <2>7. QED
    BY <2>1, <2>2, <2>3, <2>4, <2>5, <2>6 DEF SessionInv
<1>7. CASE CtrlZEnd
  <2>0. frame' \in Frames /\ mode' \in Modes
    <3>1. blocked \in BOOLEAN
      BY DEF SessionInv, FlagsTyped
    <3>2. CASE sig
      BY <1>7, <3>1, <3>2, RMsgFacts DEF CtrlZEnd
    <3>3. CASE ~sig
      BY <1>7, <3>3 DEF SessionInv, CtrlZEnd
    <3>4. QED
      BY <3>2, <3>3
  <2>1. SessionTyped'
    BY <1>7, <2>0 DEF SessionInv, CtrlZEnd
  <2>6. FlagsTyped'
    BY <1>7, Zenon DEF SessionInv, FlagsTyped, CtrlZEnd, r_msg, Deferred
  <2>2. FrameInv'
    BY <1>7 DEF SessionInv, CtrlZEnd, r_msg, Deferred
  <2>3. ScreenInv'
    BY <1>7 DEF SessionInv, CtrlZEnd, r_msg, Deferred
  <2>4. BlockInv'
    BY <1>7 DEF SessionInv, CtrlZEnd, r_msg, Deferred
  <2>5. RememberInv'
    BY <1>7 DEF SessionInv, CtrlZEnd, r_msg, Deferred
  <2>7. QED
    BY <2>1, <2>2, <2>3, <2>4, <2>5, <2>6 DEF SessionInv
<1>8. QED
  BY <1>1, <1>2, <1>3, <1>4, <1>5, <1>6, <1>7 DEF Waits

(* What the user does. *)
LEMMA WorksKeep == ASSUME SessionInv, Works PROVE SessionInv'
<1>1. CASE Menu
  <2>1. SessionTyped'
    BY <1>1 DEF SessionInv, Menu, AtWork, Idle
  <2>6. FlagsTyped'
    BY <1>1, Zenon DEF SessionInv, FlagsTyped, Menu, AtWork, Idle
  <2>2. FrameInv'
    BY <1>1 DEF SessionInv, Menu, AtWork, Idle
  <2>3. ScreenInv'
    BY <1>1 DEF SessionInv, Menu, AtWork, Idle
  <2>4. BlockInv'
    BY <1>1 DEF SessionInv, Menu, AtWork, Idle
  <2>5. RememberInv'
    BY <1>1 DEF SessionInv, Menu, AtWork, Idle
  <2>7. QED
    BY <2>1, <2>2, <2>3, <2>4, <2>5, <2>6 DEF SessionInv
<1>2. CASE EditStart
  <2>1. SessionTyped'
    BY <1>2 DEF SessionInv, EditStart, AtWork, Idle
  <2>6. FlagsTyped'
    BY <1>2, Zenon DEF SessionInv, FlagsTyped, EditStart, AtWork, Idle
  <2>2. FrameInv'
    BY <1>2 DEF SessionInv, EditStart, AtWork, Idle
  <2>3. ScreenInv'
    BY <1>2 DEF SessionInv, EditStart, AtWork, Idle
  <2>4. BlockInv'
    BY <1>2 DEF SessionInv, EditStart, AtWork, Idle
  <2>5. RememberInv'
    BY <1>2 DEF SessionInv, EditStart, AtWork, Idle
  <2>7. QED
    BY <2>1, <2>2, <2>3, <2>4, <2>5, <2>6 DEF SessionInv
<1>3. CASE EditFails
  <2>1. SessionTyped'
    BY <1>3 DEF SessionInv, EditFails, AtWork, Idle
  <2>6. FlagsTyped'
    BY <1>3, Zenon DEF SessionInv, FlagsTyped, EditFails, AtWork, Idle
  <2>2. FrameInv'
    BY <1>3 DEF SessionInv, EditFails, AtWork, Idle
  <2>3. ScreenInv'
    BY <1>3 DEF SessionInv, EditFails, AtWork, Idle
  <2>4. BlockInv'
    BY <1>3 DEF SessionInv, EditFails, AtWork, Idle
  <2>5. RememberInv'
    BY <1>3 DEF SessionInv, EditFails, AtWork, Idle
  <2>7. QED
    BY <2>1, <2>2, <2>3, <2>4, <2>5, <2>6 DEF SessionInv
<1>4. CASE EditEnd
  <2>1. SessionTyped'
    BY <1>4 DEF SessionInv, EditEnd, AtWork, Idle, Unblock
  <2>6. FlagsTyped'
    BY <1>4, Zenon DEF SessionInv, FlagsTyped, EditEnd, AtWork, Idle, Unblock
  <2>2. FrameInv'
    BY <1>4 DEF SessionInv, EditEnd, AtWork, Idle, Unblock
  <2>3. ScreenInv'
    BY <1>4 DEF SessionInv, EditEnd, AtWork, Idle, Unblock
  <2>4. BlockInv'
    BY <1>4 DEF SessionInv, EditEnd, AtWork, Idle, Unblock
  <2>5. RememberInv'
    BY <1>4 DEF SessionInv, EditEnd, AtWork, Idle, Unblock
  <2>7. QED
    BY <2>1, <2>2, <2>3, <2>4, <2>5, <2>6 DEF SessionInv
<1>5. CASE LockStart
  <2>1. SessionTyped'
    BY <1>5 DEF SessionInv, LockStart, AtWork, Idle
  <2>6. FlagsTyped'
    BY <1>5, Zenon DEF SessionInv, FlagsTyped, LockStart, AtWork, Idle
  <2>2. FrameInv'
    BY <1>5 DEF SessionInv, LockStart, AtWork, Idle
  <2>3. ScreenInv'
    BY <1>5 DEF SessionInv, LockStart, AtWork, Idle
  <2>4. BlockInv'
    BY <1>5 DEF SessionInv, LockStart, AtWork, Idle
  <2>5. RememberInv'
    BY <1>5 DEF SessionInv, LockStart, AtWork, Idle
  <2>7. QED
    BY <2>1, <2>2, <2>3, <2>4, <2>5, <2>6 DEF SessionInv
<1>6. CASE LockEnd
  <2>1. SessionTyped'
    BY <1>6 DEF SessionInv, LockEnd, AtWork, Idle, Unblock
  <2>6. FlagsTyped'
    BY <1>6, Zenon DEF SessionInv, FlagsTyped, LockEnd, AtWork, Idle, Unblock
  <2>2. FrameInv'
    BY <1>6 DEF SessionInv, LockEnd, AtWork, Idle, Unblock
  <2>3. ScreenInv'
    BY <1>6 DEF SessionInv, LockEnd, AtWork, Idle, Unblock
  <2>4. BlockInv'
    BY <1>6 DEF SessionInv, LockEnd, AtWork, Idle, Unblock
  <2>5. RememberInv'
    BY <1>6 DEF SessionInv, LockEnd, AtWork, Idle, Unblock
  <2>7. QED
    BY <2>1, <2>2, <2>3, <2>4, <2>5, <2>6 DEF SessionInv
<1>7. CASE ComposeStart
  <2>1. SessionTyped'
    BY <1>7 DEF SessionInv, ComposeStart, AtWork, Idle
  <2>6. FlagsTyped'
    BY <1>7, Zenon DEF SessionInv, FlagsTyped, ComposeStart, AtWork, Idle
  <2>2. FrameInv'
    BY <1>7 DEF SessionInv, ComposeStart, AtWork, Idle
  <2>3. ScreenInv'
    BY <1>7 DEF SessionInv, ComposeStart, AtWork, Idle
  <2>4. BlockInv'
    BY <1>7 DEF SessionInv, ComposeStart, AtWork, Idle
  <2>5. RememberInv'
    BY <1>7 DEF SessionInv, ComposeStart, AtWork, Idle
  <2>7. QED
    BY <2>1, <2>2, <2>3, <2>4, <2>5, <2>6 DEF SessionInv
<1>8. CASE ComposeEnd
  <2>1. SessionTyped'
    BY <1>8 DEF SessionInv, ComposeEnd, AtWork, Idle
  <2>6. FlagsTyped'
    BY <1>8, Zenon DEF SessionInv, FlagsTyped, ComposeEnd, AtWork, Idle
  <2>2. FrameInv'
    BY <1>8 DEF SessionInv, ComposeEnd, AtWork, Idle
  <2>3. ScreenInv'
    BY <1>8 DEF SessionInv, ComposeEnd, AtWork, Idle
  <2>4. BlockInv'
    BY <1>8 DEF SessionInv, ComposeEnd, AtWork, Idle
  <2>5. RememberInv'
    BY <1>8 DEF SessionInv, ComposeEnd, AtWork, Idle
  <2>7. QED
    BY <2>1, <2>2, <2>3, <2>4, <2>5, <2>6 DEF SessionInv
<1>9. CASE CtrlZ
  <2>0. /\ frame' \in Frames /\ mode' \in Modes
        /\ \/ occurred' = TRUE /\ UNCHANGED frame
           \/ frame'.at = "count"
    BY <1>9, RMsgFacts DEF CtrlZ
  <2>1. SessionTyped'
    BY <1>9, <2>0 DEF SessionInv, FlagsTyped, CtrlZ, AtWork
  <2>6. FlagsTyped'
    BY <1>9, Zenon DEF SessionInv, FlagsTyped, CtrlZ, r_msg, Deferred, AtWork
  <2>2. FrameInv'
    BY <1>9 DEF SessionInv, CtrlZ, r_msg, Deferred, AtWork
  <2>3. ScreenInv'
    BY <1>9 DEF SessionInv, CtrlZ, r_msg, Deferred, AtWork
  <2>4. BlockInv'
    BY <1>9 DEF SessionInv, CtrlZ, r_msg, Deferred, AtWork
  <2>5. RememberInv'
    BY <1>9, <2>0 DEF SessionInv, CtrlZ, AtWork
  <2>7. QED
    BY <2>1, <2>2, <2>3, <2>4, <2>5, <2>6 DEF SessionInv
<1>10. CASE StartBrowsing
  <2>1. SessionTyped'
    BY <1>10 DEF SessionInv, StartBrowsing, AtWork, Idle
  <2>6. FlagsTyped'
    BY <1>10, Zenon DEF SessionInv, FlagsTyped, StartBrowsing, AtWork, Idle
  <2>2. FrameInv'
    BY <1>10 DEF SessionInv, StartBrowsing, AtWork, Idle
  <2>3. ScreenInv'
    BY <1>10 DEF SessionInv, StartBrowsing, AtWork, Idle
  <2>4. BlockInv'
    BY <1>10 DEF SessionInv, StartBrowsing, AtWork, Idle
  <2>5. RememberInv'
    BY <1>10 DEF SessionInv, StartBrowsing, AtWork, Idle
  <2>7. QED
    BY <2>1, <2>2, <2>3, <2>4, <2>5, <2>6 DEF SessionInv
<1>11. CASE BrowseEnd
  <2>1. SessionTyped'
    BY <1>11 DEF SessionInv, BrowseEnd, AtWork, Idle, Unblock
  <2>6. FlagsTyped'
    BY <1>11, Zenon DEF SessionInv, FlagsTyped, BrowseEnd, AtWork, Idle, Unblock
  <2>2. FrameInv'
    BY <1>11 DEF SessionInv, BrowseEnd, AtWork, Idle, Unblock
  <2>3. ScreenInv'
    BY <1>11 DEF SessionInv, BrowseEnd, AtWork, Idle, Unblock
  <2>4. BlockInv'
    BY <1>11 DEF SessionInv, BrowseEnd, AtWork, Idle, Unblock
  <2>5. RememberInv'
    BY <1>11 DEF SessionInv, BrowseEnd, AtWork, Idle, Unblock
  <2>7. QED
    BY <2>1, <2>2, <2>3, <2>4, <2>5, <2>6 DEF SessionInv
<1>12. QED
  BY <1>1, <1>2, <1>3, <1>4, <1>5, <1>6, <1>7, <1>8, <1>9, <1>10, <1>11 DEF Works

LEMMA SessionGoesOn == ASSUME SessionInv, [SessionNext]_session PROVE SessionInv'
<1>1. CASE SessionNext
  BY <1>1, SendersKeep, ShowsKeep, WaitsKeep, WorksKeep DEF SessionNext
<1>2. CASE UNCHANGED session
  BY <1>2 DEF session, SessionInv, FlagsTyped
<1>3. QED
  BY <1>1, <1>2

LEMMA SessionAlways == SessionSpec => []SessionInv
BY SessionBegins, SessionGoesOn, PTL DEF SessionSpec

-----------------------------------------------------------------------------
(* No message is forgotten but in one of the four ways Remembered names:   *)
(* the flags of sendmsg.c and io.c, the pending signal and r_msg itself    *)
(* cover every order in which messages, signals and keys can come.         *)
THEOREM NoneForgotten == SessionSpec => []Remembered
<1>1. SessionInv => Remembered
  BY DEF SessionInv, Remembered
<1>2. QED
  BY <1>1, SessionAlways, PTL

(* A locked screen stays silent, and block_msg, a flag that four places    *)
(* set, is not left set in a menu but by r_msg2 and editor.                *)
THEOREM BlockingEnds == SessionSpec => []BlockingRight
<1>1. SessionInv => BlockingRight
  BY DEF SessionInv, FlagsTyped, BlockingRight, SessionTypeOK, LockedQuiet, BlockEnds
<1>2. QED
  BY <1>1, SessionAlways, PTL
=============================================================================
