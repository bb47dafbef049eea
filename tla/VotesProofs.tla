---------------------------- MODULE VotesProofs ----------------------------
(***************************************************************************)
(* Proofs about Votes, for any number of processes, votes and ballots: the *)
(* inductive invariant, what the steps of Votes do, one lemma for each,    *)
(* that they keep the invariant, and what follows from it.                 *)
(***************************************************************************)
EXTENDS Votes, SequenceTheorems, FiniteSetTheorems, WellFoundedInduction, TLAPS

-----------------------------------------------------------------------------
(***************************************************************************)
(* The inductive invariant, in named parts.                                *)
(***************************************************************************)

Opening == {"open", "openwrite"}
Copying == {"delcopy", "ren1", "ren2"}

(* With the flag down there is no vote, and nobody is about to list one.   *)
FlagInv == ~voteflag /\ ~hist.flag =>
    Lines(control) = <<>> /\ \A p \in Procs : pc[p] \notin Opening \cup Deleting

(* One process at most owns .tmpfile, which is not control; control is     *)
(* there until its owner renames it.                                       *)
TmpInv ==
    /\ \A p, q \in Procs : pc[p] \in Copying /\ pc[q] \in Copying => p = q
    /\ \A p \in Procs : pc[p] \in Copying => tmp # 0
    /\ tmp # 0 => tmp # control
    /\ \A p \in Procs : pc[p] \in {"deltmp", "delcopy", "ren1"} /\ control = 0
                            => pc[p] = "deltmp" /\ tmp # 0
    /\ \A p \in Procs : pc[p] \in {"openwrite", "deltmp", "delcopy"} => loc[p].file # 0

(* A vote is in a list once, and what is written was opened before. *)
LinesInv ==
    /\ \A f \in File : \A i \in DOMAIN inode[f] :
          /\ inode[f][i] \in 1..opened
          /\ \A j \in DOMAIN inode[f] : inode[f][i] = inode[f][j] => i = j
    /\ \A p \in Procs : loc[p].vote <= opened /\ loc[p].meant <= opened
    /\ \A v \in hist.gone : v <= opened

(* A vote that is being opened is nowhere yet. *)
FreshInv == \A p \in Procs : pc[p] \in Opening =>
    LET w == loc[p].vote IN
    /\ w >= 1 /\ w \notin hist.gone
    /\ \A f \in File : w \notin Rng(inode[f])
    /\ \A q \in Procs \ {p} : loc[q].vote # w

(* What delete_record relies on while nobody else changes the list. *)
Removes(p) == LET n == loc[p].num  v == loc[p].vote IN
    /\ pc[p] \in {"delopen", "deltmp", "delcopy", "ren1"} /\ control # 0 =>
          n \in DOMAIN inode[control] /\ inode[control][n] = v
    /\ pc[p] \in {"deltmp", "delcopy"} /\ control # 0 => loc[p].file = control
    /\ pc[p] = "ren1" => inode[tmp] = Without(inode[control], n)
    /\ pc[p] = "ren2" => v \notin Rng(inode[tmp]) /\ control = 0
DelInv == \A p \in Procs : ~loc[p].raced => Removes(p)

(* The line of a form is that of its vote, also in the list to be renamed. *)
Shows(p) == LET n == loc[p].num  v == loc[p].meant IN
    /\ n >= 1
    /\ control # 0 => n \in DOMAIN inode[control] /\ inode[control][n] = v
    /\ \A q \in Procs : pc[q] = "ren2" /\ ~loc[q].raced /\ n < loc[q].num =>
          n \in DOMAIN inode[tmp] /\ inode[tmp][n] = v
WebInv == \A p \in Procs : pc[p] = "webform" /\ ~loc[p].raced => Shows(p)

(* Two that close one vote are known. *)
PairInv == \A p \in Procs : \A q \in Procs \ {p} :
    pc[p] \in Closing /\ pc[q] \in Closing /\ loc[p].vote = loc[q].vote
        => loc[p].vote \in hist.twice

(* A ballot in the box of a vote that is being closed is in the count, or  *)
(* late.                                                                   *)
Counts(p) ==
    /\ pc[p] = "post" => loc[p].counted
    /\ loc[p].counted =>
          /\ pc[p] \in Closing \ {"count"}
          /\ \A e \in Rng(box[loc[p].vote]) \ {Hole} :
                \/ e \in (IF pc[p] = "post" THEN loc[p].tally ELSE result[loc[p].vote])
                \/ <<loc[p].vote, e.uid>> \in hist.late
CountedInv == \A p \in Procs : Counts(p)

(* What a session knows about the ballot of its user. *)
Places(p) == LET s == box[loc[p].vote]  n == loc[p].pos IN
    /\ n = 0 /\ ~loc[p].raced => \A i \in DOMAIN s : s[i].uid # UserOf[p]
    /\ n # 0 => n \in DOMAIN s /\ s[n].uid = UserOf[p]
PutInv == \A p \in Procs : pc[p] = "put" /\ loc[p].vote \notin hist.gone => Places(p)

(* A vote whose box is removed, or about to be, is not listed. *)
Unlisted(v) ==
    /\ \A f \in {control} \ {0} : v \notin Rng(inode[f])
    /\ \A p \in Procs : pc[p] \in {"ren1", "ren2"} /\ ~loc[p].raced => v \notin Rng(inode[tmp])
GoneInv ==
    /\ \A v \in hist.gone \ hist.twice : Unlisted(v)
    /\ \A p \in Procs : pc[p] = "delfiles" /\ loc[p].vote \notin hist.twice => Unlisted(loc[p].vote)
    /\ \A p \in Procs : pc[p] \in {"count", "post"} /\ loc[p].vote \in hist.gone
          => loc[p].vote \in hist.twice

IInv == TypeOK /\ FlagInv /\ TmpInv /\ LinesInv /\ FreshInv /\ DelInv /\ WebInv
            /\ PairInv /\ CountedInv /\ PutInv /\ GoneInv

-----------------------------------------------------------------------------
(***************************************************************************)
(* Lists and boxes.                                                        *)
(***************************************************************************)
LEMMA WithoutFacts ==
    ASSUME NEW S, NEW s \in Seq(S), NEW n \in Nat
    PROVE  /\ Without(s, n) \in Seq(S)
           /\ n \notin DOMAIN s => Without(s, n) = s
           /\ n \in DOMAIN s =>
                /\ Len(Without(s, n)) = Len(s) - 1
                /\ \A i \in 1..(Len(s) - 1) :
                      Without(s, n)[i] = IF i < n THEN s[i] ELSE s[i + 1]
<1>1. CASE n \notin DOMAIN s
  BY <1>1 DEF Without
<1>2. CASE n \in DOMAIN s
  <2> DEFINE h == SubSeq(s, 1, n - 1)
             t == SubSeq(s, n + 1, Len(s))
  <2>1. n \in 1..Len(s) /\ Len(s) \in Nat
    BY <1>2
  <2>2. h \in Seq(S) /\ Len(h) = n - 1 /\ \A i \in 1..(n - 1) : h[i] = s[i]
    BY <2>1
  <2>3. t \in Seq(S) /\ Len(t) = Len(s) - n /\ \A i \in 1..(Len(s) - n) : t[i] = s[n + i]
    BY <2>1
  <2>4. Without(s, n) = h \o t
    BY <1>2 DEF Without, RemoveAt
  <2> HIDE DEF h, t
  <2>5. h \o t \in Seq(S) /\ Len(h \o t) = Len(s) - 1
    BY <2>1, <2>2, <2>3, ConcatProperties
  <2>6. ASSUME NEW i \in 1..(Len(s) - 1)
        PROVE  (h \o t)[i] = IF i < n THEN s[i] ELSE s[i + 1]
    <3>1. (h \o t)[i] = IF i <= n - 1 THEN h[i] ELSE t[i - (n - 1)]
      BY <2>1, <2>2, <2>3, ConcatProperties
    <3>2. CASE i < n
      BY <2>1, <2>2, <3>1, <3>2
    <3>3. CASE i >= n
      BY <2>1, <2>3, <3>1, <3>3, SMTT(30)
    <3>4. i < n \/ i >= n
      BY <2>1
    <3>5. QED
      BY <3>2, <3>3, <3>4, Zenon
  <2>7. QED
    BY <1>2, <2>4, <2>5, <2>6
<1>3. QED
  BY <1>1, <1>2

(* What is left out is not in the copy, when it was listed once. *)
LEMMA WithoutRng ==
    ASSUME NEW S, NEW s \in Seq(S), NEW n \in Nat
    PROVE  /\ Rng(Without(s, n)) \subseteq Rng(s)
           /\ n \in DOMAIN s => Rng(s) \subseteq Rng(Without(s, n)) \cup {s[n]}
           /\ (n \in DOMAIN s /\ \A i, j \in DOMAIN s : s[i] = s[j] => i = j)
                 => s[n] \notin Rng(Without(s, n))
           /\ (\A i, j \in DOMAIN s : s[i] = s[j] => i = j)
                 => \A i, j \in DOMAIN Without(s, n) :
                       Without(s, n)[i] = Without(s, n)[j] => i = j
<1>1. CASE n \notin DOMAIN s
  BY <1>1, WithoutFacts DEF Rng
<1>2. CASE n \in DOMAIN s
  <2> DEFINE w == Without(s, n)
  <2>1. n \in 1..Len(s) /\ Len(s) \in Nat /\ DOMAIN s = 1..Len(s)
    BY <1>2
  <2>2. w \in Seq(S) /\ DOMAIN w = 1..(Len(s) - 1)
    BY <1>2, WithoutFacts
  <2>3. \A i \in DOMAIN w : w[i] = IF i < n THEN s[i] ELSE s[i + 1]
    BY <1>2, <2>2, WithoutFacts
  <2> HIDE DEF w
  <2>4. Rng(w) \subseteq Rng(s)
    BY <2>1, <2>2, <2>3 DEF Rng
  <2>5. ASSUME NEW i \in DOMAIN s PROVE s[i] \in Rng(w) \cup {s[n]}
    <3>1. CASE i < n
      <4>1. i \in DOMAIN w /\ w[i] = s[i]
        BY <2>1, <2>2, <2>3, <3>1
      <4>2. QED
        BY <4>1 DEF Rng
    <3>2. CASE i > n
      <4>1. i - 1 \in DOMAIN w /\ w[i - 1] = s[i]
        BY <2>1, <2>2, <2>3, <3>2
      <4>2. QED
        BY <4>1 DEF Rng
    <3>3. QED
      BY <2>1, <3>1, <3>2
  <2>6. ASSUME \A i, j \in DOMAIN s : s[i] = s[j] => i = j
        PROVE  s[n] \notin Rng(w)
    BY <2>1, <2>2, <2>3, <2>6 DEF Rng
  <2>7. ASSUME \A i, j \in DOMAIN s : s[i] = s[j] => i = j,
               NEW i \in DOMAIN w, NEW j \in DOMAIN w, w[i] = w[j]
        PROVE  i = j
    <3> DEFINE k == IF i < n THEN i ELSE i + 1
               m == IF j < n THEN j ELSE j + 1
    <3>1. i \in 1..(Len(s) - 1) /\ j \in 1..(Len(s) - 1)
      BY <2>2
    <3>2. w[i] = s[k] /\ w[j] = s[m] /\ k \in DOMAIN s /\ m \in DOMAIN s
      BY <2>1, <2>3, <3>1
    <3> HIDE DEF k, m
    <3>3. k = m
      BY <2>7, <3>2
    <3>4. QED
      BY <2>1, <3>1, <3>3 DEF k, m
  <2>8. QED
    BY <2>4, <2>5, <2>6, <2>7 DEF w, Rng
<1>3. QED
  BY <1>1, <1>2

(* The place of the first ballot of a user. *)
LEMMA SearchFacts ==
    ASSUME NEW u, NEW v, NEW S, box[v] \in Seq(S)
    PROVE  /\ Search(u, v) \in Nat
           /\ Search(u, v) = 0 => \A i \in DOMAIN box[v] : box[v][i].uid # u
           /\ Search(u, v) # 0 => Search(u, v) \in DOMAIN box[v] /\ box[v][Search(u, v)].uid = u
<1> DEFINE I == {i \in 1..Len(box[v]) : box[v][i].uid = u}
<1>1. Search(u, v) = IF I # {} THEN Min(I) ELSE 0
  BY DEF Search, SelectInSeq
<1>2. DOMAIN box[v] = 1..Len(box[v]) /\ Len(box[v]) \in Nat
  OBVIOUS
<1>3. CASE I = {}
  BY <1>1, <1>2, <1>3
<1>4. CASE I # {}
  <2>1. I \subseteq Nat
    BY <1>2
  <2>2. PICK m \in I : \A y \in I : m <= y
    <3> DEFINE R == OpToRel(<, Nat)
    <3>1. \A x, y \in Nat : <<x, y>> \in R <=> x < y
      BY DEF OpToRel
    <3>2. IsWellFoundedOn(R, Nat)
      BY NatLessThanWellFounded
    <3> HIDE DEF R, I
    <3>3. PICK m \in I : \A y \in I : <<y, m>> \notin R
      BY <1>4, <2>1, <3>2, WFMin
    <3>4. ASSUME NEW y \in I PROVE m <= y
      <4>1. m \in Nat /\ y \in Nat /\ ~(y < m)
        BY <2>1, <3>1, <3>3
      <4>2. QED
        BY <4>1
    <3>5. QED
      BY <3>4
  <2>3. Min(I) \in I
    BY <2>2 DEF Min
  <2>4. QED
    BY <1>1, <1>2, <2>3
<1>5. QED
  BY <1>3, <1>4
-----------------------------------------------------------------------------
(***************************************************************************)
(* What the steps do: types, and the processes that do not move.           *)
(***************************************************************************)
USE VotesAssumption

LocTypes == /\ pc \in [Procs -> Where] /\ loc \in [Procs -> Locals]
            /\ \A p \in Procs : pc[p] = "put" => loc[p].ballot \in Values
ListTypes == /\ inode \in [File -> Seq(Vote)]
             /\ control \in 0..MaxFiles /\ tmp \in 0..MaxFiles
BoxTypes == /\ box \in [Vote -> Seq(Ballot \cup {Hole})]
            /\ result \in [Vote -> SUBSET (Ballot \cup {Hole})]
            /\ opened \in 0..MaxVotes /\ expired \subseteq Vote
FlagTypes == voteflag \in BOOLEAN /\ due \in BOOLEAN

HistTypes == hist \in Histories

LEMMA TypeParts == TypeOK <=> LocTypes /\ ListTypes /\ BoxTypes /\ FlagTypes /\ HistTypes
  BY DEF TypeOK, LocTypes, ListTypes, BoxTypes, FlagTypes, HistTypes
LEMMA TypePartsNext ==
    TypeOK' <=> LocTypes' /\ ListTypes' /\ BoxTypes' /\ FlagTypes' /\ HistTypes'
  BY DEF TypeOK, LocTypes, ListTypes, BoxTypes, FlagTypes, HistTypes

(* One process moves. *)
Alone(p) == \A q \in Procs \ {p} : pc'[q] = pc[q] /\ loc'[q] = loc[q]

LEMMA Moved ==
    ASSUME LocTypes, NEW p \in Procs, NEW w \in Where, NEW l \in Locals,
           w = "put" => l.ballot \in Values,
           pc' = [pc EXCEPT ![p] = w], loc' = [loc EXCEPT ![p] = l]
    PROVE  LocTypes' /\ pc'[p] = w /\ loc'[p] = l /\ Alone(p)
  BY DEF LocTypes, Alone

LEMMA NoLocalsType == NoLocals \in Locals
  BY DEF NoLocals, Locals, Vote

LEMMA Own ==
    ASSUME TypeOK, NEW p \in Procs
    PROVE  /\ loc[p] \in Locals
           /\ loc[p].vote \in Vote /\ loc[p].meant \in Vote /\ loc[p].file \in 0..MaxFiles
           /\ loc[p].num \in Nat /\ loc[p].pos \in Nat /\ loc[p].range \in Nat /\ loc[p].vnum \in Int
           /\ loc[p].tally \subseteq Ballot \cup {Hole}
  BY DEF TypeOK, Locals

(* What a process has from a line of the list, and what it looks up. *)
LEMMA Reads ==
    ASSUME TypeOK, NEW p \in Procs
    PROVE  /\ loc[p] \in Locals
           /\ \A r \in Int : Kept(p, r) \in Locals
           /\ Lines(control) \in Seq(Vote) /\ Len(Lines(control)) \in Nat
           /\ \A n \in Nat \ {0} : Record(p, n) \in Vote \cap ({loc[p].vote} \cup Rng(Lines(control)))
           /\ \A v \in Vote : Search(UserOf[p], v) \in Nat /\ Voted(UserOf[p], v) \in Values \cup {0}
<1>1. loc[p] \in Locals
  BY DEF TypeOK
<1>2. ASSUME NEW r \in Int PROVE Kept(p, r) \in Locals
  <2> DEFINE v == IF p \in Web THEN 0 ELSE loc[p].vote
             n == IF r > 0 THEN r ELSE 0
  <2>1. v \in Vote /\ n \in Nat
    BY <1>1 DEF Locals, Vote
  <2>2. Kept(p, r) = [NoLocals EXCEPT !.vote = v, !.range = n]
    BY DEF Kept
  <2> HIDE DEF v, n
  <2>3. QED
    BY <2>1, <2>2, NoLocalsType DEF Locals
<1>3. Lines(control) \in Seq(Vote)
  <2>1. inode \in [File -> Seq(Vote)] /\ control \in 0..MaxFiles
    BY DEF TypeOK
  <2>2. CASE control = 0
    <3>1. Lines(control) = <<>>
      BY <2>2 DEF Lines
    <3>2. QED
      BY <3>1
  <2>3. CASE control # 0
    BY <2>1, <2>3 DEF Lines, File
  <2>4. QED
    BY <2>2, <2>3
<1>4. ASSUME NEW n \in Nat \ {0}
      PROVE  Record(p, n) \in Vote \cap ({loc[p].vote} \cup Rng(Lines(control)))
  <2>1. CASE n <= Len(Lines(control))
    <3>1. n \in DOMAIN Lines(control) /\ Record(p, n) = Lines(control)[n]
      BY <1>3, <2>1 DEF Record
    <3>2. QED
      BY <1>3, <3>1 DEF Rng
  <2>2. CASE ~(n <= Len(Lines(control)))
    BY <1>1, <2>2 DEF Record, Locals
  <2>3. QED
    BY <2>1, <2>2
<1>5. ASSUME NEW v \in Vote
      PROVE  Search(UserOf[p], v) \in Nat /\ Voted(UserOf[p], v) \in Values \cup {0}
  <2>1. box[v] \in Seq(Ballot \cup {Hole})
    BY DEF TypeOK
  <2>2. CASE Search(UserOf[p], v) = 0
    BY <2>2 DEF Voted
  <2>3. CASE Search(UserOf[p], v) # 0
    <3>1. Search(UserOf[p], v) \in DOMAIN box[v]
      BY <2>1, <2>3, SearchFacts
    <3>2. box[v][Search(UserOf[p], v)] \in Ballot \cup {Hole}
      BY <2>1, <3>1
    <3>3. box[v][Search(UserOf[p], v)].voted \in Values \cup {0}
      BY <3>2 DEF Ballot, Hole
    <3>4. QED
      BY <2>1, <2>3, <3>3, SearchFacts DEF Voted
  <2>4. QED
    BY <2>1, <2>2, <2>3, SearchFacts
<1>6. QED
  BY <1>1, <1>2, <1>3, <1>4, <1>5

LEMMA PutAtFacts ==
    ASSUME NEW S, Hole \in S, NEW s \in Seq(S), NEW n \in Nat, NEW b \in S
    PROVE  /\ PutAt(s, n, b) \in Seq(S)
           /\ n = 0 => DOMAIN PutAt(s, n, b) = 1..(Len(s) + 1)
           /\ n # 0 => DOMAIN PutAt(s, n, b) = 1..(IF n > Len(s) THEN n ELSE Len(s))
           /\ \A i \in DOMAIN PutAt(s, n, b) :
                 PutAt(s, n, b)[i] = IF i = n \/ (n = 0 /\ i > Len(s)) THEN b
                                     ELSE IF i <= Len(s) THEN s[i] ELSE Hole
<1>1. CASE n = 0
  BY <1>1 DEF PutAt
<1>2. CASE n # 0
  <2> DEFINE k == IF n > Len(s) THEN n ELSE Len(s)
             t == [i \in 1..k |-> IF i = n THEN b ELSE IF i <= Len(s) THEN s[i] ELSE Hole]
  <2>1. PutAt(s, n, b) = t
    BY <1>2 DEF PutAt
  <2>2. k \in Nat
    OBVIOUS
  <2>3. \A i \in 1..k : t[i] \in S
    OBVIOUS
  <2>4. t \in [1..k -> S]
    BY <2>3
  <2>5. t \in Seq(S)
    BY <2>2, <2>4, SeqDef
  <2>6. QED
    BY <1>2, <2>1, <2>2, <2>5
<1>3. QED
  BY <1>1, <1>2

(* The same without the places, and where the place is known. *)
LEMMA PutAtRng ==
    ASSUME NEW S, Hole \in S, NEW s \in Seq(S), NEW n \in Nat, NEW b \in S
    PROVE  Rng(PutAt(s, n, b)) \subseteq Rng(s) \cup {b, Hole}
<1>1. ASSUME NEW i \in DOMAIN PutAt(s, n, b), PutAt(s, n, b)[i] \notin {b, Hole}
      PROVE  PutAt(s, n, b)[i] \in Rng(s)
  <2>1. PutAt(s, n, b) \in Seq(S)
    BY PutAtFacts
  <2>2. PutAt(s, n, b)[i] = IF i = n \/ (n = 0 /\ i > Len(s)) THEN b
                            ELSE IF i <= Len(s) THEN s[i] ELSE Hole
    BY PutAtFacts
  <2>3. i \in DOMAIN s /\ PutAt(s, n, b)[i] = s[i]
    BY <1>1, <2>1, <2>2
  <2>4. QED
    BY <2>3 DEF Rng
<1>2. QED
  BY <1>1 DEF Rng

LEMMA PutAtWrites ==
    ASSUME NEW s \in Seq(Ballot \cup {Hole}), NEW n \in Nat, NEW b \in Ballot \cup {Hole},
           n = 0 \/ n \in DOMAIN s
    PROVE  \A i \in DOMAIN PutAt(s, n, b) :
              PutAt(s, n, b)[i] = b \/ (i \in DOMAIN s /\ PutAt(s, n, b)[i] = s[i])
<1> DEFINE S == Ballot \cup {Hole}
           t == PutAt(s, n, b)
<1>0. Hole \in S /\ s \in Seq(S) /\ b \in S
  OBVIOUS
<1> HIDE DEF S
<1>1. /\ n = 0 => DOMAIN t = 1..(Len(s) + 1)
      /\ n # 0 => DOMAIN t = 1..Len(s)
  <2>1. n = 0 => DOMAIN t = 1..(Len(s) + 1)
    BY <1>0, PutAtFacts
  <2>2. n # 0 => DOMAIN t = 1..Len(s)
    BY <1>0, PutAtFacts
  <2>3. QED
    BY <2>1, <2>2
<1>2. \A i \in DOMAIN t : t[i] = IF i = n \/ (n = 0 /\ i > Len(s)) THEN b
                                 ELSE IF i <= Len(s) THEN s[i] ELSE Hole
  BY <1>0, PutAtFacts
<1> HIDE DEF t
<1>3. QED
  BY <1>1, <1>2 DEF t

LEMMA PutAtKeeps ==
    ASSUME NEW s \in Seq(Ballot \cup {Hole}), NEW n \in Nat, NEW b \in Ballot \cup {Hole},
           n = 0 \/ n \in DOMAIN s
    PROVE  \A i \in DOMAIN s :
              /\ i \in DOMAIN PutAt(s, n, b)
              /\ PutAt(s, n, b)[i] = s[i] \/ (i = n /\ PutAt(s, n, b)[i] = b)
<1> DEFINE S == Ballot \cup {Hole}
           t == PutAt(s, n, b)
<1>0. Hole \in S /\ s \in Seq(S) /\ b \in S
  OBVIOUS
<1> HIDE DEF S
<1>1. /\ n = 0 => DOMAIN t = 1..(Len(s) + 1)
      /\ n # 0 => DOMAIN t = 1..Len(s)
  <2>1. n = 0 => DOMAIN t = 1..(Len(s) + 1)
    BY <1>0, PutAtFacts
  <2>2. n # 0 => DOMAIN t = 1..Len(s)
    BY <1>0, PutAtFacts
  <2>3. QED
    BY <2>1, <2>2
<1>2. \A i \in DOMAIN t : t[i] = IF i = n \/ (n = 0 /\ i > Len(s)) THEN b
                                 ELSE IF i <= Len(s) THEN s[i] ELSE Hole
  BY <1>0, PutAtFacts
<1> HIDE DEF t
<1>3. QED
  BY <1>1, <1>2 DEF t

-----------------------------------------------------------------------------
(***************************************************************************)
(* The steps of sessions and managers that leave the list, the boxes and   *)
(* the results alone.                                                      *)
(***************************************************************************)

(* p goes on, but not to a place where the list is changed; its vote is one*)
(* it had or one of the list; others are warned at most.                   *)
Quiet(p) ==
    /\ UNCHANGED <<inode, control, tmp, opened>>
    /\ hist'.gone = hist.gone /\ hist.twice \subseteq hist'.twice
    /\ pc'[p] \notin Opening \cup Deleting \cup {"delfiles"}
    /\ loc'[p].vote \in {0, loc[p].vote} \cup Rng(Lines(control))
    /\ loc'[p].meant \in {0, loc[p].meant} \cup Rng(Lines(control))
    /\ \A q \in Procs \ {p} :
          /\ pc'[q] = pc[q]
          /\ loc'[q] = loc[q] \/ (pc[q] = "put" /\ loc'[q] = [loc[q] EXCEPT !.raced = TRUE])
    /\ \/ /\ UNCHANGED voteflag
          /\ hist'.flag = hist.flag
       \/ /\ Lines(control) = <<>>
          /\ ~hist'.flag => ~FlagRaced

(* The line of a form, and the place of a ballot, when they are found. *)
FormFound(p) == LET n == loc'[p].num IN
    /\ control # 0 /\ n \in DOMAIN inode[control] /\ inode[control][n] = loc'[p].meant
PlaceFound(p) == LET s == box[loc'[p].vote]  n == loc'[p].pos IN
    /\ n = 0 => \A i \in DOMAIN s : s[i].uid # UserOf[p]
    /\ n # 0 => n \in DOMAIN s /\ s[n].uid = UserOf[p]

Plain(p) ==
    /\ Quiet(p) /\ Alone(p)
    /\ UNCHANGED <<box, result>> /\ hist'.late = hist.late
    /\ pc'[p] \notin Closing
    /\ loc'[p].counted => loc[p].counted
    /\ pc'[p] = "webform" => FormFound(p)
    /\ pc'[p] = "put" => PlaceFound(p)

LEMMA KeptFacts ==
    ASSUME TypeOK, NEW p \in Procs, NEW r \in Int
    PROVE  /\ Kept(p, r) \in Locals
           /\ Kept(p, r).vote \in {0, loc[p].vote} /\ Kept(p, r).meant = 0
           /\ ~Kept(p, r).counted /\ Kept(p, r).raced = FALSE
<1>1. Kept(p, r) \in Locals
  BY Reads
<1>2. QED
  BY <1>1 DEF Kept, NoLocals

LEMMA ClearedHist ==
    ASSUME TypeOK, hist' = [hist EXCEPT !.flag = FlagRaced]
    PROVE  /\ hist' \in Histories /\ hist'.flag = FlagRaced /\ hist'.gone = hist.gone
           /\ hist'.twice = hist.twice /\ hist'.late = hist.late
<1>1. hist \in Histories
  BY DEF TypeOK
<1>2. FlagRaced \in BOOLEAN
  BY DEF FlagRaced
<1>3. QED
  BY <1>1, <1>2 DEF Histories

(* A step of p that changes nothing but where p is and what it knows. *)
LEMMA Still ==
    ASSUME TypeOK, NEW p \in Procs, NEW w \in Where \ (Closing \cup Opening),
           NEW l \in Locals, w = "put" => l.ballot \in Values,
           pc' = [pc EXCEPT ![p] = w], loc' = [loc EXCEPT ![p] = l],
           UNCHANGED <<inode, control, tmp, opened, box, voteflag, expired, result, hist>>,
           due' \in BOOLEAN,
           l.vote \in {0, loc[p].vote} \cup Rng(Lines(control)),
           l.meant \in {0, loc[p].meant} \cup Rng(Lines(control)),
           l.counted => loc[p].counted,
           w = "webform" => FormFound(p),
           w = "put" => PlaceFound(p)
    PROVE  TypeOK' /\ Plain(p)
<1>1. LocTypes' /\ pc'[p] = w /\ loc'[p] = l /\ Alone(p)
  BY TypeParts, Moved
<1>2. ListTypes' /\ BoxTypes' /\ HistTypes'
  BY TypeParts DEF ListTypes, BoxTypes, HistTypes
<1>3. FlagTypes'
  BY TypeParts, Zenon DEF FlagTypes
<1>4. Quiet(p)
  <2>1. UNCHANGED voteflag /\ hist'.flag = hist.flag
    BY Zenon
  <2>2. pc'[p] \notin Opening \cup Deleting \cup {"delfiles"}
    BY <1>1 DEF Closing
  <2>3. hist'.gone = hist.gone /\ hist.twice \subseteq hist'.twice
    OBVIOUS
  <2>4. /\ loc'[p].vote \in {0, loc[p].vote} \cup Rng(Lines(control))
        /\ loc'[p].meant \in {0, loc[p].meant} \cup Rng(Lines(control))
    BY <1>1
  <2>5. UNCHANGED <<inode, control, tmp, opened>>
    OBVIOUS
  <2>6. \A q \in Procs \ {p} : pc'[q] = pc[q] /\ loc'[q] = loc[q]
    BY <1>1 DEF Alone
  <2>7. QED
    BY <2>1, <2>2, <2>3, <2>4, <2>5, <2>6 DEF Quiet
<1>5. QED
  BY <1>1, <1>2, <1>3, <1>4, TypePartsNext DEF Plain

LEMMA UserVotePlain ==
    ASSUME TypeOK, NEW p \in Procs, UserVote(p)
    PROVE  TypeOK' /\ Plain(p)
<1>1. PICK n \in 1..loc[p].range : loc' = [loc EXCEPT ![p] = [@ EXCEPT
             !.vote = Record(p, n), !.ballot = Voted(UserOf[p], Record(p, n))]]
  BY DEF UserVote
<1> DEFINE l == [loc[p] EXCEPT !.vote = Record(p, n), !.ballot = Voted(UserOf[p], Record(p, n))]
<1>2. n \in Nat \ {0}
  BY Reads DEF Locals
<1>3. l \in Locals
  BY <1>2, Reads, ZenonT(30) DEF Locals
<1>4. l.vote \in {loc[p].vote} \cup Rng(Lines(control)) /\ l.counted = loc[p].counted /\ l.meant = loc[p].meant
  BY <1>2, Reads DEF Locals
<1>5. pc' = [pc EXCEPT ![p] = "form"] /\ loc' = [loc EXCEPT ![p] = l]
  BY <1>1 DEF UserVote, Goto
<1>6. UNCHANGED <<inode, control, tmp, opened, box, voteflag, expired, due, result, hist>>
  BY DEF UserVote, list, votes
<1> HIDE DEF l
<1>7. due' \in BOOLEAN
  BY <1>6 DEF TypeOK
<1>8. "form" \in Where \ (Closing \cup Opening) /\ "form" \notin {"put", "webform"}
  BY DEF Where, Closing, Opening, Deleting
<1>9. QED
  BY <1>3, <1>4, <1>5, <1>6, <1>7, <1>8, Still

LEMMA ReturnPlain ==
    ASSUME TypeOK, NEW p \in Procs,
           Leave(p) \/ Abort(p) \/ WebRefused(p) \/ PollEnd(p)
    PROVE  TypeOK' /\ Plain(p)
<1>1. PICK r \in Int : Return(p, r)
  <2>1. loc[p].range \in Int /\ 0 \in Int
    BY Own
  <2>2. QED
    BY <2>1 DEF Leave, Abort, WebRefused, PollEnd
<1>2. PICK w \in {"list", "idle"} : pc' = [pc EXCEPT ![p] = w]
  BY <1>1 DEF Return, Back, Goto
<1>3. loc' = [loc EXCEPT ![p] = Kept(p, r)]
  BY <1>1 DEF Return
<1>4. UNCHANGED <<inode, control, tmp, opened, box, voteflag, expired, result, hist>>
  BY DEF Leave, Abort, WebRefused, PollEnd, list, votes
<1>5. due' \in BOOLEAN
  <2>1. due \in BOOLEAN
    BY DEF TypeOK
  <2>2. due' = due \/ due' = FALSE
    BY Zenon DEF Leave, Abort, WebRefused, PollEnd, votes
  <2>3. QED
    BY <2>1, <2>2, Zenon
<1>6. w \in Where \ (Closing \cup Opening) /\ w \notin {"put", "webform"}
  BY DEF Where, Closing, Opening, Deleting
<1>7. QED
  BY <1>2, <1>3, <1>4, <1>5, <1>6, KeptFacts, Still

LEMMA BVotePlain ==
    ASSUME TypeOK, NEW p \in Procs, BVote(p)
    PROVE  TypeOK' /\ Plain(p)
<1> DEFINE l == [loc[p] EXCEPT !.range = Len(Lines(control))]
<1>1. l \in Locals /\ l.vote = loc[p].vote /\ l.meant = loc[p].meant /\ l.counted = loc[p].counted
  <2>1. loc[p] \in Locals /\ Len(Lines(control)) \in Nat
    BY Reads
  <2>2. QED
    BY <2>1 DEF Locals
<1>2. pc' = [pc EXCEPT ![p] = "list"] /\ loc' = [loc EXCEPT ![p] = l]
  BY DEF BVote, Goto
<1>3. UNCHANGED <<inode, control, tmp, opened, box, voteflag, expired, due, result, hist>>
  BY DEF BVote, list, votes
<1> HIDE DEF l
<1>4. due' \in BOOLEAN
  BY <1>3 DEF TypeOK
<1>5. "list" \in Where \ (Closing \cup Opening) /\ "list" \notin {"put", "webform"}
  BY DEF Where, Closing, Opening, Deleting
<1>6. QED
  BY <1>1, <1>2, <1>3, <1>4, <1>5, Still

LEMMA PollPlain ==
    ASSUME TypeOK, NEW p \in Procs, PollCheck(p) \/ PollSet(p)
    PROVE  TypeOK' /\ Plain(p)
<1>1. PICK w \in {"pollset", "poll"} : pc' = [pc EXCEPT ![p] = w]
  BY DEF PollCheck, PollSet, Goto
<1>2. expired \subseteq Vote
  BY DEF TypeOK
<1>3. PICK l \in Locals :
          /\ loc' = [loc EXCEPT ![p] = l]
          /\ l.vote \in {0, loc[p].vote} /\ l.meant \in {0, loc[p].meant} /\ (l.counted => loc[p].counted)
  <2>1. CASE PollCheck(p)
    <3> DEFINE l == [NoLocals EXCEPT !.over = expired]
    <3>1. l \in Locals
      BY <1>2, NoLocalsType DEF Locals
    <3>2. l.vote = 0 /\ l.meant = 0 /\ l.counted = FALSE
      BY DEF NoLocals
    <3>3. loc' = [loc EXCEPT ![p] = l]
      BY <2>1 DEF PollCheck
    <3> HIDE DEF l
    <3>4. QED
      BY <3>1, <3>2, <3>3
  <2>2. CASE PollSet(p)
    <3> DEFINE l == [loc[p] EXCEPT !.vnum = Len(Lines(control))]
    <3>1. loc[p] \in Locals /\ Len(Lines(control)) \in Int
      BY Reads
    <3>2. l \in Locals /\ l.vote = loc[p].vote /\ l.meant = loc[p].meant /\ l.counted = loc[p].counted
      BY <3>1 DEF Locals
    <3>3. loc' = [loc EXCEPT ![p] = l]
      BY <2>2 DEF PollSet
    <3> HIDE DEF l
    <3>4. QED
      BY <3>2, <3>3
  <2>3. QED
    BY <2>1, <2>2
<1>4. UNCHANGED <<inode, control, tmp, opened, box, voteflag, expired, result, hist>>
  BY DEF PollCheck, PollSet, list, votes
<1>5. due' \in BOOLEAN
  <2>1. due \in BOOLEAN
    BY DEF TypeOK
  <2>2. due' = due \/ due' = FALSE
    BY Zenon DEF PollCheck, PollSet, votes
  <2>3. QED
    BY <2>1, <2>2, Zenon
<1>6. w \in Where \ (Closing \cup Opening) /\ w \notin {"put", "webform"}
  BY DEF Where, Closing, Opening, Deleting
<1>7. QED
  BY <1>1, <1>3, <1>4, <1>5, <1>6, Still

LEMMA WebFormPlain ==
    ASSUME TypeOK, NEW p \in Procs, WebForm(p)
    PROVE  TypeOK' /\ Plain(p)
<1>1. PICK n \in DOMAIN Lines(control) :
          loc' = [loc EXCEPT ![p] = [@ EXCEPT !.num = n, !.meant = Lines(control)[n]]]
  BY DEF WebForm
<1> DEFINE l == [loc[p] EXCEPT !.num = n, !.meant = Lines(control)[n]]
<1>2. n \in Nat /\ Lines(control)[n] \in Vote /\ Lines(control)[n] \in Rng(Lines(control))
  BY Reads DEF Rng
<1>3. l \in Locals /\ l.vote = loc[p].vote /\ l.meant = Lines(control)[n] /\ l.num = n
         /\ l.counted = loc[p].counted
  BY <1>2, Reads, ZenonT(30) DEF Locals
<1>4. pc' = [pc EXCEPT ![p] = "webform"] /\ loc' = [loc EXCEPT ![p] = l]
  BY <1>1 DEF WebForm, Goto
<1>5. UNCHANGED <<inode, control, tmp, opened, box, voteflag, expired, due, result, hist>>
  BY DEF WebForm, list, votes
<1> HIDE DEF l
<1>6. due' \in BOOLEAN
  BY <1>5 DEF TypeOK
<1>7. "webform" \in Where \ (Closing \cup Opening) /\ "webform" # "put"
  BY DEF Where, Closing, Opening, Deleting
<1>8. FormFound(p)
  <2>1. loc'[p] = l
    BY <1>4 DEF TypeOK
  <2>2. control # 0
    BY DEF Lines
  <2>3. QED
    BY <1>3, <2>1, <2>2 DEF FormFound, Lines
<1>9. QED
  BY <1>2, <1>3, <1>4, <1>5, <1>6, <1>7, <1>8, Still

(* The two ways to the ballot: the form of telnet and that of the web. *)
LEMMA FillInPlain ==
    ASSUME TypeOK, NEW p \in Procs, FillIn(p) \/ WebPost(p)
    PROVE  TypeOK' /\ Plain(p)
<1>1. PICK v \in Vote, c \in Values, l \in Locals :
          /\ loc' = [loc EXCEPT ![p] = l]
          /\ l.vote = v /\ l.pos = Search(UserOf[p], v) /\ l.ballot = c
          /\ l.meant = loc[p].meant /\ l.counted = loc[p].counted
          /\ v \in {loc[p].vote} \cup Rng(Lines(control))
  <2>1. CASE FillIn(p)
    <3>1. PICK c \in Values : loc' = [loc EXCEPT ![p] = [@ EXCEPT
                    !.pos = Search(UserOf[p], loc[p].vote), !.ballot = c]]
      BY <2>1 DEF FillIn
    <3> DEFINE l == [loc[p] EXCEPT !.pos = Search(UserOf[p], loc[p].vote), !.ballot = c]
    <3>2. loc[p].vote \in Vote /\ Search(UserOf[p], loc[p].vote) \in Nat
      BY Reads DEF Locals
    <3>3. /\ l \in Locals /\ l.vote = loc[p].vote /\ l.pos = Search(UserOf[p], loc[p].vote)
          /\ l.ballot = c /\ l.meant = loc[p].meant /\ l.counted = loc[p].counted
      BY <3>2, Reads, ZenonT(30) DEF Locals
    <3>4. loc' = [loc EXCEPT ![p] = l]
      BY <3>1
    <3> HIDE DEF l
    <3>5. QED
      BY <3>2, <3>3, <3>4
  <2>2. CASE WebPost(p)
    <3> DEFINE v == Lines(control)[loc[p].num]
    <3>1. PICK c \in Values : loc' = [loc EXCEPT ![p] = [@ EXCEPT
                    !.vote = v, !.pos = Search(UserOf[p], v), !.ballot = c, !.raced = FALSE]]
      BY <2>2 DEF WebPost
    <3> DEFINE l == [loc[p] EXCEPT
                    !.vote = v, !.pos = Search(UserOf[p], v), !.ballot = c, !.raced = FALSE]
    <3>2. v \in Vote /\ v \in Rng(Lines(control))
      <4>1. loc[p].num \in DOMAIN Lines(control)
        BY <2>2 DEF WebPost
      <4>2. QED
        BY <4>1, Reads DEF Rng
    <3>3. Search(UserOf[p], v) \in Nat
      BY <3>2, Reads
    <3>4. loc' = [loc EXCEPT ![p] = l]
      BY <3>1
    <3> HIDE DEF v
    <3>5. /\ l \in Locals /\ l.vote = v /\ l.pos = Search(UserOf[p], v)
          /\ l.ballot = c /\ l.meant = loc[p].meant /\ l.counted = loc[p].counted
      BY <3>2, <3>3, Reads, ZenonT(30) DEF Locals
    <3> HIDE DEF l
    <3>6. QED
      BY <3>2, <3>4, <3>5
  <2>3. QED
    BY <2>1, <2>2
<1>2. pc' = [pc EXCEPT ![p] = "put"]
  BY DEF FillIn, WebPost, Goto
<1>3. UNCHANGED <<inode, control, tmp, opened, box, voteflag, expired, due, result, hist>>
  BY DEF FillIn, WebPost, list, votes
<1>4. due' \in BOOLEAN
  BY <1>3 DEF TypeOK
<1>5. "put" \in Where \ (Closing \cup Opening) /\ "put" # "webform"
  BY DEF Where, Closing, Opening, Deleting
<1>6. PlaceFound(p)
  <2>1. loc'[p] = l
    BY <1>1 DEF TypeOK
  <2>2. box[v] \in Seq(Ballot \cup {Hole})
    BY DEF TypeOK
  <2>3. LET n == Search(UserOf[p], v) IN
        /\ n = 0 => \A i \in DOMAIN box[v] : box[v][i].uid # UserOf[p]
        /\ n # 0 => n \in DOMAIN box[v] /\ box[v][n].uid = UserOf[p]
    BY <2>2, SearchFacts
  <2>4. QED
    BY <1>1, <2>1, <2>3 DEF PlaceFound
<1>7. QED
  BY <1>1, <1>2, <1>3, <1>4, <1>5, <1>6, Still

LEMMA BVoteNonePlain ==
    ASSUME TypeOK, NEW p \in Procs, BVoteNone(p)
    PROVE  TypeOK' /\ Plain(p)
<1>1. UNCHANGED <<inode, control, tmp, opened, box, expired, due, result, pc, loc>>
  BY DEF BVoteNone, list, votes
<1>2. voteflag' = FALSE /\ hist' = [hist EXCEPT !.flag = FlagRaced] /\ Lines(control) = <<>>
  BY DEF BVoteNone, ClearFlag
<1>3. pc[p] = "idle"
  BY DEF BVoteNone, Does
<1>4. hist' \in Histories /\ hist'.flag = FlagRaced /\ hist'.gone = hist.gone
         /\ hist'.twice = hist.twice /\ hist'.late = hist.late
  BY <1>2, ClearedHist
<1>5. TypeOK'
  <2>1. LocTypes' /\ ListTypes' /\ BoxTypes' /\ HistTypes'
    BY <1>1, <1>4, TypeParts DEF LocTypes, ListTypes, BoxTypes, HistTypes
  <2>2. FlagTypes'
    BY <1>1, <1>2, TypeParts, Zenon DEF FlagTypes
  <2>3. QED
    BY <2>1, <2>2, TypePartsNext
<1>6. Quiet(p)
  BY <1>1, <1>2, <1>3, <1>4 DEF Quiet, Opening, Deleting
<1>7. QED
  BY <1>1, <1>3, <1>4, <1>5, <1>6 DEF Plain, Alone, Closing, Deleting

(* One pass of the poll over a vote whose time is not over. *)
LEMMA PollNextPlain ==
    ASSUME TypeOK, NEW p \in Procs, PollNext(p), Record(p, loc[p].vnum) \notin loc[p].over
    PROVE  TypeOK' /\ Plain(p)
<1> DEFINE v == Record(p, loc[p].vnum)
           l == [loc[p] EXCEPT !.vote = v, !.vnum = loc[p].vnum - 1]
<1>1. loc' = [loc EXCEPT ![p] = l] /\ UNCHANGED <<pc, hist>>
  BY DEF PollNext
<1>2. loc[p].vnum \in Nat \ {0} /\ loc[p] \in Locals /\ pc[p] = "poll"
  BY Own DEF PollNext
<1>3. v \in Vote /\ v \in {loc[p].vote} \cup Rng(Lines(control))
  BY <1>2, Reads
<1> HIDE DEF v
<1>4. l \in Locals /\ l.vote = v /\ l.meant = loc[p].meant /\ l.counted = loc[p].counted
  <2>1. loc[p].vnum - 1 \in Int
    BY <1>2
  <2>2. QED
    BY <1>2, <1>3, <2>1 DEF Locals
<1> HIDE DEF l
<1>5. pc' = [pc EXCEPT ![p] = "poll"]
  BY <1>1, <1>2 DEF TypeOK
<1>6. UNCHANGED <<inode, control, tmp, opened, box, voteflag, expired, due, result, hist>>
  BY <1>1 DEF PollNext, list, votes
<1>7. due' \in BOOLEAN
  BY <1>6 DEF TypeOK
<1>8. "poll" \in Where \ (Closing \cup Opening) /\ "poll" \notin {"webform", "put"}
  BY DEF Where, Closing, Opening, Deleting
<1>9. QED
  BY <1>1, <1>3, <1>4, <1>5, <1>6, <1>7, <1>8, Still

LEMMA DelEndPlain ==
    ASSUME TypeOK, NEW p \in Procs, DelEnd(p)
    PROVE  TypeOK' /\ Plain(p)
<1>1. UNCHANGED <<inode, control, tmp, opened, box, expired, due, result>>
  BY DEF DelEnd, list, votes
<1>2. PICK w \in {"list", "idle", "poll"}, l \in Locals :
          /\ pc' = [pc EXCEPT ![p] = w] /\ loc' = [loc EXCEPT ![p] = l]
          /\ l.vote \in {0, loc[p].vote} /\ l.meant = 0 /\ ~l.counted
  <2>1. CASE loc[p].back = "poll"
    <3> DEFINE l == [NoLocals EXCEPT !.vote = loc[p].vote,
                          !.over = loc[p].over, !.vnum = loc[p].vnum - 1]
    <3>1. loc[p].vote \in Vote /\ loc[p].over \subseteq Vote /\ loc[p].vnum - 1 \in Int
      BY Own DEF Locals
    <3>2. l \in Locals
      BY <3>1, NoLocalsType DEF Locals
    <3>3. l.vote = loc[p].vote /\ l.meant = 0 /\ l.counted = FALSE
      BY DEF NoLocals
    <3>4. pc' = [pc EXCEPT ![p] = "poll"] /\ loc' = [loc EXCEPT ![p] = l]
      BY <2>1 DEF DelEnd, Goto
    <3> HIDE DEF l
    <3>5. QED
      BY <3>2, <3>3, <3>4
  <2>2. CASE loc[p].back # "poll"
    <3>1. Return(p, loc[p].range) /\ loc[p].range \in Int
      BY <2>2, Own DEF DelEnd
    <3>2. PICK w \in {"list", "idle"} : pc' = [pc EXCEPT ![p] = w]
      BY <3>1 DEF Return, Back, Goto
    <3>3. loc' = [loc EXCEPT ![p] = Kept(p, loc[p].range)]
      BY <3>1 DEF Return
    <3>4. QED
      BY <3>1, <3>2, <3>3, KeptFacts
  <2>3. QED
    BY <2>1, <2>2
<1>3. LocTypes' /\ pc'[p] = w /\ loc'[p] = l /\ Alone(p)
  BY <1>2, TypeParts, Moved DEF Where
<1>4. /\ hist' \in Histories /\ hist'.gone = hist.gone
      /\ hist'.twice = hist.twice /\ hist'.late = hist.late
      /\ \/ hist'.flag = hist.flag /\ voteflag' = voteflag
         \/ hist'.flag = FlagRaced /\ Lines(control) = <<>> /\ voteflag' = FALSE
  <2>1. CASE Lines(control) = <<>>
    <3>1. voteflag' = FALSE /\ hist' = [hist EXCEPT !.flag = FlagRaced]
      BY <2>1 DEF DelEnd, ClearFlag
    <3>2. QED
      BY <2>1, <3>1, ClearedHist
  <2>2. CASE Lines(control) # <<>>
    <3>1. UNCHANGED <<voteflag, hist>>
      BY <2>2 DEF DelEnd
    <3>2. QED
      BY <3>1 DEF TypeOK
  <2>3. QED
    BY <2>1, <2>2
<1>5. TypeOK'
  <2>1. ListTypes' /\ BoxTypes' /\ HistTypes'
    BY <1>1, <1>4, TypeParts DEF ListTypes, BoxTypes, HistTypes
  <2>2. FlagTypes'
    BY <1>1, <1>4, TypeParts, Zenon DEF FlagTypes
  <2>3. QED
    BY <1>3, <2>1, <2>2, TypePartsNext
<1>6. Quiet(p)
  <2>1. pc'[p] \notin Opening \cup Deleting \cup {"delfiles"}
    BY <1>3 DEF Opening, Deleting
  <2>2. QED
    BY <1>1, <1>2, <1>3, <1>4, <2>1 DEF Quiet, Alone
<1>7. QED
  BY <1>1, <1>2, <1>3, <1>4, <1>5, <1>6 DEF Plain, Closing, Deleting

LEMMA KillPlain ==
    ASSUME TypeOK, NEW p \in Procs, Kill(p)
    PROVE  TypeOK' /\ Plain(p)
<1>1. UNCHANGED <<inode, control, tmp, opened, box, voteflag, expired, due, result>>
  BY DEF Kill, list, votes
<1>2. LocTypes' /\ pc'[p] = "idle" /\ loc'[p] = NoLocals /\ Alone(p)
  BY TypeParts, Moved, NoLocalsType DEF Kill, Goto, Where
<1>3. /\ hist' \in Histories /\ hist'.gone = hist.gone /\ hist'.late = hist.late
      /\ hist.twice \subseteq hist'.twice /\ hist'.flag = hist.flag
  <2> DEFINE t == hist.twice \cup (IF pc[p] \in Closing THEN 1..MaxVotes ELSE {})
  <2>1. hist \in Histories
    BY DEF TypeOK
  <2>2. t \subseteq Vote /\ hist.twice \subseteq t
    BY <2>1 DEF Histories, Vote
  <2>3. hist' = [hist EXCEPT !.twice = t]
    BY DEF Kill
  <2> HIDE DEF t
  <2>4. QED
    BY <2>1, <2>2, <2>3 DEF Histories
<1>4. TypeOK'
  <2>1. ListTypes' /\ BoxTypes' /\ HistTypes'
    BY <1>1, <1>3, TypeParts DEF ListTypes, BoxTypes, HistTypes
  <2>2. FlagTypes'
    BY <1>1, TypeParts, Zenon DEF FlagTypes
  <2>3. QED
    BY <1>2, <2>1, <2>2, TypePartsNext
<1>5. loc'[p].vote = 0 /\ loc'[p].meant = 0 /\ loc'[p].counted = FALSE
  BY <1>2 DEF NoLocals
<1>6. Quiet(p)
  BY <1>1, <1>2, <1>3, <1>5 DEF Quiet, Alone, Opening, Deleting
<1>7. QED
  BY <1>1, <1>2, <1>3, <1>4, <1>5, <1>6 DEF Plain, Closing, Deleting

-----------------------------------------------------------------------------
(***************************************************************************)
(* The other steps.                                                        *)
(***************************************************************************)

(* The others stay, warned at most. *)
Warned(p) == \A q \in Procs \ {p} :
    /\ pc'[q] = pc[q]
    /\ loc'[q] = loc[q] \/ loc'[q] = [loc[q] EXCEPT !.raced = TRUE]

LEMMA WarnedFacts ==
    ASSUME TypeOK, NEW p \in Procs, Warned(p), NEW q \in Procs \ {p}
    PROVE  /\ pc'[q] = pc[q] /\ loc'[q].vote = loc[q].vote /\ loc'[q].num = loc[q].num
           /\ loc'[q].file = loc[q].file /\ loc'[q].pos = loc[q].pos
           /\ loc'[q].tally = loc[q].tally /\ loc'[q].counted = loc[q].counted
           /\ loc'[q].meant = loc[q].meant
           /\ ~loc'[q].raced => loc'[q] = loc[q]
<1>1. loc[q] \in Locals
  BY Own
<1>2. CASE loc'[q] = loc[q]
  BY <1>2 DEF Warned
<1>3. CASE loc'[q] = [loc[q] EXCEPT !.raced = TRUE]
  BY <1>1, <1>3 DEF Warned, Locals
<1>4. QED
  BY <1>2, <1>3 DEF Warned

LEMMA AloneWarned == ASSUME NEW p \in Procs, Alone(p) PROVE Warned(p)
  BY DEF Alone, Warned
LEMMA QuietWarned == ASSUME NEW p \in Procs, Quiet(p) PROVE Warned(p)
  BY DEF Quiet, Warned

(* A ballot is written. *)
LEMMA PutFacts ==
    ASSUME TypeOK, NEW p \in Procs, Put(p)
    PROVE  /\ TypeOK' /\ Quiet(p) /\ UNCHANGED result
           /\ pc[p] = "put" /\ pc'[p] \in {"list", "idle"} /\ ~loc'[p].counted
           /\ box' = [box EXCEPT ![loc[p].vote] = PutAt(@, loc[p].pos,
                                     [uid |-> UserOf[p], voted |-> loc[p].ballot])]
           /\ [uid |-> UserOf[p], voted |-> loc[p].ballot] \in Ballot
           /\ hist.late \subseteq hist'.late
           /\ \A q \in Procs : loc[q].counted /\ loc[q].vote = loc[p].vote
                                  => <<loc[q].vote, UserOf[p]>> \in hist'.late
           /\ \A q \in Behind(p) : loc'[q].raced = TRUE
<1> DEFINE v == loc[p].vote
           b == [uid |-> UserOf[p], voted |-> loc[p].ballot]
           k == Kept(p, loc[p].range)
<1>1. /\ pc[p] = "put" /\ box' = [box EXCEPT ![v] = PutAt(@, loc[p].pos, b)]
      /\ UNCHANGED <<inode, control, tmp, opened, voteflag, expired, due, result>>
      /\ Back(p, loc[p].range)
  BY DEF Put, list, votes
<1>2. b \in Ballot /\ v \in Vote /\ loc[p].pos \in Nat
  BY <1>1, Own DEF TypeOK, Ballot
<1>3. box' \in [Vote -> Seq(Ballot \cup {Hole})]
  <2>1. box \in [Vote -> Seq(Ballot \cup {Hole})]
    BY DEF TypeOK
  <2>2. PutAt(box[v], loc[p].pos, b) \in Seq(Ballot \cup {Hole})
    <3> DEFINE S == Ballot \cup {Hole}
    <3>1. Hole \in S /\ b \in S /\ box[v] \in Seq(S) /\ loc[p].pos \in Nat
      BY <1>2, <2>1
    <3> HIDE DEF S
    <3>2. PutAt(box[v], loc[p].pos, b) \in Seq(S)
      BY <3>1, PutAtFacts
    <3>3. QED
      BY <3>2 DEF S
  <2>3. QED
    BY <1>1, <2>1, <2>2
<1>4. \A q \in Procs : loc'[q] = IF q = p THEN k ELSE IF q \in Behind(p)
                                 THEN [loc[q] EXCEPT !.raced = TRUE] ELSE loc[q]
  BY Zenon DEF Put
<1>5. k \in Locals /\ k.vote \in {0, v} /\ k.meant = 0 /\ ~k.counted
  <2>1. loc[p].range \in Int
    BY Own
  <2>2. QED
    BY <2>1, KeptFacts
<1> HIDE DEF k, b, v
<1>6. loc' \in [Procs -> Locals]
  <2>1. ASSUME NEW q \in Procs PROVE loc'[q] \in Locals
    <3>1. loc[q] \in Locals
      BY Own
    <3>2. [loc[q] EXCEPT !.raced = TRUE] \in Locals
      BY <3>1 DEF Locals
    <3>3. QED
      BY <1>4, <1>5, <3>1, <3>2
  <2>2. loc' = [q \in Procs |-> loc'[q]]
    BY Zenon DEF Put
  <2>3. QED
    BY <2>1, <2>2
<1>7. PICK w \in {"list", "idle"} : pc' = [pc EXCEPT ![p] = w]
  BY <1>1 DEF Back, Goto
<1>8. LocTypes' /\ pc'[p] = w /\ \A q \in Procs \ {p} : pc'[q] = pc[q]
  <2>1. pc \in [Procs -> Where] /\ w \in Where /\ \A q \in Procs : pc[q] = "put" => loc[q].ballot \in Values
    BY DEF TypeOK, Where
  <2>2. pc' \in [Procs -> Where] /\ pc'[p] = w /\ \A q \in Procs \ {p} : pc'[q] = pc[q]
    BY <1>7, <2>1
  <2>3. ASSUME NEW q \in Procs, pc'[q] = "put" PROVE loc'[q].ballot \in Values
    <3>1. q # p /\ loc[q].ballot \in Values /\ loc[q] \in Locals
      BY <2>1, <2>2, <2>3, Own
    <3>2. loc'[q].ballot = loc[q].ballot
      BY <1>4, <3>1 DEF Locals
    <3>3. QED
      BY <3>1, <3>2
  <2>4. QED
    BY <1>6, <2>2, <2>3 DEF LocTypes
<1>9. /\ hist' \in Histories /\ hist'.gone = hist.gone /\ hist'.twice = hist.twice
      /\ hist'.flag = hist.flag /\ hist.late \subseteq hist'.late
      /\ \A q \in Procs : loc[q].counted /\ loc[q].vote = v => <<v, UserOf[p]>> \in hist'.late
  <2> DEFINE t == {<<v, UserOf[p]>> : q \in {q \in Procs : loc[q].counted /\ loc[q].vote = v}}
  <2>1. hist \in Histories
    BY DEF TypeOK
  <2>2. t \subseteq Vote \X {UserOf[q] : q \in Procs}
    BY <1>2
  <2>3. hist' = [hist EXCEPT !.late = hist.late \cup t]
    BY DEF Put, v
  <2>4. \A q \in Procs : loc[q].counted /\ loc[q].vote = v => <<v, UserOf[p]>> \in t
    OBVIOUS
  <2> HIDE DEF t
  <2>5. QED
    BY <2>1, <2>2, <2>3, <2>4 DEF Histories
<1>10. TypeOK'
  <2>1. ListTypes' /\ BoxTypes' /\ HistTypes'
    BY <1>1, <1>3, <1>9, TypeParts DEF ListTypes, BoxTypes, HistTypes
  <2>2. FlagTypes'
    BY <1>1, TypeParts, Zenon DEF FlagTypes
  <2>3. QED
    BY <1>8, <2>1, <2>2, TypePartsNext
<1>11. loc'[p] = k /\ \A q \in Behind(p) : loc'[q] = [loc[q] EXCEPT !.raced = TRUE]
  BY <1>4 DEF Behind
<1>12. \A q \in Behind(p) : loc'[q].raced = TRUE
  BY <1>11, Own, ZenonT(30) DEF Locals, Behind
<1>13. Quiet(p)
  <2>1. pc'[p] \notin Opening \cup Deleting \cup {"delfiles"}
    BY <1>8 DEF Opening, Deleting
  <2>2. \A q \in Procs \ {p} : loc'[q] = loc[q] \/ (pc[q] = "put" /\ loc'[q] = [loc[q] EXCEPT !.raced = TRUE])
    BY <1>4 DEF Behind
  <2>3. loc'[p].vote \in {0, loc[p].vote} /\ loc'[p].meant \in {0, loc[p].meant}
    BY <1>5, <1>11 DEF v
  <2>4. QED
    BY <1>1, <1>8, <1>9, <2>1, <2>2, <2>3 DEF Quiet
<1>14. QED
  BY <1>1, <1>2, <1>5, <1>8, <1>9, <1>10, <1>11, <1>12, <1>13 DEF b, v

(* A process begins to close a vote; that another one does, or that the    *)
(* vote is not listed, is known.                                           *)
Begins(p) ==
    /\ Quiet(p) /\ Alone(p) /\ UNCHANGED <<box, result>> /\ hist'.late = hist.late
    /\ pc[p] \notin Closing /\ pc'[p] \in {"count", "dele"}
    /\ loc'[p].counted => loc[p].counted
    /\ \A q \in Procs \ {p} : pc[q] \in Closing /\ loc[q].vote = loc'[p].vote
          => loc'[p].vote \in hist'.twice
    /\ loc'[p].vote \notin Rng(Lines(control)) => loc'[p].vote \in hist'.twice

LEMMA BeginFacts ==
    ASSUME TypeOK, NEW p \in Procs, NEW n \in Nat \ {0}, NEW l \in Locals, NEW w \in {"count", "dele"},
           l.vote = Record(p, n), l.meant = loc[p].meant, l.counted = loc[p].counted,
           Begin(p, l.vote, n, l), pc[p] \in {"poll", "list"}, pc' = [pc EXCEPT ![p] = w],
           UNCHANGED <<inode, control, tmp, opened, box, voteflag, expired, due, result>>
    PROVE  TypeOK' /\ Begins(p)
<1> DEFINE v == l.vote
           t == {u \in {v} : \/ n > Len(Lines(control))
                             \/ \E q \in Procs \ {p} : pc[q] \in Closing /\ loc[q].vote = v}
<1>1. loc' = [loc EXCEPT ![p] = l] /\ hist' = [hist EXCEPT !.twice = hist.twice \cup t]
  BY DEF Begin
<1>2. w \in Where /\ w # "put"
  BY DEF Where, Closing
<1>3. LocTypes' /\ pc'[p] = w /\ loc'[p] = l /\ Alone(p)
  BY <1>1, <1>2, TypeParts, Moved
<1>4. v \in Vote /\ v \in {loc[p].vote} \cup Rng(Lines(control))
  BY Reads
<1>5. /\ \A q \in Procs \ {p} : pc[q] \in Closing /\ loc[q].vote = v => v \in t
      /\ v \notin Rng(Lines(control)) => v \in t
  <2>1. CASE n > Len(Lines(control))
    BY <2>1
  <2>2. CASE ~(n > Len(Lines(control)))
    <3>1. n \in DOMAIN Lines(control)
      BY <2>2, Reads
    <3>2. v = Lines(control)[n]
      BY <2>2, <3>1, Reads DEF Record
    <3>3. v \in Rng(Lines(control))
      BY <3>1, <3>2 DEF Rng
    <3>4. QED
      BY <3>3
  <2>3. QED
    BY <2>1, <2>2
<1>6. /\ hist' \in Histories /\ hist'.gone = hist.gone /\ hist'.late = hist.late
      /\ hist'.flag = hist.flag /\ hist'.twice = hist.twice \cup t
  <2>1. hist \in Histories /\ t \subseteq Vote
    BY <1>4 DEF TypeOK
  <2> HIDE DEF t
  <2>2. QED
    BY <1>1, <2>1 DEF Histories
<1> HIDE DEF t
<1>7. TypeOK'
  <2>1. ListTypes' /\ BoxTypes' /\ HistTypes'
    BY <1>6, TypeParts DEF ListTypes, BoxTypes, HistTypes
  <2>2. FlagTypes'
    BY TypeParts, Zenon DEF FlagTypes
  <2>3. QED
    BY <1>3, <2>1, <2>2, TypePartsNext
<1>8. Quiet(p)
  <2>1. pc'[p] \notin Opening \cup Deleting \cup {"delfiles"}
    BY <1>3 DEF Opening, Deleting
  <2>2. QED
    BY <1>3, <1>4, <1>6, <2>1 DEF Quiet, Alone
<1>9. pc[p] \notin Closing
  BY DEF Closing, Deleting
<1>10. QED
  BY <1>3, <1>5, <1>6, <1>7, <1>8, <1>9 DEF Begins

LEMMA CloseBegins ==
    ASSUME TypeOK, NEW p \in Procs,
           CloseEarly(p) \/ (PollNext(p) /\ Record(p, loc[p].vnum) \in loc[p].over)
    PROVE  TypeOK' /\ Begins(p)
<1>1. UNCHANGED <<inode, control, tmp, opened, box, voteflag, expired, due, result>>
  BY DEF CloseEarly, PollNext, list, votes
<1>2. CASE CloseEarly(p)
  <2>1. PICK n \in 1..loc[p].range :
           /\ Begin(p, Record(p, n), n, [loc[p] EXCEPT !.vote = Record(p, n), !.num = 1])
           /\ Goto(p, "count") \/ Goto(p, "dele")
    BY <1>2 DEF CloseEarly
  <2> DEFINE v == Record(p, n)
             l == [loc[p] EXCEPT !.vote = v, !.num = 1]
  <2>2. n \in Nat \ {0}
    BY Own
  <2>3. v \in Vote
    BY <2>2, Reads
  <2>4. Begin(p, v, n, l)
    BY <2>1
  <2> HIDE DEF v
  <2>5. l \in Locals /\ l.vote = v /\ l.meant = loc[p].meant /\ l.counted = loc[p].counted
    BY <2>3, Own, ZenonT(30) DEF Locals
  <2> HIDE DEF l
  <2>6. PICK w \in {"count", "dele"} : pc' = [pc EXCEPT ![p] = w]
    BY <2>1 DEF Goto
  <2>7. pc[p] \in {"poll", "list"}
    BY <1>2 DEF CloseEarly, Does
  <2>8. QED
    BY <1>1, <2>2, <2>4, <2>5, <2>6, <2>7, BeginFacts, ZenonT(30) DEF v
<1>3. CASE PollNext(p) /\ Record(p, loc[p].vnum) \in loc[p].over
  <2> DEFINE n == loc[p].vnum
             v == Record(p, n)
             l == [loc[p] EXCEPT !.vote = v, !.back = "poll"]
  <2>1. Begin(p, v, n, l) /\ Goto(p, "count")
    BY <1>3 DEF PollNext
  <2>2. n \in Nat \ {0}
    BY <1>3, Own DEF PollNext
  <2>3. v \in Vote
    BY <2>2, Reads
  <2> HIDE DEF v
  <2>5. l \in Locals /\ l.vote = v /\ l.meant = loc[p].meant /\ l.counted = loc[p].counted
    BY <2>3, Own, ZenonT(30) DEF Locals
  <2> HIDE DEF l
  <2>6. pc' = [pc EXCEPT ![p] = "count"]
    BY <2>1 DEF Goto
  <2>7. pc[p] \in {"poll", "list"}
    BY <1>3 DEF PollNext
  <2> HIDE DEF n
  <2>8. QED
    BY <1>1, <2>1, <2>2, <2>5, <2>6, <2>7, BeginFacts, ZenonT(30) DEF v
<1>4. QED
  BY <1>2, <1>3

LEMMA CountFacts ==
    ASSUME TypeOK, NEW p \in Procs, Count(p)
    PROVE  /\ TypeOK' /\ Quiet(p) /\ Alone(p) /\ UNCHANGED <<box, result, hist>>
           /\ pc[p] = "count" /\ pc'[p] = "post"
           /\ loc'[p].vote = loc[p].vote /\ loc'[p].counted = TRUE
           /\ loc'[p].tally = Rng(box[loc[p].vote])
<1> DEFINE t == Rng(box[loc[p].vote])
           l == [loc[p] EXCEPT !.tally = t, !.counted = TRUE]
<1>1. /\ loc' = [loc EXCEPT ![p] = l] /\ pc[p] = "count" /\ pc' = [pc EXCEPT ![p] = "post"]
      /\ UNCHANGED <<inode, control, tmp, opened, box, voteflag, expired, due, result, hist>>
  BY DEF Count, Counted, Goto, list, votes
<1>2. t \subseteq Ballot \cup {Hole}
  <2>1. box[loc[p].vote] \in Seq(Ballot \cup {Hole})
    BY Own DEF TypeOK
  <2>2. QED
    BY <2>1 DEF Rng
<1> HIDE DEF t
<1>3. /\ l \in Locals /\ l.vote = loc[p].vote /\ l.meant = loc[p].meant
      /\ l.counted = TRUE /\ l.tally = t
  BY <1>2, Own DEF Locals
<1> HIDE DEF l
<1>4. LocTypes' /\ pc'[p] = "post" /\ loc'[p] = l /\ Alone(p)
  BY <1>1, <1>3, TypeParts, Moved DEF Where, Closing
<1>5. TypeOK'
  <2>1. ListTypes' /\ BoxTypes' /\ HistTypes'
    BY <1>1, TypeParts DEF ListTypes, BoxTypes, HistTypes
  <2>2. FlagTypes'
    BY <1>1, TypeParts, Zenon DEF FlagTypes
  <2>3. QED
    BY <1>4, <2>1, <2>2, TypePartsNext
<1>6. Quiet(p)
  BY <1>1, <1>3, <1>4 DEF Quiet, Alone, Opening, Deleting
<1>7. QED
  BY <1>1, <1>3, <1>4, <1>5, <1>6 DEF t

LEMMA PostFacts ==
    ASSUME TypeOK, NEW p \in Procs, Post(p)
    PROVE  /\ TypeOK' /\ Quiet(p) /\ Alone(p) /\ UNCHANGED <<box, hist>>
           /\ pc[p] = "post" /\ pc'[p] = "dele"
           /\ loc'[p].vote = loc[p].vote /\ loc'[p].counted = loc[p].counted
           /\ result' = [result EXCEPT ![loc[p].vote] = loc[p].tally]
<1> DEFINE l == [loc[p] EXCEPT !.num = 1]
<1>1. /\ loc' = [loc EXCEPT ![p] = l] /\ pc[p] = "post" /\ pc' = [pc EXCEPT ![p] = "dele"]
      /\ result' = [result EXCEPT ![loc[p].vote] = loc[p].tally]
      /\ UNCHANGED <<inode, control, tmp, opened, box, voteflag, expired, due, hist>>
  BY DEF Post, Goto, list
<1>2. /\ l \in Locals /\ l.vote = loc[p].vote /\ l.meant = loc[p].meant
      /\ l.counted = loc[p].counted
  BY Own DEF Locals
<1> HIDE DEF l
<1>3. LocTypes' /\ pc'[p] = "dele" /\ loc'[p] = l /\ Alone(p)
  BY <1>1, <1>2, TypeParts, Moved DEF Where, Closing
<1>4. TypeOK'
  <2>1. ListTypes' /\ HistTypes'
    BY <1>1, TypeParts DEF ListTypes, HistTypes
  <2>2. BoxTypes'
    BY <1>1, TypeParts, Own DEF BoxTypes
  <2>3. FlagTypes'
    BY <1>1, TypeParts, Zenon DEF FlagTypes
  <2>4. QED
    BY <1>3, <2>1, <2>2, <2>3, TypePartsNext
<1>5. Quiet(p)
  BY <1>1, <1>2, <1>3 DEF Quiet, Alone, Opening, Deleting
<1>6. QED
  BY <1>1, <1>2, <1>3, <1>4, <1>5

(* A process goes on closing its vote after the result. *)
After == Closing \ {"count", "post"}
Goes(p) ==
    /\ pc[p] \in After /\ pc'[p] \in After
    /\ loc'[p].vote = loc[p].vote /\ loc'[p].counted = loc[p].counted /\ loc'[p].meant = loc[p].meant
    /\ Warned(p)
    /\ hist.twice \subseteq hist'.twice /\ hist'.late = hist.late
    /\ hist'.flag = hist.flag
    /\ UNCHANGED <<result, opened, voteflag>>

(* When the list is left alone, too, and the histories. *)
LEMMA GoesFacts ==
    ASSUME TypeOK, NEW p \in Procs, NEW w \in After, NEW l \in Locals, pc[p] \in After,
           pc' = [pc EXCEPT ![p] = w], loc' = [loc EXCEPT ![p] = l],
           l.vote = loc[p].vote, l.counted = loc[p].counted, l.meant = loc[p].meant,
           hist' \in Histories, hist.twice \subseteq hist'.twice, hist'.late = hist.late,
           hist'.flag = hist.flag, ListTypes', box' \in [Vote -> Seq(Ballot \cup {Hole})],
           UNCHANGED <<opened, voteflag, expired, due, result>>
    PROVE  TypeOK' /\ Goes(p) /\ Alone(p) /\ pc'[p] = w /\ loc'[p] = l
<1>1. w \in Where /\ w # "put"
  BY DEF After, Closing, Deleting, Where
<1>2. LocTypes' /\ pc'[p] = w /\ loc'[p] = l /\ Alone(p)
  BY <1>1, TypeParts, Moved
<1>3. TypeOK'
  <2>1. BoxTypes' /\ HistTypes'
    BY TypeParts DEF BoxTypes, HistTypes
  <2>2. FlagTypes'
    BY TypeParts, Zenon DEF FlagTypes
  <2>3. QED
    BY <1>2, <2>1, <2>2, TypePartsNext
<1>4. QED
  BY <1>2, <1>3, AloneWarned DEF Goes

(* The same with the hypotheses by one name. *)
Going(p, w, l) ==
    /\ pc[p] \in After /\ pc' = [pc EXCEPT ![p] = w] /\ loc' = [loc EXCEPT ![p] = l]
    /\ l.vote = loc[p].vote /\ l.counted = loc[p].counted /\ l.meant = loc[p].meant
    /\ hist' \in Histories /\ hist.twice \subseteq hist'.twice /\ hist'.late = hist.late
    /\ hist'.flag = hist.flag /\ ListTypes' /\ box' \in [Vote -> Seq(Ballot \cup {Hole})]
    /\ UNCHANGED <<opened, voteflag, expired, due, result>>

LEMMA GoingFacts ==
    ASSUME TypeOK, NEW p \in Procs, NEW w \in After, NEW l \in Locals, Going(p, w, l)
    PROVE  TypeOK' /\ Goes(p) /\ Alone(p) /\ pc'[p] = w /\ loc'[p] = l
  BY GoesFacts, ZenonT(30) DEF Going

(* dele_vote looks for the line. *)
LEMMA DeleFacts ==
    ASSUME TypeOK, NEW p \in Procs,
           DeleNone(p) \/ (DeleFind(p) /\ Lines(control)[loc[p].num] # loc[p].vote)
    PROVE  /\ TypeOK' /\ Goes(p) /\ Alone(p) /\ UNCHANGED <<inode, control, tmp, box, hist>>
           /\ pc'[p] \in {"dele", "delend"}
<1>1. UNCHANGED <<inode, control, tmp, opened, box, voteflag, expired, due, result, hist>>
         /\ pc[p] = "dele" /\ pc[p] \in After
  BY DEF DeleNone, DeleFind, list, votes, After, Closing
<1>2. PICK l \in Locals, w \in {"dele", "delend"} :
          /\ pc' = [pc EXCEPT ![p] = w] /\ loc' = [loc EXCEPT ![p] = l]
          /\ l.vote = loc[p].vote /\ l.counted = loc[p].counted /\ l.meant = loc[p].meant
  <2>1. CASE DeleNone(p)
    <3>1. loc' = [loc EXCEPT ![p] = loc[p]]
      BY <2>1 DEF DeleNone, TypeOK
    <3>2. QED
      BY <2>1, <3>1, Own DEF DeleNone, Goto
  <2>2. CASE DeleFind(p) /\ Lines(control)[loc[p].num] # loc[p].vote
    <3> DEFINE l == [loc[p] EXCEPT !.num = loc[p].num + 1]
    <3>1. loc' = [loc EXCEPT ![p] = l] /\ pc' = [pc EXCEPT ![p] = "dele"]
      BY <1>1, <2>2 DEF DeleFind, TypeOK
    <3>2. loc[p] \in Locals /\ loc[p].num + 1 \in Nat
      BY Own
    <3>3. /\ l \in Locals /\ l.vote = loc[p].vote /\ l.counted = loc[p].counted
          /\ l.meant = loc[p].meant
      BY <3>2 DEF Locals
    <3> HIDE DEF l
    <3>4. QED
      BY <3>1, <3>3
  <2>3. QED
    BY <2>1, <2>2
<1>3. ListTypes' /\ hist' \in Histories /\ box' \in [Vote -> Seq(Ballot \cup {Hole})]
  BY <1>1, TypeParts DEF ListTypes, BoxTypes, HistTypes
<1>4. w \in After
  BY DEF After, Closing
<1>5. QED
  BY <1>1, <1>2, <1>3, <1>4, GoesFacts

(* When nothing but p itself changes. *)
LEMMA LooksFacts ==
    ASSUME TypeOK, NEW p \in Procs, NEW w \in After, NEW l \in Locals, pc[p] \in After,
           pc' = [pc EXCEPT ![p] = w], loc' = [loc EXCEPT ![p] = l],
           l.vote = loc[p].vote, l.counted = loc[p].counted, l.meant = loc[p].meant,
           UNCHANGED <<inode, control, tmp, opened, box, voteflag, expired, due, result, hist>>
    PROVE  TypeOK' /\ Goes(p) /\ Alone(p) /\ pc'[p] = w /\ loc'[p] = l
<1>1. ListTypes' /\ hist' \in Histories /\ box' \in [Vote -> Seq(Ballot \cup {Hole})]
  BY TypeParts DEF ListTypes, BoxTypes, HistTypes
<1>2. QED
  BY <1>1, GoesFacts

(* It has found it. *)
Finds(p) == DeleFind(p) /\ Lines(control)[loc[p].num] = loc[p].vote

LEMMA FoundFacts ==
    ASSUME TypeOK, NEW p \in Procs, Finds(p)
    PROVE  /\ TypeOK' /\ Goes(p) /\ Alone(p) /\ UNCHANGED <<inode, control, tmp, box, hist>>
           /\ pc[p] = "dele" /\ pc'[p] = "delopen" /\ loc'[p].num = loc[p].num
           /\ control # 0 /\ loc[p].num \in DOMAIN inode[control]
           /\ inode[control][loc[p].num] = loc[p].vote
<1> DEFINE l == [loc[p] EXCEPT !.raced = FALSE]
<1>1. /\ pc' = [pc EXCEPT ![p] = "delopen"] /\ loc' = [loc EXCEPT ![p] = l] /\ pc[p] = "dele"
      /\ UNCHANGED <<inode, control, tmp, opened, box, voteflag, expired, due, result, hist>>
  BY DEF Finds, DeleFind, Goto, list, votes
<1>2. /\ l \in Locals /\ l.vote = loc[p].vote /\ l.counted = loc[p].counted
      /\ l.meant = loc[p].meant /\ l.num = loc[p].num
  BY Own DEF Locals
<1> HIDE DEF l
<1>4. "dele" \in After /\ "delopen" \in After
  BY DEF After, Closing, Deleting
<1>5. control # 0 /\ loc[p].num \in DOMAIN inode[control] /\ inode[control][loc[p].num] = loc[p].vote
  BY DEF Finds, DeleFind, Lines
<1>6. TypeOK' /\ Goes(p) /\ Alone(p) /\ pc'[p] = "delopen" /\ loc'[p] = l
  <2> DEFINE w == "delopen"
  <2>1. w \in After /\ pc' = [pc EXCEPT ![p] = w] /\ pc[p] \in After
    BY <1>1, <1>4
  <2> HIDE DEF w
  <2>2. TypeOK' /\ Goes(p) /\ Alone(p) /\ pc'[p] = w /\ loc'[p] = l
    <3>1. l.vote = loc[p].vote /\ l.counted = loc[p].counted /\ l.meant = loc[p].meant
      BY <1>2
    <3>2. UNCHANGED <<inode, control, tmp, opened, box, voteflag, expired, due, result, hist>>
      BY <1>1
    <3>3. l \in Locals /\ w \in After
      BY <1>2, <2>1
    <3>4. loc' = [loc EXCEPT ![p] = l] /\ pc' = [pc EXCEPT ![p] = w] /\ pc[p] \in After
      BY <1>1, <2>1
    <3>5. QED
      BY <3>1, <3>2, <3>3, <3>4, LooksFacts
  <2>3. QED
    BY <2>2 DEF w
<1>7. QED
  BY <1>1, <1>2, <1>5, <1>6

LEMMA DelOpenFacts ==
    ASSUME TypeOK, NEW p \in Procs, DelOpen(p)
    PROVE  /\ TypeOK' /\ Goes(p) /\ Alone(p) /\ UNCHANGED <<inode, control, tmp, box, hist>>
           /\ pc[p] = "delopen" /\ pc'[p] = "deltmp" /\ loc'[p].num = loc[p].num
           /\ loc'[p].raced = loc[p].raced
           /\ control # 0 /\ loc'[p].file = control
<1> DEFINE l == [loc[p] EXCEPT !.file = control]
<1>1. /\ pc' = [pc EXCEPT ![p] = "deltmp"] /\ loc' = [loc EXCEPT ![p] = l]
      /\ pc[p] = "delopen" /\ control # 0
      /\ UNCHANGED <<inode, control, tmp, opened, box, voteflag, expired, due, result, hist>>
  BY DEF DelOpen, Goto, list, votes
<1>2. /\ l \in Locals /\ l.vote = loc[p].vote /\ l.counted = loc[p].counted /\ l.file = control
      /\ l.meant = loc[p].meant /\ l.num = loc[p].num /\ l.raced = loc[p].raced
  <2>1. control \in 0..MaxFiles /\ loc[p] \in Locals
    BY Own DEF TypeOK
  <2>2. QED
    BY <2>1 DEF Locals
<1> HIDE DEF l
<1>3. ListTypes' /\ hist' \in Histories /\ box' \in [Vote -> Seq(Ballot \cup {Hole})]
  BY <1>1, TypeParts DEF ListTypes, BoxTypes, HistTypes
<1>4. "deltmp" \in After /\ "delopen" \in After
  BY DEF After, Closing, Deleting
<1>5. TypeOK' /\ Goes(p) /\ Alone(p) /\ pc'[p] = "deltmp" /\ loc'[p] = l
  <2>1. pc[p] \in After /\ hist.twice \subseteq hist'.twice /\ hist'.late = hist.late /\ hist'.flag = hist.flag
    BY <1>1, <1>4
  <2>2. UNCHANGED <<opened, voteflag, expired, due, result>>
    BY <1>1
  <2>3. l.vote = loc[p].vote /\ l.counted = loc[p].counted /\ l.meant = loc[p].meant
    BY <1>2
  <2>4. loc' = [loc EXCEPT ![p] = l] /\ pc' = [pc EXCEPT ![p] = "deltmp"]
    BY <1>1
  <2>5. l \in Locals /\ "deltmp" \in After
    BY <1>2, <1>4
  <2>6. ListTypes' /\ hist' \in Histories
    BY <1>3
  <2>7. box' \in [Vote -> Seq(Ballot \cup {Hole})]
    BY <1>3
  <2>8. Going(p, "deltmp", l)
    BY <2>1, <2>2, <2>3, <2>4, <2>6, <2>7, Zenon DEF Going
  <2>9. QED
    BY <2>5, <2>8, GoingFacts
<1>6. QED
  BY <1>1, <1>2, <1>5

LEMMA DelFailsFacts ==
    ASSUME TypeOK, NEW p \in Procs, DelFails(p)
    PROVE  /\ TypeOK' /\ Goes(p) /\ Alone(p) /\ UNCHANGED <<inode, control, tmp, box, loc>>
           /\ pc[p] \in {"delopen", "deltmp"} /\ pc'[p] = "delfiles"
           /\ loc[p].vote \in hist'.twice /\ hist'.gone = hist.gone
<1>1. /\ pc' = [pc EXCEPT ![p] = "delfiles"] /\ pc[p] \in {"delopen", "deltmp"}
      /\ hist' = [hist EXCEPT !.twice = @ \cup {loc[p].vote}]
      /\ UNCHANGED <<inode, control, tmp, opened, box, voteflag, expired, due, result, loc>>
  BY DEF DelFails, Goto, list, votes
<1>2. loc' = [loc EXCEPT ![p] = loc[p]]
  BY <1>1 DEF TypeOK
<1>3. /\ hist' \in Histories /\ hist'.gone = hist.gone /\ hist'.late = hist.late
      /\ hist'.flag = hist.flag /\ hist'.twice = hist.twice \cup {loc[p].vote}
  <2>1. hist \in Histories /\ loc[p].vote \in Vote
    BY Own DEF TypeOK
  <2>2. QED
    BY <1>1, <2>1 DEF Histories
<1>4. ListTypes' /\ box' \in [Vote -> Seq(Ballot \cup {Hole})]
  BY <1>1, TypeParts DEF ListTypes, BoxTypes
<1>5. "deltmp" \in After /\ "delopen" \in After /\ "delfiles" \in After
  BY DEF After, Closing, Deleting
<1>6. TypeOK' /\ Goes(p) /\ Alone(p) /\ pc'[p] = "delfiles"
  <2>1. loc[p] \in Locals
    BY Own
  <2>2. pc[p] \in After
    BY <1>1, <1>5
  <2>3. hist.twice \subseteq hist'.twice /\ UNCHANGED <<opened, voteflag, expired, due, result>>
    BY <1>1, <1>3
  <2>4. QED
    BY <1>1, <1>2, <1>3, <1>4, <1>5, <2>1, <2>2, <2>3, GoesFacts, ZenonT(30)
<1>7. QED
  BY <1>1, <1>3, <1>6

LEMMA NewFileFacts ==
    ASSUME TypeOK, NEW f \in NewFile
    PROVE  f \in File /\ f \in Nat /\ f # 0 /\ f # control /\ f # tmp /\ \A q \in Procs : loc[q].file # f
  BY DEF NewFile, Held, File

LEMMA DelTmpFacts ==
    ASSUME TypeOK, NEW p \in Procs, DelTmp(p)
    PROVE  /\ TypeOK' /\ Goes(p) /\ Alone(p) /\ UNCHANGED <<control, box, hist, loc>>
           /\ pc[p] = "deltmp" /\ pc'[p] = "delcopy" /\ tmp = 0
           /\ tmp' \in File /\ tmp' # 0 /\ tmp' # control
           /\ inode' = [inode EXCEPT ![tmp'] = <<>>]
<1>1. /\ pc' = [pc EXCEPT ![p] = "delcopy"] /\ pc[p] = "deltmp" /\ tmp = 0 /\ tmp' \in NewFile
      /\ inode' = [inode EXCEPT ![tmp'] = <<>>]
      /\ UNCHANGED <<control, opened, box, voteflag, expired, due, result, hist, loc>>
  BY DEF DelTmp, Goto, votes
<1>2. loc' = [loc EXCEPT ![p] = loc[p]]
  BY <1>1 DEF TypeOK
<1>3. tmp' \in File /\ tmp' # 0 /\ tmp' # control
  BY <1>1, NewFileFacts
<1>4. ListTypes'
  <2>1. inode' \in [File -> Seq(Vote)]
    BY <1>1, <1>3 DEF TypeOK
  <2>2. control' \in 0..MaxFiles /\ tmp' \in 0..MaxFiles
    BY <1>1, <1>3 DEF TypeOK, File
  <2>3. QED
    BY <2>1, <2>2 DEF ListTypes
<1>5. hist' \in Histories /\ box' \in [Vote -> Seq(Ballot \cup {Hole})]
  BY <1>1, TypeParts DEF BoxTypes, HistTypes
<1>6. "deltmp" \in After /\ "delcopy" \in After
  BY DEF After, Closing, Deleting
<1>7. TypeOK' /\ Goes(p) /\ Alone(p) /\ pc'[p] = "delcopy"
  <2>1. loc[p] \in Locals
    BY Own
  <2>2. pc[p] \in After /\ hist.twice \subseteq hist'.twice /\ hist'.late = hist.late /\ hist'.flag = hist.flag
    BY <1>1, <1>6
  <2>3. QED
    BY <1>1, <1>2, <1>4, <1>5, <1>6, <2>1, <2>2, GoesFacts
<1>8. QED
  BY <1>1, <1>3, <1>7

LEMMA DelCopyFacts ==
    ASSUME TypeOK, TmpInv, NEW p \in Procs, DelCopy(p)
    PROVE  /\ TypeOK' /\ Goes(p) /\ Alone(p) /\ UNCHANGED <<control, tmp, box, hist>>
           /\ pc[p] = "delcopy" /\ pc'[p] = "ren1" /\ loc'[p].num = loc[p].num
           /\ loc'[p].raced = loc[p].raced
           /\ tmp \in File /\ loc[p].file \in File
           /\ inode' = [inode EXCEPT ![tmp] = Without(inode[loc[p].file], loc[p].num)]
<1> DEFINE l == [loc[p] EXCEPT !.file = 0]
<1>1. /\ pc' = [pc EXCEPT ![p] = "ren1"] /\ loc' = [loc EXCEPT ![p] = l] /\ pc[p] = "delcopy"
      /\ inode' = [inode EXCEPT ![tmp] = Without(inode[loc[p].file], loc[p].num)]
      /\ UNCHANGED <<control, tmp, opened, box, voteflag, expired, due, result, hist>>
  BY DEF DelCopy, Goto, votes
<1>2. /\ l \in Locals /\ l.vote = loc[p].vote /\ l.counted = loc[p].counted
      /\ l.meant = loc[p].meant /\ l.num = loc[p].num /\ l.raced = loc[p].raced
  <2>1. 0 \in 0..MaxFiles /\ loc[p] \in Locals
    BY Own
  <2>2. QED
    BY <2>1 DEF Locals
<1> HIDE DEF l
<1>3. tmp \in File /\ loc[p].file \in File
  <2>1. tmp # 0 /\ loc[p].file # 0
    BY <1>1 DEF TmpInv, Copying
  <2>2. QED
    BY <2>1, Own DEF TypeOK, File
<1>4. ListTypes'
  <2>1. Without(inode[loc[p].file], loc[p].num) \in Seq(Vote)
    BY <1>3, Own, WithoutFacts DEF TypeOK
  <2>2. inode' \in [File -> Seq(Vote)]
    BY <1>1, <2>1 DEF TypeOK
  <2>3. QED
    BY <1>1, <2>2, TypeParts DEF ListTypes
<1>5. hist' \in Histories /\ box' \in [Vote -> Seq(Ballot \cup {Hole})]
  BY <1>1, TypeParts DEF BoxTypes, HistTypes
<1>6. "ren1" \in After /\ "delcopy" \in After
  BY DEF After, Closing, Deleting
<1>7. TypeOK' /\ Goes(p) /\ Alone(p) /\ pc'[p] = "ren1" /\ loc'[p] = l
  <2>1. pc[p] \in After /\ hist.twice \subseteq hist'.twice /\ hist'.late = hist.late /\ hist'.flag = hist.flag
    BY <1>1, <1>6
  <2>2. UNCHANGED <<opened, voteflag, expired, due, result>>
    BY <1>1
  <2>3. l.vote = loc[p].vote /\ l.counted = loc[p].counted /\ l.meant = loc[p].meant
    BY <1>2
  <2>4. loc' = [loc EXCEPT ![p] = l] /\ pc' = [pc EXCEPT ![p] = "ren1"]
    BY <1>1
  <2>5. l \in Locals /\ "ren1" \in After
    BY <1>2, <1>6
  <2>6. Going(p, "ren1", l)
    BY <1>4, <1>5, <2>1, <2>2, <2>3, <2>4, Zenon DEF Going
  <2>7. QED
    BY <2>5, <2>6, GoingFacts
<1>8. QED
  BY <1>1, <1>2, <1>3, <1>7

LEMMA Rename1Facts ==
    ASSUME TypeOK, TmpInv, NEW p \in Procs, Rename1(p)
    PROVE  /\ TypeOK' /\ Goes(p) /\ Alone(p) /\ UNCHANGED <<tmp, box, hist, loc>>
           /\ pc[p] = "ren1" /\ pc'[p] = "ren2" /\ control \in File /\ control' = 0
           /\ inode' = inode \/ inode' = [inode EXCEPT ![control] = <<>>]
<1>1. /\ pc' = [pc EXCEPT ![p] = "ren2"] /\ pc[p] = "ren1" /\ control' = 0
      /\ inode' = inode \/ inode' = [inode EXCEPT ![control] = <<>>]
      /\ UNCHANGED <<tmp, opened, box, voteflag, expired, due, result, hist, loc>>
  BY DEF Rename1, Goto, votes
<1>2. loc' = [loc EXCEPT ![p] = loc[p]]
  BY <1>1 DEF TypeOK
<1>3. control \in File
  <2>1. control # 0
    BY <1>1 DEF TmpInv
  <2>2. QED
    BY <2>1 DEF TypeOK, File
<1>4. ListTypes'
  <2>1. inode' \in [File -> Seq(Vote)]
    <3>1. inode \in [File -> Seq(Vote)] /\ <<>> \in Seq(Vote)
      BY DEF TypeOK
    <3>2. [inode EXCEPT ![control] = <<>>] \in [File -> Seq(Vote)]
      BY <3>1
    <3>3. QED
      BY <1>1, <3>1, <3>2
  <2>2. QED
    BY <1>1, <2>1 DEF ListTypes, TypeOK
<1>5. hist' \in Histories /\ box' \in [Vote -> Seq(Ballot \cup {Hole})]
  BY <1>1, TypeParts DEF BoxTypes, HistTypes
<1>6. "ren1" \in After /\ "ren2" \in After
  BY DEF After, Closing, Deleting
<1>7. TypeOK' /\ Goes(p) /\ Alone(p) /\ pc'[p] = "ren2"
  <2>1. loc[p] \in Locals
    BY Own
  <2>2. pc[p] \in After /\ hist.twice \subseteq hist'.twice /\ hist'.late = hist.late /\ hist'.flag = hist.flag
    BY <1>1, <1>6
  <2>3. QED
    BY <1>1, <1>2, <1>4, <1>5, <1>6, <2>1, <2>2, GoesFacts
<1>8. QED
  BY <1>1, <1>3, <1>7

LEMMA DisturbFacts ==
    ASSUME TypeOK, NEW f \in [Procs -> Locals], NEW p \in Procs, NEW k \in Int
    PROVE  /\ Disturb(f, p, k) \in [Procs -> Locals]
           /\ Disturb(f, p, k)[p] = f[p]
           /\ \A q \in Procs \ {p} :
                 /\ \/ Disturb(f, p, k)[q] = f[q]
                    \/ Disturb(f, p, k)[q] = [f[q] EXCEPT !.raced = TRUE]
                 /\ pc[q] \in Deleting \/ (pc[q] = "webform" /\ f[q].num >= k)
                       => Disturb(f, p, k)[q].raced = TRUE
<1>1. ASSUME NEW q \in Procs
      PROVE  [f[q] EXCEPT !.raced = TRUE] \in Locals /\ [f[q] EXCEPT !.raced = TRUE].raced = TRUE
  BY ZenonT(30) DEF Locals
<1>2. QED
  BY <1>1 DEF Disturb

LEMMA Rename2Facts ==
    ASSUME TypeOK, NEW p \in Procs, Rename2(p)
    PROVE  /\ TypeOK' /\ Goes(p) /\ UNCHANGED <<inode, box>> /\ hist'.gone = hist.gone
           /\ pc[p] = "ren2" /\ pc'[p] = "delfiles" /\ loc'[p] = loc[p]
           /\ control' = tmp /\ tmp' = 0
           /\ \A q \in Procs \ {p} : pc[q] \in Deleting => loc'[q].raced = TRUE
           /\ \A q \in Procs \ {p} : pc[q] = "webform" /\ ~loc'[q].raced
                 => ~loc[p].raced /\ loc[q].num < loc[p].num
           /\ loc[p].raced => 1..MaxVotes \subseteq hist'.twice
<1> DEFINE k == IF loc[p].raced THEN 0 ELSE loc[p].num
<1>1. /\ pc' = [pc EXCEPT ![p] = "delfiles"] /\ loc' = Disturb(loc, p, k) /\ pc[p] = "ren2"
      /\ control' = tmp /\ tmp' = 0
      /\ hist' = [hist EXCEPT !.twice = @ \cup (IF loc[p].raced THEN 1..MaxVotes ELSE {})]
      /\ UNCHANGED <<inode, opened, box, voteflag, expired, due, result>>
  BY DEF Rename2, Goto, votes
<1>2. k \in Nat /\ k \in Int /\ loc \in [Procs -> Locals]
  BY Own DEF TypeOK
<1> HIDE DEF k
<1>3. /\ loc' \in [Procs -> Locals] /\ loc'[p] = loc[p]
      /\ \A q \in Procs \ {p} :
            /\ loc'[q] = loc[q] \/ loc'[q] = [loc[q] EXCEPT !.raced = TRUE]
            /\ pc[q] \in Deleting \/ (pc[q] = "webform" /\ loc[q].num >= k) => loc'[q].raced = TRUE
  <2> DEFINE d == Disturb(loc, p, k)
  <2>1. /\ d \in [Procs -> Locals] /\ d[p] = loc[p]
        /\ \A q \in Procs \ {p} :
              /\ d[q] = loc[q] \/ d[q] = [loc[q] EXCEPT !.raced = TRUE]
              /\ pc[q] \in Deleting \/ (pc[q] = "webform" /\ loc[q].num >= k) => d[q].raced = TRUE
    <3>0. \A q \in Procs : [loc[q] EXCEPT !.raced = TRUE] \in Locals
      BY Own, ZenonT(30) DEF Locals
    <3>1. d \in [Procs -> Locals] /\ d[p] = loc[p]
      BY <1>2, <3>0 DEF Disturb
    <3>2. ASSUME NEW q \in Procs \ {p} PROVE d[q] = loc[q] \/ d[q] = [loc[q] EXCEPT !.raced = TRUE]
      BY <1>2 DEF Disturb
    <3>3. ASSUME NEW q \in Procs \ {p}, pc[q] \in Deleting \/ (pc[q] = "webform" /\ loc[q].num >= k)
          PROVE  d[q].raced = TRUE
      BY <1>2, <3>3, DisturbFacts
    <3>4. QED
      BY <3>1, <3>2, <3>3
  <2>2. QED
    BY <1>1, <2>1
<1>4. /\ pc' \in [Procs -> Where] /\ pc'[p] = "delfiles" /\ \A q \in Procs \ {p} : pc'[q] = pc[q]
  BY <1>1 DEF TypeOK, Where, Closing
<1>5. LocTypes'
  <2>1. ASSUME NEW q \in Procs, pc'[q] = "put" PROVE loc'[q].ballot \in Values
    <3>1. q # p /\ loc[q].ballot \in Values /\ loc[q] \in Locals
      BY <1>4, <2>1, Own DEF TypeOK
    <3>2. loc'[q].ballot = loc[q].ballot
      BY <1>3, <3>1 DEF Locals
    <3>3. QED
      BY <3>1, <3>2
  <2>2. QED
    BY <1>3, <1>4, <2>1 DEF LocTypes
<1>6. /\ hist' \in Histories /\ hist'.gone = hist.gone /\ hist'.late = hist.late
      /\ hist'.flag = hist.flag /\ hist.twice \subseteq hist'.twice
      /\ loc[p].raced => 1..MaxVotes \subseteq hist'.twice
  <2> DEFINE t == IF loc[p].raced THEN 1..MaxVotes ELSE {}
  <2>1. hist \in Histories /\ t \subseteq Vote /\ (loc[p].raced => t = 1..MaxVotes)
    BY DEF TypeOK, Vote
  <2>2. hist' = [hist EXCEPT !.twice = hist.twice \cup t]
    BY <1>1
  <2> HIDE DEF t
  <2>3. QED
    BY <2>1, <2>2 DEF Histories
<1>7. TypeOK'
  <2>1. ListTypes' /\ BoxTypes' /\ HistTypes'
    BY <1>1, <1>6, TypeParts DEF ListTypes, BoxTypes, HistTypes
  <2>2. FlagTypes'
    BY <1>1, TypeParts, Zenon DEF FlagTypes
  <2>3. QED
    BY <1>5, <2>1, <2>2, TypePartsNext
<1>8. Goes(p)
  <2>1. pc[p] \in After /\ pc'[p] \in After
    BY <1>1, <1>4 DEF After, Closing, Deleting
  <2>2. Warned(p)
    BY <1>3, <1>4 DEF Warned
  <2>3. QED
    BY <1>1, <1>3, <1>6, <2>1, <2>2 DEF Goes
<1>9. ASSUME NEW q \in Procs \ {p}, pc[q] = "webform", ~loc'[q].raced
      PROVE  ~loc[p].raced /\ loc[q].num < loc[p].num
  <2>1. loc[q].num \in Nat /\ ~(loc[q].num >= k)
    BY <1>3, <1>9, Own
  <2>2. QED
    BY <1>2, <2>1 DEF k
<1>10. QED
  BY <1>1, <1>3, <1>4, <1>6, <1>7, <1>8, <1>9

LEMMA DelFilesFacts ==
    ASSUME TypeOK, NEW p \in Procs, DelFiles(p)
    PROVE  /\ TypeOK' /\ Goes(p) /\ Alone(p) /\ UNCHANGED <<inode, control, tmp>>
           /\ pc[p] = "delfiles" /\ pc'[p] \in {"dele", "delend"}
           /\ hist'.twice = hist.twice
           /\ \/ UNCHANGED box /\ hist'.gone = hist.gone
              \/ /\ box' = [box EXCEPT ![loc[p].vote] = <<>>]
                 /\ hist'.gone = hist.gone \cup {loc[p].vote}
<1> DEFINE l == [loc[p] EXCEPT !.range = IF loc[p].range > 0 THEN loc[p].range - 1 ELSE 0]
<1>1. /\ pc[p] = "delfiles" /\ loc' = [loc EXCEPT ![p] = l]
      /\ UNCHANGED <<inode, control, tmp, opened, voteflag, expired, due, result>>
  BY DEF DelFiles, list, votes
<1>2. /\ l \in Locals /\ l.vote = loc[p].vote /\ l.counted = loc[p].counted
      /\ l.meant = loc[p].meant
  <2> DEFINE n == IF loc[p].range > 0 THEN loc[p].range - 1 ELSE 0
  <2>1. n \in Nat /\ loc[p] \in Locals
    BY Own
  <2>2. l = [loc[p] EXCEPT !.range = n]
    OBVIOUS
  <2> HIDE DEF n, l
  <2>3. QED
    BY <2>1, <2>2 DEF Locals
<1> HIDE DEF l
<1>3. hist \in Histories /\ loc[p].vote \in Vote /\ box \in [Vote -> Seq(Ballot \cup {Hole})]
  BY Own DEF TypeOK
<1>4. PICK w \in {"dele", "delend"} :
          /\ pc' = [pc EXCEPT ![p] = w]
          /\ \/ UNCHANGED <<box, hist>>
             \/ /\ box' = [box EXCEPT ![loc[p].vote] = <<>>]
                /\ hist' = [hist EXCEPT !.gone = @ \cup {loc[p].vote}]
  BY DEF DelFiles, Goto
<1>5. /\ hist' \in Histories /\ hist'.twice = hist.twice
      /\ hist'.late = hist.late /\ hist'.flag = hist.flag
      /\ box' \in [Vote -> Seq(Ballot \cup {Hole})]
      /\ \/ UNCHANGED box /\ hist'.gone = hist.gone
         \/ /\ box' = [box EXCEPT ![loc[p].vote] = <<>>]
            /\ hist'.gone = hist.gone \cup {loc[p].vote}
  <2>1. CASE UNCHANGED <<box, hist>>
    BY <1>3, <2>1
  <2>2. CASE /\ box' = [box EXCEPT ![loc[p].vote] = <<>>]
             /\ hist' = [hist EXCEPT !.gone = @ \cup {loc[p].vote}]
    <3>1. box' \in [Vote -> Seq(Ballot \cup {Hole})]
      BY <1>3, <2>2
    <3>2. /\ hist' \in Histories /\ hist'.twice = hist.twice
          /\ hist'.late = hist.late /\ hist'.flag = hist.flag
          /\ hist'.gone = hist.gone \cup {loc[p].vote}
      BY <1>3, <2>2 DEF Histories
    <3>3. QED
      BY <2>2, <3>1, <3>2
  <2>3. QED
    BY <1>4, <2>1, <2>2
<1>6. TypeOK' /\ Goes(p) /\ Alone(p) /\ pc'[p] = w
  <2>1. ListTypes'
    BY <1>1, TypeParts DEF ListTypes
  <2>2. w \in After /\ pc[p] \in After
    BY <1>1 DEF After, Closing
  <2>3. UNCHANGED <<opened, voteflag, expired, due, result>> /\ hist.twice \subseteq hist'.twice
    BY <1>1, <1>5
  <2>4. loc' = [loc EXCEPT ![p] = l] /\ pc' = [pc EXCEPT ![p] = w]
    BY <1>1, <1>4
  <2>5. QED
    BY <1>2, <1>5, <2>1, <2>2, <2>3, <2>4, GoesFacts
<1>7. QED
  BY <1>1, <1>4, <1>5, <1>6

LEMMA OpenVoteFacts ==
    ASSUME TypeOK, NEW p \in Procs, OpenVote(p)
    PROVE  /\ TypeOK' /\ Alone(p) /\ UNCHANGED <<inode, control, tmp, box, result>>
           /\ pc[p] \in {"idle", "list"} /\ pc'[p] = "open"
           /\ opened' = opened + 1 /\ loc'[p].vote = opened + 1
           /\ voteflag' = TRUE
           /\ loc'[p].counted = loc[p].counted /\ loc'[p].meant = loc[p].meant
           /\ hist'.gone = hist.gone /\ hist'.twice = hist.twice /\ hist'.late = hist.late
<1> DEFINE l == [loc[p] EXCEPT !.vote = opened + 1]
<1>1. /\ pc[p] \in {"idle", "list"} /\ pc' = [pc EXCEPT ![p] = "open"]
      /\ loc' = [loc EXCEPT ![p] = l] /\ opened < MaxVotes /\ opened' = opened + 1
      /\ voteflag' = TRUE /\ hist' = [hist EXCEPT !.flag = FALSE]
      /\ UNCHANGED <<inode, control, tmp, box, expired, due, result>>
  BY DEF OpenVote, Does, Goto, list
<1>2. opened + 1 \in 0..MaxVotes
  BY <1>1 DEF TypeOK
<1>3. /\ l \in Locals /\ l.vote = opened + 1 /\ l.counted = loc[p].counted
      /\ l.meant = loc[p].meant
  BY <1>2, Own DEF Locals, Vote
<1> HIDE DEF l
<1>4. LocTypes' /\ pc'[p] = "open" /\ loc'[p] = l /\ Alone(p)
  BY <1>1, <1>3, TypeParts, Moved DEF Where
<1>5. /\ hist' \in Histories /\ hist'.gone = hist.gone /\ hist'.twice = hist.twice
      /\ hist'.late = hist.late
  BY <1>1, TypeParts DEF HistTypes, Histories
<1>6. ListTypes' /\ BoxTypes' /\ HistTypes'
  BY <1>1, <1>2, <1>5, TypeParts DEF ListTypes, BoxTypes, HistTypes
<1>7. FlagTypes'
  BY <1>1, TypeParts, Zenon DEF FlagTypes
<1>8. QED
  BY <1>1, <1>3, <1>4, <1>5, <1>6, <1>7, TypePartsNext

(* The types after a step that disturbs others. *)
Stirs(p, w, l, k) ==
    /\ pc'[p] = w /\ loc'[p] = l /\ Warned(p)
    /\ \A q \in Procs \ {p} :
          pc[q] \in Deleting \/ (pc[q] = "webform" /\ loc[q].num >= k) => loc'[q].raced = TRUE

LEMMA DisturbedTypes ==
    ASSUME TypeOK, NEW p \in Procs, NEW w \in Where \ {"put"}, NEW f \in [Procs -> Locals],
           NEW k \in Int, \A q \in Procs \ {p} : f[q] = loc[q],
           pc' = [pc EXCEPT ![p] = w], loc' = Disturb(f, p, k)
    PROVE  LocTypes' /\ Stirs(p, w, f[p], k)
<1>1. /\ loc' \in [Procs -> Locals] /\ loc'[p] = f[p]
      /\ \A q \in Procs \ {p} :
            /\ loc'[q] = loc[q] \/ loc'[q] = [loc[q] EXCEPT !.raced = TRUE]
            /\ pc[q] \in Deleting \/ (pc[q] = "webform" /\ loc[q].num >= k) => loc'[q].raced = TRUE
  <2>1. \A q \in Procs : [f[q] EXCEPT !.raced = TRUE] \in Locals /\ [f[q] EXCEPT !.raced = TRUE].raced = TRUE
    <3>1. ASSUME NEW l \in Locals
          PROVE  [l EXCEPT !.raced = TRUE] \in Locals /\ [l EXCEPT !.raced = TRUE].raced = TRUE
      BY DEF Locals
    <3>2. QED
      BY <3>1
  <2>2. /\ loc' = [q \in Procs |-> loc'[q]]
        /\ \A q \in Procs :
              loc'[q] = IF q # p /\ (pc[q] \in Deleting \/ (pc[q] = "webform" /\ f[q].num >= k))
                        THEN [f[q] EXCEPT !.raced = TRUE] ELSE f[q]
    BY DEF Disturb
  <2>3. QED
    BY <2>1, <2>2, ZenonT(30)
<1>2. pc' \in [Procs -> Where] /\ pc'[p] = w /\ \A q \in Procs \ {p} : pc'[q] = pc[q]
  BY DEF TypeOK
<1>3. ASSUME NEW q \in Procs, pc'[q] = "put" PROVE loc'[q].ballot \in Values
  <2>1. q # p /\ loc[q].ballot \in Values /\ loc[q] \in Locals
    BY <1>2, <1>3, Own DEF TypeOK
  <2>2. loc'[q].ballot = loc[q].ballot
    BY <1>1, <2>1 DEF Locals
  <2>3. QED
    BY <2>1, <2>2
<1>4. QED
  BY <1>1, <1>2, <1>3 DEF LocTypes, Warned, Stirs

LEMMA OpenFileFacts ==
    ASSUME TypeOK, NEW p \in Procs, OpenFile(p)
    PROVE  /\ TypeOK' /\ Warned(p) /\ UNCHANGED <<tmp, box, voteflag, opened, result, hist>>
           /\ pc[p] = "open" /\ pc'[p] = "openwrite"
           /\ loc'[p].vote = loc[p].vote /\ loc'[p].meant = loc[p].meant
           /\ loc'[p].counted = loc[p].counted
           /\ loc'[p].file = control' /\ control' \in File /\ control' # 0
           /\ \/ UNCHANGED <<inode, control>>
              \/ /\ control = 0 /\ control' # tmp
                 /\ inode' = [inode EXCEPT ![control'] = <<>>]
                 /\ \A q \in Procs \ {p} : pc[q] \in Deleting \cup {"webform"}
                       => loc'[q].raced = TRUE
<1> DEFINE l == [loc[p] EXCEPT !.file = control']
<1>1. /\ pc' = [pc EXCEPT ![p] = "openwrite"] /\ pc[p] = "open"
      /\ UNCHANGED <<tmp, box, voteflag, opened, expired, due, result, hist>>
  BY DEF OpenFile, Goto, list, votes
<1>2. control' \in File /\ control' # 0 /\ (control = 0 => control' # tmp)
  <2>1. CASE control # 0
    BY <2>1 DEF OpenFile, TypeOK, list, File
  <2>2. CASE control = 0
    <3>1. control' \in NewFile
      BY <2>2 DEF OpenFile
    <3>2. QED
      BY <3>1, NewFileFacts
  <2>3. QED
    BY <2>1, <2>2
<1>3. control' \in 0..MaxFiles
  BY <1>2 DEF File
<1>4. /\ l \in Locals /\ l.vote = loc[p].vote /\ l.meant = loc[p].meant
      /\ l.counted = loc[p].counted /\ l.file = control'
  BY <1>3, Own DEF Locals
<1>5. "openwrite" \in Where \ {"put"}
  BY DEF Where
<1>6. /\ LocTypes' /\ pc'[p] = "openwrite" /\ loc'[p] = l /\ Warned(p)
      /\ \/ control # 0 /\ UNCHANGED <<inode, control>>
         \/ /\ control = 0 /\ inode' = [inode EXCEPT ![control'] = <<>>]
            /\ \A q \in Procs \ {p} : pc[q] \in Deleting \cup {"webform"} => loc'[q].raced = TRUE
  <2>1. CASE control # 0
    <3>1. loc' = [loc EXCEPT ![p] = l] /\ UNCHANGED <<inode, control>>
      BY <2>1 DEF OpenFile, list
    <3> HIDE DEF l
    <3>2. LocTypes' /\ pc'[p] = "openwrite" /\ loc'[p] = l /\ Alone(p)
      BY <1>1, <1>4, <1>5, <3>1, TypeParts, Moved
    <3>3. QED
      BY <2>1, <3>1, <3>2, AloneWarned
  <2>2. CASE control = 0
    <3> DEFINE f == [loc EXCEPT ![p] = l]
    <3>1. inode' = [inode EXCEPT ![control'] = <<>>] /\ loc' = Disturb(f, p, 0)
      BY <2>2 DEF OpenFile
    <3> HIDE DEF l
    <3>2. f \in [Procs -> Locals] /\ f[p] = l /\ \A q \in Procs \ {p} : f[q] = loc[q]
      BY <1>4 DEF TypeOK
    <3> HIDE DEF f
    <3>3. /\ LocTypes' /\ pc'[p] = "openwrite" /\ loc'[p] = l /\ Warned(p)
          /\ \A q \in Procs \ {p} :
                pc[q] \in Deleting \/ (pc[q] = "webform" /\ loc[q].num >= 0) => loc'[q].raced = TRUE
      <4>1. "openwrite" \in Where \ {"put"} /\ 0 \in Int /\ pc' = [pc EXCEPT ![p] = "openwrite"]
        BY <1>1, <1>5
      <4>2. loc' = Disturb(f, p, 0)
        BY <3>1
      <4>3. QED
        <5>1. LocTypes' /\ Stirs(p, "openwrite", f[p], 0)
          BY <3>2, <4>1, <4>2, DisturbedTypes, ZenonT(30)
        <5>2. QED
          BY <3>2, <5>1 DEF Stirs
    <3>4. \A q \in Procs \ {p} : loc[q].num >= 0
      BY Own
    <3>5. QED
      BY <2>2, <3>1, <3>3, <3>4
  <2>3. QED
    BY <2>1, <2>2
<1> HIDE DEF l
<1>7. TypeOK'
  <2>1. ListTypes'
    <3>1. inode \in [File -> Seq(Vote)] /\ <<>> \in Seq(Vote)
      BY DEF TypeOK
    <3>2. [inode EXCEPT ![control'] = <<>>] \in [File -> Seq(Vote)]
      BY <3>1
    <3>3. inode' \in [File -> Seq(Vote)]
      BY <1>6, <3>1, <3>2
    <3>4. QED
      BY <1>1, <1>3, <3>3 DEF ListTypes, TypeOK
  <2>2. BoxTypes' /\ HistTypes'
    BY <1>1, TypeParts DEF BoxTypes, HistTypes
  <2>3. FlagTypes'
    BY <1>1, TypeParts, Zenon DEF FlagTypes
  <2>4. QED
    BY <1>6, <2>1, <2>2, <2>3, TypePartsNext
<1>8. QED
  BY <1>1, <1>2, <1>4, <1>6, <1>7

LEMMA OpenWriteFacts ==
    ASSUME TypeOK, TmpInv, NEW p \in Procs, OpenWrite(p)
    PROVE  /\ TypeOK' /\ Warned(p) /\ UNCHANGED <<control, tmp, box, voteflag, opened, result, hist>>
           /\ pc[p] = "openwrite" /\ pc'[p] \in {"list", "idle"}
           /\ loc'[p].vote \in {0, loc[p].vote} /\ loc'[p].meant = 0 /\ ~loc'[p].counted
           /\ loc[p].file \in File
           /\ inode' = [inode EXCEPT ![loc[p].file] = Append(@, loc[p].vote)]
           /\ \A q \in Procs \ {p} : pc[q] \in Deleting => loc'[q].raced = TRUE
<1> DEFINE r == IF loc[p].range > 0 THEN loc[p].range + 1 ELSE 0
           f == [loc EXCEPT ![p] = Kept(p, r)]
<1>1. /\ Back(p, r) /\ pc[p] = "openwrite" /\ loc' = Disturb(f, p, MaxVotes + 1)
      /\ inode' = [inode EXCEPT ![loc[p].file] = Append(@, loc[p].vote)]
      /\ UNCHANGED <<control, tmp, box, voteflag, opened, expired, due, result, hist>>
  BY DEF OpenWrite, votes
<1>2. r \in Int
  BY Own
<1> HIDE DEF r
<1>3. PICK w \in {"list", "idle"} : pc' = [pc EXCEPT ![p] = w]
  BY <1>1 DEF Back, Goto
<1>4. f \in [Procs -> Locals] /\ f[p] = Kept(p, r) /\ \A q \in Procs \ {p} : f[q] = loc[q]
  <2>1. Kept(p, r) \in Locals
    BY <1>2, KeptFacts
  <2>2. QED
    BY <2>1 DEF TypeOK
<1> HIDE DEF f
<1>5. w \in Where \ {"put"} /\ MaxVotes + 1 \in Int
  BY DEF Where
<1>6. /\ LocTypes' /\ pc'[p] = w /\ loc'[p] = Kept(p, r) /\ Warned(p)
      /\ \A q \in Procs \ {p} : pc[q] \in Deleting => loc'[q].raced = TRUE
  <2>1. loc' = Disturb(f, p, MaxVotes + 1)
    BY <1>1
  <2>2. LocTypes' /\ Stirs(p, w, f[p], MaxVotes + 1)
    BY <1>3, <1>4, <1>5, <2>1, DisturbedTypes, ZenonT(30)
  <2>3. QED
    BY <1>4, <2>2 DEF Stirs
<1>7. loc[p].file \in File /\ loc[p].vote \in Vote
  <2>1. loc[p].file # 0
    BY <1>1 DEF TmpInv
  <2>2. QED
    BY <2>1, Own DEF File
<1>8. TypeOK'
  <2>1. ListTypes'
    <3>1. inode \in [File -> Seq(Vote)]
      BY DEF TypeOK
    <3>2. Append(inode[loc[p].file], loc[p].vote) \in Seq(Vote)
      BY <1>7, <3>1
    <3>3. inode' \in [File -> Seq(Vote)]
      BY <1>1, <1>7, <3>1, <3>2
    <3>4. QED
      BY <1>1, <3>3 DEF ListTypes, TypeOK
  <2>2. BoxTypes' /\ HistTypes'
    BY <1>1, TypeParts DEF BoxTypes, HistTypes
  <2>3. FlagTypes'
    BY <1>1, TypeParts, Zenon DEF FlagTypes
  <2>4. QED
    BY <1>6, <2>1, <2>2, <2>3, TypePartsNext
<1>9. QED
  BY <1>1, <1>2, <1>3, <1>6, <1>7, <1>8, KeptFacts

USE VotesAssumption

-----------------------------------------------------------------------------
(***************************************************************************)
(* The parts of the invariant, one after the other.                        *)
(***************************************************************************)

(* What is left of a process that does not move. *)
Keeps(p) == \A q \in Procs \ {p} :
    /\ pc'[q] = pc[q] /\ loc'[q].vote = loc[q].vote /\ loc'[q].num = loc[q].num
    /\ loc'[q].file = loc[q].file /\ loc'[q].pos = loc[q].pos
    /\ loc'[q].tally = loc[q].tally /\ loc'[q].meant = loc[q].meant
    /\ loc'[q].counted = loc[q].counted
    /\ ~loc'[q].raced => ~loc[q].raced

LEMMA WarnedKeeps == ASSUME TypeOK, NEW p \in Procs, Warned(p) PROVE Keeps(p)
  BY WarnedFacts DEF Keeps
LEMMA AloneKeeps == ASSUME NEW p \in Procs, Alone(p) PROVE Keeps(p)
  BY DEF Alone, Keeps
LEMMA QuietKeeps == ASSUME TypeOK, NEW p \in Procs, Quiet(p) PROVE Keeps(p)
  BY QuietWarned, WarnedKeeps

(* The kinds of steps. *)
Calm == UNCHANGED <<inode, control, tmp, opened, box, voteflag, result, pc, loc, hist>>
Searches(p) == DeleNone(p) \/ (DeleFind(p) /\ Lines(control)[loc[p].num] # loc[p].vote)
Closes(p) == Searches(p) \/ Finds(p) \/ DelOpen(p) \/ DelFails(p) \/ DelTmp(p)
                 \/ DelCopy(p) \/ Rename1(p) \/ Rename2(p) \/ DelFiles(p)
Mild(p) ==
    /\ Plain(p)
    /\ loc'[p].counted => pc[p] \notin Closing
    /\ pc[p] \in Deleting => pc'[p] = "idle"
    /\ pc[p] = "webform" /\ pc'[p] = "put" => WebPost(p)
Opens(p) == OpenVote(p) \/ OpenFile(p) \/ OpenWrite(p)

LEMMA BVoteNoneIdle ==
    ASSUME NEW p \in Procs, BVoteNone(p) PROVE pc[p] \notin Closing
  BY DEF BVoteNone, Does, Closing, Deleting

LEMMA ReturnIdle ==
    ASSUME TypeOK, NEW p \in Procs, WebRefused(p) PROVE pc'[p] = "idle"
  BY DEF WebRefused, Return, Back, Goto, TypeOK

(* Whoever leaves off closing a vote forgets that it was counted. *)
LEMMA EndUncounted ==
    ASSUME TypeOK, NEW p \in Procs, DelEnd(p) \/ Kill(p) PROVE ~loc'[p].counted
<1>0. loc \in [Procs -> Locals]
  BY DEF TypeOK
<1>1. CASE Kill(p)
  BY <1>0, <1>1 DEF Kill, NoLocals
<1>2. CASE DelEnd(p) /\ loc[p].back = "poll"
  BY <1>0, <1>2 DEF DelEnd, NoLocals
<1>3. CASE DelEnd(p) /\ loc[p].back # "poll"
  <2>1. loc' = [loc EXCEPT ![p] = Kept(p, loc[p].range)]
    BY <1>3 DEF DelEnd, Return
  <2>2. ~Kept(p, loc[p].range).counted
    <3>1. loc[p].range \in Int
      BY Own
    <3>2. QED
      BY <3>1, KeptFacts
  <2>3. QED
    BY <1>0, <2>1, <2>2
<1>4. QED
  BY <1>1, <1>2, <1>3

LEMMA Kinds ==
    ASSUME TypeOK, TmpInv, [Next]_vars
    PROVE  /\ TypeOK'
           /\ \/ Calm
              \/ \E p \in Procs : \/ Mild(p) \/ Put(p) \/ Begins(p) \/ Count(p) \/ Post(p)
                                  \/ Closes(p) \/ Opens(p)
<1>1. CASE UNCHANGED vars
  <2>1. Calm
    BY <1>1 DEF Calm, vars
  <2>2. LocTypes' /\ ListTypes' /\ BoxTypes' /\ HistTypes'
    BY <1>1, TypeParts DEF vars, LocTypes, ListTypes, BoxTypes, HistTypes
  <2>3. FlagTypes'
    BY <1>1, TypeParts, Zenon DEF vars, FlagTypes
  <2>4. QED
    BY <2>1, <2>2, <2>3, TypePartsNext
<1>2. CASE Tick \/ \E v \in Vote : Expire(v)
  <2>1. Calm
    BY <1>2 DEF Calm, Tick, Expire, list, bounds
  <2>2. expired' \subseteq Vote
    <3>1. expired \subseteq Vote
      BY DEF TypeOK
    <3>2. CASE Tick
      BY <3>1, <3>2 DEF Tick
    <3>3. ASSUME NEW v \in Vote, Expire(v) PROVE expired' \subseteq Vote
      BY <3>1, <3>3 DEF Expire
    <3>4. QED
      BY <1>2, <3>2, <3>3
  <2>3. LocTypes' /\ ListTypes' /\ BoxTypes' /\ HistTypes'
    BY <2>1, <2>2, TypeParts DEF Calm, LocTypes, ListTypes, BoxTypes, HistTypes
  <2>4. due' = due \/ due' = TRUE
    BY <1>2, Zenon DEF Tick, Expire
  <2>5. FlagTypes'
    BY <2>1, <2>4, TypeParts, Zenon DEF Calm, FlagTypes
  <2>6. QED
    BY <2>1, <2>3, <2>5, TypePartsNext
<1>3. ASSUME NEW p \in Procs,
             \/ PollEnd(p) \/ PollSet(p) \/ BVote(p) \/ Leave(p)
             \/ UserVote(p) \/ Abort(p) \/ FillIn(p) \/ WebForm(p) \/ WebPost(p)
             \/ WebRefused(p) \/ PollCheck(p)
      PROVE  TypeOK' /\ Mild(p)
  <2>1. TypeOK' /\ Plain(p)
    BY <1>3, ReturnPlain, PollPlain, BVotePlain, UserVotePlain, FillInPlain, WebFormPlain
  <2>2. pc[p] \in {"poll", "pollset", "idle", "list", "form", "webform"}
    BY <1>3 DEF PollEnd, PollSet, BVote, Leave, UserVote, Abort, FillIn, WebForm, WebPost,
          WebRefused, PollCheck, Does
  <2>3. ASSUME pc[p] = "webform", pc'[p] = "put" PROVE WebPost(p)
    <3>1. ~WebRefused(p)
      BY <2>3, ReturnIdle
    <3>2. QED
      BY <1>3, <2>3, <3>1 DEF PollEnd, PollSet, BVote, Leave, UserVote, Abort, FillIn, WebForm,
            PollCheck, Does
  <2>4. QED
    BY <2>1, <2>2, <2>3 DEF Mild, Closing, Deleting
<1>4. ASSUME NEW p \in Procs, BVoteNone(p) \/ DelEnd(p) \/ Kill(p)
      PROVE  TypeOK' /\ Mild(p)
  <2>1. TypeOK' /\ Plain(p)
    BY <1>4, BVoteNonePlain, DelEndPlain, KillPlain
  <2>2. loc'[p].counted => pc[p] \notin Closing
    BY <1>4, BVoteNoneIdle, EndUncounted
  <2>3. pc[p] \notin Deleting \cup {"webform"} \/ pc'[p] = "idle"
    <3>1. CASE Kill(p)
      BY <3>1 DEF Kill, Goto, TypeOK
    <3>2. CASE BVoteNone(p) \/ DelEnd(p)
      BY <3>2 DEF BVoteNone, DelEnd, Does, Deleting
    <3>3. QED
      BY <1>4, <3>1, <3>2
  <2>4. QED
    BY <2>1, <2>2, <2>3 DEF Mild, Deleting
<1>5. ASSUME NEW p \in Procs, PollNext(p) \/ CloseEarly(p)
      PROVE  TypeOK' /\ (Mild(p) \/ Begins(p))
  <2>1. TypeOK' /\ (Plain(p) \/ Begins(p))
    BY <1>5, PollNextPlain, CloseBegins
  <2>2. pc[p] \in {"poll", "list"}
    BY <1>5 DEF PollNext, CloseEarly, Does
  <2>3. QED
    BY <2>1, <2>2 DEF Mild, Closing, Deleting
<1>6. ASSUME NEW p \in Procs, Put(p) \/ Count(p) \/ Post(p)
      PROVE  TypeOK'
  BY <1>6, PutFacts, CountFacts, PostFacts
<1>7. ASSUME NEW p \in Procs, Closes(p)
      PROVE  TypeOK'
  BY <1>7, DeleFacts, FoundFacts, DelOpenFacts, DelFailsFacts, DelTmpFacts, DelCopyFacts,
     Rename1Facts, Rename2Facts, DelFilesFacts DEF Closes, Searches, Finds
<1>8. ASSUME NEW p \in Procs, Opens(p)
      PROVE  TypeOK'
  BY <1>8, OpenVoteFacts, OpenFileFacts, OpenWriteFacts DEF Opens
<1>9. ASSUME NEW p \in Procs, DeleFind(p) \/ DeleNone(p) PROVE Closes(p)
  BY <1>9 DEF Closes, Searches, Finds
<1>10. CASE Next
  <2>1. CASE \E p \in Procs : Step(p)
    <3>1. PICK p \in Procs : Step(p)
      BY <2>1
    <3>2. CASE PollEnd(p) \/ PollSet(p) \/ PollNext(p)
      BY <1>3, <1>5, <3>2
    <3>3. CASE DelEnd(p)
      BY <1>4, <3>3
    <3>4. CASE Put(p) \/ Count(p) \/ Post(p)
      BY <1>6, <3>4
    <3>5. CASE DeleFind(p) \/ DeleNone(p)
      BY <1>7, <1>9, <3>5
    <3>6. CASE DelOpen(p) \/ DelFails(p) \/ DelTmp(p) \/ DelCopy(p) \/ Rename1(p)
               \/ Rename2(p) \/ DelFiles(p)
      BY <1>7, <3>6 DEF Closes
    <3>7. CASE OpenFile(p) \/ OpenWrite(p)
      BY <1>8, <3>7 DEF Opens
    <3>8. QED
      BY <3>1, <3>2, <3>3, <3>4, <3>5, <3>6, <3>7 DEF Step
  <2>2. ASSUME NEW p \in Procs,
               \/ BVoteNone(p) \/ BVote(p) \/ Leave(p) \/ UserVote(p) \/ Abort(p) \/ FillIn(p)
               \/ WebForm(p) \/ WebPost(p) \/ WebRefused(p)
               \/ OpenVote(p) \/ PollCheck(p) \/ CloseEarly(p) \/ Kill(p)
        PROVE  TypeOK' /\ (Mild(p) \/ Begins(p) \/ Opens(p))
    BY <1>3, <1>4, <1>5, <1>8, <2>2 DEF Opens
  <2>3. QED
    BY <1>2, <1>10, <2>1, <2>2 DEF Next
<1>11. QED
  BY <1>1, <1>10

LEMMA TmpQuiet ==
    ASSUME TypeOK, TmpInv, NEW p \in Procs, Quiet(p) PROVE TmpInv'
<1>1. Keeps(p) /\ pc'[p] \notin Copying \cup {"openwrite", "deltmp"}
         /\ UNCHANGED <<tmp, control>>
  BY QuietKeeps DEF Quiet, Copying, Opening, Deleting
<1>2. QED
  BY <1>1 DEF TmpInv, Keeps, Copying

LEMMA TmpCloses ==
    ASSUME TypeOK, TmpInv, NEW p \in Procs, Closes(p) PROVE TmpInv'
<1> USE DEF TmpInv, Copying
<1>1. CASE Searches(p)
  <2>1. Keeps(p) /\ pc'[p] \in {"dele", "delend"} /\ UNCHANGED <<tmp, control>>
    BY <1>1, DeleFacts, AloneKeeps DEF Searches
  <2>2. QED
    BY <2>1 DEF Keeps
<1>2. CASE Finds(p)
  <2>1. Keeps(p) /\ pc'[p] = "delopen" /\ UNCHANGED <<tmp, control>>
    BY <1>2, FoundFacts, AloneKeeps DEF Finds
  <2>2. QED
    BY <2>1 DEF Keeps
<1>3. CASE DelOpen(p)
  <2>1. Keeps(p) /\ pc'[p] = "deltmp" /\ UNCHANGED <<tmp, control>> /\ control # 0
           /\ loc'[p].file = control
    BY <1>3, DelOpenFacts, AloneKeeps
  <2>2. QED
    BY <2>1 DEF Keeps
<1>4. CASE DelFails(p)
  <2>1. Keeps(p) /\ pc'[p] = "delfiles" /\ UNCHANGED <<tmp, control>>
    BY <1>4, DelFailsFacts, AloneKeeps
  <2>2. QED
    BY <2>1 DEF Keeps
<1>5. CASE DelTmp(p)
  <2>1. Keeps(p) /\ pc[p] = "deltmp" /\ pc'[p] = "delcopy" /\ control' = control
           /\ tmp = 0 /\ tmp' # 0 /\ tmp' # control /\ loc' = loc
    BY <1>5, DelTmpFacts, AloneKeeps
  <2>2. QED
    BY <2>1 DEF Keeps
<1>6. CASE DelCopy(p)
  <2>1. Keeps(p) /\ pc[p] = "delcopy" /\ pc'[p] = "ren1" /\ UNCHANGED <<tmp, control>>
    BY <1>6, DelCopyFacts, AloneKeeps
  <2>2. QED
    BY <2>1 DEF Keeps
<1>7. CASE Rename1(p)
  <2>1. Keeps(p) /\ pc[p] = "ren1" /\ pc'[p] = "ren2" /\ tmp' = tmp /\ control' = 0
    BY <1>7, Rename1Facts, AloneKeeps
  <2>2. QED
    BY <2>1 DEF Keeps
<1>8. CASE Rename2(p)
  <2>1. Keeps(p) /\ pc[p] = "ren2" /\ pc'[p] = "delfiles" /\ tmp' = 0 /\ control' = tmp
    BY <1>8, Rename2Facts, WarnedKeeps DEF Goes
  <2>2. QED
    BY <2>1 DEF Keeps
<1>9. CASE DelFiles(p)
  <2>1. Keeps(p) /\ pc'[p] \in {"dele", "delend"} /\ UNCHANGED <<tmp, control>>
    BY <1>9, DelFilesFacts, AloneKeeps
  <2>2. QED
    BY <2>1 DEF Keeps
<1>10. QED
  BY <1>1, <1>2, <1>3, <1>4, <1>5, <1>6, <1>7, <1>8, <1>9 DEF Closes

LEMMA TmpOpens ==
    ASSUME TypeOK, TmpInv, NEW p \in Procs, Opens(p) PROVE TmpInv'
<1> USE DEF TmpInv, Copying
<1>1. CASE OpenVote(p)
  <2>1. Keeps(p) /\ pc'[p] = "open" /\ UNCHANGED <<tmp, control>>
    BY <1>1, OpenVoteFacts, AloneKeeps
  <2>2. QED
    BY <2>1 DEF Keeps
<1>2. CASE OpenFile(p)
  <2>1. Keeps(p) /\ pc'[p] = "openwrite" /\ tmp' = tmp /\ control' # 0
           /\ loc'[p].file # 0 /\ (control' = control \/ control' # tmp)
    BY <1>2, OpenFileFacts, WarnedKeeps
  <2>2. QED
    BY <2>1 DEF Keeps
<1>3. CASE OpenWrite(p)
  <2>1. Keeps(p) /\ pc'[p] \in {"list", "idle"} /\ UNCHANGED <<tmp, control>>
    BY <1>3, OpenWriteFacts, WarnedKeeps
  <2>2. QED
    BY <2>1 DEF Keeps
<1>4. QED
  BY <1>1, <1>2, <1>3 DEF Opens

(* Every list is one there was before, or one without a line, or empty. *)
Shrinks == \A f \in File :
    \/ inode'[f] = <<>>
    \/ \E g \in File : inode'[f] = inode[g]
    \/ \E g \in File : \E n \in Nat : inode'[f] = Without(inode[g], n)

LEMMA SameShrinks == ASSUME UNCHANGED inode PROVE Shrinks
  BY DEF Shrinks

LEMMA ClosesShrinks == ASSUME TypeOK, TmpInv, NEW p \in Procs, Closes(p) PROVE Shrinks
<1>1. CASE Searches(p) \/ Finds(p) \/ DelOpen(p) \/ DelFails(p) \/ Rename2(p) \/ DelFiles(p)
  <2>1. UNCHANGED inode
    BY <1>1, DeleFacts, FoundFacts, DelOpenFacts, DelFailsFacts, Rename2Facts, DelFilesFacts
       DEF Searches, Finds
  <2>2. QED
    BY <2>1, SameShrinks
<1>2. CASE DelTmp(p)
  <2>1. inode' = [inode EXCEPT ![tmp'] = <<>>]
    BY <1>2, DelTmpFacts
  <2>2. QED
    BY <2>1 DEF Shrinks, TypeOK
<1>3. CASE DelCopy(p)
  <2>1. inode' = [inode EXCEPT ![tmp] = Without(inode[loc[p].file], loc[p].num)]
           /\ loc[p].file \in File /\ loc[p].num \in Nat
    BY <1>3, DelCopyFacts, Own
  <2>2. QED
    BY <2>1 DEF Shrinks, TypeOK
<1>4. CASE Rename1(p)
  <2>1. inode' = inode \/ inode' = [inode EXCEPT ![control] = <<>>]
    BY <1>4, Rename1Facts
  <2>2. QED
    BY <2>1 DEF Shrinks, TypeOK
<1>5. QED
  BY <1>1, <1>2, <1>3, <1>4 DEF Closes

LEMMA ShrinksFacts ==
    ASSUME TypeOK, Shrinks, NEW f \in File
    PROVE  /\ \A v \in Rng(inode'[f]) : \E g \in File : v \in Rng(inode[g])
           /\ (\A g \in File : \A i, j \in DOMAIN inode[g] : inode[g][i] = inode[g][j] => i = j)
                 => \A i, j \in DOMAIN inode'[f] : inode'[f][i] = inode'[f][j] => i = j
<1>0. \A g \in File : inode[g] \in Seq(Vote)
  BY DEF TypeOK
<1>1. CASE inode'[f] = <<>>
  BY <1>1 DEF Rng
<1>2. CASE \E g \in File : inode'[f] = inode[g]
  BY <1>2 DEF Rng
<1>3. CASE \E g \in File : \E n \in Nat : inode'[f] = Without(inode[g], n)
  <2>1. PICK g \in File, n \in Nat : inode'[f] = Without(inode[g], n)
    BY <1>3
  <2>2. Rng(inode'[f]) \subseteq Rng(inode[g])
    BY <1>0, <2>1, WithoutRng
  <2>3. ASSUME \A i, j \in DOMAIN inode[g] : inode[g][i] = inode[g][j] => i = j
        PROVE  \A i, j \in DOMAIN inode'[f] : inode'[f][i] = inode'[f][j] => i = j
    BY <1>0, <2>1, <2>3, WithoutRng
  <2>4. QED
    BY <2>2, <2>3
<1>4. QED
  BY <1>1, <1>2, <1>3 DEF Shrinks

(* The numbers in LinesInv as facts about sets. *)
LEMMA LinesFacts ==
    ASSUME TypeOK, LinesInv
    PROVE  /\ \A f \in File : Rng(inode[f]) \subseteq 1..opened
           /\ \A f \in File : \A i, j \in DOMAIN inode[f] : inode[f][i] = inode[f][j] => i = j
           /\ Rng(Lines(control)) \subseteq 1..opened
<1>1. \A f \in File : Rng(inode[f]) \subseteq 1..opened
  BY DEF LinesInv, Rng
<1>2. Rng(Lines(control)) \subseteq 1..opened
  <2>1. CASE control = 0
    BY <2>1 DEF Lines, Rng
  <2>2. CASE control # 0
    BY <1>1, <2>2 DEF Lines, TypeOK, File
  <2>3. QED
    BY <2>1, <2>2
<1>3. QED
  BY <1>1, <1>2 DEF LinesInv

LEMMA LinesShrink ==
    ASSUME TypeOK, LinesInv, NEW p \in Procs, Keeps(p), Shrinks, opened' = opened,
           loc'[p].vote \in {0, loc[p].vote} \cup Rng(Lines(control)),
           loc'[p].meant \in {0, loc[p].meant} \cup Rng(Lines(control)),
           hist'.gone \subseteq hist.gone \cup {loc[p].vote}
    PROVE  LinesInv'
<1>1. ASSUME NEW f \in File, NEW i \in DOMAIN inode'[f]
      PROVE  /\ inode'[f][i] \in 1..opened'
             /\ \A j \in DOMAIN inode'[f] : inode'[f][i] = inode'[f][j] => i = j
  <2>1. inode'[f][i] \in Rng(inode'[f])
    BY DEF Rng
  <2>2. \E g \in File : inode'[f][i] \in Rng(inode[g])
    BY <2>1, ShrinksFacts
  <2>3. inode'[f][i] \in 1..opened
    BY <2>2, LinesFacts
  <2>4. \A j \in DOMAIN inode'[f] : inode'[f][i] = inode'[f][j] => i = j
    BY ShrinksFacts, LinesFacts
  <2>5. QED
    BY <2>3, <2>4
<1>2. ASSUME NEW q \in Procs PROVE loc'[q].vote <= opened' /\ loc'[q].meant <= opened'
  <2>1. loc[q].vote <= opened /\ loc[q].meant <= opened
    BY DEF LinesInv
  <2>2. opened \in Nat
    BY DEF TypeOK
  <2>3. CASE q # p
    BY <2>1, <2>3 DEF Keeps
  <2>4. CASE q = p
    BY <2>1, <2>2, <2>4, LinesFacts
  <2>5. QED
    BY <2>3, <2>4
<1>3. \A v \in hist'.gone : v <= opened'
  BY DEF LinesInv
<1>4. QED
  BY <1>1, <1>2, <1>3 DEF LinesInv

LEMMA LinesQuiet ==
    ASSUME TypeOK, LinesInv, NEW p \in Procs, Quiet(p) PROVE LinesInv'
<1>1. Keeps(p) /\ Shrinks
  BY QuietKeeps, SameShrinks DEF Quiet
<1>2. QED
  BY <1>1, LinesShrink DEF Quiet

(* Closing a vote: its number stays, its box is removed at most. *)
LEMMA ClosesFacts ==
    ASSUME TypeOK, TmpInv, NEW p \in Procs, Closes(p)
    PROVE  Goes(p) /\ Keeps(p) /\ hist'.gone \subseteq hist.gone \cup {loc[p].vote}
<1>1. Goes(p)
  BY DeleFacts, FoundFacts, DelOpenFacts, DelFailsFacts, DelTmpFacts, DelCopyFacts,
     Rename1Facts, Rename2Facts, DelFilesFacts DEF Closes, Searches, Finds
<1>4. Keeps(p)
  BY <1>1, WarnedKeeps DEF Goes
<1>5. hist'.gone \subseteq hist.gone \cup {loc[p].vote}
  <2>1. CASE Searches(p) \/ Finds(p) \/ DelOpen(p) \/ DelTmp(p) \/ DelCopy(p) \/ Rename1(p)
    <3>1. hist' = hist
      BY <2>1, DeleFacts, FoundFacts, DelOpenFacts, DelTmpFacts, DelCopyFacts,
         Rename1Facts DEF Searches, Finds
    <3>2. QED
      BY <3>1
  <2>2. CASE DelFails(p) \/ Rename2(p) \/ DelFiles(p)
    BY <2>2, DelFailsFacts, Rename2Facts, DelFilesFacts
  <2>3. QED
    BY <2>1, <2>2 DEF Closes
<1>6. QED
  BY <1>1, <1>4, <1>5

LEMMA LinesCloses ==
    ASSUME TypeOK, TmpInv, LinesInv, NEW p \in Procs, Closes(p) PROVE LinesInv'
  BY ClosesFacts, ClosesShrinks, LinesShrink DEF Goes

LEMMA LinesOpens ==
    ASSUME TypeOK, TmpInv, LinesInv, FreshInv, NEW p \in Procs, Opens(p) PROVE LinesInv'
<1>1. CASE OpenVote(p)
  <2>1. /\ Keeps(p) /\ opened' = opened + 1 /\ loc'[p].vote = opened + 1 /\ inode' = inode
        /\ loc'[p].meant = loc[p].meant /\ hist'.gone = hist.gone
    BY <1>1, OpenVoteFacts, AloneKeeps
  <2>2. opened \in Nat /\ \A q \in Procs : loc[q].vote \in Nat /\ loc[q].meant \in Nat
    BY Own DEF TypeOK, Vote
  <2>3. hist.gone \subseteq Nat
    BY DEF TypeOK, Histories, Vote
  <2>4. ASSUME NEW q \in Procs PROVE loc'[q].vote <= opened' /\ loc'[q].meant <= opened'
    BY <2>1, <2>2 DEF LinesInv, Keeps
  <2>5. \A v \in hist'.gone : v <= opened'
    BY <2>1, <2>2, <2>3 DEF LinesInv
  <2>6. ASSUME NEW f \in File, NEW i \in DOMAIN inode'[f]
        PROVE  /\ inode'[f][i] \in 1..opened'
               /\ \A j \in DOMAIN inode'[f] : inode'[f][i] = inode'[f][j] => i = j
    <3>1. inode[f][i] \in 1..opened
      BY <2>1 DEF LinesInv
    <3>2. inode[f][i] \in 1..(opened + 1)
      BY <2>2, <3>1
    <3>3. QED
      BY <2>1, <3>2 DEF LinesInv
  <2>7. QED
    BY <2>4, <2>5, <2>6 DEF LinesInv
<1>2. CASE OpenFile(p)
  <2>1. /\ Keeps(p) /\ opened' = opened /\ loc'[p].vote = loc[p].vote
        /\ loc'[p].meant = loc[p].meant /\ hist' = hist
        /\ inode' = inode \/ inode' = [inode EXCEPT ![control'] = <<>>]
    BY <1>2, OpenFileFacts, WarnedKeeps
  <2>2. Shrinks
    BY <2>1 DEF Shrinks, TypeOK
  <2>3. QED
    BY <2>1, <2>2, LinesShrink
<1>3. CASE OpenWrite(p)
  <2> DEFINE w == loc[p].vote
             g == loc[p].file
  <2>1. /\ Keeps(p) /\ opened' = opened /\ loc'[p].vote \in {0, w}
        /\ loc'[p].meant = 0 /\ hist' = hist /\ g \in File /\ pc[p] = "openwrite"
        /\ inode' = [inode EXCEPT ![g] = Append(inode[g], w)]
    BY <1>3, OpenWriteFacts, WarnedKeeps
  <2>2. w \in 1..opened /\ \A f \in File : w \notin Rng(inode[f])
    BY <2>1, Own DEF FreshInv, LinesInv, Opening, Vote, TypeOK
  <2>3. ASSUME NEW f \in File, NEW i \in DOMAIN inode'[f]
        PROVE  /\ inode'[f][i] \in 1..opened'
               /\ \A j \in DOMAIN inode'[f] : inode'[f][i] = inode'[f][j] => i = j
    <3>1. CASE f # g
      BY <2>1, <3>1 DEF LinesInv, TypeOK
    <3>2. CASE f = g
      <4> DEFINE s == inode[g]
      <4>1. s \in Seq(Vote) /\ inode'[f] = Append(s, w)
        BY <2>1, <3>2 DEF TypeOK
      <4>2. DOMAIN inode'[f] = 1..(Len(s) + 1) /\ inode'[f][Len(s) + 1] = w
               /\ Len(s) \in Nat /\ \A k \in 1..Len(s) : inode'[f][k] = s[k]
        BY <4>1, <2>2, Own
      <4>3. \A k \in 1..Len(s) : s[k] # w /\ s[k] \in 1..opened
        BY <2>1, <2>2, <4>1 DEF Rng, LinesInv
      <4>4. \A k, j \in 1..Len(s) : s[k] = s[j] => k = j
        BY <2>1, <4>1 DEF LinesInv
      <4> HIDE DEF s, g, w
      <4>5. QED
        BY <2>1, <2>2, <4>2, <4>3, <4>4, SMTT(30)
    <3>3. QED
      BY <3>1, <3>2
  <2>4. ASSUME NEW q \in Procs PROVE loc'[q].vote <= opened' /\ loc'[q].meant <= opened'
    <3>1. opened \in Nat
      BY DEF TypeOK
    <3>2. QED
      BY <2>1, <2>2, <3>1 DEF LinesInv, Keeps
  <2>5. QED
    BY <2>1, <2>3, <2>4 DEF LinesInv
<1>4. QED
  BY <1>1, <1>2, <1>3 DEF Opens
(* A vote that is being opened. *)
LEMMA FreshQuiet ==
    ASSUME TypeOK, LinesInv, FreshInv, NEW p \in Procs, Quiet(p) PROVE FreshInv'
<1>1. /\ Keeps(p) /\ pc'[p] \notin Opening /\ inode' = inode /\ hist'.gone = hist.gone
      /\ loc'[p].vote \in {0, loc[p].vote} \cup Rng(Lines(control))
  BY QuietKeeps DEF Quiet
<1>2. SUFFICES ASSUME NEW a \in Procs, pc'[a] \in Opening
               PROVE  LET w == loc'[a].vote IN
                      /\ w >= 1 /\ w \notin hist'.gone
                      /\ \A f \in File : w \notin Rng(inode'[f])
                      /\ \A q \in Procs \ {a} : loc'[q].vote # w
  BY Zenon DEF FreshInv
<1>3. a # p /\ pc[a] \in Opening /\ loc'[a].vote = loc[a].vote
  BY <1>1, <1>2 DEF Keeps
<1> DEFINE w == loc[a].vote
<1>4. /\ w >= 1 /\ w \notin hist.gone /\ \A f \in File : w \notin Rng(inode[f])
      /\ \A q \in Procs \ {a} : loc[q].vote # w
  BY <1>3 DEF FreshInv
<1>5. w \notin Rng(Lines(control))
  <2>1. CASE control = 0
    BY <2>1 DEF Lines, Rng
  <2>2. CASE control # 0
    BY <1>4, <2>2 DEF Lines, TypeOK, File
  <2>3. QED
    BY <2>1, <2>2
<1>6. loc'[p].vote # w
  <2>1. w # 0 /\ loc[p].vote # w
    BY <1>3, <1>4
  <2> HIDE DEF w
  <2>2. QED
    BY <1>1, <1>5, <2>1
<1>7. \A q \in Procs \ {a} : loc'[q].vote # w
  BY <1>1, <1>4, <1>6 DEF Keeps
<1>8. QED
  BY <1>1, <1>3, <1>4, <1>7

LEMMA FreshCloses ==
    ASSUME TypeOK, TmpInv, LinesInv, FreshInv, NEW p \in Procs, Closes(p) PROVE FreshInv'
<1>1. /\ Keeps(p) /\ pc'[p] \notin Opening /\ Shrinks /\ loc'[p].vote = loc[p].vote
      /\ hist'.gone \subseteq hist.gone \cup {loc[p].vote}
  BY ClosesFacts, ClosesShrinks DEF Goes, After, Closing, Deleting, Opening
<1>2. SUFFICES ASSUME NEW a \in Procs, pc'[a] \in Opening
               PROVE  LET w == loc'[a].vote IN
                      /\ w >= 1 /\ w \notin hist'.gone
                      /\ \A f \in File : w \notin Rng(inode'[f])
                      /\ \A q \in Procs \ {a} : loc'[q].vote # w
  BY Zenon DEF FreshInv
<1>3. a # p /\ pc[a] \in Opening /\ loc'[a].vote = loc[a].vote
  BY <1>1, <1>2 DEF Keeps
<1> DEFINE w == loc[a].vote
<1>4. /\ w >= 1 /\ w \notin hist.gone /\ \A f \in File : w \notin Rng(inode[f])
      /\ \A q \in Procs \ {a} : loc[q].vote # w
  BY <1>3 DEF FreshInv
<1>5. \A f \in File : w \notin Rng(inode'[f])
  BY <1>1, <1>4, ShrinksFacts
<1>6. w \notin hist'.gone
  BY <1>1, <1>3, <1>4
<1>7. \A q \in Procs \ {a} : loc'[q].vote # w
  BY <1>1, <1>4 DEF Keeps
<1>8. QED
  BY <1>3, <1>4, <1>5, <1>6, <1>7

LEMMA FreshOpens ==
    ASSUME TypeOK, TmpInv, LinesInv, FreshInv, NEW p \in Procs, Opens(p) PROVE FreshInv'
<1>0. SUFFICES ASSUME NEW a \in Procs, pc'[a] \in Opening
               PROVE  LET w == loc'[a].vote IN
                      /\ w >= 1 /\ w \notin hist'.gone
                      /\ \A f \in File : w \notin Rng(inode'[f])
                      /\ \A q \in Procs \ {a} : loc'[q].vote # w
  BY Zenon DEF FreshInv
<1>1. CASE OpenVote(p)
  <2>1. /\ Keeps(p) /\ pc'[p] = "open" /\ opened' = opened + 1 /\ loc'[p].vote = opened + 1
        /\ inode' = inode /\ hist'.gone = hist.gone
    BY <1>1, OpenVoteFacts, AloneKeeps
  <2>2. opened \in Nat /\ \A q \in Procs : loc[q].vote \in Nat
    BY Own DEF TypeOK, Vote
  <2>3. CASE a = p
    <3>1. opened + 1 \notin hist.gone
      BY <2>2 DEF LinesInv
    <3>2. \A f \in File : opened + 1 \notin Rng(inode[f])
      <4>1. \A f \in File : Rng(inode[f]) \subseteq 1..opened
        BY LinesFacts, Zenon
      <4>2. opened + 1 \notin 1..opened
        BY <2>2
      <4>3. QED
        BY <4>1, <4>2, Zenon
    <3>3. \A q \in Procs : loc[q].vote # opened + 1
      BY <2>2 DEF LinesInv
    <3>4. QED
      BY <2>1, <2>2, <2>3, <3>1, <3>2, <3>3 DEF Keeps
  <2>4. CASE a # p
    <3>1. pc[a] \in Opening /\ loc'[a].vote = loc[a].vote /\ loc[a].vote # opened + 1
      BY <1>0, <2>1, <2>2, <2>4 DEF Keeps, LinesInv
    <3>2. QED
      BY <2>1, <2>4, <3>1 DEF FreshInv, Keeps
  <2>5. QED
    BY <2>3, <2>4
<1>2. CASE OpenFile(p)
  <2>1. /\ Keeps(p) /\ pc[p] = "open" /\ loc'[p].vote = loc[p].vote /\ hist' = hist
        /\ inode' = inode \/ inode' = [inode EXCEPT ![control'] = <<>>]
    BY <1>2, OpenFileFacts, WarnedKeeps
  <2>2. ASSUME NEW f \in File PROVE Rng(inode'[f]) \subseteq Rng(inode[f])
    <3>1. inode'[f] = inode[f] \/ inode'[f] = <<>>
      BY <2>1 DEF TypeOK
    <3>2. CASE inode'[f] = <<>>
      BY <3>2 DEF Rng
    <3>3. CASE inode'[f] = inode[f]
      BY <3>3 DEF Rng
    <3>4. QED
      BY <3>1, <3>2, <3>3
  <2>3. pc[a] \in Opening /\ \A q \in Procs : loc'[q].vote = loc[q].vote
    BY <1>0, <2>1 DEF Keeps, Opening
  <2>4. QED
    BY <2>1, <2>2, <2>3 DEF FreshInv
<1>3. CASE OpenWrite(p)
  <2> DEFINE w == loc[p].vote
             g == loc[p].file
  <2>1. /\ Keeps(p) /\ loc'[p].vote \in {0, w} /\ hist' = hist /\ g \in File
        /\ pc[p] = "openwrite" /\ pc'[p] \in {"list", "idle"}
        /\ inode' = [inode EXCEPT ![g] = Append(inode[g], w)]
    BY <1>3, OpenWriteFacts, WarnedKeeps
  <2>2. a # p /\ pc[a] \in Opening /\ loc'[a].vote = loc[a].vote
    BY <1>0, <2>1 DEF Keeps, Opening
  <2>3. /\ loc[a].vote >= 1 /\ loc[a].vote \notin hist.gone
        /\ \A f \in File : loc[a].vote \notin Rng(inode[f])
        /\ \A q \in Procs \ {a} : loc[q].vote # loc[a].vote
    BY <2>2 DEF FreshInv
  <2>4. ASSUME NEW f \in File PROVE loc[a].vote \notin Rng(inode'[f])
    <3>1. CASE f # g
      BY <2>1, <2>3, <3>1 DEF TypeOK
    <3>2. CASE f = g
      <4> DEFINE s == inode[g]
      <4>1. s \in Seq(Vote) /\ inode'[f] = Append(s, w) /\ w \in Vote
        BY <2>1, <3>2, Own DEF TypeOK
      <4>2. DOMAIN inode'[f] = 1..(Len(s) + 1) /\ inode'[f][Len(s) + 1] = w
               /\ Len(s) \in Nat /\ \A k \in 1..Len(s) : inode'[f][k] = s[k]
        BY <4>1
      <4>3. \A k \in 1..Len(s) : s[k] # loc[a].vote
        BY <2>1, <2>3, <4>1 DEF Rng
      <4>4. w # loc[a].vote
        BY <2>2, <2>3
      <4> HIDE DEF s, w
      <4>5. QED
        BY <4>2, <4>3, <4>4 DEF Rng
    <3>3. QED
      BY <3>1, <3>2
  <2>5. \A q \in Procs \ {a} : loc'[q].vote # loc[a].vote
    BY <2>1, <2>2, <2>3 DEF Keeps
  <2>6. QED
    BY <2>1, <2>2, <2>3, <2>4, <2>5
<1>4. QED
  BY <1>1, <1>2, <1>3 DEF Opens

(* Removing a line. *)
LEMMA DelOthers ==
    ASSUME DelInv, NEW p \in Procs, Keeps(p), UNCHANGED <<inode, control, tmp>>,
           NEW q \in Procs \ {p}, ~loc'[q].raced
    PROVE  Removes(q)'
<1>1. /\ ~loc[q].raced /\ pc'[q] = pc[q] /\ loc'[q].num = loc[q].num
      /\ loc'[q].vote = loc[q].vote /\ loc'[q].file = loc[q].file
  BY DEF Keeps
<1>2. Removes(q)
  BY <1>1 DEF DelInv
<1>3. QED
  BY <1>1, <1>2 DEF Removes

LEMMA DelStill ==
    ASSUME DelInv, NEW p \in Procs, Keeps(p), UNCHANGED <<inode, control, tmp>>,
           pc'[p] \notin Deleting
    PROVE  DelInv'
<1>1. Removes(p)'
  BY DEF Removes, Deleting
<1>2. QED
  BY <1>1, DelOthers DEF DelInv

LEMMA DelRaced ==
    ASSUME NEW p \in Procs, Keeps(p), pc'[p] \notin Deleting,
           \A q \in Procs \ {p} : pc[q] \in Deleting => loc'[q].raced = TRUE
    PROVE  DelInv'
<1>1. ASSUME NEW q \in Procs, ~loc'[q].raced PROVE Removes(q)'
  <2>1. pc'[q] \notin Deleting
    BY <1>1 DEF Keeps
  <2>2. QED
    BY <2>1 DEF Removes, Deleting
<1>2. QED
  BY <1>1 DEF DelInv

LEMMA DelCloses ==
    ASSUME TypeOK, TmpInv, LinesInv, DelInv, NEW p \in Procs, Closes(p) PROVE DelInv'
<1>0. Keeps(p) /\ loc'[p].vote = loc[p].vote
  BY ClosesFacts DEF Goes
<1>1. CASE Searches(p) \/ DelFails(p) \/ DelFiles(p)
  <2>1. UNCHANGED <<inode, control, tmp>> /\ pc'[p] \in {"dele", "delend", "delfiles"}
    BY <1>1, DeleFacts, DelFailsFacts, DelFilesFacts DEF Searches
  <2>2. QED
    BY <1>0, <2>1, DelStill DEF Deleting
<1>2. CASE Finds(p)
  <2>1. /\ UNCHANGED <<inode, control, tmp>> /\ pc'[p] = "delopen" /\ loc'[p].num = loc[p].num
        /\ loc[p].num \in DOMAIN inode[control] /\ inode[control][loc[p].num] = loc[p].vote
    BY <1>2, FoundFacts DEF Finds
  <2>2. Removes(p)'
    BY <1>0, <2>1 DEF Removes
  <2>3. QED
    BY <1>0, <2>1, <2>2, DelOthers DEF DelInv
<1>3. CASE DelOpen(p)
  <2>1. /\ UNCHANGED <<inode, control, tmp>> /\ pc[p] = "delopen" /\ pc'[p] = "deltmp"
        /\ loc'[p].num = loc[p].num /\ loc'[p].raced = loc[p].raced /\ loc'[p].file = control
    BY <1>3, DelOpenFacts
  <2>2. ~loc'[p].raced => Removes(p)'
    BY <1>0, <2>1 DEF DelInv, Removes
  <2>3. QED
    BY <1>0, <2>1, <2>2, DelOthers DEF DelInv
<1>4. CASE DelTmp(p)
  <2>1. /\ UNCHANGED <<control, loc>> /\ pc[p] = "deltmp" /\ pc'[p] = "delcopy" /\ tmp = 0
        /\ tmp' # control /\ inode' = [inode EXCEPT ![tmp'] = <<>>]
    BY <1>4, DelTmpFacts
  <2>2. control # 0 => inode'[control] = inode[control]
    BY <2>1 DEF TypeOK, File
  <2>3. ASSUME NEW q \in Procs, ~loc'[q].raced PROVE Removes(q)'
    <3>1. Removes(q)
      BY <2>1, <2>3 DEF DelInv
    <3>2. pc[q] \notin Copying
      BY <2>1 DEF TmpInv
    <3>3. q # p => pc'[q] = pc[q]
      BY <1>0 DEF Keeps
    <3>4. QED
      BY <2>1, <2>2, <3>1, <3>2, <3>3 DEF Removes, Copying
  <2>4. QED
    BY <2>3 DEF DelInv
<1>5. CASE DelCopy(p)
  <2>1. /\ UNCHANGED <<control, tmp>> /\ pc[p] = "delcopy" /\ pc'[p] = "ren1"
        /\ loc'[p].num = loc[p].num /\ loc'[p].raced = loc[p].raced /\ tmp \in File
        /\ inode' = [inode EXCEPT ![tmp] = Without(inode[loc[p].file], loc[p].num)]
    BY <1>5, DelCopyFacts
  <2>2. control # 0 /\ tmp # control
    BY <2>1 DEF TmpInv, Copying, File
  <2>3. inode'[control] = inode[control] /\ inode'[tmp] = Without(inode[loc[p].file], loc[p].num)
    BY <2>1, <2>2 DEF TypeOK, File
  <2>4. ASSUME ~loc'[p].raced PROVE Removes(p)'
    <3>1. Removes(p)
      BY <2>1, <2>4 DEF DelInv
    <3>2. QED
      BY <1>0, <2>1, <2>2, <2>3, <3>1 DEF Removes
  <2>5. ASSUME NEW q \in Procs \ {p}, ~loc'[q].raced PROVE Removes(q)'
    <3>1. /\ ~loc[q].raced /\ pc'[q] = pc[q] /\ loc'[q].num = loc[q].num
          /\ loc'[q].vote = loc[q].vote /\ loc'[q].file = loc[q].file
      BY <1>0, <2>5 DEF Keeps
    <3>2. Removes(q)
      BY <3>1 DEF DelInv
    <3>3. pc[q] \notin Copying
      BY <2>1 DEF TmpInv, Copying
    <3>4. QED
      BY <2>1, <2>3, <3>1, <3>2, <3>3 DEF Removes, Copying
  <2>6. QED
    BY <2>4, <2>5 DEF DelInv
<1>6. CASE Rename1(p)
  <2>1. /\ UNCHANGED <<tmp, loc>> /\ pc[p] = "ren1" /\ pc'[p] = "ren2"
        /\ control \in File /\ control' = 0
        /\ inode' = inode \/ inode' = [inode EXCEPT ![control] = <<>>]
    BY <1>6, Rename1Facts
  <2>2. control # 0 /\ tmp # 0 /\ tmp # control
    BY <2>1 DEF TmpInv, Copying, File
  <2>3. inode'[tmp] = inode[tmp]
    BY <2>1, <2>2 DEF TypeOK, File
  <2>4. ASSUME ~loc'[p].raced PROVE Removes(p)'
    <3> DEFINE s == inode[control]
               n == loc[p].num
    <3>1. Removes(p)
      BY <2>1, <2>4 DEF DelInv
    <3>2. n \in DOMAIN s /\ s[n] = loc[p].vote /\ inode[tmp] = Without(s, n)
      BY <2>1, <2>2, <3>1 DEF Removes
    <3>3. s \in Seq(Vote) /\ n \in Nat /\ \A i, j \in DOMAIN s : s[i] = s[j] => i = j
      BY <2>1, Own, LinesFacts DEF TypeOK
    <3> HIDE DEF s, n
    <3>4. s[n] \notin Rng(Without(s, n))
      BY <3>2, <3>3, WithoutRng
    <3>5. QED
      BY <2>1, <2>3, <3>2, <3>4 DEF Removes
  <2>5. ASSUME NEW q \in Procs \ {p}, ~loc'[q].raced PROVE Removes(q)'
    <3>1. pc'[q] = pc[q] /\ pc[q] \notin Copying
      BY <1>0, <2>1 DEF TmpInv, Copying, Keeps
    <3>2. QED
      BY <2>1, <3>1 DEF Removes, Copying
  <2>6. QED
    BY <2>4, <2>5 DEF DelInv
<1>7. CASE Rename2(p)
  <2>1. pc'[p] = "delfiles" /\ \A q \in Procs \ {p} : pc[q] \in Deleting => loc'[q].raced = TRUE
    BY <1>7, Rename2Facts
  <2>2. QED
    BY <1>0, <2>1, DelRaced DEF Deleting
<1>8. QED
  BY <1>1, <1>2, <1>3, <1>4, <1>5, <1>6, <1>7 DEF Closes

LEMMA DelQuiet ==
    ASSUME TypeOK, DelInv, NEW p \in Procs, Quiet(p) PROVE DelInv'
  BY QuietKeeps, DelStill DEF Quiet

LEMMA DelOpens ==
    ASSUME TypeOK, TmpInv, DelInv, NEW p \in Procs, Opens(p) PROVE DelInv'
<1>1. CASE OpenVote(p)
  <2>1. Keeps(p) /\ pc'[p] = "open" /\ UNCHANGED <<inode, control, tmp>>
    BY <1>1, OpenVoteFacts, AloneKeeps
  <2>2. QED
    BY <2>1, DelStill DEF Deleting
<1>2. CASE OpenFile(p)
  <2>1. /\ Keeps(p) /\ pc'[p] = "openwrite"
        /\ \/ UNCHANGED <<inode, control, tmp>>
           \/ \A q \in Procs \ {p} : pc[q] \in Deleting => loc'[q].raced = TRUE
    BY <1>2, OpenFileFacts, WarnedKeeps
  <2>2. pc'[p] \notin Deleting
    BY <2>1 DEF Deleting
  <2>3. QED
    BY <2>1, <2>2, DelStill, DelRaced
<1>3. CASE OpenWrite(p)
  <2>1. /\ Keeps(p) /\ pc'[p] \in {"list", "idle"}
        /\ \A q \in Procs \ {p} : pc[q] \in Deleting => loc'[q].raced = TRUE
    BY <1>3, OpenWriteFacts, WarnedKeeps
  <2>2. QED
    BY <2>1, DelRaced DEF Deleting
<1>4. QED
  BY <1>1, <1>2, <1>3 DEF Opens
(* The forms of the web. *)
LEMMA WebOthers ==
    ASSUME WebInv, NEW p \in Procs, Keeps(p), UNCHANGED <<inode, control, tmp>>,
           pc'[p] # "ren2", NEW a \in Procs \ {p}, pc'[a] = "webform", ~loc'[a].raced
    PROVE  Shows(a)'
<1>1. /\ pc[a] = "webform" /\ ~loc[a].raced
      /\ loc'[a].num = loc[a].num /\ loc'[a].meant = loc[a].meant
  BY DEF Keeps
<1>2. Shows(a)
  BY <1>1 DEF WebInv
<1>3. \A q \in Procs : pc'[q] = "ren2" /\ ~loc'[q].raced
         => pc[q] = "ren2" /\ ~loc[q].raced /\ loc'[q].num = loc[q].num
  BY DEF Keeps
<1>4. QED
  BY <1>1, <1>2, <1>3 DEF Shows

LEMMA WebStill ==
    ASSUME WebInv, NEW p \in Procs, Keeps(p), UNCHANGED <<inode, control, tmp>>,
           pc'[p] \notin {"webform", "ren2"}
    PROVE  WebInv'
  BY WebOthers DEF WebInv

LEMMA WebPlain ==
    ASSUME TypeOK, DelInv, WebInv, NEW p \in Procs, Plain(p) PROVE WebInv'
<1>1. Keeps(p) /\ UNCHANGED <<inode, control, tmp>> /\ pc'[p] # "ren2"
  BY QuietKeeps DEF Plain, Quiet, Deleting
<1>2. CASE pc'[p] # "webform"
  BY <1>1, <1>2, WebStill
<1>3. CASE pc'[p] = "webform"
  <2> DEFINE n == loc'[p].num
  <2>1. control # 0 /\ n \in DOMAIN inode[control] /\ inode[control][n] = loc'[p].meant
    BY <1>3 DEF Plain, FormFound
  <2>2. n >= 1
    BY <2>1 DEF TypeOK, File
  <2>3. ASSUME NEW q \in Procs, pc'[q] = "ren2", ~loc'[q].raced PROVE FALSE
    <3>1. pc[q] = "ren2" /\ ~loc[q].raced
      BY <1>1, <2>3 DEF Keeps
    <3>2. control = 0
      BY <3>1 DEF DelInv, Removes
    <3>3. QED
      BY <2>1, <3>2
  <2>4. Shows(p)'
    BY <1>1, <2>1, <2>2, <2>3 DEF Shows
  <2>5. QED
    BY <1>1, <2>4, WebOthers DEF WebInv
<1>4. QED
  BY <1>2, <1>3

LEMMA WebCloses ==
    ASSUME TypeOK, TmpInv, DelInv, WebInv, NEW p \in Procs, Closes(p) PROVE WebInv'
<1>0. Keeps(p) /\ pc[p] # "webform" /\ pc'[p] # "webform"
  BY ClosesFacts DEF Goes, After, Closing, Deleting
<1>1. CASE Searches(p) \/ Finds(p) \/ DelOpen(p) \/ DelFails(p) \/ DelFiles(p)
  <2>1. /\ UNCHANGED <<inode, control, tmp>>
        /\ pc'[p] \in {"dele", "delend", "delopen", "deltmp", "delfiles"}
    BY <1>1, DeleFacts, FoundFacts, DelOpenFacts, DelFailsFacts, DelFilesFacts DEF Searches
  <2>2. QED
    BY <1>0, <2>1, WebStill
<1>2. SUFFICES ASSUME DelTmp(p) \/ DelCopy(p) \/ Rename1(p) \/ Rename2(p),
                      NEW a \in Procs \ {p}, pc'[a] = "webform", ~loc'[a].raced
               PROVE  Shows(a)'
  BY <1>0, <1>1 DEF WebInv, Closes
<1>3. /\ pc[a] = "webform" /\ ~loc[a].raced /\ Shows(a)
      /\ loc'[a].num = loc[a].num /\ loc'[a].meant = loc[a].meant
  BY <1>0, <1>2 DEF Keeps, WebInv
<1> DEFINE n == loc[a].num
           v == loc[a].meant
<1>4. CASE DelTmp(p) \/ DelCopy(p)
  <2>1. control' = control /\ pc'[p] # "ren2" /\ (control # 0 => inode'[control] = inode[control])
    <3>1. CASE DelTmp(p)
      <4>1. /\ control' = control /\ pc'[p] = "delcopy" /\ tmp' # control
            /\ inode' = [inode EXCEPT ![tmp'] = <<>>]
        BY <3>1, DelTmpFacts
      <4>2. QED
        BY <4>1 DEF TypeOK, File
    <3>2. CASE DelCopy(p)
      <4>1. pc[p] = "delcopy" /\ tmp # control
        BY <3>2, DelCopyFacts DEF TmpInv, Copying
      <4>2. QED
        BY <3>2, <4>1, DelCopyFacts DEF TypeOK, File
    <3>3. QED
      BY <1>4, <3>1, <3>2
  <2>2. ASSUME NEW q \in Procs, pc'[q] = "ren2" PROVE FALSE
    <3>1. q # p /\ pc[q] = "ren2"
      BY <1>0, <2>1, <2>2 DEF Keeps
    <3>2. tmp = 0 \/ pc[p] = "delcopy"
      BY <1>4, DelTmpFacts, DelCopyFacts
    <3>3. QED
      BY <3>1, <3>2 DEF TmpInv, Copying
  <2>3. QED
    BY <1>3, <2>1, <2>2 DEF Shows
<1>5. CASE Rename1(p)
  <2>1. /\ UNCHANGED <<tmp, loc>> /\ pc[p] = "ren1" /\ control \in File /\ control' = 0
        /\ inode' = inode \/ inode' = [inode EXCEPT ![control] = <<>>]
    BY <1>5, Rename1Facts
  <2>2. control # 0 /\ tmp # 0 /\ tmp # control
    BY <2>1 DEF TmpInv, Copying, File
  <2>3. inode'[tmp] = inode[tmp]
    BY <2>1, <2>2 DEF TypeOK, File
  <2>4. ASSUME NEW q \in Procs, pc'[q] = "ren2", ~loc'[q].raced, n < loc'[q].num
        PROVE  n \in DOMAIN inode'[tmp] /\ inode'[tmp][n] = v
    <3> DEFINE s == inode[control]
               m == loc[p].num
    <3>1. q = p
      BY <1>0, <2>1, <2>4 DEF TmpInv, Copying, Keeps
    <3>2. m \in DOMAIN s /\ inode[tmp] = Without(s, m) /\ n < m
      BY <2>1, <2>2, <2>4, <3>1 DEF DelInv, Removes
    <3>3. n \in DOMAIN s /\ s[n] = v
      BY <1>3, <2>2 DEF Shows
    <3>4. s \in Seq(Vote) /\ m \in Nat
      BY <2>1, Own DEF TypeOK
    <3> HIDE DEF s, m, n, v
    <3>5. /\ Without(s, m) \in Seq(Vote) /\ Len(Without(s, m)) = Len(s) - 1
          /\ \A i \in 1..(Len(s) - 1) : Without(s, m)[i] = IF i < m THEN s[i] ELSE s[i + 1]
      BY <3>2, <3>4, WithoutFacts
    <3>6. n \in 1..(Len(s) - 1)
      BY <3>2, <3>3, <3>4
    <3>7. QED
      BY <2>3, <3>2, <3>3, <3>5, <3>6
  <2>5. QED
    BY <1>3, <2>1, <2>4 DEF Shows
<1>6. CASE Rename2(p)
  <2>1. /\ UNCHANGED inode /\ pc[p] = "ren2" /\ pc'[p] = "delfiles" /\ control' = tmp
        /\ ~loc[p].raced /\ n < loc[p].num
    BY <1>2, <1>3, <1>6, Rename2Facts
  <2>2. n >= 1 /\ n \in DOMAIN inode[tmp] /\ inode[tmp][n] = v
    BY <1>3, <2>1 DEF Shows
  <2>3. ASSUME NEW q \in Procs, pc'[q] = "ren2" PROVE FALSE
    BY <1>0, <2>1, <2>3 DEF TmpInv, Copying, Keeps
  <2>4. QED
    BY <1>3, <2>1, <2>2, <2>3 DEF Shows
<1>7. QED
  BY <1>2, <1>4, <1>5, <1>6

LEMMA WebOpens ==
    ASSUME TypeOK, TmpInv, WebInv, NEW p \in Procs, Opens(p) PROVE WebInv'
<1>1. CASE OpenVote(p)
  <2>1. Keeps(p) /\ pc'[p] = "open" /\ UNCHANGED <<inode, control, tmp>>
    BY <1>1, OpenVoteFacts, AloneKeeps
  <2>2. QED
    BY <2>1, WebStill
<1>2. CASE OpenFile(p)
  <2>1. /\ Keeps(p) /\ pc'[p] = "openwrite"
        /\ \/ UNCHANGED <<inode, control, tmp>>
           \/ \A q \in Procs \ {p} : pc[q] = "webform" => loc'[q].raced = TRUE
    BY <1>2, OpenFileFacts, WarnedKeeps
  <2>2. CASE UNCHANGED <<inode, control, tmp>>
    BY <2>1, <2>2, WebStill
  <2>3. CASE \A q \in Procs \ {p} : pc[q] = "webform" => loc'[q].raced = TRUE
    BY <2>1, <2>3 DEF WebInv, Keeps
  <2>4. QED
    BY <2>1, <2>2, <2>3
<1>3. CASE OpenWrite(p)
  <2> DEFINE w == loc[p].vote
             g == loc[p].file
  <2>1. /\ Keeps(p) /\ pc'[p] \in {"list", "idle"} /\ UNCHANGED <<control, tmp>>
        /\ g \in File /\ inode' = [inode EXCEPT ![g] = Append(inode[g], w)]
    BY <1>3, OpenWriteFacts, WarnedKeeps
  <2>2. ASSUME NEW f \in File, NEW i \in DOMAIN inode[f]
        PROVE  i \in DOMAIN inode'[f] /\ inode'[f][i] = inode[f][i]
    <3>1. CASE f # g
      BY <2>1, <3>1 DEF TypeOK
    <3>2. CASE f = g
      <4> DEFINE s == inode[g]
      <4>1. s \in Seq(Vote) /\ inode'[f] = Append(s, w) /\ w \in Vote
        BY <2>1, <3>2, Own DEF TypeOK
      <4> HIDE DEF s, w
      <4>2. QED
        BY <3>2, <4>1 DEF s
    <3>3. QED
      BY <3>1, <3>2
  <2>3. ASSUME NEW a \in Procs, pc'[a] = "webform", ~loc'[a].raced PROVE Shows(a)'
    <3>1. /\ Shows(a) /\ loc'[a].num = loc[a].num /\ loc'[a].meant = loc[a].meant
      BY <2>1, <2>3 DEF Keeps, WebInv
    <3>2. ASSUME NEW q \in Procs, pc'[q] = "ren2", ~loc'[q].raced, loc'[a].num < loc'[q].num
          PROVE  loc'[a].num \in DOMAIN inode'[tmp] /\ inode'[tmp][loc'[a].num] = loc'[a].meant
      <4>1. pc[q] = "ren2" /\ ~loc[q].raced /\ loc[a].num < loc[q].num
        BY <2>1, <3>1, <3>2 DEF Keeps
      <4>2. loc[a].num \in DOMAIN inode[tmp] /\ inode[tmp][loc[a].num] = loc[a].meant
        BY <3>1, <4>1 DEF Shows
      <4>3. tmp \in File
        BY <4>1 DEF TmpInv, Copying, TypeOK, File
      <4>4. QED
        BY <2>2, <3>1, <4>2, <4>3
    <3>3. ASSUME control # 0
          PROVE  loc'[a].num \in DOMAIN inode'[control] /\ inode'[control][loc'[a].num] = loc'[a].meant
      <4>1. control \in File
        BY <3>3 DEF TypeOK, File
      <4>2. loc[a].num \in DOMAIN inode[control] /\ inode[control][loc[a].num] = loc[a].meant
        BY <3>1, <3>3 DEF Shows
      <4>3. QED
        BY <2>2, <3>1, <4>1, <4>2
    <3>4. loc'[a].num >= 1
      BY <3>1 DEF Shows
    <3>5. QED
      BY <2>1, <3>2, <3>3, <3>4 DEF Shows
  <2>4. QED
    BY <2>3 DEF WebInv
<1>4. QED
  BY <1>1, <1>2, <1>3 DEF Opens

(* Two that close one vote. *)
LEMMA PairKeeps ==
    ASSUME PairInv, NEW p \in Procs, Keeps(p), hist.twice \subseteq hist'.twice,
           pc'[p] \in Closing => pc[p] \in Closing /\ loc'[p].vote = loc[p].vote
    PROVE  PairInv'
<1>1. \A q \in Procs : pc'[q] \in Closing => pc[q] \in Closing /\ loc'[q].vote = loc[q].vote
  BY DEF Keeps
<1>2. QED
  BY <1>1 DEF PairInv

LEMMA PairBegins ==
    ASSUME TypeOK, PairInv, NEW p \in Procs, Begins(p) PROVE PairInv'
<1>1. /\ Keeps(p) /\ hist.twice \subseteq hist'.twice
      /\ \A q \in Procs \ {p} : pc[q] \in Closing /\ loc[q].vote = loc'[p].vote
            => loc'[p].vote \in hist'.twice
  BY AloneKeeps DEF Begins, Quiet
<1>2. SUFFICES ASSUME NEW a \in Procs, NEW b \in Procs \ {a}, pc'[a] \in Closing,
                      pc'[b] \in Closing, loc'[a].vote = loc'[b].vote
               PROVE  loc'[a].vote \in hist'.twice
  BY DEF PairInv
<1>3. CASE a = p \/ b = p
  BY <1>1, <1>2, <1>3 DEF Keeps
<1>4. CASE a # p /\ b # p
  BY <1>1, <1>2, <1>4 DEF Keeps, PairInv
<1>5. QED
  BY <1>3, <1>4

(* Ballots that are counted. *)
LEMMA CountedKeeps ==
    ASSUME TypeOK, CountedInv, NEW p \in Procs, Keeps(p), UNCHANGED result,
           hist.late \subseteq hist'.late, \A v \in Vote : Rng(box'[v]) \subseteq Rng(box[v]),
           loc'[p].counted => loc[p].counted /\ loc'[p].vote = loc[p].vote
                                  /\ pc'[p] \in Closing \ {"count", "post"} /\ pc[p] # "post",
           pc'[p] # "post"
    PROVE  CountedInv'
<1>1. ASSUME NEW q \in Procs PROVE Counts(q)'
  <2>1. Counts(q) /\ loc[q].vote \in Vote
    BY Own DEF CountedInv
  <2>2. CASE q = p
    BY <2>1, <2>2 DEF Counts
  <2>3. CASE q # p
    <3>1. /\ pc'[q] = pc[q] /\ loc'[q].vote = loc[q].vote /\ loc'[q].tally = loc[q].tally
          /\ loc'[q].counted = loc[q].counted
      BY <2>3 DEF Keeps
    <3>2. QED
      BY <2>1, <3>1 DEF Counts
  <2>4. QED
    BY <2>2, <2>3
<1>2. QED
  BY <1>1 DEF CountedInv

LEMMA CountedMild ==
    ASSUME TypeOK, CountedInv, NEW p \in Procs, Mild(p) \/ Begins(p) PROVE CountedInv'
<1>1. /\ Keeps(p) /\ UNCHANGED <<box, result>> /\ hist'.late = hist.late
      /\ loc'[p].counted => loc[p].counted /\ pc[p] \notin Closing
      /\ pc'[p] # "post"
  BY QuietKeeps DEF Mild, Plain, Begins, Closing
<1>2. ~loc'[p].counted
  BY <1>1 DEF CountedInv, Counts
<1>3. QED
  BY <1>1, <1>2, CountedKeeps

LEMMA CountedPut ==
    ASSUME TypeOK, CountedInv, NEW p \in Procs, Put(p) PROVE CountedInv'
<1> DEFINE v == loc[p].vote
           b == [uid |-> UserOf[p], voted |-> loc[p].ballot]
<1>1. /\ Keeps(p) /\ UNCHANGED result /\ pc'[p] \in {"list", "idle"} /\ ~loc'[p].counted
      /\ box' = [box EXCEPT ![v] = PutAt(box[v], loc[p].pos, b)]
      /\ b \in Ballot /\ hist.late \subseteq hist'.late
      /\ \A q \in Procs : loc[q].counted /\ loc[q].vote = v => <<loc[q].vote, UserOf[p]>> \in hist'.late
  BY PutFacts, QuietKeeps
<1>2. v \in Vote /\ loc[p].pos \in Nat /\ box \in [Vote -> Seq(Ballot \cup {Hole})]
  BY Own DEF TypeOK
<1>3. Rng(box'[v]) \subseteq Rng(box[v]) \cup {b, Hole}
  <2> DEFINE s == box[v]
             n == loc[p].pos
             S == Ballot \cup {Hole}
  <2>1. Hole \in S /\ s \in Seq(S) /\ n \in Nat /\ b \in S /\ box'[v] = PutAt(s, n, b)
    BY <1>1, <1>2
  <2> HIDE DEF s, n, b, S
  <2>2. Rng(PutAt(s, n, b)) \subseteq Rng(s) \cup {b, Hole}
    BY <2>1, PutAtRng
  <2>3. QED
    BY <2>1, <2>2 DEF s
<1>4. \A u \in Vote \ {v} : box'[u] = box[u]
  BY <1>1, <1>2
<1>5. b.uid = UserOf[p]
  OBVIOUS
<1> HIDE DEF b, v
<1>6. ASSUME NEW q \in Procs PROVE Counts(q)'
  <2>1. CASE q = p
    BY <1>1, <2>1 DEF Counts
  <2>2. CASE q # p
    <3>1. /\ pc'[q] = pc[q] /\ loc'[q].vote = loc[q].vote /\ loc'[q].tally = loc[q].tally
          /\ loc'[q].counted = loc[q].counted /\ loc[q].vote \in Vote
      BY <1>1, <2>2, Own DEF Keeps
    <3>2. Counts(q)
      BY DEF CountedInv
    <3>3. ASSUME loc[q].counted, NEW e \in Rng(box'[loc[q].vote]) \ {Hole}
          PROVE  \/ e \in (IF pc[q] = "post" THEN loc[q].tally ELSE result[loc[q].vote])
                 \/ <<loc[q].vote, e.uid>> \in hist'.late
      <4>1. CASE e \in Rng(box[loc[q].vote])
        BY <1>1, <3>2, <3>3, <4>1 DEF Counts
      <4>2. CASE e \notin Rng(box[loc[q].vote])
        <5>1. loc[q].vote = v /\ e = b
          BY <1>3, <1>4, <3>1, <3>3, <4>2
        <5>2. QED
          BY <1>1, <1>5, <3>3, <5>1
      <4>3. QED
        BY <4>1, <4>2
    <3>4. QED
      BY <1>1, <3>1, <3>2, <3>3 DEF Counts
  <2>3. QED
    BY <2>1, <2>2
<1>7. QED
  BY <1>6 DEF CountedInv

LEMMA CountedCount ==
    ASSUME TypeOK, CountedInv, NEW p \in Procs, Count(p) \/ Post(p) PROVE CountedInv'
<1>1. CASE Count(p)
  <2>1. /\ Keeps(p) /\ UNCHANGED <<box, result, hist>> /\ pc'[p] = "post"
        /\ loc'[p].vote = loc[p].vote /\ loc'[p].counted = TRUE
        /\ loc'[p].tally = Rng(box[loc[p].vote])
    BY <1>1, CountFacts, QuietKeeps
  <2>2. Counts(p)'
    BY <2>1 DEF Counts, Closing
  <2>3. ASSUME NEW q \in Procs \ {p} PROVE Counts(q)'
    BY <2>1 DEF CountedInv, Counts, Keeps
  <2>4. QED
    BY <2>2, <2>3 DEF CountedInv
<1>2. CASE Post(p)
  <2> DEFINE v == loc[p].vote
  <2>1. /\ Keeps(p) /\ UNCHANGED <<box, hist>> /\ pc[p] = "post" /\ pc'[p] = "dele"
        /\ loc'[p].vote = v /\ loc'[p].counted = loc[p].counted
        /\ result' = [result EXCEPT ![v] = loc[p].tally]
    BY <1>2, PostFacts, QuietKeeps
  <2>2. v \in Vote /\ result'[v] = loc[p].tally
    BY <2>1, Own DEF TypeOK
  <2>3. /\ loc[p].counted
        /\ \A e \in Rng(box[v]) \ {Hole} : e \in result'[v] \/ <<v, e.uid>> \in hist'.late
    BY <2>1, <2>2 DEF CountedInv, Counts
  <2>4. Counts(p)'
    BY <2>1, <2>3 DEF Counts, Closing
  <2>5. ASSUME NEW q \in Procs \ {p} PROVE Counts(q)'
    <3>1. /\ pc'[q] = pc[q] /\ loc'[q].vote = loc[q].vote /\ loc'[q].tally = loc[q].tally
          /\ loc'[q].counted = loc[q].counted /\ loc[q].vote \in Vote
      BY <2>1, Own DEF Keeps
    <3>2. Counts(q)
      BY DEF CountedInv
    <3>3. CASE loc[q].vote # v
      <4>1. result'[loc[q].vote] = result[loc[q].vote]
        BY <2>1, <3>1, <3>3 DEF TypeOK
      <4>2. QED
        BY <2>1, <3>1, <3>2, <4>1 DEF Counts
    <3>4. CASE loc[q].vote = v
      BY <2>1, <2>3, <3>1, <3>2, <3>4 DEF Counts
    <3>5. QED
      BY <3>3, <3>4
  <2>6. QED
    BY <2>4, <2>5 DEF CountedInv
<1>3. QED
  BY <1>1, <1>2

LEMMA BoxCloses ==
    ASSUME TypeOK, TmpInv, NEW p \in Procs, Closes(p)
    PROVE  \/ UNCHANGED box /\ hist'.gone = hist.gone
           \/ /\ DelFiles(p) /\ box' = [box EXCEPT ![loc[p].vote] = <<>>]
              /\ hist'.gone = hist.gone \cup {loc[p].vote}
<1>1. CASE Searches(p) \/ Finds(p) \/ DelOpen(p) \/ DelTmp(p) \/ DelCopy(p) \/ Rename1(p)
  <2>1. box' = box /\ hist' = hist
    BY <1>1, DeleFacts, FoundFacts, DelOpenFacts, DelTmpFacts, DelCopyFacts,
       Rename1Facts DEF Searches
  <2>2. QED
    BY <2>1
<1>2. CASE DelFails(p) \/ Rename2(p)
  BY <1>2, DelFailsFacts, Rename2Facts
<1>3. CASE DelFiles(p)
  BY <1>3, DelFilesFacts
<1>4. QED
  BY <1>1, <1>2, <1>3 DEF Closes

LEMMA CountedCloses ==
    ASSUME TypeOK, TmpInv, CountedInv, NEW p \in Procs, Closes(p) PROVE CountedInv'
<1>1. /\ Keeps(p) /\ UNCHANGED result /\ hist'.late = hist.late
      /\ pc[p] \in After /\ pc'[p] \in After
      /\ loc'[p].vote = loc[p].vote /\ loc'[p].counted = loc[p].counted
  BY ClosesFacts DEF Goes
<1>2. ASSUME NEW v \in Vote PROVE Rng(box'[v]) \subseteq Rng(box[v])
  <2>1. box'[v] = box[v] \/ box'[v] = <<>>
    BY BoxCloses DEF TypeOK
  <2>2. CASE box'[v] = <<>>
    BY <2>2 DEF Rng
  <2>3. CASE box'[v] = box[v]
    BY <2>3 DEF Rng
  <2>4. QED
    BY <2>1, <2>2, <2>3
<1>3. QED
  BY <1>1, <1>2, CountedKeeps DEF After

LEMMA CountedOpens ==
    ASSUME TypeOK, TmpInv, CountedInv, NEW p \in Procs, Opens(p) PROVE CountedInv'
<1>1. /\ Keeps(p) /\ UNCHANGED <<box, result>> /\ hist'.late = hist.late /\ pc'[p] # "post"
      /\ pc[p] \notin Closing /\ (loc'[p].counted => loc[p].counted)
  <2>1. CASE OpenVote(p)
    BY <2>1, OpenVoteFacts, AloneKeeps DEF Closing, Deleting
  <2>2. CASE OpenFile(p) \/ OpenWrite(p)
    <3>1. hist' = hist
      BY <2>2, OpenFileFacts, OpenWriteFacts
    <3>2. QED
      BY <2>2, <3>1, OpenFileFacts, OpenWriteFacts, WarnedKeeps DEF Closing, Deleting
  <2>3. QED
    BY <2>1, <2>2 DEF Opens
<1>2. ~loc'[p].counted
  BY <1>1 DEF CountedInv, Counts
<1>3. QED
  BY <1>1, <1>2, CountedKeeps

(* Where a ballot goes. *)
LEMMA PutOthers ==
    ASSUME PutInv, NEW p \in Procs, Keeps(p), hist.gone \subseteq hist'.gone,
           NEW q \in Procs \ {p}, pc'[q] = "put", loc'[q].vote \notin hist'.gone,
           box'[loc[q].vote] = box[loc[q].vote]
    PROVE  Places(q)'
<1>1. /\ pc[q] = "put" /\ loc'[q].vote = loc[q].vote /\ loc'[q].pos = loc[q].pos
      /\ ~loc'[q].raced => ~loc[q].raced
  BY DEF Keeps
<1>2. Places(q)
  BY <1>1 DEF PutInv
<1>3. QED
  BY <1>1, <1>2 DEF Places

LEMMA PutKeeps ==
    ASSUME PutInv, NEW p \in Procs, Keeps(p), hist.gone \subseteq hist'.gone, UNCHANGED box,
           pc'[p] # "put"
    PROVE  PutInv'
  BY PutOthers DEF PutInv

LEMMA PutPlain ==
    ASSUME TypeOK, PutInv, NEW p \in Procs, Plain(p) PROVE PutInv'
<1>1. Keeps(p) /\ hist'.gone = hist.gone /\ UNCHANGED box
  BY QuietKeeps DEF Plain, Quiet
<1>2. pc'[p] = "put" => Places(p)'
  BY <1>1 DEF Plain, PlaceFound, Places
<1>3. QED
  BY <1>1, <1>2, PutOthers DEF PutInv

LEMMA PutPut ==
    ASSUME TypeOK, PutInv, NEW p \in Procs, Put(p) PROVE PutInv'
<1> DEFINE v == loc[p].vote
           b == [uid |-> UserOf[p], voted |-> loc[p].ballot]
           s == box[v]
           n == loc[p].pos
<1>1. /\ Keeps(p) /\ hist'.gone = hist.gone /\ pc[p] = "put" /\ pc'[p] # "put"
      /\ box' = [box EXCEPT ![v] = PutAt(s, n, b)]
      /\ b \in Ballot /\ \A q \in Behind(p) : loc'[q].raced = TRUE
  BY PutFacts, QuietKeeps DEF Quiet
<1>2. v \in Vote /\ n \in Nat /\ box \in [Vote -> Seq(Ballot \cup {Hole})]
  BY Own DEF TypeOK
<1>3. s \in Seq(Ballot \cup {Hole}) /\ box'[v] = PutAt(s, n, b) /\ b.uid = UserOf[p]
  BY <1>1, <1>2
<1>4. \A u \in Vote \ {v} : box'[u] = box[u]
  BY <1>1, <1>2
<1>5. SUFFICES ASSUME NEW q \in Procs, pc'[q] = "put", loc'[q].vote \notin hist'.gone
               PROVE  Places(q)'
  BY DEF PutInv
<1>6. /\ q # p /\ pc[q] = "put" /\ loc'[q].vote = loc[q].vote /\ loc'[q].pos = loc[q].pos
      /\ loc[q].vote \in Vote /\ loc[q].pos \in Nat
  BY <1>1, <1>5, Own DEF Keeps
<1>7. CASE loc[q].vote # v
  BY <1>1, <1>4, <1>5, <1>6, <1>7, PutOthers
<1>8. CASE loc[q].vote = v
  <2> DEFINE m == loc[q].pos
             t == PutAt(s, n, b)
  <2>1. Places(p) /\ Places(q)
    BY <1>1, <1>5, <1>6, <1>8 DEF PutInv
  <2>2. n # 0 => n \in DOMAIN s /\ s[n].uid = UserOf[p]
    BY <2>1 DEF Places
  <2>3. m # 0 => m \in DOMAIN s /\ s[m].uid = UserOf[q]
    BY <1>8, <2>1 DEF Places
  <2>4. m = 0 /\ ~loc'[q].raced =>
           UserOf[q] # UserOf[p] /\ \A i \in DOMAIN s : s[i].uid # UserOf[q]
    <3>1. ASSUME m = 0, ~loc'[q].raced PROVE UserOf[q] # UserOf[p]
      <4>1. q \notin Behind(p)
        BY <1>1, <3>1
      <4>2. QED
        BY <1>6, <1>8, <3>1, <4>1 DEF Behind
    <3>2. ~loc'[q].raced => ~loc[q].raced
      BY <1>1, <1>6 DEF Keeps
    <3>3. QED
      BY <1>8, <2>1, <3>1, <3>2 DEF Places
  <2>5. Places(q)' <=> /\ m = 0 /\ ~loc'[q].raced => \A i \in DOMAIN t : t[i].uid # UserOf[q]
                       /\ m # 0 => m \in DOMAIN t /\ t[m].uid = UserOf[q]
    BY <1>3, <1>6, <1>8 DEF Places
  <2>6. /\ \A i \in DOMAIN t : t[i] = b \/ (i \in DOMAIN s /\ t[i] = s[i])
        /\ \A i \in DOMAIN s : i \in DOMAIN t /\ (t[i] = s[i] \/ (i = n /\ t[i] = b))
    <3>1. s \in Seq(Ballot \cup {Hole}) /\ n \in Nat
      BY <1>1, <1>2, <1>3, <2>2
    <3>11. b \in Ballot \cup {Hole} /\ (n = 0 \/ n \in DOMAIN s)
      BY <1>1, <1>2, <1>3, <2>2
    <3> HIDE DEF s, n, b
    <3>2. \A i \in DOMAIN PutAt(s, n, b) :
             PutAt(s, n, b)[i] = b \/ (i \in DOMAIN s /\ PutAt(s, n, b)[i] = s[i])
      BY <3>1, <3>11, PutAtWrites
    <3>3. \A i \in DOMAIN s :
             /\ i \in DOMAIN PutAt(s, n, b)
             /\ PutAt(s, n, b)[i] = s[i] \/ (i = n /\ PutAt(s, n, b)[i] = b)
      BY <3>1, <3>11, PutAtKeeps
    <3>4. QED
      BY <3>2, <3>3
  <2> HIDE DEF s, n, m, t, b, v
  <2>10. ASSUME m = 0, ~loc'[q].raced, NEW i \in DOMAIN t PROVE t[i].uid # UserOf[q]
    BY <1>3, <2>4, <2>6, <2>10
  <2>11. ASSUME m # 0 PROVE m \in DOMAIN t /\ t[m].uid = UserOf[q]
    <3>1. CASE t[m] = s[m]
      BY <2>3, <2>6, <2>11, <3>1
    <3>2. CASE m = n /\ t[m] = b
      BY <1>3, <2>2, <2>3, <2>6, <2>11, <3>2
    <3>3. QED
      BY <2>3, <2>6, <2>11, <3>1, <3>2
  <2>12. QED
    BY <2>5, <2>10, <2>11
<1>9. QED
  BY <1>7, <1>8

LEMMA PutCloses ==
    ASSUME TypeOK, TmpInv, PutInv, NEW p \in Procs, Closes(p) PROVE PutInv'
<1>1. Keeps(p) /\ pc'[p] # "put"
  BY ClosesFacts DEF Goes, After, Closing, Deleting
<1>2. CASE UNCHANGED box /\ hist'.gone = hist.gone
  BY <1>1, <1>2, PutKeeps
<1>3. CASE box' = [box EXCEPT ![loc[p].vote] = <<>>] /\ hist'.gone = hist.gone \cup {loc[p].vote}
  <2>1. ASSUME NEW q \in Procs, pc'[q] = "put", loc'[q].vote \notin hist'.gone
        PROVE  Places(q)'
    <3>1. q # p /\ loc[q].vote \in Vote /\ loc'[q].vote = loc[q].vote
      BY <1>1, <2>1, Own DEF Keeps
    <3>2. loc[q].vote # loc[p].vote
      BY <1>3, <2>1, <3>1
    <3>3. box'[loc[q].vote] = box[loc[q].vote]
      BY <1>3, <3>1, <3>2 DEF TypeOK
    <3>4. hist.gone \subseteq hist'.gone
      BY <1>3
    <3>5. QED
      BY <1>1, <2>1, <3>1, <3>3, <3>4, PutOthers
  <2>2. QED
    BY <2>1 DEF PutInv
<1>4. QED
  BY <1>2, <1>3, BoxCloses

LEMMA PutOpens ==
    ASSUME TypeOK, TmpInv, PutInv, NEW p \in Procs, Opens(p) PROVE PutInv'
<1>1. Keeps(p) /\ UNCHANGED box /\ hist'.gone = hist.gone /\ pc'[p] # "put"
  <2>1. CASE OpenVote(p)
    BY <2>1, OpenVoteFacts, AloneKeeps
  <2>2. CASE OpenFile(p) \/ OpenWrite(p)
    <3>1. hist' = hist
      BY <2>2, OpenFileFacts, OpenWriteFacts
    <3>2. QED
      BY <2>2, <3>1, OpenFileFacts, OpenWriteFacts, WarnedKeeps
  <2>3. QED
    BY <2>1, <2>2 DEF Opens
<1>2. QED
  BY <1>1, PutKeeps

(* Votes that are not listed any more. *)
LEMMA UnlistedStill ==
    ASSUME NEW p \in Procs, Keeps(p), UNCHANGED <<inode, control, tmp>>,
           pc'[p] \notin {"ren1", "ren2"}, NEW v, Unlisted(v)
    PROVE  Unlisted(v)'
<1>1. \A q \in Procs : pc'[q] \in {"ren1", "ren2"} /\ ~loc'[q].raced
                          => pc[q] \in {"ren1", "ren2"} /\ ~loc[q].raced
  BY DEF Keeps
<1>2. QED
  BY <1>1 DEF Unlisted

LEMMA UnlistedQuiet ==
    ASSUME TypeOK, NEW p \in Procs, Quiet(p), NEW v, Unlisted(v)
    PROVE  Unlisted(v)'
<1>1. Keeps(p) /\ UNCHANGED <<inode, control, tmp>> /\ pc'[p] \notin {"ren1", "ren2"}
  BY QuietKeeps DEF Quiet, Deleting
<1>2. QED
  BY <1>1, UnlistedStill

LEMMA UnlistedCloses ==
    ASSUME TypeOK, TmpInv, LinesInv, DelInv, NEW p \in Procs, Closes(p), NEW v \in Vote,
           Unlisted(v), v \notin hist'.twice
    PROVE  Unlisted(v)'
<1>0. Keeps(p)
  BY ClosesFacts
<1>1. CASE Searches(p) \/ Finds(p) \/ DelOpen(p) \/ DelFails(p) \/ DelFiles(p)
  <2>1. /\ UNCHANGED <<inode, control, tmp>>
        /\ pc'[p] \in {"dele", "delend", "delopen", "deltmp", "delfiles"}
    BY <1>1, DeleFacts, FoundFacts, DelOpenFacts, DelFailsFacts, DelFilesFacts DEF Searches
  <2>2. QED
    BY <1>0, <2>1, UnlistedStill
<1>2. CASE DelTmp(p)
  <2>1. /\ control' = control /\ pc'[p] = "delcopy" /\ tmp = 0 /\ tmp' # control
        /\ inode' = [inode EXCEPT ![tmp'] = <<>>]
    BY <1>2, DelTmpFacts
  <2>2. \A q \in Procs : pc'[q] \notin {"ren1", "ren2"}
    BY <1>0, <2>1 DEF TmpInv, Copying, Keeps
  <2>3. control # 0 => inode'[control] = inode[control]
    BY <2>1 DEF TypeOK, File
  <2>4. QED
    BY <2>1, <2>2, <2>3 DEF Unlisted
<1>3. CASE DelCopy(p)
  <2>1. /\ UNCHANGED <<control, tmp>> /\ pc[p] = "delcopy" /\ pc'[p] = "ren1"
        /\ loc'[p].raced = loc[p].raced /\ tmp \in File
        /\ inode' = [inode EXCEPT ![tmp] = Without(inode[loc[p].file], loc[p].num)]
    BY <1>3, DelCopyFacts
  <2>2. control # 0 /\ tmp # control /\ control \in File
    BY <2>1 DEF TmpInv, Copying, File, TypeOK
  <2>3. inode'[control] = inode[control] /\ inode'[tmp] = Without(inode[loc[p].file], loc[p].num)
    BY <2>1, <2>2 DEF TypeOK
  <2>4. v \notin Rng(inode[control])
    BY <2>2 DEF Unlisted
  <2>5. ASSUME NEW q \in Procs, pc'[q] \in {"ren1", "ren2"}, ~loc'[q].raced
        PROVE  v \notin Rng(inode'[tmp])
    <3>1. q = p
      BY <1>0, <2>1, <2>5 DEF TmpInv, Copying, Keeps
    <3>2. loc[p].file = control
      BY <2>1, <2>2, <2>5, <3>1 DEF DelInv, Removes
    <3>3. inode[control] \in Seq(Vote) /\ loc[p].num \in Nat
      BY <2>2, Own DEF TypeOK
    <3>4. Rng(Without(inode[control], loc[p].num)) \subseteq Rng(inode[control])
      BY <3>3, WithoutRng
    <3>5. QED
      BY <2>3, <2>4, <3>2, <3>4
  <2>6. QED
    BY <2>1, <2>3, <2>4, <2>5 DEF Unlisted
<1>4. CASE Rename1(p)
  <2>1. /\ UNCHANGED <<tmp, loc>> /\ pc[p] = "ren1" /\ pc'[p] = "ren2"
        /\ control \in File /\ control' = 0
        /\ inode' = inode \/ inode' = [inode EXCEPT ![control] = <<>>]
    BY <1>4, Rename1Facts
  <2>2. control # 0 /\ tmp # 0 /\ tmp # control
    BY <2>1 DEF TmpInv, Copying, File
  <2>3. inode'[tmp] = inode[tmp]
    BY <2>1, <2>2 DEF TypeOK, File
  <2>4. ASSUME NEW q \in Procs, pc'[q] \in {"ren1", "ren2"}, ~loc'[q].raced
        PROVE  v \notin Rng(inode'[tmp])
    <3>1. q = p
      BY <1>0, <2>1, <2>4 DEF TmpInv, Copying, Keeps
    <3>2. QED
      BY <2>1, <2>3, <2>4, <3>1 DEF Unlisted
  <2>5. QED
    BY <2>1, <2>4 DEF Unlisted
<1>5. CASE Rename2(p)
  <2>1. /\ UNCHANGED inode /\ pc[p] = "ren2" /\ pc'[p] = "delfiles" /\ control' = tmp
        /\ loc[p].raced => 1..MaxVotes \subseteq hist'.twice
    BY <1>5, Rename2Facts
  <2>2. tmp \in File
    BY <2>1 DEF TmpInv, Copying, TypeOK, File
  <2>3. v \notin Rng(inode[tmp])
    <3>1. CASE loc[p].raced
      <4>1. v = 0
        BY <2>1, <3>1 DEF Vote
      <4>2. Rng(inode[tmp]) \subseteq 1..opened
        BY <2>2, LinesFacts
      <4>3. QED
        BY <4>1, <4>2
    <3>2. CASE ~loc[p].raced
      BY <2>1, <3>2 DEF Unlisted
    <3>3. QED
      BY <3>1, <3>2
  <2>4. \A q \in Procs : pc'[q] \notin {"ren1", "ren2"}
    BY <1>0, <2>1 DEF TmpInv, Copying, Keeps
  <2>5. QED
    BY <2>1, <2>3, <2>4 DEF Unlisted
<1>6. QED
  BY <1>1, <1>2, <1>3, <1>4, <1>5 DEF Closes

LEMMA UnlistedOpens ==
    ASSUME TypeOK, TmpInv, NEW p \in Procs, Opens(p), NEW v \in Vote, Unlisted(v),
           pc[p] \in Opening => v # loc[p].vote
    PROVE  Unlisted(v)'
<1>1. CASE OpenVote(p)
  <2>1. Keeps(p) /\ UNCHANGED <<inode, control, tmp>> /\ pc'[p] = "open"
    BY <1>1, OpenVoteFacts, AloneKeeps
  <2>2. QED
    BY <2>1, UnlistedStill
<1>2. ASSUME Keeps(p), tmp' = tmp, pc'[p] \notin {"ren1", "ren2"},
             control' # 0 => v \notin Rng(inode'[control']),
             tmp # 0 /\ v \notin Rng(inode[tmp]) => v \notin Rng(inode'[tmp])
      PROVE  Unlisted(v)'
  <2>1. \A q \in Procs : pc'[q] \in {"ren1", "ren2"} /\ ~loc'[q].raced
                            => pc[q] \in {"ren1", "ren2"} /\ ~loc[q].raced /\ tmp # 0
    BY <1>2 DEF Keeps, TmpInv, Copying
  <2>2. QED
    BY <1>2, <2>1 DEF Unlisted
<1>3. CASE OpenFile(p)
  <2>1. /\ Keeps(p) /\ tmp' = tmp /\ pc'[p] = "openwrite" /\ control' \in File
        /\ \/ UNCHANGED <<inode, control>>
           \/ control' # tmp /\ inode' = [inode EXCEPT ![control'] = <<>>]
    BY <1>3, OpenFileFacts, WarnedKeeps
  <2>2. CASE UNCHANGED <<inode, control>>
    BY <1>2, <2>1, <2>2 DEF Unlisted
  <2>3. CASE control' # tmp /\ inode' = [inode EXCEPT ![control'] = <<>>]
    <3>1. inode'[control'] = <<>> /\ (tmp # 0 => inode'[tmp] = inode[tmp])
      BY <2>1, <2>3 DEF TypeOK, File
    <3>2. v \notin Rng(inode'[control'])
      BY <3>1 DEF Rng
    <3>3. QED
      BY <1>2, <2>1, <3>1, <3>2
  <2>4. QED
    BY <2>1, <2>2, <2>3
<1>4. CASE OpenWrite(p)
  <2> DEFINE w == loc[p].vote
             g == loc[p].file
  <2>1. /\ Keeps(p) /\ pc[p] = "openwrite" /\ pc'[p] \in {"list", "idle"}
        /\ UNCHANGED <<control, tmp>> /\ g \in File
        /\ inode' = [inode EXCEPT ![g] = Append(inode[g], w)]
    BY <1>4, OpenWriteFacts, WarnedKeeps
  <2>2. v # w /\ w \in Vote
    BY <2>1, Own DEF Opening
  <2>3. ASSUME NEW f \in File, v \notin Rng(inode[f]) PROVE v \notin Rng(inode'[f])
    <3>1. CASE f # g
      BY <2>1, <2>3, <3>1 DEF TypeOK
    <3>2. CASE f = g
      <4> DEFINE s == inode[g]
      <4>1. s \in Seq(Vote) /\ inode'[f] = Append(s, w) /\ v \notin Rng(s)
        BY <2>1, <2>3, <3>2 DEF TypeOK
      <4>2. DOMAIN inode'[f] = 1..(Len(s) + 1) /\ inode'[f][Len(s) + 1] = w
               /\ Len(s) \in Nat /\ \A k \in 1..Len(s) : inode'[f][k] = s[k]
        BY <2>2, <4>1
      <4>3. \A k \in 1..Len(s) : s[k] # v
        BY <4>1 DEF Rng
      <4> HIDE DEF s, w
      <4>4. QED
        BY <2>2, <4>2, <4>3 DEF Rng
    <3>3. QED
      BY <3>1, <3>2
  <2>4. /\ control # 0 => control \in File
        /\ tmp # 0 => tmp \in File
    BY DEF TypeOK, File
  <2>5. control # 0 => v \notin Rng(inode'[control])
    BY <2>3, <2>4 DEF Unlisted
  <2>6. tmp # 0 /\ v \notin Rng(inode[tmp]) => v \notin Rng(inode'[tmp])
    BY <2>3, <2>4
  <2>7. QED
    BY <1>2, <2>1, <2>5, <2>6
<1>5. QED
  BY <1>1, <1>3, <1>4 DEF Opens
LEMMA GoneKeeps ==
    ASSUME TypeOK, GoneInv, NEW p \in Procs, Keeps(p), hist'.gone = hist.gone,
           hist.twice \subseteq hist'.twice, pc'[p] # "delfiles",
           \A v \in Vote : v \notin hist'.twice /\ Unlisted(v)
              /\ (v \in hist.gone \/ \E q \in Procs \ {p} : loc[q].vote = v) => Unlisted(v)',
           pc'[p] \in {"count", "post"} /\ loc'[p].vote \in hist.gone => loc'[p].vote \in hist'.twice
    PROVE  GoneInv'
<1>1. ASSUME NEW v \in hist'.gone \ hist'.twice PROVE Unlisted(v)'
  <2>1. v \in Vote /\ v \in hist.gone /\ v \notin hist.twice
    BY DEF TypeOK, Histories
  <2>2. QED
    BY <2>1 DEF GoneInv
<1>2. ASSUME NEW q \in Procs, pc'[q] = "delfiles", loc'[q].vote \notin hist'.twice
      PROVE  Unlisted(loc[q].vote)' /\ loc'[q].vote = loc[q].vote
  <2>1. /\ q # p /\ pc[q] = "delfiles" /\ loc'[q].vote = loc[q].vote
        /\ loc[q].vote \notin hist.twice /\ loc[q].vote \in Vote
    BY <1>2, Own DEF Keeps
  <2>2. Unlisted(loc[q].vote)
    BY <2>1 DEF GoneInv
  <2> DEFINE v == loc[q].vote
  <2>3. QED
    BY <1>2, <2>1, <2>2
<1>3. ASSUME NEW q \in Procs, pc'[q] \in {"count", "post"}, loc'[q].vote \in hist'.gone
      PROVE  loc'[q].vote \in hist'.twice
  BY <1>3 DEF GoneInv, Keeps
<1>4. QED
  BY <1>1, <1>2, <1>3 DEF GoneInv

LEMMA GoneQuiet ==
    ASSUME TypeOK, GoneInv, NEW p \in Procs, Quiet(p),
           pc'[p] \in {"count", "post"} /\ loc'[p].vote \in hist.gone => loc'[p].vote \in hist'.twice
    PROVE  GoneInv'
<1>1. /\ Keeps(p) /\ hist'.gone = hist.gone /\ hist.twice \subseteq hist'.twice
      /\ pc'[p] # "delfiles"
  BY QuietKeeps DEF Quiet
<1>2. QED
  BY <1>1, UnlistedQuiet, GoneKeeps

LEMMA GoneBegins ==
    ASSUME TypeOK, GoneInv, NEW p \in Procs, Begins(p) PROVE GoneInv'
<1> DEFINE v == loc'[p].vote
<1>1. Quiet(p) /\ (v \notin Rng(Lines(control)) => v \in hist'.twice)
         /\ hist.twice \subseteq hist'.twice
  BY DEF Begins, Quiet
<1>2. v \in hist.gone => v \in hist'.twice
  <2>1. SUFFICES ASSUME v \in hist.gone, v \notin hist.twice
                 PROVE  v \notin Rng(Lines(control))
    BY <1>1
  <2>2. Unlisted(v)
    BY <2>1 DEF GoneInv
  <2> HIDE DEF v
  <2>3. CASE control = 0
    BY <2>3 DEF Lines, Rng
  <2>4. CASE control # 0
    BY <2>2, <2>4 DEF Unlisted, Lines
  <2>5. QED
    BY <2>3, <2>4
<1>3. QED
  BY <1>1, <1>2, GoneQuiet

LEMMA GoneCount ==
    ASSUME TypeOK, GoneInv, NEW p \in Procs, Put(p) \/ Count(p) \/ Post(p) PROVE GoneInv'
<1>1. CASE Put(p)
  BY <1>1, PutFacts, GoneQuiet
<1>2. CASE Count(p)
  <2>1. /\ Quiet(p) /\ hist' = hist /\ pc[p] = "count" /\ loc'[p].vote = loc[p].vote
    BY <1>2, CountFacts
  <2>2. loc'[p].vote \in hist.gone => loc'[p].vote \in hist'.twice
    BY <2>1 DEF GoneInv
  <2>3. QED
    BY <2>1, <2>2, GoneQuiet
<1>3. CASE Post(p)
  BY <1>3, PostFacts, GoneQuiet
<1>4. QED
  BY <1>1, <1>2, <1>3

LEMMA GoneCloses ==
    ASSUME TypeOK, TmpInv, LinesInv, DelInv, PairInv, GoneInv, NEW p \in Procs, Closes(p)
    PROVE  GoneInv'
<1>1. /\ Keeps(p) /\ hist.twice \subseteq hist'.twice /\ loc'[p].vote = loc[p].vote
      /\ pc[p] \in After /\ pc'[p] \in After /\ loc[p].vote \in Vote
  BY ClosesFacts, Own DEF Goes
<1>2. ASSUME NEW v \in Vote, Unlisted(v), v \notin hist'.twice PROVE Unlisted(v)'
  BY <1>2, UnlistedCloses
<1>3. CASE pc'[p] # "delfiles" /\ hist'.gone = hist.gone
  BY <1>1, <1>2, <1>3, GoneKeeps DEF After
<1>4. CASE pc'[p] # "delfiles" /\ hist'.gone # hist.gone
  <2>1. pc[p] = "delfiles" /\ hist'.gone = hist.gone \cup {loc[p].vote} /\ hist'.twice = hist.twice
    BY <1>4, BoxCloses, DelFilesFacts
  <2>2. ASSUME NEW v \in hist'.gone \ hist'.twice PROVE Unlisted(v)'
    <3>1. v \in Vote /\ v \notin hist.twice
      BY <1>1, <2>1 DEF TypeOK, Histories
    <3>2. Unlisted(v)
      <4>1. CASE v \in hist.gone
        BY <3>1, <4>1 DEF GoneInv
      <4>2. CASE v = loc[p].vote
        BY <2>1, <3>1, <4>2 DEF GoneInv
      <4>3. QED
        BY <2>1, <4>1, <4>2
    <3>3. QED
      BY <1>2, <3>1, <3>2
  <2>3. ASSUME NEW q \in Procs, pc'[q] = "delfiles", loc'[q].vote \notin hist'.twice,
               NEW v \in Vote, v = loc'[q].vote
        PROVE  Unlisted(v)'
    <3>1. q # p /\ pc[q] = "delfiles" /\ loc[q].vote = v /\ v \notin hist.twice
      BY <1>1, <1>4, <2>1, <2>3 DEF Keeps
    <3>2. Unlisted(v)
      BY <3>1 DEF GoneInv
    <3>3. QED
      BY <1>2, <2>3, <3>2
  <2>4. ASSUME NEW q \in Procs, pc'[q] \in {"count", "post"}, loc'[q].vote \in hist'.gone
        PROVE  loc'[q].vote \in hist'.twice
    <3>1. q # p /\ pc[q] \in {"count", "post"} /\ loc'[q].vote = loc[q].vote
      BY <1>1, <2>4 DEF Keeps, After
    <3>2. CASE loc[q].vote \in hist.gone
      BY <2>1, <3>1, <3>2 DEF GoneInv
    <3>3. CASE loc[q].vote = loc[p].vote
      BY <2>1, <3>1, <3>3 DEF PairInv, Closing
    <3>4. QED
      BY <2>1, <2>4, <3>1, <3>2, <3>3
  <2>5. \A q \in Procs : loc'[q].vote \in Vote
    BY <1>1, Own DEF Keeps
  <2>6. QED
    BY <2>2, <2>3, <2>4, <2>5 DEF GoneInv
<1>5. CASE pc'[p] = "delfiles"
  <2>1. hist'.gone = hist.gone
    BY <1>5, BoxCloses, DelFilesFacts
  <2>2. ASSUME NEW v \in hist'.gone \ hist'.twice PROVE Unlisted(v)'
    <3>1. v \in Vote /\ v \notin hist.twice /\ v \in hist.gone
      BY <1>1, <2>1 DEF TypeOK, Histories
    <3>2. QED
      BY <1>2, <2>2, <3>1 DEF GoneInv
  <2>3. ASSUME NEW q \in Procs, pc'[q] = "delfiles", loc'[q].vote \notin hist'.twice,
               NEW v \in Vote, v = loc'[q].vote
        PROVE  Unlisted(v)'
    <3>1. CASE q # p
      <4>1. pc[q] = "delfiles" /\ loc[q].vote = v /\ v \notin hist.twice
        BY <1>1, <2>3, <3>1 DEF Keeps
      <4>2. Unlisted(v)
        BY <4>1 DEF GoneInv
      <4>3. QED
        BY <1>2, <2>3, <4>2
    <3>2. CASE q = p
      <4>1. v = loc[p].vote /\ ~DelFails(p)
        BY <1>1, <2>3, <3>2, DelFailsFacts
      <4>2. Rename2(p)
        <5>1. ASSUME ~Rename2(p) PROVE pc'[p] # "delfiles"
          BY <4>1, <5>1, DeleFacts, FoundFacts, DelOpenFacts, DelTmpFacts, DelCopyFacts,
             Rename1Facts, DelFilesFacts DEF Closes, Searches
        <5>2. QED
          BY <1>5, <5>1
      <4>3. /\ UNCHANGED inode /\ pc[p] = "ren2" /\ control' = tmp
            /\ loc[p].raced => 1..MaxVotes \subseteq hist'.twice
        BY <4>2, Rename2Facts
      <4>4. tmp \in File
        BY <4>3 DEF TmpInv, Copying, TypeOK, File
      <4>5. v \notin Rng(inode[tmp])
        <5>1. CASE loc[p].raced
          <6>1. v = 0
            BY <2>3, <4>3, <5>1 DEF Vote
          <6>2. QED
            BY <4>4, <6>1, LinesFacts
        <5>2. CASE ~loc[p].raced
          BY <4>1, <4>3, <5>2 DEF DelInv, Removes
        <5>3. QED
          BY <5>1, <5>2
      <4>6. \A r \in Procs : pc'[r] \notin {"ren1", "ren2"}
        BY <1>1, <1>5, <4>3 DEF TmpInv, Copying, Keeps
      <4>7. QED
        BY <4>3, <4>5, <4>6 DEF Unlisted
    <3>3. QED
      BY <3>1, <3>2
  <2>4. ASSUME NEW q \in Procs, pc'[q] \in {"count", "post"}, loc'[q].vote \in hist'.gone
        PROVE  loc'[q].vote \in hist'.twice
    BY <1>1, <1>5, <2>1, <2>4 DEF GoneInv, Keeps
  <2>5. \A q \in Procs : loc'[q].vote \in Vote
    BY <1>1, Own DEF Keeps
  <2>6. QED
    BY <2>2, <2>3, <2>4, <2>5 DEF GoneInv
<1>6. QED
  BY <1>3, <1>4, <1>5

LEMMA GoneOpens ==
    ASSUME TypeOK, TmpInv, FreshInv, GoneInv, NEW p \in Procs, Opens(p) PROVE GoneInv'
<1>1. /\ Keeps(p) /\ hist'.gone = hist.gone /\ hist'.twice = hist.twice
      /\ pc'[p] \notin {"delfiles", "count", "post"}
  <2>1. CASE OpenVote(p)
    BY <2>1, OpenVoteFacts, AloneKeeps
  <2>2. CASE OpenFile(p) \/ OpenWrite(p)
    <3>1. hist' = hist
      BY <2>2, OpenFileFacts, OpenWriteFacts
    <3>2. QED
      BY <2>2, <3>1, OpenFileFacts, OpenWriteFacts, WarnedKeeps
  <2>3. QED
    BY <2>1, <2>2 DEF Opens
<1>2. ASSUME NEW v \in Vote, Unlisted(v),
             v \in hist.gone \/ \E q \in Procs \ {p} : loc[q].vote = v
      PROVE  Unlisted(v)'
  <2>1. pc[p] \in Opening => v # loc[p].vote
    BY <1>2 DEF FreshInv
  <2>2. QED
    BY <1>2, <2>1, UnlistedOpens
<1>3. QED
  BY <1>1, <1>2, GoneKeeps

(* The flag of the board. *)
LEMMA FlagQuiet ==
    ASSUME TypeOK, FlagInv, NEW p \in Procs, Quiet(p) PROVE FlagInv'
<1>1. /\ Keeps(p) /\ pc'[p] \notin Opening \cup Deleting /\ Lines(control)' = Lines(control)
  BY QuietKeeps DEF Quiet, Lines
<1>2. SUFFICES ASSUME ~voteflag', ~hist'.flag
               PROVE  Lines(control) = <<>> /\ \A q \in Procs : pc[q] \notin Opening \cup Deleting
                         \/ q = p
  BY <1>1 DEF FlagInv, Keeps
<1>3. CASE UNCHANGED voteflag /\ hist'.flag = hist.flag
  BY <1>2, <1>3 DEF FlagInv
<1>4. CASE Lines(control) = <<>> /\ (~hist'.flag => ~FlagRaced)
  BY <1>2, <1>4 DEF FlagRaced, Opening
<1>5. QED
  BY <1>3, <1>4 DEF Quiet

LEMMA FlagCloses ==
    ASSUME TypeOK, TmpInv, FlagInv, NEW p \in Procs, Closes(p) PROVE FlagInv'
<1>1. Keeps(p) /\ UNCHANGED voteflag /\ hist'.flag = hist.flag
  BY ClosesFacts DEF Goes
<1>2. SUFFICES ASSUME Lines(control) = <<>>, \A q \in Procs : pc[q] \notin Opening \cup Deleting
               PROVE  Lines(control)' = <<>> /\ pc'[p] \notin Opening \cup Deleting
  BY <1>1 DEF FlagInv, Keeps
<1>3. Searches(p) \/ DelFiles(p)
  <2>1. ~Finds(p)
    <3>1. SUFFICES ASSUME Finds(p) PROVE FALSE
      OBVIOUS
    <3>2. control # 0 /\ loc[p].num \in DOMAIN inode[control]
      BY <3>1, FoundFacts
    <3>3. QED
      BY <1>2, <3>2 DEF Lines
  <2>2. pc[p] \notin {"delopen", "deltmp", "delcopy", "ren1", "ren2"}
    BY <1>2 DEF Deleting
  <2>3. QED
    BY <2>1, <2>2, DelOpenFacts, DelFailsFacts, DelTmpFacts, DelCopyFacts, Rename1Facts,
       Rename2Facts DEF Closes
<1>4. UNCHANGED <<inode, control>> /\ pc'[p] \in {"dele", "delend"}
  BY <1>3, DeleFacts, DelFilesFacts DEF Searches
<1>5. Lines(control)' = Lines(control)
  BY <1>4 DEF Lines
<1>6. QED
  BY <1>2, <1>4, <1>5 DEF Opening, Deleting

LEMMA FlagOpens ==
    ASSUME TypeOK, TmpInv, FlagInv, NEW p \in Procs, Opens(p) PROVE FlagInv'
<1>1. CASE OpenVote(p)
  BY <1>1, OpenVoteFacts DEF FlagInv
<1>2. CASE OpenFile(p) \/ OpenWrite(p)
  <2>1. pc[p] \in Opening /\ UNCHANGED <<voteflag, hist>>
    BY <1>2, OpenFileFacts, OpenWriteFacts DEF Opening
  <2>2. QED
    BY <2>1 DEF FlagInv
<1>3. QED
  BY <1>1, <1>2 DEF Opens

-----------------------------------------------------------------------------
(***************************************************************************)
(* The whole invariant.                                                    *)
(***************************************************************************)
LEMMA InitInv == Init => IInv
<1> SUFFICES ASSUME Init PROVE IInv
  OBVIOUS
<1>1. opened \in Nat /\ opened <= MaxVotes
  BY DEF Init
<1>2. ASSUME NEW f \in File
      PROVE  /\ inode[f] = IF f = 1 THEN [v \in 1..opened |-> v] ELSE <<>>
             /\ inode[f] \in Seq(Vote)
  <2>1. [v \in 1..opened |-> v] \in Seq(Vote)
    <3>1. [v \in 1..opened |-> v] \in [1..opened -> Vote]
      BY <1>1 DEF Vote
    <3>2. QED
      BY <1>1, <3>1, SeqDef
  <2>2. <<>> \in Seq(Vote)
    OBVIOUS
  <2>3. QED
    BY <2>1, <2>2 DEF Init
<1>3. \A p \in Procs : pc[p] = "idle" /\ loc[p] = NoLocals
  BY DEF Init
<1>4. \A p \in Procs : /\ loc[p].vote = 0 /\ loc[p].meant = 0 /\ ~loc[p].counted
  BY <1>3 DEF NoLocals
<1>5. hist.gone = {} /\ hist.twice = {} /\ hist.late = {} /\ hist.flag = FALSE
  BY DEF Init, NoHistory
<1>6. TypeOK
  <2>1. LocTypes
    BY NoLocalsType DEF Init, LocTypes, Where
  <2>2. ListTypes
    <3>1. inode \in [File -> Seq(Vote)]
      BY <1>2 DEF Init
    <3>2. control \in 0..MaxFiles /\ tmp \in 0..MaxFiles
      BY DEF Init
    <3>3. QED
      BY <3>1, <3>2 DEF ListTypes
  <2>3. BoxTypes
    BY DEF Init, BoxTypes, None, Vote
  <2>4. FlagTypes
    <3>1. voteflag = (opened > 0) /\ due = FALSE
      BY DEF Init
    <3>2. (opened > 0) \in BOOLEAN /\ FALSE \in BOOLEAN
      OBVIOUS
    <3>3. QED
      BY <3>1, <3>2, Zenon DEF FlagTypes
  <2>5. HistTypes
    BY DEF Init, HistTypes, Histories, NoHistory
  <2>6. QED
    BY <2>1, <2>2, <2>3, <2>4, <2>5, TypeParts
<1>7. FlagInv
  <2>1. ASSUME ~voteflag PROVE Lines(control) = <<>>
    <3>1. ~(opened > 0)
      BY <2>1, Zenon DEF Init
    <3>2. opened = 0
      BY <1>1, <3>1
    <3>3. QED
      BY <3>2 DEF Init, Lines
  <2>2. QED
    BY <1>3, <2>1 DEF FlagInv, Opening, Deleting
<1>8. TmpInv
  BY <1>3 DEF TmpInv, Init, Copying
<1>9. LinesInv
  <2>1. ASSUME NEW f \in File, NEW i \in DOMAIN inode[f]
        PROVE  /\ inode[f][i] \in 1..opened
               /\ \A j \in DOMAIN inode[f] : inode[f][i] = inode[f][j] => i = j
    <3>1. CASE f = 1
      <4>1. inode[f] = [v \in 1..opened |-> v]
        BY <1>2, <3>1
      <4>2. QED
        BY <2>1, <4>1
    <3>2. CASE f # 1
      <4>1. inode[f] = <<>>
        BY <1>2, <3>2
      <4>2. QED
        BY <2>1, <4>1
    <3>3. QED
      BY <3>1, <3>2
  <2>2. QED
    BY <1>1, <1>4, <1>5, <2>1 DEF LinesInv
<1>10. FreshInv /\ DelInv /\ WebInv
  BY <1>3 DEF FreshInv, DelInv, WebInv, Removes, Opening
<1>11. PairInv /\ CountedInv /\ PutInv
  BY <1>3, <1>4 DEF PairInv, CountedInv, Counts, PutInv, Closing, Deleting
<1>12. GoneInv
  BY <1>3, <1>5 DEF GoneInv
<1>13. QED
  BY <1>6, <1>7, <1>8, <1>9, <1>10, <1>11, <1>12 DEF IInv

LEMMA CalmInv == ASSUME IInv, TypeOK', Calm PROVE IInv'
<1>1. /\ UNCHANGED <<inode, control, tmp, opened, box, voteflag, result, pc, loc, hist>>
  BY DEF Calm
<1>2. FlagInv' /\ TmpInv' /\ LinesInv' /\ FreshInv'
  BY <1>1 DEF IInv, FlagInv, TmpInv, LinesInv, FreshInv, Lines
<1>3. DelInv' /\ WebInv'
  BY <1>1 DEF IInv, DelInv, WebInv, Removes, Shows
<1>4. PairInv' /\ CountedInv' /\ PutInv'
  BY <1>1 DEF IInv, PairInv, CountedInv, Counts, PutInv, Places
<1>5. GoneInv'
  BY <1>1 DEF IInv, GoneInv, Unlisted
<1>6. QED
  BY <1>2, <1>3, <1>4, <1>5 DEF IInv

(* Sessions that leave the list alone. *)
LEMMA QuietInv ==
    ASSUME IInv, TypeOK', NEW p \in Procs, Mild(p) \/ Put(p) \/ Begins(p) \/ Count(p) \/ Post(p)
    PROVE  IInv'
<1> USE DEF IInv
<1>1. Quiet(p)
  BY PutFacts, CountFacts, PostFacts DEF Mild, Plain, Begins
<1>2. FlagInv' /\ TmpInv' /\ LinesInv' /\ FreshInv' /\ DelInv'
  BY <1>1, FlagQuiet, TmpQuiet, LinesQuiet, FreshQuiet, DelQuiet
<1>3. CASE Mild(p)
  <2>1. Plain(p) /\ Keeps(p) /\ hist.twice \subseteq hist'.twice /\ pc'[p] \notin Closing
    BY <1>3, QuietKeeps DEF Mild, Plain, Quiet
  <2>2. WebInv' /\ PutInv' /\ PairInv'
    BY <2>1, WebPlain, PutPlain, PairKeeps
  <2>3. CountedInv'
    BY <1>3, CountedMild
  <2>4. GoneInv'
    BY <1>1, <2>1, GoneQuiet DEF Closing
  <2>5. QED
    BY <1>2, <2>2, <2>3, <2>4
<1>4. CASE Put(p) \/ Begins(p) \/ Count(p) \/ Post(p)
  <2>1. /\ Keeps(p) /\ UNCHANGED <<inode, control, tmp>> /\ hist.twice \subseteq hist'.twice
        /\ hist'.gone = hist.gone
    BY <1>1, QuietKeeps DEF Quiet
  <2>2. pc'[p] \notin {"webform", "ren2", "put"}
    BY <1>4, PutFacts, CountFacts, PostFacts DEF Begins
  <2>3. WebInv'
    BY <2>1, <2>2, WebStill
  <2>4. PutInv'
    <3>1. CASE Put(p)
      BY <3>1, PutPut
    <3>2. CASE ~Put(p)
      <4>1. UNCHANGED box
        BY <1>4, <3>2, CountFacts, PostFacts DEF Begins
      <4>2. QED
        BY <2>1, <2>2, <4>1, PutKeeps
    <3>3. QED
      BY <3>1, <3>2
  <2>5. PairInv'
    <3>1. CASE Begins(p)
      BY <3>1, PairBegins
    <3>2. CASE Put(p) \/ Count(p) \/ Post(p)
      <4>1. pc'[p] \in Closing => pc[p] \in Closing /\ loc'[p].vote = loc[p].vote
        BY <3>2, PutFacts, CountFacts, PostFacts DEF Closing, Deleting
      <4>2. QED
        BY <2>1, <4>1, PairKeeps
    <3>3. QED
      BY <1>4, <3>1, <3>2
  <2>6. CountedInv'
    BY <1>4, CountedMild, CountedPut, CountedCount
  <2>7. GoneInv'
    BY <1>4, GoneBegins, GoneCount
  <2>8. QED
    BY <1>2, <2>3, <2>4, <2>5, <2>6, <2>7
<1>5. QED
  BY <1>3, <1>4

LEMMA ClosesInv == ASSUME IInv, TypeOK', NEW p \in Procs, Closes(p) PROVE IInv'
<1> USE DEF IInv
<1>1. PairInv'
  <2>1. /\ Keeps(p) /\ hist.twice \subseteq hist'.twice /\ pc[p] \in Closing
        /\ loc'[p].vote = loc[p].vote
    BY ClosesFacts DEF Goes, After
  <2>2. QED
    BY <2>1, PairKeeps
<1>2. FlagInv' /\ TmpInv' /\ LinesInv' /\ FreshInv' /\ DelInv' /\ WebInv'
  BY FlagCloses, TmpCloses, LinesCloses, FreshCloses, DelCloses, WebCloses
<1>3. CountedInv' /\ PutInv' /\ GoneInv'
  BY CountedCloses, PutCloses, GoneCloses
<1>4. QED
  BY <1>1, <1>2, <1>3

LEMMA OpensInv == ASSUME IInv, TypeOK', NEW p \in Procs, Opens(p) PROVE IInv'
<1> USE DEF IInv
<1>1. PairInv'
  <2>1. Keeps(p) /\ hist'.twice = hist.twice /\ pc'[p] \notin Closing
    <3>1. CASE OpenVote(p)
      BY <3>1, OpenVoteFacts, AloneKeeps DEF Closing, Deleting
    <3>2. CASE OpenFile(p) \/ OpenWrite(p)
      <4>1. hist' = hist
        BY <3>2, OpenFileFacts, OpenWriteFacts
      <4>2. QED
        BY <3>2, <4>1, OpenFileFacts, OpenWriteFacts, WarnedKeeps DEF Closing, Deleting
    <3>3. QED
      BY <3>1, <3>2 DEF Opens
  <2>2. QED
    BY <2>1, PairKeeps
<1>2. FlagInv' /\ TmpInv' /\ LinesInv' /\ FreshInv' /\ DelInv' /\ WebInv'
  BY FlagOpens, TmpOpens, LinesOpens, FreshOpens, DelOpens, WebOpens
<1>3. CountedInv' /\ PutInv' /\ GoneInv'
  BY CountedOpens, PutOpens, GoneOpens
<1>4. QED
  BY <1>1, <1>2, <1>3

LEMMA NextInv == IInv /\ [Next]_vars => IInv'
<1> SUFFICES ASSUME IInv, [Next]_vars PROVE IInv'
  OBVIOUS
<1>1. /\ TypeOK'
      /\ \/ Calm
         \/ \E p \in Procs : \/ Mild(p) \/ Put(p) \/ Begins(p) \/ Count(p) \/ Post(p)
                             \/ Closes(p) \/ Opens(p)
  BY Kinds DEF IInv
<1>2. QED
  BY <1>1, CalmInv, QuietInv, ClosesInv, OpensInv

LEMMA Inductive == Spec => []IInv
<1>1. QED
  BY InitInv, NextInv, PTL DEF Spec

LEMMA OpensKeeps ==
    ASSUME TypeOK, TmpInv, NEW p \in Procs, Opens(p)
    PROVE  Keeps(p) /\ pc[p] \in {"idle", "list", "open", "openwrite"}
                    /\ pc'[p] \in {"idle", "list", "open", "openwrite"}
  BY OpenVoteFacts, OpenFileFacts, OpenWriteFacts, AloneKeeps, WarnedKeeps DEF Opens

-----------------------------------------------------------------------------
(***************************************************************************)
(* What the votes of a board promise.                                      *)
(***************************************************************************)

(* Types are right; when nobody is at work the board shows its flag as long*)
(* as votes are open; and no result is posted for a vote whose box is gone,*)
(* unless two closed it at once or one of them failed.                     *)
THEOREM VotesAreRight == Spec => []VotesRight
<1>1. IInv => VotesRight
  <2> SUFFICES ASSUME IInv PROVE VotesRight
    OBVIOUS
  <2>1. TypeOK
    BY DEF IInv
  <2>2. FlagRight
    <3>1. SUFFICES ASSUME \A p \in Procs : pc[p] \notin {"open", "openwrite"} \cup Closing,
                          Listed # <<>>
                   PROVE  voteflag \/ hist.flag
      BY DEF FlagRight
    <3>2. Listed = Lines(control)
      BY <3>1 DEF Listed, Closing, Deleting
    <3>3. QED
      BY <3>1, <3>2 DEF IInv, FlagInv
  <2>3. NoEmptyResult
    BY DEF NoEmptyResult, IInv, GoneInv
  <2>4. QED
    BY <2>1, <2>2, <2>3 DEF VotesRight
<1>2. QED
  BY <1>1, Inductive, PTL

(* Whatever is in a box that is removed after a result has been counted, or*)
(* came while the result was made.                                         *)
THEOREM BallotsAreCounted == Spec => NoneUncounted
<1> DEFINE A == \A p \in Procs : pc[p] = "delfiles" /\ pc'[p] = "delend" /\ loc[p].counted =>
                   \A b \in Rng(box[loc[p].vote]) \ {Hole} :
                       b \in result[loc[p].vote] \/ <<loc[p].vote, b.uid>> \in hist.late
<1>1. IInv => [A]_vars
  <2>1. IInv => A
    BY DEF IInv, CountedInv, Counts
  <2>2. QED
    BY <2>1
<1>2. NoneUncounted <=> [][A]_vars
  BY DEF NoneUncounted
<1> HIDE DEF A
<1>3. QED
  BY <1>1, <1>2, Inductive, PTL

(* Only Put writes a ballot. *)
LEMMA BallotsPut ==
    ASSUME Next, ballots' # ballots
    PROVE  \E p \in Procs : Put(p)
<1>1. ~Tick /\ \A v \in Vote : ~Expire(v)
  BY DEF Tick, Expire, bounds
<1>2. ASSUME NEW p \in Procs, Step(p) PROVE Put(p)
  BY <1>2 DEF Step, OpenFile, OpenWrite, PollSet, PollNext, PollEnd, Count, Post, DeleFind,
        DeleNone, DelOpen, DelFails, DelTmp, DelCopy, Rename1, Rename2, DelFiles, DelEnd, bounds
<1>3. ASSUME NEW p \in Procs
      PROVE  ~(\/ BVoteNone(p) \/ BVote(p) \/ Leave(p) \/ UserVote(p) \/ Abort(p) \/ FillIn(p)
               \/ WebForm(p) \/ WebPost(p) \/ WebRefused(p)
               \/ OpenVote(p) \/ PollCheck(p) \/ CloseEarly(p) \/ Kill(p))
  BY DEF BVoteNone, BVote, Leave, UserVote, Abort, FillIn, WebForm, WebPost, WebRefused,
        OpenVote, PollCheck, CloseEarly, Kill, bounds
<1>4. QED
  BY <1>1, <1>2, <1>3 DEF Next

(* A ballot at a known place replaces one of the same user; a first ballot *)
(* is the only one.                                                        *)
LEMMA PutAtCount ==
    ASSUME NEW S, Hole \in S, NEW s \in Seq(S), NEW n \in Nat, NEW b \in S, NEW u, b.uid = u,
           n = 0 => \A i \in DOMAIN s : s[i].uid # u,
           n # 0 => n \in DOMAIN s /\ s[n].uid = u
    PROVE  LET c == Cardinality({i \in DOMAIN s : s[i].uid = u})
               d == Cardinality({i \in DOMAIN PutAt(s, n, b) : PutAt(s, n, b)[i].uid = u})
           IN  ~(d > c /\ d > 1)
<1> DEFINE t == PutAt(s, n, b)
           I == {i \in DOMAIN s : s[i].uid = u}
           J == {i \in DOMAIN t : t[i].uid = u}
<1>a. n = 0 => DOMAIN t = 1..(Len(s) + 1)
  BY PutAtFacts
<1>b. n # 0 => DOMAIN t = 1..(IF n > Len(s) THEN n ELSE Len(s))
  BY PutAtFacts
<1>c. \A i \in DOMAIN t : t[i] = IF i = n \/ (n = 0 /\ i > Len(s)) THEN b
                                 ELSE IF i <= Len(s) THEN s[i] ELSE Hole
  BY PutAtFacts
<1>1. /\ n = 0 => DOMAIN t = 1..(Len(s) + 1)
      /\ n # 0 => DOMAIN t = 1..Len(s)
  <2>1. n # 0 => n <= Len(s)
    OBVIOUS
  <2> HIDE DEF t
  <2>2. QED
    BY <1>a, <1>b, <2>1
<1>2. \A i \in DOMAIN t : t[i] = IF i = n \/ (n = 0 /\ i > Len(s)) THEN b
                                 ELSE IF i <= Len(s) THEN s[i] ELSE Hole
  BY <1>c, Zenon
<1>3. DOMAIN s = 1..Len(s) /\ Len(s) \in Nat
  OBVIOUS
<1> HIDE DEF t
<1>4. CASE n = 0
  <2>1. J = {Len(s) + 1}
    BY <1>1, <1>2, <1>3, <1>4
  <2>2. Cardinality(J) = 1
    BY <2>1, FS_Singleton
  <2>3. QED
    BY <2>2 DEF t
<1>5. CASE n # 0
  <2>1. J = I
    <3>1. DOMAIN t = DOMAIN s /\ n \in DOMAIN s /\ s[n].uid = u
      BY <1>1, <1>3, <1>5
    <3>2. ASSUME NEW i \in DOMAIN s PROVE t[i].uid = u <=> s[i].uid = u
      <4>1. CASE i = n
        BY <1>2, <3>1, <4>1
      <4>2. CASE i # n
        <5>1. t[i] = s[i]
          BY <1>2, <1>3, <1>5, <3>1, <4>2
        <5>2. QED
          BY <5>1
      <4>3. QED
        BY <4>1, <4>2
    <3>3. QED
      BY <3>1, <3>2
  <2>2. IsFiniteSet(I)
    <3>1. IsFiniteSet(1..Len(s))
      BY <1>3, FS_Interval
    <3>2. I \subseteq 1..Len(s)
      BY <1>3
    <3>3. QED
      BY <3>1, <3>2, FS_Subset
  <2>3. Cardinality(I) \in Nat
    BY <2>2, FS_CardinalityType
  <2>4. Cardinality(J) = Cardinality(I)
    BY <2>1
  <2> HIDE DEF I, J
  <2>. DEFINE c == Cardinality(I)
              d == Cardinality(J)
  <2>5. c \in Nat /\ d = c
    BY <2>3, <2>4
  <2> HIDE DEF c, d
  <2>6. ~(d > c)
    BY <2>5
  <2>7. QED
    BY <2>6 DEF t, I, J, c, d
<1>6. QED
  BY <1>4, <1>5

(* A user gets a second ballot into a box only through two sessions that   *)
(* both look before either writes; and the web puts a ballot into the box  *)
(* whose form it showed, unless the list has changed before that line.     *)
THEOREM BallotsAreRight == Spec => BallotsRight
<1> DEFINE First(p) == pc[p] = "put" /\ pc'[p] # "put" /\ ballots' # ballots =>
                \A u \in {UserOf[p]}, v \in {loc[p].vote} :
                    Of(u, v)' > Of(u, v) /\ Of(u, v)' > 1 => loc[p].raced \/ v \in hist.gone
           Second(p) == p \in Web /\ pc[p] = "webform" /\ pc'[p] = "put" =>
                loc'[p].vote = loc[p].meant \/ loc[p].raced
           A == \A p \in Procs :
                /\ pc[p] = "put" /\ pc'[p] # "put" /\ ballots' # ballots =>
                      \A u \in {UserOf[p]}, v \in {loc[p].vote} :
                          Of(u, v)' > Of(u, v) /\ Of(u, v)' > 1 => loc[p].raced \/ v \in hist.gone
                /\ p \in Web /\ pc[p] = "webform" /\ pc'[p] = "put" =>
                      loc'[p].vote = loc[p].meant \/ loc[p].raced
<1>1. ASSUME IInv, Next, NEW p \in Procs PROVE First(p)
  <2> SUFFICES ASSUME pc[p] = "put", pc'[p] # "put", ballots' # ballots,
                      NEW u \in {UserOf[p]}, NEW v \in {loc[p].vote},
                      ~loc[p].raced, v \notin hist.gone
               PROVE  ~(Of(u, v)' > Of(u, v) /\ Of(u, v)' > 1)
    OBVIOUS
  <2>0. TypeOK /\ PutInv
    BY <1>1 DEF IInv
  <2>1. PICK q \in Procs : Put(q)
    BY <1>1, BallotsPut
  <2>2. q = p
    BY <2>0, <2>1, PutFacts DEF Quiet
  <2> DEFINE s == box[v]
             n == loc[p].pos
             b == [uid |-> UserOf[p], voted |-> loc[p].ballot]
             S == Ballot \cup {Hole}
  <2>3. Hole \in S /\ s \in Seq(S) /\ n \in Nat /\ b \in S /\ b.uid = u
    BY <2>0, <2>1, <2>2, PutFacts, Own DEF TypeOK
  <2>4. box'[v] = PutAt(s, n, b)
    <3>1. box' = [box EXCEPT ![loc[p].vote] = PutAt(@, n, b)]
      BY <2>0, <2>1, <2>2, PutFacts
    <3>2. loc[p].vote \in Vote /\ box \in [Vote -> Seq(S)]
      BY <2>0, Own DEF TypeOK
    <3> HIDE DEF n, b, S
    <3>3. QED
      BY <3>1, <3>2
  <2>5. /\ n = 0 => \A i \in DOMAIN s : s[i].uid # u
        /\ n # 0 => n \in DOMAIN s /\ s[n].uid = u
    BY <2>0 DEF PutInv, Places
  <2>6. /\ Of(u, v) = Cardinality({i \in DOMAIN s : s[i].uid = u})
        /\ Of(u, v)' = Cardinality({i \in DOMAIN PutAt(s, n, b) : PutAt(s, n, b)[i].uid = u})
    BY <2>4 DEF Of
  <2> HIDE DEF s, n, b, S
  <2>7. QED
    BY <2>3, <2>5, <2>6, PutAtCount
<1>2. ASSUME IInv, Next, NEW p \in Procs PROVE Second(p)
  <2> SUFFICES ASSUME pc[p] = "webform", pc'[p] = "put", ~loc[p].raced
               PROVE  loc'[p].vote = loc[p].meant
    OBVIOUS
  <2>0. TypeOK /\ TmpInv /\ WebInv
    BY <1>2 DEF IInv
  <2>1. WebPost(p)
    <3>1. PICK q \in Procs : \/ Mild(q) \/ Put(q) \/ Begins(q) \/ Count(q) \/ Post(q)
                             \/ Closes(q) \/ Opens(q)
      BY <1>2, <2>0, Kinds DEF Calm
    <3>2. q = p
      <4>1. Keeps(q)
        <5>1. CASE Mild(q) \/ Put(q) \/ Begins(q) \/ Count(q) \/ Post(q)
          <6>1. Quiet(q)
            BY <2>0, <5>1, PutFacts, CountFacts, PostFacts DEF Mild, Plain, Begins
          <6>2. QED
            BY <2>0, <6>1, QuietKeeps
        <5>2. CASE Closes(q) \/ Opens(q)
          BY <2>0, <5>2, ClosesFacts, OpensKeeps
        <5>3. QED
          BY <3>1, <5>1, <5>2
      <4>2. QED
        BY <4>1 DEF Keeps
    <3>3. ~(Put(p) \/ Count(p) \/ Post(p)) /\ ~Begins(p)
      BY <2>0, PutFacts, CountFacts, PostFacts DEF Begins
    <3>4. ~Closes(p) /\ ~Opens(p)
      BY <2>0, ClosesFacts, OpensKeeps DEF Goes, After, Closing, Deleting
    <3>5. QED
      BY <3>1, <3>2, <3>3, <3>4 DEF Mild
  <2>2. control # 0 /\ loc[p].num \in DOMAIN inode[control]
           /\ Lines(control)[loc[p].num] = inode[control][loc[p].num]
    BY <2>1 DEF WebPost, Lines
  <2>3. inode[control][loc[p].num] = loc[p].meant
    BY <2>0, <2>2 DEF WebInv, Shows
  <2>4. loc'[p].vote = Lines(control)[loc[p].num]
    <3>1. loc \in [Procs -> Locals]
      BY <2>0 DEF TypeOK
    <3>2. QED
      BY <2>1, <3>1 DEF WebPost, Locals
  <2>5. QED
    BY <2>2, <2>3, <2>4
<1>3. BallotsRight <=> [][A]_vars
  BY DEF BallotsRight
<1>4. IInv /\ [Next]_vars => [A]_vars
  BY <1>1, <1>2
<1> HIDE DEF A
<1>5. QED
  BY <1>3, <1>4, Inductive, PTL DEF Spec

(* The list of votes, when it is left alone. *)
LEMMA ListedStill ==
    ASSUME UNCHANGED <<inode, control, tmp>>,
           (\E q \in Procs : pc[q] = "ren2") <=> (\E q \in Procs : pc'[q] = "ren2")
    PROVE  Listed' = Listed
  BY DEF Listed, Lines

LEMMA ListedQuiet ==
    ASSUME TypeOK, NEW p \in Procs, Mild(p) \/ Put(p) \/ Begins(p) \/ Count(p) \/ Post(p)
    PROVE  Listed' = Listed \/ (pc[p] = "ren2" /\ pc'[p] = "idle")
<1>1. Quiet(p)
  BY PutFacts, CountFacts, PostFacts DEF Mild, Plain, Begins
<1>2. /\ UNCHANGED <<inode, control, tmp>> /\ pc'[p] # "ren2"
      /\ \A q \in Procs \ {p} : pc'[q] = pc[q]
  BY <1>1 DEF Quiet, Deleting
<1>3. CASE pc[p] = "ren2"
  <2>1. Mild(p)
    BY <1>3, PutFacts, CountFacts, PostFacts DEF Begins, Closing, Deleting
  <2>2. QED
    BY <1>3, <2>1 DEF Mild, Deleting
<1>4. CASE pc[p] # "ren2"
  BY <1>2, <1>4, ListedStill
<1>5. QED
  BY <1>3, <1>4

LEMMA ListedCloses ==
    ASSUME TypeOK, TmpInv, DelInv, NEW p \in Procs, Closes(p), NEW v \in Rng(Listed), v \notin Rng(Listed')
    PROVE  pc[p] = "ren1" /\ pc'[p] = "ren2" /\ (loc[p].vote = v \/ loc[p].raced)
<1>0. Goes(p) /\ Keeps(p)
  BY ClosesFacts
<1>1. \A q \in Procs \ {p} : pc'[q] = pc[q]
  BY <1>0 DEF Keeps
<1>2. CASE Searches(p) \/ Finds(p) \/ DelOpen(p) \/ DelFails(p) \/ DelFiles(p)
  <2>1. pc[p] # "ren2" /\ pc'[p] # "ren2"
    <3>1. CASE Searches(p)
      <4>1. pc[p] = "dele"
        BY <3>1 DEF Searches, DeleNone, DeleFind
      <4>2. QED
        BY <3>1, <4>1, DeleFacts DEF Searches
    <3>2. CASE Finds(p) \/ DelOpen(p) \/ DelFails(p) \/ DelFiles(p)
      BY <3>2, FoundFacts, DelOpenFacts, DelFailsFacts, DelFilesFacts
    <3>3. QED
      BY <1>2, <3>1, <3>2
  <2>2. UNCHANGED <<inode, control, tmp>>
    BY <1>2, DeleFacts, FoundFacts, DelOpenFacts, DelFailsFacts, DelFilesFacts DEF Searches
  <2>3. QED
    BY <1>1, <2>1, <2>2, ListedStill
<1>3. CASE DelTmp(p)
  <2>1. /\ pc[p] = "deltmp" /\ pc'[p] = "delcopy" /\ tmp = 0 /\ control' = control
        /\ tmp' # control /\ inode' = [inode EXCEPT ![tmp'] = <<>>]
    BY <1>3, DelTmpFacts
  <2>2. \A q \in Procs : pc[q] # "ren2"
    BY <2>1 DEF TmpInv, Copying
  <2>3. \A q \in Procs : pc'[q] # "ren2"
    BY <1>1, <2>1, <2>2
  <2>4. Lines(control)' = Lines(control)
    BY <2>1 DEF Lines, TypeOK
  <2>5. QED
    BY <2>2, <2>3, <2>4 DEF Listed
<1>4. CASE DelCopy(p)
  <2>1. /\ pc[p] = "delcopy" /\ pc'[p] = "ren1" /\ UNCHANGED <<control, tmp>>
        /\ inode' = [inode EXCEPT ![tmp] = Without(inode[loc[p].file], loc[p].num)]
    BY <1>4, DelCopyFacts
  <2>2. tmp # control /\ \A q \in Procs : pc[q] # "ren2"
    BY <2>1 DEF TmpInv, Copying
  <2>3. \A q \in Procs : pc'[q] # "ren2"
    BY <1>1, <2>1, <2>2
  <2>4. Lines(control)' = Lines(control)
    BY <2>1, <2>2 DEF Lines, TypeOK
  <2>5. QED
    BY <2>2, <2>3, <2>4 DEF Listed
<1>5. CASE Rename1(p)
  <2>1. /\ pc[p] = "ren1" /\ pc'[p] = "ren2" /\ control \in File /\ tmp' = tmp
        /\ inode' = inode \/ inode' = [inode EXCEPT ![control] = <<>>]
    BY <1>5, Rename1Facts
  <2>2. tmp # 0 /\ control # 0 /\ tmp # control /\ \A q \in Procs : pc[q] # "ren2"
    BY <2>1 DEF TmpInv, Copying
  <2>3. Listed = inode[control]
    BY <2>2 DEF Listed, Lines
  <2>4. Listed' = inode[tmp]
    <3>1. inode'[tmp] = inode[tmp]
      <4>1. inode \in [File -> Seq(Vote)] /\ tmp \in File
        BY <2>2 DEF TypeOK, File
      <4>2. QED
        BY <2>1, <2>2, <4>1
    <3>2. Listed' = Lines(tmp)'
      BY <2>1 DEF Listed
    <3>3. QED
      BY <2>1, <2>2, <3>1, <3>2 DEF Lines
  <2>5. CASE ~loc[p].raced
    <3>1. /\ loc[p].num \in DOMAIN inode[control] /\ inode[control][loc[p].num] = loc[p].vote
          /\ inode[tmp] = Without(inode[control], loc[p].num)
      BY <2>1, <2>2, <2>5 DEF DelInv, Removes
    <3>2. inode[control] \in Seq(Vote) /\ loc[p].num \in Nat
      BY <2>1, Own DEF TypeOK, Locals
    <3>3. Rng(inode[control]) \subseteq Rng(inode[tmp]) \cup {loc[p].vote}
      BY <3>1, <3>2, WithoutRng
    <3>4. QED
      BY <2>1, <2>3, <2>4, <3>3
  <2>6. QED
    BY <2>1, <2>5
<1>6. CASE Rename2(p)
  <2>1. /\ pc[p] = "ren2" /\ pc'[p] = "delfiles" /\ control' = tmp /\ inode' = inode
    BY <1>6, Rename2Facts
  <2>2. \A q \in Procs : pc'[q] # "ren2"
    BY <1>1, <2>1 DEF TmpInv, Copying
  <2>3. Listed = Lines(tmp) /\ Listed' = Lines(tmp)
    BY <2>1, <2>2 DEF Listed, Lines
  <2>4. QED
    BY <2>3
<1>7. QED
  BY <1>2, <1>3, <1>4, <1>5, <1>6 DEF Closes

LEMMA ListedOpens ==
    ASSUME TypeOK, TmpInv, NEW p \in Procs, Opens(p)
    PROVE  Rng(Listed) \subseteq Rng(Listed')
<1>1. (\E q \in Procs : pc[q] = "ren2") <=> (\E q \in Procs : pc'[q] = "ren2")
  BY OpensKeeps DEF Keeps
<1>2. CASE OpenVote(p)
  BY <1>1, <1>2, OpenVoteFacts, ListedStill
<1>3. CASE OpenFile(p)
  <2>1. tmp' = tmp
    BY <1>3, OpenFileFacts
  <2>2. CASE UNCHANGED <<inode, control>>
    BY <1>1, <2>1, <2>2, ListedStill
  <2>3. CASE control = 0 /\ control' # tmp /\ inode' = [inode EXCEPT ![control'] = <<>>]
    <3>1. CASE \E q \in Procs : pc[q] = "ren2"
      <4>1. Lines(tmp)' = Lines(tmp)
        BY <2>1, <2>3 DEF Lines, TypeOK
      <4>2. QED
        BY <1>1, <3>1, <4>1 DEF Listed
    <3>2. CASE ~\E q \in Procs : pc[q] = "ren2"
      BY <2>3, <3>2 DEF Listed, Lines, Rng
    <3>3. QED
      BY <3>1, <3>2
  <2>4. QED
    BY <1>3, <2>2, <2>3, OpenFileFacts
<1>4. CASE OpenWrite(p)
  <2>1. /\ UNCHANGED <<control, tmp>> /\ loc[p].file \in File
        /\ inode' = [inode EXCEPT ![loc[p].file] = Append(@, loc[p].vote)]
    BY <1>4, OpenWriteFacts
  <2>2. ASSUME NEW f \in File PROVE Rng(inode[f]) \subseteq Rng(inode'[f])
    <3>1. inode[f] \in Seq(Vote)
      BY DEF TypeOK
    <3>2. inode'[f] = inode[f] \/ inode'[f] = Append(inode[f], loc[p].vote)
      BY <2>1 DEF TypeOK
    <3>3. Rng(inode[f]) \subseteq Rng(Append(inode[f], loc[p].vote))
      BY <3>1 DEF Rng
    <3>4. QED
      BY <3>2, <3>3
  <2>3. ASSUME NEW f \in 0..MaxFiles
        PROVE  Rng(IF f = 0 THEN <<>> ELSE inode[f]) \subseteq Rng(IF f = 0 THEN <<>> ELSE inode'[f])
    <3>1. CASE f = 0
      BY <3>1
    <3>2. CASE f # 0
      BY <2>2, <3>2 DEF File
    <3>3. QED
      BY <3>1, <3>2
  <2>4. control \in 0..MaxFiles /\ tmp \in 0..MaxFiles
    BY DEF TypeOK
  <2>5. Rng(Lines(tmp)) \subseteq Rng(Lines(tmp)') /\ Rng(Lines(control)) \subseteq Rng(Lines(control)')
    BY <2>1, <2>3, <2>4 DEF Lines
  <2>6. CASE \E q \in Procs : pc[q] = "ren2"
    BY <1>1, <2>5, <2>6 DEF Listed
  <2>7. CASE ~\E q \in Procs : pc[q] = "ren2"
    BY <1>1, <2>5, <2>7 DEF Listed
  <2>8. QED
    BY <2>6, <2>7
<1>5. QED
  BY <1>2, <1>3, <1>4 DEF Opens

(* A vote leaves the list only through the process that closes it, unless  *)
(* the list changed under that one, or it died between its two renames.    *)
THEOREM ListsAreKept == Spec => VotesKept
<1> DEFINE A == \A v \in Rng(Listed) \ Rng(Listed') : \E p \in Procs :
                   \/ pc[p] = "ren1" /\ pc'[p] = "ren2" /\ (loc[p].vote = v \/ loc[p].raced)
                   \/ pc[p] = "ren2" /\ pc'[p] = "idle"
<1>1. IInv /\ [Next]_vars => A
  <2> SUFFICES ASSUME IInv, [Next]_vars, NEW v \in Rng(Listed) \ Rng(Listed')
               PROVE  \E p \in Procs :
                         \/ pc[p] = "ren1" /\ pc'[p] = "ren2" /\ (loc[p].vote = v \/ loc[p].raced)
                         \/ pc[p] = "ren2" /\ pc'[p] = "idle"
    OBVIOUS
  <2>1. TypeOK /\ TmpInv /\ DelInv
    BY DEF IInv
  <2>2. \/ Calm
        \/ \E p \in Procs : \/ Mild(p) \/ Put(p) \/ Begins(p) \/ Count(p) \/ Post(p)
                            \/ Closes(p) \/ Opens(p)
    BY Kinds DEF IInv
  <2>3. ~Calm
    <3>1. SUFFICES ASSUME Calm PROVE FALSE
      OBVIOUS
    <3>2. UNCHANGED <<inode, control, tmp, pc>>
      BY <3>1 DEF Calm
    <3>3. QED
      BY <3>2, ListedStill
  <2>4. PICK p \in Procs : \/ Mild(p) \/ Put(p) \/ Begins(p) \/ Count(p) \/ Post(p)
                           \/ Closes(p) \/ Opens(p)
    BY <2>2, <2>3
  <2>5. CASE Mild(p) \/ Put(p) \/ Begins(p) \/ Count(p) \/ Post(p)
    BY <2>1, <2>5, ListedQuiet
  <2>6. CASE Closes(p)
    BY <2>1, <2>6, ListedCloses
  <2>7. CASE Opens(p)
    BY <2>1, <2>7, ListedOpens
  <2>8. QED
    BY <2>4, <2>5, <2>6, <2>7
<1>2. VotesKept <=> [][A]_vars
  BY DEF VotesKept
<1>3. IInv /\ [Next]_vars => [A]_vars
  BY <1>1
<1> HIDE DEF A
<1>4. QED
  BY <1>2, <1>3, Inductive, PTL DEF Spec

=============================================================================
