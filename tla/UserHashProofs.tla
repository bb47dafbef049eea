--------------------------- MODULE UserHashProofs ---------------------------
(***************************************************************************)
(* Proofs about UserHash, for any number of ids, slots, writers and        *)
(* readers and any hash function: a search meets sound chains and finds    *)
(* who is there unless a slot on its way was carried off, and the pointers *)
(* implement PasswdTable.                                                  *)
(***************************************************************************)
EXTENDS UserHash, FiniteSetTheorems, WellFoundedInduction, TLAPS

-----------------------------------------------------------------------------
(***************************************************************************)
(* The inductive invariant, in named parts.                                *)
(***************************************************************************)

(* The slots reachable from every head: the chains of PasswdTable. *)
chain == [b \in Bucket |-> Links(head, next, b)]

(* The pointers n lead from slot f through all of S, once each, to 0: the  *)
(* rank r grows along them.                                                *)
IsChain(n, f, S, r) ==
    /\ f \in S \cup {0} /\ (f = 0 => S = {})
    /\ \A i \in S : /\ n[i] \in S \cup {0}
                    /\ n[i] # 0 => n[i] # f /\ r[i] < r[n[i]]
                    /\ i = f \/ \E j \in S : n[j] = i
    /\ \A i, j \in S : n[i] = n[j] => i = j
HasChain(n, f, S) == \E r \in [Slot -> Nat] : IsChain(n, f, S, r)
Shape(h, n, c) == \A b \in Bucket : HasChain(n, h[b], c[b])

(* A linked slot is in the chain of its id, and no other slot there has it.*)
ChainInv ==
    /\ chain \in [Bucket -> SUBSET Slot]
    /\ Shape(head, next, chain)
    /\ \A b \in Bucket : \A i \in chain[b] : BucketOf(passwd[i].id) = b
    /\ \A b \in Bucket : \A i, j \in chain[b] :
           passwd[i].id = passwd[j].id => i = j \/ passwd[i].id = NoId
    /\ empty = Cardinality(chain[0])
    /\ ~ready => \A b \in Bucket : head[b] = 0

Inserting == {"ins_write", "ins_next", "ins_head"}
Deleting == {"del_write", "del_next", "del_head"}
Locking == Inserting \cup Deleting \cup {"ins_take", "del_unlink", "load"}

CallTypes ==
    /\ pc \in [Writers -> Locking \cup {"idle", "ins_home"}]
    /\ arg \in [Writers -> Ids \cup {NoId}]
    /\ slot \in [Writers -> 0..MaxUsers + 1]
    /\ home \in SUBSET Ids /\ damaged \in BOOLEAN

LockInv == \A p \in Writers : pc[p] \in Locking <=> lock = p

(* What a call relies on at each of its steps. *)
CallOK(p) ==
    /\ pc[p] \notin {"idle", "load"} => arg[p] \in Ids
    /\ pc[p] \in Inserting \cup Deleting =>
           /\ ready /\ slot[p] \in Slot
           /\ \A b \in Bucket : slot[p] \notin chain[b]
    /\ pc[p] \in Inserting \cup {"ins_take"} =>
           \A i \in chain[Hash[arg[p]]] : passwd[i].id # arg[p]
    /\ pc[p] \in {"ins_next", "ins_head"} =>
           passwd[slot[p]] = [id |-> arg[p], kick |-> "no"]
    /\ pc[p] = "ins_head" => next[slot[p]] = head[Hash[arg[p]]]
    /\ pc[p] = "del_unlink" =>
           /\ ready /\ slot[p] \in chain[Hash[arg[p]]]
           /\ passwd[slot[p]].id = arg[p] /\ passwd[slot[p]].kick = "old"
    /\ pc[p] \in {"del_next", "del_head"} => passwd[slot[p]].id = NoId
    /\ pc[p] = "del_head" => next[slot[p]] = head[0]
    /\ pc[p] = "load" =>
           /\ slot[p] # 0
           /\ \A b \in Bucket : \A i \in chain[b] : i < slot[p]
           /\ \A i \in Slot : i >= slot[p] => next[i] = 0
           /\ IF lastspace = 0 THEN chain[0] = {}
              ELSE lastspace \in chain[0] /\ next[lastspace] = 0
CallInv == \A p \in Writers : CallOK(p)

(* The slots a writer is about to link in another chain. *)
Moving == {slot[p] : p \in {q \in Writers : pc[q] \in Inserting \cup {"del_head"}}}

(* A search for x that nobody has led astray stands on a set of slots from *)
(* which the pointers n lead on, past other ids and other chains, to the   *)
(* account in slot k.                                                      *)
OnTheWay(tab, n, c, taken, at, x, S, k) ==
    /\ at \in S
    /\ \A i \in S : i = k \/ (tab[i].id # x /\ n[i] \in S)
    /\ \A b \in Bucket : b = Hash[x] \/ S \cap c[b] = {}
    /\ S \cap taken = {}
    /\ k \in c[Hash[x]] /\ tab[k].id = x /\ tab[k].kick = "no"

Walk == [pc : {"idle", "walk", "check"}, id : Ids \cup {NoId}, at : 0..MaxUsers,
         result : 0..MaxUsers, moved : BOOLEAN, there : BOOLEAN]
WalkTypes == walk \in [Readers -> Walk]
WalkOK(w) ==
    /\ w.pc # "idle" => w.id \in Ids
    /\ w.pc # "idle" /\ w.there /\ ~w.moved =>
           \E S \in SUBSET Slot : \E k \in Slot :
               /\ OnTheWay(passwd, next, chain, Moving, w.at, w.id, S, k)
               /\ w.pc = "check" => w.at = k
WalkInv == \A r \in Readers : WalkOK(walk[r])

IInv == TypeOK /\ CallTypes /\ WalkTypes /\ ChainInv /\ LockInv /\ CallInv
            /\ WalkInv /\ MissExplained

USE UserHashAssumption

-----------------------------------------------------------------------------
(***************************************************************************)
(* Chains as pointers.                                                     *)
(***************************************************************************)
LEMMA SlotFacts == 0 \notin Slot /\ Slot \subseteq Nat /\ \A i \in Slot : i <= MaxUsers
  BY DEF Slot

LEMMA BucketFacts == 0 \in Bucket /\ \A x \in Ids : Hash[x] \in Bucket /\ Hash[x] # 0
  BY DEF Bucket

LEMMA Least == ASSUME NEW S, S \subseteq Nat, S # {}
               PROVE  \E m \in S : \A y \in S : m <= y
<1> DEFINE R == OpToRel(<, Nat)
<1>1. \A x, y \in Nat : <<x, y>> \in R <=> x < y
  BY DEF OpToRel
<1>2. IsWellFoundedOn(R, Nat)
  BY NatLessThanWellFounded
<1> HIDE DEF R
<1>3. PICK m \in S : \A y \in S : <<y, m>> \notin R
  BY <1>2, WFMin
<1>4. ASSUME NEW y \in S PROVE m <= y
  <2>1. m \in Nat /\ y \in Nat /\ ~(y < m)
    BY <1>1, <1>3
  <2>2. QED
    BY <2>1
<1>5. QED
  BY <1>4

(* A step that leaves the pointers of a chain alone leaves the chain. *)
LEMMA ChainKept ==
    ASSUME NEW n, NEW m, NEW f, NEW S, HasChain(n, f, S), \A i \in S : m[i] = n[i]
    PROVE  HasChain(m, f, S)
  BY DEF HasChain, IsChain

LEMMA EmptyChain == ASSUME NEW n PROVE HasChain(n, 0, {})
<1>1. [i \in Slot |-> 0] \in [Slot -> Nat]
  OBVIOUS
<1>2. IsChain(n, 0, {}, [i \in Slot |-> 0])
  BY DEF IsChain
<1>3. QED
  BY <1>1, <1>2 DEF HasChain

(* insertuseridhash: a slot is put in front. *)
LEMMA ChainPush ==
    ASSUME NEW n, NEW m, NEW f, NEW S, S \subseteq Slot, HasChain(n, f, S),
           NEW i \in Slot, i \notin S, m[i] = f, \A j \in S : m[j] = n[j]
    PROVE  HasChain(m, i, S \cup {i})
<1>1. PICK r \in [Slot -> Nat] : IsChain(n, f, S, r)
  BY DEF HasChain
<1> DEFINE q == [j \in Slot |-> IF j = i THEN 0 ELSE r[j] + 1]
<1>2. q \in [Slot -> Nat] /\ q[i] = 0 /\ \A j \in S : q[j] = r[j] + 1 /\ r[j] \in Nat
  OBVIOUS
<1> HIDE DEF q
<1>3. /\ f \in S \cup {0} /\ (f = 0 => S = {})
      /\ \A j \in S : /\ n[j] \in S \cup {0}
                      /\ n[j] # 0 => n[j] # f /\ r[j] < r[n[j]]
                      /\ j = f \/ \E l \in S : n[l] = j
      /\ \A j, l \in S : n[j] = n[l] => j = l
  BY <1>1 DEF IsChain
<1>4. ASSUME NEW j \in S \cup {i}
      PROVE  /\ m[j] \in S \cup {0}
             /\ m[j] # 0 => m[j] # i /\ q[j] < q[m[j]]
             /\ j = i \/ \E l \in S \cup {i} : m[l] = j
  <2>1. CASE j = i
    BY <1>2, <1>3, <2>1, SlotFacts
  <2>2. CASE j # i
    BY <1>2, <1>3, <2>2
  <2>3. QED
    BY <2>1, <2>2
<1>5. ASSUME NEW j \in S \cup {i}, NEW l \in S \cup {i}, m[j] = m[l] PROVE j = l
  <2>1. \A k \in S : m[k] # f
    BY <1>3
  <2>2. QED
    BY <1>3, <1>5, <2>1
<1>6. IsChain(m, i, S \cup {i}, q)
  BY <1>4, <1>5, SlotFacts DEF IsChain
<1>7. QED
  BY <1>2, <1>6 DEF HasChain

(* deluseridhash: the first slot is taken out, or the one behind slot j. *)
LEMMA ChainPop ==
    ASSUME NEW n, NEW f, NEW S, S \subseteq Slot, HasChain(n, f, S), f # 0
    PROVE  HasChain(n, n[f], S \ {f})
<1>1. PICK r \in [Slot -> Nat] : IsChain(n, f, S, r)
  BY DEF HasChain
<1>2. /\ f \in S
      /\ \A j \in S : /\ n[j] \in S \cup {0}
                      /\ n[j] # 0 => n[j] # f /\ r[j] < r[n[j]]
                      /\ j = f \/ \E l \in S : n[l] = j
      /\ \A j, l \in S : n[j] = n[l] => j = l
  BY <1>1 DEF IsChain
<1>3. n[f] \in (S \ {f}) \cup {0}
  BY <1>2, SlotFacts
<1>4. ASSUME n[f] = 0, NEW j \in S \ {f} PROVE FALSE
  <2> DEFINE R == {r[l] : l \in S \ {f}}
  <2>1. R \subseteq Nat /\ R # {}
    BY <1>4
  <2>2. PICK m \in R : \A y \in R : m <= y
    <3> HIDE DEF R
    <3>1. QED
      BY <2>1, Least
  <2>3. PICK l \in S \ {f} : m = r[l]
    OBVIOUS
  <2>4. PICK k \in S : n[k] = l
    BY <1>2, <2>3
  <2>5. k # f /\ r[k] < r[l] /\ r[k] \in R
    BY <1>2, <1>4, <2>3, <2>4, SlotFacts
  <2>6. r[k] \in Nat /\ r[l] \in Nat /\ r[l] <= r[k]
    BY <2>2, <2>3, <2>5
  <2>7. QED
    BY <2>5, <2>6
<1>5. ASSUME NEW j \in S \ {f}
      PROVE  /\ n[j] \in (S \ {f}) \cup {0}
             /\ n[j] # 0 => n[j] # n[f] /\ r[j] < r[n[j]]
             /\ j = n[f] \/ \E l \in S \ {f} : n[l] = j
  BY <1>2
<1>6. IsChain(n, n[f], S \ {f}, r)
  BY <1>2, <1>3, <1>4, <1>5 DEF IsChain
<1>7. QED
  BY <1>6 DEF HasChain

LEMMA ChainCut ==
    ASSUME NEW n, NEW m, NEW f, NEW S, S \subseteq Slot, HasChain(n, f, S), NEW j \in S,
           n[j] # 0, m[j] = n[n[j]], \A i \in S : i # j => m[i] = n[i]
    PROVE  HasChain(m, f, S \ {n[j]})
<1>1. PICK r \in [Slot -> Nat] : IsChain(n, f, S, r)
  BY DEF HasChain
<1>2. /\ f \in S \cup {0} /\ (f = 0 => S = {})
      /\ \A i \in S : /\ n[i] \in S \cup {0}
                      /\ n[i] # 0 => n[i] # f /\ r[i] < r[n[i]]
                      /\ i = f \/ \E l \in S : n[l] = i
      /\ \A i, l \in S : n[i] = n[l] => i = l
  BY <1>1 DEF IsChain
<1> DEFINE k == n[j]
           T == S \ {k}
<1>3. k \in S /\ k # f /\ f \in T /\ r[j] < r[k] /\ j # k /\ m[j] = n[k] /\ 0 \notin S
  BY <1>2, SlotFacts
<1>4. ASSUME NEW i \in T
      PROVE  /\ m[i] \in T \cup {0}
             /\ m[i] # 0 => m[i] # f /\ r[i] < r[m[i]]
             /\ i = f \/ \E l \in T : m[l] = i
  <2>1. n[k] = 0 \/ (n[k] \in S /\ n[k] # f /\ r[k] < r[n[k]])
    BY <1>2, <1>3
  <2>2. n[k] # k
    <3>1. r[k] \in Nat
      BY <1>3
    <3>2. QED
      BY <1>3, <2>1, <3>1
  <2>3. /\ m[i] \in T \cup {0}
        /\ m[i] # 0 => m[i] # f /\ r[i] < r[m[i]]
    <3>1. CASE i = j
      <4>1. n[k] # 0 => r[j] \in Nat /\ r[k] \in Nat /\ r[n[k]] \in Nat
        BY <1>3, <2>1
      <4>2. QED
        BY <1>3, <2>1, <2>2, <3>1, <4>1
    <3>2. CASE i # j
      BY <1>2, <1>3, <3>2
    <3>3. QED
      BY <3>1, <3>2
  <2>4. i = f \/ \E l \in T : m[l] = i
    <3>1. CASE i = n[k]
      BY <1>3, <3>1
    <3>2. CASE i # n[k] /\ i # f
      <4>1. PICK l \in S : n[l] = i
        BY <1>2, <3>2
      <4>2. l # k /\ l # j
        BY <1>3, <3>2, <4>1
      <4>3. QED
        BY <4>1, <4>2
    <3>3. QED
      BY <3>1, <3>2
  <2>5. QED
    BY <2>3, <2>4
<1>5. ASSUME NEW i \in T, NEW l \in T, m[i] = m[l] PROVE i = l
  <2>1. \A g \in T : g # j => m[g] # n[k]
    BY <1>2, <1>3
  <2>2. QED
    BY <1>2, <1>3, <1>5, <2>1
<1>6. IsChain(m, f, T, r)
  <2>1. f \in T \cup {0} /\ (f = 0 => T = {})
    BY <1>3
  <2> HIDE DEF k, T
  <2>2. QED
    BY <1>4, <1>5, <2>1 DEF IsChain
<1>7. QED
  BY <1>6 DEF HasChain

(* initucachehash: an unused slot is put behind the last one. *)
LEMMA ChainAppend ==
    ASSUME NEW n, NEW m, NEW f, NEW S, S \subseteq Slot, HasChain(n, f, S),
           NEW j \in S, n[j] = 0, NEW i \in Slot, i \notin S,
           m[j] = i, m[i] = 0, \A l \in S : l # j => m[l] = n[l]
    PROVE  HasChain(m, f, S \cup {i})
<1>1. PICK r \in [Slot -> Nat] : IsChain(n, f, S, r)
  BY DEF HasChain
<1> DEFINE q == [l \in Slot |-> IF l = i THEN r[j] + 1 ELSE r[l]]
<1>2. /\ q \in [Slot -> Nat] /\ q[i] = r[j] + 1 /\ r[j] \in Nat
      /\ \A l \in S : q[l] = r[l]
  OBVIOUS
<1> HIDE DEF q
<1>3. /\ f \in S \cup {0} /\ (f = 0 => S = {})
      /\ \A l \in S : /\ n[l] \in S \cup {0}
                      /\ n[l] # 0 => n[l] # f /\ r[l] < r[n[l]]
                      /\ l = f \/ \E k \in S : n[k] = l
      /\ \A l, k \in S : n[l] = n[k] => l = k
  BY <1>1 DEF IsChain
<1> DEFINE T == S \cup {i}
<1>4. ASSUME NEW l \in T
      PROVE  /\ m[l] \in T \cup {0}
             /\ m[l] # 0 => m[l] # f /\ q[l] < q[m[l]]
             /\ l = f \/ \E k \in T : m[k] = l
  <2>1. CASE l = i
    BY <2>1
  <2>2. l \in S => l = f \/ \E k \in T : m[k] = l
    BY <1>3, SlotFacts
  <2>3. CASE l = j
    <3>1. m[l] = i /\ i # f /\ q[l] < q[i]
      BY <1>2, <1>3, <2>3, SlotFacts
    <3>2. QED
      BY <2>2, <2>3, <3>1
  <2>4. CASE l \in S /\ l # j
    <3>1. m[l] = n[l] /\ n[l] \in S \cup {0}
      BY <1>3, <2>4
    <3>2. m[l] # 0 => m[l] # f /\ q[l] < q[m[l]]
      BY <1>2, <1>3, <2>4, <3>1
    <3>3. QED
      BY <2>2, <2>4, <3>1, <3>2
  <2>5. QED
    BY <2>1, <2>3, <2>4
<1>5. ASSUME NEW l \in T, NEW k \in T, m[l] = m[k] PROVE l = k
  <2>1. \A g \in S : g # j => m[g] # 0 /\ m[g] # i
    BY <1>3
  <2>2. QED
    BY <1>3, <1>5, <2>1, SlotFacts
<1>6. IsChain(m, f, T, q)
  <2>1. f \in T \cup {0} /\ (f = 0 => T = {})
    BY <1>3
  <2> HIDE DEF T
  <2>2. QED
    BY <1>4, <1>5, <2>1 DEF IsChain
<1>7. QED
  BY <1>2, <1>6 DEF HasChain
-----------------------------------------------------------------------------
(***************************************************************************)
(* Walking a chain: t[k] is the slot after k hops, 0 past the end.         *)
(***************************************************************************)
Trace(n, f, t, K) ==
    /\ t \in [0..K -> Slot \cup {0}]
    /\ t[0] = f
    /\ \A k \in 1..K : t[k] = IF t[k - 1] = 0 THEN 0 ELSE n[t[k - 1]]

Pointers == [Slot -> Slot \cup {0}]

LEMMA TraceExists ==
    ASSUME NEW n \in Pointers, NEW f \in Slot \cup {0}, NEW K \in Nat
    PROVE  \E t : Trace(n, f, t, K)
<1> DEFINE D == {k \in Nat : ~\E t : Trace(n, f, t, k)}
<1>1. SUFFICES ASSUME D # {} PROVE FALSE
  OBVIOUS
<1>2. PICK m \in D : \A y \in D : m <= y
  <2>1. D \subseteq Nat
    OBVIOUS
  <2> HIDE DEF D
  <2>2. QED
    BY <1>1, <2>1, Least
<1>3. CASE m = 0
  <2>1. Trace(n, f, [k \in 0..0 |-> f], 0)
    BY DEF Trace
  <2>2. QED
    BY <1>2, <1>3, <2>1
<1>4. CASE m # 0
  <2>1. m - 1 \in Nat /\ m - 1 \notin D
    BY <1>2, <1>4
  <2>2. PICK t : Trace(n, f, t, m - 1)
    BY <2>1
  <2> DEFINE g == [k \in 0..m |-> IF k = m THEN IF t[m - 1] = 0 THEN 0 ELSE n[t[m - 1]]
                                  ELSE t[k]]
  <2>3. t \in [0..m - 1 -> Slot \cup {0}] /\ t[0] = f
        /\ \A k \in 1..m - 1 : t[k] = IF t[k - 1] = 0 THEN 0 ELSE n[t[k - 1]]
    BY <2>2 DEF Trace
  <2>4. m \in Nat /\ \A k \in 0..m : k = m \/ k \in 0..m - 1
    BY <1>2
  <2>5. t[m - 1] \in Slot \cup {0}
    BY <1>4, <2>1, <2>3
  <2>6. g \in [0..m -> Slot \cup {0}]
    BY <2>3, <2>4, <2>5 DEF Pointers
  <2>7. g[m] = (IF t[m - 1] = 0 THEN 0 ELSE n[t[m - 1]]) /\ \A k \in 0..m - 1 : g[k] = t[k]
    BY <2>4
  <2> HIDE DEF g
  <2>8. Trace(n, f, g, m)
    <3>1. g[0] = f
      BY <1>4, <2>1, <2>3, <2>7
    <3>2. ASSUME NEW k \in 1..m PROVE g[k] = IF g[k - 1] = 0 THEN 0 ELSE n[g[k - 1]]
      <4>1. k - 1 \in 0..m - 1 /\ g[k - 1] = t[k - 1]
        BY <2>4, <2>7
      <4>2. CASE k = m
        BY <2>7, <4>1, <4>2
      <4>3. CASE k # m
        <5>1. k \in 1..m - 1 /\ k \in 0..m - 1
          BY <2>4, <4>3
        <5>2. QED
          BY <2>3, <2>7, <4>1, <5>1
      <4>4. QED
        BY <4>2, <4>3
    <3>3. QED
      BY <2>6, <3>1, <3>2 DEF Trace
  <2>9. QED
    BY <1>2, <2>8
<1>5. QED
  BY <1>3, <1>4

LEMMA Values == TypeOK => head \in [Bucket -> Slot \cup {0}] /\ next \in Pointers
<1>1. 0..MaxUsers = Slot \cup {0}
  BY DEF Slot
<1>2. QED
  BY <1>1 DEF TypeOK, Pointers

LEMMA HopIs ==
    ASSUME NEW b \in Bucket, NEW t, Trace(next, head[b], t, MaxUsers), NEW k \in 0..MaxUsers
    PROVE  Hop(b, k) = t[k]
<1> DEFINE F(f, j) == IF j = 0 THEN head[b]
                      ELSE IF f[j - 1] = 0 THEN 0 ELSE next[f[j - 1]]
           at == CHOOSE f : f = [j \in 0..k |-> F(f, j)]
           g == [j \in 0..k |-> t[j]]
<1>1. /\ t[0] = head[b] /\ k \in Nat
      /\ \A j \in 1..MaxUsers : t[j] = IF t[j - 1] = 0 THEN 0 ELSE next[t[j - 1]]
  BY DEF Trace
<1>2. ASSUME NEW j \in 0..k PROVE t[j] = F(g, j)
  <2>1. CASE j = 0
    BY <1>1, <2>1
  <2>2. CASE j # 0
    <3>1. j \in 1..MaxUsers /\ j - 1 \in 0..k /\ g[j - 1] = t[j - 1]
      BY <2>2
    <3>2. QED
      BY <1>1, <2>2, <3>1
  <2>3. QED
    BY <2>1, <2>2
<1>3. g = [j \in 0..k |-> F(g, j)]
  <2> HIDE DEF F
  <2>1. QED
    BY <1>2
<1>4. at = [j \in 0..k |-> F(at, j)]
  <2> HIDE DEF F, g
  <2>1. QED
    BY <1>3
<1>5. Hop(b, k) = at[k]
  BY DEF Hop
<1>6. \A j \in 0..k : at[j] = t[j]
  <2> DEFINE D == {j \in 0..k : at[j] # t[j]}
  <2>1. SUFFICES ASSUME D # {} PROVE FALSE
    BY DEF D
  <2>2. PICK m \in D : \A y \in D : m <= y
    <3>1. D \subseteq Nat
      BY DEF D
    <3> HIDE DEF D
    <3>2. QED
      BY <2>1, <3>1, Least
  <2>3. at[m] = F(at, m) /\ t[m] = F(g, m)
    <3> HIDE DEF F, g, at
    <3>1. QED
      BY <1>2, <1>4
  <2>4. m = 0 \/ at[m - 1] = g[m - 1]
    <3>1. m = 0 \/ (m - 1 \in 0..k /\ m - 1 \notin D)
      <4> HIDE DEF F, g, at
      <4>1. QED
        BY <2>2
    <3>2. \A j \in 0..k : g[j] = t[j]
      OBVIOUS
    <3> HIDE DEF F, g, at
    <3>3. QED
      BY <3>1, <3>2
  <2>5. F(at, m) = F(g, m)
    <3> HIDE DEF g, at
    <3>1. QED
      BY <2>4
  <2>6. QED
    BY <2>2, <2>3, <2>5
<1>7. QED
  <2> HIDE DEF at
  <2>1. QED
    BY <1>1, <1>5, <1>6

(* Walking a chain visits its slots, all of them, and comes to an end.     *)
LEMMA TraceChain ==
    ASSUME NEW n \in Pointers, NEW f, NEW S, S \subseteq Slot, HasChain(n, f, S),
           NEW t, Trace(n, f, t, MaxUsers)
    PROVE  /\ t[MaxUsers] = 0
           /\ \A k \in 0..MaxUsers : t[k] \in S \cup {0}
           /\ \A i \in S : \E k \in 0..MaxUsers : t[k] = i
<1>1. PICK r \in [Slot -> Nat] : IsChain(n, f, S, r)
  BY DEF HasChain
<1>2. /\ f \in S \cup {0} /\ (f = 0 => S = {})
      /\ \A i \in S : /\ n[i] \in S \cup {0}
                      /\ n[i] # 0 => n[i] # f /\ r[i] < r[n[i]]
                      /\ i = f \/ \E j \in S : n[j] = i
      /\ 0 \notin S
  BY <1>1, SlotFacts DEF IsChain
<1>3. /\ t \in [0..MaxUsers -> Slot \cup {0}] /\ t[0] = f /\ MaxUsers \in Nat
      /\ \A k \in 1..MaxUsers : t[k] = IF t[k - 1] = 0 THEN 0 ELSE n[t[k - 1]]
  BY DEF Trace
<1>4. \A k \in 0..MaxUsers : t[k] \in S \cup {0}
  <2> DEFINE D == {k \in 0..MaxUsers : t[k] \notin S \cup {0}}
  <2>1. SUFFICES ASSUME D # {} PROVE FALSE
    OBVIOUS
  <2>2. PICK m \in D : \A y \in D : m <= y
    <3>1. D \subseteq Nat
      OBVIOUS
    <3> HIDE DEF D
    <3>2. QED
      BY <2>1, <3>1, Least
  <2>3. m # 0 /\ m \in 1..MaxUsers
    BY <1>2, <1>3, <2>2
  <2>4. m - 1 \in 0..MaxUsers /\ m - 1 \notin D
    BY <2>2, <2>3
  <2>5. t[m - 1] \in S \cup {0}
    BY <2>4
  <2>6. QED
    BY <1>2, <1>3, <2>2, <2>3, <2>5
<1>5. ASSUME NEW m \in 0..MaxUsers, t[m] # 0, NEW k \in 0..m - 1
      PROVE  t[k] # 0 /\ r[t[k]] < r[t[m]]
  <2> DEFINE D == {j \in 1..m : ~(t[m - j] # 0 /\ r[t[m - j]] < r[t[m]])}
  <2>1. SUFFICES ASSUME D # {} PROVE FALSE
    <3>1. m - k \in 1..m /\ m - (m - k) = k
      OBVIOUS
    <3>2. QED
      BY <3>1
  <2>2. PICK j \in D : \A y \in D : j <= y
    <3>1. D \subseteq Nat
      OBVIOUS
    <3> HIDE DEF D
    <3>2. QED
      BY <2>1, <3>1, Least
  <2>3. /\ j \in 1..m /\ m - j \in 0..MaxUsers /\ m - (j - 1) \in 1..MaxUsers
        /\ m - (j - 1) - 1 = m - j
    BY <2>2
  <2>4. t[m - (j - 1)] # 0 /\ (j = 1 \/ r[t[m - (j - 1)]] < r[t[m]])
    <3>1. CASE j = 1
      BY <1>5, <3>1
    <3>2. CASE j # 1
      <4>1. j - 1 \in 1..m /\ j - 1 \notin D
        BY <2>2, <2>3, <3>2
      <4>2. QED
        BY <4>1
    <3>3. QED
      BY <3>1, <3>2
  <2>5. t[m - (j - 1)] = IF t[m - j] = 0 THEN 0 ELSE n[t[m - j]]
    BY <1>3, <2>3
  <2>6. t[m - j] \in S /\ n[t[m - j]] = t[m - (j - 1)]
    BY <1>4, <2>3, <2>4, <2>5
  <2>7. r[t[m - j]] < r[t[m - (j - 1)]]
    BY <1>2, <2>4, <2>6
  <2>8. t[m] \in S /\ t[m - (j - 1)] \in S
    BY <1>4, <1>5, <2>3, <2>4
  <2>9. r[t[m - j]] < r[t[m]]
    <3>1. r[t[m - j]] \in Nat /\ r[t[m - (j - 1)]] \in Nat /\ r[t[m]] \in Nat
      BY <2>6, <2>8
    <3>2. j = 1 => t[m - (j - 1)] = t[m]
      OBVIOUS
    <3>3. QED
      BY <2>4, <2>7, <3>1, <3>2
  <2>10. t[m - j] # 0
    BY <1>2, <2>6
  <2>11. QED
    BY <2>2, <2>9, <2>10
<1>6. t[MaxUsers] = 0
  <2>1. SUFFICES ASSUME t[MaxUsers] # 0 PROVE FALSE
    OBVIOUS
  <2>2. \A k \in 0..MaxUsers : t[k] \in Slot
    <3>1. ASSUME NEW k \in 0..MaxUsers PROVE t[k] \in Slot
      <4>1. k = MaxUsers \/ k \in 0..MaxUsers - 1
        BY <1>3
      <4>2. MaxUsers \in 0..MaxUsers
        BY <1>3
      <4>3. t[k] # 0
        BY <1>5, <2>1, <4>1, <4>2
      <4>4. QED
        BY <1>3, <4>3
    <3>2. QED
      BY <3>1
  <2>3. \A k, m \in 0..MaxUsers : k < m => t[k] # t[m]
    <3>1. ASSUME NEW k \in 0..MaxUsers, NEW m \in 0..MaxUsers, k < m PROVE t[k] # t[m]
      <4>1. t[m] # 0 /\ k \in 0..m - 1
        BY <2>2, <3>1, SlotFacts
      <4>2. r[t[k]] < r[t[m]] /\ r[t[k]] \in Nat /\ r[t[m]] \in Nat
        BY <1>5, <2>2, <4>1
      <4>3. QED
        BY <4>2
    <3>2. QED
      BY <3>1
  <2>4. \A k, m \in 0..MaxUsers : t[k] = t[m] => k = m
    BY <2>3
  <2>5. t \in Injection(0..MaxUsers, Slot)
    <3>1. t \in [0..MaxUsers -> Slot]
      BY <1>3, <2>2
    <3>2. QED
      BY <2>4, <3>1 DEF Injection, IsInjective
  <2>6. IsFiniteSet(Slot) /\ Cardinality(Slot) = MaxUsers
    <3>1. /\ IsFiniteSet(1..MaxUsers)
          /\ Cardinality(1..MaxUsers) = IF 1 > MaxUsers THEN 0 ELSE MaxUsers - 1 + 1
      <4>1. 1 \in Int /\ MaxUsers \in Int
        OBVIOUS
      <4>2. QED
        BY <4>1, FS_Interval, Zenon
    <3>2. QED
      BY <3>1 DEF Slot
  <2>7. Cardinality(0..MaxUsers) = MaxUsers + 1
    <3>1. Cardinality(0..MaxUsers) = IF 0 > MaxUsers THEN 0 ELSE MaxUsers - 0 + 1
      <4>1. 0 \in Int /\ MaxUsers \in Int
        OBVIOUS
      <4>2. QED
        BY <4>1, FS_Interval, Zenon
    <3>2. QED
      BY <3>1
  <2>8. Cardinality(0..MaxUsers) <= Cardinality(Slot)
    BY <2>5, <2>6, FS_Injection
  <2>9. QED
    BY <2>6, <2>7, <2>8
<1>7. \A i \in S : \E k \in 0..MaxUsers : t[k] = i
  <2> DEFINE U == {i \in S : \A k \in 0..MaxUsers : t[k] # i}
             R == {r[i] : i \in U}
  <2>1. SUFFICES ASSUME U # {} PROVE FALSE
    OBVIOUS
  <2>2. R \subseteq Nat /\ R # {}
    BY <2>1
  <2>3. PICK m \in R : \A y \in R : m <= y
    <3> HIDE DEF R
    <3>1. QED
      BY <2>2, Least
  <2>4. PICK i \in U : m = r[i]
    OBVIOUS
  <2>5. i # f /\ i # 0
    BY <1>2, <1>3, <2>4
  <2>6. PICK j \in S : n[j] = i
    BY <1>2, <2>5
  <2>7. j \in U
    <3>1. SUFFICES ASSUME NEW k \in 0..MaxUsers, t[k] = j PROVE FALSE
      OBVIOUS
    <3>2. k + 1 \in 1..MaxUsers /\ (k + 1) - 1 = k
      BY <1>2, <1>6, <3>1
    <3>3. t[k + 1] = i
      BY <1>2, <1>3, <2>6, <3>1, <3>2
    <3>4. QED
      BY <2>4, <3>2, <3>3
  <2>8. r[j] < r[i] /\ r[j] \in R
    BY <1>2, <2>5, <2>6, <2>7
  <2>9. r[j] \in Nat /\ r[i] \in Nat /\ r[i] <= r[j]
    BY <2>3, <2>4, <2>8
  <2>10. QED
    BY <2>8, <2>9
<1>8. QED
  BY <1>4, <1>6, <1>7

(* Links collects the slots of a chain. *)
LEMMA LinksAre ==
    ASSUME NEW h, NEW n \in Pointers, NEW b \in Bucket, h[b] \in Slot \cup {0},
           NEW S, S \subseteq Slot, HasChain(n, h[b], S)
    PROVE  Links(h, n, b) = S
<1>1. PICK t : Trace(n, h[b], t, MaxUsers)
  BY TraceExists
<1> DEFINE F(f, k) == IF k = 0 THEN {h[b]} \ {0}
                      ELSE f[k - 1] \cup ({n[i] : i \in f[k - 1]} \ {0})
           g == [k \in 0..MaxUsers |-> {t[j] : j \in 0..k} \ {0}]
           reached == CHOOSE f : f = [k \in 0..MaxUsers |-> F(f, k)]
<1>2. /\ t \in [0..MaxUsers -> Slot \cup {0}] /\ t[0] = h[b] /\ MaxUsers \in Nat
      /\ \A k \in 1..MaxUsers : t[k] = IF t[k - 1] = 0 THEN 0 ELSE n[t[k - 1]]
  BY <1>1 DEF Trace
<1>3. ASSUME NEW k \in 0..MaxUsers PROVE g[k] = F(g, k)
  <2>1. CASE k = 0
    <3>1. g[k] = {t[0]} \ {0}
      BY <2>1
    <3>2. QED
      BY <1>2, <2>1, <3>1
  <2>2. CASE k # 0
    <3>1. k - 1 \in 0..MaxUsers /\ k \in 1..MaxUsers
      BY <2>2
    <3>2. g[k - 1] = {t[j] : j \in 0..k - 1} \ {0} /\ g[k] = {t[j] : j \in 0..k} \ {0}
      BY <3>1
    <3> HIDE DEF g
    <3>3. ASSUME NEW i \in g[k] PROVE i \in F(g, k)
      <4>1. PICK j \in 0..k : i = t[j] /\ i # 0
        BY <3>2
      <4>2. CASE j \in 0..k - 1
        BY <2>2, <3>2, <4>1, <4>2
      <4>3. CASE j = k
        <5>1. t[k - 1] # 0 /\ i = n[t[k - 1]] /\ k - 1 \in 0..k - 1
          BY <1>2, <3>1, <4>1, <4>3
        <5>2. QED
          BY <2>2, <3>2, <4>1, <5>1
      <4>4. QED
        BY <4>2, <4>3
    <3>4. ASSUME NEW i \in F(g, k) PROVE i \in g[k]
      <4>1. CASE i \in g[k - 1]
        BY <3>1, <3>2, <4>1
      <4>2. CASE i \notin g[k - 1]
        <5>1. PICK l \in g[k - 1] : i = n[l] /\ i # 0
          BY <2>2, <3>4, <4>2
        <5>2. PICK j \in 0..k - 1 : l = t[j] /\ l # 0
          BY <3>2, <5>1
        <5>3. j + 1 \in 1..MaxUsers /\ j + 1 \in 0..k /\ (j + 1) - 1 = j
          BY <3>1
        <5>4. t[j + 1] = i
          BY <1>2, <5>1, <5>2, <5>3
        <5>5. QED
          BY <3>2, <5>1, <5>3, <5>4
      <4>3. QED
        BY <4>1, <4>2
    <3>5. QED
      BY <3>3, <3>4
  <2>3. QED
    BY <2>1, <2>2
<1>4. g = [k \in 0..MaxUsers |-> F(g, k)]
  <2> HIDE DEF F
  <2>1. QED
    BY <1>3
<1>5. reached = [k \in 0..MaxUsers |-> F(reached, k)]
  <2> HIDE DEF F, g
  <2>1. QED
    BY <1>4
<1>6. Links(h, n, b) = reached[MaxUsers]
  BY DEF Links
<1>7. \A k \in 0..MaxUsers : reached[k] = g[k]
  <2> DEFINE D == {k \in 0..MaxUsers : reached[k] # g[k]}
  <2>1. SUFFICES ASSUME D # {} PROVE FALSE
    BY DEF D
  <2>2. PICK m \in D : \A y \in D : m <= y
    <3>1. D \subseteq Nat
      BY DEF D
    <3> HIDE DEF D
    <3>2. QED
      BY <2>1, <3>1, Least
  <2>3. reached[m] = F(reached, m) /\ g[m] = F(g, m)
    <3> HIDE DEF F, g, reached
    <3>1. QED
      BY <1>3, <1>5
  <2>4. m = 0 \/ reached[m - 1] = g[m - 1]
    <3> HIDE DEF F, g, reached
    <3>1. QED
      BY <2>2
  <2>5. F(reached, m) = F(g, m)
    <3> HIDE DEF g, reached
    <3>1. QED
      BY <2>4
  <2>6. QED
    BY <2>2, <2>3, <2>5
<1>8. g[MaxUsers] = S
  <2>1. g[MaxUsers] = {t[j] : j \in 0..MaxUsers} \ {0}
    BY <1>2
  <2> HIDE DEF g
  <2>2. /\ \A k \in 0..MaxUsers : t[k] \in S \cup {0}
        /\ \A i \in S : \E k \in 0..MaxUsers : t[k] = i
    BY <1>1, TraceChain
  <2>3. ASSUME NEW i \in S PROVE i \in g[MaxUsers]
    <3>1. i # 0
      BY SlotFacts
    <3>2. QED
      BY <2>1, <2>2, <3>1
  <2>4. ASSUME NEW i \in g[MaxUsers] PROVE i \in S
    BY <2>1, <2>2
  <2>5. QED
    BY <2>3, <2>4
<1>9. QED
  <2> HIDE DEF F, g, reached
  <2>1. QED
    BY <1>2, <1>6, <1>7, <1>8
-----------------------------------------------------------------------------
(***************************************************************************)
(* What the calls do to the chains.                                        *)
(***************************************************************************)
LEMMA ChainIs ==
    ASSUME NEW h \in [Bucket -> Slot \cup {0}], NEW n \in Pointers,
           NEW c \in [Bucket -> SUBSET Slot], Shape(h, n, c)
    PROVE  [b \in Bucket |-> Links(h, n, b)] = c
<1>1. ASSUME NEW b \in Bucket PROVE Links(h, n, b) = c[b]
  <2>1. h[b] \in Slot \cup {0} /\ c[b] \subseteq Slot /\ HasChain(n, h[b], c[b])
    BY DEF Shape
  <2>2. QED
    BY <2>1, LinksAre
<1>2. QED
  BY <1>1

LEMMA BucketIs == \A x \in Ids \cup {NoId} : BucketOf(x) \in Bucket
  BY BucketFacts DEF BucketOf

LEMMA OneBucket ==
    ASSUME ChainInv, NEW b \in Bucket, NEW c \in Bucket, NEW i, i \in chain[b], i \in chain[c]
    PROVE  b = c
<1>1. BucketOf(passwd[i].id) = b /\ BucketOf(passwd[i].id) = c
  BY DEF ChainInv
<1>2. QED
  BY <1>1

(* finduseridhash under the lock tells who is linked, and where.           *)
LEMMA Found ==
    ASSUME TypeOK, ChainInv, NEW x \in Ids \cup {NoId}, NEW b, b = BucketOf(x),
           NEW i, i = finduseridhash(x), NEW k, k = HopOf(x)
    PROVE  /\ i = 0 => \A j \in chain[b] : passwd[j].id # x
           /\ i # 0 => /\ i \in chain[b] /\ passwd[i].id = x
                       /\ k \in 0..MaxUsers /\ i = Hop(b, k)
                       /\ k = 0 => i = head[b]
                       /\ k # 0 => /\ Hop(b, k - 1) \in chain[b]
                                   /\ next[Hop(b, k - 1)] = i
<1>1. b \in Bucket
  BY BucketIs
<1>2. /\ chain[b] \subseteq Slot /\ HasChain(next, head[b], chain[b])
      /\ next \in Pointers /\ head[b] \in Slot \cup {0}
  BY <1>1, Values DEF ChainInv, Shape
<1>3. PICK t : Trace(next, head[b], t, MaxUsers)
  BY <1>2, TraceExists
<1>4. \A j \in 0..MaxUsers : Hop(b, j) = t[j]
  BY <1>1, <1>3, HopIs
<1>5. /\ t[0] = head[b] /\ MaxUsers \in Nat
      /\ \A j \in 1..MaxUsers : t[j] = IF t[j - 1] = 0 THEN 0 ELSE next[t[j - 1]]
  BY <1>3 DEF Trace
<1>6. /\ \A j \in 0..MaxUsers : t[j] \in chain[b] \cup {0}
      /\ \A j \in chain[b] : \E m \in 0..MaxUsers : t[m] = j
  BY <1>2, <1>3, TraceChain
<1> DEFINE K == {j \in 0..MaxUsers : t[j] # 0 /\ passwd[t[j]].id = x}
<1>7. {j \in 0..MaxUsers : LET l == Hop(BucketOf(x), j) IN l # 0 /\ passwd[l].id = x} = K
  BY <1>4
<1>8. HopOf(x) = IF K = {} THEN NotFound ELSE MinOf({j + 1 : j \in K}) - 1
  BY <1>7 DEF HopOf
<1>9. CASE K = {}
  <2>1. i = 0
    BY <1>8, <1>9 DEF finduseridhash
  <2>2. \A j \in chain[b] : passwd[j].id # x
    <3>1. SUFFICES ASSUME NEW j \in chain[b], passwd[j].id = x PROVE FALSE
      OBVIOUS
    <3>2. PICK m \in 0..MaxUsers : t[m] = j
      BY <1>6
    <3>3. j # 0
      BY <1>2, SlotFacts
    <3>4. m \in K
      BY <3>1, <3>2, <3>3
    <3>5. QED
      BY <1>9, <3>4
  <2>3. QED
    BY <2>1, <2>2
<1>10. CASE K # {}
  <2> DEFINE M == {j + 1 : j \in K}
  <2>1. M \subseteq Nat /\ M # {}
    BY <1>10
  <2>2. \E m \in M : \A y \in M : m <= y
    <3> HIDE DEF M
    <3>1. QED
      BY <2>1, Least
  <2>3. MinOf(M) \in M
    <3>1. \E m \in M : \A y \in M : y >= m
      BY <2>1, <2>2
    <3> HIDE DEF M
    <3>2. QED
      BY <2>1, <3>1 DEF MinOf
  <2>4. k = MinOf(M) - 1
    BY <1>8, <1>10
  <2>5. k \in K
    <3>1. PICK j \in K : MinOf(M) = j + 1
      BY <2>3
    <3> HIDE DEF M
    <3>2. QED
      BY <2>4, <3>1
  <2>6. k \in 0..MaxUsers /\ t[k] # 0 /\ passwd[t[k]].id = x
    BY <2>5
  <2> HIDE DEF K, M
  <2>7. i = Hop(b, k) /\ i = t[k]
    <3>1. k # NotFound
      BY <1>5, <2>6 DEF NotFound
    <3>2. QED
      BY <1>4, <2>6, <3>1 DEF finduseridhash
  <2>8. i # 0 /\ i \in chain[b]
    BY <1>6, <2>6, <2>7
  <2>9. ASSUME k # 0 PROVE Hop(b, k - 1) \in chain[b] /\ next[Hop(b, k - 1)] = i
    <3>1. k \in 1..MaxUsers /\ k - 1 \in 0..MaxUsers
      BY <2>6, <2>9
    <3>2. t[k - 1] # 0 /\ next[t[k - 1]] = t[k]
      BY <1>5, <2>6, <3>1
    <3>3. QED
      BY <1>4, <1>6, <2>7, <3>1, <3>2
  <2>10. QED
    BY <1>5, <2>6, <2>7, <2>8, <2>9
<1>11. QED
  BY <1>9, <1>10

(* Slot i is linked in chain b no more; nothing else is changed.           *)
LEMMA UnlinkIs ==
    ASSUME TypeOK, ChainInv, NEW x \in Ids \cup {NoId}, NEW b, b = BucketOf(x),
           NEW i, i = finduseridhash(x), i # 0, Unlink(b, HopOf(x))
    PROVE  /\ head' \in [Bucket -> Slot \cup {0}] /\ next' \in Pointers
           /\ chain' = [chain EXCEPT ![b] = @ \ {i}]
           /\ Shape(head', next', chain')
           /\ \A j \in Slot : next'[j] = next[j]
                                \/ (j \in chain[b] /\ next[j] = i /\ next'[j] = next[i])
<1> DEFINE k == HopOf(x)
           c == [chain EXCEPT ![b] = @ \ {i}]
<1>1. b \in Bucket
  BY BucketIs
<1>2. /\ i \in chain[b] /\ passwd[i].id = x
      /\ k \in 0..MaxUsers /\ i = Hop(b, k)
      /\ k = 0 => i = head[b]
      /\ k # 0 => /\ Hop(b, k - 1) \in chain[b]
                  /\ next[Hop(b, k - 1)] = i
  BY Found
<1>3. head \in [Bucket -> Slot \cup {0}] /\ next \in Pointers
  BY Values
<1>4. chain \in [Bucket -> SUBSET Slot] /\ \A d \in Bucket : HasChain(next, head[d], chain[d])
  BY DEF ChainInv, Shape
<1>5. i \in Slot /\ chain[b] \subseteq Slot /\ next[i] \in Slot \cup {0}
  BY <1>1, <1>2, <1>3, <1>4 DEF Pointers
<1>6. c \in [Bucket -> SUBSET Slot] /\ c[b] = chain[b] \ {i}
      /\ \A d \in Bucket : d # b => c[d] = chain[d]
  BY <1>1, <1>4
<1> HIDE DEF c
<1>7. CASE k = 0
  <2>1. head' = [head EXCEPT ![b] = next[i]] /\ next' = next
    BY <1>2, <1>7 DEF Unlink
  <2>2. head' \in [Bucket -> Slot \cup {0}] /\ head'[b] = next[i]
        /\ \A d \in Bucket : d # b => head'[d] = head[d]
    BY <1>1, <1>3, <1>5, <2>1
  <2>3. HasChain(next, next[i], chain[b] \ {i})
    <3>1. i # 0 /\ i = head[b] /\ HasChain(next, i, chain[b])
      BY <1>1, <1>2, <1>4, <1>5, <1>7, SlotFacts
    <3>2. QED
      BY <1>5, <3>1, ChainPop
  <2>4. Shape(head', next', c)
    BY <1>4, <1>6, <2>1, <2>2, <2>3 DEF Shape
  <2>5. chain' = c
    <3>1. next' \in Pointers
      BY <1>3, <2>1
    <3>2. QED
      BY <1>6, <2>2, <2>4, <3>1, ChainIs DEF chain
  <2>6. QED
    BY <1>3, <2>1, <2>2, <2>4, <2>5 DEF c
<1>8. CASE k # 0
  <2> DEFINE j == Hop(b, k - 1)
  <2>1. j \in chain[b] /\ j \in Slot /\ next[j] = i
    BY <1>2, <1>5, <1>8
  <2>2. next' = [next EXCEPT ![j] = next[i]] /\ head' = head
    BY <1>2, <1>8 DEF Unlink
  <2> HIDE DEF j, k
  <2>3. next' \in Pointers /\ next'[j] = next[i]
        /\ \A l \in Slot : l # j => next'[l] = next[l]
    BY <1>3, <1>5, <2>1, <2>2 DEF Pointers
  <2>4. HasChain(next', head[b], chain[b] \ {i})
    <3>1. next[j] # 0 /\ next'[j] = next[next[j]] /\ HasChain(next, head[b], chain[b])
      BY <1>1, <1>4, <1>5, <2>1, <2>3, SlotFacts
    <3>2. \A l \in chain[b] : l # j => next'[l] = next[l]
      BY <1>5, <2>3
    <3>3. HasChain(next', head[b], chain[b] \ {next[j]})
      BY <1>5, <2>1, <3>1, <3>2, ChainCut
    <3>4. QED
      BY <2>1, <3>3
  <2>5. ASSUME NEW d \in Bucket, d # b PROVE HasChain(next', head[d], chain[d])
    <3>1. j \notin chain[d] /\ chain[d] \subseteq Slot
      BY <1>1, <1>4, <2>1, <2>5, OneBucket
    <3>2. \A l \in chain[d] : next'[l] = next[l]
      BY <2>3, <3>1
    <3>3. QED
      BY <1>4, <3>2, ChainKept
  <2>6. Shape(head', next', c)
    BY <1>6, <2>2, <2>4, <2>5 DEF Shape
  <2>7. chain' = c
    BY <1>3, <1>6, <2>2, <2>3, <2>6, ChainIs DEF chain
  <2>8. QED
    BY <1>3, <2>1, <2>2, <2>3, <2>6, <2>7 DEF c
<1>9. QED
  BY <1>7, <1>8

(* The pointer of a slot outside the chains is set: no chain is changed.   *)
LEMMA PushNextIs ==
    ASSUME TypeOK, ChainInv, NEW b \in Bucket, NEW i \in Slot,
           \A d \in Bucket : i \notin chain[d], PushNext(b, i)
    PROVE  /\ head' = head /\ next' \in Pointers /\ next'[i] = head[b]
           /\ \A j \in Slot : j # i => next'[j] = next[j]
           /\ chain' = chain /\ Shape(head', next', chain')
<1>1. head \in [Bucket -> Slot \cup {0}] /\ next \in Pointers /\ head[b] \in Slot \cup {0}
  BY Values
<1>2. chain \in [Bucket -> SUBSET Slot] /\ \A d \in Bucket : HasChain(next, head[d], chain[d])
  BY DEF ChainInv, Shape
<1>3. next' = [next EXCEPT ![i] = head[b]] /\ head' = head
  BY DEF PushNext
<1>4. next' \in Pointers /\ next'[i] = head[b] /\ \A j \in Slot : j # i => next'[j] = next[j]
  BY <1>1, <1>3 DEF Pointers
<1>5. ASSUME NEW d \in Bucket PROVE HasChain(next', head[d], chain[d])
  <2>1. \A l \in chain[d] : next'[l] = next[l]
    BY <1>2, <1>4
  <2>2. QED
    BY <1>2, <2>1, ChainKept
<1>6. Shape(head', next', chain)
  BY <1>3, <1>5 DEF Shape
<1>7. chain' = chain
  BY <1>1, <1>2, <1>3, <1>4, <1>6, ChainIs DEF chain
<1>8. QED
  BY <1>3, <1>4, <1>6, <1>7

(* The head is set to a slot whose pointer leads to the old head.          *)
LEMMA PushHeadIs ==
    ASSUME TypeOK, ChainInv, NEW b \in Bucket, NEW i \in Slot,
           i \notin chain[b], next[i] = head[b], PushHead(b, i)
    PROVE  /\ head' \in [Bucket -> Slot \cup {0}] /\ next' = next
           /\ chain' = [chain EXCEPT ![b] = @ \cup {i}]
           /\ Shape(head', next', chain')
<1> DEFINE c == [chain EXCEPT ![b] = @ \cup {i}]
<1>1. head \in [Bucket -> Slot \cup {0}] /\ next \in Pointers
  BY Values
<1>2. chain \in [Bucket -> SUBSET Slot] /\ \A d \in Bucket : HasChain(next, head[d], chain[d])
  BY DEF ChainInv, Shape
<1>3. head' = [head EXCEPT ![b] = i] /\ next' = next
  BY DEF PushHead
<1>4. head' \in [Bucket -> Slot \cup {0}] /\ head'[b] = i
      /\ \A d \in Bucket : d # b => head'[d] = head[d]
  BY <1>1, <1>3
<1>5. c \in [Bucket -> SUBSET Slot] /\ c[b] = chain[b] \cup {i}
      /\ \A d \in Bucket : d # b => c[d] = chain[d]
  BY <1>2
<1> HIDE DEF c
<1>6. HasChain(next, i, chain[b] \cup {i})
  BY <1>2, ChainPush
<1>7. Shape(head', next', c)
  BY <1>2, <1>3, <1>4, <1>5, <1>6 DEF Shape
<1>8. chain' = c
  <2>1. next' \in Pointers
    BY <1>1, <1>3
  <2>2. QED
    BY <1>4, <1>5, <1>7, <2>1, ChainIs DEF chain
<1>9. QED
  BY <1>3, <1>4, <1>7, <1>8 DEF c
-----------------------------------------------------------------------------
(***************************************************************************)
(* The chains load_ucache leaves behind.                                   *)
(***************************************************************************)
LEMMA MinIs == ASSUME NEW S, S \subseteq Slot
               PROVE  IF S = {} THEN MinOf(S) = 0
                      ELSE MinOf(S) \in S /\ \A j \in S : MinOf(S) <= j
<1>1. CASE S = {}
  BY <1>1 DEF MinOf
<1>2. CASE S # {}
  <2>1. \E i \in S : \A j \in S : i <= j
    BY <1>2, SlotFacts, Least
  <2>2. \E i \in S : \A j \in S : j >= i
    BY <2>1, SlotFacts
  <2>3. MinOf(S) \in S /\ \A j \in S : j >= MinOf(S)
    BY <1>2, <2>2 DEF MinOf
  <2>4. QED
    BY <1>2, <2>3, SlotFacts
<1>3. QED
  BY <1>1, <1>2

LEMMA MaxIs == ASSUME NEW S, S \subseteq Slot
               PROVE  IF S = {} THEN MaxOf(S) = 0
                      ELSE MaxOf(S) \in S /\ \A j \in S : j <= MaxOf(S)
<1>1. CASE S = {}
  BY <1>1 DEF MaxOf
<1>2. CASE S # {}
  <2> DEFINE R == {MaxUsers - i : i \in S}
  <2>1. R \subseteq Nat /\ R # {}
    <3>1. \A i \in S : MaxUsers - i \in Nat
      BY DEF Slot
    <3>2. QED
      BY <1>2, <3>1
  <2>2. PICK m \in R : \A y \in R : m <= y
    <3> HIDE DEF R
    <3>1. QED
      BY <2>1, Least
  <2>3. PICK i \in S : m = MaxUsers - i
    OBVIOUS
  <2>4. ASSUME NEW j \in S PROVE j <= i
    <3>1. MaxUsers - i <= MaxUsers - j
      BY <2>2, <2>3
    <3>2. i \in Nat /\ j \in Nat /\ MaxUsers \in Nat
      BY SlotFacts
    <3>3. QED
      BY <3>1, <3>2
  <2>5. \E l \in S : \A j \in S : j <= l
    BY <2>4
  <2>6. MaxOf(S) \in S /\ \A j \in S : j <= MaxOf(S)
    BY <1>2, <2>5 DEF MaxOf
  <2>7. QED
    BY <1>2, <2>6
<1>3. QED
  BY <1>1, <1>2

LEMMA UpChain ==
    ASSUME NEW n, NEW C, C \subseteq Slot, \A i \in C : n[i] = MinOf({j \in C : j > i})
    PROVE  HasChain(n, MinOf(C), C)
<1> DEFINE r == [i \in Slot |-> i]
<1>1. r \in [Slot -> Nat] /\ \A i \in C : r[i] = i /\ i \in Nat /\ i # 0
  BY SlotFacts
<1> HIDE DEF r
<1>2. MinOf(C) \in C \cup {0} /\ (MinOf(C) = 0 => C = {}) /\ \A i \in C : MinOf(C) <= i
  BY <1>1, MinIs
<1>3. ASSUME NEW i \in C
      PROVE  /\ n[i] \in C \cup {0} /\ (n[i] # 0 => n[i] \in C /\ i < n[i])
             /\ \A j \in C : i < j => n[i] # 0 /\ n[i] <= j
  <2> DEFINE S == {j \in C : j > i}
  <2>1. n[i] = MinOf(S) /\ S \subseteq Slot
    OBVIOUS
  <2>2. IF S = {} THEN n[i] = 0 ELSE n[i] \in S /\ \A j \in S : n[i] <= j
    <3> HIDE DEF S
    <3>1. QED
      BY <2>1, MinIs
  <2>3. \A j \in C : j \in Nat /\ j # 0
    BY <1>1
  <2>4. QED
    BY <2>2, <2>3
<1>4. ASSUME NEW i \in C, n[i] # 0 PROVE n[i] # MinOf(C) /\ r[i] < r[n[i]]
  <2>1. n[i] \in C /\ i < n[i] /\ MinOf(C) <= i /\ MinOf(C) \in C
    BY <1>2, <1>3, <1>4
  <2>2. QED
    BY <1>1, <2>1
<1>5. ASSUME NEW i \in C, i # MinOf(C) PROVE \E j \in C : n[j] = i
  <2> DEFINE S == {j \in C : j < i}
             p == MaxOf(S)
  <2>1. S \subseteq Slot
    OBVIOUS
  <2>2. MinOf(C) \in S
    BY <1>1, <1>2, <1>5
  <2>3. p \in S /\ \A j \in S : j <= p
    <3> HIDE DEF S
    <3>1. QED
      BY <2>1, <2>2, MaxIs
  <2>4. p \in C /\ p < i /\ n[p] # 0 /\ n[p] <= i /\ n[p] \in C /\ p < n[p]
    <3>1. p \in C /\ p < i
      BY <2>3
    <3> HIDE DEF p
    <3>2. QED
      BY <1>3, <3>1
  <2>5. n[p] \in S => n[p] <= p
    BY <2>3
  <2>6. ~(n[p] < i)
    <3>1. p \in Nat /\ n[p] \in Nat
      BY <1>1, <2>4
    <3>2. n[p] < i => n[p] \in S
      BY <2>4
    <3>3. QED
      BY <2>4, <2>5, <3>1, <3>2
  <2> HIDE DEF p, S
  <2>7. QED
    BY <1>1, <2>4, <2>6
<1>6. ASSUME NEW i \in C, NEW j \in C, n[i] = n[j] PROVE i = j
  <2>1. ASSUME NEW l \in C, NEW m \in C, l < m PROVE n[l] # n[m]
    <3>1. n[l] # 0 /\ n[l] <= m /\ n[l] \in C
      BY <1>3, <2>1
    <3>2. n[m] = 0 \/ (n[m] \in C /\ m < n[m])
      BY <1>3
    <3>3. QED
      BY <1>1, <3>1, <3>2
  <2>2. QED
    BY <1>1, <1>6, <2>1
<1>7. IsChain(n, MinOf(C), C, r)
  BY <1>2, <1>3, <1>4, <1>5, <1>6 DEF IsChain
<1>8. QED
  BY <1>1, <1>7 DEF HasChain

LEMMA DownChain ==
    ASSUME NEW n, NEW C, C \subseteq Slot, \A i \in C : n[i] = MaxOf({j \in C : j < i})
    PROVE  HasChain(n, MaxOf(C), C)
<1> DEFINE r == [i \in Slot |-> MaxUsers - i]
<1>1. r \in [Slot -> Nat] /\ \A i \in C : r[i] = MaxUsers - i /\ i \in Nat /\ i # 0
  BY DEF Slot
<1> HIDE DEF r
<1>2. MaxOf(C) \in C \cup {0} /\ (MaxOf(C) = 0 => C = {}) /\ \A i \in C : i <= MaxOf(C)
  BY <1>1, MaxIs
<1>3. ASSUME NEW i \in C
      PROVE  /\ n[i] \in C \cup {0} /\ (n[i] # 0 => n[i] \in C /\ n[i] < i)
             /\ \A j \in C : j < i => n[i] # 0 /\ j <= n[i]
  <2> DEFINE S == {j \in C : j < i}
  <2>1. n[i] = MaxOf(S) /\ S \subseteq Slot
    OBVIOUS
  <2>2. IF S = {} THEN n[i] = 0 ELSE n[i] \in S /\ \A j \in S : j <= n[i]
    <3> HIDE DEF S
    <3>1. QED
      BY <2>1, MaxIs
  <2>3. \A j \in C : j \in Nat /\ j # 0
    BY <1>1
  <2>4. QED
    BY <2>2, <2>3
<1>4. ASSUME NEW i \in C, n[i] # 0 PROVE n[i] # MaxOf(C) /\ r[i] < r[n[i]]
  <2>1. n[i] \in C /\ n[i] < i /\ i <= MaxOf(C) /\ MaxOf(C) \in C
    BY <1>2, <1>3, <1>4
  <2>2. MaxUsers \in Nat
    OBVIOUS
  <2>3. QED
    BY <1>1, <2>1, <2>2
<1>5. ASSUME NEW i \in C, i # MaxOf(C) PROVE \E j \in C : n[j] = i
  <2> DEFINE S == {j \in C : j > i}
             p == MinOf(S)
  <2>1. S \subseteq Slot
    OBVIOUS
  <2>2. MaxOf(C) \in S
    BY <1>1, <1>2, <1>5
  <2>3. p \in S /\ \A j \in S : p <= j
    <3> HIDE DEF S
    <3>1. QED
      BY <2>1, <2>2, MinIs
  <2>4. p \in C /\ i < p /\ n[p] # 0 /\ i <= n[p] /\ n[p] \in C /\ n[p] < p
    <3>1. p \in C /\ i < p
      BY <1>1, <2>3
    <3> HIDE DEF p
    <3>2. QED
      BY <1>3, <3>1
  <2>5. n[p] \in S => p <= n[p]
    BY <2>3
  <2>6. ~(i < n[p])
    <3>1. p \in Nat /\ n[p] \in Nat /\ i \in Nat
      BY <1>1, <2>4
    <3>2. i < n[p] => n[p] \in S
      BY <2>4, <3>1
    <3>3. QED
      BY <2>4, <2>5, <3>1, <3>2
  <2> HIDE DEF p, S
  <2>7. QED
    BY <1>1, <2>4, <2>6
<1>6. ASSUME NEW i \in C, NEW j \in C, n[i] = n[j] PROVE i = j
  <2>1. ASSUME NEW l \in C, NEW m \in C, m < l PROVE n[l] # n[m]
    <3>1. n[l] # 0 /\ m <= n[l] /\ n[l] \in C
      BY <1>3, <2>1
    <3>2. n[m] = 0 \/ (n[m] \in C /\ n[m] < m)
      BY <1>3
    <3>3. QED
      BY <1>1, <3>1, <3>2
  <2>2. QED
    BY <1>1, <1>6, <2>1
<1>7. IsChain(n, MaxOf(C), C, r)
  BY <1>2, <1>3, <1>4, <1>5, <1>6 DEF IsChain
<1>8. QED
  BY <1>1, <1>7 DEF HasChain

LEMMA FreeBucket == \A x \in Ids \cup {NoId} : BucketOf(x) = 0 <=> x = NoId
  BY BucketFacts DEF BucketOf

LEMMA InitChain ==
    ASSUME Init
    PROVE  /\ head \in [Bucket -> Slot \cup {0}] /\ next \in Pointers
           /\ chain = [b \in Bucket |-> InChain(passwd, b)]
           /\ Shape(head, next, chain)
<1> DEFINE c == [b \in Bucket |-> InChain(passwd, b)]
<1>1. /\ passwd \in [Slot -> Userec]
      /\ head = [b \in Bucket |-> IF b = 0 THEN MinOf(InChain(passwd, 0))
                                  ELSE MaxOf(InChain(passwd, b))]
      /\ next = [i \in Slot |->
                   LET C == InChain(passwd, BucketOf(passwd[i].id)) IN
                   IF passwd[i].id = NoId THEN MinOf({j \in C : j > i})
                   ELSE MaxOf({j \in C : j < i})]
  BY DEF Init
<1>2. \A i \in Slot : passwd[i].id \in Ids \cup {NoId}
  BY <1>1 DEF Userec
<1>3. \A b : InChain(passwd, b) \subseteq Slot
  BY DEF InChain
<1>4. \A S : S \subseteq Slot => MinOf(S) \in Slot \cup {0} /\ MaxOf(S) \in Slot \cup {0}
  BY MinIs, MaxIs
<1>5. head \in [Bucket -> Slot \cup {0}]
  <2>1. \A b \in Bucket : head[b] \in Slot \cup {0}
    BY <1>1, <1>3, <1>4
  <2>2. QED
    BY <1>1, <2>1
<1>6. ASSUME NEW i \in Slot
      PROVE  LET C == InChain(passwd, BucketOf(passwd[i].id)) IN
             /\ passwd[i].id = NoId => next[i] = MinOf({j \in C : j > i})
             /\ passwd[i].id # NoId => next[i] = MaxOf({j \in C : j < i})
             /\ next[i] \in Slot \cup {0}
  <2> DEFINE C == InChain(passwd, BucketOf(passwd[i].id))
  <2>1. next[i] = IF passwd[i].id = NoId THEN MinOf({j \in C : j > i})
                  ELSE MaxOf({j \in C : j < i})
    BY <1>1
  <2>2. {j \in C : j > i} \subseteq Slot /\ {j \in C : j < i} \subseteq Slot
    BY <1>3
  <2> HIDE DEF C
  <2>3. next[i] \in Slot \cup {0}
    BY <1>4, <2>1, <2>2
  <2>4. QED
    BY <2>1, <2>3 DEF C
<1>7. next \in Pointers
  BY <1>1, <1>6 DEF Pointers
<1>8. c \in [Bucket -> SUBSET Slot] /\ \A b \in Bucket : c[b] = InChain(passwd, b)
  BY <1>3
<1> HIDE DEF c
<1>9. ASSUME NEW b \in Bucket PROVE HasChain(next, head[b], InChain(passwd, b))
  <2> DEFINE C == InChain(passwd, b)
  <2>1. C \subseteq Slot /\ \A i \in C : i \in Slot /\ BucketOf(passwd[i].id) = b
    BY DEF InChain
  <2>2. CASE b = 0
    <3>1. \A i \in C : next[i] = MinOf({j \in C : j > i})
      <4>1. SUFFICES ASSUME NEW i \in C PROVE next[i] = MinOf({j \in C : j > i})
        OBVIOUS
      <4>2. i \in Slot /\ BucketOf(passwd[i].id) = b /\ passwd[i].id = NoId
        BY <1>2, <2>1, <2>2, FreeBucket
      <4>3. next[i] = MinOf({j \in InChain(passwd, BucketOf(passwd[i].id)) : j > i})
        BY <1>6, <4>2
      <4>4. QED
        BY <4>2, <4>3
    <3>2. head[b] = MinOf(C)
      BY <1>1, <2>2
    <3> HIDE DEF C
    <3>3. HasChain(next, MinOf(C), C)
      BY <2>1, <3>1, UpChain
    <3>4. QED
      BY <3>2, <3>3 DEF C
  <2>3. CASE b # 0
    <3>1. \A i \in C : next[i] = MaxOf({j \in C : j < i})
      <4>1. SUFFICES ASSUME NEW i \in C PROVE next[i] = MaxOf({j \in C : j < i})
        OBVIOUS
      <4>2. i \in Slot /\ BucketOf(passwd[i].id) = b /\ passwd[i].id # NoId
        BY <1>2, <2>1, <2>3, FreeBucket
      <4>3. next[i] = MaxOf({j \in InChain(passwd, BucketOf(passwd[i].id)) : j < i})
        BY <1>6, <4>2
      <4>4. QED
        BY <4>2, <4>3
    <3>2. head[b] = MaxOf(C)
      BY <1>1, <2>3
    <3> HIDE DEF C
    <3>3. HasChain(next, MaxOf(C), C)
      BY <2>1, <3>1, DownChain
    <3>4. QED
      BY <3>2, <3>3 DEF C
  <2>4. QED
    BY <2>2, <2>3
<1>10. Shape(head, next, c)
  BY <1>8, <1>9 DEF Shape
<1>11. chain = c
  BY <1>5, <1>7, <1>8, <1>10, ChainIs DEF chain
<1>12. QED
  BY <1>5, <1>7, <1>10, <1>11 DEF c
-----------------------------------------------------------------------------
(***************************************************************************)
(* What most steps share.                                                  *)
(***************************************************************************)
LEMMA Sizes == ASSUME NEW S, S \subseteq Slot
               PROVE  IsFiniteSet(S) /\ Cardinality(S) \in 0..MaxUsers
<1>1. /\ IsFiniteSet(1..MaxUsers)
      /\ Cardinality(1..MaxUsers) = IF 1 > MaxUsers THEN 0 ELSE MaxUsers - 1 + 1
  <2>1. 1 \in Int /\ MaxUsers \in Int
    OBVIOUS
  <2>2. QED
    BY <2>1, FS_Interval, Zenon
<1>2. IsFiniteSet(Slot) /\ Cardinality(Slot) = MaxUsers
  BY <1>1 DEF Slot
<1>3. IsFiniteSet(S) /\ Cardinality(S) <= Cardinality(Slot)
  BY <1>2, FS_Subset
<1>4. Cardinality(S) \in Nat
  BY <1>3, FS_CardinalityType
<1>5. QED
  BY <1>2, <1>3, <1>4

(* Who holds the lock, or takes it, is the only one in a locked call.      *)
LEMMA Alone ==
    ASSUME LockInv, NEW p \in Writers, lock \in {p, Nobody}, NEW q \in Writers, q # p
    PROVE  pc[q] \notin Locking
  BY DEF LockInv

LEMMA LockStep ==
    ASSUME CallTypes, LockInv, NEW p \in Writers, NEW l, pc' = [pc EXCEPT ![p] = l],
           l \in Locking <=> lock' = p,
           \/ lock' = lock
           \/ lock = p /\ lock' = Nobody
           \/ lock = Nobody /\ lock' = p
    PROVE  LockInv'
<1>1. pc'[p] = l /\ \A q \in Writers : q # p => pc'[q] = pc[q]
  BY DEF CallTypes
<1>2. \A q \in Writers : q # p => (lock' = q <=> lock = q)
  OBVIOUS
<1>3. QED
  BY <1>1, <1>2 DEF LockInv

(* What the others rely on: they are in no locked call.                    *)
LEMMA CallStep ==
    ASSUME LockInv, CallTypes, CallInv, NEW p \in Writers, lock \in {p, Nobody},
           \A q \in Writers : q # p => pc'[q] = pc[q] /\ arg'[q] = arg[q],
           CallOK(p)'
    PROVE  CallInv'
<1>1. ASSUME NEW q \in Writers, q # p PROVE CallOK(q)'
  <2>1. pc'[q] \in {"idle", "ins_home"} /\ pc'[q] = pc[q] /\ arg'[q] = arg[q]
    BY <1>1, Alone DEF CallTypes
  <2>2. pc[q] \notin {"idle", "load"} => arg[q] \in Ids
    BY DEF CallInv, CallOK
  <2>3. QED
    BY <2>1, <2>2 DEF CallOK, Inserting, Deleting
<1>2. QED
  BY <1>1 DEF CallInv

LEMMA MovingGrows ==
    ASSUME CallTypes, NEW p \in Writers, NEW l, pc' = [pc EXCEPT ![p] = l],
           \A q \in Writers : q # p => slot'[q] = slot[q]
    PROVE  \A j \in Moving' : j \in Moving
                \/ (j = slot'[p] /\ l \in Inserting \cup {"del_head"})
<1>1. pc'[p] = l /\ \A q \in Writers : q # p => pc'[q] = pc[q]
  BY DEF CallTypes
<1>2. QED
  BY <1>1 DEF Moving

LEMMA ChainSame ==
    ASSUME ChainInv, UNCHANGED <<head, next, empty, passwd>>, ~ready' => ~ready
    PROVE  ChainInv' /\ chain' = chain
<1>1. chain' = chain
  BY DEF chain
<1>2. QED
  BY <1>1 DEF ChainInv

(* A search that no step of a writer touches. *)
LEMMA WalkSame ==
    ASSUME WalkTypes, WalkInv, MissExplained, walk' = walk, passwd' = passwd, next' = next,
           chain' = chain, Moving' \subseteq Moving
    PROVE  WalkTypes' /\ WalkInv' /\ MissExplained'
<1>1. WalkTypes' /\ MissExplained'
  BY DEF WalkTypes, MissExplained
<1>2. ASSUME NEW w, WalkOK(w) PROVE WalkOK(w)'
  <2>1. \A at, x, S, k : OnTheWay(passwd, next, chain, Moving, at, x, S, k)
            => OnTheWay(passwd, next, chain, Moving', at, x, S, k)
    BY DEF OnTheWay
  <2>2. QED
    BY <1>2, <2>1 DEF WalkOK
<1>3. QED
  BY <1>1, <1>2 DEF WalkInv

LEMMA Typed ==
    ASSUME ChainInv', WalkTypes', head' \in [Bucket -> Slot \cup {0}], next' \in Pointers,
           ready' \in BOOLEAN, lastspace' \in Slot \cup {0}, passwd' \in [Slot -> Userec],
           lock' \in Writers \cup {Nobody}
    PROVE  TypeOK'
<1>1. Slot \cup {0} = 0..MaxUsers
  BY DEF Slot
<1>2. empty' \in 0..MaxUsers
  <2>1. chain'[0] \subseteq Slot /\ empty' = Cardinality(chain'[0])
    BY BucketFacts DEF ChainInv
  <2>2. QED
    BY <2>1, Sizes
<1>3. \A r \in Readers : walk'[r].at \in 0..MaxUsers
  BY DEF WalkTypes, Walk
<1>4. QED
  BY <1>1, <1>2, <1>3 DEF TypeOK, Pointers

-----------------------------------------------------------------------------
(***************************************************************************)
(* The steps of the locked calls.                                          *)
(***************************************************************************)

(* A call that returns or is killed.  A killed one may leave a slot outside*)
(* every chain; nobody relies on it.                                       *)
LEMMA ReturnStep ==
    ASSUME IInv, NEW p \in Writers, Unlock(p), UNCHANGED <<shared, passwd, walk>>,
           home' \in SUBSET Ids, damaged' \in BOOLEAN
    PROVE  IInv'
<1> USE DEF IInv
<1>1. /\ pc' = [pc EXCEPT ![p] = "idle"] /\ arg' = [arg EXCEPT ![p] = NoId]
      /\ slot' = [slot EXCEPT ![p] = 0] /\ lock' = IF lock = p THEN Nobody ELSE lock
      /\ UNCHANGED <<head, next, empty, ready, lastspace, passwd, walk>>
  BY DEF Unlock, Goto, shared
<1>2. ChainInv' /\ chain' = chain
  BY <1>1, ChainSame
<1>3. CallTypes'
  BY <1>1 DEF CallTypes
<1>4. LockInv'
  <2>1. "idle" \notin Locking
    BY DEF Locking, Inserting, Deleting
  <2>2. QED
    BY <1>1, <2>1, LockStep
<1>5. CallInv'
  <2>1. pc'[p] = "idle" /\ \A q \in Writers : q # p =>
            pc'[q] = pc[q] /\ arg'[q] = arg[q] /\ slot'[q] = slot[q]
    BY <1>1 DEF CallTypes
  <2>2. CallOK(p)'
    BY <2>1 DEF CallOK, Inserting, Deleting
  <2>3. ASSUME NEW q \in Writers, q # p PROVE CallOK(q)'
    <3>1. pc'[q] = pc[q] /\ arg'[q] = arg[q] /\ slot'[q] = slot[q] /\ CallOK(q)
      BY <2>1, <2>3 DEF CallInv
    <3>2. QED
      BY <1>1, <1>2, <3>1 DEF CallOK
  <2>4. QED
    BY <2>2, <2>3 DEF CallInv
<1>6. Moving' \subseteq Moving
  <2>1. \A q \in Writers : q # p => slot'[q] = slot[q]
    BY <1>1 DEF CallTypes
  <2>2. "idle" \notin Inserting \cup {"del_head"}
    BY DEF Inserting
  <2>3. QED
    BY <1>1, <2>1, <2>2, MovingGrows
<1>7. WalkTypes' /\ WalkInv' /\ MissExplained'
  BY <1>1, <1>2, <1>6, WalkSame
<1>8. TypeOK'
  <2>1. head' \in [Bucket -> Slot \cup {0}] /\ next' \in Pointers
    BY <1>1, Values
  <2>2. lastspace' \in Slot \cup {0}
    BY <1>1 DEF TypeOK, Slot
  <2>3. QED
    BY <1>1, <1>2, <1>7, <2>1, <2>2, Typed DEF TypeOK
<1>9. QED
  BY <1>2, <1>3, <1>4, <1>5, <1>7, <1>8

(* A call that finds what it looks for and takes the lock.                 *)
LEMMA LockedStep ==
    ASSUME IInv, NEW p \in Writers, NEW x \in Ids, NEW i \in 0..MaxUsers, NEW l,
           Lock(p, x, i, l), UNCHANGED <<shared, passwd, home, damaged, walk>>,
           \/ l = "ins_take" /\ \A j \in chain[Hash[x]] : passwd[j].id # x
           \/ /\ l = "del_unlink" /\ ready /\ i \in chain[Hash[x]]
              /\ passwd[i].id = x /\ passwd[i].kick = "old"
    PROVE  IInv'
<1> USE DEF IInv
<1>1. /\ pc' = [pc EXCEPT ![p] = l] /\ arg' = [arg EXCEPT ![p] = x]
      /\ slot' = [slot EXCEPT ![p] = i] /\ lock = Nobody /\ lock' = p
      /\ UNCHANGED <<head, next, empty, ready, lastspace, passwd, walk, home, damaged>>
  BY DEF Lock, Goto, shared
<1>2. ChainInv' /\ chain' = chain
  BY <1>1, ChainSame
<1>3. l \in Locking /\ l \notin Inserting \cup {"del_head"}
  BY DEF Locking, Inserting, Deleting
<1>4. CallTypes'
  BY <1>1, <1>3 DEF CallTypes
<1>5. LockInv'
  BY <1>1, <1>3, LockStep
<1>6. pc'[p] = l /\ arg'[p] = x /\ slot'[p] = i /\ \A q \in Writers : q # p =>
          pc'[q] = pc[q] /\ arg'[q] = arg[q] /\ slot'[q] = slot[q]
  BY <1>1 DEF CallTypes
<1>7. CallOK(p)'
  <2>1. CASE l = "ins_take"
    BY <1>1, <1>2, <1>6, <2>1 DEF CallOK, Inserting, Deleting
  <2>2. CASE l = "del_unlink"
    BY <1>1, <1>2, <1>6, <2>2 DEF CallOK, Inserting, Deleting
  <2>3. QED
    BY <2>1, <2>2
<1>8. CallInv'
  BY <1>1, <1>6, <1>7, CallStep
<1>9. Moving' \subseteq Moving
  BY <1>1, <1>3, <1>6, MovingGrows
<1>10. WalkTypes' /\ WalkInv' /\ MissExplained'
  BY <1>1, <1>2, <1>9, WalkSame
<1>11. TypeOK'
  <2>1. head' \in [Bucket -> Slot \cup {0}] /\ next' \in Pointers
    BY <1>1, Values
  <2>2. lastspace' \in Slot \cup {0}
    BY <1>1 DEF TypeOK, Slot
  <2>3. QED
    BY <1>1, <1>2, <1>10, <2>1, <2>2, Typed DEF TypeOK
<1>12. QED
  BY <1>2, <1>4, <1>5, <1>8, <1>10, <1>11
-----------------------------------------------------------------------------
(***************************************************************************)
(* Searches while a writer changes something.                              *)
(***************************************************************************)
LEMMA MarksAre ==
    ASSUME WalkTypes, NEW i, NEW clear \in BOOLEAN, Marks(i, clear), NEW r \in Readers
    PROVE  /\ walk'[r] \in Walk /\ walk'[r].pc = walk[r].pc /\ walk'[r].id = walk[r].id
           /\ walk'[r].at = walk[r].at /\ walk'[r].result = walk[r].result
           /\ walk[r].pc = "idle" => walk'[r] = walk[r]
           /\ walk[r].pc # "idle" /\ ~walk'[r].moved =>
                  ~walk[r].moved /\ ~clear /\ i \notin Ahead(walk[r].at)
           /\ walk'[r].there => walk[r].there
<1>1. walk[r] \in Walk
  BY DEF WalkTypes
<1>2. CASE walk[r].pc = "idle"
  <2>1. walk'[r] = walk[r]
    BY <1>2 DEF Marks
  <2>2. QED
    BY <1>1, <1>2, <2>1
<1>3. CASE walk[r].pc # "idle"
  <2> DEFINE m == walk[r].moved \/ clear \/ i \in Ahead(walk[r].at)
             l == walk[r].there /\ LinkedIn(head', next', passwd', walk[r].id)
  <2>1. walk'[r] = [walk[r] EXCEPT !.moved = m, !.there = l]
    BY <1>3, Zenon DEF Marks
  <2>2. m \in BOOLEAN /\ l \in BOOLEAN
    OBVIOUS
  <2>3. (~m => ~walk[r].moved /\ ~clear /\ i \notin Ahead(walk[r].at)) /\ (l => walk[r].there)
    OBVIOUS
  <2> HIDE DEF m, l
  <2>4. /\ walk'[r] \in Walk /\ walk'[r].pc = walk[r].pc /\ walk'[r].id = walk[r].id
        /\ walk'[r].at = walk[r].at /\ walk'[r].result = walk[r].result
        /\ (walk'[r].moved <=> m) /\ (walk'[r].there <=> l)
    <3>1. PICK w : w = walk[r]
      OBVIOUS
    <3>2. PICK v : v = walk'[r]
      OBVIOUS
    <3>3. w \in Walk /\ v = [w EXCEPT !.moved = m, !.there = l]
      BY <1>1, <2>1, <3>1, <3>2, Zenon
    <3>4. /\ v \in Walk /\ v.pc = w.pc /\ v.id = w.id /\ v.at = w.at /\ v.result = w.result
          /\ (v.moved <=> m) /\ (v.there <=> l)
      <4>1. v \in Walk
        BY <2>2, <3>3 DEF Walk
      <4>2. v.pc = w.pc /\ v.id = w.id /\ v.at = w.at /\ v.result = w.result
        BY <3>3 DEF Walk
      <4>3. (v.moved <=> m) /\ (v.there <=> l)
        BY <3>3, Zenon DEF Walk
      <4>4. QED
        BY <4>1, <4>2, <4>3
    <3>5. QED
      BY <3>1, <3>2, <3>4, Zenon
  <2>5. QED
    BY <1>3, <2>3, <2>4
<1>4. QED
  BY <1>2, <1>3

(* A step keeps the searches right if it leaves each of them a way on.     *)
LeadsOn(i, clear, tab, n, c, taken) ==
    \A at \in Slot, x \in Ids, S \in SUBSET Slot, k \in Slot :
        /\ OnTheWay(passwd, next, chain, Moving, at, x, S, k)
        /\ ~clear /\ i \notin Ahead(at)
        => \E T \in SUBSET Slot : OnTheWay(tab, n, c, taken, at, x, T, k)

LEMMA MarksStep ==
    ASSUME WalkTypes, WalkInv, MissExplained, NEW i, NEW clear \in BOOLEAN, Marks(i, clear),
           LeadsOn(i, clear, passwd', next', chain', Moving')
    PROVE  WalkTypes' /\ WalkInv' /\ MissExplained'
<1>1. \A r \in Readers :
           /\ walk'[r] \in Walk /\ walk'[r].pc = walk[r].pc /\ walk'[r].id = walk[r].id
           /\ walk'[r].at = walk[r].at /\ walk'[r].result = walk[r].result
           /\ walk[r].pc = "idle" => walk'[r] = walk[r]
           /\ walk[r].pc # "idle" /\ ~walk'[r].moved =>
                  ~walk[r].moved /\ ~clear /\ i \notin Ahead(walk[r].at)
           /\ walk'[r].there => walk[r].there
  BY MarksAre
<1>2. WalkTypes'
  <2>1. \E f : walk' = [r \in Readers |-> f[r]]
    <3>1. walk' = [r \in Readers |-> walk'[r]]
      BY DEF Marks
    <3>2. QED
      BY <3>1
  <2>2. QED
    BY <1>1, <2>1 DEF WalkTypes
<1>3. MissExplained'
  <2>1. ASSUME NEW r \in Readers,
               walk'[r].pc = "idle", walk'[r].id # NoId, walk'[r].result = 0
        PROVE  walk'[r].moved \/ ~walk'[r].there
    <3>1. walk[r].pc = "idle" /\ walk'[r] = walk[r]
      BY <1>1, <2>1
    <3>2. QED
      BY <2>1, <3>1 DEF MissExplained
  <2>2. QED
    BY <2>1 DEF MissExplained
<1>4. ASSUME NEW r \in Readers PROVE WalkOK(walk[r])'
  <2>1. WalkOK(walk[r])
    BY DEF WalkInv
  <2>2. walk'[r].pc # "idle" => walk'[r].id \in Ids
    BY <1>1, <2>1 DEF WalkOK
  <2>3. ASSUME walk'[r].pc # "idle", walk'[r].there, ~walk'[r].moved
        PROVE  \E S \in SUBSET Slot : \E k \in Slot :
                  /\ OnTheWay(passwd', next', chain', Moving', walk'[r].at, walk'[r].id, S, k)
                  /\ walk'[r].pc = "check" => walk'[r].at = k
    <3>1. walk[r].pc # "idle" /\ walk[r].there /\ ~walk[r].moved /\ ~clear
          /\ i \notin Ahead(walk[r].at)
      BY <1>1, <2>3
    <3>2. PICK S \in SUBSET Slot, k \in Slot :
              /\ OnTheWay(passwd, next, chain, Moving, walk[r].at, walk[r].id, S, k)
              /\ walk[r].pc = "check" => walk[r].at = k
      BY <2>1, <3>1 DEF WalkOK
    <3>3. walk[r].at \in Slot /\ walk[r].id \in Ids
      BY <2>1, <3>1, <3>2 DEF OnTheWay, WalkOK
    <3>4. PICK T \in SUBSET Slot :
              OnTheWay(passwd', next', chain', Moving', walk[r].at, walk[r].id, T, k)
      BY <3>1, <3>2, <3>3 DEF LeadsOn
    <3>5. QED
      BY <1>1, <3>2, <3>4
  <2>4. QED
    BY <2>2, <2>3 DEF WalkOK
<1>5. QED
  BY <1>2, <1>3, <1>4 DEF WalkInv
-----------------------------------------------------------------------------
(***************************************************************************)
(* The chains after a slot was taken out, put in, or written.              *)
(***************************************************************************)
LEMMA ReadyIf == ASSUME ChainInv, NEW b \in Bucket, NEW i \in chain[b] PROVE ready
<1>1. HasChain(next, head[b], chain[b])
  BY DEF ChainInv, Shape
<1>2. head[b] # 0
  BY <1>1 DEF HasChain, IsChain
<1>3. QED
  BY <1>2 DEF ChainInv

LEMMA UnlinkInv ==
    ASSUME TypeOK, ChainInv, NEW x \in Ids \cup {NoId}, NEW b, b = BucketOf(x),
           NEW i, i = finduseridhash(x), i # 0, Unlink(b, HopOf(x)),
           passwd' = passwd, ready' = ready, empty' = IF b = 0 THEN empty - 1 ELSE empty
    PROVE  /\ ChainInv' /\ ready /\ b \in Bucket
           /\ i \in chain[b] /\ i \in Slot /\ passwd[i].id = x
           /\ \A d \in Bucket : i \notin chain'[d]
<1>1. b \in Bucket /\ i \in chain[b] /\ passwd[i].id = x
  BY Found, BucketIs
<1>2. chain \in [Bucket -> SUBSET Slot] /\ chain' = [chain EXCEPT ![b] = @ \ {i}]
      /\ Shape(head', next', chain')
  BY UnlinkIs DEF ChainInv
<1>3. chain' \in [Bucket -> SUBSET Slot] /\ chain'[b] = chain[b] \ {i}
      /\ \A d \in Bucket : d # b => chain'[d] = chain[d]
  BY <1>1, <1>2
<1>4. \A d \in Bucket : chain'[d] \subseteq chain[d]
  BY <1>3
<1>5. \A d \in Bucket : i \notin chain'[d]
  BY <1>1, <1>3, OneBucket
<1>6. ready /\ i \in Slot
  BY <1>1, <1>2, ReadyIf
<1>7. empty' = Cardinality(chain'[0])
  <2>1. empty = Cardinality(chain[0])
    BY DEF ChainInv
  <2>2. CASE b = 0
    <3>1. IsFiniteSet(chain[0]) /\ Cardinality(chain[0]) \in Nat
      BY <1>2, BucketFacts, Sizes
    <3>2. Cardinality(chain[0] \ {i}) = Cardinality(chain[0]) - 1
      BY <1>1, <2>2, <3>1, FS_RemoveElement
    <3>3. QED
      BY <1>3, <2>1, <2>2, <3>2
  <2>3. CASE b # 0
    BY <1>3, <2>1, <2>3, BucketFacts
  <2>4. QED
    BY <2>2, <2>3
<1>8. ChainInv'
  <2>1. /\ \A d \in Bucket : \A j \in chain[d] : BucketOf(passwd[j].id) = d
        /\ \A d \in Bucket : \A j, l \in chain[d] :
               passwd[j].id = passwd[l].id => j = l \/ passwd[j].id = NoId
    BY DEF ChainInv
  <2>2. /\ \A d \in Bucket : \A j \in chain'[d] : BucketOf(passwd'[j].id) = d
        /\ \A d \in Bucket : \A j, l \in chain'[d] :
               passwd'[j].id = passwd'[l].id => j = l \/ passwd'[j].id = NoId
    BY <1>4, <2>1
  <2>3. QED
    BY <1>2, <1>3, <1>6, <1>7, <2>2 DEF ChainInv
<1>9. QED
  BY <1>1, <1>5, <1>6, <1>8

LEMMA PushInv ==
    ASSUME TypeOK, ChainInv, NEW b \in Bucket, NEW i \in Slot,
           \A d \in Bucket : i \notin chain[d], ready, ready' = ready, passwd' = passwd,
           chain' = [chain EXCEPT ![b] = @ \cup {i}], Shape(head', next', chain'),
           BucketOf(passwd[i].id) = b,
           passwd[i].id = NoId \/ \A j \in chain[b] : passwd[j].id # passwd[i].id,
           empty' = IF b = 0 THEN empty + 1 ELSE empty
    PROVE  ChainInv'
<1>1. chain \in [Bucket -> SUBSET Slot]
  BY DEF ChainInv
<1>2. chain' \in [Bucket -> SUBSET Slot] /\ chain'[b] = chain[b] \cup {i}
      /\ \A d \in Bucket : d # b => chain'[d] = chain[d]
  BY <1>1
<1>3. empty' = Cardinality(chain'[0])
  <2>1. empty = Cardinality(chain[0])
    BY DEF ChainInv
  <2>2. CASE b = 0
    <3>1. IsFiniteSet(chain[0])
      BY <1>1, BucketFacts, Sizes
    <3>2. Cardinality(chain[0] \cup {i}) = Cardinality(chain[0]) + 1
      BY <2>2, <3>1, FS_AddElement
    <3>3. QED
      BY <1>2, <2>1, <2>2, <3>2
  <2>3. CASE b # 0
    BY <1>2, <2>1, <2>3, BucketFacts
  <2>4. QED
    BY <2>2, <2>3
<1>4. /\ \A d \in Bucket : \A j \in chain[d] : BucketOf(passwd[j].id) = d
      /\ \A d \in Bucket : \A j, l \in chain[d] :
             passwd[j].id = passwd[l].id => j = l \/ passwd[j].id = NoId
  BY DEF ChainInv
<1>5. \A d \in Bucket : \A j \in chain'[d] : BucketOf(passwd'[j].id) = d
  BY <1>2, <1>4
<1>6. ASSUME NEW d \in Bucket, NEW j \in chain'[d], NEW l \in chain'[d],
             passwd'[j].id = passwd'[l].id
      PROVE  j = l \/ passwd'[j].id = NoId
  <2>1. CASE j \in chain[d] /\ l \in chain[d]
    BY <1>4, <1>6, <2>1
  <2>2. CASE j \notin chain[d] \/ l \notin chain[d]
    BY <1>2, <1>6, <2>2
  <2>3. QED
    BY <2>1, <2>2
<1>7. QED
  BY <1>2, <1>3, <1>5, <1>6 DEF ChainInv

LEMMA WriteInv ==
    ASSUME ChainInv, NEW i, \A d \in Bucket : i \notin chain[d], passwd \in [Slot -> Userec],
           UNCHANGED <<head, next, empty, ready>>, NEW u, passwd' = [passwd EXCEPT ![i] = u]
    PROVE  ChainInv' /\ chain' = chain
<1>1. chain' = chain /\ chain \in [Bucket -> SUBSET Slot]
  BY DEF chain, ChainInv
<1>2. \A d \in Bucket : \A j \in chain[d] : passwd'[j] = passwd[j]
  BY <1>1
<1>3. QED
  BY <1>1, <1>2 DEF ChainInv

-----------------------------------------------------------------------------
(***************************************************************************)
(* Registration.                                                           *)
(***************************************************************************)

(* A slot taken out of a chain is left by the ways that led through it.    *)
LEMMA UnlinkWay ==
    ASSUME ChainInv, NEW b \in Bucket, NEW i \in chain[b], passwd' = passwd,
           i \in Slot, next \in Pointers,
           IF b = 0 THEN \A j \in Moving' : j \in Moving \/ j = i
                    ELSE Moving' \subseteq Moving /\ passwd[i].kick = "old",
           chain' = [chain EXCEPT ![b] = @ \ {i}],
           \A j \in Slot : next'[j] = next[j]
                                \/ (j \in chain[b] /\ next[j] = i /\ next'[j] = next[i])
    PROVE  LeadsOn(0, FALSE, passwd', next', chain', Moving')
<1>1. chain \in [Bucket -> SUBSET Slot] /\ BucketOf(passwd[i].id) = b
  BY DEF ChainInv
<1>2. chain'[b] = chain[b] \ {i} /\ \A d \in Bucket : d # b => chain'[d] = chain[d]
  BY <1>1
<1>3. ASSUME NEW at \in Slot, NEW x \in Ids, NEW S \in SUBSET Slot, NEW k \in Slot,
             OnTheWay(passwd, next, chain, Moving, at, x, S, k)
      PROVE  OnTheWay(passwd', next', chain', Moving', at, x, S, k)
  <2>1. /\ at \in S
        /\ \A j \in S : j = k \/ (passwd[j].id # x /\ next[j] \in S)
        /\ \A d \in Bucket : d = Hash[x] \/ S \cap chain[d] = {}
        /\ S \cap Moving = {}
        /\ k \in chain[Hash[x]] /\ passwd[k].id = x /\ passwd[k].kick = "no"
    BY <1>3 DEF OnTheWay
  <2>2. Hash[x] \in Bucket /\ Hash[x] # 0 /\ BucketOf(x) = Hash[x]
    BY BucketFacts DEF BucketOf
  <2>3. i # k
    <3>1. CASE b = 0
      BY <1>1, <2>1, <2>2, <3>1
    <3>2. CASE b # 0
      BY <2>1, <3>2
    <3>3. QED
      BY <3>1, <3>2
  <2>4. \A j \in S : j = k \/ next'[j] \in S
    BY <2>1, <2>3
  <2>5. S \cap Moving' = {}
    BY <2>1, <2>2
  <2>6. k \in chain'[Hash[x]] /\ \A d \in Bucket : d = Hash[x] \/ S \cap chain'[d] = {}
    BY <1>2, <2>1, <2>2, <2>3
  <2>7. QED
    BY <2>1, <2>4, <2>5, <2>6 DEF OnTheWay
<1>4. QED
  BY <1>3 DEF LeadsOn

LEMMA InsertTakeStep == ASSUME IInv, NEW p \in Writers, InsertTake(p) PROVE IInv'
<1> USE DEF IInv
<1> DEFINE i == finduseridhash(NoId)
<1>1. /\ pc[p] = "ins_take" /\ i # 0 /\ pc' = [pc EXCEPT ![p] = "ins_write"]
      /\ slot' = [slot EXCEPT ![p] = i] /\ Unlink(0, HopOf(NoId)) /\ empty' = empty - 1
      /\ UNCHANGED <<ready, lastspace, passwd, lock, arg, home, damaged>>
      /\ Marks(0, FALSE)
  BY DEF InsertTake, Goto
<1>2. BucketOf(NoId) = 0 /\ NoId \in Ids \cup {NoId}
  BY DEF BucketOf
<1> HIDE DEF i
<1>3. /\ ChainInv' /\ ready /\ 0 \in Bucket
      /\ i \in chain[0] /\ i \in Slot /\ passwd[i].id = NoId
      /\ \A d \in Bucket : i \notin chain'[d]
  BY <1>1, <1>2, UnlinkInv DEF i
<1>4. /\ head' \in [Bucket -> Slot \cup {0}] /\ next' \in Pointers
      /\ chain' = [chain EXCEPT ![0] = @ \ {i}]
      /\ \A j \in Slot : next'[j] = next[j]
                           \/ (j \in chain[0] /\ next[j] = i /\ next'[j] = next[i])
  BY <1>1, <1>2, UnlinkIs DEF i
<1>5. lock = p /\ CallOK(p)
  BY <1>1 DEF LockInv, CallInv, Locking
<1>6. CallTypes'
  <2>1. i \in 0..MaxUsers + 1
    BY <1>3 DEF Slot
  <2>2. QED
    BY <1>1, <2>1 DEF CallTypes, Locking, Inserting
<1>7. LockInv'
  <2>1. "ins_write" \in Locking
    BY DEF Locking, Inserting
  <2>2. QED
    BY <1>1, <1>5, <2>1, LockStep
<1>8. pc'[p] = "ins_write" /\ slot'[p] = i /\ \A q \in Writers : q # p =>
          pc'[q] = pc[q] /\ slot'[q] = slot[q]
  BY <1>1 DEF CallTypes
<1>9. CallInv'
  <2>1. /\ arg[p] \in Ids
        /\ \A j \in chain[Hash[arg[p]]] : passwd[j].id # arg[p]
    BY <1>1, <1>5 DEF CallOK
  <2>2. chain'[Hash[arg[p]]] = chain[Hash[arg[p]]]
    BY <1>4, <2>1, BucketFacts DEF ChainInv
  <2>3. CallOK(p)'
    BY <1>1, <1>3, <1>8, <2>1, <2>2 DEF CallOK, Inserting, Deleting
  <2>4. QED
    BY <1>1, <1>5, <1>8, <2>3, CallStep
<1>10. \A j \in Moving' : j \in Moving \/ j = i
  BY <1>1, <1>8, MovingGrows
<1>11. LeadsOn(0, FALSE, passwd', next', chain', Moving')
  BY <1>1, <1>3, <1>4, <1>10, Values, UnlinkWay
<1>12. WalkTypes' /\ WalkInv' /\ MissExplained'
  BY <1>1, <1>11, MarksStep
<1>13. TypeOK'
  <2>1. lastspace' \in Slot \cup {0}
    BY <1>1 DEF TypeOK, Slot
  <2>2. QED
    BY <1>1, <1>3, <1>4, <1>12, <2>1, Typed DEF TypeOK
<1>14. QED
  BY <1>3, <1>6, <1>7, <1>9, <1>12, <1>13
(* Steps that touch only slots outside the chains: those a search has on   *)
(* its way keep their pointers, and get no id.                             *)
LEMMA KeptWay ==
    ASSUME NEW i, NEW clear, Moving' \subseteq Moving,
           \A j \in Slot : next'[j] = next[j] \/ j \in Moving,
           \A j \in Slot : passwd'[j] = passwd[j]
               \/ /\ \A d \in Bucket : j \notin chain[d]
                  /\ j \in Moving \/ passwd'[j].id = NoId,
           \A d \in Bucket : /\ chain[d] \subseteq chain'[d]
                             /\ \A j \in chain'[d] : j \in chain[d] \/ j \in Moving
    PROVE  LeadsOn(i, clear, passwd', next', chain', Moving')
<1>1. ASSUME NEW at \in Slot, NEW x \in Ids, NEW S \in SUBSET Slot, NEW k \in Slot,
             OnTheWay(passwd, next, chain, Moving, at, x, S, k)
      PROVE  OnTheWay(passwd', next', chain', Moving', at, x, S, k)
  <2>1. /\ at \in S
        /\ \A j \in S : j = k \/ (passwd[j].id # x /\ next[j] \in S)
        /\ \A d \in Bucket : d = Hash[x] \/ S \cap chain[d] = {}
        /\ S \cap Moving = {}
        /\ k \in chain[Hash[x]] /\ passwd[k].id = x /\ passwd[k].kick = "no"
    BY <1>1 DEF OnTheWay
  <2>2. Hash[x] \in Bucket /\ x # NoId
    BY BucketFacts
  <2>3. \A j \in S : j = k \/ (passwd'[j].id # x /\ next'[j] \in S)
    <3>1. ASSUME NEW j \in S, j # k PROVE passwd'[j].id # x /\ next'[j] \in S
      <4>1. j \notin Moving /\ passwd[j].id # x /\ next[j] \in S /\ j \in Slot
        BY <2>1, <3>1
      <4>2. QED
        BY <2>2, <4>1
    <3>2. QED
      BY <3>1
  <2>4. passwd'[k] = passwd[k] /\ k \in chain'[Hash[x]]
    BY <2>1, <2>2
  <2>5. \A d \in Bucket : d = Hash[x] \/ S \cap chain'[d] = {}
    BY <2>1
  <2>6. S \cap Moving' = {}
    BY <2>1
  <2>7. QED
    BY <2>1, <2>3, <2>4, <2>5, <2>6 DEF OnTheWay
<1>2. QED
  BY <1>1 DEF LeadsOn

LEMMA InsertWriteStep == ASSUME IInv, NEW p \in Writers, InsertWrite(p) PROVE IInv'
<1> USE DEF IInv
<1> DEFINE u == [id |-> arg[p], kick |-> "no"]
<1>1. /\ pc[p] = "ins_write" /\ pc' = [pc EXCEPT ![p] = "ins_next"]
      /\ passwd' = [passwd EXCEPT ![slot[p]] = u]
      /\ UNCHANGED <<head, next, empty, ready, lastspace, lock, arg, slot, home, damaged>>
      /\ Marks(0, FALSE)
  BY DEF InsertWrite, Goto, shared
<1>2. lock = p /\ CallOK(p)
  BY <1>1 DEF LockInv, CallInv, Locking, Inserting
<1>3. /\ arg[p] \in Ids /\ ready /\ slot[p] \in Slot
      /\ \A b \in Bucket : slot[p] \notin chain[b]
      /\ \A i \in chain[Hash[arg[p]]] : passwd[i].id # arg[p]
  BY <1>1, <1>2 DEF CallOK, Inserting
<1>4. u \in Userec /\ u.id = arg[p] /\ u.kick = "no"
  BY <1>3 DEF Userec
<1>5. passwd \in [Slot -> Userec]
  BY DEF TypeOK
<1> HIDE DEF u
<1>6. /\ passwd' \in [Slot -> Userec] /\ passwd'[slot[p]] = u
      /\ \A j \in Slot : j # slot[p] => passwd'[j] = passwd[j]
  BY <1>1, <1>3, <1>4, <1>5
<1>7. ChainInv' /\ chain' = chain
  BY <1>1, <1>3, <1>5, WriteInv
<1>8. CallTypes'
  BY <1>1 DEF CallTypes, Locking, Inserting
<1>9. LockInv'
  <2>1. "ins_next" \in Locking
    BY DEF Locking, Inserting
  <2>2. QED
    BY <1>1, <1>2, <2>1, LockStep
<1>10. pc'[p] = "ins_next" /\ \A q \in Writers : q # p => pc'[q] = pc[q]
  BY <1>1 DEF CallTypes
<1>11. CallInv'
  <2>1. \A i \in chain[Hash[arg[p]]] : passwd'[i].id # arg[p]
    BY <1>3, <1>6, BucketFacts DEF ChainInv
  <2>2. passwd'[slot[p]] = [id |-> arg[p], kick |-> "no"]
    BY <1>6 DEF u
  <2>3. CallOK(p)'
    BY <1>1, <1>3, <1>7, <1>10, <2>1, <2>2 DEF CallOK, Inserting, Deleting
  <2>4. QED
    BY <1>1, <1>2, <1>10, <2>3, CallStep
<1>12. slot[p] \in Moving
  BY <1>1 DEF Moving, Inserting
<1>13. Moving' \subseteq Moving
  BY <1>1, <1>12, MovingGrows
<1>14. LeadsOn(0, FALSE, passwd', next', chain', Moving')
  <2>1. \A j \in Slot : next'[j] = next[j] \/ j \in Moving
    BY <1>1
  <2>2. \A j \in Slot : passwd'[j] = passwd[j]
            \/ /\ \A d \in Bucket : j \notin chain[d]
               /\ j \in Moving \/ passwd'[j].id = NoId
    BY <1>3, <1>6, <1>12
  <2>3. \A d \in Bucket : /\ chain[d] \subseteq chain'[d]
                          /\ \A j \in chain'[d] : j \in chain[d] \/ j \in Moving
    BY <1>7
  <2>4. QED
    BY <1>13, <2>1, <2>2, <2>3, KeptWay
<1>15. WalkTypes' /\ WalkInv' /\ MissExplained'
  BY <1>1, <1>14, MarksStep
<1>16. TypeOK'
  <2>1. lastspace' \in Slot \cup {0} /\ head' \in [Bucket -> Slot \cup {0}]
        /\ next' \in Pointers
    BY <1>1, Values DEF TypeOK, Slot
  <2>2. QED
    BY <1>1, <1>6, <1>7, <1>15, <2>1, Typed DEF TypeOK
<1>17. QED
  BY <1>7, <1>8, <1>9, <1>11, <1>15, <1>16

LEMMA InsertNextStep == ASSUME IInv, NEW p \in Writers, InsertNext(p) PROVE IInv'
<1> USE DEF IInv
<1> DEFINE b == Hash[arg[p]]
<1>1. /\ pc[p] = "ins_next" /\ pc' = [pc EXCEPT ![p] = "ins_head"]
      /\ PushNext(BucketOf(arg[p]), slot[p])
      /\ UNCHANGED <<empty, ready, lastspace, passwd, lock, arg, slot, home, damaged>>
      /\ Marks(slot[p], FALSE)
  BY DEF InsertNext, Goto
<1>2. lock = p /\ CallOK(p)
  BY <1>1 DEF LockInv, CallInv, Locking, Inserting
<1>3. /\ arg[p] \in Ids /\ ready /\ slot[p] \in Slot
      /\ \A d \in Bucket : slot[p] \notin chain[d]
      /\ \A i \in chain[b] : passwd[i].id # arg[p]
      /\ passwd[slot[p]] = [id |-> arg[p], kick |-> "no"]
  BY <1>1, <1>2 DEF CallOK, Inserting
<1>4. BucketOf(arg[p]) = b /\ b \in Bucket
  BY <1>3, BucketFacts DEF BucketOf
<1> HIDE DEF b
<1>5. /\ head' = head /\ next' \in Pointers /\ next'[slot[p]] = head[b]
      /\ \A j \in Slot : j # slot[p] => next'[j] = next[j]
      /\ chain' = chain /\ Shape(head', next', chain')
  BY <1>1, <1>3, <1>4, PushNextIs
<1>6. ChainInv'
  BY <1>1, <1>5 DEF ChainInv
<1>7. CallTypes'
  BY <1>1 DEF CallTypes, Locking, Inserting
<1>8. LockInv'
  <2>1. "ins_head" \in Locking
    BY DEF Locking, Inserting
  <2>2. QED
    BY <1>1, <1>2, <2>1, LockStep
<1>9. pc'[p] = "ins_head" /\ \A q \in Writers : q # p => pc'[q] = pc[q]
  BY <1>1 DEF CallTypes
<1>10. CallInv'
  <2>1. CallOK(p)'
    BY <1>1, <1>3, <1>5, <1>9 DEF CallOK, Inserting, Deleting, b
  <2>2. QED
    BY <1>1, <1>2, <1>9, <2>1, CallStep
<1>11. slot[p] \in Moving
  BY <1>1 DEF Moving, Inserting
<1>12. Moving' \subseteq Moving
  BY <1>1, <1>11, MovingGrows
<1>13. LeadsOn(slot[p], FALSE, passwd', next', chain', Moving')
  BY <1>1, <1>5, <1>11, <1>12, KeptWay
<1>14. WalkTypes' /\ WalkInv' /\ MissExplained'
  BY <1>1, <1>13, MarksStep
<1>15. TypeOK'
  <2>1. lastspace' \in Slot \cup {0} /\ head' \in [Bucket -> Slot \cup {0}]
    BY <1>1, <1>5, Values DEF TypeOK, Slot
  <2>2. QED
    BY <1>1, <1>5, <1>6, <1>14, <2>1, Typed DEF TypeOK
<1>16. QED
  BY <1>6, <1>7, <1>8, <1>10, <1>14, <1>15

LEMMA InsertHeadStep == ASSUME IInv, NEW p \in Writers, InsertHead(p) PROVE IInv'
<1> USE DEF IInv
<1> DEFINE b == Hash[arg[p]]
<1>1. /\ pc[p] = "ins_head" /\ pc' = [pc EXCEPT ![p] = "ins_home"]
      /\ PushHead(BucketOf(arg[p]), slot[p]) /\ lock' = Nobody
      /\ UNCHANGED <<empty, ready, lastspace, passwd, arg, slot, home, damaged>>
      /\ Marks(0, FALSE)
  BY DEF InsertHead, Goto
<1>2. lock = p /\ CallOK(p)
  BY <1>1 DEF LockInv, CallInv, Locking, Inserting
<1>3. /\ arg[p] \in Ids /\ ready /\ slot[p] \in Slot
      /\ \A d \in Bucket : slot[p] \notin chain[d]
      /\ \A i \in chain[b] : passwd[i].id # arg[p]
      /\ passwd[slot[p]] = [id |-> arg[p], kick |-> "no"] /\ next[slot[p]] = head[b]
  BY <1>1, <1>2 DEF CallOK, Inserting
<1>4. BucketOf(arg[p]) = b /\ b \in Bucket /\ b # 0 /\ passwd[slot[p]].id = arg[p]
  BY <1>3, BucketFacts DEF BucketOf
<1> HIDE DEF b
<1>5. /\ head' \in [Bucket -> Slot \cup {0}] /\ next' = next
      /\ chain' = [chain EXCEPT ![b] = @ \cup {slot[p]}]
      /\ Shape(head', next', chain')
  BY <1>1, <1>3, <1>4, PushHeadIs
<1>6. ChainInv'
  BY <1>1, <1>3, <1>4, <1>5, PushInv
<1>7. CallTypes'
  BY <1>1 DEF CallTypes, Locking
<1>8. LockInv'
  <2>1. "ins_home" \notin Locking
    BY DEF Locking, Inserting, Deleting
  <2>2. QED
    BY <1>1, <1>2, <2>1, LockStep
<1>9. pc'[p] = "ins_home" /\ \A q \in Writers : q # p => pc'[q] = pc[q]
  BY <1>1 DEF CallTypes
<1>10. CallInv'
  <2>1. CallOK(p)'
    BY <1>1, <1>3, <1>9 DEF CallOK, Inserting, Deleting
  <2>2. QED
    BY <1>1, <1>2, <1>9, <2>1, CallStep
<1>11. slot[p] \in Moving
  BY <1>1 DEF Moving, Inserting
<1>12. Moving' \subseteq Moving
  BY <1>1, <1>11, MovingGrows
<1>13. \A d \in Bucket : /\ chain[d] \subseteq chain'[d]
                         /\ \A j \in chain'[d] : j \in chain[d] \/ j \in Moving
  BY <1>4, <1>5, <1>11 DEF ChainInv
<1>14. LeadsOn(0, FALSE, passwd', next', chain', Moving')
  BY <1>1, <1>5, <1>12, <1>13, KeptWay
<1>15. WalkTypes' /\ WalkInv' /\ MissExplained'
  BY <1>1, <1>14, MarksStep
<1>16. TypeOK'
  <2>1. lastspace' \in Slot \cup {0} /\ next' \in Pointers
    BY <1>1, <1>5, Values DEF TypeOK, Slot
  <2>2. QED
    BY <1>1, <1>5, <1>6, <1>15, <2>1, Typed DEF TypeOK
<1>17. QED
  BY <1>6, <1>7, <1>8, <1>10, <1>15, <1>16
-----------------------------------------------------------------------------
(***************************************************************************)
(* Deletion.                                                               *)
(***************************************************************************)
LEMMA DeleteUnlinkStep == ASSUME IInv, NEW p \in Writers, DeleteUnlink(p) PROVE IInv'
<1> USE DEF IInv
<1> DEFINE x == arg[p]
           b == BucketOf(x)
           i == slot[p]
<1>1. /\ pc[p] = "del_unlink" /\ pc' = [pc EXCEPT ![p] = "del_write"]
      /\ Unlink(b, HopOf(x))
      /\ UNCHANGED <<empty, ready, lastspace, passwd, lock, arg, slot, home, damaged>>
      /\ Marks(0, FALSE)
  BY DEF DeleteUnlink, Goto
<1>2. lock = p /\ CallOK(p)
  BY <1>1 DEF LockInv, CallInv, Locking
<1>3. /\ x \in Ids /\ ready /\ i \in chain[Hash[x]]
      /\ passwd[i].id = x /\ passwd[i].kick = "old"
  BY <1>1, <1>2 DEF CallOK
<1>4. x \in Ids \cup {NoId} /\ b = Hash[x] /\ b \in Bucket /\ b # 0 /\ x # NoId
  BY <1>3, BucketFacts DEF BucketOf
<1> HIDE DEF b
<1>5. finduseridhash(x) = i /\ i # 0
  <2>1. PICK j : j = finduseridhash(x)
    OBVIOUS
  <2>2. PICK k : k = HopOf(x)
    OBVIOUS
  <2>3. /\ j = 0 => \A l \in chain[b] : passwd[l].id # x
        /\ j # 0 => j \in chain[b] /\ passwd[j].id = x
    BY <1>4, <2>1, <2>2, Found DEF b
  <2>4. j # 0 /\ j \in chain[b] /\ passwd[j].id = x
    BY <1>3, <1>4, <2>3
  <2>5. j = i
    BY <1>3, <1>4, <2>4 DEF ChainInv
  <2>6. QED
    BY <2>1, <2>4, <2>5
<1> HIDE DEF i, x
<1>6. /\ ChainInv' /\ i \in chain[b] /\ i \in Slot
      /\ \A d \in Bucket : i \notin chain'[d]
  BY <1>1, <1>4, <1>5, UnlinkInv DEF b
<1>7. /\ head' \in [Bucket -> Slot \cup {0}] /\ next' \in Pointers
      /\ chain' = [chain EXCEPT ![b] = @ \ {i}]
      /\ \A j \in Slot : next'[j] = next[j]
                           \/ (j \in chain[b] /\ next[j] = i /\ next'[j] = next[i])
  BY <1>1, <1>4, <1>5, UnlinkIs DEF b
<1>8. CallTypes'
  BY <1>1 DEF CallTypes, Locking, Deleting
<1>9. LockInv'
  <2>1. "del_write" \in Locking
    BY DEF Locking, Deleting
  <2>2. QED
    BY <1>1, <1>2, <2>1, LockStep
<1>10. pc'[p] = "del_write" /\ \A q \in Writers : q # p => pc'[q] = pc[q]
  BY <1>1 DEF CallTypes
<1>11. CallInv'
  <2>1. slot'[p] = i /\ arg'[p] = x /\ ready'
    BY <1>1, <1>3 DEF i, x
  <2>2. CallOK(p)'
    BY <1>3, <1>6, <1>10, <2>1 DEF CallOK, Inserting, Deleting
  <2>3. QED
    BY <1>1, <1>2, <1>10, <2>2, CallStep
<1>12. Moving' \subseteq Moving
  <2>1. "del_write" \notin Inserting \cup {"del_head"}
    BY DEF Inserting
  <2>2. QED
    BY <1>1, <2>1, MovingGrows
<1>13. LeadsOn(0, FALSE, passwd', next', chain', Moving')
  <2>1. IF b = 0 THEN \A j \in Moving' : j \in Moving \/ j = i
        ELSE Moving' \subseteq Moving /\ passwd[i].kick = "old"
    BY <1>3, <1>4, <1>12
  <2>2. next \in Pointers /\ passwd' = passwd
    BY <1>1, Values
  <2>3. QED
    BY <1>4, <1>6, <1>7, <2>1, <2>2, UnlinkWay
<1>14. WalkTypes' /\ WalkInv' /\ MissExplained'
  BY <1>1, <1>13, MarksStep
<1>15. TypeOK'
  <2>1. lastspace' \in Slot \cup {0}
    BY <1>1 DEF TypeOK, Slot
  <2>2. QED
    BY <1>1, <1>6, <1>7, <1>14, <2>1, Typed DEF TypeOK
<1>16. QED
  BY <1>6, <1>8, <1>9, <1>11, <1>14, <1>15

LEMMA DeleteWriteStep == ASSUME IInv, NEW p \in Writers, DeleteWrite(p) PROVE IInv'
<1> USE DEF IInv
<1> DEFINE u == [id |-> NoId, kick |-> "no"]
<1>1. /\ pc[p] = "del_write" /\ pc' = [pc EXCEPT ![p] = "del_next"]
      /\ passwd' = [passwd EXCEPT ![slot[p]] = u]
      /\ UNCHANGED <<head, next, empty, ready, lastspace, lock, arg, slot, home, damaged>>
      /\ Marks(0, FALSE)
  BY DEF DeleteWrite, Goto, shared
<1>2. lock = p /\ CallOK(p)
  BY <1>1 DEF LockInv, CallInv, Locking, Deleting
<1>3. /\ arg[p] \in Ids /\ ready /\ slot[p] \in Slot
      /\ \A b \in Bucket : slot[p] \notin chain[b]
  BY <1>1, <1>2 DEF CallOK, Deleting
<1>4. u \in Userec /\ u.id = NoId
  BY DEF Userec
<1>5. passwd \in [Slot -> Userec]
  BY DEF TypeOK
<1> HIDE DEF u
<1>6. /\ passwd' \in [Slot -> Userec] /\ passwd'[slot[p]] = u
      /\ \A j \in Slot : j # slot[p] => passwd'[j] = passwd[j]
  BY <1>1, <1>3, <1>4, <1>5
<1>7. ChainInv' /\ chain' = chain
  BY <1>1, <1>3, <1>5, WriteInv
<1>8. CallTypes'
  BY <1>1 DEF CallTypes, Locking, Deleting
<1>9. LockInv'
  <2>1. "del_next" \in Locking
    BY DEF Locking, Deleting
  <2>2. QED
    BY <1>1, <1>2, <2>1, LockStep
<1>10. pc'[p] = "del_next" /\ \A q \in Writers : q # p => pc'[q] = pc[q]
  BY <1>1 DEF CallTypes
<1>11. CallInv'
  <2>1. passwd'[slot[p]].id = NoId
    BY <1>4, <1>6
  <2>2. CallOK(p)'
    BY <1>1, <1>3, <1>7, <1>10, <2>1 DEF CallOK, Inserting, Deleting
  <2>3. QED
    BY <1>1, <1>2, <1>10, <2>2, CallStep
<1>12. Moving' \subseteq Moving
  <2>1. "del_next" \notin Inserting \cup {"del_head"}
    BY DEF Inserting
  <2>2. QED
    BY <1>1, <2>1, MovingGrows
<1>13. LeadsOn(0, FALSE, passwd', next', chain', Moving')
  <2>1. \A j \in Slot : next'[j] = next[j] \/ j \in Moving
    BY <1>1
  <2>2. \A j \in Slot : passwd'[j] = passwd[j]
            \/ /\ \A d \in Bucket : j \notin chain[d]
               /\ j \in Moving \/ passwd'[j].id = NoId
    BY <1>3, <1>4, <1>6
  <2>3. \A d \in Bucket : /\ chain[d] \subseteq chain'[d]
                          /\ \A j \in chain'[d] : j \in chain[d] \/ j \in Moving
    BY <1>7
  <2>4. QED
    BY <1>12, <2>1, <2>2, <2>3, KeptWay
<1>14. WalkTypes' /\ WalkInv' /\ MissExplained'
  BY <1>1, <1>13, MarksStep
<1>15. TypeOK'
  <2>1. lastspace' \in Slot \cup {0} /\ head' \in [Bucket -> Slot \cup {0}]
        /\ next' \in Pointers
    BY <1>1, Values DEF TypeOK, Slot
  <2>2. QED
    BY <1>1, <1>6, <1>7, <1>14, <2>1, Typed DEF TypeOK
<1>16. QED
  BY <1>7, <1>8, <1>9, <1>11, <1>14, <1>15

(* The slots ahead of a search are a way of their own. *)
LEMMA AheadIs == ASSUME NEW at \in Slot
                 PROVE  at \in Ahead(at) /\ \A j \in Ahead(at) :
                            j \in Slot /\ (next[j] \in Slot => next[j] \in Ahead(at))
<1>1. at \in Ahead(at)
  BY DEF Ahead
<1>2. ASSUME NEW j \in Ahead(at), next[j] \in Slot PROVE next[j] \in Ahead(at)
  <2>1. j \in Slot /\ j # 0
    BY SlotFacts DEF Ahead
  <2>2. ASSUME NEW S \in SUBSET ({0} \cup Slot), at \in S, \A s \in S \ {0} : next[s] \in S
        PROVE  next[j] \in S
    <3>1. j \in S
      BY <2>2 DEF Ahead
    <3>2. QED
      BY <2>1, <2>2, <3>1
  <2>3. QED
    BY <1>2, <2>2 DEF Ahead
<1>3. QED
  BY <1>1, <1>2 DEF Ahead

LEMMA DeleteNextStep == ASSUME IInv, NEW p \in Writers, DeleteNext(p) PROVE IInv'
<1> USE DEF IInv
<1>1. /\ pc[p] = "del_next" /\ pc' = [pc EXCEPT ![p] = "del_head"]
      /\ PushNext(0, slot[p])
      /\ UNCHANGED <<empty, ready, lastspace, passwd, lock, arg, slot, home, damaged>>
      /\ Marks(slot[p], FALSE)
  BY DEF DeleteNext, Goto
<1>2. lock = p /\ CallOK(p)
  BY <1>1 DEF LockInv, CallInv, Locking, Deleting
<1>3. /\ arg[p] \in Ids /\ ready /\ slot[p] \in Slot
      /\ \A d \in Bucket : slot[p] \notin chain[d]
      /\ passwd[slot[p]].id = NoId
  BY <1>1, <1>2 DEF CallOK, Deleting
<1>4. /\ head' = head /\ next' \in Pointers /\ next'[slot[p]] = head[0]
      /\ \A j \in Slot : j # slot[p] => next'[j] = next[j]
      /\ chain' = chain /\ Shape(head', next', chain')
  BY <1>1, <1>3, BucketFacts, PushNextIs
<1>5. ChainInv'
  BY <1>1, <1>4 DEF ChainInv
<1>6. CallTypes'
  BY <1>1 DEF CallTypes, Locking, Deleting
<1>7. LockInv'
  <2>1. "del_head" \in Locking
    BY DEF Locking, Deleting
  <2>2. QED
    BY <1>1, <1>2, <2>1, LockStep
<1>8. pc'[p] = "del_head" /\ \A q \in Writers : q # p => pc'[q] = pc[q]
  BY <1>1 DEF CallTypes
<1>9. CallInv'
  <2>1. CallOK(p)'
    BY <1>1, <1>3, <1>4, <1>8 DEF CallOK, Inserting, Deleting
  <2>2. QED
    BY <1>1, <1>2, <1>8, <2>1, CallStep
<1>10. \A j \in Moving' : j \in Moving \/ j = slot[p]
  BY <1>1, MovingGrows
<1>11. LeadsOn(slot[p], FALSE, passwd', next', chain', Moving')
  <2>1. ASSUME NEW at \in Slot, NEW x \in Ids, NEW S \in SUBSET Slot, NEW k \in Slot,
               OnTheWay(passwd, next, chain, Moving, at, x, S, k), slot[p] \notin Ahead(at)
        PROVE  OnTheWay(passwd', next', chain', Moving', at, x, S \cap Ahead(at), k)
    <3>1. /\ at \in S
          /\ \A j \in S : j = k \/ (passwd[j].id # x /\ next[j] \in S)
          /\ \A d \in Bucket : d = Hash[x] \/ S \cap chain[d] = {}
          /\ S \cap Moving = {}
          /\ k \in chain[Hash[x]] /\ passwd[k].id = x /\ passwd[k].kick = "no"
      BY <2>1 DEF OnTheWay
    <3> DEFINE T == S \cap Ahead(at)
    <3>2. at \in T
      BY <3>1, AheadIs
    <3>3. \A j \in T : j = k \/ (passwd'[j].id # x /\ next'[j] \in T)
      <4>1. ASSUME NEW j \in T, j # k PROVE passwd'[j].id # x /\ next'[j] \in T
        <5>1. passwd[j].id # x /\ next[j] \in S /\ j \in Ahead(at) /\ j # slot[p]
          BY <2>1, <3>1, <4>1
        <5>2. next[j] \in Ahead(at) /\ j \in Slot
          BY <5>1, AheadIs
        <5>3. QED
          BY <1>1, <1>4, <5>1, <5>2
      <4>2. QED
        BY <4>1
    <3>4. T \cap Moving' = {}
      BY <1>10, <2>1, <3>1
    <3>5. (\A d \in Bucket : d = Hash[x] \/ T \cap chain'[d] = {}) /\ k \in chain'[Hash[x]]
      BY <1>4, <3>1
    <3>6. passwd'[k].id = x /\ passwd'[k].kick = "no"
      BY <1>1, <3>1
    <3> HIDE DEF T
    <3>7. QED
      BY <3>2, <3>3, <3>4, <3>5, <3>6 DEF OnTheWay, T
  <2>2. QED
    BY <2>1 DEF LeadsOn
<1>12. WalkTypes' /\ WalkInv' /\ MissExplained'
  BY <1>1, <1>11, MarksStep
<1>13. TypeOK'
  <2>1. lastspace' \in Slot \cup {0} /\ head' \in [Bucket -> Slot \cup {0}]
    BY <1>1, <1>4, Values DEF TypeOK, Slot
  <2>2. QED
    BY <1>1, <1>4, <1>5, <1>12, <2>1, Typed DEF TypeOK
<1>14. QED
  BY <1>5, <1>6, <1>7, <1>9, <1>12, <1>13

LEMMA DeleteHeadStep == ASSUME IInv, NEW p \in Writers, DeleteHead(p) PROVE IInv'
<1> USE DEF IInv
<1>1. /\ pc[p] = "del_head" /\ pc' = [pc EXCEPT ![p] = "idle"]
      /\ PushHead(0, slot[p]) /\ lock' = (IF lock = p THEN Nobody ELSE lock)
      /\ empty' = empty + 1
      /\ arg' = [arg EXCEPT ![p] = NoId] /\ slot' = [slot EXCEPT ![p] = 0]
      /\ UNCHANGED <<ready, lastspace, passwd, home, damaged>>
      /\ Marks(0, FALSE)
  BY DEF DeleteHead, Unlock, Goto
<1>2. lock = p /\ CallOK(p)
  BY <1>1 DEF LockInv, CallInv, Locking, Deleting
<1>3. /\ ready /\ slot[p] \in Slot
      /\ \A d \in Bucket : slot[p] \notin chain[d]
      /\ passwd[slot[p]].id = NoId /\ next[slot[p]] = head[0] /\ BucketOf(NoId) = 0
  BY <1>1, <1>2 DEF CallOK, Deleting, BucketOf
<1>4. /\ head' \in [Bucket -> Slot \cup {0}] /\ next' = next
      /\ chain' = [chain EXCEPT ![0] = @ \cup {slot[p]}]
      /\ Shape(head', next', chain')
  BY <1>1, <1>3, BucketFacts, PushHeadIs
<1>5. ChainInv'
  BY <1>1, <1>3, <1>4, BucketFacts, PushInv
<1>6. CallTypes'
  BY <1>1 DEF CallTypes
<1>7. LockInv'
  <2>1. "idle" \notin Locking
    BY DEF Locking, Inserting, Deleting
  <2>2. QED
    BY <1>1, <1>2, <2>1, LockStep
<1>8. pc'[p] = "idle" /\ \A q \in Writers : q # p =>
          pc'[q] = pc[q] /\ arg'[q] = arg[q] /\ slot'[q] = slot[q]
  BY <1>1 DEF CallTypes
<1>9. CallInv'
  <2>1. CallOK(p)'
    BY <1>8 DEF CallOK, Inserting, Deleting
  <2>2. QED
    BY <1>2, <1>8, <2>1, CallStep
<1>10. slot[p] \in Moving
  BY <1>1 DEF Moving
<1>11. Moving' \subseteq Moving
  <2>1. "idle" \notin Inserting \cup {"del_head"}
    BY DEF Inserting
  <2>2. QED
    BY <1>1, <1>8, <2>1, MovingGrows
<1>12. \A d \in Bucket : /\ chain[d] \subseteq chain'[d]
                         /\ \A j \in chain'[d] : j \in chain[d] \/ j \in Moving
  BY <1>4, <1>10 DEF ChainInv
<1>13. LeadsOn(0, FALSE, passwd', next', chain', Moving')
  BY <1>1, <1>4, <1>11, <1>12, KeptWay
<1>14. WalkTypes' /\ WalkInv' /\ MissExplained'
  BY <1>1, <1>13, MarksStep
<1>15. TypeOK'
  <2>1. lastspace' \in Slot \cup {0} /\ next' \in Pointers
    BY <1>1, <1>4, Values DEF TypeOK, Slot
  <2>2. lock' \in Writers \cup {Nobody}
    BY <1>1, <1>2
  <2>3. QED
    BY <1>1, <1>4, <1>5, <1>14, <2>1, <2>2, Typed DEF TypeOK
<1>16. QED
  BY <1>5, <1>6, <1>7, <1>9, <1>14, <1>15
-----------------------------------------------------------------------------
(***************************************************************************)
(* The rebuild.                                                            *)
(***************************************************************************)
LEMMA LoadClearStep == ASSUME IInv, NEW p \in Writers, LoadClear(p) PROVE IInv'
<1> USE DEF IInv
<1>1. /\ pc' = [pc EXCEPT ![p] = "load"] /\ lock = Nobody /\ lock' = p
      /\ arg' = [arg EXCEPT ![p] = NoId] /\ slot' = [slot EXCEPT ![p] = 1]
      /\ head' = [b \in Bucket |-> 0] /\ next' = [i \in Slot |-> 0]
      /\ empty' = 0 /\ ready' = FALSE /\ lastspace' = 0
      /\ UNCHANGED <<passwd, home, damaged>> /\ Marks(0, TRUE)
  BY DEF LoadClear, Lock, Goto
<1>2. head' \in [Bucket -> Slot \cup {0}] /\ next' \in Pointers
  BY <1>1 DEF Pointers
<1> DEFINE c == [b \in Bucket |-> {}]
<1>3. c \in [Bucket -> SUBSET Slot] /\ \A b \in Bucket : c[b] = {}
  OBVIOUS
<1> HIDE DEF c
<1>4. Shape(head', next', c)
  <2>1. ASSUME NEW b \in Bucket PROVE HasChain(next', head'[b], c[b])
    <3>1. head'[b] = 0 /\ c[b] = {}
      BY <1>1, <1>3
    <3>2. HasChain(next', 0, {})
      BY EmptyChain
    <3>3. QED
      BY <3>1, <3>2
  <2>2. QED
    BY <2>1 DEF Shape
<1>5. chain' = c
  BY <1>2, <1>3, <1>4, ChainIs DEF chain
<1>6. chain' \in [Bucket -> SUBSET Slot] /\ \A b \in Bucket : chain'[b] = {}
  BY <1>3, <1>5
<1>7. ChainInv'
  <2>1. empty' = Cardinality(chain'[0])
    BY <1>1, <1>6, BucketFacts, FS_EmptySet
  <2>2. Shape(head', next', chain')
    BY <1>4, <1>5
  <2>3. \A b \in Bucket : head'[b] = 0
    BY <1>1
  <2>4. QED
    BY <1>6, <2>1, <2>2, <2>3 DEF ChainInv
<1>8. CallTypes'
  BY <1>1 DEF CallTypes, Locking
<1>9. LockInv'
  <2>1. "load" \in Locking
    BY DEF Locking
  <2>2. QED
    BY <1>1, <2>1, LockStep
<1>10. pc'[p] = "load" /\ slot'[p] = 1 /\ \A q \in Writers : q # p =>
           pc'[q] = pc[q] /\ arg'[q] = arg[q] /\ slot'[q] = slot[q]
  BY <1>1 DEF CallTypes
<1>11. CallInv'
  <2>1. CallOK(p)'
    BY <1>1, <1>6, <1>10, BucketFacts DEF CallOK, Inserting, Deleting
  <2>2. QED
    BY <1>1, <1>10, <2>1, CallStep
<1>12. LeadsOn(0, TRUE, passwd', next', chain', Moving')
  BY DEF LeadsOn
<1>13. WalkTypes' /\ WalkInv' /\ MissExplained'
  BY <1>1, <1>12, MarksStep
<1>14. TypeOK'
  BY <1>1, <1>2, <1>7, <1>13, Typed DEF TypeOK
<1>15. QED
  BY <1>7, <1>8, <1>9, <1>11, <1>13, <1>14

LEMMA LoadInitStep == ASSUME IInv, NEW p \in Writers, LoadInit(p) PROVE IInv'
<1> USE DEF IInv
<1>1. /\ pc[p] = "load" /\ ready' = TRUE
      /\ UNCHANGED <<head, next, empty, lastspace, passwd, lock, pc, arg, slot, home,
                     damaged, walk>>
  BY DEF LoadInit, calls
<1>2. ChainInv' /\ chain' = chain
  BY <1>1, ChainSame
<1>3. CallTypes' /\ LockInv'
  BY <1>1 DEF CallTypes, LockInv
<1>4. CallInv'
  <2>1. ASSUME NEW q \in Writers PROVE CallOK(q)'
    <3>1. CallOK(q)
      BY DEF CallInv
    <3>2. QED
      BY <1>1, <1>2, <3>1 DEF CallOK
  <2>2. QED
    BY <2>1 DEF CallInv
<1>5. Moving' = Moving
  BY <1>1 DEF Moving
<1>6. WalkTypes' /\ WalkInv' /\ MissExplained'
  BY <1>1, <1>2, <1>5, WalkSame
<1>7. TypeOK'
  BY <1>1 DEF TypeOK
<1>8. QED
  BY <1>2, <1>3, <1>4, <1>6, <1>7

(* Slot i, in no chain so far, comes to chain b.  Only its own pointer and *)
(* the one of the last unused slot are set.                                *)
LEMMA LoadChain ==
    ASSUME TypeOK, ChainInv, NEW p \in Writers, LoadSlot(p), CallOK(p),
           NEW i, i = slot[p], NEW b, b = BucketOf(passwd[i].id)
    PROVE  /\ head' \in [Bucket -> Slot \cup {0}] /\ next' \in Pointers
           /\ chain' = [chain EXCEPT ![b] = @ \cup {i}]
           /\ Shape(head', next', chain')
           /\ \A j \in Slot : next'[j] = next[j] \/ j = i \/ (b = 0 /\ j = lastspace)
           /\ b = 0 => next'[i] = 0
<1> DEFINE x == passwd[i].id
           c == [chain EXCEPT ![b] = @ \cup {i}]
<1>1. /\ pc[p] = "load" /\ ready /\ i \in Slot
      /\ \/ /\ x # NoId
            /\ head' = [head EXCEPT ![Hash[x]] = i]
            /\ next' = [next EXCEPT ![i] = head[Hash[x]]]
         \/ /\ x = NoId
            /\ IF lastspace = 0
                 THEN head' = [head EXCEPT ![0] = i] /\ UNCHANGED next
                 ELSE next' = [next EXCEPT ![lastspace] = i] /\ UNCHANGED head
  BY DEF LoadSlot
<1>2. x \in Ids \cup {NoId} /\ b \in Bucket
  <2>1. passwd[i] \in Userec
    BY <1>1 DEF TypeOK
  <2>2. x \in Ids \cup {NoId}
    BY <2>1 DEF Userec
  <2>3. QED
    BY <2>2, BucketIs
<1>3. head \in [Bucket -> Slot \cup {0}] /\ next \in Pointers
  BY Values
<1>4. chain \in [Bucket -> SUBSET Slot] /\ \A d \in Bucket : HasChain(next, head[d], chain[d])
  BY DEF ChainInv, Shape
<1>5. /\ \A d \in Bucket : i \notin chain[d]
      /\ next[i] = 0
      /\ IF lastspace = 0 THEN chain[0] = {}
         ELSE lastspace \in chain[0] /\ next[lastspace] = 0
  <2>1. /\ \A d \in Bucket : \A j \in chain[d] : j < i
        /\ \A j \in Slot : j >= i => next[j] = 0
        /\ IF lastspace = 0 THEN chain[0] = {}
           ELSE lastspace \in chain[0] /\ next[lastspace] = 0
    BY <1>1 DEF CallOK
  <2>2. i \in Nat
    BY <1>1, SlotFacts
  <2>3. QED
    BY <1>1, <2>1, <2>2
<1>6. c \in [Bucket -> SUBSET Slot] /\ c[b] = chain[b] \cup {i}
      /\ \A d \in Bucket : d # b => c[d] = chain[d]
  BY <1>1, <1>2, <1>4
<1> HIDE DEF c
<1>7. ASSUME head' \in [Bucket -> Slot \cup {0}], next' \in Pointers,
             HasChain(next', head'[b], chain[b] \cup {i}),
             \A d \in Bucket : d # b => head'[d] = head[d],
             \A j \in Slot : next'[j] = next[j] \/ j = i \/ (b = 0 /\ j = lastspace)
      PROVE  chain' = c /\ Shape(head', next', chain')
  <2>1. ASSUME NEW d \in Bucket, d # b PROVE HasChain(next', head'[d], c[d])
    <3>1. ASSUME NEW j \in chain[d] PROVE next'[j] = next[j]
      <4>1. j \in Slot /\ j # i
        BY <1>4, <1>5
      <4>2. b = 0 => j # lastspace
        BY <1>5, <2>1, BucketFacts, SlotFacts, OneBucket, <1>4, <4>1
      <4>3. QED
        BY <1>7, <4>1, <4>2
    <3>2. HasChain(next', head[d], chain[d])
      BY <1>4, <3>1, ChainKept
    <3>3. QED
      BY <1>6, <1>7, <2>1, <3>2
  <2>2. Shape(head', next', c)
    BY <1>6, <1>7, <2>1 DEF Shape
  <2>3. chain' = c
    BY <1>6, <1>7, <2>2, ChainIs DEF chain
  <2>4. QED
    BY <2>2, <2>3
<1>8. CASE x # NoId
  <2>1. b = Hash[x] /\ b # 0
    BY <1>2, <1>8, BucketFacts DEF BucketOf
  <2>2. head' = [head EXCEPT ![b] = i] /\ next' = [next EXCEPT ![i] = head[b]]
    BY <1>1, <1>8, <2>1
  <2>3. /\ head' \in [Bucket -> Slot \cup {0}] /\ next' \in Pointers
        /\ head'[b] = i /\ \A d \in Bucket : d # b => head'[d] = head[d]
        /\ next'[i] = head[b] /\ \A j \in Slot : j # i => next'[j] = next[j]
    BY <1>1, <1>2, <1>3, <2>2 DEF Pointers
  <2>4. HasChain(next', i, chain[b] \cup {i})
    <3>1. \A j \in chain[b] : next'[j] = next[j]
      BY <1>2, <1>4, <1>5, <2>3
    <3>2. HasChain(next, head[b], chain[b]) /\ chain[b] \subseteq Slot /\ i \notin chain[b]
      BY <1>2, <1>4, <1>5
    <3>3. QED
      BY <1>1, <2>3, <3>1, <3>2, ChainPush
  <2>5. QED
    BY <1>7, <2>1, <2>3, <2>4 DEF c
<1>9. CASE x = NoId
  <2>1. b = 0
    BY <1>9 DEF BucketOf
  <2>2. HasChain(next, head[0], chain[0]) /\ chain[0] \subseteq Slot /\ i \notin chain[0]
    BY <1>2, <1>4, <1>5, <2>1
  <2>3. CASE lastspace = 0
    <3>1. head' = [head EXCEPT ![0] = i] /\ next' = next
      BY <1>1, <1>9, <2>3
    <3>2. /\ head' \in [Bucket -> Slot \cup {0}] /\ next' \in Pointers
          /\ head'[0] = i /\ \A d \in Bucket : d # 0 => head'[d] = head[d]
      BY <1>1, <1>2, <1>3, <2>1, <3>1
    <3>3. head[0] = 0
      BY <1>5, <2>2, <2>3 DEF HasChain, IsChain
    <3>4. HasChain(next', i, chain[0] \cup {i})
      <4>1. next'[i] = head[0] /\ \A j \in chain[0] : next'[j] = next[j]
        BY <1>5, <3>1, <3>3
      <4>2. QED
        BY <1>1, <2>2, <4>1, ChainPush
    <3>5. next'[i] = 0 /\ \A j \in Slot : next'[j] = next[j]
      BY <1>5, <3>1
    <3>6. QED
      BY <1>7, <2>1, <3>2, <3>4, <3>5 DEF c
  <2>4. CASE lastspace # 0
    <3>1. next' = [next EXCEPT ![lastspace] = i] /\ head' = head
      BY <1>1, <1>9, <2>4
    <3>2. lastspace \in chain[0] /\ next[lastspace] = 0 /\ lastspace \in Slot /\ lastspace # i
      BY <1>5, <2>2, <2>4
    <3>3. /\ next' \in Pointers /\ next'[lastspace] = i
          /\ \A j \in Slot : j # lastspace => next'[j] = next[j]
      BY <1>1, <1>3, <3>1, <3>2 DEF Pointers
    <3>4. next'[i] = 0
      BY <1>1, <1>5, <3>2, <3>3
    <3>5. HasChain(next', head[0], chain[0] \cup {i})
      <4>1. \A j \in chain[0] : j # lastspace => next'[j] = next[j]
        BY <2>2, <3>3
      <4>2. QED
        BY <1>1, <2>2, <3>2, <3>3, <3>4, <4>1, ChainAppend
    <3>6. QED
      BY <1>3, <1>7, <2>1, <3>1, <3>3, <3>4, <3>5 DEF c
  <2>5. QED
    BY <2>3, <2>4
<1>10. QED
  BY <1>8, <1>9
(* No search on its way stands on the slot that is filled in, or on the    *)
(* last unused one.                                                        *)
Fills(i, b, last) ==
    /\ next[i] = 0 /\ \A d \in Bucket : i \notin chain[d]
    /\ last = 0 \/ last \in chain[0]
    /\ chain' = [chain EXCEPT ![b] = @ \cup {i}]
    /\ \A j \in Slot : next'[j] = next[j] \/ j = i \/ (b = 0 /\ j = last)

LEMMA FillWay ==
    ASSUME NEW i \in Slot, NEW b \in Bucket, NEW last, Fills(i, b, last),
           chain \in [Bucket -> SUBSET Slot], passwd' = passwd, Moving' \subseteq Moving
    PROVE  LeadsOn(0, FALSE, passwd', next', chain', Moving')
<1> USE DEF Fills
<1>1. chain'[b] = chain[b] \cup {i} /\ \A d \in Bucket : d # b => chain'[d] = chain[d]
  OBVIOUS
<1>2. ASSUME NEW at \in Slot, NEW x \in Ids, NEW S \in SUBSET Slot, NEW k \in Slot,
             OnTheWay(passwd, next, chain, Moving, at, x, S, k)
      PROVE  OnTheWay(passwd', next', chain', Moving', at, x, S, k)
  <2>1. /\ at \in S
        /\ \A j \in S : j = k \/ (passwd[j].id # x /\ next[j] \in S)
        /\ \A d \in Bucket : d = Hash[x] \/ S \cap chain[d] = {}
        /\ S \cap Moving = {}
        /\ k \in chain[Hash[x]] /\ passwd[k].id = x /\ passwd[k].kick = "no"
    BY <1>2 DEF OnTheWay
  <2>2. Hash[x] \in Bucket /\ Hash[x] # 0 /\ 0 \in Bucket /\ 0 \notin Slot
    BY BucketFacts, SlotFacts
  <2>3. i # k
    BY <2>1, <2>2
  <2>4. i \notin S
    BY <2>1, <2>2, <2>3
  <2>5. last \notin S
    BY <2>1, <2>2
  <2>6. \A j \in S : j = k \/ next'[j] \in S
    BY <2>1, <2>4, <2>5
  <2>7. k \in chain'[Hash[x]] /\ \A d \in Bucket : d = Hash[x] \/ S \cap chain'[d] = {}
    BY <1>1, <2>1, <2>2, <2>4
  <2>8. S \cap Moving' = {}
    BY <2>1
  <2>9. QED
    BY <2>1, <2>6, <2>7, <2>8 DEF OnTheWay
<1>3. QED
  BY <1>2 DEF LeadsOn

LEMMA LoadSlotStep == ASSUME IInv, NEW p \in Writers, LoadSlot(p) PROVE IInv'
<1> USE DEF IInv
<1> DEFINE i == slot[p]
           x == passwd[i].id
           b == BucketOf(x)
<1>1. /\ pc[p] = "load" /\ ready /\ i \in Slot
      /\ x # NoId => finduseridhash(x) = 0
      /\ \/ x # NoId /\ UNCHANGED <<empty, lastspace>>
         \/ x = NoId /\ lastspace' = i /\ empty' = empty + 1
      /\ slot' = [slot EXCEPT ![p] = @ + 1]
      /\ UNCHANGED <<ready, passwd, lock, pc, arg, home, damaged>>
      /\ Marks(0, FALSE)
  BY DEF LoadSlot
<1>2. lock = p /\ CallOK(p)
  BY <1>1 DEF LockInv, CallInv, Locking
<1>3. x \in Ids \cup {NoId} /\ b \in Bucket /\ (b = 0 <=> x = NoId)
  <2>1. passwd[i] \in Userec
    BY <1>1 DEF TypeOK
  <2>2. x \in Ids \cup {NoId}
    BY <2>1 DEF Userec
  <2>3. QED
    BY <2>2, BucketIs, FreeBucket
<1>4. /\ head' \in [Bucket -> Slot \cup {0}] /\ next' \in Pointers
      /\ chain' = [chain EXCEPT ![b] = @ \cup {i}]
      /\ Shape(head', next', chain')
      /\ \A j \in Slot : next'[j] = next[j] \/ j = i \/ (b = 0 /\ j = lastspace)
      /\ b = 0 => next'[i] = 0
  <2>1. LoadSlot(p) /\ TypeOK /\ ChainInv
    OBVIOUS
  <2> HIDE DEF IInv
  <2>2. QED
    BY <1>2, <2>1, LoadChain
<1>5. /\ \A d \in Bucket : \A j \in chain[d] : j < i
      /\ \A j \in Slot : j >= i => next[j] = 0
      /\ IF lastspace = 0 THEN chain[0] = {}
         ELSE lastspace \in chain[0] /\ next[lastspace] = 0
  BY <1>1, <1>2 DEF CallOK
<1>6. i \in Nat /\ (\A d \in Bucket : i \notin chain[d]) /\ next[i] = 0
  <2>1. i \in Nat
    BY <1>1, SlotFacts
  <2>2. QED
    BY <1>1, <1>5, <2>1
<1>7. x = NoId \/ \A j \in chain[b] : passwd[j].id # x
  <2>1. ASSUME x # NoId PROVE \A j \in chain[b] : passwd[j].id # x
    <3>1. PICK k : k = HopOf(x)
      OBVIOUS
    <3>2. finduseridhash(x) = 0
      BY <1>1, <2>1
    <3> HIDE DEF x
    <3>3. QED
      BY <1>3, <3>1, <3>2, Found DEF b
  <2>2. QED
    BY <2>1
<1>8. chain \in [Bucket -> SUBSET Slot]
  BY DEF ChainInv
<1>9. pc'[p] = "load" /\ slot'[p] = i + 1 /\ i + 1 \in 0..MaxUsers + 1
      /\ \A q \in Writers : q # p => pc'[q] = pc[q] /\ arg'[q] = arg[q] /\ slot'[q] = slot[q]
  BY <1>1 DEF CallTypes, Slot
<1>10. ChainInv'
  <2>1. empty' = IF b = 0 THEN empty + 1 ELSE empty
    BY <1>1, <1>3
  <2>2. b = BucketOf(passwd[i].id)
    OBVIOUS
  <2> HIDE DEF i, b
  <2>3. QED
    BY <1>1, <1>3, <1>4, <1>6, <1>7, <2>1, <2>2, PushInv
<1>11. CallTypes'
  BY <1>1, <1>9 DEF CallTypes
<1>12. LockInv'
  BY <1>1 DEF LockInv
<1>13. CallInv'
  <2>1. chain'[b] = chain[b] \cup {i} /\ \A d \in Bucket : d # b => chain'[d] = chain[d]
    BY <1>3, <1>4, <1>8
  <2> HIDE DEF b
  <2>2. \A d \in Bucket : \A j \in chain'[d] : j < i + 1
    <3>1. \A d \in Bucket : \A j \in chain'[d] : j \in Slot /\ (j < i \/ j = i)
      BY <1>1, <1>3, <1>5, <1>8, <2>1
    <3>2. ASSUME NEW d \in Bucket, NEW j \in chain'[d] PROVE j < i + 1
      <4>1. j \in Nat /\ (j < i \/ j = i)
        BY <3>1, SlotFacts
      <4>2. QED
        BY <1>6, <4>1
    <3>3. QED
      BY <3>2
  <2>3. lastspace = 0 \/ (lastspace \in Slot /\ lastspace < i)
    BY <1>5, <1>8, BucketFacts
  <2>4. \A j \in Slot : j >= i + 1 => next'[j] = 0
    <3>1. ASSUME NEW j \in Slot, j >= i + 1 PROVE next'[j] = 0
      <4>1. j \in Nat /\ j >= i /\ j # i
        BY <1>6, <3>1, SlotFacts
      <4>2. j # lastspace
        BY <1>6, <2>3, <4>1, SlotFacts
      <4>3. QED
        BY <1>4, <1>5, <4>1, <4>2
    <3>2. QED
      BY <3>1
  <2>5. IF lastspace' = 0 THEN chain'[0] = {}
        ELSE lastspace' \in chain'[0] /\ next'[lastspace'] = 0
    <3>1. CASE x = NoId
      <4>1. lastspace' = i /\ i # 0 /\ i \in chain'[0] /\ next'[i] = 0
        BY <1>1, <1>3, <1>4, <2>1, <3>1, SlotFacts
      <4>2. QED
        BY <4>1
    <3>2. CASE x # NoId
      <4>1. lastspace' = lastspace /\ chain'[0] = chain[0] /\ b # 0
        BY <1>1, <1>3, <2>1, <3>2, BucketFacts
      <4>2. lastspace # 0 => lastspace \in Slot /\ lastspace # i
        BY <1>6, <2>3
      <4>3. QED
        BY <1>4, <1>5, <4>1, <4>2
    <3>3. QED
      BY <3>1, <3>2
  <2>6. slot'[p] # 0 /\ i >= 0
    BY <1>6, <1>9
  <2>7. CallOK(p)'
    BY <1>9, <2>2, <2>4, <2>5, <2>6 DEF CallOK, Inserting, Deleting
  <2>8. QED
    BY <1>1, <1>2, <1>9, <2>7, CallStep
<1>14. Moving' \subseteq Moving
  <2>1. "load" \notin Inserting \cup {"del_head"} /\ pc' = [pc EXCEPT ![p] = "load"]
    BY <1>1 DEF Inserting, CallTypes
  <2>2. QED
    BY <1>9, <2>1, MovingGrows
<1>15. LeadsOn(0, FALSE, passwd', next', chain', Moving')
  <2>1. lastspace = 0 \/ lastspace \in chain[0]
    BY <1>5
  <2>2. passwd' = passwd
    BY <1>1
  <2> HIDE DEF i, b
  <2>3. i \in Slot /\ b \in Bucket
    BY <1>1, <1>3
  <2>4. Fills(i, b, lastspace)
    BY <1>4, <1>6, <2>1 DEF Fills
  <2>5. QED
    BY <1>8, <1>14, <2>2, <2>3, <2>4, FillWay
<1>16. WalkTypes' /\ WalkInv' /\ MissExplained'
  BY <1>1, <1>15, MarksStep
<1>17. TypeOK'
  <2>1. lastspace' \in Slot \cup {0}
    BY <1>1 DEF TypeOK, Slot
  <2>2. QED
    BY <1>1, <1>4, <1>10, <1>16, <2>1, Typed DEF TypeOK
<1>18. QED
  BY <1>10, <1>11, <1>12, <1>13, <1>16, <1>17
-----------------------------------------------------------------------------
(***************************************************************************)
(* The steps of a search.                                                  *)
(***************************************************************************)
LEMMA ReadStep ==
    ASSUME IInv, NEW r \in Readers, NEW w \in Walk, walk' = [walk EXCEPT ![r] = w],
           UNCHANGED <<shared, passwd, calls>>, WalkOK(w),
           w.pc = "idle" /\ w.id # NoId /\ w.result = 0 => w.moved \/ ~w.there
    PROVE  IInv'
<1> USE DEF IInv
<1>1. UNCHANGED <<head, next, empty, ready, lastspace, passwd, lock, pc, arg, slot, home,
                  damaged>>
  BY DEF shared, calls
<1>2. ChainInv' /\ chain' = chain
  BY <1>1, ChainSame
<1>3. CallTypes' /\ LockInv'
  BY <1>1 DEF CallTypes, LockInv
<1>4. CallInv'
  <2>1. ASSUME NEW q \in Writers PROVE CallOK(q)'
    <3>1. CallOK(q)
      BY DEF CallInv
    <3>2. QED
      BY <1>1, <1>2, <3>1 DEF CallOK
  <2>2. QED
    BY <2>1 DEF CallInv
<1>5. Moving' = Moving
  BY <1>1 DEF Moving
<1>6. WalkTypes' /\ walk'[r] = w /\ \A q \in Readers : q # r => walk'[q] = walk[q]
  BY DEF WalkTypes
<1>7. WalkInv'
  <2>1. ASSUME NEW v, WalkOK(v) PROVE WalkOK(v)'
    BY <1>1, <1>2, <1>5, <2>1 DEF WalkOK
  <2>2. QED
    BY <1>6, <2>1 DEF WalkInv
<1>8. MissExplained'
  <2>1. ASSUME NEW q \in Readers,
               walk'[q].pc = "idle", walk'[q].id # NoId, walk'[q].result = 0
        PROVE  walk'[q].moved \/ ~walk'[q].there
    <3>1. CASE q = r
      BY <1>6, <2>1, <3>1
    <3>2. CASE q # r
      <4>1. walk'[q] = walk[q]
        BY <1>6, <3>2
      <4>2. QED
        BY <2>1, <4>1 DEF MissExplained
    <3>3. QED
      BY <3>1, <3>2
  <2>2. QED
    BY <2>1 DEF MissExplained
<1>9. TypeOK'
  <2>1. \A q \in Readers : walk'[q].at \in 0..MaxUsers
    BY <1>6 DEF WalkTypes, Walk
  <2>2. QED
    BY <1>1, <2>1 DEF TypeOK
<1>10. QED
  BY <1>2, <1>3, <1>4, <1>6, <1>7, <1>8, <1>9

(* From its head a chain leads to each of its slots. *)
LEMMA HeadLeads ==
    ASSUME TypeOK, ChainInv, NEW b \in Bucket, NEW k \in chain[b]
    PROVE  head[b] \in Slot /\ k \in Ahead(head[b])
<1>1. /\ chain[b] \subseteq Slot /\ HasChain(next, head[b], chain[b])
      /\ next \in Pointers /\ head[b] \in Slot \cup {0}
  BY Values DEF ChainInv, Shape
<1>2. PICK t : Trace(next, head[b], t, MaxUsers)
  BY <1>1, TraceExists
<1>3. PICK m \in 0..MaxUsers : t[m] = k
  BY <1>1, <1>2, TraceChain
<1>4. /\ t[0] = head[b] /\ MaxUsers \in Nat
      /\ \A j \in 1..MaxUsers : t[j] = IF t[j - 1] = 0 THEN 0 ELSE next[t[j - 1]]
  BY <1>2 DEF Trace
<1>5. head[b] \in Slot
  BY <1>1 DEF HasChain, IsChain
<1>6. ASSUME NEW R \in SUBSET ({0} \cup Slot), head[b] \in R, \A s \in R \ {0} : next[s] \in R
      PROVE  k \in R
  <2> DEFINE D == {j \in 0..MaxUsers : t[j] \notin R}
  <2>1. SUFFICES ASSUME D # {} PROVE FALSE
    BY <1>3
  <2>2. PICK j \in D : \A y \in D : j <= y
    <3>1. D \subseteq Nat
      OBVIOUS
    <3> HIDE DEF D
    <3>2. QED
      BY <2>1, <3>1, Least
  <2>3. j # 0 /\ j \in 1..MaxUsers
    BY <1>4, <1>6, <2>2
  <2>4. j - 1 \in 0..MaxUsers /\ j - 1 \notin D
    BY <2>2, <2>3
  <2>5. t[j - 1] \in R
    BY <2>4
  <2>6. QED
    BY <1>4, <1>6, <2>2, <2>3, <2>5
<1>7. QED
  BY <1>1, <1>5, <1>6 DEF Ahead

(* The slots of a chain in front of slot k are a way to k. *)
LEMMA WayExists ==
    ASSUME TypeOK, ChainInv, CallInv, NEW x \in Ids, NEW k \in chain[Hash[x]],
           passwd[k].id = x, passwd[k].kick = "no"
    PROVE  \E S \in SUBSET Slot :
               OnTheWay(passwd, next, chain, Moving, head[Hash[x]], x, S, k)
<1> DEFINE b == Hash[x]
           S == {j \in chain[b] : k \in Ahead(j)}
<1>1. b \in Bucket /\ b # 0 /\ x # NoId
  BY BucketFacts
<1>2. chain[b] \subseteq Slot /\ HasChain(next, head[b], chain[b])
  BY <1>1 DEF ChainInv, Shape
<1>3. S \in SUBSET Slot /\ k \in Slot /\ 0 \notin Slot
  BY <1>2, SlotFacts
<1>4. head[b] \in S
  <2>1. head[b] \in Slot /\ k \in Ahead(head[b])
    BY <1>1, HeadLeads
  <2>2. head[b] \in chain[b]
    BY <1>2, <1>3, <2>1 DEF HasChain, IsChain
  <2>3. QED
    BY <2>1, <2>2
<1>5. ASSUME NEW j \in S, j # k PROVE passwd[j].id # x /\ next[j] \in S
  <2>1. j \in chain[b] /\ k \in Ahead(j) /\ j \in Slot
    BY <1>2
  <2>2. passwd[j].id # x
    BY <1>1, <1>5, <2>1 DEF ChainInv
  <2>3. next[j] \in chain[b] \cup {0}
    BY <1>2, <2>1 DEF HasChain, IsChain
  <2>4. ASSUME NEW R \in SUBSET ({0} \cup Slot), next[j] \in R,
               \A s \in R \ {0} : next[s] \in R
        PROVE  k \in R
    <3>1. R \cup {j} \in SUBSET ({0} \cup Slot) /\ j \in R \cup {j}
      BY <2>1
    <3>2. \A s \in (R \cup {j}) \ {0} : next[s] \in R \cup {j}
      BY <2>4
    <3>3. k \in R \cup {j}
      BY <2>1, <3>1, <3>2 DEF Ahead
    <3>4. QED
      BY <1>5, <3>3
  <2>5. next[j] # 0
    <3>1. ASSUME next[j] = 0 PROVE FALSE
      <4>1. {0} \in SUBSET ({0} \cup Slot) /\ next[j] \in {0}
            /\ \A s \in {0} \ {0} : next[s] \in {0}
        BY <3>1
      <4>2. k \in {0}
        BY <2>4, <4>1
      <4>3. QED
        BY <1>3, <4>2
    <3>2. QED
      BY <3>1
  <2>6. k \in Ahead(next[j])
    BY <1>3, <2>4 DEF Ahead
  <2>7. QED
    BY <2>2, <2>3, <2>5, <2>6
<1>6. \A d \in Bucket : d = b \/ S \cap chain[d] = {}
  <2>1. ASSUME NEW d \in Bucket, d # b, NEW j \in S \cap chain[d] PROVE FALSE
    BY <1>1, <2>1, OneBucket
  <2>2. QED
    BY <2>1
<1>7. S \cap Moving = {}
  <2>1. ASSUME NEW j \in Moving PROVE j \notin chain[b]
    <3>1. PICK q \in Writers : pc[q] \in Inserting \cup {"del_head"} /\ j = slot[q]
      BY DEF Moving
    <3>2. CallOK(q) /\ pc[q] \in Inserting \cup Deleting
      BY <3>1 DEF CallInv, Deleting
    <3>3. QED
      BY <1>1, <3>1, <3>2 DEF CallOK
  <2>2. QED
    BY <2>1
<1> HIDE DEF S
<1>8. OnTheWay(passwd, next, chain, Moving, head[b], x, S, k)
  BY <1>4, <1>5, <1>6, <1>7 DEF OnTheWay
<1>9. QED
  BY <1>3, <1>8

LEMMA StartWalkStep ==
    ASSUME IInv, NEW r \in Readers, NEW x \in Ids, StartWalk(r, x) PROVE IInv'
<1> USE DEF IInv
<1>1. PICK b \in IF ready THEN {Hash[x]} ELSE Bucket \ {0} :
          walk' = [walk EXCEPT ![r] =
                     [pc |-> "walk", id |-> x, at |-> head[b], result |-> 0,
                      moved |-> FALSE, there |-> LinkedIn(head, next, passwd, x)]]
  BY DEF StartWalk
<1> DEFINE l == LinkedIn(head, next, passwd, x)
           w == [pc |-> "walk", id |-> x, at |-> head[b], result |-> 0,
                 moved |-> FALSE, there |-> l]
<1>2. b \in Bucket /\ Hash[x] \in Bucket
  BY <1>1, BucketFacts
<1>3. ASSUME l
      PROVE  b = Hash[x] /\ \E k \in chain[Hash[x]] : passwd[k].id = x /\ passwd[k].kick = "no"
  <2>1. Links(head, next, Hash[x]) = chain[Hash[x]]
    BY <1>2 DEF chain
  <2>2. PICK k \in chain[Hash[x]] : passwd[k].id = x /\ passwd[k].kick = "no"
    BY <1>3, <2>1 DEF LinkedIn
  <2>3. ready
    BY <1>2, <2>2, ReadyIf
  <2>4. QED
    BY <1>1, <2>2, <2>3
<1>4. walk' = [walk EXCEPT ![r] = w]
  BY <1>1
<1>5. l \in BOOLEAN
  BY DEF LinkedIn
<1> HIDE DEF l
<1>6. PICK v : v = w
  OBVIOUS
<1>7. v.pc = "walk" /\ v.id = x /\ v.at = head[b] /\ (v.there <=> l)
  <2>1. v.pc = "walk" /\ v.id = x /\ v.at = head[b]
    BY <1>6
  <2>2. v.there <=> l
    BY <1>6, Zenon
  <2>3. QED
    BY <2>1, <2>2
<1>8. v \in Walk /\ walk' = [walk EXCEPT ![r] = v]
  <2>1. head[b] \in 0..MaxUsers /\ 0 \in 0..MaxUsers
    BY <1>2 DEF TypeOK
  <2>2. w \in Walk
    BY <1>5, <2>1 DEF Walk
  <2> HIDE DEF w
  <2>3. QED
    BY <1>4, <1>6, <2>2
<1> HIDE DEF w
<1>9. WalkOK(v)
  <2>1. ASSUME v.there
        PROVE  \E S \in SUBSET Slot : \E k \in Slot :
                   OnTheWay(passwd, next, chain, Moving, v.at, v.id, S, k)
    <3>1. PICK k \in chain[Hash[x]] : passwd[k].id = x /\ passwd[k].kick = "no"
      BY <1>3, <1>7, <2>1
    <3>2. b = Hash[x] /\ k \in Slot
      BY <1>2, <1>3, <1>7, <2>1 DEF ChainInv
    <3>3. \E S \in SUBSET Slot : OnTheWay(passwd, next, chain, Moving, head[Hash[x]], x, S, k)
      BY <3>1, WayExists
    <3>4. QED
      BY <1>7, <3>2, <3>3
  <2>2. QED
    BY <1>7, <2>1 DEF WalkOK
<1>10. UNCHANGED <<shared, passwd, calls>> /\ v.pc # "idle"
  BY <1>7 DEF StartWalk
<1>11. QED
  BY <1>8, <1>9, <1>10, ReadStep
LEMMA StepWalkStep == ASSUME IInv, NEW r \in Readers, StepWalk(r) PROVE IInv'
<1> USE DEF IInv
<1> DEFINE i == walk[r].at
<1>1. /\ walk[r].pc = "walk" /\ i # 0 /\ UNCHANGED <<shared, passwd, calls>>
      /\ walk' = [walk EXCEPT ![r] = IF passwd[i].id = @.id THEN [@ EXCEPT !.pc = "check"]
                                     ELSE [@ EXCEPT !.at = next[i]]]
  BY DEF StepWalk
<1>2. PICK w : w = walk[r]
  OBVIOUS
<1>3. w \in Walk /\ w.pc = "walk" /\ w.at = i /\ i \in Slot
  <2>1. w \in Walk
    BY <1>2 DEF WalkTypes
  <2>2. w.at \in 0..MaxUsers /\ w.at = i
    BY <1>2, <2>1 DEF Walk
  <2>3. QED
    BY <1>1, <1>2, <2>1, <2>2 DEF Slot
<1>4. WalkOK(w)
  BY <1>2 DEF WalkInv
<1> HIDE DEF i
<1>5. CASE passwd[i].id = w.id
  <2>1. PICK v : v = [w EXCEPT !.pc = "check"]
    OBVIOUS
  <2>2. walk' = [walk EXCEPT ![r] = v]
    BY <1>1, <1>2, <1>5, <2>1 DEF WalkTypes, i
  <2>3. v \in Walk /\ v.pc = "check" /\ v.id = w.id /\ v.at = i
    BY <1>3, <2>1 DEF Walk
  <2>4. (v.moved <=> w.moved) /\ (v.there <=> w.there)
    BY <1>3, <2>1, Zenon DEF Walk
  <2>5. WalkOK(v)
    <3>1. ASSUME v.there, ~v.moved
          PROVE  \E S \in SUBSET Slot : \E k \in Slot :
                     OnTheWay(passwd, next, chain, Moving, i, v.id, S, k) /\ i = k
      <4>1. PICK S \in SUBSET Slot, k \in Slot :
                OnTheWay(passwd, next, chain, Moving, i, w.id, S, k)
        BY <1>3, <1>4, <2>4, <3>1 DEF WalkOK
      <4>2. i = k
        BY <1>5, <4>1 DEF OnTheWay
      <4>3. QED
        BY <2>3, <4>1, <4>2
    <3>2. v.id \in Ids
      BY <1>3, <1>4, <2>3 DEF WalkOK
    <3>3. QED
      BY <2>3, <3>1, <3>2 DEF WalkOK
  <2>6. QED
    BY <1>1, <2>2, <2>3, <2>5, ReadStep
<1>6. CASE passwd[i].id # w.id
  <2>1. PICK v : v = [w EXCEPT !.at = next[i]]
    OBVIOUS
  <2>2. walk' = [walk EXCEPT ![r] = v]
    BY <1>1, <1>2, <1>6, <2>1 DEF WalkTypes, i
  <2>3. v \in Walk /\ v.pc = "walk" /\ v.id = w.id /\ v.at = next[i]
    <3>1. next[i] \in 0..MaxUsers
      BY <1>3 DEF TypeOK
    <3>2. QED
      BY <1>3, <2>1, <3>1 DEF Walk
  <2>4. (v.moved <=> w.moved) /\ (v.there <=> w.there)
    BY <1>3, <2>1, Zenon DEF Walk
  <2>5. WalkOK(v)
    <3>1. ASSUME v.there, ~v.moved
          PROVE  \E S \in SUBSET Slot : \E k \in Slot :
                     OnTheWay(passwd, next, chain, Moving, next[i], v.id, S, k)
      <4>1. PICK S \in SUBSET Slot, k \in Slot :
                OnTheWay(passwd, next, chain, Moving, i, w.id, S, k)
        BY <1>3, <1>4, <2>4, <3>1 DEF WalkOK
      <4>2. next[i] \in S
        BY <1>6, <4>1 DEF OnTheWay
      <4>3. OnTheWay(passwd, next, chain, Moving, next[i], w.id, S, k)
        BY <4>1, <4>2 DEF OnTheWay
      <4>4. QED
        BY <2>3, <4>3
    <3>2. v.id \in Ids
      BY <1>3, <1>4, <2>3 DEF WalkOK
    <3>3. QED
      BY <2>3, <3>1, <3>2 DEF WalkOK
  <2>6. QED
    BY <1>1, <2>2, <2>3, <2>5, ReadStep
<1>7. QED
  BY <1>5, <1>6

LEMMA EndWalkStep == ASSUME IInv, NEW r \in Readers, EndWalk(r) PROVE IInv'
<1> USE DEF IInv
<1>1. /\ walk[r].pc = "walk" /\ walk[r].at = 0 /\ UNCHANGED <<shared, passwd, calls>>
      /\ walk' = [walk EXCEPT ![r].pc = "idle"]
  BY DEF EndWalk
<1>2. PICK w : w = walk[r]
  OBVIOUS
<1>3. w \in Walk /\ WalkOK(w) /\ w.pc = "walk" /\ w.at = 0
  BY <1>1, <1>2 DEF WalkTypes, WalkInv
<1>4. PICK v : v = [w EXCEPT !.pc = "idle"]
  OBVIOUS
<1>5. walk' = [walk EXCEPT ![r] = v]
  BY <1>1, <1>2, <1>4 DEF WalkTypes
<1>6. v \in Walk /\ v.pc = "idle"
  BY <1>3, <1>4 DEF Walk
<1>7. (v.moved <=> w.moved) /\ (v.there <=> w.there)
  BY <1>3, <1>4, Zenon DEF Walk
<1>8. v.moved \/ ~v.there
  <2>1. ASSUME w.there, ~w.moved PROVE FALSE
    <3>1. PICK S \in SUBSET Slot, k \in Slot :
              OnTheWay(passwd, next, chain, Moving, w.at, w.id, S, k)
      BY <1>3, <2>1 DEF WalkOK
    <3>2. QED
      BY <1>3, <3>1, SlotFacts DEF OnTheWay
  <2>2. QED
    BY <1>7, <2>1
<1>9. QED
  <2>1. WalkOK(v)
    BY <1>6 DEF WalkOK
  <2>2. QED
    BY <1>1, <1>5, <1>6, <1>8, <2>1, ReadStep

LEMMA CheckWalkStep == ASSUME IInv, NEW r \in Readers, CheckWalk(r) PROVE IInv'
<1> USE DEF IInv
<1> DEFINE i == walk[r].at
           res == IF passwd[i].id = walk[r].id /\ passwd[i].kick = "no" THEN i ELSE 0
<1>1. /\ walk[r].pc = "check" /\ UNCHANGED <<shared, passwd, calls>>
      /\ walk' = [walk EXCEPT ![r].pc = "idle", ![r].at = 0, ![r].result = res]
  BY DEF CheckWalk
<1>2. PICK w : w = walk[r]
  OBVIOUS
<1>3. w \in Walk /\ WalkOK(w) /\ w.pc = "check" /\ w.at = i /\ i \in 0..MaxUsers
      /\ res \in {0, i}
      /\ (passwd[i].id = w.id /\ passwd[i].kick = "no" => res = i)
  BY <1>1, <1>2 DEF WalkTypes, WalkInv, Walk
<1> HIDE DEF i, res
<1>4. PICK v : v = [w EXCEPT !.pc = "idle", !.at = 0, !.result = res]
  OBVIOUS
<1>5. walk' = [walk EXCEPT ![r] = v]
  BY <1>1, <1>2, <1>4 DEF WalkTypes
<1>6. v \in Walk /\ v.pc = "idle" /\ v.result = res /\ v.id = w.id
  <2>1. res \in 0..MaxUsers /\ 0 \in 0..MaxUsers
    BY <1>3
  <2>2. QED
    BY <1>3, <1>4, <2>1 DEF Walk
<1>7. (v.moved <=> w.moved) /\ (v.there <=> w.there)
  BY <1>3, <1>4, Zenon DEF Walk
<1>8. v.result = 0 => v.moved \/ ~v.there
  <2>1. ASSUME w.there, ~w.moved PROVE res # 0
    <3>1. PICK S \in SUBSET Slot, k \in Slot :
              OnTheWay(passwd, next, chain, Moving, i, w.id, S, k) /\ i = k
      BY <1>3, <2>1 DEF WalkOK
    <3>2. QED
      BY <1>3, <3>1, SlotFacts DEF OnTheWay
  <2>2. QED
    BY <1>6, <1>7, <2>1
<1>9. QED
  <2>1. WalkOK(v)
    BY <1>6 DEF WalkOK
  <2>2. QED
    BY <1>1, <1>5, <1>6, <1>8, <2>1, ReadStep
-----------------------------------------------------------------------------
(***************************************************************************)
(* The invariant is inductive.                                             *)
(***************************************************************************)
LEMMA InitStep == ASSUME Init PROVE IInv
<1>1. /\ passwd \in [Slot -> Userec]
      /\ \A i, j \in Slot : passwd[i].id = passwd[j].id => i = j \/ passwd[i].id = NoId
      /\ empty = Cardinality(InChain(passwd, 0)) /\ ready = TRUE /\ lastspace = 0
      /\ lock = Nobody /\ pc = [p \in Writers |-> "idle"] /\ arg = [p \in Writers |-> NoId]
      /\ slot = [p \in Writers |-> 0] /\ home \in SUBSET Ids /\ damaged = FALSE
      /\ walk = [r \in Readers |-> NoWalk]
  BY DEF Init
<1>2. /\ head \in [Bucket -> Slot \cup {0}] /\ next \in Pointers
      /\ chain = [b \in Bucket |-> InChain(passwd, b)]
      /\ Shape(head, next, chain)
  BY InitChain
<1>3. \A b : InChain(passwd, b) \subseteq Slot
          /\ \A i \in InChain(passwd, b) : BucketOf(passwd[i].id) = b
  BY DEF InChain
<1>4. ChainInv
  <2>1. chain \in [Bucket -> SUBSET Slot] /\ chain[0] = InChain(passwd, 0)
    BY <1>2, <1>3, BucketFacts
  <2>2. \A b \in Bucket : chain[b] \subseteq Slot
                          /\ \A i \in chain[b] : BucketOf(passwd[i].id) = b
    BY <1>2, <1>3
  <2>3. \A b \in Bucket : \A i, j \in chain[b] :
            passwd[i].id = passwd[j].id => i = j \/ passwd[i].id = NoId
    BY <1>1, <2>2
  <2>4. QED
    BY <1>1, <1>2, <2>1, <2>2, <2>3 DEF ChainInv
<1>5. CallTypes
  <2>1. 0 \in 0..MaxUsers + 1
    OBVIOUS
  <2>2. QED
    BY <1>1, <2>1 DEF CallTypes
<1>6. LockInv
  BY <1>1 DEF LockInv, Locking, Inserting, Deleting
<1>7. CallInv
  BY <1>1 DEF CallInv, CallOK, Inserting, Deleting
<1>8. NoWalk \in Walk /\ NoWalk.pc = "idle" /\ NoWalk.id = NoId /\ NoWalk.at = 0
  BY DEF NoWalk, Walk
<1>9. WalkTypes /\ WalkInv /\ MissExplained
  <2>1. \A r \in Readers : walk[r] = NoWalk
    BY <1>1
  <2>2. WalkTypes
    BY <1>1, <1>8 DEF WalkTypes
  <2>3. WalkOK(NoWalk)
    BY <1>8 DEF WalkOK
  <2>4. WalkInv
    BY <2>1, <2>3 DEF WalkInv
  <2>5. MissExplained
    BY <1>8, <2>1 DEF MissExplained
  <2>6. QED
    BY <2>2, <2>4, <2>5
<1>10. TypeOK
  <2>1. 0..MaxUsers = Slot \cup {0}
    BY DEF Slot
  <2>2. empty \in 0..MaxUsers
    BY <1>1, <1>3, Sizes
  <2>3. \A r \in Readers : walk[r].at \in 0..MaxUsers
    BY <1>1, <1>8
  <2>4. QED
    BY <1>1, <1>2, <2>1, <2>2, <2>3 DEF TypeOK, Pointers
<1>11. QED
  BY <1>4, <1>5, <1>6, <1>7, <1>9, <1>10 DEF IInv

LEMMA LookupStep ==
    ASSUME IInv, NEW p \in Writers, NEW x \in Ids,
           InsertLookup(p, x) \/ DeleteLookup(p, x)
    PROVE  IInv'
<1>1. PICK i : i = finduseridhash(x)
  OBVIOUS
<1>2. PICK k : k = HopOf(x)
  OBVIOUS
<1>3. TypeOK /\ ChainInv /\ x \in Ids \cup {NoId} /\ BucketOf(x) = Hash[x] /\ Hash[x] \in Bucket
  BY BucketFacts DEF IInv, BucketOf
<1>4. /\ i = 0 => \A j \in chain[Hash[x]] : passwd[j].id # x
      /\ i # 0 => i \in chain[Hash[x]] /\ passwd[i].id = x
  BY <1>1, <1>2, <1>3, Found
<1>5. chain[Hash[x]] \subseteq Slot
  BY <1>3 DEF ChainInv
<1>6. CASE InsertLookup(p, x)
  <2>1. i = 0 /\ Lock(p, x, 0, "ins_take") /\ UNCHANGED <<shared, passwd, home, damaged, walk>>
    BY <1>1, <1>6 DEF InsertLookup
  <2>2. 0 \in 0..MaxUsers
    OBVIOUS
  <2>3. QED
    BY <1>4, <2>1, <2>2, LockedStep
<1>7. CASE DeleteLookup(p, x)
  <2>1. /\ i # 0 /\ passwd[i].kick = "old" /\ Lock(p, x, i, "del_unlink")
        /\ UNCHANGED <<shared, passwd, home, damaged, walk>>
    BY <1>1, <1>7 DEF DeleteLookup
  <2>2. i \in chain[Hash[x]] /\ passwd[i].id = x /\ i \in 0..MaxUsers
    BY <1>4, <1>5, <2>1 DEF Slot
  <2>3. ready
    BY <1>3, <2>2, ReadyIf
  <2>4. QED
    BY <2>1, <2>2, <2>3, LockedStep
<1>8. QED
  BY <1>6, <1>7

LEMMA LeaveStep ==
    ASSUME IInv, NEW p \in Writers,
           InsertFull(p) \/ MakeHome(p) \/ LoadDuplicate(p) \/ LoadDone(p) \/ Crash(p)
    PROVE  IInv'
<1>1. CallTypes
  BY DEF IInv
<1>2. CASE InsertFull(p)
  BY <1>1, <1>2, ReturnStep DEF InsertFull, CallTypes
<1>3. CASE MakeHome(p)
  <2>1. arg[p] \in Ids
    BY <1>3 DEF MakeHome, IInv, CallInv, CallOK
  <2>2. home' \in SUBSET Ids /\ damaged' \in BOOLEAN
    BY <1>1, <1>3, <2>1 DEF MakeHome, CallTypes
  <2>3. QED
    BY <1>3, <2>2, ReturnStep DEF MakeHome
<1>4. CASE LoadDuplicate(p)
  BY <1>1, <1>4, ReturnStep DEF LoadDuplicate, CallTypes
<1>5. CASE LoadDone(p)
  BY <1>1, <1>5, ReturnStep DEF LoadDone, CallTypes
<1>6. CASE Crash(p)
  <2>1. home' \in SUBSET Ids /\ damaged' \in BOOLEAN
    BY <1>1, <1>6 DEF Crash, CallTypes
  <2>2. QED
    BY <1>6, <2>1, ReturnStep DEF Crash
<1>7. QED
  BY <1>2, <1>3, <1>4, <1>5, <1>6

LEMMA NextStep == ASSUME IInv, [Next]_vars PROVE IInv'
<1>1. ASSUME NEW p \in Writers, Insert(p) PROVE IInv'
  BY <1>1, LookupStep, LeaveStep, InsertTakeStep, InsertWriteStep, InsertNextStep,
     InsertHeadStep DEF Insert
<1>2. ASSUME NEW p \in Writers, Delete(p) PROVE IInv'
  BY <1>2, LookupStep, DeleteUnlinkStep, DeleteWriteStep, DeleteNextStep, DeleteHeadStep
     DEF Delete
<1>3. ASSUME NEW p \in Writers, Load(p) PROVE IInv'
  BY <1>3, LoadClearStep, LoadInitStep, LoadSlotStep, LeaveStep DEF Load
<1>4. ASSUME NEW p \in Writers, Crash(p) PROVE IInv'
  BY <1>4, LeaveStep
<1>5. ASSUME NEW r \in Readers, Lookup(r) PROVE IInv'
  BY <1>5, StartWalkStep, StepWalkStep, EndWalkStep, CheckWalkStep DEF Lookup
<1>6. CASE UNCHANGED vars
  <2>1. UNCHANGED <<head, next, empty, ready, lastspace, passwd, lock, pc, arg, slot, home,
                    damaged, walk>>
    BY <1>6 DEF vars, shared, calls
  <2>2. ChainInv' /\ chain' = chain
    BY <2>1, ChainSame DEF IInv
  <2>3. TypeOK' /\ CallTypes' /\ LockInv'
    BY <2>1 DEF IInv, TypeOK, CallTypes, LockInv
  <2>4. CallInv'
    <3>1. ASSUME NEW q \in Writers PROVE CallOK(q)'
      <4>1. CallOK(q)
        BY DEF IInv, CallInv
      <4>2. QED
        BY <2>1, <2>2, <4>1 DEF CallOK
    <3>2. QED
      BY <3>1 DEF CallInv
  <2>5. Moving' = Moving
    BY <2>1 DEF Moving
  <2>6. WalkTypes' /\ WalkInv' /\ MissExplained'
    BY <2>1, <2>2, <2>5, WalkSame DEF IInv
  <2>7. QED
    BY <2>2, <2>3, <2>4, <2>6 DEF IInv
<1>7. QED
  BY <1>1, <1>2, <1>3, <1>4, <1>5, <1>6 DEF Next

(* The invariant holds always. *)
THEOREM InvHolds == Spec => []IInv
<1>1. Init => IInv
  BY InitStep
<1>2. IInv /\ [Next]_vars => IInv'
  BY NextStep
<1>3. QED
  BY <1>1, <1>2, PTL DEF Spec

LEMMA ChainsEnd == ASSUME TypeOK, ChainInv PROVE NoCycle
<1>1. ASSUME NEW b \in Bucket PROVE Hop(b, MaxUsers) = 0
  <2>1. /\ chain[b] \subseteq Slot /\ HasChain(next, head[b], chain[b])
        /\ next \in Pointers /\ head[b] \in Slot \cup {0} /\ MaxUsers \in Nat
    BY Values DEF ChainInv, Shape
  <2>2. PICK t : Trace(next, head[b], t, MaxUsers)
    BY <2>1, TraceExists
  <2>3. t[MaxUsers] = 0
    BY <2>1, <2>2, TraceChain
  <2>4. MaxUsers \in 0..MaxUsers
    BY <2>1
  <2>5. QED
    BY <2>2, <2>3, <2>4, HopIs
<1>2. QED
  BY <1>1 DEF NoCycle

(***************************************************************************)
(* For any number of accounts, slots, writers and searches, in the middle  *)
(* of every change and after a process was killed in one: following the    *)
(* pointers ends, and a search misses an account that is there only if a   *)
(* slot on its way was carried off to another chain or the hash was being  *)
(* rebuilt.                                                                *)
(***************************************************************************)
THEOREM SearchesAreRight == Spec => []SearchesRight
<1>1. IInv => SearchesRight
  BY ChainsEnd DEF IInv, SearchesRight
<1>2. QED
  BY <1>1, InvHolds, PTL
-----------------------------------------------------------------------------
(***************************************************************************)
(* The pointers implement PasswdTable.                                     *)
(***************************************************************************)
LEMMA TableNames ==
    Table!Slot = Slot /\ Table!Bucket = Bucket /\ \A x : Table!BucketOf(x) = BucketOf(x)
  BY DEF Table!Slot, Table!Bucket, Table!BucketOf, Slot, Bucket, BucketOf

LEMMA TableLinked ==
    ASSUME NEW x \in Ids \cup {NoId}
    PROVE  Table!Linked(x) = {i \in chain[BucketOf(x)] : passwd[i].id = x}
<1>1. Table!BucketOf(x) = BucketOf(x)
  BY TableNames
<1>2. QED
  BY <1>1 DEF Table!Linked, chain

LEMMA TableFinds ==
    ASSUME TypeOK, ChainInv, NEW x \in Ids
    PROVE  /\ Table!finduseridhash(x) = finduseridhash(x)
           /\ finduseridhash(x) \in Slot \cup {0}
<1>1. x \in Ids \cup {NoId} /\ BucketOf(x) \in Bucket /\ x # NoId
  BY BucketIs
<1>2. PICK i : i = finduseridhash(x)
  OBVIOUS
<1>3. PICK k : k = HopOf(x)
  OBVIOUS
<1>4. /\ i = 0 => \A j \in chain[BucketOf(x)] : passwd[j].id # x
      /\ i # 0 => i \in chain[BucketOf(x)] /\ passwd[i].id = x
  BY <1>1, <1>2, <1>3, Found
<1>5. chain[BucketOf(x)] \subseteq Slot
  BY <1>1 DEF ChainInv
<1>6. \A j, l \in chain[BucketOf(x)] : passwd[j].id = x /\ passwd[l].id = x => j = l
  BY <1>1 DEF ChainInv
<1> DEFINE L == Table!Linked(x)
<1>7. L = {j \in chain[BucketOf(x)] : passwd[j].id = x}
  BY <1>1, TableLinked
<1>8. Table!finduseridhash(x) = IF L = {} THEN 0 ELSE CHOOSE j \in L : TRUE
  BY DEF Table!finduseridhash
<1> HIDE DEF L
<1>9. CASE i = 0
  <2>1. L = {}
    BY <1>4, <1>7, <1>9
  <2>2. QED
    BY <1>2, <1>8, <1>9, <2>1
<1>10. CASE i # 0
  <2>1. L = {i}
    BY <1>4, <1>6, <1>7, <1>10
  <2>2. (CHOOSE j \in L : TRUE) = i
    BY <2>1
  <2>3. L # {}
    BY <2>1
  <2>4. QED
    BY <1>2, <1>4, <1>5, <1>8, <1>10, <2>2, <2>3
<1>11. QED
  BY <1>9, <1>10

MapOf(l) == CASE l \in {"ins_next", "ins_head"} -> "ins_link"
              [] l \in {"del_next", "del_head"} -> "del_link"
              [] OTHER -> l

LEMMA MapValues ==
    /\ MapOf("idle") = "idle" /\ MapOf("load") = "load" /\ MapOf("ins_home") = "ins_home"
    /\ MapOf("ins_take") = "ins_take" /\ MapOf("ins_write") = "ins_write"
    /\ MapOf("ins_next") = "ins_link" /\ MapOf("ins_head") = "ins_link"
    /\ MapOf("del_unlink") = "del_unlink" /\ MapOf("del_write") = "del_write"
    /\ MapOf("del_next") = "del_link" /\ MapOf("del_head") = "del_link"
  BY DEF MapOf

LEMMA TableCardinality == \A S : Table!Cardinality(S) = Cardinality(S)
  BY DEF Table!Cardinality, Cardinality

LEMMA Maps ==
    ASSUME IInv, NEW p \in Writers, NEW l, Goto(p, l)
    PROVE  MappedPC[p] = MapOf(pc[p]) /\ MappedPC' = [MappedPC EXCEPT ![p] = MapOf(l)]
<1>1. MappedPC = [q \in Writers |-> MapOf(pc[q])]
  BY DEF MappedPC, MapOf
<1>2. MappedPC' = [q \in Writers |-> MapOf(pc'[q])]
  BY DEF MappedPC, MapOf
<1>3. pc'[p] = l /\ \A q \in Writers : q # p => pc'[q] = pc[q]
  BY DEF Goto, IInv, CallTypes
<1>4. QED
  BY <1>1, <1>2, <1>3

LEMMA TableInit == ASSUME Init PROVE Table!Init
<1>1. chain = [b \in Bucket |-> InChain(passwd, b)]
  BY InitChain
<1>2. InChain(passwd, 0) = {i \in Slot : passwd[i].id = NoId}
  <2>1. \A i \in Slot : passwd[i].id \in Ids \cup {NoId}
    BY DEF Init, Userec
  <2>2. QED
    BY <2>1, FreeBucket DEF InChain
<1>3. chain = [b \in Table!Bucket |-> {i \in Table!Slot : Table!BucketOf(passwd[i].id) = b}]
  BY <1>1, TableNames DEF InChain
<1>4. passwd \in [Table!Slot -> Table!Userec]
  <2>1. Userec \subseteq Table!Userec
    BY DEF Userec, Table!Userec, Table!Kick
  <2>2. QED
    BY <2>1, TableNames DEF Init
<1>5. MappedPC = [p \in Writers |-> "idle"]
  BY DEF Init, MappedPC
<1>6. \A i, j \in Table!Slot : passwd[i].id = passwd[j].id => i = j \/ passwd[i].id = NoId
  BY TableNames DEF Init
<1>7. empty = Table!Cardinality({i \in Table!Slot : passwd[i].id = NoId})
  BY <1>2, TableNames, TableCardinality DEF Init
<1>8. home = {x \in Ids : \E i \in Table!Slot : passwd[i].id = x /\ passwd[i].kick = "no"}
  BY TableNames DEF Init
<1>9. /\ lock = Nobody /\ damaged = FALSE
      /\ arg = [p \in Writers |-> NoId] /\ slot = [p \in Writers |-> 0]
  BY DEF Init
<1>10. QED
  BY <1>3, <1>4, <1>5, <1>6, <1>7, <1>8, <1>9 DEF Table!Init, chain
(***************************************************************************)
(* Registration.                                                           *)
(***************************************************************************)
LEMMA InsertLookupIs ==
    ASSUME IInv, NEW p \in Writers, NEW x \in Ids, InsertLookup(p, x)
    PROVE  Table!InsertLookup(p, x)
<1>1. /\ finduseridhash(x) = 0 /\ pc[p] = "idle" /\ lock = Nobody /\ lock' = p
      /\ Goto(p, "ins_take") /\ arg' = [arg EXCEPT ![p] = x]
      /\ slot' = [slot EXCEPT ![p] = 0]
      /\ UNCHANGED <<head, next, empty, passwd, home, damaged>>
  BY DEF InsertLookup, Lock, shared
<1>2. Table!finduseridhash(x) = 0
  BY <1>1, TableFinds DEF IInv
<1>3. MappedPC[p] = "idle" /\ MappedPC' = [MappedPC EXCEPT ![p] = "ins_take"]
  BY <1>1, Maps, MapValues
<1>4. chain' = chain
  BY <1>1 DEF chain
<1>5. ~(Table!finduseridhash(x) > 0)
  BY <1>2
<1>6. QED
  BY <1>1, <1>3, <1>4, <1>5 DEF Table!InsertLookup, Table!Begin, Table!lock_passwd, chain

LEMMA InsertTakeIs ==
    ASSUME IInv, NEW p \in Writers, InsertFull(p) \/ InsertTake(p)
    PROVE  Table!InsertTake(p)
<1>1. PICK i : i = finduseridhash(NoId)
  OBVIOUS
<1>2. PICK k : k = HopOf(NoId)
  OBVIOUS
<1>3. BucketOf(NoId) = 0 /\ NoId \in Ids \cup {NoId} /\ Table!BucketOf(NoId) = 0
  BY TableNames DEF BucketOf
<1>4. /\ i = 0 => \A j \in chain[0] : passwd[j].id # NoId
      /\ i # 0 => i \in chain[0] /\ passwd[i].id = NoId
  BY <1>1, <1>2, <1>3, Found DEF IInv
<1>5. Table!Linked(NoId) = {j \in chain[0] : passwd[j].id = NoId}
  BY <1>3, TableLinked
<1>6. CASE InsertFull(p)
  <2>1. /\ pc[p] = "ins_take" /\ i = 0 /\ lock' = (IF lock = p THEN Nobody ELSE lock)
        /\ Goto(p, "idle") /\ arg' = [arg EXCEPT ![p] = NoId]
        /\ slot' = [slot EXCEPT ![p] = 0]
        /\ UNCHANGED <<head, next, empty, passwd, home, damaged>>
    BY <1>1, <1>6 DEF InsertFull, Unlock, shared
  <2>2. MappedPC[p] = "ins_take" /\ MappedPC' = [MappedPC EXCEPT ![p] = "idle"]
    BY <2>1, Maps, MapValues
  <2>3. chain' = chain
    BY <2>1 DEF chain
  <2>4. Table!Linked(NoId) = {}
    BY <1>4, <1>5, <2>1
  <2>5. QED
    BY <2>1, <2>2, <2>3, <2>4
       DEF Table!InsertTake, Table!Return, Table!unlock_passwd, chain
<1>7. CASE InsertTake(p)
  <2>1. /\ pc[p] = "ins_take" /\ i # 0 /\ Goto(p, "ins_write")
        /\ slot' = [slot EXCEPT ![p] = i] /\ Unlink(0, HopOf(NoId)) /\ empty' = empty - 1
        /\ UNCHANGED <<passwd, lock, arg, home, damaged>>
    BY <1>1, <1>7 DEF InsertTake
  <2>2. MappedPC[p] = "ins_take" /\ MappedPC' = [MappedPC EXCEPT ![p] = "ins_write"]
    BY <2>1, Maps, MapValues
  <2>3. chain' = [chain EXCEPT ![0] = @ \ {i}]
    BY <1>1, <1>3, <2>1, UnlinkIs DEF IInv
  <2>4. Table!deluseridhash(NoId, i)
    BY <1>3, <2>1, <2>3 DEF Table!deluseridhash, chain
  <2>5. i \in Table!Linked(NoId)
    BY <1>4, <1>5, <2>1
  <2>6. \E j \in Table!Linked(NoId) :
            Table!deluseridhash(NoId, j) /\ slot' = [slot EXCEPT ![p] = j]
    BY <2>1, <2>4, <2>5
  <2>7. QED
    BY <2>1, <2>2, <2>6 DEF Table!InsertTake, Table!Goto
<1>8. QED
  BY <1>6, <1>7

LEMMA InsertWriteIs ==
    ASSUME IInv, NEW p \in Writers, InsertWrite(p) PROVE Table!InsertWrite(p)
<1>1. /\ pc[p] = "ins_write" /\ Goto(p, "ins_next")
      /\ passwd' = [passwd EXCEPT ![slot[p]] = [id |-> arg[p], kick |-> "no"]]
      /\ UNCHANGED <<head, next, empty, lock, arg, slot, home, damaged>>
  BY DEF InsertWrite, shared
<1>2. MappedPC[p] = "ins_write" /\ MappedPC' = [MappedPC EXCEPT ![p] = "ins_link"]
  BY <1>1, Maps, MapValues
<1>3. chain' = chain
  BY <1>1 DEF chain
<1>4. QED
  BY <1>1, <1>2, <1>3 DEF Table!InsertWrite, Table!Goto, chain

LEMMA InsertLinkIs ==
    ASSUME IInv, NEW p \in Writers, InsertHead(p) PROVE Table!InsertLink(p)
<1>1. /\ pc[p] = "ins_head" /\ Goto(p, "ins_home")
      /\ PushHead(BucketOf(arg[p]), slot[p]) /\ lock' = Nobody
      /\ UNCHANGED <<empty, passwd, arg, slot, home, damaged>>
  BY DEF InsertHead
<1>2. lock = p /\ CallOK(p)
  BY <1>1 DEF IInv, LockInv, CallInv, Locking, Inserting
<1>3. /\ arg[p] \in Ids /\ slot[p] \in Slot /\ next[slot[p]] = head[Hash[arg[p]]]
      /\ \A d \in Bucket : slot[p] \notin chain[d]
  BY <1>1, <1>2 DEF CallOK, Inserting
<1>4. BucketOf(arg[p]) = Hash[arg[p]] /\ Hash[arg[p]] \in Bucket /\ arg[p] # NoId
  BY <1>3, BucketFacts DEF BucketOf
<1>5. chain' = [chain EXCEPT ![BucketOf(arg[p])] = @ \cup {slot[p]}]
  BY <1>1, <1>3, <1>4, PushHeadIs DEF IInv
<1>6. MappedPC[p] = "ins_link" /\ MappedPC' = [MappedPC EXCEPT ![p] = "ins_home"]
  BY <1>1, Maps, MapValues
<1>7. Table!insertuseridhash(arg[p], slot[p])
  BY <1>1, <1>4, <1>5, TableNames DEF Table!insertuseridhash, chain
<1>8. QED
  BY <1>1, <1>2, <1>6, <1>7 DEF Table!InsertLink, Table!Goto, Table!unlock_passwd

LEMMA MakeHomeIs ==
    ASSUME IInv, NEW p \in Writers, MakeHome(p) PROVE Table!MakeHome(p)
<1>1. /\ pc[p] = "ins_home" /\ home' = home \cup {arg[p]}
      /\ lock' = (IF lock = p THEN Nobody ELSE lock)
      /\ Goto(p, "idle") /\ arg' = [arg EXCEPT ![p] = NoId]
      /\ slot' = [slot EXCEPT ![p] = 0]
      /\ UNCHANGED <<head, next, empty, passwd, damaged>>
  BY DEF MakeHome, Unlock, shared
<1>2. lock # p
  BY <1>1 DEF IInv, LockInv, Locking, Inserting, Deleting
<1>3. MappedPC[p] = "ins_home" /\ MappedPC' = [MappedPC EXCEPT ![p] = "idle"]
  BY <1>1, Maps, MapValues
<1>4. chain' = chain
  BY <1>1 DEF chain
<1>5. QED
  BY <1>1, <1>2, <1>3, <1>4 DEF Table!MakeHome, Table!Return, chain
(***************************************************************************)
(* Deletion.                                                               *)
(***************************************************************************)
LEMMA DeleteLookupIs ==
    ASSUME IInv, NEW p \in Writers, NEW x \in Ids, DeleteLookup(p, x)
    PROVE  Table!DeleteLookup(p, x)
<1>1. PICK i : i = finduseridhash(x)
  OBVIOUS
<1>2. /\ i # 0 /\ passwd[i].kick = "old" /\ pc[p] = "idle" /\ lock = Nobody /\ lock' = p
      /\ Goto(p, "del_unlink") /\ arg' = [arg EXCEPT ![p] = x]
      /\ slot' = [slot EXCEPT ![p] = i]
      /\ UNCHANGED <<head, next, empty, passwd, home, damaged>>
  BY <1>1 DEF DeleteLookup, Lock, shared
<1>3. Table!finduseridhash(x) = i /\ i \in Slot
  BY <1>1, <1>2, TableFinds DEF IInv
<1>4. MappedPC[p] = "idle" /\ MappedPC' = [MappedPC EXCEPT ![p] = "del_unlink"]
  BY <1>2, Maps, MapValues
<1>5. chain' = chain
  BY <1>2 DEF chain
<1>6. i > 0
  BY <1>3 DEF Slot
<1>7. QED
  BY <1>2, <1>3, <1>4, <1>5, <1>6
     DEF Table!DeleteLookup, Table!Begin, Table!lock_passwd, chain

LEMMA DeleteUnlinkIs ==
    ASSUME IInv, NEW p \in Writers, DeleteUnlink(p) PROVE Table!DeleteUnlink(p)
<1> DEFINE x == arg[p]
<1>1. /\ pc[p] = "del_unlink" /\ Goto(p, "del_write") /\ Unlink(BucketOf(x), HopOf(x))
      /\ UNCHANGED <<empty, passwd, lock, arg, slot, home, damaged>>
  BY DEF DeleteUnlink
<1>2. CallOK(p)
  BY DEF IInv, CallInv
<1>3. /\ x \in Ids /\ slot[p] \in chain[Hash[x]] /\ passwd[slot[p]].id = x
      /\ x # NoId /\ BucketOf(x) = Hash[x] /\ Hash[x] \in Bucket
  BY <1>1, <1>2, BucketFacts DEF CallOK, BucketOf
<1> HIDE DEF x
<1>4. finduseridhash(x) = slot[p] /\ slot[p] # 0
  <2>1. PICK i : i = finduseridhash(x)
    OBVIOUS
  <2>2. PICK k : k = HopOf(x)
    OBVIOUS
  <2>3. /\ i = 0 => \A j \in chain[Hash[x]] : passwd[j].id # x
        /\ i # 0 => i \in chain[Hash[x]] /\ passwd[i].id = x
    BY <1>3, <2>1, <2>2, Found DEF IInv
  <2>4. i # 0 /\ i \in chain[Hash[x]] /\ passwd[i].id = x
    BY <1>3, <2>3
  <2>5. QED
    BY <1>3, <2>1, <2>4 DEF IInv, ChainInv
<1>5. chain' = [chain EXCEPT ![BucketOf(x)] = @ \ {slot[p]}]
  BY <1>1, <1>3, <1>4, UnlinkIs DEF IInv
<1>6. Table!deluseridhash(x, slot[p])
  BY <1>1, <1>3, <1>5, TableNames DEF Table!deluseridhash, chain
<1>7. MappedPC[p] = "del_unlink" /\ MappedPC' = [MappedPC EXCEPT ![p] = "del_write"]
  BY <1>1, Maps, MapValues
<1>8. QED
  BY <1>1, <1>6, <1>7 DEF Table!DeleteUnlink, Table!Goto, x

LEMMA DeleteWriteIs ==
    ASSUME IInv, NEW p \in Writers, DeleteWrite(p) PROVE Table!DeleteWrite(p)
<1>1. /\ pc[p] = "del_write" /\ Goto(p, "del_next")
      /\ passwd' = [passwd EXCEPT ![slot[p]] = [id |-> NoId, kick |-> "no"]]
      /\ UNCHANGED <<head, next, empty, lock, arg, slot, home, damaged>>
  BY DEF DeleteWrite, shared
<1>2. MappedPC[p] = "del_write" /\ MappedPC' = [MappedPC EXCEPT ![p] = "del_link"]
  BY <1>1, Maps, MapValues
<1>3. chain' = chain
  BY <1>1 DEF chain
<1>4. QED
  BY <1>1, <1>2, <1>3 DEF Table!DeleteWrite, Table!EmptyRec, Table!Goto, chain

LEMMA DeleteLinkIs ==
    ASSUME IInv, NEW p \in Writers, DeleteHead(p) PROVE Table!DeleteLink(p)
<1>1. /\ pc[p] = "del_head" /\ Goto(p, "idle") /\ PushHead(0, slot[p])
      /\ empty' = empty + 1 /\ lock' = (IF lock = p THEN Nobody ELSE lock)
      /\ arg' = [arg EXCEPT ![p] = NoId] /\ slot' = [slot EXCEPT ![p] = 0]
      /\ UNCHANGED <<passwd, home, damaged>>
  BY DEF DeleteHead, Unlock
<1>2. CallOK(p)
  BY DEF IInv, CallInv
<1>3. /\ slot[p] \in Slot /\ next[slot[p]] = head[0] /\ 0 \in Bucket
      /\ \A d \in Bucket : slot[p] \notin chain[d]
  BY <1>1, <1>2, BucketFacts DEF CallOK, Deleting
<1>4. chain' = [chain EXCEPT ![0] = @ \cup {slot[p]}]
  BY <1>1, <1>3, PushHeadIs DEF IInv
<1>5. Table!BucketOf(NoId) = 0
  BY TableNames DEF BucketOf
<1>6. Table!insertuseridhash(NoId, slot[p])
  BY <1>1, <1>4, <1>5 DEF Table!insertuseridhash, chain
<1>7. MappedPC[p] = "del_link" /\ MappedPC' = [MappedPC EXCEPT ![p] = "idle"]
  BY <1>1, Maps, MapValues
<1>8. QED
  BY <1>1, <1>6, <1>7 DEF Table!DeleteLink, Table!Return, Table!unlock_passwd

(***************************************************************************)
(* The rebuild, and a process that is killed.                              *)
(***************************************************************************)
LEMMA LoadClearIs ==
    ASSUME IInv, NEW p \in Writers, LoadClear(p) PROVE Table!LoadClear(p)
<1>1. /\ pc[p] = "idle" /\ lock = Nobody /\ lock' = p /\ Goto(p, "load")
      /\ arg' = [arg EXCEPT ![p] = NoId] /\ slot' = [slot EXCEPT ![p] = 1]
      /\ head' = [b \in Bucket |-> 0] /\ next' = [i \in Slot |-> 0] /\ empty' = 0
      /\ UNCHANGED <<passwd, home, damaged>>
  BY DEF LoadClear, Lock
<1>2. head' \in [Bucket -> Slot \cup {0}] /\ next' \in Pointers
  BY <1>1 DEF Pointers
<1> DEFINE c == [b \in Bucket |-> {}]
<1>3. Shape(head', next', c) /\ c \in [Bucket -> SUBSET Slot]
  <2>1. ASSUME NEW b \in Bucket PROVE HasChain(next', head'[b], c[b])
    <3>1. head'[b] = 0 /\ c[b] = {}
      BY <1>1
    <3>2. HasChain(next', 0, {})
      BY EmptyChain
    <3> HIDE DEF c
    <3>3. QED
      BY <3>1, <3>2
  <2>2. c \in [Bucket -> SUBSET Slot]
    OBVIOUS
  <2> HIDE DEF c
  <2>3. QED
    BY <2>1, <2>2 DEF Shape
<1>4. chain' = c
  <2> HIDE DEF c
  <2>1. QED
    BY <1>2, <1>3, ChainIs DEF chain
<1>5. chain' = [b \in Table!Bucket |-> {}]
  BY <1>4, TableNames
<1>6. MappedPC[p] = "idle" /\ MappedPC' = [MappedPC EXCEPT ![p] = "load"]
  BY <1>1, Maps, MapValues
<1> HIDE DEF c
<1>7. QED
  BY <1>1, <1>5, <1>6 DEF Table!LoadClear, Table!Begin, Table!lock_passwd, chain

LEMMA LoadSlotIs ==
    ASSUME IInv, NEW p \in Writers, LoadSlot(p) \/ LoadDuplicate(p) PROVE Table!LoadSlot(p)
<1> DEFINE x == passwd[slot[p]].id
<1>1. slot[p] \in Slot /\ slot[p] \in Table!Slot /\ CallOK(p) /\ pc[p] = "load"
  BY TableNames DEF IInv, CallInv, LoadSlot, LoadDuplicate
<1>2. x \in Ids \cup {NoId}
  <2>1. passwd[slot[p]] \in Userec
    BY <1>1 DEF IInv, TypeOK
  <2>2. QED
    BY <2>1 DEF Userec
<1> HIDE DEF x
<1>3. CASE LoadSlot(p)
  <2>1. /\ x # NoId => finduseridhash(x) = 0
        /\ empty' = IF x = NoId THEN empty + 1 ELSE empty
        /\ slot' = [slot EXCEPT ![p] = @ + 1]
        /\ UNCHANGED <<passwd, lock, pc, arg, home, damaged>>
    BY <1>3 DEF LoadSlot, x
  <2>2. chain' = [chain EXCEPT ![BucketOf(x)] = @ \cup {slot[p]}]
    BY <1>1, <1>3, LoadChain DEF IInv, x
  <2>3. ~(x # NoId /\ Table!finduseridhash(x) > 0)
    <3>1. ASSUME x # NoId PROVE ~(Table!finduseridhash(x) > 0)
      <4>1. x \in Ids /\ Table!finduseridhash(x) = 0
        BY <1>2, <2>1, <3>1, TableFinds DEF IInv
      <4>2. QED
        BY <4>1
    <3>2. QED
      BY <3>1
  <2>4. Table!insertuseridhash(x, slot[p])
    BY <2>1, <2>2, TableNames DEF Table!insertuseridhash, chain
  <2>5. MappedPC[p] = "load" /\ MappedPC' = MappedPC
    <3>1. Goto(p, "load")
      BY <1>1, <2>1 DEF Goto, IInv, CallTypes
    <3>2. MappedPC[p] = "load"
      BY <1>1, <3>1, Maps, MapValues
    <3>3. MappedPC' = MappedPC
      BY <2>1 DEF MappedPC
    <3>4. QED
      BY <3>2, <3>3
  <2>6. QED
    BY <1>1, <2>1, <2>3, <2>4, <2>5 DEF Table!LoadSlot, x
<1>4. CASE LoadDuplicate(p)
  <2>1. /\ x # NoId /\ finduseridhash(x) # 0 /\ damaged' = TRUE
        /\ lock' = (IF lock = p THEN Nobody ELSE lock)
        /\ Goto(p, "idle") /\ arg' = [arg EXCEPT ![p] = NoId] /\ slot' = [slot EXCEPT ![p] = 0]
        /\ UNCHANGED <<head, next, empty, passwd, home>>
    BY <1>4 DEF LoadDuplicate, Unlock, shared, x
  <2>2. Table!finduseridhash(x) \in Slot
    BY <1>2, <2>1, TableFinds DEF IInv
  <2>3. Table!finduseridhash(x) > 0
    BY <2>2 DEF Slot
  <2>4. MappedPC[p] = "load" /\ MappedPC' = [MappedPC EXCEPT ![p] = "idle"]
    BY <1>1, <2>1, Maps, MapValues
  <2>5. chain' = chain
    BY <2>1 DEF chain
  <2>6. QED
    BY <1>1, <2>1, <2>3, <2>4, <2>5
       DEF Table!LoadSlot, Table!Return, Table!unlock_passwd, chain, x
<1>5. QED
  BY <1>3, <1>4

LEMMA LoadDoneIs ==
    ASSUME IInv, NEW p \in Writers, LoadDone(p) PROVE Table!LoadDone(p)
<1>1. /\ pc[p] = "load" /\ slot[p] = MaxUsers + 1 /\ damaged' = FALSE
      /\ lock' = (IF lock = p THEN Nobody ELSE lock)
      /\ Goto(p, "idle") /\ arg' = [arg EXCEPT ![p] = NoId] /\ slot' = [slot EXCEPT ![p] = 0]
      /\ UNCHANGED <<head, next, empty, passwd, home>>
  BY DEF LoadDone, Unlock, shared
<1>2. MappedPC[p] = "load" /\ MappedPC' = [MappedPC EXCEPT ![p] = "idle"]
  BY <1>1, Maps, MapValues
<1>3. chain' = chain
  BY <1>1 DEF chain
<1>4. QED
  BY <1>1, <1>2, <1>3 DEF Table!LoadDone, Table!Return, Table!unlock_passwd, chain

LEMMA CrashIs ==
    ASSUME IInv, NEW p \in Writers, Crash(p) PROVE Table!Crash(p)
<1>1. /\ pc[p] # "idle" /\ "crash" \in Faults
      /\ damaged' = (damaged \/ pc[p] \notin {"ins_take", "del_unlink", "ins_home"})
      /\ lock' = (IF lock = p THEN Nobody ELSE lock)
      /\ Goto(p, "idle") /\ arg' = [arg EXCEPT ![p] = NoId] /\ slot' = [slot EXCEPT ![p] = 0]
      /\ UNCHANGED <<head, next, empty, passwd, home>>
  BY DEF Crash, Unlock, shared
<1>2. MappedPC[p] = MapOf(pc[p]) /\ MappedPC' = [MappedPC EXCEPT ![p] = "idle"]
  BY <1>1, Maps, MapValues
<1>3. chain' = chain
  BY <1>1 DEF chain
<1>4. pc[p] \in Locking \cup {"ins_home"}
  BY <1>1 DEF IInv, CallTypes
<1>5. MappedPC[p] # "idle"
  BY <1>1, <1>2, <1>4, MapValues DEF Locking, Inserting, Deleting
<1>6. pc[p] \notin {"ins_take", "del_unlink", "ins_home"}
          <=> MappedPC[p] \in Table!LockedPC \ {"ins_take", "del_unlink"}
  BY <1>1, <1>2, <1>4, MapValues
     DEF Locking, Inserting, Deleting, Table!LockedPC, Table!InsertPC, Table!DeletePC
<1>7. damaged' = (damaged \/ MappedPC[p] \in Table!LockedPC \ {"ins_take", "del_unlink"})
  <2>1. CASE pc[p] \notin {"ins_take", "del_unlink", "ins_home"}
    BY <1>1, <1>6, <2>1
  <2>2. CASE pc[p] \in {"ins_take", "del_unlink", "ins_home"}
    BY <1>1, <1>6, <2>2
  <2>3. QED
    BY <2>1, <2>2
<1>8. QED
  BY <1>1, <1>2, <1>3, <1>5, <1>7 DEF Table!Crash, Table!Return, Table!unlock_passwd, chain
(* Steps that PasswdTable does not see. *)
LEMMA Hidden ==
    ASSUME chain' = chain, MappedPC' = MappedPC,
           UNCHANGED <<passwd, empty, lock, arg, slot, home, damaged>>
    PROVE  UNCHANGED Table!vars
  BY DEF Table!vars, chain

LEMMA NextIs ==
    ASSUME IInv, NEW p \in Writers, InsertNext(p) \/ DeleteNext(p)
    PROVE  UNCHANGED Table!vars
<1>1. CallOK(p)
  BY DEF IInv, CallInv
<1>2. MappedPC' = MappedPC
  <2>1. CASE InsertNext(p)
    <3>1. pc[p] = "ins_next" /\ Goto(p, "ins_head")
      BY <2>1 DEF InsertNext
    <3>2. MappedPC[p] = "ins_link" /\ MappedPC' = [MappedPC EXCEPT ![p] = "ins_link"]
      BY <3>1, Maps, MapValues
    <3>3. QED
      BY <3>2 DEF MappedPC
  <2>2. CASE DeleteNext(p)
    <3>1. pc[p] = "del_next" /\ Goto(p, "del_head")
      BY <2>2 DEF DeleteNext
    <3>2. MappedPC[p] = "del_link" /\ MappedPC' = [MappedPC EXCEPT ![p] = "del_link"]
      BY <3>1, Maps, MapValues
    <3>3. QED
      BY <3>2 DEF MappedPC
  <2>3. QED
    BY <2>1, <2>2
<1>3. chain' = chain
  <2>1. slot[p] \in Slot /\ \A d \in Bucket : slot[p] \notin chain[d]
    BY <1>1 DEF CallOK, Inserting, Deleting, InsertNext, DeleteNext
  <2>2. CASE InsertNext(p)
    <3>1. arg[p] \in Ids /\ PushNext(BucketOf(arg[p]), slot[p])
      BY <1>1, <2>2 DEF InsertNext, CallOK
    <3>2. BucketOf(arg[p]) \in Bucket
      BY <3>1, BucketIs
    <3>3. QED
      BY <2>1, <3>1, <3>2, PushNextIs DEF IInv
  <2>3. CASE DeleteNext(p)
    <3>1. PushNext(0, slot[p]) /\ 0 \in Bucket
      BY <2>3, BucketFacts DEF DeleteNext
    <3>2. QED
      BY <2>1, <3>1, PushNextIs DEF IInv
  <2>4. QED
    BY <2>2, <2>3
<1>4. UNCHANGED <<passwd, empty, lock, arg, slot, home, damaged>>
  BY DEF InsertNext, DeleteNext
<1>5. QED
  BY <1>2, <1>3, <1>4, Hidden

LEMMA QuietIs ==
    ASSUME UNCHANGED <<head, next, empty, passwd, calls>> PROVE UNCHANGED Table!vars
<1>1. chain' = chain /\ MappedPC' = MappedPC
  BY DEF chain, MappedPC, calls
<1>2. QED
  BY <1>1, Hidden DEF calls

LEMMA TableStep == ASSUME IInv, [Next]_vars PROVE [Table!Next]_(Table!vars)
<1>1. ASSUME NEW p \in Writers, Insert(p) PROVE Table!Insert(p) \/ UNCHANGED Table!vars
  BY <1>1, InsertLookupIs, InsertTakeIs, InsertWriteIs, NextIs, InsertLinkIs, MakeHomeIs
     DEF Insert, Table!Insert
<1>2. ASSUME NEW p \in Writers, Delete(p) PROVE Table!Delete(p) \/ UNCHANGED Table!vars
  BY <1>2, DeleteLookupIs, DeleteUnlinkIs, DeleteWriteIs, NextIs, DeleteLinkIs
     DEF Delete, Table!Delete
<1>3. ASSUME NEW p \in Writers, Load(p) PROVE Table!Load(p) \/ UNCHANGED Table!vars
  <2>1. LoadInit(p) => UNCHANGED Table!vars
    BY QuietIs DEF LoadInit
  <2>2. QED
    BY <1>3, <2>1, LoadClearIs, LoadSlotIs, LoadDoneIs DEF Load, Table!Load
<1>4. ASSUME NEW r \in Readers, Lookup(r) PROVE UNCHANGED Table!vars
  <2>1. UNCHANGED <<shared, passwd, calls>>
    BY <1>4 DEF Lookup, StartWalk, StepWalk, EndWalk, CheckWalk
  <2>2. QED
    BY <2>1, QuietIs DEF shared
<1>5. CASE UNCHANGED vars
  <2>1. UNCHANGED <<head, next, empty, passwd, calls>>
    BY <1>5 DEF vars, shared, calls
  <2>2. QED
    BY <2>1, QuietIs
<1>6. QED
  BY <1>1, <1>2, <1>3, <1>4, <1>5, CrashIs DEF Next, Table!Next

(***************************************************************************)
(* For any number of accounts, slots, writers and searches: what the       *)
(* locked calls do to the pointers, one store at a time, is what           *)
(* PasswdTable says they do to the chains.                                 *)
(***************************************************************************)
THEOREM TableIsImplemented == Spec => ImplementsTable
<1>1. Init => Table!Init
  BY TableInit
<1>2. IInv /\ [Next]_vars => [Table!Next]_(Table!vars)
  BY TableStep
<1>3. QED
  BY <1>1, <1>2, InvHolds, PTL DEF Spec, ImplementsTable, Table!Spec
=============================================================================
