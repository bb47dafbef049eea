----------------------------- MODULE UtmpProofs -----------------------------
(***************************************************************************)
(* Proofs about Utmp, for any number of slots, accounts, telnet processes, *)
(* hosts and requests: list, chains, counters and index stay in step, and  *)
(* sessions keep their slots, outside the races recorded in harm.          *)
(***************************************************************************)
EXTENDS Utmp, FiniteSetTheorems, WellFoundedInduction, TLAPS

-----------------------------------------------------------------------------
(***************************************************************************)
(* The inductive invariant, in named parts.                                *)
(***************************************************************************)
InTable == {"sweep", "in", "exit"}

(* A process has a slot number once it has entered, and one of them at most*)
(* sweeps.                                                                 *)
ProcInv == \A p \in Telnet :
    /\ proc[p].pc # "none" => proc[p].uid \in Users \cup {Guest}
    /\ proc[p].pc \in InTable <=> proc[p].ent # 0
    /\ proc[p].pc = "sweep" <=> sweep.by = p

(* The slot of a process is its own until a logout takes it for another's. *)
OwnInv == \A p \in Telnet :
    /\ proc[p].own => /\ proc[p].ent # 0 /\ uinfo[proc[p].ent].active
                      /\ uinfo[proc[p].ent].pid = p
    /\ "logout" \notin harm /\ proc[p].ent # 0 => proc[p].own

(* So is the slot of a request, a named web session not about to time out. *)
ReqInv == \A r \in Requests : req[r].own =>
    /\ req[r].slot # 0 /\ uinfo[req[r].slot].active
    /\ uinfo[req[r].slot].pid = WWW /\ uinfo[req[r].slot].uid \in Users
    /\ uinfo[req[r].slot].age < 2

(* The slots beyond MAXACTIVERUN are not used; they stay linked as they    *)
(* were, and behind all others.                                            *)
HighInv == \A k \in Slot : k > MaxActiveRun =>
    ~uinfo[k].active /\ next[k] = IF k = MaxActive THEN 0 ELSE k + 1

(* Chain c is q[1], ..., q[n]. *)
Listed(c, n, q) ==
    /\ Members(c) = {q[i] : i \in 1..n}
    /\ \A i, j \in 1..n : q[i] = q[j] => i = j
    /\ head[c] = IF n = 0 THEN 0 ELSE q[1]
    /\ \A i \in 1..n : next[q[i]] = IF i = n THEN 0 ELSE q[i + 1]
HasList(c) == \E n \in Nat : \E q \in [1..n -> Slot] : Listed(c, n, q)
ListInv == "logout" \notin harm => \A c \in Chain : HasList(c)

(* The counters; a logout of somebody else's slot forgets a guest.         *)
Actives == {k \in Slot : uinfo[k].active}
Guests == {k \in Slot : WebGuest(uinfo[k])}
CountInv ==
    /\ activeuser = Cardinality(Actives)
    /\ Cardinality(Guests) <= wwwguestnum
    /\ "logout" \notin harm => wwwguestnum = Cardinality(Guests)
    /\ activeuser <= peak.file /\ peak.today <= peak.file

IInv == TypeOK /\ ProcInv /\ OwnInv /\ ReqInv /\ HighInv /\ ListInv /\ CountInv
            /\ IndexLeadsHome /\ SessionsIndexed

USE UtmpAssumption

-----------------------------------------------------------------------------
(***************************************************************************)
(* Chains.                                                                 *)
(***************************************************************************)
LEMMA SlotFacts == 0 \notin Slot /\ Slot \subseteq Nat /\ \A k \in Slot : k <= MaxActive
  BY DEF Slot

LEMMA Least == ASSUME NEW S, S \subseteq Nat, S # {}
               PROVE  \E m \in S : \A y \in S : m <= y
<1> DEFINE R == OpToRel(<, Nat)
<1>1. \A x, y \in Nat : <<x, y>> \in R <=> x < y
  BY DEF OpToRel
<1>2. IsWellFoundedOn(R, Nat)
  BY NatLessThanWellFounded
<1> HIDE DEF R
<1>3. PICK m \in S : \A y \in S : <<y, m>> \notin R
  BY <1>2, WFMin
<1>4. ASSUME NEW y \in S PROVE m <= y
  <2>1. m \in Nat /\ y \in Nat /\ ~(y < m)
    BY <1>1, <1>3
  <2>2. QED
    BY <2>1
<1>5. QED
  BY <1>4

(* A chain has no more slots than there are. *)
LEMMA ShortList ==
    ASSUME NEW n \in Nat, NEW q \in [1..n -> Slot], \A i, j \in 1..n : q[i] = q[j] => i = j
    PROVE  n <= MaxActive
<1>1. q \in Injection(1..n, Slot)
  BY DEF Injection, IsInjective
<1>2. IsFiniteSet(Slot) /\ Cardinality(Slot) = MaxActive
  <2>1. 1 \in Int /\ MaxActive \in Int
    OBVIOUS
  <2>2. /\ IsFiniteSet(1..MaxActive)
        /\ Cardinality(1..MaxActive) = IF 1 > MaxActive THEN 0 ELSE MaxActive - 1 + 1
    BY <2>1, FS_Interval, Zenon
  <2>3. QED
    BY <2>2 DEF Slot
<1>3. Cardinality(1..n) = n
  <2>1. Cardinality(1..n) = IF 1 > n THEN 0 ELSE n - 1 + 1
    BY FS_Interval
  <2>2. QED
    BY <2>1
<1>4. Cardinality(1..n) <= Cardinality(Slot)
  BY <1>1, <1>2, FS_Injection
<1>5. QED
  BY <1>2, <1>3, <1>4

(* Reach finds what is in a chain, and finds it in time. *)
LEMMA ReachList ==
    ASSUME TypeOK, NEW c \in Chain, NEW n \in Nat, NEW q \in [1..n -> Slot], Listed(c, n, q)
    PROVE  Reach(c) = Members(c)
<1> DEFINE F(f, m) == IF m = 0 THEN {head[c]} \ {0}
                      ELSE f[m - 1] \cup ({next[k] : k \in f[m - 1]} \ {0})
           upto(m) == {i \in 1..n : i <= m + 1}
           g == [m \in 0..MaxActive |-> {q[i] : i \in upto(m)}]
           after == CHOOSE f : f = [m \in 0..MaxActive |-> F(f, m)]
<1>1. /\ head[c] = IF n = 0 THEN 0 ELSE q[1]
      /\ \A i \in 1..n : q[i] \in Slot /\ next[q[i]] = IF i = n THEN 0 ELSE q[i + 1]
      /\ Members(c) = {q[i] : i \in 1..n}
  BY DEF Listed
<1>2. n <= MaxActive
  BY ShortList DEF Listed
<1>3. ASSUME NEW m \in 0..MaxActive PROVE g[m] = F(g, m)
  <2>1. CASE m = 0
    <3>1. upto(m) = IF n = 0 THEN {} ELSE {1}
      BY <2>1
    <3>2. g[m] = {q[i] : i \in upto(m)} /\ F(g, m) = {head[c]} \ {0}
      BY <2>1
    <3> HIDE DEF upto, g, F
    <3>3. CASE n = 0
      BY <1>1, <3>1, <3>2, <3>3
    <3>4. CASE n # 0
      BY <1>1, <3>1, <3>2, <3>4, SlotFacts
    <3>5. QED
      BY <3>3, <3>4
  <2>2. CASE m # 0
    <3>1. g[m - 1] = {q[i] : i \in upto(m - 1)} /\ g[m] = {q[i] : i \in upto(m)}
      BY <2>2
    <3>2. ASSUME NEW k \in g[m] PROVE k \in F(g, m)
      <4>1. PICK i \in upto(m) : k = q[i]
        BY <3>1
      <4>2. CASE i \in upto(m - 1)
        BY <2>2, <3>1, <4>1, <4>2
      <4>3. CASE i \notin upto(m - 1)
        <5>1. i - 1 \in upto(m - 1) /\ i - 1 # n /\ i \in 1..n
          BY <2>2, <4>3
        <5>2. next[q[i - 1]] = q[i] /\ q[i] # 0
          BY <1>1, <5>1, SlotFacts
        <5>3. QED
          BY <2>2, <3>1, <4>1, <5>1, <5>2
      <4>4. QED
        BY <4>2, <4>3
    <3>3. ASSUME NEW k \in F(g, m) PROVE k \in g[m]
      <4>1. CASE k \in g[m - 1]
        BY <2>2, <3>1, <4>1
      <4>2. CASE k \notin g[m - 1]
        <5>1. PICK i \in upto(m - 1) : k = next[q[i]] /\ k # 0
          BY <2>2, <3>1, <3>3, <4>2
        <5>2. i # n /\ i + 1 \in upto(m) /\ k = q[i + 1]
          BY <1>1, <2>2, <5>1
        <5>3. QED
          BY <3>1, <5>2
      <4>3. QED
        BY <4>1, <4>2
    <3>4. QED
      BY <3>2, <3>3
  <2>3. QED
    BY <2>1, <2>2
<1>4. g = [m \in 0..MaxActive |-> F(g, m)]
  <2> HIDE DEF F
  <2>1. QED
    BY <1>3
<1>5. after = [m \in 0..MaxActive |-> F(after, m)]
  <2> HIDE DEF F, g
  <2>1. QED
    BY <1>4
<1>6. Reach(c) = after[MaxActive]
  BY DEF Reach
<1>7. \A m \in 0..MaxActive : after[m] = g[m]
  <2> DEFINE D == {m \in 0..MaxActive : after[m] # g[m]}
  <2>1. SUFFICES ASSUME D # {} PROVE FALSE
    BY DEF D
  <2>2. PICK m \in D : \A y \in D : m <= y
    <3>1. D \subseteq Nat
      BY DEF D
    <3> HIDE DEF D
    <3>2. QED
      BY <2>1, <3>1, Least
  <2>3. after[m] = F(after, m) /\ g[m] = F(g, m)
    <3> HIDE DEF F, g, after
    <3>1. QED
      BY <1>3, <1>5
  <2>4. m = 0 \/ after[m - 1] = g[m - 1]
    <3> HIDE DEF F, g, after
    <3>1. QED
      BY <2>2
  <2>5. F(after, m) = F(g, m)
    <3> HIDE DEF g, after
    <3>1. QED
      BY <2>4
  <2>6. QED
    BY <2>2, <2>3, <2>5
<1>8. upto(MaxActive) = 1..n
  BY <1>2
<1>9. g[MaxActive] = Members(c)
  <2>1. g[MaxActive] = {q[i] : i \in upto(MaxActive)}
    OBVIOUS
  <2> HIDE DEF g, upto
  <2>2. QED
    BY <1>1, <1>8, <2>1
<1>10. QED
  <2> HIDE DEF F, g, after
  <2>1. QED
    BY <1>6, <1>7, <1>9

(* A chain that a step leaves alone. *)
LEMMA ListKept ==
    ASSUME NEW c \in Chain, HasList(c), Members(c)' = Members(c), head'[c] = head[c],
           \A k \in Members(c) : next'[k] = next[k]
    PROVE  HasList(c)'
<1>1. PICK n \in Nat : \E q \in [1..n -> Slot] : Listed(c, n, q)
  BY DEF HasList
<1>2. PICK q \in [1..n -> Slot] : Listed(c, n, q)
  BY <1>1
<1>3. Members(c) = {q[i] : i \in 1..n}
  BY <1>2 DEF Listed
<1>4. \A i \in 1..n : next'[q[i]] = next[q[i]]
  BY <1>3
<1>5. Listed(c, n, q)'
  BY <1>2, <1>3, <1>4 DEF Listed
<1>6. QED
  BY <1>5 DEF HasList

(* A slot put in front of a chain. *)
LEMMA ListPush ==
    ASSUME NEW c \in Chain, HasList(c), NEW j \in Slot, j \notin Members(c),
           Members(c)' = Members(c) \cup {j}, head'[c] = j, next'[j] = head[c],
           \A k \in Members(c) : next'[k] = next[k]
    PROVE  HasList(c)'
<1>1. PICK n \in Nat : \E q \in [1..n -> Slot] : Listed(c, n, q)
  BY DEF HasList
<1>2. PICK q \in [1..n -> Slot] : Listed(c, n, q)
  BY <1>1
<1> DEFINE r == [i \in 1..n + 1 |-> IF i = 1 THEN j ELSE q[i - 1]]
<1>3. /\ Members(c) = {q[i] : i \in 1..n}
      /\ \A i, k \in 1..n : q[i] = q[k] => i = k
      /\ head[c] = IF n = 0 THEN 0 ELSE q[1]
      /\ \A i \in 1..n : next[q[i]] = IF i = n THEN 0 ELSE q[i + 1]
  BY <1>2 DEF Listed
<1>4. /\ r \in [1..n + 1 -> Slot] /\ r[1] = j
      /\ \A i \in 2..n + 1 : r[i] = q[i - 1] /\ i - 1 \in 1..n
      /\ \A i \in 1..n : r[i + 1] = q[i] /\ i + 1 \in 2..n + 1
  OBVIOUS
<1> HIDE DEF r
<1>5. {r[i] : i \in 1..n + 1} = Members(c) \cup {j}
  <2>1. ASSUME NEW k \in Members(c) PROVE k \in {r[i] : i \in 1..n + 1}
    <3>1. PICK i \in 1..n : k = q[i]
      BY <1>3
    <3>2. QED
      BY <1>4, <3>1
  <2>2. j \in {r[i] : i \in 1..n + 1}
    BY <1>4
  <2>3. ASSUME NEW i \in 1..n + 1 PROVE r[i] \in Members(c) \cup {j}
    <3>1. i = 1 \/ i \in 2..n + 1
      OBVIOUS
    <3>2. CASE i = 1
      BY <1>4, <3>2
    <3>3. CASE i \in 2..n + 1
      BY <1>3, <1>4, <3>3
    <3>4. QED
      BY <3>1, <3>2, <3>3
  <2>4. QED
    BY <2>1, <2>2, <2>3
<1>6. ASSUME NEW i \in 1..n + 1, NEW k \in 1..n + 1, r[i] = r[k] PROVE i = k
  <2>1. \A m \in 2..n + 1 : r[m] # j
    BY <1>3, <1>4
  <2>2. CASE i = 1 \/ k = 1
    BY <1>4, <1>6, <2>1, <2>2
  <2>3. CASE i # 1 /\ k # 1
    <3>1. i - 1 \in 1..n /\ k - 1 \in 1..n /\ q[i - 1] = q[k - 1]
      BY <1>4, <1>6, <2>3
    <3>2. QED
      BY <1>3, <3>1
  <2>4. QED
    BY <2>2, <2>3
<1>7. ASSUME NEW i \in 1..n + 1 PROVE next'[r[i]] = IF i = n + 1 THEN 0 ELSE r[i + 1]
  <2>1. CASE i = 1
    <3>1. next'[r[i]] = IF n = 0 THEN 0 ELSE q[1]
      BY <1>3, <1>4, <2>1
    <3>2. n # 0 => r[i + 1] = q[1]
      BY <1>4, <2>1
    <3>3. QED
      BY <2>1, <3>1, <3>2
  <2>2. CASE i # 1
    <3>1. r[i] = q[i - 1] /\ i - 1 \in 1..n /\ q[i - 1] \in Members(c)
      BY <1>3, <1>4, <2>2
    <3>2. next'[r[i]] = next[q[i - 1]]
      BY <3>1
    <3>3. next[q[i - 1]] = IF i - 1 = n THEN 0 ELSE q[(i - 1) + 1]
      BY <1>3, <3>1
    <3>4. CASE i = n + 1
      BY <3>2, <3>3, <3>4
    <3>5. CASE i # n + 1
      <4>1. r[i + 1] = q[i] /\ i - 1 # n /\ (i - 1) + 1 = i
        BY <1>4, <3>5
      <4>2. QED
        BY <3>2, <3>3, <3>5, <4>1
    <3>6. QED
      BY <3>4, <3>5
  <2>3. QED
    BY <2>1, <2>2
<1>8. Listed(c, n + 1, r)'
  BY <1>4, <1>5, <1>6, <1>7 DEF Listed
<1>9. n + 1 \in Nat
  OBVIOUS
<1>10. QED
  BY <1>4, <1>8, <1>9 DEF HasList

(* A slot taken out of a chain, at its head or behind another one. *)
LEMMA ListCut ==
    ASSUME NEW c \in Chain, HasList(c), NEW j \in Members(c),
           Members(c)' = Members(c) \ {j},
           head'[c] = IF head[c] = j THEN next[j] ELSE head[c],
           \A k \in Members(c) \ {j} :
               next'[k] = IF next[k] = j /\ head[c] # j THEN next[j] ELSE next[k]
    PROVE  HasList(c)'
<1>1. PICK n \in Nat : \E q \in [1..n -> Slot] : Listed(c, n, q)
  BY DEF HasList
<1>2. PICK q \in [1..n -> Slot] : Listed(c, n, q)
  BY <1>1
<1>3. /\ Members(c) = {q[i] : i \in 1..n}
      /\ \A i, k \in 1..n : q[i] = q[k] => i = k
      /\ head[c] = IF n = 0 THEN 0 ELSE q[1]
      /\ \A i \in 1..n : next[q[i]] = IF i = n THEN 0 ELSE q[i + 1]
  BY <1>2 DEF Listed
<1>4. PICK m \in 1..n : j = q[m]
  BY <1>3
<1> DEFINE r == [i \in 1..n - 1 |-> IF i < m THEN q[i] ELSE q[i + 1]]
<1>5. /\ n - 1 \in Nat /\ r \in [1..n - 1 -> Slot]
      /\ \A i \in 1..n - 1 : r[i] = IF i < m THEN q[i] ELSE q[i + 1]
  BY <1>4
<1> HIDE DEF r
<1>6. \A i \in 1..n : q[i] # 0 /\ q[i] \in Slot
  BY SlotFacts
<1>7. {r[i] : i \in 1..n - 1} = Members(c) \ {j}
  <2>1. ASSUME NEW k \in Members(c) \ {j} PROVE k \in {r[i] : i \in 1..n - 1}
    <3>1. PICK i \in 1..n : k = q[i] /\ i # m
      BY <1>3, <1>4
    <3>2. CASE i < m
      BY <1>5, <3>1, <3>2
    <3>3. CASE i > m
      <4>1. i - 1 \in 1..n - 1 /\ r[i - 1] = q[i]
        BY <1>5, <3>1, <3>3
      <4>2. QED
        BY <3>1, <4>1
    <3>4. QED
      BY <3>1, <3>2, <3>3
  <2>2. ASSUME NEW i \in 1..n - 1 PROVE r[i] \in Members(c) \ {j}
    <3>1. PICK k \in 1..n : r[i] = q[k] /\ k # m
      <4>1. i \in 1..n /\ i + 1 \in 1..n /\ i + 1 # i
        OBVIOUS
      <4>2. CASE i < m
        BY <1>5, <4>1, <4>2
      <4>3. CASE i >= m
        <5>1. r[i] = q[i + 1] /\ i + 1 # m
          BY <1>5, <4>3
        <5>2. QED
          BY <4>1, <5>1
      <4>4. QED
        BY <4>2, <4>3
    <3>2. q[k] # q[m] /\ q[k] \in Members(c)
      BY <1>3, <3>1
    <3>3. QED
      BY <1>4, <3>1, <3>2
  <2>3. ASSUME NEW k \in {r[i] : i \in 1..n - 1} PROVE k \in Members(c) \ {j}
    BY <2>2
  <2>4. QED
    BY <2>1, <2>3
<1>8. ASSUME NEW i \in 1..n - 1, NEW k \in 1..n - 1, r[i] = r[k] PROVE i = k
  <2> DEFINE a == IF i < m THEN i ELSE i + 1
             b == IF k < m THEN k ELSE k + 1
  <2>1. a \in 1..n /\ b \in 1..n
    OBVIOUS
  <2>2. r[i] = q[a] /\ r[k] = q[b]
    BY <1>5
  <2> HIDE DEF a, b
  <2>3. q[a] = q[b]
    BY <1>8, <2>2
  <2>4. a = b
    BY <1>3, <2>1, <2>3
  <2>5. QED
    BY <2>4 DEF a, b
<1>9. head'[c] = IF n - 1 = 0 THEN 0 ELSE r[1]
  <2>1. CASE m = 1
    BY <1>3, <1>4, <1>5, <2>1
  <2>2. CASE m # 1
    BY <1>3, <1>4, <1>5, <2>2
  <2>3. QED
    BY <2>1, <2>2
<1>10. ASSUME NEW i \in 1..n - 1 PROVE next'[r[i]] = IF i = n - 1 THEN 0 ELSE r[i + 1]
  <2>1. r[i] \in Members(c) \ {j}
    BY <1>7
  <2>2. next'[r[i]] = IF next[r[i]] = j /\ head[c] # j THEN next[j] ELSE next[r[i]]
    BY <2>1
  <2>3. CASE i < m - 1
    <3>1. i \in 1..n /\ i + 1 \in 1..n - 1 /\ i + 1 \in 1..n /\ i # n /\ i < m /\ i + 1 < m
      BY <2>3
    <3>2. r[i] = q[i] /\ r[i + 1] = q[i + 1]
      BY <1>5, <3>1
    <3>3. q[i + 1] # j
      BY <1>3, <1>4, <3>1
    <3>4. next[q[i]] = q[i + 1]
      BY <1>3, <3>1
    <3>5. QED
      BY <2>2, <3>1, <3>2, <3>3, <3>4
  <2>4. CASE i = m - 1
    <3>1. r[i] = q[i] /\ next[r[i]] = j /\ head[c] # j
      <4>1. i \in 1..n /\ i # n /\ i + 1 = m /\ i < m /\ 1 \in 1..n /\ m # 1 /\ n # 0
        BY <2>4
      <4>2. next[q[i]] = q[m] /\ r[i] = q[i]
        BY <1>3, <1>5, <4>1
      <4>3. head[c] = q[1] /\ q[1] # q[m]
        BY <1>3, <4>1
      <4>4. QED
        BY <1>4, <4>2, <4>3
    <3>2. next'[r[i]] = IF m = n THEN 0 ELSE q[m + 1]
      BY <1>3, <1>4, <2>2, <3>1
    <3>3. QED
      BY <1>5, <2>4, <3>2
  <2>5. CASE i >= m
    <3>1. i + 1 \in 1..n /\ (i + 1) + 1 = i + 2
      BY <2>5
    <3>2. r[i] = q[i + 1]
      BY <1>5, <2>5
    <3>3. next[q[i + 1]] = IF i + 1 = n THEN 0 ELSE q[i + 2]
      BY <1>3, <3>1
    <3>4. CASE i + 1 = n
      <4>1. next[r[i]] = 0 /\ j # 0
        BY <1>4, <1>6, <3>2, <3>3, <3>4
      <4>2. QED
        BY <2>2, <3>4, <4>1
    <3>5. CASE i + 1 # n
      <4>1. i + 2 \in 1..n /\ i + 1 \in 1..n - 1 /\ i + 2 # m /\ (i + 1) + 1 = i + 2
        BY <2>5, <3>5
      <4>2. q[i + 2] # j
        BY <1>3, <1>4, <4>1
      <4>3. r[i + 1] = q[i + 2]
        BY <1>5, <2>5, <4>1
      <4>4. QED
        BY <2>2, <3>2, <3>3, <3>5, <4>2, <4>3
    <3>6. QED
      BY <3>4, <3>5
  <2>6. i < m - 1 \/ i = m - 1 \/ i >= m
    OBVIOUS
  <2>7. QED
    BY <2>3, <2>4, <2>5, <2>6
<1>11. Listed(c, n - 1, r)'
  BY <1>5, <1>7, <1>8, <1>9, <1>10 DEF Listed
<1>12. QED
  BY <1>5, <1>11 DEF HasList

-----------------------------------------------------------------------------
(***************************************************************************)
(* Initially.                                                              *)
(***************************************************************************)
LEMMA SlotsFinite == IsFiniteSet(Slot) /\ \A S \in SUBSET Slot : IsFiniteSet(S)
<1>1. IsFiniteSet(Slot)
  BY FS_Interval DEF Slot
<1>2. QED
  BY <1>1, FS_Subset

LEMMA ChainFacts == /\ Chain \subseteq Nat /\ 0 \in Chain
                    /\ \A h \in Hosts : IpHash[h] \in Chain /\ IpHash[h] # 0
<1>1. \A h \in Hosts : IpHash[h] \in Nat \ {0}
  OBVIOUS
<1>2. QED
  BY <1>1 DEF Chain

LEMMA UnusedFacts == /\ ~Unused.active /\ Unused.pid = Nobody /\ Unused.uid = Nobody
                     /\ ~WebGuest(Unused) /\ Unused.age = 0
  BY DEF Unused, WebGuest

LEMMA InitInv == Init => IInv
<1> SUFFICES ASSUME Init PROVE IInv
  OBVIOUS
<1>1. NoHost \in Hosts
  BY DEF NoHost
<1>2. \A k \in Slot : uinfo[k] = Unused
  BY DEF Init
<1>3. \A c \in Chain : Members(c) = IF c = 0 THEN Slot ELSE {}
  BY <1>2, UnusedFacts DEF Members
<1>4. TypeOK
  <2>1. uinfo \in [Slot -> Session \cup {Unused}]
    BY DEF Init
  <2>2. /\ head \in [Chain -> 0..MaxActive] /\ next \in [Slot -> 0..MaxActive]
        /\ uindex \in [Users -> [Entry -> 0..MaxActive]]
        /\ activeuser \in 0..MaxActive /\ wwwguestnum \in Nat
    BY DEF Init, Slot
  <2>3. peak \in [today : Nat, ever : Nat, file : Nat]
    BY DEF Init
  <2>4. /\ sweep \in [by : Telnet \cup {WWW, Nobody}, at : 0..MaxActive + 1]
        /\ proc \in [Telnet -> Process] /\ req \in [Requests -> Request]
    BY DEF Init, NoSweep, NoProc, NoReq, Process, Request
  <2>5. clear = NoClear /\ harm = {}
    BY DEF Init
  <2>6. QED
    BY <2>1, <2>2, <2>3, <2>4, <2>5 DEF TypeOK
<1>5. ProcInv
  BY DEF Init, ProcInv, NoProc, NoSweep, InTable
<1>6. OwnInv /\ ReqInv
  BY Zenon DEF Init, OwnInv, ReqInv, NoProc, NoReq
<1>7. HighInv
  BY <1>2, UnusedFacts DEF Init, HighInv
<1>8. ListInv
  <2>1. HasList(0)
    <3> DEFINE q == [i \in 1..MaxActive |-> i]
    <3>1. Listed(0, MaxActive, q)
      <4>1. head[0] = 1 /\ \A k \in Slot : next[k] = IF k = MaxActive THEN 0 ELSE k + 1
        BY ChainFacts DEF Init
      <4>2. Members(0) = {q[i] : i \in 1..MaxActive}
        BY <1>3, ChainFacts DEF Slot
      <4>3. QED
        BY <4>1, <4>2 DEF Listed, Slot
    <3>2. q \in [1..MaxActive -> Slot]
      BY DEF Slot
    <3>3. QED
      BY <3>1, <3>2 DEF HasList
  <2>2. ASSUME NEW c \in Chain, c # 0 PROVE HasList(c)
    <3> DEFINE q == [i \in 1..0 |-> 0]
    <3>1. Members(c) = {} /\ head[c] = 0
      BY <1>3, <2>2 DEF Init
    <3>2. Listed(c, 0, q)
      BY <3>1 DEF Listed
    <3>3. q \in [1..0 -> Slot] /\ 0 \in Nat
      OBVIOUS
    <3>4. QED
      BY <3>2, <3>3 DEF HasList
  <2>3. QED
    BY <2>1, <2>2 DEF ListInv
<1>9. CountInv
  <2>1. Actives = {} /\ Guests = {}
    BY <1>2, UnusedFacts DEF Actives, Guests
  <2>2. Cardinality({}) = 0
    BY FS_EmptySet
  <2>3. QED
    BY <2>1, <2>2 DEF CountInv, Init
<1>10. IndexLeadsHome
  BY DEF Init, IndexLeadsHome
<1>11. SessionsIndexed
  BY <1>2, UnusedFacts DEF SessionsIndexed, Live
<1>12. QED
  BY <1>4, <1>5, <1>6, <1>7, <1>8, <1>9, <1>10, <1>11 DEF IInv

-----------------------------------------------------------------------------
(***************************************************************************)
(* Chains, counters and high slots, for the ways a step can change them.   *)
(***************************************************************************)
TableInv == HighInv /\ ListInv /\ CountInv

SameSession(k) == /\ uinfo'[k].active <=> uinfo[k].active
                  /\ uinfo'[k].pid = uinfo[k].pid /\ uinfo'[k].uid = uinfo[k].uid
                  /\ uinfo'[k].host = uinfo[k].host

(* No session begins or ends. *)
Steady == /\ \A k \in Slot : SameSession(k)
          /\ UNCHANGED <<head, next, activeuser, wwwguestnum, peak>>
          /\ harm \subseteq harm'

LEMMA SteadyTable == ASSUME IInv, Steady PROVE TableInv'
<1>1. \A k \in Slot : WebGuest(uinfo'[k]) <=> WebGuest(uinfo[k])
  BY Zenon DEF Steady, SameSession, WebGuest
<1>2. Actives' = Actives /\ Guests' = Guests
  BY <1>1 DEF Steady, SameSession, Actives, Guests
<1>3. \A c \in Chain : Members(c)' = Members(c)
  BY <1>1 DEF Steady, SameSession, Members
<1>4. HighInv'
  BY DEF IInv, HighInv, Steady, SameSession
<1>5. CountInv'
  BY <1>2 DEF IInv, CountInv, Steady
<1>6. ListInv'
  <2>1. SUFFICES ASSUME "logout" \notin harm', NEW c \in Chain PROVE HasList(c)'
    BY DEF ListInv
  <2>2. HasList(c)
    BY <2>1 DEF IInv, ListInv, Steady
  <2>3. head'[c] = head[c] /\ \A k \in Members(c) : next'[k] = next[k]
    BY DEF Steady
  <2>4. QED
    BY <1>3, <2>2, <2>3, ListKept
<1>7. QED
  BY <1>4, <1>5, <1>6 DEF TableInv

(* What a login does to the table; up is the new session. *)
Logs(up) ==
    LET j == head[0]
        c == IpHash[up.host]
    IN
    /\ CanLogin /\ up \in Session /\ up.age = 0
    /\ uinfo' = [uinfo EXCEPT ![j] = up]
    /\ activeuser' = activeuser + 1
    /\ peak' = update_max_online(activeuser + 1)
    /\ IF WebGuest(up)
         THEN /\ head' = [head EXCEPT ![0] = next[j], ![c] = j]
              /\ next' = [next EXCEPT ![j] = head[c]]
              /\ wwwguestnum' = wwwguestnum + 1
         ELSE /\ head' = [head EXCEPT ![0] = next[j]]
              /\ next' = [next EXCEPT ![j] = 0]
              /\ UNCHANGED wwwguestnum
    /\ harm \subseteq harm'

LEMMA LoginFacts ==
    ASSUME IInv, NEW up, Logs(up)
    PROVE  /\ head[0] \in Slot /\ head[0] <= MaxActiveRun /\ ~uinfo[head[0]].active
           /\ uinfo'[head[0]] = up /\ \A k \in Slot : k # head[0] => uinfo'[k] = uinfo[k]
           /\ \A k \in Slot : k # head[0] => next'[k] = next[k]
           /\ up \in Session /\ up.active /\ up.host \in Hosts
<1>1. head[0] \in Slot /\ head[0] <= MaxActiveRun /\ ~uinfo[head[0]].active
  BY DEF Logs, CanLogin, Slot
<1>2. uinfo'[head[0]] = up /\ \A k \in Slot : k # head[0] => uinfo'[k] = uinfo[k]
  BY <1>1 DEF Logs, IInv, TypeOK
<1>3. \A k \in Slot : k # head[0] => next'[k] = next[k]
  BY <1>1 DEF Logs, IInv, TypeOK
<1>4. up \in Session /\ up.active /\ up.host \in Hosts
  BY DEF Logs, Session
<1>5. QED
  BY <1>1, <1>2, <1>3, <1>4

LEMMA LoginHigh == ASSUME IInv, NEW up, Logs(up) PROVE HighInv'
<1>1. \A k \in Slot : k > MaxActiveRun => k # head[0] /\ uinfo'[k] = uinfo[k] /\ next'[k] = next[k]
  BY LoginFacts, SlotFacts
<1>2. QED
  BY <1>1 DEF IInv, HighInv

LEMMA LoginList == ASSUME IInv, NEW up, Logs(up) PROVE ListInv'
<1> DEFINE j == head[0]
<1> SUFFICES ASSUME "logout" \notin harm', NEW c \in Chain PROVE HasList(c)'
  BY DEF ListInv
<1>1. HasList(c) /\ HasList(0)
  BY ChainFacts DEF IInv, ListInv, Logs
<1>2. /\ j \in Slot /\ ~uinfo[j].active /\ uinfo'[j] = up
      /\ \A k \in Slot : k # j => uinfo'[k] = uinfo[k] /\ next'[k] = next[k]
      /\ up.active /\ up.host \in Hosts
  BY LoginFacts
<1>3. ~WebGuest(uinfo[j]) /\ (WebGuest(uinfo'[j]) <=> WebGuest(up))
  BY <1>2 DEF WebGuest
<1>4. head \in [Chain -> 0..MaxActive] /\ next \in [Slot -> 0..MaxActive]
  BY DEF IInv, TypeOK
<1> HIDE DEF j
<1>5. CASE c = 0
  <2>1. Members(0) = {k \in Slot : ~uinfo[k].active} /\ Members(0)' = {k \in Slot : ~uinfo'[k].active}
    BY DEF Members
  <2>2. j \in Members(0) /\ Members(0)' = Members(0) \ {j}
    BY <1>2, <2>1
  <2>3. head'[0] = next[j] /\ head[0] = j
    BY <1>2, <1>4, ChainFacts DEF Logs, j
  <2>4. \A k \in Members(0) \ {j} : k \in Slot /\ next'[k] = next[k]
    BY <1>2, <2>1
  <2>5. HasList(0)'
    BY <1>1, <2>2, <2>3, <2>4, ChainFacts, ListCut
  <2>6. QED
    BY <1>5, <2>5
<1>6. CASE c # 0 /\ WebGuest(up) /\ c = IpHash[up.host]
  <2>1. /\ Members(c) = {k \in Slot : WebGuest(uinfo[k]) /\ IpHash[uinfo[k].host] = c}
        /\ Members(c)' = {k \in Slot : WebGuest(uinfo'[k]) /\ IpHash[uinfo'[k].host] = c}
    BY <1>6 DEF Members
  <2>2. j \notin Members(c) /\ Members(c)' = Members(c) \cup {j}
    BY <1>2, <1>3, <1>6, <2>1
  <2>3. head'[c] = j /\ next'[j] = head[c]
    BY <1>2, <1>4, <1>6, ChainFacts DEF Logs, j
  <2>4. \A k \in Members(c) : next'[k] = next[k]
    BY <1>2, <2>1, <2>2
  <2>5. QED
    BY <1>1, <1>2, <2>2, <2>3, <2>4, ListPush
<1>7. CASE c # 0 /\ ~(WebGuest(up) /\ c = IpHash[up.host])
  <2>1. /\ Members(c) = {k \in Slot : WebGuest(uinfo[k]) /\ IpHash[uinfo[k].host] = c}
        /\ Members(c)' = {k \in Slot : WebGuest(uinfo'[k]) /\ IpHash[uinfo'[k].host] = c}
    BY <1>7 DEF Members
  <2>2. j \notin Members(c) /\ Members(c)' = Members(c)
    BY <1>2, <1>3, <1>7, <2>1
  <2>3. head'[c] = head[c]
    BY <1>2, <1>4, <1>7, ChainFacts DEF Logs, j
  <2>4. \A k \in Members(c) : next'[k] = next[k]
    BY <1>2, <2>1, <2>2
  <2>5. QED
    BY <1>1, <2>2, <2>3, <2>4, ListKept
<1>8. QED
  BY <1>5, <1>6, <1>7

LEMMA LoginCount == ASSUME IInv, NEW up, Logs(up) PROVE CountInv'
<1> DEFINE j == head[0]
<1>1. /\ j \in Slot /\ ~uinfo[j].active /\ uinfo'[j] = up
      /\ \A k \in Slot : k # j => uinfo'[k] = uinfo[k]
      /\ up.active
  BY LoginFacts
<1> HIDE DEF j
<1>2. ~WebGuest(uinfo[j]) /\ (WebGuest(uinfo'[j]) <=> WebGuest(up))
  BY <1>1 DEF WebGuest
<1>3. Actives' = Actives \cup {j} /\ j \notin Actives
  BY <1>1 DEF Actives
<1>4. Guests' = (IF WebGuest(up) THEN Guests \cup {j} ELSE Guests) /\ j \notin Guests
  BY <1>1, <1>2 DEF Guests
<1>5. IsFiniteSet(Actives) /\ IsFiniteSet(Guests)
  BY SlotsFinite DEF Actives, Guests
<1>6. Cardinality(Actives \cup {j}) = Cardinality(Actives) + 1 /\ Cardinality(Actives) \in Nat
  BY <1>3, <1>5, FS_AddElement, FS_CardinalityType
<1>7. Cardinality(Guests \cup {j}) = Cardinality(Guests) + 1 /\ Cardinality(Guests) \in Nat
  BY <1>4, <1>5, FS_AddElement, FS_CardinalityType
<1>8. activeuser' = Cardinality(Actives')
  BY <1>3, <1>6 DEF Logs, IInv, CountInv
<1>9. Cardinality(Guests') <= wwwguestnum' /\ ("logout" \notin harm' => wwwguestnum' = Cardinality(Guests'))
  BY <1>4, <1>7 DEF Logs, IInv, CountInv, TypeOK
<1>10. activeuser' <= peak'.file /\ peak'.today <= peak'.file
  <2>1. /\ activeuser \in Nat /\ peak.today \in Nat /\ peak.ever \in Nat /\ peak.file \in Nat
        /\ activeuser <= peak.file /\ peak.today <= peak.file
    BY DEF IInv, CountInv, TypeOK
  <2>2. activeuser' = activeuser + 1 /\ peak' = update_max_online(activeuser + 1)
    BY DEF Logs
  <2>3. QED
    BY <2>1, <2>2 DEF update_max_online
<1>11. QED
  BY <1>8, <1>9, <1>10 DEF CountInv

LEMMA LoginTable == ASSUME IInv, NEW up, Logs(up) PROVE TableInv'
  BY LoginHigh, LoginList, LoginCount DEF TableInv

(* A slot put back by utmp_logout, or by the sweep when it is no guest's;  *)
(* only a logout of somebody else's slot does that to a web guest.         *)
Frees(k) ==
    /\ k \in Slot /\ uinfo[k].active
    /\ Release(k, head, next)
    /\ UNCHANGED <<wwwguestnum, peak>>
    /\ harm \subseteq harm'
    /\ WebGuest(uinfo[k]) => "logout" \in harm'

(* A web guest's slot put back by the sweep. *)
FreesGuest(k) ==
    LET c == IpHash[uinfo[k].host] IN
    /\ k \in Slot /\ WebGuest(uinfo[k])
    /\ \/ /\ head[c] = k
          /\ Release(k, [head EXCEPT ![c] = next[k]], next)
       \/ /\ head[c] # k
          /\ Release(k, head, [i \in Slot |->
                IF i \in Reach(c) /\ next[i] = k THEN next[k] ELSE next[i]])
    /\ wwwguestnum' = wwwguestnum - 1
    /\ UNCHANGED <<peak, harm>>

(* What both have in common. *)
Ends(k) == /\ k \in Slot /\ uinfo[k].active /\ uinfo[k] \in Session
           /\ uinfo'[k] = Unused /\ \A i \in Slot : i # k => uinfo'[i] = uinfo[i]
           /\ activeuser' = activeuser - 1 /\ UNCHANGED peak
           /\ harm \subseteq harm' /\ uindex' = remove_uindex(uinfo[k].uid, k)

LEMMA SessionFacts ==
    ASSUME TypeOK, NEW k \in Slot
    PROVE  /\ uinfo[k] \in Session \cup {Unused}
           /\ uinfo[k].active => uinfo[k] \in Session
           /\ ~uinfo[k].active => uinfo[k] = Unused
<1>1. uinfo[k] \in Session \cup {Unused}
  BY DEF TypeOK
<1>2. \A r \in Session : r.active
  BY DEF Session
<1>3. QED
  BY <1>1, <1>2, UnusedFacts

LEMMA FreesEnds == ASSUME IInv, NEW k, Frees(k) \/ FreesGuest(k) PROVE Ends(k)
<1>1. k \in Slot /\ uinfo[k].active /\ harm \subseteq harm' /\ UNCHANGED peak
  BY DEF Frees, FreesGuest, WebGuest
<1>2. /\ uinfo' = [uinfo EXCEPT ![k] = Unused] /\ activeuser' = activeuser - 1
      /\ uindex' = remove_uindex(uinfo[k].uid, k)
  BY DEF Frees, FreesGuest, Release
<1>3. uinfo'[k] = Unused /\ \A i \in Slot : i # k => uinfo'[i] = uinfo[i]
  BY <1>1, <1>2 DEF IInv, TypeOK
<1>4. uinfo[k] \in Session
  BY <1>1, SessionFacts DEF IInv
<1>5. QED
  BY <1>1, <1>2, <1>3, <1>4 DEF Ends

LEMMA LowSlot == ASSUME IInv, NEW k \in Slot, uinfo[k].active PROVE k <= MaxActiveRun
  BY SlotFacts DEF IInv, HighInv

(* The links a freed slot leaves. *)
LEMMA FreesNext ==
    ASSUME IInv, NEW k, Frees(k)
    PROVE  /\ next'[k] = head[0] /\ head'[0] = k
           /\ \A i \in Slot : i # k => next'[i] = next[i]
           /\ \A c \in Chain : c # 0 => head'[c] = head[c]
<1>1. /\ k \in Slot /\ head \in [Chain -> 0..MaxActive] /\ next \in [Slot -> 0..MaxActive]
      /\ next' = [next EXCEPT ![k] = head[0]] /\ head' = [head EXCEPT ![0] = k]
  BY DEF Frees, Release, IInv, TypeOK
<1>2. QED
  BY <1>1, ChainFacts

LEMMA FreesGuestNext ==
    ASSUME IInv, NEW k, FreesGuest(k), NEW c, c = IpHash[uinfo[k].host]
    PROVE  /\ c \in Chain /\ c # 0
           /\ next'[k] = head[0] /\ head'[0] = k
           /\ head'[c] = IF head[c] = k THEN next[k] ELSE head[c]
           /\ \A i \in Slot : i # k => next'[i] =
                  IF i \in Reach(c) /\ next[i] = k /\ head[c] # k THEN next[k] ELSE next[i]
           /\ \A d \in Chain : d # 0 /\ d # c => head'[d] = head[d]
<1>1. k \in Slot /\ uinfo[k].active
  BY DEF FreesGuest, WebGuest
<1>2. c \in Chain /\ c # 0
  <2>1. uinfo[k] \in Session
    BY <1>1, SessionFacts DEF IInv
  <2>2. uinfo[k].host \in Hosts
    BY <2>1 DEF Session
  <2>3. QED
    BY <2>2, ChainFacts
<1>3. head \in [Chain -> 0..MaxActive] /\ next \in [Slot -> 0..MaxActive]
  BY DEF IInv, TypeOK
<1>4. CASE head[c] = k
  <2>1. /\ head' = [[head EXCEPT ![c] = next[k]] EXCEPT ![0] = k]
        /\ next' = [next EXCEPT ![k] = [head EXCEPT ![c] = next[k]][0]]
    BY <1>4 DEF FreesGuest, Release
  <2>2. [head EXCEPT ![c] = next[k]][0] = head[0]
    BY <1>2, <1>3, ChainFacts
  <2>3. QED
    BY <1>1, <1>2, <1>3, <1>4, <2>1, <2>2, ChainFacts
<1>5. CASE head[c] # k
  <2> DEFINE nx == [i \in Slot |->
                IF i \in Reach(c) /\ next[i] = k THEN next[k] ELSE next[i]]
  <2>1. head' = [head EXCEPT ![0] = k] /\ next' = [nx EXCEPT ![k] = head[0]]
    BY <1>5 DEF FreesGuest, Release
  <2>2. /\ DOMAIN nx = Slot
        /\ \A i \in Slot : nx[i] = IF i \in Reach(c) /\ next[i] = k THEN next[k] ELSE next[i]
    OBVIOUS
  <2> HIDE DEF nx
  <2>3. next'[k] = head[0] /\ \A i \in Slot : i # k => next'[i] = nx[i]
    BY <1>1, <2>1, <2>2
  <2>4. head'[0] = k /\ \A d \in Chain : d # 0 => head'[d] = head[d]
    BY <1>3, <2>1, ChainFacts
  <2>5. QED
    BY <1>2, <1>5, <2>2, <2>3, <2>4
<1>6. QED
  BY <1>4, <1>5

LEMMA FreesHigh == ASSUME IInv, NEW k, Frees(k) \/ FreesGuest(k) PROVE HighInv'
<1>1. Ends(k) /\ k <= MaxActiveRun
  BY FreesEnds, LowSlot DEF Ends
<1>2. ASSUME NEW i \in Slot, i > MaxActiveRun PROVE i # k /\ next'[i] = next[i]
  <2>1. i # k /\ next[i] # k
    BY <1>1, <1>2, SlotFacts DEF IInv, HighInv, Ends
  <2>2. CASE Frees(k)
    BY <2>1, <2>2, FreesNext
  <2>3. CASE FreesGuest(k)
    BY <2>1, <2>3, FreesGuestNext
  <2>4. QED
    BY <2>1, <2>2, <2>3
<1>3. ASSUME NEW i \in Slot, i > MaxActiveRun
      PROVE ~uinfo'[i].active /\ next'[i] = IF i = MaxActive THEN 0 ELSE i + 1
  BY <1>1, <1>2, <1>3 DEF IInv, HighInv, Ends
<1>4. QED
  BY <1>3 DEF HighInv

LEMMA FreesCount == ASSUME IInv, NEW k, Frees(k) \/ FreesGuest(k) PROVE CountInv' /\ wwwguestnum' \in Nat
<1>1. Ends(k)
  BY FreesEnds
<1>2. Actives' = Actives \ {k} /\ k \in Actives
  BY <1>1, UnusedFacts DEF Actives, Ends
<1>3. Guests' = Guests \ {k}
  BY <1>1, UnusedFacts DEF Guests, Ends
<1>4. IsFiniteSet(Actives) /\ IsFiniteSet(Guests)
  BY SlotsFinite DEF Actives, Guests
<1>5. Cardinality(Actives \ {k}) = Cardinality(Actives) - 1 /\ Cardinality(Actives) \in Nat
  BY <1>2, <1>4, FS_RemoveElement, FS_CardinalityType
<1>6. /\ Cardinality(Guests) \in Nat
      /\ k \in Guests => Cardinality(Guests \ {k}) = Cardinality(Guests) - 1
      /\ k \notin Guests => Guests \ {k} = Guests
      /\ Cardinality(Guests \ {k}) \in Nat
  <2>1. IsFiniteSet(Guests \ {k})
    BY <1>4, FS_Difference
  <2>2. QED
    BY <1>4, <2>1, FS_RemoveElement, FS_CardinalityType
<1>7. WebGuest(uinfo[k]) <=> k \in Guests
  BY <1>1 DEF Guests, Ends
<1>8. activeuser' = Cardinality(Actives')
  BY <1>1, <1>2, <1>5 DEF IInv, CountInv, Ends
<1>9. activeuser' <= peak'.file /\ peak'.today <= peak'.file
  BY <1>1, <1>8, <1>2, <1>5 DEF IInv, CountInv, Ends, TypeOK
<1>10. /\ Cardinality(Guests') <= wwwguestnum' /\ wwwguestnum' \in Nat
       /\ "logout" \notin harm' => wwwguestnum' = Cardinality(Guests')
  <2>1. /\ wwwguestnum \in Nat /\ Cardinality(Guests) <= wwwguestnum
        /\ "logout" \notin harm => wwwguestnum = Cardinality(Guests)
    BY DEF IInv, TypeOK, CountInv
  <2>2. "logout" \notin harm' => "logout" \notin harm
    BY <1>1 DEF Ends
  <2>3. CASE Frees(k)
    <3>1. wwwguestnum' = wwwguestnum /\ (k \in Guests => "logout" \in harm')
      BY <1>7, <2>3 DEF Frees
    <3>2. QED
      BY <1>3, <1>6, <2>1, <2>2, <3>1
  <2>4. CASE FreesGuest(k)
    <3>1. wwwguestnum' = wwwguestnum - 1 /\ k \in Guests
      BY <1>7, <2>4 DEF FreesGuest
    <3>2. QED
      BY <1>3, <1>6, <2>1, <2>2, <3>1
  <2>5. QED
    BY <2>3, <2>4
<1>11. QED
  BY <1>8, <1>9, <1>10 DEF CountInv

(* A chain other than the list of the unused slots that k is not in. *)
LEMMA OtherChain ==
    ASSUME IInv, NEW k, Ends(k), NEW c \in Chain, c # 0, k \notin Members(c), HasList(c),
           head'[c] = head[c], \A i \in Members(c) : next'[i] = next[i]
    PROVE  HasList(c)'
<1>1. /\ Members(c) = {i \in Slot : WebGuest(uinfo[i]) /\ IpHash[uinfo[i].host] = c}
      /\ Members(c)' = {i \in Slot : WebGuest(uinfo'[i]) /\ IpHash[uinfo'[i].host] = c}
  BY DEF Members
<1>2. Members(c)' = Members(c)
  BY <1>1, UnusedFacts DEF Ends
<1>3. QED
  BY <1>2, ListKept

(* The list of the unused slots. *)
LEMMA FreedListed ==
    ASSUME IInv, NEW k, Ends(k), HasList(0), head'[0] = k, next'[k] = head[0],
           \A i \in Members(0) : next'[i] = next[i]
    PROVE  HasList(0)'
<1>1. Members(0) = {i \in Slot : ~uinfo[i].active} /\ Members(0)' = {i \in Slot : ~uinfo'[i].active}
  BY DEF Members
<1>2. k \in Slot /\ k \notin Members(0) /\ Members(0)' = Members(0) \cup {k}
  BY <1>1, UnusedFacts DEF Ends
<1>3. QED
  BY <1>2, ChainFacts, ListPush

LEMMA FreesList == ASSUME IInv, NEW k, Frees(k) \/ FreesGuest(k) PROVE ListInv'
<1> SUFFICES ASSUME "logout" \notin harm', NEW c \in Chain PROVE HasList(c)'
  BY DEF ListInv
<1>1. Ends(k)
  BY FreesEnds
<1>2. \A d \in Chain : HasList(d) 
  BY <1>1 DEF IInv, ListInv, Ends
<1>3. \A d \in Chain : d # 0 =>
          Members(d) = {i \in Slot : WebGuest(uinfo[i]) /\ IpHash[uinfo[i].host] = d}
  BY DEF Members
<1>4. Members(0) = {i \in Slot : ~uinfo[i].active}
  BY DEF Members
<1>5. CASE Frees(k)
  <2>1. /\ next'[k] = head[0] /\ head'[0] = k
        /\ \A i \in Slot : i # k => next'[i] = next[i]
        /\ \A d \in Chain : d # 0 => head'[d] = head[d]
    BY <1>5, FreesNext
  <2>2. CASE c = 0
    <3>1. \A i \in Members(0) : next'[i] = next[i]
      BY <1>1, <1>4, <2>1 DEF Ends
    <3>2. HasList(0)'
      BY <1>1, <1>2, <2>1, <3>1, ChainFacts, FreedListed
    <3>3. QED
      BY <2>2, <3>2
  <2>3. CASE c # 0
    <3>1. k \notin Members(c)
      BY <1>3, <1>5, <2>3 DEF Frees
    <3>2. \A i \in Members(c) : next'[i] = next[i]
      BY <1>3, <2>1, <2>3, <3>1
    <3>3. QED
      BY <1>1, <1>2, <2>1, <2>3, <3>1, <3>2, OtherChain
  <2>4. QED
    BY <2>2, <2>3
<1>6. CASE FreesGuest(k)
  <2>1. PICK d : d = IpHash[uinfo[k].host]
    OBVIOUS
  <2>2. /\ d \in Chain /\ d # 0
        /\ next'[k] = head[0] /\ head'[0] = k
        /\ head'[d] = IF head[d] = k THEN next[k] ELSE head[d]
        /\ \A i \in Slot : i # k => next'[i] =
               IF i \in Reach(d) /\ next[i] = k /\ head[d] # k THEN next[k] ELSE next[i]
        /\ \A e \in Chain : e # 0 /\ e # d => head'[e] = head[e]
    BY <1>6, <2>1, FreesGuestNext
  <2>3. Reach(d) = Members(d)
    <3>1. PICK n \in Nat : \E q \in [1..n -> Slot] : Listed(d, n, q)
      BY <1>2, <2>2 DEF HasList
    <3>2. PICK q \in [1..n -> Slot] : Listed(d, n, q)
      BY <3>1
    <3>3. QED
      BY <2>2, <3>2, ReachList DEF IInv
  <2>4. k \in Members(d)
    BY <1>3, <1>6, <2>1, <2>2 DEF FreesGuest
  <2>5. CASE c = 0
    <3>1. \A i \in Members(0) : i \in Slot /\ i # k /\ i \notin Members(d)
      BY <1>1, <1>3, <1>4, <2>2 DEF Ends, WebGuest
    <3>2. \A i \in Members(0) : next'[i] = next[i]
      BY <2>2, <2>3, <3>1
    <3>3. HasList(0)'
      BY <1>1, <1>2, <2>2, <3>2, ChainFacts, FreedListed
    <3>4. QED
      BY <2>5, <3>3
  <2>6. CASE c = d
    <3>1. Members(d)' = {i \in Slot : WebGuest(uinfo'[i]) /\ IpHash[uinfo'[i].host] = d}
      BY <2>2 DEF Members
    <3>2. Members(d)' = Members(d) \ {k}
      BY <1>1, <1>3, <2>2, <3>1, UnusedFacts DEF Ends
    <3>3. \A i \in Members(d) \ {k} :
              next'[i] = IF next[i] = k /\ head[d] # k THEN next[k] ELSE next[i]
      BY <1>3, <2>2, <2>3
    <3>4. HasList(d)'
      BY <1>2, <2>2, <2>4, <3>2, <3>3, ListCut
    <3>5. QED
      BY <2>6, <3>4
  <2>7. CASE c # 0 /\ c # d
    <3>1. \A i \in Members(c) : i \in Slot /\ i \notin Members(d)
      BY <1>3, <2>2, <2>7
    <3>2. k \notin Members(c) /\ \A i \in Members(c) : next'[i] = next[i]
      BY <2>2, <2>3, <2>4, <3>1
    <3>3. QED
      BY <1>1, <1>2, <2>2, <2>7, <3>2, OtherChain
  <2>8. QED
    BY <2>5, <2>6, <2>7
<1>7. QED
  BY <1>5, <1>6

LEMMA FreesTable == ASSUME IInv, NEW k, Frees(k) \/ FreesGuest(k) PROVE TableInv'
  BY FreesHigh, FreesList, FreesCount DEF TableInv

-----------------------------------------------------------------------------
(***************************************************************************)
(* The index.                                                              *)
(***************************************************************************)
Index == [Users -> [Entry -> 0..MaxActive]]
IndexInv == IndexLeadsHome /\ SessionsIndexed

LEMMA ClearedFacts ==
    ASSUME TypeOK, NEW u \in Users
    PROVE  /\ Cleared(u) \in Index
           /\ \A v \in Users : \A i \in Entry :
                 \/ Cleared(u)[v][i] = uindex[v][i]
                 \/ /\ Cleared(u)[v][i] = 0 /\ uindex[v][i] # 0
                    /\ Dead(uinfo[uindex[v][i]])
<1> DEFINE f == [i \in Entry |-> IF i \in Counted(u) THEN uindex[u][i] ELSE 0]
<1>1. Cleared(u) = [uindex EXCEPT ![u] = f]
  BY DEF Cleared
<1>2. \A v \in Users : uindex[v] \in [Entry -> 0..MaxActive]
  BY DEF TypeOK
<1>3. f \in [Entry -> 0..MaxActive] /\ \A i \in Entry : f[i] = IF i \in Counted(u) THEN uindex[u][i] ELSE 0
  BY <1>2
<1> HIDE DEF f
<1>4. Cleared(u) \in Index
  BY <1>1, <1>3 DEF TypeOK, Index
<1>5. \A v \in Users : Cleared(u)[v] = IF v = u THEN f ELSE uindex[v]
  BY <1>1 DEF TypeOK
<1>6. ASSUME NEW i \in Entry
      PROVE  \/ f[i] = uindex[u][i]
             \/ f[i] = 0 /\ uindex[u][i] # 0 /\ Dead(uinfo[uindex[u][i]])
  <2>1. i \in Counted(u) <=> uindex[u][i] # 0 /\ ~Dead(uinfo[uindex[u][i]])
    BY DEF Counted
  <2>2. f[i] = IF i \in Counted(u) THEN uindex[u][i] ELSE 0
    BY <1>3
  <2>3. QED
    BY <2>1, <2>2
<1>7. QED
  BY <1>4, <1>5, <1>6

LEMMA RemoveFacts ==
    ASSUME TypeOK, NEW u, NEW k
    PROVE  /\ remove_uindex(u, k) \in Index
           /\ \A v \in Users : \A i \in Entry : remove_uindex(u, k)[v][i] =
                 IF v = u /\ uindex[v][i] = k THEN 0 ELSE uindex[v][i]
<1>1. CASE u \notin Users
  <2>1. remove_uindex(u, k) = uindex
    <3>1. CASE u = Guest
      BY <3>1 DEF remove_uindex
    <3>2. CASE u # Guest
      <4> DEFINE f == [i \in Entry |-> IF uindex[u][i] = k THEN 0 ELSE uindex[u][i]]
      <4>1. remove_uindex(u, k) = [uindex EXCEPT ![u] = f]
        BY <3>2 DEF remove_uindex
      <4> HIDE DEF f
      <4>2. QED
        BY <1>1, <4>1 DEF TypeOK
    <3>3. QED
      BY <3>1, <3>2
  <2>2. \A v \in Users : v # u
    BY <1>1
  <2>3. QED
    BY <2>1, <2>2 DEF TypeOK, Index
<1>2. CASE u \in Users
  <2> DEFINE f == [i \in Entry |-> IF uindex[u][i] = k THEN 0 ELSE uindex[u][i]]
  <2>1. remove_uindex(u, k) = [uindex EXCEPT ![u] = f]
    BY <1>2 DEF remove_uindex
  <2>2. \A v \in Users : uindex[v] \in [Entry -> 0..MaxActive]
    BY DEF TypeOK
  <2>3. f \in [Entry -> 0..MaxActive] /\ \A i \in Entry : f[i] = IF uindex[u][i] = k THEN 0 ELSE uindex[u][i]
    BY <1>2, <2>2
  <2> HIDE DEF f
  <2>4. remove_uindex(u, k) \in Index
    BY <1>2, <2>1, <2>3 DEF TypeOK, Index
  <2>5. \A v \in Users : remove_uindex(u, k)[v] = IF v = u THEN f ELSE uindex[v]
    BY <1>2, <2>1 DEF TypeOK
  <2>6. QED
    BY <2>3, <2>4, <2>5
<1>3. QED
  BY <1>1, <1>2

LEMMA AddFacts ==
    ASSUME NEW index \in Index, NEW u \in Users \cup {Guest}, NEW k \in Slot
    PROVE  /\ add_uindex(index, u, k) \in Index
           /\ \A v \in Users : \A i \in Entry :
                 \/ add_uindex(index, u, k)[v][i] = index[v][i]
                 \/ /\ v = u /\ add_uindex(index, u, k)[v][i] = k
                    /\ \/ index[v][i] = 0 \/ ~uinfo[index[v][i]].active
                       \/ uinfo[index[v][i]].uid # u
<1>1. CASE add_uindex(index, u, k) = index
  BY <1>1
<1>2. CASE add_uindex(index, u, k) # index
  <2> DEFINE usable == {i \in Entry : \/ index[u][i] = 0 \/ ~uinfo[index[u][i]].active
                                      \/ uinfo[index[u][i]].uid # u}
             m == CHOOSE i \in usable : \A j \in usable : i <= j
  <2>1. /\ u # Guest /\ usable # {}
        /\ add_uindex(index, u, k) = [index EXCEPT ![u][m] = k]
    BY <1>2, Zenon DEF add_uindex
  <2>2. m \in usable
    <3>1. usable \subseteq Nat
      BY DEF Entry
    <3>2. \E i \in usable : \A j \in usable : i <= j
      <4> HIDE DEF usable
      <4>1. QED
        BY <2>1, <3>1, Least
    <3> HIDE DEF usable
    <3>3. QED
      BY <3>2
  <2> HIDE DEF m
  <2>3. /\ m \in Entry
        /\ index[u][m] = 0 \/ ~uinfo[index[u][m]].active \/ uinfo[index[u][m]].uid # u
    BY <2>2
  <2> HIDE DEF usable
  <2>4. u \in Users /\ k \in 0..MaxActive
    BY <2>1 DEF Slot
  <2>5. add_uindex(index, u, k) \in Index
    BY <2>1, <2>3, <2>4 DEF Index
  <2>6. \A v \in Users : \A i \in Entry :
           add_uindex(index, u, k)[v][i] = IF v = u /\ i = m THEN k ELSE index[v][i]
    BY <2>1, <2>3, <2>4 DEF Index
  <2>7. QED
    BY <2>3, <2>5, <2>6
<1>3. QED
  BY <1>1, <1>2

(* A process gets no slot number but the one of a login. *)
EntsKept == \A p \in Telnet : proc'[p].ent = proc[p].ent \/ proc'[p].ent = 0

(* Entries that are set to 0, for sessions that are over. *)
EntriesDropped ==
    \A u \in Users : \A i \in Entry :
        \/ uindex'[u][i] = uindex[u][i]
        \/ uindex'[u][i] = 0 /\ (uindex[u][i] \in Slot => ~Live(uindex[u][i]) \/ "clear" \in harm')

LEMMA DeadNotLive == ASSUME IInv, NEW k \in Slot, Dead(uinfo[k]) PROVE ~Live(k)
<1>1. uinfo[k].pid \in Telnet /\ proc[uinfo[k].pid].pc = "none"
  BY DEF Dead, Alive
<1>2. proc[uinfo[k].pid].ent = 0
  BY <1>1 DEF IInv, ProcInv, InTable
<1>3. QED
  BY <1>1, <1>2, SlotFacts DEF Live

LEMMA EntryFacts ==
    ASSUME IInv, NEW u \in Users, NEW i \in Entry
    PROVE  /\ uindex[u][i] \in 0..MaxActive
           /\ uindex[u][i] # 0 => /\ uindex[u][i] \in Slot
                                  /\ uinfo[uindex[u][i]].active
                                  /\ uinfo[uindex[u][i]].uid = u
<1>1. uindex[u][i] \in 0..MaxActive
  BY DEF IInv, TypeOK
<1>2. QED
  BY <1>1 DEF IInv, IndexLeadsHome, Slot

LEMMA ClearedDrops ==
    ASSUME IInv, NEW u \in Users, uindex' = Cleared(u)
    PROVE  EntriesDropped /\ uindex' \in Index
<1>1. uindex' \in Index
  BY ClearedFacts DEF IInv
<1>2. ASSUME NEW v \in Users, NEW i \in Entry
      PROVE  \/ uindex'[v][i] = uindex[v][i]
             \/ uindex'[v][i] = 0 /\ (uindex[v][i] \in Slot => ~Live(uindex[v][i]))
  <2>1. \/ uindex'[v][i] = uindex[v][i]
        \/ uindex'[v][i] = 0 /\ Dead(uinfo[uindex[v][i]])
    BY ClearedFacts DEF IInv
  <2>2. QED
    BY <2>1, DeadNotLive
<1>3. QED
  BY <1>1, <1>2 DEF EntriesDropped

LEMMA DropsIndex ==
    ASSUME IInv, \A k \in Slot : SameSession(k), harm \subseteq harm', EntsKept, EntriesDropped
    PROVE  IndexInv'
<1>1. IndexLeadsHome'
  <2>1. SUFFICES ASSUME NEW u \in Users, NEW i \in Entry, uindex'[u][i] # 0
                 PROVE  uinfo'[uindex'[u][i]].active /\ uinfo'[uindex'[u][i]].uid = u
    BY DEF IndexLeadsHome
  <2>2. uindex'[u][i] = uindex[u][i]
    BY <2>1 DEF EntriesDropped
  <2>3. uindex[u][i] \in Slot /\ uinfo[uindex[u][i]].active /\ uinfo[uindex[u][i]].uid = u
    BY <2>1, <2>2, EntryFacts
  <2>4. QED
    BY <2>2, <2>3 DEF SameSession
<1>2. SessionsIndexed'
  <2>1. SUFFICES ASSUME harm' \cap {"clear", "overflow"} = {}, NEW k \in Slot,
                        Live(k)', uinfo'[k].uid # Guest
                 PROVE  Indexed(k)'
    BY DEF SessionsIndexed
  <2>2. uinfo[k].active /\ uinfo[k].uid = uinfo'[k].uid /\ uinfo[k].pid = uinfo'[k].pid
    BY <2>1 DEF SameSession, Live
  <2>3. Live(k)
    BY <2>1, <2>2, SlotFacts DEF Live, EntsKept
  <2>4. Indexed(k)
    BY <2>1, <2>2, <2>3 DEF IInv, SessionsIndexed
  <2>5. uinfo[k].uid \in Users
    BY <2>1, <2>2, SessionFacts DEF IInv, Session
  <2>6. PICK i \in Entry : uindex[uinfo[k].uid][i] = k
    BY <2>4 DEF Indexed
  <2>7. uindex'[uinfo[k].uid][i] = k
    BY <2>1, <2>3, <2>5, <2>6 DEF EntriesDropped
  <2>8. QED
    BY <2>2, <2>7 DEF Indexed
<1>3. QED
  BY <1>1, <1>2 DEF IndexInv

LEMMA EndsIndex == ASSUME IInv, NEW k, Ends(k), EntsKept PROVE IndexInv' /\ uindex' \in Index
<1>1. /\ k \in Slot /\ uinfo[k].active /\ uindex' = remove_uindex(uinfo[k].uid, k)
      /\ uinfo'[k] = Unused /\ \A i \in Slot : i # k => uinfo'[i] = uinfo[i]
  BY DEF Ends
<1>2. /\ uindex' \in Index
      /\ \A v \in Users : \A i \in Entry : uindex'[v][i] =
             IF v = uinfo[k].uid /\ uindex[v][i] = k THEN 0 ELSE uindex[v][i]
  BY <1>1, RemoveFacts DEF IInv
<1>3. IndexLeadsHome'
  <2>1. SUFFICES ASSUME NEW u \in Users, NEW i \in Entry, uindex'[u][i] # 0
                 PROVE  uinfo'[uindex'[u][i]].active /\ uinfo'[uindex'[u][i]].uid = u
    BY DEF IndexLeadsHome
  <2>2. uindex'[u][i] = uindex[u][i] /\ (u # uinfo[k].uid \/ uindex[u][i] # k)
    BY <1>2, <2>1
  <2>3. uindex[u][i] \in Slot /\ uinfo[uindex[u][i]].active /\ uinfo[uindex[u][i]].uid = u
    BY <2>1, <2>2, EntryFacts
  <2>4. QED
    BY <1>1, <2>2, <2>3
<1>4. SessionsIndexed'
  <2>1. SUFFICES ASSUME harm' \cap {"clear", "overflow"} = {}, NEW i \in Slot,
                        Live(i)', uinfo'[i].uid # Guest
                 PROVE  Indexed(i)'
    BY DEF SessionsIndexed
  <2>2. i # k /\ uinfo'[i] = uinfo[i]
    BY <1>1, <2>1, UnusedFacts DEF Live
  <2>3. Live(i)
    BY <2>1, <2>2, SlotFacts DEF Live, EntsKept
  <2>4. Indexed(i)
    BY <2>1, <2>2, <2>3 DEF IInv, SessionsIndexed, Ends
  <2>5. uinfo[i].uid \in Users
    BY <2>1, <2>2, <2>3, SessionFacts DEF IInv, Session, Live
  <2>6. PICK m \in Entry : uindex[uinfo[i].uid][m] = i
    BY <2>4 DEF Indexed
  <2>7. uindex'[uinfo[i].uid][m] = i
    BY <1>2, <2>2, <2>5, <2>6
  <2>8. QED
    BY <2>2, <2>7 DEF Indexed
<1>5. QED
  BY <1>2, <1>3, <1>4 DEF IndexInv

(* The index after a login, with what its caller has dropped before. *)
Indexes(up, index) ==
    /\ index \in Index
    /\ \A v \in Users : \A i \in Entry :
          \/ index[v][i] = uindex[v][i]
          \/ index[v][i] = 0 /\ (uindex[v][i] \in Slot => ~Live(uindex[v][i]))
    /\ uindex' = add_uindex(index, up.uid, head[0])
    /\ \/ up.uid = Guest \/ (\E i \in Entry : uindex'[up.uid][i] = head[0])
       \/ "overflow" \in harm'
    /\ \A p \in Telnet : \/ proc'[p].ent = proc[p].ent
                         \/ proc'[p].ent = head[0]

LEMMA LoginIndex ==
    ASSUME IInv, NEW up, Logs(up), NEW index, Indexes(up, index)
    PROVE  IndexInv' /\ uindex' \in Index
<1> DEFINE j == head[0]
<1>1. /\ j \in Slot /\ ~uinfo[j].active /\ uinfo'[j] = up
      /\ \A k \in Slot : k # j => uinfo'[k] = uinfo[k]
      /\ up \in Session /\ up.active
  BY LoginFacts
<1>2. up.uid \in Users \cup {Guest} /\ index \in Index /\ harm \subseteq harm'
  BY <1>1 DEF Session, Indexes, Logs
<1>3. uindex' = add_uindex(index, up.uid, j)
  BY DEF Indexes
<1> HIDE DEF j
<1>4. /\ uindex' \in Index
      /\ \A v \in Users : \A i \in Entry :
            \/ uindex'[v][i] = index[v][i]
            \/ /\ v = up.uid /\ uindex'[v][i] = j
               /\ \/ index[v][i] = 0 \/ ~uinfo[index[v][i]].active
                  \/ uinfo[index[v][i]].uid # up.uid
  BY <1>1, <1>2, <1>3, AddFacts
<1>5. \A v \in Users : \A i \in Entry : index[v][i] # 0 => index[v][i] = uindex[v][i]
  BY DEF Indexes
<1>6. IndexLeadsHome'
  <2>1. SUFFICES ASSUME NEW u \in Users, NEW i \in Entry, uindex'[u][i] # 0
                 PROVE  uinfo'[uindex'[u][i]].active /\ uinfo'[uindex'[u][i]].uid = u
    BY DEF IndexLeadsHome
  <2>2. CASE uindex'[u][i] = index[u][i]
    <3>1. uindex'[u][i] = uindex[u][i]
      BY <1>5, <2>1, <2>2
    <3>2. /\ uindex[u][i] \in Slot /\ uinfo[uindex[u][i]].active
          /\ uinfo[uindex[u][i]].uid = u
      BY <2>1, <3>1, EntryFacts
    <3>3. uindex[u][i] # j
      BY <1>1, <3>2
    <3>4. QED
      BY <1>1, <3>1, <3>2, <3>3
  <2>3. CASE uindex'[u][i] # index[u][i]
    BY <1>1, <1>4, <2>3
  <2>4. QED
    BY <2>2, <2>3
<1>7. SessionsIndexed'
  <2>1. SUFFICES ASSUME harm' \cap {"clear", "overflow"} = {}, NEW k \in Slot,
                        Live(k)', uinfo'[k].uid # Guest
                 PROVE  Indexed(k)'
    BY DEF SessionsIndexed
  <2>2. CASE k = j
    BY <1>1, <2>1, <2>2 DEF Indexed, Indexes, j
  <2>3. CASE k # j
    <3>1. uinfo'[k] = uinfo[k]
      BY <1>1, <2>3
    <3>2. Live(k)
      BY <2>1, <2>3, <3>1 DEF Live, Indexes, j
    <3>3. Indexed(k)
      BY <1>2, <2>1, <3>1, <3>2 DEF IInv, SessionsIndexed
    <3>4. uinfo[k].uid \in Users /\ uinfo[k].active
      BY <2>1, <3>1, <3>2, SessionFacts DEF IInv, Session, Live
    <3>5. PICK i \in Entry : uindex[uinfo[k].uid][i] = k
      BY <3>3 DEF Indexed
    <3>6. index[uinfo[k].uid][i] = k
      BY <3>2, <3>4, <3>5 DEF Indexes
    <3>7. uindex'[uinfo[k].uid][i] = k
      BY <1>4, <3>4, <3>6, SlotFacts
    <3>8. QED
      BY <3>1, <3>7 DEF Indexed
  <2>4. QED
    BY <2>2, <2>3
<1>8. QED
  BY <1>4, <1>6, <1>7 DEF IndexInv

-----------------------------------------------------------------------------
(***************************************************************************)
(* The types of the table.                                                 *)
(***************************************************************************)
TableType ==
    /\ uinfo \in [Slot -> Session \cup {Unused}]
    /\ head \in [Chain -> 0..MaxActive] /\ next \in [Slot -> 0..MaxActive]
    /\ uindex \in Index
    /\ activeuser \in 0..MaxActive /\ wwwguestnum \in Nat
    /\ peak \in [today : Nat, ever : Nat, file : Nat]

ActorType ==
    /\ sweep \in [by : Telnet \cup {WWW, Nobody}, at : 0..MaxActive + 1]
    /\ proc \in [Telnet -> Process] /\ req \in [Requests -> Request]
    /\ clear \in [uid : Users, entry : Entry] \cup {NoClear}
    /\ harm \subseteq {"logout", "clear", "overflow"}

ActorInv == ActorType /\ ProcInv /\ OwnInv /\ ReqInv

SharedInv == TableType /\ TableInv /\ IndexInv

LEMMA Parts == IInv <=> SharedInv /\ ActorInv
<1>1. TypeOK <=> TableType /\ ActorType
  BY DEF TypeOK, TableType, ActorType, Index
<1>2. QED
  BY <1>1 DEF IInv, SharedInv, ActorInv, TableInv, IndexInv

LEMMA NextParts == SharedInv' /\ ActorInv' => IInv'
<1>1. TableType' /\ ActorType' => TypeOK'
  BY DEF TypeOK, TableType, ActorType, Index
<1>2. QED
  BY <1>1 DEF IInv, SharedInv, ActorInv, TableInv, IndexInv

LEMMA SlotCount == \A S \in SUBSET Slot : Cardinality(S) \in 0..MaxActive
<1>1. IsFiniteSet(Slot) /\ Cardinality(Slot) = MaxActive
  <2>1. 1 \in Int /\ MaxActive \in Int
    OBVIOUS
  <2>2. /\ IsFiniteSet(1..MaxActive)
        /\ Cardinality(1..MaxActive) = IF 1 > MaxActive THEN 0 ELSE MaxActive - 1 + 1
    BY <2>1, FS_Interval, Zenon
  <2>3. QED
    BY <2>2 DEF Slot
<1>2. ASSUME NEW S \in SUBSET Slot PROVE Cardinality(S) \in 0..MaxActive
  <2>1. IsFiniteSet(S) /\ Cardinality(S) <= Cardinality(Slot)
    BY <1>1, FS_Subset
  <2>2. Cardinality(S) \in Nat
    BY <2>1, FS_CardinalityType
  <2>3. QED
    BY <1>1, <2>1, <2>2
<1>3. QED
  BY <1>2

(* Steps under which no session begins or ends. *)
Quiet == /\ Steady /\ EntsKept /\ EntriesDropped
         /\ uinfo' \in [Slot -> Session \cup {Unused}] /\ uindex' \in Index

LEMMA QuietStep == ASSUME IInv, Quiet PROVE SharedInv'
<1>1. TableInv'
  BY SteadyTable DEF Quiet
<1>2. IndexInv'
  BY DropsIndex DEF Quiet, Steady
<1>3. TableType'
  BY DEF TableType, Quiet, Steady, IInv, TypeOK
<1>4. QED
  BY <1>1, <1>2, <1>3 DEF SharedInv

LEMMA LoginStep ==
    ASSUME IInv, NEW up, Logs(up), NEW index, Indexes(up, index) PROVE SharedInv'
<1>1. TableInv'
  BY LoginTable
<1>2. IndexInv' /\ uindex' \in Index
  BY LoginIndex
<1>3. /\ uinfo' \in [Slot -> Session \cup {Unused}]
      /\ head' \in [Chain -> 0..MaxActive] /\ next' \in [Slot -> 0..MaxActive]
  <2>1. /\ head[0] \in Slot /\ up \in Session /\ up.host \in Hosts
        /\ head[0] \in 0..MaxActive
    BY LoginFacts DEF Slot
  <2>2. IpHash[up.host] \in Chain
    BY <2>1, ChainFacts
  <2>3. /\ uinfo \in [Slot -> Session \cup {Unused}]
        /\ head \in [Chain -> 0..MaxActive] /\ next \in [Slot -> 0..MaxActive]
    BY DEF IInv, TypeOK
  <2>4. head[IpHash[up.host]] \in 0..MaxActive /\ next[head[0]] \in 0..MaxActive /\ 0 \in 0..MaxActive
    BY <2>1, <2>2, <2>3
  <2>5. uinfo' \in [Slot -> Session \cup {Unused}]
    BY <2>1, <2>3 DEF Logs
  <2>6. next' \in [Slot -> 0..MaxActive]
    BY <2>3, <2>4 DEF Logs
  <2>7. head' \in [Chain -> 0..MaxActive]
    BY <2>1, <2>3, <2>4 DEF Logs
  <2>8. QED
    BY <2>5, <2>6, <2>7
<1>4. activeuser' \in 0..MaxActive
  <2>1. activeuser' = Cardinality(Actives') /\ Actives' \in SUBSET Slot
    BY <1>1 DEF TableInv, CountInv, Actives
  <2>2. QED
    BY <2>1, SlotCount
<1>5. wwwguestnum' \in Nat
  BY DEF Logs, IInv, TypeOK
<1>6. peak' \in [today : Nat, ever : Nat, file : Nat]
  <2>1. activeuser + 1 \in Nat /\ peak \in [today : Nat, ever : Nat, file : Nat]
    BY DEF IInv, TypeOK
  <2>2. peak' = update_max_online(activeuser + 1)
    BY DEF Logs
  <2>3. QED
    BY <2>1, <2>2 DEF update_max_online
<1>7. QED
  BY <1>1, <1>2, <1>3, <1>4, <1>5, <1>6 DEF SharedInv, TableType

LEMMA FreesStep ==
    ASSUME IInv, NEW k, Frees(k) \/ FreesGuest(k), EntsKept PROVE SharedInv'
<1>1. TableInv' /\ wwwguestnum' \in Nat /\ Ends(k)
  BY FreesTable, FreesCount, FreesEnds
<1>2. IndexInv' /\ uindex' \in Index
  BY <1>1, EndsIndex
<1>3. k \in Slot /\ k \in 0..MaxActive /\ uinfo' = [uinfo EXCEPT ![k] = Unused]
  BY <1>1 DEF Ends, Slot, Frees, FreesGuest, Release
<1>4. uinfo' \in [Slot -> Session \cup {Unused}]
  BY <1>3 DEF IInv, TypeOK
<1>5. /\ head \in [Chain -> 0..MaxActive] /\ next \in [Slot -> 0..MaxActive]
      /\ 0 \in Chain
  BY ChainFacts DEF IInv, TypeOK
<1>6. head' \in [Chain -> 0..MaxActive] /\ next' \in [Slot -> 0..MaxActive]
  <2>1. ASSUME NEW hd \in [Chain -> 0..MaxActive], NEW nx \in [Slot -> 0..MaxActive],
               Release(k, hd, nx)
        PROVE  head' \in [Chain -> 0..MaxActive] /\ next' \in [Slot -> 0..MaxActive]
    BY <1>3, <1>5, <2>1 DEF Release
  <2>2. CASE Frees(k)
    BY <1>5, <2>1, <2>2 DEF Frees
  <2>3. CASE FreesGuest(k)
    <3> DEFINE c == IpHash[uinfo[k].host]
               hd == [head EXCEPT ![c] = next[k]]
               nx == [i \in Slot |->
                IF i \in Reach(c) /\ next[i] = k THEN next[k] ELSE next[i]]
    <3>1. hd \in [Chain -> 0..MaxActive] /\ nx \in [Slot -> 0..MaxActive]
      BY <1>3, <1>5
    <3>2. Release(k, hd, next) \/ Release(k, head, nx)
      BY <2>3 DEF FreesGuest
    <3> HIDE DEF hd, nx
    <3>3. QED
      BY <1>5, <2>1, <3>1, <3>2
  <2>4. QED
    BY <2>2, <2>3
<1>7. activeuser' \in 0..MaxActive
  <2>1. activeuser' = Cardinality(Actives') /\ Actives' \in SUBSET Slot
    BY <1>1 DEF TableInv, CountInv, Actives
  <2>2. QED
    BY <2>1, SlotCount
<1>8. peak' \in [today : Nat, ever : Nat, file : Nat]
  BY <1>1 DEF Ends, IInv, TypeOK
<1>9. QED
  BY <1>1, <1>2, <1>4, <1>6, <1>7, <1>8 DEF SharedInv, TableType

-----------------------------------------------------------------------------
(***************************************************************************)
(* The processes, the requests and who owns what.                          *)
(***************************************************************************)
LEMMA ProcFacts ==
    ASSUME IInv, NEW p \in Telnet
    PROVE  /\ proc[p] \in Process
           /\ proc[p].pc # "none" => proc[p].uid \in Users \cup {Guest}
           /\ proc[p].pc \in InTable <=> proc[p].ent # 0
           /\ proc[p].pc = "sweep" <=> sweep.by = p
           /\ proc[p].ent \in 0..MaxActive
           /\ proc[p].ent # 0 => proc[p].ent \in Slot
           /\ p # WWW /\ p # Nobody
<1>1. proc[p] \in Process
  BY DEF IInv, TypeOK
<1>2. proc[p].ent \in 0..MaxActive
  BY <1>1 DEF Process
<1>3. QED
  BY <1>1, <1>2 DEF IInv, ProcInv, Slot

LEMMA NoProcFacts == /\ NoProc \in Process /\ NoProc.pc = "none" /\ NoProc.ent = 0 /\ ~NoProc.own
                     /\ NoReq \in Request /\ NoReq.slot = 0 /\ ~NoReq.own
                     /\ NoSweep.by = Nobody
                     /\ NoSweep \in [by : Telnet \cup {WWW, Nobody}, at : 0..MaxActive + 1]
  BY DEF NoProc, NoReq, NoSweep, Process, Request

(* Who still owns a slot owns it as before, whoever else loses theirs.     *)
OwnersKept ==
    /\ \A p \in Telnet : proc'[p].own => proc[p].own /\ proc'[p].ent = proc[p].ent
    /\ \A p \in Telnet : proc'[p].ent # 0 =>
           proc'[p].ent = proc[p].ent /\ (proc[p].own => proc'[p].own)
    /\ harm \subseteq harm'

LEMMA OwnersSame ==
    ASSUME IInv, OwnersKept, \A k \in Slot : SameSession(k) PROVE OwnInv'
<1>1. SUFFICES ASSUME NEW p \in Telnet
               PROVE  /\ proc'[p].own => /\ proc'[p].ent # 0 /\ uinfo'[proc'[p].ent].active
                                         /\ uinfo'[proc'[p].ent].pid = p
                      /\ "logout" \notin harm' /\ proc'[p].ent # 0 => proc'[p].own
  BY Zenon DEF OwnInv
<1>2. /\ proc[p].own => /\ proc[p].ent # 0 /\ uinfo[proc[p].ent].active
                        /\ uinfo[proc[p].ent].pid = p
      /\ "logout" \notin harm /\ proc[p].ent # 0 => proc[p].own
  BY DEF IInv, OwnInv
<1>3. /\ proc'[p].own => proc[p].own /\ proc'[p].ent = proc[p].ent
      /\ proc'[p].ent # 0 => proc'[p].ent = proc[p].ent /\ (proc[p].own => proc'[p].own)
      /\ "logout" \notin harm' => "logout" \notin harm
  BY DEF OwnersKept
<1>4. proc[p].ent # 0 => proc[p].ent \in Slot
  BY ProcFacts
<1>5. ASSUME proc'[p].own
      PROVE  proc'[p].ent # 0 /\ uinfo'[proc'[p].ent].active /\ uinfo'[proc'[p].ent].pid = p
  <2>1. proc[p].own /\ proc'[p].ent = proc[p].ent
    BY <1>3, <1>5, Zenon
  <2>2. proc[p].ent \in Slot /\ uinfo[proc[p].ent].active /\ uinfo[proc[p].ent].pid = p
    BY <1>2, <1>4, <2>1, Zenon
  <2>3. QED
    BY <2>1, <2>2, SlotFacts DEF SameSession
<1>6. QED
  BY <1>2, <1>3, <1>5, Zenon

(* Requests keep what they own while sessions, and their age, stay.        *)
LEMMA RequestsSame ==
    ASSUME IInv, UNCHANGED req, \A k \in Slot : SameSession(k),
           \A k \in Slot : uinfo'[k].age = uinfo[k].age \/ uinfo'[k].age = 0
    PROVE  ReqInv'
<1>1. \A r \in Requests : req[r].slot # 0 => req[r].slot \in Slot
  <2>1. ASSUME NEW r \in Requests PROVE req[r].slot \in 0..MaxActive
    <3>1. req[r] \in Request
      BY DEF IInv, TypeOK
    <3>2. QED
      BY <3>1 DEF Request
  <2>2. QED
    BY <2>1 DEF Slot
<1>2. SUFFICES ASSUME NEW r \in Requests, req[r].own
               PROVE  /\ req[r].slot # 0 /\ uinfo'[req[r].slot].active
                      /\ uinfo'[req[r].slot].pid = WWW /\ uinfo'[req[r].slot].uid \in Users
                      /\ uinfo'[req[r].slot].age < 2
  BY Zenon DEF ReqInv
<1>3. /\ req[r].slot # 0 /\ uinfo[req[r].slot].active
      /\ uinfo[req[r].slot].pid = WWW /\ uinfo[req[r].slot].uid \in Users
      /\ uinfo[req[r].slot].age < 2
  BY <1>2 DEF IInv, ReqInv
<1>4. QED
  BY <1>1, <1>3 DEF SameSession

(* A step of the processes alone.                                          *)
LEMMA TableSame ==
    ASSUME IInv, UNCHANGED <<table, req, harm>>, EntsKept PROVE SharedInv' /\ ReqInv'
<1>1. \A k \in Slot : SameSession(k)
  BY DEF SameSession, table
<1>2. Quiet
  BY <1>1 DEF Quiet, Steady, EntriesDropped, table, IInv, TypeOK, Index
<1>3. SharedInv'
  BY <1>2, QuietStep
<1>4. ReqInv'
  BY <1>1, RequestsSame DEF table
<1>5. QED
  BY <1>3, <1>4

(* A process that starts, goes on, or is gone.                             *)
Becomes(p, a) == /\ proc' = [proc EXCEPT ![p] = a] /\ a \in Process
                 /\ a.pc # "none" => a.uid \in Users \cup {Guest}
                 /\ a.pc \in InTable <=> a.ent # 0
                 /\ \/ a.ent = 0 /\ ~a.own
                    \/ a.ent = proc[p].ent /\ (a.own <=> proc[p].own)

LEMMA BecomesKept ==
    ASSUME IInv, NEW p \in Telnet, NEW a, Becomes(p, a), harm \subseteq harm'
    PROVE  EntsKept /\ OwnersKept /\ proc' \in [Telnet -> Process]
<1>1. proc' \in [Telnet -> Process]
  BY DEF Becomes, IInv, TypeOK
<1>2. proc'[p] = a /\ \A q \in Telnet : q # p => proc'[q] = proc[q]
  BY DEF Becomes, IInv, TypeOK
<1>3. EntsKept
  BY <1>2 DEF Becomes, EntsKept
<1>4. OwnersKept
  <2>1. ASSUME NEW q \in Telnet
        PROVE  /\ proc'[q].own => proc[q].own /\ proc'[q].ent = proc[q].ent
               /\ proc'[q].ent # 0 => proc'[q].ent = proc[q].ent /\ (proc[q].own => proc'[q].own)
    <3>1. CASE q = p
      BY <1>2, <3>1, Zenon DEF Becomes
    <3>2. CASE q # p
      BY <1>2, <3>2, Zenon
    <3>3. QED
      BY <3>1, <3>2
  <2>2. QED
    BY <2>1, Zenon DEF OwnersKept
<1>5. QED
  BY <1>1, <1>3, <1>4

(* And nothing else but the sweep.                                         *)
LEMMA ProcStep ==
    ASSUME IInv, NEW p \in Telnet, NEW a, Becomes(p, a), UNCHANGED <<table, req, clear, harm>>,
           sweep' \in [by : Telnet \cup {WWW, Nobody}, at : 0..MaxActive + 1],
           \A q \in Telnet : (IF q = p THEN a.pc ELSE proc[q].pc) = "sweep" <=> sweep'.by = q
    PROVE  IInv'
<1>1. EntsKept /\ OwnersKept /\ proc' \in [Telnet -> Process]
  BY BecomesKept
<1>2. SharedInv' /\ ReqInv'
  BY <1>1, TableSame
<1>3. OwnInv'
  BY <1>1, OwnersSame DEF SameSession, table
<1>4. ActorType'
  BY <1>1 DEF ActorType, IInv, TypeOK
<1>5. ProcInv'
  <2>1. proc'[p] = a /\ \A q \in Telnet : q # p => proc'[q] = proc[q]
    BY DEF Becomes, IInv, TypeOK
  <2>2. ASSUME NEW q \in Telnet
        PROVE  /\ proc'[q].pc # "none" => proc'[q].uid \in Users \cup {Guest}
               /\ proc'[q].pc \in InTable <=> proc'[q].ent # 0
               /\ proc'[q].pc = "sweep" <=> sweep'.by = q
    BY <2>1, ProcFacts DEF Becomes
  <2>3. QED
    BY <2>2 DEF ProcInv
<1>6. QED
  BY <1>2, <1>3, <1>4, <1>5, NextParts DEF ActorInv

LEMMA SweepBy == ASSUME IInv PROVE /\ sweep \in [by : Telnet \cup {WWW, Nobody}, at : 0..MaxActive + 1]
                                   /\ sweep.by \in Telnet \cup {WWW, Nobody}
                                   /\ sweep.at \in 0..MaxActive + 1
  BY DEF IInv, TypeOK

LEMMA ConnectInv ==
    ASSUME IInv, NEW p \in Telnet, NEW u \in Users \cup {Guest}, Connect(p, u) PROVE IInv'
<1> DEFINE a == [NoProc EXCEPT !.pc = "login", !.uid = u]
<1>1. a \in Process
  BY NoProcFacts DEF Process
<1>2. a.pc = "login" /\ a.uid = u /\ a.ent = 0 /\ ~a.own
  BY DEF NoProc
<1>3. /\ proc' = [proc EXCEPT ![p] = a] /\ proc[p].pc = "none"
      /\ UNCHANGED <<table, req, clear, harm, sweep>>
  BY DEF Connect
<1> HIDE DEF a
<1>4. Becomes(p, a)
  BY <1>1, <1>2, <1>3 DEF Becomes, InTable
<1>5. \A q \in Telnet : (IF q = p THEN a.pc ELSE proc[q].pc) = "sweep" <=> sweep'.by = q
  BY <1>2, <1>3, ProcFacts
<1>6. QED
  BY <1>3, <1>4, <1>5, SweepBy, ProcStep

LEMMA GoneBecomes == ASSUME IInv, NEW p \in Telnet, proc' = [proc EXCEPT ![p] = NoProc]
                     PROVE  Becomes(p, NoProc)
  BY NoProcFacts DEF Becomes, InTable

LEMMA EnterRefusedInv == ASSUME IInv, NEW p \in Telnet, EnterRefused(p) PROVE IInv'
<1>1. /\ proc' = [proc EXCEPT ![p] = NoProc] /\ proc[p].pc = "enter"
      /\ UNCHANGED <<table, req, clear, harm, sweep>>
  BY DEF EnterRefused
<1>2. Becomes(p, NoProc)
  BY <1>1, GoneBecomes
<1>3. \A q \in Telnet : (IF q = p THEN NoProc.pc ELSE proc[q].pc) = "sweep" <=> sweep'.by = q
  BY <1>1, ProcFacts, NoProcFacts
<1>4. QED
  BY <1>1, <1>2, <1>3, SweepBy, ProcStep

LEMMA KillInv == ASSUME IInv, NEW p \in Telnet, Kill(p) PROVE IInv'
<1>1. /\ proc' = [proc EXCEPT ![p] = NoProc]
      /\ sweep' = IF sweep.by = p THEN NoSweep ELSE sweep
      /\ UNCHANGED <<table, req, clear, harm>>
  BY DEF Kill
<1>2. Becomes(p, NoProc)
  BY <1>1, GoneBecomes
<1>3. \A q \in Telnet : (IF q = p THEN NoProc.pc ELSE proc[q].pc) = "sweep" <=> sweep'.by = q
  BY <1>1, ProcFacts, NoProcFacts
<1>4. sweep' \in [by : Telnet \cup {WWW, Nobody}, at : 0..MaxActive + 1]
  BY <1>1, SweepBy, NoProcFacts
<1>5. QED
  BY <1>1, <1>2, <1>3, <1>4, ProcStep

(* A process with another pc, in or out of the table as before.            *)
LEMMA PcBecomes ==
    ASSUME IInv, NEW p \in Telnet, proc[p].pc # "none",
           NEW c \in {"login", "enter", "sweep", "in", "exit"},
           c \in InTable <=> proc[p].pc \in InTable,
           proc' = [proc EXCEPT ![p].pc = c]
    PROVE  Becomes(p, [proc[p] EXCEPT !.pc = c])
<1> DEFINE l == proc[p]
           a == [l EXCEPT !.pc = c]
<1>1. l \in Process /\ proc' = [proc EXCEPT ![p] = a]
  BY ProcFacts
<1>2. l.pc # "none" /\ l.uid \in Users \cup {Guest} /\ (c \in InTable <=> l.ent # 0)
  BY ProcFacts
<1> HIDE DEF l
<1>3. a \in Process /\ a.pc = c /\ a.uid = l.uid /\ a.ent = l.ent
  BY <1>1 DEF Process
<1>4. a.own = l.own
  BY <1>1 DEF Process
<1>5. QED
  <2> HIDE DEF a
  <2>1. a.ent = proc[p].ent /\ (a.own <=> proc[p].own)
    BY <1>3, <1>4, Zenon DEF l
  <2>2. a.pc # "none" /\ a.uid \in Users \cup {Guest} /\ (a.pc \in InTable <=> a.ent # 0)
    BY <1>2, <1>3
  <2>3. Becomes(p, a)
    BY <1>1, <1>3, <2>1, <2>2, Zenon DEF Becomes
  <2>4. QED
    BY <2>3 DEF a, l

LEMMA LeaveInv == ASSUME IInv, NEW p \in Telnet, Leave(p) PROVE IInv'
<1>1. /\ proc' = [proc EXCEPT ![p].pc = "exit"] /\ proc[p].pc = "in"
      /\ UNCHANGED <<table, req, clear, harm, sweep>>
  BY DEF Leave
<1> DEFINE a == [proc[p] EXCEPT !.pc = "exit"]
<1>2. Becomes(p, a)
  BY <1>1, PcBecomes DEF InTable
<1>3. a.pc = "exit"
  BY ProcFacts DEF Process
<1> HIDE DEF a
<1>4. \A q \in Telnet : (IF q = p THEN a.pc ELSE proc[q].pc) = "sweep" <=> sweep'.by = q
  BY <1>1, <1>3, ProcFacts
<1>5. QED
  BY <1>1, <1>2, <1>4, SweepBy, ProcStep

LEMMA SweepHangupInv == ASSUME IInv, SweepHangup PROVE IInv'
<1> DEFINE q == uinfo[sweep.at].pid
           a == IF proc[q].pc \in {"in", "exit"} THEN [proc[q] EXCEPT !.pc = "exit"] ELSE NoProc
<1>1. /\ sweep.at \in Slot /\ q \in Telnet /\ proc[q].pc # "none"
      /\ proc' = [proc EXCEPT ![q] = a]
      /\ sweep' = IF sweep.by = q THEN NoSweep ELSE [sweep EXCEPT !.at = @ + 1]
      /\ UNCHANGED <<table, req, clear, harm>>
  BY DEF SweepHangup, Alive, Advance
<1>2. Becomes(q, a) /\ a.pc \in {"none", "exit"} /\ (a.pc = "exit" => proc[q].pc \in {"in", "exit"})
  <2>1. CASE proc[q].pc \in {"in", "exit"}
    <3>1. a = [proc[q] EXCEPT !.pc = "exit"]
      BY <2>1
    <3>2. Becomes(q, [proc[q] EXCEPT !.pc = "exit"])
      BY <1>1, <2>1, <3>1, PcBecomes DEF InTable
    <3>3. a.pc = "exit"
      BY <1>1, <3>1, ProcFacts DEF Process
    <3>4. QED
      BY <2>1, <3>1, <3>2, <3>3, Zenon
  <2>2. CASE proc[q].pc \notin {"in", "exit"}
    <3>1. a = NoProc
      BY <2>2
    <3>2. Becomes(q, NoProc)
      BY <1>1, <3>1, GoneBecomes
    <3>3. QED
      BY <3>1, <3>2, NoProcFacts
  <2>3. QED
    BY <2>1, <2>2
<1>3. /\ sweep' \in [by : Telnet \cup {WWW, Nobody}, at : 0..MaxActive + 1]
      /\ sweep'.by = IF sweep.by = q THEN Nobody ELSE sweep.by
  <2>1. sweep.at + 1 \in 0..MaxActive + 1
    BY <1>1 DEF Slot
  <2>2. QED
    BY <1>1, <2>1, SweepBy, NoProcFacts
<1> HIDE DEF q, a
<1>4. \A r \in Telnet : (IF r = q THEN a.pc ELSE proc[r].pc) = "sweep" <=> sweep'.by = r
  BY <1>1, <1>2, <1>3, ProcFacts
<1>5. QED
  BY <1>1, <1>2, <1>3, <1>4, ProcStep

(* No process changes, or only the place of the sweep.                     *)
LEMMA NoProcStep ==
    ASSUME IInv, UNCHANGED <<table, proc, req, harm>>,
           sweep' \in [by : Telnet \cup {WWW, Nobody}, at : 0..MaxActive + 1], sweep'.by = sweep.by,
           clear' \in [uid : Users, entry : Entry] \cup {NoClear}
    PROVE  IInv'
<1>1. EntsKept /\ OwnersKept
  BY Zenon DEF EntsKept, OwnersKept
<1>2. SharedInv' /\ ReqInv'
  BY <1>1, TableSame
<1>3. OwnInv'
  BY <1>1, OwnersSame DEF SameSession, table
<1>4. ActorType' /\ ProcInv'
  BY DEF ActorType, ProcInv, IInv, TypeOK
<1>5. QED
  BY <1>2, <1>3, <1>4, NextParts DEF ActorInv

LEMMA SweepSkipInv == ASSUME IInv, SweepSkip PROVE IInv'
<1>1. /\ sweep.at \in Slot /\ sweep' = [sweep EXCEPT !.at = @ + 1]
      /\ UNCHANGED <<table, proc, req, clear, harm>>
  BY DEF SweepSkip, Advance
<1>2. sweep.at + 1 \in 0..MaxActive + 1
  BY <1>1 DEF Slot
<1>3. sweep' \in [by : Telnet \cup {WWW, Nobody}, at : 0..MaxActive + 1] /\ sweep'.by = sweep.by
  BY <1>1, <1>2, SweepBy
<1>4. clear' \in [uid : Users, entry : Entry] \cup {NoClear}
  BY <1>1 DEF IInv, TypeOK
<1>5. QED
  BY <1>1, <1>3, <1>4, NoProcStep

LEMMA SweepEndInv == ASSUME IInv, SweepEnd PROVE IInv'
<1>1. /\ sweep' = NoSweep /\ UNCHANGED <<table, req, clear, harm>>
      /\ proc' = IF sweep.by \in Telnet THEN [proc EXCEPT ![sweep.by].pc = "in"] ELSE proc
  BY DEF SweepEnd
<1>2. CASE sweep.by \in Telnet
  <2> DEFINE p == sweep.by
             a == [proc[p] EXCEPT !.pc = "in"]
  <2>1. proc[p].pc = "sweep" /\ proc' = [proc EXCEPT ![p].pc = "in"] /\ p \in Telnet
    BY <1>1, <1>2, ProcFacts
  <2>2. Becomes(p, a)
    BY <2>1, PcBecomes DEF InTable
  <2>3. a.pc = "in"
    BY <2>1, ProcFacts DEF Process
  <2>4. \A q \in Telnet : q # p => proc[q].pc # "sweep"
    BY ProcFacts
  <2> HIDE DEF p, a
  <2>5. \A q \in Telnet : (IF q = p THEN a.pc ELSE proc[q].pc) = "sweep" <=> sweep'.by = q
    BY <1>1, <2>3, <2>4, NoProcFacts, ProcFacts
  <2>6. QED
    BY <1>1, <2>1, <2>2, <2>5, NoProcFacts, ProcStep
<1>3. CASE sweep.by \notin Telnet
  <2>1. \A q \in Telnet : proc[q].pc # "sweep"
    BY <1>3, ProcFacts
  <2>2. UNCHANGED <<table, proc, req, clear, harm>>
    BY <1>1, <1>3
  <2>3. EntsKept /\ OwnersKept
    BY <2>2, Zenon DEF EntsKept, OwnersKept
  <2>4. SharedInv' /\ ReqInv'
    BY <2>2, <2>3, TableSame
  <2>5. OwnInv'
    BY <2>2, <2>3, OwnersSame DEF SameSession, table
  <2>6. ActorType'
    BY <1>1, <2>2, NoProcFacts DEF ActorType, IInv, TypeOK
  <2>7. ProcInv'
    BY <1>1, <2>1, <2>2, NoProcFacts, ProcFacts DEF ProcInv
  <2>8. QED
    BY <2>4, <2>5, <2>6, <2>7, NextParts DEF ActorInv
<1>4. QED
  BY <1>2, <1>3

Pcs == {"none", "login", "enter", "sweep", "in", "exit"}

LEMMA PcFacts ==
    ASSUME NEW l \in Process, NEW c \in Pcs, NEW a, a = [l EXCEPT !.pc = c]
    PROVE  a \in Process /\ a.pc = c /\ a.uid = l.uid /\ a.ent = l.ent /\ a.own = l.own
  BY DEF Process, Pcs

(* What multi_user_check does to the processes.                            *)
AfterMulti(p, q) ==
    \/ proc'[q] = NoProc /\ q = p
    \/ proc'[q] = proc[q] /\ q # p
    \/ /\ proc'[q].uid = proc[q].uid /\ proc'[q].ent = proc[q].ent
       /\ proc'[q].own = proc[q].own
       /\ IF q = p THEN proc'[q].pc = "enter"
          ELSE proc'[q].pc = "exit" /\ proc[q].pc = "in"

LEMMA MultiCheckProc ==
    ASSUME IInv, NEW p \in Telnet, MultiCheck(p), NEW q \in Telnet
    PROVE  /\ proc[p].pc = "login" /\ proc' \in [Telnet -> Process]
           /\ AfterMulti(p, q)
<1> DEFINE others == CountedTelnet(proc[p].uid)
           victim == uinfo[uindex[proc[p].uid][CHOOSE i \in others : \A j \in others : i <= j]].pid
           m == [proc EXCEPT ![p].pc = "enter"]
<1>1. /\ proc[p].pc = "login"
      /\ \/ proc' = m
         \/ proc' = [proc EXCEPT ![p] = NoProc]
         \/ /\ others # {}
            /\ proc' = [m EXCEPT ![victim].pc = IF @ = "in" THEN "exit" ELSE @]
  <2>1. /\ proc[p].pc = "login"
        /\ \/ proc' = m
           \/ proc' = [proc EXCEPT ![p] = NoProc]
           \/ /\ others # {}
              /\ proc' = [proc EXCEPT ![p].pc = "enter",
                                      ![victim].pc = IF @ = "in" THEN "exit" ELSE @]
    BY Zenon DEF MultiCheck
  <2> HIDE DEF victim, others
  <2>2. QED
    BY <2>1
<1>2. others # {} => victim \in Telnet
  <2> SUFFICES ASSUME others # {} PROVE victim \in Telnet
    OBVIOUS
  <2>1. /\ others \subseteq Nat
        /\ \A i \in others : uinfo[uindex[proc[p].uid][i]].pid \in Telnet
    BY DEF CountedTelnet, Counted, Entry
  <2> DEFINE i0 == CHOOSE i \in others : \A j \in others : i <= j
  <2> HIDE DEF others
  <2>2. i0 \in others
    BY <2>1, Least
  <2>3. QED
    BY <2>1, <2>2
<1> HIDE DEF others, victim
<1>3. proc \in [Telnet -> Process]
  BY DEF IInv, TypeOK
<1>4. PICK a : a = [proc[p] EXCEPT !.pc = "enter"]
  OBVIOUS
<1>5. /\ a \in Process /\ a.pc = "enter" /\ a.uid = proc[p].uid /\ a.ent = proc[p].ent
      /\ a.own = proc[p].own
  BY <1>3, <1>4, PcFacts DEF Pcs
<1>6. m \in [Telnet -> Process] /\ m[p] = a /\ \A r \in Telnet : r # p => m[r] = proc[r]
  BY <1>3, <1>4, <1>5
<1> HIDE DEF m
<1>7. CASE proc' = m
  BY <1>1, <1>5, <1>6, <1>7 DEF AfterMulti
<1>8. CASE proc' = [proc EXCEPT ![p] = NoProc]
  BY <1>1, <1>3, <1>8, NoProcFacts DEF AfterMulti
<1>9. CASE /\ others # {}
           /\ proc' = [m EXCEPT ![victim].pc = IF @ = "in" THEN "exit" ELSE @]
  <2>1. PICK c : c = IF m[victim].pc = "in" THEN "exit" ELSE m[victim].pc
    OBVIOUS
  <2>2. PICK b : b = [m[victim] EXCEPT !.pc = c]
    OBVIOUS
  <2>3. proc' = [m EXCEPT ![victim] = b]
    BY <1>9, <2>1, <2>2
  <2>4. c \in Pcs /\ m[victim] \in Process
    BY <1>2, <1>6, <1>9, <2>1 DEF Process, Pcs
  <2>5. /\ b \in Process /\ b.pc = c /\ b.uid = m[victim].uid /\ b.ent = m[victim].ent
        /\ b.own = m[victim].own
    BY <2>2, <2>4, PcFacts
  <2>6. /\ proc' \in [Telnet -> Process]
        /\ proc'[q] = IF q = victim THEN b ELSE m[q]
    BY <1>2, <1>6, <1>9, <2>3, <2>5
  <2>7. CASE q = p
    BY <1>1, <1>5, <1>6, <2>1, <2>5, <2>6, <2>7 DEF AfterMulti
  <2>8. CASE q # p /\ q # victim
    BY <1>1, <1>6, <2>6, <2>8 DEF AfterMulti
  <2>9. CASE q # p /\ q = victim
    <3>1. m[q] = proc[q] /\ proc'[q] = b
      BY <1>6, <2>6, <2>9
    <3>2. CASE proc[q].pc = "in"
      BY <1>1, <2>1, <2>5, <2>6, <2>9, <3>1, <3>2 DEF AfterMulti
    <3>3. CASE proc[q].pc # "in"
      <4>1. c = proc[q].pc
        BY <2>1, <2>9, <3>1, <3>3
      <4>2. b = proc[q]
        <5>1. proc[q] \in Process /\ b = [proc[q] EXCEPT !.pc = proc[q].pc]
          BY <2>2, <2>4, <2>9, <3>1, <4>1
        <5>2. QED
          BY <5>1 DEF Process
      <4>3. QED
        BY <1>1, <2>6, <2>9, <3>1, <4>2 DEF AfterMulti
    <3>4. QED
      BY <3>2, <3>3
  <2>10. QED
    BY <2>7, <2>8, <2>9
<1>10. QED
  BY <1>1, <1>7, <1>8, <1>9

LEMMA MultiCheckInv == ASSUME IInv, NEW p \in Telnet, MultiCheck(p) PROVE IInv'
<1>1. /\ proc[p].pc = "login" /\ proc' \in [Telnet -> Process]
      /\ \A q \in Telnet : AfterMulti(p, q)
  BY MultiCheckProc
<1>2. /\ UNCHANGED <<uinfo, head, next, activeuser, wwwguestnum, peak, sweep, req, clear, harm>>
      /\ uindex' = IF proc[p].uid = Guest THEN uindex ELSE Cleared(proc[p].uid)
  BY DEF MultiCheck
<1>3. proc[p].uid \in Users \cup {Guest}
  BY <1>1, ProcFacts
<1>4. \A q \in Telnet : \/ proc'[q].pc # "sweep" /\ proc[q].pc # "sweep"
                        \/ proc'[q].pc = proc[q].pc
  BY <1>1, NoProcFacts DEF AfterMulti
<1>5. EntsKept
  BY <1>1, NoProcFacts DEF EntsKept, AfterMulti
<1>6. OwnersKept
  <2>1. ASSUME NEW q \in Telnet
        PROVE  /\ proc'[q].own => proc[q].own /\ proc'[q].ent = proc[q].ent
               /\ proc'[q].ent # 0 => proc'[q].ent = proc[q].ent /\ (proc[q].own => proc'[q].own)
    <3>1. \/ proc'[q] = NoProc
          \/ proc'[q].ent = proc[q].ent /\ proc'[q].own = proc[q].own
      BY <1>1, Zenon DEF AfterMulti
    <3>2. QED
      BY <3>1, NoProcFacts, Zenon
  <2>2. QED
    BY <1>2, <2>1, Zenon DEF OwnersKept
<1>7. \A k \in Slot : SameSession(k)
  BY <1>2 DEF SameSession
<1>8. EntriesDropped /\ uindex' \in Index
  <2>1. CASE proc[p].uid = Guest
    BY <1>2, <2>1 DEF EntriesDropped, IInv, TypeOK, Index
  <2>2. CASE proc[p].uid # Guest
    BY <1>2, <1>3, <2>2, ClearedDrops
  <2>3. QED
    BY <2>1, <2>2
<1>9. Quiet
  BY <1>2, <1>5, <1>7, <1>8 DEF Quiet, Steady, IInv, TypeOK
<1>10. SharedInv'
  BY <1>9, QuietStep
<1>11. ReqInv' /\ OwnInv'
  BY <1>2, <1>6, <1>7, RequestsSame, OwnersSame
<1>12. ActorType'
  BY <1>1, <1>2 DEF ActorType, IInv, TypeOK
<1>13. ProcInv'
  <2>1. ASSUME NEW q \in Telnet
        PROVE  /\ proc'[q].pc # "none" => proc'[q].uid \in Users \cup {Guest}
               /\ proc'[q].pc \in InTable <=> proc'[q].ent # 0
               /\ proc'[q].pc = "sweep" <=> sweep'.by = q
    <3>1. CASE proc'[q] = NoProc /\ q = p
      BY <1>1, <1>2, <3>1, NoProcFacts, ProcFacts DEF InTable
    <3>2. CASE ~(proc'[q] = NoProc /\ q = p)
      BY <1>1, <1>2, <3>2, ProcFacts DEF InTable, AfterMulti
    <3>3. QED
      BY <3>1, <3>2
  <2>2. QED
    BY <2>1 DEF ProcInv
<1>14. QED
  BY <1>10, <1>11, <1>12, <1>13, NextParts DEF ActorInv

-----------------------------------------------------------------------------
(***************************************************************************)
(* The sessions go on.                                                     *)
(***************************************************************************)

(* Steps under which no process and no request changes.                    *)
LEMMA ActorsSame ==
    ASSUME IInv, \A k \in Slot : SameSession(k), UNCHANGED <<proc, sweep>>, harm \subseteq harm',
           harm' \subseteq {"logout", "clear", "overflow"},
           req' \in [Requests -> Request],
           clear' \in [uid : Users, entry : Entry] \cup {NoClear}, ReqInv'
    PROVE  ActorInv' /\ EntsKept
<1>1. EntsKept /\ OwnersKept
  BY Zenon DEF EntsKept, OwnersKept
<1>2. OwnInv'
  BY <1>1, OwnersSame
<1>3. ActorType' /\ ProcInv'
  BY DEF ActorType, ProcInv, IInv, TypeOK
<1>4. QED
  BY <1>1, <1>2, <1>3 DEF ActorInv

(* One slot is written: lasttime or iskicked.                              *)
Touches(k, r) ==
    /\ k \in Slot /\ uinfo' = [uinfo EXCEPT ![k] = r] /\ r \in Session \cup {Unused}
    /\ r.active <=> uinfo[k].active
    /\ r.pid = uinfo[k].pid /\ r.uid = uinfo[k].uid /\ r.host = uinfo[k].host
    /\ UNCHANGED <<head, next, uindex, activeuser, wwwguestnum, peak>>
    /\ UNCHANGED <<sweep, proc, req, clear, harm>>

LEMMA TouchStep == ASSUME IInv, NEW k, NEW r, Touches(k, r), ReqInv' PROVE IInv'
<1>1. uinfo'[k] = r /\ \A i \in Slot : i # k => uinfo'[i] = uinfo[i]
  BY DEF Touches, IInv, TypeOK
<1>2. \A i \in Slot : SameSession(i)
  <2>1. SameSession(k)
    BY <1>1, Zenon DEF Touches, SameSession
  <2>2. \A i \in Slot : i # k => SameSession(i)
    BY <1>1, Zenon DEF SameSession
  <2>3. QED
    BY <2>1, <2>2
<1>3. uinfo' \in [Slot -> Session \cup {Unused}] /\ uindex' \in Index
  BY DEF Touches, IInv, TypeOK, Index
<1>4. ActorInv' /\ EntsKept
  <2>1. UNCHANGED <<proc, sweep, req, clear, harm>>
    BY DEF Touches
  <2>2. /\ harm' \subseteq {"logout", "clear", "overflow"} /\ req' \in [Requests -> Request]
        /\ clear' \in [uid : Users, entry : Entry] \cup {NoClear}
    BY <2>1 DEF IInv, TypeOK
  <2>3. QED
    BY <1>2, <2>1, <2>2, ActorsSame
<1>5. Quiet
  BY <1>2, <1>3, <1>4 DEF Quiet, Steady, Touches, EntriesDropped
<1>6. SharedInv'
  BY <1>5, QuietStep
<1>7. QED
  BY <1>4, <1>6, NextParts

LEMMA AgeFacts ==
    ASSUME NEW l \in Session \cup {Unused}, NEW n \in 0..2, l \in Session \/ n = 0,
           NEW r, r = [l EXCEPT !.age = n]
    PROVE  /\ r \in Session \cup {Unused} /\ r.age = n
           /\ r.active <=> l.active
           /\ r.pid = l.pid /\ r.uid = l.uid /\ r.host = l.host
<1>1. CASE l \in Session
  <2>1. r \in Session /\ r.age = n /\ r.pid = l.pid /\ r.uid = l.uid /\ r.host = l.host
    BY <1>1 DEF Session
  <2>2. r.active /\ l.active
    BY <1>1, <2>1 DEF Session
  <2>3. QED
    BY <2>1, <2>2
<1>2. CASE l = Unused /\ n = 0
  <2>1. r = Unused
    BY <1>2 DEF Unused
  <2>2. QED
    BY <1>2, <2>1, UnusedFacts
<1>3. QED
  BY <1>1, <1>2

LEMMA KickFacts ==
    ASSUME NEW l \in Session, NEW r, r = [l EXCEPT !.kicked = TRUE]
    PROVE  /\ r \in Session /\ r.age = l.age /\ r.active /\ l.active
           /\ r.pid = l.pid /\ r.uid = l.uid /\ r.host = l.host
<1>1. r \in Session /\ r.age = l.age /\ r.pid = l.pid /\ r.uid = l.uid /\ r.host = l.host
  BY DEF Session
<1>2. r.active /\ l.active
  BY <1>1 DEF Session
<1>3. QED
  BY <1>1, <1>2

LEMMA KeyInv == ASSUME IInv, NEW p \in Telnet, Key(p) PROVE IInv'
<1>1. PICK k : k = proc[p].ent
  OBVIOUS
<1>2. PICK r : r = [uinfo[k] EXCEPT !.age = 0]
  OBVIOUS
<1>3. /\ proc[p].pc = "in" /\ uinfo' = [uinfo EXCEPT ![k] = r]
      /\ UNCHANGED <<head, next, uindex, activeuser, wwwguestnum, peak>>
      /\ UNCHANGED <<sweep, proc, req, clear, harm>>
  BY <1>1, <1>2 DEF Key
<1>4. k \in Slot
  BY <1>1, <1>3, ProcFacts DEF InTable
<1>5. uinfo \in [Slot -> Session \cup {Unused}] /\ uinfo[k] \in Session \cup {Unused}
  BY <1>4 DEF IInv, TypeOK
<1>6. /\ r \in Session \cup {Unused} /\ r.age = 0
      /\ r.active <=> uinfo[k].active
      /\ r.pid = uinfo[k].pid /\ r.uid = uinfo[k].uid /\ r.host = uinfo[k].host
  BY <1>2, <1>5, AgeFacts
<1>7. Touches(k, r)
  BY <1>3, <1>4, <1>6, Zenon DEF Touches
<1>8. uinfo'[k] = r /\ \A i \in Slot : i # k => uinfo'[i] = uinfo[i]
  BY <1>3, <1>4, <1>5
<1>9. ReqInv'
  <2>1. \A i \in Slot : SameSession(i)
    BY <1>6, <1>8, Zenon DEF SameSession
  <2>2. \A i \in Slot : uinfo'[i].age = uinfo[i].age \/ uinfo'[i].age = 0
    BY <1>6, <1>8, Zenon
  <2>3. QED
    BY <1>3, <2>1, <2>2, RequestsSame
<1>10. QED
  BY <1>7, <1>9, TouchStep

LEMMA KickWebInv == ASSUME IInv, NEW k \in Slot, KickWeb(k) PROVE IInv'
<1>1. PICK r : r = [uinfo[k] EXCEPT !.kicked = TRUE]
  OBVIOUS
<1>2. /\ uinfo[k].active /\ uinfo' = [uinfo EXCEPT ![k] = r]
      /\ UNCHANGED <<head, next, uindex, activeuser, wwwguestnum, peak>>
      /\ UNCHANGED <<sweep, proc, req, clear, harm>>
  BY <1>1 DEF KickWeb
<1>3. uinfo \in [Slot -> Session \cup {Unused}] /\ uinfo[k] \in Session
  BY <1>2, SessionFacts DEF IInv, TypeOK
<1>4. /\ r \in Session /\ r.age = uinfo[k].age /\ r.active /\ uinfo[k].active
      /\ r.pid = uinfo[k].pid /\ r.uid = uinfo[k].uid /\ r.host = uinfo[k].host
  BY <1>1, <1>3, KickFacts
<1>5. Touches(k, r)
  BY <1>2, <1>4, Zenon DEF Touches
<1>6. uinfo'[k] = r /\ \A i \in Slot : i # k => uinfo'[i] = uinfo[i]
  BY <1>2, <1>3
<1>7. ReqInv'
  <2>1. \A i \in Slot : SameSession(i)
    BY <1>4, <1>6, Zenon DEF SameSession
  <2>2. \A i \in Slot : uinfo'[i].age = uinfo[i].age \/ uinfo'[i].age = 0
    BY <1>4, <1>6, Zenon
  <2>3. QED
    BY <1>2, <2>1, <2>2, RequestsSame
<1>8. QED
  BY <1>5, <1>7, TouchStep

LEMMA AgeInv == ASSUME IInv, NEW k \in Slot, Age(k) PROVE IInv'
<1>1. PICK r : r = [uinfo[k] EXCEPT !.age = uinfo[k].age + 1]
  OBVIOUS
<1>2. /\ uinfo[k].active /\ uinfo' = [uinfo EXCEPT ![k] = r] /\ uinfo[k].age < 2
      /\ uinfo[k].age = 1 => \A q \in Requests : req[q].slot # k
      /\ UNCHANGED <<head, next, uindex, activeuser, wwwguestnum, peak>>
      /\ UNCHANGED <<sweep, proc, req, clear, harm>>
  BY <1>1 DEF Age
<1>3. uinfo \in [Slot -> Session \cup {Unused}] /\ uinfo[k] \in Session
  BY <1>2, SessionFacts DEF IInv, TypeOK
<1>4. uinfo[k].age \in 0..2 /\ uinfo[k].age + 1 \in 0..2
  BY <1>2, <1>3 DEF Session
<1>5. /\ r \in Session \cup {Unused} /\ r.age = uinfo[k].age + 1
      /\ r.active <=> uinfo[k].active
      /\ r.pid = uinfo[k].pid /\ r.uid = uinfo[k].uid /\ r.host = uinfo[k].host
  BY <1>1, <1>3, <1>4, AgeFacts
<1>6. Touches(k, r)
  BY <1>2, <1>5, Zenon DEF Touches
<1>7. uinfo'[k] = r /\ \A i \in Slot : i # k => uinfo'[i] = uinfo[i]
  BY <1>2, <1>3
<1>8. ReqInv'
  <2>1. ASSUME NEW q \in Requests, req[q].own
        PROVE  /\ req[q].slot # 0 /\ uinfo'[req[q].slot].active
               /\ uinfo'[req[q].slot].pid = WWW /\ uinfo'[req[q].slot].uid \in Users
               /\ uinfo'[req[q].slot].age < 2
    <3>1. /\ req[q].slot # 0 /\ uinfo[req[q].slot].active
          /\ uinfo[req[q].slot].pid = WWW /\ uinfo[req[q].slot].uid \in Users
          /\ uinfo[req[q].slot].age < 2
      BY <2>1 DEF IInv, ReqInv
    <3>2. req[q].slot \in Slot
      <4>1. req[q] \in Request
        BY DEF IInv, TypeOK
      <4>2. QED
        BY <3>1, <4>1 DEF Request, Slot
    <3>3. CASE req[q].slot = k
      <4>1. uinfo[k].age = 0
        BY <1>2, <1>4, <3>3
      <4>2. QED
        BY <1>5, <1>7, <3>1, <3>3, <4>1
    <3>4. CASE req[q].slot # k
      BY <1>7, <3>1, <3>2, <3>4
    <3>5. QED
      BY <3>3, <3>4
  <2>2. UNCHANGED req
    BY <1>2
  <2>3. QED
    BY <2>1, <2>2, Zenon DEF ReqInv
<1>9. QED
  BY <1>6, <1>8, TouchStep

-----------------------------------------------------------------------------
(***************************************************************************)
(* Logins.                                                                 *)
(***************************************************************************)
LEMMA NewFacts ==
    ASSUME NEW pid \in Telnet \cup {WWW}, NEW u \in Users \cup {Guest}, NEW h \in Hosts,
           NEW up, up = NewSession(pid, u, h)
    PROVE  /\ up \in Session /\ up.age = 0 /\ up.pid = pid /\ up.uid = u /\ up.host = h
           /\ up.active
<1>1. up \in Session /\ up.age = 0 /\ up.pid = pid /\ up.uid = u /\ up.host = h
  BY DEF NewSession, Session
<1>2. QED
  BY <1>1 DEF Session

LEMMA LoginLogs ==
    ASSUME NEW up \in Session, up.age = 0, NEW index, utmp_login(up, index)
    PROVE  /\ Logs(up) /\ uindex' = add_uindex(index, up.uid, head[0])
           /\ harm' \subseteq harm \cup {"overflow"}
           /\ \/ up.uid = Guest \/ (\E i \in Entry : uindex'[up.uid][i] = head[0])
              \/ "overflow" \in harm'
<1>1. CASE up.uid = Guest \/ \E i \in Entry : uindex'[up.uid][i] = head[0]
  BY <1>1 DEF utmp_login, Logs
<1>2. CASE ~(up.uid = Guest \/ \E i \in Entry : uindex'[up.uid][i] = head[0])
  <2>1. harm' = harm \cup {"overflow"}
    BY <1>2 DEF utmp_login
  <2>2. Logs(up) /\ uindex' = add_uindex(index, up.uid, head[0])
    BY <2>1 DEF utmp_login, Logs
  <2>3. QED
    BY <2>1, <2>2
<1>3. QED
  BY <1>1, <1>2

(* A login takes no slot anybody owns.                                     *)
LEMMA LoginOwners ==
    ASSUME IInv, NEW up, Logs(up)
    PROVE  /\ UNCHANGED req => ReqInv'
           /\ "logout" \in harm' \/ "logout" \notin harm
           /\ \A p \in Telnet : proc[p].own =>
                  /\ proc[p].ent # 0 /\ uinfo'[proc[p].ent].active
                  /\ uinfo'[proc[p].ent].pid = p
<1>1. /\ head[0] \in Slot /\ ~uinfo[head[0]].active
      /\ \A k \in Slot : k # head[0] => uinfo'[k] = uinfo[k]
  BY LoginFacts
<1>2. UNCHANGED req => ReqInv'
  <2>1. SUFFICES ASSUME UNCHANGED req, NEW q \in Requests, req[q].own
        PROVE  /\ req[q].slot # 0 /\ uinfo'[req[q].slot].active
               /\ uinfo'[req[q].slot].pid = WWW /\ uinfo'[req[q].slot].uid \in Users
               /\ uinfo'[req[q].slot].age < 2
    BY Zenon DEF ReqInv
  <2>2. /\ req[q].slot # 0 /\ uinfo[req[q].slot].active
        /\ uinfo[req[q].slot].pid = WWW /\ uinfo[req[q].slot].uid \in Users
        /\ uinfo[req[q].slot].age < 2
    BY <2>1 DEF IInv, ReqInv
  <2>3. req[q].slot \in Slot
    <3>1. req[q] \in Request
      BY DEF IInv, TypeOK
    <3>2. QED
      BY <2>2, <3>1 DEF Request, Slot
  <2>4. uinfo'[req[q].slot] = uinfo[req[q].slot]
    BY <1>1, <2>2, <2>3
  <2>5. QED
    BY <2>2, <2>4
<1>3. "logout" \in harm' \/ "logout" \notin harm
  BY DEF Logs
<1>4. ASSUME NEW p \in Telnet, proc[p].own
      PROVE  /\ proc[p].ent # 0 /\ uinfo'[proc[p].ent].active
             /\ uinfo'[proc[p].ent].pid = p
  <2>1. proc[p].ent # 0 /\ uinfo[proc[p].ent].active /\ uinfo[proc[p].ent].pid = p
    BY <1>4 DEF IInv, OwnInv
  <2>2. uinfo'[proc[p].ent] = uinfo[proc[p].ent]
    BY <1>1, <2>1, ProcFacts
  <2>3. QED
    BY <2>1, <2>2
<1>5. QED
  BY <1>2, <1>3, <1>4

LEMMA EnterInv == ASSUME IInv, NEW p \in Telnet, Enter(p) PROVE IInv'
<1>1. PICK up : up = NewSession(p, proc[p].uid, NoHost)
  OBVIOUS
<1>2. PICK a : a = [proc[p] EXCEPT !.pc = IF sweep' = NoSweep THEN "in" ELSE "sweep",
                                   !.ent = head[0], !.own = TRUE]
  OBVIOUS
<1>3. /\ proc[p].pc = "enter" /\ sweep.by = Nobody
      /\ utmp_login(up, uindex) /\ sweep' \in {NoSweep, [by |-> p, at |-> 1]}
      /\ proc' = [proc EXCEPT ![p] = a] /\ UNCHANGED <<req, clear>>
  BY <1>1, <1>2 DEF Enter, LockFree, StartSweep
<1>4. proc[p] \in Process /\ proc[p].uid \in Users \cup {Guest} /\ NoHost \in Hosts
  BY <1>3, ProcFacts DEF NoHost
<1>5. /\ up \in Session /\ up.age = 0 /\ up.pid = p /\ up.active /\ up.uid = proc[p].uid
  BY <1>1, <1>4, NewFacts
<1>6. /\ Logs(up) /\ uindex' = add_uindex(uindex, up.uid, head[0])
      /\ harm' \subseteq harm \cup {"overflow"}
      /\ \/ up.uid = Guest \/ (\E i \in Entry : uindex'[up.uid][i] = head[0])
         \/ "overflow" \in harm'
  BY <1>3, <1>5, LoginLogs
<1>7. head[0] \in Slot /\ head[0] \in 0..MaxActive /\ head[0] # 0 /\ uinfo'[head[0]] = up
  BY <1>6, LoginFacts DEF Slot
<1>8. /\ a \in Process /\ a.uid = proc[p].uid /\ a.ent = head[0]
      /\ a.pc = IF sweep' = NoSweep THEN "in" ELSE "sweep"
  <2>1. PICK c \in {"in", "sweep"} : c = IF sweep' = NoSweep THEN "in" ELSE "sweep"
    OBVIOUS
  <2>2. a = [proc[p] EXCEPT !.pc = c, !.ent = head[0], !.own = TRUE]
    BY <1>2, <2>1
  <2>3. a \in Process
    BY <1>4, <1>7, <2>2 DEF Process
  <2>4. a.uid = proc[p].uid /\ a.ent = head[0] /\ a.pc = c
    BY <1>4, <2>2 DEF Process
  <2>5. QED
    BY <2>1, <2>3, <2>4
<1>9. a.own
  BY <1>2, <1>4 DEF Process
<1>10. proc'[p] = a /\ \A q \in Telnet : q # p => proc'[q] = proc[q]
  BY <1>3 DEF IInv, TypeOK
<1>11. /\ sweep' \in [by : Telnet \cup {WWW, Nobody}, at : 0..MaxActive + 1]
       /\ sweep'.by = IF sweep' = NoSweep THEN Nobody ELSE p
  <2>1. CASE sweep' = NoSweep
    BY <2>1, NoProcFacts
  <2>2. CASE sweep' # NoSweep
    <3>1. sweep' = [by |-> p, at |-> 1]
      BY <1>3, <2>2
    <3>2. QED
      BY <2>2, <3>1
  <2>3. QED
    BY <2>1, <2>2
<1>12. Indexes(up, uindex)
  <2>1. uindex \in Index
    BY DEF IInv, TypeOK, Index
  <2>2. \A q \in Telnet : proc'[q].ent = proc[q].ent \/ proc'[q].ent = head[0]
    BY <1>8, <1>10
  <2>3. QED
    BY <1>6, <2>1, <2>2 DEF Indexes
<1>13. SharedInv'
  BY <1>6, <1>12, LoginStep
<1>14. ReqInv' /\ \A q \in Telnet : proc[q].own =>
                  /\ proc[q].ent # 0 /\ uinfo'[proc[q].ent].active
                  /\ uinfo'[proc[q].ent].pid = q
  BY <1>3, <1>6, LoginOwners
<1>15. OwnInv'
  <2>1. ASSUME NEW q \in Telnet
        PROVE  /\ proc'[q].own => /\ proc'[q].ent # 0 /\ uinfo'[proc'[q].ent].active
                                  /\ uinfo'[proc'[q].ent].pid = q
               /\ "logout" \notin harm' /\ proc'[q].ent # 0 => proc'[q].own
    <3>1. CASE q = p
      BY <1>5, <1>7, <1>8, <1>9, <1>10, <3>1
    <3>2. CASE q # p
      <4>1. proc'[q] = proc[q]
        BY <1>10, <3>2
      <4>2. "logout" \notin harm /\ proc[q].ent # 0 => proc[q].own
        BY DEF IInv, OwnInv
      <4>3. "logout" \notin harm' => "logout" \notin harm
        BY <1>6 DEF Logs
      <4>4. QED
        BY <1>14, <4>1, <4>2, <4>3, Zenon
    <3>3. QED
      BY <3>1, <3>2
  <2>2. QED
    BY <2>1, Zenon DEF OwnInv
<1>16. ProcInv'
  <2>1. ASSUME NEW q \in Telnet
        PROVE  /\ proc'[q].pc # "none" => proc'[q].uid \in Users \cup {Guest}
               /\ proc'[q].pc \in InTable <=> proc'[q].ent # 0
               /\ proc'[q].pc = "sweep" <=> sweep'.by = q
    <3>1. q # Nobody /\ proc[q].pc # "sweep"
      BY <1>3, ProcFacts
    <3>2. CASE q = p
      BY <1>4, <1>7, <1>8, <1>10, <1>11, <3>1, <3>2 DEF InTable
    <3>3. CASE q # p
      BY <1>10, <1>11, <3>1, <3>3, ProcFacts
    <3>4. QED
      BY <3>2, <3>3
  <2>2. QED
    BY <2>1 DEF ProcInv
<1>17. ActorType'
  <2>1. proc' \in [Telnet -> Process]
    BY <1>3, <1>8 DEF IInv, TypeOK
  <2>2. QED
    BY <1>3, <1>6, <1>11, <2>1 DEF ActorType, IInv, TypeOK
<1>18. QED
  BY <1>13, <1>14, <1>15, <1>16, <1>17, NextParts DEF ActorInv

LEMMA WebLoginInv ==
    ASSUME IInv, NEW u \in Users \cup {Guest}, NEW h \in Hosts, WebLogin(u, h) PROVE IInv'
<1>1. PICK up : up = NewSession(WWW, u, h)
  OBVIOUS
<1>2. PICK index : index = IF u = Guest THEN uindex ELSE Cleared(u)
  OBVIOUS
<1>3. /\ sweep.by = Nobody /\ utmp_login(up, index)
      /\ sweep' \in {NoSweep, [by |-> WWW, at |-> 1]} /\ UNCHANGED <<proc, req, clear>>
  BY <1>1, <1>2 DEF WebLogin, LockFree, StartSweep
<1>4. /\ up \in Session /\ up.age = 0 /\ up.pid = WWW /\ up.active /\ up.uid = u
  BY <1>1, NewFacts
<1>5. /\ Logs(up) /\ uindex' = add_uindex(index, up.uid, head[0])
      /\ harm' \subseteq harm \cup {"overflow"}
      /\ \/ up.uid = Guest \/ (\E i \in Entry : uindex'[up.uid][i] = head[0])
         \/ "overflow" \in harm'
  BY <1>3, <1>4, LoginLogs
<1>6. /\ index \in Index
      /\ \A v \in Users : \A i \in Entry :
            \/ index[v][i] = uindex[v][i]
            \/ index[v][i] = 0 /\ (uindex[v][i] \in Slot => ~Live(uindex[v][i]))
  <2>1. CASE u = Guest
    BY <1>2, <2>1 DEF IInv, TypeOK, Index
  <2>2. CASE u # Guest
    <3>1. index = Cleared(u) /\ u \in Users
      BY <1>2, <2>2
    <3>2. index \in Index
      BY <3>1, ClearedFacts DEF IInv
    <3>3. ASSUME NEW v \in Users, NEW i \in Entry
          PROVE  \/ index[v][i] = uindex[v][i]
                 \/ index[v][i] = 0 /\ (uindex[v][i] \in Slot => ~Live(uindex[v][i]))
      <4>1. \/ index[v][i] = uindex[v][i]
            \/ index[v][i] = 0 /\ Dead(uinfo[uindex[v][i]])
        BY <3>1, ClearedFacts DEF IInv
      <4>2. QED
        BY <4>1, DeadNotLive
    <3>4. QED
      BY <3>2, <3>3
  <2>3. QED
    BY <2>1, <2>2
<1>7. Indexes(up, index)
  BY <1>3, <1>5, <1>6 DEF Indexes
<1>8. SharedInv'
  BY <1>5, <1>7, LoginStep
<1>9. ReqInv' /\ \A q \in Telnet : proc[q].own =>
                  /\ proc[q].ent # 0 /\ uinfo'[proc[q].ent].active
                  /\ uinfo'[proc[q].ent].pid = q
  BY <1>3, <1>5, LoginOwners
<1>10. OwnInv'
  <2>1. "logout" \notin harm' => "logout" \notin harm
    BY <1>5 DEF Logs
  <2>2. \A q \in Telnet : "logout" \notin harm /\ proc[q].ent # 0 => proc[q].own
    BY DEF IInv, OwnInv
  <2>3. QED
    BY <1>3, <1>9, <2>1, <2>2, Zenon DEF OwnInv
<1>11. /\ sweep' \in [by : Telnet \cup {WWW, Nobody}, at : 0..MaxActive + 1]
       /\ sweep'.by \notin Telnet
  <2>1. CASE sweep' = NoSweep
    BY <2>1, NoProcFacts
  <2>2. CASE sweep' = [by |-> WWW, at |-> 1]
    BY <2>2
  <2>3. QED
    BY <1>3, <2>1, <2>2
<1>12. ProcInv'
  <2>1. \A q \in Telnet : proc[q].pc # "sweep" /\ sweep'.by # q
    BY <1>3, <1>11, ProcFacts
  <2>2. QED
    BY <1>3, <2>1 DEF ProcInv, IInv
<1>13. ActorType'
  BY <1>3, <1>5, <1>11 DEF ActorType, IInv, TypeOK
<1>14. QED
  BY <1>8, <1>9, <1>10, <1>12, <1>13, NextParts DEF ActorInv

LEMMA WebRefusedInv ==
    ASSUME IInv, NEW u \in Users \cup {Guest}, NEW h \in Hosts, WebRefused(u, h) PROVE IInv'
<1>1. /\ u \in Users /\ uindex' = Cleared(u)
      /\ UNCHANGED <<uinfo, head, next, activeuser, wwwguestnum, peak>>
      /\ UNCHANGED <<sweep, proc, req, clear, harm>>
  BY DEF WebRefused
<1>2. \A k \in Slot : SameSession(k)
  BY <1>1 DEF SameSession
<1>3. EntriesDropped /\ uindex' \in Index
  BY <1>1, ClearedDrops
<1>4. ReqInv'
  BY <1>1, <1>2, RequestsSame
<1>5. ActorInv' /\ EntsKept
  <2>1. /\ harm' \subseteq {"logout", "clear", "overflow"} /\ req' \in [Requests -> Request]
        /\ clear' \in [uid : Users, entry : Entry] \cup {NoClear}
    BY <1>1 DEF IInv, TypeOK
  <2>2. QED
    BY <1>1, <1>2, <1>4, <2>1, ActorsSame
<1>6. Quiet
  BY <1>1, <1>2, <1>3, <1>5 DEF Quiet, Steady, IInv, TypeOK
<1>7. QED
  BY <1>5, <1>6, QuietStep, NextParts

LEMMA LogoutRequestInv ==
    ASSUME IInv, NEW r \in Requests, NEW k \in Slot, LogoutRequest(r, k) PROVE IInv'
<1>1. /\ uinfo[k].active /\ uinfo[k].pid = WWW /\ uinfo[k].age = 0 /\ uinfo[k].uid # Guest
      /\ req' = [req EXCEPT ![r] = [slot |-> k, own |-> TRUE]]
      /\ UNCHANGED <<table, sweep, proc, clear, harm>>
  BY DEF LogoutRequest, user_init
<1>2. uinfo[k].uid \in Users
  BY <1>1, SessionFacts DEF IInv, Session
<1>3. /\ req' \in [Requests -> Request] /\ req'[r].slot = k
      /\ \A q \in Requests : q # r => req'[q] = req[q]
  <2>1. [slot |-> k, own |-> TRUE] \in Request
    BY DEF Request, Slot
  <2>2. QED
    BY <1>1, <2>1 DEF IInv, TypeOK
<1>4. ReqInv'
  <2>1. ASSUME NEW q \in Requests, req'[q].own
        PROVE  /\ req'[q].slot # 0 /\ uinfo[req'[q].slot].active
               /\ uinfo[req'[q].slot].pid = WWW /\ uinfo[req'[q].slot].uid \in Users
               /\ uinfo[req'[q].slot].age < 2
    <3>1. CASE q = r
      BY <1>1, <1>2, <1>3, <3>1, SlotFacts
    <3>2. CASE q # r
      BY <1>3, <2>1, <3>2 DEF IInv, ReqInv
    <3>3. QED
      BY <3>1, <3>2
  <2>2. UNCHANGED uinfo
    BY <1>1 DEF table
  <2>3. QED
    BY <2>1, <2>2, Zenon DEF ReqInv
<1>5. \A i \in Slot : SameSession(i)
  BY <1>1 DEF SameSession, table
<1>6. ActorInv' /\ EntsKept
  <2>1. /\ harm' \subseteq {"logout", "clear", "overflow"}
        /\ clear' \in [uid : Users, entry : Entry] \cup {NoClear}
    BY <1>1 DEF IInv, TypeOK
  <2>2. QED
    BY <1>1, <1>3, <1>4, <1>5, <2>1, ActorsSame
<1>7. Quiet
  BY <1>1, <1>5, <1>6 DEF Quiet, Steady, EntriesDropped, table, IInv, TypeOK, Index
<1>8. QED
  BY <1>6, <1>7, QuietStep, NextParts

LEMMA CountDeadInv ==
    ASSUME IInv, NEW u \in Users, NEW i \in Entry, CountDead(u, i) PROVE IInv'
<1>1. clear' = [uid |-> u, entry |-> i] /\ UNCHANGED <<table, sweep, proc, req, harm>>
  BY DEF CountDead
<1>2. clear' \in [uid : Users, entry : Entry] \cup {NoClear}
  BY <1>1
<1>3. QED
  BY <1>1, <1>2, SweepBy, NoProcStep

LEMMA ClearEntryInv == ASSUME IInv, ClearEntry PROVE IInv'
<1>1. PICK u, m : u = clear.uid /\ m = clear.entry
  OBVIOUS
<1>2. /\ clear # NoClear /\ clear' = NoClear
      /\ uindex' = [uindex EXCEPT ![u][m] = 0]
      /\ harm' = IF uindex[u][m] # 0 /\ Live(uindex[u][m]) THEN harm \cup {"clear"} ELSE harm
      /\ UNCHANGED <<uinfo, head, next, activeuser, wwwguestnum, peak>>
      /\ UNCHANGED <<sweep, proc, req>>
  BY <1>1 DEF ClearEntry
<1>3. u \in Users /\ m \in Entry
  BY <1>1, <1>2 DEF IInv, TypeOK
<1>4. /\ uindex' \in Index
      /\ \A v \in Users : \A i \in Entry :
             uindex'[v][i] = IF v = u /\ i = m THEN 0 ELSE uindex[v][i]
  <2>1. uindex \in Index
    BY DEF IInv, TypeOK, Index
  <2>2. 0 \in 0..MaxActive
    OBVIOUS
  <2>3. QED
    BY <1>2, <1>3, <2>1, <2>2 DEF Index
<1>5. EntriesDropped
  <2>1. ASSUME uindex[u][m] \in Slot PROVE ~Live(uindex[u][m]) \/ "clear" \in harm'
    BY <1>2, <2>1, SlotFacts
  <2>2. ASSUME NEW v \in Users, NEW i \in Entry
        PROVE  \/ uindex'[v][i] = uindex[v][i]
               \/ uindex'[v][i] = 0 /\ (uindex[v][i] \in Slot => ~Live(uindex[v][i]) \/ "clear" \in harm')
    <3>1. CASE v = u /\ i = m
      BY <1>4, <2>1, <3>1
    <3>2. CASE ~(v = u /\ i = m)
      BY <1>4, <3>2
    <3>3. QED
      BY <3>1, <3>2
  <2>3. QED
    BY <2>2 DEF EntriesDropped
<1>6. \A k \in Slot : SameSession(k)
  BY <1>2 DEF SameSession
<1>7. ReqInv'
  BY <1>2, <1>6, RequestsSame
<1>8. harm \subseteq harm' /\ harm' \subseteq {"logout", "clear", "overflow"}
  BY <1>2 DEF IInv, TypeOK
<1>9. ActorInv' /\ EntsKept
  <2>1. /\ req' \in [Requests -> Request]
        /\ clear' \in [uid : Users, entry : Entry] \cup {NoClear}
    BY <1>2 DEF IInv, TypeOK
  <2>2. QED
    BY <1>2, <1>6, <1>7, <1>8, <2>1, ActorsSame
<1>10. Quiet
  BY <1>2, <1>4, <1>5, <1>6, <1>8, <1>9 DEF Quiet, Steady, IInv, TypeOK
<1>11. QED
  BY <1>9, <1>10, QuietStep, NextParts

-----------------------------------------------------------------------------
(***************************************************************************)
(* The ends of sessions.                                                   *)
(***************************************************************************)

(* Everyone who has slot k loses it; everyone else is as before.  gone is  *)
(* the process, done the requests that are over by it, if any.             *)
Disowned(k, gone, done) ==
    /\ proc' \in [Telnet -> Process] /\ req' \in [Requests -> Request]
    /\ \A p \in Telnet :
           \/ p = gone /\ proc'[p] = NoProc
           \/ /\ p # gone /\ proc[p].ent # k /\ proc'[p] = proc[p]
           \/ /\ p # gone /\ proc[p].ent = k /\ proc'[p].pc = proc[p].pc
              /\ proc'[p].uid = proc[p].uid /\ proc'[p].ent = k /\ ~proc'[p].own
    /\ \A r \in Requests :
           \/ r \in done /\ req'[r] = NoReq
           \/ r \notin done /\ req[r].slot # k /\ req'[r] = req[r]
           \/ r \notin done /\ req[r].slot = k /\ req'[r].slot = k /\ ~req'[r].own

LEMMA DisownFacts ==
    ASSUME IInv, NEW k
    PROVE  /\ \A p \in Telnet : LET l == [proc[p] EXCEPT !.own = FALSE] IN
                  /\ l \in Process /\ l.pc = proc[p].pc /\ l.uid = proc[p].uid
                  /\ l.ent = proc[p].ent /\ ~l.own
           /\ \A r \in Requests : LET l == [req[r] EXCEPT !.own = FALSE] IN
                  l \in Request /\ l.slot = req[r].slot /\ ~l.own
<1>1. ASSUME NEW p \in Telnet, NEW l, l = [proc[p] EXCEPT !.own = FALSE]
      PROVE  /\ l \in Process /\ l.pc = proc[p].pc /\ l.uid = proc[p].uid
             /\ l.ent = proc[p].ent /\ ~l.own
  <2>1. proc[p] \in Process
    BY DEF IInv, TypeOK
  <2>2. QED
    BY <1>1, <2>1 DEF Process
<1>2. ASSUME NEW r \in Requests, NEW l, l = [req[r] EXCEPT !.own = FALSE]
      PROVE  l \in Request /\ l.slot = req[r].slot /\ ~l.own
  <2>1. req[r] \in Request
    BY DEF IInv, TypeOK
  <2>2. QED
    BY <1>2, <2>1 DEF Request
<1>3. QED
  BY <1>1, <1>2, Zenon

(* A session ends; outside the races its slot is nobody else's.            *)
LEMMA EndStep ==
    ASSUME IInv, NEW k, Frees(k) \/ FreesGuest(k), NEW gone, NEW done, Disowned(k, gone, done),
           "logout" \notin harm' => \A p \in Telnet : p # gone => proc[p].ent # k,
           sweep' \in [by : Telnet \cup {WWW, Nobody}, at : 0..MaxActive + 1],
           sweep'.by = sweep.by, gone \in Telnet => proc[gone].pc # "sweep",
           UNCHANGED clear, harm' \subseteq harm \cup {"logout"}
    PROVE  IInv'
<1>1. Ends(k) /\ k \in Slot /\ k # 0
  BY FreesEnds, SlotFacts DEF Ends
<1>2. EntsKept
  BY NoProcFacts DEF EntsKept, Disowned
<1>3. SharedInv'
  BY <1>2, FreesStep
<1>4. ActorType'
  BY DEF ActorType, Disowned, IInv, TypeOK
<1>5. ProcInv'
  <2>1. ASSUME NEW p \in Telnet
        PROVE  /\ proc'[p].pc # "none" => proc'[p].uid \in Users \cup {Guest}
               /\ proc'[p].pc \in InTable <=> proc'[p].ent # 0
               /\ proc'[p].pc = "sweep" <=> sweep'.by = p
    <3>1. CASE p = gone /\ proc'[p] = NoProc
      BY <3>1, NoProcFacts, ProcFacts DEF InTable
    <3>2. CASE /\ proc'[p].pc = proc[p].pc /\ proc'[p].uid = proc[p].uid
               /\ proc'[p].ent = proc[p].ent
      BY <3>2, ProcFacts
    <3>3. QED
      BY <3>1, <3>2 DEF Disowned
  <2>2. QED
    BY <2>1 DEF ProcInv
<1>6. OwnInv'
  <2>1. ASSUME NEW p \in Telnet
        PROVE  /\ proc'[p].own => /\ proc'[p].ent # 0 /\ uinfo'[proc'[p].ent].active
                                  /\ uinfo'[proc'[p].ent].pid = p
               /\ "logout" \notin harm' /\ proc'[p].ent # 0 => proc'[p].own
    <3>1. CASE p = gone /\ proc'[p] = NoProc
      BY <3>1, NoProcFacts
    <3>2. CASE p # gone /\ proc[p].ent # k /\ proc'[p] = proc[p]
      <4>1. /\ proc[p].own => /\ proc[p].ent # 0 /\ uinfo[proc[p].ent].active
                              /\ uinfo[proc[p].ent].pid = p
            /\ "logout" \notin harm /\ proc[p].ent # 0 => proc[p].own
        BY DEF IInv, OwnInv
      <4>2. "logout" \notin harm' => "logout" \notin harm
        BY <1>1 DEF Ends
      <4>3. proc[p].ent # 0 => uinfo'[proc[p].ent] = uinfo[proc[p].ent]
        BY <1>1, <3>2, ProcFacts DEF Ends
      <4>4. QED
        BY <3>2, <4>1, <4>2, <4>3, Zenon
    <3>3. CASE p # gone /\ proc[p].ent = k /\ ~proc'[p].own
      BY <3>3
    <3>4. QED
      BY <2>1, <3>1, <3>2, <3>3, Zenon DEF Disowned
  <2>2. QED
    BY <2>1, Zenon DEF OwnInv
<1>7. ReqInv'
  <2>1. ASSUME NEW r \in Requests, req'[r].own
        PROVE  /\ req'[r].slot # 0 /\ uinfo'[req'[r].slot].active
               /\ uinfo'[req'[r].slot].pid = WWW /\ uinfo'[req'[r].slot].uid \in Users
               /\ uinfo'[req'[r].slot].age < 2
    <3>1. req[r].slot # k /\ req'[r] = req[r]
      BY <2>1, NoProcFacts, Zenon DEF Disowned
    <3>2. /\ req[r].slot # 0 /\ uinfo[req[r].slot].active
          /\ uinfo[req[r].slot].pid = WWW /\ uinfo[req[r].slot].uid \in Users
          /\ uinfo[req[r].slot].age < 2
      BY <2>1, <3>1 DEF IInv, ReqInv
    <3>3. req[r].slot \in Slot
      <4>1. req[r] \in Request
        BY DEF IInv, TypeOK
      <4>2. QED
        BY <3>2, <4>1 DEF Request, Slot
    <3>4. uinfo'[req[r].slot] = uinfo[req[r].slot]
      BY <1>1, <3>1, <3>3 DEF Ends
    <3>5. QED
      BY <3>1, <3>2, <3>4
  <2>2. QED
    BY <2>1, Zenon DEF ReqInv
<1>8. QED
  BY <1>3, <1>4, <1>5, <1>6, <1>7, NextParts DEF ActorInv

LEMMA ReqFacts ==
    ASSUME IInv, NEW r \in Requests
    PROVE  /\ req[r] \in Request /\ req[r].slot \in 0..MaxActive
           /\ req[r].slot # 0 => req[r].slot \in Slot
           /\ req[r].own => /\ req[r].slot # 0 /\ uinfo[req[r].slot].active
                            /\ uinfo[req[r].slot].pid = WWW
                            /\ uinfo[req[r].slot].uid \in Users
           /\ req[r].slot = 0 => req[r] = NoReq
<1>1. req[r] \in Request
  BY DEF IInv, TypeOK
<1>2. req[r].slot \in 0..MaxActive /\ (req[r].slot # 0 => req[r].slot \in Slot)
  BY <1>1 DEF Request, Slot
<1>3. req[r].own => /\ req[r].slot # 0 /\ uinfo[req[r].slot].active
                    /\ uinfo[req[r].slot].pid = WWW
                    /\ uinfo[req[r].slot].uid \in Users
  BY DEF IInv, ReqInv
<1>4. ASSUME req[r].slot = 0 PROVE req[r] = NoReq
  <2>1. ~req[r].own
    BY <1>3, <1>4
  <2>2. req[r].own = FALSE
    BY <1>1, <2>1 DEF Request
  <2>3. QED
    BY <1>1, <1>4, <2>2 DEF Request, NoReq
<1>5. QED
  BY <1>1, <1>2, <1>3, <1>4

LEMMA SweepFreeInv == ASSUME IInv, SweepFree PROVE IInv'
<1>1. PICK k : k = sweep.at
  OBVIOUS
<1>2. /\ k \in Slot /\ Idle(uinfo[k]) /\ Disown(k) /\ Advance
      /\ UNCHANGED <<peak, clear, harm>>
  BY <1>1 DEF SweepFree
<1>3. uinfo[k].active /\ uinfo[k] \in Session
  BY <1>2, SessionFacts DEF Idle, IInv
<1>4. Frees(k) \/ FreesGuest(k)
  <2>1. CASE ~WebGuest(uinfo[k])
    <3>1. Release(k, head, next) /\ UNCHANGED wwwguestnum
      BY <1>1, <2>1 DEF SweepFree
    <3>2. Frees(k)
      BY <1>2, <1>3, <2>1, <3>1 DEF Frees
    <3>3. QED
      BY <3>2
  <2>2. CASE WebGuest(uinfo[k])
    <3>1. FreesGuest(k)
      BY <1>1, <1>2, <2>2 DEF SweepFree, FreesGuest
    <3>2. QED
      BY <3>1
  <2>3. QED
    BY <2>1, <2>2
<1>5. Disowned(k, Nobody, {})
  <2>1. ASSUME NEW p \in Telnet
        PROVE  /\ proc'[p] \in Process
               /\ \/ p # Nobody /\ proc[p].ent # k /\ proc'[p] = proc[p]
                  \/ /\ p # Nobody /\ proc[p].ent = k /\ proc'[p].pc = proc[p].pc
                     /\ proc'[p].uid = proc[p].uid /\ proc'[p].ent = k /\ ~proc'[p].own
    <3>1. proc'[p] = IF proc[p].ent = k THEN [proc[p] EXCEPT !.own = FALSE] ELSE proc[p]
      BY <1>2 DEF Disown
    <3>2. PICK l : l = [proc[p] EXCEPT !.own = FALSE]
      OBVIOUS
    <3>3. /\ l \in Process /\ l.pc = proc[p].pc /\ l.uid = proc[p].uid
          /\ l.ent = proc[p].ent /\ ~l.own
      BY <3>2, DisownFacts
    <3>4. QED
      BY <3>1, <3>2, <3>3, ProcFacts
  <2>2. ASSUME NEW r \in Requests
        PROVE  /\ req'[r] \in Request
               /\ \/ req[r].slot # k /\ req'[r] = req[r]
                  \/ req[r].slot = k /\ req'[r].slot = k /\ ~req'[r].own
    <3>1. req'[r] = IF req[r].slot = k THEN [req[r] EXCEPT !.own = FALSE] ELSE req[r]
      BY <1>2 DEF Disown
    <3>2. PICK l : l = [req[r] EXCEPT !.own = FALSE]
      OBVIOUS
    <3>3. l \in Request /\ l.slot = req[r].slot /\ ~l.own
      BY <3>2, DisownFacts
    <3>4. QED
      BY <3>1, <3>2, <3>3, ReqFacts
  <2>3. proc' \in [Telnet -> Process] /\ req' \in [Requests -> Request]
    <3>1. proc' = [p \in Telnet |-> proc'[p]] /\ req' = [r \in Requests |-> req'[r]]
      BY <1>2 DEF Disown
    <3>2. QED
      BY <2>1, <2>2, <3>1
  <2>4. QED
    BY <2>1, <2>2, <2>3 DEF Disowned
<1>6. "logout" \notin harm' => \A p \in Telnet : proc[p].ent # k
  <2>1. SUFFICES ASSUME "logout" \notin harm, NEW p \in Telnet, proc[p].ent = k PROVE FALSE
    BY <1>2
  <2>2. proc[p].own
    BY <1>2, <2>1, SlotFacts DEF IInv, OwnInv
  <2>3. uinfo[k].pid = p
    BY <2>1, <2>2 DEF IInv, OwnInv
  <2>4. proc[p].pc = "none"
    BY <1>2, <2>3, ProcFacts DEF Idle, Alive
  <2>5. QED
    BY <1>2, <2>1, <2>4, ProcFacts, SlotFacts DEF InTable
<1>7. /\ sweep' \in [by : Telnet \cup {WWW, Nobody}, at : 0..MaxActive + 1]
      /\ sweep'.by = sweep.by
  <2>1. sweep.at + 1 \in 0..MaxActive + 1
    BY <1>1, <1>2 DEF Slot
  <2>2. QED
    BY <1>2, <2>1, SweepBy DEF Advance
<1>8. Nobody \notin Telnet
  OBVIOUS
<1>9. UNCHANGED clear /\ harm' \subseteq harm \cup {"logout"}
  BY <1>2
<1>10. QED
  BY <1>4, <1>5, <1>6, <1>7, <1>8, <1>9, EndStep

(* What utmp_logout does when the slot is in use.                          *)
LEMMA LogoutFrees ==
    ASSUME IInv, NEW k \in Slot, uinfo[k].active, NEW own, utmp_logout(k, own),
           own => ~WebGuest(uinfo[k])
    PROVE  /\ Frees(k) /\ harm' \subseteq harm \cup {"logout"}
           /\ "logout" \notin harm' => own /\ "logout" \notin harm
<1>1. harm' = IF own THEN harm ELSE harm \cup {"logout"}
  BY DEF utmp_logout
<1>2. Frees(k)
  BY <1>1 DEF utmp_logout, Frees
<1>3. QED
  BY <1>1, <1>2

LEMMA ExitInv == ASSUME IInv, NEW p \in Telnet, Exit(p) PROVE IInv'
<1>1. PICK k : k = proc[p].ent
  OBVIOUS
<1>2. /\ proc[p].pc = "exit" /\ sweep.by = Nobody /\ k \in Slot
      /\ UNCHANGED <<sweep, clear>>
  BY <1>1, ProcFacts DEF Exit, LockFree, InTable
<1>3. CASE uinfo[k].active
  <2>1. /\ utmp_logout(k, proc[p].own)
        /\ req' = [r \in Requests |-> IF req[r].slot = k
                                      THEN [req[r] EXCEPT !.own = FALSE] ELSE req[r]]
        /\ proc' = [q \in Telnet |-> IF q = p THEN NoProc
                                     ELSE IF proc[q].ent = k
                                     THEN [proc[q] EXCEPT !.own = FALSE] ELSE proc[q]]
    BY <1>1, <1>3 DEF Exit
  <2>2. proc[p].own => uinfo[k].pid = p
    BY <1>1 DEF IInv, OwnInv
  <2>3. /\ Frees(k) /\ harm' \subseteq harm \cup {"logout"}
        /\ "logout" \notin harm' => proc[p].own /\ "logout" \notin harm
    <3>1. proc[p].own => ~WebGuest(uinfo[k])
      BY <2>2, ProcFacts DEF WebGuest
    <3>2. QED
      BY <1>2, <1>3, <2>1, <3>1, LogoutFrees
  <2>4. Disowned(k, p, {})
    <3>1. ASSUME NEW q \in Telnet
          PROVE  /\ proc'[q] \in Process
                 /\ \/ q = p /\ proc'[q] = NoProc
                    \/ q # p /\ proc[q].ent # k /\ proc'[q] = proc[q]
                    \/ /\ q # p /\ proc[q].ent = k /\ proc'[q].pc = proc[q].pc
                       /\ proc'[q].uid = proc[q].uid /\ proc'[q].ent = k /\ ~proc'[q].own
      <4>1. PICK l : l = [proc[q] EXCEPT !.own = FALSE]
        OBVIOUS
      <4>2. proc'[q] = IF q = p THEN NoProc ELSE IF proc[q].ent = k THEN l ELSE proc[q]
        BY <2>1, <4>1
      <4>3. /\ l \in Process /\ l.pc = proc[q].pc /\ l.uid = proc[q].uid
            /\ l.ent = proc[q].ent /\ ~l.own
        BY <4>1, DisownFacts
      <4>4. QED
        BY <4>2, <4>3, ProcFacts, NoProcFacts
    <3>2. ASSUME NEW r \in Requests
          PROVE  /\ req'[r] \in Request
                 /\ \/ req[r].slot # k /\ req'[r] = req[r]
                    \/ req[r].slot = k /\ req'[r].slot = k /\ ~req'[r].own
      <4>1. PICK l : l = [req[r] EXCEPT !.own = FALSE]
        OBVIOUS
      <4>2. req'[r] = IF req[r].slot = k THEN l ELSE req[r]
        BY <2>1, <4>1
      <4>3. l \in Request /\ l.slot = req[r].slot /\ ~l.own
        BY <4>1, DisownFacts
      <4>4. QED
        BY <4>2, <4>3, ReqFacts
    <3>3. proc' \in [Telnet -> Process] /\ req' \in [Requests -> Request]
      <4>1. proc' = [q \in Telnet |-> proc'[q]] /\ req' = [r \in Requests |-> req'[r]]
        BY <2>1
      <4>2. QED
        BY <3>1, <3>2, <4>1
    <3>4. QED
      BY <3>1, <3>2, <3>3 DEF Disowned
  <2>5. "logout" \notin harm' => \A q \in Telnet : q # p => proc[q].ent # k
    <3>1. SUFFICES ASSUME "logout" \notin harm', NEW q \in Telnet, q # p, proc[q].ent = k
                   PROVE  FALSE
      OBVIOUS
    <3>2. proc[q].own
      BY <1>2, <2>3, <3>1, SlotFacts DEF IInv, OwnInv
    <3>3. uinfo[k].pid = q
      BY <3>1, <3>2 DEF IInv, OwnInv
    <3>4. QED
      BY <2>2, <2>3, <3>1, <3>3
  <2>6. UNCHANGED clear /\ UNCHANGED sweep /\ proc[p].pc # "sweep"
    BY <1>2
  <2>7. QED
    BY <2>3, <2>4, <2>5, <2>6, SweepBy, EndStep
<1>4. CASE ~uinfo[k].active
  <2>1. proc' = [proc EXCEPT ![p] = NoProc] /\ UNCHANGED <<table, req, harm>>
    BY <1>1, <1>4 DEF Exit
  <2>2. Becomes(p, NoProc)
    BY <2>1, GoneBecomes
  <2>3. \A q \in Telnet : (IF q = p THEN NoProc.pc ELSE proc[q].pc) = "sweep" <=> sweep'.by = q
    BY <1>2, ProcFacts, NoProcFacts
  <2>4. UNCHANGED <<table, req, clear, harm>> /\ UNCHANGED sweep
    BY <1>2, <2>1
  <2>5. QED
    BY <2>2, <2>3, <2>4, SweepBy, ProcStep
<1>5. QED
  BY <1>3, <1>4

LEMMA LogoutInv == ASSUME IInv, NEW r \in Requests, Logout(r) PROVE IInv'
<1>1. PICK k : k = req[r].slot
  OBVIOUS
<1>2. /\ req[r] # NoReq /\ UNCHANGED <<sweep, clear>>
  BY DEF Logout
<1>3. k \in Slot
  BY <1>1, <1>2, ReqFacts
<1>4. CASE uinfo[k].active
  <2>1. /\ utmp_logout(k, req[r].own)
        /\ proc' = [p \in Telnet |-> IF proc[p].ent = k
                                     THEN [proc[p] EXCEPT !.own = FALSE] ELSE proc[p]]
        /\ req' = [q \in Requests |-> IF q = r THEN NoReq
                                      ELSE IF req[q].slot = k
                                      THEN [req[q] EXCEPT !.own = FALSE] ELSE req[q]]
    BY <1>1, <1>4 DEF Logout
  <2>2. req[r].own => uinfo[k].pid = WWW /\ uinfo[k].uid \in Users
    BY <1>1, ReqFacts
  <2>3. /\ Frees(k) /\ harm' \subseteq harm \cup {"logout"}
        /\ "logout" \notin harm' => req[r].own /\ "logout" \notin harm
    <3>1. req[r].own => ~WebGuest(uinfo[k])
      BY <2>2 DEF WebGuest
    <3>2. QED
      BY <1>3, <1>4, <2>1, <3>1, LogoutFrees
  <2>4. Disowned(k, Nobody, {r})
    <3>1. ASSUME NEW q \in Telnet
          PROVE  /\ proc'[q] \in Process
                 /\ \/ q # Nobody /\ proc[q].ent # k /\ proc'[q] = proc[q]
                    \/ /\ q # Nobody /\ proc[q].ent = k /\ proc'[q].pc = proc[q].pc
                       /\ proc'[q].uid = proc[q].uid /\ proc'[q].ent = k /\ ~proc'[q].own
      <4>1. PICK l : l = [proc[q] EXCEPT !.own = FALSE]
        OBVIOUS
      <4>2. proc'[q] = IF proc[q].ent = k THEN l ELSE proc[q]
        BY <2>1, <4>1
      <4>3. /\ l \in Process /\ l.pc = proc[q].pc /\ l.uid = proc[q].uid
            /\ l.ent = proc[q].ent /\ ~l.own
        BY <4>1, DisownFacts
      <4>4. QED
        BY <4>2, <4>3, ProcFacts
    <3>2. ASSUME NEW q \in Requests
          PROVE  /\ req'[q] \in Request
                 /\ \/ q \in {r} /\ req'[q] = NoReq
                    \/ q \notin {r} /\ req[q].slot # k /\ req'[q] = req[q]
                    \/ q \notin {r} /\ req[q].slot = k /\ req'[q].slot = k /\ ~req'[q].own
      <4>1. PICK l : l = [req[q] EXCEPT !.own = FALSE]
        OBVIOUS
      <4>2. req'[q] = IF q = r THEN NoReq ELSE IF req[q].slot = k THEN l ELSE req[q]
        BY <2>1, <4>1
      <4>3. l \in Request /\ l.slot = req[q].slot /\ ~l.own
        BY <4>1, DisownFacts
      <4>4. QED
        BY <4>2, <4>3, ReqFacts, NoProcFacts
    <3>3. proc' \in [Telnet -> Process] /\ req' \in [Requests -> Request]
      <4>1. proc' = [q \in Telnet |-> proc'[q]] /\ req' = [q \in Requests |-> req'[q]]
        BY <2>1
      <4>2. QED
        BY <3>1, <3>2, <4>1
    <3>4. QED
      BY <3>1, <3>2, <3>3 DEF Disowned
  <2>5. "logout" \notin harm' => \A q \in Telnet : q # Nobody => proc[q].ent # k
    <3>1. SUFFICES ASSUME "logout" \notin harm', NEW q \in Telnet, proc[q].ent = k
                   PROVE  FALSE
      OBVIOUS
    <3>2. proc[q].own
      BY <1>3, <2>3, <3>1, SlotFacts DEF IInv, OwnInv
    <3>3. uinfo[k].pid = q
      BY <3>1, <3>2 DEF IInv, OwnInv
    <3>4. QED
      BY <2>2, <2>3, <3>1, <3>3, ProcFacts
  <2>6. UNCHANGED clear /\ UNCHANGED sweep /\ Nobody \notin Telnet
    BY <1>2
  <2>7. QED
    BY <2>3, <2>4, <2>5, <2>6, SweepBy, EndStep
<1>5. CASE ~uinfo[k].active
  <2>1. req' = [req EXCEPT ![r] = NoReq] /\ UNCHANGED <<table, proc, harm>>
    BY <1>1, <1>5 DEF Logout
  <2>2. /\ req' \in [Requests -> Request]
        /\ \A q \in Requests : req'[q] = req[q] \/ req'[q] = NoReq
    BY <2>1, NoProcFacts DEF IInv, TypeOK
  <2>3. ReqInv'
    <3>1. UNCHANGED uinfo
      BY <2>1 DEF table
    <3>2. \A q \in Requests : req'[q].own => req'[q] = req[q]
      BY <2>2, NoProcFacts, Zenon
    <3>3. QED
      BY <3>1, <3>2, Zenon DEF IInv, ReqInv
  <2>4. \A i \in Slot : SameSession(i)
    BY <2>1 DEF SameSession, table
  <2>5. ActorInv' /\ EntsKept
    <3>1. /\ harm' \subseteq {"logout", "clear", "overflow"} /\ harm \subseteq harm'
          /\ clear' \in [uid : Users, entry : Entry] \cup {NoClear}
          /\ UNCHANGED <<proc, sweep>>
      BY <1>2, <2>1 DEF IInv, TypeOK
    <3>2. QED
      BY <2>2, <2>3, <2>4, <3>1, ActorsSame
  <2>6. Quiet
    BY <2>1, <2>4, <2>5 DEF Quiet, Steady, EntriesDropped, table, IInv, TypeOK, Index
  <2>7. QED
    BY <2>5, <2>6, QuietStep, NextParts
<1>6. QED
  BY <1>4, <1>5

-----------------------------------------------------------------------------
(***************************************************************************)
(* The invariant holds.                                                    *)
(***************************************************************************)
LEMMA Stutter == ASSUME IInv, UNCHANGED vars PROVE IInv'
<1>1. UNCHANGED <<table, proc, req, harm, sweep, clear>>
  BY DEF vars
<1>2. clear' \in [uid : Users, entry : Entry] \cup {NoClear}
  BY <1>1 DEF IInv, TypeOK
<1>3. QED
  BY <1>1, <1>2, SweepBy, NoProcStep

LEMMA NextInv == ASSUME IInv, [Next]_vars PROVE IInv'
<1>1. CASE Sweep
  BY <1>1, SweepFreeInv, SweepHangupInv, SweepSkipInv, SweepEndInv DEF Sweep
<1>2. CASE WebStep
  <2>1. CASE \E u \in Users \cup {Guest}, h \in Hosts : WebLogin(u, h) \/ WebRefused(u, h)
    BY <2>1, WebLoginInv, WebRefusedInv
  <2>2. CASE \E r \in Requests : Logout(r) \/ \E k \in Slot : LogoutRequest(r, k)
    BY <2>2, LogoutInv, LogoutRequestInv
  <2>3. CASE \E k \in Slot : KickWeb(k)
    BY <2>3, KickWebInv
  <2>4. QED
    BY <1>2, <2>1, <2>2, <2>3 DEF WebStep
<1>3. CASE Count
  BY <1>3, ClearEntryInv, CountDeadInv DEF Count
<1>4. ASSUME NEW p \in Telnet, TelnetStep(p) PROVE IInv'
  <2>1. CASE \E u \in Users \cup {Guest} : Connect(p, u)
    BY <2>1, ConnectInv
  <2>2. CASE MultiCheck(p) \/ Enter(p) \/ EnterRefused(p) \/ Key(p)
    BY <2>2, MultiCheckInv, EnterInv, EnterRefusedInv, KeyInv
  <2>3. CASE Leave(p) \/ Exit(p) \/ Kill(p)
    BY <2>3, LeaveInv, ExitInv, KillInv
  <2>4. QED
    BY <1>4, <2>1, <2>2, <2>3 DEF TelnetStep
<1>5. ASSUME NEW k \in Slot, Age(k) PROVE IInv'
  BY <1>5, AgeInv
<1>6. CASE UNCHANGED vars
  BY <1>6, Stutter
<1>7. QED
  BY <1>1, <1>2, <1>3, <1>4, <1>5, <1>6 DEF Next

LEMMA SpecInv == Spec => []IInv
<1>1. Init => IInv
  BY InitInv
<1>2. IInv /\ [Next]_vars => IInv'
  BY NextInv
<1>3. QED
  BY <1>1, <1>2, PTL DEF Spec

-----------------------------------------------------------------------------
(***************************************************************************)
(* What follows from it.                                                   *)
(***************************************************************************)
LEMMA ChainRight ==
    ASSUME IInv, NEW c \in Chain, HasList(c)
    PROVE  /\ Reach(c) = Members(c)
           /\ \A k \in Reach(c) : Cardinality({i \in Reach(c) : next[i] = k})
                                     = IF head[c] = k THEN 0 ELSE 1
<1>1. PICK n \in Nat : \E q \in [1..n -> Slot] : Listed(c, n, q)
  BY DEF HasList
<1>2. PICK q \in [1..n -> Slot] : Listed(c, n, q)
  BY <1>1
<1>3. Reach(c) = Members(c)
  BY <1>2, ReachList DEF IInv
<1>4. /\ Members(c) = {q[i] : i \in 1..n}
      /\ \A i, k \in 1..n : q[i] = q[k] => i = k
      /\ head[c] = IF n = 0 THEN 0 ELSE q[1]
      /\ \A i \in 1..n : next[q[i]] = IF i = n THEN 0 ELSE q[i + 1]
      /\ \A i \in 1..n : q[i] # 0
  BY <1>2, SlotFacts DEF Listed
<1>5. ASSUME NEW k \in Members(c)
      PROVE  Cardinality({i \in Members(c) : next[i] = k}) = IF head[c] = k THEN 0 ELSE 1
  <2>1. PICK m \in 1..n : k = q[m]
    BY <1>4
  <2>2. ASSUME NEW i \in Members(c), next[i] = k
        PROVE  m # 1 /\ i = q[m - 1]
    <3>1. PICK l \in 1..n : i = q[l]
      BY <1>4
    <3>2. l # n
      BY <1>4, <2>1, <2>2, <3>1
    <3>3. l + 1 \in 1..n /\ q[l + 1] = q[m]
      BY <1>4, <2>1, <2>2, <3>1, <3>2
    <3>4. l + 1 = m
      BY <1>4, <3>3
    <3>5. m # 1 /\ l = m - 1
      BY <3>4
    <3>6. QED
      BY <3>1, <3>5
  <2>3. CASE m = 1
    <3>1. {i \in Members(c) : next[i] = k} = {}
      BY <2>2, <2>3
    <3>2. head[c] = k
      BY <1>4, <2>1, <2>3
    <3>3. QED
      BY <3>1, <3>2, FS_EmptySet
  <2>4. CASE m # 1
    <3>1. m - 1 \in 1..n /\ m - 1 # n /\ (m - 1) + 1 = m
      BY <2>4
    <3>2. q[m - 1] \in Members(c) /\ next[q[m - 1]] = k
      BY <1>4, <2>1, <3>1
    <3>3. {i \in Members(c) : next[i] = k} = {q[m - 1]}
      BY <2>2, <3>2
    <3>4. head[c] # k
      <4>1. 1 \in 1..n /\ n # 0
        BY <3>1
      <4>2. QED
        BY <1>4, <2>1, <2>4, <4>1
    <3>5. QED
      BY <3>3, <3>4, FS_Singleton
  <2>5. QED
    BY <2>3, <2>4
<1>6. QED
  BY <1>3, <1>5

(* Between any two steps the list of unused slots, the guest chains, the   *)
(* two counters, .max_login_num and uindex agree with the slots, chains    *)
(* and the exact counts until a logout frees somebody else's slot.         *)
THEOREM TableIsRight == Spec => []TableRight
<1>1. ASSUME IInv PROVE TableRight
  <2>1. TypeOK /\ IndexLeadsHome
    BY <1>1 DEF IInv
  <2>2. CountsRight
    <3>1. activeuser \in Nat /\ peak.file \in Nat
      BY <1>1 DEF IInv, TypeOK
    <3>2. QED
      BY <1>1, <3>1 DEF IInv, CountInv, CountsRight, Actives, Guests
  <2>3. ChainsRight
    <3>1. SUFFICES ASSUME "logout" \notin harm, NEW c \in Chain
                   PROVE  /\ Reach(c) = Members(c)
                          /\ \A k \in Reach(c) :
                                Cardinality({i \in Reach(c) : next[i] = k})
                                   = IF head[c] = k THEN 0 ELSE 1
      BY Zenon DEF ChainsRight
    <3>2. HasList(c)
      BY <1>1, <3>1 DEF IInv, ListInv
    <3>3. QED
      BY <1>1, <3>2, ChainRight
  <2>4. QED
    BY <2>1, <2>2, <2>3 DEF TableRight
<1>2. QED
  BY <1>1, SpecInv, PTL

(* A named session whose process lives, or that is on the web, stays in    *)
(* uindex through every login, count, sweep and logout, unless an entry    *)
(* was cleared by mistake or did not fit.                                  *)
THEOREM SessionsAreIndexed == Spec => []SessionsIndexed
<1>1. IInv => SessionsIndexed
  BY DEF IInv
<1>2. QED
  BY <1>1, SpecInv, PTL

(* A telnet process that has entered has a slot of its own until it is     *)
(* gone, whoever is swept, kicked or logged out meanwhile, as long as no   *)
(* logout has freed somebody else's slot.                                  *)
THEOREM TelnetKeepsItsSlot == Spec => []TelnetKeepsSlot
<1>1. ASSUME IInv PROVE TelnetKeepsSlot
  <2>1. SUFFICES ASSUME "logout" \notin harm, NEW p \in Telnet, proc[p].pc \in InTable
                 PROVE  /\ proc[p].own
                        /\ uinfo[proc[p].ent].active /\ uinfo[proc[p].ent].pid = p
    BY Zenon DEF TelnetKeepsSlot, InTable
  <2>2. proc[p].ent # 0
    BY <1>1, <2>1 DEF IInv, ProcInv
  <2>3. proc[p].own
    BY <1>1, <2>1, <2>2 DEF IInv, OwnInv
  <2>4. QED
    BY <1>1, <2>3 DEF IInv, OwnInv
<1>2. QED
  BY <1>1, SpecInv, PTL

(* utmp_login finds no slot only when the MAXACTIVERUN slots that may be   *)
(* used all are: the ones beyond stay behind the others in the list.       *)
THEOREM RefusedWhenFull == Spec => []RefusedOnlyWhenFull
<1>1. ASSUME IInv PROVE RefusedOnlyWhenFull
  <2>1. SUFFICES ASSUME "logout" \notin harm, ~CanLogin,
                        NEW k \in 1..MaxActiveRun, ~uinfo[k].active
                 PROVE  FALSE
    BY DEF RefusedOnlyWhenFull
  <2>2. HasList(0)
    BY <1>1, <2>1, ChainFacts DEF IInv, ListInv
  <2>3. PICK n \in Nat : \E q \in [1..n -> Slot] : Listed(0, n, q)
    BY <2>2 DEF HasList
  <2>4. PICK q \in [1..n -> Slot] : Listed(0, n, q)
    BY <2>3
  <2>5. /\ {i \in Slot : ~uinfo[i].active} = {q[i] : i \in 1..n}
        /\ head[0] = IF n = 0 THEN 0 ELSE q[1]
        /\ \A i \in 1..n : next[q[i]] = IF i = n THEN 0 ELSE q[i + 1]
    BY <2>4 DEF Listed, Members
  <2>6. k \in Slot
    BY DEF Slot
  <2>7. PICK i0 \in 1..n : k = q[i0]
    BY <2>1, <2>5, <2>6
  <2> DEFINE S == {i \in 1..n : q[i] <= MaxActiveRun}
  <2>8. PICK m \in S : \A y \in S : m <= y
    <3>1. i0 \in S /\ S \subseteq Nat
      BY <2>7
    <3> HIDE DEF S
    <3>2. QED
      BY <3>1, Least
  <2>9. CASE m = 1
    <3>1. 1 \in 1..n /\ q[1] <= MaxActiveRun /\ q[1] \in Slot /\ n # 0
      BY <2>8, <2>9
    <3>2. head[0] = q[1] /\ ~uinfo[q[1]].active
      BY <2>5, <3>1
    <3>3. QED
      BY <2>1, <3>1, <3>2 DEF CanLogin, Slot
  <2>10. CASE m # 1
    <3>1. /\ m - 1 \in 1..n /\ m - 1 # n /\ (m - 1) + 1 = m /\ m - 1 \notin S
          /\ m \in 1..n /\ q[m] \in Slot /\ q[m] <= MaxActiveRun
      BY <2>8, <2>10
    <3>2. q[m - 1] \in Slot /\ q[m - 1] > MaxActiveRun
      <4>1. q[m - 1] \in Slot /\ ~(q[m - 1] <= MaxActiveRun)
        BY <3>1
      <4>2. QED
        BY <4>1 DEF Slot
    <3>3. next[q[m - 1]] = IF q[m - 1] = MaxActive THEN 0 ELSE q[m - 1] + 1
      BY <1>1, <3>2 DEF IInv, HighInv
    <3>4. next[q[m - 1]] = q[m]
      BY <2>5, <3>1
    <3> HIDE DEF S
    <3>5. q[m] = 0 \/ q[m] = q[m - 1] + 1
      BY <3>3, <3>4
    <3>6. QED
      BY <3>1, <3>2, <3>5 DEF Slot
  <2>11. QED
    BY <2>9, <2>10
<1>2. QED
  BY <1>1, SpecInv, PTL

LEMMA RequestStep ==
    ASSUME IInv, [Next]_vars, NEW r \in Requests, req[r].own, ~req'[r].own, req'[r].slot # 0
    PROVE  uinfo[req[r].slot].kicked \/ sweep' = sweep
<1>1. req' # req
  BY Zenon
<1>2. CASE SweepFree
  <2>1. req'[r] = IF req[r].slot = sweep.at THEN [req[r] EXCEPT !.own = FALSE] ELSE req[r]
    BY <1>2 DEF SweepFree, Disown
  <2>2. req[r].slot = sweep.at
    BY <2>1, Zenon
  <2>3. Idle(uinfo[sweep.at])
    BY <1>2 DEF SweepFree
  <2>4. uinfo[sweep.at].pid = WWW /\ uinfo[sweep.at].age < 2
    BY <2>2 DEF IInv, ReqInv
  <2>5. sweep.at \in Slot
    BY <1>2 DEF SweepFree
  <2>6. uinfo[sweep.at].age # 2
    <3>1. uinfo[sweep.at].active /\ uinfo[sweep.at] \in Session
      BY <2>3, <2>5, SessionFacts DEF Idle, IInv
    <3>2. uinfo[sweep.at].age \in 0..2
      BY <3>1 DEF Session
    <3>3. QED
      BY <2>4, <3>2
  <2>7. QED
    BY <2>2, <2>3, <2>4, <2>6, Zenon DEF Idle
<1>3. CASE SweepHangup \/ SweepSkip \/ SweepEnd
  BY <1>1, <1>3 DEF SweepHangup, SweepSkip, SweepEnd
<1>4. CASE WebStep
  <2>1. CASE \E u \in Users \cup {Guest}, h \in Hosts : WebLogin(u, h) \/ WebRefused(u, h)
    BY <1>1, <2>1 DEF WebLogin, WebRefused
  <2>2. CASE \E q \in Requests : Logout(q) \/ \E k \in Slot : LogoutRequest(q, k)
    BY <2>2 DEF Logout, LogoutRequest
  <2>3. CASE \E k \in Slot : KickWeb(k)
    BY <2>3 DEF KickWeb
  <2>4. QED
    BY <1>4, <2>1, <2>2, <2>3 DEF WebStep
<1>5. CASE Count
  BY <1>1, <1>5 DEF Count, ClearEntry, CountDead
<1>6. ASSUME NEW p \in Telnet, TelnetStep(p) PROVE sweep' = sweep
  <2>1. CASE \E u \in Users \cup {Guest} : Connect(p, u)
    BY <2>1 DEF Connect
  <2>2. CASE MultiCheck(p) \/ EnterRefused(p) \/ Key(p) \/ Leave(p) \/ Exit(p)
    BY <2>2 DEF MultiCheck, EnterRefused, Key, Leave, Exit
  <2>3. CASE Enter(p) \/ Kill(p)
    BY <1>1, <2>3 DEF Enter, Kill
  <2>4. QED
    BY <1>6, <2>1, <2>2, <2>3 DEF TelnetStep
<1>7. CASE \E k \in Slot : Age(k)
  BY <1>7 DEF Age
<1>8. CASE UNCHANGED vars
  BY <1>8 DEF vars
<1>9. QED
  BY <1>2, <1>3, <1>4, <1>5, <1>6, <1>7, <1>8 DEF Next, Sweep

(* The sweep never takes the slot of a request under way that has not been *)
(* kicked: user_init lets in only sessions the sweep is far from.          *)
THEOREM RequestsKeepTheirSession == Spec => RequestKeepsSession
<1>1. ASSUME IInv, [Next]_vars
      PROVE  [\A r \in Requests : req[r].own /\ ~req'[r].own /\ req'[r].slot # 0 =>
                  \/ uinfo[req[r].slot].kicked
                  \/ sweep' = sweep]_vars
  BY <1>1, RequestStep, Zenon
<1>2. QED
  BY <1>1, SpecInv, PTL DEF Spec, RequestKeepsSession
=============================================================================
