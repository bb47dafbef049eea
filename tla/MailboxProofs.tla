--------------------------- MODULE MailboxProofs ---------------------------
(***************************************************************************)
(* Proofs about Mailbox, for any number of processes, sizes, flags and     *)
(* limits.  Whatever the processes do, a line of the index is lost only in *)
(* the ways LossExplained lists.  While marks are fresh and lookups of the *)
(* account succeed, no mail is lost at all and every line has its file;    *)
(* and without edits the counter is what the mails add up to.              *)
(***************************************************************************)
EXTENDS Mailbox, FiniteSetTheorems, SequenceTheorems, WellFoundedInduction, TLAPS

-----------------------------------------------------------------------------
(***************************************************************************)
(* The inductive invariants, in named parts.  The first ones hold of every *)
(* mailbox.                                                                *)
(***************************************************************************)
Mail == [call : AllCalls, sysmail : BOOLEAN, length : Lengths \cup {1, 1024},
         filetime : Nat]
Choice == [by : {"file", "flag", "number"}, set : SUBSET Nat]
Locals == [back : Where \ {"calc", "count"}, mail : Mail, list : Seq(Line), todo : Seq(Line),
           dele : SUBSET Nat, sel : Choice, read : Seq(Header), at : Nat]
Typed == TypeOK /\ loc \in [Procs -> Locals]

(* Where a process is, or goes on after a recount. *)
Aim(p) == IF pc[p] \in {"calc", "count"} THEN loc[p].back ELSE pc[p]

(* Who is inside a call that has locked the index, or counts, has the lock.*)
Inside == {"charge", "write", "resize", "remove", "sweep"}
HoldsLock(p) == /\ pc[p] = "count" \/ Aim(p) \in Inside <=> lock = p
                /\ pc[p] = "count" => Aim(p) \notin Inside

(* A deletion has a line to delete, and an edit the line it has seen. *)
Victim(p) == Head(loc[p].todo).fh.filetime
HasTodo(p) == /\ Aim(p) \in {"dellock", "remove", "unlink"} => loc[p].todo # <<>>
              /\ Aim(p) \in {"editlock", "resize"} => loc[p].list # <<>>

(* Nobody deletes or edits but for a job of its own. *)
DeleteJobs == {"del", "range", "web", "pop"}
DeleteSteps == {"dellock", "remove", "unlink", "login", "pop", "sweeplock", "sweep"}
HasJob(p) == /\ Aim(p) \in DeleteSteps => jobs[p] \cap DeleteJobs # {}
             /\ Aim(p) \in {"editlock", "resize"} => "edit" \in jobs[p]

(* The index does not get shorter while a deletion in one pass goes on.    *)
ReadFits(p) == pc[p] = "sweep" => Len(loc[p].read) <= Len(dir)

(* A recount goes back to where one begins. *)
Begins == {"idle", "append", "dellock", "login", "sweeplock"}
GoesBack(p) ==
    pc[p] \in {"calc", "count"} =>
        /\ Aim(p) \in Begins \cup Inside
        /\ Aim(p) = "idle" => loc[p].list = <<>>

Fits(p) == HoldsLock(p) /\ HasTodo(p) /\ HasJob(p) /\ ReadFits(p) /\ GoesBack(p)
BaseInv == Typed /\ \A p \in Procs : Fits(p)


-----------------------------------------------------------------------------
(***************************************************************************)
(* Facts about numbers, and one step of induction without an operator.     *)
(***************************************************************************)
LEMMA Upwards ==
    ASSUME NEW S, NEW n \in Nat, 0 \in S,
           \A k \in 1..n : k - 1 \in S => k \in S
    PROVE  0..n \subseteq S
<1> DEFINE D == {k \in 0..n : k \notin S}
<1>1. SUFFICES ASSUME D # {} PROVE FALSE
  OBVIOUS
<1>2. PICK m \in D : \A y \in D : m <= y
  <2>1. D \subseteq Nat /\ D # {}
    BY <1>1
  <2> DEFINE R == OpToRel(<, Nat)
  <2>2. \A x, y \in Nat : <<x, y>> \in R <=> x < y
    BY DEF OpToRel
  <2>3. IsWellFoundedOn(R, Nat)
    BY NatLessThanWellFounded
  <2> HIDE DEF D, R
  <2>4. PICK m \in D : \A y \in D : <<y, m>> \notin R
    BY <2>1, <2>3, WFMin
  <2>5. \A y \in D : m \in Nat /\ y \in Nat /\ ~(y < m)
    BY <2>1, <2>2, <2>4
  <2>6. \A y \in D : m <= y
    BY <2>5
  <2>7. QED
    BY <2>6
<1>3. m \in 1..n /\ m - 1 \in 0..n
  BY <1>2
<1>4. m - 1 \in S
  BY <1>2, <1>3
<1>5. QED
  BY <1>2, <1>3, <1>4

LEMMA Least ==
    ASSUME NEW n \in Nat, NEW S, S \subseteq 0..n, S # {}
    PROVE  \E m \in S : \A y \in S : m <= y
<1> DEFINE T == {k \in 0..n : \A y \in S : k <= y}
<1>1. SUFFICES ASSUME ~\E m \in S : \A y \in S : m <= y PROVE FALSE
  OBVIOUS
<1>2. 0 \in T
  OBVIOUS
<1>3. ASSUME NEW k \in 1..n, k - 1 \in T PROVE k \in T
  <2>1. k - 1 \notin S
    BY <1>1, <1>3
  <2>2. QED
    BY <1>3, <2>1
<1> HIDE DEF T
<1>4. 0..n \subseteq T
  BY <1>2, <1>3, Upwards
<1>5. n \in T
  BY <1>4
<1>6. \A y \in S : y \in Nat /\ n <= y /\ y <= n
  BY <1>5 DEF T
<1>7. PICK y \in S : TRUE
  OBVIOUS
<1>8. n \in S /\ \A x \in S : n <= x
  BY <1>6, <1>7
<1>9. QED
  BY <1>1, <1>8

LEMMA Greatest ==
    ASSUME NEW n \in Nat, NEW S, S \subseteq 0..n, S # {}
    PROVE  \E m \in S : \A y \in S : m >= y
<1> DEFINE T == {k \in 0..n : n - k \in S}
<1>1. T \subseteq 0..n /\ T # {}
  <2>1. PICK y \in S : TRUE
    OBVIOUS
  <2>2. y \in 0..n /\ n - y \in 0..n /\ n - (n - y) = y
    OBVIOUS
  <2>3. n - y \in T
    BY <2>1, <2>2
  <2>4. QED
    BY <2>3
<1> HIDE DEF T
<1>2. PICK k \in T : \A y \in T : k <= y
  BY <1>1, Least
<1>3. k \in 0..n /\ n - k \in S
  BY <1>2 DEF T
<1>4. ASSUME NEW y \in S PROVE n - k >= y
  <2>1. y \in 0..n /\ n - y \in 0..n /\ n - (n - y) = y
    OBVIOUS
  <2>2. n - y \in T
    BY <1>4, <2>1 DEF T
  <2>3. QED
    BY <1>2, <1>3, <2>1, <2>2
<1>5. QED
  BY <1>3, <1>4

LEMMA Constants ==
    /\ \A n \in NumTable : n \in Nat /\ n >= 1 /\ n \div 1024 <= ShrtMax
    /\ \A n \in Lengths \cup {1024} : n \in Nat /\ n >= 1 /\ \E k \in NumTable : n <= k
    /\ ShrtMax \in Nat /\ ShrtMax >= 1 /\ MaxMailSize \in Nat /\ MaxTime \in Nat /\ MaxTime >= 1
    /\ MaxTry \in Nat /\ Nobody \notin Procs
BY MailboxAssumption

LEMMA Kilobytes ==
    /\ \A n \in Nat : Kilo(n) \in Nat /\ Kilo(n) >= 1
    /\ \A n \in NumTable \cup {0} : n \in Nat /\ Kilo(n) <= ShrtMax
<1>1. ASSUME NEW n \in Nat PROVE Kilo(n) \in Nat /\ Kilo(n) >= 1
  BY DEF Kilo
<1>2. ASSUME NEW n \in NumTable PROVE n \in Nat /\ Kilo(n) <= ShrtMax
  BY Constants DEF Kilo
<1>3. Kilo(0) = 1 /\ 0 \in Nat /\ 1 <= ShrtMax
  BY Constants DEF Kilo
<1>4. QED
  BY <1>1, <1>2, <1>3

(* numbyte finds an entry for every length that is asked for. *)
LEMMA RoundedIs == ASSUME NEW n \in Lengths \cup {1, 1024} PROVE Rounded(n) \in NumTable
<1>1. n \in Nat /\ (\E k \in NumTable : n <= k) /\ \A k \in NumTable : k \in Nat
  <2>1. PICK k \in NumTable : 1024 <= k /\ k \in Nat
    BY Constants
  <2>2. 1 <= k
    BY <2>1
  <2>3. QED
    BY <2>1, <2>2, Constants
<1>2. PICK a \in NumTable : n <= a
  BY <1>1
<1> DEFINE L == {k \in 0..a : k \in NumTable /\ n <= k}
<1>3. a \in Nat /\ L \subseteq 0..a /\ L # {}
  BY <1>1, <1>2
<1>4. PICK m \in L : \A y \in L : m <= y
  <2> HIDE DEF L
  <2>1. QED
    BY <1>3, Least
<1>5. ASSUME NEW j \in NumTable, n <= j PROVE m <= j
  <2>1. j \in Nat /\ (j <= a => j \in L) /\ m \in Nat /\ m <= a
    BY <1>1, <1>2, <1>4, <1>5
  <2>2. QED
    BY <1>3, <1>4, <2>1
<1>6. m \in NumTable /\ n <= m
  BY <1>4
<1>7. \E k \in NumTable : n <= k /\ \A j \in NumTable : n <= j => k <= j
  BY <1>5, <1>6
<1>8. QED
  BY <1>7 DEF Rounded

-----------------------------------------------------------------------------
(***************************************************************************)
(* The size of an index: s[i] is what the first i mails add up to.         *)
(***************************************************************************)
SumsTo(d, s, n) ==
    /\ s \in [0..n -> Nat] /\ s[0] = 0
    /\ \A i \in 1..n : s[i] = s[i - 1] + Kilo(d[i].size)

LEMMA HeaderIs ==
    ASSUME NEW d \in Seq(Header)
    PROVE  /\ Len(d) \in Nat /\ DOMAIN d = 1..Len(d)
           /\ \A i \in 1..Len(d) : /\ d[i] \in Header /\ d[i].filetime \in Nat
                                   /\ d[i].size \in NumTable \cup {0}
                                   /\ Kilo(d[i].size) \in Nat /\ Kilo(d[i].size) >= 1
                                   /\ Kilo(d[i].size) <= ShrtMax
<1>1. Len(d) \in Nat /\ DOMAIN d = 1..Len(d) /\ \A i \in 1..Len(d) : d[i] \in Header
  OBVIOUS
<1>2. \A h \in Header : h.filetime \in Nat /\ h.size \in NumTable \cup {0}
  BY DEF Header
<1>3. QED
  BY <1>1, <1>2, Kilobytes

LEMMA SumsExist == ASSUME NEW d \in Seq(Header) PROVE \E s : SumsTo(d, s, Len(d))
<1> DEFINE S == {n \in 0..Len(d) : \E s : SumsTo(d, s, n)}
<1>1. Len(d) \in Nat /\ 0 \in S
  <2>1. SumsTo(d, [i \in 0..0 |-> 0], 0)
    BY DEF SumsTo
  <2>2. QED
    BY <2>1, HeaderIs
<1>2. ASSUME NEW n \in 1..Len(d), n - 1 \in S PROVE n \in S
  <2>1. PICK s : SumsTo(d, s, n - 1)
    BY <1>2
  <2> DEFINE t == [i \in 0..n |-> IF i = n THEN s[n - 1] + Kilo(d[n].size) ELSE s[i]]
  <2>2. /\ s \in [0..n - 1 -> Nat] /\ s[0] = 0 /\ n \in Nat
        /\ \A i \in 1..n - 1 : s[i] = s[i - 1] + Kilo(d[i].size)
    BY <1>1, <2>1 DEF SumsTo
  <2>3. \A i \in 0..n : i = n \/ (i # n /\ i \in 0..n - 1)
    BY <2>2
  <2>4. t \in [0..n -> Nat] /\ t[n] = s[n - 1] + Kilo(d[n].size) /\ \A i \in 0..n - 1 : t[i] = s[i]
    <3>1. s[n - 1] \in Nat /\ Kilo(d[n].size) \in Nat
      BY <2>2, HeaderIs
    <3>2. QED
      BY <2>2, <2>3, <3>1
  <2> HIDE DEF t
  <2>5. SumsTo(d, t, n)
    <3>1. t[0] = 0
      BY <2>2, <2>4
    <3>2. ASSUME NEW i \in 1..n PROVE t[i] = t[i - 1] + Kilo(d[i].size)
      <4>1. i - 1 \in 0..n - 1 /\ (i = n \/ i \in 1..n - 1)
        BY <2>2
      <4>2. QED
        BY <2>2, <2>4, <4>1
    <3>3. QED
      BY <2>4, <3>1, <3>2 DEF SumsTo
  <2>6. QED
    BY <2>5
<1> HIDE DEF S
<1>3. 0..Len(d) \subseteq S
  BY <1>1, <1>2, Upwards
<1>4. QED
  BY <1>1, <1>3 DEF S

LEMMA SumsAgree ==
    ASSUME NEW d, NEW e, NEW n \in Nat, NEW s, NEW t, SumsTo(d, s, n), SumsTo(e, t, n),
           \A i \in 1..n : d[i].size = e[i].size
    PROVE  s[n] = t[n]
<1> DEFINE S == {i \in 0..n : s[i] = t[i]}
<1>1. 0 \in S
  BY DEF SumsTo
<1>2. ASSUME NEW i \in 1..n, i - 1 \in S PROVE i \in S
  BY <1>2 DEF SumsTo
<1> HIDE DEF S
<1>3. 0..n \subseteq S
  BY <1>1, <1>2, Upwards
<1>4. QED
  BY <1>3 DEF S

LEMMA SizeOfIs ==
    ASSUME NEW d \in Seq(Header), NEW s, SumsTo(d, s, Len(d)) PROVE SizeOf(d) = s[Len(d)]
<1> DEFINE F(f, i) == IF i = 0 THEN 0 ELSE f[i - 1] + Kilo(d[i].size)
           upto == CHOOSE f : f = [i \in 0..Len(d) |-> F(f, i)]
<1>1. Len(d) \in Nat
  BY HeaderIs
<1>2. s = [i \in 0..Len(d) |-> F(s, i)]
  <2>1. s = [i \in 0..Len(d) |-> s[i]] /\ \A i \in 0..Len(d) : s[i] = F(s, i)
    BY <1>1 DEF SumsTo
  <2> HIDE DEF F
  <2>2. QED
    BY <2>1
<1>3. upto = [i \in 0..Len(d) |-> F(upto, i)]
  <2> HIDE DEF F
  <2>1. QED
    BY <1>2
<1>4. SizeOf(d) = upto[Len(d)]
  BY DEF SizeOf
<1> DEFINE S == {i \in 0..Len(d) : upto[i] = s[i]}
<1>5. \A i \in 0..Len(d) : upto[i] = F(upto, i) /\ s[i] = F(s, i)
  <2>1. \A i \in 0..Len(d) : s[i] = F(s, i)
    <3> HIDE DEF F, upto
    <3>1. QED
      BY <1>2
  <2>2. \A i \in 0..Len(d) : upto[i] = F(upto, i)
    <3> HIDE DEF F, upto
    <3>1. QED
      BY <1>3
  <2> HIDE DEF F, upto
  <2>3. QED
    BY <2>1, <2>2
<1>6. 0 \in S
  <2> HIDE DEF upto
  <2>1. QED
    BY <1>1, <1>5
<1>7. ASSUME NEW i \in 1..Len(d), i - 1 \in S PROVE i \in S
  <2>1. i # 0 /\ upto[i - 1] = s[i - 1] /\ i \in 0..Len(d)
    BY <1>1, <1>7
  <2> HIDE DEF upto
  <2>2. QED
    BY <1>5, <2>1
<1> HIDE DEF S, upto, F
<1>8. 0..Len(d) \subseteq S
  BY <1>1, <1>6, <1>7, Upwards
<1>9. QED
  BY <1>1, <1>4, <1>8 DEF S

LEMMA SizeInNat == ASSUME NEW d \in Seq(Header) PROVE SizeOf(d) \in Nat
<1>1. PICK s : SumsTo(d, s, Len(d))
  BY SumsExist
<1>2. SizeOf(d) = s[Len(d)]
  BY <1>1, SizeOfIs
<1>3. QED
  BY <1>1, <1>2, HeaderIs DEF SumsTo

(* It depends on the sizes of the lines only. *)
LEMMA SizeSame ==
    ASSUME NEW d \in Seq(Header), NEW e \in Seq(Header), Len(d) = Len(e),
           \A i \in DOMAIN d : d[i].size = e[i].size
    PROVE  SizeOf(d) = SizeOf(e)
<1>1. PICK s : SumsTo(d, s, Len(d))
  BY SumsExist
<1>2. PICK t : SumsTo(e, t, Len(e))
  BY SumsExist
<1>3. SizeOf(d) = s[Len(d)] /\ SizeOf(e) = t[Len(e)]
  BY <1>1, <1>2, SizeOfIs
<1> DEFINE n == Len(d)
<1>4. /\ n \in Nat /\ SumsTo(d, s, n) /\ SumsTo(e, t, n)
      /\ \A i \in 1..n : d[i].size = e[i].size
  BY <1>1, <1>2, HeaderIs
<1>5. s[n] = t[n]
  <2> HIDE DEF n
  <2>1. QED
    BY <1>4, SumsAgree
<1>6. QED
  BY <1>3, <1>5

LEMMA SizeAppend ==
    ASSUME NEW d \in Seq(Header), NEW h \in Header
    PROVE  SizeOf(Append(d, h)) = SizeOf(d) + Kilo(h.size)
<1> DEFINE e == Append(d, h)
<1>1. e \in Seq(Header) /\ Len(e) = Len(d) + 1 /\ Len(d) \in Nat /\ e[Len(d) + 1] = h
      /\ \A i \in 1..Len(d) : e[i] = d[i]
  BY AppendProperties, HeaderIs
<1> HIDE DEF e
<1>2. PICK t : SumsTo(e, t, Len(e))
  BY <1>1, SumsExist
<1>3. PICK s : SumsTo(d, s, Len(d))
  BY SumsExist
<1> DEFINE u == [i \in 0..Len(d) |-> t[i]]
<1>4. SumsTo(d, u, Len(d))
  <2>1. /\ t \in [0..Len(d) + 1 -> Nat] /\ t[0] = 0
        /\ \A i \in 1..Len(d) + 1 : t[i] = t[i - 1] + Kilo(e[i].size)
    BY <1>1, <1>2 DEF SumsTo
  <2>2. u \in [0..Len(d) -> Nat] /\ u[0] = 0 /\ \A i \in 0..Len(d) : u[i] = t[i]
    BY <1>1, <2>1
  <2> HIDE DEF u
  <2>3. ASSUME NEW i \in 1..Len(d) PROVE u[i] = u[i - 1] + Kilo(d[i].size)
    <3>1. i \in 0..Len(d) /\ i - 1 \in 0..Len(d) /\ i \in 1..Len(d) + 1
      BY <1>1
    <3>2. QED
      BY <1>1, <2>1, <2>2, <3>1
  <2>4. QED
    BY <2>2, <2>3 DEF SumsTo
<1>5. SizeOf(d) = u[Len(d)] /\ SizeOf(e) = t[Len(e)]
  <2> HIDE DEF u
  <2>1. QED
    BY <1>1, <1>2, <1>4, SizeOfIs
<1>6. u[Len(d)] = t[Len(d)] /\ Len(d) + 1 \in 1..Len(d) + 1
  BY <1>1
<1>7. t[Len(d) + 1] = t[Len(d)] + Kilo(h.size)
  BY <1>1, <1>2 DEF SumsTo
<1>8. QED
  BY <1>1, <1>5, <1>6, <1>7 DEF e

-----------------------------------------------------------------------------
(***************************************************************************)
(* What a deletion leaves: w[i] is what is left of the first i records.    *)
(***************************************************************************)
Leaves(d, gone, w, n) ==
    /\ w[0] = <<>>
    /\ \A i \in 1..n : w[i] = IF i \in gone THEN w[i - 1] ELSE Append(w[i - 1], d[i])

LEMMA LeavesExist ==
    ASSUME NEW T, NEW d \in Seq(T), NEW gone
    PROVE  \E w \in [0..Len(d) -> Seq(T)] : Leaves(d, gone, w, Len(d))
<1> DEFINE S == {n \in 0..Len(d) : \E w \in [0..n -> Seq(T)] : Leaves(d, gone, w, n)}
<1>1. Len(d) \in Nat /\ 0 \in S
  <2> DEFINE w == [i \in 0..0 |-> <<>>]
  <2>1. w \in [0..0 -> Seq(T)] /\ w[0] = <<>>
    OBVIOUS
  <2>2. Leaves(d, gone, w, 0)
    BY <2>1 DEF Leaves
  <2>3. Len(d) \in Nat /\ 0 \in 0..Len(d)
    OBVIOUS
  <2> HIDE DEF w
  <2>4. \E v \in [0..0 -> Seq(T)] : Leaves(d, gone, v, 0)
    BY <2>1, <2>2
  <2>5. QED
    BY <2>3, <2>4
<1>2. ASSUME NEW n \in 1..Len(d), n - 1 \in S PROVE n \in S
  <2>1. PICK w \in [0..n - 1 -> Seq(T)] : Leaves(d, gone, w, n - 1)
    BY <1>2
  <2> DEFINE x == IF n \in gone THEN w[n - 1] ELSE Append(w[n - 1], d[n])
             v == [i \in 0..n |-> IF i = n THEN x ELSE w[i]]
  <2>2. n \in Nat /\ w[0] = <<>>
        /\ \A i \in 1..n - 1 : w[i] = IF i \in gone THEN w[i - 1] ELSE Append(w[i - 1], d[i])
    BY <1>1, <2>1 DEF Leaves
  <2>3. x \in Seq(T)
    <3>1. w[n - 1] \in Seq(T) /\ d[n] \in T
      BY <2>1, <2>2
    <3>2. QED
      BY <3>1, AppendProperties
  <2>4. \A i \in 0..n : i = n \/ (i # n /\ i \in 0..n - 1)
    BY <2>2
  <2> HIDE DEF x
  <2>5. v \in [0..n -> Seq(T)] /\ v[n] = x /\ \A i \in 0..n - 1 : v[i] = w[i]
    BY <2>1, <2>2, <2>3, <2>4
  <2> HIDE DEF v
  <2>6. Leaves(d, gone, v, n)
    <3>1. v[0] = <<>>
      BY <2>2, <2>5
    <3>2. ASSUME NEW i \in 1..n
          PROVE  v[i] = IF i \in gone THEN v[i - 1] ELSE Append(v[i - 1], d[i])
      <4>1. i - 1 \in 0..n - 1 /\ v[i - 1] = w[i - 1] /\ (i = n \/ (i \in 1..n - 1 /\ v[i] = w[i]))
        BY <2>2, <2>5
      <4>2. QED
        BY <2>2, <2>5, <4>1 DEF x
    <3>3. QED
      BY <3>1, <3>2 DEF Leaves
  <2>7. QED
    BY <2>5, <2>6
<1> HIDE DEF S
<1>3. 0..Len(d) \subseteq S
  BY <1>1, <1>2, Upwards
<1>4. QED
  BY <1>1, <1>3 DEF S

LEMMA WithoutIs ==
    ASSUME NEW T, NEW d \in Seq(T), NEW gone,
           NEW w \in [0..Len(d) -> Seq(T)], Leaves(d, gone, w, Len(d))
    PROVE  Without(d, gone) = w[Len(d)]
<1> DEFINE F(f, i) == IF i = 0 THEN <<>>
                      ELSE IF i \in gone THEN f[i - 1] ELSE Append(f[i - 1], d[i])
           upto == CHOOSE f : f = [i \in 0..Len(d) |-> F(f, i)]
<1>1. Len(d) \in Nat
  OBVIOUS
<1>2. w = [i \in 0..Len(d) |-> F(w, i)]
  <2>1. w = [i \in 0..Len(d) |-> w[i]]
    OBVIOUS
  <2>2. w[0] = F(w, 0)
    BY DEF Leaves
  <2>3. \A i \in 1..Len(d) : i # 0 /\ w[i] = F(w, i)
    BY <1>1 DEF Leaves
  <2>4. \A i \in 0..Len(d) : i = 0 \/ i \in 1..Len(d)
    BY <1>1
  <2> HIDE DEF F
  <2>5. \A i \in 0..Len(d) : w[i] = F(w, i)
    BY <2>2, <2>3, <2>4
  <2>6. QED
    BY <2>1, <2>5
<1>3. upto = [i \in 0..Len(d) |-> F(upto, i)]
  <2> HIDE DEF F
  <2>1. QED
    BY <1>2
<1>4. Without(d, gone) = upto[Len(d)]
  BY DEF Without
<1> DEFINE S == {i \in 0..Len(d) : upto[i] = w[i]}
<1>5. \A i \in 0..Len(d) : upto[i] = F(upto, i) /\ w[i] = F(w, i)
  <2>1. \A i \in 0..Len(d) : w[i] = F(w, i)
    <3> HIDE DEF F, upto
    <3>1. QED
      BY <1>2
  <2>2. \A i \in 0..Len(d) : upto[i] = F(upto, i)
    <3> HIDE DEF F, upto
    <3>1. QED
      BY <1>3
  <2> HIDE DEF F, upto
  <2>3. QED
    BY <2>1, <2>2
<1>6. 0 \in S
  <2> HIDE DEF upto
  <2>1. QED
    BY <1>1, <1>5
<1>7. ASSUME NEW i \in 1..Len(d), i - 1 \in S PROVE i \in S
  <2>1. i # 0 /\ upto[i - 1] = w[i - 1] /\ i \in 0..Len(d)
    BY <1>1, <1>7
  <2> HIDE DEF upto
  <2>2. QED
    BY <1>5, <2>1
<1> HIDE DEF S, upto, F
<1>8. 0..Len(d) \subseteq S
  BY <1>1, <1>6, <1>7, Upwards
<1>9. QED
  BY <1>1, <1>4, <1>8 DEF S

(* Each record that stays is there, and no other. *)
LEMMA WithoutHas ==
    ASSUME NEW T, NEW d \in Seq(T), NEW gone
    PROVE  /\ Without(d, gone) \in Seq(T)
           /\ \A k \in DOMAIN Without(d, gone) :
                  \E i \in DOMAIN d \ gone : Without(d, gone)[k] = d[i]
           /\ \A i \in DOMAIN d \ gone :
                  \E k \in DOMAIN Without(d, gone) : Without(d, gone)[k] = d[i]
<1>1. PICK w \in [0..Len(d) -> Seq(T)] : Leaves(d, gone, w, Len(d))
  BY LeavesExist
<1> DEFINE S == {n \in 0..Len(d) :
                   /\ \A k \in 1..Len(w[n]) : \E i \in 1..n : i \notin gone /\ w[n][k] = d[i]
                   /\ \A i \in 1..n : i \in gone \/ \E k \in 1..Len(w[n]) : w[n][k] = d[i]}
<1>2. Len(d) \in Nat /\ DOMAIN d = 1..Len(d) /\ w[0] = <<>>
      /\ \A n \in 0..Len(d) : w[n] \in Seq(T)
  BY <1>1 DEF Leaves
<1>3. 0 \in S
  BY <1>2
<1>4. ASSUME NEW n \in 1..Len(d), n - 1 \in S PROVE n \in S
  <2> DEFINE s == w[n - 1]
             t == w[n]
  <2>1. /\ s \in Seq(T) /\ d[n] \in T /\ n \in Nat
        /\ t = IF n \in gone THEN s ELSE Append(s, d[n])
    BY <1>1, <1>2 DEF Leaves
  <2>2. /\ \A k \in 1..Len(s) : \E i \in 1..n - 1 : i \notin gone /\ s[k] = d[i]
        /\ \A i \in 1..n - 1 : i \in gone \/ \E k \in 1..Len(s) : s[k] = d[i]
    BY <1>4
  <2> HIDE DEF s, t
  <2>3. CASE n \in gone
    <3>1. t = s /\ \A i \in 1..n : i = n \/ i \in 1..n - 1
      BY <2>1, <2>3
    <3>2. \A k \in 1..Len(t) : \E i \in 1..n : i \notin gone /\ t[k] = d[i]
      <4>1. 1..n - 1 \subseteq 1..n
        BY <2>1
      <4>2. QED
        BY <2>2, <3>1, <4>1
    <3>3. \A i \in 1..n : i \in gone \/ \E k \in 1..Len(t) : t[k] = d[i]
      BY <2>2, <2>3, <3>1
    <3>4. QED
      BY <1>2, <3>2, <3>3 DEF t
  <2>4. CASE n \notin gone
    <3>1. /\ t = Append(s, d[n]) /\ Len(t) = Len(s) + 1 /\ t[Len(s) + 1] = d[n] /\ Len(s) \in Nat
          /\ \A k \in 1..Len(s) : t[k] = s[k]
      BY <2>1, <2>4, AppendProperties
    <3>2. ASSUME NEW k \in 1..Len(t) PROVE \E i \in 1..n : i \notin gone /\ t[k] = d[i]
      <4>1. CASE k = Len(s) + 1
        BY <2>1, <2>4, <3>1, <4>1
      <4>2. CASE k # Len(s) + 1
        <5>1. k \in 1..Len(s) /\ t[k] = s[k]
          BY <3>1, <4>2
        <5>2. PICK i \in 1..n - 1 : i \notin gone /\ s[k] = d[i]
          BY <2>2, <5>1
        <5>3. i \in 1..n
          BY <2>1
        <5>4. QED
          BY <5>1, <5>2, <5>3
      <4>3. QED
        BY <4>1, <4>2
    <3>3. ASSUME NEW i \in 1..n PROVE i \in gone \/ \E k \in 1..Len(t) : t[k] = d[i]
      <4>1. CASE i = n
        BY <3>1, <4>1
      <4>2. CASE i # n
        <5>1. i \in 1..n - 1 /\ 1..Len(s) \subseteq 1..Len(t)
          BY <2>1, <3>1, <4>2
        <5>2. QED
          BY <2>2, <3>1, <5>1
      <4>3. QED
        BY <4>1, <4>2
    <3>4. QED
      BY <1>2, <3>2, <3>3 DEF t
  <2>5. QED
    BY <2>3, <2>4
<1> HIDE DEF S
<1>5. 0..Len(d) \subseteq S
  BY <1>2, <1>3, <1>4, Upwards
<1> DEFINE n == Len(d)
           r == w[n]
<1>6. r \in Seq(T) /\ Without(d, gone) = r /\ n \in S
  BY <1>1, <1>2, <1>5, WithoutIs
<1>7. /\ \A k \in 1..Len(r) : \E i \in 1..n : i \notin gone /\ r[k] = d[i]
      /\ \A i \in 1..n : i \in gone \/ \E k \in 1..Len(r) : r[k] = d[i]
  <2> HIDE DEF n
  <2>1. QED
    BY <1>6 DEF S
<1>8. DOMAIN r = 1..Len(r) /\ DOMAIN d = 1..n
  BY <1>2, <1>6
<1> HIDE DEF r, n
<1>9. QED
  BY <1>6, <1>7, <1>8

(* What is left of lines with names of their own has names of its own. *)
LEMMA WithoutApart ==
    ASSUME NEW d \in Seq(Header), NEW gone,
           \A i, j \in DOMAIN d : d[i].filetime = d[j].filetime => i = j
    PROVE  LET r == Without(d, gone) IN
           \A i, j \in DOMAIN r : r[i].filetime = r[j].filetime => i = j
<1>1. PICK w \in [0..Len(d) -> Seq(Header)] : Leaves(d, gone, w, Len(d))
  BY LeavesExist
<1> DEFINE S == {n \in 0..Len(d) :
                   /\ \A k \in 1..Len(w[n]) : \E i \in 1..n : w[n][k] = d[i]
                   /\ \A j, k \in 1..Len(w[n]) : w[n][j].filetime = w[n][k].filetime => j = k}
<1>2. Len(d) \in Nat /\ DOMAIN d = 1..Len(d) /\ w[0] = <<>>
      /\ \A n \in 0..Len(d) : w[n] \in Seq(Header)
  <2>1. Len(d) \in Nat /\ DOMAIN d = 1..Len(d)
    BY HeaderIs
  <2>2. QED
    BY <1>1, <2>1 DEF Leaves
<1>3. 0 \in S
  BY <1>2
<1>4. ASSUME NEW n \in 1..Len(d), n - 1 \in S PROVE n \in S
  <2> DEFINE s == w[n - 1]
             t == w[n]
  <2>1. /\ s \in Seq(Header) /\ d[n] \in Header /\ n \in Nat
        /\ t = IF n \in gone THEN s ELSE Append(s, d[n])
    BY <1>1, <1>2 DEF Leaves
  <2>2. /\ \A k \in 1..Len(s) : \E i \in 1..n - 1 : s[k] = d[i]
        /\ \A j, k \in 1..Len(s) : s[j].filetime = s[k].filetime => j = k
    BY <1>4
  <2>3. \A i \in 1..n - 1 : i \in 1..n /\ i # n /\ d[i].filetime # d[n].filetime
    <3>1. \A i \in 1..n - 1 : i \in 1..Len(d) /\ i \in 1..n /\ i # n
      BY <1>2
    <3>2. QED
      BY <1>2, <3>1
  <2> HIDE DEF s, t
  <2>4. CASE n \in gone
    BY <1>2, <2>1, <2>2, <2>3, <2>4 DEF t
  <2>5. CASE n \notin gone
    <3>1. /\ t = Append(s, d[n]) /\ Len(t) = Len(s) + 1 /\ t[Len(s) + 1] = d[n] /\ Len(s) \in Nat
          /\ \A k \in 1..Len(s) : t[k] = s[k]
      BY <2>1, <2>5, AppendProperties
    <3>2. \A k \in 1..Len(t) : k = Len(s) + 1 \/ (k \in 1..Len(s) /\ k # Len(s) + 1)
      BY <3>1
    <3>3. \A k \in 1..Len(t) : \E i \in 1..n : t[k] = d[i]
      BY <2>1, <2>2, <2>3, <3>1, <3>2
    <3>4. \A k \in 1..Len(s) : t[k].filetime # d[n].filetime
      BY <2>2, <2>3, <3>1
    <3>5. \A j, k \in 1..Len(t) : t[j].filetime = t[k].filetime => j = k
      BY <2>2, <3>1, <3>2, <3>4
    <3>6. QED
      BY <1>2, <3>3, <3>5 DEF t
  <2>6. QED
    BY <2>4, <2>5
<1> HIDE DEF S
<1>5. 0..Len(d) \subseteq S
  BY <1>2, <1>3, <1>4, Upwards
<1> DEFINE r == w[Len(d)]
<1>6. r \in Seq(Header) /\ Without(d, gone) = r
  BY <1>1, <1>2, WithoutIs
<1>7. \A j, k \in 1..Len(r) : r[j].filetime = r[k].filetime => j = k
  BY <1>2, <1>5 DEF S
<1>8. DOMAIN r = 1..Len(r)
  BY <1>6
<1> HIDE DEF r
<1>9. QED
  BY <1>6, <1>7, <1>8

LEMMA WithoutNone == ASSUME NEW d \in Seq(Header) PROVE Without(d, {}) = d
<1>1. PICK w \in [0..Len(d) -> Seq(Header)] : Leaves(d, {}, w, Len(d))
  BY LeavesExist
<1> DEFINE S == {n \in 0..Len(d) : Len(w[n]) = n /\ \A k \in 1..n : w[n][k] = d[k]}
<1>2. Len(d) \in Nat /\ DOMAIN d = 1..Len(d) /\ w[0] = <<>>
      /\ \A n \in 0..Len(d) : w[n] \in Seq(Header)
  <2>1. Len(d) \in Nat /\ DOMAIN d = 1..Len(d)
    BY HeaderIs
  <2>2. QED
    BY <1>1, <2>1 DEF Leaves
<1>3. 0 \in S
  BY <1>2
<1>4. ASSUME NEW n \in 1..Len(d), n - 1 \in S PROVE n \in S
  <2> DEFINE s == w[n - 1]
             t == w[n]
  <2>1. /\ s \in Seq(Header) /\ d[n] \in Header /\ n \in Nat /\ n \in 0..Len(d)
        /\ t = Append(s, d[n]) /\ Len(s) = n - 1 /\ \A k \in 1..n - 1 : s[k] = d[k]
    <3>1. s \in Seq(Header) /\ d[n] \in Header /\ n \in Nat /\ n \in 0..Len(d)
      BY <1>2
    <3>2. t = Append(s, d[n])
      BY <1>1 DEF Leaves
    <3>3. Len(s) = n - 1 /\ \A k \in 1..n - 1 : s[k] = d[k]
      BY <1>4
    <3>4. QED
      BY <3>1, <3>2, <3>3
  <2> HIDE DEF s, t
  <2>2. /\ Len(t) = n /\ t[n] = d[n] /\ \A k \in 1..n - 1 : t[k] = s[k]
    BY <2>1, AppendProperties
  <2>3. \A k \in 1..n : k = n \/ k \in 1..n - 1
    BY <2>1
  <2>4. \A k \in 1..n : t[k] = d[k]
    BY <2>1, <2>2, <2>3
  <2>5. QED
    BY <2>1, <2>2, <2>4 DEF t
<1> HIDE DEF S
<1>5. 0..Len(d) \subseteq S
  BY <1>2, <1>3, <1>4, Upwards
<1> DEFINE r == w[Len(d)]
<1>6. r \in Seq(Header) /\ Without(d, {}) = r
  BY <1>1, <1>2, WithoutIs
<1>7. Len(r) = Len(d) /\ \A k \in 1..Len(d) : r[k] = d[k]
  BY <1>2, <1>5 DEF S
<1> HIDE DEF r
<1>8. r = d
  BY <1>6, <1>7, SeqEqual
<1>9. QED
  BY <1>6, <1>8

(* One record more that goes takes its size with it. *)
LEMMA WithoutOne ==
    ASSUME NEW d \in Seq(Header), NEW gone, NEW i \in DOMAIN d, i \notin gone
    PROVE  SizeOf(Without(d, gone)) = SizeOf(Without(d, gone \cup {i})) + Kilo(d[i].size)
<1> DEFINE more == gone \cup {i}
<1>1. PICK v \in [0..Len(d) -> Seq(Header)] : Leaves(d, gone, v, Len(d))
  BY LeavesExist
<1>2. PICK w \in [0..Len(d) -> Seq(Header)] : Leaves(d, more, w, Len(d))
  BY LeavesExist
<1> DEFINE S == {n \in 0..Len(d) : SizeOf(v[n]) = SizeOf(w[n])
                                       + (IF n < i THEN 0 ELSE Kilo(d[i].size))}
<1>3. Len(d) \in Nat /\ DOMAIN d = 1..Len(d) /\ v[0] = <<>> /\ w[0] = <<>>
      /\ \A n \in 0..Len(d) : v[n] \in Seq(Header) /\ w[n] \in Seq(Header)
  <2>1. Len(d) \in Nat /\ DOMAIN d = 1..Len(d)
    BY HeaderIs
  <2>2. v[0] = <<>> /\ w[0] = <<>>
    BY <1>1, <1>2 DEF Leaves
  <2>3. QED
    BY <1>1, <2>1, <2>2
<1>4. i \in Nat /\ 0 < i /\ i <= Len(d)
  BY <1>3
<1>5. 0 \in S
  <2>1. SizeOf(v[0]) = SizeOf(w[0]) /\ SizeOf(w[0]) \in Nat /\ 0 \in 0..Len(d)
    BY <1>3, SizeInNat
  <2>2. QED
    BY <1>4, <2>1
<1>6. ASSUME NEW n \in 1..Len(d), n - 1 \in S PROVE n \in S
  <2> DEFINE s == v[n - 1]
             t == v[n]
             x == w[n - 1]
             y == w[n]
  <2>1. /\ s \in Seq(Header) /\ x \in Seq(Header) /\ d[n] \in Header /\ n \in Nat /\ n \in 0..Len(d)
        /\ n - 1 \in 0..Len(d)
    BY <1>3
  <2>2. /\ t = IF n \in gone THEN s ELSE Append(s, d[n])
        /\ y = IF n \in more THEN x ELSE Append(x, d[n])
    BY <1>1, <1>2 DEF Leaves
  <2>3. SizeOf(s) = SizeOf(x) + (IF n - 1 < i THEN 0 ELSE Kilo(d[i].size))
    BY <1>6
  <2> HIDE DEF s, t, x, y
  <2>4. SizeOf(s) \in Nat /\ SizeOf(x) \in Nat /\ Kilo(d[i].size) \in Nat /\ Kilo(d[n].size) \in Nat
    BY <1>3, <2>1, SizeInNat, HeaderIs
  <2>5. /\ SizeOf(Append(s, d[n])) = SizeOf(s) + Kilo(d[n].size)
        /\ SizeOf(Append(x, d[n])) = SizeOf(x) + Kilo(d[n].size)
    BY <2>1, SizeAppend
  <2>6. SizeOf(t) = SizeOf(y) + (IF n < i THEN 0 ELSE Kilo(d[i].size))
    <3>1. CASE n = i
      <4>1. SizeOf(s) = SizeOf(x) /\ t = Append(s, d[n]) /\ y = x /\ ~(n < i)
        BY <1>4, <2>1, <2>2, <2>3, <2>4, <3>1
      <4>2. QED
        BY <2>4, <2>5, <3>1, <4>1
    <3>2. CASE n # i
      <4>1. (n - 1 < i <=> n < i) /\ (n \in more <=> n \in gone)
        BY <1>4, <2>1, <3>2
      <4>2. SizeOf(s) = SizeOf(x) + (IF n < i THEN 0 ELSE Kilo(d[i].size))
        BY <2>3, <4>1
      <4>3. CASE n \in gone
        BY <2>2, <4>1, <4>2, <4>3
      <4>4. CASE n \notin gone
        <5>1. SizeOf(t) = SizeOf(s) + Kilo(d[n].size) /\ SizeOf(y) = SizeOf(x) + Kilo(d[n].size)
          BY <2>2, <2>5, <4>1, <4>4
        <5>2. QED
          BY <2>4, <4>2, <5>1
      <4>5. QED
        BY <4>3, <4>4
    <3>3. QED
      BY <3>1, <3>2
  <2>7. QED
    BY <2>1, <2>6 DEF t, y
<1> HIDE DEF S
<1>7. 0..Len(d) \subseteq S
  BY <1>3, <1>5, <1>6, Upwards
<1>8. Without(d, gone) = v[Len(d)] /\ Without(d, more) = w[Len(d)]
  BY <1>1, <1>2, WithoutIs
<1>9. Len(d) \in S /\ ~(Len(d) < i)
  <2>1. Len(d) \in 0..Len(d) /\ ~(Len(d) < i)
    BY <1>3, <1>4
  <2>2. QED
    BY <1>7, <2>1
<1>10. SizeOf(v[Len(d)]) = SizeOf(w[Len(d)]) + Kilo(d[i].size)
  <2> HIDE DEF more
  <2>1. QED
    BY <1>9 DEF S
<1>11. QED
  BY <1>8, <1>10

(* delete_range writes what is left from the first record that goes on. *)
LEMMA CutIs ==
    ASSUME NEW d \in Seq(Header), NEW gone, NEW f \in gone, gone \subseteq DOMAIN d,
           \A j \in gone : f <= j
    PROVE  SubSeq(d, 1, f - 1) \o Without(d, gone \cup 1..f) = Without(d, gone)
<1> DEFINE more == gone \cup 1..f
           top == SubSeq(d, 1, f - 1)
<1>1. PICK v \in [0..Len(d) -> Seq(Header)] : Leaves(d, gone, v, Len(d))
  BY LeavesExist
<1>2. PICK w \in [0..Len(d) -> Seq(Header)] : Leaves(d, more, w, Len(d))
  BY LeavesExist
<1>3. Len(d) \in Nat /\ DOMAIN d = 1..Len(d) /\ v[0] = <<>> /\ w[0] = <<>>
      /\ \A n \in 0..Len(d) : v[n] \in Seq(Header) /\ w[n] \in Seq(Header)
  <2>1. Len(d) \in Nat /\ DOMAIN d = 1..Len(d)
    BY HeaderIs
  <2>2. v[0] = <<>> /\ w[0] = <<>>
    BY <1>1, <1>2 DEF Leaves
  <2>3. QED
    BY <1>1, <2>1, <2>2
<1>4. f \in Nat /\ 0 < f /\ f <= Len(d) /\ \A n \in 1..Len(d) : n < f => n \notin gone
  BY <1>3
<1>5. /\ top \in Seq(Header) /\ Len(top) = f - 1 /\ \A k \in 1..f - 1 : top[k] = d[k]
  <2>1. \A k \in 1..f - 1 : d[k] \in Header
    BY <1>3, <1>4
  <2>2. /\ top \in Seq(Header) /\ Len(top) = (IF 1 <= f - 1 THEN f - 1 - 1 + 1 ELSE 0)
        /\ \A k \in 1..f - 1 - 1 + 1 : top[k] = d[1 + k - 1]
    BY <1>4, <2>1, SubSeqProperties
  <2>3. \A k \in 1..f - 1 : k \in 1..f - 1 - 1 + 1 /\ 1 + k - 1 = k
    BY <1>4
  <2> HIDE DEF top
  <2>4. QED
    BY <1>4, <2>2, <2>3
<1> HIDE DEF top
<1> DEFINE S == {n \in 0..Len(d) :
                   IF n < f THEN w[n] = <<>> /\ Len(v[n]) = n /\ \A k \in 1..n : v[n][k] = d[k]
                   ELSE v[n] = top \o w[n]}
<1>6. 0 \in S
  BY <1>3, <1>4
<1>7. ASSUME NEW n \in 1..Len(d), n - 1 \in S PROVE n \in S
  <2> DEFINE s == v[n - 1]
             t == v[n]
             x == w[n - 1]
             y == w[n]
  <2>1. /\ s \in Seq(Header) /\ x \in Seq(Header) /\ d[n] \in Header /\ n \in Nat /\ n \in 0..Len(d)
        /\ n - 1 \in 0..Len(d)
    BY <1>3
  <2>2. /\ t = IF n \in gone THEN s ELSE Append(s, d[n])
        /\ y = IF n \in more THEN x ELSE Append(x, d[n])
    BY <1>1, <1>2 DEF Leaves
  <2>3. IF n - 1 < f THEN x = <<>> /\ Len(s) = n - 1 /\ \A k \in 1..n - 1 : s[k] = d[k]
                     ELSE s = top \o x
    BY <1>7
  <2> HIDE DEF s, t, x, y
  <2>4. CASE n < f
    <3>1. t = Append(s, d[n]) /\ y = <<>> /\ Len(s) = n - 1 /\ \A k \in 1..n - 1 : s[k] = d[k]
      BY <1>4, <2>1, <2>2, <2>3, <2>4
    <3>2. Len(t) = n /\ t[n] = d[n] /\ \A k \in 1..n - 1 : t[k] = s[k]
      BY <2>1, <3>1, AppendProperties
    <3>3. \A k \in 1..n : k = n \/ k \in 1..n - 1
      BY <2>1
    <3>4. \A k \in 1..n : t[k] = d[k]
      BY <3>1, <3>2, <3>3
    <3>5. QED
      BY <2>1, <2>4, <3>1, <3>2, <3>4 DEF t, y
  <2>5. CASE n = f
    <3>1. t = s /\ y = x /\ x = <<>> /\ Len(s) = f - 1 /\ \A k \in 1..f - 1 : s[k] = d[k]
      BY <1>4, <2>1, <2>2, <2>3, <2>5
    <3>2. s = top
      BY <1>5, <2>1, <3>1, SeqEqual
    <3>3. top \o <<>> = top
      BY <1>5, ConcatEmptySeq
    <3>4. t = top \o y /\ ~(n < f)
      BY <1>4, <2>5, <3>1, <3>2, <3>3
    <3>5. QED
      BY <2>1, <3>4 DEF t, y
  <2>6. CASE n > f
    <3>1. s = top \o x /\ (n \in more <=> n \in gone) /\ ~(n < f)
      <4>1. ~(n - 1 < f) /\ ~(n < f) /\ n \notin 1..f
        BY <1>4, <2>1, <2>6
      <4>2. QED
        BY <2>3, <4>1
    <3>2. CASE n \in gone
      <4>1. t = top \o y
        BY <2>2, <3>1, <3>2
      <4>2. QED
        BY <2>1, <3>1, <4>1 DEF t, y
    <3>3. CASE n \notin gone
      <4>1. t = Append(top \o x, d[n]) /\ y = Append(x, d[n])
        BY <2>2, <3>1, <3>3
      <4>2. Append(top \o x, d[n]) = top \o Append(x, d[n])
        <5> DEFINE h == d[n]
                   one == <<h>>
        <5>1. h \in Header /\ one \in Seq(Header) /\ x \in Seq(Header) /\ top \in Seq(Header)
          BY <1>5, <2>1
        <5>2. top \o x \in Seq(Header)
          BY <5>1, ConcatProperties
        <5> HIDE DEF h
        <5>3. Append(top \o x, h) = (top \o x) \o <<h>> /\ Append(x, h) = x \o <<h>>
          BY <5>1, <5>2, AppendIsConcat
        <5>4. (top \o x) \o one = top \o (x \o one)
          <6> HIDE DEF one
          <6>1. top \in Seq(Header) /\ x \in Seq(Header) /\ one \in Seq(Header)
            BY <5>1
          <6>2. \A a, b, c \in Seq(Header) : (a \o b) \o c = a \o (b \o c)
            BY ConcatAssociative
          <6>3. QED
            BY <6>1, <6>2
        <5>5. Append(top \o x, h) = top \o Append(x, h)
          BY <5>3, <5>4
        <5>6. QED
          BY <5>5 DEF h
      <4>3. t = top \o y
        BY <4>1, <4>2
      <4>4. QED
        BY <2>1, <3>1, <4>3 DEF t, y
    <3>4. QED
      BY <3>2, <3>3
  <2>7. n < f \/ n = f \/ n > f
    BY <1>4, <2>1
  <2> HIDE DEF S
  <2>8. QED
    BY <2>4, <2>5, <2>6, <2>7
<1> HIDE DEF S
<1>8. 0..Len(d) \subseteq S
  BY <1>3, <1>6, <1>7, Upwards
<1>9. Len(d) \in S /\ ~(Len(d) < f)
  <2>1. Len(d) \in 0..Len(d) /\ ~(Len(d) < f)
    BY <1>3, <1>4
  <2>2. QED
    BY <1>8, <2>1
<1>10. v[Len(d)] = top \o w[Len(d)]
  BY <1>9 DEF S
<1>11. Without(d, gone) = v[Len(d)] /\ Without(d, more) = w[Len(d)]
  BY <1>1, <1>2, WithoutIs
<1>12. QED
  BY <1>10, <1>11 DEF top

LEMMA TailIs ==
    ASSUME NEW d \in Seq(Header), NEW f \in DOMAIN d
    PROVE  Without(d, 1..f) = SubSeq(d, f + 1, Len(d))
<1>1. PICK w \in [0..Len(d) -> Seq(Header)] : Leaves(d, 1..f, w, Len(d))
  BY LeavesExist
<1>2. Len(d) \in Nat /\ DOMAIN d = 1..Len(d) /\ w[0] = <<>>
      /\ \A n \in 0..Len(d) : w[n] \in Seq(Header)
  <2>1. Len(d) \in Nat /\ DOMAIN d = 1..Len(d)
    BY HeaderIs
  <2>2. QED
    BY <1>1, <2>1 DEF Leaves
<1>3. f \in Nat /\ 0 < f /\ f <= Len(d)
  BY <1>2
<1> DEFINE S == {n \in 0..Len(d) :
                   IF n <= f THEN w[n] = <<>>
                   ELSE Len(w[n]) = n - f /\ \A k \in 1..n - f : w[n][k] = d[f + k]}
<1>4. 0 \in S
  BY <1>2, <1>3
<1>5. ASSUME NEW n \in 1..Len(d), n - 1 \in S PROVE n \in S
  <2> DEFINE s == w[n - 1]
             t == w[n]
  <2>1. /\ s \in Seq(Header) /\ d[n] \in Header /\ n \in Nat /\ n \in 0..Len(d)
    BY <1>2
  <2>2. t = IF n \in 1..f THEN s ELSE Append(s, d[n])
    BY <1>1 DEF Leaves
  <2>3. IF n - 1 <= f THEN s = <<>> ELSE Len(s) = n - 1 - f /\ \A k \in 1..n - 1 - f : s[k] = d[f + k]
    BY <1>5
  <2> HIDE DEF s, t
  <2>4. CASE n <= f
    <3>1. t = <<>>
      BY <1>3, <2>1, <2>2, <2>3, <2>4
    <3>2. QED
      BY <2>1, <2>4, <3>1 DEF t
  <2>5. CASE n > f
    <3>1. t = Append(s, d[n]) /\ Len(s) = n - 1 - f /\ \A k \in 1..n - 1 - f : s[k] = d[f + k]
      <4>1. n \notin 1..f /\ (n - 1 <= f => n - 1 - f = 0)
        BY <1>3, <2>1, <2>5
      <4>2. Len(<<>>) = 0
        OBVIOUS
      <4>3. QED
        BY <1>3, <2>1, <2>2, <2>3, <4>1, <4>2
    <3>2. Len(t) = n - f /\ t[n - f] = d[n] /\ \A k \in 1..n - 1 - f : t[k] = s[k]
      <4>1. Len(t) = Len(s) + 1 /\ t[Len(s) + 1] = d[n] /\ \A k \in 1..Len(s) : t[k] = s[k]
        BY <2>1, <3>1, AppendProperties
      <4>2. n - 1 - f + 1 = n - f
        BY <1>3, <2>1
      <4>3. QED
        BY <3>1, <4>1, <4>2
    <3>3. \A k \in 1..n - f : k = n - f \/ k \in 1..n - 1 - f
      BY <1>3, <2>1
    <3>4. f + (n - f) = n
      BY <1>3, <2>1
    <3>5. \A k \in 1..n - f : t[k] = d[f + k]
      BY <3>1, <3>2, <3>3, <3>4
    <3>6. ~(n <= f)
      BY <1>3, <2>1, <2>5
    <3>7. QED
      BY <2>1, <3>2, <3>5, <3>6 DEF t
  <2>6. n <= f \/ n > f
    BY <1>3, <2>1
  <2> HIDE DEF S
  <2>7. QED
    BY <2>4, <2>5, <2>6
<1> HIDE DEF S
<1>6. 0..Len(d) \subseteq S
  BY <1>2, <1>4, <1>5, Upwards
<1> DEFINE r == w[Len(d)]
           b == SubSeq(d, f + 1, Len(d))
<1>7. r \in Seq(Header) /\ Without(d, 1..f) = r
  BY <1>1, <1>2, WithoutIs
<1>8. Len(d) \in S
  BY <1>2, <1>6
<1>9. IF Len(d) <= f THEN r = <<>> ELSE Len(r) = Len(d) - f /\ \A k \in 1..Len(d) - f : r[k] = d[f + k]
  BY <1>8 DEF S
<1>10. /\ b \in Seq(Header) /\ Len(b) = IF f + 1 <= Len(d) THEN Len(d) - (f + 1) + 1 ELSE 0
       /\ \A k \in 1..Len(d) - (f + 1) + 1 : b[k] = d[f + 1 + k - 1]
  <2>1. \A k \in f + 1..Len(d) : d[k] \in Header
    BY <1>2, <1>3
  <2>2. f + 1 \in Int /\ Len(d) \in Int
    BY <1>2, <1>3
  <2>3. QED
    BY <2>1, <2>2, SubSeqProperties
<1>11. Len(d) - (f + 1) + 1 = Len(d) - f /\ \A k \in 1..Len(d) - f : f + 1 + k - 1 = f + k
  BY <1>2, <1>3
<1> HIDE DEF r, b
<1>12. CASE Len(d) <= f
  <2>1. Len(b) = 0 /\ r = <<>>
    BY <1>2, <1>3, <1>9, <1>10, <1>12
  <2>2. b = <<>>
    BY <1>10, <2>1, EmptySeq
  <2>3. QED
    BY <1>7, <2>1, <2>2 DEF b
<1>13. CASE ~(Len(d) <= f)
  <2>1. Len(b) = Len(d) - f /\ Len(r) = Len(d) - f
    BY <1>2, <1>3, <1>9, <1>10, <1>11, <1>13
  <2>2. \A k \in 1..Len(r) : r[k] = b[k]
    BY <1>9, <1>10, <1>11, <1>13, <2>1
  <2>3. r = b
    BY <1>7, <1>10, <2>1, <2>2, SeqEqual
  <2>4. QED
    BY <1>7, <2>3 DEF b
<1>14. QED
  BY <1>12, <1>13

(* One record goes. *)
LEMMA RemoveIs ==
    ASSUME NEW d \in Seq(Header), NEW f \in DOMAIN d
    PROVE  RemoveAt(d, f) = Without(d, {f})
<1>1. f \in Nat /\ f >= 1 /\ {f} \subseteq DOMAIN d /\ f \in {f} /\ \A j \in {f} : f <= j
  <2>1. DOMAIN d = 1..Len(d) /\ Len(d) \in Nat
    BY HeaderIs
  <2>2. QED
    BY <2>1
<1>2. SubSeq(d, 1, f - 1) \o Without(d, {f} \cup 1..f) = Without(d, {f})
  BY <1>1, CutIs
<1>3. {f} \cup 1..f = 1..f
  BY <1>1
<1>4. Without(d, 1..f) = SubSeq(d, f + 1, Len(d))
  BY TailIs
<1>5. QED
  BY <1>2, <1>3, <1>4 DEF RemoveAt

(* What is written back is the index without the lines, if it is the index *)
(* that was read.                                                          *)
LEMMA StartIs ==
    ASSUME NEW gone, NEW n \in Nat, gone \subseteq 1..n, gone # {}
    PROVE  LET start == CHOOSE i \in gone : \A j \in gone : i <= j
           IN  start \in gone /\ \A j \in gone : start <= j
<1>1. gone \subseteq 0..n
  OBVIOUS
<1>2. \E i \in gone : \A j \in gone : i <= j
  BY <1>1, Least
<1>3. QED
  BY <1>2

LEMMA RewrittenIs ==
    ASSUME NEW d \in Seq(Header), NEW gone, gone \subseteq DOMAIN d
    PROVE  Rewritten(d, d, gone) = Without(d, gone)
<1>1. CASE gone = {}
  BY <1>1, WithoutNone DEF Rewritten
<1>2. CASE gone # {}
  <2> DEFINE start == CHOOSE i \in gone : \A j \in gone : i <= j
  <2>1. start \in gone /\ \A j \in gone : start <= j
    <3>1. DOMAIN d = 1..Len(d) /\ Len(d) \in Nat
      BY HeaderIs
    <3>2. QED
      BY <1>2, <3>1, StartIs
  <2>2. Rewritten(d, d, gone) = SubSeq(d, 1, start - 1) \o Without(d, gone \cup 1..start)
    BY <1>2 DEF Rewritten
  <2> HIDE DEF start
  <2>3. SubSeq(d, 1, start - 1) \o Without(d, gone \cup 1..start) = Without(d, gone)
    BY <2>1, CutIs
  <2>4. QED
    BY <2>2, <2>3
<1>3. QED
  BY <1>1, <1>2

(* And otherwise it has at least the lines that stay and are where they    *)
(* were read.                                                              *)
LEMMA RewrittenHas ==
    ASSUME NEW d \in Seq(Header), NEW read \in Seq(Header), NEW gone, gone \subseteq DOMAIN read,
           Len(read) <= Len(d)
    PROVE  /\ Rewritten(d, read, gone) \in Seq(Header)
           /\ \A i \in DOMAIN read \ gone : d[i].filetime = read[i].filetime
                  => d[i].filetime \in Names(Rewritten(d, read, gone))
<1>1. /\ DOMAIN d = 1..Len(d) /\ Len(d) \in Nat /\ DOMAIN read = 1..Len(read) /\ Len(read) \in Nat
      /\ \A i \in 1..Len(d) : d[i] \in Header
  BY HeaderIs
<1>2. CASE gone = {}
  BY <1>1, <1>2 DEF Rewritten, Names
<1>3. CASE gone # {}
  <2> DEFINE start == CHOOSE i \in gone : \A j \in gone : i <= j
             top == SubSeq(d, 1, start - 1)
             rest == Without(read, gone \cup 1..start)
  <2>1. start \in gone /\ \A j \in gone : start <= j
    BY <1>1, <1>3, StartIs
  <2>2. Rewritten(d, read, gone) = top \o rest
    BY <1>3 DEF Rewritten
  <2>3. start \in Nat /\ 1 <= start /\ start <= Len(read)
    BY <1>1, <2>1
  <2> HIDE DEF start
  <2>4. /\ top \in Seq(Header) /\ Len(top) = start - 1
        /\ \A k \in 1..start - 1 : top[k] = d[k]
    <3>1. \A k \in 1..start - 1 : d[k] \in Header
      BY <1>1, <2>3
    <3>2. /\ top \in Seq(Header) /\ Len(top) = (IF 1 <= start - 1 THEN start - 1 - 1 + 1 ELSE 0)
          /\ \A k \in 1..start - 1 - 1 + 1 : top[k] = d[1 + k - 1]
      BY <2>3, <3>1, SubSeqProperties
    <3>3. \A k \in 1..start - 1 : k \in 1..start - 1 - 1 + 1 /\ 1 + k - 1 = k
      BY <2>3
    <3> HIDE DEF top
    <3>4. QED
      BY <2>3, <3>2, <3>3
  <2>5. /\ rest \in Seq(Header)
        /\ \A i \in DOMAIN read \ (gone \cup 1..start) : \E k \in DOMAIN rest : rest[k] = read[i]
    <3>1. ASSUME NEW g
          PROVE  /\ Without(read, g) \in Seq(Header)
                 /\ \A i \in DOMAIN read \ g :
                       \E k \in DOMAIN Without(read, g) : Without(read, g)[k] = read[i]
      BY WithoutHas
    <3>2. QED
      BY <3>1
  <2> DEFINE r == top \o rest
  <2> HIDE DEF top, rest
  <2>6. /\ r \in Seq(Header) /\ Len(r) = Len(top) + Len(rest)
        /\ \A k \in 1..Len(top) + Len(rest) : r[k] = IF k <= Len(top) THEN top[k] ELSE rest[k - Len(top)]
    BY <2>4, <2>5, ConcatProperties
  <2>7. Len(rest) \in Nat /\ DOMAIN rest = 1..Len(rest) /\ DOMAIN r = 1..Len(r)
    BY <2>5, <2>6
  <2> HIDE DEF r
  <2>8. ASSUME NEW i \in DOMAIN read \ gone, d[i].filetime = read[i].filetime
        PROVE  \E k \in DOMAIN r : r[k].filetime = d[i].filetime
    <3>1. i \in 1..Len(read) /\ i \notin gone
      BY <1>1
    <3>2. CASE i < start
      <4>1. i \in 1..start - 1 /\ i \in DOMAIN r /\ i \in 1..Len(top) + Len(rest) /\ i <= Len(top)
        BY <2>3, <2>4, <2>6, <2>7, <3>1, <3>2
      <4>2. r[i] = d[i]
        BY <2>4, <2>6, <4>1
      <4>3. QED
        BY <4>1, <4>2
    <3>3. CASE i > start
      <4>1. i \notin gone \cup 1..start
        BY <2>3, <3>1, <3>3
      <4>2. PICK k \in 1..Len(rest) : rest[k] = read[i]
        BY <2>5, <2>7, <4>1
      <4> DEFINE m == Len(top) + k
      <4>3. m \in 1..Len(top) + Len(rest) /\ ~(m <= Len(top)) /\ m - Len(top) = k
        BY <2>3, <2>4, <2>7
      <4> HIDE DEF m
      <4>4. r[m] = rest[k] /\ m \in DOMAIN r
        BY <2>6, <2>7, <4>3
      <4>5. QED
        BY <2>8, <4>2, <4>4
    <3>4. i # start
      BY <2>1, <3>1
    <3>5. QED
      BY <2>3, <3>1, <3>2, <3>3, <3>4
  <2>9. \A i \in DOMAIN read \ gone : d[i].filetime = read[i].filetime => d[i].filetime \in Names(r)
    BY <2>8 DEF Names
  <2>10. QED
    BY <2>2, <2>6, <2>9 DEF r
<1>4. QED
  BY <1>2, <1>3

LEMMA FrontHas ==
    ASSUME NEW d \in Seq(Header), d # <<>>
    PROVE  /\ Front(d) \in Seq(Header)
           /\ \A i \in DOMAIN d : i = Len(d) \/ d[i].filetime \in Names(Front(d))
<1>1. DOMAIN d = 1..Len(d) /\ Len(d) \in Nat /\ \A i \in 1..Len(d) : d[i] \in Header
  BY HeaderIs
<1>2. Len(d) >= 1
  BY <1>1, EmptySeq
<1> DEFINE f == SubSeq(d, 1, Len(d) - 1)
<1>3. /\ f \in Seq(Header) /\ Len(f) = (IF 1 <= Len(d) - 1 THEN Len(d) - 1 - 1 + 1 ELSE 0)
      /\ \A k \in 1..Len(d) - 1 - 1 + 1 : f[k] = d[1 + k - 1]
  <2>1. \A k \in 1..Len(d) - 1 : d[k] \in Header
    BY <1>1
  <2>2. QED
    BY <1>1, <2>1, SubSeqProperties
<1>4. /\ \A k \in 1..Len(d) : k = Len(d) \/ (k \in 1..Len(d) - 1 /\ 1 + k - 1 = k)
      /\ Len(d) - 1 - 1 + 1 = Len(d) - 1 /\ (~(1 <= Len(d) - 1) => Len(d) - 1 = 0)
  <2> DEFINE n == Len(d)
  <2>1. n \in Nat /\ n >= 1
    BY <1>1, <1>2
  <2> HIDE DEF n
  <2>2. /\ \A k \in 1..n : k = n \/ (k \in 1..n - 1 /\ 1 + k - 1 = k)
        /\ n - 1 - 1 + 1 = n - 1 /\ (~(1 <= n - 1) => n - 1 = 0)
    BY <2>1
  <2>3. QED
    BY <2>2 DEF n
<1> HIDE DEF f
<1>5. Len(f) = Len(d) - 1 /\ DOMAIN f = 1..Len(f)
  <2>1. Len(f) = Len(d) - 1
    BY <1>3, <1>4
  <2>2. QED
    BY <1>3, <2>1
<1>6. \A k \in 1..Len(d) : k = Len(d) \/ (k \in DOMAIN f /\ f[k] = d[k])
  <2>1. \A k \in 1..Len(d) - 1 : f[k] = d[1 + k - 1]
    BY <1>3, <1>4
  <2>2. QED
    BY <1>4, <1>5, <2>1
<1>7. \A k \in DOMAIN d : k = Len(d) \/ d[k].filetime \in Names(f)
  BY <1>1, <1>6 DEF Names
<1>8. QED
  BY <1>3, <1>7 DEF Front, f

(* A record written at its old place, past the end of the file if need be. *)
LEMMA SubstituteHas ==
    ASSUME NEW d \in Seq(Header), NEW h \in Header, NEW e \in Nat \ {0}
    PROVE  LET r == substitute_record(d, h, e, Hole)
           IN  /\ r \in Seq(Header) /\ Len(r) >= Len(d) /\ DOMAIN d \subseteq DOMAIN r
               /\ e \in DOMAIN d => DOMAIN r = DOMAIN d /\ Len(r) = Len(d)
               /\ e \in DOMAIN r /\ r[e] = h
               /\ \A i \in DOMAIN d : i # e => r[i] = d[i]
<1> DEFINE n == IF e > Len(d) THEN e ELSE Len(d)
           r == substitute_record(d, h, e, Hole)
<1>1. DOMAIN d = 1..Len(d) /\ Len(d) \in Nat /\ \A i \in 1..Len(d) : d[i] \in Header
  BY HeaderIs
<1>2. Hole \in Header
  BY DEF Hole, Header
<1>3. n \in Nat /\ Len(d) <= n /\ e \in 1..n /\ (e \in 1..Len(d) => n = Len(d))
  <2>1. PICK m : m = Len(d)
    OBVIOUS
  <2>2. m \in Nat /\ n = IF e > m THEN e ELSE m
    BY <1>1, <2>1
  <2> HIDE DEF n
  <2>3. n \in Nat /\ m <= n /\ e \in 1..n /\ (e \in 1..m => n = m)
    <3>1. CASE e > m
      BY <2>2, <3>1
    <3>2. CASE ~(e > m)
      BY <2>2, <3>2
    <3>3. QED
      BY <3>1, <3>2
  <2>4. QED
    BY <2>1, <2>3
<1>4. r = [i \in 1..n |-> IF i = e THEN h ELSE IF i <= Len(d) THEN d[i] ELSE Hole]
  BY DEF substitute_record
<1> HIDE DEF r, n
<1>5. \A i \in 1..n : i = e \/ (i # e /\ i <= Len(d) /\ d[i] \in Header) \/ (i # e /\ ~(i <= Len(d)))
  <2>1. PICK m : m = Len(d)
    OBVIOUS
  <2>2. m \in Nat /\ n \in Nat
    BY <1>1, <1>3, <2>1
  <2>3. \A i \in 1..n : i <= m => i \in 1..m
    BY <2>2
  <2>4. QED
    BY <1>1, <2>1, <2>3
<1>6. \A i \in 1..n : r[i] \in Header
  BY <1>2, <1>4, <1>5
<1>7. r \in [1..n -> Header]
  BY <1>4, <1>6
<1>8. r \in Seq(Header) /\ Len(r) = n /\ DOMAIN r = 1..n
  BY <1>3, <1>7
<1>9. r[e] = h /\ \A i \in 1..Len(d) : i \in 1..n /\ (i # e => r[i] = d[i])
  <2>1. PICK m : m = Len(d)
    OBVIOUS
  <2>2. m \in Nat /\ n \in Nat /\ m <= n
    BY <1>1, <1>3, <2>1
  <2>3. \A i \in 1..m : i \in 1..n /\ i <= m
    BY <2>2
  <2>4. QED
    BY <1>3, <1>4, <2>1, <2>3
<1>10. /\ r \in Seq(Header) /\ Len(r) >= Len(d) /\ DOMAIN d \subseteq DOMAIN r
       /\ e \in DOMAIN r /\ r[e] = h /\ \A i \in DOMAIN d : i # e => r[i] = d[i]
  BY <1>1, <1>3, <1>8, <1>9
<1>11. e \in DOMAIN d => DOMAIN r = DOMAIN d /\ Len(r) = Len(d)
  BY <1>1, <1>3, <1>8
<1>12. QED
  BY <1>10, <1>11 DEF r

-----------------------------------------------------------------------------
(***************************************************************************)
(* Searches: what is found is there.                                       *)
(***************************************************************************)
Spans(d) == (0..(Len(d) + 1)) \X (-1..Len(d))
Middle(r) == (r[1] + r[2]) \div 2
Probe(d, key, f, r) ==
    IF r[1] > r[2] THEN -(r[1] + 1)
    ELSE IF key = d[Middle(r) + 1].filetime THEN Middle(r)
    ELSE IF key < d[Middle(r) + 1].filetime THEN f[<<r[1], Middle(r) - 1>>]
    ELSE f[<<Middle(r) + 1, r[2]>>]

(* How long a search may still take. *)
Span(d, r) == r[2] - r[1] + Len(d) + 2

LEMMA SpanIs ==
    ASSUME NEW d \in Seq(Header), NEW r \in Spans(d)
    PROVE  /\ r[1] \in Nat /\ r[2] \in Int /\ Span(d, r) \in 0..2 * Len(d) + 2
           /\ r[1] <= r[2] =>
                /\ Middle(r) \in Int /\ r[1] <= Middle(r) /\ Middle(r) <= r[2]
                /\ <<r[1], Middle(r) - 1>> \in Spans(d)
                /\ Span(d, <<r[1], Middle(r) - 1>>) < Span(d, r)
                /\ <<Middle(r) + 1, r[2]>> \in Spans(d)
                /\ Span(d, <<Middle(r) + 1, r[2]>>) < Span(d, r)
<1>1. PICK n : n = Len(d)
  OBVIOUS
<1>2. PICK a, b : r = <<a, b>> /\ a \in 0..(n + 1) /\ b \in -1..n
  BY <1>1 DEF Spans
<1>3. n \in Nat /\ r[1] = a /\ r[2] = b
  BY <1>1, <1>2, HeaderIs
<1>4. b - a + n + 2 \in 0..2 * n + 2
  BY <1>2, <1>3
<1>5. ASSUME a <= b
      PROVE  LET m == (a + b) \div 2
             IN  /\ m \in Int /\ a <= m /\ m <= b
                 /\ m - 1 \in -1..n /\ m - 1 - a + n + 2 < b - a + n + 2
                 /\ m + 1 \in 0..(n + 1) /\ b - (m + 1) + n + 2 < b - a + n + 2
  <2> DEFINE m == (a + b) \div 2
  <2>1. a \in Nat /\ b \in Nat /\ b <= n
    BY <1>2, <1>3, <1>5
  <2>2. m \in Int /\ a <= m /\ m <= b
    BY <1>5, <2>1
  <2> HIDE DEF m
  <2>3. /\ m - 1 \in -1..n /\ m - 1 - a + n + 2 < b - a + n + 2
        /\ m + 1 \in 0..(n + 1) /\ b - (m + 1) + n + 2 < b - a + n + 2
    BY <1>3, <2>1, <2>2
  <2>4. QED
    BY <2>2, <2>3 DEF m
<1>6. Middle(r) = (a + b) \div 2
  BY <1>3 DEF Middle
<1>7. PICK m : m = Middle(r)
  OBVIOUS
<1>8. a <= b => /\ m \in Int /\ a <= m /\ m <= b
                /\ m - 1 \in -1..n /\ m - 1 - a + n + 2 < b - a + n + 2
                /\ m + 1 \in 0..(n + 1) /\ b - (m + 1) + n + 2 < b - a + n + 2
  BY <1>5, <1>6, <1>7
<1>9. /\ Span(d, r) = b - a + n + 2
      /\ Span(d, <<a, m - 1>>) = m - 1 - a + n + 2
      /\ Span(d, <<m + 1, b>>) = b - (m + 1) + n + 2
  BY <1>1, <1>3 DEF Span
<1>10. a <= b => <<a, m - 1>> \in Spans(d) /\ <<m + 1, b>> \in Spans(d)
  BY <1>1, <1>2, <1>8 DEF Spans
<1>11. r[1] \in Nat /\ r[2] \in Int /\ Span(d, r) \in 0..2 * Len(d) + 2
  BY <1>1, <1>2, <1>3, <1>4, <1>9
<1>12. QED
  BY <1>3, <1>7, <1>8, <1>9, <1>10, <1>11

LEMMA ProbeIn ==
    ASSUME NEW d \in Seq(Header), NEW key, NEW f \in [Spans(d) -> Int], NEW r \in Spans(d)
    PROVE  Probe(d, key, f, r) \in Int
<1> r[1] \in Nat /\ r[2] \in Int
  BY SpanIs
<1>1. CASE r[1] > r[2]
  BY <1>1 DEF Probe
<1>2. CASE ~(r[1] > r[2])
  <2>1. r[1] <= r[2]
    BY <1>2
  <2>2. /\ Middle(r) \in Int /\ f[<<r[1], Middle(r) - 1>>] \in Int
        /\ f[<<Middle(r) + 1, r[2]>>] \in Int
    BY <2>1, SpanIs
  <2>3. QED
    BY <1>2, <2>2 DEF Probe
<1>3. QED
  BY <1>1, <1>2

(* It depends on shorter searches only. *)
LEMMA ProbeSame ==
    ASSUME NEW d \in Seq(Header), NEW key, NEW f, NEW g, NEW r \in Spans(d),
           \A x \in Spans(d) : Span(d, x) < Span(d, r) => f[x] = g[x]
    PROVE  Probe(d, key, f, r) = Probe(d, key, g, r)
<1> r[1] \in Nat /\ r[2] \in Int
  BY SpanIs
<1>1. CASE r[1] > r[2]
  BY <1>1 DEF Probe
<1>2. CASE ~(r[1] > r[2])
  <2>1. r[1] <= r[2]
    BY <1>2
  <2>2. /\ f[<<r[1], Middle(r) - 1>>] = g[<<r[1], Middle(r) - 1>>]
        /\ f[<<Middle(r) + 1, r[2]>>] = g[<<Middle(r) + 1, r[2]>>]
    BY <2>1, SpanIs
  <2>3. QED
    BY <1>2, <2>2 DEF Probe
<1>3. QED
  BY <1>1, <1>2

LEMMA ProbesExist ==
    ASSUME NEW d \in Seq(Header), NEW key
    PROVE  \E f \in [Spans(d) -> Int] : f = [r \in Spans(d) |-> Probe(d, key, f, r)]
<1> DEFINE P == Spans(d)
           N == 2 * Len(d) + 3
           S == {n \in 0..N : \E f \in [P -> Int] : \A r \in P :
                    Span(d, r) < n => f[r] = Probe(d, key, f, r)}
<1>1. N \in Nat /\ \A r \in P : Span(d, r) \in Nat /\ Span(d, r) < N
  <2>1. Len(d) \in Nat
    BY HeaderIs
  <2>2. \A r \in P : Span(d, r) \in 0..2 * Len(d) + 2
    BY SpanIs
  <2>3. QED
    BY <2>1, <2>2
<1> HIDE DEF P, N
<1>2. 0 \in S
  <2>1. \A r \in P : ~(Span(d, r) < 0)
    BY <1>1
  <2>2. \E f \in [P -> Int] : \A r \in P : Span(d, r) < 0 => f[r] = Probe(d, key, f, r)
    <3>1. [r \in P |-> 0] \in [P -> Int]
      OBVIOUS
    <3>2. QED
      BY <2>1, <3>1
  <2>3. 0 \in 0..N
    BY <1>1
  <2>4. QED
    BY <2>2, <2>3
<1>3. ASSUME NEW n \in 1..N, n - 1 \in S PROVE n \in S
  <2>1. PICK f \in [P -> Int] : \A r \in P : Span(d, r) < n - 1 => f[r] = Probe(d, key, f, r)
    BY <1>3
  <2> DEFINE g == [r \in P |-> Probe(d, key, f, r)]
  <2>2. g \in [P -> Int] /\ \A r \in P : g[r] = Probe(d, key, f, r)
    <3>1. \A r \in P : Probe(d, key, f, r) \in Int
      BY ProbeIn DEF P
    <3>2. QED
      BY <3>1
  <2> HIDE DEF g
  <2>3. ASSUME NEW r \in P, Span(d, r) < n PROVE g[r] = Probe(d, key, g, r)
    <3>1. ASSUME NEW x \in P, Span(d, x) < Span(d, r) PROVE f[x] = g[x]
      <4>1. Span(d, x) < n - 1
        BY <1>1, <1>3, <2>3, <3>1
      <4>2. QED
        BY <2>1, <2>2, <4>1
    <3>2. Probe(d, key, f, r) = Probe(d, key, g, r)
      BY <3>1, ProbeSame DEF P
    <3>3. QED
      BY <2>2, <3>2
  <2>4. QED
    BY <1>3, <2>2, <2>3
<1> HIDE DEF S
<1>4. 0..N \subseteq S
  BY <1>1, <1>2, <1>3, Upwards
<1>5. N \in S
  BY <1>1, <1>4
<1>6. PICK f \in [P -> Int] : \A r \in P : Span(d, r) < N => f[r] = Probe(d, key, f, r)
  BY <1>5 DEF S
<1>7. \A r \in P : f[r] = Probe(d, key, f, r)
  BY <1>1, <1>6
<1>8. f = [r \in P |-> Probe(d, key, f, r)]
  BY <1>6, <1>7
<1>9. QED
  BY <1>8 DEF P

LEMMA SearchIs ==
    ASSUME NEW d \in Seq(Header), NEW key, NEW to \in 1..Len(d)
    PROVE  LET r == Search_Bin(d, key, 0, to - 1)
           IN  r \in Int /\ (r >= 0 => r + 1 \in 1..to /\ d[r + 1].filetime = key)
<1> DEFINE P == Spans(d)
           N == 2 * Len(d) + 3
           f == CHOOSE f : f = [r \in P |-> Probe(d, key, f, r)]
<1>1. Search_Bin(d, key, 0, to - 1) = f[<<0, to - 1>>]
  BY DEF Search_Bin, Probe, Middle, Spans
<1>2. f = [r \in P |-> Probe(d, key, f, r)]
  <2>1. \E g : g = [r \in P |-> Probe(d, key, g, r)]
    BY ProbesExist
  <2>2. QED
    BY <2>1
<1>3. N \in Nat /\ Len(d) \in Nat /\ \A r \in P : Span(d, r) \in Nat /\ Span(d, r) < N
  <2>1. Len(d) \in Nat
    BY HeaderIs
  <2>2. \A r \in P : Span(d, r) \in 0..2 * Len(d) + 2
    BY SpanIs
  <2>3. QED
    BY <2>1, <2>2
<1>4. ASSUME NEW r \in P PROVE f[r] = Probe(d, key, f, r)
  <2> HIDE DEF f, P
  <2>1. QED
    BY <1>2
<1>5. <<0, to - 1>> \in P
  BY <1>3 DEF Spans
<1> HIDE DEF f, N
<1> DEFINE Right(r) == f[r] \in Int /\ (f[r] >= 0 => /\ r[1] <= f[r] /\ f[r] <= r[2]
                                                     /\ d[f[r] + 1].filetime = key)
           S == {n \in 0..N : \A r \in P : Span(d, r) < n => Right(r)}
<1>6. 0 \in S
  BY <1>3
<1>7. ASSUME NEW n \in 1..N, n - 1 \in S PROVE n \in S
  <2>1. ASSUME NEW r \in P, Span(d, r) < n PROVE Right(r)
    <3>1. f[r] = Probe(d, key, f, r) /\ r[1] \in Nat /\ r[2] \in Int
      BY <1>4, SpanIs
    <3>2. CASE r[1] > r[2]
      BY <3>1, <3>2 DEF Probe
    <3>3. CASE r[1] <= r[2]
      <4> DEFINE x == <<r[1], Middle(r) - 1>>
                 y == <<Middle(r) + 1, r[2]>>
      <4>1. /\ Middle(r) \in Int /\ r[1] <= Middle(r) /\ Middle(r) <= r[2]
            /\ x \in P /\ Span(d, x) < Span(d, r) /\ y \in P /\ Span(d, y) < Span(d, r)
        BY <3>3, SpanIs
      <4>2. Right(x) /\ Right(y)
        <5>1. Span(d, x) < n - 1 /\ Span(d, y) < n - 1
          <6> HIDE DEF x, y
          <6>1. QED
            BY <1>3, <1>7, <2>1, <4>1
        <5> HIDE DEF x, y, Right
        <5>2. QED
          BY <1>7, <4>1, <5>1
      <4>3. x[1] = r[1] /\ x[2] = Middle(r) - 1 /\ y[1] = Middle(r) + 1 /\ y[2] = r[2]
        OBVIOUS
      <4>4. f[r] = IF key = d[Middle(r) + 1].filetime THEN Middle(r)
                   ELSE IF key < d[Middle(r) + 1].filetime THEN f[x] ELSE f[y]
        BY <3>1, <3>3 DEF Probe
      <4> HIDE DEF x, y
      <4>5. CASE key = d[Middle(r) + 1].filetime
        BY <4>1, <4>4, <4>5
      <4>6. CASE f[r] = f[x]
        BY <3>1, <4>1, <4>2, <4>3, <4>6
      <4>7. CASE f[r] = f[y]
        BY <3>1, <4>1, <4>2, <4>3, <4>7
      <4>8. QED
        BY <4>4, <4>5, <4>6, <4>7
    <3>4. QED
      BY <3>1, <3>2, <3>3
  <2> HIDE DEF Right
  <2>2. QED
    BY <1>7, <2>1
<1> HIDE DEF S, Right
<1>8. 0..N \subseteq S
  BY <1>3, <1>6, <1>7, Upwards
<1>9. N \in S
  BY <1>3, <1>8
<1>10. Right(<<0, to - 1>>)
  BY <1>3, <1>5, <1>9 DEF S
<1>11. QED
  BY <1>1, <1>3, <1>10 DEF Right

LEMMA LastIs ==
    ASSUME NEW d \in Seq(Header), NEW key, NEW to \in 0..Len(d)
    PROVE  LET r == SelectLastInSubSeq(d, 1, to, LAMBDA fh : fh.filetime = key)
           IN  r \in 0..to /\ (r # 0 => r \in DOMAIN d /\ d[r].filetime = key)
<1> DEFINE I == {i \in 1..to : d[i].filetime = key}
           r == SelectLastInSubSeq(d, 1, to, LAMBDA fh : fh.filetime = key)
<1>1. Len(d) \in Nat /\ DOMAIN d = 1..Len(d)
  BY HeaderIs
<1>2. r = IF I # {} THEN Max(I) ELSE 0
  BY DEF SelectLastInSubSeq
<1>3. I \subseteq 1..to
  OBVIOUS
<1>4. ASSUME I # {} PROVE Max(I) \in I
  <2> HIDE DEF I
  <2>1. I \subseteq 0..to /\ to \in Nat
    BY <1>1, <1>3
  <2>2. \E m \in I : \A y \in I : m >= y
    BY <1>4, <2>1, Greatest
  <2>3. QED
    BY <2>2 DEF Max
<1> HIDE DEF r
<1>5. r \in 0..to /\ (r # 0 => r \in DOMAIN d /\ d[r].filetime = key)
  <2>1. CASE I = {}
    BY <1>1, <1>2, <2>1
  <2>2. CASE I # {}
    <3>1. r \in I
      BY <1>2, <1>4, <2>2
    <3>2. QED
      BY <1>1, <3>1
  <2>3. QED
    BY <2>1, <2>2
<1>6. QED
  BY <1>5 DEF r

(* delete_dir_callback decides on a line of the mail it is to delete. *)
LEMMA FoundIs ==
    ASSUME NEW p \in Procs, dir \in Seq(Header), Head(loc[p].todo) \in Line
    PROVE  Found(p) # 0 => Found(p) \in DOMAIN dir /\ dir[Found(p)].filetime = Victim(p)
<1> DEFINE l == Head(loc[p].todo)
           key == l.fh.filetime
           pos == IF Len(dir) > l.ent THEN l.ent ELSE Len(dir)
           bin == Search_Bin(dir, key, 0, pos - 1) + 1
           last == SelectLastInSubSeq(dir, 1, pos, LAMBDA fh : fh.filetime = key)
<1>1. Len(dir) \in Nat /\ DOMAIN dir = 1..Len(dir) /\ l.ent \in Nat \ {0} /\ key = Victim(p)
  BY HeaderIs DEF Line, Victim
<1>2. pos \in 0..Len(dir)
  <2> HIDE DEF l
  <2>1. PICK n : n = Len(dir)
    OBVIOUS
  <2>2. QED
    BY <1>1, <2>1
<1>3. Found(p) = IF pos = 0 THEN 0
                 ELSE IF dir[pos].filetime = key THEN pos
                 ELSE IF bin > 0 THEN bin ELSE last
  BY DEF Found
<1> HIDE DEF pos, key, l
<1>4. ASSUME pos # 0 PROVE bin \in Int /\ (bin > 0 => bin \in 1..pos /\ dir[bin].filetime = key)
  <2> DEFINE b == Search_Bin(dir, key, 0, pos - 1)
  <2>1. pos \in 1..Len(dir)
    BY <1>2, <1>4
  <2>2. b \in Int /\ (b >= 0 => b + 1 \in 1..pos /\ dir[b + 1].filetime = key)
    BY <2>1, SearchIs
  <2> HIDE DEF b
  <2>3. QED
    BY <2>2 DEF b
<1>5. last # 0 => last \in DOMAIN dir /\ dir[last].filetime = key
  BY <1>2, LastIs
<1> HIDE DEF bin, last
<1>6. CASE pos = 0
  BY <1>3, <1>6
<1>7. CASE pos # 0
  <2>1. pos \in DOMAIN dir /\ (bin > 0 => bin \in DOMAIN dir)
    BY <1>1, <1>2, <1>4, <1>7
  <2>2. QED
    BY <1>1, <1>3, <1>4, <1>5, <1>7, <2>1
<1>8. QED
  BY <1>6, <1>7

LEMMA SeenIs ==
    ASSUME NEW p \in Procs, dir \in Seq(Header), loc[p].list[1] \in Line
    PROVE  Seen(p) # 0 => Seen(p) \in DOMAIN dir
                          /\ dir[Seen(p)].filetime = loc[p].list[1].fh.filetime
<1> DEFINE l == loc[p].list[1]
           key == l.fh.filetime
           last == SelectLastInSubSeq(dir, 1, l.ent, LAMBDA fh : fh.filetime = key)
<1>1. l.ent \in Nat /\ Len(dir) \in Nat
  BY HeaderIs DEF Line
<1>2. Seen(p) = IF l.ent > Len(dir) THEN 0 ELSE last
  BY DEF Seen, Place
<1>3. CASE l.ent > Len(dir)
  BY <1>2, <1>3
<1>4. CASE ~(l.ent > Len(dir))
  <2>1. l.ent \in 0..Len(dir)
    BY <1>1, <1>4
  <2>2. last # 0 => last \in DOMAIN dir /\ dir[last].filetime = key
    BY <2>1, LastIs
  <2> HIDE DEF last
  <2>3. QED
    BY <1>2, <1>4, <2>2
<1>5. QED
  BY <1>3, <1>4

-----------------------------------------------------------------------------
(***************************************************************************)
(* The counter keeps its range.                                            *)
(***************************************************************************)
Numbers == (-ShrtMax - 1)..ShrtMax

LEMMA CountIs == ASSUME NEW d \in Seq(Header) PROVE calc_mailsize(d) \in Numbers
<1>1. SizeOf(d) \in Nat /\ ShrtMax \in Nat
  BY SizeInNat, Constants
<1>2. QED
  BY <1>1 DEF calc_mailsize, Numbers

LEMMA WeightIs ==
    ASSUME NEW m \in Mail
    PROVE  /\ Rounded(m.length) \in NumTable
           /\ Kilo(Rounded(m.length)) \in Nat /\ Kilo(Rounded(m.length)) >= 1
           /\ Kilo(Rounded(m.length)) <= ShrtMax
<1>1. m.length \in Lengths \cup {1, 1024}
  BY DEF Mail
<1>2. Rounded(m.length) \in NumTable
  BY <1>1, RoundedIs
<1>3. QED
  BY <1>2, Kilobytes

LEMMA UpIs ==
    ASSUME mailsize \in Numbers, NEW m \in Mail PROVE update_mailsize_up(m) \in Numbers
<1>1. ShrtMax \in Nat /\ ShrtMax >= 1
  BY Constants
<1>2. PICK k : k = Kilo(Rounded(m.length))
  OBVIOUS
<1>3. k \in Nat
  BY <1>2, WeightIs
<1>4. update_mailsize_up(m) = IF mailsize = -1 \/ k + mailsize > ShrtMax THEN -1 ELSE mailsize + k
  BY <1>2 DEF update_mailsize_up
<1>5. QED
  BY <1>1, <1>3, <1>4 DEF Numbers

LEMMA DownIs ==
    ASSUME dir \in Seq(Header), NEW counter \in Numbers, NEW fh \in Header
    PROVE  update_mailsize_down(counter, fh) \in Numbers
<1>1. ShrtMax \in Nat /\ ShrtMax >= 1 /\ SizeOf(dir) \in Nat
  BY Constants, SizeInNat
<1>2. PICK k : k = Kilo(fh.size)
  OBVIOUS
<1>3. k \in Nat /\ k <= ShrtMax /\ k >= 1
  <2>1. fh.size \in NumTable \cup {0}
    BY DEF Header
  <2>2. QED
    BY <1>2, <2>1, Kilobytes
<1>4. PICK z : z = SizeOf(dir)
  OBVIOUS
<1>5. update_mailsize_down(counter, fh) =
          IF NoLimit THEN counter
          ELSE IF (IF counter = -1 THEN z ELSE counter) < k THEN 0
          ELSE IF (IF counter = -1 THEN z ELSE counter) - k > ShrtMax THEN -1
          ELSE (IF counter = -1 THEN (IF z > ShrtMax THEN -1 ELSE z) ELSE counter) - k
  BY <1>2, <1>4 DEF update_mailsize_down, calc_mailsize
<1>6. CASE counter = -1
  BY <1>1, <1>3, <1>4, <1>5, <1>6 DEF Numbers
<1>7. CASE counter # -1
  BY <1>1, <1>3, <1>5, <1>7 DEF Numbers
<1>8. QED
  BY <1>6, <1>7

LEMMA EditIs ==
    ASSUME mailsize \in Numbers, NEW a \in Nat, NEW b \in Nat
    PROVE  DIR_do_editmail(a, b) \in Numbers
<1>1. ShrtMax \in Nat
  BY Constants
<1>2. PICK k : k = KiloDiff(a, b)
  OBVIOUS
<1>3. k \in Int
  BY <1>2 DEF KiloDiff
<1>4. DIR_do_editmail(a, b) = IF mailsize + k > ShrtMax THEN ShrtMax
                              ELSE IF mailsize + k < 0 THEN 0 ELSE mailsize + k
  BY <1>2 DEF DIR_do_editmail
<1>5. QED
  BY <1>1, <1>3, <1>4 DEF Numbers

-----------------------------------------------------------------------------
(***************************************************************************)
(* Local variables.                                                        *)
(***************************************************************************)
LEMMA LocalsIs ==
    ASSUME NEW l \in Locals
    PROVE  /\ l.back \in Where \ {"calc", "count"} /\ l.mail \in Mail
           /\ l.list \in Seq(Line) /\ l.todo \in Seq(Line) /\ l.dele \subseteq Nat
           /\ l.sel \in Choice /\ l.read \in Seq(Header) /\ l.at \in Nat
BY DEF Locals

LEMMA NoMailIs == NoMail \in Mail /\ NoMail.filetime = 0 /\ NoMail.sysmail = FALSE
BY DEF NoMail, Mail, AllCalls

LEMMA NoLocalsIs ==
    /\ NoLocals \in Locals /\ NoLocals.back = "idle" /\ NoLocals.mail = NoMail
    /\ NoLocals.list = <<>> /\ NoLocals.todo = <<>> /\ NoLocals.dele = {}
    /\ NoLocals.read = <<>> /\ NoLocals.at = 0
<1>1. NoSel \in Choice /\ <<>> \in Seq(Line) /\ <<>> \in Seq(Header) /\ "idle" \in Where \ {"calc", "count"}
  BY DEF NoSel, Choice, Where
<1>2. PICK m, s : m = NoMail /\ s = NoSel
  OBVIOUS
<1>3. NoLocals = [back |-> "idle", mail |-> m, list |-> <<>>, todo |-> <<>>,
                  dele |-> {}, sel |-> s, read |-> <<>>, at |-> 0]
  BY <1>2 DEF NoLocals
<1>4. QED
  BY <1>1, <1>2, <1>3, NoMailIs DEF Locals

(* A new value for one of them. *)
LEMMA LocalsSet ==
    ASSUME NEW l \in Locals
    PROVE  /\ \A x \in Where \ {"calc", "count"} : [l EXCEPT !.back = x] \in Locals
           /\ \A x \in Mail : [l EXCEPT !.mail = x] \in Locals
           /\ \A x \in Seq(Line) : [l EXCEPT !.list = x] \in Locals
           /\ \A x \in Seq(Line) : [l EXCEPT !.todo = x] \in Locals
           /\ \A x \in SUBSET Nat : [l EXCEPT !.dele = x] \in Locals
           /\ \A x \in Choice : [l EXCEPT !.sel = x] \in Locals
           /\ \A x \in Seq(Header) : [l EXCEPT !.read = x] \in Locals
           /\ \A x \in Nat : [l EXCEPT !.at = x] \in Locals
BY DEF Locals

LEMMA MailSet ==
    ASSUME NEW m \in Mail
    PROVE  /\ \A t \in Nat : [m EXCEPT !.filetime = t] \in Mail
           /\ \A n \in Lengths : [m EXCEPT !.length = n] \in Mail
<1>1. /\ m.call \in AllCalls /\ m.length \in Lengths \cup {1, 1024} /\ m.filetime \in Nat
      /\ m.sysmail \in BOOLEAN
      /\ m = [call |-> m.call, sysmail |-> m.sysmail, length |-> m.length, filetime |-> m.filetime]
  BY DEF Mail
<1>2. QED
  BY <1>1 DEF Mail

LEMMA HeadIs ==
    ASSUME NEW s \in Seq(Line), s # <<>>
    PROVE  Head(s) \in Line /\ Tail(s) \in Seq(Line) /\ s[1] \in Line /\ Head(s) = s[1]
           /\ (Len(s) # 1 => Tail(s) # <<>>) /\ Head(s).fh \in Header
           /\ Head(s).fh.filetime \in Nat /\ Head(s).ent \in Nat \ {0}
<1>1. Head(s) \in Line /\ Tail(s) \in Seq(Line) /\ Len(Tail(s)) = Len(s) - 1 /\ Len(s) \in Nat
  BY HeadTailProperties
<1>2. Head(s) = s[1] /\ s[1] \in Line
  BY <1>1
<1>3. Len(s) # 1 => Tail(s) # <<>>
  <2>1. Tail(s) = <<>> => Len(Tail(s)) = 0
    BY EmptySeq
  <2>2. QED
    BY <1>1, <2>1
<1>4. \A l \in Line : l.fh \in Header /\ l.fh.filetime \in Nat /\ l.ent \in Nat \ {0}
  BY DEF Line, Header
<1>5. QED
  BY <1>1, <1>2, <1>3, <1>4

-----------------------------------------------------------------------------
(***************************************************************************)
(* One process moves.                                                      *)
(***************************************************************************)
Moves(p) == /\ pc' \in [Procs -> Where] /\ loc' \in [Procs -> Locals]
            /\ \A q \in Procs : q # p => pc'[q] = pc[q] /\ loc'[q] = loc[q]

LEMMA TypedIs ==
    ASSUME Typed
    PROVE  /\ dir \in Seq(Header) /\ files \subseteq Nat /\ lock \in Procs \cup {Nobody}
           /\ mailsize \in Numbers /\ closed \in BOOLEAN /\ jobs \in Casts
           /\ now \in 1..MaxTime /\ pc \in [Procs -> Where] /\ loc \in [Procs -> Locals]
           /\ \A p \in Procs :
                /\ loc[p] \in Locals /\ loc[p].back \in Where \ {"calc", "count"}
                /\ loc[p].mail \in Mail /\ loc[p].list \in Seq(Line)
                /\ loc[p].todo \in Seq(Line) /\ loc[p].dele \subseteq Nat
                /\ loc[p].sel \in Choice /\ loc[p].read \in Seq(Header) /\ loc[p].at \in Nat
<1>1. loc \in [Procs -> Locals]
  BY DEF Typed
<1>2. QED
  BY <1>1, LocalsIs DEF Typed, TypeOK, Numbers

LEMMA BaseStep ==
    ASSUME BaseInv, NEW p \in Procs, Moves(p),
           dir' \in Seq(Header), files' \subseteq Nat, mailsize' \in Numbers,
           closed' = closed, jobs' = jobs, now' = now, lock' \in Procs \cup {Nobody},
           \A q \in Procs : q # p => (lock' = q <=> lock = q),
           Len(dir') >= Len(dir) \/ lock = p,
           Fits(p)'
    PROVE  BaseInv'
<1>1. Typed'
  <2>1. /\ closed' \in BOOLEAN /\ jobs' \in Casts /\ now' \in 1..MaxTime
        /\ pc' \in [Procs -> Where] /\ loc' \in [Procs -> Locals]
    BY TypedIs DEF BaseInv, Moves
  <2>2. ASSUME NEW q \in Procs
        PROVE  /\ loc'[q].back \in Where
               /\ loc'[q].mail \in [call : AllCalls, sysmail : BOOLEAN,
                                   length : Lengths \cup {1, 1024}, filetime : Nat]
               /\ loc'[q].list \in Seq(Line) /\ loc'[q].todo \in Seq(Line)
               /\ loc'[q].read \in Seq(Header)
    <3>1. loc'[q] \in Locals
      BY <2>1
    <3>2. QED
      BY <3>1, LocalsIs DEF Mail
  <2>3. QED
    BY <2>1, <2>2 DEF Typed, TypeOK, Numbers
<1>2. ASSUME NEW q \in Procs, q # p PROVE Fits(q)'
  <2>1. /\ pc'[q] = pc[q] /\ loc'[q] = loc[q] /\ jobs' = jobs /\ (lock' = q <=> lock = q)
        /\ Fits(q)
    BY <1>2 DEF Moves, BaseInv
  <2>2. Aim(q)' = Aim(q)
    BY <2>1 DEF Aim
  <2>3. HoldsLock(q)' /\ HasTodo(q)' /\ HasJob(q)' /\ GoesBack(q)'
    BY <2>1, <2>2 DEF Fits, HoldsLock, HasTodo, HasJob, GoesBack
  <2>4. ReadFits(q)'
    <3>1. SUFFICES ASSUME pc[q] = "sweep" PROVE Len(loc[q].read) <= Len(dir')
      BY <2>1 DEF ReadFits
    <3>2. lock = q /\ Len(loc[q].read) <= Len(dir)
      BY <2>1, <3>1 DEF Fits, HoldsLock, ReadFits, Aim, Inside
    <3>3. Len(dir') >= Len(dir)
      BY <1>2, <3>2
    <3>4. loc[q].read \in Seq(Header) /\ dir \in Seq(Header)
      BY TypedIs DEF BaseInv
    <3>5. Len(loc[q].read) \in Nat /\ Len(dir) \in Nat /\ Len(dir') \in Nat
      BY <3>4
    <3>6. QED
      BY <3>2, <3>3, <3>5
  <2>5. QED
    BY <2>3, <2>4 DEF Fits
<1>3. QED
  BY <1>1, <1>2 DEF BaseInv

LEMMA GotoIs ==
    ASSUME Typed, NEW p \in Procs, NEW w \in Where, Goto(p, w), loc' = loc
    PROVE  Moves(p) /\ pc'[p] = w /\ loc'[p] = loc[p]
BY TypedIs DEF Goto, Moves

LEMMA ReturnIs ==
    ASSUME Typed, NEW p \in Procs, Return(p)
    PROVE  Moves(p) /\ pc'[p] = "idle" /\ loc'[p] = NoLocals /\ Aim(p)' = "idle"
<1>1. pc' = [pc EXCEPT ![p] = "idle"] /\ loc' = [loc EXCEPT ![p] = NoLocals] /\ "idle" \in Where
  BY DEF Return, Goto, Where
<1>2. Moves(p) /\ pc'[p] = "idle" /\ loc'[p] = NoLocals
  BY <1>1, TypedIs, NoLocalsIs DEF Moves
<1>3. QED
  BY <1>2 DEF Aim

LEMMA GetIs ==
    ASSUME Typed, NEW p \in Procs, NEW w \in Where \ {"calc", "count"}, NEW l \in Locals,
           get_mailsize(p, w, l)
    PROVE  /\ Moves(p) /\ pc'[p] = (IF mailsize = -2 THEN "calc" ELSE w) /\ Aim(p)' = w
           /\ loc'[p].mail = l.mail /\ loc'[p].list = l.list /\ loc'[p].todo = l.todo
           /\ loc'[p].dele = l.dele /\ loc'[p].sel = l.sel /\ loc'[p].read = l.read
           /\ loc'[p].at = l.at
           /\ (mailsize # -2 => loc'[p] = l)
<1> DEFINE m == [l EXCEPT !.back = w]
<1>1. /\ m \in Locals /\ m.back = w /\ m.mail = l.mail /\ m.list = l.list /\ m.todo = l.todo
      /\ m.dele = l.dele /\ m.sel = l.sel /\ m.read = l.read /\ m.at = l.at
  <2>1. m \in Locals
    BY LocalsSet
  <2>2. QED
    BY <2>1 DEF Locals
<1> HIDE DEF m
<1>2. PICK v, x : v = (IF mailsize = -2 THEN m ELSE l) /\ x = (IF mailsize = -2 THEN "calc" ELSE w)
  OBVIOUS
<1>3. v \in Locals /\ x \in Where
  BY <1>1, <1>2 DEF Where
<1>4. pc' = [pc EXCEPT ![p] = x] /\ loc' = [loc EXCEPT ![p] = v]
  BY <1>2 DEF get_mailsize, Goto, m
<1>5. Moves(p) /\ pc'[p] = x /\ loc'[p] = v
  BY <1>3, <1>4, TypedIs DEF Moves
<1>6. Aim(p)' = w
  <2>1. CASE mailsize = -2
    BY <1>1, <1>2, <1>5, <2>1 DEF Aim
  <2>2. CASE mailsize # -2
    BY <1>2, <1>5, <2>2 DEF Aim
  <2>3. QED
    BY <2>1, <2>2
<1>7. CASE mailsize = -2
  BY <1>1, <1>2, <1>5, <1>6, <1>7
<1>8. CASE mailsize # -2
  BY <1>2, <1>5, <1>6, <1>8
<1>9. QED
  BY <1>7, <1>8

(* The lock before and after. *)
LEMMA FitsIs ==
    ASSUME BaseInv, NEW p \in Procs
    PROVE  /\ Typed /\ Fits(p)
           /\ (pc[p] \in Inside => lock = p) /\ (pc[p] = "count" => lock = p /\ Aim(p) \notin Inside)
           /\ (pc[p] \notin {"calc", "count"} => Aim(p) = pc[p])
           /\ (pc[p] \notin {"calc", "count"} /\ pc[p] \notin Inside => lock # p)
BY DEF BaseInv, Fits, HoldsLock, Aim, Inside

LEMMA CalcLockBase ==
    ASSUME BaseInv, NEW p \in Procs, CalcLock(p) PROVE BaseInv'
<1>1. Moves(p) /\ pc'[p] = "count" /\ loc'[p] = loc[p]
  <2>1. "count" \in Where /\ Goto(p, "count") /\ loc' = loc
    BY DEF Where, CalcLock
  <2>2. QED
    BY <2>1, GotoIs DEF BaseInv
<1>2. pc[p] = "calc" /\ lock = Nobody /\ lock' = p /\ jobs' = jobs /\ dir' = dir
  BY DEF CalcLock, Locks
<1>3. Aim(p)' = Aim(p) /\ lock # p
  BY <1>1, <1>2, Constants DEF Aim
<1>4. Fits(p)'
  BY <1>1, <1>2, <1>3, FitsIs DEF Fits, HoldsLock, HasTodo, HasJob, ReadFits, GoesBack
<1>5. /\ dir' \in Seq(Header) /\ files' \subseteq Nat /\ mailsize' \in Numbers
      /\ closed' = closed /\ now' = now /\ lock' \in Procs \cup {Nobody}
      /\ Len(dir') >= Len(dir)
  BY <1>2, TypedIs DEF BaseInv, CalcLock
<1>6. \A q \in Procs : q # p => (lock' = q <=> lock = q)
  BY <1>2, Constants
<1>7. QED
  BY <1>1, <1>2, <1>4, <1>5, <1>6, BaseStep

LEMMA CalcWriteIs ==
    ASSUME BaseInv, NEW p \in Procs, CalcWrite(p)
    PROVE  /\ pc[p] = "count" /\ lock = p /\ lock' = Nobody /\ mailsize' = calc_mailsize(dir)
           /\ UNCHANGED <<dir, files, closed, jobs, now>> /\ Moves(p)
           /\ pc'[p] \in Begins /\ loc'[p].list = loc[p].list
           /\ loc'[p].todo = loc[p].todo /\ loc'[p].at = loc[p].at
           /\ pc'[p] = Aim(p)
           /\ (pc'[p] = "idle" => loc'[p].list = <<>>)
<1>1. /\ pc[p] = "count" /\ mailsize' = calc_mailsize(dir) /\ lock' = Nobody
      /\ pc' = [pc EXCEPT ![p] = loc[p].back] /\ loc' = [loc EXCEPT ![p].back = "idle"]
      /\ UNCHANGED <<dir, files, closed, jobs, now>>
  BY DEF CalcWrite, Goto
<1>2. PICK v : v = [loc[p] EXCEPT !.back = "idle"]
  OBVIOUS
<1>3. v \in Locals /\ v.list = loc[p].list /\ v.todo = loc[p].todo /\ v.at = loc[p].at
  <2>1. "idle" \in Where \ {"calc", "count"} /\ loc[p] \in Locals
    BY TypedIs DEF BaseInv, Where
  <2>2. v \in Locals
    BY <1>2, <2>1, LocalsSet
  <2>3. QED
    BY <1>2, <2>1, <2>2 DEF Locals
<1>4. Moves(p) /\ pc'[p] = loc[p].back /\ loc'[p] = v
  <2>1. loc' = [loc EXCEPT ![p] = v]
    BY <1>1, <1>2
  <2>2. QED
    BY <1>1, <1>3, <2>1, TypedIs DEF BaseInv, Moves
<1>5. Aim(p) = loc[p].back /\ lock = p /\ Aim(p) \notin Inside /\ GoesBack(p)
  BY <1>1, FitsIs DEF Aim, Fits
<1>6. Aim(p) \in Begins /\ (Aim(p) = "idle" => loc[p].list = <<>>)
  <2>1. pc[p] \in {"calc", "count"}
    BY <1>1
  <2>2. Aim(p) \in Begins \cup Inside /\ (Aim(p) = "idle" => loc[p].list = <<>>)
    BY <1>5, <2>1, Zenon DEF GoesBack
  <2>3. QED
    BY <1>5, <2>2
<1>7. QED
  BY <1>1, <1>3, <1>4, <1>5, <1>6

LEMMA BeginsIs ==
    ASSUME NEW w \in Begins
    PROVE  w \notin {"sweep", "unlink", "charge", "write"} /\ w \in Where \ {"calc", "count"}
BY DEF Begins, Where

LEMMA CalcWriteBase == ASSUME BaseInv, NEW p \in Procs, CalcWrite(p) PROVE BaseInv'
<1>1. /\ pc[p] = "count" /\ lock = p /\ lock' = Nobody /\ mailsize' = calc_mailsize(dir)
      /\ UNCHANGED <<dir, files, closed, jobs, now>> /\ Moves(p)
      /\ pc'[p] \in Begins /\ loc'[p].list = loc[p].list /\ loc'[p].todo = loc[p].todo
      /\ pc'[p] = Aim(p)
  BY CalcWriteIs
<1>2. pc'[p] \notin {"sweep", "calc", "count"} /\ Aim(p)' = Aim(p) /\ Aim(p) \notin Inside
  BY <1>1, BeginsIs, FitsIs DEF Aim
<1>3. Fits(p)'
  BY <1>1, <1>2, FitsIs, Constants DEF Fits, HoldsLock, HasTodo, HasJob, ReadFits, GoesBack
<1>4. /\ dir' \in Seq(Header) /\ files' \subseteq Nat /\ mailsize' \in Numbers
      /\ lock' \in Procs \cup {Nobody} /\ Len(dir') >= Len(dir)
  BY <1>1, TypedIs, CountIs DEF BaseInv
<1>5. \A q \in Procs : q # p => (lock' = q <=> lock = q)
  BY <1>1, Constants
<1>6. closed' = closed /\ jobs' = jobs /\ now' = now
  BY <1>1
<1>7. QED
  BY <1>1, <1>3, <1>4, <1>5, <1>6, BaseStep

(* An operation begins, or goes on, that asks for the size. *)
LEMMA GetBase ==
    ASSUME BaseInv, NEW p \in Procs, NEW w \in Where \ {"calc", "count"}, NEW l \in Locals,
           get_mailsize(p, w, l), w \in Inside <=> lock = p,
           w = "sweep" => Len(l.read) <= Len(dir),
           w \in {"dellock", "remove", "unlink"} => l.todo # <<>>,
           w \in DeleteSteps => jobs[p] \cap DeleteJobs # {},
           w \in {"editlock", "resize"} => "edit" \in jobs[p] /\ l.list # <<>>,
           w \in Begins \cup Inside, w = "idle" => l.list = <<>>,
           UNCHANGED <<dir, files, lock, mailsize, closed, jobs, now>>
    PROVE  BaseInv'
<1>1. /\ Moves(p) /\ pc'[p] = (IF mailsize = -2 THEN "calc" ELSE w) /\ Aim(p)' = w
      /\ loc'[p].todo = l.todo /\ loc'[p].read = l.read /\ loc'[p].list = l.list
  BY GetIs DEF BaseInv
<1>2. pc'[p] # "count" /\ (pc'[p] = "sweep" => w = "sweep")
  BY <1>1
<1>3. Fits(p)'
  BY <1>1, <1>2 DEF Fits, HoldsLock, HasTodo, HasJob, ReadFits, GoesBack
<1>4. /\ dir' \in Seq(Header) /\ files' \subseteq Nat /\ mailsize' \in Numbers
      /\ lock' \in Procs \cup {Nobody} /\ Len(dir') >= Len(dir)
      /\ closed' = closed /\ jobs' = jobs /\ now' = now
  BY TypedIs DEF BaseInv
<1>5. \A q \in Procs : q # p => (lock' = q <=> lock = q)
  OBVIOUS
<1>6. QED
  BY <1>1, <1>3, <1>4, <1>5, BaseStep

LEMMA AskSizeBase == ASSUME BaseInv, NEW p \in Procs, AskSize(p) PROVE BaseInv'
<1>1. /\ pc[p] = "idle" /\ get_mailsize(p, "idle", NoLocals)
      /\ UNCHANGED <<dir, files, lock, mailsize, closed, jobs, now>>
  BY DEF AskSize, Does
<1>2. lock # p /\ "idle" \notin Inside /\ "idle" \in Where \ {"calc", "count"} /\ "idle" \in Begins /\ "idle" \notin DeleteSteps
  BY <1>1, FitsIs DEF Begins, Inside, Where, DeleteSteps
<1>3. QED
  BY <1>1, <1>2, NoLocalsIs, GetBase

LEMMA SendIs ==
    ASSUME BaseInv, NEW p \in Procs, Send(p)
    PROVE  /\ pc[p] = "idle" /\ UNCHANGED <<dir, files, lock, mailsize, closed, jobs, now>>
           /\ \E l \in Locals : get_mailsize(p, "append", l) /\ l.at = 0
<1>1. pc[p] = "idle" /\ UNCHANGED <<dir, files, lock, mailsize, closed, jobs, now>>
  BY DEF Send, Does
<1>2. PICK call \in Calls, bySysop \in BOOLEAN, n \in Lengths :
         get_mailsize(p, "append", [NoLocals EXCEPT !.mail =
                [call |-> call, sysmail |-> IsSysmail(call, bySysop),
                 length |-> IF call = "system_mail_link" THEN 1024 ELSE n,
                 filetime |-> 0]])
  BY DEF Send
<1>3. PICK m : m = [call |-> call, sysmail |-> IsSysmail(call, bySysop),
                    length |-> IF call = "system_mail_link" THEN 1024 ELSE n, filetime |-> 0]
  OBVIOUS
<1>4. m \in Mail
  <2>1. call \in AllCalls /\ IsSysmail(call, bySysop) \in BOOLEAN
    BY CallsAssumption DEF IsSysmail
  <2>2. QED
    BY <1>3, <2>1 DEF Mail
<1>5. PICK l : l = [NoLocals EXCEPT !.mail = m]
  OBVIOUS
<1>6. l \in Locals
  BY <1>4, <1>5, NoLocalsIs, LocalsSet
<1>7. l.at = 0
  BY <1>5, <1>6, NoLocalsIs DEF Locals
<1>8. get_mailsize(p, "append", l)
  BY <1>2, <1>3, <1>5
<1>9. QED
  BY <1>1, <1>6, <1>7, <1>8

LEMMA SendBase == ASSUME BaseInv, NEW p \in Procs, Send(p) PROVE BaseInv'
<1>1. pc[p] = "idle" /\ UNCHANGED <<dir, files, lock, mailsize, closed, jobs, now>>
  BY SendIs
<1>2. lock # p /\ "append" \notin Inside /\ "append" \in Where \ {"calc", "count"}
      /\ "append" \in Begins /\ "append" \notin DeleteSteps
  BY <1>1, FitsIs DEF Begins, Inside, Where, DeleteSteps
<1>3. QED
  BY <1>1, <1>2, SendIs, GetBase

LEMMA MailDelIs ==
    ASSUME BaseInv, NEW p \in Procs, MailDel(p)
    PROVE  /\ pc[p] = "idle" /\ UNCHANGED <<dir, files, lock, mailsize, closed, jobs, now>>
           /\ jobs[p] \cap DeleteJobs # {}
           /\ \E l \in Locals : get_mailsize(p, "dellock", l) /\ l.todo # <<>>
<1>1. /\ pc[p] = "idle" /\ "del" \in jobs[p] /\ loc[p].list # <<>>
      /\ get_mailsize(p, "dellock", [loc[p] EXCEPT !.todo = loc[p].list])
      /\ UNCHANGED <<dir, files, lock, mailsize, closed, jobs, now>>
  BY DEF MailDel, Does
<1>2. PICK l : l = [loc[p] EXCEPT !.todo = loc[p].list]
  OBVIOUS
<1>3. l \in Locals /\ l.todo = loc[p].list
  <2>1. loc[p] \in Locals /\ loc[p].list \in Seq(Line)
    BY TypedIs DEF BaseInv
  <2>2. l \in Locals
    BY <1>2, <2>1, LocalsSet
  <2>3. QED
    BY <1>2, <2>1, <2>2 DEF Locals
<1>4. QED
  BY <1>1, <1>2, <1>3 DEF DeleteJobs

LEMMA MailDelBase == ASSUME BaseInv, NEW p \in Procs, MailDel(p) PROVE BaseInv'
<1>1. /\ pc[p] = "idle" /\ UNCHANGED <<dir, files, lock, mailsize, closed, jobs, now>>
      /\ jobs[p] \cap DeleteJobs # {}
      /\ \E l \in Locals : get_mailsize(p, "dellock", l) /\ l.todo # <<>>
  BY MailDelIs
<1>2. lock # p /\ "dellock" \notin Inside /\ "dellock" \in Where \ {"calc", "count"}
      /\ "dellock" \in Begins
  BY <1>1, FitsIs DEF Begins, Inside, Where
<1>3. QED
  BY <1>1, <1>2, GetBase

LEMMA PopLoginBase == ASSUME BaseInv, NEW p \in Procs, PopLogin(p) PROVE BaseInv'
<1>1. /\ pc[p] = "idle" /\ "pop" \in jobs[p] /\ get_mailsize(p, "login", NoLocals)
      /\ UNCHANGED <<dir, files, lock, mailsize, closed, jobs, now>>
  BY DEF PopLogin, Does
<1>2. lock # p /\ "login" \notin Inside /\ "login" \in Where \ {"calc", "count"} /\ "login" \in Begins
      /\ jobs[p] \cap DeleteJobs # {}
  BY <1>1, FitsIs DEF Begins, Inside, Where, DeleteJobs
<1>3. QED
  BY <1>1, <1>2, NoLocalsIs, GetBase

LEMMA SelBase ==
    ASSUME BaseInv, NEW p \in Procs, NEW s \in Choice, pc[p] = "idle",
           jobs[p] \cap DeleteJobs # {},
           get_mailsize(p, "sweeplock", [NoLocals EXCEPT !.sel = s]),
           UNCHANGED <<dir, files, lock, mailsize, closed, jobs, now>>
    PROVE  BaseInv'
<1>1. PICK l : l = [NoLocals EXCEPT !.sel = s]
  OBVIOUS
<1>2. l \in Locals
  BY <1>1, NoLocalsIs, LocalsSet
<1>3. get_mailsize(p, "sweeplock", l)
  BY <1>1
<1>4. lock # p /\ "sweeplock" \notin Inside /\ "sweeplock" \in Where \ {"calc", "count"} /\ "sweeplock" \in Begins
  BY FitsIs DEF Begins, Inside, Where
<1>5. QED
  BY <1>2, <1>3, <1>4, GetBase

LEMMA DelRangeSel ==
    ASSUME BaseInv, NEW p \in Procs, DelRange(p)
    PROVE  /\ pc[p] = "idle" /\ jobs[p] \cap DeleteJobs # {}
           /\ UNCHANGED <<dir, files, lock, mailsize, closed, jobs, now>>
           /\ \E s \in Choice : get_mailsize(p, "sweeplock", [NoLocals EXCEPT !.sel = s])
<1>1. PICK s \in {[by |-> "flag", set |-> {}]} \cup
                 {[by |-> "number", set |-> i..j] : i, j \in DOMAIN dir} :
          get_mailsize(p, "sweeplock", [NoLocals EXCEPT !.sel = s])
  BY DEF DelRange
<1>2. s \in Choice
  <2>1. CASE s = [by |-> "flag", set |-> {}]
    BY <2>1 DEF Choice
  <2>2. CASE s \in {[by |-> "number", set |-> i..j] : i, j \in DOMAIN dir}
    <3>1. PICK i \in DOMAIN dir, j \in DOMAIN dir : s = [by |-> "number", set |-> i..j]
      BY <2>2
    <3>2. DOMAIN dir = 1..Len(dir) /\ Len(dir) \in Nat
      BY TypedIs, HeaderIs DEF BaseInv
    <3>3. i..j \subseteq Nat
      BY <3>2
    <3>4. QED
      BY <3>1, <3>3 DEF Choice
  <2>3. QED
    BY <2>1, <2>2
<1>3. /\ pc[p] = "idle" /\ "range" \in jobs[p]
      /\ UNCHANGED <<dir, files, lock, mailsize, closed, jobs, now>>
  BY DEF DelRange, Does
<1>4. QED
  BY <1>1, <1>2, <1>3 DEF DeleteJobs

LEMMA DelRangeBase == ASSUME BaseInv, NEW p \in Procs, DelRange(p) PROVE BaseInv'
BY DelRangeSel, SelBase

LEMMA bbsdelmailSel ==
    ASSUME BaseInv, NEW p \in Procs, bbsdelmail(p)
    PROVE  /\ pc[p] = "idle" /\ jobs[p] \cap DeleteJobs # {}
           /\ UNCHANGED <<dir, files, lock, mailsize, closed, jobs, now>>
           /\ \E s \in Choice : get_mailsize(p, "sweeplock", [NoLocals EXCEPT !.sel = s])
<1>1. PICK set \in SUBSET {dir[i].filetime : i \in DOMAIN dir} :
         get_mailsize(p, "sweeplock",
                      [NoLocals EXCEPT !.sel = [by |-> "file", set |-> set]])
  BY DEF bbsdelmail
<1>2. set \subseteq Nat
  <2>1. \A i \in DOMAIN dir : dir[i].filetime \in Nat
    BY TypedIs, HeaderIs DEF BaseInv
  <2>2. QED
    BY <2>1
<1>3. PICK s : s = [by |-> "file", set |-> set]
  OBVIOUS
<1>4. s \in Choice
  BY <1>2, <1>3 DEF Choice
<1>5. /\ pc[p] = "idle" /\ "web" \in jobs[p]
      /\ UNCHANGED <<dir, files, lock, mailsize, closed, jobs, now>>
  BY DEF bbsdelmail, Does
<1>6. QED
  BY <1>1, <1>3, <1>4, <1>5 DEF DeleteJobs

LEMMA bbsdelmailBase == ASSUME BaseInv, NEW p \in Procs, bbsdelmail(p) PROVE BaseInv'
BY bbsdelmailSel, SelBase

LEMMA RecountBase == ASSUME BaseInv, NEW p \in Procs, Recount(p) PROVE BaseInv'
<1>1. /\ pc[p] \in {"charge", "remove", "sweep", "resize"} /\ get_mailsize(p, pc[p], loc[p])
      /\ UNCHANGED <<dir, files, lock, mailsize, closed, jobs, now>>
  BY DEF Recount
<1>2. /\ pc[p] \in Inside /\ lock = p /\ pc[p] \in Where \ {"calc", "count"} /\ Aim(p) = pc[p]
      /\ loc[p] \in Locals
  BY <1>1, FitsIs, TypedIs DEF Inside, Where
<1>3. Fits(p) /\ pc[p] # "idle" /\ pc[p] \in Begins \cup Inside
  BY <1>1, <1>2, FitsIs
<1>4. /\ pc[p] = "sweep" => Len(loc[p].read) <= Len(dir)
      /\ pc[p] \in {"dellock", "remove", "unlink"} => loc[p].todo # <<>>
      /\ pc[p] \in DeleteSteps => jobs[p] \cap DeleteJobs # {}
      /\ pc[p] \in {"editlock", "resize"} => "edit" \in jobs[p] /\ loc[p].list # <<>>
  BY <1>2, <1>3 DEF Fits, HasTodo, HasJob, ReadFits
<1>5. QED
  BY <1>1, <1>2, <1>3, <1>4, GetBase

(* A process goes on, with the lock or without it. *)
LEMMA GoBase ==
    ASSUME BaseInv, NEW p \in Procs, NEW w \in Where \ {"calc", "count"}, Moves(p), pc'[p] = w,
           dir' \in Seq(Header), files' \subseteq Nat, mailsize' \in Numbers,
           UNCHANGED <<closed, jobs, now>>,
           lock' = lock \/ (lock = Nobody /\ lock' = p) \/ (lock = p /\ lock' = Nobody),
           w \in Inside <=> lock' = p,
           Len(dir') >= Len(dir) \/ lock = p,
           w = "sweep" => Len(loc'[p].read) <= Len(dir'),
           w \in {"dellock", "remove", "unlink"} => loc'[p].todo # <<>>,
           w \in DeleteSteps => jobs[p] \cap DeleteJobs # {},
           w \in {"editlock", "resize"} => "edit" \in jobs[p] /\ loc'[p].list # <<>>
    PROVE  BaseInv'
<1>1. Aim(p)' = w /\ pc'[p] # "count"
  BY DEF Aim
<1>2. Fits(p)'
  BY <1>1 DEF Fits, HoldsLock, HasTodo, HasJob, ReadFits, GoesBack
<1>3. lock' \in Procs \cup {Nobody}
  BY TypedIs DEF BaseInv
<1>4. \A q \in Procs : q # p => (lock' = q <=> lock = q)
  BY Constants
<1>5. closed' = closed /\ jobs' = jobs /\ now' = now
  OBVIOUS
<1>6. QED
  BY <1>2, <1>3, <1>4, <1>5, BaseStep

(* Most steps leave the index and the counter alone. *)
LEMMA KeepsIs ==
    ASSUME BaseInv
    PROVE  /\ dir' = dir => dir' \in Seq(Header) /\ Len(dir') >= Len(dir)
           /\ files' = files => files' \subseteq Nat
           /\ mailsize' = mailsize => mailsize' \in Numbers
<1>1. dir \in Seq(Header) /\ files \subseteq Nat /\ mailsize \in Numbers
  BY TypedIs DEF BaseInv
<1>2. Len(dir) \in Nat
  BY <1>1
<1>3. ASSUME dir' = dir PROVE dir' \in Seq(Header) /\ Len(dir') >= Len(dir)
  BY <1>1, <1>2, <1>3
<1>4. files' = files => files' \subseteq Nat
  BY <1>1
<1>5. mailsize' = mailsize => mailsize' \in Numbers
  BY <1>1
<1>6. QED
  BY <1>3, <1>4, <1>5

LEMMA IdleIs == "idle" \in Where \ {"calc", "count"} /\ "idle" \notin Inside /\ "idle" \notin DeleteSteps
BY DEF Where, Inside, DeleteSteps

(* The end of an operation. *)
LEMMA ReturnBase ==
    ASSUME BaseInv, NEW p \in Procs, Return(p),
           dir' \in Seq(Header), files' \subseteq Nat, mailsize' \in Numbers,
           UNCHANGED <<closed, jobs, now>>,
           (lock # p /\ lock' = lock) \/ (lock = p /\ lock' = Nobody),
           Len(dir') >= Len(dir) \/ lock = p
    PROVE  BaseInv'
<1>1. Moves(p) /\ pc'[p] = "idle"
  BY ReturnIs DEF BaseInv
<1>2. lock' # p
  BY Constants
<1>3. QED
  BY <1>1, <1>2, IdleIs, GoBase

LEMMA TickBase == ASSUME BaseInv, Tick PROVE BaseInv'
<1>1. /\ now < MaxTime /\ now' = now + 1
      /\ UNCHANGED <<dir, files, lock, mailsize, closed, jobs, pc, loc>>
  BY DEF Tick
<1>2. now' \in 1..MaxTime
  <2>1. now \in 1..MaxTime /\ MaxTime \in Nat
    BY TypedIs, Constants DEF BaseInv
  <2>2. QED
    BY <1>1, <2>1
<1>3. Typed'
  BY <1>1, <1>2 DEF BaseInv, Typed, TypeOK
<1>4. ASSUME NEW q \in Procs PROVE Fits(q)'
  <2>1. Aim(q)' = Aim(q) /\ Fits(q)
    BY <1>1 DEF Aim, BaseInv
  <2>2. QED
    BY <1>1, <2>1 DEF Fits, HoldsLock, HasTodo, HasJob, ReadFits, GoesBack
<1>5. QED
  BY <1>3, <1>4 DEF BaseInv

LEMMA FixMailsizeBase == ASSUME BaseInv, NEW p \in Procs, FixMailsize(p) PROVE BaseInv'
<1>1. /\ pc[p] = "idle" /\ mailsize' = -2
      /\ UNCHANGED <<dir, files, lock, closed, jobs, now, pc, loc>>
  BY DEF FixMailsize, Does
<1>2. mailsize' \in Numbers
  BY <1>1, Constants DEF Numbers
<1>3. Moves(p) /\ pc'[p] = "idle" /\ lock # p
  BY <1>1, TypedIs, FitsIs, IdleIs DEF BaseInv, Moves
<1>4. QED
  BY <1>1, <1>2, <1>3, IdleIs, KeepsIs, GoBase

-----------------------------------------------------------------------------
(* Delivery. *)
LEMMA AppendLockIs ==
    ASSUME BaseInv, NEW p \in Procs, AppendLock(p)
    PROVE  /\ pc[p] = "append" /\ lock = Nobody /\ lock' = p
           /\ Moves(p) /\ pc'[p] = "charge"
           /\ UNCHANGED <<dir, mailsize, closed, jobs, now>>
           /\ \E t \in Nat : /\ t \notin files /\ t >= 1 /\ files' = files \cup {t}
                             /\ loc'[p].mail.filetime = t
                             /\ loc'[p].list = loc[p].list /\ loc'[p].todo = loc[p].todo
                             /\ loc'[p].mail.length = loc[p].mail.length
                             /\ loc'[p].mail.sysmail = loc[p].mail.sysmail
<1>1. PICK t \in FreeNames : /\ Locks(p) /\ files' = files \cup {t}
                             /\ loc' = [loc EXCEPT ![p].mail.filetime = t]
                             /\ Goto(p, "charge")
  BY DEF AppendLock
<1>2. t \in Nat /\ t \notin files /\ t >= 1
  <2>1. now \in Nat /\ now >= 1 /\ MaxTry \in Nat
    BY TypedIs, Constants DEF BaseInv
  <2>2. t \in now..(now + MaxTry - 1) /\ t \notin files
    BY DEF FreeNames
  <2>3. QED
    BY <2>1, <2>2
<1>3. PICK m : m = [loc[p].mail EXCEPT !.filetime = t]
  OBVIOUS
<1>4. m \in Mail /\ m.filetime = t /\ m.length = loc[p].mail.length /\ m.sysmail = loc[p].mail.sysmail
  <2>1. loc[p].mail \in Mail
    BY TypedIs DEF BaseInv
  <2>2. m \in Mail
    BY <1>2, <1>3, <2>1, MailSet
  <2>3. m.filetime = t /\ m.length = loc[p].mail.length
    BY <1>3, <2>1, <2>2 DEF Mail
  <2>4. m.sysmail = loc[p].mail.sysmail
    BY <1>3, <2>1, <2>2, Zenon DEF Mail
  <2>5. QED
    BY <2>2, <2>3, <2>4
<1>5. PICK l : l = [loc[p] EXCEPT !.mail = m]
  OBVIOUS
<1>6. l \in Locals /\ l.mail = m /\ l.list = loc[p].list /\ l.todo = loc[p].todo
  <2>1. loc[p] \in Locals
    BY TypedIs DEF BaseInv
  <2>2. l \in Locals
    BY <1>4, <1>5, <2>1, LocalsSet
  <2>3. QED
    BY <1>5, <2>1, <2>2 DEF Locals
<1>7. loc' = [loc EXCEPT ![p] = l]
  BY <1>1, <1>3, <1>5
<1>8. Moves(p) /\ pc'[p] = "charge" /\ loc'[p] = l
  <2>1. pc' = [pc EXCEPT ![p] = "charge"] /\ "charge" \in Where
    BY <1>1 DEF Goto, Where
  <2>2. QED
    BY <1>6, <1>7, <2>1, TypedIs DEF BaseInv, Moves
<1>9. /\ pc[p] = "append" /\ lock = Nobody /\ lock' = p
      /\ UNCHANGED <<dir, mailsize, closed, jobs, now>>
  BY <1>1 DEF AppendLock, Locks
<1>10. QED
  BY <1>1, <1>2, <1>4, <1>6, <1>8, <1>9

LEMMA AppendLockBase == ASSUME BaseInv, NEW p \in Procs, AppendLock(p) PROVE BaseInv'
<1>1. /\ lock = Nobody /\ lock' = p /\ Moves(p) /\ pc'[p] = "charge"
      /\ UNCHANGED <<dir, mailsize, closed, jobs, now>>
  BY AppendLockIs
<1>2. files' \subseteq Nat
  BY AppendLockIs, TypedIs DEF BaseInv
<1>3. "charge" \in Where \ {"calc", "count"} /\ "charge" \in Inside /\ "charge" \notin DeleteSteps
  BY DEF Where, Inside, DeleteSteps
<1>4. QED
  BY <1>1, <1>2, <1>3, KeepsIs, GoBase

LEMMA AppendFailsBase == ASSUME BaseInv, NEW p \in Procs, AppendFails(p) PROVE BaseInv'
<1>1. /\ lock = Nobody /\ Return(p)
      /\ UNCHANGED <<dir, files, lock, mailsize, closed, jobs, now>>
  BY DEF AppendFails
<1>2. QED
  BY <1>1, KeepsIs, Constants, ReturnBase

LEMMA ChargeBase == ASSUME BaseInv, NEW p \in Procs, Charge(p) PROVE BaseInv'
<1>1. /\ pc[p] = "charge" /\ Goto(p, "write")
      /\ mailsize' = IF NoLimit THEN mailsize ELSE update_mailsize_up(loc[p].mail)
      /\ UNCHANGED <<dir, files, lock, closed, jobs, now, loc>>
  BY DEF Charge
<1>2. mailsize' \in Numbers
  <2>1. mailsize \in Numbers /\ loc[p].mail \in Mail
    BY TypedIs DEF BaseInv
  <2>2. update_mailsize_up(loc[p].mail) \in Numbers
    BY <2>1, UpIs
  <2>3. QED
    BY <1>1, <2>1, <2>2
<1>3. "write" \in Where \ {"calc", "count"} /\ "write" \in Inside /\ "write" \notin DeleteSteps
      /\ lock = p
  BY <1>1, FitsIs DEF Where, Inside, DeleteSteps
<1>4. Moves(p) /\ pc'[p] = "write"
  BY <1>1, <1>3, GotoIs DEF BaseInv
<1>5. QED
  BY <1>1, <1>2, <1>3, <1>4, KeepsIs, GoBase

LEMMA RefuseBase == ASSUME BaseInv, NEW p \in Procs, Refuse(p) PROVE BaseInv'
<1>1. /\ pc[p] = "charge" /\ Return(p) /\ lock' = Nobody
      /\ UNCHANGED <<dir, files, mailsize, closed, jobs, now>>
  BY DEF Refuse
<1>2. lock = p
  BY <1>1, FitsIs DEF Inside
<1>3. QED
  BY <1>1, <1>2, KeepsIs, ReturnBase

LEMMA AppendWriteIs ==
    ASSUME BaseInv, NEW p \in Procs, AppendWrite(p)
    PROVE  /\ pc[p] = "write" /\ lock = p /\ lock' = Nobody /\ Moves(p) /\ pc'[p] = "body"
           /\ UNCHANGED <<files, mailsize, closed, jobs, now, loc>>
           /\ \E h \in Header : /\ h.filetime = loc[p].mail.filetime
                                /\ h.size = Rounded(loc[p].mail.length)
                                /\ dir' = Append(dir, h) /\ dir' \in Seq(Header)
                                /\ Len(dir') = Len(dir) + 1 /\ dir'[Len(dir) + 1] = h
                                /\ \A i \in 1..Len(dir) : dir'[i] = dir[i]
<1>1. /\ pc[p] = "write" /\ lock' = Nobody /\ Goto(p, "body")
      /\ UNCHANGED <<files, mailsize, closed, jobs, now, loc>>
      /\ dir' = Append(dir, [filetime |-> loc[p].mail.filetime,
                             size |-> Rounded(loc[p].mail.length),
                             marked |-> FALSE, del |-> FALSE])
  BY DEF AppendWrite
<1>2. "body" \in Where /\ lock = p
  BY <1>1, FitsIs DEF Where, Inside
<1>3. Moves(p) /\ pc'[p] = "body"
  BY <1>1, <1>2, GotoIs DEF BaseInv
<1>4. PICK h : h = [filetime |-> loc[p].mail.filetime, size |-> Rounded(loc[p].mail.length),
                    marked |-> FALSE, del |-> FALSE]
  OBVIOUS
<1>5. h \in Header /\ h.filetime = loc[p].mail.filetime /\ h.size = Rounded(loc[p].mail.length)
  <2>1. loc[p].mail \in Mail /\ loc[p].mail.filetime \in Nat
    BY TypedIs DEF BaseInv, Mail
  <2>2. Rounded(loc[p].mail.length) \in NumTable
    BY <2>1, WeightIs
  <2>3. QED
    BY <1>4, <2>1, <2>2 DEF Header
<1>6. dir \in Seq(Header) /\ dir' = Append(dir, h)
  BY <1>1, <1>4, TypedIs DEF BaseInv
<1>7. /\ dir' \in Seq(Header) /\ Len(dir') = Len(dir) + 1 /\ dir'[Len(dir) + 1] = h
      /\ \A i \in 1..Len(dir) : dir'[i] = dir[i]
  BY <1>5, <1>6, AppendProperties
<1>8. QED
  BY <1>1, <1>2, <1>3, <1>5, <1>6, <1>7

LEMMA AppendWriteBase == ASSUME BaseInv, NEW p \in Procs, AppendWrite(p) PROVE BaseInv'
<1>1. /\ lock = p /\ lock' = Nobody /\ Moves(p) /\ pc'[p] = "body"
      /\ UNCHANGED <<files, mailsize, closed, jobs, now, loc>> /\ dir' \in Seq(Header)
  BY AppendWriteIs
<1>2. "body" \in Where \ {"calc", "count"} /\ "body" \notin Inside /\ "body" \notin DeleteSteps
      /\ lock' # p
  BY <1>1, Constants DEF Where, Inside, DeleteSteps
<1>3. QED
  BY <1>1, <1>2, KeepsIs, GoBase

LEMMA SendBodyBase == ASSUME BaseInv, NEW p \in Procs, SendBody(p) PROVE BaseInv'
<1>1. /\ pc[p] = "body" /\ files' = files \cup {loc[p].mail.filetime} /\ Return(p)
      /\ UNCHANGED <<dir, lock, mailsize, closed, jobs, now>>
  BY DEF SendBody
<1>2. lock # p
  BY <1>1, FitsIs DEF Inside
<1>3. files' \subseteq Nat
  <2>1. loc[p].mail.filetime \in Nat /\ files \subseteq Nat
    BY TypedIs DEF BaseInv, Mail
  <2>2. QED
    BY <1>1, <2>1
<1>4. QED
  BY <1>1, <1>2, <1>3, KeepsIs, ReturnBase

-----------------------------------------------------------------------------
(* The owner's session. *)
LEMMA ViewIs ==
    ASSUME BaseInv, NEW p \in Procs, View(p)
    PROVE  /\ pc[p] = "idle" /\ Moves(p) /\ pc'[p] = "idle"
           /\ UNCHANGED <<dir, files, lock, mailsize, closed, jobs, now, pc>>
           /\ \E i \in DOMAIN dir : /\ loc'[p].list = <<[ent |-> i, fh |-> dir[i]]>>
                                    /\ loc'[p].todo = loc[p].todo
<1>1. PICK i \in DOMAIN dir : loc' = [loc EXCEPT ![p].list = <<[ent |-> i, fh |-> dir[i]]>>]
  BY DEF View
<1>2. pc[p] = "idle" /\ UNCHANGED <<dir, files, lock, mailsize, closed, jobs, now, pc>>
  BY DEF View, Does
<1>3. PICK s : s = <<[ent |-> i, fh |-> dir[i]]>>
  OBVIOUS
<1>4. s \in Seq(Line)
  <2>1. dir[i] \in Header /\ i \in Nat \ {0}
    BY TypedIs, HeaderIs DEF BaseInv
  <2>2. [ent |-> i, fh |-> dir[i]] \in Line
    BY <2>1 DEF Line
  <2>3. QED
    BY <1>3, <2>2
<1>5. PICK l : l = [loc[p] EXCEPT !.list = s]
  OBVIOUS
<1>6. l \in Locals /\ l.list = s /\ l.todo = loc[p].todo
  <2>1. loc[p] \in Locals
    BY TypedIs DEF BaseInv
  <2>2. l \in Locals
    BY <1>4, <1>5, <2>1, LocalsSet
  <2>3. QED
    BY <1>5, <2>1, <2>2 DEF Locals
<1>7. loc' = [loc EXCEPT ![p] = l]
  BY <1>1, <1>3, <1>5
<1>8. Moves(p) /\ pc'[p] = "idle" /\ loc'[p] = l
  BY <1>2, <1>6, <1>7, TypedIs DEF BaseInv, Moves
<1>9. QED
  BY <1>2, <1>3, <1>6, <1>8

LEMMA ViewBase == ASSUME BaseInv, NEW p \in Procs, View(p) PROVE BaseInv'
<1>1. /\ pc[p] = "idle" /\ Moves(p) /\ pc'[p] = "idle"
      /\ UNCHANGED <<dir, files, lock, mailsize, closed, jobs, now>>
  BY ViewIs
<1>2. lock # p
  BY <1>1, FitsIs DEF Inside
<1>3. QED
  BY <1>1, <1>2, IdleIs, KeepsIs, GoBase

LEMMA FlagsAre ==
    ASSUME NEW h \in Header, NEW f \in Flags
    PROVE  LET r == [h EXCEPT ![f] = ~@]
           IN  r \in Header /\ r.filetime = h.filetime /\ r.size = h.size
<1>1. f = "marked" \/ f = "del"
  BY MailboxAssumption
<1>2. CASE f = "marked"
  BY <1>2 DEF Header
<1>3. CASE f = "del"
  BY <1>3 DEF Header
<1>4. QED
  BY <1>1, <1>2, <1>3

LEMMA MarkIs ==
    ASSUME BaseInv, NEW p \in Procs, Mark(p)
    PROVE  /\ pc[p] = "idle" /\ "mark" \in jobs[p] /\ loc[p].list # <<>> /\ loc[p].list[1] \in Line
           /\ Return(p) /\ UNCHANGED <<files, lock, mailsize, closed, jobs, now>>
           /\ \E fh \in Header : /\ fh.filetime = loc[p].list[1].fh.filetime
                                 /\ fh.size = loc[p].list[1].fh.size
                                 /\ dir' = substitute_record(dir, fh, loc[p].list[1].ent, Hole)
<1>1. /\ pc[p] = "idle" /\ "mark" \in jobs[p] /\ loc[p].list # <<>>
      /\ Return(p) /\ UNCHANGED <<files, lock, mailsize, closed, jobs, now>>
  BY DEF Mark, Does
<1>2. PICK l : l = loc[p].list[1]
  OBVIOUS
<1>3. PICK fh \in {l.fh} \cup {[l.fh EXCEPT ![f] = ~@] : f \in Flags} :
         dir' = substitute_record(dir, fh, l.ent, Hole)
  BY <1>2 DEF Mark
<1>4. l \in Line
  <2>1. loc[p].list \in Seq(Line)
    BY TypedIs DEF BaseInv
  <2>2. QED
    BY <1>1, <1>2, <2>1, HeadIs
<1>5. PICK h : h = l.fh
  OBVIOUS
<1>6. h \in Header
  BY <1>4, <1>5 DEF Line
<1>7. fh \in Header /\ fh.filetime = h.filetime /\ fh.size = h.size
  <2>1. CASE fh = h
    BY <1>6, <2>1
  <2>2. CASE fh \in {[h EXCEPT ![f] = ~@] : f \in Flags}
    <3>1. PICK f \in Flags : fh = [h EXCEPT ![f] = ~@]
      BY <2>2
    <3>2. QED
      BY <1>6, <3>1, FlagsAre
  <2>3. fh = h \/ fh \in {[h EXCEPT ![f] = ~@] : f \in Flags}
    BY <1>3, <1>5
  <2>4. QED
    BY <2>1, <2>2, <2>3
<1>8. QED
  BY <1>1, <1>2, <1>3, <1>4, <1>5, <1>7

LEMMA MarkBase == ASSUME BaseInv, NEW p \in Procs, Mark(p) PROVE BaseInv'
<1>1. /\ pc[p] = "idle" /\ Return(p) /\ UNCHANGED <<files, lock, mailsize, closed, jobs, now>>
      /\ loc[p].list[1] \in Line
  BY MarkIs
<1>2. PICK fh \in Header : dir' = substitute_record(dir, fh, loc[p].list[1].ent, Hole)
  BY MarkIs
<1>3. PICK e : e = loc[p].list[1].ent
  OBVIOUS
<1>4. e \in Nat \ {0} /\ dir \in Seq(Header)
  BY <1>1, <1>3, TypedIs DEF BaseInv, Line
<1>5. dir' \in Seq(Header) /\ Len(dir') >= Len(dir)
  BY <1>2, <1>3, <1>4, SubstituteHas
<1>6. lock # p
  BY <1>1, FitsIs DEF Inside
<1>7. QED
  BY <1>1, <1>5, <1>6, KeepsIs, ReturnBase

LEMMA EditSaveIs ==
    ASSUME BaseInv, NEW p \in Procs, EditSave(p)
    PROVE  /\ pc[p] = "idle" /\ "edit" \in jobs[p] /\ Moves(p) /\ pc'[p] = "editlock"
           /\ loc'[p].list = loc[p].list /\ loc[p].list # <<>>
           /\ files' = files \cup {loc[p].list[1].fh.filetime} /\ files' \subseteq Nat
           /\ UNCHANGED <<dir, lock, mailsize, closed, jobs, now>>
<1>1. /\ pc[p] = "idle" /\ "edit" \in jobs[p] /\ loc[p].list # <<>>
      /\ files' = files \cup {loc[p].list[1].fh.filetime} /\ Goto(p, "editlock")
      /\ UNCHANGED <<dir, lock, mailsize, closed, jobs, now>>
  BY DEF EditSave, Does
<1>2. PICK n \in Lengths : loc' = [loc EXCEPT ![p].mail.length = n]
  BY DEF EditSave
<1>3. PICK m : m = [loc[p].mail EXCEPT !.length = n]
  OBVIOUS
<1>4. PICK l : l = [loc[p] EXCEPT !.mail = m]
  OBVIOUS
<1>5. l \in Locals /\ l.list = loc[p].list
  <2>1. loc[p] \in Locals /\ loc[p].mail \in Mail
    BY TypedIs DEF BaseInv
  <2>2. m \in Mail
    BY <1>3, <2>1, MailSet
  <2>3. l \in Locals
    BY <1>4, <2>1, <2>2, LocalsSet
  <2>4. QED
    BY <1>4, <2>1, <2>3 DEF Locals
<1>6. loc' = [loc EXCEPT ![p] = l]
  BY <1>2, <1>3, <1>4
<1>7. Moves(p) /\ pc'[p] = "editlock" /\ loc'[p] = l
  <2>1. pc' = [pc EXCEPT ![p] = "editlock"] /\ "editlock" \in Where
    BY <1>1 DEF Goto, Where
  <2>2. QED
    BY <1>5, <1>6, <2>1, TypedIs DEF BaseInv, Moves
<1>8. files' \subseteq Nat
  <2>1. loc[p].list \in Seq(Line) /\ files \subseteq Nat
    BY TypedIs DEF BaseInv
  <2>2. loc[p].list[1].fh.filetime \in Nat
    <3>1. PICK s : s = loc[p].list
      OBVIOUS
    <3>2. s \in Seq(Line) /\ s # <<>>
      BY <1>1, <2>1, <3>1
    <3>3. s[1].fh.filetime \in Nat
      BY <3>2, HeadIs
    <3>4. QED
      BY <3>1, <3>3
  <2>3. QED
    BY <1>1, <2>1, <2>2
<1>9. QED
  BY <1>1, <1>5, <1>7, <1>8

LEMMA EditSaveBase == ASSUME BaseInv, NEW p \in Procs, EditSave(p) PROVE BaseInv'
<1>1. /\ pc[p] = "idle" /\ "edit" \in jobs[p] /\ Moves(p) /\ pc'[p] = "editlock"
      /\ files' \subseteq Nat /\ loc'[p].list # <<>>
      /\ UNCHANGED <<dir, lock, mailsize, closed, jobs, now>>
  BY EditSaveIs
<1>2. "editlock" \in Where \ {"calc", "count"} /\ "editlock" \notin Inside
      /\ "editlock" \notin DeleteSteps /\ lock # p
  BY <1>1, FitsIs DEF Where, Inside, DeleteSteps
<1>3. QED
  BY <1>1, <1>2, KeepsIs, GoBase

LEMMA EditLockBase == ASSUME BaseInv, NEW p \in Procs, EditLock(p) PROVE BaseInv'
<1>1. /\ pc[p] = "editlock" /\ lock = Nobody /\ lock' = p /\ Goto(p, "resize")
      /\ UNCHANGED <<dir, files, mailsize, closed, jobs, now, loc>>
  BY DEF EditLock, Locks
<1>2. "resize" \in Where \ {"calc", "count"} /\ "resize" \in Inside /\ "resize" \notin DeleteSteps
      /\ "edit" \in jobs[p] /\ loc[p].list # <<>>
  BY <1>1, FitsIs DEF Where, Inside, DeleteSteps, Fits, HasJob, HasTodo
<1>3. Moves(p) /\ pc'[p] = "resize" /\ loc'[p] = loc[p]
  BY <1>1, <1>2, GotoIs DEF BaseInv
<1>4. QED
  BY <1>1, <1>2, <1>3, KeepsIs, GoBase

(* The line an edit has seen. *)
LEMMA EditLineIs ==
    ASSUME BaseInv, NEW p \in Procs, pc[p] = "resize"
    PROVE  loc[p].list # <<>> /\ loc[p].list[1] \in Line
<1>1. loc[p].list # <<>> /\ loc[p].list \in Seq(Line)
  BY FitsIs, TypedIs DEF Fits, HasTodo
<1>2. QED
  BY <1>1, HeadIs

LEMMA EditResizeBase == ASSUME BaseInv, NEW p \in Procs, EditResize(p) PROVE BaseInv'
<1>1. PICK i, new : i = Seen(p) /\ new = Rounded(loc[p].mail.length)
  OBVIOUS
<1>2. /\ pc[p] = "resize" /\ lock' = Nobody /\ Return(p)
      /\ dir' = [dir EXCEPT ![i].size = new] /\ i # 0
      /\ mailsize' = DIR_do_editmail(new, dir[i].size) \/ mailsize' = mailsize
      /\ UNCHANGED <<files, closed, jobs, now>>
  BY <1>1 DEF EditResize
<1>3. new \in NumTable /\ new \in Nat /\ dir \in Seq(Header) /\ mailsize \in Numbers /\ lock = p
  <2>1. loc[p].mail \in Mail /\ dir \in Seq(Header) /\ mailsize \in Numbers
    BY TypedIs DEF BaseInv
  <2>2. QED
    BY <1>1, <1>2, <2>1, WeightIs, Constants, FitsIs DEF Inside
<1>4. dir' \in Seq(Header)
  <2>1. PICK n : n = Len(dir)
    OBVIOUS
  <2>2. n \in Nat /\ dir \in [1..n -> Header]
    BY <1>3, <2>1
  <2>3. \A h \in Header : [h EXCEPT !.size = new] \in Header
    BY <1>3 DEF Header
  <2>4. dir' \in [1..n -> Header]
    BY <1>2, <2>2, <2>3
  <2>5. QED
    BY <2>2, <2>4
<1>5. mailsize' \in Numbers
  <2>1. loc[p].list[1] \in Line
    BY <1>2, FitsIs, EditLineIs
  <2>2. i \in DOMAIN dir
    BY <1>1, <1>2, <1>3, <2>1, SeenIs
  <2>3. dir[i].size \in Nat
    <3>1. dir[i].size \in NumTable \cup {0}
      BY <1>3, <2>2, HeaderIs
    <3>2. QED
      BY <3>1, Constants
  <2>4. DIR_do_editmail(new, dir[i].size) \in Numbers
    BY <1>3, <2>3, EditIs
  <2>5. QED
    BY <1>2, <1>3, <2>4
<1>6. QED
  BY <1>2, <1>3, <1>4, <1>5, KeepsIs, ReturnBase

LEMMA EditNotFoundBase == ASSUME BaseInv, NEW p \in Procs, EditNotFound(p) PROVE BaseInv'
<1>1. /\ pc[p] = "resize" /\ Return(p) /\ lock' = Nobody
      /\ UNCHANGED <<dir, files, mailsize, closed, jobs, now>>
  BY DEF EditNotFound
<1>2. lock = p
  BY <1>1, FitsIs DEF Inside
<1>3. QED
  BY <1>1, <1>2, KeepsIs, ReturnBase

-----------------------------------------------------------------------------
(* Deletions. *)
LEMMA AdvanceIs ==
    ASSUME Typed, NEW p \in Procs, Advance(p), loc[p].todo # <<>>
    PROVE  \/ Return(p)
           \/ /\ Moves(p) /\ pc'[p] = "dellock"
              /\ loc'[p].todo = Tail(loc[p].todo) /\ loc'[p].todo # <<>>
<1>1. CASE Len(loc[p].todo) = 1
  BY <1>1 DEF Advance
<1>2. CASE Len(loc[p].todo) # 1
  <2>1. pc' = [pc EXCEPT ![p] = "dellock"] /\ loc' = [loc EXCEPT ![p].todo = Tail(loc[p].todo)]
    BY <1>2 DEF Advance, Goto
  <2>2. PICK s : s = loc[p].todo
    OBVIOUS
  <2>3. s \in Seq(Line) /\ s # <<>> /\ loc[p] \in Locals /\ Len(s) # 1
    BY <1>2, <2>2, TypedIs
  <2>4. Tail(s) \in Seq(Line) /\ Tail(s) # <<>>
    BY <2>3, HeadIs
  <2>5. PICK t : t = Tail(s)
    OBVIOUS
  <2>6. PICK l : l = [loc[p] EXCEPT !.todo = t]
    OBVIOUS
  <2>7. l \in Locals /\ l.todo = t
    <3>1. l \in Locals
      BY <2>3, <2>4, <2>5, <2>6, LocalsSet
    <3>2. QED
      BY <2>3, <2>6, <3>1 DEF Locals
  <2>8. loc' = [loc EXCEPT ![p] = l] /\ "dellock" \in Where
    BY <2>1, <2>2, <2>5, <2>6 DEF Where
  <2>9. Moves(p) /\ pc'[p] = "dellock" /\ loc'[p] = l
    BY <2>1, <2>7, <2>8, TypedIs DEF Moves
  <2>10. QED
    BY <2>2, <2>4, <2>5, <2>7, <2>9
<1>3. QED
  BY <1>1, <1>2

LEMMA DellockIs == "dellock" \in Where \ {"calc", "count"} /\ "dellock" \notin Inside
BY DEF Where, Inside

LEMMA AdvanceBase ==
    ASSUME BaseInv, NEW p \in Procs, Advance(p), pc[p] \in {"remove", "unlink"},
           dir' \in Seq(Header), files' \subseteq Nat, mailsize' \in Numbers,
           UNCHANGED <<closed, jobs, now>>,
           (lock # p /\ lock' = lock) \/ (lock = p /\ lock' = Nobody),
           Len(dir') >= Len(dir) \/ lock = p
    PROVE  BaseInv'
<1>1. Aim(p) = pc[p] /\ loc[p].todo # <<>> /\ jobs[p] \cap DeleteJobs # {}
  BY FitsIs DEF Fits, HasTodo, HasJob, DeleteSteps
<1>2. CASE Return(p)
  BY <1>2, ReturnBase
<1>3. CASE Moves(p) /\ pc'[p] = "dellock" /\ loc'[p].todo # <<>>
  <2>1. lock' # p
    BY Constants
  <2>2. QED
    BY <1>1, <1>3, <2>1, DellockIs, GoBase
<1>4. QED
  BY <1>1, <1>2, <1>3, AdvanceIs DEF BaseInv

LEMMA DelLockBase == ASSUME BaseInv, NEW p \in Procs, DelLock(p) PROVE BaseInv'
<1>1. /\ pc[p] = "dellock" /\ lock = Nobody /\ lock' = p /\ Goto(p, "remove")
      /\ UNCHANGED <<dir, files, mailsize, closed, jobs, now, loc>>
  BY DEF DelLock, Locks
<1>2. "remove" \in Where \ {"calc", "count"} /\ "remove" \in Inside
      /\ jobs[p] \cap DeleteJobs # {} /\ loc[p].todo # <<>>
  BY <1>1, FitsIs DEF Where, Inside, DeleteSteps, Fits, HasJob, HasTodo
<1>3. Moves(p) /\ pc'[p] = "remove" /\ loc'[p] = loc[p]
  BY <1>1, <1>2, GotoIs DEF BaseInv
<1>4. QED
  BY <1>1, <1>2, <1>3, KeepsIs, GoBase

(* The line to be deleted. *)
LEMMA VictimIs ==
    ASSUME BaseInv, NEW p \in Procs, pc[p] \in {"remove", "unlink"}
    PROVE  /\ loc[p].todo # <<>> /\ Head(loc[p].todo) \in Line /\ Victim(p) \in Nat
           /\ jobs[p] \cap DeleteJobs # {} /\ Aim(p) = pc[p]
<1>1. loc[p].todo # <<>> /\ loc[p].todo \in Seq(Line) /\ jobs[p] \cap DeleteJobs # {} /\ Aim(p) = pc[p]
  BY FitsIs, TypedIs DEF Fits, HasTodo, HasJob, DeleteSteps
<1>2. PICK s : s = loc[p].todo
  OBVIOUS
<1>3. Head(s) \in Line /\ Head(s).fh.filetime \in Nat
  BY <1>1, <1>2, HeadIs
<1>4. QED
  BY <1>1, <1>2, <1>3 DEF Victim

LEMMA DelRemoveIs ==
    ASSUME BaseInv, NEW p \in Procs, DelRemove(p)
    PROVE  /\ pc[p] = "remove" /\ lock = p /\ lock' = Nobody
           /\ Moves(p) /\ pc'[p] = "unlink" /\ loc' = loc
           /\ UNCHANGED <<files, closed, jobs, now>> /\ (~NoLimit => mailsize # -2)
           /\ \E i \in DOMAIN dir : /\ dir[i].filetime = Victim(p)
                                    /\ mailsize' = update_mailsize_down(mailsize, dir[i])
                                    /\ dir' = Without(dir, {i}) /\ dir' \in Seq(Header)
<1>1. PICK i : i = Found(p)
  OBVIOUS
<1>2. /\ pc[p] = "remove" /\ lock' = Nobody /\ Goto(p, "unlink") /\ i # 0
      /\ mailsize' = update_mailsize_down(mailsize, dir[i]) /\ dir' = RemoveAt(dir, i)
      /\ UNCHANGED <<files, closed, jobs, now, loc>> /\ (~NoLimit => mailsize # -2)
  BY <1>1 DEF DelRemove
<1>3. lock = p /\ "unlink" \in Where /\ Head(loc[p].todo) \in Line /\ dir \in Seq(Header)
  BY <1>2, FitsIs, VictimIs, TypedIs DEF Inside, Where
<1>4. i \in DOMAIN dir /\ dir[i].filetime = Victim(p)
  BY <1>1, <1>2, <1>3, FoundIs
<1>5. dir' = Without(dir, {i}) /\ Without(dir, {i}) \in Seq(Header)
  BY <1>2, <1>3, <1>4, RemoveIs, WithoutHas
<1>6. Moves(p) /\ pc'[p] = "unlink"
  BY <1>2, <1>3, GotoIs DEF BaseInv
<1>7. QED
  BY <1>2, <1>3, <1>4, <1>5, <1>6

LEMMA UnlinkIs == "unlink" \in Where \ {"calc", "count"} /\ "unlink" \notin Inside
BY DEF Where, Inside

LEMMA DelRemoveBase == ASSUME BaseInv, NEW p \in Procs, DelRemove(p) PROVE BaseInv'
<1>1. /\ pc[p] = "remove" /\ lock = p /\ lock' = Nobody /\ Moves(p) /\ pc'[p] = "unlink"
      /\ loc' = loc /\ UNCHANGED <<files, closed, jobs, now>> /\ dir' \in Seq(Header)
  BY DelRemoveIs
<1>2. PICK i \in DOMAIN dir : mailsize' = update_mailsize_down(mailsize, dir[i])
  BY DelRemoveIs
<1>3. mailsize' \in Numbers
  <2>1. dir \in Seq(Header) /\ mailsize \in Numbers /\ dir[i] \in Header
    BY <1>2, TypedIs DEF BaseInv
  <2>2. QED
    BY <1>2, <2>1, DownIs
<1>4. lock' # p /\ loc'[p].todo # <<>> /\ jobs[p] \cap DeleteJobs # {}
  BY <1>1, VictimIs, Constants
<1>5. QED
  BY <1>1, <1>3, <1>4, UnlinkIs, KeepsIs, GoBase

LEMMA DelMissesBase == ASSUME BaseInv, NEW p \in Procs, DelMisses(p) PROVE BaseInv'
<1>1. /\ pc[p] = "remove" /\ lock' = Nobody /\ Goto(p, "unlink") /\ Found(p) # 0
      /\ dir' = Front(dir) /\ UNCHANGED <<files, mailsize, closed, jobs, now, loc>>
  BY DEF DelMisses
<1>2. /\ lock = p /\ lock' # p /\ "unlink" \in Where /\ Head(loc[p].todo) \in Line
      /\ loc[p].todo # <<>> /\ dir \in Seq(Header) /\ jobs[p] \cap DeleteJobs # {}
  BY <1>1, FitsIs, VictimIs, TypedIs, Constants DEF Inside, Where
<1>3. Found(p) \in DOMAIN dir
  BY <1>1, <1>2, FoundIs
<1>4. dir # <<>>
  BY <1>2, <1>3
<1>5. dir' \in Seq(Header)
  BY <1>1, <1>2, <1>4, FrontHas
<1>6. Moves(p) /\ pc'[p] = "unlink" /\ loc'[p].todo # <<>>
  BY <1>1, <1>2, GotoIs DEF BaseInv
<1>7. QED
  BY <1>1, <1>2, <1>5, <1>6, UnlinkIs, KeepsIs, GoBase

LEMMA DelNotFoundBase == ASSUME BaseInv, NEW p \in Procs, DelNotFound(p) PROVE BaseInv'
<1>1. /\ pc[p] = "remove" /\ Advance(p) /\ lock' = Nobody
      /\ UNCHANGED <<dir, files, mailsize, closed, jobs, now>>
  BY DEF DelNotFound
<1>2. lock = p
  BY <1>1, FitsIs DEF Inside
<1>3. QED
  BY <1>1, <1>2, KeepsIs, AdvanceBase

LEMMA DelDiesBase == ASSUME BaseInv, NEW p \in Procs, DelDies(p) PROVE BaseInv'
<1>1. /\ pc[p] = "remove" /\ Return(p) /\ lock' = Nobody
      /\ UNCHANGED <<dir, files, mailsize, closed, jobs, now>>
  BY DEF DelDies
<1>2. lock = p
  BY <1>1, FitsIs DEF Inside
<1>3. QED
  BY <1>1, <1>2, KeepsIs, ReturnBase

LEMMA DelUnlinkBase == ASSUME BaseInv, NEW p \in Procs, DelUnlink(p) PROVE BaseInv'
<1>1. /\ pc[p] = "unlink" /\ Advance(p)
      /\ UNCHANGED <<dir, lock, mailsize, closed, jobs, now>>
  BY DEF DelUnlink
<1>2. lock # p
  BY <1>1, FitsIs DEF Inside
<1>3. files' \subseteq Nat
  BY TypedIs DEF DelUnlink, BaseInv
<1>4. QED
  BY <1>1, <1>2, <1>3, KeepsIs, AdvanceBase

-----------------------------------------------------------------------------
(* The POP3 daemon. *)
LEMMA PopIs ==
    /\ "pop" \in Where \ {"calc", "count"} /\ "pop" \notin Inside /\ "login" \notin Inside
BY DEF Where, Inside

LEMMA PopJobIs ==
    ASSUME BaseInv, NEW p \in Procs, pc[p] \in {"login", "pop"}
    PROVE  jobs[p] \cap DeleteJobs # {} /\ lock # p
BY FitsIs, PopIs DEF Fits, HasJob, DeleteSteps

(* A process of the daemon that stays at its client. *)
(* The POP3 daemon reads the index, or marks lines. *)
Pops(p) == /\ pc[p] \in {"login", "pop"} /\ Moves(p) /\ pc'[p] = "pop"
           /\ UNCHANGED <<dir, files, lock, mailsize, closed, jobs, now>>

LEMMA PopsIs ==
    ASSUME Typed, NEW p \in Procs, pc[p] \in {"login", "pop"}, NEW l \in Locals,
           pc' = [pc EXCEPT ![p] = "pop"], loc' = [loc EXCEPT ![p] = l],
           UNCHANGED <<dir, files, lock, mailsize, closed, jobs, now>>
    PROVE  Pops(p)
BY PopIs, TypedIs DEF Moves, Pops

LEMMA PopBase == ASSUME BaseInv, NEW p \in Procs, Pops(p) PROVE BaseInv'
<1>1. /\ pc[p] \in {"login", "pop"} /\ Moves(p) /\ pc'[p] = "pop"
      /\ UNCHANGED <<dir, files, lock, mailsize, closed, jobs, now>>
  BY DEF Pops
<1>2. QED
  BY <1>1, PopIs, PopJobIs, KeepsIs, GoBase

LEMMA Login_initIs == ASSUME BaseInv, NEW p \in Procs, Login_init(p) PROVE Pops(p)
<1>1. PICK s : s = [i \in DOMAIN dir |-> [ent |-> i, fh |-> dir[i]]]
  OBVIOUS
<1>2. /\ pc[p] = "login" /\ pc' = [pc EXCEPT ![p] = "pop"] /\ loc' = [loc EXCEPT ![p].list = s]
      /\ UNCHANGED <<dir, files, lock, mailsize, closed, jobs, now>>
  BY <1>1 DEF Login_init, Goto
<1>3. s \in Seq(Line)
  <2>1. PICK n : n = Len(dir)
    OBVIOUS
  <2>2. n \in Nat /\ DOMAIN dir = 1..n /\ \A i \in 1..n : dir[i] \in Header
    BY <2>1, TypedIs, HeaderIs DEF BaseInv
  <2>3. \A i \in 1..n : [ent |-> i, fh |-> dir[i]] \in Line
    BY <2>2 DEF Line
  <2>4. s \in [1..n -> Line]
    BY <1>1, <2>2, <2>3
  <2>5. QED
    BY <2>2, <2>4
<1>4. PICK l : l = [loc[p] EXCEPT !.list = s]
  OBVIOUS
<1>5. l \in Locals
  BY <1>3, <1>4, TypedIs, LocalsSet DEF BaseInv
<1>6. loc' = [loc EXCEPT ![p] = l]
  BY <1>2, <1>4
<1>7. QED
  BY <1>2, <1>5, <1>6, PopsIs DEF BaseInv

LEMMA DeleIs == ASSUME BaseInv, NEW p \in Procs, Dele(p) PROVE Pops(p)
<1>1. PICK i \in DOMAIN loc[p].list \ loc[p].dele :
         loc' = [loc EXCEPT ![p].dele = loc[p].dele \cup {i}]
  BY DEF Dele
<1>2. pc[p] = "pop" /\ UNCHANGED <<dir, files, lock, mailsize, closed, jobs, now, pc>>
  BY DEF Dele
<1>3. pc' = [pc EXCEPT ![p] = "pop"]
  BY <1>2, TypedIs DEF BaseInv
<1>4. PICK s, v : s = loc[p].dele \cup {i} /\ v = loc[p].list
  OBVIOUS
<1>5. s \in SUBSET Nat
  <2>1. v \in Seq(Line) /\ loc[p].dele \subseteq Nat
    BY <1>4, TypedIs DEF BaseInv
  <2>2. i \in DOMAIN v /\ DOMAIN v = 1..Len(v)
    BY <1>1, <1>4, <2>1
  <2>3. i \in Nat
    BY <2>1, <2>2
  <2>4. QED
    BY <1>4, <2>1, <2>3
<1>6. PICK l : l = [loc[p] EXCEPT !.dele = s]
  OBVIOUS
<1>7. l \in Locals
  BY <1>5, <1>6, TypedIs, LocalsSet DEF BaseInv
<1>8. loc' = [loc EXCEPT ![p] = l]
  BY <1>1, <1>4, <1>6
<1>9. QED
  BY <1>2, <1>3, <1>7, <1>8, PopsIs DEF BaseInv

LEMMA RsetIs == ASSUME BaseInv, NEW p \in Procs, Rset(p) PROVE Pops(p)
<1>1. /\ pc[p] = "pop" /\ UNCHANGED <<dir, files, lock, mailsize, closed, jobs, now, pc>>
      /\ loc' = [loc EXCEPT ![p].dele = {}]
  BY DEF Rset
<1>2. pc' = [pc EXCEPT ![p] = "pop"]
  BY <1>1, TypedIs DEF BaseInv
<1>3. PICK l : l = [loc[p] EXCEPT !.dele = {}]
  OBVIOUS
<1>4. l \in Locals
  BY <1>3, TypedIs, LocalsSet DEF BaseInv
<1>5. loc' = [loc EXCEPT ![p] = l]
  BY <1>1, <1>3
<1>6. QED
  BY <1>1, <1>2, <1>4, <1>5, PopsIs DEF BaseInv

LEMMA QuitIs ==
    ASSUME BaseInv, NEW p \in Procs, Quit(p)
    PROVE  /\ pc[p] = "pop" /\ UNCHANGED <<dir, files, lock, mailsize, closed, jobs, now>>
           /\ \/ Return(p)
              \/ Moves(p) /\ pc'[p] = "dellock" /\ loc'[p].todo # <<>>
<1>1. PICK g : g = Without(loc[p].list, {i \in DOMAIN loc[p].list : Skips(loc[p].list[i])})
  OBVIOUS
<1>2. /\ pc[p] = "pop" /\ UNCHANGED <<dir, files, lock, mailsize, closed, jobs, now>>
      /\ IF loc[p].dele # {} /\ g # <<>>
         THEN Goto(p, "dellock") /\ loc' = [loc EXCEPT ![p].todo = g]
         ELSE Return(p)
  BY <1>1 DEF Quit
<1>3. g \in Seq(Line)
  <2>1. PICK s, x : s = loc[p].list /\ x = {i \in DOMAIN loc[p].list : Skips(loc[p].list[i])}
    OBVIOUS
  <2>2. s \in Seq(Line)
    BY <2>1, TypedIs DEF BaseInv
  <2>3. Without(s, x) \in Seq(Line)
    BY <2>2, WithoutHas
  <2>4. QED
    BY <1>1, <2>1, <2>3
<1>4. ASSUME g # <<>>, Goto(p, "dellock"), loc' = [loc EXCEPT ![p].todo = g]
      PROVE  Moves(p) /\ pc'[p] = "dellock" /\ loc'[p].todo # <<>>
  <2>1. PICK l : l = [loc[p] EXCEPT !.todo = g]
    OBVIOUS
  <2>2. l \in Locals /\ l.todo = g
    <3>1. loc[p] \in Locals
      BY TypedIs DEF BaseInv
    <3>2. l \in Locals
      BY <1>3, <2>1, <3>1, LocalsSet
    <3>3. QED
      BY <2>1, <3>1, <3>2 DEF Locals
  <2>3. loc' = [loc EXCEPT ![p] = l] /\ pc' = [pc EXCEPT ![p] = "dellock"] /\ "dellock" \in Where
    BY <1>4, <2>1, DellockIs DEF Goto
  <2>4. Moves(p) /\ pc'[p] = "dellock" /\ loc'[p] = l
    BY <2>2, <2>3, TypedIs DEF BaseInv, Moves
  <2>5. QED
    BY <1>4, <2>2, <2>4
<1>5. QED
  BY <1>2, <1>4

LEMMA QuitBase == ASSUME BaseInv, NEW p \in Procs, Quit(p) PROVE BaseInv'
<1>1. pc[p] = "pop" /\ UNCHANGED <<dir, files, lock, mailsize, closed, jobs, now>>
  BY QuitIs
<1>2. lock # p /\ jobs[p] \cap DeleteJobs # {}
  BY <1>1, PopJobIs
<1>3. CASE Return(p)
  BY <1>1, <1>2, <1>3, KeepsIs, ReturnBase
<1>4. CASE Moves(p) /\ pc'[p] = "dellock" /\ loc'[p].todo # <<>>
  BY <1>1, <1>2, <1>4, DellockIs, KeepsIs, GoBase
<1>5. QED
  BY <1>3, <1>4, QuitIs

-----------------------------------------------------------------------------
(* Deletion in one pass. *)
LEMMA SweepLockIs ==
    ASSUME BaseInv, NEW p \in Procs, SweepLock(p)
    PROVE  /\ pc[p] = "sweeplock" /\ lock = Nobody /\ lock' = p /\ Moves(p) /\ pc'[p] = "sweep"
           /\ loc'[p].read = dir /\ loc'[p].sel = loc[p].sel /\ loc'[p].at = loc[p].at
           /\ UNCHANGED <<dir, files, mailsize, closed, jobs, now>>
<1>1. /\ pc[p] = "sweeplock" /\ lock = Nobody /\ lock' = p
      /\ loc' = [loc EXCEPT ![p].read = dir] /\ pc' = [pc EXCEPT ![p] = "sweep"]
      /\ UNCHANGED <<dir, files, mailsize, closed, jobs, now>>
  BY DEF SweepLock, Locks, Goto
<1>2. PICK l : l = [loc[p] EXCEPT !.read = dir]
  OBVIOUS
<1>3. l \in Locals /\ l.read = dir /\ l.sel = loc[p].sel /\ l.at = loc[p].at
  <2>1. loc[p] \in Locals /\ dir \in Seq(Header)
    BY TypedIs DEF BaseInv
  <2>2. l \in Locals
    BY <1>2, <2>1, LocalsSet
  <2>3. QED
    BY <1>2, <2>1, <2>2 DEF Locals
<1>4. loc' = [loc EXCEPT ![p] = l] /\ "sweep" \in Where
  BY <1>1, <1>2 DEF Where
<1>5. Moves(p) /\ pc'[p] = "sweep" /\ loc'[p] = l
  BY <1>1, <1>3, <1>4, TypedIs DEF BaseInv, Moves
<1>6. QED
  BY <1>1, <1>3, <1>5

LEMMA SweepIs ==
    /\ "sweep" \in Where \ {"calc", "count"} /\ "sweep" \in Inside /\ "sweep" \in DeleteSteps
    /\ "sweeplock" \in DeleteSteps /\ "sweeplock" \notin Inside
BY DEF Where, Inside, DeleteSteps

LEMMA SweepLockBase == ASSUME BaseInv, NEW p \in Procs, SweepLock(p) PROVE BaseInv'
<1>1. /\ pc[p] = "sweeplock" /\ lock = Nobody /\ lock' = p /\ Moves(p) /\ pc'[p] = "sweep"
      /\ loc'[p].read = dir
      /\ UNCHANGED <<dir, files, mailsize, closed, jobs, now>>
  BY SweepLockIs
<1>2. jobs[p] \cap DeleteJobs # {}
  BY <1>1, FitsIs, SweepIs DEF Fits, HasJob
<1>3. Len(loc'[p].read) <= Len(dir')
  <2>1. Len(dir) \in Nat
    BY TypedIs, HeaderIs DEF BaseInv
  <2>2. QED
    BY <1>1, <2>1
<1>4. QED
  BY <1>1, <1>2, <1>3, SweepIs, KeepsIs, GoBase

LEMMA SweepOneIs ==
    ASSUME BaseInv, NEW p \in Procs, SweepOne(p)
    PROVE  /\ pc[p] = "sweep" /\ lock = p /\ Moves(p) /\ pc'[p] = "sweep"
           /\ UNCHANGED <<dir, lock, closed, jobs, now, pc>>
           /\ loc'[p].read = loc[p].read /\ loc'[p].sel = loc[p].sel
           /\ \E i \in Ahead(p) :
                /\ \A j \in Ahead(p) : i <= j
                /\ \/ /\ ~NoLimit => mailsize # -2
                      /\ mailsize' = update_mailsize_down(mailsize, loc[p].read[i])
                   \/ Misses /\ mailsize' = mailsize
                /\ files' = files \ {loc[p].read[i].filetime}
                /\ loc'[p].at = i /\ i \in DOMAIN loc[p].read /\ i \in Nat
                /\ loc[p].read[i] \in Header
<1>1. PICK i \in Ahead(p) :
         /\ \A j \in Ahead(p) : i <= j
         /\ \/ /\ ~NoLimit => mailsize # -2
               /\ mailsize' = update_mailsize_down(mailsize, loc[p].read[i])
            \/ Misses /\ mailsize' = mailsize
         /\ files' = files \ {loc[p].read[i].filetime}
         /\ loc' = [loc EXCEPT ![p].at = i]
  BY DEF SweepOne
<1>2. pc[p] = "sweep" /\ UNCHANGED <<dir, lock, closed, jobs, now, pc>>
  BY DEF SweepOne
<1>3. i \in DOMAIN loc[p].read
  BY DEF Ahead, Selected
<1>4. i \in Nat /\ loc[p].read[i] \in Header
  <2>1. loc[p].read \in Seq(Header)
    BY TypedIs DEF BaseInv
  <2>2. QED
    BY <1>3, <2>1
<1>5. PICK l : l = [loc[p] EXCEPT !.at = i]
  OBVIOUS
<1>6. l \in Locals /\ l.at = i /\ l.read = loc[p].read /\ l.sel = loc[p].sel
  <2>1. loc[p] \in Locals
    BY TypedIs DEF BaseInv
  <2>2. l \in Locals
    BY <1>4, <1>5, <2>1, LocalsSet
  <2>3. QED
    BY <1>5, <2>1, <2>2 DEF Locals
<1>7. loc' = [loc EXCEPT ![p] = l]
  BY <1>1, <1>5
<1>8. Moves(p) /\ pc'[p] = "sweep" /\ loc'[p] = l
  BY <1>2, <1>6, <1>7, TypedIs DEF BaseInv, Moves
<1>9. lock = p
  BY <1>2, FitsIs, SweepIs
<1>10. QED
  BY <1>1, <1>2, <1>3, <1>4, <1>6, <1>8, <1>9

LEMMA SweepOneBase == ASSUME BaseInv, NEW p \in Procs, SweepOne(p) PROVE BaseInv'
<1>1. /\ pc[p] = "sweep" /\ lock = p /\ Moves(p) /\ pc'[p] = "sweep"
      /\ UNCHANGED <<dir, lock, closed, jobs, now, pc>>
      /\ loc'[p].read = loc[p].read
  BY SweepOneIs
<1>2. PICK i : /\ \/ mailsize' = update_mailsize_down(mailsize, loc[p].read[i])
                  \/ mailsize' = mailsize
               /\ files' = files \ {loc[p].read[i].filetime} /\ loc[p].read[i] \in Header
  BY SweepOneIs
<1>3. mailsize' \in Numbers /\ files' \subseteq Nat
  <2>1. dir \in Seq(Header) /\ mailsize \in Numbers /\ files \subseteq Nat
    BY TypedIs DEF BaseInv
  <2>2. update_mailsize_down(mailsize, loc[p].read[i]) \in Numbers
    BY <1>2, <2>1, DownIs
  <2>3. QED
    BY <1>2, <2>1, <2>2
<1>4. Len(loc'[p].read) <= Len(dir') /\ jobs[p] \cap DeleteJobs # {}
  BY <1>1, FitsIs, SweepIs DEF Fits, ReadFits, HasJob
<1>5. QED
  BY <1>1, <1>3, <1>4, SweepIs, KeepsIs, GoBase

LEMMA SweepEndIs ==
    ASSUME BaseInv, NEW p \in Procs, SweepEnd(p)
    PROVE  /\ pc[p] = "sweep" /\ Ahead(p) = {} /\ lock = p /\ lock' = Nobody /\ Return(p)
           /\ UNCHANGED <<files, mailsize, closed, jobs, now>>
           /\ dir' = Rewritten(dir, loc[p].read, Selected(p)) /\ dir' \in Seq(Header)
           /\ \A i \in DOMAIN loc[p].read \ Selected(p) :
                 dir[i].filetime = loc[p].read[i].filetime => dir[i].filetime \in Names(dir')
<1>1. /\ pc[p] = "sweep" /\ Ahead(p) = {} /\ lock' = Nobody /\ Return(p)
      /\ UNCHANGED <<files, mailsize, closed, jobs, now>>
      /\ dir' = Rewritten(dir, loc[p].read, Selected(p))
  BY DEF SweepEnd
<1>2. lock = p /\ dir \in Seq(Header) /\ loc[p].read \in Seq(Header) /\ Len(loc[p].read) <= Len(dir)
  BY <1>1, FitsIs, TypedIs, SweepIs DEF Fits, ReadFits
<1>3. PICK r, g : r = loc[p].read /\ g = Selected(p)
  OBVIOUS
<1>4. g \subseteq DOMAIN r
  BY <1>3 DEF Selected
<1>5. /\ Rewritten(dir, r, g) \in Seq(Header)
      /\ \A i \in DOMAIN r \ g : dir[i].filetime = r[i].filetime
             => dir[i].filetime \in Names(Rewritten(dir, r, g))
  BY <1>2, <1>3, <1>4, RewrittenHas
<1>6. QED
  BY <1>1, <1>2, <1>3, <1>5

LEMMA SweepEndBase == ASSUME BaseInv, NEW p \in Procs, SweepEnd(p) PROVE BaseInv'
<1>1. /\ lock = p /\ lock' = Nobody /\ Return(p) /\ dir' \in Seq(Header)
      /\ UNCHANGED <<files, mailsize, closed, jobs, now>>
  BY SweepEndIs
<1>2. QED
  BY <1>1, KeepsIs, ReturnBase

-----------------------------------------------------------------------------
(***************************************************************************)
(* Every step keeps BaseInv.                                               *)
(***************************************************************************)
Acts(p) ==
    \/ Step(p)
    \/ AskSize(p) \/ FixMailsize(p) \/ Send(p)
    \/ View(p) \/ Mark(p) \/ EditSave(p) \/ MailDel(p)
    \/ PopLogin(p) \/ Login_init(p) \/ Dele(p) \/ Rset(p) \/ Quit(p)
    \/ DelRange(p) \/ bbsdelmail(p)

LEMMA NextIs == Next <=> Tick \/ \E p \in Procs : Acts(p)
BY DEF Next, Acts

LEMMA StepBase == ASSUME BaseInv, NEW p \in Procs, Step(p) PROVE BaseInv'
<1>1. CASE Deliver(p)
  BY <1>1, AppendLockBase, AppendFailsBase, ChargeBase, RefuseBase, AppendWriteBase,
     SendBodyBase DEF Deliver
<1>2. CASE Count(p)
  BY <1>2, CalcLockBase, CalcWriteBase, RecountBase DEF Count
<1>3. CASE Edit(p)
  BY <1>3, EditLockBase, EditResizeBase, EditNotFoundBase DEF Edit
<1>4. CASE Delete(p)
  BY <1>4, DelLockBase, DelRemoveBase, DelMissesBase, DelNotFoundBase, DelDiesBase,
     DelUnlinkBase DEF Delete
<1>5. CASE Sweep(p)
  BY <1>5, SweepLockBase, SweepOneBase, SweepEndBase DEF Sweep
<1>6. QED
  BY <1>1, <1>2, <1>3, <1>4, <1>5 DEF Step

LEMMA ActsBase == ASSUME BaseInv, NEW p \in Procs, Acts(p) PROVE BaseInv'
BY StepBase, AskSizeBase, FixMailsizeBase, SendBase, ViewBase, MarkBase, EditSaveBase,
   MailDelBase, PopLoginBase, Login_initIs, DeleIs, RsetIs, PopBase, QuitBase, DelRangeBase,
   bbsdelmailBase DEF Acts

LEMMA InitBase == Init => BaseInv
<1>1. SUFFICES ASSUME Init PROVE BaseInv
  OBVIOUS
<1>2. /\ dir \in Seq(Header) /\ files \subseteq Nat /\ lock \in Procs \cup {Nobody}
      /\ closed \in BOOLEAN /\ jobs \in Casts
  BY <1>1 DEF Init
<1>3. mailsize \in Numbers /\ now \in 1..MaxTime
  <2>1. mailsize \in {0, -2} /\ now = 1
    BY <1>1 DEF Init
  <2>2. QED
    BY <2>1, Constants DEF Numbers
<1>4. /\ pc \in [Procs -> Where] /\ loc \in [Procs -> Locals]
      /\ \A p \in Procs : pc[p] = "idle" /\ loc[p] = NoLocals
  BY <1>1, NoLocalsIs, IdleIs DEF Init
<1>5. ASSUME NEW p \in Procs
      PROVE  /\ loc[p].back \in Where
             /\ loc[p].mail \in [call : AllCalls, sysmail : BOOLEAN,
                                 length : Lengths \cup {1, 1024}, filetime : Nat]
             /\ loc[p].list \in Seq(Line) /\ loc[p].todo \in Seq(Line)
             /\ loc[p].read \in Seq(Header)
  BY <1>4, LocalsIs DEF Mail
<1>6. Typed
  BY <1>2, <1>3, <1>4, <1>5 DEF Typed, TypeOK, Numbers
<1>7. ASSUME NEW p \in Procs PROVE Fits(p)
  <2>1. pc[p] = "idle" /\ Aim(p) = "idle" /\ lock # p
    BY <1>1, <1>4, Constants DEF Aim, Init
  <2>2. QED
    BY <2>1 DEF Fits, HoldsLock, HasTodo, HasJob, ReadFits, GoesBack, Inside, DeleteSteps
<1>8. QED
  BY <1>6, <1>7 DEF BaseInv

LEMMA NextBase == BaseInv /\ [Next]_vars => BaseInv'
<1>1. SUFFICES ASSUME BaseInv, [Next]_vars PROVE BaseInv'
  OBVIOUS
<1>2. CASE Tick
  BY <1>1, <1>2, TickBase
<1>3. ASSUME NEW p \in Procs, Acts(p) PROVE BaseInv'
  BY <1>1, <1>3, ActsBase
<1>4. CASE UNCHANGED vars
  <2>1. UNCHANGED <<dir, files, lock, mailsize, closed, jobs, now, pc, loc>>
    BY <1>4 DEF vars
  <2>2. Typed'
    BY <1>1, <2>1 DEF BaseInv, Typed, TypeOK
  <2>3. ASSUME NEW q \in Procs PROVE Fits(q)'
    <3>1. Aim(q)' = Aim(q) /\ Fits(q)
      BY <1>1, <2>1 DEF Aim, BaseInv
    <3>2. QED
      BY <2>1, <3>1 DEF Fits, HoldsLock, HasTodo, HasJob, ReadFits, GoesBack
  <2>4. QED
    BY <2>2, <2>3 DEF BaseInv
<1>5. QED
  BY <1>1, <1>2, <1>3, <1>4, NextIs

LEMMA BaseAlways == Spec => []BaseInv
BY InitBase, NextBase, PTL DEF Spec

(* Types: whatever the processes do, the numbers of a mailbox stay in      *)
(* their range; the counter of the account is a short.                     *)
THEOREM MailboxTyped == Spec => []TypeOK
<1>1. BaseInv => TypeOK
  BY DEF BaseInv, Typed
<1>2. QED
  BY <1>1, BaseAlways, PTL

-----------------------------------------------------------------------------
(***************************************************************************)
(* How a line gets lost.                                                   *)
(***************************************************************************)
Loses(p, t) ==
    \/ lock = p /\ t \in Removing(p)
    \/ pc[p] = "remove" /\ pc'[p] = "unlink" /\ t = Last(dir).filetime
    \/ /\ pc[p] = "idle" /\ loc[p].list # <<>> /\ loc'[p].list = <<>>
       /\ dir[loc[p].list[1].ent].filetime = t
    \/ /\ pc[p] = "sweep" /\ pc'[p] = "idle"
       /\ \A i \in DOMAIN dir \cap DOMAIN loc[p].read :
             dir[i].filetime = t => loc[p].read[i].filetime # t

Lost == Names(dir) \ Names(dir')

LEMMA DirKept == ASSUME dir' = dir PROVE Lost = {}
BY DEF Lost, Names

LEMMA LostIs ==
    ASSUME NEW t \in Lost
    PROVE  /\ \E i \in DOMAIN dir : dir[i].filetime = t
           /\ \A i \in DOMAIN dir' : dir'[i].filetime # t
BY DEF Lost, Names

LEMMA AppendLoss == ASSUME BaseInv, NEW p \in Procs, AppendWrite(p) PROVE Lost = {}
<1>1. dir' \in Seq(Header) /\ Len(dir') = Len(dir) + 1 /\ \A i \in 1..Len(dir) : dir'[i] = dir[i]
  BY AppendWriteIs
<1>2. DOMAIN dir = 1..Len(dir) /\ Len(dir) \in Nat /\ DOMAIN dir' = 1..Len(dir) + 1
  BY <1>1, TypedIs, HeaderIs DEF BaseInv
<1>3. DOMAIN dir \subseteq DOMAIN dir'
  BY <1>2
<1>4. ASSUME NEW t \in Lost PROVE FALSE
  BY <1>1, <1>2, <1>3, LostIs
<1>5. QED
  BY <1>4

LEMMA MarkLoss ==
    ASSUME BaseInv, NEW p \in Procs, Mark(p), NEW t \in Lost PROVE Loses(p, t)
<1>1. PICK e : e = loc[p].list[1].ent
  OBVIOUS
<1>2. PICK fh \in Header : dir' = substitute_record(dir, fh, e, Hole)
  BY <1>1, MarkIs
<1>3. dir \in Seq(Header) /\ e \in Nat \ {0}
  BY <1>1, MarkIs, TypedIs DEF BaseInv, Line
<1>4. DOMAIN dir \subseteq DOMAIN dir' /\ \A i \in DOMAIN dir : i # e => dir'[i] = dir[i]
  BY <1>2, <1>3, SubstituteHas
<1>5. dir[e].filetime = t
  BY <1>4, LostIs
<1>6. pc[p] = "idle" /\ loc[p].list # <<>> /\ loc'[p].list = <<>>
  BY MarkIs, ReturnIs, NoLocalsIs DEF BaseInv
<1>7. QED
  BY <1>1, <1>5, <1>6 DEF Loses

LEMMA ResizeLoss == ASSUME BaseInv, NEW p \in Procs, EditResize(p) PROVE Lost = {}
<1>1. PICK i, new : i = Seen(p) /\ new = Rounded(loc[p].mail.length)
  OBVIOUS
<1>2. dir' = [dir EXCEPT ![i].size = new]
  BY <1>1 DEF EditResize
<1>3. DOMAIN dir = 1..Len(dir) /\ Len(dir) \in Nat /\ \A j \in 1..Len(dir) : dir[j] \in Header
  BY TypedIs, HeaderIs DEF BaseInv
<1>4. \A h \in Header : [h EXCEPT !.size = new].filetime = h.filetime
  BY DEF Header
<1>5. DOMAIN dir' = DOMAIN dir /\ \A j \in DOMAIN dir : dir'[j].filetime = dir[j].filetime
  BY <1>2, <1>3, <1>4
<1>6. QED
  BY <1>5 DEF Lost, Names

LEMMA RemoveTakes ==
    ASSUME BaseInv, NEW p \in Procs, DelRemove(p), NEW t \in Lost
    PROVE  lock = p /\ t \in Removing(p)
<1>1. PICK i \in DOMAIN dir : dir[i].filetime = Victim(p) /\ dir' = Without(dir, {i})
  BY DelRemoveIs
<1>2. \A j \in DOMAIN dir \ {i} : \E k \in DOMAIN dir' : dir'[k] = dir[j]
  <2>1. dir \in Seq(Header)
    BY TypedIs DEF BaseInv
  <2>2. QED
    BY <1>1, <2>1, WithoutHas
<1>3. t = Victim(p)
  BY <1>1, <1>2, LostIs
<1>4. lock = p /\ pc[p] = "remove"
  BY DelRemoveIs
<1>5. QED
  BY <1>3, <1>4 DEF Removing, Victim

LEMMA RemoveLoss ==
    ASSUME BaseInv, NEW p \in Procs, DelRemove(p), NEW t \in Lost PROVE Loses(p, t)
BY RemoveTakes DEF Loses

LEMMA MissLoss ==
    ASSUME BaseInv, NEW p \in Procs, DelMisses(p), NEW t \in Lost PROVE Loses(p, t)
<1>1. pc[p] = "remove" /\ pc'[p] = "unlink" /\ dir' = Front(dir)
  BY TypedIs DEF DelMisses, Goto, BaseInv
<1>2. dir \in Seq(Header) /\ dir # <<>>
  <2>1. dir \in Seq(Header) /\ \E i \in DOMAIN dir : TRUE
    BY LostIs, TypedIs DEF BaseInv
  <2>2. QED
    BY <2>1
<1>3. \A i \in DOMAIN dir : i = Len(dir) \/ dir[i].filetime \in Names(dir')
  BY <1>1, <1>2, FrontHas
<1>4. t = Last(dir).filetime
  <2>1. PICK i \in DOMAIN dir : dir[i].filetime = t
    BY LostIs
  <2>2. t \notin Names(dir')
    BY DEF Lost
  <2>3. QED
    BY <1>3, <2>1, <2>2 DEF Last
<1>5. QED
  BY <1>1, <1>4 DEF Loses

LEMMA SweepLoss ==
    ASSUME BaseInv, NEW p \in Procs, SweepEnd(p), NEW t \in Lost PROVE Loses(p, t)
<1>1. /\ pc[p] = "sweep" /\ lock = p /\ Return(p)
      /\ \A i \in DOMAIN loc[p].read \ Selected(p) :
            dir[i].filetime = loc[p].read[i].filetime => dir[i].filetime \in Names(dir')
  BY SweepEndIs
<1>2. pc'[p] = "idle"
  BY <1>1, ReturnIs DEF BaseInv
<1>3. t \notin Names(dir')
  BY DEF Lost
<1>4. ASSUME NEW i \in DOMAIN dir \cap DOMAIN loc[p].read,
             dir[i].filetime = t, loc[p].read[i].filetime = t
      PROVE  t \in Removing(p)
  <2>1. i \in Selected(p)
    BY <1>1, <1>3, <1>4
  <2>2. QED
    BY <1>1, <1>4, <2>1 DEF Removing
<1>5. QED
  BY <1>1, <1>2, <1>4 DEF Loses

(* The other steps leave the index alone. *)
Writes(p) == \/ AppendWrite(p) \/ Mark(p) \/ EditResize(p) \/ DelRemove(p)
             \/ DelMisses(p) \/ SweepEnd(p)

LEMMA DirWritten == ASSUME NEW p \in Procs, Acts(p), ~Writes(p) PROVE dir' = dir
<1>1. CASE Deliver(p)
  BY <1>1 DEF Writes, Deliver, AppendLock, AppendFails, Charge, Refuse, SendBody
<1>2. CASE Count(p)
  BY <1>2 DEF Count, CalcLock, CalcWrite, Recount
<1>3. CASE Edit(p)
  BY <1>3 DEF Writes, Edit, EditLock, EditNotFound
<1>4. CASE Delete(p)
  BY <1>4 DEF Writes, Delete, DelLock, DelNotFound, DelDies, DelUnlink
<1>5. CASE Sweep(p)
  BY <1>5 DEF Writes, Sweep, SweepLock, SweepOne
<1>6. CASE AskSize(p) \/ FixMailsize(p) \/ Send(p) \/ View(p)
  BY <1>6 DEF AskSize, FixMailsize, Send, View
<1>7. CASE EditSave(p) \/ MailDel(p) \/ PopLogin(p) \/ Login_init(p) \/ Dele(p) \/ Rset(p)
  BY <1>7 DEF EditSave, MailDel, PopLogin, Login_init, Dele, Rset
<1>8. CASE Quit(p) \/ DelRange(p) \/ bbsdelmail(p)
  BY <1>8 DEF Quit, DelRange, bbsdelmail
<1>9. QED
  BY <1>1, <1>2, <1>3, <1>4, <1>5, <1>6, <1>7, <1>8 DEF Acts, Step, Writes

LEMMA NextLoss ==
    ASSUME BaseInv, [Next]_vars, NEW t \in Lost PROVE \E p \in Procs : Loses(p, t)
<1>1. dir' # dir
  BY DirKept
<1>2. PICK p \in Procs : Acts(p)
  BY <1>1, NextIs DEF Tick, vars
<1>3. CASE Writes(p)
  BY <1>3, AppendLoss, MarkLoss, ResizeLoss, RemoveLoss, MissLoss, SweepLoss DEF Writes
<1>4. CASE ~Writes(p)
  BY <1>1, <1>2, <1>4, DirWritten
<1>5. QED
  BY <1>3, <1>4

(* In any mailbox, whatever marks, edits and failing lookups there are,    *)
(* a mail whose file is there loses its line only to a deletion of this    *)
(* mail, to a lookup that failed in update_mailsize_down, to a mark at a   *)
(* place where the line was not seen, or to a rewrite of the index that    *)
(* had read something else there.                                          *)
THEOREM LossIsExplained == Spec => LossExplained
<1>1. BaseInv /\ [Next]_vars =>
          [\A t \in files \cap (Names(dir) \ Names(dir')) : \E p \in Procs :
              \/ lock = p /\ t \in Removing(p)
              \/ pc[p] = "remove" /\ pc'[p] = "unlink" /\ t = Last(dir).filetime
              \/ /\ pc[p] = "idle" /\ loc[p].list # <<>> /\ loc'[p].list = <<>>
                 /\ dir[loc[p].list[1].ent].filetime = t
              \/ /\ pc[p] = "sweep" /\ pc'[p] = "idle"
                 /\ \A i \in DOMAIN dir \cap DOMAIN loc[p].read :
                       dir[i].filetime = t => loc[p].read[i].filetime # t]_vars
  <2>1. SUFFICES ASSUME BaseInv, [Next]_vars,
                        NEW t \in files \cap (Names(dir) \ Names(dir'))
                 PROVE  \E p \in Procs :
              \/ lock = p /\ t \in Removing(p)
              \/ pc[p] = "remove" /\ pc'[p] = "unlink" /\ t = Last(dir).filetime
              \/ /\ pc[p] = "idle" /\ loc[p].list # <<>> /\ loc'[p].list = <<>>
                 /\ dir[loc[p].list[1].ent].filetime = t
              \/ /\ pc[p] = "sweep" /\ pc'[p] = "idle"
                 /\ \A i \in DOMAIN dir \cap DOMAIN loc[p].read :
                       dir[i].filetime = t => loc[p].read[i].filetime # t
    OBVIOUS
  <2>2. t \in Lost
    BY DEF Lost
  <2>3. QED
    BY <2>1, <2>2, NextLoss DEF Loses
<1>2. QED
  BY <1>1, BaseAlways, PTL DEF Spec, LossExplained

-----------------------------------------------------------------------------
(***************************************************************************)
(* A mailbox with fresh marks: lookups of the account succeed, and a line  *)
(* that is marked cannot have moved, since nobody but the session that     *)
(* marks deletes lines.                                                    *)
(***************************************************************************)
FreshMarks ==
    /\ ~Misses
    /\ \A c \in Casts : \A p, q \in Procs :
           "mark" \in c[p] /\ c[q] \cap DeleteJobs # {} => p = q

(* The lines have names of their own, and none is a hole. *)
NameInv ==
    /\ \A i \in DOMAIN dir : dir[i].filetime # 0
    /\ \A i, j \in DOMAIN dir : dir[i].filetime = dir[j].filetime => i = j

(* The line a session is going to mark is where it was. *)
SeenRight(p) ==
    pc[p] = "idle" /\ "mark" \in jobs[p] /\ loc[p].list # <<>> =>
        /\ loc[p].list[1].ent \in DOMAIN dir
        /\ dir[loc[p].list[1].ent].filetime = loc[p].list[1].fh.filetime

(* A deletion in one pass has the index in its memory. *)
ReadRight(p) == pc[p] = "sweep" => loc[p].read = dir

(* The lines a deletion in one pass has charged back and unlinked. *)
Swept(p) == {i \in Selected(p) : i <= loc[p].at}

(* Only the file of a line that is about to go is gone already; or the     *)
(* process waits for its own lock.                                         *)
Excuses(p, i) == \/ pc[p] = "calc" /\ lock = p
                 \/ pc[p] = "sweep" /\ i \in Swept(p)
FileInv == \A i \in DOMAIN dir : dir[i].filetime \in files \/ \E p \in Procs : Excuses(p, i)

(* The file of a mail under way, and the one a process is about to remove, *)
(* belong to no line and to no other process.                              *)
Claims(p) == IF pc[p] = "unlink" THEN {Victim(p)}
             ELSE IF pc[p] \in {"charge", "write"} THEN {loc[p].mail.filetime}
             ELSE {}
ClaimRight(p) == /\ Claims(p) \subseteq files \ (Names(dir) \cup {0})
                 /\ \A q \in Procs \ {p} : Claims(p) \cap Claims(q) = {}

BoxInv == NameInv /\ FileInv
          /\ \A p \in Procs : SeenRight(p) /\ ReadRight(p) /\ ClaimRight(p)

LEMMA FreshIs ==
    ASSUME FreshMarks, BaseInv, NEW p \in Procs, NEW q \in Procs,
           "mark" \in jobs[p], jobs[q] \cap DeleteJobs # {}
    PROVE  p = q
BY TypedIs DEF FreshMarks, BaseInv

(* While a process that neither sweeps nor waits for itself has the lock,  *)
(* or nobody has it, every line has its file.                              *)
LEMMA FilesThere ==
    ASSUME BaseInv, BoxInv,
           \A p \in Procs : lock = p => pc[p] \notin {"calc", "sweep"}
    PROVE  Names(dir) \subseteq files
<1>1. \A p \in Procs : pc[p] = "sweep" => lock = p
  BY FitsIs, SweepIs
<1>2. \A p \in Procs : \A i \in DOMAIN dir : ~Excuses(p, i)
  BY <1>1 DEF Excuses
<1>3. QED
  BY <1>2 DEF BoxInv, FileInv, Names

(* Only one process has the lock. *)
LEMMA LockedOut ==
    ASSUME BaseInv, NEW p \in Procs, lock = p, NEW q \in Procs, q # p
    PROVE  pc[q] \notin Inside /\ pc[q] # "count"
BY FitsIs

(* The index stays, and no file goes. *)
LEMMA BoxGrow ==
    ASSUME BaseInv, BoxInv, NEW p \in Procs, Moves(p), dir' = dir, jobs' = jobs,
           files \subseteq files', \A q \in Procs : q # p => (lock' = q <=> lock = q),
           SeenRight(p)', ReadRight(p)', ClaimRight(p)',
           \A i \in DOMAIN dir : Excuses(p, i) => Excuses(p, i)'
    PROVE  BoxInv'
<1>1. NameInv'
  BY DEF BoxInv, NameInv
<1>2. ASSUME NEW q \in Procs, q # p
      PROVE  /\ pc'[q] = pc[q] /\ loc'[q] = loc[q] /\ (lock' = q <=> lock = q)
             /\ Claims(q)' = Claims(q) /\ Swept(q)' = Swept(q)
  <2>1. pc'[q] = pc[q] /\ loc'[q] = loc[q] /\ (lock' = q <=> lock = q)
    BY <1>2 DEF Moves
  <2>2. QED
    BY <2>1 DEF Claims, Victim, Swept, Selected
<1>3. FileInv'
  <2>1. SUFFICES ASSUME NEW i \in DOMAIN dir
                 PROVE  dir[i].filetime \in files' \/ \E q \in Procs : Excuses(q, i)'
    BY DEF FileInv
  <2>2. CASE dir[i].filetime \in files
    BY <2>2
  <2>3. ASSUME NEW q \in Procs, Excuses(q, i) PROVE Excuses(q, i)'
    <3>1. CASE q = p
      BY <2>3, <3>1
    <3>2. CASE q # p
      BY <1>2, <2>3, <3>2 DEF Excuses
    <3>3. QED
      BY <3>1, <3>2
  <2>4. QED
    BY <2>2, <2>3 DEF BoxInv, FileInv
<1>4. ASSUME NEW q \in Procs PROVE SeenRight(q)' /\ ReadRight(q)' /\ ClaimRight(q)'
  <2>1. CASE q = p
    BY <2>1
  <2>2. CASE q # p
    <3>1. SeenRight(q) /\ ReadRight(q) /\ ClaimRight(q)
      BY DEF BoxInv
    <3>2. SeenRight(q)' /\ ReadRight(q)'
      BY <1>2, <2>2, <3>1 DEF SeenRight, ReadRight
    <3>3. Claims(q)' = Claims(q) /\ Claims(p)' \cap Claims(q)' = {}
      BY <1>2, <2>2 DEF ClaimRight
    <3>4. ASSUME NEW r \in Procs \ {q} PROVE Claims(q)' \cap Claims(r)' = {}
      <4>1. CASE r = p
        BY <3>3, <4>1
      <4>2. CASE r # p
        BY <1>2, <3>1, <3>3, <4>2 DEF ClaimRight
      <4>3. QED
        BY <4>1, <4>2
    <3>5. Claims(q)' \subseteq files' \ (Names(dir)' \cup {0})
      BY <3>1, <3>3 DEF ClaimRight, Names
    <3>6. QED
      BY <3>2, <3>4, <3>5 DEF ClaimRight
  <2>3. QED
    BY <2>1, <2>2
<1>5. QED
  BY <1>1, <1>3, <1>4 DEF BoxInv

(* A process with nothing to claim. *)
LEMMA NoClaim ==
    ASSUME BaseInv, NEW p \in Procs, Claims(p)' = {} PROVE ClaimRight(p)'
BY DEF ClaimRight

(* Most steps: no index, no file, and no new claim. *)
LEMMA BoxQuiet ==
    ASSUME BaseInv, BoxInv, NEW p \in Procs, Moves(p), UNCHANGED <<dir, files, jobs>>,
           \A q \in Procs : q # p => (lock' = q <=> lock = q),
           pc'[p] = "idle" => loc'[p].list = <<>>,
           pc'[p] \notin {"sweep", "unlink"},
           pc'[p] \in {"charge", "write"} =>
               pc[p] = "charge" /\ loc'[p].mail.filetime = loc[p].mail.filetime,
           pc[p] = "calc" => lock # p,
           pc[p] = "sweep" => pc'[p] = "calc" /\ lock' = p
    PROVE  BoxInv'
<1>1. SeenRight(p)' /\ ReadRight(p)'
  BY DEF SeenRight, ReadRight
<1>2. \A i \in DOMAIN dir : Excuses(p, i) => Excuses(p, i)'
  BY DEF Excuses
<1>3. ClaimRight(p)'
  <2>1. CASE pc'[p] \in {"charge", "write"}
    <3>1. Claims(p)' = Claims(p)
      BY <2>1 DEF Claims
    <3>2. \A q \in Procs \ {p} : Claims(q)' = Claims(q)
      BY DEF Claims, Victim, Moves
    <3>3. Names(dir)' = Names(dir) /\ files' = files
      BY DEF Names
    <3>4. ClaimRight(p)
      BY DEF BoxInv
    <3>5. QED
      BY <3>1, <3>2, <3>3, <3>4 DEF ClaimRight
  <2>2. CASE pc'[p] \notin {"charge", "write"}
    BY <2>2, NoClaim DEF Claims
  <2>3. QED
    BY <2>1, <2>2
<1>4. QED
  BY <1>1, <1>2, <1>3, BoxGrow

-----------------------------------------------------------------------------
(* Steps that only read. *)
LEMMA FreeStep ==
    ASSUME NEW p \in Procs, (lock = Nobody /\ lock' = p) \/ (lock = p /\ lock' = Nobody) \/ lock' = lock
    PROVE  \A q \in Procs : q # p => (lock' = q <=> lock = q)
BY Constants

LEMMA CalcLockBox == ASSUME BaseInv, BoxInv, NEW p \in Procs, CalcLock(p) PROVE BoxInv'
<1>1. /\ pc[p] = "calc" /\ lock = Nobody /\ lock' = p /\ Goto(p, "count")
      /\ UNCHANGED <<dir, files, mailsize, closed, jobs, now, loc>> /\ "count" \in Where
  BY DEF CalcLock, Locks, Where
<1>2. Moves(p) /\ pc'[p] = "count"
  BY <1>1, GotoIs DEF BaseInv
<1>3. lock # p /\ UNCHANGED <<dir, files, jobs>> /\ \A q \in Procs : q # p => (lock' = q <=> lock = q)
  BY <1>1, Constants
<1>4. pc'[p] \notin {"idle", "sweep", "unlink", "charge", "write"} /\ pc[p] # "sweep"
  BY <1>1, <1>2
<1>5. QED
  BY <1>2, <1>3, <1>4, BoxQuiet

LEMMA CalcWriteBox == ASSUME BaseInv, BoxInv, NEW p \in Procs, CalcWrite(p) PROVE BoxInv'
<1>1. /\ pc[p] = "count" /\ lock = p /\ lock' = Nobody /\ UNCHANGED <<dir, files, jobs>>
      /\ Moves(p) /\ pc'[p] \in Begins /\ (pc'[p] = "idle" => loc'[p].list = <<>>)
  BY CalcWriteIs
<1>2. pc'[p] \notin {"sweep", "unlink", "charge", "write"}
  BY <1>1, BeginsIs
<1>3. QED
  BY <1>1, <1>2, FreeStep, BoxQuiet

(* An operation begins. *)
LEMMA BeginBox ==
    ASSUME BaseInv, BoxInv, NEW p \in Procs, NEW w \in Begins, NEW l \in Locals,
           get_mailsize(p, w, l), pc[p] = "idle", w = "idle" => l.list = <<>>,
           UNCHANGED <<dir, files, lock, mailsize, closed, jobs, now>>
    PROVE  BoxInv'
<1>1. w \notin {"sweep", "unlink", "charge", "write"} /\ w \in Where \ {"calc", "count"}
  BY BeginsIs
<1>2. /\ Moves(p) /\ pc'[p] = (IF mailsize = -2 THEN "calc" ELSE w)
      /\ loc'[p].list = l.list
  BY <1>1, GetIs DEF BaseInv
<1>3. pc'[p] \notin {"sweep", "unlink", "charge", "write"} /\ (pc'[p] = "idle" => w = "idle")
  BY <1>1, <1>2
<1>4. UNCHANGED <<dir, files, jobs>>
  OBVIOUS
<1>5. QED
  BY <1>2, <1>3, <1>4, FreeStep, BoxQuiet

LEMMA AskSizeBox == ASSUME BaseInv, BoxInv, NEW p \in Procs, AskSize(p) PROVE BoxInv'
<1>1. /\ pc[p] = "idle" /\ get_mailsize(p, "idle", NoLocals) /\ "idle" \in Begins
      /\ UNCHANGED <<dir, files, lock, mailsize, closed, jobs, now>>
  BY DEF AskSize, Does, Begins
<1>2. QED
  BY <1>1, NoLocalsIs, BeginBox

LEMMA SendBox == ASSUME BaseInv, BoxInv, NEW p \in Procs, Send(p) PROVE BoxInv'
<1>1. /\ pc[p] = "idle" /\ UNCHANGED <<dir, files, lock, mailsize, closed, jobs, now>>
      /\ \E l \in Locals : get_mailsize(p, "append", l)
  BY SendIs
<1>2. "append" \in Begins /\ "append" # "idle"
  BY DEF Begins
<1>3. QED
  BY <1>1, <1>2, BeginBox

LEMMA MailDelBox == ASSUME BaseInv, BoxInv, NEW p \in Procs, MailDel(p) PROVE BoxInv'
<1>1. /\ pc[p] = "idle" /\ UNCHANGED <<dir, files, lock, mailsize, closed, jobs, now>>
      /\ \E l \in Locals : get_mailsize(p, "dellock", l)
  BY MailDelIs
<1>2. "dellock" \in Begins /\ "dellock" # "idle"
  BY DEF Begins
<1>3. QED
  BY <1>1, <1>2, BeginBox

LEMMA PopLoginBox == ASSUME BaseInv, BoxInv, NEW p \in Procs, PopLogin(p) PROVE BoxInv'
<1>1. /\ pc[p] = "idle" /\ get_mailsize(p, "login", NoLocals) /\ "login" \in Begins
      /\ UNCHANGED <<dir, files, lock, mailsize, closed, jobs, now>>
  BY DEF PopLogin, Does, Begins
<1>2. QED
  BY <1>1, NoLocalsIs, BeginBox

LEMMA SelBox ==
    ASSUME BaseInv, BoxInv, NEW p \in Procs, NEW s \in Choice, pc[p] = "idle",
           get_mailsize(p, "sweeplock", [NoLocals EXCEPT !.sel = s]),
           UNCHANGED <<dir, files, lock, mailsize, closed, jobs, now>>
    PROVE  BoxInv'
<1>1. PICK l : l = [NoLocals EXCEPT !.sel = s]
  OBVIOUS
<1>2. l \in Locals /\ "sweeplock" \in Begins /\ "sweeplock" # "idle"
  BY <1>1, NoLocalsIs, LocalsSet DEF Begins
<1>3. get_mailsize(p, "sweeplock", l)
  BY <1>1
<1>4. QED
  BY <1>2, <1>3, BeginBox

LEMMA DelRangeBox == ASSUME BaseInv, BoxInv, NEW p \in Procs, DelRange(p) PROVE BoxInv'
BY DelRangeSel, SelBox

LEMMA bbsdelmailBox == ASSUME BaseInv, BoxInv, NEW p \in Procs, bbsdelmail(p) PROVE BoxInv'
BY bbsdelmailSel, SelBox

(* The end of an operation that leaves everything. *)
LEMMA ReturnBox ==
    ASSUME BaseInv, BoxInv, NEW p \in Procs, Return(p), UNCHANGED <<dir, files, jobs>>,
           (lock = p /\ lock' = Nobody) \/ lock' = lock, pc[p] \notin {"calc", "sweep"}
    PROVE  BoxInv'
<1>1. Moves(p) /\ pc'[p] = "idle" /\ loc'[p].list = <<>>
  BY ReturnIs, NoLocalsIs DEF BaseInv
<1>2. QED
  BY <1>1, FreeStep, BoxQuiet

LEMMA AppendFailsBox == ASSUME BaseInv, BoxInv, NEW p \in Procs, AppendFails(p) PROVE BoxInv'
<1>1. /\ pc[p] = "append" /\ Return(p)
      /\ UNCHANGED <<dir, files, lock, mailsize, closed, jobs, now>>
  BY DEF AppendFails
<1>2. QED
  BY <1>1, ReturnBox

LEMMA ChargeBox == ASSUME BaseInv, BoxInv, NEW p \in Procs, Charge(p) PROVE BoxInv'
<1>1. /\ pc[p] = "charge" /\ Goto(p, "write") /\ "write" \in Where
      /\ UNCHANGED <<dir, files, lock, closed, jobs, now, loc>>
  BY DEF Charge, Where
<1>2. Moves(p) /\ pc'[p] = "write" /\ loc'[p] = loc[p]
  BY <1>1, GotoIs DEF BaseInv
<1>3. QED
  BY <1>1, <1>2, FreeStep, BoxQuiet

LEMMA RefuseBox == ASSUME BaseInv, BoxInv, NEW p \in Procs, Refuse(p) PROVE BoxInv'
<1>1. /\ pc[p] = "charge" /\ Return(p) /\ lock' = Nobody
      /\ UNCHANGED <<dir, files, mailsize, closed, jobs, now>>
  BY DEF Refuse
<1>2. lock = p
  BY <1>1, FitsIs DEF Inside
<1>3. QED
  BY <1>1, <1>2, ReturnBox

(* A step that takes the lock, or goes on without it. *)
LEMMA GotoBox ==
    ASSUME BaseInv, BoxInv, NEW p \in Procs, Moves(p), UNCHANGED <<dir, files, jobs>>,
           (lock = Nobody /\ lock' = p) \/ (lock = p /\ lock' = Nobody) \/ lock' = lock,
           pc[p] \notin {"calc", "sweep"},
           pc'[p] \in {"resize", "remove", "pop", "dellock"}
    PROVE  BoxInv'
BY FreeStep, BoxQuiet

LEMMA EditLockBox == ASSUME BaseInv, BoxInv, NEW p \in Procs, EditLock(p) PROVE BoxInv'
<1>1. /\ pc[p] = "editlock" /\ lock = Nobody /\ lock' = p /\ Goto(p, "resize")
      /\ UNCHANGED <<dir, files, mailsize, closed, jobs, now, loc>> /\ "resize" \in Where
  BY DEF EditLock, Locks, Where
<1>2. Moves(p) /\ pc'[p] = "resize" /\ UNCHANGED <<dir, files, jobs>>
  BY <1>1, GotoIs DEF BaseInv
<1>3. pc[p] \notin {"calc", "sweep"} /\ pc'[p] \in {"resize", "remove", "pop", "dellock"}
  BY <1>1, <1>2
<1>4. QED
  BY <1>1, <1>2, <1>3, GotoBox

LEMMA EditNotFoundBox == ASSUME BaseInv, BoxInv, NEW p \in Procs, EditNotFound(p) PROVE BoxInv'
<1>1. /\ pc[p] = "resize" /\ Return(p) /\ lock' = Nobody
      /\ UNCHANGED <<dir, files, mailsize, closed, jobs, now>>
  BY DEF EditNotFound
<1>2. lock = p
  BY <1>1, FitsIs DEF Inside
<1>3. QED
  BY <1>1, <1>2, ReturnBox

LEMMA DelLockBox == ASSUME BaseInv, BoxInv, NEW p \in Procs, DelLock(p) PROVE BoxInv'
<1>1. /\ pc[p] = "dellock" /\ lock = Nobody /\ lock' = p /\ Goto(p, "remove")
      /\ UNCHANGED <<dir, files, mailsize, closed, jobs, now, loc>> /\ "remove" \in Where
  BY DEF DelLock, Locks, Where
<1>2. Moves(p) /\ pc'[p] = "remove" /\ UNCHANGED <<dir, files, jobs>>
  BY <1>1, GotoIs DEF BaseInv
<1>3. pc[p] \notin {"calc", "sweep"} /\ pc'[p] \in {"resize", "remove", "pop", "dellock"}
  BY <1>1, <1>2
<1>4. QED
  BY <1>1, <1>2, <1>3, GotoBox

LEMMA DelNotFoundBox == ASSUME BaseInv, BoxInv, NEW p \in Procs, DelNotFound(p) PROVE BoxInv'
<1>1. /\ pc[p] = "remove" /\ lock' = Nobody /\ Advance(p)
      /\ UNCHANGED <<dir, files, mailsize, closed, jobs, now>>
  BY DEF DelNotFound
<1>2. lock = p /\ loc[p].todo # <<>>
  BY <1>1, FitsIs, VictimIs DEF Inside
<1>3. CASE Return(p)
  BY <1>1, <1>2, <1>3, ReturnBox
<1>4. CASE Moves(p) /\ pc'[p] = "dellock"
  BY <1>1, <1>2, <1>4, GotoBox
<1>5. QED
  BY <1>1, <1>2, <1>3, <1>4, AdvanceIs DEF BaseInv

LEMMA DelDiesBox == ASSUME BaseInv, BoxInv, NEW p \in Procs, DelDies(p) PROVE BoxInv'
<1>1. /\ pc[p] = "remove" /\ lock' = Nobody /\ Return(p)
      /\ UNCHANGED <<dir, files, mailsize, closed, jobs, now>>
  BY DEF DelDies
<1>2. lock = p
  BY <1>1, FitsIs DEF Inside
<1>3. QED
  BY <1>1, <1>2, ReturnBox

LEMMA StutterBox ==
    ASSUME BoxInv, UNCHANGED <<dir, files, lock, jobs, pc, loc>> PROVE BoxInv'
<1>1. NameInv'
  BY DEF BoxInv, NameInv
<1>2. \A q \in Procs : Claims(q)' = Claims(q) /\ Swept(q)' = Swept(q)
  BY DEF Claims, Victim, Swept, Selected
<1>3. \A q \in Procs : \A i \in DOMAIN dir : Excuses(q, i)' = Excuses(q, i)
  BY <1>2 DEF Excuses
<1>4. FileInv'
  BY <1>3 DEF BoxInv, FileInv
<1>5. ASSUME NEW q \in Procs PROVE SeenRight(q)' /\ ReadRight(q)' /\ ClaimRight(q)'
  BY <1>2 DEF BoxInv, SeenRight, ReadRight, ClaimRight, Names
<1>6. QED
  BY <1>1, <1>4, <1>5 DEF BoxInv

LEMMA FixMailsizeBox == ASSUME BoxInv, NEW p \in Procs, FixMailsize(p) PROVE BoxInv'
BY StutterBox DEF FixMailsize

LEMMA TickBox == ASSUME BoxInv, Tick PROVE BoxInv'
BY StutterBox DEF Tick

LEMMA ViewBox == ASSUME BaseInv, BoxInv, NEW p \in Procs, View(p) PROVE BoxInv'
<1>1. /\ pc[p] = "idle" /\ Moves(p) /\ pc'[p] = "idle"
      /\ UNCHANGED <<dir, files, lock, mailsize, closed, jobs, now, pc>>
  BY ViewIs
<1>2. PICK i \in DOMAIN dir : loc'[p].list = <<[ent |-> i, fh |-> dir[i]]>>
  BY ViewIs
<1>3. SeenRight(p)'
  <2>1. loc'[p].list[1].ent = i /\ loc'[p].list[1].fh = dir[i]
    BY <1>2
  <2>2. QED
    BY <1>1, <2>1 DEF SeenRight
<1>4. ReadRight(p)' /\ ClaimRight(p)'
  BY <1>1, NoClaim DEF ReadRight, Claims
<1>5. dir' = dir /\ jobs' = jobs /\ files \subseteq files'
      /\ (\A q \in Procs : q # p => (lock' = q <=> lock = q))
      /\ (\A j \in DOMAIN dir : Excuses(p, j) => Excuses(p, j)')
  BY <1>1 DEF Excuses
<1>6. QED
  BY <1>1, <1>3, <1>4, <1>5, BoxGrow

LEMMA PopBox == ASSUME BaseInv, BoxInv, NEW p \in Procs, Pops(p) PROVE BoxInv'
<1>1. /\ pc[p] \in {"login", "pop"} /\ Moves(p) /\ pc'[p] = "pop"
      /\ UNCHANGED <<dir, files, lock, mailsize, closed, jobs, now>>
  BY DEF Pops
<1>2. QED
  BY <1>1, GotoBox

LEMMA QuitBox == ASSUME BaseInv, BoxInv, NEW p \in Procs, Quit(p) PROVE BoxInv'
<1>1. pc[p] = "pop" /\ UNCHANGED <<dir, files, lock, mailsize, closed, jobs, now>>
  BY QuitIs
<1>2. CASE Return(p)
  BY <1>1, <1>2, ReturnBox
<1>3. CASE Moves(p) /\ pc'[p] = "dellock"
  BY <1>1, <1>3, GotoBox
<1>4. QED
  BY <1>2, <1>3, QuitIs

LEMMA RecountIs ==
    ASSUME BaseInv, NEW p \in Procs, Recount(p)
    PROVE  /\ pc[p] \in {"charge", "remove", "sweep", "resize"} /\ pc'[p] = "calc"
           /\ lock = p /\ mailsize = -2 /\ Aim(p)' = pc[p]
           /\ Moves(p) /\ UNCHANGED <<dir, files, lock, mailsize, closed, jobs, now>>
<1>1. /\ pc[p] \in {"charge", "remove", "sweep", "resize"} /\ get_mailsize(p, pc[p], loc[p])
      /\ mailsize = -2 /\ UNCHANGED <<dir, files, lock, mailsize, closed, jobs, now>>
  BY DEF Recount
<1>2. PICK w, l : w = pc[p] /\ l = loc[p]
  OBVIOUS
<1>3. w \in Where \ {"calc", "count"} /\ l \in Locals /\ lock = p
  BY <1>1, <1>2, TypedIs, FitsIs DEF BaseInv, Where, Inside
<1>4. get_mailsize(p, w, l)
  BY <1>1, <1>2
<1>5. Moves(p) /\ pc'[p] = "calc" /\ Aim(p)' = w
  BY <1>1, <1>3, <1>4, GetIs DEF BaseInv
<1>6. QED
  BY <1>1, <1>2, <1>3, <1>5

LEMMA RecountBox == ASSUME BaseInv, BoxInv, NEW p \in Procs, Recount(p) PROVE BoxInv'
<1>1. /\ pc[p] \in {"charge", "remove", "sweep", "resize"} /\ pc'[p] = "calc" /\ lock = p
      /\ Moves(p) /\ UNCHANGED <<dir, files, lock, mailsize, closed, jobs, now>>
  BY RecountIs
<1>2. UNCHANGED <<dir, files, jobs>> /\ lock' = p
  BY <1>1
<1>3. QED
  BY <1>1, <1>2, FreeStep, BoxQuiet

LEMMA SweepLockBox == ASSUME BaseInv, BoxInv, NEW p \in Procs, SweepLock(p) PROVE BoxInv'
<1>1. /\ pc[p] = "sweeplock" /\ lock = Nobody /\ lock' = p /\ Moves(p) /\ pc'[p] = "sweep"
      /\ loc'[p].read = dir /\ UNCHANGED <<dir, files, mailsize, closed, jobs, now>>
  BY SweepLockIs
<1>2. SeenRight(p)' /\ ReadRight(p)' /\ ClaimRight(p)'
  BY <1>1, NoClaim DEF SeenRight, ReadRight, Claims
<1>3. \A i \in DOMAIN dir : Excuses(p, i) => Excuses(p, i)'
  BY <1>1 DEF Excuses
<1>4. dir' = dir /\ jobs' = jobs /\ files \subseteq files'
  BY <1>1
<1>5. QED
  BY <1>1, <1>2, <1>3, <1>4, FreeStep, BoxGrow

(* A mail gets a name nobody has. *)
LEMMA AppendLockBox == ASSUME BaseInv, BoxInv, NEW p \in Procs, AppendLock(p) PROVE BoxInv'
<1>1. /\ pc[p] = "append" /\ lock = Nobody /\ lock' = p /\ Moves(p) /\ pc'[p] = "charge"
      /\ UNCHANGED <<dir, mailsize, closed, jobs, now>>
  BY AppendLockIs
<1>2. PICK t \in Nat : t \notin files /\ t >= 1 /\ files' = files \cup {t}
                       /\ loc'[p].mail.filetime = t
  BY AppendLockIs
<1>3. SeenRight(p)' /\ ReadRight(p)'
  BY <1>1 DEF SeenRight, ReadRight
<1>4. ClaimRight(p)'
  <2>1. Claims(p)' = {t} /\ \A q \in Procs : q # p => Claims(q)' = Claims(q)
    BY <1>1, <1>2 DEF Claims, Moves, Victim
  <2>2. Names(dir) \subseteq files
    BY <1>1, Constants, FilesThere
  <2>3. t \notin Names(dir) /\ t # 0 /\ Names(dir)' = Names(dir)
    BY <1>1, <1>2, <2>2 DEF Names
  <2>4. \A q \in Procs : t \notin Claims(q)
    BY <1>2 DEF BoxInv, ClaimRight
  <2>5. QED
    BY <1>2, <2>1, <2>3, <2>4 DEF ClaimRight
<1>5. \A i \in DOMAIN dir : Excuses(p, i) => Excuses(p, i)'
  BY <1>1 DEF Excuses
<1>6. dir' = dir /\ jobs' = jobs /\ files \subseteq files'
  BY <1>1, <1>2
<1>7. QED
  BY <1>1, <1>3, <1>4, <1>5, <1>6, FreeStep, BoxGrow

(* A file comes, at the end of an operation or before the lock. *)
LEMMA FileBox ==
    ASSUME BaseInv, BoxInv, NEW p \in Procs, Moves(p), UNCHANGED <<dir, lock, jobs>>,
           files \subseteq files', pc[p] \in {"idle", "body"},
           pc'[p] = "editlock" \/ (pc'[p] = "idle" /\ loc'[p].list = <<>>)
    PROVE  BoxInv'
<1>1. SeenRight(p)' /\ ReadRight(p)' /\ ClaimRight(p)'
  BY NoClaim DEF SeenRight, ReadRight, Claims
<1>2. \A i \in DOMAIN dir : Excuses(p, i) => Excuses(p, i)'
  BY DEF Excuses
<1>3. dir' = dir /\ jobs' = jobs /\ \A q \in Procs : q # p => (lock' = q <=> lock = q)
  OBVIOUS
<1>4. QED
  BY <1>1, <1>2, <1>3, BoxGrow

LEMMA SendBodyBox == ASSUME BaseInv, BoxInv, NEW p \in Procs, SendBody(p) PROVE BoxInv'
<1>1. /\ pc[p] = "body" /\ files' = files \cup {loc[p].mail.filetime} /\ Return(p)
      /\ UNCHANGED <<dir, lock, mailsize, closed, jobs, now>>
  BY DEF SendBody
<1>2. Moves(p) /\ pc'[p] = "idle" /\ loc'[p].list = <<>>
  BY <1>1, ReturnIs, NoLocalsIs DEF BaseInv
<1>3. files \subseteq files' /\ UNCHANGED <<dir, lock, jobs>>
  BY <1>1
<1>4. QED
  BY <1>1, <1>2, <1>3, FileBox

LEMMA EditSaveBox == ASSUME BaseInv, BoxInv, NEW p \in Procs, EditSave(p) PROVE BoxInv'
<1>1. /\ pc[p] = "idle" /\ Moves(p) /\ pc'[p] = "editlock"
      /\ files' = files \cup {loc[p].list[1].fh.filetime}
      /\ UNCHANGED <<dir, lock, mailsize, closed, jobs, now>>
  BY EditSaveIs
<1>2. files \subseteq files' /\ UNCHANGED <<dir, lock, jobs>>
  BY <1>1
<1>3. QED
  BY <1>1, <1>2, FileBox

-----------------------------------------------------------------------------
(* Steps that write the index, or remove files. *)
LEMMA OthersStay ==
    ASSUME BaseInv, BoxInv, NEW p \in Procs, Moves(p), NEW q \in Procs, q # p
    PROVE  /\ pc'[q] = pc[q] /\ loc'[q] = loc[q] /\ Claims(q)' = Claims(q) /\ Swept(q)' = Swept(q)
           /\ SeenRight(q) /\ ReadRight(q) /\ ClaimRight(q)
<1>1. pc'[q] = pc[q] /\ loc'[q] = loc[q]
  BY DEF Moves
<1>2. QED
  BY <1>1 DEF Claims, Victim, Swept, Selected, BoxInv

(* Claims of several processes, when one has moved. *)
LEMMA ClaimsStay ==
    ASSUME BaseInv, BoxInv, NEW p \in Procs, Moves(p), ClaimRight(p)',
           \A q \in Procs \ {p} : Claims(q) \subseteq files' \ Names(dir)'
    PROVE  \A q \in Procs \ {p} : ClaimRight(q)'
<1>1. SUFFICES ASSUME NEW q \in Procs \ {p} PROVE ClaimRight(q)'
  OBVIOUS
<1>2. Claims(q)' = Claims(q) /\ ClaimRight(q)
  BY OthersStay
<1>3. 0 \notin Claims(q) /\ Claims(q) \subseteq files' \ Names(dir)'
  BY <1>2 DEF ClaimRight
<1>4. ASSUME NEW r \in Procs \ {q} PROVE Claims(q)' \cap Claims(r)' = {}
  <2>1. CASE r = p
    BY <2>1 DEF ClaimRight
  <2>2. CASE r # p
    <3>1. Claims(r)' = Claims(r)
      BY <2>2, OthersStay
    <3>2. QED
      BY <1>2, <3>1 DEF ClaimRight
  <2>3. QED
    BY <2>1, <2>2
<1>5. QED
  BY <1>2, <1>3, <1>4 DEF ClaimRight

(* The process that has the lock writes. *)
LEMMA BoxWrite ==
    ASSUME BaseInv, BoxInv, NEW p \in Procs, Moves(p), files' = files, jobs' = jobs, lock = p,
           NameInv', Names(dir)' \subseteq files, Names(dir)' \subseteq Names(dir) \cup Claims(p),
           pc'[p] # "sweep", SeenRight(p)', ClaimRight(p)',
           \A q \in Procs \ {p} : SeenRight(q)'
    PROVE  BoxInv'
<1>1. FileInv'
  BY DEF FileInv, Names
<1>2. \A q \in Procs : ReadRight(q)'
  <2>1. ASSUME NEW q \in Procs, q # p PROVE pc'[q] # "sweep"
    BY <2>1, LockedOut, OthersStay, SweepIs
  <2>2. QED
    BY <2>1 DEF ReadRight
<1>3. \A q \in Procs \ {p} : Claims(q) \subseteq files' \ Names(dir)'
  BY DEF BoxInv, ClaimRight
<1>4. \A q \in Procs : ClaimRight(q)'
  BY <1>3, ClaimsStay
<1>5. QED
  BY <1>1, <1>2, <1>4 DEF BoxInv

LEMMA AppendWriteBox == ASSUME BaseInv, BoxInv, NEW p \in Procs, AppendWrite(p) PROVE BoxInv'
<1>1. /\ pc[p] = "write" /\ lock = p /\ Moves(p) /\ pc'[p] = "body"
      /\ UNCHANGED <<files, mailsize, closed, jobs, now, loc>>
  BY AppendWriteIs
<1>2. PICK h \in Header : /\ h.filetime = loc[p].mail.filetime /\ dir' \in Seq(Header)
                          /\ Len(dir') = Len(dir) + 1 /\ dir'[Len(dir) + 1] = h
                          /\ \A i \in 1..Len(dir) : dir'[i] = dir[i]
  BY AppendWriteIs
<1>3. PICK n, t : n = Len(dir) /\ t = h.filetime
  OBVIOUS
<1>4. n \in Nat /\ DOMAIN dir = 1..n /\ DOMAIN dir' = 1..n + 1
  BY <1>2, <1>3, TypedIs, HeaderIs DEF BaseInv
<1>5. DOMAIN dir' = DOMAIN dir \cup {n + 1} /\ DOMAIN dir \subseteq DOMAIN dir'
  BY <1>4
<1>6. \A i \in DOMAIN dir' : i = n + 1 \/ i \in DOMAIN dir
  BY <1>5
<1>7. dir'[n + 1].filetime = t /\ \A i \in DOMAIN dir : dir'[i] = dir[i]
  BY <1>2, <1>3, <1>4
<1>8. Claims(p) = {t} /\ t \in files /\ t \notin Names(dir) /\ t # 0
  <2>1. Claims(p) = {t} /\ ClaimRight(p)
    BY <1>1, <1>2, <1>3 DEF Claims, BoxInv
  <2>2. QED
    BY <2>1 DEF ClaimRight
<1>9. Names(dir) \subseteq files
  <2>1. \A q \in Procs : lock = q => pc[q] \notin {"calc", "sweep"}
    BY <1>1
  <2>2. QED
    BY <2>1, FilesThere
<1>10. Names(dir)' \subseteq Names(dir) \cup {t}
  BY <1>6, <1>7 DEF Names
<1>11. NameInv'
  <2>1. NameInv /\ \A i \in DOMAIN dir : dir[i].filetime # t
    BY <1>8 DEF BoxInv, Names
  <2>2. \A i \in DOMAIN dir' : dir'[i].filetime # 0
    BY <1>6, <1>7, <1>8, <2>1 DEF NameInv
  <2>3. ASSUME NEW i \in DOMAIN dir', NEW j \in DOMAIN dir', dir'[i].filetime = dir'[j].filetime
        PROVE  i = j
    BY <1>6, <1>7, <2>1, <2>3 DEF NameInv
  <2>4. QED
    BY <2>2, <2>3 DEF NameInv
<1>12. ASSUME NEW q \in Procs \ {p} PROVE SeenRight(q)'
  <2>1. SeenRight(q) /\ pc'[q] = pc[q] /\ loc'[q] = loc[q]
    BY <1>1, OthersStay
  <2>2. QED
    BY <1>1, <1>5, <1>7, <2>1 DEF SeenRight
<1>13. SeenRight(p)' /\ ClaimRight(p)'
  BY <1>1, NoClaim DEF SeenRight, Claims
<1>14. Names(dir)' \subseteq files /\ Names(dir)' \subseteq Names(dir) \cup Claims(p)
  BY <1>8, <1>9, <1>10
<1>15. pc'[p] # "sweep" /\ files' = files /\ jobs' = jobs
  BY <1>1
<1>16. QED
  BY <1>1, <1>11, <1>12, <1>13, <1>14, <1>15, BoxWrite

LEMMA EditResizeBox == ASSUME BaseInv, BoxInv, NEW p \in Procs, EditResize(p) PROVE BoxInv'
<1>1. PICK i, new : i = Seen(p) /\ new = Rounded(loc[p].mail.length)
  OBVIOUS
<1>2. /\ dir' = [dir EXCEPT ![i].size = new] /\ pc[p] = "resize" /\ Return(p)
      /\ files' = files /\ jobs' = jobs
  BY <1>1 DEF EditResize
<1>3. DOMAIN dir = 1..Len(dir) /\ Len(dir) \in Nat /\ \A j \in 1..Len(dir) : dir[j] \in Header
  BY TypedIs, HeaderIs DEF BaseInv
<1>4. \A h \in Header : [h EXCEPT !.size = new].filetime = h.filetime
  BY DEF Header
<1>5. DOMAIN dir' = DOMAIN dir /\ \A j \in DOMAIN dir : dir'[j].filetime = dir[j].filetime
  BY <1>2, <1>3, <1>4
<1>6. Moves(p) /\ pc'[p] = "idle" /\ loc'[p].list = <<>> /\ lock = p
  BY <1>2, ReturnIs, NoLocalsIs, FitsIs DEF BaseInv, Inside
<1>7. NameInv'
  BY <1>5 DEF BoxInv, NameInv
<1>8. Names(dir)' = Names(dir)
  BY <1>5 DEF Names
<1>9. Names(dir) \subseteq files
  <2>1. \A q \in Procs : lock = q => pc[q] \notin {"calc", "sweep"}
    BY <1>2, <1>6
  <2>2. QED
    BY <2>1, FilesThere
<1>10. ASSUME NEW q \in Procs \ {p} PROVE SeenRight(q)'
  <2>1. SeenRight(q) /\ pc'[q] = pc[q] /\ loc'[q] = loc[q]
    BY <1>6, OthersStay
  <2>2. QED
    BY <1>2, <1>5, <2>1 DEF SeenRight
<1>11. SeenRight(p)' /\ ClaimRight(p)' /\ pc'[p] # "sweep"
  BY <1>6, NoClaim DEF SeenRight, Claims
<1>12. QED
  BY <1>2, <1>6, <1>7, <1>8, <1>9, <1>10, <1>11, BoxWrite

(* A mark keeps the names of the lines. *)
LEMMA MarkAt ==
    ASSUME BaseInv, BoxInv, NEW p \in Procs, Mark(p)
    PROVE  /\ pc[p] = "idle" /\ "mark" \in jobs[p]
           /\ UNCHANGED <<files, lock, mailsize, closed, jobs, now>>
           /\ Return(p) /\ dir' \in Seq(Header) /\ Len(dir') = Len(dir) /\ DOMAIN dir' = DOMAIN dir
           /\ \E e \in DOMAIN dir : /\ e = loc[p].list[1].ent
                                    /\ dir'[e].size = loc[p].list[1].fh.size
                                    /\ dir'[e].filetime = dir[e].filetime
                                    /\ \A i \in DOMAIN dir : i # e => dir'[i] = dir[i]
           /\ \A i \in DOMAIN dir : dir'[i].filetime = dir[i].filetime
<1>1. /\ pc[p] = "idle" /\ "mark" \in jobs[p] /\ loc[p].list # <<>> /\ loc[p].list[1] \in Line
      /\ Return(p) /\ UNCHANGED <<files, lock, mailsize, closed, jobs, now>>
  BY MarkIs
<1>2. PICK l : l = loc[p].list[1]
  OBVIOUS
<1>3. PICK fh \in Header : /\ fh.filetime = l.fh.filetime /\ fh.size = l.fh.size
                           /\ dir' = substitute_record(dir, fh, l.ent, Hole)
  BY <1>2, MarkIs
<1>4. PICK e : e = l.ent
  OBVIOUS
<1>5. e \in Nat \ {0} /\ dir \in Seq(Header)
  BY <1>1, <1>2, <1>4, TypedIs DEF BaseInv, Line
<1>6. SeenRight(p)
  BY DEF BoxInv
<1>7. e \in DOMAIN dir /\ dir[e].filetime = fh.filetime
  BY <1>1, <1>2, <1>3, <1>4, <1>6 DEF SeenRight
<1>8. PICK r : r = substitute_record(dir, fh, e, Hole)
  OBVIOUS
<1>9. /\ r \in Seq(Header) /\ DOMAIN r = DOMAIN dir /\ Len(r) = Len(dir) /\ r[e] = fh
      /\ \A i \in DOMAIN dir : i # e => r[i] = dir[i]
  BY <1>5, <1>7, <1>8, SubstituteHas
<1>10. dir' = r
  BY <1>3, <1>4, <1>8
<1>11. QED
  BY <1>1, <1>2, <1>3, <1>4, <1>7, <1>9, <1>10

LEMMA MarkBox == ASSUME FreshMarks, BaseInv, BoxInv, NEW p \in Procs, Mark(p) PROVE BoxInv'
<1>1. /\ pc[p] = "idle" /\ "mark" \in jobs[p] /\ Return(p)
      /\ UNCHANGED <<files, lock, mailsize, closed, jobs, now>>
      /\ DOMAIN dir' = DOMAIN dir /\ \A i \in DOMAIN dir : dir'[i].filetime = dir[i].filetime
  BY MarkAt
<1>2. Moves(p) /\ pc'[p] = "idle" /\ loc'[p].list = <<>>
  BY <1>1, ReturnIs, NoLocalsIs DEF BaseInv
<1>3. ASSUME NEW q \in Procs PROVE pc[q] # "sweep" /\ pc'[q] # "sweep"
  <2>1. CASE q = p
    BY <1>1, <1>2, <2>1
  <2>2. CASE q # p
    <3>1. ASSUME pc[q] = "sweep" PROVE FALSE
      <4>1. jobs[q] \cap DeleteJobs # {}
        BY <3>1, FitsIs, SweepIs DEF Fits, HasJob
      <4>2. QED
        BY <1>1, <2>2, <4>1, FreshIs
    <3>2. QED
      BY <1>2, <2>2, <3>1, OthersStay
  <2>3. QED
    BY <2>1, <2>2
<1>4. NameInv'
  BY <1>1 DEF BoxInv, NameInv
<1>5. FileInv'
  <2>1. SUFFICES ASSUME NEW i \in DOMAIN dir
                 PROVE  dir'[i].filetime \in files' \/ \E q \in Procs : Excuses(q, i)'
    BY <1>1 DEF FileInv
  <2>2. ASSUME NEW q \in Procs, Excuses(q, i) PROVE Excuses(q, i)'
    <3>1. pc[q] = "calc" /\ lock = q
      BY <1>3, <2>2 DEF Excuses
    <3>2. q # p
      BY <1>1, <3>1
    <3>3. pc'[q] = "calc" /\ lock' = q
      BY <1>1, <1>2, <3>1, <3>2, OthersStay
    <3>4. QED
      BY <3>3 DEF Excuses
  <2>3. QED
    BY <1>1, <2>2 DEF BoxInv, FileInv
<1>6. Names(dir)' = Names(dir)
  BY <1>1 DEF Names
<1>7. SeenRight(p)' /\ ClaimRight(p)'
  BY <1>2, NoClaim DEF SeenRight, Claims
<1>8. \A q \in Procs \ {p} : Claims(q) \subseteq files' \ Names(dir)'
  BY <1>1, <1>6 DEF BoxInv, ClaimRight
<1>9. \A q \in Procs \ {p} : ClaimRight(q)'
  BY <1>2, <1>7, <1>8, ClaimsStay
<1>10. ASSUME NEW q \in Procs \ {p} PROVE SeenRight(q)'
  <2>1. SeenRight(q) /\ pc'[q] = pc[q] /\ loc'[q] = loc[q]
    BY <1>2, OthersStay
  <2>2. QED
    BY <1>1, <2>1 DEF SeenRight
<1>11. \A q \in Procs : ReadRight(q)'
  BY <1>3 DEF ReadRight
<1>12. QED
  BY <1>4, <1>5, <1>7, <1>9, <1>10, <1>11 DEF BoxInv

-----------------------------------------------------------------------------
(* A process that has the lock cuts lines out. *)
LEMMA BoxCut ==
    ASSUME FreshMarks, BaseInv, BoxInv, NEW p \in Procs, Moves(p),
           UNCHANGED <<files, jobs>>, lock = p,
           jobs[p] \cap DeleteJobs # {}, NEW gone, dir' = Without(dir, gone),
           \A i \in DOMAIN dir \ gone : dir[i].filetime \in files,
           pc'[p] # "sweep", SeenRight(p)', ClaimRight(p)'
    PROVE  BoxInv'
<1>1. dir \in Seq(Header) /\ NameInv
  BY TypedIs DEF BaseInv, BoxInv
<1>2. \A k \in DOMAIN dir' : \E i \in DOMAIN dir \ gone : dir'[k] = dir[i]
  BY <1>1, WithoutHas
<1>3. \A i, j \in DOMAIN dir' : dir'[i].filetime = dir'[j].filetime => i = j
  <2>1. \A i, j \in DOMAIN dir : dir[i].filetime = dir[j].filetime => i = j
    BY <1>1 DEF NameInv
  <2>2. QED
    BY <1>1, <2>1, WithoutApart
<1>4. NameInv'
  BY <1>1, <1>2, <1>3 DEF NameInv
<1>5. Names(dir)' \subseteq files /\ Names(dir)' \subseteq Names(dir)
  BY <1>2 DEF Names
<1>6. ASSUME NEW q \in Procs \ {p} PROVE SeenRight(q)'
  <2>1. "mark" \notin jobs[q]
    BY FreshIs
  <2>2. QED
    BY <2>1 DEF SeenRight
<1>7. files' = files /\ jobs' = jobs /\ Names(dir)' \subseteq Names(dir) \cup Claims(p)
  BY <1>5
<1>8. QED
  BY <1>4, <1>5, <1>6, <1>7, BoxWrite

LEMMA DelRemoveBox ==
    ASSUME FreshMarks, BaseInv, BoxInv, NEW p \in Procs, DelRemove(p) PROVE BoxInv'
<1>1. /\ pc[p] = "remove" /\ lock = p /\ Moves(p) /\ pc'[p] = "unlink" /\ loc' = loc
      /\ UNCHANGED <<files, closed, jobs, now>>
  BY DelRemoveIs
<1>2. PICK i \in DOMAIN dir : dir[i].filetime = Victim(p) /\ dir' = Without(dir, {i})
  BY DelRemoveIs
<1>3. jobs[p] \cap DeleteJobs # {}
  BY <1>1, VictimIs
<1>4. Names(dir) \subseteq files
  <2>1. \A q \in Procs : lock = q => pc[q] \notin {"calc", "sweep"}
    BY <1>1
  <2>2. QED
    BY <2>1, FilesThere
<1>5. \A j \in DOMAIN dir : dir[j].filetime \in files
  BY <1>4 DEF Names
<1>6. ClaimRight(p)'
  <2>1. Claims(p)' = {Victim(p)}
    BY <1>1 DEF Claims, Victim
  <2>2. Victim(p) \in files /\ Victim(p) # 0 /\ Victim(p) \in Names(dir)
    BY <1>2, <1>5 DEF BoxInv, NameInv, Names
  <2>3. Victim(p) \notin Names(dir)'
    <3>1. dir \in Seq(Header) /\ NameInv
      BY TypedIs DEF BaseInv, BoxInv
    <3>2. \A k \in DOMAIN dir' : \E j \in DOMAIN dir \ {i} : dir'[k] = dir[j]
      BY <1>2, <3>1, WithoutHas
    <3>3. QED
      BY <1>2, <3>1, <3>2 DEF NameInv, Names
  <2>4. ASSUME NEW q \in Procs \ {p} PROVE Claims(p)' \cap Claims(q)' = {}
    <3>1. Claims(q)' = Claims(q) /\ ClaimRight(q)
      BY <1>1, OthersStay
    <3>2. QED
      BY <2>1, <2>2, <3>1 DEF ClaimRight
  <2>5. QED
    BY <1>1, <2>1, <2>2, <2>3, <2>4 DEF ClaimRight
<1>7. SeenRight(p)' /\ pc'[p] # "sweep"
  BY <1>1 DEF SeenRight
<1>8. UNCHANGED <<files, jobs>> /\ dir' = Without(dir, {i})
      /\ \A j \in DOMAIN dir \ {i} : dir[j].filetime \in files
  BY <1>1, <1>2, <1>5
<1>9. QED
  BY <1>1, <1>3, <1>6, <1>7, <1>8, BoxCut

(* The line of a position in a sweep is the line of the index. *)
LEMMA SweepReads ==
    ASSUME BaseInv, BoxInv, NEW p \in Procs, pc[p] = "sweep"
    PROVE  /\ loc[p].read = dir /\ Selected(p) \subseteq DOMAIN dir /\ lock = p
           /\ jobs[p] \cap DeleteJobs # {}
<1>1. loc[p].read = dir
  BY DEF BoxInv, ReadRight
<1>2. Selected(p) \subseteq DOMAIN loc[p].read
  BY DEF Selected
<1>3. lock = p /\ jobs[p] \cap DeleteJobs # {}
  BY FitsIs, SweepIs DEF Fits, HasJob
<1>4. QED
  BY <1>1, <1>2, <1>3

LEMMA SweepEndCuts ==
    ASSUME BaseInv, BoxInv, NEW p \in Procs, SweepEnd(p)
    PROVE  dir' = Without(dir, Selected(p)) /\ Swept(p) = Selected(p)
<1>1. pc[p] = "sweep" /\ Ahead(p) = {} /\ dir' = Rewritten(dir, loc[p].read, Selected(p))
  BY SweepEndIs
<1>2. loc[p].read = dir /\ Selected(p) \subseteq DOMAIN dir /\ dir \in Seq(Header) /\ loc[p].at \in Nat
  BY <1>1, SweepReads, TypedIs DEF BaseInv
<1>3. PICK g : g = Selected(p)
  OBVIOUS
<1>4. Rewritten(dir, dir, g) = Without(dir, g)
  BY <1>2, <1>3, RewrittenIs
<1>5. ASSUME NEW i \in Selected(p) PROVE i <= loc[p].at
  <2>1. i \in DOMAIN dir /\ dir[i].filetime # 0 /\ i \in Nat
    BY <1>2 DEF BoxInv, NameInv
  <2>2. ~(i > loc[p].at)
    BY <1>1, <1>2, <2>1 DEF Ahead
  <2>3. QED
    BY <1>2, <2>1, <2>2
<1>6. QED
  BY <1>1, <1>2, <1>3, <1>4, <1>5 DEF Swept

LEMMA SweepEndBox ==
    ASSUME FreshMarks, BaseInv, BoxInv, NEW p \in Procs, SweepEnd(p) PROVE BoxInv'
<1>1. /\ pc[p] = "sweep" /\ lock = p /\ Return(p) /\ UNCHANGED <<files, mailsize, closed, jobs, now>>
  BY SweepEndIs
<1>2. dir' = Without(dir, Selected(p)) /\ jobs[p] \cap DeleteJobs # {}
  BY <1>1, SweepEndCuts, SweepReads
<1>3. ASSUME NEW i \in DOMAIN dir \ Selected(p) PROVE dir[i].filetime \in files
  <2>1. ASSUME NEW q \in Procs PROVE ~Excuses(q, i)
    <3>1. CASE q = p
      BY <1>1, <1>3, <3>1 DEF Excuses, Swept
    <3>2. CASE q # p
      BY <1>1, <3>2, LockedOut, SweepIs DEF Excuses
    <3>3. QED
      BY <3>1, <3>2
  <2>2. QED
    BY <2>1 DEF BoxInv, FileInv
<1>4. Moves(p) /\ pc'[p] = "idle" /\ loc'[p].list = <<>>
  BY <1>1, ReturnIs, NoLocalsIs DEF BaseInv
<1>5. pc'[p] # "sweep" /\ SeenRight(p)' /\ ClaimRight(p)' /\ UNCHANGED <<files, jobs>>
  BY <1>1, <1>4, NoClaim DEF SeenRight, Claims
<1>6. QED
  BY <1>1, <1>2, <1>3, <1>4, <1>5, BoxCut

(* A file goes. *)
LEMMA BoxLess ==
    ASSUME BaseInv, BoxInv, NEW p \in Procs, Moves(p), UNCHANGED <<dir, lock, jobs>>,
           NEW t, files' = files \ {t}, \A q \in Procs \ {p} : t \notin Claims(q),
           SeenRight(p)', ReadRight(p)', ClaimRight(p)',
           \A i \in DOMAIN dir : dir[i].filetime = t \/ Excuses(p, i) => Excuses(p, i)'
    PROVE  BoxInv'
<1>1. NameInv' /\ Names(dir)' = Names(dir)
  BY DEF BoxInv, NameInv, Names
<1>2. FileInv'
  <2>1. SUFFICES ASSUME NEW i \in DOMAIN dir
                 PROVE  dir[i].filetime \in files' \/ \E q \in Procs : Excuses(q, i)'
    BY DEF FileInv
  <2>2. ASSUME NEW q \in Procs, Excuses(q, i) PROVE Excuses(q, i)'
    <3>1. CASE q = p
      BY <2>2, <3>1
    <3>2. CASE q # p
      <4>1. pc'[q] = pc[q] /\ Swept(q)' = Swept(q) /\ lock' = lock
        BY <3>2, OthersStay
      <4>2. QED
        BY <2>2, <4>1 DEF Excuses
    <3>3. QED
      BY <3>1, <3>2
  <2>3. QED
    BY <2>2 DEF BoxInv, FileInv
<1>3. \A q \in Procs \ {p} : Claims(q) \subseteq files' \ Names(dir)'
  BY <1>1 DEF BoxInv, ClaimRight
<1>4. \A q \in Procs \ {p} : ClaimRight(q)'
  BY <1>3, ClaimsStay
<1>5. ASSUME NEW q \in Procs \ {p} PROVE SeenRight(q)' /\ ReadRight(q)'
  <2>1. SeenRight(q) /\ ReadRight(q) /\ pc'[q] = pc[q] /\ loc'[q] = loc[q]
    BY OthersStay
  <2>2. QED
    BY <2>1 DEF SeenRight, ReadRight
<1>6. QED
  BY <1>1, <1>2, <1>4, <1>5 DEF BoxInv

LEMMA DelUnlinkBox == ASSUME BaseInv, BoxInv, NEW p \in Procs, DelUnlink(p) PROVE BoxInv'
<1>1. /\ pc[p] = "unlink" /\ files' = files \ {Victim(p)} /\ Advance(p)
      /\ UNCHANGED <<dir, lock, mailsize, closed, jobs, now>>
  BY DEF DelUnlink, Victim
<1>2. Claims(p) = {Victim(p)} /\ ClaimRight(p) /\ loc[p].todo # <<>>
  BY <1>1, VictimIs DEF Claims, BoxInv
<1>3. Victim(p) \notin Names(dir) /\ \A q \in Procs \ {p} : Victim(p) \notin Claims(q)
  BY <1>2 DEF ClaimRight
<1>4. Moves(p) /\ ((pc'[p] = "idle" /\ loc'[p].list = <<>>) \/ pc'[p] = "dellock")
  BY <1>1, <1>2, AdvanceIs, ReturnIs, NoLocalsIs DEF BaseInv
<1>5. SeenRight(p)' /\ ReadRight(p)' /\ ClaimRight(p)'
  BY <1>4, NoClaim DEF SeenRight, ReadRight, Claims
<1>6. \A i \in DOMAIN dir : dir[i].filetime # Victim(p) /\ ~Excuses(p, i)
  BY <1>1, <1>3 DEF Names, Excuses
<1>7. UNCHANGED <<dir, lock, jobs>>
  BY <1>1
<1>8. QED
  BY <1>1, <1>3, <1>4, <1>5, <1>6, <1>7, BoxLess

LEMMA SweepOneBox == ASSUME BaseInv, BoxInv, NEW p \in Procs, SweepOne(p) PROVE BoxInv'
<1>1. /\ pc[p] = "sweep" /\ Moves(p) /\ pc'[p] = "sweep"
      /\ UNCHANGED <<dir, lock, closed, jobs, now, pc>>
      /\ loc'[p].read = loc[p].read /\ loc'[p].sel = loc[p].sel
  BY SweepOneIs
<1>2. PICK i \in Ahead(p) : /\ files' = files \ {loc[p].read[i].filetime} /\ loc'[p].at = i
                            /\ i \in Nat
  BY SweepOneIs
<1>3. loc[p].read = dir /\ Selected(p) \subseteq DOMAIN dir
  BY <1>1, SweepReads
<1>4. PICK t : t = dir[i].filetime
  OBVIOUS
<1>5. i \in Selected(p) /\ i \in DOMAIN dir /\ i > loc[p].at /\ files' = files \ {t}
  BY <1>2, <1>3, <1>4 DEF Ahead
<1>6. \A q \in Procs \ {p} : t \notin Claims(q)
  <2>1. t \in Names(dir)
    BY <1>4, <1>5 DEF Names
  <2>2. QED
    BY <2>1 DEF BoxInv, ClaimRight
<1>7. SeenRight(p)' /\ ReadRight(p)' /\ ClaimRight(p)'
  BY <1>1, <1>3, NoClaim DEF SeenRight, ReadRight, Claims
<1>8. Selected(p)' = Selected(p)
  BY <1>1 DEF Selected
<1>9. ASSUME NEW j \in DOMAIN dir, dir[j].filetime = t \/ Excuses(p, j) PROVE Excuses(p, j)'
  <2>1. j \in Selected(p) /\ j <= i
    <3>1. CASE dir[j].filetime = t
      <4>1. j = i
        BY <1>4, <1>5, <3>1 DEF BoxInv, NameInv
      <4>2. QED
        BY <1>2, <1>5, <4>1
    <3>2. CASE Excuses(p, j)
      <4>1. j \in Selected(p) /\ j <= loc[p].at
        BY <1>1, <3>2 DEF Excuses, Swept
      <4>2. j \in Nat /\ loc[p].at \in Nat
        BY TypedIs, HeaderIs DEF BaseInv
      <4>3. QED
        BY <1>2, <1>5, <4>1, <4>2
    <3>3. QED
      BY <1>9, <3>1, <3>2
  <2>2. QED
    BY <1>1, <1>2, <1>8, <2>1 DEF Excuses, Swept
<1>10. UNCHANGED <<dir, lock, jobs>>
  BY <1>1
<1>11. QED
  BY <1>1, <1>5, <1>6, <1>7, <1>9, <1>10, BoxLess

-----------------------------------------------------------------------------
(***************************************************************************)
(* Every step keeps BoxInv.                                                *)
(***************************************************************************)
LEMMA StepBox ==
    ASSUME FreshMarks, BaseInv, BoxInv, NEW p \in Procs, Step(p) PROVE BoxInv'
<1>1. CASE Deliver(p)
  BY <1>1, AppendLockBox, AppendFailsBox, ChargeBox, RefuseBox, AppendWriteBox, SendBodyBox
     DEF Deliver
<1>2. CASE Count(p)
  BY <1>2, CalcLockBox, CalcWriteBox, RecountBox DEF Count
<1>3. CASE Edit(p)
  BY <1>3, EditLockBox, EditResizeBox, EditNotFoundBox DEF Edit
<1>4. CASE Delete(p)
  <2>1. ~DelMisses(p)
    BY DEF DelMisses, FreshMarks
  <2>2. QED
    BY <1>4, <2>1, DelLockBox, DelRemoveBox, DelNotFoundBox, DelDiesBox, DelUnlinkBox DEF Delete
<1>5. CASE Sweep(p)
  BY <1>5, SweepLockBox, SweepOneBox, SweepEndBox DEF Sweep
<1>6. QED
  BY <1>1, <1>2, <1>3, <1>4, <1>5 DEF Step

LEMMA ActsBox ==
    ASSUME FreshMarks, BaseInv, BoxInv, NEW p \in Procs, Acts(p) PROVE BoxInv'
BY StepBox, AskSizeBox, FixMailsizeBox, SendBox, ViewBox, MarkBox, EditSaveBox, MailDelBox,
   PopLoginBox, Login_initIs, DeleIs, RsetIs, PopBox, QuitBox, DelRangeBox, bbsdelmailBox DEF Acts

LEMMA InitBox == Init => BoxInv
<1>1. SUFFICES ASSUME Init PROVE BoxInv
  OBVIOUS
<1>2. dir = <<>> /\ files = {} /\ \A p \in Procs : pc[p] = "idle" /\ loc[p] = NoLocals
  BY <1>1 DEF Init
<1>3. NameInv /\ FileInv
  BY <1>2 DEF NameInv, FileInv
<1>4. ASSUME NEW p \in Procs PROVE SeenRight(p) /\ ReadRight(p) /\ ClaimRight(p)
  BY <1>2, NoLocalsIs DEF SeenRight, ReadRight, ClaimRight, Claims
<1>5. QED
  BY <1>3, <1>4 DEF BoxInv

LEMMA NextBox == ASSUME FreshMarks, BaseInv, BoxInv, [Next]_vars PROVE BoxInv'
<1>1. CASE Tick
  BY <1>1, TickBox
<1>2. ASSUME NEW p \in Procs, Acts(p) PROVE BoxInv'
  BY <1>2, ActsBox
<1>3. CASE UNCHANGED vars
  BY <1>3, StutterBox DEF vars
<1>4. QED
  BY <1>1, <1>2, <1>3, NextIs

LEMMA BoxAlways == ASSUME FreshMarks PROVE Spec => []BoxInv
<1>1. BaseInv /\ BoxInv /\ [Next]_vars => BoxInv'
  BY NextBox
<1>2. QED
  BY <1>1, InitBox, BaseAlways, PTL DEF Spec

(* As many names as lines. *)
LEMMA NamesCount ==
    ASSUME NEW d \in Seq(Header),
           \A i, j \in DOMAIN d : d[i].filetime = d[j].filetime => i = j
    PROVE  Cardinality(Names(d)) = Len(d)
<1>1. PICK n : n = Len(d)
  OBVIOUS
<1>2. n \in Nat /\ DOMAIN d = 1..n
  BY <1>1, HeaderIs
<1>3. PICK f : f = [i \in 1..n |-> d[i].filetime]
  OBVIOUS
<1>4. f \in [1..n -> Names(d)] /\ \A t \in Names(d) : \E i \in 1..n : f[i] = t
  BY <1>2, <1>3 DEF Names
<1>5. \A i, j \in 1..n : f[i] = f[j] => i = j
  BY <1>2, <1>3
<1>6. f \in Bijection(1..n, Names(d))
  BY <1>4, <1>5 DEF Bijection, Injection, Surjection, IsInjective
<1>7. ExistsBijection(1..n, Names(d))
  BY <1>6 DEF ExistsBijection
<1>8. QED
  BY <1>1, <1>2, <1>7, FS_CountingElements

(* In a mailbox with fresh marks every line of the index has a file of its *)
(* own whenever the index is not locked, however deliveries, deletions,    *)
(* edits and recounts of any number of processes interleave.               *)
THEOREM FileForEveryLine == ASSUME FreshMarks PROVE Spec => []LinesHaveFiles
<1>1. BaseInv /\ BoxInv => LinesHaveFiles
  <2>1. SUFFICES ASSUME BaseInv, BoxInv, lock = Nobody
                 PROVE  Names(dir) \subseteq files /\ Cardinality(Names(dir)) = Len(dir)
    BY DEF LinesHaveFiles
  <2>2. \A p \in Procs : lock # p
    BY <2>1, Constants
  <2>3. Names(dir) \subseteq files
    BY <2>1, <2>2, FilesThere
  <2>4. dir \in Seq(Header) /\ \A i, j \in DOMAIN dir : dir[i].filetime = dir[j].filetime => i = j
    BY <2>1, TypedIs DEF BaseInv, BoxInv, NameInv
  <2>5. QED
    BY <2>3, <2>4, NamesCount
<1>2. QED
  BY <1>1, BaseAlways, BoxAlways, PTL

-----------------------------------------------------------------------------
(***************************************************************************)
(* With fresh marks no mail is lost.                                       *)
(***************************************************************************)
LEMMA NextKeeps ==
    ASSUME FreshMarks, BaseInv, BoxInv, [Next]_vars, NEW t \in Lost
    PROVE  \E p \in Procs : lock = p /\ t \in Removing(p)
<1>1. dir' # dir
  BY DirKept
<1>2. PICK p \in Procs : Acts(p)
  BY <1>1, NextIs DEF Tick, vars
<1>3. CASE AppendWrite(p)
  BY <1>3, AppendLoss
<1>4. CASE Mark(p)
  <2>1. DOMAIN dir' = DOMAIN dir /\ \A i \in DOMAIN dir : dir'[i].filetime = dir[i].filetime
    BY <1>4, MarkAt
  <2>2. QED
    BY <2>1, LostIs
<1>5. CASE EditResize(p)
  BY <1>5, ResizeLoss
<1>6. CASE DelRemove(p)
  BY <1>6, RemoveTakes
<1>7. CASE DelMisses(p)
  BY <1>7 DEF DelMisses, FreshMarks
<1>8. CASE SweepEnd(p)
  <2>1. /\ pc[p] = "sweep" /\ lock = p /\ dir' = Without(dir, Selected(p))
        /\ loc[p].read = dir /\ dir \in Seq(Header)
    BY <1>8, SweepEndIs, SweepEndCuts, SweepReads, TypedIs DEF BaseInv
  <2>2. \A i \in DOMAIN dir \ Selected(p) : \E k \in DOMAIN dir' : dir'[k] = dir[i]
    BY <2>1, WithoutHas
  <2>3. PICK i \in DOMAIN dir : dir[i].filetime = t
    BY LostIs
  <2>4. i \in Selected(p)
    BY <2>2, <2>3, LostIs
  <2>5. QED
    BY <2>1, <2>3, <2>4 DEF Removing
<1>9. CASE ~Writes(p)
  BY <1>1, <1>2, <1>9, DirWritten
<1>10. QED
  BY <1>3, <1>4, <1>5, <1>6, <1>7, <1>8, <1>9 DEF Writes

(* In a mailbox with fresh marks a mail leaves the index only through a    *)
(* process that has the lock and is to remove this very mail, however the  *)
(* lines have moved since it was chosen.                                   *)
THEOREM MailIsKept == ASSUME FreshMarks PROVE Spec => NoMailLost
<1>1. BaseInv /\ BoxInv /\ [Next]_vars =>
          [\A t \in Names(dir) \ Names(dir') :
              \E p \in Procs : lock = p /\ t \in Removing(p)]_vars
  BY NextKeeps DEF Lost
<1>2. QED
  BY <1>1, BaseAlways, BoxAlways, PTL DEF Spec, NoMailLost

-----------------------------------------------------------------------------
(***************************************************************************)
(* The same mailbox, whose mails nobody edits and which holds no more than *)
(* SHRT_MAX kilobytes.                                                     *)
(***************************************************************************)
NoEdits == \A c \in Casts : \A p \in Procs : "edit" \notin c[p]
Small == SizeOf(dir) <= ShrtMax

(* The line a session is going to mark has the size it had. *)
SeenSize(p) ==
    pc[p] = "idle" /\ "mark" \in jobs[p] /\ loc[p].list # <<>> =>
        dir[loc[p].list[1].ent].size = loc[p].list[1].fh.size

(* A deletion in one pass begins before the first line. *)
AtRight(p) == Aim(p) = "sweeplock" => loc[p].at = 0

(* What is about to be entered fits in the quota. *)
Weight(p) == Kilo(Rounded(loc[p].mail.length))
QuotaRight(p) == pc[p] = "write" /\ ~loc[p].mail.sysmail /\ ~NoLimit =>
                     SizeOf(dir) + Weight(p) <= max_mailsize

(* The counter is what the mails add up to, with the one that is about to  *)
(* be entered and without those that are about to go.                      *)
Counting(p) ==
    \/ pc[p] = "calc" /\ lock = p
    \/ /\ pc[p] = "write"
       /\ mailsize = SizeOf(dir) + Weight(p) \/ SizeOf(dir) + Weight(p) > ShrtMax
    \/ pc[p] = "sweep" /\ mailsize = SizeOf(Without(dir, Swept(p)))
Counted == /\ \A p \in Procs : pc[p] \notin {"write", "sweep"}
           /\ mailsize = SizeOf(dir)
CountInv == NoLimit \/ mailsize = -2 \/ Counted \/ \E p \in Procs : Counting(p)

SizeInv == CountInv /\ \A p \in Procs : SeenSize(p) /\ AtRight(p) /\ QuotaRight(p)

(* The counter, when the one who has the lock is not at work on it.        *)
LEMMA CountedIs ==
    ASSUME BaseInv, SizeInv, ~NoLimit, mailsize # -2,
           \A p \in Procs : lock = p => pc[p] \notin {"calc", "write", "sweep"}
    PROVE  mailsize = SizeOf(dir)
<1>1. \A p \in Procs : pc[p] \in {"write", "sweep"} => lock = p
  BY FitsIs DEF Inside
<1>2. \A p \in Procs : ~Counting(p)
  BY <1>1 DEF Counting
<1>3. QED
  BY <1>2 DEF SizeInv, CountInv, Counted

LEMMA SweepCounted ==
    ASSUME BaseInv, SizeInv, ~NoLimit, mailsize # -2, NEW p \in Procs, pc[p] = "sweep"
    PROVE  mailsize = SizeOf(Without(dir, Swept(p)))
<1>1. lock = p
  BY FitsIs, SweepIs
<1>2. ASSUME NEW q \in Procs, Counting(q) PROVE q = p
  <2>1. lock = q
    BY <1>2, FitsIs DEF Counting, Inside
  <2>2. QED
    BY <1>1, <2>1
<1>3. Counting(p)
  BY <1>2 DEF SizeInv, CountInv, Counted
<1>4. QED
  BY <1>3 DEF Counting

(* One process moves; the index does not, or only while no mail is about   *)
(* to be entered.                                                          *)
LEMMA SizeStep ==
    ASSUME BaseInv, SizeInv, NEW p \in Procs, Moves(p), UNCHANGED <<closed, jobs>>,
           SeenSize(p)', AtRight(p)', QuotaRight(p)', CountInv',
           \A q \in Procs \ {p} : /\ SeenSize(q)'
                                  /\ pc[q] = "write" => SizeOf(dir)' = SizeOf(dir)
    PROVE  SizeInv'
<1>1. ASSUME NEW q \in Procs \ {p} PROVE AtRight(q)' /\ QuotaRight(q)'
  <2>1. pc'[q] = pc[q] /\ loc'[q] = loc[q] /\ AtRight(q) /\ QuotaRight(q)
    BY DEF Moves, SizeInv
  <2>2. AtRight(q)'
    BY <2>1 DEF AtRight, Aim
  <2>3. Weight(q)' = Weight(q) /\ max_mailsize' = max_mailsize
    BY <2>1 DEF Weight, max_mailsize
  <2>4. QuotaRight(q)'
    BY <2>1, <2>3 DEF QuotaRight
  <2>5. QED
    BY <2>2, <2>4
<1>2. QED
  BY <1>1 DEF SizeInv

LEMMA SeenStays ==
    ASSUME SizeInv, NEW p \in Procs, Moves(p), jobs' = jobs, dir' = dir
    PROVE  \A q \in Procs \ {p} : SeenSize(q)'
<1>1. SUFFICES ASSUME NEW q \in Procs \ {p} PROVE SeenSize(q)'
  OBVIOUS
<1>2. pc'[q] = pc[q] /\ loc'[q] = loc[q] /\ SeenSize(q)
  BY DEF Moves, SizeInv
<1>3. QED
  BY <1>2 DEF SeenSize

(* Most steps: the index and the counter stay, or the counter is given up. *)
LEMMA CountQuiet ==
    ASSUME BaseInv, SizeInv, NEW p \in Procs, Moves(p), dir' = dir,
           mailsize' = mailsize, \A q \in Procs : q # p => (lock' = q <=> lock = q),
           pc[p] \notin {"write", "sweep"}, pc'[p] \notin {"write", "sweep"},
           pc[p] = "calc" => lock # p
    PROVE  CountInv'
<1>1. ASSUME NEW q \in Procs, q # p
      PROVE  /\ pc'[q] = pc[q] /\ (lock' = q <=> lock = q) /\ Weight(q)' = Weight(q)
             /\ Swept(q)' = Swept(q)
  <2>1. pc'[q] = pc[q] /\ loc'[q] = loc[q]
    BY <1>1 DEF Moves
  <2>2. QED
    BY <1>1, <2>1 DEF Weight, Swept, Selected
<1>2. CASE Counted
  <2>1. \A q \in Procs : pc'[q] \notin {"write", "sweep"}
    BY <1>1, <1>2 DEF Counted
  <2>2. QED
    BY <1>2, <2>1 DEF Counted, CountInv
<1>3. ASSUME NEW q \in Procs, Counting(q) PROVE Counting(q)'
  <2>1. q # p
    BY <1>3 DEF Counting
  <2>2. QED
    BY <1>1, <1>3, <2>1 DEF Counting
<1>4. QED
  BY <1>2, <1>3 DEF SizeInv, CountInv

LEMMA SizeQuiet ==
    ASSUME BaseInv, SizeInv, NEW p \in Procs, Moves(p), UNCHANGED <<dir, closed, jobs>>,
           \/ mailsize' = -2
           \/ mailsize' = mailsize /\ pc[p] \notin {"write", "sweep"},
           \A q \in Procs : q # p => (lock' = q <=> lock = q),
           pc'[p] \notin {"write", "sweep"}, pc[p] = "calc" => lock # p,
           SeenSize(p)', AtRight(p)'
    PROVE  SizeInv'
<1>1. CountInv'
  <2>1. CASE mailsize' = -2
    BY <2>1 DEF CountInv
  <2>2. CASE mailsize' = mailsize /\ pc[p] \notin {"write", "sweep"}
    BY <2>2, CountQuiet
  <2>3. QED
    BY <2>1, <2>2
<1>2. QuotaRight(p)'
  BY DEF QuotaRight
<1>3. \A q \in Procs \ {p} : SeenSize(q)'
  BY SeenStays
<1>4. QED
  BY <1>1, <1>2, <1>3, SizeStep

(* The counter is right after the step. *)
LEMMA SizeCounted ==
    ASSUME BaseInv, SizeInv, NEW p \in Procs, Moves(p), UNCHANGED <<closed, jobs>>,
           lock = p, pc'[p] \notin {"idle", "calc", "count", "write", "sweep", "sweeplock"}
                     \/ (pc'[p] = "idle" /\ loc'[p].list = <<>>),
           NoLimit \/ mailsize' = -2 \/ mailsize' = SizeOf(dir)',
           \A q \in Procs \ {p} : SeenSize(q)'
    PROVE  SizeInv'
<1>1. ASSUME NEW q \in Procs \ {p} PROVE pc'[q] = pc[q] /\ pc[q] \notin {"write", "sweep"}
  BY LockedOut DEF Moves, Inside
<1>2. CountInv'
  BY <1>1 DEF CountInv, Counted
<1>3. SeenSize(p)' /\ AtRight(p)' /\ QuotaRight(p)'
  BY DEF SeenSize, AtRight, Aim, QuotaRight
<1>4. QED
  BY <1>1, <1>2, <1>3, SizeStep

LEMMA StutterSize ==
    ASSUME SizeInv, UNCHANGED <<dir, closed, jobs, lock, pc, loc>>,
           mailsize' = mailsize \/ mailsize' = -2
    PROVE  SizeInv'
<1>1. ASSUME NEW q \in Procs
      PROVE  Weight(q)' = Weight(q) /\ Swept(q)' = Swept(q) /\ Aim(q)' = Aim(q)
  BY DEF Weight, Swept, Selected, Aim
<1>2. CountInv'
  <2>1. CASE mailsize' = -2
    BY <2>1 DEF CountInv
  <2>2. CASE mailsize' = mailsize
    <3>1. \A q \in Procs : Counting(q) => Counting(q)'
      BY <1>1, <2>2 DEF Counting
    <3>2. Counted => Counted'
      BY <2>2 DEF Counted
    <3>3. QED
      BY <2>2, <3>1, <3>2 DEF SizeInv, CountInv
  <2>3. QED
    BY <2>1, <2>2
<1>3. max_mailsize' = max_mailsize
  BY DEF max_mailsize
<1>4. ASSUME NEW q \in Procs PROVE SeenSize(q)' /\ AtRight(q)' /\ QuotaRight(q)'
  BY <1>1, <1>3 DEF SizeInv, SeenSize, AtRight, QuotaRight
<1>5. QED
  BY <1>2, <1>4 DEF SizeInv

-----------------------------------------------------------------------------
(* Steps that leave the index and the counter. *)
LEMMA GotoSize ==
    ASSUME BaseInv, SizeInv, NEW p \in Procs, Moves(p), UNCHANGED <<dir, mailsize, closed, jobs>>,
           \A q \in Procs : q # p => (lock' = q <=> lock = q),
           pc[p] \notin {"calc", "count", "write", "sweep"},
           \/ pc'[p] \in {"charge", "remove", "dellock", "pop"}
           \/ pc'[p] = "idle" /\ loc'[p].list = <<>>
    PROVE  SizeInv'
<1>1. SeenSize(p)' /\ AtRight(p)' /\ pc'[p] \notin {"write", "sweep"}
  BY DEF SeenSize, AtRight, Aim
<1>2. UNCHANGED <<dir, closed, jobs>> /\ mailsize' = mailsize
  OBVIOUS
<1>3. QED
  BY <1>1, <1>2, SizeQuiet

LEMMA ReturnSize ==
    ASSUME BaseInv, SizeInv, NEW p \in Procs, Return(p), UNCHANGED <<dir, mailsize, closed, jobs>>,
           (lock = p /\ lock' = Nobody) \/ lock' = lock,
           pc[p] \notin {"calc", "count", "write", "sweep"}
    PROVE  SizeInv'
<1>1. Moves(p) /\ pc'[p] = "idle" /\ loc'[p].list = <<>>
  BY ReturnIs, NoLocalsIs DEF BaseInv
<1>2. \A q \in Procs : q # p => (lock' = q <=> lock = q)
  BY FreeStep
<1>3. QED
  BY <1>1, <1>2, GotoSize

LEMMA CalcLockSize == ASSUME BaseInv, SizeInv, NEW p \in Procs, CalcLock(p) PROVE SizeInv'
<1>1. /\ pc[p] = "calc" /\ lock = Nobody /\ lock' = p /\ Goto(p, "count")
      /\ UNCHANGED <<dir, files, mailsize, closed, jobs, now, loc>> /\ "count" \in Where
  BY DEF CalcLock, Locks, Where
<1>2. Moves(p) /\ pc'[p] = "count" /\ loc'[p] = loc[p]
  BY <1>1, GotoIs DEF BaseInv
<1>3. lock # p /\ UNCHANGED <<dir, closed, jobs>> /\ mailsize' = mailsize
      /\ \A q \in Procs : q # p => (lock' = q <=> lock = q)
  BY <1>1, Constants
<1>4. SeenSize(p)' /\ AtRight(p)'
  <2>1. AtRight(p) /\ Aim(p)' = Aim(p)
    BY <1>1, <1>2 DEF SizeInv, Aim
  <2>2. QED
    BY <1>2, <2>1 DEF SeenSize, AtRight
<1>5. QED
  BY <1>1, <1>2, <1>3, <1>4, SizeQuiet

(* A recount ends: this is where the counter is right again. *)
LEMMA CalcWriteSize ==
    ASSUME BaseInv, SizeInv, Small, NEW p \in Procs, CalcWrite(p) PROVE SizeInv'
<1>1. /\ pc[p] = "count" /\ lock = p /\ mailsize' = calc_mailsize(dir)
      /\ UNCHANGED <<dir, files, closed, jobs, now>> /\ Moves(p)
      /\ pc'[p] \in Begins /\ loc'[p].at = loc[p].at /\ pc'[p] = Aim(p)
      /\ (pc'[p] = "idle" => loc'[p].list = <<>>)
  BY CalcWriteIs
<1>2. mailsize' = SizeOf(dir)
  <2>1. SizeOf(dir) \in Nat /\ ShrtMax \in Nat
    BY TypedIs, SizeInNat, Constants DEF BaseInv
  <2>2. QED
    BY <1>1, <2>1 DEF Small, calc_mailsize
<1>3. pc'[p] \notin {"write", "sweep", "calc", "count"}
  BY <1>1, BeginsIs
<1>4. CountInv'
  <2>1. \A q \in Procs \ {p} : pc'[q] \notin {"write", "sweep"}
    BY <1>1, LockedOut DEF Moves, Inside
  <2>2. QED
    BY <1>1, <1>2, <1>3, <2>1 DEF CountInv, Counted
<1>5. SeenSize(p)' /\ QuotaRight(p)'
  BY <1>1, <1>3 DEF SeenSize, QuotaRight
<1>6. AtRight(p)'
  <2>1. AtRight(p) /\ Aim(p)' = Aim(p)
    BY <1>1, <1>3 DEF SizeInv, Aim
  <2>2. QED
    BY <1>1, <2>1 DEF AtRight
<1>7. \A q \in Procs \ {p} : SeenSize(q)'
  BY <1>1, SeenStays
<1>8. QED
  BY <1>1, <1>4, <1>5, <1>6, <1>7, SizeStep

LEMMA RecountSize == ASSUME BaseInv, SizeInv, NEW p \in Procs, Recount(p) PROVE SizeInv'
<1>1. /\ pc[p] \in {"charge", "remove", "sweep", "resize"} /\ pc'[p] = "calc" /\ mailsize = -2
      /\ Aim(p)' = pc[p]
      /\ Moves(p) /\ UNCHANGED <<dir, files, lock, mailsize, closed, jobs, now>>
  BY RecountIs
<1>2. SeenSize(p)' /\ UNCHANGED <<dir, closed, jobs>>
      /\ \A q \in Procs : q # p => (lock' = q <=> lock = q)
  BY <1>1 DEF SeenSize
<1>3. AtRight(p)'
  BY <1>1 DEF AtRight
<1>4. QED
  BY <1>1, <1>2, <1>3, SizeQuiet

(* An operation begins. *)
LEMMA BeginSize ==
    ASSUME BaseInv, SizeInv, NEW p \in Procs, NEW w \in Begins, NEW l \in Locals,
           get_mailsize(p, w, l), pc[p] = "idle", w = "idle" => l.list = <<>>,
           w = "sweeplock" => l.at = 0,
           UNCHANGED <<dir, files, lock, mailsize, closed, jobs, now>>
    PROVE  SizeInv'
<1>1. w \notin {"sweep", "unlink", "charge", "write"} /\ w \in Where \ {"calc", "count"}
  BY BeginsIs
<1>2. /\ Moves(p) /\ pc'[p] = (IF mailsize = -2 THEN "calc" ELSE w)
      /\ loc'[p].list = l.list /\ loc'[p].at = l.at /\ Aim(p)' = w
  BY <1>1, GetIs DEF BaseInv
<1>3. pc'[p] \notin {"write", "sweep"} /\ (pc'[p] = "idle" => w = "idle")
  BY <1>1, <1>2
<1>4. SeenSize(p)' /\ AtRight(p)'
  BY <1>2, <1>3 DEF SeenSize, AtRight
<1>5. UNCHANGED <<dir, closed, jobs>> /\ mailsize' = mailsize
      /\ \A q \in Procs : q # p => (lock' = q <=> lock = q)
  OBVIOUS
<1>6. QED
  BY <1>2, <1>3, <1>4, <1>5, SizeQuiet

LEMMA AskSizeSize == ASSUME BaseInv, SizeInv, NEW p \in Procs, AskSize(p) PROVE SizeInv'
<1>1. /\ pc[p] = "idle" /\ get_mailsize(p, "idle", NoLocals) /\ "idle" \in Begins
      /\ UNCHANGED <<dir, files, lock, mailsize, closed, jobs, now>>
  BY DEF AskSize, Does, Begins
<1>2. QED
  BY <1>1, NoLocalsIs, BeginSize

LEMMA SendSize == ASSUME BaseInv, SizeInv, NEW p \in Procs, Send(p) PROVE SizeInv'
<1>1. /\ pc[p] = "idle" /\ UNCHANGED <<dir, files, lock, mailsize, closed, jobs, now>>
      /\ \E l \in Locals : get_mailsize(p, "append", l)
  BY SendIs
<1>2. "append" \in Begins /\ "append" # "idle" /\ "append" # "sweeplock"
  BY DEF Begins
<1>3. QED
  BY <1>1, <1>2, BeginSize

LEMMA MailDelSize == ASSUME BaseInv, SizeInv, NEW p \in Procs, MailDel(p) PROVE SizeInv'
<1>1. /\ pc[p] = "idle" /\ UNCHANGED <<dir, files, lock, mailsize, closed, jobs, now>>
      /\ \E l \in Locals : get_mailsize(p, "dellock", l)
  BY MailDelIs
<1>2. "dellock" \in Begins /\ "dellock" # "idle" /\ "dellock" # "sweeplock"
  BY DEF Begins
<1>3. QED
  BY <1>1, <1>2, BeginSize

LEMMA PopLoginSize == ASSUME BaseInv, SizeInv, NEW p \in Procs, PopLogin(p) PROVE SizeInv'
<1>1. /\ pc[p] = "idle" /\ get_mailsize(p, "login", NoLocals) /\ "login" \in Begins
      /\ UNCHANGED <<dir, files, lock, mailsize, closed, jobs, now>>
  BY DEF PopLogin, Does, Begins
<1>2. QED
  BY <1>1, NoLocalsIs, BeginSize

LEMMA SelSize ==
    ASSUME BaseInv, SizeInv, NEW p \in Procs, NEW s \in Choice, pc[p] = "idle",
           get_mailsize(p, "sweeplock", [NoLocals EXCEPT !.sel = s]),
           UNCHANGED <<dir, files, lock, mailsize, closed, jobs, now>>
    PROVE  SizeInv'
<1>1. PICK l : l = [NoLocals EXCEPT !.sel = s]
  OBVIOUS
<1>2. l \in Locals /\ "sweeplock" \in Begins /\ "sweeplock" # "idle"
  BY <1>1, NoLocalsIs, LocalsSet DEF Begins
<1>3. l.at = 0
  BY <1>1, NoLocalsIs DEF Locals
<1>4. get_mailsize(p, "sweeplock", l)
  BY <1>1
<1>5. QED
  BY <1>2, <1>3, <1>4, BeginSize

LEMMA DelRangeSize == ASSUME BaseInv, SizeInv, NEW p \in Procs, DelRange(p) PROVE SizeInv'
BY DelRangeSel, SelSize

LEMMA bbsdelmailSize == ASSUME BaseInv, SizeInv, NEW p \in Procs, bbsdelmail(p) PROVE SizeInv'
BY bbsdelmailSel, SelSize

LEMMA FixMailsizeSize == ASSUME SizeInv, NEW p \in Procs, FixMailsize(p) PROVE SizeInv'
BY StutterSize DEF FixMailsize

LEMMA TickSize == ASSUME SizeInv, Tick PROVE SizeInv'
BY StutterSize DEF Tick

LEMMA ViewSize == ASSUME BaseInv, SizeInv, NEW p \in Procs, View(p) PROVE SizeInv'
<1>1. /\ pc[p] = "idle" /\ Moves(p) /\ pc'[p] = "idle"
      /\ UNCHANGED <<dir, files, lock, mailsize, closed, jobs, now, pc>>
  BY ViewIs
<1>2. PICK i \in DOMAIN dir : loc'[p].list = <<[ent |-> i, fh |-> dir[i]]>>
  BY ViewIs
<1>3. loc'[p].list[1].ent = i /\ loc'[p].list[1].fh = dir[i]
  BY <1>2
<1>4. SeenSize(p)' /\ AtRight(p)'
  BY <1>1, <1>3 DEF SeenSize, AtRight, Aim
<1>5. UNCHANGED <<dir, closed, jobs>> /\ mailsize' = mailsize
      /\ \A q \in Procs : q # p => (lock' = q <=> lock = q)
  BY <1>1
<1>6. pc'[p] \notin {"write", "sweep"} /\ pc[p] \notin {"write", "sweep", "calc"}
  BY <1>1
<1>7. QED
  BY <1>1, <1>4, <1>5, <1>6, SizeQuiet

LEMMA PopSize == ASSUME BaseInv, SizeInv, NEW p \in Procs, Pops(p) PROVE SizeInv'
<1>1. /\ pc[p] \in {"login", "pop"} /\ Moves(p) /\ pc'[p] = "pop"
      /\ UNCHANGED <<dir, files, lock, mailsize, closed, jobs, now>>
  BY DEF Pops
<1>2. UNCHANGED <<dir, mailsize, closed, jobs>> /\ lock' = lock
  BY <1>1
<1>3. QED
  BY <1>1, <1>2, GotoSize

LEMMA QuitSize == ASSUME BaseInv, SizeInv, NEW p \in Procs, Quit(p) PROVE SizeInv'
<1>1. pc[p] = "pop" /\ UNCHANGED <<dir, mailsize, closed, jobs>> /\ lock' = lock
  BY QuitIs
<1>2. CASE Return(p)
  BY <1>1, <1>2, ReturnSize
<1>3. CASE Moves(p) /\ pc'[p] = "dellock"
  BY <1>1, <1>3, GotoSize
<1>4. QED
  BY <1>2, <1>3, QuitIs

-----------------------------------------------------------------------------
(* Deliveries and deletions that leave the index. *)
LEMMA AppendLockSize == ASSUME BaseInv, SizeInv, NEW p \in Procs, AppendLock(p) PROVE SizeInv'
<1>1. /\ pc[p] = "append" /\ lock = Nobody /\ lock' = p /\ Moves(p) /\ pc'[p] = "charge"
      /\ UNCHANGED <<dir, mailsize, closed, jobs, now>>
  BY AppendLockIs
<1>2. UNCHANGED <<dir, mailsize, closed, jobs>>
  BY <1>1
<1>3. QED
  BY <1>1, <1>2, FreeStep, GotoSize

LEMMA AppendFailsSize == ASSUME BaseInv, SizeInv, NEW p \in Procs, AppendFails(p) PROVE SizeInv'
<1>1. /\ pc[p] = "append" /\ Return(p) /\ UNCHANGED <<dir, mailsize, closed, jobs>> /\ lock' = lock
  BY DEF AppendFails
<1>2. QED
  BY <1>1, ReturnSize

LEMMA RefuseSize == ASSUME BaseInv, SizeInv, NEW p \in Procs, Refuse(p) PROVE SizeInv'
<1>1. /\ pc[p] = "charge" /\ Return(p) /\ UNCHANGED <<dir, mailsize, closed, jobs>> /\ lock' = Nobody
  BY DEF Refuse
<1>2. lock = p
  BY <1>1, FitsIs DEF Inside
<1>3. QED
  BY <1>1, <1>2, ReturnSize

LEMMA SendBodySize == ASSUME BaseInv, SizeInv, NEW p \in Procs, SendBody(p) PROVE SizeInv'
<1>1. /\ pc[p] = "body" /\ Return(p) /\ UNCHANGED <<dir, mailsize, closed, jobs>> /\ lock' = lock
  BY DEF SendBody
<1>2. QED
  BY <1>1, ReturnSize

LEMMA DelLockSize == ASSUME BaseInv, SizeInv, NEW p \in Procs, DelLock(p) PROVE SizeInv'
<1>1. /\ pc[p] = "dellock" /\ lock = Nobody /\ lock' = p /\ Goto(p, "remove")
      /\ UNCHANGED <<dir, files, mailsize, closed, jobs, now, loc>> /\ "remove" \in Where
  BY DEF DelLock, Locks, Where
<1>2. Moves(p) /\ pc'[p] = "remove" /\ UNCHANGED <<dir, mailsize, closed, jobs>>
  BY <1>1, GotoIs DEF BaseInv
<1>3. QED
  BY <1>1, <1>2, FreeStep, GotoSize

LEMMA AdvanceSize ==
    ASSUME BaseInv, SizeInv, NEW p \in Procs, Advance(p), pc[p] \in {"remove", "unlink"},
           UNCHANGED <<dir, mailsize, closed, jobs>>,
           (lock = p /\ lock' = Nobody) \/ lock' = lock
    PROVE  SizeInv'
<1>1. CASE Return(p)
  BY <1>1, ReturnSize
<1>2. CASE Moves(p) /\ pc'[p] = "dellock"
  BY <1>2, FreeStep, GotoSize
<1>3. QED
  BY <1>1, <1>2, VictimIs, AdvanceIs DEF BaseInv

LEMMA DelNotFoundSize == ASSUME BaseInv, SizeInv, NEW p \in Procs, DelNotFound(p) PROVE SizeInv'
<1>1. /\ pc[p] = "remove" /\ lock' = Nobody /\ Advance(p)
      /\ UNCHANGED <<dir, mailsize, closed, jobs>>
  BY DEF DelNotFound
<1>2. lock = p
  BY <1>1, FitsIs DEF Inside
<1>3. QED
  BY <1>1, <1>2, AdvanceSize

LEMMA DelDiesSize == ASSUME BaseInv, SizeInv, NEW p \in Procs, DelDies(p) PROVE SizeInv'
<1>1. /\ pc[p] = "remove" /\ lock' = Nobody /\ Return(p)
      /\ UNCHANGED <<dir, mailsize, closed, jobs>>
  BY DEF DelDies
<1>2. lock = p
  BY <1>1, FitsIs DEF Inside
<1>3. QED
  BY <1>1, <1>2, ReturnSize

LEMMA DelUnlinkSize == ASSUME BaseInv, SizeInv, NEW p \in Procs, DelUnlink(p) PROVE SizeInv'
<1>1. /\ pc[p] = "unlink" /\ Advance(p) /\ UNCHANGED <<dir, mailsize, closed, jobs>> /\ lock' = lock
  BY DEF DelUnlink
<1>2. QED
  BY <1>1, AdvanceSize

-----------------------------------------------------------------------------
(* Nobody edits. *)
LEMMA NobodyEdits ==
    ASSUME NoEdits, BaseInv, NEW p \in Procs PROVE ~EditSave(p) /\ ~Edit(p)
<1>1. "edit" \notin jobs[p]
  BY TypedIs DEF NoEdits, BaseInv
<1>2. ~EditSave(p)
  BY <1>1 DEF EditSave, Does
<1>3. pc[p] \notin {"editlock", "resize"}
  BY <1>1, FitsIs DEF Fits, HasJob
<1>4. ~Edit(p)
  BY <1>3 DEF Edit, EditLock, EditResize, EditNotFound
<1>5. QED
  BY <1>2, <1>4

(* While somebody deletes nobody else is going to mark. *)
LEMMA SeenNone ==
    ASSUME FreshMarks, BaseInv, NEW p \in Procs, jobs[p] \cap DeleteJobs # {},
           Moves(p), jobs' = jobs
    PROVE  \A q \in Procs \ {p} : SeenSize(q)'
<1>1. ASSUME NEW q \in Procs \ {p} PROVE "mark" \notin jobs[q]
  BY FreshIs
<1>2. QED
  BY <1>1 DEF SeenSize

LEMMA WriteCounted ==
    ASSUME BaseInv, SizeInv, ~NoLimit, mailsize # -2, NEW p \in Procs, pc[p] = "write"
    PROVE  mailsize = SizeOf(dir) + Weight(p) \/ SizeOf(dir) + Weight(p) > ShrtMax
<1>1. lock = p
  BY FitsIs DEF Inside
<1>2. ASSUME NEW q \in Procs, Counting(q) PROVE q = p
  <2>1. lock = q
    BY <1>2, FitsIs DEF Counting, Inside
  <2>2. QED
    BY <1>1, <2>1
<1>3. Counting(p)
  BY <1>2 DEF SizeInv, CountInv, Counted
<1>4. QED
  BY <1>3 DEF Counting

(* A new mail is charged before it is entered. *)
LEMMA ChargeSize == ASSUME BaseInv, SizeInv, NEW p \in Procs, Charge(p) PROVE SizeInv'
<1>1. /\ pc[p] = "charge" /\ Goto(p, "write") /\ loc' = loc /\ "write" \in Where
      /\ UNCHANGED <<dir, files, lock, closed, jobs, now, loc>>
      /\ ~NoLimit => mailsize # -2 /\ (loc[p].mail.sysmail \/ Room(loc[p].mail))
      /\ ~NoLimit => mailsize' = update_mailsize_up(loc[p].mail)
  BY DEF Charge, Where
<1>2. Moves(p) /\ pc'[p] = "write" /\ loc'[p] = loc[p]
  BY <1>1, GotoIs DEF BaseInv
<1>3. PICK s, w : s = SizeOf(dir) /\ w = Weight(p)
  OBVIOUS
<1>4. s \in Nat /\ w \in Nat /\ ShrtMax \in Nat
  BY <1>3, TypedIs, SizeInNat, WeightIs, Constants DEF BaseInv, Weight
<1>5. ~NoLimit => mailsize = s
  <2>1. lock = p
    BY <1>1, FitsIs DEF Inside
  <2>2. QED
    BY <1>1, <1>3, <2>1, CountedIs
<1>6. SizeOf(dir)' = s /\ Weight(p)' = w /\ max_mailsize' = max_mailsize
  BY <1>1, <1>3 DEF Weight, max_mailsize
<1>7. CountInv'
  <2>1. CASE NoLimit
    BY <2>1 DEF CountInv
  <2>2. CASE ~NoLimit
    <3>1. mailsize' = (IF mailsize = -1 \/ w + mailsize > ShrtMax THEN -1 ELSE mailsize + w)
      BY <1>1, <1>3, <2>2 DEF update_mailsize_up, Weight
    <3>2. mailsize' = s + w \/ s + w > ShrtMax
      BY <1>4, <1>5, <2>2, <3>1
    <3>3. Counting(p)'
      BY <1>2, <1>6, <3>2 DEF Counting
    <3>4. QED
      BY <3>3 DEF CountInv
  <2>3. QED
    BY <2>1, <2>2
<1>8. QuotaRight(p)'
  <2>1. SUFFICES ASSUME ~loc[p].mail.sysmail, ~NoLimit PROVE s + w <= max_mailsize
    BY <1>1, <1>2, <1>6 DEF QuotaRight
  <2>2. w + mailsize <= max_mailsize
    BY <1>1, <1>3, <2>1 DEF Room, Weight
  <2>3. QED
    BY <1>4, <1>5, <2>1, <2>2
<1>9. SeenSize(p)' /\ AtRight(p)'
  BY <1>2 DEF SeenSize, AtRight, Aim
<1>10. \A q \in Procs \ {p} : SeenSize(q)'
  BY <1>1, <1>2, SeenStays
<1>11. UNCHANGED <<closed, jobs>> /\ SizeOf(dir)' = SizeOf(dir)
  BY <1>1, <1>3, <1>6
<1>12. QED
  BY <1>2, <1>7, <1>8, <1>9, <1>10, <1>11, SizeStep

LEMMA AppendWriteGrows ==
    ASSUME BaseInv, NEW p \in Procs, AppendWrite(p)
    PROVE  SizeOf(dir)' = SizeOf(dir) + Weight(p)
<1>1. PICK h \in Header : h.size = Rounded(loc[p].mail.length) /\ dir' = Append(dir, h)
  BY AppendWriteIs
<1>2. SizeOf(Append(dir, h)) = SizeOf(dir) + Kilo(h.size)
  BY TypedIs, SizeAppend DEF BaseInv
<1>3. QED
  BY <1>1, <1>2 DEF Weight

LEMMA AppendWriteSize ==
    ASSUME BaseInv, BoxInv, SizeInv, Small', NEW p \in Procs, AppendWrite(p) PROVE SizeInv'
<1>1. /\ pc[p] = "write" /\ lock = p /\ Moves(p) /\ pc'[p] = "body"
      /\ UNCHANGED <<files, mailsize, closed, jobs, now, loc>>
      /\ \A i \in 1..Len(dir) : dir'[i] = dir[i]
  BY AppendWriteIs
<1>2. NoLimit \/ mailsize' = -2 \/ mailsize' = SizeOf(dir)'
  <2>1. PICK s, w : s = SizeOf(dir) /\ w = Weight(p)
    OBVIOUS
  <2>2. SizeOf(dir)' = s + w /\ s + w <= ShrtMax
    BY <2>1, AppendWriteGrows DEF Small
  <2>3. s \in Nat /\ w \in Nat /\ ShrtMax \in Nat
    BY <2>1, TypedIs, SizeInNat, WeightIs, Constants DEF BaseInv, Weight
  <2>4. NoLimit \/ mailsize = -2 \/ mailsize = s + w \/ s + w > ShrtMax
    BY <1>1, <2>1, WriteCounted
  <2>5. QED
    BY <1>1, <2>2, <2>3, <2>4
<1>3. ASSUME NEW q \in Procs \ {p} PROVE SeenSize(q)'
  <2>1. SeenSize(q) /\ SeenRight(q) /\ pc'[q] = pc[q] /\ loc'[q] = loc[q]
    BY <1>1 DEF SizeInv, BoxInv, Moves
  <2>2. DOMAIN dir = 1..Len(dir)
    BY TypedIs, HeaderIs DEF BaseInv
  <2>3. QED
    BY <1>1, <2>1, <2>2 DEF SeenSize, SeenRight
<1>4. QED
  BY <1>1, <1>2, <1>3, SizeCounted

(* A mark on a line that has not moved keeps the sizes. *)
LEMMA MarkSize ==
    ASSUME FreshMarks, BaseInv, BoxInv, SizeInv, NEW p \in Procs, Mark(p) PROVE SizeInv'
<1>1. /\ pc[p] = "idle" /\ "mark" \in jobs[p] /\ loc[p].list # <<>> /\ Return(p)
      /\ UNCHANGED <<files, lock, mailsize, closed, jobs, now>>
      /\ dir' \in Seq(Header) /\ Len(dir') = Len(dir) /\ DOMAIN dir' = DOMAIN dir
  BY MarkAt, MarkIs
<1>2. PICK e \in DOMAIN dir : /\ e = loc[p].list[1].ent
                              /\ dir'[e].size = loc[p].list[1].fh.size
                              /\ \A i \in DOMAIN dir : i # e => dir'[i] = dir[i]
  BY MarkAt
<1>3. Moves(p) /\ pc'[p] = "idle" /\ loc'[p].list = <<>> /\ Aim(p)' = "idle"
  BY <1>1, ReturnIs, NoLocalsIs DEF BaseInv
<1>4. \A i \in DOMAIN dir : dir'[i].size = dir[i].size
  <2>1. dir[e].size = loc[p].list[1].fh.size
    BY <1>1, <1>2 DEF SizeInv, SeenSize
  <2>2. QED
    BY <1>2, <2>1
<1>5. SizeOf(dir)' = SizeOf(dir)
  BY <1>1, <1>4, TypedIs, SizeSame DEF BaseInv
<1>6. ASSUME NEW q \in Procs PROVE pc[q] # "sweep" /\ pc'[q] # "sweep"
  <2>1. pc[q] # "sweep"
    BY <1>1, SweepReads, FreshIs
  <2>2. QED
    BY <1>3, <2>1 DEF Moves
<1>7. CountInv'
  <2>1. ASSUME NEW q \in Procs, Counting(q) PROVE Counting(q)'
    <3>1. q # p
      BY <1>1, <2>1 DEF Counting
    <3>2. pc'[q] = pc[q] /\ lock' = lock /\ mailsize' = mailsize /\ Weight(q)' = Weight(q)
      BY <1>1, <1>3, <3>1 DEF Moves, Weight
    <3>3. QED
      BY <1>5, <1>6, <2>1, <3>2 DEF Counting
  <2>2. Counted => Counted'
    BY <1>1, <1>3, <1>5 DEF Counted, Moves
  <2>3. mailsize' = mailsize
    BY <1>1
  <2>4. QED
    BY <2>1, <2>2, <2>3 DEF SizeInv, CountInv
<1>8. ASSUME NEW q \in Procs \ {p} PROVE SeenSize(q)'
  <2>1. SeenSize(q) /\ SeenRight(q) /\ pc'[q] = pc[q] /\ loc'[q] = loc[q] /\ jobs' = jobs
    BY <1>1, <1>3 DEF SizeInv, BoxInv, Moves
  <2>2. QED
    BY <1>4, <2>1 DEF SeenSize, SeenRight
<1>9. SeenSize(p)' /\ AtRight(p)' /\ QuotaRight(p)' /\ UNCHANGED <<closed, jobs>>
  BY <1>1, <1>3 DEF SeenSize, AtRight, QuotaRight
<1>10. QED
  BY <1>3, <1>5, <1>7, <1>8, <1>9, SizeStep

(* Deletions that cut the index. *)
LEMMA DownExact ==
    ASSUME ~NoLimit, NEW s \in Nat, NEW h, Kilo(h.size) \in Nat, NEW c \in Numbers,
           c = s + Kilo(h.size)
    PROVE  update_mailsize_down(c, h) = s
<1>1. PICK k : k = Kilo(h.size)
  OBVIOUS
<1>2. k \in Nat /\ c = s + k /\ c \in Int /\ c <= ShrtMax /\ ShrtMax \in Nat
  BY <1>1, Constants DEF Numbers
<1>3. c # -1 /\ ~(c < k) /\ ~(c - k > ShrtMax) /\ c - k = s
  BY <1>2
<1>4. QED
  BY <1>1, <1>3 DEF update_mailsize_down

LEMMA DelRemoveSize ==
    ASSUME FreshMarks, BaseInv, BoxInv, SizeInv, NEW p \in Procs, DelRemove(p) PROVE SizeInv'
<1>1. /\ pc[p] = "remove" /\ lock = p /\ Moves(p) /\ pc'[p] = "unlink"
      /\ UNCHANGED <<files, closed, jobs, now>> /\ (~NoLimit => mailsize # -2)
  BY DelRemoveIs
<1>2. PICK i \in DOMAIN dir : /\ mailsize' = update_mailsize_down(mailsize, dir[i])
                              /\ dir' = Without(dir, {i}) /\ dir' \in Seq(Header)
  BY DelRemoveIs
<1>3. dir \in Seq(Header) /\ mailsize \in Numbers
  BY TypedIs DEF BaseInv
<1>4. SizeOf(dir) = SizeOf(dir)' + Kilo(dir[i].size)
  <2>1. Without(dir, {}) = dir /\ {} \cup {i} = {i} /\ i \notin {}
    BY <1>3, WithoutNone
  <2>2. SizeOf(Without(dir, {})) = SizeOf(Without(dir, {} \cup {i})) + Kilo(dir[i].size)
    BY <1>3, WithoutOne
  <2>3. QED
    BY <1>2, <2>1, <2>2
<1>5. ~NoLimit => mailsize' = SizeOf(dir)'
  <2>1. SUFFICES ASSUME ~NoLimit PROVE mailsize' = SizeOf(dir)'
    OBVIOUS
  <2>2. mailsize = SizeOf(dir)
    BY <1>1, <2>1, CountedIs
  <2>3. SizeOf(dir') \in Nat /\ Kilo(dir[i].size) \in Nat
    BY <1>2, <1>3, SizeInNat, HeaderIs
  <2>4. PICK s \in Nat : s = SizeOf(dir')
    BY <2>3
  <2>5. mailsize = s + Kilo(dir[i].size)
    BY <1>4, <2>2, <2>4
  <2>6. update_mailsize_down(mailsize, dir[i]) = s
    BY <1>3, <2>1, <2>3, <2>5, DownExact
  <2>7. QED
    BY <1>2, <2>4, <2>6
<1>6. \A q \in Procs \ {p} : SeenSize(q)'
  <2>1. jobs[p] \cap DeleteJobs # {} /\ jobs' = jobs
    BY <1>1, VictimIs
  <2>2. QED
    BY <1>1, <2>1, SeenNone
<1>7. QED
  BY <1>1, <1>5, <1>6, SizeCounted

LEMMA SweepLockSize == ASSUME BaseInv, SizeInv, NEW p \in Procs, SweepLock(p) PROVE SizeInv'
<1>1. /\ pc[p] = "sweeplock" /\ lock = Nobody /\ Moves(p) /\ pc'[p] = "sweep"
      /\ loc'[p].read = dir /\ loc'[p].at = loc[p].at
      /\ UNCHANGED <<dir, files, mailsize, closed, jobs, now>>
  BY SweepLockIs
<1>2. dir \in Seq(Header) /\ DOMAIN dir = 1..Len(dir) /\ Len(dir) \in Nat
  BY TypedIs, HeaderIs DEF BaseInv
<1>3. Swept(p)' = {}
  <2>1. loc'[p].at = 0
    BY <1>1 DEF SizeInv, AtRight, Aim
  <2>2. \A i \in DOMAIN dir : ~(i <= 0)
    BY <1>2
  <2>3. Selected(p)' \subseteq DOMAIN dir
    BY <1>1 DEF Selected
  <2>4. QED
    BY <2>1, <2>2, <2>3 DEF Swept
<1>4. CountInv'
  <2>1. CASE NoLimit \/ mailsize = -2
    BY <1>1, <2>1 DEF CountInv
  <2>2. CASE ~NoLimit /\ mailsize # -2
    <3>1. \A q \in Procs : lock # q
      BY <1>1, Constants
    <3>2. mailsize = SizeOf(dir)
      BY <2>2, <3>1, CountedIs
    <3>3. Without(dir, Swept(p))' = dir
      BY <1>1, <1>2, <1>3, WithoutNone
    <3>4. Counting(p)'
      BY <1>1, <3>2, <3>3 DEF Counting
    <3>5. QED
      BY <3>4 DEF CountInv
  <2>3. QED
    BY <2>1, <2>2
<1>5. SeenSize(p)' /\ AtRight(p)' /\ QuotaRight(p)' /\ UNCHANGED <<closed, jobs>>
  BY <1>1 DEF SeenSize, AtRight, Aim, QuotaRight
<1>6. \A q \in Procs \ {p} : SeenSize(q)'
  BY <1>1, SeenStays
<1>7. SizeOf(dir)' = SizeOf(dir)
  BY <1>1
<1>8. QED
  BY <1>1, <1>4, <1>5, <1>6, <1>7, SizeStep

(* One more line is charged back. *)
LEMMA SweptGrows ==
    ASSUME BaseInv, BoxInv, NEW p \in Procs, pc[p] = "sweep", NEW i \in Ahead(p),
           \A j \in Ahead(p) : i <= j, loc'[p].read = loc[p].read, loc'[p].sel = loc[p].sel,
           loc'[p].at = i
    PROVE  Swept(p)' = Swept(p) \cup {i} /\ i \notin Swept(p) /\ i \in DOMAIN dir
<1>1. loc[p].read = dir /\ Selected(p) \subseteq DOMAIN dir
  BY SweepReads
<1>2. DOMAIN dir \subseteq Nat /\ loc[p].at \in Nat
  BY TypedIs, HeaderIs DEF BaseInv
<1>3. Selected(p)' = Selected(p)
  BY DEF Selected
<1>4. i \in Selected(p) /\ i > loc[p].at /\ i \in Nat /\ i \in DOMAIN dir
  BY <1>1, <1>2 DEF Ahead
<1>5. \A j \in Selected(p) : j > loc[p].at => j \in Ahead(p)
  BY <1>1 DEF Ahead, BoxInv, NameInv
<1>6. ASSUME NEW j \in Selected(p) PROVE j <= i <=> j <= loc[p].at \/ j = i
  <2>1. j \in Nat /\ (j > loc[p].at => i <= j)
    BY <1>1, <1>2, <1>5
  <2>2. QED
    BY <1>2, <1>4, <2>1
<1>7. Swept(p)' = {j \in Selected(p) : j <= i}
  BY <1>3 DEF Swept
<1>8. i \notin Swept(p)
  BY <1>2, <1>4 DEF Swept
<1>9. QED
  BY <1>4, <1>6, <1>7, <1>8 DEF Swept

LEMMA SweepOneSize ==
    ASSUME FreshMarks, BaseInv, BoxInv, SizeInv, NEW p \in Procs, SweepOne(p) PROVE SizeInv'
<1>1. /\ pc[p] = "sweep" /\ lock = p /\ Moves(p) /\ pc'[p] = "sweep"
      /\ UNCHANGED <<dir, lock, closed, jobs, now, pc>>
      /\ loc'[p].read = loc[p].read /\ loc'[p].sel = loc[p].sel
  BY SweepOneIs
<1>2. PICK i \in Ahead(p) : /\ \A j \in Ahead(p) : i <= j
                            /\ ~NoLimit => mailsize # -2
                            /\ mailsize' = update_mailsize_down(mailsize, loc[p].read[i])
                            /\ loc'[p].at = i
  BY SweepOneIs DEF FreshMarks
<1>3. Swept(p)' = Swept(p) \cup {i} /\ i \notin Swept(p) /\ i \in DOMAIN dir
  BY <1>1, <1>2, SweptGrows
<1>4. dir \in Seq(Header) /\ mailsize \in Numbers /\ loc[p].read = dir
  BY <1>1, SweepReads, TypedIs DEF BaseInv
<1>5. CountInv'
  <2>1. CASE NoLimit
    BY <2>1 DEF CountInv
  <2>2. CASE ~NoLimit
    <3>1. PICK r, t : r = Without(dir, Swept(p)) /\ t = Without(dir, Swept(p) \cup {i})
      OBVIOUS
    <3>2. mailsize = SizeOf(r)
      BY <1>1, <1>2, <2>2, <3>1, SweepCounted
    <3>3. SizeOf(r) = SizeOf(t) + Kilo(dir[i].size)
      BY <1>3, <1>4, <3>1, WithoutOne
    <3>4. SizeOf(t) \in Nat /\ Kilo(dir[i].size) \in Nat
      <4>1. t \in Seq(Header)
        BY <1>4, <3>1, WithoutHas
      <4>2. QED
        BY <1>3, <1>4, <4>1, SizeInNat, HeaderIs
    <3>5. mailsize' = SizeOf(t)
      <4>1. PICK s \in Nat : s = SizeOf(t)
        BY <3>4
      <4>2. mailsize = s + Kilo(dir[i].size)
        BY <3>2, <3>3, <4>1
      <4>3. update_mailsize_down(mailsize, dir[i]) = s
        BY <1>4, <2>2, <3>4, <4>2, DownExact
      <4>4. QED
        BY <1>2, <1>4, <4>1, <4>3
    <3>6. Without(dir, Swept(p))' = t
      BY <1>1, <1>3, <3>1
    <3>7. Counting(p)'
      BY <1>1, <3>5, <3>6 DEF Counting
    <3>8. QED
      BY <3>7 DEF CountInv
  <2>3. QED
    BY <2>1, <2>2
<1>6. SeenSize(p)' /\ AtRight(p)' /\ QuotaRight(p)' /\ UNCHANGED <<closed, jobs>>
  BY <1>1 DEF SeenSize, AtRight, Aim, QuotaRight
<1>7. \A q \in Procs \ {p} : SeenSize(q)'
  BY <1>1, SeenStays
<1>8. SizeOf(dir)' = SizeOf(dir)
  BY <1>1
<1>9. QED
  BY <1>1, <1>5, <1>6, <1>7, <1>8, SizeStep

LEMMA SweepEndSize ==
    ASSUME FreshMarks, BaseInv, BoxInv, SizeInv, NEW p \in Procs, SweepEnd(p) PROVE SizeInv'
<1>1. /\ pc[p] = "sweep" /\ lock = p /\ Return(p) /\ UNCHANGED <<files, mailsize, closed, jobs, now>>
  BY SweepEndIs
<1>2. dir' = Without(dir, Swept(p)) /\ jobs[p] \cap DeleteJobs # {}
  BY <1>1, SweepEndCuts, SweepReads
<1>3. Moves(p) /\ pc'[p] = "idle" /\ loc'[p].list = <<>>
  BY <1>1, ReturnIs, NoLocalsIs DEF BaseInv
<1>4. NoLimit \/ mailsize' = -2 \/ mailsize' = SizeOf(dir)'
  BY <1>1, <1>2, SweepCounted
<1>5. \A q \in Procs \ {p} : SeenSize(q)'
  BY <1>1, <1>2, <1>3, SeenNone
<1>6. QED
  BY <1>1, <1>3, <1>4, <1>5, SizeCounted

-----------------------------------------------------------------------------
LEMMA StepSize ==
    ASSUME FreshMarks, NoEdits, BaseInv, BoxInv, SizeInv, Small, Small', NEW p \in Procs, Step(p)
    PROVE  SizeInv'
<1>1. CASE Deliver(p)
  BY <1>1, AppendLockSize, AppendFailsSize, ChargeSize, RefuseSize, AppendWriteSize, SendBodySize
     DEF Deliver
<1>2. CASE Count(p)
  BY <1>2, CalcLockSize, CalcWriteSize, RecountSize DEF Count
<1>3. CASE Edit(p)
  BY <1>3, NobodyEdits
<1>4. CASE Delete(p)
  <2>1. ~DelMisses(p)
    BY DEF DelMisses, FreshMarks
  <2>2. QED
    BY <1>4, <2>1, DelLockSize, DelRemoveSize, DelNotFoundSize, DelDiesSize, DelUnlinkSize
       DEF Delete
<1>5. CASE Sweep(p)
  BY <1>5, SweepLockSize, SweepOneSize, SweepEndSize DEF Sweep
<1>6. QED
  BY <1>1, <1>2, <1>3, <1>4, <1>5 DEF Step

LEMMA ActsSize ==
    ASSUME FreshMarks, NoEdits, BaseInv, BoxInv, SizeInv, Small, Small', NEW p \in Procs, Acts(p)
    PROVE  SizeInv'
BY StepSize, AskSizeSize, FixMailsizeSize, SendSize, ViewSize, MarkSize, NobodyEdits, MailDelSize,
   PopLoginSize, Login_initIs, DeleIs, RsetIs, PopSize, QuitSize, DelRangeSize, bbsdelmailSize
   DEF Acts

LEMMA SizeEmpty == SizeOf(<<>>) = 0
<1>1. <<>> \in Seq(Header)
  BY EmptySeq
<1>2. PICK s : SumsTo(<<>>, s, Len(<<>>))
  BY <1>1, SumsExist
<1>3. Len(<<>>) = 0
  BY EmptySeq
<1>4. QED
  BY <1>1, <1>2, <1>3, SizeOfIs DEF SumsTo

LEMMA InitSize == Init => SizeInv
<1>1. SUFFICES ASSUME Init PROVE SizeInv
  OBVIOUS
<1>2. /\ dir = <<>> /\ mailsize \in {0, -2}
      /\ \A p \in Procs : pc[p] = "idle" /\ loc[p] = NoLocals
  BY <1>1 DEF Init
<1>3. CountInv
  BY <1>2, SizeEmpty DEF CountInv, Counted
<1>4. ASSUME NEW p \in Procs PROVE SeenSize(p) /\ AtRight(p) /\ QuotaRight(p)
  BY <1>2, NoLocalsIs DEF SeenSize, AtRight, Aim, QuotaRight
<1>5. QED
  BY <1>3, <1>4 DEF SizeInv

LEMMA NextSize ==
    ASSUME FreshMarks, NoEdits, BaseInv, BoxInv, SizeInv, Small, Small', [Next]_vars
    PROVE  SizeInv'
<1>1. CASE Tick
  BY <1>1, TickSize
<1>2. ASSUME NEW p \in Procs, Acts(p) PROVE SizeInv'
  BY <1>2, ActsSize
<1>3. CASE UNCHANGED vars
  BY <1>3, StutterSize DEF vars
<1>4. QED
  BY <1>1, <1>2, <1>3, NextIs

LEMMA SizeAlways == ASSUME FreshMarks, NoEdits PROVE Spec /\ []Small => []SizeInv
<1>1. BaseInv /\ BoxInv /\ SizeInv /\ Small /\ Small' /\ [Next]_vars => SizeInv'
  BY NextSize
<1>2. QED
  BY <1>1, InitSize, BaseAlways, BoxAlways, PTL DEF Spec

(* When none is at work on a mailbox with fresh marks and no edits, what   *)
(* the account says it holds is what its mails add up to, or a recount is  *)
(* due; the numbers are in their range, and every line has its file.       *)
THEOREM CounterIsRight ==
    ASSUME FreshMarks, NoEdits PROVE Spec /\ []Small => []BoxRight
<1>1. BaseInv /\ SizeInv => SizeRight
  <2>1. SUFFICES ASSUME BaseInv, SizeInv, lock = Nobody, ~NoLimit, mailsize # -2
                 PROVE  mailsize = SizeOf(dir)
    BY DEF SizeRight
  <2>2. \A p \in Procs : lock # p
    BY <2>1, Constants
  <2>3. QED
    BY <2>1, <2>2, CountedIs
<1>2. TypeOK /\ LinesHaveFiles /\ SizeRight => BoxRight
  BY DEF BoxRight
<1>3. QED
  BY <1>1, <1>2, BaseAlways, SizeAlways, MailboxTyped, FileForEveryLine, PTL

-----------------------------------------------------------------------------
(***************************************************************************)
(* The quota.                                                              *)
(***************************************************************************)
LEMMA OnePc ==
    ASSUME BaseInv, NEW q \in Procs, Acts(q), NEW p \in Procs, p # q PROVE pc'[p] = pc[p]
<1>0. pc \in [Procs -> Where]
  BY TypedIs DEF BaseInv
<1>1. ASSUME NEW w, Goto(q, w) PROVE pc'[p] = pc[p]
  BY <1>0, <1>1 DEF Goto
<1>2. Return(q) => pc'[p] = pc[p]
  BY <1>1 DEF Return
<1>3. ASSUME NEW w, NEW l, get_mailsize(q, w, l) PROVE pc'[p] = pc[p]
  BY <1>1, <1>3 DEF get_mailsize
<1>4. Advance(q) => pc'[p] = pc[p]
  BY <1>1, <1>2 DEF Advance
<1>5. CASE Deliver(q)
  BY <1>1, <1>2, <1>5
     DEF Deliver, AppendLock, AppendFails, Charge, Refuse, AppendWrite, SendBody
<1>6. CASE Count(q)
  BY <1>1, <1>3, <1>6 DEF Count, CalcLock, CalcWrite, Recount
<1>7. CASE Edit(q)
  BY <1>1, <1>2, <1>7 DEF Edit, EditLock, EditResize, EditNotFound
<1>8. CASE Delete(q)
  BY <1>1, <1>2, <1>4, <1>8
     DEF Delete, DelLock, DelRemove, DelMisses, DelNotFound, DelDies, DelUnlink
<1>9. CASE Sweep(q)
  BY <1>1, <1>2, <1>9 DEF Sweep, SweepLock, SweepOne, SweepEnd
<1>10. CASE AskSize(q) \/ FixMailsize(q) \/ PopLogin(q)
  BY <1>3, <1>10 DEF AskSize, FixMailsize, PopLogin
<1>11. CASE Send(q) \/ MailDel(q) \/ DelRange(q) \/ bbsdelmail(q)
  BY <1>3, <1>11, SendIs, MailDelIs, DelRangeSel, bbsdelmailSel
<1>12. CASE View(q) \/ Mark(q) \/ EditSave(q)
  BY <1>1, <1>2, <1>12 DEF View, Mark, EditSave
<1>13. CASE Login_init(q) \/ Dele(q) \/ Rset(q) \/ Quit(q)
  BY <1>1, <1>2, <1>13 DEF Login_init, Dele, Rset, Quit
<1>14. QED
  BY <1>5, <1>6, <1>7, <1>8, <1>9, <1>10, <1>11, <1>12, <1>13 DEF Acts, Step

(* Only AppendWrite leaves "write". *)
LEMMA EntersIs ==
    ASSUME BaseInv, [Next]_vars, NEW p \in Procs, pc[p] = "write", pc'[p] = "body"
    PROVE  AppendWrite(p)
<1>1. pc' # pc /\ pc \in [Procs -> Where]
  BY TypedIs DEF BaseInv
<1>2. PICK q \in Procs : Acts(q)
  BY <1>1, NextIs DEF Tick, vars
<1>3. q = p
  BY <1>1, <1>2, OnePc
<1>4. CASE Step(p)
  <2>1. ~Edit(p) /\ ~Delete(p) /\ ~Sweep(p) /\ ~Count(p)
    BY DEF Edit, EditLock, EditResize, EditNotFound, Delete, DelLock, DelRemove, DelMisses,
           DelNotFound, DelDies, DelUnlink, Sweep, SweepLock, SweepOne, SweepEnd,
           Count, CalcLock, CalcWrite, Recount
  <2>2. QED
    BY <1>4, <2>1 DEF Step, Deliver, AppendLock, AppendFails, Charge, Refuse, SendBody
<1>5. CASE ~Step(p)
  <2>1. \A job : ~Does(p, job)
    BY DEF Does
  <2>2. ~FixMailsize(p)
    BY <1>1 DEF FixMailsize
  <2>3. QED
    BY <1>2, <1>3, <1>5, <2>1, <2>2
       DEF Acts, AskSize, Send, View, Mark, EditSave, MailDel, PopLogin, Login_init, Dele, Rset,
           Quit, DelRange, bbsdelmail
<1>6. QED
  BY <1>4, <1>5

(* An ordinary mail is entered only when the mailbox does not exceed the   *)
(* quota with it, whatever is charged and deleted at the same time.        *)
THEOREM QuotaIsKept ==
    ASSUME FreshMarks, NoEdits PROVE Spec /\ []Small => QuotaKept
<1>1. ASSUME BaseInv, SizeInv, [Next]_vars, NEW p \in Procs,
             pc[p] = "write", pc'[p] = "body", ~loc[p].mail.sysmail, ~NoLimit
      PROVE  SizeOf(dir') <= max_mailsize
  <2>1. AppendWrite(p)
    BY <1>1, EntersIs
  <2>2. SizeOf(dir)' = SizeOf(dir) + Weight(p)
    BY <1>1, <2>1, AppendWriteGrows
  <2>3. SizeOf(dir) + Weight(p) <= max_mailsize
    BY <1>1 DEF SizeInv, QuotaRight
  <2>4. QED
    BY <2>2, <2>3
<1>2. BaseInv /\ SizeInv /\ [Next]_vars =>
          [\A p \in Procs :
              pc[p] = "write" /\ pc'[p] = "body" /\ ~loc[p].mail.sysmail /\ ~NoLimit
                  => SizeOf(dir') <= max_mailsize]_vars
  BY <1>1
<1>3. QED
  BY <1>2, BaseAlways, SizeAlways, PTL DEF Spec, QuotaKept
============================================================================
