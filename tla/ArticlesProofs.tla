--------------------------- MODULE ArticlesProofs ---------------------------
(***************************************************************************)
(* Proofs about Articles, for any number of processes, articles, names and *)
(* requests, whoever makes them.                                           *)
(***************************************************************************)
EXTENDS Articles, FiniteSetTheorems, SequenceTheorems, WellFoundedInduction, TLAPS

-----------------------------------------------------------------------------
(***************************************************************************)
(* The inductive invariants, in named parts.  First what TypeOK leaves     *)
(* open: what is left of a request, and the locals.                        *)
(***************************************************************************)
Times0 == Names \cup {0}
Files0 == Kinds \X Times0
Locals == [view : Lists, ent : Nat, fh : Header, new : Header, into : Lists,
           from : SUBSET Times0, n : Nat, sel : SUBSET Nat, read : Seq(Header),
           at : Nat, lost : SUBSET Files0, moving : SUBSET Nat, start : Nat]
Marks == [freed : SUBSET Names, stale : SUBSET Files0, dropped : SUBSET Files0,
          crossed : SUBSET Times0, behind : SUBSET {"total", "lastpost"}]

Todos ==
    {<<>>, <<"store">>, <<"total", "store">>, <<"stat", "total", "store">>,
     <<"append", "stat", "total", "store">>,
     <<"write", "append", "stat", "total", "store">>,
     <<"cancel">>, <<"store", "cancel">>, <<"total", "store", "cancel">>,
     <<"stat", "total", "store", "cancel">>,
     <<"normal">>, <<"cancel", "normal">>, <<"store", "cancel", "normal">>,
     <<"total", "store", "cancel", "normal">>,
     <<"stat", "total", "store", "cancel", "normal">>,
     <<"cancel", "stat", "total", "store">>,
     <<"remove", "cancel", "stat", "total", "store">>,
     <<"put", "stat", "total", "store">>, <<"range", "stat", "total", "store">>,
     <<"enter", "stat", "total", "store">>, <<"save", "enter", "stat", "total", "store">>,
     <<"toggle">>, <<"excerpt", "toggle">>, <<"unlink", "toggle">>,
     <<"undigest", "unlink", "toggle">>,
     <<"strike">>, <<"store", "strike">>, <<"total", "store", "strike">>,
     <<"stat", "total", "store", "strike">>,
     <<"append", "stat", "total", "store", "strike">>,
     <<"relink", "append", "stat", "total", "store", "strike">>,
     <<"swap">>, <<"rmlost">>, <<"junk", "rmlost">>, <<"deleted", "junk", "rmlost">>,
     <<"digest", "deleted", "junk", "rmlost">>,
     <<"dir", "digest", "deleted", "junk", "rmlost">>}

Typed ==
    /\ list \in [Lists -> Seq(Header)]
    /\ file \in [Kinds -> [Names -> 0..posted]]
    /\ lock \in [{"dir", "digest"} -> Procs \cup {Nobody}]
    /\ total \in Nat /\ lastpost \in Nat /\ now \in 1..MaxTime /\ posted \in Nat
    /\ todo \in [Procs -> Todos]
    /\ loc \in [Procs -> Locals]
    /\ hist \in Marks

Left(p) == ToSet(todo[p])

(* The headers there are; those an author has not yet entered are his. *)
Writing(p) == "write" \in Left(p)
Holds(p, h) == \/ h = loc[p].fh \/ \E i \in DOMAIN loc[p].read : h = loc[p].read[i]
               \/ ~Writing(p) /\ h = loc[p].new
Public == {h \in Header : \/ \E l \in Lists : \E i \in DOMAIN list[l] : h = list[l][i]
                          \/ \E p \in Procs : Holds(p, h)}
Known == Public \cup {loc[p].new : p \in Procs}

(* A line that names a file was made for an article. *)
Right(h, n) == h.art <= n /\ (h.filetime # 0 => h.art # 0)
ArtInv == \A h \in Known : Right(h, posted)

(* What a request has found before it goes on. *)
Removed == {"deleted", "junk"}
Sound(l, left) ==
    /\ left = {} => l.from = {}
    /\ "write" \in left => l.new.filetime # 0 /\ l.new.kind = "M"
    /\ "relink" \in left => l.fh.filetime # 0 /\ l.from = {}
    /\ "append" \in left /\ "relink" \notin left =>
           /\ l.new.filetime # 0 /\ ~l.new.digest
           /\ l.into = "dir" => l.new.kind = "M"
    /\ {"strike", "swap"} \cap left # {} => l.view \in Removed
    /\ {"remove", "put", "strike"} \cap left # {} => l.ent > 0
    /\ {"remove", "put", "toggle"} \cap left # {} => l.view = "dir"
    /\ {"save", "toggle"} \cap left # {} => l.fh.filetime # 0
    /\ {"range", "cancel", "enter"} \cap left # {} => l.view \in {"dir", "digest"}
    /\ "normal" \in left => l.view = "digest"
    /\ l.view \in Removed => ~l.fh.digest /\ \A i \in DOMAIN l.read : ~l.read[i].digest
    /\ l.view = "dir" => l.fh.kind = "M" /\ \A i \in DOMAIN l.read : l.read[i].kind = "M"
LocalInv == \A p \in Procs : Sound(loc[p], Left(p)) /\ loc[p].start <= now

(* Lines of .DIR are articles, and deleted lines have no flag. *)
Articled(d) == \A i \in DOMAIN d : d[i].kind = "M"
Cleared(d) == \A i \in DOMAIN d : ~d[i].digest
ListInv == Articled(list["dir"]) /\ \A l \in Removed : Cleared(list[l])

BaseInv == Typed /\ ArtInv /\ LocalInv /\ ListInv

(* Who has changed .DIR and has still to tell the cache. *)
Changing == {"write", "append", "remove", "put", "range", "enter", "relink"}
Telling(step) == \E p \in Procs : step \in Left(p) /\ Left(p) \cap Changing = {}

(* While a range is deleted the index stays as it was read, but for flags. *)
Alike(g, h) ==
    /\ FileOf(g) = FileOf(h) /\ g.art = h.art
    /\ g.filetime \notin hist.crossed => g.digest = h.digest
RangeInv ==
    /\ \A l \in {"dir", "digest"} : lock[l] # Nobody =>
           "range" \in Left(lock[l]) /\ loc[lock[l]].view = l
    /\ \A p \in Procs : "range" \in Left(p) =>
           /\ loc[p].view \in {"dir", "digest"} /\ lock[loc[p].view] = p
           /\ Len(loc[p].read) = Len(list[loc[p].view])
           /\ \A i \in DOMAIN loc[p].read : Alike(loc[p].read[i], list[loc[p].view][i])

-----------------------------------------------------------------------------
(***************************************************************************)
(* What is left of a request after its next step.                          *)
(***************************************************************************)
LEMMA ElementsOf ==
    /\ ToSet(<<>>) = {}
    /\ \A a : ToSet(<<a>>) = {a}
    /\ \A a, b : ToSet(<<a, b>>) = {a, b}
    /\ \A a, b, c : ToSet(<<a, b, c>>) = {a, b, c}
    /\ \A a, b, c, d : ToSet(<<a, b, c, d>>) = {a, b, c, d}
    /\ \A a, b, c, d, e : ToSet(<<a, b, c, d, e>>) = {a, b, c, d, e}
    /\ \A a, b, c, d, e, f : ToSet(<<a, b, c, d, e, f>>) = {a, b, c, d, e, f}
BY DEF ToSet

LEMMA TailsOf ==
    /\ \A a : Head(<<a>>) = a /\ Tail(<<a>>) = <<>> /\ Len(<<a>>) = 1
    /\ \A a, b : /\ Head(<<a, b>>) = a /\ Tail(<<a, b>>) = <<b>>
                 /\ Len(<<a, b>>) # 1
    /\ \A a, b, c : /\ Head(<<a, b, c>>) = a /\ Tail(<<a, b, c>>) = <<b, c>>
                    /\ Len(<<a, b, c>>) # 1
    /\ \A a, b, c, d : /\ Head(<<a, b, c, d>>) = a /\ Tail(<<a, b, c, d>>) = <<b, c, d>>
                       /\ Len(<<a, b, c, d>>) # 1
    /\ \A a, b, c, d, e : /\ Head(<<a, b, c, d, e>>) = a
                          /\ Tail(<<a, b, c, d, e>>) = <<b, c, d, e>>
                          /\ Len(<<a, b, c, d, e>>) # 1
    /\ \A a, b, c, d, e, f : /\ Head(<<a, b, c, d, e, f>>) = a
                             /\ Tail(<<a, b, c, d, e, f>>) = <<b, c, d, e, f>>
                             /\ Len(<<a, b, c, d, e, f>>) # 1
OBVIOUS

(* After the step x there is r left to do. *)
Leaves(s, x, r) ==
    /\ Head(s) = x /\ Tail(s) = r /\ r \in Todos
    /\ ToSet(s) = {x} \cup ToSet(r) /\ x \notin ToSet(r)
    /\ Len(s) = 1 <=> r = <<>>

LEMMA TodoCases ==
    ASSUME NEW s \in Todos
    PROVE  \/ s = <<>>
           \/ Leaves(s, "store", <<>>)
           \/ Leaves(s, "total", <<"store">>)
           \/ Leaves(s, "stat", <<"total", "store">>)
           \/ Leaves(s, "append", <<"stat", "total", "store">>)
           \/ Leaves(s, "write", <<"append", "stat", "total", "store">>)
           \/ Leaves(s, "cancel", <<>>)
           \/ Leaves(s, "store", <<"cancel">>)
           \/ Leaves(s, "total", <<"store", "cancel">>)
           \/ Leaves(s, "stat", <<"total", "store", "cancel">>)
           \/ Leaves(s, "normal", <<>>)
           \/ Leaves(s, "cancel", <<"normal">>)
           \/ Leaves(s, "store", <<"cancel", "normal">>)
           \/ Leaves(s, "total", <<"store", "cancel", "normal">>)
           \/ Leaves(s, "stat", <<"total", "store", "cancel", "normal">>)
           \/ Leaves(s, "cancel", <<"stat", "total", "store">>)
           \/ Leaves(s, "remove", <<"cancel", "stat", "total", "store">>)
           \/ Leaves(s, "put", <<"stat", "total", "store">>)
           \/ Leaves(s, "range", <<"stat", "total", "store">>)
           \/ Leaves(s, "enter", <<"stat", "total", "store">>)
           \/ Leaves(s, "save", <<"enter", "stat", "total", "store">>)
           \/ Leaves(s, "toggle", <<>>)
           \/ Leaves(s, "excerpt", <<"toggle">>)
           \/ Leaves(s, "unlink", <<"toggle">>)
           \/ Leaves(s, "undigest", <<"unlink", "toggle">>)
           \/ Leaves(s, "strike", <<>>)
           \/ Leaves(s, "store", <<"strike">>)
           \/ Leaves(s, "total", <<"store", "strike">>)
           \/ Leaves(s, "stat", <<"total", "store", "strike">>)
           \/ Leaves(s, "append", <<"stat", "total", "store", "strike">>)
           \/ Leaves(s, "relink", <<"append", "stat", "total", "store", "strike">>)
           \/ Leaves(s, "swap", <<>>)
           \/ Leaves(s, "rmlost", <<>>)
           \/ Leaves(s, "junk", <<"rmlost">>)
           \/ Leaves(s, "deleted", <<"junk", "rmlost">>)
           \/ Leaves(s, "digest", <<"deleted", "junk", "rmlost">>)
           \/ Leaves(s, "dir", <<"digest", "deleted", "junk", "rmlost">>)
<1>1. CASE s = <<>>
  BY <1>1
<1>2. CASE s = <<"store">>
  <2>1. <<>> \in Todos
    BY DEF Todos
  <2>2. Leaves(s, "store", <<>>)
    BY <1>2, <2>1, ElementsOf, TailsOf DEF Leaves
  <2>3. QED
    BY <2>2
<1>3. CASE s = <<"total", "store">>
  <2>1. <<"store">> \in Todos
    BY DEF Todos
  <2>2. Leaves(s, "total", <<"store">>)
    BY <1>3, <2>1, ElementsOf, TailsOf DEF Leaves
  <2>3. QED
    BY <2>2
<1>4. CASE s = <<"stat", "total", "store">>
  <2>1. <<"total", "store">> \in Todos
    BY DEF Todos
  <2>2. Leaves(s, "stat", <<"total", "store">>)
    BY <1>4, <2>1, ElementsOf, TailsOf DEF Leaves
  <2>3. QED
    BY <2>2
<1>5. CASE s = <<"append", "stat", "total", "store">>
  <2>1. <<"stat", "total", "store">> \in Todos
    BY DEF Todos
  <2>2. Leaves(s, "append", <<"stat", "total", "store">>)
    BY <1>5, <2>1, ElementsOf, TailsOf DEF Leaves
  <2>3. QED
    BY <2>2
<1>6. CASE s = <<"write", "append", "stat", "total", "store">>
  <2>1. <<"append", "stat", "total", "store">> \in Todos
    BY DEF Todos
  <2>2. Leaves(s, "write", <<"append", "stat", "total", "store">>)
    BY <1>6, <2>1, ElementsOf, TailsOf DEF Leaves
  <2>3. QED
    BY <2>2
<1>7. CASE s = <<"cancel">>
  <2>1. <<>> \in Todos
    BY DEF Todos
  <2>2. Leaves(s, "cancel", <<>>)
    BY <1>7, <2>1, ElementsOf, TailsOf DEF Leaves
  <2>3. QED
    BY <2>2
<1>8. CASE s = <<"store", "cancel">>
  <2>1. <<"cancel">> \in Todos
    BY DEF Todos
  <2>2. Leaves(s, "store", <<"cancel">>)
    BY <1>8, <2>1, ElementsOf, TailsOf DEF Leaves
  <2>3. QED
    BY <2>2
<1>9. CASE s = <<"total", "store", "cancel">>
  <2>1. <<"store", "cancel">> \in Todos
    BY DEF Todos
  <2>2. Leaves(s, "total", <<"store", "cancel">>)
    BY <1>9, <2>1, ElementsOf, TailsOf DEF Leaves
  <2>3. QED
    BY <2>2
<1>10. CASE s = <<"stat", "total", "store", "cancel">>
  <2>1. <<"total", "store", "cancel">> \in Todos
    BY DEF Todos
  <2>2. Leaves(s, "stat", <<"total", "store", "cancel">>)
    BY <1>10, <2>1, ElementsOf, TailsOf DEF Leaves
  <2>3. QED
    BY <2>2
<1>11. CASE s = <<"normal">>
  <2>1. <<>> \in Todos
    BY DEF Todos
  <2>2. Leaves(s, "normal", <<>>)
    BY <1>11, <2>1, ElementsOf, TailsOf DEF Leaves
  <2>3. QED
    BY <2>2
<1>12. CASE s = <<"cancel", "normal">>
  <2>1. <<"normal">> \in Todos
    BY DEF Todos
  <2>2. Leaves(s, "cancel", <<"normal">>)
    BY <1>12, <2>1, ElementsOf, TailsOf DEF Leaves
  <2>3. QED
    BY <2>2
<1>13. CASE s = <<"store", "cancel", "normal">>
  <2>1. <<"cancel", "normal">> \in Todos
    BY DEF Todos
  <2>2. Leaves(s, "store", <<"cancel", "normal">>)
    BY <1>13, <2>1, ElementsOf, TailsOf DEF Leaves
  <2>3. QED
    BY <2>2
<1>14. CASE s = <<"total", "store", "cancel", "normal">>
  <2>1. <<"store", "cancel", "normal">> \in Todos
    BY DEF Todos
  <2>2. Leaves(s, "total", <<"store", "cancel", "normal">>)
    BY <1>14, <2>1, ElementsOf, TailsOf DEF Leaves
  <2>3. QED
    BY <2>2
<1>15. CASE s = <<"stat", "total", "store", "cancel", "normal">>
  <2>1. <<"total", "store", "cancel", "normal">> \in Todos
    BY DEF Todos
  <2>2. Leaves(s, "stat", <<"total", "store", "cancel", "normal">>)
    BY <1>15, <2>1, ElementsOf, TailsOf DEF Leaves
  <2>3. QED
    BY <2>2
<1>16. CASE s = <<"cancel", "stat", "total", "store">>
  <2>1. <<"stat", "total", "store">> \in Todos
    BY DEF Todos
  <2>2. Leaves(s, "cancel", <<"stat", "total", "store">>)
    BY <1>16, <2>1, ElementsOf, TailsOf DEF Leaves
  <2>3. QED
    BY <2>2
<1>17. CASE s = <<"remove", "cancel", "stat", "total", "store">>
  <2>1. <<"cancel", "stat", "total", "store">> \in Todos
    BY DEF Todos
  <2>2. Leaves(s, "remove", <<"cancel", "stat", "total", "store">>)
    BY <1>17, <2>1, ElementsOf, TailsOf DEF Leaves
  <2>3. QED
    BY <2>2
<1>18. CASE s = <<"put", "stat", "total", "store">>
  <2>1. <<"stat", "total", "store">> \in Todos
    BY DEF Todos
  <2>2. Leaves(s, "put", <<"stat", "total", "store">>)
    BY <1>18, <2>1, ElementsOf, TailsOf DEF Leaves
  <2>3. QED
    BY <2>2
<1>19. CASE s = <<"range", "stat", "total", "store">>
  <2>1. <<"stat", "total", "store">> \in Todos
    BY DEF Todos
  <2>2. Leaves(s, "range", <<"stat", "total", "store">>)
    BY <1>19, <2>1, ElementsOf, TailsOf DEF Leaves
  <2>3. QED
    BY <2>2
<1>20. CASE s = <<"enter", "stat", "total", "store">>
  <2>1. <<"stat", "total", "store">> \in Todos
    BY DEF Todos
  <2>2. Leaves(s, "enter", <<"stat", "total", "store">>)
    BY <1>20, <2>1, ElementsOf, TailsOf DEF Leaves
  <2>3. QED
    BY <2>2
<1>21. CASE s = <<"save", "enter", "stat", "total", "store">>
  <2>1. <<"enter", "stat", "total", "store">> \in Todos
    BY DEF Todos
  <2>2. Leaves(s, "save", <<"enter", "stat", "total", "store">>)
    BY <1>21, <2>1, ElementsOf, TailsOf DEF Leaves
  <2>3. QED
    BY <2>2
<1>22. CASE s = <<"toggle">>
  <2>1. <<>> \in Todos
    BY DEF Todos
  <2>2. Leaves(s, "toggle", <<>>)
    BY <1>22, <2>1, ElementsOf, TailsOf DEF Leaves
  <2>3. QED
    BY <2>2
<1>23. CASE s = <<"excerpt", "toggle">>
  <2>1. <<"toggle">> \in Todos
    BY DEF Todos
  <2>2. Leaves(s, "excerpt", <<"toggle">>)
    BY <1>23, <2>1, ElementsOf, TailsOf DEF Leaves
  <2>3. QED
    BY <2>2
<1>24. CASE s = <<"unlink", "toggle">>
  <2>1. <<"toggle">> \in Todos
    BY DEF Todos
  <2>2. Leaves(s, "unlink", <<"toggle">>)
    BY <1>24, <2>1, ElementsOf, TailsOf DEF Leaves
  <2>3. QED
    BY <2>2
<1>25. CASE s = <<"undigest", "unlink", "toggle">>
  <2>1. <<"unlink", "toggle">> \in Todos
    BY DEF Todos
  <2>2. Leaves(s, "undigest", <<"unlink", "toggle">>)
    BY <1>25, <2>1, ElementsOf, TailsOf DEF Leaves
  <2>3. QED
    BY <2>2
<1>26. CASE s = <<"strike">>
  <2>1. <<>> \in Todos
    BY DEF Todos
  <2>2. Leaves(s, "strike", <<>>)
    BY <1>26, <2>1, ElementsOf, TailsOf DEF Leaves
  <2>3. QED
    BY <2>2
<1>27. CASE s = <<"store", "strike">>
  <2>1. <<"strike">> \in Todos
    BY DEF Todos
  <2>2. Leaves(s, "store", <<"strike">>)
    BY <1>27, <2>1, ElementsOf, TailsOf DEF Leaves
  <2>3. QED
    BY <2>2
<1>28. CASE s = <<"total", "store", "strike">>
  <2>1. <<"store", "strike">> \in Todos
    BY DEF Todos
  <2>2. Leaves(s, "total", <<"store", "strike">>)
    BY <1>28, <2>1, ElementsOf, TailsOf DEF Leaves
  <2>3. QED
    BY <2>2
<1>29. CASE s = <<"stat", "total", "store", "strike">>
  <2>1. <<"total", "store", "strike">> \in Todos
    BY DEF Todos
  <2>2. Leaves(s, "stat", <<"total", "store", "strike">>)
    BY <1>29, <2>1, ElementsOf, TailsOf DEF Leaves
  <2>3. QED
    BY <2>2
<1>30. CASE s = <<"append", "stat", "total", "store", "strike">>
  <2>1. <<"stat", "total", "store", "strike">> \in Todos
    BY DEF Todos
  <2>2. Leaves(s, "append", <<"stat", "total", "store", "strike">>)
    BY <1>30, <2>1, ElementsOf, TailsOf DEF Leaves
  <2>3. QED
    BY <2>2
<1>31. CASE s = <<"relink", "append", "stat", "total", "store", "strike">>
  <2>1. <<"append", "stat", "total", "store", "strike">> \in Todos
    BY DEF Todos
  <2>2. Leaves(s, "relink", <<"append", "stat", "total", "store", "strike">>)
    BY <1>31, <2>1, ElementsOf, TailsOf DEF Leaves
  <2>3. QED
    BY <2>2
<1>32. CASE s = <<"swap">>
  <2>1. <<>> \in Todos
    BY DEF Todos
  <2>2. Leaves(s, "swap", <<>>)
    BY <1>32, <2>1, ElementsOf, TailsOf DEF Leaves
  <2>3. QED
    BY <2>2
<1>33. CASE s = <<"rmlost">>
  <2>1. <<>> \in Todos
    BY DEF Todos
  <2>2. Leaves(s, "rmlost", <<>>)
    BY <1>33, <2>1, ElementsOf, TailsOf DEF Leaves
  <2>3. QED
    BY <2>2
<1>34. CASE s = <<"junk", "rmlost">>
  <2>1. <<"rmlost">> \in Todos
    BY DEF Todos
  <2>2. Leaves(s, "junk", <<"rmlost">>)
    BY <1>34, <2>1, ElementsOf, TailsOf DEF Leaves
  <2>3. QED
    BY <2>2
<1>35. CASE s = <<"deleted", "junk", "rmlost">>
  <2>1. <<"junk", "rmlost">> \in Todos
    BY DEF Todos
  <2>2. Leaves(s, "deleted", <<"junk", "rmlost">>)
    BY <1>35, <2>1, ElementsOf, TailsOf DEF Leaves
  <2>3. QED
    BY <2>2
<1>36. CASE s = <<"digest", "deleted", "junk", "rmlost">>
  <2>1. <<"deleted", "junk", "rmlost">> \in Todos
    BY DEF Todos
  <2>2. Leaves(s, "digest", <<"deleted", "junk", "rmlost">>)
    BY <1>36, <2>1, ElementsOf, TailsOf DEF Leaves
  <2>3. QED
    BY <2>2
<1>37. CASE s = <<"dir", "digest", "deleted", "junk", "rmlost">>
  <2>1. <<"digest", "deleted", "junk", "rmlost">> \in Todos
    BY DEF Todos
  <2>2. Leaves(s, "dir", <<"digest", "deleted", "junk", "rmlost">>)
    BY <1>37, <2>1, ElementsOf, TailsOf DEF Leaves
  <2>3. QED
    BY <2>2
<1>38. QED
  BY <1>1, <1>2, <1>3, <1>4, <1>5, <1>6, <1>7, <1>8, <1>9, <1>10, <1>11, <1>12, <1>13, <1>14, <1>15, <1>16, <1>17, <1>18, <1>19, <1>20, <1>21, <1>22, <1>23, <1>24, <1>25, <1>26, <1>27, <1>28, <1>29, <1>30, <1>31, <1>32, <1>33, <1>34, <1>35, <1>36, <1>37 DEF Todos

-----------------------------------------------------------------------------
(***************************************************************************)
(* Types.                                                                  *)
(***************************************************************************)
LEMMA ConstantsAre ==
    /\ Nobody \notin Procs
    /\ Old \in Nat /\ MinAge \in Nat /\ MinAge > 0 /\ MaxTry \in Nat /\ MaxTry > 0
    /\ MaxTime \in Nat /\ MaxTime > Old
BY ArticlesAssumption

LEMMA NamesAre ==
    /\ Names \subseteq Nat /\ 0 \notin Names /\ Times0 \subseteq Nat
    /\ \A t \in Nat, u \in 0..(MaxTry - 1) : 1 <= t /\ t <= MaxTime => t + u \in Names
BY ConstantsAre DEF Names, Times0

LEMMA TuplesTyped ==
    ASSUME NEW S
    PROVE  /\ <<>> \in Seq(S)
           /\ \A a \in S : <<a>> \in Seq(S)
           /\ \A a, b \in S : <<a, b>> \in Seq(S)
           /\ \A a, b, c \in S : <<a, b, c>> \in Seq(S)
           /\ \A a, b, c, d \in S : <<a, b, c, d>> \in Seq(S)
           /\ \A a, b, c, d, e \in S : <<a, b, c, d, e>> \in Seq(S)
           /\ \A a, b, c, d, e, f \in S : <<a, b, c, d, e, f>> \in Seq(S)
OBVIOUS

LEMMA TodosTyped == Todos \subseteq Seq(Steps)
<1>1. /\ "stat" \in Steps /\ "total" \in Steps /\ "store" \in Steps /\ "dir" \in Steps
      /\ "digest" \in Steps /\ "deleted" \in Steps /\ "junk" \in Steps
      /\ "rmlost" \in Steps /\ "write" \in Steps /\ "append" \in Steps
      /\ "cancel" \in Steps /\ "normal" \in Steps /\ "remove" \in Steps
      /\ "put" \in Steps /\ "range" \in Steps /\ "save" \in Steps /\ "enter" \in Steps
      /\ "undigest" \in Steps /\ "unlink" \in Steps /\ "excerpt" \in Steps
      /\ "toggle" \in Steps /\ "relink" \in Steps /\ "strike" \in Steps
      /\ "swap" \in Steps
  BY ElementsOf DEF Steps, update, LostOrder
<1>2. /\ <<>> \in Seq(Steps)
  BY <1>1, TuplesTyped
<1>3. /\ <<"store">> \in Seq(Steps)
      /\ <<"cancel">> \in Seq(Steps)
      /\ <<"normal">> \in Seq(Steps)
      /\ <<"toggle">> \in Seq(Steps)
      /\ <<"strike">> \in Seq(Steps)
      /\ <<"swap">> \in Seq(Steps)
      /\ <<"rmlost">> \in Seq(Steps)
  BY <1>1, TuplesTyped
<1>4. /\ <<"total", "store">> \in Seq(Steps)
      /\ <<"store", "cancel">> \in Seq(Steps)
      /\ <<"cancel", "normal">> \in Seq(Steps)
      /\ <<"excerpt", "toggle">> \in Seq(Steps)
      /\ <<"unlink", "toggle">> \in Seq(Steps)
      /\ <<"store", "strike">> \in Seq(Steps)
      /\ <<"junk", "rmlost">> \in Seq(Steps)
  BY <1>1, TuplesTyped
<1>5. /\ <<"stat", "total", "store">> \in Seq(Steps)
      /\ <<"total", "store", "cancel">> \in Seq(Steps)
      /\ <<"store", "cancel", "normal">> \in Seq(Steps)
      /\ <<"undigest", "unlink", "toggle">> \in Seq(Steps)
      /\ <<"total", "store", "strike">> \in Seq(Steps)
      /\ <<"deleted", "junk", "rmlost">> \in Seq(Steps)
  BY <1>1, TuplesTyped
<1>6. /\ <<"append", "stat", "total", "store">> \in Seq(Steps)
      /\ <<"stat", "total", "store", "cancel">> \in Seq(Steps)
      /\ <<"total", "store", "cancel", "normal">> \in Seq(Steps)
      /\ <<"cancel", "stat", "total", "store">> \in Seq(Steps)
      /\ <<"put", "stat", "total", "store">> \in Seq(Steps)
      /\ <<"range", "stat", "total", "store">> \in Seq(Steps)
      /\ <<"enter", "stat", "total", "store">> \in Seq(Steps)
      /\ <<"stat", "total", "store", "strike">> \in Seq(Steps)
      /\ <<"digest", "deleted", "junk", "rmlost">> \in Seq(Steps)
  BY <1>1, TuplesTyped
<1>7. /\ <<"write", "append", "stat", "total", "store">> \in Seq(Steps)
      /\ <<"stat", "total", "store", "cancel", "normal">> \in Seq(Steps)
      /\ <<"remove", "cancel", "stat", "total", "store">> \in Seq(Steps)
      /\ <<"save", "enter", "stat", "total", "store">> \in Seq(Steps)
      /\ <<"append", "stat", "total", "store", "strike">> \in Seq(Steps)
      /\ <<"dir", "digest", "deleted", "junk", "rmlost">> \in Seq(Steps)
  BY <1>1, TuplesTyped
<1>8. /\ <<"relink", "append", "stat", "total", "store", "strike">> \in Seq(Steps)
  BY <1>1, TuplesTyped
<1>9. ASSUME NEW s \in Todos
      PROVE  s \in Seq(Steps)
  BY <1>9, <1>2, <1>3, <1>4, <1>5, <1>6, <1>7, <1>8 DEF Todos
<1>10. QED
  BY <1>9

LEMMA HeaderFacts ==
    /\ Hole \in Header
    /\ \A t \in Times0, a \in Nat : NewLine(t, a) \in Header
    /\ \A h \in Header : /\ h.filetime \in Times0 /\ h.art \in Nat /\ h.kind \in Kinds
                         /\ FileOf(h) \in Files0 /\ Trash(h) \in Header
BY NamesAre DEF Hole, NewLine, Header, Times0, Kinds, Files0, FileOf, Trash

LEMMA NoLocalsTyped == NoLocals \in Locals
<1>1. Hole \in Header /\ <<>> \in Seq(Header)
  BY HeaderFacts
<1>2. QED
  BY <1>1 DEF NoLocals, Locals, Lists

LEMMA TypedIs ==
    ASSUME Typed
    PROVE  TypeOK
<1>1. todo \in [Procs -> Seq(Steps)]
  BY TodosTyped DEF Typed
<1>2. ASSUME NEW p \in Procs
      PROVE  /\ loc[p].view \in Lists /\ loc[p].into \in Lists
             /\ loc[p].fh \in Header /\ loc[p].new \in Header
             /\ loc[p].read \in Seq(Header)
             /\ loc[p].ent \in Nat /\ loc[p].n \in Nat /\ loc[p].at \in Nat
  BY <1>2 DEF Typed, Locals
<1>3. /\ hist.freed \subseteq Names
      /\ hist.stale \cup hist.dropped \subseteq Kinds \X (Names \cup {0})
      /\ hist.behind \subseteq {"total", "lastpost"}
  BY DEF Typed, Marks, Files0, Times0
<1>4. QED
  BY <1>1, <1>2, <1>3 DEF Typed, TypeOK

LEMMA InitTyped ==
    ASSUME Init
    PROVE  Typed
<1>1. list \in [Lists -> Seq(Header)]
  <2>1. [i \in 1..Old |-> NewLine(i, i)] \in Seq(Header)
    <3>1. \A i \in 1..Old : NewLine(i, i) \in Header
      BY ConstantsAre, HeaderFacts DEF Times0, Names
    <3>2. QED
      BY <3>1, ConstantsAre
  <2>2. <<>> \in Seq(Header)
    OBVIOUS
  <2>3. QED
    BY <2>1, <2>2 DEF Init, Lists
<1>2. posted = Old /\ file \in [Kinds -> [Names -> 0..posted]]
  BY ConstantsAre, NamesAre DEF Init
<1>3. lock \in [{"dir", "digest"} -> Procs \cup {Nobody}]
  BY DEF Init
<1>4. total \in Nat /\ lastpost \in Nat /\ now \in 1..MaxTime /\ posted \in Nat
  BY ConstantsAre DEF Init
<1>5. todo \in [Procs -> Todos] /\ loc \in [Procs -> Locals]
  <2>1. <<>> \in Todos
    BY DEF Todos
  <2>2. QED
    BY <2>1, NoLocalsTyped DEF Init
<1>6. hist \in Marks
  BY DEF Init, Marks
<1>7. QED
  BY <1>1, <1>2, <1>3, <1>4, <1>5, <1>6 DEF Typed

(***************************************************************************)
(* The process p moves, from the step x on with the locals l, or begins a  *)
(* request; the others stand still.                                        *)
(***************************************************************************)
Alone(p) == \A q \in Procs \ {p} : /\ todo'[q] = todo[q] /\ loc'[q] = loc[q]
                                   /\ Left(q)' = Left(q)

Walked(p) ==
    /\ todo' \in [Procs -> Todos] /\ loc' \in [Procs -> Locals]
    /\ Alone(p)

After(p, x, l) ==
    /\ Walked(p)
    /\ Leaves(todo[p], x, todo'[p])
    /\ x \in Left(p) /\ x \notin Left(p)' /\ Left(p) = {x} \cup Left(p)'
    /\ todo'[p] = <<>> => loc'[p] = NoLocals /\ Left(p)' = {}
    /\ todo'[p] # <<>> => loc'[p] = l

(* It gives up, or has nothing to do after the first step. *)
Rests(p) == Walked(p) /\ todo'[p] = <<>> /\ Left(p)' = {} /\ loc'[p] = NoLocals

Starts(p, s, l) ==
    /\ Walked(p)
    /\ todo[p] = <<>> /\ Left(p) = {}
    /\ todo'[p] = s /\ Left(p)' = ToSet(s) /\ loc'[p] = l

LEMMA DoneIs ==
    ASSUME Typed, NEW p \in Procs, NEW x, At(p, x), NEW l \in Locals, Done(p, l)
    PROVE  After(p, x, l)
<1>1. todo[p] \in Todos /\ todo[p] # <<>> /\ Head(todo[p]) = x
  BY DEF Typed, At, Idle
<1>2. PICK r : Leaves(todo[p], x, r)
  <2>1. ~Leaves(todo[p], x, Tail(todo[p])) => FALSE
    BY <1>1, TodoCases DEF Leaves
  <2>2. QED
    BY <2>1
<1>3. todo' = [todo EXCEPT ![p] = r]
  BY <1>2 DEF Done, Leaves
<1>4. todo' \in [Procs -> Todos] /\ todo'[p] = r
  BY <1>2, <1>3 DEF Leaves, Typed
<1>5. loc' \in [Procs -> Locals] /\ loc'[p] = IF r = <<>> THEN NoLocals ELSE l
  BY <1>2, NoLocalsTyped DEF Done, Leaves, Typed
<1>6. Alone(p)
  BY <1>3 DEF Alone, Done, Typed, Left
<1>7. x \in Left(p) /\ x \notin Left(p)' /\ Left(p) = {x} \cup Left(p)'
  BY <1>2, <1>4 DEF Left, Leaves
<1>8. todo'[p] = <<>> => Left(p)' = {}
  BY ElementsOf DEF Left
<1>9. QED
  BY <1>2, <1>4, <1>5, <1>6, <1>7, <1>8 DEF After, Walked

LEMMA ReturnIs ==
    ASSUME Typed, NEW p \in Procs, Return(p)
    PROVE  Rests(p)
<1>1. <<>> \in Todos
  BY DEF Todos
<1>2. todo' \in [Procs -> Todos] /\ todo'[p] = <<>> /\ Left(p)' = {}
  BY <1>1, ElementsOf DEF Return, Typed, Left
<1>3. loc' \in [Procs -> Locals] /\ loc'[p] = NoLocals
  BY NoLocalsTyped DEF Return, Typed
<1>4. Alone(p)
  BY DEF Alone, Return, Typed, Left
<1>5. QED
  BY <1>2, <1>3, <1>4 DEF Rests, Walked

LEMMA BeginIs ==
    ASSUME Typed, NEW p \in Procs, NEW job, NEW s \in Todos, Begin(p, job, s),
           NEW l \in Locals, loc' = [loc EXCEPT ![p] = l]
    PROVE  Starts(p, s, l)
<1>1. todo' \in [Procs -> Todos] /\ todo'[p] = s /\ Left(p)' = ToSet(s)
  BY DEF Begin, Typed, Left
<1>2. loc' \in [Procs -> Locals] /\ loc'[p] = l
  BY DEF Typed
<1>3. Alone(p)
  BY DEF Alone, Begin, Typed, Left
<1>4. todo[p] = <<>> /\ Left(p) = {}
  BY ElementsOf DEF Begin, Idle, Left
<1>5. QED
  BY <1>1, <1>2, <1>3, <1>4 DEF Starts, Walked

-----------------------------------------------------------------------------
(***************************************************************************)
(* Facts about numbers, and one step of induction without an operator.     *)
(***************************************************************************)
LEMMA Upwards ==
    ASSUME NEW S, NEW n \in Nat, 0 \in S,
           \A k \in 1..n : k - 1 \in S => k \in S
    PROVE  0..n \subseteq S
<1> DEFINE D == {k \in 0..n : k \notin S}
<1>1. SUFFICES ASSUME D # {} PROVE FALSE
  OBVIOUS
<1>2. PICK m \in D : \A y \in D : m <= y
  <2>1. D \subseteq Nat /\ D # {}
    BY <1>1
  <2> DEFINE R == OpToRel(<, Nat)
  <2>2. \A x, y \in Nat : <<x, y>> \in R <=> x < y
    BY DEF OpToRel
  <2>3. IsWellFoundedOn(R, Nat)
    BY NatLessThanWellFounded
  <2> HIDE DEF D, R
  <2>4. PICK m \in D : \A y \in D : <<y, m>> \notin R
    BY <2>1, <2>3, WFMin
  <2>5. \A y \in D : m \in Nat /\ y \in Nat /\ ~(y < m)
    BY <2>1, <2>2, <2>4
  <2>6. \A y \in D : m <= y
    BY <2>5
  <2>7. QED
    BY <2>6
<1>3. m \in 1..n /\ m - 1 \in 0..n
  BY <1>2
<1>4. m - 1 \in S
  BY <1>2, <1>3
<1>5. QED
  BY <1>2, <1>3, <1>4

LEMMA Least ==
    ASSUME NEW n \in Nat, NEW S, S \subseteq 0..n, S # {}
    PROVE  \E m \in S : \A y \in S : m <= y
<1> DEFINE T == {k \in 0..n : \A y \in S : k <= y}
<1>1. SUFFICES ASSUME ~\E m \in S : \A y \in S : m <= y PROVE FALSE
  OBVIOUS
<1>2. 0 \in T
  OBVIOUS
<1>3. ASSUME NEW k \in 1..n, k - 1 \in T PROVE k \in T
  <2>1. k - 1 \notin S
    BY <1>1, <1>3
  <2>2. QED
    BY <1>3, <2>1
<1> HIDE DEF T
<1>4. 0..n \subseteq T
  BY <1>2, <1>3, Upwards
<1>5. n \in T
  BY <1>4
<1>6. \A y \in S : y \in Nat /\ n <= y /\ y <= n
  BY <1>5 DEF T
<1>7. PICK y \in S : TRUE
  OBVIOUS
<1>8. n \in S /\ \A x \in S : n <= x
  BY <1>6, <1>7
<1>9. QED
  BY <1>1, <1>8

LEMMA Greatest ==
    ASSUME NEW n \in Nat, NEW S, S \subseteq 0..n, S # {}
    PROVE  \E m \in S : \A y \in S : m >= y
<1> DEFINE T == {k \in 0..n : n - k \in S}
<1>1. T \subseteq 0..n /\ T # {}
  <2>1. PICK y \in S : TRUE
    OBVIOUS
  <2>2. y \in 0..n /\ n - y \in 0..n /\ n - (n - y) = y
    OBVIOUS
  <2>3. n - y \in T
    BY <2>1, <2>2
  <2>4. QED
    BY <2>3
<1> HIDE DEF T
<1>2. PICK k \in T : \A y \in T : k <= y
  BY <1>1, Least
<1>3. k \in 0..n /\ n - k \in S
  BY <1>2 DEF T
<1>4. ASSUME NEW y \in S PROVE n - k >= y
  <2>1. y \in 0..n /\ n - y \in 0..n /\ n - (n - y) = y
    OBVIOUS
  <2>2. n - y \in T
    BY <1>4, <2>1 DEF T
  <2>3. QED
    BY <1>2, <1>3, <2>1, <2>2
<1>5. QED
  BY <1>3, <1>4

-----------------------------------------------------------------------------
(***************************************************************************)
(* An index after one write.                                               *)
(***************************************************************************)
LEMMA HeaderIs ==
    ASSUME NEW d \in Seq(Header)
    PROVE  /\ Len(d) \in Nat /\ DOMAIN d = 1..Len(d)
           /\ \A i \in 1..Len(d) : d[i] \in Header /\ d[i].filetime \in Nat
           /\ \A h : h \in ToSet(d) <=> \E i \in DOMAIN d : h = d[i]
<1>1. Len(d) \in Nat /\ DOMAIN d = 1..Len(d) /\ \A i \in 1..Len(d) : d[i] \in Header
  OBVIOUS
<1>2. QED
  BY <1>1, HeaderFacts, NamesAre DEF ToSet

LEMMA AppendIs ==
    ASSUME NEW d \in Seq(Header), NEW h \in Header
    PROVE  LET r == Append(d, h)
           IN  /\ r \in Seq(Header) /\ Len(r) = Len(d) + 1 /\ r[Len(r)] = h
               /\ DOMAIN r = DOMAIN d \cup {Len(d) + 1} /\ Len(d) + 1 \notin DOMAIN d
               /\ r[Len(d) + 1] = h /\ \A i \in DOMAIN d : r[i] = d[i]
               /\ ToSet(r) = ToSet(d) \cup {h}
<1> DEFINE r == Append(d, h)
<1>1. Len(d) \in Nat /\ DOMAIN d = 1..Len(d)
  BY HeaderIs
<1>2. /\ r \in Seq(Header) /\ Len(r) = Len(d) + 1 /\ r[Len(d) + 1] = h
      /\ \A i \in 1..Len(d) : r[i] = d[i]
  BY AppendProperties
<1> HIDE DEF r
<1>3. DOMAIN r = 1..Len(d) + 1
  BY <1>2
<1>4. DOMAIN r = DOMAIN d \cup {Len(d) + 1} /\ Len(d) + 1 \notin DOMAIN d
  BY <1>1, <1>3
<1>5. ToSet(r) = ToSet(d) \cup {h}
  BY <1>1, <1>2, <1>4, HeaderIs
<1>6. QED
  BY <1>1, <1>2, <1>4, <1>5 DEF r

LEMMA AmendIs ==
    ASSUME NEW d \in Seq(Header), NEW i \in DOMAIN d, NEW h \in Header
    PROVE  LET r == [d EXCEPT ![i] = h]
           IN  /\ r \in Seq(Header) /\ Len(r) = Len(d) /\ DOMAIN r = DOMAIN d
               /\ r[i] = h /\ \A j \in DOMAIN d \ {i} : r[j] = d[j]
<1> DEFINE r == [d EXCEPT ![i] = h]
<1>1. Len(d) \in Nat /\ DOMAIN d = 1..Len(d) /\ \A j \in 1..Len(d) : d[j] \in Header
  BY HeaderIs
<1>2. r \in [1..Len(d) -> Header] /\ r[i] = h /\ \A j \in DOMAIN d \ {i} : r[j] = d[j]
  BY <1>1
<1>3. r \in Seq(Header) /\ Len(r) = Len(d) /\ DOMAIN r = DOMAIN d
  BY <1>1, <1>2
<1>4. QED
  BY <1>2, <1>3

(***************************************************************************)
(* r is d without the records gone, some of them as they were read: e says *)
(* where each record comes from.                                           *)
(***************************************************************************)
Thinned(r, d, read, gone, e) ==
    /\ e \in [DOMAIN r -> DOMAIN d \ gone]
    /\ \A k \in DOMAIN r : r[k] = d[e[k]] \/ r[k] = read[e[k]]
    /\ \A j, k \in DOMAIN r : e[j] = e[k] => j = k
    /\ \A i \in DOMAIN d \ gone : \E k \in DOMAIN r : e[k] = i

LEMMA RemoveThins ==
    ASSUME NEW d \in Seq(Header), NEW i \in DOMAIN d
    PROVE  LET r == RemoveAt(d, i)
           IN  /\ r \in Seq(Header) /\ Len(r) = Len(d) - 1
               /\ \E e : Thinned(r, d, d, {i}, e)
<1>1. PICK n : n = Len(d)
  OBVIOUS
<1>2. n \in Nat /\ DOMAIN d = 1..n /\ (\A k \in 1..n : d[k] \in Header)
      /\ i \in Nat /\ 1 <= i /\ i <= n
  BY <1>1, HeaderIs
<1> DEFINE a == SubSeq(d, 1, i - 1)
           b == SubSeq(d, i + 1, n)
<1>3. a \in Seq(Header) /\ Len(a) = i - 1 /\ \A k \in 1..i - 1 : a[k] = d[k]
  <2>1. \A k \in 1..i - 1 : d[k] \in Header
    BY <1>2
  <2>2. /\ a \in Seq(Header) /\ Len(a) = (IF 1 <= i - 1 THEN i - 1 - 1 + 1 ELSE 0)
        /\ \A k \in 1..i - 1 - 1 + 1 : a[k] = d[1 + k - 1]
    BY <1>2, <2>1, SubSeqProperties
  <2>3. \A k \in 1..i - 1 : k \in 1..i - 1 - 1 + 1 /\ 1 + k - 1 = k
    BY <1>2
  <2> HIDE DEF a
  <2>4. QED
    BY <1>2, <2>2, <2>3
<1>4. b \in Seq(Header) /\ Len(b) = n - i /\ \A k \in 1..n - i : b[k] = d[i + k]
  <2>1. \A k \in i + 1..n : d[k] \in Header
    BY <1>2
  <2>2. /\ b \in Seq(Header) /\ Len(b) = (IF i + 1 <= n THEN n - (i + 1) + 1 ELSE 0)
        /\ \A k \in 1..n - (i + 1) + 1 : b[k] = d[i + 1 + k - 1]
    BY <1>2, <2>1, SubSeqProperties
  <2>3. \A k \in 1..n - i : k \in 1..n - (i + 1) + 1 /\ i + 1 + k - 1 = i + k
    BY <1>2
  <2> HIDE DEF b
  <2>4. QED
    BY <1>2, <2>2, <2>3
<1> DEFINE r == a \o b
<1>5. RemoveAt(d, i) = r
  BY <1>1 DEF RemoveAt
<1> HIDE DEF a, b
<1>6. /\ r \in Seq(Header) /\ Len(r) = Len(a) + Len(b)
      /\ \A k \in 1..Len(a) + Len(b) : r[k] = IF k <= Len(a) THEN a[k] ELSE b[k - Len(a)]
  BY <1>3, <1>4, ConcatProperties
<1> HIDE DEF r
<1>7. Len(r) = n - 1 /\ DOMAIN r = 1..n - 1
  BY <1>2, <1>3, <1>4, <1>6
<1>8. \A k \in 1..n - 1 : r[k] = IF k < i THEN d[k] ELSE d[k + 1]
  <2>1. SUFFICES ASSUME NEW k \in 1..n - 1
                 PROVE  r[k] = IF k < i THEN d[k] ELSE d[k + 1]
    OBVIOUS
  <2>2. r[k] = IF k <= i - 1 THEN a[k] ELSE b[k - (i - 1)]
    BY <1>2, <1>3, <1>4, <1>6
  <2>3. CASE k < i
    BY <1>2, <1>3, <2>2, <2>3
  <2>4. CASE ~(k < i)
    <3>1. k - (i - 1) \in 1..n - i /\ i + (k - (i - 1)) = k + 1 /\ ~(k <= i - 1)
      BY <1>2, <2>4
    <3>2. b[k - (i - 1)] = d[i + (k - (i - 1))]
      BY <1>4, <3>1
    <3>3. QED
      BY <2>2, <2>4, <3>1, <3>2
  <2>5. QED
    BY <2>3, <2>4
<1> DEFINE e == [k \in 1..n - 1 |-> IF k < i THEN k ELSE k + 1]
<1>9. Thinned(r, d, d, {i}, e)
  <2>1. e \in [DOMAIN r -> DOMAIN d \ {i}]
    BY <1>2, <1>7
  <2>2. \A k \in DOMAIN r : r[k] = d[e[k]]
    BY <1>7, <1>8
  <2>3. \A j, k \in DOMAIN r : e[j] = e[k] => j = k
    BY <1>2, <1>7
  <2>4. \A m \in DOMAIN d \ {i} : \E k \in DOMAIN r : e[k] = m
    <3>1. SUFFICES ASSUME NEW m \in DOMAIN d \ {i} PROVE \E k \in DOMAIN r : e[k] = m
      OBVIOUS
    <3>2. CASE m < i
      BY <1>2, <1>7, <3>2
    <3>3. CASE m > i
      <4>1. m - 1 \in 1..n - 1 /\ ~(m - 1 < i) /\ m - 1 + 1 = m
        BY <1>2, <3>3
      <4>2. QED
        BY <1>7, <4>1
    <3>4. QED
      BY <1>2, <3>2, <3>3
  <2> HIDE DEF e
  <2>5. QED
    BY <2>1, <2>2, <2>3, <2>4 DEF Thinned
<1>10. Len(r) = Len(d) - 1
  BY <1>1, <1>7
<1>11. QED
  BY <1>5, <1>6, <1>9, <1>10

(***************************************************************************)
(* What a deletion leaves: w[i] is what is left of the first i records.    *)
(***************************************************************************)
Remains(d, gone, w, n) ==
    /\ w[0] = <<>>
    /\ \A i \in 1..n : w[i] = IF i \in gone THEN w[i - 1] ELSE Append(w[i - 1], d[i])

LEMMA RemainsExist ==
    ASSUME NEW T, NEW d \in Seq(T), NEW gone
    PROVE  \E w \in [0..Len(d) -> Seq(T)] : Remains(d, gone, w, Len(d))
<1> DEFINE S == {n \in 0..Len(d) : \E w \in [0..n -> Seq(T)] : Remains(d, gone, w, n)}
<1>1. Len(d) \in Nat /\ 0 \in S
  <2> DEFINE w == [i \in 0..0 |-> <<>>]
  <2>1. w \in [0..0 -> Seq(T)] /\ w[0] = <<>>
    OBVIOUS
  <2>2. Remains(d, gone, w, 0)
    BY <2>1 DEF Remains
  <2>3. Len(d) \in Nat /\ 0 \in 0..Len(d)
    OBVIOUS
  <2> HIDE DEF w
  <2>4. \E v \in [0..0 -> Seq(T)] : Remains(d, gone, v, 0)
    BY <2>1, <2>2
  <2>5. QED
    BY <2>3, <2>4
<1>2. ASSUME NEW n \in 1..Len(d), n - 1 \in S PROVE n \in S
  <2>1. PICK w \in [0..n - 1 -> Seq(T)] : Remains(d, gone, w, n - 1)
    BY <1>2
  <2> DEFINE x == IF n \in gone THEN w[n - 1] ELSE Append(w[n - 1], d[n])
             v == [i \in 0..n |-> IF i = n THEN x ELSE w[i]]
  <2>2. n \in Nat /\ w[0] = <<>>
        /\ \A i \in 1..n - 1 : w[i] = IF i \in gone THEN w[i - 1] ELSE Append(w[i - 1], d[i])
    BY <1>1, <2>1 DEF Remains
  <2>3. x \in Seq(T)
    <3>1. w[n - 1] \in Seq(T) /\ d[n] \in T
      BY <2>1, <2>2
    <3>2. QED
      BY <3>1, AppendProperties
  <2>4. \A i \in 0..n : i = n \/ (i # n /\ i \in 0..n - 1)
    BY <2>2
  <2> HIDE DEF x
  <2>5. v \in [0..n -> Seq(T)] /\ v[n] = x /\ \A i \in 0..n - 1 : v[i] = w[i]
    BY <2>1, <2>2, <2>3, <2>4
  <2> HIDE DEF v
  <2>6. Remains(d, gone, v, n)
    <3>1. v[0] = <<>>
      BY <2>2, <2>5
    <3>2. ASSUME NEW i \in 1..n
          PROVE  v[i] = IF i \in gone THEN v[i - 1] ELSE Append(v[i - 1], d[i])
      <4>1. i - 1 \in 0..n - 1 /\ v[i - 1] = w[i - 1] /\ (i = n \/ (i \in 1..n - 1 /\ v[i] = w[i]))
        BY <2>2, <2>5
      <4>2. QED
        BY <2>2, <2>5, <4>1 DEF x
    <3>3. QED
      BY <3>1, <3>2 DEF Remains
  <2>7. QED
    BY <2>5, <2>6
<1> HIDE DEF S
<1>3. 0..Len(d) \subseteq S
  BY <1>1, <1>2, Upwards
<1>4. QED
  BY <1>1, <1>3 DEF S

LEMMA WithoutIs ==
    ASSUME NEW T, NEW d \in Seq(T), NEW gone,
           NEW w \in [0..Len(d) -> Seq(T)], Remains(d, gone, w, Len(d))
    PROVE  Without(d, gone) = w[Len(d)]
<1> DEFINE F(f, i) == IF i = 0 THEN <<>>
                      ELSE IF i \in gone THEN f[i - 1] ELSE Append(f[i - 1], d[i])
           upto == CHOOSE f : f = [i \in 0..Len(d) |-> F(f, i)]
<1>1. Len(d) \in Nat
  OBVIOUS
<1>2. w = [i \in 0..Len(d) |-> F(w, i)]
  <2>1. w = [i \in 0..Len(d) |-> w[i]]
    OBVIOUS
  <2>2. w[0] = F(w, 0)
    BY DEF Remains
  <2>3. \A i \in 1..Len(d) : i # 0 /\ w[i] = F(w, i)
    BY <1>1 DEF Remains
  <2>4. \A i \in 0..Len(d) : i = 0 \/ i \in 1..Len(d)
    BY <1>1
  <2> HIDE DEF F
  <2>5. \A i \in 0..Len(d) : w[i] = F(w, i)
    BY <2>2, <2>3, <2>4
  <2>6. QED
    BY <2>1, <2>5
<1>3. upto = [i \in 0..Len(d) |-> F(upto, i)]
  <2> HIDE DEF F
  <2>1. QED
    BY <1>2
<1>4. Without(d, gone) = upto[Len(d)]
  BY DEF Without
<1> DEFINE S == {i \in 0..Len(d) : upto[i] = w[i]}
<1>5. \A i \in 0..Len(d) : upto[i] = F(upto, i) /\ w[i] = F(w, i)
  <2>1. \A i \in 0..Len(d) : w[i] = F(w, i)
    <3> HIDE DEF F, upto
    <3>1. QED
      BY <1>2
  <2>2. \A i \in 0..Len(d) : upto[i] = F(upto, i)
    <3> HIDE DEF F, upto
    <3>1. QED
      BY <1>3
  <2> HIDE DEF F, upto
  <2>3. QED
    BY <2>1, <2>2
<1>6. 0 \in S
  <2> HIDE DEF upto
  <2>1. QED
    BY <1>1, <1>5
<1>7. ASSUME NEW i \in 1..Len(d), i - 1 \in S PROVE i \in S
  <2>1. i # 0 /\ upto[i - 1] = w[i - 1] /\ i \in 0..Len(d)
    BY <1>1, <1>7
  <2> HIDE DEF upto
  <2>2. QED
    BY <1>5, <2>1
<1> HIDE DEF S, upto, F
<1>8. 0..Len(d) \subseteq S
  BY <1>1, <1>6, <1>7, Upwards
<1>9. QED
  BY <1>1, <1>4, <1>8 DEF S

(* e says where the records of v come from among the first n of d. *)
Comes(v, d, gone, n, e) ==
    /\ e \in [1..Len(v) -> 1..n \ gone]
    /\ \A k \in 1..Len(v) : v[k] = d[e[k]]
    /\ \A j, k \in 1..Len(v) : e[j] = e[k] => j = k
    /\ \A i \in 1..n \ gone : \E k \in 1..Len(v) : e[k] = i

LEMMA WithoutThins ==
    ASSUME NEW d \in Seq(Header), NEW gone
    PROVE  /\ Without(d, gone) \in Seq(Header)
           /\ \E e : Thinned(Without(d, gone), d, d, gone, e)
<1>1. PICK w \in [0..Len(d) -> Seq(Header)] : Remains(d, gone, w, Len(d))
  BY RemainsExist
<1> DEFINE S == {n \in 0..Len(d) : \E e : Comes(w[n], d, gone, n, e)}
<1>2. Len(d) \in Nat /\ DOMAIN d = 1..Len(d) /\ w[0] = <<>>
      /\ (\A n \in 0..Len(d) : w[n] \in Seq(Header)) /\ \A i \in 1..Len(d) : d[i] \in Header
  <2>1. Len(d) \in Nat /\ DOMAIN d = 1..Len(d) /\ \A i \in 1..Len(d) : d[i] \in Header
    BY HeaderIs
  <2>2. QED
    BY <1>1, <2>1 DEF Remains
<1>3. 0 \in S
  <2> DEFINE e == [k \in 1..0 |-> k]
  <2>1. Len(w[0]) = 0 /\ e \in [1..0 -> 1..0 \ gone]
    BY <1>2
  <2> HIDE DEF e
  <2>2. Comes(w[0], d, gone, 0, e)
    BY <1>2, <2>1 DEF Comes
  <2>3. QED
    BY <1>2, <2>2
<1>4. ASSUME NEW n \in 1..Len(d), n - 1 \in S PROVE n \in S
  <2>1. PICK m : m = Len(w[n - 1])
    OBVIOUS
  <2>2. PICK e \in [1..m -> 1..n - 1 \ gone] :
            /\ \A k \in 1..m : w[n - 1][k] = d[e[k]]
            /\ \A j, k \in 1..m : e[j] = e[k] => j = k
            /\ \A i \in 1..n - 1 \ gone : \E k \in 1..m : e[k] = i
    BY <1>4, <2>1 DEF Comes
  <2>3. n \in Nat /\ n >= 1 /\ n - 1 \in 0..Len(d) /\ n \in 0..Len(d) /\ m \in Nat
        /\ w[n - 1] \in Seq(Header) /\ d[n] \in Header
    BY <1>2, <2>1
  <2>4. w[n] = IF n \in gone THEN w[n - 1] ELSE Append(w[n - 1], d[n])
    BY <1>1 DEF Remains
  <2>5. CASE n \in gone
    <3>1. 1..n \ gone = 1..n - 1 \ gone
      BY <2>3, <2>5
    <3>2. Len(w[n]) = m /\ w[n] = w[n - 1]
      BY <2>1, <2>4, <2>5
    <3>3. Comes(w[n], d, gone, n, e)
      BY <2>2, <3>1, <3>2 DEF Comes
    <3>4. QED
      BY <2>3, <3>3
  <2>6. CASE n \notin gone
    <3>1. /\ Len(w[n]) = m + 1 /\ w[n][m + 1] = d[n]
          /\ \A k \in 1..m : w[n][k] = w[n - 1][k]
      BY <2>1, <2>3, <2>4, <2>6, AppendProperties
    <3> DEFINE f == [k \in 1..m + 1 |-> IF k = m + 1 THEN n ELSE e[k]]
    <3>2. \A k \in 1..m + 1 : k = m + 1 \/ (k # m + 1 /\ k \in 1..m)
      BY <2>3
    <3>3. \A k \in 1..m : k \in 1..m + 1 /\ k # m + 1
      BY <2>3
    <3>4. m + 1 \in 1..m + 1
      BY <2>3
    <3>5. f \in [1..m + 1 -> 1..n \ gone]
      <4>1. n \in 1..n \ gone /\ 1..n - 1 \ gone \subseteq 1..n \ gone
        BY <2>3, <2>6
      <4>2. \A k \in 1..m : e[k] \in 1..n \ gone
        BY <2>2, <4>1
      <4>3. QED
        BY <3>2, <4>1, <4>2
    <3>6. f[m + 1] = n /\ \A k \in 1..m : f[k] = e[k]
      BY <3>3, <3>4
    <3>7. \A k \in 1..m : e[k] # n
      <4>1. n \notin 1..n - 1
        BY <2>3
      <4>2. QED
        BY <2>2, <4>1
    <3> HIDE DEF f
    <3>8. \A k \in 1..m + 1 : w[n][k] = d[f[k]]
      BY <2>2, <3>1, <3>2, <3>6
    <3>9. \A j, k \in 1..m + 1 : f[j] = f[k] => j = k
      BY <2>2, <3>2, <3>6, <3>7
    <3>10. \A i \in 1..n \ gone : \E k \in 1..m + 1 : f[k] = i
      <4>1. \A i \in 1..n : i = n \/ i \in 1..n - 1
        BY <2>3
      <4>2. QED
        BY <2>2, <3>3, <3>4, <3>6, <4>1
    <3>11. Comes(w[n], d, gone, n, f)
      BY <3>1, <3>5, <3>8, <3>9, <3>10 DEF Comes
    <3>12. QED
      BY <2>3, <3>11
  <2>7. QED
    BY <2>5, <2>6
<1> HIDE DEF S
<1>5. 0..Len(d) \subseteq S
  BY <1>2, <1>3, <1>4, Upwards
<1>6. Len(d) \in S
  BY <1>2, <1>5
<1>7. PICK r : r = w[Len(d)]
  OBVIOUS
<1>8. r = Without(d, gone) /\ r \in Seq(Header) /\ DOMAIN r = 1..Len(r)
  <2>1. Without(d, gone) = w[Len(d)]
    BY <1>1, WithoutIs
  <2>2. r \in Seq(Header)
    BY <1>2, <1>7
  <2>3. QED
    BY <1>7, <2>1, <2>2
<1>9. PICK e : Comes(r, d, gone, Len(d), e)
  BY <1>6, <1>7 DEF S
<1>10. Thinned(r, d, d, gone, e)
  BY <1>2, <1>8, <1>9 DEF Thinned, Comes
<1>11. QED
  BY <1>8, <1>10

LEMMA StartIs ==
    ASSUME NEW gone, NEW n \in Nat, gone \subseteq 1..n, gone # {}
    PROVE  LET start == CHOOSE i \in gone : \A j \in gone : i <= j
           IN  start \in gone /\ \A j \in gone : start <= j
<1>1. gone \subseteq 0..n
  OBVIOUS
<1>2. \E i \in gone : \A j \in gone : i <= j
  BY <1>1, Least
<1>3. QED
  BY <1>2

LEMMA RewrittenThins ==
    ASSUME NEW d \in Seq(Header), NEW read \in Seq(Header), NEW gone, gone \subseteq DOMAIN read,
           Len(read) = Len(d)
    PROVE  LET r == Rewritten(d, read, gone)
           IN  r \in Seq(Header) /\ \E e : Thinned(r, d, read, gone, e)
<1>1. PICK n : n = Len(d)
  OBVIOUS
<1>2. /\ DOMAIN d = 1..n /\ DOMAIN read = 1..n /\ n \in Nat
      /\ \A i \in 1..n : d[i] \in Header
  BY <1>1, HeaderIs
<1>3. CASE gone = {}
  <2> DEFINE e == [i \in 1..n |-> i]
  <2>1. /\ e \in [DOMAIN d -> DOMAIN d \ gone] /\ \A k \in DOMAIN d : e[k] = k
    BY <1>2, <1>3
  <2> HIDE DEF e
  <2>2. Thinned(d, d, read, gone, e)
    BY <2>1 DEF Thinned
  <2>3. QED
    BY <1>3, <2>2 DEF Rewritten
<1>4. CASE gone # {}
  <2> DEFINE start == CHOOSE i \in gone : \A j \in gone : i <= j
             top == SubSeq(d, 1, start - 1)
             rest == Without(read, gone \cup 1..start)
  <2>1. start \in gone /\ \A j \in gone : start <= j
    BY <1>2, <1>4, StartIs
  <2>2. Rewritten(d, read, gone) = top \o rest
    BY <1>4 DEF Rewritten
  <2>3. start \in Nat /\ 1 <= start /\ start <= n
    BY <1>2, <2>1
  <2> HIDE DEF start
  <2>4. /\ top \in Seq(Header) /\ Len(top) = start - 1
        /\ \A k \in 1..start - 1 : top[k] = d[k]
    <3>1. \A k \in 1..start - 1 : d[k] \in Header
      BY <1>2, <2>3
    <3>2. /\ top \in Seq(Header) /\ Len(top) = (IF 1 <= start - 1 THEN start - 1 - 1 + 1 ELSE 0)
          /\ \A k \in 1..start - 1 - 1 + 1 : top[k] = d[1 + k - 1]
      BY <2>3, <3>1, SubSeqProperties
    <3>3. \A k \in 1..start - 1 : k \in 1..start - 1 - 1 + 1 /\ 1 + k - 1 = k
      BY <2>3
    <3> HIDE DEF top
    <3>4. QED
      BY <2>3, <3>2, <3>3
  <2>5. rest \in Seq(Header) /\ \E f : Thinned(rest, read, read, gone \cup 1..start, f)
    <3>1. ASSUME NEW g
          PROVE  /\ Without(read, g) \in Seq(Header)
                 /\ \E f : Thinned(Without(read, g), read, read, g, f)
      BY WithoutThins
    <3>2. QED
      BY <3>1
  <2> HIDE DEF top, rest
  <2>6. PICK f : Thinned(rest, read, read, gone \cup 1..start, f)
    BY <2>5
  <2>7. PICK m : m = Len(rest)
    OBVIOUS
  <2>8. m \in Nat /\ DOMAIN rest = 1..m
    BY <2>5, <2>7
  <2>9. PICK s : s = start - 1
    OBVIOUS
  <2>10. s \in Nat /\ start = s + 1 /\ s < n
    BY <1>2, <2>3, <2>9
  <2> DEFINE r == top \o rest
  <2>11. /\ r \in Seq(Header) /\ Len(r) = s + m
         /\ \A k \in 1..s + m : r[k] = IF k <= s THEN top[k] ELSE rest[k - s]
    BY <2>4, <2>5, <2>7, <2>9, ConcatProperties
  <2> HIDE DEF r
  <2>12. DOMAIN r = 1..s + m
    BY <2>11
  <2>13. /\ f \in [1..m -> 1..n \ (gone \cup 1..start)]
         /\ \A k \in 1..m : rest[k] = read[f[k]]
         /\ \A j, k \in 1..m : f[j] = f[k] => j = k
         /\ \A i \in 1..n \ (gone \cup 1..start) : \E k \in 1..m : f[k] = i
    BY <1>2, <2>6, <2>8 DEF Thinned
  <2> DEFINE e == [k \in 1..s + m |-> IF k <= s THEN k ELSE f[k - s]]
  <2>14. \A k \in 1..s + m : \/ k <= s /\ k \in 1..s /\ e[k] = k
                             \/ ~(k <= s) /\ k - s \in 1..m /\ e[k] = f[k - s]
    BY <2>8, <2>10
  <2>15. \A k \in 1..s : k \in 1..n /\ k \notin gone /\ k \in 1..start - 1 /\ k \in 1..s + m
    <3>1. \A j \in gone : j \in Nat /\ start <= j
      BY <1>2, <2>1
    <3>2. QED
      BY <1>2, <2>8, <2>10, <3>1
  <2>16. e \in [1..s + m -> 1..n \ gone]
    <3>1. \A k \in 1..s + m : e[k] \in 1..n \ gone
      <4> HIDE DEF e
      <4>1. QED
        BY <2>13, <2>14, <2>15
    <3>2. QED
      BY <3>1
  <2> HIDE DEF e
  <2>17. \A k \in 1..s + m : r[k] = d[e[k]] \/ r[k] = read[e[k]]
    BY <2>4, <2>11, <2>13, <2>14, <2>15
  <2>18. \A k \in 1..m : f[k] \notin 1..s
    BY <2>10, <2>13
  <2>19. \A j, k \in 1..s + m : e[j] = e[k] => j = k
    <3>1. SUFFICES ASSUME NEW j \in 1..s + m, NEW k \in 1..s + m, e[j] = e[k] PROVE j = k
      OBVIOUS
    <3>2. CASE j <= s /\ k <= s
      BY <2>14, <3>1, <3>2
    <3>3. CASE ~(j <= s) /\ ~(k <= s)
      <4>1. j - s \in 1..m /\ k - s \in 1..m /\ f[j - s] = f[k - s]
        BY <2>14, <3>1, <3>3
      <4>2. j - s = k - s
        BY <2>13, <4>1
      <4>3. QED
        BY <2>8, <2>10, <4>2
    <3>4. QED
      BY <2>14, <2>18, <3>1, <3>2, <3>3
  <2>20. \A i \in 1..n \ gone : \E k \in 1..s + m : e[k] = i
    <3>1. SUFFICES ASSUME NEW i \in 1..n \ gone PROVE \E k \in 1..s + m : e[k] = i
      OBVIOUS
    <3>2. CASE i <= s
      <4>1. i \in 1..s
        BY <2>10, <3>2
      <4>2. QED
        BY <2>14, <2>15, <3>2, <4>1
    <3>3. CASE ~(i <= s)
      <4>1. i \notin 1..start
        BY <2>1, <2>10, <3>1, <3>3
      <4>2. PICK k \in 1..m : f[k] = i
        BY <2>13, <4>1
      <4>3. s + k \in 1..s + m /\ ~(s + k <= s) /\ (s + k) - s = k
        BY <2>8, <2>10
      <4>4. e[s + k] = f[(s + k) - s]
        BY <2>14, <4>3
      <4>5. QED
        BY <4>2, <4>3, <4>4
    <3>4. QED
      BY <3>2, <3>3
  <2>21. Thinned(r, d, read, gone, e)
    BY <1>2, <2>12, <2>16, <2>17, <2>19, <2>20 DEF Thinned
  <2>22. QED
    BY <2>2, <2>11, <2>21 DEF r
<1>5. QED
  BY <1>3, <1>4

LEMMA SubstituteHas ==
    ASSUME NEW d \in Seq(Header), NEW h \in Header, NEW e \in Nat \ {0}
    PROVE  LET r == substitute_record(d, h, e, Hole)
           IN  /\ r \in Seq(Header) /\ Len(r) >= Len(d) /\ DOMAIN d \subseteq DOMAIN r
               /\ e \in DOMAIN d => DOMAIN r = DOMAIN d /\ Len(r) = Len(d)
               /\ e \in DOMAIN r /\ r[e] = h
               /\ \A i \in DOMAIN d : i # e => r[i] = d[i]
<1> DEFINE n == IF e > Len(d) THEN e ELSE Len(d)
           r == substitute_record(d, h, e, Hole)
<1>1. DOMAIN d = 1..Len(d) /\ Len(d) \in Nat /\ \A i \in 1..Len(d) : d[i] \in Header
  BY HeaderIs
<1>2. Hole \in Header
  BY HeaderFacts
<1>3. n \in Nat /\ Len(d) <= n /\ e \in 1..n /\ (e \in 1..Len(d) => n = Len(d))
  <2>1. PICK m : m = Len(d)
    OBVIOUS
  <2>2. m \in Nat /\ n = IF e > m THEN e ELSE m
    BY <1>1, <2>1
  <2> HIDE DEF n
  <2>3. n \in Nat /\ m <= n /\ e \in 1..n /\ (e \in 1..m => n = m)
    <3>1. CASE e > m
      BY <2>2, <3>1
    <3>2. CASE ~(e > m)
      BY <2>2, <3>2
    <3>3. QED
      BY <3>1, <3>2
  <2>4. QED
    BY <2>1, <2>3
<1>4. r = [i \in 1..n |-> IF i = e THEN h ELSE IF i <= Len(d) THEN d[i] ELSE Hole]
  BY DEF substitute_record
<1> HIDE DEF r, n
<1>5. \A i \in 1..n : i = e \/ (i # e /\ i <= Len(d) /\ d[i] \in Header) \/ (i # e /\ ~(i <= Len(d)))
  <2>1. PICK m : m = Len(d)
    OBVIOUS
  <2>2. m \in Nat /\ n \in Nat
    BY <1>1, <1>3, <2>1
  <2>3. \A i \in 1..n : i <= m => i \in 1..m
    BY <2>2
  <2>4. QED
    BY <1>1, <2>1, <2>3
<1>6. \A i \in 1..n : r[i] \in Header
  BY <1>2, <1>4, <1>5
<1>7. r \in [1..n -> Header]
  BY <1>4, <1>6
<1>8. r \in Seq(Header) /\ Len(r) = n /\ DOMAIN r = 1..n
  BY <1>3, <1>7
<1>9. r[e] = h /\ \A i \in 1..Len(d) : i \in 1..n /\ (i # e => r[i] = d[i])
  <2>1. PICK m : m = Len(d)
    OBVIOUS
  <2>2. m \in Nat /\ n \in Nat /\ m <= n
    BY <1>1, <1>3, <2>1
  <2>3. \A i \in 1..m : i \in 1..n /\ i <= m
    BY <2>2
  <2>4. QED
    BY <1>3, <1>4, <2>1, <2>3
<1>10. /\ r \in Seq(Header) /\ Len(r) >= Len(d) /\ DOMAIN d \subseteq DOMAIN r
       /\ e \in DOMAIN r /\ r[e] = h /\ \A i \in DOMAIN d : i # e => r[i] = d[i]
  BY <1>1, <1>3, <1>8, <1>9
<1>11. e \in DOMAIN d => DOMAIN r = DOMAIN d /\ Len(r) = Len(d)
  BY <1>1, <1>3, <1>8
<1>12. QED
  BY <1>10, <1>11 DEF r

-----------------------------------------------------------------------------
(***************************************************************************)
(* Searches: what is found is there.                                       *)
(***************************************************************************)
Spans(d) == (0..(Len(d) + 1)) \X (-1..Len(d))
Middle(r) == (r[1] + r[2]) \div 2
Probe(d, key, f, r) ==
    IF r[1] > r[2] THEN -(r[1] + 1)
    ELSE IF key = d[Middle(r) + 1].filetime THEN Middle(r)
    ELSE IF key < d[Middle(r) + 1].filetime THEN f[<<r[1], Middle(r) - 1>>]
    ELSE f[<<Middle(r) + 1, r[2]>>]

(* How long a search may still take. *)
Span(d, r) == r[2] - r[1] + Len(d) + 2

LEMMA SpanIs ==
    ASSUME NEW d \in Seq(Header), NEW r \in Spans(d)
    PROVE  /\ r[1] \in Nat /\ r[2] \in Int /\ Span(d, r) \in 0..2 * Len(d) + 2
           /\ r[1] <= r[2] =>
                /\ Middle(r) \in Int /\ r[1] <= Middle(r) /\ Middle(r) <= r[2]
                /\ <<r[1], Middle(r) - 1>> \in Spans(d)
                /\ Span(d, <<r[1], Middle(r) - 1>>) < Span(d, r)
                /\ <<Middle(r) + 1, r[2]>> \in Spans(d)
                /\ Span(d, <<Middle(r) + 1, r[2]>>) < Span(d, r)
<1>1. PICK n : n = Len(d)
  OBVIOUS
<1>2. PICK a, b : r = <<a, b>> /\ a \in 0..(n + 1) /\ b \in -1..n
  BY <1>1 DEF Spans
<1>3. n \in Nat /\ r[1] = a /\ r[2] = b
  BY <1>1, <1>2, HeaderIs
<1>4. b - a + n + 2 \in 0..2 * n + 2
  BY <1>2, <1>3
<1>5. ASSUME a <= b
      PROVE  LET m == (a + b) \div 2
             IN  /\ m \in Int /\ a <= m /\ m <= b
                 /\ m - 1 \in -1..n /\ m - 1 - a + n + 2 < b - a + n + 2
                 /\ m + 1 \in 0..(n + 1) /\ b - (m + 1) + n + 2 < b - a + n + 2
  <2> DEFINE m == (a + b) \div 2
  <2>1. a \in Nat /\ b \in Nat /\ b <= n
    BY <1>2, <1>3, <1>5
  <2>2. m \in Int /\ a <= m /\ m <= b
    BY <1>5, <2>1
  <2> HIDE DEF m
  <2>3. /\ m - 1 \in -1..n /\ m - 1 - a + n + 2 < b - a + n + 2
        /\ m + 1 \in 0..(n + 1) /\ b - (m + 1) + n + 2 < b - a + n + 2
    BY <1>3, <2>1, <2>2
  <2>4. QED
    BY <2>2, <2>3 DEF m
<1>6. Middle(r) = (a + b) \div 2
  BY <1>3 DEF Middle
<1>7. PICK m : m = Middle(r)
  OBVIOUS
<1>8. a <= b => /\ m \in Int /\ a <= m /\ m <= b
                /\ m - 1 \in -1..n /\ m - 1 - a + n + 2 < b - a + n + 2
                /\ m + 1 \in 0..(n + 1) /\ b - (m + 1) + n + 2 < b - a + n + 2
  BY <1>5, <1>6, <1>7
<1>9. /\ Span(d, r) = b - a + n + 2
      /\ Span(d, <<a, m - 1>>) = m - 1 - a + n + 2
      /\ Span(d, <<m + 1, b>>) = b - (m + 1) + n + 2
  BY <1>1, <1>3 DEF Span
<1>10. a <= b => <<a, m - 1>> \in Spans(d) /\ <<m + 1, b>> \in Spans(d)
  BY <1>1, <1>2, <1>8 DEF Spans
<1>11. r[1] \in Nat /\ r[2] \in Int /\ Span(d, r) \in 0..2 * Len(d) + 2
  BY <1>1, <1>2, <1>3, <1>4, <1>9
<1>12. QED
  BY <1>3, <1>7, <1>8, <1>9, <1>10, <1>11

LEMMA ProbeIn ==
    ASSUME NEW d \in Seq(Header), NEW key, NEW f \in [Spans(d) -> Int], NEW r \in Spans(d)
    PROVE  Probe(d, key, f, r) \in Int
<1> r[1] \in Nat /\ r[2] \in Int
  BY SpanIs
<1>1. CASE r[1] > r[2]
  BY <1>1 DEF Probe
<1>2. CASE ~(r[1] > r[2])
  <2>1. r[1] <= r[2]
    BY <1>2
  <2>2. /\ Middle(r) \in Int /\ f[<<r[1], Middle(r) - 1>>] \in Int
        /\ f[<<Middle(r) + 1, r[2]>>] \in Int
    BY <2>1, SpanIs
  <2>3. QED
    BY <1>2, <2>2 DEF Probe
<1>3. QED
  BY <1>1, <1>2

(* It depends on shorter searches only. *)
LEMMA ProbeSame ==
    ASSUME NEW d \in Seq(Header), NEW key, NEW f, NEW g, NEW r \in Spans(d),
           \A x \in Spans(d) : Span(d, x) < Span(d, r) => f[x] = g[x]
    PROVE  Probe(d, key, f, r) = Probe(d, key, g, r)
<1> r[1] \in Nat /\ r[2] \in Int
  BY SpanIs
<1>1. CASE r[1] > r[2]
  BY <1>1 DEF Probe
<1>2. CASE ~(r[1] > r[2])
  <2>1. r[1] <= r[2]
    BY <1>2
  <2>2. /\ f[<<r[1], Middle(r) - 1>>] = g[<<r[1], Middle(r) - 1>>]
        /\ f[<<Middle(r) + 1, r[2]>>] = g[<<Middle(r) + 1, r[2]>>]
    BY <2>1, SpanIs
  <2>3. QED
    BY <1>2, <2>2 DEF Probe
<1>3. QED
  BY <1>1, <1>2

LEMMA ProbesExist ==
    ASSUME NEW d \in Seq(Header), NEW key
    PROVE  \E f \in [Spans(d) -> Int] : f = [r \in Spans(d) |-> Probe(d, key, f, r)]
<1> DEFINE P == Spans(d)
           N == 2 * Len(d) + 3
           S == {n \in 0..N : \E f \in [P -> Int] : \A r \in P :
                    Span(d, r) < n => f[r] = Probe(d, key, f, r)}
<1>1. N \in Nat /\ \A r \in P : Span(d, r) \in Nat /\ Span(d, r) < N
  <2>1. Len(d) \in Nat
    BY HeaderIs
  <2>2. \A r \in P : Span(d, r) \in 0..2 * Len(d) + 2
    BY SpanIs
  <2>3. QED
    BY <2>1, <2>2
<1> HIDE DEF P, N
<1>2. 0 \in S
  <2>1. \A r \in P : ~(Span(d, r) < 0)
    BY <1>1
  <2>2. \E f \in [P -> Int] : \A r \in P : Span(d, r) < 0 => f[r] = Probe(d, key, f, r)
    <3>1. [r \in P |-> 0] \in [P -> Int]
      OBVIOUS
    <3>2. QED
      BY <2>1, <3>1
  <2>3. 0 \in 0..N
    BY <1>1
  <2>4. QED
    BY <2>2, <2>3
<1>3. ASSUME NEW n \in 1..N, n - 1 \in S PROVE n \in S
  <2>1. PICK f \in [P -> Int] : \A r \in P : Span(d, r) < n - 1 => f[r] = Probe(d, key, f, r)
    BY <1>3
  <2> DEFINE g == [r \in P |-> Probe(d, key, f, r)]
  <2>2. g \in [P -> Int] /\ \A r \in P : g[r] = Probe(d, key, f, r)
    <3>1. \A r \in P : Probe(d, key, f, r) \in Int
      BY ProbeIn DEF P
    <3>2. QED
      BY <3>1
  <2> HIDE DEF g
  <2>3. ASSUME NEW r \in P, Span(d, r) < n PROVE g[r] = Probe(d, key, g, r)
    <3>1. ASSUME NEW x \in P, Span(d, x) < Span(d, r) PROVE f[x] = g[x]
      <4>1. Span(d, x) < n - 1
        BY <1>1, <1>3, <2>3, <3>1
      <4>2. QED
        BY <2>1, <2>2, <4>1
    <3>2. Probe(d, key, f, r) = Probe(d, key, g, r)
      BY <3>1, ProbeSame DEF P
    <3>3. QED
      BY <2>2, <3>2
  <2>4. QED
    BY <1>3, <2>2, <2>3
<1> HIDE DEF S
<1>4. 0..N \subseteq S
  BY <1>1, <1>2, <1>3, Upwards
<1>5. N \in S
  BY <1>1, <1>4
<1>6. PICK f \in [P -> Int] : \A r \in P : Span(d, r) < N => f[r] = Probe(d, key, f, r)
  BY <1>5 DEF S
<1>7. \A r \in P : f[r] = Probe(d, key, f, r)
  BY <1>1, <1>6
<1>8. f = [r \in P |-> Probe(d, key, f, r)]
  BY <1>6, <1>7
<1>9. QED
  BY <1>8 DEF P

LEMMA SearchIs ==
    ASSUME NEW d \in Seq(Header), NEW key, NEW to \in 1..Len(d)
    PROVE  LET r == Search_Bin(d, key, 0, to - 1)
           IN  r \in Int /\ (r >= 0 => r + 1 \in 1..to /\ d[r + 1].filetime = key)
<1> DEFINE P == Spans(d)
           N == 2 * Len(d) + 3
           f == CHOOSE f : f = [r \in P |-> Probe(d, key, f, r)]
<1>1. Search_Bin(d, key, 0, to - 1) = f[<<0, to - 1>>]
  BY DEF Search_Bin, Probe, Middle, Spans
<1>2. f = [r \in P |-> Probe(d, key, f, r)]
  <2>1. \E g : g = [r \in P |-> Probe(d, key, g, r)]
    BY ProbesExist
  <2>2. QED
    BY <2>1
<1>3. N \in Nat /\ Len(d) \in Nat /\ \A r \in P : Span(d, r) \in Nat /\ Span(d, r) < N
  <2>1. Len(d) \in Nat
    BY HeaderIs
  <2>2. \A r \in P : Span(d, r) \in 0..2 * Len(d) + 2
    BY SpanIs
  <2>3. QED
    BY <2>1, <2>2
<1>4. ASSUME NEW r \in P PROVE f[r] = Probe(d, key, f, r)
  <2> HIDE DEF f, P
  <2>1. QED
    BY <1>2
<1>5. <<0, to - 1>> \in P
  BY <1>3 DEF Spans
<1> HIDE DEF f, N
<1> DEFINE Hits(r) == f[r] \in Int /\ (f[r] >= 0 => /\ r[1] <= f[r] /\ f[r] <= r[2]
                                                     /\ d[f[r] + 1].filetime = key)
           S == {n \in 0..N : \A r \in P : Span(d, r) < n => Hits(r)}
<1>6. 0 \in S
  BY <1>3
<1>7. ASSUME NEW n \in 1..N, n - 1 \in S PROVE n \in S
  <2>1. ASSUME NEW r \in P, Span(d, r) < n PROVE Hits(r)
    <3>1. f[r] = Probe(d, key, f, r) /\ r[1] \in Nat /\ r[2] \in Int
      BY <1>4, SpanIs
    <3>2. CASE r[1] > r[2]
      BY <3>1, <3>2 DEF Probe
    <3>3. CASE r[1] <= r[2]
      <4> DEFINE x == <<r[1], Middle(r) - 1>>
                 y == <<Middle(r) + 1, r[2]>>
      <4>1. /\ Middle(r) \in Int /\ r[1] <= Middle(r) /\ Middle(r) <= r[2]
            /\ x \in P /\ Span(d, x) < Span(d, r) /\ y \in P /\ Span(d, y) < Span(d, r)
        BY <3>3, SpanIs
      <4>2. Hits(x) /\ Hits(y)
        <5>1. Span(d, x) < n - 1 /\ Span(d, y) < n - 1
          <6> HIDE DEF x, y
          <6>1. QED
            BY <1>3, <1>7, <2>1, <4>1
        <5> HIDE DEF x, y, Hits
        <5>2. QED
          BY <1>7, <4>1, <5>1
      <4>3. x[1] = r[1] /\ x[2] = Middle(r) - 1 /\ y[1] = Middle(r) + 1 /\ y[2] = r[2]
        OBVIOUS
      <4>4. f[r] = IF key = d[Middle(r) + 1].filetime THEN Middle(r)
                   ELSE IF key < d[Middle(r) + 1].filetime THEN f[x] ELSE f[y]
        BY <3>1, <3>3 DEF Probe
      <4> HIDE DEF x, y
      <4>5. CASE key = d[Middle(r) + 1].filetime
        BY <4>1, <4>4, <4>5
      <4>6. CASE f[r] = f[x]
        BY <3>1, <4>1, <4>2, <4>3, <4>6
      <4>7. CASE f[r] = f[y]
        BY <3>1, <4>1, <4>2, <4>3, <4>7
      <4>8. QED
        BY <4>4, <4>5, <4>6, <4>7
    <3>4. QED
      BY <3>1, <3>2, <3>3
  <2> HIDE DEF Hits
  <2>2. QED
    BY <1>7, <2>1
<1> HIDE DEF S, Hits
<1>8. 0..N \subseteq S
  BY <1>3, <1>6, <1>7, Upwards
<1>9. N \in S
  BY <1>3, <1>8
<1>10. Hits(<<0, to - 1>>)
  BY <1>3, <1>5, <1>9 DEF S
<1>11. QED
  BY <1>1, <1>3, <1>10 DEF Hits

LEMMA LastIs ==
    ASSUME NEW d \in Seq(Header), NEW key, NEW to \in 0..Len(d)
    PROVE  LET r == SelectLastInSubSeq(d, 1, to, LAMBDA fh : fh.filetime = key)
           IN  r \in 0..to /\ (r # 0 => r \in DOMAIN d /\ d[r].filetime = key)
<1> DEFINE I == {i \in 1..to : d[i].filetime = key}
           r == SelectLastInSubSeq(d, 1, to, LAMBDA fh : fh.filetime = key)
<1>1. Len(d) \in Nat /\ DOMAIN d = 1..Len(d)
  BY HeaderIs
<1>2. r = IF I # {} THEN Max(I) ELSE 0
  BY DEF SelectLastInSubSeq
<1>3. I \subseteq 1..to
  OBVIOUS
<1>4. ASSUME I # {} PROVE Max(I) \in I
  <2> HIDE DEF I
  <2>1. I \subseteq 0..to /\ to \in Nat
    BY <1>1, <1>3
  <2>2. \E m \in I : \A y \in I : m >= y
    BY <1>4, <2>1, Greatest
  <2>3. QED
    BY <2>2 DEF Max
<1> HIDE DEF r
<1>5. r \in 0..to /\ (r # 0 => r \in DOMAIN d /\ d[r].filetime = key)
  <2>1. CASE I = {}
    BY <1>1, <1>2, <2>1
  <2>2. CASE I # {}
    <3>1. r \in I
      BY <1>2, <1>4, <2>2
    <3>2. QED
      BY <1>1, <3>1
  <2>3. QED
    BY <2>1, <2>2
<1>6. QED
  BY <1>5 DEF r

LEMMA FirstIs ==
    ASSUME NEW d \in Seq(Header), NEW key
    PROVE  LET r == SelectInSeq(d, LAMBDA fh : fh.filetime = key)
           IN  /\ r # 0 => r \in DOMAIN d /\ d[r].filetime = key
               /\ r = 0 => \A i \in DOMAIN d : d[i].filetime # key
<1> DEFINE I == {i \in 1..Len(d) : d[i].filetime = key}
           r == SelectInSeq(d, LAMBDA fh : fh.filetime = key)
<1>1. Len(d) \in Nat /\ DOMAIN d = 1..Len(d)
  BY HeaderIs
<1>2. r = IF I # {} THEN Min(I) ELSE 0
  BY DEF SelectInSeq
<1>3. I \subseteq 0..Len(d)
  BY <1>1
<1>4. ASSUME I # {} PROVE Min(I) \in I
  <2> HIDE DEF I
  <2>1. \E m \in I : \A y \in I : m <= y
    BY <1>1, <1>3, <1>4, Least
  <2>2. QED
    BY <2>1 DEF Min
<1>5. I # {} => r \in DOMAIN d /\ d[r].filetime = key /\ r # 0
  <2>1. I # {} => r \in I
    BY <1>2, <1>4
  <2> HIDE DEF r
  <2>2. QED
    BY <1>1, <2>1
<1>6. I = {} => r = 0 /\ \A i \in DOMAIN d : d[i].filetime # key
  BY <1>1, <1>2
<1> HIDE DEF r, I
<1>7. QED
  BY <1>5, <1>6 DEF r

LEMMA PlaceIs ==
    ASSUME NEW d \in Seq(Header), NEW key, NEW ent \in Nat
    PROVE  LET r == Place(d, key, ent)
           IN  r \in Nat /\ (r # 0 => r \in DOMAIN d /\ d[r].filetime = key)
<1> DEFINE last == SelectLastInSubSeq(d, 1, ent, LAMBDA fh : fh.filetime = key)
<1>1. Place(d, key, ent) = IF ent > Len(d) THEN 0 ELSE last
  BY DEF Place
<1>2. CASE ent > Len(d)
  BY <1>1, <1>2
<1>3. CASE ~(ent > Len(d))
  <2>1. ent \in 0..Len(d)
    BY <1>3, HeaderIs
  <2>2. last \in 0..ent /\ (last # 0 => last \in DOMAIN d /\ d[last].filetime = key)
    BY <2>1, LastIs
  <2> HIDE DEF last
  <2>3. QED
    BY <1>1, <1>3, <2>2
<1>4. QED
  BY <1>2, <1>3

-----------------------------------------------------------------------------
(***************************************************************************)
(* Where headers come from: what a step leaves in the lists and in the     *)
(* hands of its process was in somebody's before, or is an excerpt of it.  *)
(***************************************************************************)
Stems(h) == h = Hole \/ \E g \in Public : /\ h.art = g.art /\ h.kind \in {g.kind, "G"}
                                          /\ h.filetime \in {g.filetime, 0}

ListStems(l) == \A i \in DOMAIN list'[l] : Stems(list'[l][i])
Inherits(p) == /\ \A l \in Lists : ListStems(l)
               /\ Stems(loc'[p].fh)
               /\ \A i \in DOMAIN loc'[p].read : Stems(loc'[p].read[i])

LEMMA PublicIs ==
    ASSUME Typed
    PROVE  /\ \A l \in Lists : \A i \in DOMAIN list[l] : list[l][i] \in Public
           /\ \A p \in Procs : \A h : Holds(p, h) => h \in Public
           /\ \A p \in Procs : loc[p].new \in Known
           /\ Public \subseteq Known
<1>1. \A l \in Lists : \A i \in DOMAIN list[l] : list[l][i] \in Header
  BY HeaderIs DEF Typed
<1>2. ASSUME NEW p \in Procs, NEW h, Holds(p, h)
      PROVE  h \in Header
  <2>1. loc[p].fh \in Header /\ loc[p].new \in Header /\ loc[p].read \in Seq(Header)
    BY DEF Typed, Locals
  <2>2. \A i \in DOMAIN loc[p].read : loc[p].read[i] \in Header
    BY <2>1, HeaderIs
  <2>3. QED
    BY <1>2, <2>1, <2>2 DEF Holds
<1>3. QED
  BY <1>1, <1>2 DEF Public, Known

LEMMA StemsSelf == ASSUME NEW h \in Public PROVE Stems(h)
BY DEF Stems

(* What a step makes Public, it has from somebody, but for a new name.     *)
LEMMA PublicNext ==
    ASSUME Typed, NEW p \in Procs, Alone(p), Inherits(p), NEW h \in Public'
    PROVE  Stems(h) \/ (~Writing(p)' /\ h = loc'[p].new)
<1>1. CASE \E l \in Lists : \E i \in DOMAIN list'[l] : h = list'[l][i]
  BY <1>1 DEF Inherits, ListStems
<1>2. ASSUME NEW q \in Procs \ {p}, Holds(q, h)'
      PROVE  Stems(h)
  <2>1. loc'[q] = loc[q] /\ (Writing(q)' <=> Writing(q))
    BY DEF Alone, Writing
  <2>2. Holds(q, h)
    BY <1>2, <2>1 DEF Holds
  <2>3. QED
    BY <2>2, StemsSelf, PublicIs
<1>3. CASE Holds(p, h)'
  BY <1>3 DEF Inherits, Holds
<1>4. QED
  BY <1>1, <1>2, <1>3 DEF Public

-----------------------------------------------------------------------------
(***************************************************************************)
(* A step in general keeps the base of the invariant when it deals with    *)
(* the index in question and with its own locals.                          *)
(***************************************************************************)
LEMMA RightStems ==
    ASSUME Typed, ArtInv, posted <= posted', posted' \in Nat, NEW h, Stems(h)
    PROVE  Right(h, posted')
<1>1. Right(Hole, posted')
  BY DEF Right, Hole, NewLine
<1>2. ASSUME NEW g \in Public, h.art = g.art, h.filetime \in {g.filetime, 0}
      PROVE  Right(h, posted')
  <2>1. Right(g, posted) /\ g.art \in Nat
    <3>1. g \in Header
      BY DEF Public
    <3>2. QED
      BY <3>1, PublicIs, HeaderFacts DEF ArtInv
  <2>2. posted \in Nat
    BY DEF Typed
  <2>3. QED
    BY <1>2, <2>1, <2>2 DEF Right
<1>3. QED
  BY <1>1, <1>2 DEF Stems

LEMMA ArtStep ==
    ASSUME Typed, ArtInv, Typed', posted <= posted', NEW p \in Procs, Alone(p), Inherits(p),
           Right(loc'[p].new, posted')
    PROVE  ArtInv'
<1>1. posted' \in Nat /\ posted \in Nat
  BY DEF Typed
<1>2. ASSUME NEW h \in Public' PROVE Right(h, posted')
  BY <1>1, <1>2, PublicNext, RightStems
<1>3. ASSUME NEW q \in Procs PROVE Right(loc'[q].new, posted')
  <2>1. CASE q = p
    BY <2>1
  <2>2. CASE q # p
    <3>1. loc'[q] = loc[q]
      BY <2>2 DEF Alone
    <3>2. Right(loc[q].new, posted) /\ loc[q].new.art \in Nat
      <4>1. loc[q].new \in Header
        BY DEF Typed, Locals
      <4>2. QED
        BY <4>1, PublicIs, HeaderFacts DEF ArtInv
    <3>3. QED
      BY <1>1, <3>1, <3>2 DEF Right
  <2>3. QED
    BY <2>1, <2>2
<1>4. QED
  BY <1>2, <1>3 DEF ArtInv, Known

LEMMA LocalStep ==
    ASSUME LocalInv, Typed, Typed', NEW p \in Procs, Alone(p), now <= now',
           Sound(loc'[p], Left(p)'), loc'[p].start <= now'
    PROVE  LocalInv'
<1>1. ASSUME NEW q \in Procs \ {p} PROVE Sound(loc'[q], Left(q)') /\ loc'[q].start <= now'
  <2>1. loc'[q] = loc[q] /\ Left(q)' = Left(q)
    BY DEF Alone
  <2>2. loc[q].start \in Nat /\ now \in Nat /\ now' \in Nat
    BY ConstantsAre DEF Typed, Locals
  <2>3. Sound(loc[q], Left(q)) /\ loc[q].start <= now
    BY DEF LocalInv
  <2>4. loc[q].start <= now'
    BY <2>2, <2>3
  <2>5. QED
    BY <2>1, <2>3, <2>4
<1>2. QED
  BY <1>1 DEF LocalInv

(* The locals stay sound in the course of a request. *)
LEMMA SoundRests == Sound(NoLocals, {}) /\ NoLocals.start = 0
BY DEF Sound, NoLocals, Removed, Hole, NewLine

Agree(l, m) ==
    /\ l.view = m.view /\ l.new = m.new /\ l.into = m.into /\ l.from = m.from
    /\ l.read = m.read /\ l.ent = m.ent
    /\ l.fh.filetime = m.fh.filetime /\ l.fh.kind = m.fh.kind /\ l.fh.digest = m.fh.digest

LEMMA SoundAfter ==
    ASSUME NEW l, NEW m, NEW left, NEW less, Sound(m, left), Agree(l, m), less \subseteq left,
           less # {}, "relink" \in left => "relink" \in less
    PROVE  Sound(l, less)
BY DEF Sound, Agree

LEMMA AfterSound ==
    ASSUME BaseInv, NEW p \in Procs, NEW x, NEW l, After(p, x, l), Agree(l, loc[p]),
           x # "relink", l.start <= now, now <= now', now' \in Nat
    PROVE  Sound(loc'[p], Left(p)') /\ loc'[p].start <= now'
<1>1. CASE todo'[p] = <<>>
  BY <1>1, SoundRests DEF After
<1>2. CASE todo'[p] # <<>>
  <2>1. loc'[p] = l
    BY <1>2 DEF After
  <2>2. Left(p)' # {}
    <3>1. todo'[p] \in Todos
      BY DEF After, Walked
    <3>2. PICK x1, r : Leaves(todo'[p], x1, r)
      <4>1. \A s \in Todos : s = <<>> \/ \E x1, r : Leaves(s, x1, r)
        BY TodoCases
      <4>2. QED
        BY <1>2, <3>1, <4>1
    <3>3. QED
      BY <3>2 DEF Leaves, Left
  <2>3. Sound(loc[p], Left(p))
    BY DEF BaseInv, LocalInv
  <2>4. Left(p)' \subseteq Left(p) /\ ("relink" \in Left(p) => "relink" \in Left(p)')
    BY DEF After
  <2>5. Sound(l, Left(p)')
    BY <2>2, <2>3, <2>4, SoundAfter
  <2>6. now \in Nat /\ loc'[p].start \in Nat
    BY DEF BaseInv, Typed, After, Walked, Locals
  <2>7. QED
    BY <2>1, <2>5, <2>6
<1>3. QED
  BY <1>1, <1>2

Sane ==
    /\ list' \in [Lists -> Seq(Header)] /\ ListInv' /\ \A l \in Lists : ListStems(l)
    /\ posted' \in Nat /\ posted <= posted' /\ file' \in [Kinds -> [Names -> 0..posted']]
    /\ lock' \in [{"dir", "digest"} -> Procs \cup {Nobody}]
    /\ total' \in Nat /\ lastpost' \in Nat /\ now' = now /\ hist' \in Marks

LEMMA SaneTyped ==
    ASSUME Typed, NEW p \in Procs, Walked(p), Sane
    PROVE  Typed'
BY DEF Typed, Walked, Sane

LEMMA BaseStep ==
    ASSUME BaseInv, NEW p \in Procs, Walked(p), Sane,
           Stems(loc'[p].fh), \A i \in DOMAIN loc'[p].read : Stems(loc'[p].read[i]),
           Right(loc'[p].new, posted'), Sound(loc'[p], Left(p)'), loc'[p].start <= now
    PROVE  BaseInv' /\ Inherits(p)
<1>1. Typed /\ Typed' /\ Alone(p)
  BY SaneTyped DEF BaseInv, Walked
<1>2. Inherits(p)
  BY DEF Inherits, Sane
<1>3. posted <= posted' /\ now' = now /\ now <= now' /\ ListInv'
  BY <1>1, ConstantsAre DEF Sane, Typed
<1>4. ArtInv'
  BY <1>1, <1>2, <1>3, ArtStep DEF BaseInv
<1>5. LocalInv'
  BY <1>1, <1>3, LocalStep DEF BaseInv
<1>6. QED
  BY <1>1, <1>2, <1>3, <1>4, <1>5 DEF BaseInv

LEMMA RightNew ==
    ASSUME BaseInv, NEW p \in Procs, posted <= posted', posted' \in Nat
    PROVE  Right(Hole, posted') /\ Right(loc[p].new, posted')
<1>1. loc[p].new \in Header /\ Right(loc[p].new, posted) /\ posted \in Nat
  BY PublicIs DEF BaseInv, ArtInv, Typed, Locals
<1>2. Right(loc[p].new, posted')
  BY <1>1, HeaderFacts DEF Right
<1>3. QED
  BY <1>2 DEF Right, Hole, NewLine

LEMMA NoLocalsStem ==
    Stems(NoLocals.fh) /\ NoLocals.new = Hole /\ NoLocals.start = 0 /\ NoLocals.read = <<>>
    /\ \A i \in DOMAIN NoLocals.read : Stems(NoLocals.read[i])
BY DEF NoLocals, Stems

LEMMA OwnStems ==
    ASSUME Typed, NEW p \in Procs
    PROVE  Stems(loc[p].fh) /\ \A i \in DOMAIN loc[p].read : Stems(loc[p].read[i])
BY PublicIs, StemsSelf DEF Holds

LEMMA RestsBase ==
    ASSUME BaseInv, NEW p \in Procs, Rests(p), Sane
    PROVE  BaseInv' /\ Inherits(p)
<1>1. /\ Stems(loc'[p].fh) /\ \A i \in DOMAIN loc'[p].read : Stems(loc'[p].read[i])
      /\ loc'[p].new = Hole /\ loc'[p].start = 0 /\ Sound(loc'[p], Left(p)')
  BY NoLocalsStem, SoundRests DEF Rests
<1>2. Right(loc'[p].new, posted') /\ loc'[p].start <= now
  BY <1>1, RightNew, ConstantsAre DEF Sane, BaseInv, Typed
<1>3. QED
  BY <1>1, <1>2, BaseStep DEF Rests

LEMMA AfterBase ==
    ASSUME BaseInv, NEW p \in Procs, NEW x, NEW l, After(p, x, l), x # "relink",
           Agree(l, loc[p]), l.fh.art = loc[p].fh.art, l.start <= now, Sane
    PROVE  BaseInv' /\ Inherits(p)
<1>1. CASE todo'[p] = <<>>
  BY <1>1, RestsBase DEF After, Rests
<1>2. CASE todo'[p] # <<>>
  <2>1. loc'[p] = l
    BY <1>2 DEF After
  <2>2. Sound(loc'[p], Left(p)')
    BY AfterSound, ConstantsAre DEF Sane, BaseInv, Typed
  <2>3. Right(loc'[p].new, posted')
    BY <2>1, RightNew DEF Sane, Agree
  <2>4. \A i \in DOMAIN loc'[p].read : Stems(loc'[p].read[i])
    BY <2>1, OwnStems DEF Agree, BaseInv
  <2>5. Stems(loc'[p].fh)
    BY <2>1, PublicIs DEF Agree, BaseInv, Stems, Holds
  <2>6. QED
    BY <2>1, <2>2, <2>3, <2>4, <2>5, BaseStep DEF After
<1>3. QED
  BY <1>1, <1>2

LEMMA StartsBase ==
    ASSUME BaseInv, NEW p \in Procs, NEW s, NEW l, Starts(p, s, l), Sane,
           Sound(l, ToSet(s)), l.start <= now, Right(l.new, posted'),
           Stems(l.fh), \A i \in DOMAIN l.read : Stems(l.read[i])
    PROVE  BaseInv' /\ Inherits(p)
BY BaseStep DEF Starts

(* The other variables. *)
LEMMA MarksAre ==
    ASSUME Typed
    PROVE  /\ \A names \in SUBSET Times0 : Cross(names) =>
                  /\ hist' \in Marks /\ hist'.crossed = hist.crossed \cup names
                  /\ hist'.freed = hist.freed /\ hist'.stale = hist.stale
                  /\ hist'.dropped = hist.dropped /\ hist'.behind = hist.behind
           /\ \A t \in Names : GiveUp(t) =>
                  /\ hist' \in Marks /\ hist'.freed = hist.freed \cup {t}
                  /\ hist'.crossed = hist.crossed /\ hist'.stale = hist.stale
                  /\ hist'.dropped = hist.dropped /\ hist'.behind = hist.behind
           /\ \A files \in SUBSET Files0 : Drop(files) =>
                  /\ hist' \in Marks /\ hist'.dropped = hist.dropped \cup files
                  /\ hist'.freed = hist.freed /\ hist'.stale = hist.stale
                  /\ hist'.crossed = hist.crossed /\ hist'.behind = hist.behind
           /\ \A files \in SUBSET Files0 : Keep(files) =>
                  /\ hist' \in Marks /\ hist'.stale = hist.stale \cup files
                  /\ hist'.freed = hist.freed /\ hist'.dropped = hist.dropped
                  /\ hist'.crossed = hist.crossed /\ hist'.behind = hist.behind
           /\ \A p \in Procs, f \in {"total", "lastpost"} : Behind(p, f) =>
                  /\ hist' \in Marks /\ hist'.stale = hist.stale
                  /\ hist'.freed = hist.freed /\ hist'.dropped = hist.dropped
                  /\ hist'.crossed = hist.crossed
                  /\ hist'.behind = IF loc[p].n = Len(list["dir"]) THEN hist.behind \ {f}
                                                                ELSE hist.behind \cup {f}
<1>1. hist \in Marks
  BY DEF Typed
<1>2. \A names \in SUBSET Times0 : Cross(names) =>
                  /\ hist' \in Marks /\ hist'.crossed = hist.crossed \cup names
                  /\ hist'.freed = hist.freed /\ hist'.stale = hist.stale
                  /\ hist'.dropped = hist.dropped /\ hist'.behind = hist.behind
  BY <1>1 DEF Cross, Marks
<1>3. \A t \in Names : GiveUp(t) =>
                  /\ hist' \in Marks /\ hist'.freed = hist.freed \cup {t}
                  /\ hist'.crossed = hist.crossed /\ hist'.stale = hist.stale
                  /\ hist'.dropped = hist.dropped /\ hist'.behind = hist.behind
  BY <1>1 DEF GiveUp, Marks
<1>4. \A files \in SUBSET Files0 : Drop(files) =>
                  /\ hist' \in Marks /\ hist'.dropped = hist.dropped \cup files
                  /\ hist'.freed = hist.freed /\ hist'.stale = hist.stale
                  /\ hist'.crossed = hist.crossed /\ hist'.behind = hist.behind
  BY <1>1 DEF Drop, Marks
<1>5. \A files \in SUBSET Files0 : Keep(files) =>
                  /\ hist' \in Marks /\ hist'.stale = hist.stale \cup files
                  /\ hist'.freed = hist.freed /\ hist'.dropped = hist.dropped
                  /\ hist'.crossed = hist.crossed /\ hist'.behind = hist.behind
  BY <1>1 DEF Keep, Marks
<1>6. \A p \in Procs, f \in {"total", "lastpost"} : Behind(p, f) =>
                  /\ hist' \in Marks /\ hist'.stale = hist.stale
                  /\ hist'.freed = hist.freed /\ hist'.dropped = hist.dropped
                  /\ hist'.crossed = hist.crossed
                  /\ hist'.behind = IF loc[p].n = Len(list["dir"]) THEN hist.behind \ {f}
                                                                ELSE hist.behind \cup {f}
  <2>1. SUFFICES ASSUME NEW p \in Procs, NEW f \in {"total", "lastpost"}, Behind(p, f)
                 PROVE  /\ hist' \in Marks /\ hist'.stale = hist.stale
                        /\ hist'.freed = hist.freed /\ hist'.dropped = hist.dropped
                        /\ hist'.crossed = hist.crossed
                        /\ hist'.behind = IF loc[p].n = Len(list["dir"])
                                          THEN hist.behind \ {f} ELSE hist.behind \cup {f}
    OBVIOUS
  <2>2. PICK b : b = IF loc[p].n = Len(list["dir"]) THEN hist.behind \ {f}
                                                    ELSE hist.behind \cup {f}
    OBVIOUS
  <2>3. hist' = [hist EXCEPT !.behind = b] /\ b \subseteq {"total", "lastpost"}
    BY <1>1, <2>1, <2>2 DEF Behind, Marks
  <2>4. QED
    BY <1>1, <2>2, <2>3 DEF Marks
<1>7. QED
  BY <1>2, <1>3, <1>4, <1>5, <1>6

Changes(l, d) ==
    /\ list' \in [Lists -> Seq(Header)] /\ list'[l] = d
    /\ \A m \in Lists \ {l} : list'[m] = list[m]

LEMMA PutIs ==
    ASSUME Typed, NEW l \in Lists, NEW d \in Seq(Header), Put(l, d)
    PROVE  Changes(l, d)
BY DEF Typed, Put, Changes

LEMMA ListsKept ==
    ASSUME BaseInv, list' = list
    PROVE  list' \in [Lists -> Seq(Header)] /\ ListInv' /\ \A l \in Lists : ListStems(l)
<1>1. Typed /\ ListInv
  BY DEF BaseInv
<1>2. list' \in [Lists -> Seq(Header)] /\ ListInv'
  BY <1>1 DEF Typed, ListInv
<1>3. \A l \in Lists : ListStems(l)
  BY <1>1, PublicIs, StemsSelf DEF ListStems
<1>4. QED
  BY <1>2, <1>3

LEMMA ListsChange ==
    ASSUME BaseInv, NEW l \in Lists, NEW d \in Seq(Header), Changes(l, d),
           \A i \in DOMAIN d : Stems(d[i]),
           l = "dir" => Articled(d), l \in Removed => Cleared(d)
    PROVE  list' \in [Lists -> Seq(Header)] /\ ListInv' /\ \A m \in Lists : ListStems(m)
<1>1. Typed /\ ListInv
  BY DEF BaseInv
<1>2. Articled(list'["dir"]) /\ \A m \in Removed : Cleared(list'[m])
  BY <1>1 DEF Changes, ListInv, Lists, Removed
<1>3. \A m \in Lists : ListStems(m)
  <2>1. ListStems(l)
    BY DEF ListStems, Changes
  <2>2. \A m \in Lists \ {l} : ListStems(m)
    BY <1>1, PublicIs, StemsSelf DEF ListStems, Changes
  <2>3. QED
    BY <2>1, <2>2
<1>4. QED
  BY <1>2, <1>3 DEF Changes, ListInv

(***************************************************************************)
(* The writes to an index, each with what it leaves in it.                 *)
(***************************************************************************)
LEMMA EnterLine ==
    ASSUME BaseInv, NEW l \in Lists, NEW h \in Header, Put(l, Append(list[l], h)), Stems(h),
           l = "dir" => h.kind = "M", l \in Removed => ~h.digest
    PROVE  /\ Changes(l, Append(list[l], h))
           /\ list' \in [Lists -> Seq(Header)] /\ ListInv' /\ \A m \in Lists : ListStems(m)
<1>1. Typed /\ list[l] \in Seq(Header) /\ ListInv
  BY DEF BaseInv, Typed
<1>2. PICK d : d = Append(list[l], h)
  OBVIOUS
<1>3. /\ d \in Seq(Header) /\ d[Len(list[l]) + 1] = h
      /\ DOMAIN d = DOMAIN list[l] \cup {Len(list[l]) + 1}
      /\ \A i \in DOMAIN list[l] : d[i] = list[l][i]
  BY <1>1, <1>2, AppendIs
<1>4. Changes(l, d)
  BY <1>1, <1>2, <1>3, PutIs
<1>5. \A i \in DOMAIN d : Stems(d[i])
  BY <1>1, <1>3, PublicIs, StemsSelf
<1>6. (l = "dir" => Articled(d)) /\ (l \in Removed => Cleared(d))
  BY <1>1, <1>3 DEF ListInv, Articled, Cleared
<1>7. QED
  BY <1>2, <1>3, <1>4, <1>5, <1>6, ListsChange

LEMMA ThinOut ==
    ASSUME BaseInv, NEW l \in Lists, NEW r \in Seq(Header), Put(l, r),
           NEW read, NEW gone, NEW e, Thinned(r, list[l], read, gone, e),
           \A i \in DOMAIN list[l] : Stems(read[i]),
           l = "dir" => \A i \in DOMAIN list[l] : read[i].kind = "M",
           l \in Removed => \A i \in DOMAIN list[l] : ~read[i].digest
    PROVE  /\ Changes(l, r)
           /\ list' \in [Lists -> Seq(Header)] /\ ListInv' /\ \A m \in Lists : ListStems(m)
<1>1. Typed /\ list[l] \in Seq(Header) /\ ListInv
  BY DEF BaseInv, Typed
<1>2. Changes(l, r)
  BY <1>1, PutIs
<1>3. \A k \in DOMAIN r : e[k] \in DOMAIN list[l] /\ (r[k] = list[l][e[k]] \/ r[k] = read[e[k]])
  BY DEF Thinned
<1>4. \A i \in DOMAIN r : Stems(r[i])
  BY <1>1, <1>3, PublicIs, StemsSelf
<1>5. l = "dir" => Articled(r)
  BY <1>1, <1>3 DEF ListInv, Articled
<1>6. ASSUME l \in Removed, NEW k \in DOMAIN r
      PROVE  ~r[k].digest
  <2>1. ~list[l][e[k]].digest /\ ~read[e[k]].digest
    BY <1>1, <1>3, <1>6 DEF ListInv, Cleared
  <2>2. r[k] = list[l][e[k]] \/ r[k] = read[e[k]]
    BY <1>3
  <2>3. QED
    BY Zenon, <2>1, <2>2
<1>7. QED
  BY <1>2, <1>4, <1>5, <1>6, ListsChange DEF Cleared

LEMMA RemoveLine ==
    ASSUME BaseInv, NEW l \in Lists, NEW i \in DOMAIN list[l], Put(l, RemoveAt(list[l], i))
    PROVE  /\ Changes(l, RemoveAt(list[l], i))
           /\ \E e : Thinned(RemoveAt(list[l], i), list[l], list[l], {i}, e)
           /\ list' \in [Lists -> Seq(Header)] /\ ListInv' /\ \A m \in Lists : ListStems(m)
<1>1. Typed /\ list[l] \in Seq(Header) /\ ListInv
  BY DEF BaseInv, Typed
<1>2. PICK r : r = RemoveAt(list[l], i)
  OBVIOUS
<1>3. r \in Seq(Header) /\ \E e : Thinned(r, list[l], list[l], {i}, e)
  BY <1>1, <1>2, RemoveThins
<1>4. PICK e : Thinned(r, list[l], list[l], {i}, e)
  BY <1>3
<1>5. \A j \in DOMAIN list[l] : Stems(list[l][j])
  BY <1>1, PublicIs, StemsSelf
<1>6. /\ l = "dir" => \A j \in DOMAIN list[l] : list[l][j].kind = "M"
      /\ l \in Removed => \A j \in DOMAIN list[l] : ~list[l][j].digest
  BY <1>1 DEF ListInv, Articled, Cleared
<1>7. /\ Changes(l, r)
      /\ list' \in [Lists -> Seq(Header)] /\ ListInv' /\ \A m \in Lists : ListStems(m)
  BY <1>2, <1>3, <1>4, <1>5, <1>6, ThinOut
<1>8. QED
  BY <1>2, <1>3, <1>7

(* Flags and the time of an edit. *)
Amended(g, h) == /\ g \in Header /\ g.filetime = h.filetime /\ g.art = h.art
                 /\ g.kind = h.kind

LEMMA AmendLine ==
    ASSUME BaseInv, NEW i \in DOMAIN list["dir"], NEW h, Amended(h, list["dir"][i]),
           list' = [list EXCEPT !["dir"][i] = h]
    PROVE  /\ Changes("dir", [list["dir"] EXCEPT ![i] = h])
           /\ list' \in [Lists -> Seq(Header)] /\ ListInv' /\ \A m \in Lists : ListStems(m)
<1>1. Typed /\ "dir" \in Lists /\ list["dir"] \in Seq(Header) /\ ListInv
  BY DEF BaseInv, Typed, Lists
<1>2. PICK d : d = [list["dir"] EXCEPT ![i] = h]
  OBVIOUS
<1>3. d \in Seq(Header) /\ DOMAIN d = DOMAIN list["dir"] /\ d[i] = h
      /\ \A j \in DOMAIN list["dir"] \ {i} : d[j] = list["dir"][j]
  BY <1>1, <1>2, AmendIs DEF Amended
<1>4. Put("dir", d)
  BY <1>2 DEF Put
<1>5. Changes("dir", d)
  BY <1>1, <1>3, <1>4, PutIs
<1>6. \A j \in DOMAIN d : Stems(d[j])
  <2>1. \A j \in DOMAIN list["dir"] : list["dir"][j] \in Public
    BY <1>1, PublicIs
  <2>2. Stems(h)
    BY <2>1 DEF Stems, Amended
  <2>3. QED
    BY <1>3, <2>1, <2>2, StemsSelf
<1>7. Articled(d) /\ "dir" \notin Removed
  BY <1>1, <1>3 DEF ListInv, Articled, Amended, Removed
<1>8. QED
  BY <1>1, <1>2, <1>3, <1>5, <1>6, <1>7, ListsChange

(* A line written at an old place. *)
LEMMA WriteLine ==
    ASSUME BaseInv, NEW l \in Lists, NEW h \in Header, NEW n \in Nat, n > 0,
           Put(l, substitute_record(list[l], h, n, Hole)), Stems(h),
           l = "dir" => h.kind = "M", l \in Removed => ~h.digest
    PROVE  /\ Changes(l, substitute_record(list[l], h, n, Hole))
           /\ list' \in [Lists -> Seq(Header)] /\ ListInv' /\ \A m \in Lists : ListStems(m)
<1>1. Typed /\ list[l] \in Seq(Header) /\ ListInv
  BY DEF BaseInv, Typed
<1>2. PICK d : d = substitute_record(list[l], h, n, Hole)
  OBVIOUS
<1>3. d \in Seq(Header)
  BY <1>1, <1>2, SubstituteHas
<1>4. Changes(l, d)
  BY <1>1, <1>2, <1>3, PutIs
<1>5. \A i \in DOMAIN d : d[i] = h \/ d[i] = Hole \/ (i \in DOMAIN list[l] /\ d[i] = list[l][i])
  BY <1>1, <1>2, HeaderIs DEF substitute_record
<1>6. Stems(Hole) /\ Hole.kind = "M" /\ ~Hole.digest
  BY DEF Stems, Hole, NewLine
<1>7. \A i \in DOMAIN d : Stems(d[i])
  BY <1>1, <1>5, <1>6, PublicIs, StemsSelf
<1>8. (l = "dir" => Articled(d)) /\ (l \in Removed => Cleared(d))
  BY <1>1, <1>5, <1>6 DEF ListInv, Articled, Cleared
<1>9. QED
  BY <1>2, <1>3, <1>4, <1>7, <1>8, ListsChange

-----------------------------------------------------------------------------
(***************************************************************************)
(* What is left of a request, by its next step.                            *)
(***************************************************************************)
LEMMA HeadsAre ==
    ASSUME NEW s \in Todos, s # <<>>
    PROVE  /\ Head(s) = "stat" =>
                  ToSet(s) \in {{"stat", "total", "store"},
                                 {"stat", "total", "store", "cancel"},
                                 {"stat", "total", "store", "cancel", "normal"},
                                 {"stat", "total", "store", "strike"}}
           /\ Head(s) = "total" =>
                  ToSet(s) \in {{"total", "store"},
                                 {"total", "store", "cancel"},
                                 {"total", "store", "cancel", "normal"},
                                 {"total", "store", "strike"}}
           /\ Head(s) = "store" =>
                  ToSet(s) \in {{"store"},
                                 {"store", "cancel"},
                                 {"store", "cancel", "normal"},
                                 {"store", "strike"}}
           /\ Head(s) = "append" =>
                  ToSet(s) \in {{"append", "stat", "total", "store"},
                                 {"append", "stat", "total", "store", "strike"}}
           /\ Head(s) = "write" =>
                  ToSet(s) = {"write", "append", "stat", "total", "store"}
           /\ Head(s) = "cancel" =>
                  ToSet(s) \in {{"cancel"},
                                 {"cancel", "normal"},
                                 {"cancel", "stat", "total", "store"}}
           /\ Head(s) = "normal" =>
                  ToSet(s) = {"normal"}
           /\ Head(s) = "remove" =>
                  ToSet(s) = {"remove", "cancel", "stat", "total", "store"}
           /\ Head(s) = "put" =>
                  ToSet(s) = {"put", "stat", "total", "store"}
           /\ Head(s) = "range" =>
                  ToSet(s) = {"range", "stat", "total", "store"}
           /\ Head(s) = "enter" =>
                  ToSet(s) = {"enter", "stat", "total", "store"}
           /\ Head(s) = "save" =>
                  ToSet(s) = {"save", "enter", "stat", "total", "store"}
           /\ Head(s) = "toggle" =>
                  ToSet(s) = {"toggle"}
           /\ Head(s) = "excerpt" =>
                  ToSet(s) = {"excerpt", "toggle"}
           /\ Head(s) = "unlink" =>
                  ToSet(s) = {"unlink", "toggle"}
           /\ Head(s) = "undigest" =>
                  ToSet(s) = {"undigest", "unlink", "toggle"}
           /\ Head(s) = "strike" =>
                  ToSet(s) = {"strike"}
           /\ Head(s) = "relink" =>
                  ToSet(s) = {"relink", "append", "stat", "total", "store", "strike"}
           /\ Head(s) = "swap" =>
                  ToSet(s) = {"swap"}
           /\ Head(s) = "rmlost" =>
                  ToSet(s) = {"rmlost"}
           /\ Head(s) = "junk" =>
                  ToSet(s) = {"junk", "rmlost"}
           /\ Head(s) = "deleted" =>
                  ToSet(s) = {"deleted", "junk", "rmlost"}
           /\ Head(s) = "digest" =>
                  ToSet(s) = {"digest", "deleted", "junk", "rmlost"}
           /\ Head(s) = "dir" =>
                  ToSet(s) = {"dir", "digest", "deleted", "junk", "rmlost"}
<1>1. Head(s) = "stat" =>
           ToSet(s) \in {{"stat", "total", "store"},
                          {"stat", "total", "store", "cancel"},
                          {"stat", "total", "store", "cancel", "normal"},
                          {"stat", "total", "store", "strike"}}
  <2>1. Head(s) = "stat" =>
          \/ Leaves(s, "stat", <<"total", "store">>)
          \/ Leaves(s, "stat", <<"total", "store", "cancel">>)
          \/ Leaves(s, "stat", <<"total", "store", "cancel", "normal">>)
          \/ Leaves(s, "stat", <<"total", "store", "strike">>)
    BY TodoCases DEF Leaves
  <2>2. {"stat"} \cup ToSet(<<"total", "store">>) = {"stat", "total", "store"}
    BY ElementsOf
  <2>3. {"stat"} \cup ToSet(<<"total", "store", "cancel">>) = {"stat", "total", "store", "cancel"}
    BY ElementsOf
  <2>4. {"stat"} \cup ToSet(<<"total", "store", "cancel", "normal">>) = {"stat", "total", "store", "cancel", "normal"}
    BY ElementsOf
  <2>5. {"stat"} \cup ToSet(<<"total", "store", "strike">>) = {"stat", "total", "store", "strike"}
    BY ElementsOf
  <2>6. QED
    BY <2>1, <2>2, <2>3, <2>4, <2>5 DEF Leaves
<1>2. Head(s) = "total" =>
           ToSet(s) \in {{"total", "store"},
                          {"total", "store", "cancel"},
                          {"total", "store", "cancel", "normal"},
                          {"total", "store", "strike"}}
  <2>1. Head(s) = "total" =>
          \/ Leaves(s, "total", <<"store">>)
          \/ Leaves(s, "total", <<"store", "cancel">>)
          \/ Leaves(s, "total", <<"store", "cancel", "normal">>)
          \/ Leaves(s, "total", <<"store", "strike">>)
    BY TodoCases DEF Leaves
  <2>2. {"total"} \cup ToSet(<<"store">>) = {"total", "store"}
    BY ElementsOf
  <2>3. {"total"} \cup ToSet(<<"store", "cancel">>) = {"total", "store", "cancel"}
    BY ElementsOf
  <2>4. {"total"} \cup ToSet(<<"store", "cancel", "normal">>) = {"total", "store", "cancel", "normal"}
    BY ElementsOf
  <2>5. {"total"} \cup ToSet(<<"store", "strike">>) = {"total", "store", "strike"}
    BY ElementsOf
  <2>6. QED
    BY <2>1, <2>2, <2>3, <2>4, <2>5 DEF Leaves
<1>3. Head(s) = "store" =>
           ToSet(s) \in {{"store"},
                          {"store", "cancel"},
                          {"store", "cancel", "normal"},
                          {"store", "strike"}}
  <2>1. Head(s) = "store" =>
          \/ Leaves(s, "store", <<>>)
          \/ Leaves(s, "store", <<"cancel">>)
          \/ Leaves(s, "store", <<"cancel", "normal">>)
          \/ Leaves(s, "store", <<"strike">>)
    BY TodoCases DEF Leaves
  <2>2. {"store"} \cup ToSet(<<>>) = {"store"}
    BY ElementsOf
  <2>3. {"store"} \cup ToSet(<<"cancel">>) = {"store", "cancel"}
    BY ElementsOf
  <2>4. {"store"} \cup ToSet(<<"cancel", "normal">>) = {"store", "cancel", "normal"}
    BY ElementsOf
  <2>5. {"store"} \cup ToSet(<<"strike">>) = {"store", "strike"}
    BY ElementsOf
  <2>6. QED
    BY <2>1, <2>2, <2>3, <2>4, <2>5 DEF Leaves
<1>4. Head(s) = "append" =>
           ToSet(s) \in {{"append", "stat", "total", "store"},
                          {"append", "stat", "total", "store", "strike"}}
  <2>1. Head(s) = "append" =>
          \/ Leaves(s, "append", <<"stat", "total", "store">>)
          \/ Leaves(s, "append", <<"stat", "total", "store", "strike">>)
    BY TodoCases DEF Leaves
  <2>2. {"append"} \cup ToSet(<<"stat", "total", "store">>) = {"append", "stat", "total", "store"}
    BY ElementsOf
  <2>3. {"append"} \cup ToSet(<<"stat", "total", "store", "strike">>) = {"append", "stat", "total", "store", "strike"}
    BY ElementsOf
  <2>4. QED
    BY <2>1, <2>2, <2>3 DEF Leaves
<1>5. Head(s) = "write" =>
           ToSet(s) = {"write", "append", "stat", "total", "store"}
  <2>1. Head(s) = "write" =>
          \/ Leaves(s, "write", <<"append", "stat", "total", "store">>)
    BY TodoCases DEF Leaves
  <2>2. {"write"} \cup ToSet(<<"append", "stat", "total", "store">>) = {"write", "append", "stat", "total", "store"}
    BY ElementsOf
  <2>3. QED
    BY <2>1, <2>2 DEF Leaves
<1>6. Head(s) = "cancel" =>
           ToSet(s) \in {{"cancel"},
                          {"cancel", "normal"},
                          {"cancel", "stat", "total", "store"}}
  <2>1. Head(s) = "cancel" =>
          \/ Leaves(s, "cancel", <<>>)
          \/ Leaves(s, "cancel", <<"normal">>)
          \/ Leaves(s, "cancel", <<"stat", "total", "store">>)
    BY TodoCases DEF Leaves
  <2>2. {"cancel"} \cup ToSet(<<>>) = {"cancel"}
    BY ElementsOf
  <2>3. {"cancel"} \cup ToSet(<<"normal">>) = {"cancel", "normal"}
    BY ElementsOf
  <2>4. {"cancel"} \cup ToSet(<<"stat", "total", "store">>) = {"cancel", "stat", "total", "store"}
    BY ElementsOf
  <2>5. QED
    BY <2>1, <2>2, <2>3, <2>4 DEF Leaves
<1>7. Head(s) = "normal" =>
           ToSet(s) = {"normal"}
  <2>1. Head(s) = "normal" =>
          \/ Leaves(s, "normal", <<>>)
    BY TodoCases DEF Leaves
  <2>2. {"normal"} \cup ToSet(<<>>) = {"normal"}
    BY ElementsOf
  <2>3. QED
    BY <2>1, <2>2 DEF Leaves
<1>8. Head(s) = "remove" =>
           ToSet(s) = {"remove", "cancel", "stat", "total", "store"}
  <2>1. Head(s) = "remove" =>
          \/ Leaves(s, "remove", <<"cancel", "stat", "total", "store">>)
    BY TodoCases DEF Leaves
  <2>2. {"remove"} \cup ToSet(<<"cancel", "stat", "total", "store">>) = {"remove", "cancel", "stat", "total", "store"}
    BY ElementsOf
  <2>3. QED
    BY <2>1, <2>2 DEF Leaves
<1>9. Head(s) = "put" =>
           ToSet(s) = {"put", "stat", "total", "store"}
  <2>1. Head(s) = "put" =>
          \/ Leaves(s, "put", <<"stat", "total", "store">>)
    BY TodoCases DEF Leaves
  <2>2. {"put"} \cup ToSet(<<"stat", "total", "store">>) = {"put", "stat", "total", "store"}
    BY ElementsOf
  <2>3. QED
    BY <2>1, <2>2 DEF Leaves
<1>10. Head(s) = "range" =>
           ToSet(s) = {"range", "stat", "total", "store"}
  <2>1. Head(s) = "range" =>
          \/ Leaves(s, "range", <<"stat", "total", "store">>)
    BY TodoCases DEF Leaves
  <2>2. {"range"} \cup ToSet(<<"stat", "total", "store">>) = {"range", "stat", "total", "store"}
    BY ElementsOf
  <2>3. QED
    BY <2>1, <2>2 DEF Leaves
<1>11. Head(s) = "enter" =>
           ToSet(s) = {"enter", "stat", "total", "store"}
  <2>1. Head(s) = "enter" =>
          \/ Leaves(s, "enter", <<"stat", "total", "store">>)
    BY TodoCases DEF Leaves
  <2>2. {"enter"} \cup ToSet(<<"stat", "total", "store">>) = {"enter", "stat", "total", "store"}
    BY ElementsOf
  <2>3. QED
    BY <2>1, <2>2 DEF Leaves
<1>12. Head(s) = "save" =>
           ToSet(s) = {"save", "enter", "stat", "total", "store"}
  <2>1. Head(s) = "save" =>
          \/ Leaves(s, "save", <<"enter", "stat", "total", "store">>)
    BY TodoCases DEF Leaves
  <2>2. {"save"} \cup ToSet(<<"enter", "stat", "total", "store">>) = {"save", "enter", "stat", "total", "store"}
    BY ElementsOf
  <2>3. QED
    BY <2>1, <2>2 DEF Leaves
<1>13. Head(s) = "toggle" =>
           ToSet(s) = {"toggle"}
  <2>1. Head(s) = "toggle" =>
          \/ Leaves(s, "toggle", <<>>)
    BY TodoCases DEF Leaves
  <2>2. {"toggle"} \cup ToSet(<<>>) = {"toggle"}
    BY ElementsOf
  <2>3. QED
    BY <2>1, <2>2 DEF Leaves
<1>14. Head(s) = "excerpt" =>
           ToSet(s) = {"excerpt", "toggle"}
  <2>1. Head(s) = "excerpt" =>
          \/ Leaves(s, "excerpt", <<"toggle">>)
    BY TodoCases DEF Leaves
  <2>2. {"excerpt"} \cup ToSet(<<"toggle">>) = {"excerpt", "toggle"}
    BY ElementsOf
  <2>3. QED
    BY <2>1, <2>2 DEF Leaves
<1>15. Head(s) = "unlink" =>
           ToSet(s) = {"unlink", "toggle"}
  <2>1. Head(s) = "unlink" =>
          \/ Leaves(s, "unlink", <<"toggle">>)
    BY TodoCases DEF Leaves
  <2>2. {"unlink"} \cup ToSet(<<"toggle">>) = {"unlink", "toggle"}
    BY ElementsOf
  <2>3. QED
    BY <2>1, <2>2 DEF Leaves
<1>16. Head(s) = "undigest" =>
           ToSet(s) = {"undigest", "unlink", "toggle"}
  <2>1. Head(s) = "undigest" =>
          \/ Leaves(s, "undigest", <<"unlink", "toggle">>)
    BY TodoCases DEF Leaves
  <2>2. {"undigest"} \cup ToSet(<<"unlink", "toggle">>) = {"undigest", "unlink", "toggle"}
    BY ElementsOf
  <2>3. QED
    BY <2>1, <2>2 DEF Leaves
<1>17. Head(s) = "strike" =>
           ToSet(s) = {"strike"}
  <2>1. Head(s) = "strike" =>
          \/ Leaves(s, "strike", <<>>)
    BY TodoCases DEF Leaves
  <2>2. {"strike"} \cup ToSet(<<>>) = {"strike"}
    BY ElementsOf
  <2>3. QED
    BY <2>1, <2>2 DEF Leaves
<1>18. Head(s) = "relink" =>
           ToSet(s) = {"relink", "append", "stat", "total", "store", "strike"}
  <2>1. Head(s) = "relink" =>
          \/ Leaves(s, "relink", <<"append", "stat", "total", "store", "strike">>)
    BY TodoCases DEF Leaves
  <2>2. {"relink"} \cup ToSet(<<"append", "stat", "total", "store", "strike">>) = {"relink", "append", "stat", "total", "store", "strike"}
    BY ElementsOf
  <2>3. QED
    BY <2>1, <2>2 DEF Leaves
<1>19. Head(s) = "swap" =>
           ToSet(s) = {"swap"}
  <2>1. Head(s) = "swap" =>
          \/ Leaves(s, "swap", <<>>)
    BY TodoCases DEF Leaves
  <2>2. {"swap"} \cup ToSet(<<>>) = {"swap"}
    BY ElementsOf
  <2>3. QED
    BY <2>1, <2>2 DEF Leaves
<1>20. Head(s) = "rmlost" =>
           ToSet(s) = {"rmlost"}
  <2>1. Head(s) = "rmlost" =>
          \/ Leaves(s, "rmlost", <<>>)
    BY TodoCases DEF Leaves
  <2>2. {"rmlost"} \cup ToSet(<<>>) = {"rmlost"}
    BY ElementsOf
  <2>3. QED
    BY <2>1, <2>2 DEF Leaves
<1>21. Head(s) = "junk" =>
           ToSet(s) = {"junk", "rmlost"}
  <2>1. Head(s) = "junk" =>
          \/ Leaves(s, "junk", <<"rmlost">>)
    BY TodoCases DEF Leaves
  <2>2. {"junk"} \cup ToSet(<<"rmlost">>) = {"junk", "rmlost"}
    BY ElementsOf
  <2>3. QED
    BY <2>1, <2>2 DEF Leaves
<1>22. Head(s) = "deleted" =>
           ToSet(s) = {"deleted", "junk", "rmlost"}
  <2>1. Head(s) = "deleted" =>
          \/ Leaves(s, "deleted", <<"junk", "rmlost">>)
    BY TodoCases DEF Leaves
  <2>2. {"deleted"} \cup ToSet(<<"junk", "rmlost">>) = {"deleted", "junk", "rmlost"}
    BY ElementsOf
  <2>3. QED
    BY <2>1, <2>2 DEF Leaves
<1>23. Head(s) = "digest" =>
           ToSet(s) = {"digest", "deleted", "junk", "rmlost"}
  <2>1. Head(s) = "digest" =>
          \/ Leaves(s, "digest", <<"deleted", "junk", "rmlost">>)
    BY TodoCases DEF Leaves
  <2>2. {"digest"} \cup ToSet(<<"deleted", "junk", "rmlost">>) = {"digest", "deleted", "junk", "rmlost"}
    BY ElementsOf
  <2>3. QED
    BY <2>1, <2>2 DEF Leaves
<1>24. Head(s) = "dir" =>
           ToSet(s) = {"dir", "digest", "deleted", "junk", "rmlost"}
  <2>1. Head(s) = "dir" =>
          \/ Leaves(s, "dir", <<"digest", "deleted", "junk", "rmlost">>)
    BY TodoCases DEF Leaves
  <2>2. {"dir"} \cup ToSet(<<"digest", "deleted", "junk", "rmlost">>) = {"dir", "digest", "deleted", "junk", "rmlost"}
    BY ElementsOf
  <2>3. QED
    BY <2>1, <2>2 DEF Leaves
<1>25. QED
  BY <1>1, <1>2, <1>3, <1>4, <1>5, <1>6, <1>7, <1>8, <1>9, <1>10, <1>11, <1>12, <1>13, <1>14, <1>15, <1>16, <1>17, <1>18, <1>19, <1>20, <1>21, <1>22, <1>23, <1>24

LEMMA LeftIs ==
    ASSUME Typed, NEW p \in Procs
    PROVE  /\ At(p, "stat") =>
                  Left(p) \in {{"stat", "total", "store"},
                                 {"stat", "total", "store", "cancel"},
                                 {"stat", "total", "store", "cancel", "normal"},
                                 {"stat", "total", "store", "strike"}}
           /\ At(p, "total") =>
                  Left(p) \in {{"total", "store"},
                                 {"total", "store", "cancel"},
                                 {"total", "store", "cancel", "normal"},
                                 {"total", "store", "strike"}}
           /\ At(p, "store") =>
                  Left(p) \in {{"store"},
                                 {"store", "cancel"},
                                 {"store", "cancel", "normal"},
                                 {"store", "strike"}}
           /\ At(p, "append") =>
                  Left(p) \in {{"append", "stat", "total", "store"},
                                 {"append", "stat", "total", "store", "strike"}}
           /\ At(p, "write") =>
                  Left(p) = {"write", "append", "stat", "total", "store"}
           /\ At(p, "cancel") =>
                  Left(p) \in {{"cancel"},
                                 {"cancel", "normal"},
                                 {"cancel", "stat", "total", "store"}}
           /\ At(p, "normal") =>
                  Left(p) = {"normal"}
           /\ At(p, "remove") =>
                  Left(p) = {"remove", "cancel", "stat", "total", "store"}
           /\ At(p, "put") =>
                  Left(p) = {"put", "stat", "total", "store"}
           /\ At(p, "range") =>
                  Left(p) = {"range", "stat", "total", "store"}
           /\ At(p, "enter") =>
                  Left(p) = {"enter", "stat", "total", "store"}
           /\ At(p, "save") =>
                  Left(p) = {"save", "enter", "stat", "total", "store"}
           /\ At(p, "toggle") =>
                  Left(p) = {"toggle"}
           /\ At(p, "excerpt") =>
                  Left(p) = {"excerpt", "toggle"}
           /\ At(p, "unlink") =>
                  Left(p) = {"unlink", "toggle"}
           /\ At(p, "undigest") =>
                  Left(p) = {"undigest", "unlink", "toggle"}
           /\ At(p, "strike") =>
                  Left(p) = {"strike"}
           /\ At(p, "relink") =>
                  Left(p) = {"relink", "append", "stat", "total", "store", "strike"}
           /\ At(p, "swap") =>
                  Left(p) = {"swap"}
           /\ At(p, "rmlost") =>
                  Left(p) = {"rmlost"}
           /\ At(p, "junk") =>
                  Left(p) = {"junk", "rmlost"}
           /\ At(p, "deleted") =>
                  Left(p) = {"deleted", "junk", "rmlost"}
           /\ At(p, "digest") =>
                  Left(p) = {"digest", "deleted", "junk", "rmlost"}
           /\ At(p, "dir") =>
                  Left(p) = {"dir", "digest", "deleted", "junk", "rmlost"}
<1>1. todo[p] \in Todos
  BY DEF Typed
<1>2. \A x : At(p, x) => todo[p] # <<>> /\ Head(todo[p]) = x
  BY DEF At, Idle
<1>3. Left(p) = ToSet(todo[p])
  BY DEF Left
<1>4. CASE todo[p] = <<>>
  BY <1>2, <1>4
<1>5. CASE todo[p] # <<>>
  <2> HIDE DEF Left
  <2>1. QED
    BY <1>1, <1>2, <1>3, <1>5, HeadsAre
<1>6. QED
  BY <1>4, <1>5

-----------------------------------------------------------------------------
(***************************************************************************)
(* The steps one by one: each with what it does to the locals of its       *)
(* process, and to the index.                                              *)
(***************************************************************************)
LEMMA OwnLocals ==
    ASSUME BaseInv, NEW p \in Procs
    PROVE  /\ loc[p] \in Locals /\ loc[p].fh \in Header /\ loc[p].new \in Header
           /\ loc[p].read \in Seq(Header) /\ loc[p].view \in Lists /\ loc[p].into \in Lists
           /\ loc[p].ent \in Nat /\ loc[p].n \in Nat /\ loc[p].at \in Nat
           /\ loc[p].start \in Nat /\ loc[p].start <= now /\ now \in Nat /\ now # 0
           /\ Sound(loc[p], Left(p)) /\ Agree(loc[p], loc[p])
           /\ Right(loc[p].fh, posted) /\ Right(loc[p].new, posted) /\ posted \in Nat
<1>1. loc[p] \in Locals /\ now \in 1..MaxTime /\ posted \in Nat
  BY DEF BaseInv, Typed
<1>2. Sound(loc[p], Left(p)) /\ loc[p].start <= now
  BY DEF BaseInv, LocalInv
<1>3. Right(loc[p].fh, posted) /\ Right(loc[p].new, posted)
  BY PublicIs DEF BaseInv, ArtInv, Holds
<1>4. /\ loc[p].fh \in Header /\ loc[p].new \in Header
      /\ loc[p].read \in Seq(Header) /\ loc[p].view \in Lists /\ loc[p].into \in Lists
      /\ loc[p].ent \in Nat /\ loc[p].n \in Nat /\ loc[p].at \in Nat
      /\ loc[p].start \in Nat
  BY <1>1 DEF Locals
<1>5. now \in Nat /\ now # 0
  BY <1>1, ConstantsAre
<1>6. QED
  BY <1>1, <1>2, <1>3, <1>4, <1>5 DEF Agree

LEMMA SaneIs ==
    ASSUME BaseInv, list' \in [Lists -> Seq(Header)], ListInv', \A l \in Lists : ListStems(l),
           UNCHANGED <<file, lock, cache, now, posted>>, hist' \in Marks
    PROVE  Sane
BY DEF BaseInv, Typed, Sane, cache

LEMMA SaneKept ==
    ASSUME BaseInv, UNCHANGED <<board, cache, now, posted>>, hist' \in Marks
    PROVE  Sane
BY ListsKept, SaneIs DEF board

LEMMA StatStep ==
    ASSUME BaseInv, NEW p \in Procs, Stat(p)
    PROVE  /\ After(p, "stat", [loc[p] EXCEPT !.n = Len(list["dir"])])
           /\ BaseInv' /\ Inherits(p)
<1> DEFINE l == [loc[p] EXCEPT !.n = Len(list["dir"])]
<1>1. Len(list["dir"]) \in Nat
  BY HeaderIs DEF BaseInv, Typed, Lists
<1>2. l \in Locals /\ Agree(l, loc[p]) /\ l.fh.art = loc[p].fh.art /\ l.start <= now
  BY <1>1, OwnLocals DEF Locals, Agree
<1> HIDE DEF l
<1>3. After(p, "stat", l)
  BY <1>2, DoneIs DEF Stat, BaseInv, l
<1>4. Sane
  BY SaneKept DEF Stat, BaseInv, Typed
<1>5. QED
  BY <1>2, <1>3, <1>4, AfterBase DEF l

LEMMA StoreTotalStep ==
    ASSUME BaseInv, NEW p \in Procs, StoreTotal(p)
    PROVE  /\ After(p, "total", loc[p])
           /\ BaseInv' /\ Inherits(p)
<1>1. After(p, "total", loc[p])
  BY OwnLocals, DoneIs DEF StoreTotal, BaseInv
<1>2. hist' \in Marks
  BY MarksAre DEF StoreTotal, BaseInv
<1>3. Sane
  BY <1>2, ListsKept, OwnLocals DEF StoreTotal, BaseInv, Typed, Sane, board
<1>4. QED
  BY <1>1, <1>3, OwnLocals, AfterBase

LEMMA LastTimeIs ==
    ASSUME Typed, NEW n \in Nat
    PROVE  LastTime(list["dir"], n) \in Nat
<1>1. list["dir"] \in Seq(Header) /\ lastpost \in Nat
  BY DEF Typed, Lists
<1>2. CASE n = 0
  BY <1>2 DEF LastTime
<1>3. CASE n > Len(list["dir"])
  BY <1>1, <1>3 DEF LastTime
<1>4. CASE n # 0 /\ ~(n > Len(list["dir"]))
  <2>1. n \in 1..Len(list["dir"])
    BY <1>1, <1>4, HeaderIs
  <2>2. list["dir"][n] \in Header
    BY <1>1, <2>1, HeaderIs
  <2>3. list["dir"][n].edittime \in Nat /\ list["dir"][n].filetime \in Nat
    BY <2>2, HeaderFacts, NamesAre DEF Header
  <2>4. QED
    BY <1>4, <2>3 DEF LastTime
<1>5. QED
  BY <1>2, <1>3, <1>4

LEMMA StoreStep ==
    ASSUME BaseInv, NEW p \in Procs, Store(p)
    PROVE  /\ After(p, "store", loc[p])
           /\ BaseInv' /\ Inherits(p)
<1>1. After(p, "store", loc[p])
  BY OwnLocals, DoneIs DEF Store, BaseInv
<1>2. hist' \in Marks
  BY MarksAre DEF Store, BaseInv
<1>3. lastpost' \in Nat
  BY OwnLocals, LastTimeIs DEF Store, BaseInv
<1>4. Sane
  BY <1>2, <1>3, ListsKept DEF Store, BaseInv, Typed, Sane, board
<1>5. QED
  BY <1>1, <1>4, OwnLocals, AfterBase

-----------------------------------------------------------------------------
(* Posting. *)
LEMMA FreeNameIs ==
    ASSUME Typed, NEW k \in Kinds, NEW t \in FreeNames(k)
    PROVE  /\ t \in Names /\ t # 0 /\ now <= t /\ file[k][t] = 0
           /\ \A u \in Names : now <= u /\ u < t => file[k][u] # 0
<1>1. now \in Nat /\ 1 <= now /\ now <= MaxTime
  BY ConstantsAre DEF Typed
<1>2. t \in now..(now + MaxTry - 1) /\ file[k][t] = 0 /\ \A u \in now..(t - 1) : file[k][u] # 0
  BY DEF FreeNames
<1>3. t \in Nat /\ now <= t /\ t - now \in 0..(MaxTry - 1) /\ now + (t - now) = t
  BY <1>1, <1>2, ConstantsAre
<1>4. t \in Names
  BY <1>1, <1>3, NamesAre
<1>5. \A u \in Names : now <= u /\ u < t => u \in now..(t - 1)
  BY <1>1, <1>3, NamesAre
<1>6. QED
  BY <1>2, <1>3, <1>4, <1>5, NamesAre

LEMMA TimesIs ==
    ASSUME Typed, NEW l \in Lists
    PROVE  /\ Times(l) \subseteq Times0
           /\ \A t : t \in Times(l) <=> \E i \in DOMAIN list[l] : list[l][i].filetime = t
<1>1. \A i \in DOMAIN list[l] : list[l][i] \in Header
  BY HeaderIs DEF Typed
<1>2. QED
  BY <1>1, HeaderFacts DEF Times

(* The locals of an author. *)
Authored(l, t, a) ==
    /\ l \in Locals /\ l.new = NewLine(t, a) /\ l.from = Times("dir")
    /\ l.fh = Hole /\ l.read = <<>> /\ l.view = "dir" /\ l.start = 0

LEMMA NamedIs ==
    ASSUME Typed, NEW p \in Procs, NEW t \in Names, NEW a \in Nat
    PROVE  /\ Authored(Named(p, t, a), t, a) /\ Named(p, t, a).into = "dir"
           /\ \A m \in Lists : LET l == [Named(p, t, a) EXCEPT !.into = m]
                               IN  Authored(l, t, a) /\ l.into = m
<1>1. Times("dir") \in SUBSET Times0 /\ NewLine(t, a) \in Header
  BY TimesIs, HeaderFacts DEF Lists, Times0
<1>2. PICK d, h : d = Times("dir") /\ h = NewLine(t, a)
  OBVIOUS
<1>3. PICK l : l = [NoLocals EXCEPT !.new = h, !.from = d]
  OBVIOUS
<1>4. l \in Locals
  BY <1>1, <1>2, <1>3, NoLocalsTyped DEF Locals
<1>5. l.new = h /\ l.from = d /\ l.fh = Hole /\ l.read = <<>> /\ l.view = "dir" /\ l.start = 0
      /\ l.into = "dir"
  BY <1>3 DEF NoLocals
<1>6. Named(p, t, a) = l
  BY <1>2, <1>3 DEF Named
<1>7. ASSUME NEW m \in Lists, NEW k, k = [l EXCEPT !.into = m]
      PROVE  Authored(k, t, a) /\ k.into = m
  BY <1>2, <1>4, <1>5, <1>7 DEF Locals, Authored
<1>8. Authored(l, t, a)
  BY <1>2, <1>4, <1>5 DEF Authored
<1>9. QED
  BY <1>5, <1>6, <1>7, <1>8

LEMMA AuthoredSound ==
    ASSUME NEW l, NEW t \in Names, NEW a, Authored(l, t, a), NEW s,
           s \in {{"write", "append", "stat", "total", "store"},
                  {"append", "stat", "total", "store"}}
    PROVE  Sound(l, s)
<1>1. l.new.filetime # 0 /\ l.new.kind = "M" /\ ~l.new.digest /\ Hole.kind = "M"
      /\ t # 0
  BY NamesAre DEF Authored, NewLine, Hole
<1>2. l.fh.kind = "M" /\ l.view = "dir" /\ DOMAIN l.read = {}
  BY <1>1 DEF Authored
<1>3. QED
  BY <1>1, <1>2 DEF Sound, Removed

(* Somebody takes a new name and writes the file. *)
Begun(p, s, t, l) ==
    /\ Starts(p, s, l) /\ Authored(l, t, posted + 1)
    /\ t \in Names /\ t # 0 /\ now <= t /\ file["M"][t] = 0
    /\ \A u \in Names : now <= u /\ u < t => file["M"][u] # 0
    /\ file' = [file EXCEPT !["M"][t] = posted + 1]

LEMMA BegunBase ==
    ASSUME BaseInv, NEW p \in Procs, NEW s, NEW t, NEW l, Begun(p, s, t, l),
           ToSet(s) \in {{"write", "append", "stat", "total", "store"},
                         {"append", "stat", "total", "store"}},
           posted' = posted + 1, UNCHANGED <<list, lock, cache, now, hist>>
    PROVE  BaseInv' /\ Inherits(p)
<1>1. Typed /\ posted \in Nat
  BY DEF BaseInv, Typed
<1>2. file' \in [Kinds -> [Names -> 0..posted']]
  BY <1>1 DEF Begun, Typed, Kinds
<1>3. Sane
  BY <1>1, <1>2, ListsKept DEF Typed, Sane, cache
<1>4. Sound(l, ToSet(s))
  BY AuthoredSound DEF Begun
<1>5. l.fh = Hole /\ l.read = <<>> /\ l.start = 0 /\ l.new = NewLine(t, posted + 1)
  BY DEF Begun, Authored
<1>6. Right(l.new, posted')
  BY <1>1, <1>5 DEF Right, NewLine
<1>7. l.start <= now /\ Stems(l.fh) /\ DOMAIN l.read = {}
  BY <1>5, OwnLocals DEF Stems
<1>8. QED
  BY <1>3, <1>4, <1>6, <1>7, StartsBase DEF Begun

LEMMA JoinIs ==
    ASSUME NEW S, NEW s \in Seq(S), NEW t \in Seq(S), NEW u \in Seq(S),
           Len(u) = Len(s) + Len(t), \A i \in 1..Len(s) : u[i] = s[i],
           \A i \in 1..Len(t) : u[Len(s) + i] = t[i]
    PROVE  s \o t = u
<1>1. PICK v : v = s \o t
  OBVIOUS
<1>2. /\ v \in Seq(S) /\ Len(v) = Len(s) + Len(t)
      /\ \A i \in 1..Len(s) + Len(t) : v[i] = IF i <= Len(s) THEN s[i] ELSE t[i - Len(s)]
  BY <1>1, ConcatProperties
<1>3. ASSUME NEW i \in 1..Len(v)
      PROVE  v[i] = u[i]
  <2>1. CASE i <= Len(s)
    BY <1>2, <2>1
  <2>2. CASE ~(i <= Len(s))
    <3>1. i - Len(s) \in 1..Len(t) /\ Len(s) + (i - Len(s)) = i
      BY <1>2, <2>2
    <3>2. u[i] = t[i - Len(s)]
      BY <3>1
    <3>3. QED
      BY <1>2, <2>2, <3>2
  <2>3. QED
    BY <2>1, <2>2
<1>4. v = u
  BY <1>2, <1>3, SeqEqual
<1>5. QED
  BY <1>1, <1>4

LEMMA StepsAre ==
    /\ <<"write", "append">> \o update = <<"write", "append", "stat", "total", "store">>
    /\ <<"append">> \o update = <<"append", "stat", "total", "store">>
    /\ update \o <<"cancel">> = <<"stat", "total", "store", "cancel">>
    /\ update \o <<"cancel", "normal">> = <<"stat", "total", "store", "cancel", "normal">>
    /\ <<"remove", "cancel">> \o update = <<"remove", "cancel", "stat", "total", "store">>
    /\ <<"put">> \o update = <<"put", "stat", "total", "store">>
    /\ <<"range">> \o update = <<"range", "stat", "total", "store">>
    /\ <<"save", "enter">> \o update = <<"save", "enter", "stat", "total", "store">>
    /\ restore = <<"relink", "append", "stat", "total", "store", "strike">>
<1>1. ASSUME NEW a, NEW b, NEW c, NEW d
      PROVE  <<a>> \o <<b, c, d>> = <<a, b, c, d>>
  <2>1. PICK S : S = {a, b, c, d}
    OBVIOUS
  <2>2. PICK s, t, u : s = <<a>> /\ t = <<b, c, d>> /\ u = <<a, b, c, d>>
    OBVIOUS
  <2>3. s \in Seq(S) /\ t \in Seq(S) /\ u \in Seq(S)
    BY <2>1, <2>2, TuplesTyped
  <2>4. Len(s) = 1 /\ Len(t) = 3 /\ Len(u) = 4
    BY <2>2
  <2>5. u[1] = s[1]
    BY <2>2
  <2>6. u[2] = t[1] /\ u[3] = t[2] /\ u[4] = t[3]
    BY <2>2
  <2>7. s \o t = u
    <3>1. \A i \in 1..Len(s) : u[i] = s[i]
      BY <2>4, <2>5
    <3>2. \A i \in 1..Len(t) : u[Len(s) + i] = t[i]
      BY <2>4, <2>6
    <3>3. Len(u) = Len(s) + Len(t)
      BY <2>4
    <3>4. QED
      BY Zenon, <2>3, <3>1, <3>2, <3>3, JoinIs
  <2>8. QED
    BY <2>2, <2>7
<1>2. ASSUME NEW a, NEW b, NEW c, NEW d, NEW e
      PROVE  <<a, b>> \o <<c, d, e>> = <<a, b, c, d, e>>
  <2>1. PICK S : S = {a, b, c, d, e}
    OBVIOUS
  <2>2. PICK s, t, u : s = <<a, b>> /\ t = <<c, d, e>> /\ u = <<a, b, c, d, e>>
    OBVIOUS
  <2>3. s \in Seq(S) /\ t \in Seq(S) /\ u \in Seq(S)
    BY <2>1, <2>2, TuplesTyped
  <2>4. Len(s) = 2 /\ Len(t) = 3 /\ Len(u) = 5
    BY <2>2
  <2>5. u[1] = s[1] /\ u[2] = s[2]
    BY <2>2
  <2>6. u[3] = t[1] /\ u[4] = t[2] /\ u[5] = t[3]
    BY <2>2
  <2>7. s \o t = u
    <3>1. \A i \in 1..Len(s) : u[i] = s[i]
      BY <2>4, <2>5
    <3>2. \A i \in 1..Len(t) : u[Len(s) + i] = t[i]
      BY <2>4, <2>6
    <3>3. Len(u) = Len(s) + Len(t)
      BY <2>4
    <3>4. QED
      BY Zenon, <2>3, <3>1, <3>2, <3>3, JoinIs
  <2>8. QED
    BY <2>2, <2>7
<1>3. ASSUME NEW a, NEW b, NEW c, NEW d
      PROVE  <<a, b, c>> \o <<d>> = <<a, b, c, d>>
  <2>1. PICK S : S = {a, b, c, d}
    OBVIOUS
  <2>2. PICK s, t, u : s = <<a, b, c>> /\ t = <<d>> /\ u = <<a, b, c, d>>
    OBVIOUS
  <2>3. s \in Seq(S) /\ t \in Seq(S) /\ u \in Seq(S)
    BY <2>1, <2>2, TuplesTyped
  <2>4. Len(s) = 3 /\ Len(t) = 1 /\ Len(u) = 4
    BY <2>2
  <2>5. u[1] = s[1] /\ u[2] = s[2] /\ u[3] = s[3]
    BY <2>2
  <2>6. u[4] = t[1]
    BY <2>2
  <2>7. s \o t = u
    <3>1. \A i \in 1..Len(s) : u[i] = s[i]
      BY <2>4, <2>5
    <3>2. \A i \in 1..Len(t) : u[Len(s) + i] = t[i]
      BY <2>4, <2>6
    <3>3. Len(u) = Len(s) + Len(t)
      BY <2>4
    <3>4. QED
      BY Zenon, <2>3, <3>1, <3>2, <3>3, JoinIs
  <2>8. QED
    BY <2>2, <2>7
<1>4. ASSUME NEW a, NEW b, NEW c, NEW d, NEW e
      PROVE  <<a, b, c>> \o <<d, e>> = <<a, b, c, d, e>>
  <2>1. PICK S : S = {a, b, c, d, e}
    OBVIOUS
  <2>2. PICK s, t, u : s = <<a, b, c>> /\ t = <<d, e>> /\ u = <<a, b, c, d, e>>
    OBVIOUS
  <2>3. s \in Seq(S) /\ t \in Seq(S) /\ u \in Seq(S)
    BY <2>1, <2>2, TuplesTyped
  <2>4. Len(s) = 3 /\ Len(t) = 2 /\ Len(u) = 5
    BY <2>2
  <2>5. u[1] = s[1] /\ u[2] = s[2] /\ u[3] = s[3]
    BY <2>2
  <2>6. u[4] = t[1] /\ u[5] = t[2]
    BY <2>2
  <2>7. s \o t = u
    <3>1. \A i \in 1..Len(s) : u[i] = s[i]
      BY <2>4, <2>5
    <3>2. \A i \in 1..Len(t) : u[Len(s) + i] = t[i]
      BY <2>4, <2>6
    <3>3. Len(u) = Len(s) + Len(t)
      BY <2>4
    <3>4. QED
      BY Zenon, <2>3, <3>1, <3>2, <3>3, JoinIs
  <2>8. QED
    BY <2>2, <2>7
<1>5. ASSUME NEW a, NEW b, NEW c, NEW d, NEW e, NEW f
      PROVE  <<a, b, c, d, e>> \o <<f>> = <<a, b, c, d, e, f>>
  <2>1. PICK S : S = {a, b, c, d, e, f}
    OBVIOUS
  <2>2. PICK s, t, u : s = <<a, b, c, d, e>> /\ t = <<f>> /\ u = <<a, b, c, d, e, f>>
    OBVIOUS
  <2>3. s \in Seq(S) /\ t \in Seq(S) /\ u \in Seq(S)
    BY <2>1, <2>2, TuplesTyped
  <2>4. Len(s) = 5 /\ Len(t) = 1 /\ Len(u) = 6
    BY <2>2
  <2>5. u[1] = s[1] /\ u[2] = s[2] /\ u[3] = s[3] /\ u[4] = s[4] /\ u[5] = s[5]
    BY <2>2
  <2>6. u[6] = t[1]
    BY <2>2
  <2>7. s \o t = u
    <3>1. \A i \in 1..Len(s) : u[i] = s[i]
      BY <2>4, <2>5
    <3>2. \A i \in 1..Len(t) : u[Len(s) + i] = t[i]
      BY <2>4, <2>6
    <3>3. Len(u) = Len(s) + Len(t)
      BY <2>4
    <3>4. QED
      BY Zenon, <2>3, <3>1, <3>2, <3>3, JoinIs
  <2>8. QED
    BY <2>2, <2>7
<1>6. restore = <<"relink", "append", "stat", "total", "store", "strike">>
  <2>1. <<"relink", "append">> \o <<"stat", "total", "store">>
            = <<"relink", "append", "stat", "total", "store">>
    BY <1>2
  <2>2. <<"relink", "append", "stat", "total", "store">> \o <<"strike">>
            = <<"relink", "append", "stat", "total", "store", "strike">>
    BY <1>5
  <2>3. QED
    BY Zenon, <2>1, <2>2 DEF restore, update
<1>7. QED
  BY <1>1, <1>2, <1>3, <1>4, <1>6 DEF update

LEMMA PostStartStep ==
    ASSUME BaseInv, NEW p \in Procs, PostStart(p)
    PROVE  /\ \E t, l : /\ Begun(p, <<"write", "append", "stat", "total", "store">>, t, l)
                        /\ l.into \in {"dir", "digest"}
           /\ BaseInv' /\ Inherits(p)
<1> DEFINE s == <<"write", "append", "stat", "total", "store">>
<1>1. PICK t \in FreeNames("M"), m \in {"dir", "digest"} :
          /\ file' = [file EXCEPT !["M"][t] = posted + 1]
          /\ loc' = [loc EXCEPT ![p] = [Named(p, t, posted + 1) EXCEPT !.into = m]]
  BY DEF PostStart
<1>2. PICK l : l = [Named(p, t, posted + 1) EXCEPT !.into = m]
  OBVIOUS
<1>3. Typed /\ posted + 1 \in Nat /\ "M" \in Kinds /\ m \in Lists
  BY DEF BaseInv, Typed, Kinds, Lists
<1>4. /\ t \in Names /\ t # 0 /\ now <= t /\ file["M"][t] = 0
      /\ \A u \in Names : now <= u /\ u < t => file["M"][u] # 0
  BY <1>3, FreeNameIs
<1>5. Authored(l, t, posted + 1) /\ l.into = m
  BY <1>2, <1>3, <1>4, NamedIs
<1>6. s \in Todos /\ ToSet(s) = {"write", "append", "stat", "total", "store"}
  BY ElementsOf DEF Todos
<1>7. Begin(p, "post", s)
  BY StepsAre DEF PostStart
<1>8. Starts(p, s, l)
  BY <1>1, <1>2, <1>3, <1>5, <1>6, <1>7, BeginIs DEF Authored
<1>9. Begun(p, s, t, l)
  BY <1>1, <1>4, <1>5, <1>8 DEF Begun
<1>10. BaseInv' /\ Inherits(p)
  BY <1>6, <1>9, BegunBase DEF PostStart
<1>11. QED
  BY <1>5, <1>9, <1>10

LEMMA WebPostStep ==
    ASSUME BaseInv, NEW p \in Procs, WebPost(p)
    PROVE  /\ \E t, l : /\ Begun(p, <<"append", "stat", "total", "store">>, t, l)
                        /\ l.into = "dir"
           /\ BaseInv' /\ Inherits(p)
<1> DEFINE s == <<"append", "stat", "total", "store">>
<1>1. PICK t \in FreeNames("M") :
          /\ file' = [file EXCEPT !["M"][t] = posted + 1]
          /\ loc' = [loc EXCEPT ![p] = Named(p, t, posted + 1)]
  BY DEF WebPost
<1>2. PICK l : l = Named(p, t, posted + 1)
  OBVIOUS
<1>3. Typed /\ posted + 1 \in Nat /\ "M" \in Kinds
  BY DEF BaseInv, Typed, Kinds
<1>4. /\ t \in Names /\ t # 0 /\ now <= t /\ file["M"][t] = 0
      /\ \A u \in Names : now <= u /\ u < t => file["M"][u] # 0
  BY <1>3, FreeNameIs
<1>5. Authored(l, t, posted + 1) /\ l.into = "dir"
  BY <1>2, <1>3, <1>4, NamedIs
<1>6. s \in Todos /\ ToSet(s) = {"append", "stat", "total", "store"}
  BY ElementsOf DEF Todos
<1>7. Begin(p, "webpost", s)
  BY StepsAre DEF WebPost
<1>8. Starts(p, s, l)
  BY <1>1, <1>2, <1>3, <1>5, <1>6, <1>7, BeginIs DEF Authored
<1>9. Begun(p, s, t, l)
  BY <1>1, <1>4, <1>5, <1>8 DEF Begun
<1>10. BaseInv' /\ Inherits(p)
  BY <1>6, <1>9, BegunBase DEF WebPost
<1>11. QED
  BY <1>5, <1>9, <1>10

LEMMA FileIs ==
    ASSUME Typed, NEW k \in Kinds, NEW t \in Names, NEW a \in 0..posted,
           file' = [file EXCEPT ![k][t] = a]
    PROVE  /\ file' \in [Kinds -> [Names -> 0..posted]] /\ file'[k][t] = a
           /\ \A j \in Kinds, u \in Names : j # k \/ u # t => file'[j][u] = file[j][u]
BY DEF Typed

(* Nothing but the files, and what is noted. *)
LEMMA SaneFiles ==
    ASSUME BaseInv, UNCHANGED <<list, lock, cache, now, posted>>, hist' \in Marks,
           file' \in [Kinds -> [Names -> 0..posted]]
    PROVE  Sane
BY ListsKept DEF BaseInv, Typed, Sane, cache

LEMMA PostAbortStep ==
    ASSUME BaseInv, NEW p \in Procs, PostAbort(p)
    PROVE  /\ Rests(p) /\ "write" \in Left(p) /\ loc[p].new.filetime \in Names
           /\ BaseInv' /\ Inherits(p)
<1>1. "write" \in Left(p) /\ Typed
  BY LeftIs DEF PostAbort, BaseInv
<1>2. loc[p].new.filetime \in Names
  BY <1>1, OwnLocals, HeaderFacts DEF Sound, Times0
<1>3. Rests(p)
  BY <1>1, ReturnIs DEF PostAbort
<1>4. file' \in [Kinds -> [Names -> 0..posted]]
  <2>1. 0 \in 0..posted /\ "M" \in Kinds
    BY OwnLocals DEF Kinds
  <2>2. QED
    BY <1>1, <1>2, <2>1, FileIs DEF PostAbort
<1>5. Sane
  BY <1>1, <1>2, <1>4, SaneFiles, MarksAre DEF PostAbort
<1>6. QED
  BY <1>1, <1>2, <1>3, <1>5, RestsBase

(* It gets a later name, or keeps the one it has. *)
NamedAnew(p, t, l) == l = [loc[p] EXCEPT !.new.filetime = t, !.from = Times("dir")]

Renamed(p, t, l) ==
    /\ After(p, "write", l) /\ loc'[p] = l
    /\ NamedAnew(p, t, l)
    /\ t \in Names /\ t # 0 /\ now <= t /\ file["M"][t] = 0 /\ t # loc[p].new.filetime
    /\ \A u \in Names : now <= u /\ u < t => file["M"][u] # 0 \/ u = loc[p].new.filetime
    /\ file' = [file EXCEPT !["M"][t] = loc[p].new.art, !["M"][loc[p].new.filetime] = 0]
    /\ GiveUp(loc[p].new.filetime)

Kept(p) ==
    /\ After(p, "write", loc[p])
    /\ file' = [file EXCEPT !["M"][loc[p].new.filetime] = loc[p].new.art]
    /\ Keep({FileOf(loc[p].new)})

LEMMA RenamedIs ==
    ASSUME BaseInv, NEW p \in Procs, At(p, "write"), NEW t \in Names, NEW l,
           NamedAnew(p, t, l)
    PROVE  /\ l \in Locals /\ l.new \in Header /\ l.new.filetime = t /\ l.new.kind = "M"
           /\ l.new.art = loc[p].new.art /\ l.new.digest = loc[p].new.digest
           /\ l.from = Times("dir") /\ l.into = loc[p].into /\ l.start <= now
           /\ l.fh = loc[p].fh /\ l.read = loc[p].read /\ l.view = loc[p].view
           /\ Sound(l, {"append", "stat", "total", "store"}) /\ Right(l.new, posted)
<1>1. PICK m, h : m = loc[p] /\ h = [loc[p].new EXCEPT !.filetime = t]
  OBVIOUS
<1>2. /\ m \in Locals /\ m.new \in Header /\ m.new.filetime # 0 /\ m.new.kind = "M"
      /\ ~m.new.digest /\ Right(m.new, posted) /\ m.start <= now
  BY <1>1, OwnLocals, LeftIs DEF Sound, BaseInv
<1>3. /\ h \in Header /\ h.filetime = t /\ h.kind = "M" /\ h.art = m.new.art
      /\ h.digest = m.new.digest
  BY <1>1, <1>2 DEF Header, Times0
<1>4. PICK d : d = Times("dir") /\ d \in SUBSET Times0
  BY TimesIs DEF BaseInv, Lists
<1>5. l = [m EXCEPT !.new = h, !.from = d]
  BY <1>1, <1>4 DEF NamedAnew
<1>6. l \in Locals /\ l.new = h /\ l.from = d /\ l.into = m.into /\ l.fh = m.fh
      /\ l.read = m.read /\ l.view = m.view /\ l.start = m.start /\ l.ent = m.ent
  BY <1>2, <1>3, <1>4, <1>5 DEF Locals
<1>7. Sound(m, Left(p)) /\ Left(p) = {"write", "append", "stat", "total", "store"}
  BY <1>1, OwnLocals, LeftIs DEF BaseInv
<1>8. Sound(l, {"append", "stat", "total", "store"})
  BY <1>2, <1>3, <1>6, <1>7, NamesAre DEF Sound
<1>9. Right(h, posted)
  BY <1>2, <1>3 DEF Right
<1>10. QED
  BY <1>1, <1>2, <1>3, <1>4, <1>6, <1>8, <1>9

LEMMA PostEndStep ==
    ASSUME BaseInv, NEW p \in Procs, PostEnd(p)
    PROVE  /\ Kept(p) \/ \E t, l : Renamed(p, t, l)
           /\ "write" \in Left(p) /\ loc[p].new.filetime \in Names
           /\ BaseInv' /\ Inherits(p)
<1>1. Typed /\ Left(p) = {"write", "append", "stat", "total", "store"} /\ At(p, "write")
  BY LeftIs DEF PostEnd, BaseInv
<1>2. PICK old, a : old = loc[p].new.filetime /\ a = loc[p].new.art
  OBVIOUS
<1>3. old \in Names /\ a \in 0..posted /\ "M" \in Kinds /\ 0 \in 0..posted
  BY <1>1, <1>2, OwnLocals, HeaderFacts DEF Sound, Times0, Right, Kinds
<1>4. PICK names : names = {t \in now..(now + MaxTry - 1) :
                        \A u \in now..t : (file["M"][u] # 0 \/ u = old) <=> u # t}
  OBVIOUS
<1>5. CASE names = {}
  <2>1. Kept(p)
    BY <1>1, <1>2, <1>4, <1>5, OwnLocals, DoneIs DEF PostEnd, Kept
  <2>2. file' \in [Kinds -> [Names -> 0..posted]]
    BY <1>1, <1>2, <1>3, <2>1, FileIs DEF Kept
  <2>3. hist' \in Marks
    BY <1>1, <2>1, MarksAre, OwnLocals, HeaderFacts DEF Kept
  <2>4. Sane
    BY <2>2, <2>3, SaneFiles DEF PostEnd
  <2>5. BaseInv' /\ Inherits(p)
    BY <2>1, <2>4, OwnLocals, AfterBase DEF Kept
  <2>6. QED
    BY <1>1, <1>2, <1>3, <2>1, <2>5
<1>6. CASE names # {}
  <2>1. PICK t \in names :
            /\ file' = [file EXCEPT !["M"][t] = a, !["M"][old] = 0]
            /\ Done(p, [loc[p] EXCEPT !.new.filetime = t, !.from = Times("dir")])
            /\ GiveUp(old)
    BY <1>2, <1>4, <1>6 DEF PostEnd
  <2>2. /\ t \in Names /\ t # 0 /\ now <= t /\ file["M"][t] = 0 /\ t # old
        /\ \A u \in Names : now <= u /\ u < t => file["M"][u] # 0 \/ u = old
    <3>1. now \in Nat /\ 1 <= now /\ now <= MaxTime
      BY <1>1, ConstantsAre DEF Typed
    <3>2. t \in now..(now + MaxTry - 1)
          /\ \A u \in now..t : (file["M"][u] # 0 \/ u = old) <=> u # t
      BY <1>4
    <3>3. t \in Nat /\ now <= t /\ t - now \in 0..(MaxTry - 1) /\ now + (t - now) = t
          /\ t \in now..t
      BY <3>1, <3>2, ConstantsAre
    <3>4. t \in Names
      BY <3>1, <3>3, NamesAre
    <3>5. \A u \in Names : now <= u /\ u < t => u \in now..t /\ u # t
      BY <3>1, <3>3, NamesAre
    <3>6. QED
      BY <3>2, <3>3, <3>4, <3>5, NamesAre
  <2>3. PICK l : NamedAnew(p, t, l) /\ Done(p, l)
    BY <2>1 DEF NamedAnew
  <2>4. /\ l \in Locals /\ l.start <= now /\ l.fh = loc[p].fh /\ l.read = loc[p].read
        /\ Sound(l, {"append", "stat", "total", "store"}) /\ Right(l.new, posted)
    <3>1. At(p, "write") /\ t \in Names
      BY <1>1, <2>2
    <3>2. QED
      BY <2>3, <3>1, RenamedIs
  <2>5. After(p, "write", l)
    BY <1>1, <2>3, <2>4, DoneIs
  <2>6. Left(p)' = {"append", "stat", "total", "store"} /\ loc'[p] = l
    BY <1>1, <2>5 DEF After
  <2>7. Renamed(p, t, l)
    BY <1>2, <2>1, <2>2, <2>3, <2>5, <2>6 DEF Renamed
  <2>8. file' \in [Kinds -> [Names -> 0..posted]]
    BY <1>1, <1>3, <2>1, <2>2 DEF Typed
  <2>9. Sane
    BY <1>1, <1>3, <2>1, <2>8, SaneFiles, MarksAre DEF PostEnd
  <2>10. Stems(loc'[p].fh) /\ \A i \in DOMAIN loc'[p].read : Stems(loc'[p].read[i])
    BY <1>1, <2>4, <2>6, OwnStems
  <2>11. Sound(loc'[p], Left(p)') /\ Right(loc'[p].new, posted') /\ loc'[p].start <= now
    BY <2>4, <2>6 DEF PostEnd
  <2>12. BaseInv' /\ Inherits(p)
    BY <2>5, <2>9, <2>10, <2>11, BaseStep DEF After
  <2>13. QED
    BY <1>1, <1>2, <1>3, <2>7, <2>12
<1>7. QED
  BY <1>5, <1>6

LEMMA AppendLineStep ==
    ASSUME BaseInv, NEW p \in Procs, AppendLine(p)
    PROVE  /\ After(p, "append", loc[p]) /\ "append" \in Left(p) /\ "relink" \notin Left(p)
           /\ ~Writing(p) /\ loc[p].new.filetime \in Names
           /\ Changes(loc[p].into, Append(list[loc[p].into], loc[p].new))
           /\ BaseInv' /\ Inherits(p)
<1>1. Typed /\ At(p, "append")
  BY DEF AppendLine, BaseInv
<1>2. "append" \in Left(p) /\ "relink" \notin Left(p) /\ ~Writing(p)
  BY <1>1, LeftIs DEF Writing
<1>3. PICK h, l : h = loc[p].new /\ l = loc[p].into
  OBVIOUS
<1>4. h \in Header /\ l \in Lists /\ h.filetime # 0 /\ ~h.digest /\ (l = "dir" => h.kind = "M")
  BY <1>2, <1>3, OwnLocals DEF Sound
<1>5. Stems(h) /\ h.filetime \in Names
  BY <1>1, <1>2, <1>3, <1>4, PublicIs, StemsSelf, HeaderFacts DEF Holds, Times0
<1>6. /\ Changes(l, Append(list[l], h))
      /\ list' \in [Lists -> Seq(Header)] /\ ListInv' /\ \A m \in Lists : ListStems(m)
  BY <1>3, <1>4, <1>5, EnterLine DEF AppendLine
<1>7. After(p, "append", loc[p])
  BY <1>1, OwnLocals, DoneIs DEF AppendLine
<1>8. hist' \in Marks
  <2>1. PICK c : Cross(c) /\ c \in {{h.filetime}, {}}
    BY <1>3 DEF AppendLine
  <2>2. c \in SUBSET Times0
    BY <1>5, <2>1 DEF Times0
  <2>3. QED
    BY <1>1, <2>1, <2>2, MarksAre
<1>9. Sane
  BY <1>6, <1>8, SaneIs DEF AppendLine
<1>10. BaseInv' /\ Inherits(p)
  BY <1>7, <1>9, OwnLocals, AfterBase
<1>11. QED
  BY <1>2, <1>3, <1>5, <1>6, <1>7, <1>10

-----------------------------------------------------------------------------
(* The line under the cursor. *)
LEMMA ShowsAre ==
    /\ \A l \in Lists : "del" \in Shows(l) => l \in {"dir", "digest"}
    /\ \A l \in Lists : "edit" \in Shows(l) => l \in {"dir", "digest"}
    /\ \A l \in Lists : "flag" \in Shows(l) => l = "dir"
    /\ \A l \in Lists : "digest" \in Shows(l) => l = "dir"
    /\ \A l \in Lists : "undelete" \in Shows(l) => l \in Removed
BY DEF Shows, Lists, Removed

LEMMA SeenIs ==
    ASSUME BaseInv, NEW p \in Procs
    PROVE  /\ Seen(p) \in Nat
           /\ Seen(p) # 0 => /\ Seen(p) \in DOMAIN list[loc[p].view]
                             /\ list[loc[p].view][Seen(p)].filetime = loc[p].fh.filetime
<1>1. list[loc[p].view] \in Seq(Header) /\ loc[p].ent \in Nat
  BY OwnLocals DEF BaseInv, Typed
<1>2. QED
  BY <1>1, PlaceIs DEF Seen

(* A request that works on the line under the cursor. *)
LEMMA StaysIs ==
    ASSUME BaseInv, NEW p \in Procs, NEW job, NEW s \in Todos, Begin(p, job, s), loc' = loc
    PROVE  Starts(p, s, loc[p]) /\ Sound(loc[p], {}) /\ loc[p].from = {}
<1>1. loc' = [loc EXCEPT ![p] = loc[p]] /\ loc[p] \in Locals
  BY OwnLocals DEF BaseInv, Typed
<1>2. Starts(p, s, loc[p])
  BY <1>1, BeginIs DEF BaseInv
<1>3. Sound(loc[p], {})
  BY <1>2, OwnLocals DEF Starts
<1>4. QED
  BY <1>2, <1>3 DEF Sound

LEMMA StaysBase ==
    ASSUME BaseInv, NEW p \in Procs, NEW s, Starts(p, s, loc[p]), Sane, Sound(loc[p], ToSet(s))
    PROVE  BaseInv' /\ Inherits(p)
<1>1. Right(loc[p].new, posted') /\ Stems(loc[p].fh) /\ \A i \in DOMAIN loc[p].read : Stems(loc[p].read[i])
  BY RightNew, OwnStems DEF Sane, BaseInv
<1>2. QED
  BY <1>1, OwnLocals, StartsBase

LEMMA RestAtOnce ==
    ASSUME Typed, NEW p \in Procs, NEW job, Begin(p, job, <<>>), loc' = [loc EXCEPT ![p] = NoLocals]
    PROVE  Rests(p) /\ todo[p] = <<>> /\ Left(p) = {}
<1>1. <<>> \in Todos /\ NoLocals \in Locals
  BY NoLocalsTyped DEF Todos
<1>2. Starts(p, <<>>, NoLocals)
  BY <1>1, BeginIs
<1>3. QED
  BY <1>2, ElementsOf DEF Starts, Rests

(* What a session sees of a line. *)
Views(p, l) ==
    /\ Walked(p) /\ todo' = todo /\ todo[p] = <<>> /\ Left(p) = {} /\ Left(p)' = {}
    /\ loc'[p] = l /\ l.new = Hole /\ l.from = {} /\ l.read = <<>> /\ l.start = 0
    /\ l.ent \in DOMAIN list[l.view] /\ l.fh = list[l.view][l.ent] /\ l.view \in Lists

LEMMA ViewStep ==
    ASSUME BaseInv, NEW p \in Procs, View(p)
    PROVE  (\E l \in Locals : Views(p, l)) /\ BaseInv' /\ Inherits(p)
<1>0. PICK v \in Lists : \E i \in DOMAIN list[v] :
          loc' = [loc EXCEPT ![p] = [NoLocals EXCEPT !.view = v, !.ent = i, !.fh = list[v][i]]]
  BY DEF View
<1>1. PICK i \in DOMAIN list[v] :
          loc' = [loc EXCEPT ![p] = [NoLocals EXCEPT !.view = v, !.ent = i, !.fh = list[v][i]]]
  BY <1>0
<1>2. Typed /\ list[v] \in Seq(Header) /\ i \in Nat /\ list[v][i] \in Header
  BY HeaderIs DEF BaseInv, Typed
<1>3. PICK l : l = [NoLocals EXCEPT !.view = v, !.ent = i, !.fh = list[v][i]]
  OBVIOUS
<1>4. /\ l.new = Hole /\ l.from = {} /\ l.read = <<>> /\ l.start = 0
      /\ l.ent = i /\ l.view = v /\ l.fh = list[v][i] /\ l \in Locals
  <2>1. PICK h : h = list[v][i] /\ h \in Header
    BY <1>2
  <2>2. l = [NoLocals EXCEPT !.view = v, !.ent = i, !.fh = h]
    BY <1>3, <2>1
  <2>3. l \in Locals
    BY <1>2, <2>1, <2>2, NoLocalsTyped DEF Locals
  <2>4. QED
    BY <2>1, <2>2, <2>3 DEF NoLocals
<1>5. loc' \in [Procs -> Locals] /\ loc'[p] = l /\ \A q \in Procs \ {p} : loc'[q] = loc[q]
  BY <1>1, <1>2, <1>3, <1>4 DEF Typed
<1>6. todo' = todo /\ todo[p] = <<>>
  BY DEF View, Idle
<1>7. Walked(p) /\ Left(p) = {} /\ Left(p)' = {}
  BY <1>2, <1>5, <1>6, ElementsOf DEF Walked, Alone, Left, Typed
<1>8. Views(p, l)
  BY <1>4, <1>5, <1>6, <1>7 DEF Views
<1>9. Sane
  BY <1>2, SaneKept DEF View, Typed
<1>10. Stems(l.fh) /\ DOMAIN l.read = {}
  BY <1>2, <1>4, PublicIs, StemsSelf
<1>11. Sound(l, {})
  <2>1. ListInv
    BY DEF BaseInv
  <2>2. v = "dir" => l.fh.kind = "M"
    BY <1>4, <2>1 DEF ListInv, Articled
  <2>3. v \in Removed => ~l.fh.digest
    BY <1>4, <2>1 DEF ListInv, Cleared
  <2>4. QED
    BY <1>4, <1>10, <2>2, <2>3 DEF Sound
<1>12. Right(l.new, posted') /\ l.start <= now
  BY <1>4, RightNew, OwnLocals DEF Sane, View
<1>13. BaseInv' /\ Inherits(p)
  BY <1>5, <1>7, <1>9, <1>10, <1>11, <1>12, BaseStep
<1>14. QED
  BY <1>4, <1>8, <1>13

LEMMA DeleteStep ==
    ASSUME BaseInv, NEW p \in Procs, Delete(p)
    PROVE  /\ todo[p] = <<>> /\ Left(p) = {}
           /\ \/ Rests(p) /\ list' = list /\ hist' = hist
              \/ /\ Starts(p, AfterDelete(loc[p].view), loc[p])
                 /\ Seen(p) \in DOMAIN list[loc[p].view]
                 /\ Changes(loc[p].view, RemoveAt(list[loc[p].view], Seen(p)))
                 /\ {"stat", "total", "store", "cancel"} \subseteq Left(p)'
                 /\ Left(p)' \subseteq {"stat", "total", "store", "cancel", "normal"}
                 /\ "normal" \in Left(p)' <=> loc[p].view = "digest"
           /\ loc[p].view \in {"dir", "digest"}
           /\ BaseInv' /\ Inherits(p)
<1>1. Typed /\ Sees(p, "del") /\ loc[p].view \in {"dir", "digest"} /\ todo[p] = <<>> /\ Left(p) = {}
  BY OwnLocals, ShowsAre, ElementsOf DEF Delete, Sees, BaseInv, Begin, Idle, Left
<1>2. CASE Seen(p) = 0
  <2>1. Rests(p)
    BY <1>1, <1>2, RestAtOnce DEF Delete
  <2>2. list' = list /\ hist' = hist
    BY <1>2 DEF Delete
  <2>3. Sane
    BY <1>1, <2>2, SaneKept DEF Delete, Typed, board
  <2>4. QED
    BY <1>1, <2>1, <2>2, <2>3, RestsBase
<1>3. CASE Seen(p) # 0
  <2>1. PICK v, i, s : v = loc[p].view /\ i = Seen(p) /\ s = AfterDelete(v)
    OBVIOUS
  <2>2. /\ s \in Todos
        /\ ToSet(s) = IF v = "digest" THEN {"stat", "total", "store", "cancel", "normal"}
                                      ELSE {"stat", "total", "store", "cancel"}
    <3>1. CASE v = "digest"
      <4>1. s = <<"stat", "total", "store", "cancel", "normal">>
        BY <2>1, <3>1, StepsAre DEF AfterDelete
      <4>2. QED
        BY <3>1, <4>1, ElementsOf DEF Todos
    <3>2. CASE v # "digest"
      <4>1. s = <<"stat", "total", "store", "cancel">>
        BY <2>1, <3>2, StepsAre DEF AfterDelete
      <4>2. QED
        BY <3>2, <4>1, ElementsOf DEF Todos
    <3>3. QED
      BY <3>1, <3>2
  <2>3. Begin(p, "del", s) /\ loc' = loc /\ Put(v, RemoveAt(list[v], i))
    BY <1>3, <2>1 DEF Delete
  <2>4. Starts(p, s, loc[p]) /\ Sound(loc[p], {})
    BY <2>2, <2>3, StaysIs
  <2>5. i \in DOMAIN list[v] /\ v \in Lists
    BY <1>3, <2>1, SeenIs, OwnLocals
  <2>6. /\ Changes(v, RemoveAt(list[v], i))
        /\ list' \in [Lists -> Seq(Header)] /\ ListInv' /\ \A l \in Lists : ListStems(l)
    BY <2>3, <2>5, RemoveLine
  <2>7. Sound(loc[p], ToSet(s))
    BY <1>1, <2>1, <2>2, <2>4 DEF Sound
  <2>8. hist' \in Marks
    <3>0. PICK t, c, d :
              /\ t = loc[p].fh.filetime
              /\ c = IF v = "digest" /\ Excerpting(t) # {} THEN hist.crossed \cup {t}
                                                          ELSE hist.crossed
              /\ d = hist.dropped \cup ({FileOf(list[v][i])} \ {FileOf(loc[p].fh)})
      OBVIOUS
    <3>1. /\ c \in {hist.crossed \cup {loc[p].fh.filetime}, hist.crossed}
          /\ hist' = [hist EXCEPT !.crossed = c, !.dropped = d]
      BY <1>3, <2>1, <3>0 DEF Delete
    <3>2. hist \in Marks /\ loc[p].fh.filetime \in Times0 /\ list[v][i] \in Header
      BY <1>1, <2>5, OwnLocals, HeaderFacts, HeaderIs DEF Typed
    <3>3. c \subseteq Times0 /\ d \subseteq Files0
      BY <3>0, <3>1, <3>2, HeaderFacts DEF Marks
    <3>4. QED
      BY <3>1, <3>2, <3>3 DEF Marks
  <2>9. Sane
    BY <2>6, <2>8, SaneIs DEF Delete
  <2>10. BaseInv' /\ Inherits(p)
    BY <2>4, <2>7, <2>9, StaysBase
  <2>11. /\ {"stat", "total", "store", "cancel"} \subseteq Left(p)'
         /\ Left(p)' \subseteq {"stat", "total", "store", "cancel", "normal"}
         /\ "normal" \in Left(p)' <=> v = "digest"
    BY <2>2, <2>4 DEF Starts
  <2>12. QED
    BY <1>1, <2>1, <2>4, <2>5, <2>6, <2>10, <2>11
<1>4. QED
  BY <1>2, <1>3

LEMMA TrashIs ==
    ASSUME NEW h \in Header
    PROVE  /\ Trash(h) \in Header /\ Trash(h).filetime = h.filetime /\ Trash(h).art = h.art
           /\ Trash(h).kind = h.kind /\ ~Trash(h).digest /\ FileOf(Trash(h)) = FileOf(h)
BY DEF Header, Trash, FileOf

(* Where cancelpost puts the line. *)
Bin(p) == IF p \in Owners /\ loc[p].view = "dir" THEN "junk" ELSE "deleted"

LEMMA CancelStep ==
    ASSUME BaseInv, NEW p \in Procs, Cancel(p)
    PROVE  /\ After(p, "cancel", loc[p]) /\ "cancel" \in Left(p) /\ hist' = hist
           /\ Bin(p) \in Removed /\ Changes(Bin(p), Append(list[Bin(p)], Trash(loc[p].fh)))
           /\ BaseInv' /\ Inherits(p)
<1>1. Typed /\ At(p, "cancel") /\ "cancel" \in Left(p) /\ hist' = hist
  BY LeftIs DEF Cancel, BaseInv
<1>2. PICK h, l : h = Trash(loc[p].fh) /\ l = Bin(p)
  OBVIOUS
<1>3. h \in Header /\ l \in Removed /\ l \in Lists /\ l # "dir" /\ ~h.digest
  BY <1>2, OwnLocals, TrashIs DEF Bin, Removed, Lists
<1>4. Stems(h)
  <2>1. Stems(loc[p].fh) /\ loc[p].fh \in Public
    BY <1>1, OwnStems, PublicIs DEF Holds
  <2>2. QED
    BY <1>2, <2>1, OwnLocals, TrashIs DEF Stems
<1>5. Put(l, Append(list[l], h))
  BY <1>2 DEF Cancel, Bin
<1>6. /\ Changes(l, Append(list[l], h))
      /\ list' \in [Lists -> Seq(Header)] /\ ListInv' /\ \A m \in Lists : ListStems(m)
  BY <1>3, <1>4, <1>5, EnterLine
<1>7. After(p, "cancel", loc[p])
  BY <1>1, OwnLocals, DoneIs DEF Cancel
<1>8. Sane
  BY <1>1, <1>6, SaneIs DEF Cancel, Typed
<1>9. BaseInv' /\ Inherits(p)
  BY <1>7, <1>8, OwnLocals, AfterBase
<1>10. QED
  BY <1>1, <1>2, <1>3, <1>6, <1>7, <1>9

(* A line of .DIR is changed in place; nothing but its flags and the time  *)
(* of an edit.                                                             *)
Marked(i, h) ==
    /\ i \in DOMAIN list["dir"] /\ Amended(h, list["dir"][i])
    /\ Changes("dir", [list["dir"] EXCEPT ![i] = h])

Turned(h) == [h EXCEPT !.digest = ~@]

LEMMA TurnedIs ==
    ASSUME NEW h \in Header
    PROVE  Amended(Turned(h), h) /\ Turned(h).digest = ~h.digest /\ Turned(h).edittime = h.edittime
BY DEF Header, Turned, Amended

LEMMA TurnLine ==
    ASSUME BaseInv, NEW i \in DOMAIN list["dir"], list' = [list EXCEPT !["dir"][i].digest = ~@]
    PROVE  /\ Marked(i, Turned(list["dir"][i]))
           /\ list' \in [Lists -> Seq(Header)] /\ ListInv' /\ \A m \in Lists : ListStems(m)
<1>1. list["dir"] \in Seq(Header) /\ list["dir"][i] \in Header
  BY HeaderIs DEF BaseInv, Typed, Lists
<1>2. PICK h : h = Turned(list["dir"][i])
  OBVIOUS
<1>3. Amended(h, list["dir"][i])
  BY <1>1, <1>2, TurnedIs
<1>4. list' = [list EXCEPT !["dir"][i] = h]
  BY <1>2 DEF Turned
<1>5. QED
  BY <1>2, <1>3, <1>4, AmendLine DEF Marked

LEMMA PlaceInDir ==
    ASSUME BaseInv, NEW key, NEW n \in Nat, Place(list["dir"], key, n) # 0
    PROVE  /\ Place(list["dir"], key, n) \in DOMAIN list["dir"]
           /\ list["dir"][Place(list["dir"], key, n)].filetime = key
BY PlaceIs DEF BaseInv, Typed, Lists

LEMMA NormalStep ==
    ASSUME BaseInv, NEW p \in Procs, Normal(p)
    PROVE  /\ After(p, "normal", loc[p]) /\ Left(p) = {"normal"}
           /\ \/ list' = list /\ Cross({loc[p].fh.filetime})
              \/ \E i : /\ Marked(i, Turned(list["dir"][i])) /\ hist' = hist
                        /\ list["dir"][i].filetime = loc[p].fh.filetime
           /\ BaseInv' /\ Inherits(p)
<1>1. Typed /\ At(p, "normal") /\ Left(p) = {"normal"} /\ total \in Nat
  BY LeftIs DEF Normal, BaseInv, Typed
<1>2. After(p, "normal", loc[p])
  BY <1>1, OwnLocals, DoneIs DEF Normal
<1>3. PICK i : i = Place(list["dir"], loc[p].fh.filetime, total)
  OBVIOUS
<1>4. CASE i = 0
  <2>1. list' = list /\ Cross({loc[p].fh.filetime})
    BY <1>3, <1>4 DEF Normal
  <2>2. hist' \in Marks
    BY <1>1, <2>1, OwnLocals, HeaderFacts, MarksAre
  <2>3. Sane
    BY <2>1, <2>2, SaneKept DEF Normal, board
  <2>4. QED
    BY <1>1, <1>2, <2>1, <2>3, OwnLocals, AfterBase
<1>5. CASE i # 0
  <2>1. list' = [list EXCEPT !["dir"][i].digest = ~@] /\ hist' = hist
    BY <1>3, <1>5 DEF Normal
  <2>2. i \in DOMAIN list["dir"] /\ list["dir"][i].filetime = loc[p].fh.filetime
    BY <1>1, <1>3, <1>5, PlaceInDir
  <2>3. /\ Marked(i, Turned(list["dir"][i]))
        /\ list' \in [Lists -> Seq(Header)] /\ ListInv' /\ \A m \in Lists : ListStems(m)
    BY <2>1, <2>2, TurnLine
  <2>4. Sane
    BY <1>1, <2>1, <2>3, SaneIs DEF Normal, Typed
  <2>5. BaseInv' /\ Inherits(p)
    BY <1>2, <2>4, OwnLocals, AfterBase
  <2>6. QED
    BY <1>1, <1>2, <2>1, <2>2, <2>3, <2>5
<1>6. QED
  BY <1>4, <1>5

LEMMA ToggleStep ==
    ASSUME BaseInv, NEW p \in Procs, Toggle(p)
    PROVE  /\ After(p, "toggle", loc[p]) /\ Left(p) = {"toggle"} /\ loc[p].view = "dir"
           /\ loc[p].fh.filetime # 0
           /\ \/ list' = list /\ Cross({loc[p].fh.filetime})
              \/ \E i : /\ Marked(i, Turned(list["dir"][i])) /\ hist' = hist
                        /\ list["dir"][i].filetime = loc[p].fh.filetime
           /\ BaseInv' /\ Inherits(p)
<1>1. Typed /\ At(p, "toggle") /\ Left(p) = {"toggle"}
  BY LeftIs DEF Toggle, BaseInv
<1>2. After(p, "toggle", loc[p]) /\ loc[p].view = "dir" /\ loc[p].fh.filetime # 0
  BY <1>1, OwnLocals, DoneIs DEF Toggle, Sound
<1>3. PICK i : i = Seen(p)
  OBVIOUS
<1>4. CASE i = 0
  <2>1. list' = list /\ Cross({loc[p].fh.filetime})
    BY <1>3, <1>4 DEF Toggle
  <2>2. hist' \in Marks
    BY <1>1, <2>1, OwnLocals, HeaderFacts, MarksAre
  <2>3. Sane
    BY <2>1, <2>2, SaneKept DEF Toggle, board
  <2>4. QED
    BY <1>1, <1>2, <2>1, <2>3, OwnLocals, AfterBase
<1>5. CASE i # 0
  <2>1. list' = [list EXCEPT !["dir"][i].digest = ~@] /\ hist' = hist
    BY <1>3, <1>5 DEF Toggle
  <2>2. i \in DOMAIN list["dir"] /\ list["dir"][i].filetime = loc[p].fh.filetime
    BY <1>2, <1>3, <1>5, SeenIs
  <2>3. /\ Marked(i, Turned(list["dir"][i]))
        /\ list' \in [Lists -> Seq(Header)] /\ ListInv' /\ \A m \in Lists : ListStems(m)
    BY <2>1, <2>2, TurnLine
  <2>4. Sane
    BY <1>1, <2>1, <2>3, SaneIs DEF Toggle, Typed
  <2>5. BaseInv' /\ Inherits(p)
    BY <1>2, <2>4, OwnLocals, AfterBase
  <2>6. QED
    BY <1>1, <1>2, <2>1, <2>2, <2>3, <2>5
<1>6. QED
  BY <1>4, <1>5

LEMMA FlagStep ==
    ASSUME BaseInv, NEW p \in Procs, Flag(p)
    PROVE  /\ Rests(p) /\ todo[p] = <<>> /\ Left(p) = {} /\ hist' = hist
           /\ \/ list' = list
              \/ \E i, h : /\ Marked(i, h) /\ h.digest = list["dir"][i].digest
                           /\ h.edittime = list["dir"][i].edittime
           /\ BaseInv' /\ Inherits(p)
<1>1. Typed /\ Sees(p, "flag") /\ loc[p].view = "dir" /\ hist' = hist
  BY OwnLocals, ShowsAre DEF Flag, Sees, BaseInv
<1>2. Rests(p) /\ todo[p] = <<>> /\ Left(p) = {}
  BY <1>1, RestAtOnce DEF Flag
<1>3. CASE Seen(p) = 0
  <2>1. list' = list
    BY <1>3 DEF Flag
  <2>2. Sane
    BY <1>1, <2>1, SaneKept DEF Flag, Typed, board
  <2>3. QED
    BY <1>1, <1>2, <2>1, <2>2, RestsBase
<1>4. CASE Seen(p) # 0
  <2>1. PICK i : i = Seen(p)
    OBVIOUS
  <2>2. PICK f \in {"marked", "del"} : list' = [list EXCEPT !["dir"][i][f] = ~@]
    BY <1>4, <2>1 DEF Flag
  <2>3. i \in DOMAIN list["dir"] /\ list["dir"] \in Seq(Header) /\ list["dir"][i] \in Header
    BY <1>1, <1>4, <2>1, SeenIs, HeaderIs DEF Typed, Lists
  <2>4. PICK g : g = list["dir"][i]
    OBVIOUS
  <2>5. PICK h : h = [g EXCEPT ![f] = ~@]
    OBVIOUS
  <2>6. Amended(h, g) /\ h.digest = g.digest /\ h.edittime = g.edittime
    <3>1. CASE f = "marked"
      BY <2>3, <2>4, <2>5, <3>1 DEF Amended, Header
    <3>2. CASE f = "del"
      BY <2>3, <2>4, <2>5, <3>2 DEF Amended, Header
    <3>3. QED
      BY <3>1, <3>2
  <2>7. list' = [list EXCEPT !["dir"][i] = h]
    BY <2>2, <2>4, <2>5
  <2>8. /\ Marked(i, h)
        /\ list' \in [Lists -> Seq(Header)] /\ ListInv' /\ \A m \in Lists : ListStems(m)
    BY <2>3, <2>4, <2>6, <2>7, AmendLine DEF Marked
  <2>9. Sane
    BY <1>1, <2>8, SaneIs DEF Flag, Typed
  <2>10. BaseInv' /\ Inherits(p)
    BY <1>2, <2>9, RestsBase
  <2>11. QED
    BY <1>1, <1>2, <2>4, <2>6, <2>8, <2>10
<1>5. QED
  BY <1>3, <1>4

LEMMA EditStartStep ==
    ASSUME BaseInv, NEW p \in Procs, EditStart(p)
    PROVE  /\ Starts(p, <<"save", "enter", "stat", "total", "store">>, loc[p])
           /\ Left(p)' = {"save", "enter", "stat", "total", "store"}
           /\ BaseInv' /\ Inherits(p)
<1>1. Typed /\ Sees(p, "edit") /\ loc[p].view \in {"dir", "digest"} /\ loc[p].fh.filetime # 0
  BY OwnLocals, ShowsAre DEF EditStart, Sees, BaseInv
<1>2. PICK s : s = <<"save", "enter", "stat", "total", "store">>
  OBVIOUS
<1>3. s \in Todos /\ ToSet(s) = {"save", "enter", "stat", "total", "store"}
  BY <1>2, ElementsOf DEF Todos
<1>4. Begin(p, "edit", s) /\ loc' = loc
  BY <1>2, StepsAre DEF EditStart
<1>5. Starts(p, s, loc[p]) /\ Sound(loc[p], {})
  BY <1>3, <1>4, StaysIs
<1>6. Sound(loc[p], ToSet(s))
  BY <1>1, <1>3, <1>5 DEF Sound
<1>7. Sane
  BY <1>1, SaneKept DEF EditStart, Typed
<1>8. QED
  BY <1>2, <1>3, <1>5, <1>6, <1>7, StaysBase DEF Starts

(* The line with the time of the edit. *)
Edited(p, l) == l = [loc[p] EXCEPT !.fh.edittime = now]

LEMMA EditedIs ==
    ASSUME BaseInv, NEW p \in Procs, NEW l, Edited(p, l)
    PROVE  /\ l \in Locals /\ Agree(l, loc[p]) /\ l.fh.art = loc[p].fh.art
           /\ FileOf(l.fh) = FileOf(loc[p].fh) /\ l.start <= now
           /\ l.read = loc[p].read /\ l.sel = loc[p].sel /\ l.at = loc[p].at
           /\ l.n = loc[p].n /\ l.lost = loc[p].lost /\ l.moving = loc[p].moving
           /\ l.start = loc[p].start
<1>1. PICK m, h : m = loc[p] /\ h = [loc[p].fh EXCEPT !.edittime = now]
  OBVIOUS
<1>2. m \in Locals /\ m.fh \in Header /\ m.start <= now /\ now \in Nat
  BY <1>1, OwnLocals
<1>3. /\ h \in Header /\ h.filetime = m.fh.filetime /\ h.kind = m.fh.kind
      /\ h.digest = m.fh.digest /\ h.art = m.fh.art
  BY <1>1, <1>2 DEF Header
<1>4. l = [m EXCEPT !.fh = h]
  BY <1>1 DEF Edited
<1>5. l \in Locals /\ l.fh = h /\ l.start = m.start /\ l.view = m.view /\ l.new = m.new
      /\ l.into = m.into /\ l.from = m.from /\ l.read = m.read /\ l.ent = m.ent
      /\ l.sel = m.sel /\ l.at = m.at /\ l.n = m.n /\ l.lost = m.lost /\ l.moving = m.moving
  BY <1>2, <1>3, <1>4 DEF Locals
<1>6. QED
  BY <1>1, <1>2, <1>3, <1>5 DEF Agree, FileOf

LEMMA EditSaveStep ==
    ASSUME BaseInv, NEW p \in Procs, EditSave(p)
    PROVE  /\ \E l : After(p, "save", l) /\ Edited(p, l)
           /\ Left(p) = {"save", "enter", "stat", "total", "store"}
           /\ loc[p].fh.filetime \in Names
           /\ BaseInv' /\ Inherits(p)
<1>1. Typed /\ At(p, "save") /\ Left(p) = {"save", "enter", "stat", "total", "store"}
  BY LeftIs DEF EditSave, BaseInv
<1>2. PICK l : Edited(p, l) /\ Done(p, l)
  BY DEF EditSave, Edited
<1>3. l \in Locals /\ Agree(l, loc[p]) /\ l.fh.art = loc[p].fh.art /\ l.start <= now
  BY <1>2, EditedIs
<1>4. After(p, "save", l)
  BY <1>1, <1>2, <1>3, DoneIs
<1>5. loc[p].fh.filetime \in Names /\ loc[p].fh.kind \in Kinds /\ loc[p].fh.art \in 0..posted
  <2>1. PICK h : h = loc[p].fh
    OBVIOUS
  <2>2. h \in Header /\ Right(h, posted) /\ h.filetime # 0 /\ posted \in Nat
    BY <1>1, <2>1, OwnLocals DEF Sound
  <2>3. h.art \in 0..posted
    BY <2>2, HeaderFacts DEF Right
  <2>4. h.filetime \in Names /\ h.kind \in Kinds
    BY <2>2, HeaderFacts DEF Times0
  <2>5. QED
    BY <2>1, <2>3, <2>4
<1>6. file' \in [Kinds -> [Names -> 0..posted]]
  BY <1>1, <1>5, FileIs DEF EditSave
<1>7. Sane
  BY <1>1, <1>6, SaneFiles DEF EditSave, Typed
<1>8. BaseInv' /\ Inherits(p)
  BY <1>3, <1>4, <1>7, AfterBase
<1>9. QED
  BY <1>1, <1>2, <1>4, <1>5, <1>8

LEMMA EditEnterStep ==
    ASSUME BaseInv, NEW p \in Procs, EditEnter(p)
    PROVE  /\ After(p, "enter", loc[p]) /\ Left(p) = {"enter", "stat", "total", "store"}
           /\ hist' = hist
           /\ \/ list' = list
              \/ \E i, h : Marked(i, h) /\ h.digest = list["dir"][i].digest
           /\ BaseInv' /\ Inherits(p)
<1>1. Typed /\ At(p, "enter") /\ Left(p) = {"enter", "stat", "total", "store"} /\ hist' = hist
  BY LeftIs DEF EditEnter, BaseInv
<1>2. After(p, "enter", loc[p])
  BY <1>1, OwnLocals, DoneIs DEF EditEnter
<1>3. CASE loc[p].view = "digest" \/ Seen(p) = 0
  <2>1. list' = list
    BY <1>3 DEF EditEnter
  <2>2. Sane
    BY <1>1, <2>1, SaneKept DEF EditEnter, Typed, board
  <2>3. QED
    BY <1>1, <1>2, <2>1, <2>2, OwnLocals, AfterBase
<1>4. CASE ~(loc[p].view = "digest" \/ Seen(p) = 0)
  <2>1. PICK i : i = Seen(p)
    OBVIOUS
  <2>2. loc[p].view = "dir"
    BY <1>1, <1>4, OwnLocals DEF Sound
  <2>3. i \in DOMAIN list["dir"] /\ list["dir"] \in Seq(Header) /\ list["dir"][i] \in Header
    BY <1>1, <1>4, <2>1, <2>2, SeenIs, HeaderIs DEF Typed, Lists
  <2>4. PICK g, e : g = list["dir"][i] /\ e = loc[p].fh.edittime
    OBVIOUS
  <2>5. PICK h : h = [g EXCEPT !.edittime = e]
    OBVIOUS
  <2>6. Amended(h, g) /\ h.digest = g.digest
    <3>1. e \in Nat
      BY <2>4, OwnLocals DEF Header
    <3>2. QED
      BY <2>3, <2>4, <2>5, <3>1 DEF Amended, Header
  <2>7. list' = [list EXCEPT !["dir"][i] = h]
    BY <1>4, <2>1, <2>4, <2>5 DEF EditEnter
  <2>8. /\ Marked(i, h)
        /\ list' \in [Lists -> Seq(Header)] /\ ListInv' /\ \A m \in Lists : ListStems(m)
    BY <2>3, <2>4, <2>6, <2>7, AmendLine DEF Marked
  <2>9. Sane
    BY <1>1, <2>8, SaneIs DEF EditEnter, Typed
  <2>10. BaseInv' /\ Inherits(p)
    BY <1>2, <2>9, OwnLocals, AfterBase
  <2>11. QED
    BY <1>1, <1>2, <2>4, <2>6, <2>8, <2>10
<1>5. QED
  BY <1>3, <1>4

-----------------------------------------------------------------------------
(* The requests of the web. *)
LEMMA FoundByName ==
    ASSUME Typed, NEW t \in Times("dir"),
           Search_Bin(list["dir"], t, 0, Len(list["dir"]) - 1) + 1 > 0
    PROVE  LET i == Search_Bin(list["dir"], t, 0, Len(list["dir"]) - 1) + 1
           IN  i \in DOMAIN list["dir"] /\ list["dir"][i].filetime = t
<1>1. list["dir"] \in Seq(Header)
  BY DEF Typed, Lists
<1>2. PICK n : n = Len(list["dir"])
  OBVIOUS
<1>3. DOMAIN list["dir"] = 1..n /\ n \in Nat
  BY <1>1, <1>2, HeaderIs
<1>4. n \in 1..Len(list["dir"])
  BY <1>2, <1>3 DEF Times
<1>5. PICK r : r = Search_Bin(list["dir"], t, 0, n - 1)
  OBVIOUS
<1>6. r \in Int /\ (r >= 0 => r + 1 \in 1..n /\ list["dir"][r + 1].filetime = t)
  BY <1>1, <1>4, <1>5, SearchIs
<1>7. r + 1 > 0
  BY <1>2, <1>5
<1>8. r + 1 \in DOMAIN list["dir"] /\ list["dir"][r + 1].filetime = t
  BY <1>3, <1>6, <1>7
<1>9. QED
  BY <1>2, <1>5, <1>8

LEMMA DoSetStep ==
    ASSUME BaseInv, NEW p \in Procs, do_set(p)
    PROVE  /\ Starts(p, <<>>, loc[p]) /\ Left(p)' = {}
           /\ \E i, h, c : /\ Marked(i, h) /\ Cross(c) /\ c \subseteq Names \cup {0}
                           /\ h.edittime = list["dir"][i].edittime
                           /\ h.digest = list["dir"][i].digest
                                  \/ list["dir"][i].filetime \in c
           /\ BaseInv' /\ Inherits(p)
<1>1. Typed /\ list["dir"] \in Seq(Header)
  BY DEF BaseInv, Typed, Lists
<1>2. PICK t \in Times("dir"), flags \in {"marked", "digest", "del", "none"} :
         LET i == Search_Bin(list["dir"], t, 0, Len(list["dir"]) - 1) + 1
             fh == list["dir"][i]
         IN  /\ i > 0
             /\ list' = [list EXCEPT !["dir"][i] =
                    IF flags = "none"
                    THEN [fh EXCEPT !.marked = FALSE, !.digest = FALSE, !.del = FALSE]
                    ELSE [fh EXCEPT ![flags] = TRUE]]
             /\ Cross(IF flags \in {"digest", "none"} THEN {t} ELSE {})
  BY DEF do_set
<1>3. PICK i : i = Search_Bin(list["dir"], t, 0, Len(list["dir"]) - 1) + 1
  OBVIOUS
<1>4. i \in DOMAIN list["dir"] /\ list["dir"][i].filetime = t
  BY <1>1, <1>2, <1>3, FoundByName
<1>5. PICK g, c : g = list["dir"][i] /\ c = IF flags \in {"digest", "none"} THEN {t} ELSE {}
  OBVIOUS
<1>6. PICK h : h = IF flags = "none"
                   THEN [g EXCEPT !.marked = FALSE, !.digest = FALSE, !.del = FALSE]
                   ELSE [g EXCEPT ![flags] = TRUE]
  OBVIOUS
<1>7. g \in Header
  BY <1>1, <1>4, <1>5, HeaderIs
<1>8. Amended(h, g) /\ h.edittime = g.edittime /\ (h.digest = g.digest \/ t \in c)
  <2>1. CASE flags = "none"
    BY <1>5, <1>6, <1>7, <2>1 DEF Header, Amended
  <2>2. CASE flags = "marked"
    BY <1>5, <1>6, <1>7, <2>2 DEF Header, Amended
  <2>3. CASE flags = "digest"
    BY <1>5, <1>6, <1>7, <2>3 DEF Header, Amended
  <2>4. CASE flags = "del"
    BY <1>5, <1>6, <1>7, <2>4 DEF Header, Amended
  <2>5. QED
    BY <2>1, <2>2, <2>3, <2>4
<1>9. list' = [list EXCEPT !["dir"][i] = h] /\ Cross(c)
  BY <1>2, <1>3, <1>5, <1>6
<1>10. /\ Marked(i, h)
       /\ list' \in [Lists -> Seq(Header)] /\ ListInv' /\ \A m \in Lists : ListStems(m)
  BY <1>4, <1>5, <1>8, <1>9, AmendLine DEF Marked
<1>11. c \subseteq Times0
  BY <1>1, <1>4, <1>5, <1>7, HeaderFacts
<1>12. hist' \in Marks
  BY <1>1, <1>9, <1>11, MarksAre
<1>13. Sane
  BY <1>10, <1>12, SaneIs DEF do_set
<1>14. <<>> \in Todos /\ ToSet(<<>>) = {}
  BY ElementsOf DEF Todos
<1>15. Starts(p, <<>>, loc[p]) /\ Sound(loc[p], {})
  BY <1>14, StaysIs DEF do_set
<1>16. BaseInv' /\ Inherits(p)
  BY <1>13, <1>14, <1>15, StaysBase
<1>17. QED
  BY <1>4, <1>5, <1>8, <1>9, <1>10, <1>11, <1>14, <1>15, <1>16 DEF Starts, Times0

(* The first line of a name. *)
FirstNamed(d, key) == SelectInSeq(d, LAMBDA fh : fh.filetime = key)

LEMMA FirstNamedIs ==
    ASSUME NEW d \in Seq(Header), NEW key
    PROVE  /\ FirstNamed(d, key) # 0 =>
                  FirstNamed(d, key) \in DOMAIN d /\ d[FirstNamed(d, key)].filetime = key
           /\ FirstNamed(d, key) = 0 => \A i \in DOMAIN d : d[i].filetime # key
BY FirstIs DEF FirstNamed

(* The line a request of the web has found. *)
Finds(p, l) ==
    /\ l \in Locals /\ l.new = Hole /\ l.from = {} /\ l.read = <<>> /\ l.start = 0
    /\ l.view = "dir" /\ l.ent \in DOMAIN list["dir"] /\ l.fh = list["dir"][l.ent]

LEMMA FindsBase ==
    ASSUME BaseInv, NEW p \in Procs, NEW s, NEW l, Starts(p, s, l), Finds(p, l),
           UNCHANGED <<board, cache, now, posted, hist>>,
           ToSet(s) \in {{"remove", "cancel", "stat", "total", "store"},
                         {"put", "stat", "total", "store"}}
    PROVE  BaseInv' /\ Inherits(p)
<1>1. Typed /\ ListInv /\ list["dir"] \in Seq(Header)
  BY DEF BaseInv, Typed, Lists
<1>2. Sane
  BY <1>1, SaneKept DEF Typed
<1>3. Stems(l.fh) /\ DOMAIN l.read = {}
  BY <1>1, PublicIs, StemsSelf DEF Finds, Lists
<1>4. l.fh.kind = "M" /\ l.ent > 0
  BY <1>1, HeaderIs DEF Finds, ListInv, Articled
<1>5. Sound(l, ToSet(s))
  BY <1>3, <1>4 DEF Sound, Finds, Removed
<1>6. Right(l.new, posted') /\ l.start <= now
  BY RightNew, OwnLocals DEF Sane, Finds
<1>7. QED
  BY <1>2, <1>3, <1>5, <1>6, StartsBase

LEMMA FoundIs ==
    ASSUME Typed, NEW p \in Procs, NEW i \in DOMAIN list["dir"],
           loc' = [loc EXCEPT ![p] = [NoLocals EXCEPT !.ent = i, !.fh = list["dir"][i]]]
    PROVE  \E l : Finds(p, l) /\ l.ent = i /\ loc' = [loc EXCEPT ![p] = l]
<1>1. list["dir"] \in Seq(Header) /\ i \in Nat /\ list["dir"][i] \in Header
  BY HeaderIs DEF Typed, Lists
<1>2. PICK h : h = list["dir"][i]
  OBVIOUS
<1>3. PICK l : l = [NoLocals EXCEPT !.ent = i, !.fh = h]
  OBVIOUS
<1>4. l \in Locals
  BY <1>1, <1>2, <1>3, NoLocalsTyped DEF Locals
<1>5. /\ l.new = Hole /\ l.from = {} /\ l.read = <<>> /\ l.start = 0
      /\ l.ent = i /\ l.view = "dir" /\ l.fh = h
  BY <1>3 DEF NoLocals
<1>6. loc' = [loc EXCEPT ![p] = l]
  BY <1>2, <1>3
<1>7. QED
  BY <1>2, <1>4, <1>5, <1>6 DEF Finds

LEMMA WebFindStep ==
    ASSUME BaseInv, NEW p \in Procs, WebFind(p)
    PROVE  /\ \E l, s : /\ Starts(p, s, l) /\ Finds(p, l)
                        /\ ToSet(s) \in {{"remove", "cancel", "stat", "total", "store"},
                                         {"put", "stat", "total", "store"}}
           /\ BaseInv' /\ Inherits(p)
<1>1. Typed /\ list["dir"] \in Seq(Header)
  BY DEF BaseInv, Typed, Lists
<1>2. PICK t \in Times("dir") :
         \/ LET i == Search_Bin(list["dir"], t, 0, Len(list["dir"]) - 1) + 1
            IN  /\ i > 0
                /\ Begin(p, "webdel", <<"remove", "cancel">> \o update)
                /\ loc' = [loc EXCEPT ![p] = [NoLocals EXCEPT
                               !.ent = i, !.fh = list["dir"][i]]]
         \/ LET i == SelectInSeq(list["dir"], LAMBDA fh : fh.filetime = t)
            IN  /\ t \in Names /\ file["M"][t] # 0
                /\ Begin(p, "webedit", <<"put">> \o update)
                /\ loc' = [loc EXCEPT ![p] = [NoLocals EXCEPT
                               !.ent = i, !.fh = list["dir"][i]]]
  BY DEF WebFind
<1>3. UNCHANGED <<board, cache, now, posted, hist>>
  BY DEF WebFind
<1>4. PICK i, s, job : /\ i \in DOMAIN list["dir"] /\ s \in Todos /\ Begin(p, job, s)
                       /\ loc' = [loc EXCEPT ![p] = [NoLocals EXCEPT
                               !.ent = i, !.fh = list["dir"][i]]]
                       /\ ToSet(s) \in {{"remove", "cancel", "stat", "total", "store"},
                                        {"put", "stat", "total", "store"}}
  <2>1. CASE LET i == Search_Bin(list["dir"], t, 0, Len(list["dir"]) - 1) + 1
             IN  /\ i > 0
                 /\ Begin(p, "webdel", <<"remove", "cancel">> \o update)
                 /\ loc' = [loc EXCEPT ![p] = [NoLocals EXCEPT
                                !.ent = i, !.fh = list["dir"][i]]]
    <3>1. PICK i : i = Search_Bin(list["dir"], t, 0, Len(list["dir"]) - 1) + 1
      OBVIOUS
    <3>2. i \in DOMAIN list["dir"]
      BY <1>1, <2>1, <3>1, FoundByName
    <3>3. PICK s : s = <<"remove", "cancel", "stat", "total", "store">>
      OBVIOUS
    <3>4. s \in Todos /\ ToSet(s) = {"remove", "cancel", "stat", "total", "store"}
      BY <3>3, ElementsOf DEF Todos
    <3>5. Begin(p, "webdel", s)
      BY <2>1, <3>3, StepsAre
    <3>6. loc' = [loc EXCEPT ![p] = [NoLocals EXCEPT !.ent = i, !.fh = list["dir"][i]]]
      BY <2>1, <3>1
    <3>7. QED
      BY <3>2, <3>4, <3>5, <3>6
  <2>2. CASE LET i == SelectInSeq(list["dir"], LAMBDA fh : fh.filetime = t)
             IN  /\ t \in Names /\ file["M"][t] # 0
                 /\ Begin(p, "webedit", <<"put">> \o update)
                 /\ loc' = [loc EXCEPT ![p] = [NoLocals EXCEPT
                                !.ent = i, !.fh = list["dir"][i]]]
    <3>1. PICK i : i = FirstNamed(list["dir"], t)
      OBVIOUS
    <3>2. i \in DOMAIN list["dir"]
      <4>1. i # 0 => i \in DOMAIN list["dir"] /\ list["dir"][i].filetime = t
        BY <1>1, <3>1, FirstNamedIs
      <4>2. i = 0 => \A j \in DOMAIN list["dir"] : list["dir"][j].filetime # t
        BY <1>1, <3>1, FirstNamedIs
      <4>3. QED
        BY <4>1, <4>2 DEF Times
    <3>3. PICK s : s = <<"put", "stat", "total", "store">>
      OBVIOUS
    <3>4. s \in Todos /\ ToSet(s) = {"put", "stat", "total", "store"}
      BY <3>3, ElementsOf DEF Todos
    <3>5. Begin(p, "webedit", s)
      BY <2>2, <3>3, StepsAre
    <3>6. loc' = [loc EXCEPT ![p] = [NoLocals EXCEPT !.ent = i, !.fh = list["dir"][i]]]
      BY <2>2, <3>1 DEF FirstNamed
    <3>7. QED
      BY <3>2, <3>4, <3>5, <3>6
  <2>3. QED
    BY <1>2, <2>1, <2>2
<1>5. PICK l : Finds(p, l) /\ loc' = [loc EXCEPT ![p] = l]
  BY <1>1, <1>4, FoundIs
<1>6. Starts(p, s, l)
  BY <1>1, <1>4, <1>5, BeginIs DEF Finds
<1>7. QED
  BY <1>3, <1>4, <1>5, <1>6, FindsBase

LEMMA UnderPenIs ==
    ASSUME Typed, NEW p \in Procs
    PROVE  /\ UnderPen(p) \subseteq Files0
           /\ \A f : f \in UnderPen(p) <=>
                  /\ loc[p].ent \in DOMAIN list[loc[p].view]
                  /\ f = FileOf(list[loc[p].view][loc[p].ent]) /\ f # FileOf(loc[p].fh)
<1>1. loc[p].view \in Lists
  BY DEF Typed, Locals
<1>2. \A i \in DOMAIN list[loc[p].view] : FileOf(list[loc[p].view][i]) \in Files0
  BY <1>1, HeaderIs, HeaderFacts DEF Typed
<1>3. QED
  BY <1>2 DEF UnderPen

LEMMA WebRemoveStep ==
    ASSUME BaseInv, NEW p \in Procs, WebRemove(p)
    PROVE  /\ After(p, "remove", loc[p]) /\ loc[p].view = "dir" /\ loc[p].ent > 0
           /\ Left(p) = {"remove", "cancel", "stat", "total", "store"}
           /\ Drop(UnderPen(p))
           /\ \/ list' = list /\ loc[p].ent \notin DOMAIN list["dir"]
              \/ /\ loc[p].ent \in DOMAIN list["dir"]
                 /\ Changes("dir", RemoveAt(list["dir"], loc[p].ent))
           /\ BaseInv' /\ Inherits(p)
<1>1. Typed /\ At(p, "remove") /\ Left(p) = {"remove", "cancel", "stat", "total", "store"}
  BY LeftIs DEF WebRemove, BaseInv
<1>2. After(p, "remove", loc[p]) /\ loc[p].view = "dir" /\ loc[p].ent > 0
  BY <1>1, OwnLocals, DoneIs DEF WebRemove, Sound
<1>3. Drop(UnderPen(p)) /\ hist' \in Marks
  BY <1>1, UnderPenIs, MarksAre DEF WebRemove
<1>4. PICK i, n : i = loc[p].ent /\ n = Len(list["dir"])
  OBVIOUS
<1>5. DOMAIN list["dir"] = 1..n /\ n \in Nat /\ i \in Nat /\ "dir" \in Lists
  BY <1>1, <1>4, OwnLocals, HeaderIs DEF Typed, Lists
<1>6. CASE i > n
  <2>1. list' = list
    BY <1>4, <1>6 DEF WebRemove
  <2>2. Sane
    BY <1>3, <2>1, SaneKept DEF WebRemove, board
  <2>3. i \notin DOMAIN list["dir"]
    BY <1>5, <1>6
  <2>4. QED
    BY <1>1, <1>2, <1>3, <1>4, <2>1, <2>2, <2>3, OwnLocals, AfterBase
<1>7. CASE ~(i > n)
  <2>1. i \in DOMAIN list["dir"]
    BY <1>2, <1>4, <1>5, <1>7
  <2>2. Put("dir", RemoveAt(list["dir"], i))
    BY <1>4, <1>7 DEF WebRemove
  <2>3. /\ Changes("dir", RemoveAt(list["dir"], i))
        /\ list' \in [Lists -> Seq(Header)] /\ ListInv' /\ \A l \in Lists : ListStems(l)
    BY <1>5, <2>1, <2>2, RemoveLine
  <2>4. Sane
    BY <1>3, <2>3, SaneIs DEF WebRemove
  <2>5. BaseInv' /\ Inherits(p)
    BY <1>2, <2>4, OwnLocals, AfterBase
  <2>6. QED
    BY <1>1, <1>2, <1>3, <1>4, <2>1, <2>3, <2>5
<1>8. QED
  BY <1>6, <1>7

(* The line p writes back, with the time of the edit. *)
Rewrites(p, h) == h = [loc[p].fh EXCEPT !.edittime = now]

LEMMA PutRecordStep ==
    ASSUME BaseInv, NEW p \in Procs, put_record(p)
    PROVE  /\ After(p, "put", loc[p]) /\ loc[p].view = "dir" /\ loc[p].ent > 0
           /\ loc[p].fh \in Header /\ loc[p].fh.kind = "M"
           /\ Left(p) = {"put", "stat", "total", "store"}
           /\ \E h : /\ Rewrites(p, h) /\ Amended(h, loc[p].fh) /\ h.digest = loc[p].fh.digest
                     /\ Changes("dir", substitute_record(list["dir"], h, loc[p].ent, Hole))
           /\ hist'.crossed = IF /\ loc[p].ent \in DOMAIN list["dir"]
                                 /\ list["dir"][loc[p].ent] = loc[p].fh
                              THEN hist.crossed ELSE hist.crossed \cup {loc[p].fh.filetime}
           /\ hist'.dropped = hist.dropped \cup UnderPen(p)
           /\ hist'.freed = hist.freed /\ hist'.stale = hist.stale /\ hist'.behind = hist.behind
           /\ BaseInv' /\ Inherits(p)
<1>1. Typed /\ At(p, "put") /\ Left(p) = {"put", "stat", "total", "store"}
  BY LeftIs DEF put_record, BaseInv
<1>2. After(p, "put", loc[p]) /\ loc[p].view = "dir" /\ loc[p].ent > 0
      /\ loc[p].fh \in Header /\ loc[p].fh.kind = "M"
  BY <1>1, OwnLocals, DoneIs DEF put_record, Sound
<1>3. PICK h : Rewrites(p, h) /\ Put("dir", substitute_record(list["dir"], h, loc[p].ent, Hole))
  BY DEF put_record, Rewrites
<1>4. h \in Header /\ Amended(h, loc[p].fh) /\ h.digest = loc[p].fh.digest
  BY <1>2, <1>3, OwnLocals DEF Rewrites, Amended, Header
<1>5. Stems(h)
  <2>1. loc[p].fh \in Public
    BY <1>1, PublicIs DEF Holds
  <2>2. QED
    BY <1>4, <2>1 DEF Stems, Amended
<1>6. /\ Changes("dir", substitute_record(list["dir"], h, loc[p].ent, Hole))
      /\ list' \in [Lists -> Seq(Header)] /\ ListInv' /\ \A m \in Lists : ListStems(m)
  <2>1. h.kind = "M" /\ "dir" \notin Removed /\ "dir" \in Lists /\ loc[p].ent \in Nat
    BY <1>2, <1>4, OwnLocals DEF Amended, Removed, Lists
  <2>2. QED
    BY <1>2, <1>3, <1>4, <1>5, <2>1, WriteLine
<1>7. PICK c, d : /\ c = IF /\ loc[p].ent \in DOMAIN list["dir"]
                            /\ list["dir"][loc[p].ent] = loc[p].fh
                         THEN hist.crossed ELSE hist.crossed \cup {loc[p].fh.filetime}
                  /\ d = hist.dropped \cup UnderPen(p)
  OBVIOUS
<1>8. hist' = [hist EXCEPT !.crossed = c, !.dropped = d]
  BY <1>7 DEF put_record
<1>9. hist \in Marks /\ c \subseteq Times0 /\ d \subseteq Files0
  BY <1>1, <1>2, <1>7, UnderPenIs, HeaderFacts DEF Typed, Marks
<1>10. /\ hist' \in Marks /\ hist'.crossed = c /\ hist'.dropped = d
       /\ hist'.freed = hist.freed /\ hist'.stale = hist.stale /\ hist'.behind = hist.behind
  BY <1>8, <1>9 DEF Marks
<1>11. Sane
  BY <1>6, <1>10, SaneIs DEF put_record
<1>12. BaseInv' /\ Inherits(p)
  BY <1>2, <1>11, OwnLocals, AfterBase
<1>13. QED
  BY <1>1, <1>2, <1>3, <1>4, <1>6, <1>7, <1>10, <1>12

(* The line without its name. *)
Blank(h) == [h EXCEPT !.filetime = 0]

LEMMA BlankIs ==
    ASSUME NEW h \in Header
    PROVE  /\ Blank(h) \in Header /\ Blank(h).filetime = 0 /\ Blank(h).art = h.art
           /\ Blank(h).kind = h.kind /\ Blank(h).digest = h.digest
BY NamesAre DEF Blank, Header, Times0

LEMMA StrikeStep ==
    ASSUME BaseInv, NEW p \in Procs, Strike(p)
    PROVE  /\ After(p, "strike", loc[p]) /\ Left(p) = {"strike"}
           /\ loc[p].view \in Removed /\ loc[p].ent > 0 /\ Drop(UnderPen(p))
           /\ Changes(loc[p].view, substitute_record(list[loc[p].view], Blank(loc[p].fh),
                                                     loc[p].ent, Hole))
           /\ BaseInv' /\ Inherits(p)
<1>1. Typed /\ At(p, "strike") /\ Left(p) = {"strike"} /\ loc[p].fh \in Header
  BY LeftIs, OwnLocals DEF Strike, BaseInv
<1>2. After(p, "strike", loc[p]) /\ loc[p].view \in Removed /\ loc[p].ent > 0 /\ ~loc[p].fh.digest
  BY <1>1, OwnLocals, DoneIs DEF Strike, Sound
<1>3. PICK l, h : l = loc[p].view /\ h = Blank(loc[p].fh)
  OBVIOUS
<1>4. Put(l, substitute_record(list[l], h, loc[p].ent, Hole))
  BY <1>3 DEF Strike, Blank
<1>5. h \in Header /\ h.filetime = 0 /\ h.art = loc[p].fh.art /\ h.kind = loc[p].fh.kind /\ ~h.digest
  BY <1>1, <1>2, <1>3, BlankIs
<1>6. Stems(h)
  <2>1. loc[p].fh \in Public
    BY <1>1, PublicIs DEF Holds
  <2>2. QED
    BY <1>5, <2>1 DEF Stems
<1>7. /\ Changes(l, substitute_record(list[l], h, loc[p].ent, Hole))
      /\ list' \in [Lists -> Seq(Header)] /\ ListInv' /\ \A m \in Lists : ListStems(m)
  <2>1. l \in Lists /\ l # "dir" /\ loc[p].ent \in Nat
    BY <1>2, <1>3, OwnLocals DEF Removed
  <2>2. QED
    BY <1>2, <1>4, <1>5, <1>6, <2>1, WriteLine
<1>8. Drop(UnderPen(p)) /\ hist' \in Marks
  BY <1>1, UnderPenIs, MarksAre DEF Strike
<1>9. Sane
  BY <1>7, <1>8, SaneIs DEF Strike
<1>10. BaseInv' /\ Inherits(p)
  BY <1>2, <1>9, OwnLocals, AfterBase
<1>11. QED
  BY <1>1, <1>2, <1>3, <1>7, <1>8, <1>10

-----------------------------------------------------------------------------
(* Deletions of a range. *)
Ranges(p, l) ==
    /\ Starts(p, <<"range", "stat", "total", "store">>, l)
    /\ l.new = Hole /\ l.from = {} /\ l.start = 0 /\ l.fh = Hole /\ l.at = 0
    /\ l.view \in {"dir", "digest"} /\ l.read = list[l.view]
    /\ lock[l.view] = Nobody /\ lock' = [lock EXCEPT ![l.view] = p]

LEMMA RangeLockStep ==
    ASSUME BaseInv, NEW p \in Procs, RangeLock(p)
    PROVE  /\ \E l : Ranges(p, l)
           /\ BaseInv' /\ Inherits(p)
<1>1. PICK v \in {"dir", "digest"} : \E i, j \in DOMAIN list[v] \cup {0} :
         /\ (i = 0 /\ j = 0) \/ (i > 0 /\ j - i > 1)
         /\ Free(v)
         /\ lock' = [lock EXCEPT ![v] = p]
         /\ loc' = [loc EXCEPT ![p] = [NoLocals EXCEPT !.view = v,
                        !.read = list[v], !.sel = IF i = 0 THEN {} ELSE i..j]]
  BY DEF RangeLock
<1>2. PICK i, j \in DOMAIN list[v] \cup {0} :
         /\ Free(v)
         /\ lock' = [lock EXCEPT ![v] = p]
         /\ loc' = [loc EXCEPT ![p] = [NoLocals EXCEPT !.view = v,
                        !.read = list[v], !.sel = IF i = 0 THEN {} ELSE i..j]]
  BY <1>1
<1>3. Typed /\ ListInv /\ v \in Lists /\ list[v] \in Seq(Header) /\ DOMAIN list[v] \subseteq Nat
  <2>1. Typed /\ ListInv /\ v \in Lists /\ list[v] \in Seq(Header)
    BY DEF BaseInv, Typed, Lists
  <2>2. QED
    BY <2>1, HeaderIs
<1>4. PICK d, sel : d = list[v] /\ sel = IF i = 0 THEN {} ELSE i..j
  OBVIOUS
<1>5. sel \subseteq Nat
  <2>1. i \in Nat /\ j \in Nat
    BY <1>3
  <2>2. QED
    BY <1>4, <2>1
<1>6. PICK l : l = [NoLocals EXCEPT !.view = v, !.read = d, !.sel = sel]
  OBVIOUS
<1>7. l \in Locals
  BY <1>3, <1>4, <1>5, <1>6, NoLocalsTyped DEF Locals
<1>8. /\ l.new = Hole /\ l.from = {} /\ l.start = 0 /\ l.fh = Hole /\ l.at = 0
      /\ l.view = v /\ l.read = d /\ l.sel = sel
  BY <1>6 DEF NoLocals
<1>9. loc' = [loc EXCEPT ![p] = l]
  BY <1>2, <1>4, <1>6
<1>10. PICK s : s = <<"range", "stat", "total", "store">>
  OBVIOUS
<1>11. s \in Todos /\ ToSet(s) = {"range", "stat", "total", "store"}
  BY <1>10, ElementsOf DEF Todos
<1>12. Begin(p, "range", s)
  BY <1>10, StepsAre DEF RangeLock
<1>13. Starts(p, s, l)
  BY <1>3, <1>7, <1>9, <1>11, <1>12, BeginIs
<1>14. lock' \in [{"dir", "digest"} -> Procs \cup {Nobody}] /\ lock[v] = Nobody
  BY <1>2, <1>3 DEF Typed, Free
<1>15. Ranges(p, l)
  BY <1>2, <1>4, <1>8, <1>10, <1>13, <1>14 DEF Ranges
<1>16. Sane
  BY <1>3, <1>14, ListsKept DEF RangeLock, Typed, Sane, cache
<1>17. Stems(l.fh) /\ \A k \in DOMAIN l.read : Stems(l.read[k])
  BY <1>3, <1>4, <1>8, PublicIs, StemsSelf DEF Stems
<1>18. Sound(l, ToSet(s))
  <2>1. Hole.kind = "M" /\ v \notin Removed
    BY DEF Hole, NewLine, Removed
  <2>2. v = "dir" => \A k \in DOMAIN l.read : l.read[k].kind = "M"
    BY <1>3, <1>4, <1>8 DEF ListInv, Articled
  <2>3. QED
    BY <1>8, <1>11, <2>1, <2>2 DEF Sound
<1>19. Right(l.new, posted') /\ l.start <= now
  BY <1>8, RightNew, OwnLocals DEF RangeLock, Sane
<1>20. BaseInv' /\ Inherits(p)
  BY <1>13, <1>16, <1>17, <1>18, <1>19, StartsBase
<1>21. QED
  BY <1>15, <1>20

(* The next selected line goes to .DELETED. *)
Cancels(p, i) ==
    /\ i \in Ahead(p) /\ \A j \in Ahead(p) : i <= j
    /\ i \in DOMAIN loc[p].read
    /\ Changes("deleted", Append(list["deleted"], Trash(loc[p].read[i])))
    /\ Walked(p) /\ todo' = todo /\ Left(p)' = Left(p)
    /\ loc' = [loc EXCEPT ![p].at = i]

LEMMA RangeCancelStep ==
    ASSUME BaseInv, NEW p \in Procs, RangeCancel(p)
    PROVE  /\ Left(p) = {"range", "stat", "total", "store"}
           /\ \E i : Cancels(p, i)
           /\ BaseInv' /\ Inherits(p)
<1>1. Typed /\ At(p, "range") /\ Left(p) = {"range", "stat", "total", "store"}
  BY LeftIs DEF RangeCancel, BaseInv
<1>2. PICK i \in Ahead(p) :
         /\ \A j \in Ahead(p) : i <= j
         /\ Put("deleted", Append(list["deleted"], Trash(loc[p].read[i])))
         /\ loc' = [loc EXCEPT ![p].at = i]
  BY DEF RangeCancel
<1>3. i \in DOMAIN loc[p].read /\ i \in Nat /\ loc[p].read[i] \in Header
  <2>1. i \in DOMAIN loc[p].read
    BY DEF Ahead, Selected
  <2>2. QED
    BY <2>1, OwnLocals, HeaderIs
<1>4. PICK g, h : g = loc[p].read[i] /\ h = Trash(g)
  OBVIOUS
<1>5. /\ h \in Header /\ ~h.digest /\ h.filetime = g.filetime /\ h.art = g.art /\ h.kind = g.kind
  BY <1>3, <1>4, TrashIs
<1>6. Stems(h)
  <2>1. g \in Public
    BY <1>1, <1>3, <1>4, PublicIs DEF Holds
  <2>2. QED
    BY <1>5, <2>1 DEF Stems
<1>7. /\ Changes("deleted", Append(list["deleted"], h))
      /\ list' \in [Lists -> Seq(Header)] /\ ListInv' /\ \A m \in Lists : ListStems(m)
  BY <1>2, <1>4, <1>5, <1>6, EnterLine DEF Lists
<1>8. PICK l : l = [loc[p] EXCEPT !.at = i]
  OBVIOUS
<1>9. /\ l \in Locals /\ l.view = loc[p].view /\ l.ent = loc[p].ent /\ l.fh = loc[p].fh
      /\ l.new = loc[p].new /\ l.into = loc[p].into /\ l.from = loc[p].from
      /\ l.read = loc[p].read /\ l.start = loc[p].start
  <2>1. PICK m : m = loc[p] /\ m \in Locals
    BY OwnLocals
  <2>2. QED
    BY <1>3, <1>8, <2>1 DEF Locals
<1>10. loc' = [loc EXCEPT ![p] = l]
  BY <1>2, <1>8
<1>11. loc' \in [Procs -> Locals] /\ loc'[p] = l /\ \A q \in Procs \ {p} : loc'[q] = loc[q]
  BY <1>1, <1>9, <1>10 DEF Typed
<1>12. todo' = todo
  BY DEF RangeCancel
<1>13. Walked(p) /\ Left(p)' = Left(p)
  BY <1>1, <1>11, <1>12 DEF Walked, Alone, Left, Typed
<1>14. Cancels(p, i)
  BY <1>2, <1>3, <1>4, <1>7, <1>12, <1>13 DEF Cancels
<1>15. Sane
  BY <1>1, <1>7, SaneIs DEF RangeCancel, Typed
<1>16. Stems(l.fh) /\ \A k \in DOMAIN l.read : Stems(l.read[k])
  BY <1>1, <1>9, OwnStems
<1>17. Sound(l, Left(p))
  BY <1>9, OwnLocals DEF Sound
<1>18. Right(l.new, posted') /\ l.start <= now
  BY <1>9, OwnLocals DEF RangeCancel
<1>19. BaseInv' /\ Inherits(p)
  BY <1>11, <1>13, <1>15, <1>16, <1>17, <1>18, BaseStep
<1>20. QED
  BY <1>1, <1>14, <1>19

LEMMA RangeEndStep ==
    ASSUME BaseInv, NEW p \in Procs, RangeEnd(p),
           Len(loc[p].read) = Len(list[loc[p].view])
    PROVE  /\ After(p, "range", loc[p]) /\ Left(p) = {"range", "stat", "total", "store"}
           /\ loc[p].view \in {"dir", "digest"} /\ Ahead(p) = {}
           /\ lock' = [lock EXCEPT ![loc[p].view] = Nobody]
           /\ Cross(IF loc[p].view = "dir" THEN {}
                    ELSE {loc[p].read[i].filetime : i \in Selected(p)})
           /\ \E r, e : /\ Changes(loc[p].view, r) /\ r \in Seq(Header)
                        /\ r = Rewritten(list[loc[p].view], loc[p].read, Selected(p))
                        /\ Thinned(r, list[loc[p].view], loc[p].read, Selected(p), e)
           /\ BaseInv' /\ Inherits(p)
<1>1. Typed /\ At(p, "range") /\ Left(p) = {"range", "stat", "total", "store"}
  BY LeftIs DEF RangeEnd, BaseInv
<1>2. After(p, "range", loc[p]) /\ loc[p].view \in {"dir", "digest"}
  BY <1>1, OwnLocals, DoneIs DEF RangeEnd, Sound
<1>3. PICK l, read, gone : l = loc[p].view /\ read = loc[p].read /\ gone = Selected(p)
  OBVIOUS
<1>4. /\ l \in Lists /\ l \notin Removed /\ list[l] \in Seq(Header) /\ read \in Seq(Header)
      /\ gone \subseteq DOMAIN read /\ Len(read) = Len(list[l])
  BY <1>1, <1>2, <1>3, OwnLocals DEF Typed, Removed, Selected
<1>5. PICK r : r = Rewritten(list[l], read, gone)
  OBVIOUS
<1>6. r \in Seq(Header) /\ \E e : Thinned(r, list[l], read, gone, e)
  BY <1>4, <1>5, RewrittenThins
<1>7. PICK e : Thinned(r, list[l], read, gone, e)
  BY <1>6
<1>8. Put(l, r)
  BY <1>3, <1>5 DEF RangeEnd
<1>9. DOMAIN read = DOMAIN list[l]
  BY <1>4, HeaderIs
<1>10. \A i \in DOMAIN list[l] : Stems(read[i])
  BY <1>1, <1>3, <1>9, OwnStems
<1>11. l = "dir" => \A i \in DOMAIN list[l] : read[i].kind = "M"
  BY <1>3, <1>9, OwnLocals DEF Sound
<1>12. /\ Changes(l, r)
       /\ list' \in [Lists -> Seq(Header)] /\ ListInv' /\ \A m \in Lists : ListStems(m)
  BY <1>4, <1>6, <1>7, <1>8, <1>10, <1>11, ThinOut
<1>13. lock' = [lock EXCEPT ![l] = Nobody]
  BY <1>3 DEF RangeEnd
<1>14. lock' \in [{"dir", "digest"} -> Procs \cup {Nobody}]
  BY <1>1, <1>13 DEF Typed
<1>15. PICK c : c = IF l = "dir" THEN {} ELSE {read[i].filetime : i \in gone}
  OBVIOUS
<1>16. Cross(c)
  BY <1>3, <1>15 DEF RangeEnd
<1>17. c \subseteq Times0
  <2>1. \A i \in gone : read[i].filetime \in Times0
    BY <1>4, HeaderIs, HeaderFacts
  <2>2. QED
    BY <1>15, <2>1
<1>18. hist' \in Marks
  BY <1>1, <1>16, <1>17, MarksAre
<1>19. Sane
  BY <1>1, <1>12, <1>14, <1>18 DEF RangeEnd, Typed, Sane, cache
<1>20. BaseInv' /\ Inherits(p)
  BY <1>2, <1>19, OwnLocals, AfterBase
<1>21. QED
  BY <1>1, <1>2, <1>3, <1>5, <1>6, <1>7, <1>12, <1>13, <1>15, <1>16, <1>20 DEF RangeEnd

-----------------------------------------------------------------------------
(* Excerpts. *)
LEMMA DigestStep ==
    ASSUME BaseInv, NEW p \in Procs, Digest(p)
    PROVE  /\ loc[p].view = "dir" /\ loc[p].fh.filetime # 0
           /\ \E s : /\ Starts(p, s, loc[p])
                     /\ s = IF loc[p].fh.digest THEN <<"undigest", "unlink", "toggle">>
                            ELSE IF file["G"][loc[p].fh.filetime] # 0 THEN <<"toggle">>
                            ELSE <<"excerpt", "toggle">>
           /\ BaseInv' /\ Inherits(p)
<1>1. Typed /\ Sees(p, "digest") /\ loc[p].view = "dir" /\ loc[p].fh.filetime # 0
  BY OwnLocals, ShowsAre DEF Digest, Sees, BaseInv
<1>2. PICK t, s : /\ t = loc[p].fh.filetime
                  /\ s = IF loc[p].fh.digest THEN <<"undigest", "unlink", "toggle">>
                         ELSE IF file["G"][t] # 0 THEN <<"toggle">>
                         ELSE <<"excerpt", "toggle">>
  OBVIOUS
<1>3. s \in Todos /\ ToSet(s) \in {{"undigest", "unlink", "toggle"}, {"toggle"}, {"excerpt", "toggle"}}
  <2>1. s \in {<<"undigest", "unlink", "toggle">>, <<"toggle">>, <<"excerpt", "toggle">>}
    BY <1>2
  <2>2. CASE s = <<"undigest", "unlink", "toggle">>
    BY <2>2, ElementsOf DEF Todos
  <2>3. CASE s = <<"toggle">>
    BY <2>3, ElementsOf DEF Todos
  <2>4. CASE s = <<"excerpt", "toggle">>
    BY <2>4, ElementsOf DEF Todos
  <2>5. QED
    BY <2>1, <2>2, <2>3, <2>4
<1>4. Begin(p, "digest", s) /\ loc' = loc
  BY <1>2 DEF Digest
<1>5. Starts(p, s, loc[p]) /\ Sound(loc[p], {})
  BY <1>3, <1>4, StaysIs
<1>6. Sound(loc[p], ToSet(s))
  BY <1>1, <1>3, <1>5 DEF Sound, Removed
<1>7. PICK c : Cross(c) /\ c \in {{t}, {}}
  BY <1>2 DEF Digest
<1>8. hist' \in Marks
  <2>1. t \in Times0
    BY <1>2, OwnLocals, HeaderFacts
  <2>2. c \in SUBSET Times0
    BY <1>7, <2>1
  <2>3. QED
    BY <1>1, <1>7, <2>2, MarksAre
<1>9. Sane
  BY <1>8, SaneKept DEF Digest
<1>10. BaseInv' /\ Inherits(p)
  BY <1>5, <1>6, <1>9, StaysBase
<1>11. QED
  BY <1>1, <1>2, <1>5, <1>10

(* The line of an excerpt. *)
Cutting(h) == [NewLine(h.filetime, h.art) EXCEPT !.kind = "G", !.edittime = h.edittime]

LEMMA CuttingIs ==
    ASSUME NEW h \in Header
    PROVE  /\ Cutting(h) \in Header /\ Cutting(h).filetime = h.filetime
           /\ Cutting(h).art = h.art /\ Cutting(h).kind = "G"
BY DEF Cutting, NewLine, Header, Kinds

LEMMA ExcerptStep ==
    ASSUME BaseInv, NEW p \in Procs, Excerpt(p)
    PROVE  /\ After(p, "excerpt", loc[p]) /\ Left(p) = {"excerpt", "toggle"}
           /\ loc[p].fh.filetime # 0
           /\ Changes("digest", Append(list["digest"], Cutting(loc[p].fh)))
           /\ BaseInv' /\ Inherits(p)
<1>1. Typed /\ At(p, "excerpt") /\ Left(p) = {"excerpt", "toggle"}
  BY LeftIs DEF Excerpt, BaseInv
<1>2. After(p, "excerpt", loc[p]) /\ loc[p].fh \in Header /\ loc[p].fh.filetime # 0
  BY <1>1, OwnLocals, DoneIs DEF Excerpt, Sound
<1>3. PICK h : h = Cutting(loc[p].fh)
  OBVIOUS
<1>4. h \in Header /\ h.filetime = loc[p].fh.filetime /\ h.art = loc[p].fh.art /\ h.kind = "G"
  BY <1>2, <1>3, CuttingIs
<1>5. Put("digest", Append(list["digest"], h))
  BY <1>3 DEF Excerpt, Cutting
<1>6. Stems(h)
  <2>1. loc[p].fh \in Public
    BY <1>1, PublicIs DEF Holds
  <2>2. QED
    BY <1>4, <2>1 DEF Stems
<1>7. /\ Changes("digest", Append(list["digest"], h))
      /\ list' \in [Lists -> Seq(Header)] /\ ListInv' /\ \A m \in Lists : ListStems(m)
  <2>1. "digest" \in Lists /\ "digest" \notin Removed
    BY DEF Lists, Removed
  <2>2. QED
    BY <1>4, <1>5, <1>6, <2>1, EnterLine
<1>8. file' \in [Kinds -> [Names -> 0..posted]]
  <2>1. PICK t, a : /\ t = loc[p].fh.filetime
                    /\ a = IF file["G"][t] = 0 THEN file["M"][t] ELSE file["G"][t]
    OBVIOUS
  <2>2. file' = [file EXCEPT !["G"][t] = a]
    BY <2>1 DEF Excerpt
  <2>3. t \in Names
    BY <1>2, <2>1, HeaderFacts DEF Times0
  <2>4. a \in 0..posted /\ "G" \in Kinds
    BY <1>1, <2>1, <2>3 DEF Typed, Kinds
  <2>5. QED
    BY <1>1, <2>2, <2>3, <2>4, FileIs
<1>9. Sane
  BY <1>1, <1>7, <1>8 DEF Excerpt, Typed, Sane, cache
<1>10. BaseInv' /\ Inherits(p)
  BY <1>2, <1>9, OwnLocals, AfterBase
<1>11. QED
  BY <1>1, <1>2, <1>3, <1>7, <1>10

LEMMA UndigestStep ==
    ASSUME BaseInv, NEW p \in Procs, Undigest(p)
    PROVE  /\ Left(p) = {"undigest", "unlink", "toggle"} /\ loc[p].fh.filetime \in Names
           /\ \/ /\ Walked(p) /\ todo'[p] = <<"toggle">> /\ Left(p)' = {"toggle"}
                 /\ loc' = loc /\ list' = list /\ hist' = hist
                 /\ \A i \in DOMAIN list["digest"] :
                        list["digest"][i].filetime # loc[p].fh.filetime
              \/ \E i : /\ i \in DOMAIN list["digest"]
                        /\ list["digest"][i].filetime = loc[p].fh.filetime
                        /\ Changes("digest", RemoveAt(list["digest"], i))
                        /\ Drop({FileOf(list["digest"][i])} \ {<<"G", loc[p].fh.filetime>>})
                        /\ After(p, "undigest", loc[p]) /\ Left(p)' = {"unlink", "toggle"}
           /\ BaseInv' /\ Inherits(p)
<1>1. Typed /\ At(p, "undigest") /\ Left(p) = {"undigest", "unlink", "toggle"}
      /\ list["digest"] \in Seq(Header) /\ "digest" \in Lists
  BY LeftIs DEF Undigest, BaseInv, Typed, Lists
<1>2. loc[p].fh.filetime \in Names
  BY <1>1, OwnLocals, HeaderFacts DEF Sound, Times0
<1>3. PICK t, i : t = loc[p].fh.filetime /\ i = FirstNamed(list["digest"], t)
  OBVIOUS
<1>4. /\ i # 0 => i \in DOMAIN list["digest"] /\ list["digest"][i].filetime = t
      /\ i = 0 => \A j \in DOMAIN list["digest"] : list["digest"][j].filetime # t
  BY <1>1, <1>3, FirstNamedIs
<1>5. CASE i = 0
  <2>1. /\ todo' = [todo EXCEPT ![p] = <<"toggle">>] /\ loc' = loc /\ list' = list /\ hist' = hist
        /\ UNCHANGED <<file, lock, cache, now, posted>>
    BY <1>3, <1>5 DEF Undigest, FirstNamed
  <2>2. <<"toggle">> \in Todos /\ ToSet(<<"toggle">>) = {"toggle"}
    BY ElementsOf DEF Todos
  <2>3. Walked(p) /\ todo'[p] = <<"toggle">> /\ Left(p)' = {"toggle"}
    BY <1>1, <2>1, <2>2 DEF Walked, Alone, Left, Typed
  <2>4. Sane
    BY <1>1, <2>1, SaneKept DEF Typed, board
  <2>5. Sound(loc'[p], Left(p)')
    BY <1>1, <2>1, <2>3, OwnLocals DEF Sound
  <2>6. BaseInv' /\ Inherits(p)
    BY <1>1, <2>1, <2>3, <2>4, <2>5, OwnLocals, OwnStems, BaseStep
  <2>7. QED
    BY <1>1, <1>2, <1>3, <1>4, <1>5, <2>1, <2>3, <2>6
<1>6. CASE i # 0
  <2>1. /\ Put("digest", RemoveAt(list["digest"], i))
        /\ Drop({FileOf(list["digest"][i])} \ {<<"G", t>>})
        /\ Done(p, loc[p]) /\ UNCHANGED <<file, lock, cache, now, posted>>
    BY <1>3, <1>6 DEF Undigest, FirstNamed
  <2>2. After(p, "undigest", loc[p])
    BY <1>1, <2>1, OwnLocals, DoneIs
  <2>3. Left(p)' = {"unlink", "toggle"}
    BY <1>1, <2>2 DEF After
  <2>4. /\ Changes("digest", RemoveAt(list["digest"], i))
        /\ list' \in [Lists -> Seq(Header)] /\ ListInv' /\ \A m \in Lists : ListStems(m)
    BY <1>1, <1>4, <1>6, <2>1, RemoveLine
  <2>5. PICK d : d = {FileOf(list["digest"][i])} \ {<<"G", t>>}
    OBVIOUS
  <2>6. d \subseteq Files0
    BY <1>1, <1>4, <1>6, <2>5, HeaderIs, HeaderFacts
  <2>7. hist' \in Marks
    BY <1>1, <2>1, <2>5, <2>6, MarksAre
  <2>8. Sane
    BY <2>1, <2>4, <2>7, SaneIs
  <2>9. BaseInv' /\ Inherits(p)
    BY <2>2, <2>8, OwnLocals, AfterBase
  <2>10. QED
    BY <1>1, <1>2, <1>3, <1>4, <1>6, <2>1, <2>2, <2>3, <2>4, <2>9
<1>7. QED
  BY <1>5, <1>6

LEMMA UndigestUnlinkStep ==
    ASSUME BaseInv, NEW p \in Procs, UndigestUnlink(p)
    PROVE  /\ After(p, "unlink", loc[p]) /\ Left(p) = {"unlink", "toggle"}
           /\ loc[p].fh.filetime \in Names
           /\ BaseInv' /\ Inherits(p)
<1>1. Typed /\ At(p, "unlink") /\ Left(p) = {"unlink", "toggle"}
  BY LeftIs DEF UndigestUnlink, BaseInv
<1>2. loc[p].fh.filetime \in Names /\ After(p, "unlink", loc[p])
  BY <1>1, OwnLocals, HeaderFacts, DoneIs DEF Sound, Times0, UndigestUnlink
<1>3. 0 \in 0..posted /\ "G" \in Kinds
  BY OwnLocals DEF Kinds
<1>4. file' \in [Kinds -> [Names -> 0..posted]]
  BY <1>1, <1>2, <1>3, FileIs DEF UndigestUnlink
<1>5. Sane
  BY <1>1, <1>4, SaneFiles DEF UndigestUnlink, Typed
<1>6. BaseInv' /\ Inherits(p)
  BY <1>2, <1>5, OwnLocals, AfterBase
<1>7. QED
  BY <1>1, <1>2, <1>6

-----------------------------------------------------------------------------
(* Articles that are restored. *)
LEMMA UndeleteStep ==
    ASSUME BaseInv, NEW p \in Procs, Undelete(p)
    PROVE  /\ Starts(p, <<"relink", "append", "stat", "total", "store", "strike">>, loc[p])
           /\ Left(p)' = {"relink", "append", "stat", "total", "store", "strike"}
           /\ BaseInv' /\ Inherits(p)
<1>1. Typed /\ Sees(p, "undelete") /\ loc[p].view \in Removed /\ loc[p].fh.filetime # 0 /\ loc[p].ent > 0
  BY OwnLocals, ShowsAre DEF Undelete, Sees, BaseInv
<1>2. PICK s : s = <<"relink", "append", "stat", "total", "store", "strike">>
  OBVIOUS
<1>3. s \in Todos /\ ToSet(s) = {"relink", "append", "stat", "total", "store", "strike"}
  BY <1>2, ElementsOf DEF Todos
<1>4. Begin(p, "undelete", s) /\ loc' = loc
  BY <1>2, StepsAre DEF Undelete
<1>5. Starts(p, s, loc[p]) /\ Sound(loc[p], {}) /\ loc[p].from = {}
  BY <1>3, <1>4, StaysIs
<1>6. Sound(loc[p], ToSet(s))
  BY <1>1, <1>3, <1>5 DEF Sound
<1>7. Sane
  BY <1>1, SaneKept DEF Undelete, Typed
<1>8. QED
  BY <1>2, <1>3, <1>5, <1>6, <1>7, StaysBase DEF Starts

(* The line to be entered, under the name t. *)
Restores(p, t, l) ==
    /\ l \in Locals /\ l.new \in Header /\ l.new.filetime = t /\ l.new.kind = loc[p].fh.kind
    /\ l.new.art = loc[p].fh.art /\ ~l.new.digest
    /\ l.into = IF loc[p].fh.kind = "G" THEN "digest" ELSE "dir"
    /\ l.view = loc[p].view /\ l.fh = loc[p].fh /\ l.read = loc[p].read /\ l.ent = loc[p].ent
    /\ l.start = loc[p].start

OldName(p, l) == l = [loc[p] EXCEPT !.new = [loc[p].fh EXCEPT !.del = FALSE],
                                    !.into = IF loc[p].fh.kind = "G" THEN "digest" ELSE "dir"]
NewName(p, t, l) == \E m : OldName(p, m) /\ l = [m EXCEPT !.new.filetime = t, !.from = Times("dir")]

LEMMA RelinkStrikes ==
    ASSUME Typed, NEW p \in Procs, "relink" \in Left(p)
    PROVE  "strike" \in Left(p)
<1>1. \A s \in Todos : "relink" \in ToSet(s) =>
          s = <<"relink", "append", "stat", "total", "store", "strike">>
  BY ElementsOf DEF Todos
<1>2. QED
  BY <1>1, ElementsOf DEF Typed, Left

LEMMA OldNameIs ==
    ASSUME BaseInv, NEW p \in Procs, "relink" \in Left(p), NEW l, OldName(p, l)
    PROVE  Restores(p, loc[p].fh.filetime, l) /\ l.from = {}
<1>1. PICK m, g, h, i : /\ m = loc[p] /\ g = loc[p].fh /\ h = [g EXCEPT !.del = FALSE]
                        /\ i = IF loc[p].fh.kind = "G" THEN "digest" ELSE "dir"
  OBVIOUS
<1>2. g \in Header /\ m \in Locals /\ ~g.digest /\ m.from = {}
  <2>1. Sound(m, Left(p)) /\ g \in Header /\ m \in Locals
    BY <1>1, OwnLocals
  <2>2. "strike" \in Left(p)
    BY RelinkStrikes DEF BaseInv
  <2>3. QED
    BY <1>1, <2>1, <2>2 DEF Sound
<1>3. h \in Header /\ h.filetime = g.filetime /\ h.kind = g.kind /\ h.art = g.art /\ ~h.digest
  BY <1>1, <1>2 DEF Header
<1>4. l = [m EXCEPT !.new = h, !.into = i] /\ i \in Lists
  BY <1>1 DEF OldName, Lists
<1>5. l \in Locals /\ l.new = h /\ l.into = i /\ l.from = m.from /\ l.view = m.view /\ l.fh = m.fh
      /\ l.read = m.read /\ l.ent = m.ent /\ l.start = m.start
  BY <1>2, <1>3, <1>4 DEF Locals
<1>6. QED
  BY <1>1, <1>2, <1>3, <1>5 DEF Restores

LEMMA NewNameIs ==
    ASSUME BaseInv, NEW p \in Procs, "relink" \in Left(p), NEW t \in Names, NEW l, NewName(p, t, l)
    PROVE  Restores(p, t, l) /\ l.from = Times("dir")
<1>1. PICK m : OldName(p, m) /\ l = [m EXCEPT !.new.filetime = t, !.from = Times("dir")]
  BY DEF NewName
<1>2. Restores(p, loc[p].fh.filetime, m)
  BY <1>1, OldNameIs
<1>3. PICK d : d = Times("dir") /\ d \in SUBSET Times0
  BY TimesIs DEF BaseInv, Lists
<1>4. PICK h : h = [m.new EXCEPT !.filetime = t]
  OBVIOUS
<1>5. h \in Header /\ h.filetime = t /\ h.kind = m.new.kind /\ h.art = m.new.art /\ h.digest = m.new.digest
  BY <1>2, <1>4 DEF Restores, Header, Times0
<1>6. l = [m EXCEPT !.new = h, !.from = d]
  BY <1>1, <1>3, <1>4
<1>7. m \in Locals
  BY <1>2 DEF Restores
<1>8. l \in Locals /\ l.new = h /\ l.into = m.into /\ l.from = d /\ l.view = m.view /\ l.fh = m.fh
      /\ l.read = m.read /\ l.ent = m.ent /\ l.start = m.start
  BY <1>3, <1>5, <1>6, <1>7 DEF Locals
<1>9. QED
  BY <1>2, <1>3, <1>5, <1>8 DEF Restores

LEMMA RestoresBase ==
    ASSUME BaseInv, NEW p \in Procs, At(p, "relink"), NEW t, NEW l, Restores(p, t, l), t # 0,
           After(p, "relink", l), Sane, posted' = posted
    PROVE  loc'[p] = l /\ BaseInv' /\ Inherits(p)
<1>1. Left(p) = {"relink", "append", "stat", "total", "store", "strike"} /\ Typed
  BY LeftIs DEF BaseInv
<1>2. Left(p)' = {"append", "stat", "total", "store", "strike"} /\ loc'[p] = l
  BY <1>1 DEF After
<1>3. Sound(loc[p], Left(p)) /\ Right(loc[p].fh, posted) /\ loc[p].start <= now
  BY OwnLocals
<1>4. loc[p].view \in Removed /\ loc[p].ent > 0 /\ loc[p].fh.filetime # 0
  BY <1>1, <1>3 DEF Sound
<1>5. ~loc[p].fh.digest /\ \A i \in DOMAIN loc[p].read : ~loc[p].read[i].digest
  BY <1>3, <1>4 DEF Sound
<1>6. l.into = "dir" => l.new.kind = "M"
  BY OwnLocals, HeaderFacts DEF Restores, Kinds
<1>7. Sound(l, {"append", "stat", "total", "store", "strike"})
  BY <1>4, <1>5, <1>6 DEF Sound, Restores, Removed
<1>8. Right(l.new, posted)
  BY <1>3, <1>4 DEF Right, Restores
<1>9. Stems(l.fh) /\ \A i \in DOMAIN l.read : Stems(l.read[i])
  BY <1>1, OwnStems DEF Restores
<1>10. l.start <= now
  BY <1>3 DEF Restores
<1>11. BaseInv' /\ Inherits(p)
  BY <1>2, <1>7, <1>8, <1>9, <1>10, BaseStep DEF After
<1>12. QED
  BY <1>2, <1>11

(* The old name stays, or the file goes to a new one. *)
Stays(p, l) ==
    /\ OldName(p, l) /\ file' = file /\ Keep({FileOf(loc[p].fh)})
    /\ file[loc[p].fh.kind][loc[p].fh.filetime] = 0 \/ FreeNames(loc[p].fh.kind) = {}
Moves(p, t, l) ==
    /\ NewName(p, t, l) /\ t \in FreeNames(loc[p].fh.kind)
    /\ file[loc[p].fh.kind][loc[p].fh.filetime] # 0
    /\ file' = [file EXCEPT ![loc[p].fh.kind][t] = file[loc[p].fh.kind][loc[p].fh.filetime],
                            ![loc[p].fh.kind][loc[p].fh.filetime] = 0]
    /\ hist' \in Marks
    /\ hist'.freed = hist.freed \cup {loc[p].fh.filetime}
    /\ hist'.stale = hist.stale \cup {FileOf(loc[p].fh)}
    /\ hist'.dropped = hist.dropped /\ hist'.crossed = hist.crossed /\ hist'.behind = hist.behind

LEMMA RelinkStep ==
    ASSUME BaseInv, NEW p \in Procs, Relink(p)
    PROVE  /\ Left(p) = {"relink", "append", "stat", "total", "store", "strike"}
           /\ loc[p].fh.filetime \in Names /\ loc[p].view \in Removed
           /\ \E l : /\ After(p, "relink", l) /\ loc'[p] = l
                     /\ Stays(p, l) \/ \E t \in Names : Moves(p, t, l)
           /\ BaseInv' /\ Inherits(p)
<1>1. Typed /\ At(p, "relink") /\ Left(p) = {"relink", "append", "stat", "total", "store", "strike"}
  BY LeftIs DEF Relink, BaseInv
<1>2. loc[p].fh.filetime \in Names /\ loc[p].view \in Removed /\ loc[p].fh.filetime # 0
  BY <1>1, OwnLocals, HeaderFacts DEF Sound, Times0
<1>3. PICK g, k, u : g = loc[p].fh /\ k = g.kind /\ u = g.filetime
  OBVIOUS
<1>4. g \in Header /\ k \in Kinds /\ u \in Names
  BY <1>2, <1>3, OwnLocals, HeaderFacts
<1>5. PICK m : OldName(p, m)
  BY DEF OldName
<1>6. CASE file[k][u] = 0 \/ FreeNames(k) = {}
  <2>1. Done(p, m) /\ Keep({FileOf(g)}) /\ file' = file
    BY <1>3, <1>5, <1>6 DEF Relink, OldName
  <2>2. Restores(p, u, m)
    BY <1>1, <1>3, <1>5, OldNameIs
  <2>3. After(p, "relink", m)
    BY <1>1, <2>1, <2>2, DoneIs DEF Restores
  <2>4. hist' \in Marks
    BY <1>1, <1>4, <2>1, MarksAre, HeaderFacts
  <2>5. Sane
    BY <1>1, <2>1, <2>4, SaneFiles DEF Relink, Typed
  <2>6. posted' = posted /\ u # 0
    BY <1>2, <1>3 DEF Relink
  <2>7. loc'[p] = m /\ BaseInv' /\ Inherits(p)
    BY <1>1, <2>2, <2>3, <2>5, <2>6, RestoresBase
  <2>8. Stays(p, m)
    BY <1>3, <1>5, <1>6, <2>1 DEF Stays
  <2>9. QED
    BY <1>1, <1>2, <2>3, <2>7, <2>8
<1>7. CASE ~(file[k][u] = 0 \/ FreeNames(k) = {})
  <2>1. PICK t \in FreeNames(k) :
            /\ file' = [file EXCEPT ![k][t] = file[k][u], ![k][u] = 0]
            /\ Done(p, [m EXCEPT !.new.filetime = t, !.from = Times("dir")])
            /\ hist' = [hist EXCEPT !.freed = @ \cup {u}, !.stale = @ \cup {FileOf(g)}]
    BY <1>3, <1>5, <1>7 DEF Relink, OldName
  <2>2. t \in Names /\ t # 0
    BY <1>1, <1>4, FreeNameIs
  <2>3. PICK l : l = [m EXCEPT !.new.filetime = t, !.from = Times("dir")] /\ Done(p, l)
    BY <2>1
  <2>4. NewName(p, t, l)
    BY <1>5, <2>3 DEF NewName
  <2>5. Restores(p, t, l)
    BY <1>1, <2>2, <2>4, NewNameIs
  <2>6. After(p, "relink", l)
    BY <1>1, <2>3, <2>5, DoneIs DEF Restores
  <2>7. /\ hist' \in Marks /\ hist'.freed = hist.freed \cup {u}
        /\ hist'.stale = hist.stale \cup {FileOf(g)}
        /\ hist'.dropped = hist.dropped /\ hist'.crossed = hist.crossed /\ hist'.behind = hist.behind
    <3>1. PICK f : f = FileOf(g) /\ f \in Files0
      BY <1>4, HeaderFacts
    <3>2. hist \in Marks /\ hist' = [hist EXCEPT !.freed = @ \cup {u}, !.stale = @ \cup {f}]
      BY <1>1, <2>1, <3>1 DEF Typed
    <3>3. QED
      BY <1>4, <3>1, <3>2 DEF Marks
  <2>8. file' \in [Kinds -> [Names -> 0..posted]]
    <3>1. file[k][u] \in 0..posted /\ 0 \in 0..posted
      BY <1>1, <1>4, OwnLocals DEF Typed
    <3>2. QED
      BY <1>1, <1>4, <2>1, <2>2, <3>1 DEF Typed
  <2>9. Sane
    BY <2>7, <2>8, SaneFiles DEF Relink
  <2>10. posted' = posted
    BY DEF Relink
  <2>11. loc'[p] = l /\ BaseInv' /\ Inherits(p)
    BY <1>1, <2>2, <2>5, <2>6, <2>9, <2>10, RestoresBase
  <2>12. Moves(p, t, l)
    BY <1>3, <1>7, <2>1, <2>4, <2>7 DEF Moves
  <2>13. QED
    BY <1>1, <1>2, <2>2, <2>6, <2>11, <2>12
<1>8. QED
  BY <1>6, <1>7

-----------------------------------------------------------------------------
(* The programs run from cron. *)
Copies(p, l) ==
    /\ Starts(p, <<"swap">>, l)
    /\ l.new = Hole /\ l.from = {} /\ l.start = 0 /\ l.fh = Hole /\ l.view \in Removed
    /\ l.read \in Seq(Header) /\ ToSet(l.read) \subseteq ToSet(list[l.view])

LEMMA JunkReadStep ==
    ASSUME BaseInv, NEW p \in Procs, JunkRead(p)
    PROVE  /\ \E l : Copies(p, l)
           /\ Left(p)' = {"swap"}
           /\ BaseInv' /\ Inherits(p)
<1>1. PICK v \in Removed : \E n \in DOMAIN list[v] :
         loc' = [loc EXCEPT ![p] = [NoLocals EXCEPT !.view = v,
                     !.read = SubSeq(list[v], n + 1, Len(list[v]))]]
  BY DEF JunkRead, Removed
<1>2. PICK n \in DOMAIN list[v] :
         loc' = [loc EXCEPT ![p] = [NoLocals EXCEPT !.view = v,
                     !.read = SubSeq(list[v], n + 1, Len(list[v]))]]
  BY <1>1
<1>3. Typed /\ ListInv /\ v \in Lists /\ list[v] \in Seq(Header) /\ n \in 1..Len(list[v])
      /\ Len(list[v]) \in Nat
  <2>1. Typed /\ ListInv /\ v \in Lists /\ list[v] \in Seq(Header)
    BY DEF BaseInv, Typed, Lists, Removed
  <2>2. QED
    BY <2>1, HeaderIs
<1>4. PICK d, r : d = list[v] /\ r = SubSeq(d, n + 1, Len(d))
  OBVIOUS
<1>5. r \in Seq(Header) /\ \A i \in DOMAIN r : \E j \in DOMAIN d : r[i] = d[j]
  <2>0. PICK a, z : a = n + 1 /\ z = Len(d)
    OBVIOUS
  <2>1. /\ r \in Seq(Header) /\ Len(r) = Len(d) - n
        /\ \A i \in 1..Len(r) : r[i] = d[n + i]
    <3>1. a \in Int /\ z \in Int /\ n \in Int /\ n <= z /\ r = SubSeq(d, a, z)
      BY <1>3, <1>4, <2>0
    <3>2. \A i \in a..z : d[i] \in Header
      BY <1>3, <1>4, <2>0
    <3>3. /\ r \in Seq(Header) /\ Len(r) = IF a <= z THEN z - a + 1 ELSE 0
          /\ \A i \in 1..z - a + 1 : r[i] = d[a + i - 1]
      BY <3>1, <3>2, SubSeqProperties
    <3>4. Len(r) = z - n /\ z - a + 1 = z - n
      BY <2>0, <3>1, <3>3
    <3>5. \A i \in 1..z - n : a + i - 1 = n + i
      BY <2>0, <3>1
    <3>6. QED
      BY <2>0, <3>3, <3>4, <3>5
  <2>2. \A i \in 1..Len(r) : n + i \in 1..Len(d)
    BY <1>3, <1>4, <2>1
  <2>3. DOMAIN r = 1..Len(r) /\ DOMAIN d = 1..Len(d)
    BY <1>3, <1>4, <2>1, HeaderIs
  <2>4. QED
    BY <2>1, <2>2, <2>3
<1>6. ToSet(r) \subseteq ToSet(d)
  <2>1. ToSet(r) = {r[i] : i \in DOMAIN r} /\ ToSet(d) = {d[i] : i \in DOMAIN d}
    BY DEF ToSet
  <2>2. QED
    BY <1>5, <2>1
<1>7. PICK l : l = [NoLocals EXCEPT !.view = v, !.read = r]
  OBVIOUS
<1>8. l \in Locals /\ l.new = Hole /\ l.from = {} /\ l.start = 0 /\ l.fh = Hole
      /\ l.view = v /\ l.read = r
  <2>1. l \in Locals
    BY <1>3, <1>5, <1>7, NoLocalsTyped DEF Locals
  <2>2. QED
    BY <1>7, <2>1 DEF NoLocals
<1>9. loc' = [loc EXCEPT ![p] = l]
  BY <1>2, <1>4, <1>7
<1>10. PICK s : s = <<"swap">>
  OBVIOUS
<1>11. s \in Todos /\ ToSet(s) = {"swap"} /\ Begin(p, "rmjunk", s)
  BY <1>10, ElementsOf DEF Todos, JunkRead
<1>12. Starts(p, s, l)
  BY <1>3, <1>8, <1>9, <1>11, BeginIs
<1>13. Copies(p, l)
  BY <1>4, <1>5, <1>6, <1>8, <1>10, <1>12 DEF Copies
<1>14. Sane
  BY <1>3, SaneKept DEF JunkRead, Typed
<1>15. \A i \in DOMAIN l.read : Stems(l.read[i]) /\ ~l.read[i].digest
  <2>1. \A j \in DOMAIN d : Stems(d[j]) /\ ~d[j].digest
    BY <1>3, <1>4, PublicIs, StemsSelf DEF ListInv, Cleared
  <2>2. QED
    BY <1>5, <1>8, <2>1
<1>16. Sound(l, ToSet(s))
  <2>1. ~Hole.digest
    BY DEF Hole, NewLine
  <2>2. QED
    BY <1>8, <1>11, <1>15, <2>1 DEF Sound, Removed
<1>17. Right(l.new, posted') /\ l.start <= now /\ Stems(l.fh)
  BY <1>8, RightNew, OwnLocals DEF JunkRead, Sane, Stems
<1>18. BaseInv' /\ Inherits(p)
  BY <1>12, <1>14, <1>15, <1>16, <1>17, StartsBase
<1>19. QED
  BY <1>11, <1>12, <1>13, <1>18 DEF Starts

LEMMA JunkSwapStep ==
    ASSUME BaseInv, NEW p \in Procs, JunkSwap(p)
    PROVE  /\ After(p, "swap", loc[p]) /\ Left(p) = {"swap"} /\ loc[p].view \in Removed
           /\ Changes(loc[p].view, loc[p].read)
           /\ Drop(FilesOf(list[loc[p].view]) \ FilesOf(loc[p].read))
           /\ BaseInv' /\ Inherits(p)
<1>1. Typed /\ At(p, "swap") /\ Left(p) = {"swap"}
  BY LeftIs DEF JunkSwap, BaseInv
<1>2. After(p, "swap", loc[p]) /\ loc[p].view \in Removed
      /\ \A i \in DOMAIN loc[p].read : ~loc[p].read[i].digest
  BY <1>1, OwnLocals, DoneIs DEF JunkSwap, Sound
<1>3. PICK v, d : v = loc[p].view /\ d = loc[p].read
  OBVIOUS
<1>4. v \in Lists /\ d \in Seq(Header) /\ v \in Removed /\ v # "dir"
  BY <1>2, <1>3, OwnLocals DEF Removed
<1>5. Changes(v, d)
  BY <1>1, <1>3, <1>4, PutIs DEF JunkSwap
<1>6. \A i \in DOMAIN d : Stems(d[i])
  BY <1>1, <1>3, OwnStems
<1>7. list' \in [Lists -> Seq(Header)] /\ ListInv' /\ \A m \in Lists : ListStems(m)
  BY <1>2, <1>3, <1>4, <1>5, <1>6, ListsChange DEF Cleared
<1>8. PICK f : f = FilesOf(list[v]) \ FilesOf(d)
  OBVIOUS
<1>9. f \subseteq Files0
  <2>1. \A i \in DOMAIN list[v] : FileOf(list[v][i]) \in Files0
    BY <1>1, <1>4, HeaderIs, HeaderFacts DEF Typed
  <2>2. QED
    BY <1>8, <2>1 DEF FilesOf
<1>10. Drop(f)
  BY <1>3, <1>8 DEF JunkSwap
<1>11. hist' \in Marks
  BY <1>1, <1>9, <1>10, MarksAre
<1>12. Sane
  BY <1>7, <1>11, SaneIs DEF JunkSwap
<1>13. BaseInv' /\ Inherits(p)
  BY <1>2, <1>12, OwnLocals, AfterBase
<1>14. QED
  BY <1>1, <1>2, <1>3, <1>5, <1>8, <1>10, <1>13

LEMMA MovingIs ==
    ASSUME Typed
    PROVE  Moving \subseteq Nat
BY HeaderFacts DEF Moving, Typed, Locals

(* It begins with all files of the board. *)
Searches(p, l) ==
    /\ Starts(p, <<"dir", "digest", "deleted", "junk", "rmlost">>, l)
    /\ Left(p)' = {"dir", "digest", "deleted", "junk", "rmlost"}
    /\ l.new = Hole /\ l.from = {} /\ l.fh = Hole /\ l.read = <<>> /\ l.view = "dir"
    /\ l.start = now /\ l.lost = {f \in Kinds \X Names : file[f[1]][f[2]] # 0}

LEMMA LostStartStep ==
    ASSUME BaseInv, NEW p \in Procs, LostStart(p)
    PROVE  /\ \E l : Searches(p, l)
           /\ BaseInv' /\ Inherits(p)
<1>1. Typed
  BY DEF BaseInv
<1>2. PICK lost, moving : /\ lost = {f \in Kinds \X Names : file[f[1]][f[2]] # 0}
                          /\ moving = Moving
  OBVIOUS
<1>3. lost \in SUBSET Files0 /\ moving \in SUBSET Nat
  BY <1>1, <1>2, MovingIs DEF Files0, Times0
<1>4. PICK l : l = [NoLocals EXCEPT !.start = now, !.lost = lost, !.moving = moving]
  OBVIOUS
<1>5. l \in Locals
  BY <1>3, <1>4, NoLocalsTyped, OwnLocals DEF Locals
<1>6. l.new = Hole /\ l.from = {} /\ l.fh = Hole /\ l.read = <<>> /\ l.view = "dir"
      /\ l.start = now /\ l.lost = lost /\ l.ent = 0
  BY <1>4 DEF NoLocals
<1>7. loc' = [loc EXCEPT ![p] = l]
  BY <1>2, <1>4 DEF LostStart
<1>8. PICK s : s = <<"dir", "digest", "deleted", "junk", "rmlost">>
  OBVIOUS
<1>9. s \in Todos /\ ToSet(s) = {"dir", "digest", "deleted", "junk", "rmlost"}
      /\ Begin(p, "rmlost", s)
  BY <1>8, ElementsOf DEF Todos, LostStart, LostOrder
<1>10. Starts(p, s, l)
  BY <1>1, <1>5, <1>7, <1>9, BeginIs
<1>11. Searches(p, l)
  BY <1>2, <1>6, <1>8, <1>9, <1>10 DEF Searches, Starts
<1>12. Sane
  BY <1>1, SaneKept DEF LostStart, Typed
<1>13. Sound(l, ToSet(s))
  BY <1>6, <1>9 DEF Sound, Removed, Hole, NewLine
<1>14. Right(l.new, posted') /\ l.start <= now /\ Stems(l.fh) /\ DOMAIN l.read = {}
  BY <1>6, RightNew, OwnLocals DEF LostStart, Sane, Stems
<1>15. BaseInv' /\ Inherits(p)
  BY <1>10, <1>12, <1>13, <1>14, StartsBase
<1>16. QED
  BY <1>11, <1>15

(* What is left when the index v has been read. *)
Reads(p, v, l) ==
    /\ l = [loc[p] EXCEPT
                !.lost = @ \ FilesOf(list[v]),
                !.moving = CASE v = "dir" -> Moving
                             [] v = "digest" -> @ \cup Moving
                             [] OTHER -> @]

Narrowed(p, v, l) ==
    /\ l \in Locals /\ Agree(l, loc[p]) /\ l.fh = loc[p].fh /\ l.start = loc[p].start
    /\ l.lost = loc[p].lost \ FilesOf(list[v])
    /\ l.moving = IF v = "dir" THEN Moving
                  ELSE IF v = "digest" THEN loc[p].moving \cup Moving
                  ELSE loc[p].moving

LEMMA ReadsIs ==
    ASSUME BaseInv, NEW p \in Procs, NEW v \in Lists, NEW l, Reads(p, v, l)
    PROVE  Narrowed(p, v, l)
<1>1. PICK m, lost, moving : /\ m = loc[p] /\ lost = m.lost \ FilesOf(list[v])
                             /\ moving = CASE v = "dir" -> Moving
                                           [] v = "digest" -> m.moving \cup Moving
                                           [] OTHER -> m.moving
  OBVIOUS
<1>2. moving = IF v = "dir" THEN Moving
               ELSE IF v = "digest" THEN m.moving \cup Moving ELSE m.moving
  BY <1>1
<1>3. m \in Locals /\ lost \in SUBSET Files0 /\ moving \in SUBSET Nat
  <2>1. m \in Locals /\ m.lost \subseteq Files0 /\ m.moving \subseteq Nat
    BY <1>1, OwnLocals DEF Locals
  <2>2. Moving \subseteq Nat
    BY MovingIs DEF BaseInv
  <2>3. QED
    BY <1>1, <1>2, <2>1, <2>2
<1>4. l = [m EXCEPT !.lost = lost, !.moving = moving]
  BY <1>1 DEF Reads
<1>5. /\ l \in Locals /\ l.lost = lost /\ l.moving = moving /\ l.view = m.view /\ l.new = m.new
      /\ l.into = m.into /\ l.from = m.from /\ l.read = m.read /\ l.ent = m.ent /\ l.fh = m.fh
      /\ l.start = m.start
  BY <1>3, <1>4 DEF Locals
<1>6. QED
  BY <1>1, <1>2, <1>5 DEF Agree, Narrowed

LEMMA LostReadStep ==
    ASSUME BaseInv, NEW p \in Procs, LostRead(p)
    PROVE  /\ \E v \in Lists : \E l : At(p, v) /\ After(p, v, l) /\ Reads(p, v, l) /\ loc'[p] = l
           /\ BaseInv' /\ Inherits(p)
<1>1. PICK v \in Lists : /\ At(p, v)
                         /\ Done(p, [loc[p] EXCEPT
                              !.lost = @ \ FilesOf(list[v]),
                              !.moving = CASE v = "dir" -> Moving
                                           [] v = "digest" -> @ \cup Moving
                                           [] OTHER -> @])
  BY DEF LostRead
<1>2. PICK l : Reads(p, v, l) /\ Done(p, l)
  BY <1>1 DEF Reads
<1>3. l \in Locals /\ Agree(l, loc[p]) /\ l.fh = loc[p].fh /\ l.start = loc[p].start
  <2>1. Narrowed(p, v, l)
    BY <1>2, ReadsIs
  <2>2. QED
    BY <2>1 DEF Narrowed
<1>4. After(p, v, l)
  BY <1>1, <1>2, <1>3, DoneIs DEF BaseInv
<1>5. loc'[p] = l
  <2>1. "rmlost" \in Left(p)
    BY <1>1, LeftIs DEF BaseInv, Lists
  <2>2. "rmlost" \in Left(p)'
    BY <1>1, <1>4, <2>1 DEF After, Lists
  <2>3. QED
    BY <1>4, <2>2 DEF After
<1>6. Sane
  BY SaneKept DEF LostRead, BaseInv, Typed
<1>7. v # "relink" /\ l.start <= now /\ l.fh.art = loc[p].fh.art
  BY <1>3, OwnLocals DEF Lists
<1>8. BaseInv' /\ Inherits(p)
  BY <1>3, <1>4, <1>6, <1>7, AfterBase
<1>9. QED
  BY <1>1, <1>2, <1>4, <1>5, <1>8

LEMMA RmLostStep ==
    ASSUME BaseInv, NEW p \in Procs, RmLost(p)
    PROVE  /\ After(p, "rmlost", loc[p]) /\ Left(p) = {"rmlost"}
           /\ \A k \in Kinds, t \in Names :
                  file'[k][t] = IF <<k, t>> \in loc[p].lost /\ loc[p].start - t >= MinAge
                                THEN 0 ELSE file[k][t]
           /\ BaseInv' /\ Inherits(p)
<1>1. Typed /\ At(p, "rmlost") /\ Left(p) = {"rmlost"}
  BY LeftIs DEF RmLost, BaseInv
<1>2. After(p, "rmlost", loc[p])
  BY <1>1, OwnLocals, DoneIs DEF RmLost
<1>3. \A k \in Kinds, t \in Names :
          file'[k][t] = IF <<k, t>> \in loc[p].lost /\ loc[p].start - t >= MinAge
                        THEN 0 ELSE file[k][t]
  BY DEF RmLost
<1>4. 0 \in 0..posted
  BY OwnLocals
<1>5. \A k \in Kinds, t \in Names : file'[k][t] \in 0..posted
  BY <1>1, <1>3, <1>4 DEF Typed
<1>6. file' \in [Kinds -> [Names -> 0..posted]]
  BY <1>5 DEF RmLost
<1>7. Sane
  BY <1>1, <1>6, SaneFiles DEF RmLost, Typed
<1>8. BaseInv' /\ Inherits(p)
  BY <1>2, <1>7, OwnLocals, AfterBase
<1>9. QED
  BY <1>1, <1>2, <1>3, <1>8

-----------------------------------------------------------------------------
(* Nobody does anything, though time may pass. *)
Still == /\ UNCHANGED <<board, cache, posted, todo, loc, hist>>
         /\ now' \in 1..MaxTime /\ now <= now'

LEMMA StillIs ==
    ASSUME Typed, Still
    PROVE  /\ \A p \in Procs : Left(p)' = Left(p) /\ (Writing(p)' <=> Writing(p))
           /\ list' = list /\ file' = file /\ lock' = lock /\ total' = total
           /\ lastpost' = lastpost /\ posted' = posted /\ todo' = todo /\ loc' = loc /\ hist' = hist
           /\ Public' = Public /\ Known' = Known
<1>1. /\ list' = list /\ file' = file /\ lock' = lock /\ total' = total
      /\ lastpost' = lastpost /\ posted' = posted /\ todo' = todo /\ loc' = loc /\ hist' = hist
  BY DEF Still, board, cache
<1>2. QED
  BY <1>1 DEF Left, Writing, Public, Known, Holds

LEMMA StillBase ==
    ASSUME BaseInv, Still
    PROVE  BaseInv'
<1>1. Typed
  BY DEF BaseInv
<1>2. Typed'
  BY <1>1, StillIs DEF Typed, Still
<1>3. ArtInv'
  BY <1>1, StillIs DEF BaseInv, ArtInv
<1>4. ListInv'
  BY <1>1, StillIs DEF BaseInv, ListInv
<1>5. LocalInv'
  <2>1. ASSUME NEW p \in Procs PROVE Sound(loc[p], Left(p)) /\ loc[p].start <= now'
    <3>1. now \in Nat /\ now' \in Nat /\ now <= now'
      BY <1>1, ConstantsAre DEF Still, Typed
    <3>2. QED
      BY <3>1, OwnLocals
  <2>2. QED
    BY <1>1, <2>1, StillIs DEF LocalInv
<1>6. QED
  BY <1>2, <1>3, <1>4, <1>5 DEF BaseInv

LEMMA TickIs ==
    ASSUME Typed, Tick
    PROVE  Still /\ now' = now + 1
BY ConstantsAre DEF Tick, Still, Typed

LEMMA StutterIs ==
    ASSUME Typed, UNCHANGED vars
    PROVE  Still /\ now' = now
BY ConstantsAre DEF Still, vars, Typed

-----------------------------------------------------------------------------
(***************************************************************************)
(* The board cache: whoever has changed .DIR has still to tell it.         *)
(***************************************************************************)
LastOf(d) == IF Len(d) = 0 THEN 0
             ELSE IF d[Len(d)].edittime = 0 THEN d[Len(d)].filetime ELSE d[Len(d)].edittime

LEMMA LastOfIs ==
    ASSUME NEW d \in Seq(Header)
    PROVE  LastTime(d, Len(d)) = LastOf(d) /\ LastTime(d, Len(d))' = LastOf(d)
<1>1. Len(d) \in Nat /\ ~(Len(d) > Len(d))
  BY HeaderIs
<1>2. QED
  BY <1>1 DEF LastTime, LastOf

Told == /\ "total" \notin hist.behind => Telling("total") \/ total = Len(list["dir"])
        /\ "lastpost" \notin hist.behind => Telling("store") \/ lastpost = LastOf(list["dir"])

(* p goes on telling the cache; it begins to. *)
Goes(p) == \A step \in {"total", "store"} :
               step \in Left(p) /\ Left(p) \cap Changing = {} =>
                   step \in Left(p)' /\ Left(p)' \cap Changing = {}
Tells(p) == {"total", "store"} \subseteq Left(p)' /\ Left(p)' \cap Changing = {}
SameEnd == Len(list'["dir"]) = Len(list["dir"]) /\ LastOf(list'["dir"]) = LastOf(list["dir"])

LEMMA ToldStep ==
    ASSUME Told, NEW p \in Procs, Alone(p), Goes(p),
           hist'.behind = hist.behind, cache' = cache, Tells(p) \/ SameEnd
    PROVE  Told'
<1>1. ASSUME NEW step \in {"total", "store"}, Telling(step) PROVE Telling(step)'
  <2>1. PICK q \in Procs : step \in Left(q) /\ Left(q) \cap Changing = {}
    BY <1>1 DEF Telling
  <2>2. step \in Left(q)' /\ Left(q)' \cap Changing = {}
    <3>1. CASE q = p
      BY <2>1, <3>1 DEF Goes
    <3>2. CASE q # p
      BY <2>1, <3>2 DEF Alone
    <3>3. QED
      BY <3>1, <3>2
  <2>3. QED
    BY <2>2 DEF Telling, Changing
<1>2. ASSUME NEW step \in {"total", "store"}, Tells(p) PROVE Telling(step)'
  BY <1>2 DEF Telling, Tells, Changing
<1>3. total' = total /\ lastpost' = lastpost
  BY DEF cache
<1>4. QED
  BY <1>1, <1>2, <1>3 DEF Told, SameEnd

LEMMA GoesAfter ==
    ASSUME NEW p \in Procs, NEW x, NEW l, After(p, x, l), x \notin {"total", "store"}
    PROVE  Goes(p)
BY DEF Goes, After

LEMMA GoesStarts ==
    ASSUME NEW p \in Procs, Left(p) = {}
    PROVE  Goes(p)
BY DEF Goes

LEMMA GoesRests ==
    ASSUME NEW p \in Procs, Left(p) \cap Changing # {}
    PROVE  Goes(p)
BY DEF Goes

LEMMA SameEndIs ==
    /\ list' = list => SameEnd
    /\ \A l, d : Changes(l, d) /\ l # "dir" => SameEnd
BY DEF SameEnd, Changes, Lists

LEMMA MarkedEnd ==
    ASSUME BaseInv, NEW i, NEW h, Marked(i, h), h.edittime = list["dir"][i].edittime
    PROVE  SameEnd
<1>1. list["dir"] \in Seq(Header) /\ i \in DOMAIN list["dir"]
      /\ h \in Header /\ h.filetime = list["dir"][i].filetime
  BY DEF BaseInv, Typed, Lists, Marked, Amended
<1>2. PICK d : d = [list["dir"] EXCEPT ![i] = h]
  OBVIOUS
<1>3. Len(d) = Len(list["dir"]) /\ d[i] = h /\ \A j \in DOMAIN list["dir"] \ {i} : d[j] = list["dir"][j]
  BY <1>1, <1>2, AmendIs
<1>4. PICK n : n = Len(list["dir"])
  OBVIOUS
<1>5. n # 0 => n \in DOMAIN list["dir"]
  BY <1>1, <1>4, HeaderIs
<1>6. LastOf(d) = LastOf(list["dir"])
  <2>1. CASE n = 0
    BY <1>3, <1>4, <2>1 DEF LastOf
  <2>2. CASE n # 0 /\ i = n
    BY <1>1, <1>3, <1>4, <2>2 DEF LastOf
  <2>3. CASE n # 0 /\ i # n
    BY <1>3, <1>4, <1>5, <2>3 DEF LastOf
  <2>4. QED
    BY <2>1, <2>2, <2>3
<1>7. list'["dir"] = d
  BY <1>2 DEF Marked, Changes
<1>8. QED
  BY <1>3, <1>6, <1>7 DEF SameEnd

LEMMA BehindKept ==
    ASSUME Typed
    PROVE  /\ hist' = hist => hist'.behind = hist.behind
           /\ \A names : Cross(names) => hist'.behind = hist.behind
           /\ \A t : GiveUp(t) => hist'.behind = hist.behind
           /\ \A files : Drop(files) => hist'.behind = hist.behind
           /\ \A files : Keep(files) => hist'.behind = hist.behind
<1>1. hist \in Marks
  BY DEF Typed
<1>2. QED
  BY <1>1 DEF Marks, Cross, GiveUp, Drop, Keep

-----------------------------------------------------------------------------
LEMMA ToldStores ==
    ASSUME BaseInv, Told, NEW p \in Procs, Stat(p) \/ StoreTotal(p) \/ Store(p)
    PROVE  Told'
<1>1. Typed /\ list["dir"] \in Seq(Header)
  BY DEF BaseInv, Typed, Lists
<1>2. CASE Stat(p)
  <2>1. Goes(p) /\ Alone(p)
    BY <1>2, StatStep, GoesAfter DEF After, Walked
  <2>2. QED
    BY <1>2, <2>1, ToldStep, SameEndIs DEF Stat, board
<1>3. CASE StoreTotal(p)
  <2>1. After(p, "total", loc[p]) /\ Alone(p)
    BY <1>3, StoreTotalStep DEF After, Walked
  <2>2. /\ list' = list /\ lastpost' = lastpost /\ total' = loc[p].n
        /\ hist'.behind = IF loc[p].n = Len(list["dir"]) THEN hist.behind \ {"total"}
                                                        ELSE hist.behind \cup {"total"}
    BY <1>1, <1>3, MarksAre DEF StoreTotal, board
  <2>3. Telling("store") => Telling("store")'
    <3>1. ASSUME NEW q \in Procs, "store" \in Left(q), Left(q) \cap Changing = {}
          PROVE  "store" \in Left(q)' /\ Left(q)' \cap Changing = {}
      <4>1. CASE q = p
        BY <2>1, <3>1, <4>1 DEF After
      <4>2. CASE q # p
        BY <2>1, <3>1, <4>2 DEF Alone
      <4>3. QED
        BY <4>1, <4>2
    <3>2. QED
      BY <3>1 DEF Telling, Changing
  <2>4. "total" \notin hist'.behind => total' = Len(list'["dir"])
    BY <2>2
  <2>5. "lastpost" \notin hist'.behind => Telling("store")' \/ lastpost' = LastOf(list'["dir"])
    BY <2>2, <2>3 DEF Told
  <2>6. QED
    BY <2>4, <2>5 DEF Told
<1>4. CASE Store(p)
  <2>1. After(p, "store", loc[p]) /\ Alone(p) /\ Left(p) \in {{"store"}, {"store", "cancel"}, {"store", "cancel", "normal"}, {"store", "strike"}}
    BY <1>1, <1>4, StoreStep, LeftIs DEF After, Walked, Store
  <2>2. /\ list' = list /\ total' = total /\ lastpost' = LastTime(list["dir"], loc[p].n)
        /\ hist'.behind = IF loc[p].n = Len(list["dir"]) THEN hist.behind \ {"lastpost"}
                                                        ELSE hist.behind \cup {"lastpost"}
    BY <1>1, <1>4, MarksAre DEF Store, board
  <2>3. Telling("total") => Telling("total")'
    <3>1. ASSUME NEW q \in Procs, "total" \in Left(q), Left(q) \cap Changing = {}
          PROVE  "total" \in Left(q)' /\ Left(q)' \cap Changing = {}
      <4>1. q # p
        BY <2>1, <3>1
      <4>2. QED
        BY <2>1, <3>1, <4>1 DEF Alone
    <3>2. QED
      BY <3>1 DEF Telling, Changing
  <2>4. "lastpost" \notin hist'.behind => lastpost' = LastOf(list'["dir"])
    <3>1. loc[p].n = Len(list["dir"]) => lastpost' = LastOf(list["dir"])
      BY <1>1, <2>2, LastOfIs
    <3>2. QED
      BY <2>2, <3>1
  <2>5. "total" \notin hist'.behind => Telling("total")' \/ total' = Len(list'["dir"])
    BY <2>2, <2>3 DEF Told
  <2>6. QED
    BY <2>4, <2>5 DEF Told
<1>5. QED
  BY <1>2, <1>3, <1>4

LEMMA ToldPost ==
    ASSUME BaseInv, Told, NEW p \in Procs, Post(p)
    PROVE  Told'
<1>1. Typed
  BY DEF BaseInv
<1>2. CASE PostStart(p) \/ WebPost(p)
  <2>1. Alone(p) /\ Left(p) = {}
    BY <1>2, PostStartStep, WebPostStep DEF Begun, Starts, Walked
  <2>2. list' = list /\ cache' = cache /\ hist' = hist
    BY <1>2 DEF PostStart, WebPost
  <2>3. QED
    BY <2>1, <2>2, GoesStarts, SameEndIs, ToldStep
<1>3. CASE PostAbort(p)
  <2>1. Alone(p) /\ Left(p) \cap Changing # {}
    BY <1>3, PostAbortStep DEF Rests, Walked, Changing
  <2>2. list' = list /\ cache' = cache /\ hist'.behind = hist.behind
    BY <1>1, <1>3, BehindKept DEF PostAbort
  <2>3. QED
    BY <2>1, <2>2, GoesRests, SameEndIs, ToldStep
<1>4. CASE PostEnd(p)
  <2>1. Alone(p) /\ Goes(p) /\ hist'.behind = hist.behind
    BY <1>1, <1>4, PostEndStep, GoesAfter, BehindKept DEF Kept, Renamed, After, Walked
  <2>2. list' = list /\ cache' = cache
    BY <1>4 DEF PostEnd
  <2>3. QED
    BY <2>1, <2>2, SameEndIs, ToldStep
<1>5. CASE AppendLine(p)
  <2>1. /\ After(p, "append", loc[p]) /\ Alone(p)
        /\ Changes(loc[p].into, Append(list[loc[p].into], loc[p].new))
    BY <1>5, AppendLineStep DEF After, Walked
  <2>2. Left(p) \in {{"append", "stat", "total", "store"},
                     {"append", "stat", "total", "store", "strike"}}
    BY <1>1, <1>5, LeftIs DEF AppendLine
  <2>3. Tells(p)
    BY <2>1, <2>2 DEF After, Tells, Changing
  <2>4. hist'.behind = hist.behind /\ cache' = cache
    BY <1>1, <1>5, BehindKept DEF AppendLine
  <2>5. Goes(p)
    BY <2>1, GoesAfter
  <2>6. QED
    BY <2>1, <2>3, <2>4, <2>5, ToldStep
<1>6. QED
  BY <1>2, <1>3, <1>4, <1>5 DEF Post

LEMMA ToldWeb ==
    ASSUME BaseInv, Told, NEW p \in Procs, Web(p)
    PROVE  Told'
<1>1. Typed
  BY DEF BaseInv
<1>2. CASE WebFind(p)
  <2>1. Alone(p) /\ Left(p) = {}
    BY <1>2, WebFindStep DEF Starts, Walked
  <2>2. list' = list /\ cache' = cache /\ hist' = hist
    BY <1>2 DEF WebFind, board
  <2>3. QED
    BY <2>1, <2>2, GoesStarts, SameEndIs, ToldStep
<1>3. CASE WebRemove(p)
  <2>1. /\ After(p, "remove", loc[p]) /\ Alone(p) /\ Drop(UnderPen(p))
        /\ Left(p) = {"remove", "cancel", "stat", "total", "store"}
    BY <1>3, WebRemoveStep DEF After, Walked
  <2>2. Goes(p) /\ Tells(p)
    BY <2>1, GoesAfter DEF After, Tells, Changing
  <2>3. hist'.behind = hist.behind /\ cache' = cache
    BY <1>1, <1>3, <2>1, BehindKept DEF WebRemove
  <2>4. QED
    BY <2>1, <2>2, <2>3, ToldStep
<1>4. CASE put_record(p)
  <2>1. /\ After(p, "put", loc[p]) /\ Alone(p) /\ hist'.behind = hist.behind
        /\ Left(p) = {"put", "stat", "total", "store"}
    BY <1>4, PutRecordStep DEF After, Walked
  <2>2. Goes(p) /\ Tells(p)
    BY <2>1, GoesAfter DEF After, Tells, Changing
  <2>3. cache' = cache
    BY <1>4 DEF put_record
  <2>4. QED
    BY <2>1, <2>2, <2>3, ToldStep
<1>5. CASE do_set(p)
  <2>1. PICK i, h, c : Marked(i, h) /\ Cross(c) /\ h.edittime = list["dir"][i].edittime
    BY <1>5, DoSetStep
  <2>2. Alone(p) /\ Left(p) = {}
    BY <1>5, DoSetStep DEF Starts, Walked
  <2>3. SameEnd
    BY <2>1, MarkedEnd
  <2>4. hist'.behind = hist.behind /\ cache' = cache
    BY <1>1, <1>5, <2>1, BehindKept DEF do_set
  <2>5. QED
    BY <2>2, <2>3, <2>4, GoesStarts, ToldStep
<1>6. QED
  BY <1>2, <1>3, <1>4, <1>5 DEF Web

LEMMA TurnedEnd ==
    ASSUME BaseInv, NEW i, Marked(i, Turned(list["dir"][i]))
    PROVE  SameEnd
<1>1. list["dir"][i] \in Header
  BY HeaderIs DEF Marked, BaseInv, Typed, Lists
<1>2. Turned(list["dir"][i]).edittime = list["dir"][i].edittime
  BY <1>1, TurnedIs
<1>3. QED
  BY <1>2, MarkedEnd

LEMMA ToldSession ==
    ASSUME BaseInv, Told, NEW p \in Procs, Session(p)
    PROVE  Told'
<1>1. Typed
  BY DEF BaseInv
<1>2. CASE View(p)
  <2>1. Alone(p) /\ Left(p) = {}
    BY <1>2, ViewStep DEF Views, Walked
  <2>2. list' = list /\ cache' = cache /\ hist' = hist
    BY <1>2 DEF View, board
  <2>3. QED
    BY <2>1, <2>2, GoesStarts, SameEndIs, ToldStep
<1>3. CASE Delete(p)
  <2>1. Left(p) = {} /\ cache' = cache
    BY <1>3, DeleteStep DEF Delete
  <2>2. hist'.behind = hist.behind
    <3>1. hist \in Marks /\ (hist' = hist \/ \E c, d : hist' = [hist EXCEPT !.crossed = c, !.dropped = d])
      BY <1>1, <1>3 DEF Delete, Typed
    <3>2. QED
      BY <3>1 DEF Marks
  <2>3. Alone(p) /\ (Tells(p) \/ SameEnd)
    <3>1. CASE Rests(p) /\ list' = list
      BY <3>1, SameEndIs DEF Rests, Walked
    <3>2. CASE /\ Starts(p, AfterDelete(loc[p].view), loc[p])
               /\ {"stat", "total", "store", "cancel"} \subseteq Left(p)'
               /\ Left(p)' \subseteq {"stat", "total", "store", "cancel", "normal"}
      BY <3>2 DEF Starts, Walked, Tells, Changing
    <3>3. QED
      BY <1>3, <3>1, <3>2, DeleteStep
  <2>4. QED
    BY <2>1, <2>2, <2>3, GoesStarts, ToldStep
<1>4. CASE Cancel(p)
  <2>1. /\ After(p, "cancel", loc[p]) /\ Alone(p) /\ hist'.behind = hist.behind
        /\ Bin(p) # "dir" /\ Changes(Bin(p), Append(list[Bin(p)], Trash(loc[p].fh)))
    BY <1>4, CancelStep DEF After, Walked, Removed
  <2>2. cache' = cache
    BY <1>4 DEF Cancel
  <2>3. QED
    BY <2>1, <2>2, GoesAfter, SameEndIs, ToldStep
<1>5. CASE Normal(p)
  <2>1. After(p, "normal", loc[p]) /\ Alone(p) /\ Goes(p)
    BY <1>5, NormalStep, GoesAfter DEF After, Walked
  <2>2. SameEnd /\ hist'.behind = hist.behind
    BY <1>1, <1>5, NormalStep, TurnedEnd, SameEndIs, BehindKept
  <2>3. cache' = cache
    BY <1>5 DEF Normal
  <2>4. QED
    BY <2>1, <2>2, <2>3, ToldStep
<1>6. CASE Flag(p)
  <2>1. Alone(p) /\ Left(p) = {} /\ hist'.behind = hist.behind
    BY <1>6, FlagStep DEF Rests, Walked
  <2>2. SameEnd
    BY <1>6, FlagStep, MarkedEnd, SameEndIs
  <2>3. cache' = cache
    BY <1>6 DEF Flag
  <2>4. QED
    BY <2>1, <2>2, <2>3, GoesStarts, ToldStep
<1>7. CASE EditStart(p)
  <2>1. Alone(p) /\ Left(p) = {}
    BY <1>7, EditStartStep DEF Starts, Walked
  <2>2. list' = list /\ cache' = cache /\ hist' = hist
    BY <1>7 DEF EditStart, board
  <2>3. QED
    BY <2>1, <2>2, GoesStarts, SameEndIs, ToldStep
<1>8. CASE EditSave(p)
  <2>1. Alone(p) /\ Goes(p)
    BY <1>8, EditSaveStep, GoesAfter DEF After, Walked
  <2>2. list' = list /\ cache' = cache /\ hist' = hist
    BY <1>8 DEF EditSave
  <2>3. QED
    BY <2>1, <2>2, SameEndIs, ToldStep
<1>9. CASE EditEnter(p)
  <2>1. /\ After(p, "enter", loc[p]) /\ Alone(p) /\ hist'.behind = hist.behind
        /\ Left(p) = {"enter", "stat", "total", "store"}
    BY <1>9, EditEnterStep DEF After, Walked
  <2>2. Goes(p) /\ Tells(p)
    BY <2>1, GoesAfter DEF After, Tells, Changing
  <2>3. cache' = cache
    BY <1>9 DEF EditEnter
  <2>4. QED
    BY <2>1, <2>2, <2>3, ToldStep
<1>10. QED
  BY <1>2, <1>3, <1>4, <1>5, <1>6, <1>7, <1>8, <1>9 DEF Session

(* The index a range is deleted from is as long as when it was read. *)
LEMMA ToldManager ==
    ASSUME BaseInv, Told, NEW p \in Procs, Manager(p),
           RangeEnd(p) => Len(loc[p].read) = Len(list[loc[p].view])
    PROVE  Told'
<1>1. Typed
  BY DEF BaseInv
<1>2. CASE RangeLock(p)
  <2>1. Alone(p) /\ Left(p) = {}
    BY <1>2, RangeLockStep DEF Ranges, Starts, Walked
  <2>2. list' = list /\ cache' = cache /\ hist' = hist
    BY <1>2 DEF RangeLock
  <2>3. QED
    BY <2>1, <2>2, GoesStarts, SameEndIs, ToldStep
<1>3. CASE RangeCancel(p)
  <2>1. Alone(p) /\ Left(p)' = Left(p) /\ SameEnd
    BY <1>3, RangeCancelStep, SameEndIs DEF Cancels, Walked
  <2>2. Goes(p) /\ cache' = cache /\ hist' = hist
    BY <1>3, <2>1 DEF RangeCancel, Goes
  <2>3. QED
    BY <2>1, <2>2, ToldStep
<1>4. CASE RangeEnd(p)
  <2>1. /\ After(p, "range", loc[p]) /\ Alone(p)
        /\ Left(p) = {"range", "stat", "total", "store"}
    BY <1>4, RangeEndStep DEF After, Walked
  <2>2. Goes(p) /\ Tells(p)
    BY <2>1, GoesAfter DEF After, Tells, Changing
  <2>3. hist'.behind = hist.behind /\ cache' = cache
    BY <1>1, <1>4, BehindKept DEF RangeEnd
  <2>4. QED
    BY <2>1, <2>2, <2>3, ToldStep
<1>5. CASE Digest(p)
  <2>1. Alone(p) /\ Left(p) = {}
    BY <1>5, DigestStep DEF Starts, Walked
  <2>2. list' = list /\ cache' = cache /\ hist'.behind = hist.behind
    BY <1>1, <1>5, BehindKept DEF Digest, board
  <2>3. QED
    BY <2>1, <2>2, GoesStarts, SameEndIs, ToldStep
<1>6. CASE Excerpt(p)
  <2>1. Alone(p) /\ Goes(p) /\ SameEnd
    BY <1>6, ExcerptStep, GoesAfter, SameEndIs DEF After, Walked
  <2>2. cache' = cache /\ hist' = hist
    BY <1>6 DEF Excerpt
  <2>3. QED
    BY <2>1, <2>2, ToldStep
<1>7. CASE Undigest(p)
  <2>1. cache' = cache
    BY <1>7 DEF Undigest
  <2>2. CASE /\ Walked(p) /\ list' = list /\ hist' = hist
             /\ Left(p) = {"undigest", "unlink", "toggle"} /\ Left(p)' = {"toggle"}
    <3>1. Alone(p) /\ Goes(p)
      BY <2>2 DEF Walked, Goes
    <3>2. QED
      BY <2>1, <2>2, <3>1, SameEndIs, ToldStep
  <2>3. ASSUME NEW i, Changes("digest", RemoveAt(list["digest"], i)),
               Drop({FileOf(list["digest"][i])} \ {<<"G", loc[p].fh.filetime>>}),
               After(p, "undigest", loc[p])
        PROVE  Told'
    <3>1. Alone(p) /\ Goes(p) /\ SameEnd /\ hist'.behind = hist.behind
      BY <1>1, <2>3, GoesAfter, SameEndIs, BehindKept DEF After, Walked
    <3>2. QED
      BY <2>1, <3>1, ToldStep
  <2>4. QED
    BY <1>7, <2>2, <2>3, UndigestStep
<1>8. CASE UndigestUnlink(p)
  <2>1. Alone(p) /\ Goes(p)
    BY <1>8, UndigestUnlinkStep, GoesAfter DEF After, Walked
  <2>2. list' = list /\ cache' = cache /\ hist' = hist
    BY <1>8 DEF UndigestUnlink
  <2>3. QED
    BY <2>1, <2>2, SameEndIs, ToldStep
<1>9. CASE Toggle(p)
  <2>1. Alone(p) /\ Goes(p)
    BY <1>9, ToggleStep, GoesAfter DEF After, Walked
  <2>2. SameEnd /\ hist'.behind = hist.behind
    BY <1>1, <1>9, ToggleStep, TurnedEnd, SameEndIs, BehindKept
  <2>3. cache' = cache
    BY <1>9 DEF Toggle
  <2>4. QED
    BY <2>1, <2>2, <2>3, ToldStep
<1>10. CASE Undelete(p)
  <2>1. Alone(p) /\ Left(p) = {}
    BY <1>10, UndeleteStep DEF Starts, Walked
  <2>2. list' = list /\ cache' = cache /\ hist' = hist
    BY <1>10 DEF Undelete, board
  <2>3. QED
    BY <2>1, <2>2, GoesStarts, SameEndIs, ToldStep
<1>11. CASE Relink(p)
  <2>1. Alone(p) /\ Goes(p) /\ hist'.behind = hist.behind
    BY <1>1, <1>11, RelinkStep, GoesAfter, BehindKept DEF After, Walked, Stays, Moves
  <2>2. list' = list /\ cache' = cache
    BY <1>11 DEF Relink
  <2>3. QED
    BY <2>1, <2>2, SameEndIs, ToldStep
<1>12. CASE Strike(p)
  <2>1. /\ Alone(p) /\ Goes(p) /\ Drop(UnderPen(p)) /\ loc[p].view # "dir"
        /\ \E d : Changes(loc[p].view, d)
    BY <1>12, StrikeStep, GoesAfter DEF After, Walked, Removed
  <2>2. SameEnd /\ hist'.behind = hist.behind /\ cache' = cache
    BY <1>1, <1>12, <2>1, SameEndIs, BehindKept DEF Strike
  <2>3. QED
    BY <2>1, <2>2, ToldStep
<1>13. QED
  BY <1>2, <1>3, <1>4, <1>5, <1>6, <1>7, <1>8, <1>9, <1>10, <1>11, <1>12 DEF Manager

LEMMA ToldCron ==
    ASSUME BaseInv, Told, NEW p \in Procs, Cron(p)
    PROVE  Told'
<1>1. Typed
  BY DEF BaseInv
<1>2. CASE JunkRead(p)
  <2>1. Alone(p) /\ Left(p) = {}
    BY <1>2, JunkReadStep DEF Copies, Starts, Walked
  <2>2. list' = list /\ cache' = cache /\ hist' = hist
    BY <1>2 DEF JunkRead, board
  <2>3. QED
    BY <2>1, <2>2, GoesStarts, SameEndIs, ToldStep
<1>3. CASE JunkSwap(p)
  <2>1. /\ Alone(p) /\ Goes(p) /\ loc[p].view # "dir" /\ Changes(loc[p].view, loc[p].read)
        /\ Drop(FilesOf(list[loc[p].view]) \ FilesOf(loc[p].read))
    BY <1>3, JunkSwapStep, GoesAfter DEF After, Walked, Removed
  <2>2. SameEnd /\ hist'.behind = hist.behind /\ cache' = cache
    BY <1>1, <1>3, <2>1, SameEndIs, BehindKept DEF JunkSwap
  <2>3. QED
    BY <2>1, <2>2, ToldStep
<1>4. CASE LostStart(p)
  <2>1. Alone(p) /\ Left(p) = {}
    BY <1>4, LostStartStep DEF Searches, Starts, Walked
  <2>2. list' = list /\ cache' = cache /\ hist' = hist
    BY <1>4 DEF LostStart, board
  <2>3. QED
    BY <2>1, <2>2, GoesStarts, SameEndIs, ToldStep
<1>5. CASE LostRead(p)
  <2>1. Alone(p) /\ Goes(p)
    BY <1>5, LostReadStep, GoesAfter DEF After, Walked, Lists
  <2>2. list' = list /\ cache' = cache /\ hist' = hist
    BY <1>5 DEF LostRead, board
  <2>3. QED
    BY <2>1, <2>2, SameEndIs, ToldStep
<1>6. CASE RmLost(p)
  <2>1. Alone(p) /\ Goes(p)
    BY <1>6, RmLostStep, GoesAfter DEF After, Walked
  <2>2. list' = list /\ cache' = cache /\ hist' = hist
    BY <1>6 DEF RmLost
  <2>3. QED
    BY <2>1, <2>2, SameEndIs, ToldStep
<1>7. QED
  BY <1>2, <1>3, <1>4, <1>5, <1>6 DEF Cron

-----------------------------------------------------------------------------
(***************************************************************************)
(* What is noted stays noted, but for what the cache has not seen.         *)
(***************************************************************************)
Grows == /\ hist.freed \subseteq hist'.freed /\ hist.stale \subseteq hist'.stale
         /\ hist.dropped \subseteq hist'.dropped /\ hist.crossed \subseteq hist'.crossed

LEMMA GrowsIs ==
    ASSUME Typed
    PROVE  /\ hist' = hist => Grows
           /\ \A names : Cross(names) => Grows
           /\ \A t : GiveUp(t) => Grows
           /\ \A files : Drop(files) => Grows
           /\ \A files : Keep(files) => Grows
           /\ \A b : hist' = [hist EXCEPT !.behind = b] => Grows
           /\ \A c, d : /\ hist' = [hist EXCEPT !.crossed = c, !.dropped = d]
                        /\ hist.crossed \subseteq c /\ hist.dropped \subseteq d
                        => Grows
<1>1. hist \in Marks
  BY DEF Typed
<1>2. QED
  BY <1>1 DEF Marks, Grows, Cross, GiveUp, Drop, Keep

LEMMA GrowsSession ==
    ASSUME BaseInv, NEW p \in Procs, Stat(p) \/ StoreTotal(p) \/ Store(p) \/ Post(p) \/ Session(p)
    PROVE  Grows
<1>1. Typed
  BY DEF BaseInv
<1>2. CASE Stat(p) \/ StoreTotal(p) \/ Store(p)
  BY <1>1, <1>2, GrowsIs DEF Stat, StoreTotal, Store, Behind
<1>3. CASE PostStart(p) \/ WebPost(p) \/ PostAbort(p) \/ AppendLine(p)
  BY <1>1, <1>3, GrowsIs DEF PostStart, WebPost, PostAbort, AppendLine
<1>4. CASE PostEnd(p)
  BY <1>1, <1>4, PostEndStep, GrowsIs DEF Kept, Renamed
<1>5. CASE Delete(p)
  <2>1. \/ hist' = hist
        \/ \E c, d : /\ hist' = [hist EXCEPT !.crossed = c, !.dropped = d]
                     /\ hist.crossed \subseteq c /\ hist.dropped \subseteq d
    <3>1. PICK c, d :
             /\ c = IF loc[p].view = "digest" /\ Excerpting(loc[p].fh.filetime) # {}
                    THEN hist.crossed \cup {loc[p].fh.filetime} ELSE hist.crossed
             /\ d = hist.dropped \cup ({FileOf(list[loc[p].view][Seen(p)])} \ {FileOf(loc[p].fh)})
      OBVIOUS
    <3>2. hist' = hist \/ hist' = [hist EXCEPT !.crossed = c, !.dropped = d]
      BY <1>5, <3>1 DEF Delete
    <3>3. hist.crossed \subseteq c /\ hist.dropped \subseteq d
      BY <3>1
    <3>4. QED
      BY <3>2, <3>3
  <2>2. QED
    BY <1>1, <2>1, GrowsIs
<1>6. CASE View(p) \/ Cancel(p) \/ Flag(p) \/ EditStart(p) \/ EditSave(p) \/ EditEnter(p)
  BY <1>1, <1>6, GrowsIs DEF View, Cancel, Flag, EditStart, EditSave, EditEnter
<1>7. CASE Normal(p)
  BY <1>1, <1>7, NormalStep, GrowsIs
<1>8. QED
  BY <1>2, <1>3, <1>4, <1>5, <1>6, <1>7 DEF Post, Session

LEMMA GrowsOthers ==
    ASSUME BaseInv, NEW p \in Procs, Web(p) \/ Manager(p) \/ Cron(p)
    PROVE  Grows
<1>1. Typed
  BY DEF BaseInv
<1>2. CASE WebFind(p) \/ WebRemove(p)
  BY <1>1, <1>2, GrowsIs DEF WebFind, WebRemove
<1>3. CASE put_record(p)
  <2>1. \E c, d : /\ hist' = [hist EXCEPT !.crossed = c, !.dropped = d]
                  /\ hist.crossed \subseteq c /\ hist.dropped \subseteq d
    <3>1. PICK c, d :
             /\ c = IF loc[p].ent \in DOMAIN list["dir"] /\ list["dir"][loc[p].ent] = loc[p].fh
                    THEN hist.crossed ELSE hist.crossed \cup {loc[p].fh.filetime}
             /\ d = hist.dropped \cup UnderPen(p)
      OBVIOUS
    <3>2. hist' = [hist EXCEPT !.crossed = c, !.dropped = d]
      BY <1>3, <3>1 DEF put_record
    <3>3. hist.crossed \subseteq c /\ hist.dropped \subseteq d
      BY <3>1
    <3>4. QED
      BY <3>2, <3>3
  <2>2. QED
    BY <1>1, <2>1, GrowsIs
<1>4. CASE do_set(p)
  BY <1>1, <1>4, DoSetStep, GrowsIs
<1>5. CASE RangeLock(p) \/ RangeCancel(p) \/ RangeEnd(p) \/ Digest(p) \/ Excerpt(p)
  BY <1>1, <1>5, GrowsIs DEF RangeLock, RangeCancel, RangeEnd, Digest, Excerpt
<1>6. CASE Undigest(p) \/ UndigestUnlink(p) \/ Toggle(p) \/ Undelete(p) \/ Strike(p)
  <2>1. CASE Undigest(p)
    BY <1>1, <2>1, UndigestStep, GrowsIs
  <2>2. CASE Toggle(p)
    BY <1>1, <2>2, ToggleStep, GrowsIs
  <2>3. QED
    BY <1>1, <1>6, <2>1, <2>2, GrowsIs DEF UndigestUnlink, Undelete, Strike
<1>7. CASE Relink(p)
  <2>1. PICK l : Stays(p, l) \/ \E t \in Names : Moves(p, t, l)
    BY <1>7, RelinkStep
  <2>2. CASE Stays(p, l)
    BY <1>1, <2>2, GrowsIs DEF Stays
  <2>3. CASE \E t \in Names : Moves(p, t, l)
    BY <2>3 DEF Moves, Grows
  <2>4. QED
    BY <2>1, <2>2, <2>3
<1>8. CASE Cron(p)
  BY <1>1, <1>8, GrowsIs DEF Cron, JunkRead, JunkSwap, LostStart, LostRead, RmLost
<1>9. QED
  BY <1>2, <1>3, <1>4, <1>5, <1>6, <1>7, <1>8 DEF Web, Manager

-----------------------------------------------------------------------------
(***************************************************************************)
(* Deletions of a range: the index is left alone, but for flags.           *)
(***************************************************************************)
Guarded(l) ==
    \/ list'[l] = list[l]
    \/ lock[l] = Nobody
    \/ /\ l = "dir"
       /\ \E i, h : /\ Marked(i, h)
                    /\ \/ h.digest = list["dir"][i].digest
                       \/ list["dir"][i].filetime \in hist'.crossed

LEMMA GuardedAlike ==
    ASSUME BaseInv, Grows, NEW l \in {"dir", "digest"}, Guarded(l), lock[l] # Nobody,
           NEW read, DOMAIN read \subseteq DOMAIN list[l],
           \A i \in DOMAIN read : Alike(read[i], list[l][i])
    PROVE  /\ Len(list'[l]) = Len(list[l])
           /\ \A i \in DOMAIN read : Alike(read[i], list[l][i])'
<1>1. CASE list'[l] = list[l]
  BY <1>1 DEF Alike, Grows
<1>2. ASSUME l = "dir", NEW i, NEW h, Marked(i, h),
             h.digest = list["dir"][i].digest \/ list["dir"][i].filetime \in hist'.crossed
      PROVE  /\ Len(list'[l]) = Len(list[l])
             /\ \A j \in DOMAIN read : Alike(read[j], list[l][j])'
  <2>1. list["dir"] \in Seq(Header) /\ i \in DOMAIN list["dir"] /\ Amended(h, list["dir"][i])
        /\ list'["dir"] = [list["dir"] EXCEPT ![i] = h] /\ h \in Header
    BY <1>2 DEF BaseInv, Typed, Lists, Marked, Changes, Amended
  <2>2. PICK d : d = [list["dir"] EXCEPT ![i] = h]
    OBVIOUS
  <2>3. Len(d) = Len(list["dir"]) /\ d[i] = h /\ \A j \in DOMAIN list["dir"] \ {i} : d[j] = list["dir"][j]
    BY <2>1, <2>2, AmendIs
  <2>4. list'["dir"] = d
    BY <2>1, <2>2
  <2>5. ASSUME NEW j \in DOMAIN read PROVE Alike(read[j], list[l][j])'
    <3>1. Alike(read[j], list["dir"][j])
      BY <1>2
    <3>2. CASE j # i
      BY <1>2, <2>3, <2>4, <3>1, <3>2 DEF Alike, Grows
    <3>3. CASE j = i
      BY <1>2, <2>1, <2>3, <2>4, <3>1, <3>3 DEF Alike, Grows, Amended, FileOf
    <3>4. QED
      BY <3>2, <3>3
  <2>6. QED
    BY <1>2, <2>3, <2>4, <2>5
<1>3. QED
  BY <1>1, <1>2 DEF Guarded

LEMMA RangeStep ==
    ASSUME BaseInv, RangeInv, Grows, NEW p \in Procs, Alone(p), lock' = lock,
           "range" \in Left(p)' <=> "range" \in Left(p),
           "range" \in Left(p) => loc'[p].view = loc[p].view /\ loc'[p].read = loc[p].read,
           \A l \in {"dir", "digest"} : Guarded(l)
    PROVE  RangeInv'
<1>1. ASSUME NEW q \in Procs
      PROVE  /\ "range" \in Left(q)' <=> "range" \in Left(q)
             /\ "range" \in Left(q) => loc'[q].view = loc[q].view /\ loc'[q].read = loc[q].read
  BY DEF Alone
<1>2. \A l \in {"dir", "digest"} : lock[l] # Nobody => lock[l] \in Procs
  BY DEF BaseInv, Typed
<1>3. ASSUME NEW l \in {"dir", "digest"}, lock'[l] # Nobody
      PROVE  "range" \in Left(lock[l])' /\ loc'[lock[l]].view = l
  BY <1>1, <1>2, <1>3 DEF RangeInv
<1>4. ASSUME NEW q \in Procs, "range" \in Left(q)'
      PROVE  /\ loc'[q].view \in {"dir", "digest"} /\ lock'[loc'[q].view] = q
             /\ Len(loc'[q].read) = Len(list'[loc'[q].view])
             /\ \A i \in DOMAIN loc'[q].read : Alike(loc[q].read[i], list[loc[q].view][i])'
  <2>1. "range" \in Left(q) /\ loc'[q].view = loc[q].view /\ loc'[q].read = loc[q].read
    BY <1>1, <1>4
  <2>2. PICK l, read : l = loc[q].view /\ read = loc[q].read
    OBVIOUS
  <2>3. /\ l \in {"dir", "digest"} /\ lock[l] = q /\ Len(read) = Len(list[l])
        /\ \A i \in DOMAIN read : Alike(read[i], list[l][i])
    BY <2>1, <2>2 DEF RangeInv
  <2>4. DOMAIN read \subseteq DOMAIN list[l]
    <3>1. read \in Seq(Header) /\ list[l] \in Seq(Header)
      BY <2>2, <2>3 DEF BaseInv, Typed, Locals, Lists
    <3>2. QED
      BY <2>3, <3>1, HeaderIs
  <2>5. lock[l] # Nobody
    BY <2>3, ConstantsAre
  <2>6. /\ Len(list'[l]) = Len(list[l])
        /\ \A i \in DOMAIN read : Alike(read[i], list[l][i])'
    BY <2>3, <2>4, <2>5, GuardedAlike
  <2>7. loc'[q].view = l /\ loc'[q].read = read
    BY <2>1, <2>2
  <2>8. ASSUME NEW i \in DOMAIN loc'[q].read
        PROVE  Alike(loc[q].read[i], list[loc[q].view][i])'
    <3>1. i \in DOMAIN read /\ Alike(read[i], list[l][i])'
      BY <2>6, <2>7
    <3>2. QED
      BY <2>7, <3>1 DEF Alike
  <2>9. QED
    BY <2>3, <2>6, <2>7, <2>8
<1>5. QED
  BY <1>3, <1>4 DEF RangeInv

(* Whoever has no range to delete. *)
LEMMA RangeQuiet ==
    ASSUME BaseInv, RangeInv, Grows, NEW p \in Procs, Alone(p), lock' = lock,
           "range" \notin Left(p)', "range" \notin Left(p),
           Guarded("dir"), Guarded("digest")
    PROVE  RangeInv'
BY RangeStep

LEMMA GuardedIs ==
    /\ list' = list => Guarded("dir") /\ Guarded("digest")
    /\ \A l \in Lists : \A d : Changes(l, d) /\ (l \in {"dir", "digest"} => lock[l] = Nobody) =>
           Guarded("dir") /\ Guarded("digest")
    /\ lock["dir"] = Nobody /\ list'["digest"] = list["digest"] => Guarded("dir") /\ Guarded("digest")
BY DEF Guarded, Changes, Lists

LEMMA FreeIs ==
    ASSUME Typed, NEW l \in Lists, Free(l)
    PROVE  l \in {"dir", "digest"} => lock[l] = Nobody
BY DEF Typed, Free

LEMMA AfterQuiet ==
    ASSUME NEW p \in Procs, NEW x, NEW l, After(p, x, l), "range" \notin Left(p)
    PROVE  Alone(p) /\ "range" \notin Left(p)'
BY DEF After, Walked

LEMMA RangePost ==
    ASSUME BaseInv, RangeInv, NEW p \in Procs, Stat(p) \/ StoreTotal(p) \/ Store(p) \/ Post(p)
    PROVE  RangeInv'
<1>1. Typed /\ Grows
  BY GrowsSession DEF BaseInv
<1>2. CASE Stat(p)
  <2>1. Alone(p) /\ "range" \notin Left(p) /\ "range" \notin Left(p)'
    BY <1>1, <1>2, StatStep, LeftIs DEF After, Walked, Stat
  <2>2. QED
    BY <1>1, <1>2, <2>1, RangeQuiet, GuardedIs DEF Stat, board
<1>3. CASE StoreTotal(p)
  <2>1. Alone(p) /\ "range" \notin Left(p) /\ "range" \notin Left(p)'
    BY <1>1, <1>3, StoreTotalStep, LeftIs DEF After, Walked, StoreTotal
  <2>2. QED
    BY <1>1, <1>3, <2>1, RangeQuiet, GuardedIs DEF StoreTotal, board
<1>4. CASE Store(p)
  <2>1. Alone(p) /\ "range" \notin Left(p) /\ "range" \notin Left(p)'
    BY <1>1, <1>4, StoreStep, LeftIs DEF After, Walked, Store
  <2>2. QED
    BY <1>1, <1>4, <2>1, RangeQuiet, GuardedIs DEF Store, board
<1>5. CASE PostStart(p) \/ WebPost(p)
  <2>1. Alone(p) /\ "range" \notin Left(p) /\ "range" \notin Left(p)'
    BY <1>5, PostStartStep, WebPostStep, ElementsOf DEF Begun, Starts, Walked
  <2>2. list' = list /\ lock' = lock
    BY <1>5 DEF PostStart, WebPost
  <2>3. QED
    BY <1>1, <2>1, <2>2, RangeQuiet, GuardedIs
<1>6. CASE PostAbort(p)
  <2>1. Alone(p) /\ "range" \notin Left(p) /\ "range" \notin Left(p)'
    <3>1. "range" \notin Left(p)
      BY <1>1, <1>6, LeftIs DEF PostAbort
    <3>2. QED
      BY <1>6, <3>1, PostAbortStep DEF Rests, Walked
  <2>2. list' = list /\ lock' = lock
    BY <1>6 DEF PostAbort
  <2>3. QED
    BY <1>1, <2>1, <2>2, RangeQuiet, GuardedIs
<1>7. CASE PostEnd(p)
  <2>1. Alone(p) /\ "range" \notin Left(p) /\ "range" \notin Left(p)'
    <3>1. "range" \notin Left(p)
      <4>1. At(p, "write")
        BY <1>7 DEF PostEnd
      <4>2. QED
        BY <1>1, <4>1, LeftIs
    <3>2. PICK l : After(p, "write", l)
      BY <1>7, PostEndStep DEF Kept, Renamed
    <3>3. QED
      BY <3>1, <3>2, AfterQuiet
  <2>2. list' = list /\ lock' = lock
    BY <1>7 DEF PostEnd
  <2>3. QED
    BY <1>1, <2>1, <2>2, RangeQuiet, GuardedIs
<1>8. CASE AppendLine(p)
  <2>1. Alone(p) /\ "range" \notin Left(p) /\ "range" \notin Left(p)'
    <3>1. "range" \notin Left(p)
      BY <1>1, <1>8, LeftIs DEF AppendLine
    <3>2. QED
      BY <1>8, <3>1, AppendLineStep, AfterQuiet
  <2>2. lock' = lock /\ Free(loc[p].into) /\ loc[p].into \in Lists
    BY <1>8, OwnLocals DEF AppendLine
  <2>3. Guarded("dir") /\ Guarded("digest")
    BY <1>1, <1>8, <2>2, AppendLineStep, FreeIs, GuardedIs
  <2>4. QED
    BY <1>1, <2>1, <2>2, <2>3, RangeQuiet
<1>9. QED
  BY <1>2, <1>3, <1>4, <1>5, <1>6, <1>7, <1>8 DEF Post

LEMMA RangeWeb ==
    ASSUME BaseInv, RangeInv, NEW p \in Procs, Web(p)
    PROVE  RangeInv'
<1>1. Typed /\ Grows
  BY GrowsOthers DEF BaseInv
<1>2. CASE WebFind(p)
  <2>1. Alone(p) /\ "range" \notin Left(p) /\ "range" \notin Left(p)'
    <3>1. PICK l, s : /\ Starts(p, s, l)
                      /\ ToSet(s) \in {{"remove", "cancel", "stat", "total", "store"},
                                        {"put", "stat", "total", "store"}}
      BY <1>2, WebFindStep
    <3>2. QED
      BY <3>1 DEF Starts, Walked
  <2>2. QED
    BY <1>1, <1>2, <2>1, RangeQuiet, GuardedIs DEF WebFind, board
<1>3. CASE WebRemove(p)
  <2>1. Alone(p) /\ "range" \notin Left(p) /\ "range" \notin Left(p)'
    BY <1>3, WebRemoveStep DEF After, Walked
  <2>2. lock' = lock /\ Free("dir")
    BY <1>3 DEF WebRemove
  <2>3. Guarded("dir") /\ Guarded("digest")
    <3>1. list' = list \/ Changes("dir", RemoveAt(list["dir"], loc[p].ent))
      BY <1>3, WebRemoveStep
    <3>2. lock["dir"] = Nobody
      BY <1>1, <2>2, FreeIs DEF Lists
    <3>3. QED
      BY <3>1, <3>2, GuardedIs DEF Lists
  <2>4. QED
    BY <1>1, <2>1, <2>2, <2>3, RangeQuiet
<1>4. CASE put_record(p)
  <2>1. Alone(p) /\ "range" \notin Left(p) /\ "range" \notin Left(p)'
    <3>1. After(p, "put", loc[p]) /\ Left(p) = {"put", "stat", "total", "store"}
      BY <1>4, PutRecordStep
    <3>2. QED
      BY <3>1, AfterQuiet
  <2>2. lock' = lock /\ Free("dir")
    BY <1>4 DEF put_record
  <2>3. Guarded("dir") /\ Guarded("digest")
    <3>1. \E d : Changes("dir", d)
      BY <1>4, PutRecordStep
    <3>2. lock["dir"] = Nobody
      BY <1>1, <2>2, FreeIs DEF Lists
    <3>3. QED
      BY <3>1, <3>2, GuardedIs DEF Lists
  <2>4. QED
    BY <1>1, <2>1, <2>2, <2>3, RangeQuiet
<1>5. CASE do_set(p)
  <2>1. Alone(p) /\ "range" \notin Left(p) /\ "range" \notin Left(p)'
    BY <1>5, DoSetStep DEF Starts, Walked
  <2>2. PICK i, h, c : /\ Marked(i, h) /\ Cross(c) /\ c \subseteq Times0
                       /\ h.digest = list["dir"][i].digest \/ list["dir"][i].filetime \in c
    BY <1>5, DoSetStep DEF Times0
  <2>3. hist'.crossed = hist.crossed \cup c
    BY <1>1, <2>2, MarksAre
  <2>4. Guarded("dir") /\ list'["digest"] = list["digest"]
    BY <2>2, <2>3 DEF Guarded, Marked, Changes, Lists
  <2>5. Guarded("digest") /\ lock' = lock
    BY <1>5, <2>4 DEF Guarded, do_set
  <2>6. QED
    BY <1>1, <2>1, <2>4, <2>5, RangeQuiet
<1>6. QED
  BY <1>2, <1>3, <1>4, <1>5 DEF Web

LEMMA RangeSession ==
    ASSUME BaseInv, RangeInv, NEW p \in Procs, Session(p)
    PROVE  RangeInv'
<1>1. Typed /\ Grows
  BY GrowsSession DEF BaseInv
<1>2. CASE View(p)
  <2>1. Alone(p) /\ "range" \notin Left(p) /\ "range" \notin Left(p)'
    BY <1>2, ViewStep DEF Views, Walked
  <2>2. QED
    BY <1>1, <1>2, <2>1, RangeQuiet, GuardedIs DEF View, board
<1>3. CASE Delete(p)
  <2>1. lock' = lock /\ Free(loc[p].view) /\ loc[p].view \in Lists
    BY <1>3, OwnLocals DEF Delete
  <2>2. CASE Rests(p) /\ list' = list
    <3>1. Alone(p) /\ "range" \notin Left(p) /\ "range" \notin Left(p)'
      BY <1>3, <2>2, DeleteStep DEF Rests, Walked
    <3>2. QED
      BY <1>1, <2>1, <2>2, <3>1, RangeQuiet, GuardedIs
  <2>3. CASE /\ Starts(p, AfterDelete(loc[p].view), loc[p])
             /\ \E d : Changes(loc[p].view, d)
             /\ Left(p)' \subseteq {"stat", "total", "store", "cancel", "normal"}
    <3>1. Alone(p) /\ "range" \notin Left(p) /\ "range" \notin Left(p)'
      BY <2>3 DEF Starts, Walked
    <3>2. Guarded("dir") /\ Guarded("digest")
      BY <1>1, <2>1, <2>3, FreeIs, GuardedIs
    <3>3. QED
      BY <1>1, <2>1, <3>1, <3>2, RangeQuiet
  <2>4. QED
    BY <1>3, <2>2, <2>3, DeleteStep
<1>4. CASE Cancel(p)
  <2>1. "range" \notin Left(p)
    BY <1>1, <1>4, LeftIs DEF Cancel
  <2>2. Alone(p) /\ "range" \notin Left(p)'
    BY <1>4, <2>1, CancelStep, AfterQuiet
  <2>3. Guarded("dir") /\ Guarded("digest") /\ lock' = lock
    BY <1>4, CancelStep, GuardedIs DEF Cancel, Removed, Lists
  <2>4. QED
    BY <1>1, <2>1, <2>2, <2>3, RangeQuiet
<1>5. CASE Normal(p)
  <2>1. Alone(p) /\ "range" \notin Left(p) /\ "range" \notin Left(p)'
    <3>1. After(p, "normal", loc[p]) /\ Left(p) = {"normal"}
      BY <1>5, NormalStep
    <3>2. QED
      BY <3>1, AfterQuiet
  <2>2. lock' = lock /\ lock["dir"] = Nobody
    BY <1>1, <1>5, FreeIs DEF Normal, Lists
  <2>3. list'["digest"] = list["digest"]
    BY <1>5, NormalStep DEF Marked, Changes, Lists
  <2>4. QED
    BY <1>1, <2>1, <2>2, <2>3, RangeQuiet, GuardedIs
<1>6. CASE Flag(p)
  <2>1. Alone(p) /\ "range" \notin Left(p) /\ "range" \notin Left(p)'
    BY <1>6, FlagStep DEF Rests, Walked
  <2>2. lock' = lock /\ lock["dir"] = Nobody
    BY <1>1, <1>6, FreeIs DEF Flag, Lists
  <2>3. list'["digest"] = list["digest"]
    BY <1>6, FlagStep DEF Marked, Changes, Lists
  <2>4. QED
    BY <1>1, <2>1, <2>2, <2>3, RangeQuiet, GuardedIs
<1>7. CASE EditStart(p)
  <2>1. Alone(p) /\ "range" \notin Left(p) /\ "range" \notin Left(p)'
    BY <1>7, EditStartStep DEF Starts, Walked
  <2>2. QED
    BY <1>1, <1>7, <2>1, RangeQuiet, GuardedIs DEF EditStart, board
<1>8. CASE EditSave(p)
  <2>1. Alone(p) /\ "range" \notin Left(p) /\ "range" \notin Left(p)'
    BY <1>8, EditSaveStep DEF After, Walked
  <2>2. QED
    BY <1>1, <1>8, <2>1, RangeQuiet, GuardedIs DEF EditSave
<1>9. CASE EditEnter(p)
  <2>1. Alone(p) /\ "range" \notin Left(p) /\ "range" \notin Left(p)'
    BY <1>9, EditEnterStep DEF After, Walked
  <2>2. lock' = lock /\ lock["dir"] = Nobody
    BY <1>1, <1>9, FreeIs DEF EditEnter, Lists
  <2>3. list'["digest"] = list["digest"]
    BY <1>9, EditEnterStep DEF Marked, Changes, Lists
  <2>4. QED
    BY <1>1, <2>1, <2>2, <2>3, RangeQuiet, GuardedIs
<1>10. QED
  BY <1>2, <1>3, <1>4, <1>5, <1>6, <1>7, <1>8, <1>9 DEF Session

(* A range that is begun; the index is still as it was read. *)
LEMMA RangeBegins ==
    ASSUME BaseInv, RangeInv, NEW p \in Procs, RangeLock(p)
    PROVE  RangeInv'
<1>1. Grows /\ list' = list
  BY GrowsOthers DEF RangeLock, Manager
<1>2. PICK l : Ranges(p, l)
  BY RangeLockStep
<1>3. PICK v : v = l.view
  OBVIOUS
<1>4. /\ Alone(p) /\ Left(p) = {} /\ loc'[p] = l /\ "range" \in Left(p)'
      /\ v \in {"dir", "digest"} /\ l.read = list[v] /\ l.view = v
      /\ lock[v] = Nobody /\ lock' = [lock EXCEPT ![v] = p]
  BY <1>2, <1>3, ElementsOf DEF Ranges, Starts, Walked
<1>5. lock \in [{"dir", "digest"} -> Procs \cup {Nobody}]
  BY DEF BaseInv, Typed
<1>6. lock'[v] = p /\ \A m \in {"dir", "digest"} \ {v} : lock'[m] = lock[m]
  BY <1>4, <1>5
<1>7. ASSUME NEW m \in {"dir", "digest"}, lock'[m] # Nobody
      PROVE  "range" \in Left(lock[m])' /\ loc'[lock'[m]].view = m
  <2>1. CASE m = v
    BY <1>4, <1>6, <2>1
  <2>2. CASE m # v
    <3>1. lock'[m] = lock[m] /\ "range" \in Left(lock[m]) /\ loc[lock[m]].view = m /\ lock[m] \in Procs
      BY <1>5, <1>6, <1>7, <2>2 DEF RangeInv
    <3>2. lock[m] # p
      BY <1>4, <3>1
    <3>3. QED
      BY <1>4, <3>1, <3>2 DEF Alone
  <2>3. QED
    BY <2>1, <2>2
<1>8. ASSUME NEW q \in Procs, "range" \in Left(q)'
      PROVE  /\ loc'[q].view \in {"dir", "digest"} /\ lock'[loc'[q].view] = q
             /\ Len(loc'[q].read) = Len(list'[loc'[q].view])
             /\ \A i \in DOMAIN loc'[q].read : Alike(loc[q].read[i], list[loc[q].view][i])'
  <2>1. CASE q = p
    BY <1>1, <1>4, <1>6, <2>1 DEF Alike
  <2>2. CASE q # p
    <3>1. loc'[q] = loc[q] /\ "range" \in Left(q)
      BY <1>4, <1>8, <2>2 DEF Alone
    <3>2. /\ loc[q].view \in {"dir", "digest"} /\ lock[loc[q].view] = q
          /\ Len(loc[q].read) = Len(list[loc[q].view])
          /\ \A i \in DOMAIN loc[q].read : Alike(loc[q].read[i], list[loc[q].view][i])
      BY <3>1 DEF RangeInv
    <3>3. loc[q].view # v
      BY <1>4, <3>2, ConstantsAre
    <3>4. QED
      BY <1>1, <1>6, <3>1, <3>2, <3>3 DEF Alike, Grows
  <2>3. QED
    BY <2>1, <2>2
<1>9. QED
  BY <1>7, <1>8 DEF RangeInv

LEMMA RangeEnds ==
    ASSUME BaseInv, RangeInv, NEW p \in Procs, RangeEnd(p)
    PROVE  Len(loc[p].read) = Len(list[loc[p].view]) /\ RangeInv'
<1>1. Grows /\ "range" \in Left(p)
  <2>1. Typed /\ At(p, "range")
    BY DEF RangeEnd, BaseInv
  <2>2. QED
    BY <2>1, LeftIs, GrowsOthers DEF Manager
<1>2. Len(loc[p].read) = Len(list[loc[p].view]) /\ lock[loc[p].view] = p
  BY <1>1 DEF RangeInv
<1>3. PICK v : v = loc[p].view
  OBVIOUS
<1>4. PICK r : Changes(v, r)
  BY <1>2, <1>3, RangeEndStep
<1>5. /\ After(p, "range", loc[p]) /\ v \in {"dir", "digest"}
      /\ lock' = [lock EXCEPT ![v] = Nobody]
  BY <1>2, <1>3, RangeEndStep
<1>6. lock \in [{"dir", "digest"} -> Procs \cup {Nobody}]
  BY DEF BaseInv, Typed
<1>7. lock'[v] = Nobody /\ \A m \in {"dir", "digest"} \ {v} : lock'[m] = lock[m] /\ list'[m] = list[m]
  BY <1>4, <1>5, <1>6 DEF Changes, Lists
<1>8. Alone(p) /\ "range" \notin Left(p)'
  BY <1>5 DEF After, Walked
<1>9. ASSUME NEW m \in {"dir", "digest"}, lock'[m] # Nobody
      PROVE  "range" \in Left(lock[m])' /\ loc'[lock'[m]].view = m
  <2>1. lock'[m] = lock[m] /\ "range" \in Left(lock[m]) /\ loc[lock[m]].view = m /\ lock[m] \in Procs
        /\ m # v
    BY <1>6, <1>7, <1>9 DEF RangeInv
  <2>2. lock[m] # p
    BY <1>3, <2>1
  <2>3. QED
    BY <1>8, <2>1, <2>2 DEF Alone
<1>10. ASSUME NEW q \in Procs, "range" \in Left(q)'
      PROVE  /\ loc'[q].view \in {"dir", "digest"} /\ lock'[loc'[q].view] = q
             /\ Len(loc'[q].read) = Len(list'[loc'[q].view])
             /\ \A i \in DOMAIN loc'[q].read : Alike(loc[q].read[i], list[loc[q].view][i])'
  <2>1. q # p
    BY <1>8, <1>10
  <2>2. loc'[q] = loc[q] /\ "range" \in Left(q)
    BY <1>8, <1>10, <2>1 DEF Alone
  <2>3. /\ loc[q].view \in {"dir", "digest"} /\ lock[loc[q].view] = q
        /\ Len(loc[q].read) = Len(list[loc[q].view])
        /\ \A i \in DOMAIN loc[q].read : Alike(loc[q].read[i], list[loc[q].view][i])
    BY <2>2 DEF RangeInv
  <2>4. loc[q].view # v
    BY <1>2, <1>3, <2>1, <2>3
  <2>5. QED
    BY <1>1, <1>7, <2>2, <2>3, <2>4 DEF Alike, Grows
<1>11. QED
  BY <1>2, <1>9, <1>10 DEF RangeInv

LEMMA RangeManager ==
    ASSUME BaseInv, RangeInv, NEW p \in Procs, Manager(p)
    PROVE  RangeInv'
<1>1. Typed /\ Grows
  BY GrowsOthers DEF BaseInv
<1>2. CASE RangeLock(p)
  BY <1>2, RangeBegins
<1>3. CASE RangeCancel(p)
  <2>1. PICK i : Cancels(p, i)
    BY <1>3, RangeCancelStep
  <2>2. Alone(p) /\ Left(p)' = Left(p) /\ \E d : Changes("deleted", d)
    BY <2>1 DEF Cancels, Walked
  <2>3. loc'[p].view = loc[p].view /\ loc'[p].read = loc[p].read
    BY <1>1, <2>1 DEF Cancels, Typed, Locals
  <2>4. Guarded("dir") /\ Guarded("digest") /\ lock' = lock
    BY <1>3, <2>2, GuardedIs DEF RangeCancel, Lists
  <2>5. QED
    BY <1>1, <2>2, <2>3, <2>4, RangeStep
<1>4. CASE RangeEnd(p)
  BY <1>4, RangeEnds
<1>5. CASE Digest(p)
  <2>1. PICK s : /\ Starts(p, s, loc[p])
                 /\ s \in {<<"undigest", "unlink", "toggle">>, <<"toggle">>, <<"excerpt", "toggle">>}
    BY <1>5, DigestStep
  <2>2. "range" \notin ToSet(s)
    BY <2>1, ElementsOf
  <2>3. Alone(p) /\ "range" \notin Left(p) /\ "range" \notin Left(p)'
    BY <2>1, <2>2 DEF Starts, Walked
  <2>4. QED
    BY <1>1, <1>5, <2>3, RangeQuiet, GuardedIs DEF Digest, board
<1>6. CASE Excerpt(p)
  <2>1. After(p, "excerpt", loc[p]) /\ Left(p) = {"excerpt", "toggle"} /\ \E d : Changes("digest", d)
    BY <1>6, ExcerptStep
  <2>2. Alone(p) /\ "range" \notin Left(p) /\ "range" \notin Left(p)'
    BY <2>1, AfterQuiet
  <2>3. lock' = lock /\ lock["digest"] = Nobody
    BY <1>1, <1>6, FreeIs DEF Excerpt, Lists
  <2>4. Guarded("dir") /\ Guarded("digest")
    BY <2>1, <2>3, GuardedIs DEF Lists
  <2>5. QED
    BY <1>1, <2>2, <2>3, <2>4, RangeQuiet
<1>7. CASE Undigest(p)
  <2>1. lock' = lock /\ lock["digest"] = Nobody
    BY <1>1, <1>7, FreeIs DEF Undigest, Lists
  <2>2. Left(p) = {"undigest", "unlink", "toggle"}
    BY <1>7, UndigestStep
  <2>3. CASE Walked(p) /\ Left(p)' = {"toggle"} /\ list' = list
    <3>1. Alone(p) /\ "range" \notin Left(p) /\ "range" \notin Left(p)'
      BY <2>2, <2>3 DEF Walked
    <3>2. QED
      BY <1>1, <2>1, <2>3, <3>1, RangeQuiet, GuardedIs
  <2>4. CASE After(p, "undigest", loc[p]) /\ \E d : Changes("digest", d)
    <3>1. Alone(p) /\ "range" \notin Left(p) /\ "range" \notin Left(p)'
      BY <2>2, <2>4, AfterQuiet
    <3>2. Guarded("dir") /\ Guarded("digest")
      BY <2>1, <2>4, GuardedIs DEF Lists
    <3>3. QED
      BY <1>1, <2>1, <3>1, <3>2, RangeQuiet
  <2>5. QED
    BY <1>7, <2>3, <2>4, UndigestStep
<1>8. CASE UndigestUnlink(p)
  <2>1. After(p, "unlink", loc[p]) /\ Left(p) = {"unlink", "toggle"}
    BY <1>8, UndigestUnlinkStep
  <2>2. Alone(p) /\ "range" \notin Left(p) /\ "range" \notin Left(p)'
    BY <2>1, AfterQuiet
  <2>3. QED
    BY <1>1, <1>8, <2>2, RangeQuiet, GuardedIs DEF UndigestUnlink
<1>9. CASE Toggle(p)
  <2>1. After(p, "toggle", loc[p]) /\ Left(p) = {"toggle"}
    BY <1>9, ToggleStep
  <2>2. Alone(p) /\ "range" \notin Left(p) /\ "range" \notin Left(p)'
    BY <2>1, AfterQuiet
  <2>3. lock' = lock /\ lock["dir"] = Nobody
    BY <1>1, <1>9, FreeIs DEF Toggle, Lists
  <2>4. list'["digest"] = list["digest"]
    BY <1>9, ToggleStep DEF Marked, Changes, Lists
  <2>5. QED
    BY <1>1, <2>2, <2>3, <2>4, RangeQuiet, GuardedIs
<1>10. CASE Undelete(p)
  <2>1. Alone(p) /\ "range" \notin Left(p) /\ "range" \notin Left(p)'
    BY <1>10, UndeleteStep DEF Starts, Walked
  <2>2. QED
    BY <1>1, <1>10, <2>1, RangeQuiet, GuardedIs DEF Undelete, board
<1>11. CASE Relink(p)
  <2>1. PICK l : After(p, "relink", l) /\ Left(p) = {"relink", "append", "stat", "total", "store", "strike"}
    BY <1>11, RelinkStep
  <2>2. Alone(p) /\ "range" \notin Left(p) /\ "range" \notin Left(p)'
    BY <2>1, AfterQuiet
  <2>3. list' = list /\ lock' = lock
    BY <1>11 DEF Relink
  <2>4. QED
    BY <1>1, <2>2, <2>3, RangeQuiet, GuardedIs
<1>12. CASE Strike(p)
  <2>1. /\ After(p, "strike", loc[p]) /\ Left(p) = {"strike"} /\ loc[p].view \in Removed
        /\ \E d : Changes(loc[p].view, d)
    BY <1>12, StrikeStep
  <2>2. Alone(p) /\ "range" \notin Left(p) /\ "range" \notin Left(p)'
    BY <2>1, AfterQuiet
  <2>3. Guarded("dir") /\ Guarded("digest") /\ lock' = lock
    BY <1>12, <2>1, GuardedIs DEF Strike, Removed, Lists
  <2>4. QED
    BY <1>1, <2>2, <2>3, RangeQuiet
<1>13. QED
  BY <1>2, <1>3, <1>4, <1>5, <1>6, <1>7, <1>8, <1>9, <1>10, <1>11, <1>12 DEF Manager

LEMMA RangeCron ==
    ASSUME BaseInv, RangeInv, NEW p \in Procs, Cron(p)
    PROVE  RangeInv'
<1>1. Typed /\ Grows
  BY GrowsOthers DEF BaseInv
<1>2. CASE JunkRead(p)
  <2>1. PICK l : Copies(p, l)
    BY <1>2, JunkReadStep
  <2>2. Alone(p) /\ "range" \notin Left(p) /\ "range" \notin Left(p)'
    BY <1>2, <2>1, JunkReadStep DEF Copies, Starts, Walked
  <2>3. QED
    BY <1>1, <1>2, <2>2, RangeQuiet, GuardedIs DEF JunkRead, board
<1>3. CASE JunkSwap(p)
  <2>1. /\ After(p, "swap", loc[p]) /\ Left(p) = {"swap"} /\ loc[p].view \in Removed
        /\ \E d : Changes(loc[p].view, d)
    BY <1>3, JunkSwapStep
  <2>2. Alone(p) /\ "range" \notin Left(p) /\ "range" \notin Left(p)'
    BY <2>1, AfterQuiet
  <2>3. Guarded("dir") /\ Guarded("digest") /\ lock' = lock
    BY <1>3, <2>1, GuardedIs DEF JunkSwap, Removed, Lists
  <2>4. QED
    BY <1>1, <2>2, <2>3, RangeQuiet
<1>4. CASE LostStart(p)
  <2>1. PICK l : Searches(p, l)
    BY <1>4, LostStartStep
  <2>2. Alone(p) /\ "range" \notin Left(p) /\ "range" \notin Left(p)'
    BY <2>1 DEF Searches, Starts, Walked
  <2>3. QED
    BY <1>1, <1>4, <2>2, RangeQuiet, GuardedIs DEF LostStart, board
<1>5. CASE LostRead(p)
  <2>1. PICK v \in Lists : At(p, v) /\ \E l : After(p, v, l)
    BY <1>5, LostReadStep
  <2>2. "range" \notin Left(p)
    BY <1>1, <2>1, LeftIs DEF Lists
  <2>3. Alone(p) /\ "range" \notin Left(p) /\ "range" \notin Left(p)'
    BY <2>1, <2>2, AfterQuiet
  <2>4. QED
    BY <1>1, <1>5, <2>3, RangeQuiet, GuardedIs DEF LostRead, board
<1>6. CASE RmLost(p)
  <2>1. After(p, "rmlost", loc[p]) /\ Left(p) = {"rmlost"}
    BY <1>6, RmLostStep
  <2>2. Alone(p) /\ "range" \notin Left(p) /\ "range" \notin Left(p)'
    BY <2>1, AfterQuiet
  <2>3. QED
    BY <1>1, <1>6, <2>2, RangeQuiet, GuardedIs DEF RmLost
<1>7. QED
  BY <1>2, <1>3, <1>4, <1>5, <1>6 DEF Cron

-----------------------------------------------------------------------------
(***************************************************************************)
(* All steps together.                                                     *)
(***************************************************************************)
BoardInv == BaseInv /\ RangeInv /\ Told

LEMMA BaseInit ==
    ASSUME Init
    PROVE  BaseInv
<1>1. Typed
  BY InitTyped
<1>2. PICK d : d = [i \in 1..Old |-> NewLine(i, i)]
  OBVIOUS
<1>3. /\ list["dir"] = d /\ \A l \in Lists \ {"dir"} : list[l] = <<>>
      /\ \A p \in Procs : loc[p] = NoLocals /\ Left(p) = {}
      /\ posted = Old /\ now = Old + 1
  BY <1>2, ElementsOf DEF Init, Lists, Left
<1>4. \A l \in Lists : \A i \in DOMAIN list[l] : list[l][i].kind = "M" /\ ~list[l][i].digest
                                                  /\ Right(list[l][i], posted)
  <2>1. \A i \in DOMAIN d : d[i].kind = "M" /\ ~d[i].digest /\ Right(d[i], Old)
    BY <1>2, ConstantsAre DEF NewLine, Right
  <2>2. QED
    BY <1>3, <2>1
<1>5. ListInv
  BY <1>4 DEF ListInv, Articled, Cleared, Removed, Lists
<1>6. Right(Hole, posted) /\ NoLocals.fh = Hole /\ NoLocals.new = Hole /\ NoLocals.read = <<>>
  BY <1>3, ConstantsAre DEF Hole, NewLine, Right, NoLocals
<1>7. ArtInv
  BY <1>3, <1>4, <1>6 DEF ArtInv, Known, Public, Holds
<1>8. LocalInv
  <2>1. 0 <= now
    BY <1>3, ConstantsAre
  <2>2. QED
    BY <1>3, <2>1, SoundRests DEF LocalInv
<1>9. QED
  BY <1>1, <1>5, <1>7, <1>8 DEF BaseInv

LEMMA BoardInit ==
    ASSUME Init
    PROVE  BoardInv
<1>1. BaseInv
  BY BaseInit
<1>2. \A p \in Procs : Left(p) = {}
  BY ElementsOf DEF Init, Left
<1>3. RangeInv
  BY <1>2 DEF RangeInv, Init
<1>4. Told
  <2>1. PICK d : d = [i \in 1..Old |-> NewLine(i, i)]
    OBVIOUS
  <2>2. list["dir"] = d /\ total = Old /\ lastpost = Old
    BY <2>1 DEF Init, Lists
  <2>3. Old \in Nat
    BY ConstantsAre
  <2>4. Len(d) = Old /\ (Old # 0 => d[Old] = NewLine(Old, Old))
    BY <2>1, <2>3
  <2>5. LastOf(d) = Old
    BY <2>4 DEF LastOf, NewLine
  <2>6. QED
    BY <2>2, <2>4, <2>5 DEF Told
<1>5. QED
  BY <1>1, <1>3, <1>4 DEF BoardInv

(* Who moves, and that he moves alone and invents no line. *)
Moved(p) == Alone(p) /\ Inherits(p) /\ Grows

Acts(p) == Stat(p) \/ StoreTotal(p) \/ Store(p) \/ Post(p) \/ Web(p) \/ Session(p)
           \/ Manager(p) \/ Cron(p)

LEMMA ActsKeepBase ==
    ASSUME BaseInv, RangeInv, NEW p \in Procs, Acts(p)
    PROVE  BaseInv' /\ Inherits(p)
<1>1. CASE Stat(p) \/ StoreTotal(p) \/ Store(p)
  BY <1>1, StatStep, StoreTotalStep, StoreStep
<1>2. CASE Post(p)
  BY <1>2, PostStartStep, PostAbortStep, PostEndStep, WebPostStep, AppendLineStep DEF Post
<1>3. CASE Web(p)
  BY <1>3, WebFindStep, WebRemoveStep, PutRecordStep, DoSetStep DEF Web
<1>4. CASE Session(p)
  BY <1>4, ViewStep, DeleteStep, CancelStep, NormalStep, FlagStep, EditStartStep,
     EditSaveStep, EditEnterStep DEF Session
<1>5. CASE RangeEnd(p)
  BY <1>5, RangeEnds, RangeEndStep
<1>6. CASE RangeLock(p) \/ RangeCancel(p) \/ Digest(p) \/ Excerpt(p) \/ Undigest(p)
  BY <1>6, RangeLockStep, RangeCancelStep, DigestStep, ExcerptStep, UndigestStep
<1>7. CASE UndigestUnlink(p) \/ Toggle(p) \/ Undelete(p) \/ Relink(p) \/ Strike(p)
  BY <1>7, UndigestUnlinkStep, ToggleStep, UndeleteStep, RelinkStep, StrikeStep
<1>8. CASE Cron(p)
  BY <1>8, JunkReadStep, JunkSwapStep, LostStartStep, LostReadStep, RmLostStep DEF Cron
<1>9. QED
  BY <1>1, <1>2, <1>3, <1>4, <1>5, <1>6, <1>7, <1>8 DEF Acts, Manager

LEMMA StillBoard ==
    ASSUME BoardInv, Still
    PROVE  BoardInv'
<1>1. BaseInv /\ RangeInv /\ Told /\ Typed
  BY DEF BoardInv, BaseInv
<1>2. BaseInv'
  BY <1>1, StillBase
<1>3. /\ \A p \in Procs : Left(p)' = Left(p)
      /\ list' = list /\ lock' = lock /\ total' = total /\ lastpost' = lastpost
      /\ loc' = loc /\ hist' = hist
  BY <1>1, StillIs
<1>4. RangeInv'
  <2>1. \A l \in {"dir", "digest"} : lock[l] # Nobody => lock[l] \in Procs
    BY <1>1 DEF Typed
  <2>2. QED
    BY <1>1, <1>3, <2>1 DEF RangeInv, Alike
<1>5. Told'
  BY <1>1, <1>3 DEF Told, Telling
<1>6. QED
  BY <1>2, <1>4, <1>5 DEF BoardInv

LEMMA BoardNext ==
    ASSUME BoardInv, [Next]_vars
    PROVE  BoardInv'
<1>1. BaseInv /\ RangeInv /\ Told /\ Typed
  BY DEF BoardInv, BaseInv
<1>2. CASE Tick \/ Finished \/ UNCHANGED vars
  BY <1>1, <1>2, TickIs, StutterIs, StillBoard DEF Finished
<1>3. ASSUME NEW p \in Procs, Acts(p)
      PROVE  BoardInv'
  <2>1. BaseInv'
    BY <1>1, <1>3, ActsKeepBase
  <2>2. RangeInv'
    BY <1>1, <1>3, RangePost, RangeWeb, RangeSession, RangeManager, RangeCron DEF Acts
  <2>3. Told'
    BY <1>1, <1>3, RangeEnds, ToldStores, ToldPost, ToldWeb, ToldSession, ToldManager, ToldCron DEF Acts
  <2>4. QED
    BY <2>1, <2>2, <2>3 DEF BoardInv
<1>4. QED
  BY <1>2, <1>3 DEF Next, Acts

LEMMA BoardAlways == Spec => []BoardInv
<1>1. Init => BoardInv
  BY BoardInit
<1>2. BoardInv /\ [Next]_vars => BoardInv'
  BY BoardNext
<1>3. QED
  BY <1>1, <1>2, PTL DEF Spec

(* Whoever is to store the number of lines stores the time as well. *)
LEMMA TotalThenStore ==
    ASSUME Typed, NEW p \in Procs, "total" \in Left(p)
    PROVE  "store" \in Left(p)
<1>1. todo[p] \in Todos
  BY DEF Typed
<1>2. \A s \in Todos : "total" \in ToSet(s) => "store" \in ToSet(s)
  BY ElementsOf DEF Todos
<1>3. QED
  BY <1>1, <1>2 DEF Left

LEMMA BoardInvRight ==
    ASSUME BoardInv
    PROVE  BoardRight
<1>1. Typed /\ Told /\ list["dir"] \in Seq(Header)
  BY DEF BoardInv, BaseInv, Typed, Lists
<1>2. LastPostRight
  <2>1. SUFFICES ASSUME \A p \in Procs : "store" \notin ToSet(todo[p])
                 PROVE  /\ "total" \notin hist.behind => total = Len(list["dir"])
                        /\ "lastpost" \notin hist.behind
                               => lastpost = LastTime(list["dir"], Len(list["dir"]))
    BY DEF LastPostRight
  <2>2. ~Telling("store") /\ ~Telling("total")
    BY <1>1, <2>1, TotalThenStore DEF Telling, Left
  <2>3. QED
    BY <1>1, <2>2, LastOfIs DEF Told
<1>3. QED
  BY <1>1, <1>2, TypedIs DEF BoardRight

(***************************************************************************)
(* The board is a board: types; and when nobody is on his way to tell the  *)
(* cache, the cache has the number of lines of .DIR and the time of the    *)
(* last one, unless whoever told it last had read .DIR before another      *)
(* changed it.  So every request that adds, removes or edits a line ends   *)
(* in updatelastpost, however requests are interleaved; and while a range  *)
(* is deleted the index keeps its length, because everybody who changes it *)
(* waits for the lock.                                                     *)
(***************************************************************************)
THEOREM BoardIsRight == Spec => []BoardRight
<1>1. BoardInv => BoardRight
  BY BoardInvRight
<1>2. QED
  BY <1>1, BoardAlways, PTL

-----------------------------------------------------------------------------
(***************************************************************************)
(* The order of .DIR.  A name that is not taken, though a later one was    *)
(* given out, was given up.                                                *)
(***************************************************************************)
Settled(u) == \A t \in Names : now <= t /\ t <= u => file["M"][t] # 0 \/ t \in hist.freed

(* The names .DIR had when the article of p got its own. *)
Later(p) == "append" \in Left(p) /\ loc[p].into = "dir" =>
                \A u \in loc[p].from : u < loc[p].new.filetime \/ loc[p].new.filetime \in hist.freed

OrderInv ==
    /\ \A h \in Known : h.kind = "M" => Settled(h.filetime)
    /\ \A p \in Procs : Later(p)

FilesStay == \A t \in Names : now <= t /\ file["M"][t] # 0 => file'["M"][t] # 0 \/ t \in hist'.freed

LEMMA SettledStays ==
    ASSUME Typed, Grows, FilesStay, now' \in Nat, now <= now', NEW u, Settled(u)
    PROVE  Settled(u)'
<1>1. SUFFICES ASSUME NEW t \in Names, now' <= t, t <= u
               PROVE  file'["M"][t] # 0 \/ t \in hist'.freed
  BY DEF Settled
<1>2. now <= t
  BY <1>1, NamesAre DEF Typed
<1>3. file["M"][t] # 0 \/ t \in hist.freed
  BY <1>1, <1>2 DEF Settled
<1>4. QED
  BY <1>2, <1>3 DEF FilesStay, Grows

LEMMA OrderStep ==
    ASSUME BaseInv, OrderInv, NEW p \in Procs, Moved(p), FilesStay, now' = now,
           loc'[p].new.kind = "M" => Settled(loc[p].new.filetime)', Later(p)'
    PROVE  OrderInv'
<1>1. Typed /\ now \in Nat /\ now > 0
  BY DEF BaseInv, Typed
<1>2. \A u : Settled(u) => Settled(u)'
  BY <1>1, SettledStays DEF Moved
<1>3. Settled(0)
  <2>1. ASSUME NEW t \in Names PROVE ~(now <= t /\ t <= 0)
    BY <1>1, NamesAre
  <2>2. QED
    BY <2>1 DEF Settled
<1>4. ASSUME NEW h, Stems(h), h.kind = "M"
      PROVE  Settled(h.filetime)
  <2>1. CASE h = Hole
    BY <1>3, <2>1 DEF Hole, NewLine
  <2>2. ASSUME NEW g \in Public, h.kind \in {g.kind, "G"}, h.filetime \in {g.filetime, 0}
        PROVE  Settled(h.filetime)
    BY <1>1, <1>3, <1>4, <2>2, PublicIs DEF OrderInv
  <2>3. QED
    BY <1>4, <2>1, <2>2 DEF Stems
<1>5. ASSUME NEW h \in Known', h.kind = "M"
      PROVE  Settled(h.filetime)'
  <2>1. CASE h \in Public'
    <3>1. Stems(h) \/ h = loc'[p].new
      BY <1>1, <2>1, PublicNext DEF Moved
    <3>2. QED
      BY <1>2, <1>4, <1>5, <3>1
  <2>2. ASSUME NEW q \in Procs, h = loc'[q].new
        PROVE  Settled(h.filetime)'
    <3>1. CASE q = p
      BY <1>5, <2>2, <3>1
    <3>2. CASE q # p
      <4>1. h = loc[q].new
        BY <2>2, <3>2 DEF Moved, Alone
      <4>2. QED
        BY <1>1, <1>2, <1>5, <4>1, PublicIs DEF OrderInv
    <3>3. QED
      BY <3>1, <3>2
  <2>3. QED
    BY <1>5, <2>1, <2>2 DEF Known
<1>6. ASSUME NEW q \in Procs, q # p
      PROVE  Later(q)'
  <2>1. loc'[q] = loc[q] /\ Left(q)' = Left(q) /\ Later(q)
    BY <1>6 DEF Moved, Alone, OrderInv
  <2>2. QED
    BY <2>1 DEF Later, Moved, Grows
<1>7. QED
  BY <1>5, <1>6 DEF OrderInv

(* Whoever gives no name. *)
Same(p) == /\ loc'[p].new \in {loc[p].new, Hole}
           /\ "append" \in Left(p)' =>
                  \/ loc'[p].from = {}
                  \/ /\ "append" \in Left(p) /\ loc'[p].into = loc[p].into
                     /\ loc'[p].from = loc[p].from /\ loc'[p].new = loc[p].new

LEMMA OrderSame ==
    ASSUME BaseInv, OrderInv, NEW p \in Procs, Moved(p), FilesStay, now' = now, Same(p)
    PROVE  OrderInv'
<1>1. Typed /\ now \in Nat /\ now > 0
  BY DEF BaseInv, Typed
<1>2. \A u : Settled(u) => Settled(u)'
  BY <1>1, SettledStays DEF Moved
<1>3. Settled(Hole.filetime)
  <2>1. ASSUME NEW t \in Names PROVE ~(now <= t /\ t <= 0)
    BY <1>1, NamesAre
  <2>2. Settled(0) /\ Hole.filetime = 0
    BY <2>1 DEF Settled, Hole, NewLine
  <2>3. QED
    BY <2>2
<1>4. loc'[p].new.kind = "M" => Settled(loc[p].new.filetime)'
  <2>1. CASE loc'[p].new = loc[p].new
    BY <1>1, <1>2, <2>1, PublicIs DEF OrderInv
  <2>2. CASE loc'[p].new = Hole
    BY <1>2, <1>3, <2>2
  <2>3. QED
    BY <2>1, <2>2 DEF Same
<1>5. Later(p)'
  <2>1. Later(p)
    BY DEF OrderInv
  <2>2. QED
    BY <2>1 DEF Later, Same, Moved, Grows
<1>6. QED
  BY <1>4, <1>5, OrderStep

LEMMA SameAfter ==
    ASSUME NEW p \in Procs, NEW x, NEW l, After(p, x, l), Agree(l, loc[p])
    PROVE  Same(p)
<1>1. CASE todo'[p] = <<>>
  BY <1>1 DEF After, Same, NoLocals
<1>2. CASE todo'[p] # <<>>
  BY <1>2 DEF After, Same, Agree
<1>3. QED
  BY <1>1, <1>2

LEMMA SameStays ==
    ASSUME NEW p \in Procs, loc'[p].new \in {loc[p].new, Hole},
           "append" \notin Left(p)' \/ loc'[p].from = {}
    PROVE  Same(p)
BY DEF Same

LEMMA FilesStayIs ==
    /\ file' = file => FilesStay
    /\ file'["M"] = file["M"] => FilesStay
BY DEF FilesStay

(* A new name, behind those of .DIR. *)
LEMMA NewNameSettled ==
    ASSUME BaseInv, OrderInv, NEW t \in Names, now <= t, file["M"][t] = 0, now' = now, Grows,
           FilesStay, file'["M"][t] # 0,
           \A u \in Names : now <= u /\ u < t => file["M"][u] # 0 \/ u \in hist'.freed
    PROVE  /\ Settled(t)'
           /\ \A u \in Times("dir") : u < t \/ t \in hist'.freed
<1>1. Typed /\ now \in Nat
  BY DEF BaseInv, Typed
<1>2. Settled(t)'
  <2>1. SUFFICES ASSUME NEW u \in Names, now <= u, u <= t
                 PROVE  file'["M"][u] # 0 \/ u \in hist'.freed
    BY DEF Settled
  <2>2. u = t \/ u < t
    BY <2>1, NamesAre
  <2>3. QED
    BY <2>1, <2>2 DEF FilesStay
<1>3. ASSUME NEW u \in Times("dir")
      PROVE  u < t \/ t \in hist'.freed
  <2>1. PICK i \in DOMAIN list["dir"] : list["dir"][i].filetime = u
    BY <1>1, TimesIs DEF Lists
  <2>2. list["dir"][i] \in Known /\ list["dir"][i].kind = "M"
    BY <1>1, PublicIs DEF BaseInv, ListInv, Articled, Lists
  <2>3. Settled(u) /\ u \in Times0
    BY <1>1, <2>1, <2>2, TimesIs DEF OrderInv, Lists
  <2>4. CASE t <= u
    BY <1>1, <2>3, <2>4 DEF Settled, Grows
  <2>5. CASE u < t
    BY <2>5
  <2>6. QED
    BY <2>3, <2>4, <2>5, NamesAre
<1>4. QED
  BY <1>2, <1>3

LEMMA WalkedIs ==
    ASSUME NEW p \in Procs
    PROVE  /\ Walked(p) => Alone(p)
           /\ \A x, l : After(p, x, l) => Alone(p)
           /\ \A s, l : Starts(p, s, l) => Alone(p)
           /\ Rests(p) => Alone(p)
BY DEF Walked, After, Starts, Rests

LEMMA ActsMove ==
    ASSUME BaseInv, RangeInv, NEW p \in Procs, Acts(p)
    PROVE  Moved(p)
<1>1. Inherits(p)
  BY ActsKeepBase
<1>2. Grows
  BY GrowsSession, GrowsOthers DEF Acts
<1>3. CASE Stat(p) \/ StoreTotal(p) \/ Store(p)
  BY <1>1, <1>2, <1>3, StatStep, StoreTotalStep, StoreStep, WalkedIs DEF Moved
<1>4. CASE Post(p)
  <2>1. CASE PostStart(p) \/ WebPost(p)
    BY <1>1, <1>2, <2>1, PostStartStep, WebPostStep, WalkedIs DEF Begun, Moved
  <2>2. CASE PostAbort(p) \/ PostEnd(p) \/ AppendLine(p)
    BY <1>1, <1>2, <2>2, PostAbortStep, PostEndStep, AppendLineStep, WalkedIs DEF Kept, Renamed, Moved
  <2>3. QED
    BY <1>1, <1>2, <1>4, <2>1, <2>2 DEF Moved, Post
<1>5. CASE Web(p)
  <2>1. CASE WebFind(p) \/ WebRemove(p)
    BY <1>1, <1>2, <2>1, WebFindStep, WebRemoveStep, WalkedIs DEF Moved
  <2>2. CASE put_record(p) \/ do_set(p)
    BY <1>1, <1>2, <2>2, PutRecordStep, DoSetStep, WalkedIs DEF Moved
  <2>3. QED
    BY <1>1, <1>2, <1>5, <2>1, <2>2 DEF Moved, Web
<1>6. CASE Session(p)
  <2>1. CASE View(p)
    BY <1>1, <1>2, <2>1, ViewStep, WalkedIs DEF Views, Moved
  <2>2. CASE Delete(p) \/ Cancel(p) \/ Normal(p) \/ Flag(p)
    BY <1>1, <1>2, <2>2, DeleteStep, CancelStep, NormalStep, FlagStep, WalkedIs DEF Moved
  <2>3. CASE EditStart(p) \/ EditSave(p) \/ EditEnter(p)
    BY <1>1, <1>2, <2>3, EditStartStep, EditSaveStep, EditEnterStep, WalkedIs DEF Moved
  <2>4. QED
    BY <1>1, <1>2, <1>6, <2>1, <2>2, <2>3 DEF Moved, Session
<1>7. CASE Manager(p)
  <2>1. CASE RangeLock(p) \/ RangeCancel(p)
    BY <1>1, <1>2, <2>1, RangeLockStep, RangeCancelStep, WalkedIs DEF Ranges, Cancels, Moved
  <2>2. CASE RangeEnd(p)
    BY <1>1, <1>2, <2>2, RangeEnds, RangeEndStep, WalkedIs DEF Moved
  <2>3. CASE Digest(p) \/ Excerpt(p) \/ UndigestUnlink(p) \/ Toggle(p)
    BY <1>1, <1>2, <2>3, DigestStep, ExcerptStep, UndigestUnlinkStep, ToggleStep, WalkedIs DEF Moved
  <2>4. CASE Undigest(p)
    BY <1>1, <1>2, <2>4, UndigestStep, WalkedIs DEF Moved
  <2>5. CASE Undelete(p) \/ Relink(p) \/ Strike(p)
    BY <1>1, <1>2, <2>5, UndeleteStep, RelinkStep, StrikeStep, WalkedIs DEF Moved
  <2>6. QED
    BY <1>1, <1>2, <1>7, <2>1, <2>2, <2>3, <2>4, <2>5 DEF Moved, Manager
<1>8. CASE Cron(p)
  <2>1. CASE JunkRead(p) \/ JunkSwap(p)
    BY <1>1, <1>2, <2>1, JunkReadStep, JunkSwapStep, WalkedIs DEF Copies, Moved
  <2>2. CASE LostStart(p)
    BY <1>1, <1>2, <2>2, LostStartStep, WalkedIs DEF Searches, Moved
  <2>3. CASE LostRead(p) \/ RmLost(p)
    BY <1>1, <1>2, <2>3, LostReadStep, RmLostStep, WalkedIs DEF Moved
  <2>4. QED
    BY <1>1, <1>2, <1>8, <2>1, <2>2, <2>3 DEF Moved, Cron
<1>9. QED
  BY <1>3, <1>4, <1>5, <1>6, <1>7, <1>8 DEF Acts

-----------------------------------------------------------------------------
LEMMA OrderPost ==
    ASSUME BaseInv, OrderInv, NEW p \in Procs, Moved(p),
           Stat(p) \/ StoreTotal(p) \/ Store(p) \/ Post(p)
    PROVE  OrderInv'
<1>1. Typed /\ Grows /\ Agree(loc[p], loc[p])
  BY OwnLocals DEF BaseInv, Moved
<1>2. CASE Stat(p)
  <2>1. PICK l : After(p, "stat", l) /\ l = [loc[p] EXCEPT !.n = Len(list["dir"])]
    BY <1>2, StatStep
  <2>2. Agree(l, loc[p])
    BY <1>1, <2>1, OwnLocals DEF Agree, Locals
  <2>3. QED
    BY <1>2, <2>1, <2>2, SameAfter, OrderSame, FilesStayIs DEF Stat, board
<1>3. CASE StoreTotal(p)
  BY <1>1, <1>3, StoreTotalStep, SameAfter, OrderSame, FilesStayIs DEF StoreTotal, board
<1>4. CASE Store(p)
  BY <1>1, <1>4, StoreStep, SameAfter, OrderSame, FilesStayIs DEF Store, board
<1>5. CASE PostStart(p) \/ WebPost(p)
  <2>1. PICK s, t, l : Begun(p, s, t, l)
    BY <1>5, PostStartStep, WebPostStep
  <2>2. /\ t \in Names /\ now <= t /\ file["M"][t] = 0
        /\ \A u \in Names : now <= u /\ u < t => file["M"][u] # 0
        /\ loc'[p] = l /\ l.new = NewLine(t, posted + 1) /\ l.from = Times("dir")
        /\ file' = [file EXCEPT !["M"][t] = posted + 1]
    BY <2>1 DEF Begun, Authored, Starts
  <2>3. now' = now /\ hist' = hist /\ posted + 1 # 0
    BY <1>1, <1>5 DEF PostStart, WebPost, Typed
  <2>4. file'["M"][t] # 0 /\ FilesStay
    BY <1>1, <2>2, <2>3 DEF FilesStay, Typed, Kinds
  <2>5. Settled(t)' /\ \A u \in Times("dir") : u < t \/ t \in hist'.freed
    BY <1>1, <2>2, <2>3, <2>4, NewNameSettled
  <2>6. loc'[p].new.filetime = t /\ loc'[p].from = Times("dir")
    BY <2>2 DEF NewLine
  <2>7. Settled(loc[p].new.filetime)' /\ Later(p)'
    BY <2>5, <2>6 DEF Later
  <2>8. QED
    BY <2>3, <2>4, <2>7, OrderStep
<1>6. CASE PostAbort(p)
  <2>1. Rests(p) /\ loc[p].new.filetime \in Names
    BY <1>6, PostAbortStep
  <2>2. Same(p)
    BY <2>1, SameStays DEF Rests, NoLocals
  <2>3. /\ file' = [file EXCEPT !["M"][loc[p].new.filetime] = 0] /\ now' = now
        /\ hist'.freed = hist.freed \cup {loc[p].new.filetime}
    BY <1>1, <1>6, <2>1, MarksAre DEF PostAbort
  <2>4. FilesStay
    BY <1>1, <2>1, <2>3 DEF FilesStay, Typed, Kinds
  <2>5. QED
    BY <2>2, <2>3, <2>4, OrderSame
<1>7. CASE PostEnd(p)
  <2>1. "write" \in Left(p) /\ loc[p].new.filetime \in Names /\ now' = now
    BY <1>7, PostEndStep DEF PostEnd
  <2>2. loc[p].new.art # 0
    BY <2>1, OwnLocals, NamesAre DEF Right
  <2>3. CASE Kept(p)
    <3>1. /\ After(p, "write", loc[p])
          /\ file' = [file EXCEPT !["M"][loc[p].new.filetime] = loc[p].new.art]
      BY <2>3 DEF Kept
    <3>2. FilesStay
      BY <1>1, <2>1, <2>2, <3>1 DEF FilesStay, Typed, Kinds
    <3>3. QED
      BY <1>1, <2>1, <3>1, <3>2, SameAfter, OrderSame
  <2>4. ASSUME NEW t, NEW l, Renamed(p, t, l)
        PROVE  OrderInv'
    <3>1. /\ t \in Names /\ now <= t /\ file["M"][t] = 0 /\ t # loc[p].new.filetime
          /\ \A u \in Names : now <= u /\ u < t => file["M"][u] # 0 \/ u = loc[p].new.filetime
          /\ file' = [file EXCEPT !["M"][t] = loc[p].new.art, !["M"][loc[p].new.filetime] = 0]
          /\ loc'[p] = l /\ NamedAnew(p, t, l) /\ GiveUp(loc[p].new.filetime)
      BY <2>4 DEF Renamed
    <3>2. At(p, "write")
      BY <1>7 DEF PostEnd
    <3>3. l.new.filetime = t /\ l.from = Times("dir")
      BY <3>1, <3>2, RenamedIs
    <3>4. hist'.freed = hist.freed \cup {loc[p].new.filetime}
      BY <1>1, <2>1, <3>1, MarksAre
    <3>5. file'["M"][t] # 0 /\ FilesStay
      BY <1>1, <2>1, <2>2, <3>1, <3>4 DEF FilesStay, Typed, Kinds
    <3>6. Settled(t)' /\ \A u \in Times("dir") : u < t \/ t \in hist'.freed
      <4>1. \A u \in Names : now <= u /\ u < t => file["M"][u] # 0 \/ u \in hist'.freed
        BY <3>1, <3>4
      <4>2. QED
        BY <1>1, <2>1, <3>1, <3>5, <4>1, NewNameSettled
    <3>7. Settled(loc[p].new.filetime)' /\ Later(p)'
      BY <3>1, <3>3, <3>6 DEF Later
    <3>8. QED
      BY <2>1, <3>5, <3>7, OrderStep
  <2>5. QED
    BY <1>7, <2>3, <2>4, PostEndStep
<1>8. CASE AppendLine(p)
  BY <1>1, <1>8, AppendLineStep, SameAfter, OrderSame, FilesStayIs DEF AppendLine
<1>9. QED
  BY <1>2, <1>3, <1>4, <1>5, <1>6, <1>7, <1>8 DEF Post

LEMMA OrderWeb ==
    ASSUME BaseInv, OrderInv, NEW p \in Procs, Moved(p), Web(p)
    PROVE  OrderInv'
<1>1. Typed /\ Grows /\ Agree(loc[p], loc[p])
  BY OwnLocals DEF BaseInv, Moved
<1>2. CASE WebFind(p)
  <2>1. PICK l, s : /\ Starts(p, s, l) /\ Finds(p, l)
                    /\ ToSet(s) \in {{"remove", "cancel", "stat", "total", "store"},
                                     {"put", "stat", "total", "store"}}
    BY <1>2, WebFindStep
  <2>2. Same(p)
    BY <2>1, SameStays DEF Starts, Finds
  <2>3. QED
    BY <1>2, <2>2, OrderSame, FilesStayIs DEF WebFind, board
<1>3. CASE WebRemove(p)
  BY <1>1, <1>3, WebRemoveStep, SameAfter, OrderSame, FilesStayIs DEF WebRemove
<1>4. CASE put_record(p)
  <2>1. After(p, "put", loc[p])
    BY <1>4, PutRecordStep
  <2>2. file' = file /\ now' = now
    BY <1>4 DEF put_record
  <2>3. QED
    BY <1>1, <2>1, <2>2, SameAfter, OrderSame, FilesStayIs
<1>5. CASE do_set(p)
  <2>1. Starts(p, <<>>, loc[p]) /\ Left(p)' = {}
    BY <1>5, DoSetStep
  <2>2. Same(p)
    BY <2>1, SameStays DEF Starts
  <2>3. file' = file /\ now' = now
    BY <1>5 DEF do_set
  <2>4. QED
    BY <2>2, <2>3, OrderSame, FilesStayIs
<1>6. QED
  BY <1>2, <1>3, <1>4, <1>5 DEF Web

LEMMA OrderSession ==
    ASSUME BaseInv, OrderInv, NEW p \in Procs, Moved(p), Session(p)
    PROVE  OrderInv'
<1>1. Typed /\ Grows /\ Agree(loc[p], loc[p])
  BY OwnLocals DEF BaseInv, Moved
<1>2. CASE View(p)
  <2>1. PICK l : Views(p, l)
    BY <1>2, ViewStep
  <2>2. Same(p)
    BY <2>1, SameStays DEF Views
  <2>3. QED
    BY <1>2, <2>2, OrderSame, FilesStayIs DEF View, board
<1>3. CASE Delete(p)
  <2>1. file' = file /\ now' = now
    BY <1>3 DEF Delete
  <2>2. CASE Rests(p)
    BY <2>1, <2>2, SameStays, OrderSame, FilesStayIs DEF Rests, NoLocals
  <2>3. CASE Starts(p, AfterDelete(loc[p].view), loc[p])
             /\ Left(p)' \subseteq {"stat", "total", "store", "cancel", "normal"}
    <3>1. "append" \notin Left(p)' /\ loc'[p].new = loc[p].new
      BY <2>3 DEF Starts
    <3>2. QED
      BY <2>1, <3>1, SameStays, OrderSame, FilesStayIs
  <2>4. QED
    BY <1>3, <2>2, <2>3, DeleteStep
<1>4. CASE Cancel(p)
  BY <1>1, <1>4, CancelStep, SameAfter, OrderSame, FilesStayIs DEF Cancel
<1>5. CASE Normal(p)
  <2>1. After(p, "normal", loc[p])
    BY <1>5, NormalStep
  <2>2. file' = file /\ now' = now
    BY <1>5 DEF Normal
  <2>3. QED
    BY <1>1, <2>1, <2>2, SameAfter, OrderSame, FilesStayIs
<1>6. CASE Flag(p)
  <2>1. Rests(p) /\ file' = file /\ now' = now
    BY <1>6, FlagStep DEF Flag
  <2>2. QED
    BY <2>1, SameStays, OrderSame, FilesStayIs DEF Rests, NoLocals
<1>7. CASE EditStart(p)
  <2>1. "append" \notin Left(p)' /\ loc'[p] = loc[p]
    BY <1>7, EditStartStep DEF Starts
  <2>2. QED
    BY <1>7, <2>1, SameStays, OrderSame, FilesStayIs DEF EditStart, board
<1>8. CASE EditSave(p)
  <2>1. PICK l : After(p, "save", l) /\ Edited(p, l) /\ loc[p].fh.filetime \in Names
    BY <1>8, EditSaveStep
  <2>2. Agree(l, loc[p]) /\ loc[p].fh.art # 0 /\ loc[p].fh.kind \in Kinds
    BY <2>1, EditedIs, OwnLocals, NamesAre, HeaderFacts DEF Right
  <2>3. /\ file' = [file EXCEPT ![loc[p].fh.kind][loc[p].fh.filetime] = loc[p].fh.art]
        /\ now' = now
    BY <1>8 DEF EditSave
  <2>4. FilesStay
    BY <1>1, <2>1, <2>2, <2>3 DEF FilesStay, Typed, Kinds
  <2>5. QED
    BY <2>1, <2>2, <2>3, <2>4, SameAfter, OrderSame
<1>9. CASE EditEnter(p)
  <2>1. After(p, "enter", loc[p])
    BY <1>9, EditEnterStep
  <2>2. file' = file /\ now' = now
    BY <1>9 DEF EditEnter
  <2>3. QED
    BY <1>1, <2>1, <2>2, SameAfter, OrderSame, FilesStayIs
<1>10. QED
  BY <1>2, <1>3, <1>4, <1>5, <1>6, <1>7, <1>8, <1>9 DEF Session

(* A deleted article gets a new name, or keeps its own. *)
LEMMA OrderRelink ==
    ASSUME BaseInv, OrderInv, NEW p \in Procs, Moved(p), Relink(p)
    PROVE  OrderInv'
<1>1. Typed /\ Grows
  BY DEF BaseInv, Moved
<1>2. PICK l : /\ After(p, "relink", l) /\ loc'[p] = l
               /\ Stays(p, l) \/ \E t \in Names : Moves(p, t, l)
  BY RelinkStep
<1>3. "relink" \in Left(p) /\ now' = now /\ loc[p].fh.filetime \in Names /\ loc[p].fh.kind \in Kinds
  BY RelinkStep, OwnLocals, HeaderFacts DEF Relink
<1>4. loc[p].fh \in Known
  BY <1>1, PublicIs DEF Holds
<1>5. CASE Stays(p, l)
  <2>1. /\ l.new.filetime = loc[p].fh.filetime /\ l.new.kind = loc[p].fh.kind
        /\ l.from = {} /\ file' = file
    BY <1>3, <1>5, OldNameIs DEF Stays, Restores
  <2>2. loc'[p].new.kind = "M" => Settled(loc[p].new.filetime)'
    <3>1. loc[p].fh.kind = "M" => Settled(loc[p].fh.filetime)
      BY <1>4 DEF OrderInv
    <3>2. FilesStay /\ now' \in Nat /\ now <= now'
      BY <1>1, <1>3, <2>1, FilesStayIs DEF Typed
    <3>3. QED
      BY <1>1, <1>2, <2>1, <3>1, <3>2, SettledStays
  <2>3. Later(p)'
    BY <1>2, <2>1 DEF Later
  <2>4. QED
    BY <1>3, <2>1, <2>2, <2>3, FilesStayIs, OrderStep
<1>6. ASSUME NEW t \in Names, Moves(p, t, l)
      PROVE  OrderInv'
  <2>1. PICK k, u : k = loc[p].fh.kind /\ u = loc[p].fh.filetime
    OBVIOUS
  <2>2. /\ NewName(p, t, l) /\ t \in FreeNames(k) /\ file[k][u] # 0 /\ k \in Kinds /\ u \in Names
        /\ file' = [file EXCEPT ![k][t] = file[k][u], ![k][u] = 0]
        /\ hist'.freed = hist.freed \cup {u}
    BY <1>3, <1>6, <2>1 DEF Moves
  <2>3. /\ now <= t /\ file[k][t] = 0
        /\ \A v \in Names : now <= v /\ v < t => file[k][v] # 0
    BY <1>1, <2>2, FreeNameIs
  <2>4. /\ l.new.filetime = t /\ l.new.kind = k /\ l.from = Times("dir")
        /\ l.into = IF k = "G" THEN "digest" ELSE "dir"
    BY <1>3, <2>1, <2>2, NewNameIs DEF Restores
  <2>5. FilesStay
    BY <1>1, <2>2, <2>3 DEF FilesStay, Typed, Kinds
  <2>6. CASE k = "M"
    <3>1. file'["M"][t] # 0
      BY <1>1, <2>2, <2>3, <2>6 DEF Typed, Kinds
    <3>2. \A v \in Names : now <= v /\ v < t => file["M"][v] # 0 \/ v \in hist'.freed
      BY <2>3, <2>6
    <3>3. Settled(t)' /\ \A v \in Times("dir") : v < t \/ t \in hist'.freed
      BY <1>1, <1>3, <2>3, <2>5, <2>6, <3>1, <3>2, NewNameSettled
    <3>4. Settled(loc[p].new.filetime)' /\ Later(p)'
      BY <1>2, <2>4, <3>3 DEF Later
    <3>5. QED
      BY <1>3, <2>5, <3>4, OrderStep
  <2>7. CASE k = "G"
    <3>1. loc'[p].new.kind # "M" /\ loc'[p].into # "dir"
      BY <1>2, <2>4, <2>7
    <3>2. QED
      BY <1>3, <2>5, <3>1, OrderStep DEF Later
  <2>8. QED
    BY <2>2, <2>6, <2>7 DEF Kinds
<1>7. QED
  BY <1>2, <1>5, <1>6

LEMMA OrderManager ==
    ASSUME BaseInv, RangeInv, OrderInv, NEW p \in Procs, Moved(p), Manager(p)
    PROVE  OrderInv'
<1>1. Typed /\ Grows /\ Agree(loc[p], loc[p])
  BY OwnLocals DEF BaseInv, Moved
<1>2. CASE RangeLock(p)
  <2>1. PICK l : Ranges(p, l)
    BY <1>2, RangeLockStep
  <2>2. loc'[p].new = Hole /\ loc'[p].from = {} /\ file' = file /\ now' = now
    BY <1>2, <2>1 DEF Ranges, Starts, RangeLock
  <2>3. QED
    BY <2>2, SameStays, OrderSame, FilesStayIs
<1>3. CASE RangeCancel(p)
  <2>1. PICK i : Cancels(p, i)
    BY <1>3, RangeCancelStep
  <2>2. loc'[p].new = loc[p].new /\ Left(p)' = Left(p) /\ "append" \notin Left(p)
    <3>1. "append" \notin Left(p)
      BY <1>3, RangeCancelStep
    <3>2. loc'[p].new = loc[p].new
      BY <1>1, <2>1 DEF Cancels, Typed, Locals
    <3>3. QED
      BY <2>1, <3>1, <3>2 DEF Cancels
  <2>3. file' = file /\ now' = now
    BY <1>3 DEF RangeCancel
  <2>4. QED
    BY <2>2, <2>3, SameStays, OrderSame, FilesStayIs
<1>4. CASE RangeEnd(p)
  <2>1. After(p, "range", loc[p])
    BY <1>4, RangeEnds, RangeEndStep
  <2>2. file' = file /\ now' = now
    BY <1>4 DEF RangeEnd
  <2>3. QED
    BY <1>1, <2>1, <2>2, SameAfter, OrderSame, FilesStayIs
<1>5. CASE Digest(p)
  <2>1. PICK s : /\ Starts(p, s, loc[p])
                 /\ s \in {<<"undigest", "unlink", "toggle">>, <<"toggle">>, <<"excerpt", "toggle">>}
    BY <1>5, DigestStep
  <2>2. "append" \notin ToSet(s)
    BY <2>1, ElementsOf
  <2>3. "append" \notin Left(p)' /\ loc'[p] = loc[p]
    BY <2>1, <2>2 DEF Starts
  <2>4. QED
    BY <1>5, <2>3, SameStays, OrderSame, FilesStayIs DEF Digest, board
<1>6. CASE Excerpt(p)
  <2>1. After(p, "excerpt", loc[p]) /\ now' = now
    BY <1>6, ExcerptStep DEF Excerpt
  <2>2. file'["M"] = file["M"]
    <3>1. PICK a : file' = [file EXCEPT !["G"][loc[p].fh.filetime] = a]
      <4>1. file' = [file EXCEPT !["G"][loc[p].fh.filetime] =
                         IF @ = 0 THEN file["M"][loc[p].fh.filetime] ELSE @]
        BY <1>6 DEF Excerpt
      <4>2. PICK a : a = IF file["G"][loc[p].fh.filetime] = 0 THEN file["M"][loc[p].fh.filetime]
                         ELSE file["G"][loc[p].fh.filetime]
        OBVIOUS
      <4>3. QED
        BY <4>1, <4>2
    <3>2. QED
      BY <1>1, <3>1 DEF Typed, Kinds
  <2>3. QED
    BY <1>1, <2>1, <2>2, SameAfter, OrderSame, FilesStayIs
<1>7. CASE Undigest(p)
  <2>1. file' = file /\ now' = now
    BY <1>7 DEF Undigest
  <2>2. CASE Left(p)' = {"toggle"} /\ loc' = loc
    BY <2>1, <2>2, SameStays, OrderSame, FilesStayIs
  <2>3. CASE After(p, "undigest", loc[p])
    BY <1>1, <2>1, <2>3, SameAfter, OrderSame, FilesStayIs
  <2>4. QED
    BY <1>7, <2>2, <2>3, UndigestStep
<1>8. CASE UndigestUnlink(p)
  <2>1. After(p, "unlink", loc[p]) /\ file' = [file EXCEPT !["G"][loc[p].fh.filetime] = 0] /\ now' = now
    BY <1>8, UndigestUnlinkStep DEF UndigestUnlink
  <2>2. file'["M"] = file["M"]
    BY <1>1, <2>1 DEF Typed, Kinds
  <2>3. QED
    BY <1>1, <2>1, <2>2, SameAfter, OrderSame, FilesStayIs
<1>9. CASE Toggle(p)
  <2>1. After(p, "toggle", loc[p])
    BY <1>9, ToggleStep
  <2>2. file' = file /\ now' = now
    BY <1>9 DEF Toggle
  <2>3. QED
    BY <1>1, <2>1, <2>2, SameAfter, OrderSame, FilesStayIs
<1>10. CASE Undelete(p)
  <2>1. loc'[p] = loc[p] /\ Left(p)' = {"relink", "append", "stat", "total", "store", "strike"}
    BY <1>10, UndeleteStep DEF Starts
  <2>2. loc[p].from = {}
    <3>1. BaseInv' /\ loc'[p].from = loc[p].from
      BY <1>10, <2>1, UndeleteStep
    <3>2. Sound(loc'[p], Left(p)')
      BY <3>1 DEF BaseInv, LocalInv
    <3>3. QED
      BY <2>1, <3>1, <3>2 DEF Sound
  <2>3. QED
    BY <1>10, <2>1, <2>2, SameStays, OrderSame, FilesStayIs DEF Undelete, board
<1>11. CASE Relink(p)
  BY <1>11, OrderRelink
<1>12. CASE Strike(p)
  <2>1. After(p, "strike", loc[p])
    BY <1>12, StrikeStep
  <2>2. file' = file /\ now' = now
    BY <1>12 DEF Strike
  <2>3. QED
    BY <1>1, <2>1, <2>2, SameAfter, OrderSame, FilesStayIs
<1>13. QED
  BY <1>2, <1>3, <1>4, <1>5, <1>6, <1>7, <1>8, <1>9, <1>10, <1>11, <1>12 DEF Manager

LEMMA OrderCron ==
    ASSUME BaseInv, OrderInv, NEW p \in Procs, Moved(p), Cron(p)
    PROVE  OrderInv'
<1>1. Typed /\ Grows /\ Agree(loc[p], loc[p])
  BY OwnLocals DEF BaseInv, Moved
<1>2. CASE JunkRead(p)
  <2>1. PICK l : Copies(p, l)
    BY <1>2, JunkReadStep
  <2>2. loc'[p].new = Hole /\ loc'[p].from = {}
    BY <2>1 DEF Copies, Starts
  <2>3. QED
    BY <1>2, <2>2, SameStays, OrderSame, FilesStayIs DEF JunkRead, board
<1>3. CASE JunkSwap(p)
  <2>1. After(p, "swap", loc[p])
    BY <1>3, JunkSwapStep
  <2>2. file' = file /\ now' = now
    BY <1>3 DEF JunkSwap
  <2>3. QED
    BY <1>1, <2>1, <2>2, SameAfter, OrderSame, FilesStayIs
<1>4. CASE LostStart(p)
  <2>1. PICK l : Searches(p, l)
    BY <1>4, LostStartStep
  <2>2. loc'[p].new = Hole /\ loc'[p].from = {}
    BY <2>1 DEF Searches, Starts
  <2>3. QED
    BY <1>4, <2>2, SameStays, OrderSame, FilesStayIs DEF LostStart, board
<1>5. CASE LostRead(p)
  <2>1. PICK v \in Lists : \E l : After(p, v, l) /\ Reads(p, v, l)
    BY <1>5, LostReadStep
  <2>2. PICK l : After(p, v, l) /\ Reads(p, v, l)
    BY <2>1
  <2>3. Agree(l, loc[p])
    BY <2>2, ReadsIs DEF Narrowed
  <2>4. QED
    BY <1>5, <2>2, <2>3, SameAfter, OrderSame, FilesStayIs DEF LostRead, board
<1>6. CASE RmLost(p)
  <2>1. /\ After(p, "rmlost", loc[p])
        /\ \A k \in Kinds, t \in Names :
               file'[k][t] = IF <<k, t>> \in loc[p].lost /\ loc[p].start - t >= MinAge
                             THEN 0 ELSE file[k][t]
    BY <1>6, RmLostStep
  <2>2. now' = now /\ loc[p].start \in Nat /\ loc[p].start <= now /\ now \in Nat
    BY <1>6, OwnLocals DEF RmLost
  <2>3. ASSUME NEW t \in Names, now <= t
        PROVE  ~(loc[p].start - t >= MinAge)
    BY <2>2, <2>3, NamesAre, ConstantsAre
  <2>4. FilesStay
    BY <2>1, <2>3 DEF FilesStay, Kinds
  <2>5. QED
    BY <1>1, <2>1, <2>2, <2>4, SameAfter, OrderSame
<1>7. QED
  BY <1>2, <1>3, <1>4, <1>5, <1>6 DEF Cron

LEMMA OrderInit ==
    ASSUME Init
    PROVE  OrderInv
<1>1. Typed /\ now = Old + 1
  BY InitTyped DEF Init
<1>2. PICK d : d = [i \in 1..Old |-> NewLine(i, i)]
  OBVIOUS
<1>3. /\ list["dir"] = d /\ \A l \in Lists \ {"dir"} : list[l] = <<>>
      /\ \A p \in Procs : loc[p] = NoLocals /\ Left(p) = {}
  BY <1>2, ElementsOf DEF Init, Lists, Left
<1>4. ASSUME NEW h \in Known
      PROVE  h.filetime \in 0..Old
  <2>1. Hole.filetime = 0 /\ NoLocals.fh = Hole /\ NoLocals.new = Hole /\ NoLocals.read = <<>>
    BY DEF Hole, NewLine, NoLocals
  <2>2. CASE \E l \in Lists : \E i \in DOMAIN list[l] : h = list[l][i]
    BY <1>2, <1>3, <2>2, ConstantsAre DEF NewLine
  <2>3. CASE h = Hole
    BY <2>1, <2>3, ConstantsAre
  <2>4. h = Hole \/ \E l \in Lists : \E i \in DOMAIN list[l] : h = list[l][i]
    BY <1>3, <2>1 DEF Known, Public, Holds
  <2>5. QED
    BY <2>2, <2>3, <2>4
<1>5. \A h \in Known : Settled(h.filetime)
  BY <1>1, <1>4, NamesAre, ConstantsAre DEF Settled
<1>6. \A p \in Procs : Later(p)
  BY <1>3 DEF Later
<1>7. QED
  BY <1>5, <1>6 DEF OrderInv

LEMMA OrderNext ==
    ASSUME BoardInv, OrderInv, [Next]_vars
    PROVE  OrderInv'
<1>1. BaseInv /\ RangeInv /\ Typed
  BY DEF BoardInv, BaseInv
<1>2. CASE Tick \/ Finished \/ UNCHANGED vars
  <2>1. Still
    BY <1>1, <1>2, TickIs, StutterIs DEF Finished
  <2>2. /\ \A p \in Procs : Left(p)' = Left(p)
        /\ file' = file /\ loc' = loc /\ hist' = hist /\ Known' = Known
        /\ now' \in Nat /\ now <= now'
    BY <1>1, <2>1, StillIs DEF Still
  <2>3. \A u : Settled(u) => Settled(u)'
    BY <1>1, <2>2, SettledStays, GrowsIs, FilesStayIs
  <2>4. QED
    BY <2>2, <2>3 DEF OrderInv, Later
<1>3. ASSUME NEW p \in Procs, Acts(p)
      PROVE  OrderInv'
  <2>1. Moved(p)
    BY <1>1, <1>3, ActsMove
  <2>2. QED
    BY <1>1, <1>3, <2>1, OrderPost, OrderWeb, OrderSession, OrderManager, OrderCron DEF Acts
<1>4. QED
  BY <1>2, <1>3 DEF Next, Acts

(***************************************************************************)
(* .DIR stays in the order Search_Bin needs: whoever enters an article     *)
(* does so behind the lines .DIR had when the article got its name, unless *)
(* the name was given up by another before.  Names are given by time(0),   *)
(* and those given out in the same second by counting on from there; the   *)
(* proof is that a name that is free below one given out was given up.     *)
(***************************************************************************)
THEOREM DirIsOrdered == Spec => Ordered
<1>1. Init => BoardInv /\ OrderInv
  BY BoardInit, OrderInit
<1>2. BoardInv /\ OrderInv /\ [Next]_vars => (BoardInv /\ OrderInv)'
  BY BoardNext, OrderNext
<1>3. ASSUME OrderInv, NEW p \in Procs, Takes(p, "append"), loc[p].into = "dir",
             loc[p].new.filetime \notin hist.freed, NEW t \in loc[p].from, BoardInv
      PROVE  t < loc[p].new.filetime
  <2>1. Typed /\ At(p, "append")
    BY <1>3 DEF Takes, BoardInv, BaseInv
  <2>2. "append" \in Left(p)
    BY <2>1, LeftIs
  <2>3. QED
    BY <1>3, <2>2 DEF OrderInv, Later
<1>4. BoardInv /\ OrderInv => \A p \in Procs :
          /\ Takes(p, "append") /\ loc[p].into = "dir"
          /\ loc[p].new.filetime \notin hist.freed
          => \A t \in loc[p].from : t < loc[p].new.filetime
  BY <1>3
<1>5. QED
  BY <1>1, <1>2, <1>4, PTL DEF Spec, Ordered
=============================================================================
