------------------------------ MODULE BrcMarks ------------------------------
(***************************************************************************)
(* The read marks of one user on one board (struct onebrc) and their       *)
(* compressed form (struct onebrc_c), as pure operators.                   *)
(*                                                                         *)
(* An article is known by its time.  The list holds times of articles that *)
(* were read, latest first; whatever is older than the last entry counts   *)
(* as read.  The cursor cur (from 0) is only a hint where to start.        *)
(***************************************************************************)
EXTENDS Integers, Sequences

CONSTANTS
    MaxNum,  \* BRC_MAXNUM: entries of a list
    Byte,    \* values of a byte, 256 in the code
    HeadLen  \* bytes of a block before the differences

ASSUME BrcMarksAssumption ==
    MaxNum \in Nat \ {0} /\ Byte \in Nat \ {0, 1} /\ HeadLen \in Nat \ {0}

(* struct onebrc *)
OneBrc(board, list, cur, changed) ==
    [board |-> board, list |-> list, cur |-> cur, changed |-> changed]

At(l, i) == l[i + 1]   \* list[i] of the code
Least(S) == CHOOSE x \in S : \A y \in S : x <= y
Greatest(S) == CHOOSE x \in S : \A y \in S : x >= y

(* A list is in order. *)
Descending(l) == \A i \in 1 .. Len(l) - 1 : l[i] > l[i + 1]

(* What a list means: t is read if it is in the list or older than it. *)
ReadIn(l, t) == l # <<>> /\ ((\E i \in DOMAIN l : l[i] = t) \/ t < l[Len(l)])

-----------------------------------------------------------------------------
(***************************************************************************)
(* brc_locate: moves the cursor to the first entry not later than t.  If t *)
(* is not later than the entry at the cursor the search goes down the      *)
(* list, to its end if need be; otherwise up, until the next entry is      *)
(* later than t.                                                           *)
(***************************************************************************)

Locate(r, t) ==
    LET num == Len(r.list)
        c == IF r.cur >= num THEN num - 1 ELSE r.cur
        Down == {i \in c .. num - 1 : t >= At(r.list, i)} \cup {num}
        Up == {i \in 0 .. c : \/ i = 0 \/ t < At(r.list, i - 1)
                              \/ i < c /\ t = At(r.list, i)}
        at == IF num = 0 THEN 0
              ELSE IF t <= At(r.list, c) THEN Least(Down) ELSE Greatest(Up)
    IN  [rc |-> [r EXCEPT !.cur = at],
         found |-> at < num /\ t = At(r.list, at)]

(* brc_unreadt, after brc_locate has given l *)
Unread(l) == ~l.found /\ (l.rc.list = <<>> \/ l.rc.cur < Len(l.rc.list))

(* brc_insert: before the cursor; the last entry of a full list is lost. *)
Insert(r, t) ==
    LET num == IF Len(r.list) < MaxNum THEN Len(r.list) + 1 ELSE Len(r.list)
    IN  IF r.cur >= num THEN r
        ELSE OneBrc(r.board, SubSeq(r.list, 1, r.cur) \o <<t>> \o SubSeq(r.list, r.cur + 1, num - 1),
                    r.cur, TRUE)

(* brc_set: the entry at the cursor, which becomes the last. *)
SetLast(r, t) ==
    IF r.list # <<>> /\ r.cur >= Len(r.list) THEN r
    ELSE OneBrc(r.board, SubSeq(r.list, 1, r.cur) \o <<t>>, r.cur, TRUE)

brc_addlistt(r, t) ==
    LET l == Locate(r, t) IN IF Unread(l) THEN Insert(l.rc, t) ELSE l.rc

brc_clearto(r, t) == SetLast(Locate(r, t).rc, t)

-----------------------------------------------------------------------------
(***************************************************************************)
(* shorter_brc: entries at the end that follow each other at a distance of *)
(* one need not be kept.                                                   *)
(***************************************************************************)
shorter_brc(l) ==
    IF Len(l) < 2 THEN l
    ELSE LET n == IF l[1] >= 2 /\ l[Len(l)] = 1 /\ l[Len(l) - 1] = 2
                  THEN Len(l) - 1 ELSE Len(l)
         IN  SubSeq(l, 1, Least({k \in 1 .. n :
                                 \A i \in k .. n - 1 : l[i] - l[i + 1] = 1}))

(***************************************************************************)
(* compress_brc: the first time, then the differences, each in as many     *)
(* bytes (1 to 4) as it needs.                                             *)
(***************************************************************************)

(* How many values one, two and three bytes have. *)
Limit == <<Byte, Byte * Byte, Byte * Byte * Byte>>

(* Faulty form: the limits of the widths are off by one. *)
WidthOff(d) ==
    IF d <= Limit[1] THEN 1 ELSE IF d <= Limit[2] THEN 2 ELSE IF d <= Limit[3] THEN 3 ELSE 4

Width(d) ==
    IF d < Limit[1] THEN 1 ELSE IF d < Limit[2] THEN 2 ELSE IF d < Limit[3] THEN 3 ELSE 4

Diff(d) == [width |-> Width(d), value |-> IF Width(d) = 4 THEN d ELSE d % Limit[Width(d)]]

(* len of a block: two bits tell the width of a difference. *)
BlockLen(diffs) ==
    LET Sum[i \in 0 .. Len(diffs)] == IF i = 0 THEN 0 ELSE Sum[i - 1] + diffs[i].width
    IN  HeadLen + (2 * Len(diffs) + 7) \div 8 + Sum[Len(diffs)]

compress_brc(board, l) ==
    LET diffs == [i \in 1 .. Len(l) - 1 |-> Diff(l[i] - l[i + 1])]
    IN  [board |-> board, len |-> BlockLen(diffs), first |-> l[1], diffs |-> diffs]

(* The list of a block: uncompress_brc builds it, brc_c_unreadt walks it. *)
uncompress_brc(c) ==
    LET list[i \in 1 .. Len(c.diffs) + 1] ==
            IF i = 1 THEN c.first ELSE list[i - 1] - c.diffs[i - 1].value
    IN  [i \in 1 .. Len(c.diffs) + 1 |-> list[i]]

(* Faulty form: the walk ends one difference early. *)
CUnreadShort(c, t) ==
    LET l == uncompress_brc(c)
        Stop == {i \in 1 .. Len(l) : t >= l[i] /\ i < Len(l)}
    IN  Stop # {} /\ t > l[Least(Stop)]

brc_c_unreadt(c, t) ==
    LET l == uncompress_brc(c)
        Stop == {i \in 1 .. Len(l) : t >= l[i]}
    IN  Stop # {} /\ t > l[Least(Stop)]

SizeOf(blocks) ==
    LET Sum[i \in 0 .. Len(blocks)] == IF i = 0 THEN 0 ELSE Sum[i - 1] + blocks[i].len
    IN  Sum[Len(blocks)]
=============================================================================
