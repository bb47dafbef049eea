------------------------------ MODULE Records ------------------------------
(***************************************************************************)
(* What mailboxes and boards do alike to an index, a file of fileheaders:  *)
(* here a sequence of records with a field filetime, counted from 1.       *)
(***************************************************************************)
EXTENDS Integers, Sequences, SequencesExt

(* Positions count from 0; not found is below 0. *)
Search_Bin(d, key, start, end) ==
    LET probe[r \in (0..(Len(d) + 1)) \X (-1..Len(d))] ==
            LET low == r[1]
                high == r[2]
                mid == (low + high) \div 2
            IN  IF low > high THEN -(low + 1)
                ELSE IF key = d[mid + 1].filetime THEN mid
                ELSE IF key < d[mid + 1].filetime THEN probe[<<low, mid - 1>>]
                ELSE probe[<<mid + 1, high>>]
    IN  probe[<<start, end>>]

(* change_dir and delete_file search from the old place downwards; they    *)
(* give up when the old place is past the end.                             *)
Place(d, key, ent) ==
    IF ent > Len(d) THEN 0
    ELSE SelectLastInSubSeq(d, 1, ent, LAMBDA fh : fh.filetime = key)

(* The record is written at its old place, past the end of the file if     *)
(* need be.                                                                *)
substitute_record(d, fh, ent, hole) ==
    [i \in 1..(IF ent > Len(d) THEN ent ELSE Len(d)) |->
        IF i = ent THEN fh ELSE IF i <= Len(d) THEN d[i] ELSE hole]

(* The records of d but those at the positions gone, in their order.       *)
Without(d, gone) ==
    LET upto[i \in 0..Len(d)] ==
            IF i = 0 THEN <<>>
            ELSE IF i \in gone THEN upto[i - 1] ELSE Append(upto[i - 1], d[i])
    IN  upto[Len(d)]

(* delete_range: from the first record that goes on, the rest is written   *)
(* from memory.                                                            *)
Rewritten(d, read, gone) ==
    LET start == CHOOSE i \in gone : \A j \in gone : i <= j
    IN  IF gone = {} THEN d
        ELSE SubSeq(d, 1, start - 1) \o Without(read, gone \cup 1..start)
=============================================================================
