------------------------------- MODULE Paging -------------------------------
(***************************************************************************)
(* Cursor pagination, as every list of the server has it: rows in the      *)
(* order of a sort key and, where keys are equal, of their id; one row     *)
(* more than the limit is asked for, and the cursor of the next page is    *)
(* the last row of this one.                                               *)
(*                                                                         *)
(* A row is the part of it that orders it, [key, id].  Keys and ids are    *)
(* numbers; a cursor carries both exactly, as the encoding does.           *)
(***************************************************************************)
EXTENDS Ordering

CONSTANT None   \* no cursor

ASSUME NoneAssumption == None \notin [key : Nat, id : Nat]

(* The tie-breaker is left out.                                            *)
PastSlip(cursor, row, descending) ==
  IF descending THEN row.key < cursor.key ELSE row.key > cursor.key

Past(cursor, row, descending) ==
  \/ IF descending THEN row.key < cursor.key ELSE row.key > cursor.key
  \/ row.key = cursor.key /\ (IF descending THEN row.id < cursor.id ELSE row.id > cursor.id)

Resume(rows, cursor, descending) ==
  {row \in rows : cursor # None => Past(cursor, row, descending)}

(* No row before one that it is past.                                      *)
InOrder(rows, descending) ==
  Sorted(rows, {v \in rows \X rows : ~Past(v[2], v[1], descending)})

BuildPage(rows, limit) ==
  LET items == SubSeq(rows, 1, limit) IN
  IF Len(rows) > limit THEN [items |-> items, next |-> items[limit]]
  ELSE [items |-> rows, next |-> None]

(* One page: the rows past the cursor, limit + 1 of them at most.          *)
PageAfter(rows, cursor, limit, descending) ==
  LET rest == InOrder(Resume(rows, cursor, descending), descending) IN
  BuildPage(SubSeq(rest, 1, IF Len(rest) > limit THEN limit + 1 ELSE Len(rest)), limit)
=============================================================================
