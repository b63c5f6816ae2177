------------------------------ MODULE ListPatch ------------------------------
(* The patches a list sends to its native row store, and what the store does *)
(* with them: components/lists.py, _metadata_patch, and                      *)
(* native/core/src/lists.cpp.  A row is its key and its item's revision; its *)
(* extent and sticky flag travel with it and are left out.                   *)
EXTENDS Integers, Sequences, SequencesExt, FiniteSets, Arrangements

CONSTANT PatchLimit   \* 128 in the code: more differences than this send a reset

ASSUME PatchLimitAssumption == PatchLimit \in Nat

Row(k, rev) == [key |-> k, rev |-> rev]
KeyList(rows) == [i \in DOMAIN rows |-> rows[i].key]
KeysOf(rows) == ToSet(KeyList(rows))
IndexOf(rows, k) == Position(KeyList(rows), k)
Reordered(order, k, i) == InsertAt(RemoveAt(order, Position(order, k)), i, k)

(* Positions count from 1 here and from 0 in the packets. *)
InsertRow(i, row) == [op |-> "i", at |-> i, row |-> row]
UpdateRow(row) == [op |-> "u", row |-> row]
DeleteRow(k) == [op |-> "d", key |-> k]
MoveRow(k, i) == [op |-> "m", key |-> k, at |-> i]
ResetRows(rows) == [op |-> "reset", rows |-> rows]

EmptyStore == [revision |-> 0, rows |-> <<>>]

---------------------------------------------------------------------------
(* ListStore::prepare, one change: the guards decide whether the change fits *)
(* the rows as the changes before it left them.                              *)
Fits(work, c) ==
    CASE c.op = "reset" -> work.first /\ Cardinality(KeysOf(c.rows)) = Len(c.rows)
      [] c.op = "i" -> c.at \in 1..(Len(work.rows) + 1) /\ c.row.key \notin KeysOf(work.rows)
      [] c.op = "u" -> c.row.key \in KeysOf(work.rows)
      [] c.op = "d" -> c.key \in KeysOf(work.rows)
      [] c.op = "m" -> c.key \in KeysOf(work.rows) /\ c.at \in 1..Len(work.rows)

Change(rows, c) ==
    CASE c.op = "reset" -> c.rows
      [] c.op = "i" -> InsertAt(rows, c.at, c.row)
      [] c.op = "u" -> ReplaceAt(rows, IndexOf(rows, c.row.key), c.row)
      [] c.op = "d" -> RemoveAt(rows, IndexOf(rows, c.key))
      [] c.op = "m" -> LET i == IndexOf(rows, c.key)
                       IN  InsertAt(RemoveAt(rows, i), c.at, rows[i])

(* ListStore::prepare of a whole packet: refused when it does not continue   *)
(* the store's revision or one of its changes does not fit.                  *)
Step(work, c) == IF work.ok /\ Fits(work, c)
                 THEN [ok |-> TRUE, first |-> FALSE, rows |-> Change(work.rows, c)]
                 ELSE [work EXCEPT !.ok = FALSE]
Prepared(store, packet) ==
    LET continues == packet.base = store.revision /\ packet.revision = store.revision + 1
        work[i \in 0..Len(packet.changes)] ==
            IF i = 0 THEN [ok |-> continues, first |-> TRUE, rows |-> store.rows]
            ELSE Step(work[i - 1], packet.changes[i])
    IN  work[Len(packet.changes)]

(* ListStore::publish: only a prepared packet is published. *)
Published(store, packet) ==
    IF Prepared(store, packet).ok
    THEN [revision |-> packet.revision, rows |-> Prepared(store, packet).rows]
    ELSE store

---------------------------------------------------------------------------
(* Mutant of Place: a row that moves is not updated as well. *)
MutantMoveOnly(old, new, work, i) ==
    LET row == new[i]
        known == row.key \in KeysOf(old)
        moves == known /\ work.order[i] # row.key
    IN  [order |-> IF moves THEN Reordered(work.order, row.key, i)
                   ELSE IF known THEN work.order ELSE InsertAt(work.order, i, row.key),
         moves |-> IF moves THEN work.moves + 1 ELSE work.moves,
         out |-> work.out \o (IF moves THEN <<MoveRow(row.key, i)>>
                              ELSE IF ~known THEN <<InsertRow(i, row)>>
                              ELSE IF old[IndexOf(old, row.key)] # row THEN <<UpdateRow(row)>>
                              ELSE <<>>)]

(* One row of the new list is put in its place: the working order holds the  *)
(* new keys before it, and then the old ones that are still to come.         *)
Place(old, new, work, i) ==
    LET row == new[i]
        known == row.key \in KeysOf(old)
        moves == known /\ work.order[i] # row.key
    IN  [order |-> IF moves THEN Reordered(work.order, row.key, i)
                   ELSE IF known THEN work.order ELSE InsertAt(work.order, i, row.key),
         moves |-> IF moves THEN work.moves + 1 ELSE work.moves,
         out |-> (work.out \o (IF moves THEN <<MoveRow(row.key, i)>>
                               ELSE IF known THEN <<>> ELSE <<InsertRow(i, row)>>))
                 \o (IF known /\ old[IndexOf(old, row.key)] # row THEN <<UpdateRow(row)>> ELSE <<>>)]

(* _metadata_patch for an ordinary sequence: updates in place while the keys *)
(* stay, else deletions, then one pass that inserts, moves and updates until *)
(* the working order is the wanted one; a reset when that takes too much.    *)
SequencePatch(old, new) ==
    LET reset == <<ResetRows(new)>>
        stale == Those(new, {row \in ToSet(new) : old[IndexOf(old, row.key)] # row})
        gone == Those(KeyList(old), KeysOf(old) \ KeysOf(new))
        pass[i \in 0..Len(new)] ==
            IF i = 0 THEN [order |-> Those(KeyList(old), KeysOf(new)), moves |-> 0,
                           out |-> [j \in DOMAIN gone |-> DeleteRow(gone[j])]]
            ELSE Place(old, new, pass[i - 1], i)
        differences == Cardinality((KeysOf(old) \ KeysOf(new)) \cup (KeysOf(new) \ KeysOf(old)))
    IN  IF KeyList(old) = KeyList(new) THEN [i \in DOMAIN stale |-> UpdateRow(stale[i])]
        ELSE IF differences > PatchLimit \/ pass[Len(new)].moves > PatchLimit THEN reset
        ELSE pass[Len(new)].out

(* Every ordinary sequence of rows over some keys, each at one of two        *)
(* revisions.                                                                *)
RowLists(names) ==
    UNION {{[i \in 1..n |-> Row(o[i], r[i])] :
                o \in {o \in [1..n -> names] : IsInjective(o)}, r \in [1..n -> 1..2]} :
           n \in 0..Cardinality(names)}
=============================================================================
