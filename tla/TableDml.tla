------------------------------- MODULE TableDml -------------------------------
(***************************************************************************)
(* What a whole INSERT, DELETE or DDL call does to one heap table and to   *)
(* its secondary index (engine/executor/dml.py over core/src/catalog):     *)
(* operators from a table to a table, with the errors the code raises.     *)
(*                                                                         *)
(* A table is a record: does it exist, is its index registered in the      *)
(* catalog, the slots of the first page of its heap file (a RID is a       *)
(* slot), and the (key, RID) entries of the index, which is on column val. *)
(* A call that raises leaves the table as the code leaves it after its own *)
(* best-effort reversion.                                                  *)
(***************************************************************************)
EXTENDS Naturals, FiniteSets, Sequences, SequencesExt

CONSTANTS Key,     \* values of the primary key
          Val,     \* values of the indexed column
          Slots    \* records in a page

(* Keys are unique, so the page never fills: the heap file behind it, with more
   pages and its free list, is in HeapFile. *)
ASSUME PageAssumption ==
    IsFiniteSet(Key) /\ Slots \in Nat /\ Cardinality(Key) <= Slots

Slot == 1 .. Slots

Row == [key : Key, val : Val]

NoRow == [key |-> "none", val |-> "none"]

ASSUME NoRowIsNoRow == NoRow \notin Row

EmptyTable(there) ==
    [exists |-> there, indexed |-> FALSE,
     slots |-> [i \in Slot |-> NoRow], entries |-> {}]

(* A row with the RID it was found at: DeleteCandidate. *)
Candidate == [slot : Slot, row : Row]

(* Slots in the order of a scan. *)
BySlot(ss) ==
    CHOOSE q \in [1 .. Cardinality(ss) -> ss] : \A i, j \in DOMAIN q : i < j => q[i] < q[j]

UsedSlots(T) == {i \in Slot : T.slots[i] # NoRow}

RowsOf(T) == {T.slots[i] : i \in UsedSlots(T)}

HasKey(T, k) == \E r \in RowsOf(T) : r.key = k

EntryFor(c) == [val |-> c.row.val, slot |-> c.slot]

(* The index holds one entry per row, with the RID the row is at. *)
IndexMirrors(T) ==
    T.indexed => T.entries = {[val |-> T.slots[i].val, slot |-> i] : i \in UsedSlots(T)}

(* How a call ends: the table it leaves, whether it raised nothing, and the
   candidates it inserted or removed. *)
Done(T, cs) == [table |-> T, ok |-> TRUE, candidates |-> cs]

Raise(T) == [table |-> T, ok |-> FALSE, candidates |-> <<>>]

-------------------------------------------------------------------------------
(* database.table and database.index, called before anything is modified: they
   throw SchemaError for a table or an index the catalog does not have. *)
HandlesOpen(T, withIndex) == T.exists /\ (withIndex => T.indexed)

(* HeapFile::insert takes the first slot without a live record. *)
FirstFree(T) ==
    CHOOSE i \in Slot \ UsedSlots(T) : \A j \in Slot \ UsedSlots(T) : i <= j

(* Variant: the primary key is not checked. *)
InsertUnchecked(T, r, withIndex) ==
    IF ~HandlesOpen(T, withIndex) \/ UsedSlots(T) = Slot
    THEN Raise(T)
    ELSE LET c == [slot |-> FirstFree(T), row |-> r]
         IN  Done([T EXCEPT !.slots[c.slot] = r,
                            !.entries = IF withIndex THEN @ \cup {EntryFor(c)} ELSE @],
                  <<c>>)

(* insert_with_indexes: the handles, the row (DuplicateKey), the index entry.
   With `withIndex` FALSE the index metadata it was given is empty. *)
InsertWithIndexes(T, r, withIndex) ==
    IF ~HandlesOpen(T, withIndex) \/ HasKey(T, r.key)
    THEN Raise(T)
    ELSE LET c == [slot |-> FirstFree(T), row |-> r]
         IN  Done([T EXCEPT !.slots[c.slot] = r,
                            !.entries = IF withIndex THEN @ \cup {EntryFor(c)} ELSE @],
                  <<c>>)

(* Variant: only the first row comes back. *)
ReinsertFirst(T, cs, withIndex) == InsertWithIndexes(T, cs[1].row, withIndex)

(* The undo of a DELETE: insert_with_indexes for each candidate, in order; the
   first one that raises leaves the others without inserting. *)
ReinsertAll(T, cs, withIndex) ==
    LET after[n \in 0 .. Len(cs)] ==
          IF n = 0 THEN Done(T, <<>>)
          ELSE IF ~after[n - 1].ok THEN after[n - 1]
          ELSE InsertWithIndexes(after[n - 1].table, cs[n].row, withIndex)
    IN  after[Len(cs)]

(* Variant: the rows go and their index entries stay. *)
WithoutRowsOnly(T, cs, withIndex) ==
    LET keys == {cs[i].row.key : i \in DOMAIN cs}
    IN  [T EXCEPT
           !.slots = [i \in Slot |-> IF @[i] # NoRow /\ @[i].key \in keys THEN NoRow ELSE @[i]]]

Without(T, cs, withIndex) ==
    LET keys == {cs[i].row.key : i \in DOMAIN cs}
    IN  [T EXCEPT
           !.slots = [i \in Slot |-> IF @[i] # NoRow /\ @[i].key \in keys THEN NoRow ELSE @[i]],
           !.entries = IF withIndex THEN @ \ {EntryFor(cs[i]) : i \in DOMAIN cs} ELSE @]

(* delete_with_indexes. First every index entry, then every row. An entry that
   is not in the index raises before any row is touched, and the entries already
   removed are put back, so nothing changes. A row that is gone raises too: the
   callers only pass several candidates that were read from the table itself, so
   that happens to a single one, and its entry comes back if its RID still holds
   a record (_restored_rid). *)
DeleteWithIndexes(T, cs, withIndex) ==
    LET missingEntry == \E i \in DOMAIN cs : EntryFor(cs[i]) \notin T.entries
        missingRow == \E i \in DOMAIN cs : ~HasKey(T, cs[i].row.key)
        lost == {EntryFor(cs[i]) : i \in {j \in DOMAIN cs : T.slots[cs[j].slot] = NoRow}}
    IN  IF ~HandlesOpen(T, withIndex) \/ (withIndex /\ missingEntry)
        THEN Raise(T)
        ELSE IF missingRow
        THEN Raise(IF withIndex THEN [T EXCEPT !.entries = @ \ lost] ELSE T)
        ELSE Done(Without(T, cs, withIndex), cs)

-------------------------------------------------------------------------------
(* The WHERE of a DELETE: an equality on the primary key or on the indexed
   column. *)
Where == [col : {"key"}, value : Key] \cup [col : {"val"}, value : Val]

Satisfies(r, w) == IF w.col = "key" THEN r.key = w.value ELSE r.val = w.value

(* collect_delete_candidates. An equality on an indexed column goes through the
   index and trusts it (INDEX_SEARCH leaves no residual filter), and a RID that
   resolves to nothing raises; everything else reads the table and filters. *)
UsesIndex(w, withIndex) == withIndex /\ w.col = "val"

CandidateSlots(T, w, withIndex) ==
    IF UsesIndex(w, withIndex)
    THEN {e.slot : e \in {x \in T.entries : x.val = w.value}}
    ELSE {i \in UsedSlots(T) : Satisfies(T.slots[i], w)}

ExecuteDelete(T, w, withIndex) ==
    LET found == CandidateSlots(T, w, withIndex)
        order == BySlot(found)
        cs == [n \in DOMAIN order |-> [slot |-> order[n], row |-> T.slots[order[n]]]]
    IN  IF ~HandlesOpen(T, withIndex) \/ ~(found \subseteq UsedSlots(T))
        THEN Raise(T)
        ELSE DeleteWithIndexes(T, cs, withIndex)

-------------------------------------------------------------------------------
(* Database::create_index: the catalog entry and an index built from the rows.
   A second index of that name is a SchemaError. *)
CreateIndex(T) ==
    IF ~T.exists \/ T.indexed
    THEN Raise(T)
    ELSE Done([T EXCEPT !.indexed = TRUE,
                        !.entries = {[val |-> T.slots[i].val, slot |-> i] : i \in UsedSlots(T)}],
              <<>>)

(* Database::create_table and Database::drop_table. *)
CreateTable(T) == IF T.exists THEN Raise(T) ELSE Done(EmptyTable(TRUE), <<>>)

DropTable(T) == IF T.exists THEN Done(EmptyTable(FALSE), <<>>) ELSE Raise(T)

===============================================================================
