------------------------------ MODULE DmlFaults ------------------------------
(***************************************************************************)
(* insert_with_indexes and delete_with_indexes (engine/executor/dml.py)    *)
(* one call to the native core at a time, over a table with several        *)
(* secondary indexes, where any of those calls may raise.  TableDml has    *)
(* the same two functions as single steps; WholeCallsAgree relates them.   *)
(*                                                                         *)
(* An index insertion that raises may or may not have taken effect, which  *)
(* is what the code defends against.  A removal, or a write of the table,  *)
(* that raises has had no effect here.                                     *)
(***************************************************************************)
EXTENDS TableDml

CONSTANTS Indexes,   \* number of secondary indexes of the table
          MaxFaults  \* bound on the native calls that raise

VARIABLES slots,    \* the heap page
          entries,  \* per index, its entries
          call,     \* the call in progress, with its loop variables
          answer,   \* how the last call ended
          before,   \* slots and entries when the last call started
          stale,    \* some undo has brought a candidate that is out of date
          faults

dmlVars == <<slots, entries, call, answer, before, stale, faults>>

Secondary == 1 .. Indexes

NoCall == [kind |-> "none"]

(* The table as TableDml sees it, with one of its indexes. *)
TableWith(ss, es, i) == [exists |-> TRUE, indexed |-> TRUE, slots |-> ss, entries |-> es[i]]

Rows(ss) == {ss[s] : s \in Slot} \ {NoRow}

SlotOfKey(k) == {s \in Slot : slots[s] # NoRow /\ slots[s].key = k}

FreeSlot == FirstFree(TableWith(slots, entries, 1))

DmlInit ==
    /\ slots = [s \in Slot |-> NoRow]
    /\ entries = [i \in Secondary |-> {}]
    /\ call = NoCall /\ answer = "none"
    /\ before = [slots |-> slots, entries |-> entries]
    /\ stale = FALSE
    /\ faults = 0

Fault == faults < MaxFaults /\ faults' = faults + 1

NoFault == UNCHANGED faults

(* The call goes on at `phase`, at step `pos` of its loop. *)
Continue(phase, pos) == call' = [call EXCEPT !.phase = phase, !.pos = pos]

Ends(how) == call' = NoCall /\ answer' = how

-------------------------------------------------------------------------------
(* insert_with_indexes. *)

Enter(kind, phase, cs) ==
    /\ call = NoCall
    /\ call' = [kind |-> kind, phase |-> phase, pos |-> 1, cs |-> cs,
                rowsGone |-> 0, entriesGone |-> 0, restored |-> [n \in DOMAIN cs |-> 0]]
    /\ answer' = "none"
    /\ before' = [slots |-> slots, entries |-> entries]

(* The row; a duplicate key raises with nothing changed. *)
InsertRow(r) ==
    /\ SlotOfKey(r.key) = {}
    /\ Enter("insert", "add", <<[slot |-> FreeSlot, row |-> r]>>)
    /\ slots' = [slots EXCEPT ![FreeSlot] = r]
    /\ UNCHANGED <<entries, faults, stale>>

Added == [entries EXCEPT ![call.pos] = @ \cup {EntryFor(call.cs[1])}]

AddEntry ==
    /\ call.kind = "insert" /\ call.phase = "add"
    /\ \/ /\ entries' = Added /\ NoFault
          /\ IF call.pos = Indexes THEN Ends("ok")
             ELSE Continue("add", call.pos + 1) /\ UNCHANGED answer
       \/ /\ entries' \in {entries, Added} /\ Fault
          /\ Continue("unadd", call.pos) /\ UNCHANGED answer
    /\ UNCHANGED <<slots, before, stale>>

(* The reversion: the entries attempted, last first, each best effort. *)
UnaddEntry ==
    /\ call.kind = "insert" /\ call.phase = "unadd" /\ call.pos > 0
    /\ \/ entries' = [entries EXCEPT ![call.pos] = @ \ {EntryFor(call.cs[1])}] /\ NoFault
       \/ UNCHANGED entries /\ Fault
    /\ Continue("unadd", call.pos - 1)
    /\ UNCHANGED <<slots, answer, before, stale>>

(* Variant: the row stays. *)
UninsertNothing ==
    /\ call.kind = "insert" /\ call.phase = "unadd" /\ call.pos = 0
    /\ Ends("raised")
    /\ UNCHANGED <<slots, entries, before, faults, stale>>

UninsertRow ==
    /\ call.kind = "insert" /\ call.phase = "unadd" /\ call.pos = 0
    /\ \/ slots' = [slots EXCEPT ![call.cs[1].slot] = NoRow] /\ NoFault
       \/ UNCHANGED slots /\ Fault
    /\ Ends("raised")
    /\ UNCHANGED <<entries, before, stale>>

-------------------------------------------------------------------------------
(* delete_with_indexes, with the candidates a statement has read from the table
   or the one that the undo of an INSERT remembers. *)

InSlotOrder(ss) ==
    LET order == BySlot(ss)
    IN  [n \in DOMAIN order |-> [slot |-> order[n], row |-> slots[order[n]]]]

StartDelete ==
    /\ \E ss \in SUBSET {s \in Slot : slots[s] # NoRow} :
         ss # {} /\ Enter("delete", "removeEntries", InSlotOrder(ss))
    /\ UNCHANGED <<slots, entries, stale, faults>>

(* The undo of an INSERT, whose row may have moved or gone since. *)
StartUndo ==
    /\ \E c \in Candidate :
         /\ Enter("delete", "removeEntries", <<c>>)
         /\ stale' = (stale \/ slots[c.slot] # c.row)
    /\ UNCHANGED <<slots, entries, faults>>

(* The loops over candidates and, inside, indexes visit entry number n. *)
CandidateOf(n) == 1 + ((n - 1) \div Indexes)

IndexOf(n) == 1 + ((n - 1) % Indexes)

Deleting(phase) == call.kind = "delete" /\ call.phase = phase

Reverting(rowsGone, entriesGone) ==
    call' = [call EXCEPT !.phase = "restoreRows", !.pos = rowsGone,
                         !.rowsGone = rowsGone, !.entriesGone = entriesGone]

(* Variant: an entry that is not in the index is skipped. *)
RemoveEntryIfThere ==
    /\ Deleting("removeEntries")
    /\ entries' = [entries EXCEPT ![IndexOf(call.pos)] =
                     @ \ {EntryFor(call.cs[CandidateOf(call.pos)])}]
    /\ IF call.pos = Len(call.cs) * Indexes THEN Continue("removeRows", 1)
       ELSE Continue("removeEntries", call.pos + 1)
    /\ UNCHANGED <<slots, answer, before, faults, stale>>

RemoveEntry ==
    LET i == IndexOf(call.pos)
        e == EntryFor(call.cs[CandidateOf(call.pos)])
        last == Len(call.cs) * Indexes
    IN  /\ Deleting("removeEntries")
        /\ \/ /\ e \in entries[i] /\ NoFault
              /\ entries' = [entries EXCEPT ![i] = @ \ {e}]
              /\ IF call.pos = last THEN Continue("removeRows", 1)
                 ELSE Continue("removeEntries", call.pos + 1)
           \/ /\ IF e \in entries[i] THEN Fault ELSE NoFault
              /\ Reverting(0, call.pos - 1)
              /\ UNCHANGED entries
        /\ UNCHANGED <<slots, answer, before, stale>>

RemoveRow ==
    LET ss == SlotOfKey(call.cs[call.pos].row.key)
    IN  /\ Deleting("removeRows")
        /\ \/ /\ ss # {} /\ NoFault
              /\ slots' = [s \in Slot |-> IF s \in ss THEN NoRow ELSE slots[s]]
              /\ IF call.pos = Len(call.cs) THEN Ends("ok")
                 ELSE Continue("removeRows", call.pos + 1) /\ UNCHANGED answer
           \/ /\ IF ss # {} THEN Fault ELSE NoFault
              /\ Reverting(call.pos - 1, Len(call.cs) * Indexes)
              /\ UNCHANGED <<slots, answer>>
        /\ UNCHANGED <<entries, before, stale>>

(* _rollback_delete: the rows, last first, each at the RID the table gives it. *)
RestoreRow ==
    /\ Deleting("restoreRows") /\ call.pos > 0
    /\ \/ /\ slots' = [slots EXCEPT ![FreeSlot] = call.cs[call.pos].row] /\ NoFault
          /\ call' = [call EXCEPT !.restored[call.pos] = FreeSlot, !.pos = @ - 1]
       \/ /\ UNCHANGED slots /\ Fault
          /\ Continue("restoreRows", call.pos - 1)
    /\ UNCHANGED <<entries, answer, before, stale>>

RowsRestored ==
    /\ Deleting("restoreRows") /\ call.pos = 0
    /\ Continue("restoreEntries", call.entriesGone)
    /\ UNCHANGED <<slots, entries, answer, before, faults, stale>>

(* Variant: an entry comes back with the RID the row had. *)
OldRid(n) == call.cs[n].slot

(* _restored_rid: 0 when the row of the candidate is not in the table. *)
RestoredRid(n) ==
    IF n <= call.rowsGone THEN call.restored[n]
    ELSE IF slots[call.cs[n].slot] # NoRow THEN call.cs[n].slot
    ELSE 0

RestoreEntry ==
    LET n == CandidateOf(call.pos)
        rid == RestoredRid(n)
        restored == [entries EXCEPT ![IndexOf(call.pos)] =
                       @ \cup {[val |-> call.cs[n].row.val, slot |-> rid]}]
    IN  /\ Deleting("restoreEntries") /\ call.pos > 0
        /\ \/ entries' = (IF rid = 0 THEN entries ELSE restored) /\ NoFault
           \/ rid # 0 /\ entries' \in {entries, restored} /\ Fault
        /\ Continue("restoreEntries", call.pos - 1)
        /\ UNCHANGED <<slots, answer, before, stale>>

DeleteRaises ==
    /\ Deleting("restoreEntries") /\ call.pos = 0
    /\ Ends("raised")
    /\ UNCHANGED <<slots, entries, before, faults, stale>>

-------------------------------------------------------------------------------
DmlNext ==
    \/ \E r \in Row : InsertRow(r)
    \/ AddEntry \/ UnaddEntry \/ UninsertRow
    \/ StartDelete \/ StartUndo
    \/ RemoveEntry \/ RemoveRow
    \/ RestoreRow \/ RowsRestored \/ RestoreEntry \/ DeleteRaises

DmlSpec == DmlInit /\ [][DmlNext]_dmlVars

-------------------------------------------------------------------------------
(* dml.py:36-42 and 167-174: a call that raises because one native call failed
   leaves the rows it found, though a row that was removed and put back may be
   at another RID. *)
RaisedCallKeepsRows == answer = "raised" => Rows(slots) = Rows(before.slots)

(* Between two calls every index holds one entry per row, at the RID where the
   row is now, whether the last call returned or raised; an undo whose RID is out
   of date is the exception, and the run tx_stale_rid is about it. *)
IndexesMirrorRows ==
    call = NoCall /\ ~stale => \A i \in Secondary : IndexMirrors(TableWith(slots, entries, i))

(* How the single step of TableDml ends for index i, from where the call began. *)
Whole(i) ==
    LET T == TableWith(before.slots, before.entries, i)
    IN  IF call.kind = "insert" THEN InsertWithIndexes(T, call.cs[1].row, TRUE)
        ELSE DeleteWithIndexes(T, call.cs, TRUE)

WholeCallAgrees ==
    \A i \in Secondary : /\ TableWith(slots, entries, i)' = Whole(i).table
                         /\ answer' = IF Whole(i).ok THEN "ok" ELSE "raised"

(* A call in which nothing fails does to the table and to each of its indexes
   what the single step of TableDml does. *)
WholeCallsAgree ==
    [][call # NoCall /\ call' = NoCall /\ faults' = 0 => WholeCallAgrees]_dmlVars

===============================================================================
