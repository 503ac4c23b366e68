------------------------------ MODULE RecordFile ------------------------------
(***************************************************************************)
(* The contract of a table file (core/include/quipudb/catalog/table.hpp,   *)
(* class TableFile) as its clients may rely on it: a set of records with   *)
(* unique primary keys, changed one record at a time, and untouched by     *)
(* closing, crashing and opening.                                          *)
(***************************************************************************)
CONSTANTS Record, KeyOf(_)

VARIABLES records, up

fileVars == <<records, up>>

FileInit == records = {} /\ up = TRUE

Insert(r) ==
    /\ up
    /\ \A q \in records : KeyOf(q) # KeyOf(r)
    /\ records' = records \cup {r}
    /\ UNCHANGED up

Remove(r) ==
    /\ up
    /\ records' = records \ {r}
    /\ UNCHANGED up

(* A record takes the place of the one with its key. *)
Replace(r) ==
    /\ up
    /\ \E q \in records : KeyOf(q) = KeyOf(r)
    /\ records' = {q \in records : KeyOf(q) # KeyOf(r)} \cup {r}
    /\ UNCHANGED up

GoDown == up /\ up' = FALSE /\ UNCHANGED records

ComeUp == ~up /\ up' = TRUE /\ UNCHANGED records

FileNext ==
    \/ \E r \in Record : Insert(r) \/ Replace(r)
    \/ \E r \in records : Remove(r)
    \/ GoDown
    \/ ComeUp

FileSpec == FileInit /\ [][FileNext]_fileVars

===============================================================================
