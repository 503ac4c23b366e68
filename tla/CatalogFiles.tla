----------------------------- MODULE CatalogFiles -----------------------------
(***************************************************************************)
(* The catalog and the files it names (core/src/catalog/catalog.cpp and    *)
(* database.cpp): CREATE and DROP of tables and indexes one file operation *)
(* at a time, the handles that are opened when they are first needed, and  *)
(* restarts.                                                               *)
(*                                                                         *)
(* A statement changes the catalog in memory, the saved catalog and one or *)
(* more files, and nothing makes them change together.  The calls come     *)
(* from one thread at a time (the interpreter lock), so what can come      *)
(* between two steps is an operation that fails or the end of the process. *)
(* How the pages of a table reach its file is HeapFile's subject: here the *)
(* rows of an open table are the rows of its file.                         *)
(***************************************************************************)
EXTENDS Naturals, FiniteSets

CONSTANTS
    Table,
    Index,          \* the names an index may have, each in one table
    TableOf,        \* [Index -> Table]
    Vector,         \* the indexes of kind ivf or hnsw
    Unsuitable,     \* those whose keys do not fit twice in a page
    DataRow,
    MaxMishaps      \* bound on failed operations and crashes, together

ASSUME IndexesAssumption ==
    /\ TableOf \in [Index -> Table]
    /\ Vector \subseteq Index
    /\ Unsuitable \subseteq Index \ Vector
    /\ Table \cap Index = {}
    /\ MaxMishaps \in Nat

VARIABLES
    memory,     \* Catalog::tables_
    saved,      \* the catalog file
    files,      \* the data files, by the table or the index they belong to
    handles,    \* Database::abiertas_ and indices_
    call,       \* the statement in progress
    failed,     \* operations that have failed
    crashed     \* crashes

catalogVars == <<memory, saved, files, handles, call, failed, crashed>>

(* A file that DiskManager could not finish is "torn": no constructor accepts it.
   One that was given its header and nothing else is "blank". *)
Absent == [state |-> "absent", rows |-> {}]
Torn   == [state |-> "torn",   rows |-> {}]
Blank  == [state |-> "blank",  rows |-> {}]
Built(rows) == [state |-> "built", rows |-> rows]

(* The rows of a table, or those an index has an entry for. *)
FileState == [state : {"absent", "torn", "blank", "built"}, rows : SUBSET DataRow]

IndexesOf(t) == {i \in Index : TableOf[i] = t}

Catalog == [tables : SUBSET Table, indexes : SUBSET Index]

WithTable(c, t) == [c EXCEPT !.tables = @ \cup {t}]
WithIndex(c, i) == [c EXCEPT !.indexes = @ \cup {i}]
SansIndex(c, i) == [c EXCEPT !.indexes = @ \ {i}]

SansTable(c, t) == [c EXCEPT !.tables = @ \ {t}, !.indexes = @ \ IndexesOf(t)]

NamesIn(c) == c.tables \cup c.indexes

(* Variant: Database::close that leaves the indexes open. *)
WithoutTableHandle(t) == handles \ {t}

(* Database::close: the indexes of the table, then the table. *)
WithoutHandles(t) == handles \ ({t} \cup IndexesOf(t))

(* The files that a DROP TABLE deletes and that a DML writes. *)
FilesOf(t) == {t} \cup (IndexesOf(t) \cap memory.indexes)

-------------------------------------------------------------------------------
(* Opening. DiskManager creates a file that is not there; the heap file and the
   plain indexes initialise a blank one, a vector index refuses it, and a plain
   index on keys too wide for a page refuses any, after the file exists. *)

Initialises(x) == x \notin Vector \cup Unsuitable

AfterOpen(x) ==
    IF files[x].state \notin {"absent", "blank"} THEN files[x]
    ELSE IF Initialises(x) THEN Built({})
    ELSE Blank

CanOpen(x) == AfterOpen(x).state = "built"

NoCall == [op |-> "none"]

Calls == {"create_table", "drop_table", "create_index", "drop_index"}

(* "save": about to save the catalog. "open": about to create the file. "build":
   about to enter the rows of `todo` in the index. "revert": about to save the
   catalog without what could not be created. "remove": about to delete the files
   of `todo`. *)
Stage == {"save", "open", "build", "revert", "remove"}

Begins(what, x, todo) == call' = [op |-> what, on |-> x, at |-> "save", todo |-> todo]

At(stage) == call # NoCall /\ call.at = stage

Goes(stage) == call' = [call EXCEPT !.at = stage]

Ends == call' = NoCall

-------------------------------------------------------------------------------
CatalogInit ==
    /\ memory = [tables |-> {}, indexes |-> {}]
    /\ saved = memory
    /\ files = [x \in Table \cup Index |-> Absent]
    /\ handles = {}
    /\ call = NoCall
    /\ failed = 0 /\ crashed = 0

CreateTable(t) ==
    /\ call = NoCall /\ t \notin memory.tables
    /\ memory' = WithTable(memory, t)
    /\ Begins("create_table", t, {})
    /\ UNCHANGED <<saved, files, handles, failed, crashed>>

(* The handles are released before anything else. *)
DropTable(t) ==
    /\ call = NoCall /\ t \in memory.tables
    /\ handles' = WithoutHandles(t)
    /\ memory' = SansTable(memory, t)
    /\ Begins("drop_table", t, FilesOf(t))
    /\ UNCHANGED <<saved, files, failed, crashed>>

(* create_index, create_ivf_index and create_hnsw_index. *)
CreateIndex(i) ==
    /\ call = NoCall /\ TableOf[i] \in memory.tables /\ i \notin memory.indexes
    /\ memory' = WithIndex(memory, i)
    /\ Begins("create_index", i, {})
    /\ UNCHANGED <<saved, files, handles, failed, crashed>>

DropIndex(i) ==
    /\ call = NoCall /\ i \in memory.indexes
    /\ handles' = handles \ {i}
    /\ memory' = SansIndex(memory, i)
    /\ Begins("drop_index", i, {i})
    /\ UNCHANGED <<saved, files, failed, crashed>>

-------------------------------------------------------------------------------
(* Catalog::save writes another file and renames it: all or nothing. *)

(* What the statement does once its change is saved. *)
AfterSave ==
    IF call.at = "save" /\ call.op \in {"create_table", "create_index"}
    THEN "open" ELSE "remove"

SaveWorks ==
    /\ At("save") \/ At("revert")
    /\ saved' = memory
    /\ IF call.at = "revert" /\ call.op = "create_table"
       THEN Ends
       ELSE Goes(AfterSave)
    /\ UNCHANGED <<memory, files, handles, failed, crashed>>

MayFail == failed + crashed < MaxMishaps

Fails == MayFail /\ failed' = failed + 1

(* Variant: a statement that goes on when its catalog could not be saved. *)
SaveFailsUnnoticed ==
    /\ At("save") \/ At("revert")
    /\ Fails
    /\ IF call.at = "save" THEN Goes(AfterSave) ELSE Ends
    /\ UNCHANGED <<memory, saved, files, handles, crashed>>

(* The statement raises. Only CREATE TABLE takes its change back. *)
SaveFails ==
    /\ At("save") \/ At("revert")
    /\ Fails
    /\ memory' = IF call.at = "save" /\ call.op = "create_table"
                 THEN SansTable(memory, call.on) ELSE memory
    /\ Ends
    /\ UNCHANGED <<saved, files, handles, crashed>>

-------------------------------------------------------------------------------
(* Variant: a CREATE TABLE that does not look for the file. *)
NewTableAdopts ==
    /\ At("open") /\ call.op = "create_table"
    /\ files' = [files EXCEPT ![call.on] = AfterOpen(call.on)]
    /\ handles' = handles \cup {call.on}
    /\ Ends
    /\ UNCHANGED <<memory, saved, failed, crashed>>

NewTable ==
    /\ At("open") /\ call.op = "create_table"
    /\ files[call.on] = Absent
    /\ files' = [files EXCEPT ![call.on] = Built({})]
    /\ handles' = handles \cup {call.on}
    /\ Ends
    /\ UNCHANGED <<memory, saved, failed, crashed>>

(* The path exists: revertir_catalogo. *)
NewTableRefused ==
    /\ At("open") /\ call.op = "create_table"
    /\ files[call.on] # Absent
    /\ memory' = SansTable(memory, call.on)
    /\ Goes("revert")
    /\ UNCHANGED <<saved, files, handles, failed, crashed>>

NewTableFails ==
    /\ At("open") /\ call.op = "create_table"
    /\ files[call.on] = Absent
    /\ Fails
    /\ \E f \in {Absent, Torn} : files' = [files EXCEPT ![call.on] = f]
    /\ memory' = SansTable(memory, call.on)
    /\ Goes("revert")
    /\ UNCHANGED <<saved, handles, crashed>>

(* An index whose file could not be created or filled: the vector variants take
   it back, create_index leaves the entry where it is. *)
IndexRaises ==
    IF call.on \in Vector
    THEN /\ memory' = SansIndex(memory, call.on)
         /\ call' = [call EXCEPT !.at = "revert", !.todo = {call.on}]
    ELSE UNCHANGED memory /\ Ends

(* The table is opened if it was not. The vector indexes are created in a file
   that is not there or blank; the others on whatever there is. *)
NewIndex ==
    LET i == call.on
        t == TableOf[i]
        accepts == IF i \in Vector THEN files[i].state \in {"absent", "blank"} ELSE CanOpen(i)
        created == IF i \in Vector THEN (IF accepts THEN Built({}) ELSE files[i]) ELSE AfterOpen(i)
    IN  /\ At("open") /\ call.op = "create_index"
        /\ IF ~CanOpen(t)
           THEN Ends /\ UNCHANGED <<memory, files, handles>>
           ELSE /\ files' = [files EXCEPT ![t] = AfterOpen(t), ![i] = created]
                /\ handles' = handles \cup {t}
                /\ IF accepts
                   THEN /\ call' = [call EXCEPT !.at = "build", !.todo = AfterOpen(t).rows]
                        /\ UNCHANGED memory
                   ELSE IndexRaises
        /\ UNCHANGED <<saved, failed, crashed>>

NewIndexFails ==
    /\ At("open") /\ call.op = "create_index"
    /\ CanOpen(TableOf[call.on])
    /\ Fails
    /\ \E f \in {files[call.on], Torn} :
         /\ f = Torn => files[call.on] = Absent
         /\ files' = [files EXCEPT ![TableOf[call.on]] = AfterOpen(TableOf[call.on]),
                                   ![call.on] = f]
    /\ handles' = handles \cup {TableOf[call.on]}
    /\ IndexRaises
    /\ UNCHANGED <<saved, crashed>>

BuildRow(r) ==
    /\ At("build") /\ r \in call.todo
    /\ files' = [files EXCEPT ![call.on].rows = @ \cup {r}]
    /\ call' = [call EXCEPT !.todo = @ \ {r}]
    /\ UNCHANGED <<memory, saved, handles, failed, crashed>>

BuildFails ==
    /\ At("build")
    /\ Fails
    /\ IndexRaises
    /\ UNCHANGED <<saved, files, handles, crashed>>

BuildEnds ==
    /\ At("build") /\ call.todo = {}
    /\ handles' = handles \cup {call.on}
    /\ Ends
    /\ UNCHANGED <<memory, saved, files, failed, crashed>>

-------------------------------------------------------------------------------
(* The files go after the catalog: that of the rows, then those of the indexes. *)
RemoveFile(x) ==
    /\ At("remove") /\ x \in call.todo
    /\ call.on \in call.todo => x = call.on
    /\ files' = [files EXCEPT ![x] = Absent]
    /\ call' = [call EXCEPT !.todo = @ \ {x}]
    /\ UNCHANGED <<memory, saved, handles, failed, crashed>>

(* A DROP raises and leaves the files that remain; the reversion of a CREATE
   INDEX ignores the error. *)
RemoveFails ==
    /\ At("remove") /\ call.todo # {}
    /\ Fails
    /\ Ends
    /\ UNCHANGED <<memory, saved, files, handles, crashed>>

RemoveEnds ==
    /\ At("remove") /\ call.todo = {}
    /\ Ends
    /\ UNCHANGED <<memory, saved, files, failed, crashed, handles>>

-------------------------------------------------------------------------------
(* Database::table and Database::index, for whoever asks first. *)
OpenTable(t) ==
    /\ call = NoCall /\ t \in memory.tables \ handles
    /\ files' = [files EXCEPT ![t] = AfterOpen(t)]
    /\ handles' = IF CanOpen(t) THEN handles \cup {t} ELSE handles
    /\ UNCHANGED <<memory, saved, call, failed, crashed>>

OpenIndex(i) ==
    LET t == TableOf[i]
    IN  /\ call = NoCall /\ i \in memory.indexes \ handles
        /\ CanOpen(t)
        /\ files' = [files EXCEPT ![t] = AfterOpen(t), ![i] = AfterOpen(i)]
        /\ handles' = handles \cup {t} \cup (IF CanOpen(i) THEN {i} ELSE {})
        /\ UNCHANGED <<memory, saved, call, failed, crashed>>

CloseTable(t) ==
    /\ call = NoCall
    /\ handles' = WithoutHandles(t)
    /\ UNCHANGED <<memory, saved, files, call, failed, crashed>>

(* Variant: a DML that takes the indexes that are open for those there are. *)
WritesOpenOnly(t) == {t} \cup (IndexesOf(t) \cap handles)

(* What insert_with_indexes and delete_with_indexes write to. *)
Writes(t) == FilesOf(t)

(* A DML opens the table and every index of the catalog before it changes
   anything. One that cannot open one of them raises, having done no more than
   OpenTable and OpenIndex do. *)
ReadyForDml(t) ==
    /\ call = NoCall /\ t \in memory.tables
    /\ \A x \in Writes(t) : CanOpen(x)

InsertRow(t, r) ==
    /\ ReadyForDml(t)
    /\ r \notin AfterOpen(t).rows
    /\ files' = [x \in DOMAIN files |->
                   IF x \in Writes(t) THEN Built(AfterOpen(x).rows \cup {r}) ELSE files[x]]
    /\ handles' = handles \cup Writes(t)
    /\ UNCHANGED <<memory, saved, call, failed, crashed>>

(* A DELETE that misses an entry raises and reverts (DmlFaults). *)
DeleteRow(t, r) ==
    /\ ReadyForDml(t)
    /\ \A x \in Writes(t) : r \in AfterOpen(x).rows
    /\ files' = [x \in DOMAIN files |->
                   IF x \in Writes(t) THEN Built(AfterOpen(x).rows \ {r}) ELSE files[x]]
    /\ handles' = handles \cup Writes(t)
    /\ UNCHANGED <<memory, saved, call, failed, crashed>>

-------------------------------------------------------------------------------
(* Another process, or another Database, on the same directory. *)
Reload ==
    /\ memory' = saved
    /\ handles' = {}
    /\ call' = NoCall
    /\ UNCHANGED <<saved, files, failed>>

Reopen == call = NoCall /\ Reload /\ UNCHANGED crashed

ProcessDies == call # NoCall /\ MayFail /\ crashed' = crashed + 1 /\ Reload

CatalogNext ==
    \/ \E t \in Table :
          \/ CreateTable(t) \/ DropTable(t) \/ OpenTable(t) \/ CloseTable(t)
          \/ \E r \in DataRow : InsertRow(t, r) \/ DeleteRow(t, r)
    \/ \E i \in Index : CreateIndex(i) \/ DropIndex(i) \/ OpenIndex(i)
    \/ SaveWorks \/ SaveFails
    \/ NewTable \/ NewTableRefused \/ NewTableFails
    \/ NewIndex \/ NewIndexFails \/ BuildFails \/ BuildEnds
    \/ \E r \in DataRow : BuildRow(r)
    \/ \E x \in Table \cup Index : RemoveFile(x)
    \/ RemoveFails \/ RemoveEnds
    \/ Reopen \/ ProcessDies

CatalogSpec == CatalogInit /\ [][CatalogNext]_catalogVars

-------------------------------------------------------------------------------
(* Types of the variables; the catalog lists an index only with its table. *)
CatalogTypeOK ==
    /\ memory \in Catalog /\ saved \in Catalog
    /\ \A c \in {memory, saved} : \A i \in c.indexes : TableOf[i] \in c.tables
    /\ files \in [Table \cup Index -> FileState]
    /\ handles \subseteq Table \cup Index
    /\ call = NoCall \/ call \in [op : Calls, on : Table \cup Index, at : Stage,
                                  todo : (SUBSET (Table \cup Index)) \cup (SUBSET DataRow)]
    /\ failed + crashed \in 0 .. MaxMishaps

(* An index holds a pointer to the handle of its table (database.cpp:22): its table
   is open for as long as it is, and neither outlives its entry in the catalog,
   whatever fails and in whatever order things are closed. *)
HandlesAreSafe ==
    /\ handles \subseteq NamesIn(memory)
    /\ \A i \in handles \cap Index : TableOf[i] \in handles

(* While nothing fails, an index that is open has an entry for each row of its
   table and no other, through drops, re-creations, restarts and lazy opens. *)
OpenIndexesAreExact ==
    failed + crashed = 0 =>
        \A i \in handles \cap Index : files[i].rows = files[TableOf[i]].rows

(* A file is deleted only when the saved catalog no longer names it: a crash at any
   point leaves, at worst, a file too many and never a table without its rows. *)
DeletedAfterUnlisted ==
    [][\A x \in Table \cup Index :
         files[x] # Absent /\ files'[x] = Absent => x \notin NamesIn(saved)]_catalogVars

(* With nothing failing, CREATE INDEX leaves an index that opens, or none: what can
   fail is validated "antes de que aqui se cree ningun archivo" (database.cpp:145). *)
ListedIndexesOpen ==
    call = NoCall /\ failed + crashed = 0 => \A i \in memory.indexes : CanOpen(i)

(* A table being created is not there for anybody yet. *)
Creating(t) == call # NoCall /\ call.op = "create_table" /\ call.on = t

(* Found by CREATE TABLE, or left by it: it is not a table. *)
NotItsFile(t) == Creating(t) /\ call.at \in {"open", "revert"} /\ files[t] # Absent

Space == INSTANCE TableSpace WITH
    Name <- Table,
    Tuple <- DataRow,
    stored <- [t \in {u \in saved.tables : ~NotItsFile(u)} |-> files[t].rows],
    listed <- {t \in memory.tables : ~Creating(t)}

(* If at most one thing goes wrong, tables appear empty, vanish as a whole, change
   only by DML, and a restart finds them as they were left. *)
ImplementsTableSpace == Space!SpaceSpec

===============================================================================
