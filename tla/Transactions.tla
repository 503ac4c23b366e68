----------------------------- MODULE Transactions -----------------------------
(***************************************************************************)
(* Several QueryProcessors (engine/executor/processor.py) that share one   *)
(* Database and one LockManager, one per thread: statements in autocommit, *)
(* BEGIN / END TRANSACTION with strict two-phase locking and an undo log   *)
(* (engine/transactions/transaction.py), bulk loads and DDL.               *)
(*                                                                         *)
(* An owner is one processor: it runs one statement at a time, and its     *)
(* transaction and its autocommit owner are never in use together.  The    *)
(* native core does not release the interpreter lock, so what other        *)
(* threads can see is the state between calls: a statement is the read of  *)
(* the catalog, the lock of each table, the work on the tables, and the    *)
(* release of each lock.  The work is one step because it runs under the   *)
(* table lock (SharedOnlyByReaders below is what makes that sound); its    *)
(* own steps and their failures are in DmlFaults.                          *)
(***************************************************************************)
EXTENDS TableLocks, TableDml

CONSTANTS
    Statements,         \* the kinds of statement of the workload
    InitIndexed,        \* the tables that start with their index
    DeletesOwnInserts,  \* may a transaction delete rows it inserted itself?
    MaxWrites           \* bound on the undo log of a transaction

ASSUME TablesAreOrdered == Table \subseteq Nat

VARIABLES store,   \* the tables of the Database
          pc,      \* where each processor is in its statement
          tx,      \* processor._transaction, or the private one of an atomic load
          stmt,    \* the statement being executed
          held,    \* Transaction._locked_tables, or the locks of the statement
          undo,    \* Transaction._undo_actions
          seen     \* the answer of the last SELECT

sessionVars == <<store, pc, tx, stmt, held, undo, seen>>

vars == <<lockVars, sessionVars>>

-------------------------------------------------------------------------------
(* Statements. `todo` are the tables still to be locked and `indexed` the index
   metadata read before any lock was taken. *)

NoStmt == [kind |-> "none"]

StatementOf(kind, ts, arg) ==
    [kind |-> kind, tables |-> ts, arg |-> arg, todo |-> ts,
     indexed |-> {t \in ts : store[t].indexed}]

Requests(kind) ==
    CASE kind = "insert" -> {<<{t}, r>> : t \in Table, r \in Row}
      [] kind = "delete" -> {<<{t}, w>> : t \in Table, w \in Where}
      [] kind = "select" -> {<<ts, "rows">> : ts \in (SUBSET Table) \ {{}}}
      [] OTHER           -> {<<{t}, "table">> : t \in Table}

Ddl == {"create_table", "create_index", "drop_table"}

Loads == {"load_rows", "load_atomic"}

ASSUME StatementKinds == Statements \subseteq {"insert", "delete", "select"} \cup Loads \cup Ddl

(* Variant: a DELETE locks as a reader. *)
ModeDeleteShared(kind) == IF kind \in {"select", "delete"} THEN "SHARED" ELSE "EXCLUSIVE"

(* Variant: a bulk load locks as a reader. *)
ModeLoadShared(kind) == IF kind \in {"select", "load_rows"} THEN "SHARED" ELSE "EXCLUSIVE"

Mode(kind) == IF kind = "select" THEN "SHARED" ELSE "EXCLUSIVE"

(* With no transaction, or with the private one of a load, statements and DDL
   are allowed; BEGIN ... END refuses DDL and loads. *)
AllowedIn(kind, t) == t = "none" \/ kind \in {"insert", "delete", "select"}

(* DROP TABLE is bound without looking at the catalog; the others raise when a
   table does not exist, which ends the statement and nothing else. *)
BindsTo(kind, ts) == kind = "drop_table" \/ \A t \in ts : store[t].exists

TheTable(s) == CHOOSE t \in stmt[s].tables : TRUE

WithIndex(s) == TheTable(s) \in stmt[s].indexed

(* Transaction.record_insert and record_delete. *)
UndoEntry(kind, t, cs, withIndex) ==
    [kind |-> kind, table |-> t, candidates |-> cs, indexed |-> withIndex]

HoldsNothing(s) == \A t \in Table : held[s][t] = "none"

Goto(s, to) == pc' = [pc EXCEPT ![s] = to]

-------------------------------------------------------------------------------
Init ==
    /\ LocksInit
    /\ store = [t \in Table |-> [EmptyTable(TRUE) EXCEPT !.indexed = t \in InitIndexed]]
    /\ pc = [s \in Owner |-> "idle"]
    /\ tx = [s \in Owner |-> "none"]
    /\ stmt = [s \in Owner |-> NoStmt]
    /\ held = [s \in Owner |-> [t \in Table |-> "none"]]
    /\ undo = [s \in Owner |-> <<>>]
    /\ seen = [s \in Owner |-> <<>>]

(* BEGIN TRANSACTION. *)
Begin(s) ==
    /\ pc[s] = "idle" /\ tx[s] = "none"
    /\ tx' = [tx EXCEPT ![s] = "explicit"]
    /\ UNCHANGED <<lockVars, store, pc, stmt, held, undo, seen>>

(* END TRANSACTION: the undo log is dropped, then the locks are released. *)
End(s) ==
    /\ pc[s] = "idle" /\ tx[s] = "explicit"
    /\ undo' = [undo EXCEPT ![s] = <<>>]
    /\ Goto(s, "releasing")
    /\ UNCHANGED <<lockVars, store, tx, stmt, held, seen>>

(* QueryProcessor.rollback: the client abandons its transaction. *)
Abandon(s) ==
    /\ pc[s] = "idle" /\ tx[s] = "explicit"
    /\ Goto(s, "undoing")
    /\ UNCHANGED <<lockVars, store, tx, stmt, held, undo, seen>>

LogHasRoom(s) == tx[s] # "none" => Len(undo[s]) < MaxWrites

(* The rows of the tables of ts that the transaction of s inserted itself. *)
OwnInserts(s, ts) ==
    UNION {{undo[s][n].candidates[i].row : i \in DOMAIN undo[s][n].candidates} :
             n \in {m \in DOMAIN undo[s] : undo[s][m].kind = "insert" /\ undo[s][m].table \in ts}}

(* The statements the clients of this model send: a transaction of at most
   MaxWrites writes that deletes its own inserts only if DeletesOwnInserts. *)
InWorkload(s, kind, ts, arg) ==
    /\ kind \in {"insert", "delete"} => LogHasRoom(s)
    /\ kind = "delete" /\ ~DeletesOwnInserts =>
         \A r \in OwnInserts(s, ts) : ~Satisfies(r, arg)

(* A statement reads the catalog and is bound before it asks for any lock. A
   CREATE TABLE never locks. *)
Prepare(s, kind, ts, arg) ==
    /\ pc[s] = "idle" /\ AllowedIn(kind, tx[s]) /\ kind # "create_table"
    /\ BindsTo(kind, ts)
    /\ InWorkload(s, kind, ts, arg)
    /\ stmt' = [stmt EXCEPT ![s] = StatementOf(kind, ts, arg)]
    /\ tx' = [tx EXCEPT ![s] = IF kind = "load_atomic" THEN "load" ELSE @]
    /\ seen' = [seen EXCEPT ![s] = <<>>]
    /\ Goto(s, "locking")
    /\ UNCHANGED <<lockVars, store, held, undo>>

CreateTableNow(s, t) ==
    /\ pc[s] = "idle" /\ tx[s] = "none"
    /\ store' = [store EXCEPT ![t] = CreateTable(@).table]
    /\ UNCHANGED <<lockVars, pc, tx, stmt, held, undo, seen>>

-------------------------------------------------------------------------------
(* _lock_or_abort, once per table, in the order of their names. *)

NextTable(s) == CHOOSE t \in stmt[s].todo : \A u \in stmt[s].todo : t <= u

Locked(s, t) == stmt' = [stmt EXCEPT ![s].todo = @ \ {t}]

(* Transaction.ensure_lock: the ledger already covers the request. *)
LedgerCovers(s, t) == held[s][t] \in {"EXCLUSIVE", Mode(stmt[s].kind)}

SkipLock(s) ==
    /\ pc[s] = "locking" /\ phase[s] = "running" /\ stmt[s].todo # {}
    /\ LedgerCovers(s, NextTable(s))
    /\ Locked(s, NextTable(s))
    /\ UNCHANGED <<lockVars, store, pc, tx, held, undo, seen>>

RequestLock(s) ==
    /\ pc[s] = "locking" /\ phase[s] = "running" /\ stmt[s].todo # {}
    /\ ~LedgerCovers(s, NextTable(s))
    /\ Acquire(s, NextTable(s), Mode(stmt[s].kind))
    /\ UNCHANGED sessionVars

(* Variant: the ledger does not record an upgrade. *)
LockGrantedNoUpgrade(s) ==
    /\ Grant(s)
    /\ held' = [held EXCEPT ![s][request[s].table] =
                  IF @ = "none" THEN request[s].mode ELSE @]
    /\ Locked(s, request[s].table)
    /\ UNCHANGED <<store, pc, tx, undo, seen>>

LockGranted(s) ==
    /\ Grant(s)
    /\ held' = [held EXCEPT ![s][request[s].table] = request[s].mode]
    /\ Locked(s, request[s].table)
    /\ UNCHANGED <<store, pc, tx, undo, seen>>

(* Variant: a statement asks again after a timeout. *)
LockRetried(s) ==
    /\ TimeOut(s)
    /\ UNCHANGED sessionVars

(* LockTimeoutError: a transaction is undone, a statement in autocommit gives
   back the locks it had taken. *)
LockTimedOut(s) ==
    /\ TimeOut(s)
    /\ Goto(s, IF tx[s] = "none" THEN "releasing" ELSE "undoing")
    /\ UNCHANGED <<store, tx, stmt, held, undo, seen>>

LockWaits(s) == Wait(s) /\ UNCHANGED sessionVars

LockExpires(s) == Expire(s) /\ UNCHANGED sessionVars

AllLocked(s) ==
    /\ pc[s] = "locking" /\ phase[s] = "running" /\ stmt[s].todo = {}
    /\ Goto(s, "ready")
    /\ UNCHANGED <<lockVars, store, tx, stmt, held, undo, seen>>

-------------------------------------------------------------------------------
(* The work, under the lock. *)

(* Where a statement goes when it has ended well, and when it has raised. *)
AfterSuccess(s) == IF tx[s] = "none" THEN "releasing" ELSE "idle"

(* Variant: a statement that raises in a transaction is not undone. *)
AfterErrorNoUndo(s) == "releasing"

(* Variant: a statement that raises in autocommit keeps its locks. *)
AfterErrorKeepsLocks(s) == IF tx[s] = "none" THEN "idle" ELSE "undoing"

AfterError(s) == IF tx[s] = "none" THEN "releasing" ELSE "undoing"

Logged(s, entry) ==
    undo' = [undo EXCEPT ![s] = IF tx[s] = "none" THEN @ ELSE Append(@, entry)]

Finished(s) == stmt' = [stmt EXCEPT ![s] = NoStmt]

ExecuteInsert(s) ==
    LET t == TheTable(s)
        r == stmt[s].arg
        res == InsertWithIndexes(store[t], r, WithIndex(s))
    IN  /\ pc[s] = "ready" /\ stmt[s].kind = "insert"
        /\ store' = [store EXCEPT ![t] = res.table]
        /\ IF res.ok
           THEN /\ Logged(s, UndoEntry("insert", t, res.candidates, WithIndex(s)))
                /\ Goto(s, AfterSuccess(s))
           ELSE /\ Goto(s, AfterError(s))
                /\ UNCHANGED undo
        /\ Finished(s)
        /\ UNCHANGED <<lockVars, tx, held, seen>>

ExecuteDeleteWhere(s) ==
    LET t == TheTable(s)
        res == ExecuteDelete(store[t], stmt[s].arg, WithIndex(s))
    IN  /\ pc[s] = "ready" /\ stmt[s].kind = "delete"
        /\ store' = [store EXCEPT ![t] = res.table]
        /\ IF res.ok
           THEN /\ IF res.candidates = <<>>
                   THEN UNCHANGED undo
                   ELSE Logged(s, UndoEntry("delete", t, res.candidates, WithIndex(s)))
                /\ Goto(s, AfterSuccess(s))
           ELSE /\ Goto(s, AfterError(s))
                /\ UNCHANGED undo
        /\ Finished(s)
        /\ UNCHANGED <<lockVars, tx, held, seen>>

(* A SELECT that raises because a table is gone does not abort its transaction. *)
ExecuteSelect(s) ==
    /\ pc[s] = "ready" /\ stmt[s].kind = "select"
    /\ seen' = [seen EXCEPT
                  ![s] = IF \A t \in stmt[s].tables : store[t].exists
                         THEN [t \in stmt[s].tables |-> RowsOf(store[t])]
                         ELSE <<>>]
    /\ Goto(s, AfterSuccess(s))
    /\ Finished(s)
    /\ UNCHANGED <<lockVars, store, tx, held, undo>>

ExecuteDdl(s) ==
    LET t == TheTable(s)
        res == IF stmt[s].kind = "create_index" THEN CreateIndex(store[t]) ELSE DropTable(store[t])
    IN  /\ pc[s] = "ready" /\ stmt[s].kind \in Ddl
        /\ store' = [store EXCEPT ![t] = res.table]
        /\ Goto(s, AfterSuccess(s))
        /\ Finished(s)
        /\ UNCHANGED <<lockVars, tx, held, undo, seen>>

(* load_csv and load_media_batch: one row of the file. In an atomic load the row
   is logged and one that does not enter undoes the ones before it; otherwise it
   is counted and the load goes on. *)
LoadRow(s, r) ==
    LET t == TheTable(s)
        res == InsertWithIndexes(store[t], r, WithIndex(s))
    IN  /\ pc[s] = "ready" /\ stmt[s].kind \in Loads
        /\ LogHasRoom(s)
        /\ store' = [store EXCEPT ![t] = res.table]
        /\ IF res.ok
           THEN Logged(s, UndoEntry("insert", t, res.candidates, WithIndex(s)))
           ELSE UNCHANGED undo
        /\ Goto(s, IF res.ok \/ tx[s] = "none" THEN "ready" ELSE "undoing")
        /\ UNCHANGED <<lockVars, tx, stmt, held, seen>>

(* The end of the file; an atomic load commits. *)
LoadEnds(s) ==
    /\ pc[s] = "ready" /\ stmt[s].kind \in Loads
    /\ undo' = [undo EXCEPT ![s] = <<>>]
    /\ Goto(s, "releasing")
    /\ Finished(s)
    /\ UNCHANGED <<lockVars, store, tx, held, seen>>

-------------------------------------------------------------------------------
(* Transaction.rollback: the log in reverse, an entry that raises is skipped. *)
Undone(entry) ==
    LET T == store[entry.table]
    IN  IF entry.kind = "insert"
        THEN DeleteWithIndexes(T, entry.candidates, entry.indexed).table
        ELSE ReinsertAll(T, entry.candidates, entry.indexed).table

(* Variant: the log from its first entry. *)
UndoForward(s) ==
    /\ pc[s] = "undoing" /\ undo[s] # <<>>
    /\ store' = [store EXCEPT ![Head(undo[s]).table] = Undone(Head(undo[s]))]
    /\ undo' = [undo EXCEPT ![s] = Tail(@)]
    /\ UNCHANGED <<lockVars, pc, tx, stmt, held, seen>>

UndoStep(s) ==
    /\ pc[s] = "undoing" /\ undo[s] # <<>>
    /\ store' = [store EXCEPT ![Last(undo[s]).table] = Undone(Last(undo[s]))]
    /\ undo' = [undo EXCEPT ![s] = Front(@)]
    /\ UNCHANGED <<lockVars, pc, tx, stmt, held, seen>>

UndoEnds(s) ==
    /\ pc[s] = "undoing" /\ undo[s] = <<>>
    /\ Goto(s, "releasing")
    /\ UNCHANGED <<lockVars, store, tx, stmt, held, undo, seen>>

(* release_all, one lock at a time; other owners run in between. *)
ReleaseLock(s, t) ==
    /\ pc[s] = "releasing" /\ held[s][t] # "none"
    /\ Release(s, t)
    /\ held' = [held EXCEPT ![s][t] = "none"]
    /\ UNCHANGED <<store, pc, tx, stmt, undo, seen>>

StatementEnds(s) ==
    /\ pc[s] = "releasing" /\ HoldsNothing(s)
    /\ tx' = [tx EXCEPT ![s] = "none"]
    /\ Finished(s)
    /\ seen' = [seen EXCEPT ![s] = <<>>]
    /\ Goto(s, "idle")
    /\ UNCHANGED <<lockVars, store, held, undo>>

-------------------------------------------------------------------------------
(* What the client asks for, and what the processor does on its own. *)
ClientStep(s) ==
    \/ Begin(s) \/ End(s) \/ Abandon(s)
    \/ \E kind \in Statements : \E ask \in Requests(kind) :
           Prepare(s, kind, ask[1], ask[2])
    \/ \E t \in Table : "create_table" \in Statements /\ CreateTableNow(s, t)

ProcessorStep(s) ==
    \/ SkipLock(s) \/ RequestLock(s) \/ LockGranted(s) \/ LockWaits(s)
    \/ LockTimedOut(s) \/ AllLocked(s)
    \/ ExecuteInsert(s) \/ ExecuteDeleteWhere(s) \/ ExecuteSelect(s) \/ ExecuteDdl(s)
    \/ \E r \in Row : LoadRow(s, r)
    \/ LoadEnds(s)
    \/ UndoStep(s) \/ UndoEnds(s)
    \/ \E t \in Table : ReleaseLock(s, t)
    \/ StatementEnds(s)

Next == \E s \in Owner : ClientStep(s) \/ ProcessorStep(s) \/ LockExpires(s)

Spec == Init /\ [][Next]_vars

(* Threads are scheduled, time passes, and a file being loaded ends. Clients may
   stop at any point between two statements, transactions left open included. *)
Fairness ==
    \A s \in Owner : WF_vars(ProcessorStep(s)) /\ WF_vars(LockExpires(s))

FairSpec == Spec /\ Fairness

-------------------------------------------------------------------------------
(* The rows of a table without the work of open transactions: a row that the
   undo log does not mention is as it is, one that it does is as the first entry
   that mentions it found it. *)

Writes(s, t) == {n \in DOMAIN undo[s] : undo[s][n].table = t}

Writers(t) == {s \in Owner : Writes(s, t) # {}}

Mentions(s, t, r) ==
    {n \in Writes(s, t) :
       \E i \in DOMAIN undo[s][n].candidates : undo[s][n].candidates[i].row = r}

First(ns) == CHOOSE n \in ns : \A m \in ns : n <= m

WasThere(s, t, r) ==
    LET ns == Mentions(s, t, r)
    IN  IF ns = {} THEN r \in RowsOf(store[t]) ELSE undo[s][First(ns)].kind = "delete"

Committed(t) ==
    IF Writers(t) = {}
    THEN RowsOf(store[t])
    ELSE {r \in Row : \A s \in Writers(t) : WasThere(s, t, r)}

-------------------------------------------------------------------------------
(* Transaction._locked_tables never disagrees with the lock manager, through
   upgrades, timeouts, aborts and the releases of an abort: a lock that the
   ledger forgot would never be released, one it invented would let a statement
   run without it. *)
LedgerAgrees ==
    \A s \in Owner, t \in Table :
        /\ held[s][t] # "none" <=> s \in owners[t]
        /\ held[s][t] # "none" => mode[t] = held[s][t]

(* Nothing stays locked behind a processor that has no transaction and no
   statement in progress, however the last one ended. *)
NoLockLeak ==
    \A s \in Owner, t \in Table :
        pc[s] = "idle" /\ tx[s] = "none" => s \notin owners[t]

(* While a statement reads or writes a table, nobody else writes it or has
   uncommitted writes on it, and no transaction has work to undo on a table that
   another one is using. This is what lets a statement be one step here. *)
SharedOnlyByReaders ==
    LET working(s) == IF pc[s] = "ready" THEN stmt[s].tables ELSE {}
        writing(s) == {t \in Table : Writes(s, t) # {}}
                        \cup (IF stmt[s].kind = "select" THEN {} ELSE working(s))
    IN  \A s1, s2 \in Owner :
            s1 # s2 => writing(s1) \cap (writing(s2) \cup working(s2)) = {}

(* Two rows never share a primary key, whatever transactions abort. *)
KeysUnique ==
    \A t \in Table : \A i, j \in UsedSlots(store[t]) :
        store[t].slots[i].key = store[t].slots[j].key => i = j

(* Every row of a table is in its index, under the RID it is at, and nothing
   else is (dml.py:36: "mantiene todos los indices registrados"). *)
IndexMirrorsRows == \A t \in Table : IndexMirrors(store[t])

(* Undoing an entry of the log does not change what is committed, so that an
   abort ends in the state of before BEGIN (ADR 0004, line 40). *)
UndoKeepsCommitted ==
    [][\A s \in Owner : UndoStep(s) => \A t \in Table : Committed(t)' = Committed(t)]_vars

(* Every statement ends, with an answer or an error, and an aborted transaction
   is undone and lets go of its locks. *)
StatementsEnd == \A s \in Owner : pc[s] # "idle" ~> pc[s] = "idle"

(* The engine implements the abstract store: a transaction depends on the tables
   it has locked and its workspace is what it has written to them. *)
Store == INSTANCE AtomicStore WITH
    Client <- Owner,
    Name <- Table,
    Tuple <- Row,
    committed <- [t \in Table |-> Committed(t)],
    workspace <- [s \in Owner |->
                    [t \in {u \in Table : Writes(s, u) # {}} |-> RowsOf(store[t])]],
    touched <- [s \in Owner |-> {t \in Table : held[s][t] # "none"}],
    seen <- seen

ImplementsAtomicStore == Store!StoreSpec

===============================================================================
