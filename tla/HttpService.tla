----------------------------- MODULE HttpService -----------------------------
(* engine/api/main.py over the one QueryProcessor of the process: requests of *)
(* the thread pool, CSV loads (processor.load_csv) and the media jobs share   *)
(* the motor's lock, the open transaction and the tables. Of the tables, the  *)
(* one the media are loaded into is modelled, by the writer of each of its    *)
(* rows: 0 a client, a job's number, or Csv for the load in progress.         *)
EXTENDS MediaJobs, CsvFormat

CONSTANTS
    Columns,  \* the names of the columns of the table
    Workload  \* who may ask for what: operations, ids, files, and how many requests

VARIABLES
    workload, \* the member of Workload the behaviour is about
    budget,   \* the requests still to come (bounds the runs)
    client,   \* per request: what it asks for and how far it is
    csv       \* the CSV load in progress, or the last one

httpVars == <<workload, budget, client, csv>>
vars == <<jobs, retained, active, stop, shutdown, submitted, worker, motor, txn, table,
          workload, budget, client, csv>>

ByClient == 0
Csv == 0 - 1

NoRequest == [pc |-> "idle", op |-> "none", number |-> NoJob]

(* A file and how it is loaded: its bytes by class, the size of the reads, its*)
(* header and the line it is on, and its rows: how many lines one takes, and  *)
(* whether it is a "value", "blank", "unconvertible", "malformed" (no CSV) or *)
(* "unsupported" (it has a field for a POINT or VECTOR column).               *)
ASSUME WorkloadAssumption ==
    \A w \in Workload :
        /\ w.ids \subseteq Int /\ w.files \subseteq Nat
        /\ w.csv \subseteq
             [bytes : Seq(Bytes), size : Nat \ {0}, line : Nat, atomic : BOOLEAN,
              header : Seq([letter : STRING, upper : BOOLEAN]),
              rows : Seq([id : Int, lines : Nat \ {0},
                          kind : {"value", "blank", "unconvertible", "malformed", "unsupported"}])]

(* The columns of a table, one at least, have distinct names (catalog.cpp:78).*)
ASSUME ColumnsAssumption ==
    /\ Columns \in Seq([letter : STRING, upper : BOOLEAN]) /\ Columns # <<>>
    /\ IsInjective(Columns) /\ Unnamed \notin Range(Columns)

NoFile == [bytes |-> <<>>, size |-> 1, header |-> <<>>, line |-> 1, rows |-> <<>>, atomic |-> FALSE]
NoLoad == [pc |-> "none", file |-> NoFile, at |-> 0, line |-> 0, mapping |-> <<>>,
           inserted |-> 0, failed |-> 0, errors |-> <<>>, wrote |-> {}]

HttpInit ==
    /\ JobsInit
    /\ workload \in Workload
    /\ budget = workload.requests
    /\ client = [c \in Client |-> NoRequest]
    /\ csv = NoLoad

-----------------------------------------------------------------------------
(* A request is answered: its thread is free again.                           *)
Answered(c) == client' = [client EXCEPT ![c] = NoRequest]

Request(c, op) ==
    /\ client[c].pc = "idle"
    /\ budget > 0
    /\ c \in workload.clients
    /\ op \in workload.ops
    /\ budget' = budget - 1
    /\ client' = [client EXCEPT ![c] = [NoRequest EXCEPT !.pc = "wait", !.op = op]]
    /\ UNCHANGED <<workload, csv, jobVars, motor, txn, table>>

(* POST /query: the motor is held for the whole statement, so a statement is  *)
(* one step. One that is refused changes nothing.                             *)
Serves(c, op) ==
    /\ client[c].pc = "wait"
    /\ client[c].op = op
    /\ motor = Nobody
    /\ Answered(c)
    /\ UNCHANGED <<workload, budget, csv, jobVars, motor>>

BeginTransaction(c) ==
    /\ Serves(c, "begin")
    /\ txn' = [txn EXCEPT !.open = TRUE]
    /\ UNCHANGED table

EndTransaction(c) ==
    /\ Serves(c, "end")
    /\ txn' = NoTxn
    /\ UNCHANGED table

(* A row enters the open transaction, whoever began it; a key that exists     *)
(* undoes the transaction.                                                    *)
InsertStatement(c) ==
    /\ Serves(c, "insert")
    /\ \E id \in workload.ids :
          IF ~table.exists THEN UNCHANGED <<txn, table>>
          ELSE IF id \in DOMAIN table.rows
               THEN /\ table' = [table EXCEPT !.rows = Restrict(@, DOMAIN @ \ txn.wrote)]
                    /\ txn' = NoTxn
               ELSE /\ table' = [table EXCEPT !.rows = WithRow(@, id, ByClient)]
                    /\ txn' = IF txn.open THEN [txn EXCEPT !.wrote = @ \cup {id}] ELSE txn

CreateStatement(c) ==
    /\ Serves(c, "create")
    /\ table' = IF txn.open \/ table.exists THEN table ELSE EmptyTable
    /\ UNCHANGED txn

DropStatement(c) ==
    /\ Serves(c, "drop")
    /\ table' = IF txn.open THEN table ELSE NoTable
    /\ UNCHANGED txn

-----------------------------------------------------------------------------
(* POST /tables/{tabla}/load-media: whether the table exists, then start():   *)
(* the paths, an empty batch under the motor, the registration under the lock *)
(* of the jobs, and the job's report, if it is still retained.                *)
Step(c, request) ==
    /\ client' = [client EXCEPT ![c] = request]
    /\ UNCHANGED <<workload, budget, csv>>

FindTable(c) ==
    /\ client[c].pc = "wait"
    /\ client[c].op = "load_media"
    /\ motor = Nobody
    /\ Step(c, IF table.exists THEN [client[c] EXCEPT !.pc = "validate"] ELSE NoRequest)
    /\ UNCHANGED <<jobVars, motor, txn, table>>

ValidateTarget(c) ==
    /\ client[c].pc = "validate"
    /\ motor = Nobody
    /\ Step(c, IF BatchRefused THEN NoRequest ELSE [client[c] EXCEPT !.pc = "register"])
    /\ UNCHANGED <<jobVars, motor, txn, table>>

StartJob(c) ==
    /\ client[c].pc = "register"
    /\ \/ /\ Refused
          /\ Step(c, NoRequest)
          /\ UNCHANGED jobVars
       \/ \E first \in workload.ids, files \in workload.files :
             /\ Register(first, files)
             /\ Step(c, [client[c] EXCEPT !.pc = "report", !.number = Len(jobs) + 1])
    /\ UNCHANGED <<motor, txn, table>>

AnswerStart(c) ==
    /\ client[c].pc = "report"
    /\ Step(c, NoRequest)
    /\ UNCHANGED <<jobVars, motor, txn, table>>

-----------------------------------------------------------------------------
(* POST /tables/{tabla}/load: the encoding before the motor, then load_csv    *)
(* with the motor held from the first row to the last.                        *)
DetectEncoding(c) ==
    /\ client[c].pc = "wait"
    /\ client[c].op = "load_csv"
    /\ \E file \in workload.csv :
          client' = [client EXCEPT ![c] =
                        [pc |-> "load", op |-> "load_csv", number |-> NoJob, file |-> file,
                         detected |-> detect_encoding(file.bytes, file.size)]]
    /\ UNCHANGED <<workload, budget, csv, jobVars, motor, txn, table>>

RejectCsv(c) ==
    /\ client[c].pc = "load"
    /\ client[c].detected.encoding = "rejected"
    /\ Answered(c)
    /\ UNCHANGED <<workload, budget, csv, jobVars, motor, txn, table>>

(* The refusals in their order: no table, an open transaction, a header that  *)
(* does not match the columns.                                                *)
OpenCsv(c) ==
    LET r == client[c]
        mapping == match_header(r.file.header, Columns)
    IN /\ r.pc = "load"
       /\ r.detected.encoding # "rejected"
       /\ motor = Nobody
       /\ IF ~table.exists \/ txn.open \/ mapping = <<>>
          THEN Answered(c) /\ UNCHANGED <<motor, csv>>
          ELSE /\ motor' = c
               /\ client' = [client EXCEPT ![c] = [NoRequest EXCEPT !.pc = "rows", !.op = "load_csv"]]
               /\ csv' = [NoLoad EXCEPT !.pc = "rows", !.file = r.file, !.at = 1, !.mapping = mapping,
                                        !.line = r.file.line + 1]
       /\ UNCHANGED <<workload, budget, jobVars, txn, table>>

Row == csv.file.rows[csv.at]

(* Variant: a row is a line.                                                  *)
AfterLine == [csv EXCEPT !.at = @ + 1, !.line = @ + 1]

AfterRow == [csv EXCEPT !.at = @ + 1, !.line = @ + Row.lines]

(* _load_row: the row is stored, or the report says why not.                  *)
Stores == Row.kind = "value" /\ Row.id \notin DOMAIN table.rows

LeavesMotor(c) == motor' = Nobody /\ Answered(c)

(* The transaction of an atomic load undoes the rows it has inserted.         *)
WithoutLoaded == [table EXCEPT !.rows = Restrict(@, DOMAIN @ \ csv.wrote)]

LoadRow(c) ==
    /\ csv.pc = "rows"
    /\ motor = c
    /\ csv.at <= Len(csv.file.rows)
    /\ \/ /\ Row.kind = "blank"
          /\ csv' = AfterRow
          /\ UNCHANGED <<client, motor, table>>
       \/ /\ Stores
          /\ table' = [table EXCEPT !.rows = WithRow(@, Row.id, Csv)]
          /\ csv' = [AfterRow EXCEPT !.inserted = @ + 1, !.wrote = @ \cup {Row.id}]
          /\ UNCHANGED <<client, motor>>
       \/ /\ ~Stores /\ Row.kind \in {"value", "unconvertible", "malformed"}
          /\ IF csv.file.atomic
             THEN /\ table' = WithoutLoaded
                  /\ csv' = [csv EXCEPT !.pc = "raised", !.errors = <<csv.line>>]
                  /\ LeavesMotor(c)
             ELSE /\ csv' = [AfterRow EXCEPT !.failed = @ + 1,
                                !.errors = IF Len(@) < MaxErrors THEN Append(@, csv.line) ELSE @]
                  /\ UNCHANGED <<client, motor, table>>
       \/ /\ \/ Row.kind = "unsupported"   \* convert_field's AssertionError
             \/ Stores                     \* the storage fails: no domain error
          /\ table' = IF csv.file.atomic THEN WithoutLoaded ELSE table
          /\ csv' = [csv EXCEPT !.pc = "raised"]
          /\ LeavesMotor(c)
    /\ UNCHANGED <<workload, budget, jobVars, txn>>

CloseCsv(c) ==
    /\ csv.pc = "rows"
    /\ motor = c
    /\ csv.at > Len(csv.file.rows)
    /\ csv' = [csv EXCEPT !.pc = "done"]
    /\ LeavesMotor(c)
    /\ UNCHANGED <<workload, budget, jobVars, txn, table>>

-----------------------------------------------------------------------------
Operations == {"begin", "end", "insert", "create", "drop", "load_media", "load_csv"}

ClientStep(c) ==
    \/ BeginTransaction(c) \/ EndTransaction(c) \/ InsertStatement(c)
    \/ CreateStatement(c) \/ DropStatement(c)
    \/ FindTable(c) \/ ValidateTarget(c) \/ StartJob(c) \/ AnswerStart(c)
    \/ DetectEncoding(c) \/ RejectCsv(c) \/ OpenCsv(c) \/ LoadRow(c) \/ CloseCsv(c)

JobsNext == (WorkerNext \/ SetStop \/ Shutdown) /\ UNCHANGED httpVars

HttpNext ==
    \/ \E c \in Client, op \in Operations : Request(c, op)
    \/ \E c \in Client : ClientStep(c)
    \/ JobsNext

(* The threads of the pool and of the executor are scheduled. Whether the     *)
(* server closes and whether requests arrive is not the program's to decide.  *)
HttpSpec ==
    /\ HttpInit
    /\ [][HttpNext]_vars
    /\ \A c \in Client : WF_vars(ClientStep(c))
    /\ WF_vars(WorkerNext /\ UNCHANGED httpVars)

-----------------------------------------------------------------------------
(* Properties.                                                                *)
Numbers == 1 .. Len(jobs)
(* One load at a time, and none is lost: a job that has not ended is the      *)
(* active one, its report is retained whatever start() evicted, and it waits  *)
(* for the thread or is on it (start, _run and close, whose locks interleave).*)
OneLiveJob ==
    /\ {j \in Numbers : jobs[j].status \notin Ended} = {active} \ {NoJob}
    /\ active # NoJob => /\ active \in Range(retained)
                         /\ Range(submitted) \cup ({worker.job} \ {NoJob}) = {active}
    /\ Len(retained) <= MaxRetained

(* The report of a job tells what happened: no row is counted that was not    *)
(* written, none is written uncounted unless the batch was cut by a failure of*)
(* the storage, a completed job has an outcome for every file it met, and the *)
(* list of errors has as many as it may (docs/ingesta-multimedia.md:113-124). *)
ReportsAddUp ==
    \A j \in Numbers :
        LET r == jobs[j].report
        IN /\ r.errors = Least(r.failed, MaxErrors)
           /\ r.inserted + r.failed <= jobs[j].discovered
           /\ jobs[j].status = "completed" => r.inserted + r.failed = jobs[j].discovered
           /\ r.inserted <= jobs[j].stored
           /\ jobs[j].status \in {"completed", "cancelled"} => r.inserted = jobs[j].stored
           /\ jobs[j].next = jobs[j].first + jobs[j].discovered

(* A bulk load never joins the transaction of a client: while one is open the *)
(* only rows that come and go are that transaction's (load_csv and            *)
(* load_media_batch refuse it, and hold the motor from then on).              *)
LoadsStayOutOfTransactions ==
    [][txn.open => \A id \in DOMAIN table.rows \cup DOMAIN table'.rows :
          \/ id \in DOMAIN table.rows /\ id \in DOMAIN table'.rows
          \/ id \in txn.wrote \cup txn'.wrote]_vars

(* The line a row of a file begins on, counted on the file.                   *)
LineOf(file, i) ==
    LET begins[k \in 1 .. Len(file.rows) + 1] ==
            IF k = 1 THEN file.line + 1 ELSE begins[k - 1] + file.rows[k - 1].lines
    IN begins[i]

Data == {i \in DOMAIN csv.file.rows : csv.file.rows[i].kind # "blank"}

(* load_csv: an atomic load leaves all its rows or none; the other counts     *)
(* every row that is not blank, and lists the line each failed one begins on, *)
(* rows of several lines and blank lines between included.                    *)
CsvReportsEveryRow ==
    /\ csv.pc = "done" =>
          /\ csv.inserted + csv.failed = Cardinality(Data)
          /\ csv.file.atomic => csv.failed = 0
          /\ Len(csv.errors) = Least(csv.failed, MaxErrors)
    /\ csv.pc = "raised" /\ csv.file.atomic => \A id \in csv.wrote : id \notin DOMAIN table.rows \/ table.rows[id] # Csv
    /\ \A e \in DOMAIN csv.errors : \E i \in Data :
          csv.errors[e] = LineOf(csv.file, i) /\ csv.file.rows[i].kind \in {"value", "unconvertible", "malformed"}

(* A byte of a file is all right when it is ASCII or belongs to a whole       *)
(* sequence; the first that is not begins what is invalid.                    *)
InSequence(bytes, i) ==
    \/ bytes[i] \in {"ascii", "newline"}
    \/ /\ Expects(bytes[i]) > 0
       /\ \A k \in 1 .. Expects(bytes[i]) : i + k \in DOMAIN bytes /\ IsTail(bytes[i + k])
    \/ /\ IsTail(bytes[i])
       /\ \E j \in 1 .. (i - 1) : /\ i - j <= Expects(bytes[j])
                                 /\ \A k \in (j + 1) .. i : IsTail(bytes[k])

InvalidAt(bytes) == {i \in DOMAIN bytes : ~InSequence(bytes, i)}

FirstInvalidLine(bytes) ==
    LET first == CHOOSE i \in InvalidAt(bytes) : \A j \in InvalidAt(bytes) : i <= j
    IN 1 + Newlines(SubSeq(bytes, 1, first - 1))

(* detect_encoding reads by blocks, and what it says does not depend on where *)
(* a block ends: UTF-8 exactly when the whole file is, cp1252 when no two     *)
(* bytes look like UTF-8 and every byte is one of cp1252, and otherwise an    *)
(* error with the line of the first bad byte (its docstring).                 *)
EncodingIsExact ==
    \A c \in {d \in Client : client[d].pc = "load"} :
        LET bytes == client[c].file.bytes
            found == client[c].detected
            looks == \E i \in 1 .. (Len(bytes) - 1) : Expects(bytes[i]) > 0 /\ IsTail(bytes[i + 1])
        IN IF InvalidAt(bytes) = {} THEN found.encoding = "utf-8"
           ELSE IF looks \/ "tail_undefined" \in Range(bytes)
                THEN found = [encoding |-> "rejected", line |-> FirstInvalidLine(bytes)]
                ELSE found.encoding = "cp1252"

(* match_header: an accepted header gives every column a place of its own,    *)
(* under its own name or one that differs in case, and no named place of the  *)
(* file is left out, so no value of the file is lost or stored twice.         *)
HeaderIsMatchedOneToOne ==
    csv.pc # "none" =>
        LET header == csv.file.header
        IN /\ \A i, k \in DOMAIN Columns : csv.mapping[i] = csv.mapping[k] => i = k
           /\ \A i \in DOMAIN Columns : Fold(header[csv.mapping[i]]) = Fold(Columns[i])
           /\ \A p \in DOMAIN header : header[p] # Unnamed => p \in Range(csv.mapping)
           /\ \A i \in DOMAIN Columns : Columns[i] \in Range(header) => header[csv.mapping[i]] = Columns[i]

(* Every registered job ends, and with it close(), which waits for it: the    *)
(* thread is scheduled, its folder is finite and each request lets the motor  *)
(* go.                                                                        *)
EveryJobEnds == \A j \in 1 .. 3 : (j \in Numbers) ~> (j \in Numbers /\ jobs[j].status \in Ended)
=============================================================================
