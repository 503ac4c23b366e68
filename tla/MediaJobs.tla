------------------------------ MODULE MediaJobs ------------------------------
(* engine/api/media_load.py: the jobs that load folders of images and audio,  *)
(* one at a time on a worker thread, while the HTTP clients go on using the   *)
(* one processor. The worker takes the motor's lock only for a batch, and the *)
(* lock of the jobs only for a few assignments; each of those is one action.  *)
EXTENDS Integers, Sequences, SequencesExt, FiniteSets, TLC

CONSTANTS
    Client,      \* the requests in progress in the server's thread pool
    MaxRetained, \* MAX_RETAINED_JOBS
    MaxErrors,   \* MAX_REPORTED_ERRORS
    BatchSize,   \* options.batch_size
    LastId       \* INT32_MAX

ASSUME MediaAssumption ==
    /\ MaxRetained \in Nat \ {0}
    /\ BatchSize \in Nat \ {0}
    /\ MaxErrors \in Nat
    /\ LastId \in Nat

VARIABLES
    jobs,      \* every _Job made, in the order of the registrations
    retained,  \* the keys of _jobs, oldest first
    active,    \* _active: the number of a job, or NoJob
    stop,      \* the _stop event
    shutdown,  \* executor.shutdown has been called
    submitted, \* the tasks of the executor no thread has taken
    worker,    \* the thread of the executor
    motor,     \* who holds Motor._lock
    txn,       \* the open transaction of the processor: the rows it wrote
    table      \* the media table: whether it exists, and who wrote each id

jobVars == <<jobs, retained, active, stop, shutdown, submitted, worker>>

NoJob == 0
Nobody == "nobody"
Worker == "worker"
NoTxn == [open |-> FALSE, wrote |-> {}]

(* Who holds the motor is a thread of the pool, the worker, or nobody.        *)
ASSUME HoldersAreThreads == Nobody \notin Client /\ Worker \notin Client

NoTable == [exists |-> FALSE, rows |-> <<>>]
EmptyTable == [exists |-> TRUE, rows |-> <<>>]

(* The rows once one more is written.                                         *)
WithRow(rows, id, writer) ==
    [i \in DOMAIN rows \cup {id} |-> IF i = id THEN writer ELSE rows[i]]

EmptyReport == [inserted |-> 0, failed |-> 0, errors |-> 0]
Idle == [pc |-> "idle", job |-> NoJob, left |-> 0, batch |-> <<>>, at |-> 0,
         report |-> EmptyReport, outcome |-> "completed"]

Least(a, b) == IF a < b THEN a ELSE b

(* Variant: the lists are joined whole.                                       *)
MergeWhole(report, other) ==
    [inserted |-> report.inserted + other.inserted,
     failed |-> report.failed + other.failed,
     errors |-> report.errors + other.errors]

(* MediaLoadReport.fail and merge: all the failures are counted, the first    *)
(* ones are listed.                                                           *)
Fail(report) ==
    [report EXCEPT !.failed = @ + 1, !.errors = IF @ < MaxErrors THEN @ + 1 ELSE @]

Merge(report, other) ==
    [inserted |-> report.inserted + other.inserted,
     failed |-> report.failed + other.failed,
     errors |-> report.errors + Least(other.errors, MaxErrors - report.errors)]

(* `stored` is no field of _Job: it counts the rows the job really wrote.     *)
NewJob(first, files) ==
    [status |-> "pending", first |-> first, next |-> first, discovered |-> 0,
     report |-> EmptyReport, files |-> files, stored |-> 0]

Ended == {"completed", "failed", "cancelled"}

JobsInit ==
    /\ jobs = <<>>
    /\ retained = <<>>
    /\ active = NoJob
    /\ stop = FALSE
    /\ shutdown = FALSE
    /\ submitted = <<>>
    /\ worker = Idle
    /\ motor = Nobody
    /\ txn = NoTxn
    /\ table = EmptyTable

-----------------------------------------------------------------------------
(* start(), under the lock of the jobs: refused while another job is active or*)
(* the server closes; otherwise the oldest reports make room for this one.    *)
RefusedWhileActive == active # NoJob   \* variant: the server may be closing

Refused == stop \/ active # NoJob

Evicted == SubSeq(retained, Len(retained) - Least(Len(retained), MaxRetained - 1) + 1, Len(retained))

Register(first, files) ==
    LET number == Len(jobs) + 1
    IN /\ ~Refused
       /\ jobs' = Append(jobs, NewJob(first, files))
       /\ retained' = Append(Evicted, number)
       /\ active' = number
       /\ submitted' = IF shutdown THEN submitted ELSE Append(submitted, number)
       /\ UNCHANGED <<stop, shutdown, worker>>

(* close(): the event first, under the lock, then the executor, which waits   *)
(* for what was submitted.                                                    *)
SetStop ==
    /\ ~stop
    /\ stop' = TRUE
    /\ UNCHANGED <<jobs, retained, active, shutdown, submitted, worker, motor, txn, table>>

Shutdown ==
    /\ stop
    /\ ~shutdown
    /\ shutdown' = TRUE
    /\ UNCHANGED <<jobs, retained, active, stop, submitted, worker, motor, txn, table>>

-----------------------------------------------------------------------------
(* _run, step by step. `Goes` moves the thread and leaves the rest alone.     *)
Me == jobs[worker.job]

Goes(next) ==
    /\ worker' = next
    /\ UNCHANGED <<retained, active, stop, shutdown, submitted>>

EndsAs(outcome) == [worker EXCEPT !.pc = "finish", !.outcome = outcome]

TakeTask ==
    /\ worker.pc = "idle"
    /\ submitted # <<>>
    /\ worker' = [Idle EXCEPT !.pc = "begin", !.job = Head(submitted), !.left = jobs[Head(submitted)].files]
    /\ submitted' = Tail(submitted)
    /\ UNCHANGED <<jobs, retained, active, stop, shutdown, motor, txn, table>>

Begin ==
    /\ worker.pc = "begin"
    /\ jobs' = IF stop THEN jobs ELSE [jobs EXCEPT ![worker.job].status = "running"]
    /\ \/ /\ stop
          /\ Goes(EndsAs("cancelled"))
       \/ /\ ~stop
          /\ \/ Goes([worker EXCEPT !.pc = "validate"])
             \/ Goes(EndsAs("failed"))   \* the vocabulary cannot be read
    /\ UNCHANGED <<motor, txn, table>>

(* load_media_batch refuses an open transaction and a table that is gone.     *)
BatchRefusedIfGone == ~table.exists   \* variant: inside a transaction

BatchRefused == txn.open \/ ~table.exists

(* An empty batch, to check the schema against the vocabulary: it may not fit.*)
Validate ==
    /\ worker.pc = "validate"
    /\ motor = Nobody
    /\ \/ /\ ~BatchRefused
          /\ Goes([worker EXCEPT !.pc = "files"])
       \/ Goes(EndsAs("failed"))
    /\ UNCHANGED <<jobs, motor, txn, table>>

NextFile ==
    /\ worker.pc = "files"
    /\ worker.left > 0
    /\ IF stop \/ Me.next > LastId
       THEN Goes(EndsAs(IF stop THEN "cancelled" ELSE "failed")) /\ UNCHANGED jobs
       ELSE /\ jobs' = [jobs EXCEPT ![worker.job].next = @ + 1, ![worker.job].discovered = @ + 1]
            /\ Goes([worker EXCEPT !.pc = "extract", !.left = @ - 1])
    /\ UNCHANGED <<motor, txn, table>>

AfterFile(batch) == IF Len(batch) >= BatchSize THEN "write" ELSE "files"

(* The vector of one file, outside every lock; whatever fails is reported and *)
(* the next file is tried.                                                    *)
Extract ==
    /\ worker.pc = "extract"
    /\ \/ LET batch == Append(worker.batch, Me.next - 1)
          IN /\ Goes([worker EXCEPT !.pc = AfterFile(batch), !.batch = batch])
             /\ UNCHANGED jobs
       \/ /\ jobs' = [jobs EXCEPT ![worker.job].report = Fail(@)]
          /\ Goes([worker EXCEPT !.pc = AfterFile(worker.batch)])
    /\ UNCHANGED <<motor, txn, table>>

NoMoreFiles ==
    /\ worker.pc = "files"
    /\ worker.left = 0
    /\ Goes(IF worker.batch = <<>> THEN EndsAs("completed") ELSE [worker EXCEPT !.pc = "write"])
    /\ UNCHANGED <<jobs, motor, txn, table>>

(* _write: the stop event, then the motor, then the processor's refusals.     *)
CheckStop ==
    /\ worker.pc = "write"
    /\ Goes(IF stop THEN EndsAs("cancelled") ELSE [worker EXCEPT !.pc = "enter"])
    /\ UNCHANGED <<jobs, motor, txn, table>>

(* Variant: the batch is tried again until it is accepted.                    *)
EnterMotorRetries ==
    /\ worker.pc = "enter"
    /\ motor = Nobody
    /\ ~BatchRefused
    /\ motor' = Worker
    /\ Goes([worker EXCEPT !.pc = "insert", !.at = 1, !.report = EmptyReport])
    /\ UNCHANGED <<jobs, txn, table>>

EnterMotor ==
    /\ worker.pc = "enter"
    /\ motor = Nobody
    /\ IF BatchRefused
       THEN Goes(EndsAs("failed")) /\ UNCHANGED motor
       ELSE /\ motor' = Worker
            /\ Goes([worker EXCEPT !.pc = "insert", !.at = 1, !.report = EmptyReport])
    /\ UNCHANGED <<jobs, txn, table>>

(* One row of the batch: stored, refused (its values do not fit, or its key   *)
(* exists), or the storage fails, and with it the batch.                      *)
InsertRow ==
    LET id == worker.batch[worker.at]
        done == [worker EXCEPT !.at = @ + 1]
    IN /\ worker.pc = "insert"
       /\ worker.at <= Len(worker.batch)
       /\ \/ /\ id \notin DOMAIN table.rows
             /\ table' = [table EXCEPT !.rows = WithRow(@, id, worker.job)]
             /\ jobs' = [jobs EXCEPT ![worker.job].stored = @ + 1]
             /\ Goes([done EXCEPT !.report.inserted = @ + 1])
             /\ UNCHANGED motor
          \/ /\ Goes([done EXCEPT !.report = Fail(@)])
             /\ UNCHANGED <<jobs, table, motor>>
          \/ /\ Goes(EndsAs("failed"))
             /\ motor' = Nobody
             /\ UNCHANGED <<jobs, table>>
       /\ UNCHANGED txn

LeaveMotor ==
    /\ worker.pc = "insert"
    /\ worker.at > Len(worker.batch)
    /\ motor' = Nobody
    /\ Goes([worker EXCEPT !.pc = "merge"])
    /\ UNCHANGED <<jobs, txn, table>>

MergeReport ==
    /\ worker.pc = "merge"
    /\ jobs' = [jobs EXCEPT ![worker.job].report = Merge(@, worker.report)]
    /\ Goes([worker EXCEPT !.pc = "files", !.batch = <<>>])
    /\ UNCHANGED <<motor, txn, table>>

Finish ==
    /\ worker.pc = "finish"
    /\ jobs' = [jobs EXCEPT ![worker.job].status = worker.outcome]
    /\ active' = NoJob
    /\ worker' = Idle
    /\ UNCHANGED <<retained, stop, shutdown, submitted, motor, txn, table>>

WorkerNext ==
    \/ TakeTask \/ Begin \/ Validate \/ NextFile \/ Extract \/ NoMoreFiles
    \/ CheckStop \/ EnterMotor \/ InsertRow \/ LeaveMotor \/ MergeReport \/ Finish
=============================================================================
