------------------------------ MODULE HttpProofs ------------------------------
(***************************************************************************)
(* What is proved of the HTTP service, for any number of requests in the   *)
(* thread pool, jobs, files, rows and batches: one media job at a time and *)
(* none lost, the report of a job adds up at every moment, the bulk loads  *)
(* stay out of the transactions of the clients, and the header of a CSV is *)
(* matched with the columns one to one.                                    *)
(***************************************************************************)
EXTENDS HttpService, NatLemmas, SequenceTheorems

-------------------------------------------------------------------------------
(* Types. *)

Statuses == {"pending", "running"} \cup Ended

Stages == {"begin", "validate", "files", "extract", "write", "enter", "insert",
           "merge", "finish"}

Reports == [inserted : Nat, failed : Nat, errors : Nat]

Jobs == [status : Statuses, first : Int, next : Int, discovered : Nat,
         report : Reports, files : Nat, stored : Nat]

Threads == [pc : {"idle"} \cup Stages, job : Nat, left : Nat, batch : Seq(Int),
            at : Nat, report : Reports, outcome : Ended]

JobsTyped ==
    /\ workload \in Workload
    /\ jobs \in Seq(Jobs)
    /\ retained \in Seq(Nat) /\ submitted \in Seq(Nat)
    /\ active \in Nat
    /\ stop \in BOOLEAN /\ shutdown \in BOOLEAN
    /\ worker \in Threads

-------------------------------------------------------------------------------
(* A job is registered, then it is the only task of the executor, then it is on
   its thread, until the thread ends it. *)
OneAtATime ==
    /\ shutdown => stop
    /\ Len(retained) <= MaxRetained
    /\ active \in 0 .. Len(jobs)
    /\ active # NoJob => active \in Range(retained)
    /\ \A j \in Numbers : jobs[j].status \in Ended <=> j # active
    /\ \/ /\ submitted = <<>>
          /\ worker.job = active
          /\ worker.pc = "idle" <=> active = NoJob
       \/ /\ active # NoJob /\ submitted = <<active>>
          /\ worker.job = NoJob /\ worker.pc = "idle"

(* What holds of the report of every job, and of one that waits. *)
Tally(job) ==
    LET r == job.report
    IN  /\ r.errors = Least(r.failed, MaxErrors)
        /\ r.inserted + r.failed <= job.discovered
        /\ r.inserted <= job.stored
        /\ job.next = job.first + job.discovered
        /\ job.status = "completed" => r.inserted + r.failed = job.discovered
        /\ job.status \in {"completed", "cancelled"} => r.inserted = job.stored

Fresh(job) ==
    /\ job.discovered = 0 /\ job.stored = 0
    /\ job.report.inserted = 0 /\ job.report.failed = 0

(* How far the report of the job on the thread is behind what the thread did. *)
Progress(job, w) ==
    LET r == job.report
        counted == r.inserted + r.failed + Len(w.batch)
    IN  /\ w.pc = "extract" => counted + 1 = job.discovered
        /\ w.pc \notin {"extract", "finish"} => counted = job.discovered
        /\ w.pc \notin {"insert", "merge", "finish"} => job.stored = r.inserted
        /\ w.pc \in {"insert", "merge"} =>
              /\ job.stored = r.inserted + w.report.inserted
              /\ w.report.errors = Least(w.report.failed, MaxErrors)
              /\ w.report.inserted + w.report.failed = w.at - 1
              /\ w.at <= Len(w.batch) + 1
        /\ w.pc = "merge" => w.at = Len(w.batch) + 1
        /\ w.pc \in {"begin", "validate"} => w.batch = <<>>
        /\ w.pc = "finish" =>
              /\ w.outcome = "completed" => r.inserted + r.failed = job.discovered
              /\ w.outcome \in {"completed", "cancelled"} => r.inserted = job.stored

ReportsInv ==
    /\ \A j \in Numbers : Tally(jobs[j])
    /\ active # NoJob /\ worker.pc = "idle" => Fresh(jobs[active])
    /\ worker.pc # "idle" => Progress(jobs[worker.job], worker)

JobsInv == JobsTyped /\ OneAtATime /\ ReportsInv

-------------------------------------------------------------------------------
(* The jobs. *)
LEMMA EmptyReportTyped ==
    /\ EmptyReport \in Reports /\ EmptyReport.inserted = 0 /\ EmptyReport.failed = 0
    /\ EmptyReport.errors = 0
    /\ 0 = Least(0, MaxErrors)
    /\ Idle \in Threads
BY MediaAssumption, EmptySeq DEF EmptyReport, Reports, Least, Idle, Threads, NoJob, Ended

LEMMA JobsInitially == HttpInit => JobsInv
<1> SUFFICES ASSUME HttpInit PROVE JobsInv
  OBVIOUS
<1>1. /\ workload \in Workload /\ jobs = <<>> /\ retained = <<>> /\ active = 0 /\ stop = FALSE
      /\ shutdown = FALSE /\ submitted = <<>> /\ worker = Idle
  BY DEF HttpInit, JobsInit, NoJob
<1>2. Idle \in Threads /\ Idle.pc = "idle" /\ Idle.job = 0
  BY EmptyReportTyped DEF Idle, NoJob
<1>3. Len(<<>>) = 0
  OBVIOUS
<1>4. JobsTyped
  BY <1>1, <1>2, EmptySeq DEF JobsTyped
<1>5. Numbers = {}
  BY <1>1, <1>3 DEF Numbers
<1>6. OneAtATime
  BY <1>1, <1>2, <1>3, <1>5, MediaAssumption DEF OneAtATime, NoJob
<1>7. ReportsInv
  BY <1>1, <1>2, <1>5 DEF ReportsInv, NoJob
<1> QED BY <1>4, <1>6, <1>7 DEF JobsInv

(* The job on the thread is the active one. *)
LEMMA TheJobOnTheThread ==
    ASSUME JobsInv, worker.pc # "idle"
    PROVE  /\ worker \in Threads /\ worker.pc \in Stages
           /\ worker.job \in Numbers /\ worker.job = active /\ active # NoJob
           /\ submitted = <<>>
           /\ Me \in Jobs /\ Me.status \notin Ended /\ Tally(Me) /\ Progress(Me, worker)
           /\ Len(jobs) \in Nat
           /\ jobs = [jobs EXCEPT ![worker.job] = Me]
<1>1. worker \in Threads /\ jobs \in Seq(Jobs) /\ Len(jobs) \in Nat
  BY LenProperties DEF JobsInv, JobsTyped
<1>2. worker.job = active /\ submitted = <<>> /\ active # NoJob /\ active \in 0 .. Len(jobs)
  BY DEF JobsInv, OneAtATime
<1>3. worker.job \in Numbers
  BY <1>1, <1>2 DEF Numbers, NoJob
<1>4. Me \in Jobs
  BY <1>1, <1>3, ElementOfSeq DEF Numbers, Me
<1>5. Me.status \notin Ended /\ Tally(Me) /\ Progress(Me, worker)
  BY <1>2, <1>3 DEF JobsInv, OneAtATime, ReportsInv, Me
<1>6. jobs = [jobs EXCEPT ![worker.job] = Me]
  BY <1>1 DEF Me
<1> QED BY <1>1, <1>2, <1>3, <1>4, <1>5, <1>6 DEF Threads

(* A step of the thread changes its own job, and does not end it. *)
LEMMA ThreadWorks ==
    ASSUME JobsInv, worker.pc # "idle", NEW job \in Jobs,
           jobs' = [jobs EXCEPT ![worker.job] = job],
           worker' \in Threads, worker'.pc # "idle", worker'.job = worker.job,
           job.status \notin Ended, Tally(job), Progress(job, worker'),
           retained' = retained, active' = active, stop' = stop, shutdown' = shutdown,
           submitted' = submitted, workload' = workload
    PROVE  JobsInv'
<1>1. /\ worker.job \in 1 .. Len(jobs) /\ worker.job = active /\ active # NoJob
      /\ submitted = <<>> /\ jobs \in Seq(Jobs)
  BY TheJobOnTheThread DEF Numbers, JobsInv, JobsTyped
<1>2. /\ jobs' \in Seq(Jobs) /\ Len(jobs') = Len(jobs)
      /\ \A j \in 1 .. Len(jobs) : jobs'[j] = IF j = worker.job THEN job ELSE jobs[j]
  BY <1>1, ExceptSeq
<1>3. JobsTyped'
  BY <1>2 DEF JobsInv, JobsTyped
<1>4. OneAtATime'
  BY <1>1, <1>2 DEF JobsInv, OneAtATime, Numbers
<1>5. ReportsInv'
  BY <1>1, <1>2 DEF JobsInv, ReportsInv, Numbers
<1> QED BY <1>3, <1>4, <1>5 DEF JobsInv

LEMMA TakeTaskKeepsJobs ==
    ASSUME JobsInv, TakeTask, workload' = workload
    PROVE  JobsInv'
<1> DEFINE w == [Idle EXCEPT !.pc = "begin", !.job = Head(submitted),
                             !.left = jobs[Head(submitted)].files]
<1>1. /\ worker.pc = "idle" /\ submitted # <<>> /\ worker' = w /\ submitted' = Tail(submitted)
      /\ jobs' = jobs /\ retained' = retained /\ active' = active /\ stop' = stop
      /\ shutdown' = shutdown
  BY DEF TakeTask
<1>2. submitted = <<active>> /\ active # NoJob /\ active \in 0 .. Len(jobs)
  BY <1>1 DEF JobsInv, OneAtATime
<1>3. Head(submitted) = active /\ Tail(submitted) = <<>>
  BY <1>2
<1>4. jobs \in Seq(Jobs) /\ Len(jobs) \in Nat
  BY LenProperties DEF JobsInv, JobsTyped
<1>5. active \in Numbers /\ jobs[active] \in Jobs
  <2>1. active \in 1 .. Len(jobs)
    BY <1>2, <1>4 DEF NoJob
  <2> QED BY <1>4, <2>1, ElementOfSeq DEF Numbers
<1>6. /\ w \in Threads /\ w.pc = "begin" /\ w.job = active /\ w.batch = <<>>
  <2>1. Idle \in Threads /\ Idle.batch = <<>>
    BY EmptyReportTyped DEF Idle
  <2>2. active \in Nat /\ jobs[active].files \in Nat
    BY <1>5 DEF Numbers, Jobs
  <2>3. w = [Idle EXCEPT !.pc = "begin", !.job = active, !.left = jobs[active].files]
    BY <1>3
  <2> HIDE DEF w
  <2> QED BY <2>1, <2>2, <2>3 DEF Threads, Stages
<1> HIDE DEF w
<1>7. JobsTyped'
  BY <1>1, <1>3, <1>6, EmptySeq DEF JobsInv, JobsTyped
<1>8. OneAtATime'
  BY <1>1, <1>2, <1>3, <1>6 DEF JobsInv, OneAtATime, Numbers
<1>9. Progress(jobs[active], w)
  <2>1. Fresh(jobs[active])
    BY <1>1, <1>2 DEF JobsInv, ReportsInv
  <2>2. Len(w.batch) = 0
    BY <1>6
  <2> QED BY <1>5, <1>6, <2>1, <2>2 DEF Progress, Fresh
<1>10. ReportsInv'
  BY <1>1, <1>6, <1>9 DEF JobsInv, ReportsInv, Numbers
<1> QED BY <1>7, <1>8, <1>10 DEF JobsInv

LEMMA BeginKeepsJobs ==
    ASSUME JobsInv, Begin, workload' = workload
    PROVE  JobsInv'
<1>1. /\ worker.pc = "begin"
      /\ retained' = retained /\ active' = active /\ stop' = stop
      /\ shutdown' = shutdown /\ submitted' = submitted
      /\ \/ jobs' = jobs /\ \E o \in Ended \ {"completed"} : worker' = EndsAs(o)
         \/ /\ jobs' = [jobs EXCEPT ![worker.job].status = "running"]
            /\ worker' = [worker EXCEPT !.pc = "validate"] \/ worker' = EndsAs("failed")
  BY DEF Begin, Goes, Ended
<1>2. /\ worker \in Threads /\ Me \in Jobs /\ Me.status \notin Ended /\ Tally(Me)
      /\ Progress(Me, worker) /\ jobs = [jobs EXCEPT ![worker.job] = Me]
  BY <1>1, TheJobOnTheThread
<1>3. PICK job \in {Me, [Me EXCEPT !.status = "running"]} :
         jobs' = [jobs EXCEPT ![worker.job] = job]
  BY <1>1, <1>2 DEF Me
<1>4. /\ job \in Jobs /\ job.status \notin Ended
      /\ job.report = Me.report /\ job.discovered = Me.discovered /\ job.stored = Me.stored
      /\ job.first = Me.first /\ job.next = Me.next
  BY <1>2, <1>3 DEF Jobs, Statuses, Ended
<1>5. Tally(job)
  BY <1>2, <1>4 DEF Tally, Ended
<1>6. /\ worker' \in Threads /\ worker'.job = worker.job /\ worker'.batch = worker.batch
      /\ worker'.pc \in {"validate", "finish"}
      /\ worker'.pc = "finish" => worker'.outcome # "completed"
  BY <1>1, <1>2, ZenonT(30) DEF EndsAs, Threads, Stages, Ended
<1>7. Progress(job, worker')
  BY <1>1, <1>2, <1>4, <1>6 DEF Progress
<1> QED BY <1>1, <1>3, <1>4, <1>5, <1>6, <1>7, ThreadWorks

LEMMA ThreadMoves ==
    ASSUME JobsInv, worker.pc # "idle", jobs' = jobs,
           worker' \in Threads, worker'.pc # "idle", worker'.job = worker.job,
           Progress(Me, worker'),
           retained' = retained, active' = active, stop' = stop, shutdown' = shutdown,
           submitted' = submitted, workload' = workload
    PROVE  JobsInv'
BY TheJobOnTheThread, ThreadWorks

(* A stage that is decided by the stop event, the motor or the disk, and moves
   the thread only. *)
LEMMA DecisionsKeepJobs ==
    ASSUME JobsInv, Validate \/ NoMoreFiles \/ CheckStop \/ EnterMotor \/ LeaveMotor,
           workload' = workload
    PROVE  JobsInv'
<1>1. /\ worker.pc \in {"validate", "files", "write", "enter", "insert"}
      /\ jobs' = jobs /\ retained' = retained /\ active' = active /\ stop' = stop
      /\ shutdown' = shutdown /\ submitted' = submitted
  BY DEF Validate, NoMoreFiles, CheckStop, EnterMotor, LeaveMotor, Goes
<1>2. worker \in Threads /\ Progress(Me, worker) /\ Me \in Jobs
  BY <1>1, TheJobOnTheThread
<1>3. worker.batch \in Seq(Int) /\ Len(worker.batch) \in Nat /\ Len(<<>>) = 0
  BY <1>2, LenProperties DEF Threads
<1>4. CASE worker' \in {EndsAs("cancelled"), EndsAs("failed")}
                     /\ worker.pc \in {"validate", "write", "enter"}
  <2>1. /\ worker' \in Threads /\ worker'.job = worker.job /\ worker'.pc = "finish"
        /\ worker'.outcome \in {"cancelled", "failed"}
    BY <1>2, <1>4 DEF EndsAs, Threads, Stages, Ended
  <2>2. Progress(Me, worker')
    BY <1>2, <1>4, <2>1 DEF Progress
  <2> QED BY <1>1, <2>1, <2>2, ThreadMoves
<1>5. CASE worker' = EndsAs("completed") /\ worker.batch = <<>> /\ worker.pc = "files"
  <2>1. /\ worker' \in Threads /\ worker'.job = worker.job /\ worker'.pc = "finish"
        /\ worker'.outcome = "completed"
    BY <1>2, <1>5 DEF EndsAs, Threads, Stages, Ended
  <2>2. Progress(Me, worker')
    BY <1>2, <1>3, <1>5, <2>1 DEF Progress, Jobs, Reports
  <2> QED BY <1>1, <2>1, <2>2, ThreadMoves
<1>6. CASE \E pc \in {"files", "write", "enter"} :
              /\ worker' = [worker EXCEPT !.pc = pc]
              /\ worker.pc \in {"validate", "files", "write"}
  <2>1. /\ worker' \in Threads /\ worker'.job = worker.job /\ worker'.batch = worker.batch
        /\ worker'.pc \in {"files", "write", "enter"}
    BY <1>2, <1>6 DEF Threads, Stages
  <2>2. Progress(Me, worker')
    BY <1>2, <1>6, <2>1 DEF Progress
  <2> QED BY <1>1, <2>1, <2>2, ThreadMoves
<1>7. CASE /\ worker.pc = "enter"
           /\ worker' = [worker EXCEPT !.pc = "insert", !.at = 1, !.report = EmptyReport]
  <2>1. /\ worker' \in Threads /\ worker'.job = worker.job /\ worker'.batch = worker.batch
        /\ worker'.pc = "insert" /\ worker'.at = 1 /\ worker'.report = EmptyReport
    <3> HIDE DEF EmptyReport
    <3> QED BY <1>2, <1>7, EmptyReportTyped DEF Threads, Stages
  <2>2. Progress(Me, worker')
    BY <1>2, <1>3, <1>7, <2>1, EmptyReportTyped DEF Progress, Jobs, Reports
  <2> QED BY <1>1, <2>1, <2>2, ThreadMoves
<1>8. CASE /\ worker.pc = "insert" /\ worker.at > Len(worker.batch)
           /\ worker' = [worker EXCEPT !.pc = "merge"]
  <2>1. /\ worker' \in Threads /\ worker'.job = worker.job /\ worker'.batch = worker.batch
        /\ worker'.pc = "merge" /\ worker'.at = worker.at /\ worker'.report = worker.report
    BY <1>2, <1>8 DEF Threads, Stages
  <2>2. worker.at \in Nat
    BY <1>2 DEF Threads
  <2>3. Progress(Me, worker')
    BY <1>2, <1>3, <1>8, <2>1, <2>2 DEF Progress
  <2> QED BY <1>1, <2>1, <2>3, ThreadMoves
<1> QED BY <1>4, <1>5, <1>6, <1>7, <1>8
        DEF Validate, NoMoreFiles, CheckStop, EnterMotor, LeaveMotor, Goes

LEMMA NextFileKeepsJobs ==
    ASSUME JobsInv, NextFile, workload' = workload
    PROVE  JobsInv'
<1>1. /\ worker.pc = "files" /\ worker.left > 0
      /\ retained' = retained /\ active' = active /\ stop' = stop
      /\ shutdown' = shutdown /\ submitted' = submitted
  BY DEF NextFile, Goes
<1>2. /\ worker \in Threads /\ Me \in Jobs /\ Me.status \notin Ended /\ Tally(Me)
      /\ Progress(Me, worker) /\ jobs = [jobs EXCEPT ![worker.job] = Me]
  BY <1>1, TheJobOnTheThread
<1>3. CASE jobs' = jobs /\ worker' \in {EndsAs("cancelled"), EndsAs("failed")}
  <2>1. /\ worker' \in Threads /\ worker'.job = worker.job /\ worker'.pc = "finish"
        /\ worker'.outcome \in {"cancelled", "failed"}
    BY <1>2, <1>3, ZenonT(30) DEF EndsAs, Threads, Stages, Ended
  <2>2. Progress(Me, worker')
    BY <1>1, <1>2, <2>1 DEF Progress
  <2> QED BY <1>1, <1>3, <2>1, <2>2, ThreadMoves
<1>4. CASE /\ jobs' = [jobs EXCEPT ![worker.job].next = @ + 1,
                                   ![worker.job].discovered = @ + 1]
           /\ worker' = [worker EXCEPT !.pc = "extract", !.left = @ - 1]
  <2> DEFINE job == [Me EXCEPT !.next = Me.next + 1, !.discovered = Me.discovered + 1]
  <2>1. jobs' = [jobs EXCEPT ![worker.job] = job]
    <3>1. worker.job \in DOMAIN jobs /\ Len(jobs) \in Nat
      BY <1>1, TheJobOnTheThread DEF Numbers, JobsInv, JobsTyped
    <3> QED BY <1>2, <1>4, <3>1 DEF Me, Jobs
  <2>2. /\ job \in Jobs /\ job.status = Me.status /\ job.first = Me.first
        /\ job.next = Me.next + 1 /\ job.discovered = Me.discovered + 1
        /\ job.report = Me.report /\ job.stored = Me.stored
    <3>1. Me.next + 1 \in Int /\ Me.discovered + 1 \in Nat
      BY <1>2 DEF Jobs
    <3>2. \A n \in Int, d \in Nat : [Me EXCEPT !.next = n, !.discovered = d] \in Jobs
      BY <1>2 DEF Jobs
    <3>3. job \in Jobs
      BY <3>1, <3>2, ZenonT(30)
    <3> QED BY <1>2, <3>3 DEF Jobs
  <2> HIDE DEF job
  <2>3. /\ worker' \in Threads /\ worker'.job = worker.job /\ worker'.batch = worker.batch
        /\ worker'.pc = "extract"
    <3>1. worker' = [worker EXCEPT !.pc = "extract", !.left = worker.left - 1]
          /\ worker.left - 1 \in Nat
      BY <1>1, <1>2, <1>4 DEF Threads
    <3> QED BY <1>2, <3>1 DEF Threads, Stages
  <2>4. Tally(job)
    BY <1>2, <2>2 DEF Tally, Jobs, Reports, Ended
  <2>5. Progress(job, worker')
    BY <1>1, <1>2, <2>2, <2>3 DEF Progress
  <2> QED BY <1>1, <1>2, <2>1, <2>2, <2>3, <2>4, <2>5, ThreadWorks
<1> QED BY <1>3, <1>4 DEF NextFile, Goes

LEMMA FailCounts ==
    ASSUME NEW r \in Reports
    PROVE  /\ Fail(r) \in Reports
           /\ Fail(r).inserted = r.inserted /\ Fail(r).failed = r.failed + 1
           /\ r.errors = Least(r.failed, MaxErrors) =>
                 Fail(r).errors = Least(r.failed + 1, MaxErrors)
<1> DEFINE e == IF r.errors < MaxErrors THEN r.errors + 1 ELSE r.errors
<1>1. r.failed \in Nat /\ r.errors \in Nat /\ e \in Nat /\ MaxErrors \in Nat
  BY MediaAssumption DEF Reports
<1>2. Fail(r) = [r EXCEPT !.failed = r.failed + 1, !.errors = e]
  BY DEF Fail, Reports
<1>3. r.errors = Least(r.failed, MaxErrors) => e = Least(r.failed + 1, MaxErrors)
  BY <1>1 DEF Least
<1> HIDE DEF e
<1>4. Fail(r) = [inserted |-> r.inserted, failed |-> r.failed + 1, errors |-> e]
  BY <1>2 DEF Reports
<1>5. r.inserted \in Nat /\ r.failed + 1 \in Nat
  BY <1>1 DEF Reports
<1> QED BY <1>1, <1>3, <1>4, <1>5 DEF Reports

LEMMA MergeCounts ==
    ASSUME NEW r \in Reports, NEW o \in Reports,
           r.errors = Least(r.failed, MaxErrors), o.errors = Least(o.failed, MaxErrors)
    PROVE  /\ Merge(r, o) \in Reports
           /\ Merge(r, o).inserted = r.inserted + o.inserted
           /\ Merge(r, o).failed = r.failed + o.failed
           /\ Merge(r, o).errors = Least(r.failed + o.failed, MaxErrors)
<1>1. /\ r.failed \in Nat /\ o.failed \in Nat /\ MaxErrors \in Nat
      /\ r.inserted \in Nat /\ o.inserted \in Nat
  BY MediaAssumption DEF Reports
<1>2. r.errors + Least(o.errors, MaxErrors - r.errors) = Least(r.failed + o.failed, MaxErrors)
  BY <1>1 DEF Least
<1>3. Least(r.failed + o.failed, MaxErrors) \in Nat
  BY <1>1 DEF Least
<1> QED BY <1>1, <1>2, <1>3 DEF Merge, Reports

LEMMA ExtractKeepsJobs ==
    ASSUME JobsInv, Extract, workload' = workload
    PROVE  JobsInv'
<1>1. /\ worker.pc = "extract"
      /\ retained' = retained /\ active' = active /\ stop' = stop
      /\ shutdown' = shutdown /\ submitted' = submitted
  BY DEF Extract, Goes
<1>2. /\ worker \in Threads /\ Me \in Jobs /\ Me.status \notin Ended /\ Tally(Me)
      /\ Progress(Me, worker) /\ jobs = [jobs EXCEPT ![worker.job] = Me]
  BY <1>1, TheJobOnTheThread
<1>3. worker.batch \in Seq(Int) /\ Len(worker.batch) \in Nat
  BY <1>2, LenProperties DEF Threads
<1>8. /\ Me.report.inserted \in Nat /\ Me.report.failed \in Nat /\ Me.discovered \in Nat
       /\ Me.stored \in Nat
  BY <1>2 DEF Jobs, Reports
<1>7. /\ Me.report.inserted + Me.report.failed + Len(worker.batch) + 1 = Me.discovered
       /\ Me.stored = Me.report.inserted
  BY <1>1, <1>2 DEF Progress
<1>4. \A b : AfterFile(b) \in {"write", "files"}
  BY DEF AfterFile
<1>5. ASSUME NEW batch, batch = Append(worker.batch, Me.next - 1), jobs' = jobs,
             worker' = [worker EXCEPT !.pc = AfterFile(batch), !.batch = batch]
      PROVE  JobsInv'
  <2>1. batch \in Seq(Int) /\ Len(batch) = Len(worker.batch) + 1
    BY <1>2, <1>3, <1>5, AppendProperties DEF Jobs
  <2>2. /\ worker' \in Threads /\ worker'.job = worker.job /\ worker'.batch = batch
        /\ worker'.pc \in {"write", "files"}
    BY <1>2, <1>4, <1>5, <2>1 DEF Threads, Stages
  <2>3. Progress(Me, worker')
    <3> DEFINE n == Len(worker.batch)
               m == Len(worker'.batch)
               i == Me.report.inserted
               f == Me.report.failed
    <3>3. m = n + 1 /\ n \in Nat /\ i \in Nat /\ f \in Nat /\ i + f + n + 1 = Me.discovered
      BY <1>3, <1>8, <1>7, <2>1, <2>2
    <3>1. i + f + m = Me.discovered
      <4> HIDE DEF n, m, i, f
      <4> QED BY <3>3
    <3>2. worker'.pc \notin {"extract", "insert", "merge", "begin", "validate", "finish"}
      BY <2>2
    <3> QED BY <1>7, <3>1, <3>2 DEF Progress
  <2> QED BY <1>1, <1>5, <2>2, <2>3, ThreadMoves
<1>6. CASE /\ jobs' = [jobs EXCEPT ![worker.job].report = Fail(@)]
           /\ worker' = [worker EXCEPT !.pc = AfterFile(worker.batch)]
  <2> DEFINE job == [Me EXCEPT !.report = Fail(Me.report)]
  <2>1. jobs' = [jobs EXCEPT ![worker.job] = job]
    BY <1>6 DEF Me
  <2>2. /\ Fail(Me.report) \in Reports /\ Me.report \in Reports
        /\ Fail(Me.report).inserted = Me.report.inserted
        /\ Fail(Me.report).failed = Me.report.failed + 1
        /\ Fail(Me.report).errors = Least(Me.report.failed + 1, MaxErrors)
    BY <1>2, FailCounts DEF Jobs, Tally
  <2>3. /\ job \in Jobs /\ job.status = Me.status /\ job.first = Me.first
        /\ job.next = Me.next /\ job.discovered = Me.discovered
        /\ job.report = Fail(Me.report) /\ job.stored = Me.stored
    BY <1>2, <2>2 DEF Jobs
  <2> HIDE DEF job
  <2>4. /\ worker' \in Threads /\ worker'.job = worker.job /\ worker'.batch = worker.batch
        /\ worker'.pc \in {"write", "files"}
    BY <1>2, <1>4, <1>6 DEF Threads, Stages
  <2>5. Tally(job)
    <3>1. /\ job.report.inserted = Me.report.inserted /\ job.report.failed = Me.report.failed + 1
          /\ job.report.errors = Least(job.report.failed, MaxErrors)
      BY <2>2, <2>3
    <3>2. job.report.inserted + job.report.failed <= job.discovered
      <4> DEFINE n == Len(worker.batch)
                 i == Me.report.inserted
                 f == Me.report.failed
      <4>1. n \in Nat /\ i \in Nat /\ f \in Nat /\ i + f + n + 1 = job.discovered
        BY <1>3, <1>7, <1>8, <2>3
      <4>2. i + (f + 1) <= job.discovered
        <5> HIDE DEF n, i, f
        <5> QED BY ONLY <4>1
      <4> QED BY ONLY <3>1, <4>2
    <3>3. job.report.inserted <= job.stored
      <4>1. job.report.inserted = job.stored /\ job.stored \in Nat
        BY <1>7, <1>8, <2>3, <3>1
      <4> QED BY ONLY <4>1
    <3>4. job.next = job.first + job.discovered
      BY <1>2, <2>3 DEF Tally
    <3>5. job.status # "completed" /\ job.status # "cancelled"
      BY <1>2, <2>3 DEF Ended
    <3> QED BY ONLY <3>1, <3>2, <3>3, <3>4, <3>5 DEF Tally
  <2>6. Progress(job, worker')
    <3> DEFINE n == Len(worker.batch)
               i == Me.report.inserted
               f == Me.report.failed
    <3>4. /\ job.report.inserted = i /\ job.report.failed = f + 1 /\ Len(worker'.batch) = n
          /\ n \in Nat /\ i \in Nat /\ f \in Nat /\ i + f + n + 1 = job.discovered
      BY <1>3, <1>8, <1>7, <2>2, <2>3, <2>4
    <3>1. job.report.inserted + job.report.failed + Len(worker'.batch) = job.discovered
      <4> HIDE DEF n, i, f
      <4> QED BY <3>4
    <3>2. worker'.pc \notin {"extract", "insert", "merge", "begin", "validate", "finish"}
      BY <2>4
    <3>3. job.stored = job.report.inserted
      BY <1>7, <2>2, <2>3
    <3> QED BY <3>1, <3>2, <3>3 DEF Progress
  <2> QED BY <1>1, <1>2, <2>1, <2>3, <2>4, <2>5, <2>6, ThreadWorks
<1>9. \/ /\ worker' = [worker EXCEPT !.pc = AfterFile(Append(worker.batch, Me.next - 1)),
                                     !.batch = Append(worker.batch, Me.next - 1)]
         /\ jobs' = jobs
      \/ /\ jobs' = [jobs EXCEPT ![worker.job].report = Fail(@)]
         /\ worker' = [worker EXCEPT !.pc = AfterFile(worker.batch)]
  BY Zenon DEF Extract, Goes
<1>10. CASE /\ worker' = [worker EXCEPT !.pc = AfterFile(Append(worker.batch, Me.next - 1)),
                                        !.batch = Append(worker.batch, Me.next - 1)]
            /\ jobs' = jobs
  BY ONLY <1>5, <1>10, Zenon
<1> QED BY ONLY <1>6, <1>9, <1>10, Zenon

(* A row of the batch: the report of the batch follows what is stored; when the
   storage fails the rows stored so far are never counted. *)
LEMMA InsertRowKeepsJobs ==
    ASSUME JobsInv, InsertRow, workload' = workload
    PROVE  JobsInv'
<1> DEFINE w == worker.report
           done == [worker EXCEPT !.at = @ + 1]
<1>1. /\ worker.pc = "insert" /\ worker.at <= Len(worker.batch)
      /\ retained' = retained /\ active' = active /\ stop' = stop
      /\ shutdown' = shutdown /\ submitted' = submitted
  BY DEF InsertRow, Goes
<1>2. /\ worker \in Threads /\ Me \in Jobs /\ Me.status \notin Ended /\ Tally(Me)
      /\ Progress(Me, worker) /\ jobs = [jobs EXCEPT ![worker.job] = Me]
  BY <1>1, TheJobOnTheThread
<1>3. /\ Len(worker.batch) \in Nat /\ worker.at \in Nat
      /\ w \in Reports /\ w.inserted \in Nat /\ w.failed \in Nat
      /\ Me.stored \in Nat /\ Me.report.inserted \in Nat
  BY <1>2, LenProperties DEF Threads, Jobs, Reports
<1>4. /\ Me.report.inserted + Me.report.failed + Len(worker.batch) = Me.discovered
      /\ Me.stored = Me.report.inserted + w.inserted
      /\ w.errors = Least(w.failed, MaxErrors)
      /\ w.inserted + w.failed = worker.at - 1
  BY <1>1, <1>2 DEF Progress
<1>5. CASE /\ jobs' = [jobs EXCEPT ![worker.job].stored = @ + 1]
           /\ worker' = [done EXCEPT !.report.inserted = @ + 1]
  <2> DEFINE job == [Me EXCEPT !.stored = Me.stored + 1]
             counted == [w EXCEPT !.inserted = w.inserted + 1]
  <2>1. jobs' = [jobs EXCEPT ![worker.job] = job]
    BY <1>5 DEF Me
  <2>2. /\ job \in Jobs /\ job.status = Me.status /\ job.first = Me.first
        /\ job.next = Me.next /\ job.discovered = Me.discovered
        /\ job.report = Me.report /\ job.stored = Me.stored + 1
    BY <1>2 DEF Jobs
  <2>3. /\ counted \in Reports /\ counted.inserted = w.inserted + 1
        /\ counted.failed = w.failed /\ counted.errors = w.errors
    <3> HIDE DEF w
    <3> QED BY <1>3 DEF Reports
  <2>4. worker' = [worker EXCEPT !.at = worker.at + 1, !.report = counted]
    BY <1>2, <1>5 DEF Threads
  <2> HIDE DEF job, counted
  <2>5. /\ worker' \in Threads /\ worker'.job = worker.job /\ worker'.batch = worker.batch
        /\ worker'.pc = "insert" /\ worker'.at = worker.at + 1 /\ worker'.report = counted
    <3>1. \A a \in Nat, r \in Reports : [worker EXCEPT !.at = a, !.report = r] \in Threads
      BY <1>2 DEF Threads
    <3>2. worker.at + 1 \in Nat
      BY <1>3
    <3>3. worker' \in Threads
      BY <2>3, <2>4, <3>1, <3>2, ZenonT(30)
    <3> QED BY <1>1, <1>2, <2>4, <3>3 DEF Threads
  <2>6. Tally(job)
    BY <1>2, <1>3, <2>2 DEF Tally, Ended
  <2>7. /\ job.stored = job.report.inserted + worker'.report.inserted
        /\ worker'.report.inserted + worker'.report.failed = worker'.at - 1
        /\ worker'.at <= Len(worker'.batch) + 1
    <3> DEFINE n == Len(worker.batch)
               at == worker.at
               i == Me.report.inserted
               wi == w.inserted
               wf == w.failed
    <3>1. /\ n \in Nat /\ at \in Nat /\ i \in Nat /\ wi \in Nat /\ wf \in Nat
          /\ at <= n /\ wi + wf = at - 1
          /\ job.stored = i + wi + 1 /\ job.report.inserted = i
          /\ worker'.report.inserted = wi + 1 /\ worker'.report.failed = wf
          /\ worker'.at = at + 1 /\ Len(worker'.batch) = n
      BY <1>1, <1>3, <1>4, <2>2, <2>3, <2>5
    <3> HIDE DEF n, at, i, wi, wf
    <3> QED BY <3>1
  <2>8. Progress(job, worker')
    BY <1>4, <2>2, <2>3, <2>5, <2>7 DEF Progress
  <2> QED BY <1>1, <1>2, <2>1, <2>2, <2>5, <2>6, <2>8, ThreadWorks
<1>6. CASE jobs' = jobs /\ worker' = [done EXCEPT !.report = Fail(@)]
  <2>1. /\ Fail(w) \in Reports
        /\ Fail(w).inserted = w.inserted /\ Fail(w).failed = w.failed + 1
        /\ Fail(w).errors = Least(w.failed + 1, MaxErrors)
    BY <1>3, <1>4, FailCounts
  <2>2. worker' = [worker EXCEPT !.at = worker.at + 1, !.report = Fail(w)]
    BY <1>2, <1>6 DEF Threads
  <2>3. /\ worker' \in Threads /\ worker'.job = worker.job /\ worker'.batch = worker.batch
        /\ worker'.pc = "insert" /\ worker'.at = worker.at + 1 /\ worker'.report = Fail(w)
    <3>1. \A a \in Nat, r \in Reports : [worker EXCEPT !.at = a, !.report = r] \in Threads
      BY <1>2 DEF Threads
    <3>2. worker.at + 1 \in Nat
      BY <1>3
    <3>3. worker' \in Threads
      BY <2>1, <2>2, <3>1, <3>2, ZenonT(30)
    <3> QED BY <1>1, <1>2, <2>2, <3>3 DEF Threads
  <2>4. /\ Me.stored = Me.report.inserted + worker'.report.inserted
        /\ worker'.report.inserted + worker'.report.failed = worker'.at - 1
        /\ worker'.report.errors = Least(worker'.report.failed, MaxErrors)
        /\ worker'.at <= Len(worker'.batch) + 1
    <3> HIDE DEF w
    <3> QED BY <1>1, <1>3, <1>4, <2>1, <2>3, SMTT(30)
  <2>5. Progress(Me, worker')
    BY <1>4, <2>3, <2>4 DEF Progress
  <2> QED BY <1>1, <1>6, <2>3, <2>5, ThreadMoves
<1>7. CASE jobs' = jobs /\ worker' = EndsAs("failed")
  <2>1. /\ worker' \in Threads /\ worker'.job = worker.job /\ worker'.pc = "finish"
        /\ worker'.outcome = "failed"
    BY <1>2, <1>7 DEF EndsAs, Threads, Stages, Ended
  <2>2. Progress(Me, worker')
    BY <2>1 DEF Progress
  <2> QED BY <1>1, <1>7, <2>1, <2>2, ThreadMoves
<1> QED BY <1>5, <1>6, <1>7 DEF InsertRow, Goes

LEMMA MergeReportKeepsJobs ==
    ASSUME JobsInv, MergeReport, workload' = workload
    PROVE  JobsInv'
<1> DEFINE w == worker.report
           r == Me.report
           job == [Me EXCEPT !.report = Merge(r, w)]
<1>1. /\ worker.pc = "merge"
      /\ jobs' = [jobs EXCEPT ![worker.job].report = Merge(@, w)]
      /\ worker' = [worker EXCEPT !.pc = "files", !.batch = <<>>]
      /\ retained' = retained /\ active' = active /\ stop' = stop
      /\ shutdown' = shutdown /\ submitted' = submitted
  BY DEF MergeReport, Goes
<1>2. /\ worker \in Threads /\ Me \in Jobs /\ Me.status \notin Ended /\ Tally(Me)
      /\ Progress(Me, worker)
  BY <1>1, TheJobOnTheThread
<1>3. /\ Len(worker.batch) \in Nat /\ worker.at \in Nat
      /\ w \in Reports /\ w.inserted \in Nat /\ w.failed \in Nat
      /\ r \in Reports /\ r.inserted \in Nat /\ r.failed \in Nat
      /\ Me.stored \in Nat /\ Me.discovered \in Nat
  BY <1>2, LenProperties DEF Threads, Jobs, Reports
<1>4. /\ r.inserted + r.failed + Len(worker.batch) = Me.discovered
      /\ Me.stored = r.inserted + w.inserted
      /\ w.errors = Least(w.failed, MaxErrors) /\ r.errors = Least(r.failed, MaxErrors)
      /\ w.inserted + w.failed = worker.at - 1 /\ worker.at = Len(worker.batch) + 1
  BY <1>1, <1>2 DEF Progress, Tally
<1>5. /\ Merge(r, w) \in Reports
      /\ Merge(r, w).inserted = r.inserted + w.inserted
      /\ Merge(r, w).failed = r.failed + w.failed
      /\ Merge(r, w).errors = Least(r.failed + w.failed, MaxErrors)
  BY <1>3, <1>4, MergeCounts
<1>6. jobs' = [jobs EXCEPT ![worker.job] = job]
  BY <1>1 DEF Me
<1>7. /\ job \in Jobs /\ job.status = Me.status /\ job.first = Me.first
      /\ job.next = Me.next /\ job.discovered = Me.discovered
      /\ job.report = Merge(r, w) /\ job.stored = Me.stored
  BY <1>2, <1>5 DEF Jobs
<1>8. /\ worker' \in Threads /\ worker'.job = worker.job /\ worker'.batch = <<>>
      /\ worker'.pc = "files"
  BY <1>1, <1>2, EmptySeq DEF Threads, Stages
<1> HIDE DEF job
<1>9. /\ job.report.inserted = Me.stored
      /\ job.report.inserted + job.report.failed = Me.discovered
  <2> DEFINE n == Len(worker.batch)
             at == worker.at
             i == r.inserted
             f == r.failed
             wi == w.inserted
             wf == w.failed
  <2>1. /\ n \in Nat /\ at \in Nat /\ i \in Nat /\ f \in Nat /\ wi \in Nat /\ wf \in Nat
        /\ i + f + n = Me.discovered /\ Me.stored = i + wi
        /\ wi + wf = at - 1 /\ at = n + 1
        /\ job.report.inserted = i + wi /\ job.report.failed = f + wf
    BY <1>3, <1>4, <1>5, <1>7
  <2> HIDE DEF n, at, i, f, wi, wf
  <2> QED BY <2>1
<1>10. Tally(job)
  BY <1>2, <1>3, <1>5, <1>7, <1>9 DEF Tally, Ended
<1>11. Progress(job, worker')
  <2>1. Len(worker'.batch) = 0
    BY <1>8
  <2>2. job.report.inserted + job.report.failed + Len(worker'.batch) = job.discovered
    BY <1>3, <1>7, <1>9, <2>1
  <2> QED BY <1>7, <1>8, <1>9, <2>2 DEF Progress
<1> QED BY <1>1, <1>2, <1>6, <1>7, <1>8, <1>10, <1>11, ThreadWorks

(* The job ends with the thread: nothing else was waiting. *)
LEMMA FinishKeepsJobs ==
    ASSUME JobsInv, Finish, workload' = workload
    PROVE  JobsInv'
<1> DEFINE job == [Me EXCEPT !.status = worker.outcome]
<1>1. /\ worker.pc = "finish" /\ jobs' = [jobs EXCEPT ![worker.job].status = worker.outcome]
      /\ active' = NoJob /\ worker' = Idle
      /\ retained' = retained /\ stop' = stop
      /\ shutdown' = shutdown /\ submitted' = submitted
  BY DEF Finish
<1>2. /\ worker \in Threads /\ Me \in Jobs /\ Tally(Me) /\ Me.status \notin Ended
      /\ Progress(Me, worker) /\ worker.job \in 1 .. Len(jobs) /\ worker.job = active
      /\ submitted = <<>> /\ jobs \in Seq(Jobs)
  BY <1>1, TheJobOnTheThread DEF JobsInv, JobsTyped, Numbers
<1>3. jobs' = [jobs EXCEPT ![worker.job] = job]
  BY <1>1 DEF Me
<1>4. /\ job \in Jobs /\ job.status = worker.outcome /\ job.status \in Ended
      /\ job.first = Me.first /\ job.next = Me.next /\ job.discovered = Me.discovered
      /\ job.report = Me.report /\ job.stored = Me.stored
  BY <1>2 DEF Jobs, Threads, Statuses
<1> HIDE DEF job
<1>5. Tally(job)
  BY <1>1, <1>2, <1>4 DEF Tally, Progress
<1>6. /\ jobs' \in Seq(Jobs) /\ Len(jobs') = Len(jobs)
      /\ \A j \in 1 .. Len(jobs) : jobs'[j] = IF j = worker.job THEN job ELSE jobs[j]
  BY <1>2, <1>3, <1>4, ExceptSeq
<1>7. Idle \in Threads /\ Idle.pc = "idle" /\ Idle.job = 0
  BY EmptyReportTyped DEF Idle, NoJob
<1>8. JobsTyped'
  BY <1>1, <1>6, <1>7 DEF JobsInv, JobsTyped, NoJob
<1>9. OneAtATime'
  <2>1. 0 \in 0 .. Len(jobs) /\ \A j \in 1 .. Len(jobs) : j # 0
    BY <1>2, LenProperties
  <2>2. \A j \in Numbers' : jobs'[j].status \in Ended <=> j # active'
    BY <1>1, <1>2, <1>4, <1>6, <2>1 DEF JobsInv, OneAtATime, Numbers, NoJob
  <2> QED BY <1>1, <1>2, <1>6, <1>7, <2>1, <2>2 DEF JobsInv, OneAtATime, NoJob
<1>10. ReportsInv'
  BY <1>1, <1>5, <1>6, <1>7 DEF JobsInv, ReportsInv, Numbers, NoJob
<1> QED BY <1>8, <1>9, <1>10 DEF JobsInv

(* start() makes room for the report of the new job by leaving out the oldest,
   none of which is of a job that has not ended. *)
LEMMA RegisterKeepsJobs ==
    ASSUME JobsInv, NEW first \in Int, NEW files \in Nat, Register(first, files),
           workload' = workload
    PROVE  JobsInv'
<1> DEFINE job == NewJob(first, files)
           number == Len(jobs) + 1
<1>1. /\ stop = FALSE /\ active = NoJob
      /\ jobs' = Append(jobs, job)
      /\ retained' = Append(Evicted, number)
      /\ active' = number
      /\ submitted' = IF shutdown THEN submitted ELSE Append(submitted, number)
      /\ stop' = stop /\ shutdown' = shutdown /\ worker' = worker
  BY DEF Register, Refused, JobsInv, JobsTyped
<1>2. /\ jobs \in Seq(Jobs) /\ Len(jobs) \in Nat /\ retained \in Seq(Nat) /\ submitted \in Seq(Nat)
      /\ workload \in Workload /\ worker \in Threads
  BY LenProperties DEF JobsInv, JobsTyped
<1>3. submitted = <<>> /\ worker.job = NoJob /\ worker.pc = "idle" /\ shutdown = FALSE
  BY <1>1 DEF JobsInv, OneAtATime, JobsTyped
<1>4. /\ job \in Jobs /\ job.status = "pending" /\ job.report = EmptyReport
      /\ job.discovered = 0 /\ job.stored = 0 /\ job.next = job.first
  BY EmptyReportTyped DEF NewJob, Jobs, Statuses
<1>5. Tally(job) /\ Fresh(job)
  <2>1. /\ job.report.inserted = 0 /\ job.report.failed = 0
        /\ job.report.errors = Least(0, MaxErrors) /\ job.next = job.first + 0
    BY <1>4, EmptyReportTyped DEF Jobs
  <2> HIDE DEF job
  <2> QED BY <1>4, <2>1 DEF Tally, Fresh
<1> HIDE DEF job
<1>6. number \in Nat /\ number # 0 /\ number \in 1 .. number
      /\ \A j \in 1 .. number : j \in 1 .. Len(jobs) \/ j = number
  BY <1>2
<1>7. /\ jobs' \in Seq(Jobs) /\ Len(jobs') = number /\ jobs'[number] = job
      /\ \A j \in 1 .. Len(jobs) : jobs'[j] = jobs[j] /\ j # number
  BY <1>1, <1>2, <1>4, AppendProperties
<1>8. /\ Evicted \in Seq(Nat) /\ Len(Evicted) <= MaxRetained - 1
  <2> DEFINE n == Least(Len(retained), MaxRetained - 1)
             m == Len(retained)
  <2>1. /\ m \in Nat /\ MaxRetained \in Nat \ {0}
        /\ n \in Nat /\ n <= m /\ n <= MaxRetained - 1
    BY <1>2, LenProperties, MediaAssumption DEF Least
  <2>2. Evicted = SubSeq(retained, m - n + 1, m)
    BY DEF Evicted
  <2>3. \A i \in 1 .. m : retained[i] \in Nat
    BY <1>2, ElementOfSeq
  <2> HIDE DEF n, m
  <2>4. \A i \in m - n + 1 .. m : retained[i] \in Nat
    BY <2>1, <2>3
  <2>5. /\ SubSeq(retained, m - n + 1, m) \in Seq(Nat)
        /\ Len(SubSeq(retained, m - n + 1, m)) =
             IF m - n + 1 <= m THEN m - (m - n + 1) + 1 ELSE 0
    <3>1. m - n + 1 \in Int /\ m \in Int
      BY <2>1
    <3> QED BY <2>4, <3>1, SubSeqProperties
  <2>6. Len(Evicted) = n
    BY <2>1, <2>2, <2>5
  <2> QED BY <2>1, <2>2, <2>5, <2>6
<1>9. /\ retained' \in Seq(Nat) /\ Len(retained') <= MaxRetained
      /\ number \in Range(retained')
  <2>1. /\ Append(Evicted, number) \in Seq(Nat)
        /\ Len(Append(Evicted, number)) = Len(Evicted) + 1
        /\ Append(Evicted, number)[Len(Evicted) + 1] = number
    BY <1>6, <1>8, AppendProperties
  <2>2. Len(Evicted) \in Nat /\ DOMAIN retained' = 1 .. Len(Evicted) + 1
    BY <1>1, <1>8, <2>1, LenProperties
  <2>3. Len(Evicted) + 1 \in DOMAIN retained'
    BY <2>2
  <2>4. number \in Range(retained')
    BY <1>1, <2>1, <2>3 DEF Range
  <2> QED BY <1>1, <1>8, <2>1, <2>2, <2>4, MediaAssumption
<1>10. submitted' = <<number>>
  BY <1>1, <1>3
<1>11. JobsTyped'
  <2>1. submitted' \in Seq(Nat)
    BY <1>6, <1>10
  <2> QED BY <1>1, <1>6, <1>7, <1>9, <2>1 DEF JobsInv, JobsTyped
<1> HIDE DEF number
<1>12. OneAtATime'
  <2>1. \A j \in Numbers' : jobs'[j].status \in Ended <=> j # active'
    <3>1. \A j \in 1 .. Len(jobs) : jobs[j].status \in Ended
      BY <1>1 DEF JobsInv, OneAtATime, Numbers, NoJob
    <3>2. job.status \notin Ended
      BY <1>4 DEF Ended
    <3> QED BY <1>1, <1>6, <1>7, <3>1, <3>2 DEF Numbers
  <2>2. active' \in 0 .. Len(jobs') /\ active' # NoJob
    BY <1>1, <1>6, <1>7 DEF NoJob
  <2> QED BY <1>1, <1>3, <1>9, <1>10, <2>1, <2>2 DEF JobsInv, OneAtATime
<1>13. ReportsInv'
  BY <1>1, <1>3, <1>5, <1>6, <1>7 DEF JobsInv, ReportsInv, Numbers
<1> QED BY <1>11, <1>12, <1>13 DEF JobsInv

LEMMA JobsUntouched ==
    ASSUME JobsInv, workload' = workload, UNCHANGED jobVars
    PROVE  JobsInv'
<1>1. /\ jobs' = jobs /\ retained' = retained /\ active' = active /\ stop' = stop
      /\ shutdown' = shutdown /\ submitted' = submitted /\ worker' = worker
  BY DEF jobVars
<1> QED BY <1>1 DEF JobsInv, JobsTyped, OneAtATime, ReportsInv, Numbers

LEMMA CloseKeepsJobs ==
    ASSUME JobsInv, SetStop \/ Shutdown, workload' = workload
    PROVE  JobsInv'
<1>1. /\ jobs' = jobs /\ retained' = retained /\ active' = active
      /\ submitted' = submitted /\ worker' = worker
      /\ stop' \in BOOLEAN /\ shutdown' \in BOOLEAN /\ (shutdown' => stop')
  BY DEF SetStop, Shutdown, JobsInv, JobsTyped, OneAtATime
<1> QED BY <1>1 DEF JobsInv, JobsTyped, OneAtATime, ReportsInv, Numbers

LEMMA ThreadKeepsJobs ==
    ASSUME JobsInv, WorkerNext, workload' = workload
    PROVE  JobsInv'
BY TakeTaskKeepsJobs, BeginKeepsJobs, DecisionsKeepJobs, NextFileKeepsJobs,
   ExtractKeepsJobs, InsertRowKeepsJobs, MergeReportKeepsJobs, FinishKeepsJobs
   DEF WorkerNext

LEMMA RequestsKeepJobs ==
    ASSUME JobsInv, NEW c \in Client, ClientStep(c)
    PROVE  JobsInv'
<1>1. CASE StartJob(c)
  <2>1. workload' = workload
    BY <1>1 DEF StartJob, Step
  <2>2. CASE UNCHANGED jobVars
    BY <2>1, <2>2, JobsUntouched
  <2>3. ASSUME NEW first \in workload.ids, NEW files \in workload.files, Register(first, files)
        PROVE  JobsInv'
    <3>1. first \in Int /\ files \in Nat
      BY WorkloadAssumption DEF JobsInv, JobsTyped
    <3> QED BY <2>1, <2>3, <3>1, RegisterKeepsJobs
  <2> QED BY <1>1, <2>2, <2>3 DEF StartJob
<1>2. CASE ~StartJob(c)
  <2>1. UNCHANGED jobVars /\ workload' = workload
    BY <1>2 DEF ClientStep, Serves, Step, BeginTransaction, EndTransaction, InsertStatement,
       CreateStatement, DropStatement, FindTable, ValidateTarget, AnswerStart,
       DetectEncoding, RejectCsv, OpenCsv, LoadRow, CloseCsv
  <2> QED BY <2>1, JobsUntouched
<1> QED BY <1>1, <1>2

LEMMA JobsStep == JobsInv /\ [HttpNext]_vars => JobsInv'
<1> SUFFICES ASSUME JobsInv, [HttpNext]_vars PROVE JobsInv'
  OBVIOUS
<1>1. ASSUME NEW c \in Client, NEW o \in Operations, Request(c, o) PROVE JobsInv'
  <2>1. UNCHANGED jobVars /\ workload' = workload
    BY <1>1 DEF Request
  <2> QED BY <2>1, JobsUntouched
<1>2. ASSUME NEW c \in Client, ClientStep(c) PROVE JobsInv'
  BY <1>2, RequestsKeepJobs
<1>3. CASE JobsNext
  <2>1. workload' = workload
    BY <1>3 DEF JobsNext, httpVars
  <2> QED BY <1>3, <2>1, ThreadKeepsJobs, CloseKeepsJobs DEF JobsNext
<1>4. CASE UNCHANGED vars
  <2>1. UNCHANGED jobVars /\ workload' = workload
    BY <1>4 DEF vars, jobVars
  <2> QED BY <2>1, JobsUntouched
<1> QED BY <1>1, <1>2, <1>3, <1>4 DEF HttpNext

LEMMA JobsInvariant == HttpSpec => []JobsInv
BY JobsInitially, JobsStep, PTL DEF HttpSpec

(* The variables of the jobs keep their types: the number of a job is that of one
   that was registered, a report and a batch hold what _run puts in them. *)
THEOREM JobsTypeCorrect == HttpSpec => []JobsTyped
<1>1. JobsInv => JobsTyped
  BY DEF JobsInv
<1> QED BY <1>1, JobsInvariant, PTL

(* One media job at a time and none lost: the job that has not ended is the active
   one, it waits for the thread or is on it, and its report is among the retained
   ones, however start, _run and close interleave (engine/api/media_load.py). *)
THEOREM OneJobLives == HttpSpec => []OneLiveJob
<1>1. ASSUME JobsInv PROVE OneLiveJob
  <2>1. /\ Len(jobs) \in Nat /\ active \in 0 .. Len(jobs) /\ active \in Nat
        /\ \A j \in Numbers : jobs[j].status \in Ended <=> j # active
        /\ active # NoJob => active \in Range(retained)
        /\ Len(retained) <= MaxRetained
    BY <1>1, LenProperties DEF JobsInv, JobsTyped, OneAtATime
  <2>2. active # NoJob => active \in Numbers
    BY <2>1 DEF NoJob, Numbers
  <2>3. {j \in Numbers : jobs[j].status \notin Ended} = {active} \ {NoJob}
    <3>1. \A j \in Numbers : j # NoJob
      BY <2>1 DEF NoJob, Numbers
    <3> QED BY <2>1, <2>2, <3>1
  <2>4. ASSUME active # NoJob
        PROVE  Range(submitted) \cup ({worker.job} \ {NoJob}) = {active}
    <3>1. CASE submitted = <<>> /\ worker.job = active
      <4>1. Range(submitted) = {}
        BY <3>1 DEF Range
      <4> QED BY <2>4, <3>1, <4>1
    <3>2. CASE submitted = <<active>> /\ worker.job = NoJob
      <4>1. Range(submitted) = {active}
        BY <3>2 DEF Range
      <4> QED BY <3>2, <4>1
    <3> QED BY <1>1, <2>4, <3>1, <3>2 DEF JobsInv, OneAtATime
  <2> QED BY <2>1, <2>3, <2>4 DEF OneLiveJob
<1> QED BY <1>1, JobsInvariant, PTL

(* The report of every job adds up at every moment: what it counts was written, what
   it counts and does not was met, and the list of errors is as long as it may be,
   whichever stage fails or is cancelled (_run and _write, MediaLoadReport.merge). *)
THEOREM JobReportsAddUp == HttpSpec => []ReportsAddUp
<1>1. ASSUME JobsInv PROVE ReportsAddUp
  <2> SUFFICES ASSUME NEW j \in Numbers
               PROVE  LET r == jobs[j].report
                      IN /\ r.errors = Least(r.failed, MaxErrors)
                         /\ r.inserted + r.failed <= jobs[j].discovered
                         /\ jobs[j].status = "completed" =>
                               r.inserted + r.failed = jobs[j].discovered
                         /\ r.inserted <= jobs[j].stored
                         /\ jobs[j].status \in {"completed", "cancelled"} =>
                               r.inserted = jobs[j].stored
                         /\ jobs[j].next = jobs[j].first + jobs[j].discovered
    BY DEF ReportsAddUp
  <2>1. Tally(jobs[j])
    BY <1>1 DEF JobsInv, ReportsInv
  <2> QED BY <2>1 DEF Tally
<1> QED BY <1>1, JobsInvariant, PTL

-------------------------------------------------------------------------------
(* The motor: while a load holds it no transaction is open, and the worker inserts
   with the motor held. *)
MotorInv ==
    /\ motor # Nobody => ~txn.open
    /\ worker.pc = "insert" => motor = Worker

(* What the transaction and the table are, whatever was written. *)
Shapes ==
    /\ txn = [open |-> txn.open, wrote |-> txn.wrote]
    /\ table = [exists |-> table.exists, rows |-> table.rows]

LEMMA MotorInitially == HttpInit => MotorInv /\ Shapes
BY DEF HttpInit, JobsInit, MotorInv, Idle, Shapes, NoTxn, EmptyTable

LEMMA RecordsKeepShape ==
    ASSUME Shapes
    PROVE  /\ \A open : LET t == [txn EXCEPT !.open = open]
                       IN t = [open |-> open, wrote |-> txn.wrote]
           /\ \A wrote : LET t == [txn EXCEPT !.wrote = wrote]
                        IN t = [open |-> txn.open, wrote |-> wrote]
           /\ \A rows : LET t == [table EXCEPT !.rows = rows]
                       IN t = [exists |-> table.exists, rows |-> rows]
BY DEF Shapes

LEMMA ShapesStep == Shapes /\ [HttpNext]_vars => Shapes'
<1> SUFFICES ASSUME Shapes, [HttpNext]_vars PROVE Shapes'
  OBVIOUS
<1>1. /\ \/ txn' = txn \/ txn' = NoTxn
         \/ \E open : txn' = [txn EXCEPT !.open = open]
         \/ \E wrote : txn' = [txn EXCEPT !.wrote = wrote]
      /\ \/ table' = table \/ table' \in {EmptyTable, NoTable}
         \/ \E rows : table' = [table EXCEPT !.rows = rows]
  BY ZenonT(30) DEF HttpNext, vars, Request, ClientStep, Serves, Step, BeginTransaction, EndTransaction,
     InsertStatement, CreateStatement, DropStatement, FindTable, ValidateTarget, StartJob,
     AnswerStart, DetectEncoding, RejectCsv, OpenCsv, LoadRow, WithoutLoaded, CloseCsv, JobsNext,
     WorkerNext, TakeTask, Begin, Validate, NextFile, Extract, NoMoreFiles, CheckStop,
     EnterMotor, InsertRow, LeaveMotor, MergeReport, Finish, SetStop, Shutdown
<1> QED BY <1>1, RecordsKeepShape DEF Shapes, NoTxn, EmptyTable, NoTable

LEMMA MotorStep == JobsInv /\ MotorInv /\ [HttpNext]_vars => MotorInv'
<1> SUFFICES ASSUME JobsInv, MotorInv, [HttpNext]_vars PROVE MotorInv'
  OBVIOUS
<1>1. Nobody \notin Client /\ Worker \notin Client /\ Nobody # Worker
  BY HoldersAreThreads DEF Nobody, Worker
<1>2. CASE motor' = motor /\ txn' = txn /\ worker' = worker
  BY <1>2 DEF MotorInv
<1>3. ASSUME NEW c \in Client, ClientStep(c) PROVE MotorInv'
  <2>1. CASE \E op \in Operations : Serves(c, op)
    <3>1. motor = Nobody /\ motor' = motor /\ worker' = worker
      BY <2>1 DEF Serves, jobVars
    <3> QED BY <1>1, <3>1 DEF MotorInv
  <2>2. CASE OpenCsv(c)
    <3>1. /\ motor = Nobody /\ worker' = worker /\ txn' = txn
          /\ motor' = Nobody \/ (motor' = c /\ ~txn.open)
      BY <2>2 DEF OpenCsv, jobVars
    <3> QED BY <1>1, <3>1 DEF MotorInv
  <2>3. CASE LoadRow(c) \/ CloseCsv(c)
    <3>1. motor = c /\ worker' = worker /\ txn' = txn /\ motor' \in {motor, Nobody}
      BY <2>3 DEF LoadRow, CloseCsv, LeavesMotor, jobVars
    <3> QED BY <1>1, <3>1 DEF MotorInv
  <2>4. CASE StartJob(c)
    <3>1. motor' = motor /\ txn' = txn /\ worker' = worker
      BY <2>4 DEF StartJob, Register, jobVars
    <3> QED BY <1>2, <3>1
  <2>5. CASE FindTable(c) \/ ValidateTarget(c) \/ AnswerStart(c) \/ DetectEncoding(c)
             \/ RejectCsv(c)
    <3>1. motor' = motor /\ txn' = txn /\ worker' = worker
      BY <2>5 DEF FindTable, ValidateTarget, AnswerStart, DetectEncoding, RejectCsv, jobVars
    <3> QED BY <1>2, <3>1
  <2> QED BY <1>3, <2>1, <2>2, <2>3, <2>4, <2>5
          DEF ClientStep, BeginTransaction, EndTransaction, InsertStatement, CreateStatement,
              DropStatement, Operations
<1>4. CASE JobsNext
  <2>1. /\ worker \in Threads
        /\ \A stage \in Stages : [worker EXCEPT !.pc = stage].pc = stage
        /\ \A o \in Ended : EndsAs(o).pc = "finish"
    BY DEF JobsInv, JobsTyped, Threads, EndsAs
  <2>2. CASE EnterMotor
    <3>1. /\ motor = Nobody /\ txn' = txn
          /\ \/ motor' = motor /\ worker' = EndsAs("failed")
             \/ ~txn.open /\ motor' = Worker
      BY <2>2 DEF EnterMotor, BatchRefused, Goes
    <3> QED BY <2>1, <3>1 DEF MotorInv, Ended
  <2>3. CASE InsertRow \/ LeaveMotor
    <3>1. /\ txn' = txn /\ motor' \in {motor, Nobody}
          /\ motor' = motor \/ worker' \in {EndsAs("failed"), [worker EXCEPT !.pc = "merge"]}
          /\ worker.pc = "insert"
      BY <2>3 DEF InsertRow, LeaveMotor, Goes
    <3> QED BY <1>1, <2>1, <3>1 DEF MotorInv, Ended, Stages
  <2>4. CASE SetStop \/ Shutdown
    <3>1. motor' = motor /\ txn' = txn /\ worker' = worker
      BY <2>4 DEF SetStop, Shutdown
    <3> QED BY <1>2, <3>1
  <2>5. CASE TakeTask \/ Begin \/ Validate \/ NextFile \/ Extract \/ NoMoreFiles
             \/ CheckStop \/ MergeReport \/ Finish
    <3>1. motor' = motor /\ txn' = txn
      BY <2>5 DEF TakeTask, Begin, Validate, NextFile, Extract, NoMoreFiles, CheckStop,
                  MergeReport, Finish
    <3>2. worker'.pc # "insert"
      <4>1. CASE TakeTask \/ Finish
        <5>1. Idle \in Threads /\ Idle.pc = "idle"
          BY EmptyReportTyped DEF Idle
        <5>2. \A a, b : [Idle EXCEPT !.pc = "begin", !.job = a, !.left = b].pc = "begin"
          BY <5>1 DEF Threads
        <5>3. worker' = Idle \/ \E a, b : worker' = [Idle EXCEPT !.pc = "begin", !.job = a, !.left = b]
          BY <4>1, ZenonT(30) DEF TakeTask, Finish
        <5>4. worker' = Idle => worker'.pc # "insert"
          BY <5>1
        <5>5. ASSUME NEW a, NEW b, worker' = [Idle EXCEPT !.pc = "begin", !.job = a, !.left = b]
              PROVE  worker'.pc # "insert"
          <6>1. worker'.pc = "begin"
            BY <5>2, <5>5
          <6> QED BY <6>1
        <5> QED BY <5>3, <5>4, <5>5, ZenonT(30)
      <4>2. CASE Begin \/ Validate \/ NoMoreFiles \/ CheckStop
        BY <2>1, <4>2 DEF Begin, Validate, NoMoreFiles, CheckStop, Goes, Stages, Ended
      <4>3. CASE NextFile
        BY <2>1, <4>3 DEF NextFile, Goes, Threads, Ended
      <4>4. CASE Extract \/ MergeReport
        BY <2>1, <4>4 DEF Extract, MergeReport, AfterFile, Goes, Threads
      <4> QED BY <2>5, <4>1, <4>2, <4>3, <4>4
    <3> QED BY <3>1, <3>2 DEF MotorInv
  <2> QED BY <1>4, <2>2, <2>3, <2>4, <2>5 DEF JobsNext, WorkerNext
<1>5. ASSUME NEW c \in Client, NEW o \in Operations, Request(c, o) PROVE MotorInv'
  BY <1>2, <1>5 DEF Request, jobVars
<1>6. CASE UNCHANGED vars
  BY <1>2, <1>6 DEF vars
<1> QED BY <1>3, <1>4, <1>5, <1>6 DEF HttpNext

(* No bulk load writes inside the transaction of a client: while one is open, the
   rows that come and go are its own (load_csv and load_media_batch refuse an open
   transaction once they hold the motor, and keep it). *)
THEOREM LoadsKeepOutOfTransactions == HttpSpec => LoadsStayOutOfTransactions
<1> DEFINE Inv == JobsInv /\ MotorInv /\ Shapes
           Kept == txn.open => \A id \in DOMAIN table.rows \cup DOMAIN table'.rows :
                      \/ id \in DOMAIN table.rows /\ id \in DOMAIN table'.rows
                      \/ id \in txn.wrote \cup txn'.wrote
<1>1. HttpInit => Inv
  BY JobsInitially, MotorInitially
<1>2. Inv /\ [HttpNext]_vars => Inv'
  BY JobsStep, MotorStep, ShapesStep
<1>3. ASSUME Inv, [HttpNext]_vars PROVE [Kept]_vars
  <2> SUFFICES ASSUME HttpNext, txn.open PROVE Kept
    BY <1>3
  <2>1. motor = Nobody /\ worker.pc # "insert" /\ \A c \in Client : motor # c
    BY <1>3, HoldersAreThreads DEF MotorInv, Nobody, Worker
  <2>2. CASE table' = table
    BY <2>2
  <2>3. ASSUME NEW c \in Client, InsertStatement(c) PROVE Kept
    <3>1. PICK id \in workload.ids :
             \/ table' = table
             \/ table' = [table EXCEPT !.rows = Restrict(@, DOMAIN @ \ txn.wrote)]
             \/ /\ table' = [table EXCEPT !.rows = WithRow(@, id, ByClient)]
                /\ txn' = [txn EXCEPT !.wrote = @ \cup {id}]
      BY <2>3 DEF InsertStatement
    <3>2. CASE table' = table
      BY <3>2
    <3>3. CASE table' = [table EXCEPT !.rows = Restrict(@, DOMAIN @ \ txn.wrote)]
      <4>1. table'.rows = Restrict(table.rows, DOMAIN table.rows \ txn.wrote)
        BY <1>3, <3>3, RecordsKeepShape
      <4>2. DOMAIN table'.rows = DOMAIN table.rows \ txn.wrote
        BY <4>1 DEF Restrict
      <4> QED BY <4>2
    <3>4. CASE /\ table' = [table EXCEPT !.rows = WithRow(@, id, ByClient)]
               /\ txn' = [txn EXCEPT !.wrote = @ \cup {id}]
      <4>1. table'.rows = WithRow(table.rows, id, ByClient) /\ txn'.wrote = txn.wrote \cup {id}
        BY <1>3, <3>4, RecordsKeepShape
      <4>2. DOMAIN table'.rows = DOMAIN table.rows \cup {id}
        BY <4>1 DEF WithRow
      <4> QED BY <4>1, <4>2
    <3> QED BY <3>1, <3>2, <3>3, <3>4
  <2>4. ASSUME NEW c \in Client, ClientStep(c), ~InsertStatement(c) PROVE table' = table
    BY <2>1, <2>4 DEF ClientStep, BeginTransaction, EndTransaction, CreateStatement,
       DropStatement, FindTable, ValidateTarget, StartJob, AnswerStart, DetectEncoding,
       RejectCsv, OpenCsv, LoadRow, CloseCsv
  <2>5. CASE JobsNext
    BY <2>1, <2>5 DEF JobsNext, WorkerNext, TakeTask, Begin, Validate, NextFile, Extract,
       NoMoreFiles, CheckStop, EnterMotor, InsertRow, LeaveMotor, MergeReport, Finish,
       SetStop, Shutdown
  <2>6. ASSUME NEW c \in Client, NEW o \in Operations, Request(c, o) PROVE table' = table
    BY <2>6 DEF Request
  <2> QED BY <2>2, <2>3, <2>4, <2>5, <2>6 DEF HttpNext
<1> QED BY <1>1, <1>2, <1>3, PTL DEF HttpSpec, LoadsStayOutOfTransactions

-------------------------------------------------------------------------------
(* The header of a CSV. *)
ColumnNames == [letter : STRING, upper : BOOLEAN]

(* Named is the header up to its last name. *)
LEMMA NamedIsAPrefix ==
    ASSUME NEW header \in Seq(ColumnNames)
    PROVE  /\ \A i \in DOMAIN Named(header) : i \in DOMAIN header /\ Named(header)[i] = header[i]
           /\ \A p \in DOMAIN header : header[p] # Unnamed => p \in DOMAIN Named(header)
           /\ IsFiniteSet(DOMAIN Named(header))
<1> DEFINE last == {i \in DOMAIN header : header[i] # Unnamed}
           n == Len(header)
           m == CHOOSE i \in last : \A j \in last : j <= i
<1>1. Named(header) = IF last = {} THEN <<>> ELSE SubSeq(header, 1, m)
  BY DEF Named
<1>2. n \in Nat /\ DOMAIN header = 1 .. n
  BY LenProperties
<1>3. CASE last = {}
  <2>1. DOMAIN Named(header) = {}
    BY <1>1, <1>3
  <2> QED BY <1>3, <2>1, FS_EmptySet
<1>4. CASE last # {}
  <2>1. m \in last /\ \A j \in last : j <= m
    <3>1. last \in SUBSET (0 .. n)
      BY <1>2
    <3> HIDE DEF last, n
    <3>2. \E i \in last : \A j \in last : j <= i
      BY <1>2, <1>4, <3>1, GreatestOf
    <3> QED BY <3>2
  <2> HIDE DEF m
  <2>2. m \in 1 .. n
    BY <1>2, <2>1
  <2>3. \A i \in 1 .. m : header[i] \in ColumnNames
    BY <1>2, <2>2, ElementOfSeq
  <2>4. /\ SubSeq(header, 1, m) \in Seq(ColumnNames)
        /\ Len(SubSeq(header, 1, m)) = m
        /\ \A i \in 1 .. m : SubSeq(header, 1, m)[i] = header[i]
    <3>1. m \in Int /\ 1 \in Int /\ 1 <= m /\ m - 1 + 1 = m
      BY <2>2
    <3>2. /\ SubSeq(header, 1, m) \in Seq(ColumnNames)
          /\ Len(SubSeq(header, 1, m)) = IF 1 <= m THEN m - 1 + 1 ELSE 0
          /\ \A i \in 1 .. m - 1 + 1 : SubSeq(header, 1, m)[i] = header[1 + i - 1]
      BY <2>3, <3>1, SubSeqProperties
    <3>3. \A i \in 1 .. m : 1 + i - 1 = i
      BY <3>1
    <3> QED BY <3>1, <3>2, <3>3
  <2>5. DOMAIN Named(header) = 1 .. m
    BY <1>1, <1>4, <2>4, LenProperties
  <2>6. \A p \in DOMAIN header : header[p] # Unnamed => p \in 1 .. m
    BY <1>2, <2>1, <2>2
  <2>7. IsFiniteSet(1 .. m)
    BY <2>2, FS_Interval
  <2>8. \A i \in 1 .. m : i \in DOMAIN header
    BY <1>2, <2>2
  <2> QED BY <1>1, <1>4, <2>4, <2>5, <2>6, <2>7, <2>8
<1> QED BY <1>3, <1>4

(* A name stands for one column at most, which is itself or differs in case. *)
LEMMA StandsForOne ==
    ASSUME NEW name \in ColumnNames
    PROVE  /\ \A c, d \in StandsFor(name, Columns) : c = d
           /\ \A c \in StandsFor(name, Columns) : c \in Range(Columns) /\ Fold(c) = Fold(name)
           /\ name \in Range(Columns) => StandsFor(name, Columns) = {name}
<1> DEFINE folded == {c \in Range(Columns) : Fold(c) = Fold(name)}
<1>1. IsFiniteSet(folded)
  <2>1. Len(Columns) \in Nat /\ DOMAIN Columns = 1 .. Len(Columns)
    BY ColumnsAssumption, LenProperties
  <2>2. IsFiniteSet(Range(Columns))
    <3>1. IsFiniteSet(1 .. Len(Columns))
      BY <2>1, FS_Interval
    <3>2. Columns \in Surjection(1 .. Len(Columns), Range(Columns))
      BY <2>1, ColumnsAssumption DEF Surjection, Range
    <3> QED BY <3>1, <3>2, FS_Surjection
  <2> QED BY <2>2, FS_Subset
<1>2. Cardinality(folded) = 1 => \E c : folded = {c}
  BY <1>1, FS_Singleton
<1>3. StandsFor(name, Columns) = IF name \in Range(Columns) THEN {name}
                                 ELSE IF Cardinality(folded) = 1 THEN folded ELSE {}
  BY DEF StandsFor
<1> QED BY <1>2, <1>3

(* What match_header accepts gives every column a place of its own, and every name
   of the header a column. *)
MatchesOneToOne(header, mapping) ==
    /\ mapping \in Seq(Nat)
    /\ \A i, k \in DOMAIN Columns : mapping[i] = mapping[k] => i = k
    /\ \A i \in DOMAIN Columns : Fold(header[mapping[i]]) = Fold(Columns[i])
    /\ \A p \in DOMAIN header : header[p] # Unnamed => p \in Range(mapping)
    /\ \A i \in DOMAIN Columns : Columns[i] \in Range(header) => header[mapping[i]] = Columns[i]

LEMMA AcceptedHeaders ==
    ASSUME NEW header \in Seq(ColumnNames), match_header(header, Columns) # <<>>
    PROVE  MatchesOneToOne(header, match_header(header, Columns))
<1> DEFINE names == Named(header)
           mapping == match_header(header, Columns)
           claims(c) == {i \in DOMAIN names : c \in StandsFor(names[i], Columns)}
<1>1. /\ \A i \in DOMAIN names : StandsFor(names[i], Columns) # {}
      /\ \A i \in DOMAIN Columns : Cardinality(claims(Columns[i])) = 1
      /\ mapping = [i \in DOMAIN Columns |-> CHOOSE p \in claims(Columns[i]) : TRUE]
  BY DEF match_header
<1>2. /\ \A i \in DOMAIN names : i \in DOMAIN header /\ names[i] = header[i]
      /\ \A p \in DOMAIN header : header[p] # Unnamed => p \in DOMAIN names
      /\ IsFiniteSet(DOMAIN names)
  BY NamedIsAPrefix
<1>3. \A p \in DOMAIN header : header[p] \in ColumnNames /\ p \in Nat
  <2>1. Len(header) \in Nat /\ DOMAIN header = 1 .. Len(header)
    BY LenProperties
  <2> QED BY <2>1, ElementOfSeq
<1>4. /\ Len(Columns) \in Nat /\ DOMAIN Columns = 1 .. Len(Columns)
      /\ \A i, k \in DOMAIN Columns : Columns[i] = Columns[k] => i = k
      /\ \A i \in DOMAIN Columns : Columns[i] # Unnamed
  BY ColumnsAssumption, LenProperties DEF IsInjective, Range
<1>5. \A i \in DOMAIN Columns : claims(Columns[i]) = {mapping[i]}
  <2> SUFFICES ASSUME NEW i \in DOMAIN Columns PROVE claims(Columns[i]) = {mapping[i]}
    OBVIOUS
  <2>1. IsFiniteSet(claims(Columns[i]))
    BY <1>2, FS_Subset
  <2>2. \E p : claims(Columns[i]) = {p}
    <3> HIDE DEF claims
    <3> QED BY <1>1, <2>1, FS_Singleton
  <2>3. mapping[i] = CHOOSE p \in claims(Columns[i]) : TRUE
    BY <1>1
  <2> HIDE DEF claims, mapping
  <2> QED BY <2>2, <2>3
<1> HIDE DEF mapping, names
<1>6. \A i \in DOMAIN Columns : /\ mapping[i] \in DOMAIN header
                                /\ Columns[i] \in StandsFor(header[mapping[i]], Columns)
  BY <1>2, <1>5
<1>7. mapping \in Seq(Nat)
  <2>1. mapping \in [1 .. Len(Columns) -> Nat]
    BY <1>1, <1>3, <1>4, <1>6
  <2> QED BY <1>4, <2>1, SeqDef
<1>8. ASSUME NEW i \in DOMAIN Columns, NEW k \in DOMAIN Columns, mapping[i] = mapping[k]
      PROVE  i = k
  <2>1. Columns[i] = Columns[k]
    BY <1>3, <1>6, <1>8, StandsForOne
  <2> QED BY <1>4, <2>1
<1>9. \A i \in DOMAIN Columns : Fold(header[mapping[i]]) = Fold(Columns[i])
  BY <1>3, <1>6, StandsForOne
<1>10. ASSUME NEW p \in DOMAIN header, header[p] # Unnamed
       PROVE  p \in Range(mapping)
  <2>1. p \in DOMAIN names /\ names[p] = header[p] /\ header[p] \in ColumnNames
    BY <1>2, <1>3, <1>10
  <2>2. PICK c \in StandsFor(header[p], Columns) : c \in Range(Columns)
    BY <1>1, <2>1, StandsForOne DEF names
  <2>3. PICK i \in DOMAIN Columns : c = Columns[i]
    BY <2>2 DEF Range
  <2>4. p \in claims(Columns[i])
    BY <2>1, <2>2, <2>3
  <2>5. p = mapping[i]
    BY <1>5, <2>4
  <2>6. DOMAIN mapping = DOMAIN Columns
    BY <1>1 DEF mapping
  <2> QED BY <2>5, <2>6 DEF Range
<1>11. ASSUME NEW i \in DOMAIN Columns, Columns[i] \in Range(header)
       PROVE  header[mapping[i]] = Columns[i]
  <2>1. PICK p \in DOMAIN header : header[p] = Columns[i]
    BY <1>11 DEF Range
  <2>2. p \in DOMAIN names /\ names[p] = Columns[i] /\ Columns[i] \in ColumnNames
    BY <1>2, <1>3, <1>4, <2>1
  <2>3. Columns[i] \in Range(Columns)
    BY DEF Range
  <2>4. p \in claims(Columns[i])
    BY <2>2, <2>3, StandsForOne
  <2>5. p = mapping[i]
    BY <1>5, <2>4
  <2> QED BY <2>1, <2>5
<1> QED BY <1>7, <1>8, <1>9, <1>10, <1>11 DEF MatchesOneToOne, mapping

-------------------------------------------------------------------------------
(* The line a row begins on. *)
LEMMA LinesExist ==
    ASSUME NEW file, NEW n \in Nat
    PROVE  \E begins : begins = [k \in 1 .. n + 1 |->
              IF k = 1 THEN file.line + 1 ELSE begins[k - 1] + file.rows[k - 1].lines]
<1> DEFINE Link(w, k) == IF k = 1 THEN file.line + 1 ELSE w[k - 1] + file.rows[k - 1].lines
           S == {m \in Nat : \E w : w = [k \in 1 .. m + 1 |-> Link(w, k)]}
<1>1. 0 \in S
  <2> DEFINE w == [k \in 1 .. 1 |-> file.line + 1]
  <2>1. w = [k \in 1 .. 0 + 1 |-> Link(w, k)]
    OBVIOUS
  <2> HIDE DEF w, Link
  <2> QED BY <2>1
<1>2. ASSUME NEW m \in Nat, m \in S PROVE m + 1 \in S
  <2>1. PICK w : w = [k \in 1 .. m + 1 |-> Link(w, k)]
    BY <1>2
  <2> DEFINE more == [k \in 1 .. (m + 1) + 1 |->
                         IF k = m + 2 THEN Link(w, k) ELSE w[k]]
  <2>2. ASSUME NEW k \in 1 .. (m + 1) + 1 PROVE more[k] = Link(more, k)
    <3>1. k = 1 \/ (k # 1 /\ k - 1 \in 1 .. m + 1 /\ k - 1 # m + 2)
      OBVIOUS
    <3>2. Link(more, k) = Link(w, k)
      BY <3>1
    <3>3. k = m + 2 \/ k \in 1 .. m + 1
      OBVIOUS
    <3>4. k \in 1 .. m + 1 => w[k] = Link(w, k)
      <4> HIDE DEF Link
      <4> QED BY <2>1
    <3> HIDE DEF Link
    <3> QED BY <3>2, <3>3, <3>4
  <2>3. more = [k \in 1 .. (m + 1) + 1 |-> Link(more, k)]
    <3> HIDE DEF Link
    <3> QED BY <2>2
  <2> HIDE DEF more, Link
  <2> QED BY <2>3
<1> HIDE DEF S
<1>3. \A m \in Nat : m \in S
  BY <1>1, <1>2, InductionOverNat
<1> QED BY <1>3 DEF S

Files == [bytes : Seq(Bytes), size : Nat \ {0}, line : Nat, atomic : BOOLEAN,
          header : Seq(ColumnNames),
          rows : Seq([id : Int, lines : Nat \ {0},
                      kind : {"value", "blank", "unconvertible", "malformed", "unsupported"}])]

LEMMA LinesAdd ==
    ASSUME NEW file \in Files
    PROVE  /\ LineOf(file, 1) = file.line + 1
           /\ \A i \in 1 .. Len(file.rows) :
                 LineOf(file, i + 1) = LineOf(file, i) + file.rows[i].lines
<1> DEFINE n == Len(file.rows)
           Link(w, k) == IF k = 1 THEN file.line + 1 ELSE w[k - 1] + file.rows[k - 1].lines
           v == CHOOSE w : w = [k \in 1 .. n + 1 |-> Link(w, k)]
<1>1. \A i : LineOf(file, i) = v[i]
  BY DEF LineOf
<1>2. n \in Nat
  BY LenProperties DEF Files
<1>3. v = [k \in 1 .. n + 1 |-> Link(v, k)]
  <2>1. \E w : w = [k \in 1 .. n + 1 |-> Link(w, k)]
    <3> HIDE DEF n
    <3> QED BY <1>2, LinesExist
  <2> HIDE DEF n, Link
  <2> QED BY <2>1
<1> HIDE DEF v, n
<1>4. v[1] = file.line + 1
  BY <1>2, <1>3
<1>5. ASSUME NEW i \in 1 .. n PROVE v[i + 1] = v[i] + file.rows[i].lines
  <2>1. i + 1 \in 1 .. n + 1 /\ i + 1 # 1 /\ (i + 1) - 1 = i
    BY <1>2
  <2>2. v[i + 1] = Link(v, i + 1)
    <3> HIDE DEF Link
    <3> QED BY <1>3, <2>1
  <2> QED BY <2>1, <2>2
<1> QED BY <1>1, <1>4, <1>5 DEF n

LEMMA LinesTyped ==
    ASSUME NEW file \in Files
    PROVE  \A i \in 1 .. Len(file.rows) + 1 : LineOf(file, i) \in Nat
<1> DEFINE n == Len(file.rows)
           S == {m \in Nat : m + 1 \in 1 .. n + 1 => LineOf(file, m + 1) \in Nat}
<1>1. /\ n \in Nat /\ file.line \in Nat /\ file.line + 1 \in Nat
      /\ \A i \in 1 .. n : file.rows[i].lines \in Nat
  <2>1. \A i \in 1 .. n : file.rows[i] \in [id : Int, lines : Nat \ {0},
                      kind : {"value", "blank", "unconvertible", "malformed", "unsupported"}]
    BY LenProperties, ElementOfSeq DEF Files
  <2> QED BY <2>1, LenProperties DEF Files
<1>2. 0 \in S
  BY <1>1, LinesAdd
<1>3. ASSUME NEW m \in Nat, m \in S PROVE m + 1 \in S
  <2> SUFFICES ASSUME (m + 1) + 1 \in 1 .. n + 1 PROVE LineOf(file, (m + 1) + 1) \in Nat
    OBVIOUS
  <2>1. m + 1 \in 1 .. n /\ m + 1 \in 1 .. n + 1
    BY <1>1
  <2>2. LineOf(file, m + 1) \in Nat
    BY <1>3, <2>1
  <2>3. LineOf(file, (m + 1) + 1) = LineOf(file, m + 1) + file.rows[m + 1].lines
    BY <2>1, LinesAdd
  <2>4. file.rows[m + 1].lines \in Nat
    BY <1>1, <2>1
  <2> QED BY <2>2, <2>3, <2>4
<1> HIDE DEF S, n
<1>4. \A m \in Nat : m \in S
  BY <1>2, <1>3, InductionOverNat
<1>5. \A i \in 1 .. n + 1 : i - 1 \in Nat /\ (i - 1) + 1 = i
  BY <1>1
<1>6. ASSUME NEW i \in 1 .. n + 1 PROVE LineOf(file, i) \in Nat
  <2>1. i - 1 \in S
    BY <1>4, <1>5
  <2> QED BY <1>5, <2>1 DEF S
<1> QED BY <1>6 DEF n

(* Min of FiniteSetsExt. *)
LEMMA MinOf ==
    ASSUME NEW S \in SUBSET Nat, S # {}
    PROVE  Min(S) \in S /\ \A y \in S : Min(S) <= y
  BY LeastOf DEF Min

-------------------------------------------------------------------------------
(* The encoding of a file, whatever the blocks it is read by. *)

LEMMA ExpectsTyped ==
    ASSUME NEW b
    PROVE  /\ Expects(b) \in Nat
           /\ Expects(b) > 0 <=> b \in {"lead2", "lead3"}
           /\ IsTail(b) => Expects(b) = 0
  BY DEF Expects, IsTail

(* The equations of the decoder. *)
LEMMA OpenIsCounted ==
    ASSUME NEW bytes \in Seq(Bytes)
    PROVE  /\ DOMAIN Open(bytes) = 0 .. Len(bytes)
           /\ Open(bytes)[0] = 0
           /\ \A i \in 1 .. Len(bytes) :
                 Open(bytes)[i] =
                    LET before == Open(bytes)[i - 1]
                    IN IF before = 0 THEN IF Expects(bytes[i]) > 0 THEN i ELSE 0
                       ELSE IF i = before + Expects(bytes[before]) THEN 0 ELSE before
<1> DEFINE n == Len(bytes)
           Next(before, i) == IF before = 0 THEN IF Expects(bytes[i]) > 0 THEN i ELSE 0
                              ELSE IF i = before + Expects(bytes[before]) THEN 0 ELSE before
           Link(v, i) == IF i = 0 THEN 0 ELSE Next(v[i - 1], i)
           lead == CHOOSE v : v = [i \in 0 .. n |-> Link(v, i)]
<1>1. Open(bytes) = lead
  BY DEF Open
<1>2. n \in Nat
  BY LenProperties
<1>3. \E v : v = [i \in 0 .. n |-> Link(v, i)]
  <2> DEFINE S == {m \in Nat : m <= n => \E v : v = [i \in 0 .. m |-> Link(v, i)]}
  <2>1. 0 \in S
    <3> DEFINE v == [i \in 0 .. 0 |-> 0]
    <3>1. \A i \in 0 .. 0 : v[i] = Link(v, i)
      OBVIOUS
    <3>2. v = [i \in 0 .. 0 |-> Link(v, i)]
      <4> HIDE DEF Link
      <4> QED BY <3>1
    <3> HIDE DEF v, Link
    <3> QED BY <3>2
  <2>2. ASSUME NEW m \in Nat, m \in S PROVE m + 1 \in S
    <3> SUFFICES ASSUME m + 1 <= n PROVE \E v : v = [i \in 0 .. m + 1 |-> Link(v, i)]
      OBVIOUS
    <3>1. PICK v : v = [i \in 0 .. m |-> Link(v, i)]
      BY <1>2, <2>2
    <3> DEFINE w == [i \in 0 .. m + 1 |-> IF i = m + 1 THEN Next(v[m], m + 1) ELSE v[i]]
    <3>2. \A i \in 0 .. m + 1 : w[i] = Link(w, i)
      <4> SUFFICES ASSUME NEW i \in 0 .. m + 1 PROVE w[i] = Link(w, i)
        OBVIOUS
      <4> HIDE DEF Next
      <4>1. CASE i = m + 1
        <5>1. w[i] = Next(v[m], m + 1) /\ w[i - 1] = v[m] /\ i # 0
          BY <4>1
        <5> HIDE DEF w
        <5> QED BY <4>1, <5>1
      <4>2. CASE i # m + 1
        <5>1. i \in 0 .. m /\ w[i] = v[i] /\ (i # 0 => w[i - 1] = v[i - 1])
          BY <4>2
        <5>2. v[i] = Link(v, i)
          <6> HIDE DEF Link, w
          <6> QED BY <3>1, <5>1
        <5> HIDE DEF w
        <5> QED BY <5>1, <5>2
      <4> QED BY <4>1, <4>2
    <3>3. w = [i \in 0 .. m + 1 |-> Link(w, i)]
      <4> HIDE DEF Link
      <4> QED BY <3>2
    <3> HIDE DEF w, Link
    <3> QED BY <3>3
  <2>3. \A m \in Nat : m \in S
    <3> HIDE DEF S
    <3> QED BY <2>1, <2>2, InductionOverNat
  <2> QED BY <1>2, <2>3
<1>4. lead = [i \in 0 .. n |-> Link(lead, i)]
  <2> HIDE DEF Link
  <2> QED BY <1>3
<1> HIDE DEF lead
<1>5. lead[0] = 0 /\ \A i \in 1 .. n : lead[i] = Next(lead[i - 1], i)
  <2>1. 0 \in 0 .. n /\ \A i \in 1 .. n : i \in 0 .. n /\ i # 0
    BY <1>2
  <2>2. \A i \in 0 .. n : lead[i] = Link(lead, i)
    <3> HIDE DEF Link
    <3> QED BY <1>4
  <2> QED BY <2>1, <2>2
<1>6. DOMAIN lead = 0 .. n
  <2> HIDE DEF Link
  <2> QED BY <1>4
<1> QED BY <1>1, <1>5, <1>6

(* The sequence that begins at first is open after the byte at i. *)
Unfinished(bytes, first, i) ==
    /\ first \in 1 .. i
    /\ Expects(bytes[first]) > 0 /\ i < first + Expects(bytes[first])
    /\ \A k \in first + 1 .. i : IsTail(bytes[k])
    /\ \A j \in 1 .. first - 1 : InSequence(bytes, j)

(* No sequence is open after the byte at i. *)
Finished(bytes, i) ==
    /\ \A j \in 1 .. i : InSequence(bytes, j)
    /\ \A j \in 1 .. i : Expects(bytes[j]) > 0 /\ (\A k \in j + 1 .. i : IsTail(bytes[k]))
          => j + Expects(bytes[j]) <= i

(* As long as it does not raise, the decoder knows the sequence that is open. *)
LEMMA DecoderStep ==
    ASSUME NEW bytes \in Seq(Bytes), NEW i \in 1 .. Len(bytes), i \notin Raises(bytes, Open(bytes)),
           LET first == Open(bytes)[i - 1]
           IN IF first = 0 THEN Finished(bytes, i - 1) ELSE Unfinished(bytes, first, i - 1)
    PROVE  LET first == Open(bytes)[i]
           IN IF first = 0 THEN Finished(bytes, i) ELSE Unfinished(bytes, first, i)
<1> DEFINE lead == Open(bytes)
           before == lead[i - 1]
<1>1. /\ Len(bytes) \in Nat /\ DOMAIN bytes = 1 .. Len(bytes) /\ i \in DOMAIN bytes /\ i \in Nat
      /\ i - 1 \in Nat /\ bytes[i] \in Bytes
  BY LenProperties, ElementOfSeq
<1>2. IF before = 0 THEN ~IsTail(bytes[i]) /\ bytes[i] # "never" ELSE IsTail(bytes[i])
  BY <1>1 DEF Raises
<1>3. lead[i] = IF before = 0 THEN IF Expects(bytes[i]) > 0 THEN i ELSE 0
                ELSE IF i = before + Expects(bytes[before]) THEN 0 ELSE before
  BY <1>1, OpenIsCounted
<1>4. IF before = 0 THEN Finished(bytes, i - 1) ELSE Unfinished(bytes, before, i - 1)
  OBVIOUS
<1> HIDE DEF lead
<1>5. \A b : Expects(b) \in Nat /\ (Expects(b) > 0 <=> b \in {"lead2", "lead3"}) /\ (IsTail(b) => Expects(b) = 0)
  BY ExpectsTyped
<1>6. CASE before = 0 /\ Expects(bytes[i]) > 0
  <2>1. lead[i] = i /\ i # 0
    BY <1>1, <1>3, <1>6
  <2>2. \A j \in 1 .. i - 1 : InSequence(bytes, j)
    BY <1>4, <1>6 DEF Finished
  <2>3. Unfinished(bytes, i, i)
    BY <1>1, <1>5, <1>6, <2>2 DEF Unfinished
  <2> QED BY <2>1, <2>3 DEF lead
<1>7. CASE before = 0 /\ ~(Expects(bytes[i]) > 0)
  <2>1. lead[i] = 0
    BY <1>3, <1>7
  <2>2. bytes[i] \in {"ascii", "newline"} /\ ~IsTail(bytes[i])
    BY <1>1, <1>2, <1>5, <1>7 DEF Bytes, IsTail
  <2>3. \A j \in 1 .. i : InSequence(bytes, j)
    <3>1. InSequence(bytes, i)
      BY <2>2 DEF InSequence
    <3>2. \A j \in 1 .. i - 1 : InSequence(bytes, j)
      BY <1>4, <1>7 DEF Finished
    <3>3. \A j \in 1 .. i : j = i \/ j \in 1 .. i - 1
      BY <1>1
    <3> QED BY <3>1, <3>2, <3>3
  <2>4. ASSUME NEW j \in 1 .. i, Expects(bytes[j]) > 0, \A k \in j + 1 .. i : IsTail(bytes[k])
        PROVE  FALSE
    <3>1. j # i
      BY <1>7, <2>4
    <3>2. i \in j + 1 .. i
      BY <1>1, <3>1
    <3> QED BY <2>2, <2>4, <3>2
  <2>5. Finished(bytes, i)
    BY <2>3, <2>4 DEF Finished
  <2> QED BY <2>1, <2>5 DEF lead
<1>8. CASE before # 0
  <2>1. /\ IsTail(bytes[i]) /\ before \in 1 .. i - 1 /\ before \in Nat
        /\ Expects(bytes[before]) > 0 /\ i - 1 < before + Expects(bytes[before])
        /\ \A k \in before + 1 .. i - 1 : IsTail(bytes[k])
        /\ \A j \in 1 .. before - 1 : InSequence(bytes, j)
    <3>1. Unfinished(bytes, before, i - 1) /\ IsTail(bytes[i])
      BY <1>2, <1>4, <1>8
    <3> HIDE DEF before
    <3> QED BY <1>1, <3>1 DEF Unfinished
  <2> HIDE DEF before
  <2>2. \A k \in before + 1 .. i : IsTail(bytes[k])
    <3>1. \A k \in before + 1 .. i : k = i \/ k \in before + 1 .. i - 1
      BY <1>1, <2>1
    <3> QED BY <2>1, <3>1
  <2>3. Expects(bytes[before]) \in Nat
    BY <1>5
  <2>4. CASE i = before + Expects(bytes[before])
    <3>1. lead[i] = 0
      BY <1>3, <1>8, <2>4
    <3>2. \A j \in 1 .. i : InSequence(bytes, j)
      <4>1. InSequence(bytes, before)
        <5>1. \A k \in 1 .. Expects(bytes[before]) : before + k \in before + 1 .. i /\ before + k \in DOMAIN bytes
          BY <1>1, <2>1, <2>3, <2>4
        <5> QED BY <2>1, <2>2, <5>1 DEF InSequence
      <4>2. ASSUME NEW j \in before + 1 .. i PROVE InSequence(bytes, j)
        <5>1. IsTail(bytes[j]) /\ before \in 1 .. j - 1 /\ j - before <= Expects(bytes[before])
          BY <1>1, <2>1, <2>2, <2>3, <2>4
        <5>2. \A k \in before + 1 .. j : IsTail(bytes[k])
          BY <1>1, <2>1, <2>2
        <5> QED BY <5>1, <5>2 DEF InSequence
      <4>3. \A j \in 1 .. i : j \in 1 .. before - 1 \/ j = before \/ j \in before + 1 .. i
        BY <1>1, <2>1
      <4> QED BY <2>1, <4>1, <4>2, <4>3
    <3>3. ASSUME NEW j \in 1 .. i, Expects(bytes[j]) > 0, \A k \in j + 1 .. i : IsTail(bytes[k])
          PROVE  j + Expects(bytes[j]) <= i
      <4>1. ~IsTail(bytes[j]) /\ ~IsTail(bytes[before])
        BY <1>5, <2>1, <3>3
      <4>2. ~(j \in before + 1 .. i)
        BY <2>2, <4>1
      <4>3. ~(before \in j + 1 .. i)
        BY <3>3, <4>1
      <4>4. j = before
        BY <1>1, <2>1, <4>2, <4>3
      <4> QED BY <2>3, <2>4, <4>4
    <3>4. Finished(bytes, i)
      BY <3>2, <3>3 DEF Finished
    <3> QED BY <3>1, <3>4 DEF lead
  <2>5. CASE i # before + Expects(bytes[before])
    <3>1. lead[i] = before /\ before # 0
      BY <1>3, <1>8, <2>5
    <3>2. before \in 1 .. i /\ i < before + Expects(bytes[before])
      BY <1>1, <2>1, <2>3, <2>5
    <3>3. Unfinished(bytes, before, i)
      BY <2>1, <2>2, <3>2 DEF Unfinished
    <3> QED BY <3>1, <3>3 DEF lead
  <2> QED BY <2>4, <2>5
<1> QED BY <1>6, <1>7, <1>8

LEMMA DecoderIsRight ==
    ASSUME NEW bytes \in Seq(Bytes), NEW n \in 0 .. Len(bytes),
           \A i \in 1 .. n : i \notin Raises(bytes, Open(bytes))
    PROVE  LET first == Open(bytes)[n]
           IN IF first = 0 THEN Finished(bytes, n) ELSE Unfinished(bytes, first, n)
<1> DEFINE Right(i) == LET first == Open(bytes)[i]
                       IN IF first = 0 THEN Finished(bytes, i) ELSE Unfinished(bytes, first, i)
           S == {i \in Nat : i <= n => Right(i)}
<1>1. Len(bytes) \in Nat /\ n \in Nat
  BY LenProperties
<1>2. 0 \in S
  <2>1. Open(bytes)[0] = 0
    BY OpenIsCounted
  <2>2. Finished(bytes, 0)
    BY DEF Finished
  <2> QED BY <2>1, <2>2
<1>3. ASSUME NEW i \in Nat, i \in S PROVE i + 1 \in S
  <2> SUFFICES ASSUME i + 1 <= n PROVE Right(i + 1)
    OBVIOUS
  <2>1. i + 1 \in 1 .. Len(bytes) /\ (i + 1) - 1 = i /\ i + 1 \in 1 .. n
    BY <1>1
  <2>2. Right(i)
    BY <1>1, <1>3
  <2>3. Right((i + 1) - 1)
    BY <2>1, <2>2
  <2> QED BY <2>1, <2>3, DecoderStep
<1>4. \A i \in Nat : i \in S
  <2> HIDE DEF S
  <2> QED BY <1>2, <1>3, InductionOverNat
<1> QED BY <1>1, <1>4

(* The line feeds of a stretch. *)
LEMMA NewlinesTyped ==
    ASSUME NEW text \in Seq(Bytes)
    PROVE  Newlines(text) \in Nat
<1>1. DOMAIN text = 1 .. Len(text) /\ Len(text) \in Nat
  BY LenProperties
<1>2. IsFiniteSet(1 .. Len(text)) /\ {i \in DOMAIN text : text[i] = "newline"} \in SUBSET (1 .. Len(text))
  BY <1>1, FS_Interval
<1> QED BY <1>2, FS_Subset, FS_CardinalityType DEF Newlines

LEMMA NewlinesAppend ==
    ASSUME NEW text \in Seq(Bytes), NEW b \in Bytes
    PROVE  Newlines(Append(text, b)) = Newlines(text) + (IF b = "newline" THEN 1 ELSE 0)
<1> DEFINE n == Len(text)
           Of(s) == {i \in DOMAIN s : s[i] = "newline"}
           longer == Append(text, b)
<1>1. /\ n \in Nat /\ DOMAIN text = 1 .. n /\ DOMAIN longer = 1 .. n + 1 /\ longer[n + 1] = b
      /\ \A i \in 1 .. n : longer[i] = text[i]
  BY AppendProperties, LenProperties
<1>2. IsFiniteSet(Of(text)) /\ Cardinality(Of(text)) \in Nat
  <2>1. IsFiniteSet(1 .. n) /\ Of(text) \in SUBSET (1 .. n)
    BY <1>1, FS_Interval
  <2> QED BY <2>1, FS_Subset, FS_CardinalityType
<1>3. Newlines(text) = Cardinality(Of(text)) /\ Newlines(longer) = Cardinality(Of(longer))
  BY DEF Newlines
<1>4. CASE b = "newline"
  <2>1. Of(longer) = Of(text) \cup {n + 1} /\ n + 1 \notin Of(text)
    <3> HIDE DEF longer, n
    <3> QED BY <1>1, <1>4
  <2>2. Cardinality(Of(longer)) = Cardinality(Of(text)) + 1
    <3> HIDE DEF Of, longer, n
    <3> QED BY <1>2, <2>1, FS_AddElement
  <2> QED BY <1>3, <1>4, <2>2
<1>5. CASE b # "newline"
  <2>1. Of(longer) = Of(text)
    <3> HIDE DEF longer, n
    <3> QED BY <1>1, <1>5
  <2> HIDE DEF Of, longer
  <2>2. Newlines(text) \in Nat
    BY NewlinesTyped
  <2>3. Newlines(longer) = Newlines(text)
    BY <1>3, <2>1
  <2> QED BY <1>5, <2>2, <2>3 DEF longer
<1> QED BY <1>4, <1>5

LEMMA NewlinesOfNothing == Newlines(<<>>) = 0
<1>1. {i \in DOMAIN <<>> : <<>>[i] = "newline"} = {}
  OBVIOUS
<1> QED BY <1>1, FS_EmptySet, Zenon DEF Newlines

(* A stretch grows by the byte after it. *)
LEMMA StretchGrows ==
    ASSUME NEW bytes \in Seq(Bytes), NEW from \in Nat \ {0}, NEW i \in Nat, from <= i + 1, i + 1 <= Len(bytes)
    PROVE  /\ SubSeq(bytes, from, i) \in Seq(Bytes)
           /\ SubSeq(bytes, from, i + 1) = Append(SubSeq(bytes, from, i), bytes[i + 1])
           /\ bytes[i + 1] \in Bytes
<1> DEFINE left == SubSeq(bytes, from, i)
           whole == SubSeq(bytes, from, i + 1)
           more == Append(left, bytes[i + 1])
<1>1. Len(bytes) \in Nat /\ DOMAIN bytes = 1 .. Len(bytes) /\ i + 1 \in 1 .. Len(bytes)
      /\ \A j \in 1 .. Len(bytes) : bytes[j] \in Bytes
  BY LenProperties, ElementOfSeq
<1>2. \A j \in from .. i + 1 : j \in 1 .. Len(bytes)
  BY <1>1
<1>3. left = [k \in 1 .. i + 1 - from |-> bytes[from + k - 1]]
      /\ whole = [k \in 1 .. i + 2 - from |-> bytes[from + k - 1]]
  BY <1>1
<1>4. /\ left \in Seq(Bytes) /\ Len(left) = i + 1 - from
      /\ \A k \in 1 .. i + 1 - from : left[k] = bytes[from + k - 1]
  BY <1>1, <1>2, SubSeqProperties
<1>5. /\ whole \in Seq(Bytes) /\ Len(whole) = i + 2 - from
      /\ \A k \in 1 .. i + 2 - from : whole[k] = bytes[from + k - 1]
  BY <1>1, <1>2, SubSeqProperties
<1> HIDE DEF left, whole
<1>6. /\ more \in Seq(Bytes) /\ Len(more) = i + 2 - from
      /\ \A k \in 1 .. i + 1 - from : more[k] = left[k]
      /\ more[i + 2 - from] = bytes[i + 1]
  <2>1. Len(left) + 1 = i + 2 - from
    BY <1>4
  <2> QED BY <1>1, <1>4, <2>1, AppendProperties
<1> HIDE DEF more
<1>7. \A k \in 1 .. i + 2 - from : more[k] = whole[k]
  <2> SUFFICES ASSUME NEW k \in 1 .. i + 2 - from PROVE more[k] = whole[k]
    OBVIOUS
  <2>1. CASE k \in 1 .. i + 1 - from
    BY <1>4, <1>5, <1>6, <2>1
  <2>2. CASE k = i + 2 - from
    BY <1>5, <1>6, <2>2
  <2> QED BY <2>1, <2>2
<1>8. more = whole
  BY <1>5, <1>6, <1>7, SeqEqual
<1> QED BY <1>1, <1>4, <1>8 DEF left, whole, more

LEMMA NewlinesGrow ==
    ASSUME NEW bytes \in Seq(Bytes), NEW from \in Nat \ {0}, NEW i \in Nat, from <= i + 1, i + 1 <= Len(bytes)
    PROVE  Newlines(SubSeq(bytes, from, i + 1))
             = Newlines(SubSeq(bytes, from, i)) + (IF bytes[i + 1] = "newline" THEN 1 ELSE 0)
<1> DEFINE left == SubSeq(bytes, from, i)
           b == bytes[i + 1]
<1>1. left \in Seq(Bytes) /\ SubSeq(bytes, from, i + 1) = Append(left, b) /\ b \in Bytes
  BY StretchGrows
<1> HIDE DEF left, b
<1>2. Newlines(Append(left, b)) = Newlines(left) + (IF b = "newline" THEN 1 ELSE 0)
  BY <1>1, NewlinesAppend
<1> QED BY <1>1, <1>2 DEF left, b

LEMMA NothingBetween ==
    ASSUME NEW bytes \in Seq(Bytes), NEW from \in Nat, NEW to \in Int, to < from
    PROVE  SubSeq(bytes, from, to) = <<>>
  OBVIOUS

(* The lines of two stretches, one after the other. *)
LEMMA NewlinesAdd ==
    ASSUME NEW bytes \in Seq(Bytes), NEW p \in Nat, NEW q \in Nat, p <= q, q <= Len(bytes)
    PROVE  Newlines(SubSeq(bytes, 1, p)) + Newlines(SubSeq(bytes, p + 1, q)) = Newlines(SubSeq(bytes, 1, q))
<1> DEFINE Up(i) == Newlines(SubSeq(bytes, 1, i))
           From(i) == Newlines(SubSeq(bytes, p + 1, i))
           S == {i \in Nat : p <= i /\ i <= Len(bytes) =>
                                Up(i) \in Nat /\ From(i) \in Nat /\ Up(p) + From(i) = Up(i)}
<1>0. Len(bytes) \in Nat
  BY LenProperties
<1>1. 0 \in S
  <2> SUFFICES ASSUME p = 0 PROVE Up(0) \in Nat /\ From(0) \in Nat /\ Up(p) + From(0) = Up(0)
    OBVIOUS
  <2>1. SubSeq(bytes, 1, 0) = <<>> /\ SubSeq(bytes, p + 1, 0) = <<>>
    BY NothingBetween
  <2>2. Up(0) = 0 /\ From(0) = 0 /\ Up(p) = Up(0)
    BY <2>1, NewlinesOfNothing
  <2> HIDE DEF Up, From
  <2> QED BY <2>2
<1>2. ASSUME NEW i \in Nat, i \in S PROVE i + 1 \in S
  <2> SUFFICES ASSUME p <= i + 1, i + 1 <= Len(bytes)
               PROVE  Up(i + 1) \in Nat /\ From(i + 1) \in Nat /\ Up(p) + From(i + 1) = Up(i + 1)
    OBVIOUS
  <2>0. Up(i) \in Nat /\ Up(i + 1) = Up(i) + (IF bytes[i + 1] = "newline" THEN 1 ELSE 0)
    <3>1. 1 \in Nat \ {0} /\ 1 <= i + 1
      OBVIOUS
    <3>2. Up(i + 1) = Up(i) + (IF bytes[i + 1] = "newline" THEN 1 ELSE 0)
      BY <3>1, NewlinesGrow
    <3>3. SubSeq(bytes, 1, i) \in Seq(Bytes)
      BY <3>1, StretchGrows
    <3>4. Up(i) \in Nat
      BY <3>3, NewlinesTyped
    <3> HIDE DEF Up
    <3> QED BY <3>2, <3>4
  <2>1. CASE p <= i
    <3>1. Up(i) \in Nat /\ From(i) \in Nat /\ Up(p) + From(i) = Up(i) /\ Up(p) \in Nat
      <4>1. Up(p) \in Nat
        <5>1. SubSeq(bytes, 1, p) \in Seq(Bytes)
          BY <1>0, SubSeqProperties, LenProperties, ElementOfSeq
        <5> QED BY <5>1, NewlinesTyped
      <4> QED BY <1>0, <1>2, <2>1, <4>1
    <3>2. From(i + 1) = From(i) + (IF bytes[i + 1] = "newline" THEN 1 ELSE 0)
      BY <2>1, NewlinesGrow
    <3> HIDE DEF Up, From
    <3> QED BY <2>0, <3>1, <3>2, SMTT(30)
  <2>2. CASE p = i + 1
    <3>1. SubSeq(bytes, p + 1, i + 1) = <<>>
      BY <2>2, NothingBetween
    <3>2. From(i + 1) = 0
      BY <3>1, NewlinesOfNothing
    <3> HIDE DEF Up, From
    <3> QED BY <2>0, <2>2, <3>2
  <2> QED BY <2>1, <2>2
<1>3. \A i \in Nat : i \in S
  <2> HIDE DEF S
  <2> QED BY <1>1, <1>2, InductionOverNat
<1> QED BY <1>3

LEMMA PrefixesTyped ==
    ASSUME NEW bytes \in Seq(Bytes), NEW p \in Nat, p <= Len(bytes)
    PROVE  Newlines(SubSeq(bytes, 1, p)) \in Nat
<1>1. SubSeq(bytes, 1, p) \in Seq(Bytes)
  BY SubSeqProperties, LenProperties, ElementOfSeq
<1> QED BY <1>1, NewlinesTyped

(* A stretch without line feeds changes no line. *)
LEMMA SameLine ==
    ASSUME NEW bytes \in Seq(Bytes), NEW p \in Nat, NEW q \in Nat, p <= q, q <= Len(bytes),
           \A k \in p + 1 .. q : bytes[k] # "newline"
    PROVE  Newlines(SubSeq(bytes, 1, q)) = Newlines(SubSeq(bytes, 1, p))
<1> DEFINE between == SubSeq(bytes, p + 1, q)
<1>1. Len(bytes) \in Nat /\ \A j \in 1 .. Len(bytes) : bytes[j] \in Bytes
  BY LenProperties, ElementOfSeq
<1>2. \A j \in p + 1 .. q : j \in 1 .. Len(bytes)
  BY <1>1
<1>3. /\ between \in Seq(Bytes) /\ Len(between) = q - p
      /\ \A k \in 1 .. q - p : between[k] = bytes[p + 1 + k - 1]
  BY <1>1, <1>2, SubSeqProperties
<1>4. DOMAIN between = 1 .. q - p
  BY <1>3, LenProperties
<1> HIDE DEF between
<1>5. \A k \in 1 .. q - p : between[k] # "newline"
  BY <1>3
<1>6. {k \in DOMAIN between : between[k] = "newline"} = {}
  BY <1>4, <1>5
<1>7. Newlines(between) = 0
  BY <1>6, FS_EmptySet DEF Newlines
<1>8. Newlines(SubSeq(bytes, 1, p)) + Newlines(between) = Newlines(SubSeq(bytes, 1, q))
  BY NewlinesAdd DEF between
<1>9. Newlines(SubSeq(bytes, 1, p)) \in Nat
  BY <1>1, PrefixesTyped
<1> QED BY <1>7, <1>8, <1>9

LEMMA FirstInvalid ==
    ASSUME NEW bytes \in Seq(Bytes), NEW at \in 1 .. Len(bytes), ~InSequence(bytes, at),
           \A j \in 1 .. at - 1 : InSequence(bytes, j)
    PROVE  InvalidAt(bytes) # {} /\ FirstInvalidLine(bytes) = 1 + Newlines(SubSeq(bytes, 1, at - 1))
<1> DEFINE first == CHOOSE i \in InvalidAt(bytes) : \A j \in InvalidAt(bytes) : i <= j
<1>1. DOMAIN bytes = 1 .. Len(bytes) /\ Len(bytes) \in Nat
  BY LenProperties
<1>2. at \in InvalidAt(bytes) /\ \A j \in InvalidAt(bytes) : j \in 1 .. Len(bytes) /\ at <= j
  BY <1>1 DEF InvalidAt
<1>3. first \in InvalidAt(bytes) /\ \A j \in InvalidAt(bytes) : first <= j
  BY <1>2
<1> HIDE DEF first
<1>4. first = at
  BY <1>1, <1>2, <1>3
<1> QED BY <1>2, <1>4 DEF FirstInvalidLine, first

(* A sequence that is open and does not go on is invalid from its first byte. *)
LEMMA UnfinishedIsInvalid ==
    ASSUME NEW bytes \in Seq(Bytes), NEW n \in 0 .. Len(bytes), NEW first, Unfinished(bytes, first, n),
           n + 1 \in DOMAIN bytes => ~IsTail(bytes[n + 1])
    PROVE  /\ InvalidAt(bytes) # {}
           /\ FirstInvalidLine(bytes) = 1 + Newlines(SubSeq(bytes, 1, first - 1))
           /\ Newlines(SubSeq(bytes, 1, n)) = Newlines(SubSeq(bytes, 1, first - 1))
<1>1. DOMAIN bytes = 1 .. Len(bytes) /\ Len(bytes) \in Nat /\ n \in Nat
  BY LenProperties
<1>2. /\ first \in 1 .. n /\ Expects(bytes[first]) > 0 /\ n < first + Expects(bytes[first])
      /\ \A k \in first + 1 .. n : IsTail(bytes[k])
      /\ \A j \in 1 .. first - 1 : InSequence(bytes, j)
  BY DEF Unfinished
<1>3. first \in 1 .. Len(bytes) /\ first \in Nat /\ first - 1 \in Nat /\ first - 1 <= n /\ n <= Len(bytes)
  BY <1>1, <1>2
<1>4. bytes[first] \in {"lead2", "lead3"} /\ ~IsTail(bytes[first]) /\ Expects(bytes[first]) \in Nat
  BY <1>2, ExpectsTyped
<1>5. ~InSequence(bytes, first)
  <2> DEFINE k == n + 1 - first
  <2>1. k \in 1 .. Expects(bytes[first]) /\ first + k = n + 1
    BY <1>1, <1>2, <1>3, <1>4
  <2>2. bytes[first] \notin {"ascii", "newline"}
    BY <1>4
  <2> HIDE DEF k
  <2> QED BY <1>4, <2>1, <2>2 DEF InSequence
<1>6. \A k \in (first - 1) + 1 .. n : bytes[k] # "newline"
  <2>1. \A k \in (first - 1) + 1 .. n : k = first \/ k \in first + 1 .. n
    BY <1>1, <1>3
  <2> QED BY <1>2, <1>4, <2>1 DEF IsTail
<1>7. Newlines(SubSeq(bytes, 1, n)) = Newlines(SubSeq(bytes, 1, first - 1))
  BY <1>3, <1>1, <1>6, SameLine
<1> QED BY <1>2, <1>3, <1>5, <1>7, FirstInvalid

LEMMA BlocksCover ==
    ASSUME NEW i \in Nat, NEW size \in Nat \ {0}
    PROVE  /\ i \div size \in Nat /\ (i \div size) * size \in Nat /\ (i \div size) * size <= i
           /\ i < ((i \div size) + 1) * size
<1>1. i \div size \in Int /\ i = size * (i \div size) + (i % size) /\ i % size \in 0 .. size - 1
  OBVIOUS
<1>2. i \div size \in Nat
  BY SMTT(30)
<1> DEFINE d == i \div size
<1> HIDE DEF d
<1>3. d \in Nat /\ i = size * d + (i % size) /\ i % size \in 0 .. size - 1
  BY <1>1, <1>2 DEF d
<1>4. d * size \in Nat /\ size * d = d * size /\ (d + 1) * size = d * size + size
  BY <1>3
<1> QED BY <1>3, <1>4 DEF d

LEMMA BlocksGrow ==
    ASSUME NEW i \in Nat, NEW j \in Nat, i <= j, NEW size \in Nat \ {0}
    PROVE  i \div size <= j \div size
<1> DEFINE a == i \div size
           b == j \div size
<1>1. a \in Nat /\ b \in Nat /\ a * size <= i /\ j < (b + 1) * size
  BY BlocksCover
<1> HIDE DEF a, b
<1>2. ASSUME b + 1 <= a PROVE FALSE
  <2>1. (b + 1) * size <= a * size
    BY <1>1, <1>2
  <2>2. (b + 1) * size \in Nat /\ a * size \in Nat
    BY <1>1
  <2> QED BY <1>1, <2>1, <2>2
<1>3. a <= b
  BY <1>1, <1>2
<1> QED BY <1>3 DEF a, b

(* check_utf8: nothing when the file is UTF-8, else the line of its first bad byte. *)
LEMMA CheckIsExact ==
    ASSUME NEW bytes \in Seq(Bytes), NEW size \in Nat \ {0}
    PROVE  LET line == check_utf8(bytes, size)
           IN IF InvalidAt(bytes) = {} THEN line = 0 ELSE line # 0 /\ line = FirstInvalidLine(bytes)
<1> DEFINE n == Len(bytes)
           lead == Open(bytes)
           raises == Raises(bytes, lead)
           line == check_utf8(bytes, size)
<1>1. n \in Nat /\ DOMAIN bytes = 1 .. n /\ n \in 0 .. Len(bytes)
  BY LenProperties
<1>2. raises \subseteq 1 .. n
  BY <1>1 DEF Raises
<1>3. CASE raises = {} /\ lead[n] = 0
  <2>1. line = 0
    BY <1>3 DEF check_utf8
  <2>2. Finished(bytes, n)
    BY <1>1, <1>3, DecoderIsRight
  <2>3. InvalidAt(bytes) = {}
    BY <1>1, <2>2 DEF Finished, InvalidAt
  <2> QED BY <2>1, <2>3
<1>4. CASE raises = {} /\ lead[n] # 0
  <2>1. line = 1 + Newlines(bytes)
    BY <1>4 DEF check_utf8
  <2>2. Unfinished(bytes, lead[n], n)
    BY <1>1, <1>4, DecoderIsRight
  <2>3. n + 1 \notin DOMAIN bytes
    BY <1>1
  <2>4. /\ InvalidAt(bytes) # {}
        /\ FirstInvalidLine(bytes) = 1 + Newlines(SubSeq(bytes, 1, lead[n] - 1))
        /\ Newlines(SubSeq(bytes, 1, n)) = Newlines(SubSeq(bytes, 1, lead[n] - 1))
    BY <1>1, <2>2, <2>3, UnfinishedIsInvalid
  <2>5. SubSeq(bytes, 1, n) = bytes
    BY <1>1
  <2>6. Newlines(bytes) \in Nat
    BY NewlinesTyped
  <2>7. 1 + Newlines(bytes) # 0
    BY <2>6
  <2>8. line # 0 /\ line = FirstInvalidLine(bytes)
    <3> HIDE DEF line, lead
    <3> QED BY <2>1, <2>4, <2>5, <2>7
  <2> QED BY <2>4, <2>8
<1>5. CASE raises # {}
  <2> DEFINE at == Min(raises)
             block == ((at - 1) \div size) * size
             start == IF lead[at - 1] = 0 THEN at ELSE lead[at - 1]
  <2>1. at \in raises /\ \A j \in raises : at <= j
    BY <1>2, <1>5, MinOf
  <2>2. line = 1 + Newlines(SubSeq(bytes, 1, block)) + Newlines(SubSeq(bytes, block + 1, start - 1))
    BY <1>5 DEF check_utf8
  <2> HIDE DEF at
  <2>3. /\ at \in 1 .. n /\ at \in Nat /\ at - 1 \in Nat /\ at - 1 \in 0 .. Len(bytes) /\ (at - 1) + 1 = at
        /\ \A i \in 1 .. at - 1 : i \notin raises
    BY <1>1, <1>2, <2>1
  <2>4. IF lead[at - 1] = 0 THEN IsTail(bytes[at]) \/ bytes[at] = "never" ELSE ~IsTail(bytes[at])
    BY <2>1 DEF Raises
  <2>5. IF lead[at - 1] = 0 THEN Finished(bytes, at - 1) ELSE Unfinished(bytes, lead[at - 1], at - 1)
    BY <2>3, DecoderIsRight
  <2>6. block \in Nat /\ block <= at - 1
    BY <2>3, BlocksCover
  <2> HIDE DEF block
  <2>7. start \in Nat /\ start - 1 \in Nat /\ start - 1 <= at - 1 /\ at - 1 <= Len(bytes)
        /\ InvalidAt(bytes) # {} /\ FirstInvalidLine(bytes) = 1 + Newlines(SubSeq(bytes, 1, start - 1))
        /\ Newlines(SubSeq(bytes, 1, at - 1)) = Newlines(SubSeq(bytes, 1, start - 1))
    <3>1. CASE lead[at - 1] = 0
      <4>1. start = at
        BY <3>1
      <4>2. \A j \in 1 .. at - 1 : InSequence(bytes, j)
        BY <2>5, <3>1 DEF Finished
      <4>3. ~InSequence(bytes, at)
        <5>1. bytes[at] \notin {"ascii", "newline"} /\ ~(Expects(bytes[at]) > 0)
          BY <2>4, <3>1, ExpectsTyped DEF IsTail
        <5>2. ASSUME NEW j \in 1 .. at - 1, at - j <= Expects(bytes[j]), \A k \in j + 1 .. at : IsTail(bytes[k])
              PROVE  FALSE
          <6>1. Expects(bytes[j]) \in Nat
            BY ExpectsTyped
          <6>2. Expects(bytes[j]) > 0
            BY <2>3, <5>2, <6>1
          <6>3. \A k \in j + 1 .. at - 1 : IsTail(bytes[k])
            BY <2>3, <5>2
          <6>4. j + Expects(bytes[j]) <= at - 1
            BY <2>5, <3>1, <6>2, <6>3 DEF Finished
          <6> QED BY <2>3, <5>2, <6>1, <6>4
        <5> QED BY <5>1, <5>2 DEF InSequence
      <4>4. InvalidAt(bytes) # {} /\ FirstInvalidLine(bytes) = 1 + Newlines(SubSeq(bytes, 1, at - 1))
        BY <1>1, <2>3, <4>2, <4>3, FirstInvalid
      <4> HIDE DEF start
      <4> QED BY <2>3, <4>1, <4>4
    <3>2. CASE lead[at - 1] # 0
      <4>1. start = lead[at - 1] /\ Unfinished(bytes, start, at - 1)
        BY <2>5, <3>2
      <4> HIDE DEF start
      <4>2. (at - 1) + 1 \in DOMAIN bytes => ~IsTail(bytes[(at - 1) + 1])
        BY <2>3, <2>4, <3>2
      <4>3. start \in 1 .. at - 1
        BY <4>1 DEF Unfinished
      <4>4. /\ InvalidAt(bytes) # {} /\ FirstInvalidLine(bytes) = 1 + Newlines(SubSeq(bytes, 1, start - 1))
            /\ Newlines(SubSeq(bytes, 1, at - 1)) = Newlines(SubSeq(bytes, 1, start - 1))
        BY <2>3, <4>1, <4>2, UnfinishedIsInvalid
      <4> QED BY <2>3, <4>3, <4>4
    <3> QED BY <3>1, <3>2
  <2> HIDE DEF start
  <2>8. Newlines(SubSeq(bytes, 1, block)) + Newlines(SubSeq(bytes, block + 1, start - 1))
          = Newlines(SubSeq(bytes, 1, start - 1))
        /\ Newlines(SubSeq(bytes, 1, start - 1)) \in Nat /\ Newlines(SubSeq(bytes, 1, block)) \in Nat
        /\ Newlines(SubSeq(bytes, block + 1, start - 1)) \in Nat
    <3>0. Newlines(SubSeq(bytes, block + 1, start - 1)) \in Nat
      <4>1. \A j \in 1 .. Len(bytes) : bytes[j] \in Bytes
        BY ElementOfSeq
      <4>2. SubSeq(bytes, block + 1, start - 1) \in Seq(Bytes)
        BY <1>1, <2>3, <2>6, <2>7, <4>1, SubSeqProperties
      <4> QED BY <4>2, NewlinesTyped
    <3>1. Newlines(SubSeq(bytes, 1, start - 1)) \in Nat /\ Newlines(SubSeq(bytes, 1, block)) \in Nat
      BY <1>1, <2>3, <2>6, <2>7, PrefixesTyped
    <3>2. CASE block <= start - 1
      <4>1. start - 1 <= Len(bytes)
        BY <1>1, <2>3, <2>7
      <4>2. Newlines(SubSeq(bytes, 1, block)) + Newlines(SubSeq(bytes, block + 1, start - 1))
              = Newlines(SubSeq(bytes, 1, start - 1))
        BY <2>6, <2>7, <3>2, <4>1, NewlinesAdd
      <4> QED BY <3>0, <3>1, <4>2
    <3>3. CASE start - 1 < block
      <4>1. SubSeq(bytes, block + 1, start - 1) = <<>>
        BY <2>6, <2>7, <3>3, NothingBetween
      <4>2. Newlines(SubSeq(bytes, 1, block)) = Newlines(SubSeq(bytes, 1, start - 1))
        <5> DEFINE N(p) == Newlines(SubSeq(bytes, 1, p))
        <5>1. /\ N(start - 1) + Newlines(SubSeq(bytes, (start - 1) + 1, block)) = N(block)
              /\ N(block) + Newlines(SubSeq(bytes, block + 1, at - 1)) = N(at - 1)
          BY <1>1, <2>3, <2>6, <2>7, <3>3, NewlinesAdd
        <5>2. /\ Newlines(SubSeq(bytes, (start - 1) + 1, block)) \in Nat
              /\ Newlines(SubSeq(bytes, block + 1, at - 1)) \in Nat
          <6>1. \A j \in 1 .. Len(bytes) : bytes[j] \in Bytes
            BY ElementOfSeq
          <6>2. /\ SubSeq(bytes, (start - 1) + 1, block) \in Seq(Bytes)
                /\ SubSeq(bytes, block + 1, at - 1) \in Seq(Bytes)
            BY <1>1, <2>3, <2>6, <2>7, <6>1, SubSeqProperties
          <6> QED BY <6>2, NewlinesTyped
        <5>3. N(at - 1) = N(start - 1) /\ N(start - 1) \in Nat /\ N(block) \in Nat
          BY <2>7, <3>1
        <5> HIDE DEF N
        <5>4. N(block) = N(start - 1)
          BY <5>1, <5>2, <5>3
        <5> QED BY <5>4 DEF N
      <4> DEFINE a == Newlines(SubSeq(bytes, 1, block))
                 b == Newlines(SubSeq(bytes, block + 1, start - 1))
                 c == Newlines(SubSeq(bytes, 1, start - 1))
      <4>3. b = 0 /\ a = c /\ a \in Nat
        BY <3>1, <4>1, <4>2, NewlinesOfNothing
      <4>4. a + b = c
        <5> HIDE DEF a, b, c
        <5> QED BY <4>3
      <4> QED BY <3>0, <3>1, <4>4
    <3>4. block <= start - 1 \/ start - 1 < block
      BY <2>6, <2>7
    <3> QED BY <3>2, <3>3, <3>4
  <2>9. line = FirstInvalidLine(bytes) /\ line # 0
    <3> DEFINE a == Newlines(SubSeq(bytes, 1, block))
               b == Newlines(SubSeq(bytes, block + 1, start - 1))
               c == Newlines(SubSeq(bytes, 1, start - 1))
    <3>1. line = 1 + a + b /\ FirstInvalidLine(bytes) = 1 + c /\ a + b = c /\ a \in Nat /\ b \in Nat /\ c \in Nat
      BY <2>2, <2>7, <2>8
    <3> HIDE DEF a, b, c, line
    <3>2. 1 + a + b = 1 + c /\ 1 + c # 0
      BY <3>1
    <3> QED BY <3>1, <3>2
  <2> QED BY <2>7, <2>9
<1> QED BY <1>3, <1>4, <1>5

(* Two bytes that look like UTF-8 are seen wherever a block ends. *)
LEMMA BlocksMissNothing ==
    ASSUME NEW bytes \in Seq(Bytes), NEW size \in Nat \ {0}
    PROVE  HasMultibyte(bytes, size)
             <=> \E i \in 1 .. (Len(bytes) - 1) : Expects(bytes[i]) > 0 /\ IsTail(bytes[i + 1])
<1> DEFINE n == Len(bytes)
           Looks(i) == Expects(bytes[i]) > 0 /\ IsTail(bytes[i + 1])
           From(block) == Max({1, block * size})
           To(block) == Min({n, (block + 1) * size}) - 1
<1>1. n \in Nat
  BY LenProperties
<1>2. HasMultibyte(bytes, size) <=> \E block \in 0 .. (n \div size) : \E i \in From(block) .. To(block) : Looks(i)
  BY DEF HasMultibyte
<1> HIDE DEF n, Looks
<1>3. ASSUME NEW block \in Nat
      PROVE  /\ block * size \in Nat /\ (block + 1) * size \in Nat
             /\ From(block) \in {1, block * size} /\ From(block) >= 1 /\ From(block) >= block * size
             /\ To(block) + 1 \in {n, (block + 1) * size}
             /\ To(block) + 1 <= n /\ To(block) + 1 <= (block + 1) * size
             /\ From(block) \in Nat /\ To(block) \in Int
  <2>1. block * size \in Nat /\ (block + 1) * size \in Nat
    OBVIOUS
  <2> DEFINE low == block * size
             high == (block + 1) * size
             b == Max({1, low})
             m == Min({n, high})
  <2> HIDE DEF low, high
  <2>2. low \in Nat /\ high \in Nat
    BY <2>1 DEF low, high
  <2>3. b \in {1, low} /\ b >= 1 /\ b >= low
    <3>1. \E x \in {1, low} : \A y \in {1, low} : x >= y
      <4>1. CASE low >= 1
        BY <2>2, <4>1
      <4>2. CASE ~(low >= 1)
        BY <2>2, <4>2
      <4> QED BY <4>1, <4>2
    <3> QED BY <3>1 DEF Max
  <2>4. m \in {n, high} /\ m <= n /\ m <= high
    <3>1. {n, high} \in SUBSET Nat /\ {n, high} # {}
      BY <1>1, <2>2
    <3>2. m \in {n, high} /\ \A y \in {n, high} : m <= y
      BY <3>1, MinOf
    <3> QED BY <3>2
  <2>5. From(block) = b /\ To(block) = m - 1
    BY DEF low, high
  <2> HIDE DEF b, m, From, To
  <2>6. m \in Nat /\ m - 1 \in Int /\ (m - 1) + 1 = m
    BY <1>1, <2>2, <2>4
  <2> QED BY <2>1, <2>2, <2>3, <2>4, <2>5, <2>6 DEF low, high
<1> HIDE DEF From, To
<1>4. ASSUME NEW block \in 0 .. (n \div size), NEW i \in From(block) .. To(block)
      PROVE  i \in 1 .. n - 1
  <2>1. block \in Nat /\ n \div size \in Nat
    BY <1>1, BlocksCover
  <2>2. From(block) >= 1 /\ To(block) + 1 <= n /\ From(block) \in Nat /\ To(block) \in Int
    BY <1>3, <2>1
  <2> QED BY <1>1, <2>2
<1>5. ASSUME NEW i \in 1 .. n - 1
      PROVE  \E block \in 0 .. (n \div size) : i \in From(block) .. To(block)
  <2> DEFINE block == i \div size
  <2>1. i \in Nat /\ i <= n
    BY <1>1
  <2>2. block \in Nat /\ block * size <= i /\ i < (block + 1) * size
    BY <2>1, BlocksCover
  <2>3. block <= n \div size /\ n \div size \in Nat
    BY <1>1, <2>1, BlocksCover, BlocksGrow
  <2> HIDE DEF block
  <2>4. From(block) <= i
    <3> DEFINE low == block * size
    <3>1. From(block) \in {1, low} /\ low <= i /\ low \in Nat
      BY <1>3, <2>2
    <3> HIDE DEF low
    <3> QED BY <2>1, <3>1
  <2>5. i <= To(block)
    <3>1. To(block) + 1 \in {n, (block + 1) * size} /\ To(block) \in Int /\ (block + 1) * size \in Nat
      BY <1>3, <2>2
    <3> DEFINE high == (block + 1) * size
    <3>2. i < high /\ high \in Nat /\ To(block) + 1 \in {n, high}
      BY <2>2, <3>1
    <3> HIDE DEF high
    <3> QED BY <1>1, <3>1, <3>2
  <2>6. From(block) \in Nat /\ To(block) \in Int
    BY <1>3, <2>2
  <2>7. i \in From(block) .. To(block) /\ block \in 0 .. (n \div size)
    BY <2>1, <2>2, <2>3, <2>4, <2>5, <2>6
  <2> QED BY <2>7
<1>6. HasMultibyte(bytes, size) <=> \E i \in 1 .. n - 1 : Looks(i)
  BY <1>2, <1>4, <1>5
<1> QED BY <1>6 DEF n, Looks

(* detect_encoding, for every file and every size of a block. *)
DetectsExactly(bytes, found) ==
    LET looks == \E i \in 1 .. (Len(bytes) - 1) : Expects(bytes[i]) > 0 /\ IsTail(bytes[i + 1])
    IN IF InvalidAt(bytes) = {} THEN found.encoding = "utf-8"
       ELSE IF looks \/ "tail_undefined" \in Range(bytes)
            THEN found = [encoding |-> "rejected", line |-> FirstInvalidLine(bytes)]
            ELSE found.encoding = "cp1252"

LEMMA DetectionIsExact ==
    ASSUME NEW bytes \in Seq(Bytes), NEW size \in Nat \ {0}
    PROVE  DetectsExactly(bytes, detect_encoding(bytes, size))
<1> DEFINE line == check_utf8(bytes, size)
           looks == \E i \in 1 .. (Len(bytes) - 1) : Expects(bytes[i]) > 0 /\ IsTail(bytes[i + 1])
           undefined == "tail_undefined" \in Range(bytes)
<1>1. IF InvalidAt(bytes) = {} THEN line = 0 ELSE line # 0 /\ line = FirstInvalidLine(bytes)
  BY CheckIsExact
<1>2. HasMultibyte(bytes, size) <=> looks
  BY BlocksMissNothing
<1>3. undefined <=> \E i \in DOMAIN bytes : bytes[i] = "tail_undefined"
  BY DEF Range
<1>4. detect_encoding(bytes, size) =
        CASE line = 0 -> [encoding |-> "utf-8", line |-> 0]
          [] line # 0 /\ (looks \/ undefined) -> [encoding |-> "rejected", line |-> line]
          [] OTHER -> [encoding |-> "cp1252", line |-> 0]
  <2> HIDE DEF looks, undefined
  <2> QED BY <1>2, <1>3 DEF detect_encoding
<1> DEFINE found == detect_encoding(bytes, size)
<1>5. IF InvalidAt(bytes) = {} THEN found.encoding = "utf-8"
      ELSE IF looks \/ undefined THEN found = [encoding |-> "rejected", line |-> FirstInvalidLine(bytes)]
      ELSE found.encoding = "cp1252"
  <2> HIDE DEF line, looks, undefined, found
  <2>1. found = CASE line = 0 -> [encoding |-> "utf-8", line |-> 0]
                  [] line # 0 /\ (looks \/ undefined) -> [encoding |-> "rejected", line |-> line]
                  [] OTHER -> [encoding |-> "cp1252", line |-> 0]
    BY <1>4 DEF found
  <2> QED BY <1>1, <2>1
<1> HIDE DEF found
<1> QED BY <1>5 DEF DetectsExactly, found

-------------------------------------------------------------------------------
(* The requests, and the CSV load in progress. *)

(* A request that waits to load a CSV has a file of the workload. *)
Waiting(request) ==
    \/ request \in [pc : {"idle", "wait", "validate", "register", "report", "rows"},
                    op : {"none"} \cup Operations, number : Nat]
    \/ /\ request = [pc |-> "load", op |-> request.op, number |-> request.number,
                     file |-> request.file, detected |-> request.detected]
       /\ request.file \in workload.csv
       /\ request.detected = detect_encoding(request.file.bytes, request.file.size)

ClientsInv ==
    /\ client = [c \in Client |-> client[c]]
    /\ \A c \in Client : Waiting(client[c])

Loads(files) ==
    [pc : {"none", "rows", "raised", "done"}, file : files \cup {NoFile}, at : Nat, line : Nat,
     mapping : Seq(Nat), inserted : Nat, failed : Nat, errors : Seq(Nat), wrote : SUBSET Int]

(* The rows that were read and are not blank. *)
RowsRead(load) == {i \in DOMAIN load.file.rows : load.file.rows[i].kind # "blank" /\ i < load.at}

(* What the report of a load says of the rows before the next one. *)
Account(load) ==
    LET rows == load.file.rows
    IN  /\ load.file \in workload.csv
        /\ load.mapping # <<>> /\ load.mapping = match_header(load.file.header, Columns)
        /\ load.at \in 1 .. Len(rows) + 1
        /\ load.pc = "rows" => load.line = LineOf(load.file, load.at)
        /\ load.pc # "raised" =>
              /\ load.inserted + load.failed = Cardinality(RowsRead(load))
              /\ load.file.atomic => load.failed = 0
              /\ Len(load.errors) = Least(load.failed, MaxErrors)
        /\ load.pc = "done" => load.at = Len(rows) + 1
        /\ \A e \in DOMAIN load.errors : \E i \in DOMAIN rows :
              /\ load.errors[e] = LineOf(load.file, i)
              /\ rows[i].kind \in {"value", "unconvertible", "malformed"}

(* The rows an atomic load that raised had written are gone. *)
Undone ==
    csv.pc = "raised" /\ csv.file.atomic =>
        \A id \in csv.wrote : id \notin DOMAIN table.rows \/ table.rows[id] # Csv

CsvInv ==
    /\ csv \in Loads(workload.csv)
    /\ csv.pc = "none" => csv.errors = <<>>
    /\ csv.pc # "none" => Account(csv)
    /\ Undone

LEMMA FilesTyped ==
    ASSUME JobsInv
    PROVE  workload.csv \subseteq Files
BY WorkloadAssumption DEF JobsInv, JobsTyped, Files, ColumnNames

LEMMA RequestsInitially == HttpInit => ClientsInv /\ CsvInv
<1> SUFFICES ASSUME HttpInit PROVE ClientsInv /\ CsvInv
  OBVIOUS
<1>1. client = [c \in Client |-> NoRequest] /\ csv = NoLoad
  BY DEF HttpInit
<1>2. ClientsInv
  BY <1>1 DEF ClientsInv, Waiting, NoRequest, NoJob
<1>3. NoLoad.pc = "none" /\ NoLoad.errors = <<>>
  BY DEF NoLoad
<1>4. NoLoad \in Loads(workload.csv)
  <2>1. <<>> \in Seq(Nat)
    BY EmptySeq
  <2> QED BY <2>1 DEF NoLoad, Loads
<1> QED BY <1>1, <1>2, <1>3, <1>4 DEF CsvInv, Undone

LEMMA RequestMoves ==
    ASSUME ClientsInv, NEW c \in Client, NEW request, Waiting(request),
           client' = [client EXCEPT ![c] = request], workload' = workload
    PROVE  ClientsInv'
BY DEF ClientsInv, Waiting

LEMMA RequestsStay ==
    ASSUME ClientsInv, client' = client, workload' = workload
    PROVE  ClientsInv'
BY DEF ClientsInv, Waiting

LEMMA ClientsStep == JobsInv /\ ClientsInv /\ [HttpNext]_vars => ClientsInv'
<1> SUFFICES ASSUME JobsInv, ClientsInv, [HttpNext]_vars PROVE ClientsInv'
  OBVIOUS
<1>1. Waiting(NoRequest) /\ \A c \in Client : Waiting(client[c])
  BY DEF ClientsInv, Waiting, NoRequest, NoJob
<1> DEFINE stages == {"idle", "wait", "validate", "register", "report", "rows"}
           plain == [pc : stages, op : {"none"} \cup Operations, number : Nat]
<1>2. /\ \A pc \in stages, o \in Operations : Waiting([NoRequest EXCEPT !.pc = pc, !.op = o])
      /\ \A c \in Client, pc \in stages :
            client[c].pc # "load" => Waiting([client[c] EXCEPT !.pc = pc])
      /\ \A c \in Client, pc \in stages, n \in Nat :
            client[c].pc # "load" => Waiting([client[c] EXCEPT !.pc = pc, !.number = n])
  <2>1. \A request \in plain : Waiting(request)
    BY DEF Waiting
  <2>2. \A request : Waiting(request) /\ request.pc # "load" => request \in plain
    BY DEF Waiting
  <2>3. NoRequest \in plain
    BY DEF NoRequest, NoJob
  <2>4. /\ \A r \in plain, pc \in stages, o \in Operations : [r EXCEPT !.pc = pc, !.op = o] \in plain
        /\ \A r \in plain, pc \in stages : [r EXCEPT !.pc = pc] \in plain
        /\ \A r \in plain, pc \in stages, n \in Nat : [r EXCEPT !.pc = pc, !.number = n] \in plain
    <3> HIDE DEF Operations
    <3> QED BY ZenonT(30)
  <2> HIDE DEF plain, stages
  <2>5. \A pc \in stages, o \in Operations : Waiting([NoRequest EXCEPT !.pc = pc, !.op = o])
    BY <2>1, <2>3, <2>4, ZenonT(30)
  <2>6. \A c \in Client : client[c].pc # "load" => client[c] \in plain
    BY <1>1, <2>2
  <2> QED BY <2>1, <2>4, <2>5, <2>6, ZenonT(30)
<1>3. ASSUME NEW c \in Client, NEW o \in Operations, Request(c, o) PROVE ClientsInv'
  BY <1>2, <1>3, RequestMoves, ZenonT(30) DEF Request
<1>4. ASSUME NEW c \in Client, ClientStep(c) PROVE ClientsInv'
  <2>1. CASE \E o \in Operations : Serves(c, o)
    BY <1>1, <2>1, RequestMoves DEF Serves, Answered
  <2>2. CASE FindTable(c) \/ ValidateTarget(c) \/ AnswerStart(c)
    <3>1. /\ workload' = workload /\ client[c].pc # "load"
          /\ \E pc \in stages : client' = [client EXCEPT ![c] = [client[c] EXCEPT !.pc = pc]]
             \/ client' = [client EXCEPT ![c] = NoRequest]
      BY <2>2 DEF FindTable, ValidateTarget, AnswerStart, Step
    <3> HIDE DEF stages
    <3> QED BY <1>1, <1>2, <3>1, RequestMoves, ZenonT(30)
  <2>3. CASE StartJob(c)
    <3>1. Len(jobs) + 1 \in Nat
      BY LenProperties DEF JobsInv, JobsTyped
    <3>2. /\ workload' = workload /\ client[c].pc # "load"
          /\ \/ client' = [client EXCEPT ![c] = NoRequest]
             \/ client' = [client EXCEPT ![c] = [client[c] EXCEPT !.pc = "report",
                                                                 !.number = Len(jobs) + 1]]
      BY <2>3 DEF StartJob, Step
    <3>3. "report" \in stages
      OBVIOUS
    <3> HIDE DEF stages
    <3> QED BY <1>1, <1>2, <3>1, <3>2, <3>3, RequestMoves, ZenonT(30)
  <2>4. CASE DetectEncoding(c)
    <3>1. PICK file \in workload.csv :
             client' = [client EXCEPT ![c] =
                          [pc |-> "load", op |-> "load_csv", number |-> NoJob, file |-> file,
                           detected |-> detect_encoding(file.bytes, file.size)]]
      BY <2>4 DEF DetectEncoding
    <3>2. Waiting([pc |-> "load", op |-> "load_csv", number |-> NoJob, file |-> file,
                   detected |-> detect_encoding(file.bytes, file.size)])
      BY DEF Waiting
    <3> QED BY <2>4, <3>1, <3>2, RequestMoves DEF DetectEncoding
  <2>5. CASE RejectCsv(c)
    BY <1>1, <2>5, RequestMoves DEF RejectCsv, Answered
  <2>6. CASE OpenCsv(c)
    BY <1>1, <1>2, <2>6, RequestMoves, ZenonT(30) DEF OpenCsv, Answered, Operations
  <2>7. CASE LoadRow(c) \/ CloseCsv(c)
    BY <1>1, <2>7, RequestMoves, RequestsStay DEF LoadRow, CloseCsv, LeavesMotor, Answered
  <2> QED BY <1>4, <2>1, <2>2, <2>3, <2>4, <2>5, <2>6, <2>7
          DEF ClientStep, BeginTransaction, EndTransaction, InsertStatement, CreateStatement,
              DropStatement, Operations
<1>5. CASE JobsNext
  BY <1>5, RequestsStay DEF JobsNext, httpVars
<1>6. CASE UNCHANGED vars
  BY <1>6, RequestsStay DEF vars
<1> QED BY <1>3, <1>4, <1>5, <1>6 DEF HttpNext

LEMMA RowIsRead ==
    ASSUME JobsInv, CsvInv, csv.pc = "rows", csv.at <= Len(csv.file.rows)
    PROVE  /\ csv \in Loads(workload.csv) /\ Account(csv) /\ csv.file \in Files
           /\ csv.at \in DOMAIN csv.file.rows /\ Row.id \in Int /\ Row.lines \in Nat
           /\ csv.at + 1 \in 1 .. Len(csv.file.rows) + 1
           /\ csv.line + Row.lines = LineOf(csv.file, csv.at + 1)
           /\ csv.line + Row.lines \in Nat
           /\ Cardinality(RowsRead(csv)) \in Nat
           /\ \A next : next.file = csv.file /\ next.at = csv.at + 1 =>
                 Cardinality(RowsRead(next)) =
                    Cardinality(RowsRead(csv)) + (IF Row.kind = "blank" THEN 0 ELSE 1)
<1> DEFINE rows == csv.file.rows
           n == Len(rows)
<1>1. csv \in Loads(workload.csv) /\ Account(csv) /\ csv.file \in Files
  BY FilesTyped DEF CsvInv, Account
<1>2. n \in Nat /\ DOMAIN rows = 1 .. n /\ csv.at \in 1 .. n + 1
  BY <1>1, LenProperties DEF Account, Files
<1>3. csv.at \in 1 .. n
  BY <1>2
<1>4. Row.id \in Int /\ Row.lines \in Nat
  <2> DEFINE R == [id : Int, lines : Nat \ {0},
                   kind : {"value", "blank", "unconvertible", "malformed", "unsupported"}]
  <2>1. rows \in Seq(R)
    BY <1>1 DEF Files
  <2>2. rows[csv.at] \in R
    <3> HIDE DEF R, rows
    <3> QED BY <1>3, <2>1, ElementOfSeq DEF n
  <2> QED BY <2>2 DEF Row
<1>5. csv.line + Row.lines = LineOf(csv.file, csv.at + 1) /\ csv.line + Row.lines \in Nat
  <2>1. csv.line = LineOf(csv.file, csv.at)
    BY <1>1 DEF Account
  <2>2. csv.line \in Nat
    BY <1>1 DEF Loads
  <2> QED BY <1>1, <1>3, <1>4, <2>1, <2>2, LinesAdd DEF Row
<1>6. IsFiniteSet(RowsRead(csv)) /\ Cardinality(RowsRead(csv)) \in Nat
  <2>1. IsFiniteSet(1 .. n)
    BY <1>2, FS_Interval
  <2>2. RowsRead(csv) \in SUBSET (1 .. n)
    BY <1>2 DEF RowsRead
  <2> QED BY <2>1, <2>2, FS_Subset, FS_CardinalityType
<1>7. ASSUME NEW next, next.file = csv.file, next.at = csv.at + 1
      PROVE  Cardinality(RowsRead(next)) =
                Cardinality(RowsRead(csv)) + (IF Row.kind = "blank" THEN 0 ELSE 1)
  <2>1. \A i \in DOMAIN rows : i < next.at <=> i < csv.at \/ i = csv.at
    BY <1>2, <1>3, <1>7
  <2>2. CASE Row.kind = "blank"
    <3>1. RowsRead(next) = RowsRead(csv)
      BY <1>7, <2>1, <2>2 DEF RowsRead, Row
    <3> QED BY <1>6, <2>2, <3>1
  <2>3. CASE Row.kind # "blank"
    <3>1. RowsRead(next) = RowsRead(csv) \cup {csv.at}
      BY <1>2, <1>3, <1>7, <2>1, <2>3 DEF RowsRead, Row
    <3>2. csv.at \notin RowsRead(csv)
      BY <1>3 DEF RowsRead
    <3> QED BY <1>6, <2>3, <3>1, <3>2, FS_AddElement
  <2> QED BY <2>2, <2>3
<1>8. csv.at + 1 \in 1 .. n + 1
  BY <1>3
<1> QED BY <1>1, <1>2, <1>3, <1>4, <1>5, <1>6, <1>7, <1>8

LEMMA NextRow ==
    ASSUME JobsInv, CsvInv, csv.pc = "rows", csv.at <= Len(csv.file.rows)
    PROVE  /\ AfterRow \in Loads(workload.csv)
           /\ AfterRow.pc = "rows" /\ AfterRow.file = csv.file /\ AfterRow.at = csv.at + 1
           /\ AfterRow.line = csv.line + Row.lines /\ AfterRow.mapping = csv.mapping
           /\ AfterRow.inserted = csv.inserted /\ AfterRow.failed = csv.failed
           /\ AfterRow.errors = csv.errors /\ AfterRow.wrote = csv.wrote
<1>1. csv \in Loads(workload.csv) /\ csv.line + Row.lines \in Nat /\ csv.at + 1 \in Nat
  BY RowIsRead
<1> DEFINE l == csv.line + Row.lines
           a == csv.at + 1
<1>2. AfterRow = [csv EXCEPT !.at = a, !.line = l]
  BY DEF AfterRow
<1> HIDE DEF l, a
<1>3. a \in Nat /\ l \in Nat
  BY <1>1 DEF a, l
<1>4. [csv EXCEPT !.at = a, !.line = l] \in Loads(workload.csv)
  BY <1>1, <1>3 DEF Loads
<1> QED BY <1>1, <1>2, <1>4 DEF Loads, a, l

(* The report goes on if what it says of the next row is right. *)
LEMMA ReportGoesOn ==
    ASSUME JobsInv, CsvInv, csv.pc = "rows", csv.at <= Len(csv.file.rows),
           NEW next \in Loads(workload.csv), next.pc = "rows", next.file = csv.file,
           next.at = csv.at + 1, next.line = csv.line + Row.lines, next.mapping = csv.mapping,
           next.inserted + next.failed =
              csv.inserted + csv.failed + (IF Row.kind = "blank" THEN 0 ELSE 1),
           next.file.atomic => next.failed = 0,
           Len(next.errors) = Least(next.failed, MaxErrors),
           \A e \in DOMAIN next.errors :
              \/ e \in DOMAIN csv.errors /\ next.errors[e] = csv.errors[e]
              \/ next.errors[e] = csv.line /\ Row.kind \in {"value", "unconvertible", "malformed"}
    PROVE  Account(next)
<1>1. Account(csv) /\ csv.at \in DOMAIN csv.file.rows
  BY RowIsRead
<1>2. next.line = LineOf(next.file, next.at) /\ next.at \in 1 .. Len(next.file.rows) + 1
  BY RowIsRead
<1>3. next.inserted + next.failed = Cardinality(RowsRead(next))
  BY <1>1, RowIsRead DEF Account
<1>4. ASSUME NEW e \in DOMAIN next.errors
      PROVE  \E i \in DOMAIN next.file.rows :
                /\ next.errors[e] = LineOf(next.file, i)
                /\ next.file.rows[i].kind \in {"value", "unconvertible", "malformed"}
  BY <1>1, <1>4 DEF Account, Row
<1> QED BY <1>1, <1>2, <1>3, <1>4 DEF Account

(* A load that raises keeps the list of errors, or, if it is atomic, has one. *)
LEMMA ReportIsCut ==
    ASSUME JobsInv, CsvInv, csv.pc = "rows", csv.at <= Len(csv.file.rows),
           NEW next, next.pc = "raised", next.file = csv.file, next.at = csv.at,
           next.mapping = csv.mapping,
           \A e \in DOMAIN next.errors :
              \/ e \in DOMAIN csv.errors /\ next.errors[e] = csv.errors[e]
              \/ next.errors[e] = csv.line /\ Row.kind \in {"value", "unconvertible", "malformed"}
    PROVE  Account(next)
<1>1. Account(csv) /\ csv.at \in DOMAIN csv.file.rows
  BY RowIsRead
<1>2. ASSUME NEW e \in DOMAIN next.errors
      PROVE  \E i \in DOMAIN next.file.rows :
                /\ next.errors[e] = LineOf(next.file, i)
                /\ next.file.rows[i].kind \in {"value", "unconvertible", "malformed"}
  BY <1>1, <1>2 DEF Account, Row
<1> QED BY <1>1, <1>2 DEF Account

(* A row that is written while no CSV is loaded is not one of a CSV. *)
LEMMA OthersWrite ==
    ASSUME Shapes, CsvInv, csv' = csv, workload' = workload,
           \/ table' = table
           \/ table' \in {EmptyTable, NoTable}
           \/ \E ids : table' = [table EXCEPT !.rows = Restrict(@, DOMAIN @ \ ids)]
           \/ \E id, w : w # Csv /\ table' = [table EXCEPT !.rows = WithRow(@, id, w)]
    PROVE  CsvInv'
<1>1. Undone'
  <2>1. CASE table' = table
    BY <2>1 DEF CsvInv, Undone
  <2>2. CASE table' \in {EmptyTable, NoTable}
    <3>1. DOMAIN table'.rows = {}
      BY <2>2 DEF EmptyTable, NoTable
    <3> QED BY <3>1 DEF Undone
  <2>3. ASSUME NEW ids, table' = [table EXCEPT !.rows = Restrict(@, DOMAIN @ \ ids)]
        PROVE  Undone'
    <3>1. table'.rows = Restrict(table.rows, DOMAIN table.rows \ ids)
      BY <2>3, RecordsKeepShape
    <3>2. \A id \in DOMAIN table'.rows : id \in DOMAIN table.rows /\ table'.rows[id] = table.rows[id]
      BY <3>1 DEF Restrict
    <3> QED BY <3>2 DEF CsvInv, Undone
  <2>4. ASSUME NEW id, NEW w, w # Csv, table' = [table EXCEPT !.rows = WithRow(@, id, w)]
        PROVE  Undone'
    <3>1. table'.rows = WithRow(table.rows, id, w)
      BY <2>4, RecordsKeepShape
    <3>2. \A i \in DOMAIN table'.rows :
             \/ i \in DOMAIN table.rows /\ table'.rows[i] = table.rows[i]
             \/ table'.rows[i] = w
      BY <3>1 DEF WithRow
    <3> QED BY <2>4, <3>2 DEF CsvInv, Undone
  <2> QED BY <2>1, <2>2, <2>3, <2>4
<1> QED BY <1>1 DEF CsvInv, Account, RowsRead

(* The rows of an atomic load go with it. *)
LEMMA LoadedRowsGo ==
    ASSUME Shapes, csv'.wrote = csv.wrote, table' = WithoutLoaded
    PROVE  Undone'
<1>1. table'.rows = Restrict(table.rows, DOMAIN table.rows \ csv.wrote)
  BY RecordsKeepShape DEF WithoutLoaded
<1>2. DOMAIN table'.rows = DOMAIN table.rows \ csv.wrote
  BY <1>1 DEF Restrict
<1> QED BY <1>2 DEF Undone

LEMMA LoadRowKeepsCsv ==
    ASSUME JobsInv, Shapes, CsvInv, NEW c \in Client, LoadRow(c)
    PROVE  CsvInv'
<1>1. /\ csv.pc = "rows" /\ csv.at <= Len(csv.file.rows) /\ workload' = workload
      /\ \/ Row.kind = "blank" /\ csv' = AfterRow
         \/ /\ Row.kind = "value"
            /\ csv' = [AfterRow EXCEPT !.inserted = @ + 1, !.wrote = @ \cup {Row.id}]
         \/ /\ Row.kind \in {"value", "unconvertible", "malformed"} /\ csv.file.atomic
            /\ table' = WithoutLoaded
            /\ csv' = [csv EXCEPT !.pc = "raised", !.errors = <<csv.line>>]
         \/ /\ Row.kind \in {"value", "unconvertible", "malformed"} /\ ~csv.file.atomic
            /\ csv' = [AfterRow EXCEPT !.failed = @ + 1,
                          !.errors = IF Len(@) < MaxErrors THEN Append(@, csv.line) ELSE @]
         \/ /\ csv.file.atomic => table' = WithoutLoaded
            /\ csv' = [csv EXCEPT !.pc = "raised"]
  BY DEF LoadRow, Stores
<1>2. /\ csv \in Loads(workload.csv) /\ csv.line \in Nat /\ Account(csv) /\ Row.id \in Int
      /\ csv.inserted \in Nat /\ csv.failed \in Nat /\ csv.errors \in Seq(Nat)
      /\ csv.file \in workload.csv /\ csv.wrote \in SUBSET Int
      /\ csv.file.atomic => csv.failed = 0
      /\ Len(csv.errors) = Least(csv.failed, MaxErrors)
  BY <1>1, RowIsRead DEF Loads, Account
<1>3. ASSUME csv' \in Loads(workload.csv), csv'.pc # "none", Account(csv'), Undone'
      PROVE  CsvInv'
  BY <1>1, <1>3 DEF CsvInv, Account
<1>4. CASE Row.kind = "blank" /\ csv' = AfterRow
  <2>1. Account(csv')
    BY <1>1, <1>2, <1>4, NextRow, ReportGoesOn
  <2>2. csv'.pc = "rows"
    BY <1>1, <1>4, NextRow
  <2> QED BY <1>1, <1>3, <1>4, <2>1, <2>2, NextRow DEF Undone
<1>5. CASE /\ Row.kind = "value"
           /\ csv' = [AfterRow EXCEPT !.inserted = @ + 1, !.wrote = @ \cup {Row.id}]
  <2>1. /\ csv' \in Loads(workload.csv) /\ csv'.pc = "rows" /\ csv'.file = csv.file
        /\ csv'.at = csv.at + 1 /\ csv'.line = csv.line + Row.lines
        /\ csv'.mapping = csv.mapping /\ csv'.inserted = csv.inserted + 1
        /\ csv'.failed = csv.failed /\ csv'.errors = csv.errors
    <3> DEFINE i == csv.inserted + 1
               w == csv.wrote \cup {Row.id}
    <3>1. csv' = [AfterRow EXCEPT !.inserted = i, !.wrote = w]
      BY <1>1, <1>5, NextRow
    <3>2. i \in Nat /\ w \in SUBSET Int
      BY <1>2
    <3> HIDE DEF i, w
    <3>3. csv' \in Loads(workload.csv)
      BY <1>1, <3>1, <3>2, NextRow DEF Loads
    <3> QED BY <1>1, <3>1, <3>3, NextRow DEF Loads, i
  <2>2. csv'.inserted + csv'.failed = csv.inserted + csv.failed + 1
    BY <1>2, <2>1
  <2>3. Account(csv')
    BY <1>1, <1>2, <1>5, <2>1, <2>2, ReportGoesOn
  <2> QED BY <1>3, <2>1, <2>3 DEF Undone
<1>6. CASE /\ Row.kind \in {"value", "unconvertible", "malformed"} /\ csv.file.atomic
           /\ table' = WithoutLoaded
           /\ csv' = [csv EXCEPT !.pc = "raised", !.errors = <<csv.line>>]
  <2>1. /\ csv' \in Loads(workload.csv) /\ csv'.pc = "raised" /\ csv'.file = csv.file
        /\ csv'.at = csv.at /\ csv'.mapping = csv.mapping /\ csv'.wrote = csv.wrote
        /\ csv'.errors = <<csv.line>>
    <3> DEFINE e == <<csv.line>>
    <3>1. e \in Seq(Nat)
      BY <1>2
    <3> HIDE DEF e
    <3>2. csv' = [csv EXCEPT !.pc = "raised", !.errors = e]
      BY <1>6 DEF e
    <3>3. csv' \in Loads(workload.csv)
      BY <1>2, <3>1, <3>2 DEF Loads
    <3> QED BY <1>2, <3>2, <3>3 DEF Loads, e
  <2>2. Account(csv')
    <3>1. \A e \in DOMAIN csv'.errors : csv'.errors[e] = csv.line
      BY <2>1
    <3> QED BY <1>1, <1>6, <2>1, <3>1, ReportIsCut
  <2> QED BY <1>3, <1>6, <2>1, <2>2, LoadedRowsGo
<1>7. CASE /\ Row.kind \in {"value", "unconvertible", "malformed"} /\ ~csv.file.atomic
           /\ csv' = [AfterRow EXCEPT !.failed = @ + 1,
                         !.errors = IF Len(@) < MaxErrors THEN Append(@, csv.line) ELSE @]
  <2> DEFINE more == IF Len(csv.errors) < MaxErrors THEN Append(csv.errors, csv.line)
                                                    ELSE csv.errors
             f == csv.failed + 1
  <2>1. /\ more \in Seq(Nat)
        /\ Len(more) = IF Len(csv.errors) < MaxErrors THEN Len(csv.errors) + 1 ELSE Len(csv.errors)
        /\ \A e \in DOMAIN more : \/ e \in DOMAIN csv.errors /\ more[e] = csv.errors[e]
                                  \/ more[e] = csv.line
    <3>1. /\ Append(csv.errors, csv.line) \in Seq(Nat)
          /\ Len(Append(csv.errors, csv.line)) = Len(csv.errors) + 1
          /\ Append(csv.errors, csv.line)[Len(csv.errors) + 1] = csv.line
          /\ \A e \in 1 .. Len(csv.errors) : Append(csv.errors, csv.line)[e] = csv.errors[e]
      BY <1>2, AppendProperties
    <3>2. /\ DOMAIN csv.errors = 1 .. Len(csv.errors) /\ Len(csv.errors) \in Nat
          /\ DOMAIN Append(csv.errors, csv.line) = 1 .. Len(csv.errors) + 1
      BY <1>2, <3>1, LenProperties
    <3>3. \A e \in 1 .. Len(csv.errors) + 1 : e \in 1 .. Len(csv.errors) \/ e = Len(csv.errors) + 1
      BY <3>2
    <3> QED BY <1>2, <3>1, <3>2, <3>3
  <2>2. f \in Nat /\ Len(more) = Least(f, MaxErrors)
    <3> DEFINE n == Len(csv.errors)
    <3>1. n \in Nat /\ n = Least(csv.failed, MaxErrors) /\ csv.failed \in Nat /\ MaxErrors \in Nat
          /\ Len(more) = IF n < MaxErrors THEN n + 1 ELSE n
      BY <1>2, <2>1, LenProperties, MediaAssumption
    <3> HIDE DEF n, more
    <3> QED BY <3>1 DEF Least
  <2>3. csv' = [AfterRow EXCEPT !.failed = f, !.errors = more]
    BY <1>1, <1>7, NextRow
  <2> HIDE DEF more, f
  <2>4. /\ csv' \in Loads(workload.csv) /\ csv'.pc = "rows" /\ csv'.file = csv.file
        /\ csv'.at = csv.at + 1 /\ csv'.line = csv.line + Row.lines
        /\ csv'.mapping = csv.mapping /\ csv'.inserted = csv.inserted
        /\ csv'.failed = f /\ csv'.errors = more
    <3>1. csv' \in Loads(workload.csv)
      BY <1>1, <2>1, <2>2, <2>3, NextRow DEF Loads
    <3> QED BY <1>1, <2>3, <3>1, NextRow DEF Loads
  <2>5. csv'.inserted + csv'.failed = csv.inserted + csv.failed + 1
    BY <1>2, <2>4 DEF f
  <2>6. Account(csv')
    BY <1>1, <1>2, <1>7, <2>1, <2>2, <2>4, <2>5, ReportGoesOn, ZenonT(30)
  <2> QED BY <1>3, <2>4, <2>6 DEF Undone
<1>8. CASE /\ csv.file.atomic => table' = WithoutLoaded
           /\ csv' = [csv EXCEPT !.pc = "raised"]
  <2>1. /\ csv' \in Loads(workload.csv) /\ csv'.pc = "raised" /\ csv'.file = csv.file
        /\ csv'.at = csv.at /\ csv'.mapping = csv.mapping /\ csv'.wrote = csv.wrote
        /\ csv'.errors = csv.errors
    BY <1>2, <1>8 DEF Loads
  <2>2. Account(csv')
    BY <1>1, <2>1, ReportIsCut
  <2>3. Undone'
    BY <1>8, <2>1, LoadedRowsGo DEF Undone
  <2> QED BY <1>3, <2>1, <2>2, <2>3
<1> QED BY <1>1, <1>4, <1>5, <1>6, <1>7, <1>8

LEMMA OpenCsvKeepsCsv ==
    ASSUME JobsInv, Shapes, ClientsInv, CsvInv, NEW c \in Client, OpenCsv(c)
    PROVE  CsvInv'
<1> DEFINE file == client[c].file
           mapping == match_header(file.header, Columns)
<1>1. /\ client[c].pc = "load" /\ table' = table /\ workload' = workload
      /\ \/ csv' = csv
         \/ /\ mapping # <<>>
            /\ csv' = [NoLoad EXCEPT !.pc = "rows", !.file = file, !.at = 1, !.mapping = mapping,
                                     !.line = file.line + 1]
  BY DEF OpenCsv
<1>2. CASE csv' = csv
  BY <1>1, <1>2, OthersWrite
<1>3. CASE /\ mapping # <<>>
           /\ csv' = [NoLoad EXCEPT !.pc = "rows", !.file = file, !.at = 1, !.mapping = mapping,
                                    !.line = file.line + 1]
  <2>1. file \in workload.csv /\ file \in Files
    <3>1. Waiting(client[c])
      BY DEF ClientsInv
    <3> QED BY <1>1, <3>1, FilesTyped DEF Waiting
  <2>2. file.line + 1 \in Nat /\ mapping \in Seq(Nat) /\ LineOf(file, 1) = file.line + 1
        /\ 1 \in 1 .. Len(file.rows) + 1
    <3>1. file.line \in Nat /\ file.header \in Seq(ColumnNames) /\ Len(file.rows) \in Nat
      BY <2>1, LenProperties DEF Files
    <3>2. MatchesOneToOne(file.header, mapping)
      BY <1>3, <3>1, AcceptedHeaders
    <3> QED BY <2>1, <3>1, <3>2, LinesAdd, SMTT(30) DEF MatchesOneToOne
  <2> DEFINE line == file.line + 1
  <2>3. csv' = [pc |-> "rows", file |-> file, at |-> 1, line |-> line, mapping |-> mapping,
                inserted |-> 0, failed |-> 0, errors |-> <<>>, wrote |-> {}]
    <3> HIDE DEF file, mapping, line
    <3>1. csv' = [NoLoad EXCEPT !.pc = "rows", !.file = file, !.at = 1, !.mapping = mapping,
                                !.line = line]
      BY <1>3 DEF line
    <3> QED BY <3>1 DEF NoLoad
  <2> HIDE DEF file, mapping, line
  <2>4. csv' \in Loads(workload.csv)
    BY <2>1, <2>2, <2>3, EmptySeq DEF Loads, line
  <2>5. RowsRead(csv') = {}
    <3>1. \A i \in DOMAIN file.rows : ~(i < 1)
      <4>1. DOMAIN file.rows = 1 .. Len(file.rows)
        BY <2>1, LenProperties DEF Files
      <4> QED BY <4>1
    <3> QED BY <2>3, <3>1 DEF RowsRead
  <2>6. Account(csv')
    <3>1. Cardinality({}) = 0 /\ Least(0, MaxErrors) = 0
      BY FS_EmptySet, EmptyReportTyped
    <3>2. Len(csv'.errors) = 0 /\ DOMAIN csv'.errors = {}
      BY <2>3
    <3>3. csv'.mapping = match_header(csv'.file.header, Columns) /\ csv'.mapping # <<>>
      BY <1>3, <2>3 DEF mapping
    <3>4. csv'.line = LineOf(csv'.file, csv'.at)
      BY <2>2, <2>3 DEF line
    <3>5. /\ csv'.pc = "rows" /\ csv'.file \in workload.csv
          /\ csv'.at \in 1 .. Len(csv'.file.rows) + 1
          /\ csv'.inserted = 0 /\ csv'.failed = 0
      BY <2>1, <2>2, <2>3
    <3> QED BY <2>5, <3>1, <3>2, <3>3, <3>4, <3>5 DEF Account
  <2> QED BY <1>1, <2>3, <2>4, <2>6 DEF CsvInv, Account, Undone
<1> QED BY <1>1, <1>2, <1>3

LEMMA CloseCsvKeepsCsv ==
    ASSUME JobsInv, CsvInv, NEW c \in Client, CloseCsv(c)
    PROVE  CsvInv'
<1>1. /\ csv.pc = "rows" /\ csv.at > Len(csv.file.rows) /\ csv' = [csv EXCEPT !.pc = "done"]
      /\ table' = table /\ workload' = workload
  BY DEF CloseCsv
<1>2. csv \in Loads(workload.csv) /\ Account(csv) /\ csv.file \in Files
  BY <1>1, FilesTyped DEF CsvInv, Account
<1>3. /\ csv' \in Loads(workload.csv) /\ csv'.pc = "done" /\ csv'.file = csv.file
      /\ csv'.at = csv.at /\ csv'.mapping = csv.mapping /\ csv'.inserted = csv.inserted
      /\ csv'.failed = csv.failed /\ csv'.errors = csv.errors
  BY <1>1, <1>2 DEF Loads
<1>4. csv.at = Len(csv.file.rows) + 1
  <2>1. Len(csv.file.rows) \in Nat /\ csv.at \in 1 .. Len(csv.file.rows) + 1
    BY <1>2, LenProperties DEF Files, Account
  <2> QED BY <1>1, <2>1
<1>5. RowsRead(csv') = RowsRead(csv)
  BY <1>3 DEF RowsRead
<1>6. Account(csv')
  BY <1>1, <1>2, <1>3, <1>4, <1>5 DEF Account
<1> QED BY <1>1, <1>3, <1>6 DEF CsvInv, Account, Undone

LEMMA CsvStep == JobsInv /\ Shapes /\ ClientsInv /\ CsvInv /\ [HttpNext]_vars => CsvInv'
<1> SUFFICES ASSUME JobsInv, Shapes, ClientsInv, CsvInv, [HttpNext]_vars PROVE CsvInv'
  OBVIOUS
<1>1. ByClient # Csv /\ worker.job # Csv
  BY DEF ByClient, Csv, JobsInv, JobsTyped, Threads
<1>2. ASSUME NEW c \in Client, NEW o \in Operations, Request(c, o) PROVE CsvInv'
  BY <1>2, OthersWrite DEF Request
<1>3. ASSUME NEW c \in Client, ClientStep(c) PROVE CsvInv'
  <2>1. CASE InsertStatement(c)
    <3>1. /\ csv' = csv /\ workload' = workload
          /\ \/ table' = table
             \/ table' = [table EXCEPT !.rows = Restrict(@, DOMAIN @ \ txn.wrote)]
             \/ \E id : table' = [table EXCEPT !.rows = WithRow(@, id, ByClient)]
      BY <2>1 DEF InsertStatement, Serves
    <3> QED BY <1>1, <3>1, OthersWrite
  <2>2. CASE \/ BeginTransaction(c) \/ EndTransaction(c) \/ CreateStatement(c)
             \/ DropStatement(c) \/ FindTable(c) \/ ValidateTarget(c) \/ StartJob(c)
             \/ AnswerStart(c) \/ DetectEncoding(c) \/ RejectCsv(c)
    <3>1. csv' = csv /\ workload' = workload /\ table' \in {table, EmptyTable, NoTable}
      BY <2>2 DEF BeginTransaction, EndTransaction, CreateStatement, DropStatement, FindTable,
         ValidateTarget, StartJob, AnswerStart, DetectEncoding, RejectCsv, Serves, Step
    <3> QED BY <3>1, OthersWrite
  <2> QED BY <1>3, <2>1, <2>2, OpenCsvKeepsCsv, LoadRowKeepsCsv, CloseCsvKeepsCsv DEF ClientStep
<1>4. CASE JobsNext
  <2>1. /\ csv' = csv /\ workload' = workload
        /\ \/ table' = table
           \/ \E id : table' = [table EXCEPT !.rows = WithRow(@, id, worker.job)]
    BY <1>4 DEF JobsNext, httpVars, WorkerNext, TakeTask, Begin, Validate, NextFile, Extract,
       NoMoreFiles, CheckStop, EnterMotor, InsertRow, LeaveMotor, MergeReport, Finish,
       SetStop, Shutdown
  <2> QED BY <1>1, <2>1, OthersWrite
<1>5. CASE UNCHANGED vars
  BY <1>5, OthersWrite DEF vars
<1> QED BY <1>2, <1>3, <1>4, <1>5 DEF HttpNext

ServiceInv == JobsInv /\ Shapes /\ ClientsInv /\ CsvInv

LEMMA ServiceInvariant == HttpSpec => []ServiceInv
<1>1. HttpInit => ServiceInv
  BY JobsInitially, MotorInitially, RequestsInitially DEF ServiceInv
<1>2. ServiceInv /\ [HttpNext]_vars => ServiceInv'
  BY JobsStep, ShapesStep, ClientsStep, CsvStep DEF ServiceInv
<1> QED BY <1>1, <1>2, PTL DEF HttpSpec

(* The report of a CSV load accounts for every row of the file, whatever lines its rows
   take, and an atomic load that raises leaves none of its rows, for any file, any
   table and any requests around it (load_csv and _load_row of
   engine/executor/processor.py). *)
THEOREM CsvRowsAreReported == HttpSpec => []CsvReportsEveryRow
<1>1. ASSUME ServiceInv PROVE CsvReportsEveryRow
  <2>1. Undone
    BY <1>1 DEF ServiceInv, CsvInv
  <2>2. CASE csv.pc = "none"
    <3>1. DOMAIN csv.errors = {}
      BY <1>1, <2>2 DEF ServiceInv, CsvInv
    <3> QED BY <2>2, <3>1 DEF CsvReportsEveryRow
  <2>3. CASE csv.pc # "none"
    <3>1. Account(csv) /\ csv.file \in Files
      BY <1>1, <2>3, FilesTyped DEF ServiceInv, CsvInv, Account
    <3>2. csv.pc = "done" => RowsRead(csv) = Data
      <4>1. DOMAIN csv.file.rows = 1 .. Len(csv.file.rows) /\ Len(csv.file.rows) \in Nat
        BY <3>1, LenProperties DEF Files
      <4> QED BY <3>1, <4>1 DEF Account, RowsRead, Data
    <3>3. csv.pc = "done" =>
             /\ csv.inserted + csv.failed = Cardinality(Data)
             /\ csv.file.atomic => csv.failed = 0
             /\ Len(csv.errors) = Least(csv.failed, MaxErrors)
      BY <3>1, <3>2 DEF Account
    <3>4. \A e \in DOMAIN csv.errors : \E i \in Data :
             /\ csv.errors[e] = LineOf(csv.file, i)
             /\ csv.file.rows[i].kind \in {"value", "unconvertible", "malformed"}
      BY <3>1 DEF Account, Data
    <3> QED BY <2>1, <3>3, <3>4 DEF CsvReportsEveryRow, Undone
  <2> QED BY <2>2, <2>3
<1> QED BY <1>1, ServiceInvariant, PTL

(* An accepted header gives every column a place of its own and leaves no named place
   out, for any columns and any header (match_header, engine/executor/bulk_load.py). *)
THEOREM HeadersAreMatched == HttpSpec => []HeaderIsMatchedOneToOne
<1>1. ASSUME ServiceInv, csv.pc # "none"
      PROVE  MatchesOneToOne(csv.file.header, csv.mapping)
  <2>1. Account(csv) /\ csv.file \in Files
    BY <1>1, FilesTyped DEF ServiceInv, CsvInv, Account
  <2>2. csv.file.header \in Seq(ColumnNames)
    BY <2>1 DEF Files
  <2> QED BY <2>1, <2>2, AcceptedHeaders DEF Account
<1>2. ServiceInv => HeaderIsMatchedOneToOne
  BY <1>1 DEF HeaderIsMatchedOneToOne, MatchesOneToOne
<1> QED BY <1>2, ServiceInvariant, PTL

(* engine/executor/bulk_load.py, detect_encoding and check_utf8: for every file and every
   size of the blocks it is read by, the file is taken for UTF-8 exactly when it is, and
   an error has the line of the first bad byte. *)
THEOREM EncodingsAreExact == HttpSpec => []EncodingIsExact
<1>1. ASSUME ServiceInv PROVE EncodingIsExact
  <2> SUFFICES ASSUME NEW c \in Client, client[c].pc = "load"
               PROVE  DetectsExactly(client[c].file.bytes, client[c].detected)
    BY DEF EncodingIsExact, DetectsExactly
  <2>1. /\ client[c].file \in workload.csv
        /\ client[c].detected = detect_encoding(client[c].file.bytes, client[c].file.size)
    BY <1>1 DEF ServiceInv, ClientsInv, Waiting
  <2>2. client[c].file \in Files
    BY <1>1, <2>1, FilesTyped DEF ServiceInv
  <2>3. client[c].file.bytes \in Seq(Bytes) /\ client[c].file.size \in Nat \ {0}
    BY <2>2 DEF Files
  <2> QED BY <2>1, <2>3, DetectionIsExact
<1> QED BY <1>1, ServiceInvariant, PTL

===============================================================================
