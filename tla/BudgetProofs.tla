---------------------------- MODULE BudgetProofs ----------------------------
(***************************************************************************)
(* What the runner may spend: attempts and download slots.                 *)
(* AttemptsBudget is not inductive: whether MarkFailed may charge a job    *)
(* depends on how the runner came to hold it, which BudgetInv records.     *)
(* Nor is ConcurrencyBound: see SlotInv.                                   *)
(***************************************************************************)
EXTENDS DLQProofs, FiniteSetTheorems

(* BudgetInv for one job.                                                  *)
BudgetOf(j) ==
    /\ jobs[j].attempts <= MaxAttempts + manual[j]
    /\ Charged(j) => jobs[j].attempts < MaxAttempts + manual[j]

(* The budget invariant, job by job.                                       *)
LEMMA BudgetByJob == BudgetInv <=> \A j \in JobId : BudgetOf(j)
BY DEF BudgetInv, BudgetOf

(* What the budget compares are numbers.                                   *)
LEMMA BudgetTypes ==
    ASSUME StoreTypeOK, NEW j \in JobId
    PROVE  /\ jobs[j] \in Row /\ jobs[j].attempts \in Nat /\ manual[j] \in Nat
           /\ MaxAttempts \in Nat /\ MaxAttempts > 0
<1>1. jobs[j] \in Row /\ manual[j] \in Nat
  BY DEF StoreTypeOK
<1>2. jobs[j].attempts \in Nat
  BY <1>1 DEF Row
<1> QED
  BY <1>1, <1>2, StoreAssumption

(* MarkFailed is the one statement that charges an attempt.                *)
LEMMA ChargeFacts ==
    ASSUME NEW r \in Row
    PROVE  MarkFailed(r).attempts = r.attempts + 1 /\ MarkFailed(r).status = "failed"
BY DEF MarkFailed, Row

(* The statements that charge no attempt.                                  *)
LEMMA FreeOfCharge ==
    ASSUME NEW r \in Row
    PROVE  /\ Resolving(r).attempts = r.attempts
           /\ \A name : UpdateResolving(r, name).attempts = r.attempts
           /\ MarkPaused(r).attempts = r.attempts /\ MarkPaused(r).status = "paused"
           /\ MarkDownloadingStatus(r).attempts = r.attempts
           /\ MarkCompleted(r).attempts = r.attempts /\ MarkCompleted(r).status = "completed"
           /\ MarkDecrypting(r).attempts = r.attempts /\ MarkDecrypting(r).status = "decrypting"
           /\ MarkDecryptingRetry(r).attempts = r.attempts
           /\ MarkDecryptingRetry(r).status = "decrypting"
           /\ MarkPostprocessFailed(r).attempts = r.attempts
           /\ MarkPostprocessFailed(r).status = "decrypt_failed"
           /\ ClearArchivePassword(r).attempts = r.attempts
           /\ ClearArchivePassword(r).status = r.status
           /\ RemoveRow(r).attempts = r.attempts /\ RemoveRow(r).status = "deleted"
           /\ Requeue(r).attempts = r.attempts
           /\ \A g : MarkDownloading(r, g).attempts = r.attempts
           /\ \A st : UpdateProgress(r, st).attempts = r.attempts
           /\ UpdateProgress(r, "completed").status = "completed"
BY DEF Resolving, UpdateResolving, MarkDownloading, MarkPaused,
       MarkDownloadingStatus, UpdateProgress, MarkCompleted, MarkDecrypting,
       MarkDecryptingRetry, MarkPostprocessFailed, ClearArchivePassword,
       RemoveRow, Requeue, Row

(* An UPDATE changes one row, and that one only if it is there.            *)
LEMMA UpdateRow ==
    ASSUME StoreTypeOK, NEW id \in JobId, NEW row, Update(id, row), NEW j \in JobId
    PROVE  /\ j # id => jobs'[j] = jobs[j]
           /\ j = id => jobs'[j] = row \/ jobs'[j] = jobs[j]
BY DEF StoreTypeOK, Update

(* Being done with a job leaves no row of it in the list.                  *)
LEMMA DoneRow ==
    ASSUME RunnerTypeOK, NEW id \in JobId, NEW next, Done(id, next), NEW j \in JobId
    PROVE  /\ j # id => snap'[j] = snap[j]
           /\ j = id => snap'[j].status = "none"
BY DEF RunnerTypeOK, Done, NoRow, NewRow

----------------------------------------------------------------------------

(* A job keeps its budget when it is not charged and is not newly exposed  *)
(* to a charge.                                                            *)
LEMMA QuietKeepsBudget ==
    ASSUME StoreTypeOK, NEW j \in JobId, BudgetOf(j),
           jobs'[j].attempts = jobs[j].attempts, manual'[j] = manual[j],
           Charged(j)' => Charged(j)
    PROVE  BudgetOf(j)'
BY BudgetTypes DEF BudgetOf

(* The runner's list shrinks: it learns of no job.                         *)
ListShrinks == \A j \in JobId : snap'[j] = snap[j] \/ snap'[j].status = "none"

(* A statement that charges nobody, and moves a job towards a download     *)
(* only if it was on its way already.                                      *)
LEMMA StmtKeepsBudget ==
    ASSUME StoreTypeOK, BudgetInv, NEW id \in JobId, NEW row, Update(id, row),
           row.attempts = jobs[id].attempts, manual' = manual, ListShrinks,
           row.status \in {"queued", "resolving", "downloading"} => Charged(id)
    PROVE  BudgetInv'
<1> SUFFICES ASSUME NEW j \in JobId PROVE BudgetOf(j)'
  BY DEF BudgetInv, BudgetOf
<1>b. BudgetOf(j)
  BY BudgetByJob
<1>1. jobs'[j].attempts = jobs[j].attempts
  BY UpdateRow
<1>2. Charged(j)' => Charged(j)
  <2>1. CASE j # id
    BY <2>1, UpdateRow DEF Charged, ListShrinks
  <2>2. CASE j = id
    BY <2>2, UpdateRow DEF Charged, ListShrinks
  <2> QED  BY <2>1, <2>2
<1> QED
  BY <1>b, <1>1, <1>2, QuietKeepsBudget

(* MarkFailed for a job that may be charged, which the runner then drops.  *)
LEMMA ChargeKeepsBudget ==
    ASSUME StoreTypeOK, RunnerTypeOK, BudgetInv, NEW id \in JobId, Charged(id),
           Update(id, MarkFailed(jobs[id])), manual' = manual,
           NEW next, Done(id, next)
    PROVE  BudgetInv'
<1> SUFFICES ASSUME NEW j \in JobId PROVE BudgetOf(j)'
  BY DEF BudgetInv, BudgetOf
<1>b. BudgetOf(j)
  BY BudgetByJob
<1>1. CASE j # id
  <2>1. jobs'[j] = jobs[j] /\ snap'[j] = snap[j]
    BY <1>1, UpdateRow, DoneRow
  <2> QED
    BY <2>1, <1>b, QuietKeepsBudget DEF Charged
<1>2. CASE j = id
  <2>1. snap'[j].status = "none"
    BY <1>2, DoneRow
  <2>2. jobs'[j] = MarkFailed(jobs[j]) \/ jobs'[j] = jobs[j]
    BY <1>2, UpdateRow
  <2>3. CASE jobs'[j] = jobs[j]
    BY <2>1, <2>3, <1>b, QuietKeepsBudget DEF Charged
  <2>4. CASE jobs'[j] = MarkFailed(jobs[j])
    <3>1. jobs'[j].attempts = jobs[j].attempts + 1 /\ jobs'[j].status = "failed"
      BY <2>4, BudgetTypes, ChargeFacts
    <3>2. jobs[j].attempts < MaxAttempts + manual[j]
      BY <1>2, <1>b DEF BudgetOf
    <3> QED
      BY <2>1, <3>1, <3>2, BudgetTypes DEF BudgetOf, Charged
  <2> QED
    BY <2>2, <2>3, <2>4
<1> QED
  BY <1>1, <1>2

(* A step that writes no row keeps the budget if the list shrinks.         *)
LEMMA ReadKeepsBudget ==
    ASSUME StoreTypeOK, BudgetInv, UNCHANGED <<jobs, manual>>, ListShrinks
    PROVE  BudgetInv'
<1> SUFFICES ASSUME NEW j \in JobId PROVE BudgetOf(j)'
  BY DEF BudgetInv, BudgetOf
<1>1. BudgetOf(j) /\ (Charged(j)' => Charged(j))
  BY BudgetByJob DEF Charged, ListShrinks
<1> QED
  BY <1>1, QuietKeepsBudget

----------------------------------------------------------------------------
(* The runner's steps.                                                     *)

(* The jobs the runner holds while it polls or starts may be charged.      *)
LEMMA HeldIsCharged ==
    ASSUME ListInv, pc \in {"apply", "check", "resolve", "start", "record", "startfail"}
    PROVE  Charged(cur)
BY DEF ListInv, Polled, Charged

(* Reading a list exposes only jobs that may be charged.                   *)
LEMMA LoadKeepsBudget ==
    ASSUME StoreTypeOK, BudgetInv, NEW ids, NEW next, Load(ids, next),
           \A j \in ids : \/ jobs[j].status \in {"downloading", "decrypting", "completed"}
                          \/ jobs[j].attempts < MaxAttempts
    PROVE  BudgetInv'
<1> SUFFICES ASSUME NEW j \in JobId PROVE BudgetOf(j)'
  BY DEF BudgetInv, BudgetOf
<1>b. BudgetOf(j) /\ jobs' = jobs /\ manual' = manual
  BY BudgetByJob DEF Load, storeVars
<1>1. CASE j \in ids /\ jobs[j].attempts < MaxAttempts
  BY <1>1, <1>b, BudgetTypes DEF BudgetOf
<1>2. CASE j \in ids /\ jobs[j].status \in {"downloading", "decrypting", "completed"}
  <2>1. snap'[j] = jobs[j]
    BY <1>2 DEF Load
  <2>2. Charged(j)' => Charged(j)
    BY <1>2, <2>1, <1>b DEF Charged
  <2> QED
    BY <2>2, <1>b, QuietKeepsBudget
<1>3. CASE j \notin ids
  <2>1. snap'[j].status = "none"
    BY <1>3 DEF Load, NoRow, NewRow
  <2>2. Charged(j)' => Charged(j)
    BY <2>1, <1>b DEF Charged
  <2> QED
    BY <2>2, <1>b, QuietKeepsBudget
<1> QED
  BY <1>1, <1>2, <1>3

(* Moving on never adds to the list.                                       *)
LEMMA MoveShrinks ==
    ASSUME RunnerTypeOK, NEW id \in JobId, NEW next, Done(id, next) \/ Goto(next)
    PROVE  ListShrinks
BY DoneRow DEF ListShrinks, Goto

(* A step of the runner keeps every job within its budget.                 *)
LEMMA RunnerStepBudget ==
    ASSUME Inv, BudgetInv, RunnerStep
    PROVE  BudgetInv'
<1>a. StoreTypeOK /\ RunnerTypeOK /\ ListInv /\ cur \in JobId
  BY DEF Inv, TypeOK, RunnerTypeOK
<1>b. \A j \in JobId : jobs[j] \in Row
  BY <1>a DEF StoreTypeOK
<1>c. jobs[cur] \in Row
  BY <1>a, <1>b
<1>1. CASE ListActive
  BY <1>1, <1>a, LoadKeepsBudget DEF ListActive, ListJobs
<1>2. CASE ListPending
  <2>1. \A j \in ListPendingPostprocess : jobs[j].status \in {"decrypting", "completed"}
    BY DEF ListPendingPostprocess, PendingPostprocess
  <2> QED
    BY <1>2, <2>1, <1>a, LoadKeepsBudget DEF ListPending
<1>3. CASE ListRetryable
  BY <1>3, <1>a, LoadKeepsBudget DEF ListRetryable, ListRetryableFailed
<1>4. ASSUME NEW id \in JobId, RunnerJobStep(id) PROVE BudgetInv'
  <2>1. CASE TellStatus(id)
    <3>1. UNCHANGED <<jobs, manual>>
      BY <2>1 DEF TellStatus, ReadOnly, storeVars
    <3>2. CASE Done(id, "poll")
      BY <3>1, <3>2, <1>a, MoveShrinks, ReadKeepsBudget
    <3>3. CASE ~ Done(id, "poll")
      BY <2>1, <3>1, <3>3, <1>a, ReadKeepsBudget DEF TellStatus, ListShrinks
    <3> QED  BY <3>2, <3>3
  <2>2. CASE Dispatch(id)
    <3>1. UNCHANGED <<jobs, manual>>
      BY <2>2 DEF Dispatch, DispatchSkip, DispatchNothingToDo, DispatchNoPath,
           DispatchWait, DispatchTaskReady, Dispatching, ReadOnly, storeVars
    <3>2. Done(id, "dispatch") \/ UNCHANGED snap
      BY <2>2 DEF Dispatch, DispatchSkip, DispatchNothingToDo, DispatchNoPath,
           DispatchWait, DispatchTaskReady, Select
    <3>3. ListShrinks
      BY <3>2, <1>a, MoveShrinks DEF ListShrinks
    <3> QED
      BY <3>1, <3>3, <1>a, ReadKeepsBudget
  <2>3. CASE AutoRequeue(id)
    <3>1. id \in Held /\ pc = "requeue" /\ Done(id, "requeue") /\ manual' = manual
          /\ Update(id, Requeue(jobs[id]))
      BY <2>3 DEF AutoRequeue, Write
    <3>2. Charged(id)
      BY <3>1, <1>a DEF ListInv, Charged
    <3>3. ListShrinks
      BY <3>1, <1>a, MoveShrinks
    <3>4. Requeue(jobs[id]).attempts = jobs[id].attempts
      BY <1>b, FreeOfCharge
    <3> QED
      BY <3>1, <3>2, <3>3, <3>4, <1>a, StmtKeepsBudget
  <2>4. CASE ClaimNextQueued(id)
    <3> SUFFICES ASSUME NEW j \in JobId PROVE BudgetOf(j)'
      BY DEF BudgetInv, BudgetOf
    <3>1. BudgetOf(j) /\ manual' = manual /\ Charged(id)
      BY <2>4, BudgetByJob DEF ClaimNextQueued, Write, ClaimableQueued, Charged
    <3>2. Resolving(jobs[id]).attempts = jobs[id].attempts
      BY <1>b, FreeOfCharge
    <3>3. jobs'[j].attempts = jobs[j].attempts
      BY <2>4, <3>2, <1>a, UpdateRow DEF ClaimNextQueued, Write
    <3>4. j # id => jobs'[j] = jobs[j] /\ snap'[j] = snap[j]
      BY <2>4, <1>a, UpdateRow DEF ClaimNextQueued, Write, RunnerTypeOK
    <3>5. Charged(j)' => Charged(j)
      BY <3>1, <3>4 DEF Charged
    <3> QED
      BY <3>1, <3>3, <3>5, <1>a, QuietKeepsBudget
  <2> QED
    BY <1>4, <2>1, <2>2, <2>3, <2>4 DEF RunnerJobStep
<1>5. CASE ApplyFailed \/ ResolveFailed \/ RunnerMarkFailed
  <2>1. /\ Update(cur, MarkFailed(jobs[cur])) /\ manual' = manual
        /\ \E next \in {"poll", "requeue"} : Done(cur, next)
        /\ pc \in {"apply", "resolve", "startfail"}
    BY <1>5 DEF ApplyFailed, ResolveFailed, RunnerMarkFailed, Write
  <2>2. Charged(cur)
    BY <2>1, <1>a, HeldIsCharged
  <2> QED
    BY <2>1, <2>2, <1>a, ChargeKeepsBudget
<1>6. CASE ApplyProgress \/ RunnerMarkDownloading \/ Resolved
  <2>1. /\ \E row : Update(cur, row) /\ row.attempts = jobs[cur].attempts
        /\ manual' = manual
        /\ \E next : Done(cur, next) \/ Goto(next)
        /\ pc \in {"apply", "record", "resolve"}
    <3>1. CASE ApplyProgress
      BY <3>1, <1>c, FreeOfCharge DEF ApplyProgress, Write
    <3>2. CASE RunnerMarkDownloading
      BY <3>2, <1>c, FreeOfCharge DEF RunnerMarkDownloading
    <3>3. CASE Resolved
      BY <3>3, <1>c, FreeOfCharge DEF Resolved, Write
    <3> QED  BY <1>6, <3>1, <3>2, <3>3
  <2>2. Charged(cur) /\ ListShrinks
    BY <2>1, <1>a, HeldIsCharged, MoveShrinks
  <2> QED
    BY <2>1, <2>2, <1>a, StmtKeepsBudget
<1>7. CASE ApplyComplete
  <2>1. ListShrinks /\ manual' = manual
    BY <1>7 DEF ApplyComplete, ListShrinks, Goto, Write, ReadOnly, storeVars
  <2>2. \/ jobs' = jobs
        \/ Update(cur, UpdateProgress(jobs[cur], "completed"))
    BY <1>7 DEF ApplyComplete, Write, ReadOnly, storeVars
  <2>3. /\ UpdateProgress(jobs[cur], "completed").attempts = jobs[cur].attempts
        /\ UpdateProgress(jobs[cur], "completed").status = "completed"
    BY <1>c, FreeOfCharge
  <2> QED
    BY <2>1, <2>2, <2>3, <1>a, ReadKeepsBudget, StmtKeepsBudget
<1>8. CASE RunnerMarkDecrypting \/ RunnerMarkCompleted \/ RunnerMarkPostprocessFailed
           \/ RunnerClearPassword
  <2>1. /\ \E row : /\ Update(cur, row) /\ row.attempts = jobs[cur].attempts
                    /\ row.status \in {jobs[cur].status, "decrypting", "completed", "decrypt_failed"}
        /\ manual' = manual
        /\ \E next : Done(cur, next) \/ Goto(next)
    <3>1. CASE RunnerMarkDecrypting
      BY <3>1, <1>c, FreeOfCharge DEF RunnerMarkDecrypting, Write
    <3>2. CASE RunnerMarkCompleted
      BY <3>2, <1>c, FreeOfCharge DEF RunnerMarkCompleted, Write
    <3>3. CASE RunnerMarkPostprocessFailed
      BY <3>3, <1>c, FreeOfCharge DEF RunnerMarkPostprocessFailed, Write
    <3>4. CASE RunnerClearPassword
      BY <3>4, <1>c, FreeOfCharge DEF RunnerClearPassword, Write
    <3> QED  BY <1>8, <3>1, <3>2, <3>3, <3>4
  <2>2. ListShrinks
    BY <2>1, <1>a, MoveShrinks
  <2>3. PICK row : /\ Update(cur, row) /\ row.attempts = jobs[cur].attempts
                   /\ row.status \in {jobs[cur].status, "decrypting", "completed", "decrypt_failed"}
    BY <2>1
  <2>4. row.status \in {"queued", "resolving", "downloading"} => Charged(cur)
    BY <2>3 DEF Charged
  <2> QED
    BY <2>1, <2>2, <2>3, <2>4, <1>a, StmtKeepsBudget
<1>9. CASE RunnerSchedule \/ CountDownloading \/ NothingQueued \/ ClaimConflict \/ CheckDeleted
           \/ StartFailed \/ StartLost \/ Started
           \/ PrepareOutputForStart \/ RemoveControlFile \/ RemoveControlFileFailed
  <2>1. UNCHANGED <<jobs, manual>>
    BY <1>9 DEF RunnerSchedule, CountDownloading, NothingQueued, ClaimConflict, CheckDeleted,
         StartFailed, StartLost, Started, PrepareOutputForStart, RemoveControlFile,
         RemoveControlFileFailed, ReadOnly, storeVars
  <2>2. snap' = snap \/ \E next : Done(cur, next)
    BY <1>9 DEF RunnerSchedule, CountDownloading, NothingQueued, ClaimConflict, CheckDeleted,
         StartFailed, StartLost, Started, PrepareOutputForStart, RemoveControlFile,
         RemoveControlFileFailed, Goto
  <2>3. ListShrinks
    BY <2>2, <1>a, MoveShrinks DEF ListShrinks
  <2> QED
    BY <2>1, <2>3, <1>a, ReadKeepsBudget
<1> QED
  BY <1>1, <1>2, <1>3, <1>4, <1>5, <1>6, <1>7, <1>8, <1>9 DEF RunnerStep

----------------------------------------------------------------------------
(* The other processes' steps.                                             *)

(* A step of a decrypt goroutine charges nothing.                          *)
LEMMA WorkerStepBudget ==
    ASSUME Inv, BudgetInv, NEW w \in Workers, WorkerNext(w)
    PROVE  BudgetInv'
<1> DEFINE id == gor[w].task.id
<1>a. StoreTypeOK /\ id \in JobId /\ manual' = manual
  <2>1. gor[w] \in [pc : WorkerPC, task : Task]
    BY DEF Inv, TypeOK, WorkerTypeOK
  <2>2. StoreTypeOK /\ id \in JobId
    BY <2>1 DEF Inv, TypeOK, Task
  <2> QED
    BY <2>2 DEF WorkerNext, WorkerStep, AcquireWorker, MegaDecrypted, MegaFailed,
         ArchiveSkipped, ArchiveDecrypted, ArchiveFailed, WorkerMarkCompleted, WorkerMarkFailed,
         WorkerClearPassword, WorkerStmt, UnmarkPending, ReleaseWorker, storeVars
<1>b. jobs[id] \in Row
  BY <1>a DEF StoreTypeOK
<1>c. ListShrinks
  BY DEF WorkerNext, localVars, ListShrinks
<1>1. CASE jobs' = jobs
  BY <1>1, <1>a, <1>c, ReadKeepsBudget
<1>2. CASE WorkerMarkCompleted(w) \/ WorkerMarkFailed(w) \/ WorkerClearPassword(w)
  <2>1. PICK row : /\ Update(id, row) /\ row.attempts = jobs[id].attempts
                   /\ row.status \in {jobs[id].status, "completed", "decrypt_failed"}
    BY <1>2, <1>b, FreeOfCharge DEF WorkerMarkCompleted, WorkerMarkFailed,
         WorkerClearPassword, WorkerStmt
  <2>2. row.status \in {"queued", "resolving", "downloading"} => Charged(id)
    BY <2>1 DEF Charged
  <2> QED
    BY <2>1, <2>2, <1>a, <1>c, StmtKeepsBudget
<1> QED
  BY <1>1, <1>2 DEF WorkerNext, WorkerStep, AcquireWorker, MegaDecrypted, MegaFailed,
       ArchiveSkipped, ArchiveDecrypted, ArchiveFailed, UnmarkPending, ReleaseWorker, storeVars

(* A requeue or a resume raises the budget by the attempt it exposes the   *)
(* job to; the other statements of clients take it out of the queue.       *)
LEMMA ClientStepBudget ==
    ASSUME Inv, BudgetInv, NEW c \in Clients, ClientNext(c)
    PROVE  BudgetInv'
<1>a. StoreTypeOK /\ req[c] \in Request
  BY DEF Inv, TypeOK, ServiceTypeOK
<1>b. snap' = snap /\ ListShrinks
  BY DEF ClientNext, localVars, ListShrinks
<1>1. CASE UNCHANGED storeVars
  BY <1>1, <1>a, <1>b, ReadKeepsBudget DEF storeVars
<1>2. CASE Execute(c)
  <2> DEFINE id == req[c].id
             row == RowAfter(req[c].stmt, jobs[id])
  <2>1. id \in JobId /\ req[c].stmt \in Stmt \ {"none"}
    BY <1>2, <1>a DEF Execute, Request
  <2>2. jobs[id] \in Row /\ Update(id, row)
    BY <1>2, <2>1, <1>a DEF Execute, StoreTypeOK
  <2>3. row.attempts = jobs[id].attempts
    BY <2>1, <2>2, FreeOfCharge DEF RowAfter, Stmt
  <2>4. CASE req[c].stmt \in {"requeue", "downloading"}
    <3> SUFFICES ASSUME NEW j \in JobId PROVE BudgetOf(j)'
      BY DEF BudgetInv, BudgetOf
    <3>1. BudgetOf(j) /\ jobs'[j].attempts = jobs[j].attempts
      BY <2>1, <2>2, <2>3, <1>a, BudgetByJob, UpdateRow
    <3>2. CASE j = id
      <4>1. manual'[j] = manual[j] + 1
        BY <1>2, <2>1, <2>4, <3>2, <1>a DEF Execute, StoreTypeOK
      <4> QED
        BY <3>1, <4>1, <1>a, BudgetTypes DEF BudgetOf
    <3>3. CASE j # id
      <4>1. manual'[j] = manual[j] /\ jobs'[j] = jobs[j]
        BY <1>2, <2>1, <2>2, <3>3, <1>a, UpdateRow DEF Execute, StoreTypeOK
      <4> QED
        BY <3>1, <4>1, <1>a, <1>b, QuietKeepsBudget DEF Charged
    <3> QED
      BY <3>2, <3>3
  <2>5. CASE req[c].stmt \notin {"requeue", "downloading"}
    <3>1. row.status \in {"decrypting", "deleted", "paused"}
      BY <2>1, <2>2, <2>5, FreeOfCharge DEF RowAfter, Stmt
    <3>2. manual' = manual
      BY <1>2, <2>1, <2>5, <1>a DEF Execute, StoreTypeOK
    <3> HIDE DEF row, id
    <3> QED
      BY <2>1, <2>2, <2>3, <3>1, <3>2, <1>a, <1>b, StmtKeepsBudget
  <2> QED
    BY <2>4, <2>5
<1> QED
  BY <1>1, <1>2 DEF ClientNext, ServiceStep, Retry, Remove, Pause, Resume, Begin, EngineCall

(* Creating, clearing and purging keep the budget.                         *)
LEMMA BulkStepBudget ==
    ASSUME Inv, BudgetInv, BulkNext
    PROVE  BudgetInv'
<1>a. StoreTypeOK /\ snap' = snap
  BY DEF Inv, TypeOK, BulkNext, localVars
<1> SUFFICES ASSUME NEW j \in JobId PROVE BudgetOf(j)'
  BY DEF BudgetInv, BudgetOf
<1>b. BudgetOf(j)
  BY BudgetByJob
<1>1. ASSUME NEW kind \in Kinds, Create(kind) PROVE BudgetOf(j)'
  <2>1. CASE j = seq + 1
    <3>1. jobs'[j].attempts = 0 /\ manual'[j] = 0
      BY <1>1, <2>1, <1>a DEF Create, CreateJob, StoreTypeOK, NewRow
    <3> QED
      BY <3>1, StoreAssumption DEF BudgetOf
  <2>2. CASE j # seq + 1
    <3>1. jobs'[j] = jobs[j] /\ manual'[j] = manual[j]
      BY <1>1, <2>2, <1>a DEF Create, CreateJob, StoreTypeOK
    <3> QED
      BY <3>1, <1>a, <1>b, QuietKeepsBudget DEF Charged
  <2> QED  BY <2>1, <2>2
<1>2. CASE Clear
  <2>1. jobs'[j] \in {jobs[j], RemoveRow(jobs[j])} /\ manual' = manual
    BY <1>2 DEF Clear, ClearCompleted
  <2>2. RemoveRow(jobs[j]).attempts = jobs[j].attempts /\ RemoveRow(jobs[j]).status = "deleted"
    BY <1>a, BudgetTypes, FreeOfCharge
  <2>3. jobs'[j].attempts = jobs[j].attempts /\ (Charged(j)' => Charged(j))
    BY <2>1, <2>2, <1>a DEF Charged
  <2> QED
    BY <2>1, <2>3, <1>a, <1>b, QuietKeepsBudget
<1>3. CASE Purge
  <2>1. jobs'[j].attempts = 0 /\ manual' = manual
    BY <1>3 DEF Purge, ClearAll, NoRow, NewRow
  <2> QED
    BY <2>1, <1>a, BudgetTypes DEF BudgetOf
<1> QED
  BY <1>1, <1>2, <1>3 DEF BulkNext, BulkStep

(* Every step of the system keeps every job within its budget.             *)
LEMMA BudgetStep == Inv /\ BudgetInv /\ [Next]_vars => BudgetInv'
<1> SUFFICES ASSUME Inv, BudgetInv, [Next]_vars PROVE BudgetInv'
  OBVIOUS
<1>a. StoreTypeOK /\ RunnerTypeOK
  BY DEF Inv, TypeOK
<1>1. CASE RunnerNext
  BY <1>1, RunnerStepBudget DEF RunnerNext
<1>2. CASE (\E w \in Workers : WorkerNext(w)) \/ (\E c \in Clients : ClientNext(c)) \/ BulkNext
  BY <1>2, WorkerStepBudget, ClientStepBudget, BulkStepBudget
<1>3. CASE (\E g \in Gids : EngineNext(g)) \/ (\E v \in AutoModes : SetAutoDecrypt(v)) \/ EngineRestart
           \/ UNCHANGED vars
  <2>1. UNCHANGED <<jobs, manual, snap>>
    BY <1>3 DEF EngineNext, SetAutoDecrypt, EngineRestart, vars, storeVars, localVars
  <2> QED
    BY <2>1, <1>a, ReadKeepsBudget DEF ListShrinks
<1>4. ASSUME NEW k \in JobId, TimerNext(k) PROVE BudgetInv'
  <2> SUFFICES ASSUME NEW j \in JobId PROVE BudgetOf(j)'
    BY DEF BudgetInv, BudgetOf
  <2>1. jobs[j] \in Row /\ BudgetOf(j) /\ manual' = manual /\ snap' = snap
    BY <1>4, <1>a, BudgetByJob DEF StoreTypeOK, TimerNext, RetryTimer, localVars
  <2>2. jobs'[j].attempts = jobs[j].attempts /\ jobs'[j].status = jobs[j].status
    BY <1>4, <2>1, <1>a DEF TimerNext, RetryTimer, StoreTypeOK, Row
  <2> QED
    BY <2>1, <2>2, <1>a, QuietKeepsBudget DEF Charged
<1>5. CASE DaemonCrash
  <2>1. UNCHANGED <<jobs, manual>> /\ ListShrinks
    BY <1>5 DEF DaemonCrash, storeVars, ListShrinks, NoRow, NewRow
  <2> QED
    BY <2>1, <1>a, ReadKeepsBudget
<1> QED
  BY <1>1, <1>2, <1>3, <1>4, <1>5 DEF Next

LEMMA BudgetInit == Init => BudgetInv
<1>1. ASSUME Init, NEW j \in JobId PROVE jobs[j].attempts = 0 /\ manual[j] = 0
  BY <1>1 DEF Init, StoreInit, NoRow, NewRow
<1> QED
  BY <1>1, StoreAssumption DEF BudgetInv

(* Whatever stale rows the runner acts on, however often it or aria2c is   *)
(* restarted and whatever clients do meanwhile, a job is charged for at    *)
(* most MaxAttempts attempts and one more per requeue or resume that a     *)
(* user asked for (ListRetryableFailed, MarkFailed, Requeue).              *)
THEOREM AttemptsBounded == Spec => []AttemptsBudget
<1>1. BudgetInv => AttemptsBudget
  BY DEF BudgetInv, AttemptsBudget
<1> QED
  BY <1>1, BudgetInit, BudgetStep, Invariance, PTL DEF Spec

----------------------------------------------------------------------------
(***************************************************************************)
(* The download slots: without resume no more than Concurrency jobs are    *)
(* downloading.  The bound itself is not inductive: updateActive can set a *)
(* job on its list to downloading again after a user has paused it, and a  *)
(* claimed job takes a slot only when its gid is recorded.  Both therefore *)
(* count as if they were downloading.                                      *)
(***************************************************************************)

(* The jobs that the runner may set to downloading.                        *)
Busy == {j \in JobId : snap[j].status \in {"downloading", "resolving"}}
Slots == ListJobs("downloading") \cup Busy

SlotInv ==
    /\ \A c \in Clients : req[c].stmt # "downloading"
    /\ Cardinality(Slots) <= Concurrency
    /\ pc = "claim" => Cardinality(Slots) < Concurrency

(* There are finitely many ids.                                            *)
LEMMA JobsFinite ==
    ASSUME NEW S, S \subseteq JobId
    PROVE  IsFiniteSet(S) /\ Cardinality(S) \in Nat
<1>1. IsFiniteSet(1 .. MaxJobs)
  BY FS_Interval, StoreAssumption
<1> DEFINE all == 1 .. MaxJobs
<1>2. IsFiniteSet(all) /\ S \in SUBSET all
  BY <1>1 DEF JobId
<1> HIDE DEF all
<1>3. IsFiniteSet(S)
  BY <1>2, FS_Subset
<1> QED
  BY <1>3, FS_CardinalityType

(* Slots that are only given up keep the bound.                            *)
LEMMA ShrinkKeepsSlots ==
    ASSUME SlotInv, Slots' \subseteq Slots, \A c \in Clients : req'[c].stmt # "downloading",
           pc' = "claim" => pc = "claim"
    PROVE  SlotInv'
<1>1. Slots \subseteq JobId /\ Slots' \subseteq JobId
  BY DEF Slots, Busy, ListJobs
<1>2. IsFiniteSet(Slots) /\ Cardinality(Slots) \in Nat /\ Cardinality(Slots') \in Nat
  BY <1>1, JobsFinite
<1>3. Cardinality(Slots') <= Cardinality(Slots)
  BY <1>2, FS_Subset
<1> QED
  BY <1>2, <1>3, RunnerAssumption DEF SlotInv

(* A statement takes a slot only for a job that has one.                   *)
LEMMA StmtSlots ==
    ASSUME StoreTypeOK, NEW id \in JobId, NEW row, Update(id, row), ListShrinks,
           (row.status = "downloading" /\ row.deletedAt = "null") => id \in Slots
    PROVE  Slots' \subseteq Slots
<1> SUFFICES ASSUME NEW j \in JobId, j \in Slots' PROVE j \in Slots
  BY DEF Slots, Busy, ListJobs
<1>1. CASE snap'[j].status \in {"downloading", "resolving"}
  BY <1>1 DEF ListShrinks, Slots, Busy
<1>2. CASE jobs'[j].status = "downloading" /\ jobs'[j].deletedAt = "null"
  <2>1. CASE jobs'[j] = jobs[j]
    BY <1>2, <2>1 DEF Slots, ListJobs, Listed, Exists
  <2>2. CASE jobs'[j] # jobs[j]
    BY <1>2, <2>2, UpdateRow
  <2> QED  BY <2>1, <2>2
<1> QED
  BY <1>1, <1>2 DEF Slots, Busy, ListJobs, Listed

(* Without a statement the slots are the same.                             *)
LEMMA ReadSlots ==
    ASSUME jobs' = jobs, ListShrinks
    PROVE  Slots' \subseteq Slots
BY DEF Slots, Busy, ListJobs, Listed, Exists, ListShrinks

(* Reading a list of jobs that have a slot, or need none, takes no slot.   *)
LEMMA LoadSlots ==
    ASSUME NEW ids, NEW next, Load(ids, next),
           \A j \in ids : jobs[j].status \in {"downloading", "resolving"}
                            => j \in ListJobs("downloading")
    PROVE  Slots' \subseteq Slots
<1>1. jobs' = jobs
  BY DEF Load, storeVars
<1>2. ASSUME NEW j \in JobId, snap'[j].status \in {"downloading", "resolving"}
      PROVE  j \in ListJobs("downloading")
  <2>1. CASE j \in ids
    BY <1>2, <2>1 DEF Load
  <2>2. CASE j \notin ids
    BY <1>2, <2>2 DEF Load, NoRow, NewRow
  <2> QED  BY <2>1, <2>2
<1> QED
  BY <1>1, <1>2 DEF Slots, Busy, ListJobs, Listed, Exists

(* The statuses that statements leave.                                     *)
LEMMA StatusAfter ==
    ASSUME NEW r \in Row
    PROVE  /\ Resolving(r).status = "resolving" /\ Requeue(r).status = "queued"
           /\ MarkFailed(r).status = "failed"   /\ MarkPaused(r).status = "paused"
           /\ RemoveRow(r).status = "deleted"
           /\ MarkCompleted(r).status = "completed" /\ MarkDecrypting(r).status = "decrypting"
           /\ MarkDecryptingRetry(r).status = "decrypting"
           /\ MarkPostprocessFailed(r).status = "decrypt_failed"
           /\ UpdateProgress(r, "completed").status = "completed"
           /\ ClearArchivePassword(r).status = r.status
           /\ ClearArchivePassword(r).deletedAt = r.deletedAt
BY DEF Resolving, Requeue, MarkFailed, MarkPaused, RemoveRow, MarkCompleted, MarkDecrypting,
       MarkDecryptingRetry, MarkPostprocessFailed, UpdateProgress, ClearArchivePassword, Row

----------------------------------------------------------------------------

(* A step of the runner keeps the bound.                                   *)
LEMMA RunnerStepSlots ==
    ASSUME Inv, SlotInv, RunnerStep
    PROVE  SlotInv'
<1>a. StoreTypeOK /\ RunnerTypeOK /\ ListInv /\ cur \in JobId
  BY DEF Inv, TypeOK, RunnerTypeOK
<1>b. \A j \in JobId : jobs[j] \in Row
  BY <1>a DEF StoreTypeOK
<1>c. jobs[cur] \in Row
  BY <1>a, <1>b
<1>d. req' = req
  BY DEF RunnerStep, RunnerJobStep, TellStatus, Dispatch, DispatchSkip,
       DispatchNothingToDo, DispatchNoPath, DispatchWait, DispatchTaskReady, Dispatching,
       AutoRequeue, ClaimNextQueued, ListActive, ApplyFailed, ApplyProgress, ApplyComplete,
       ListPending, RunnerMarkDecrypting, RunnerSchedule, RunnerMarkCompleted,
       RunnerMarkPostprocessFailed, RunnerClearPassword, ListRetryable, CountDownloading,
       NothingQueued, ClaimConflict, CheckDeleted, Resolved, ResolveFailed,
       PrepareOutputForStart, RemoveControlFile, RemoveControlFileFailed, Started,
       StartFailed, StartLost, RunnerMarkFailed, RunnerMarkDownloading, Load, Write,
       ReadOnly, elsewhere
<1>e. \A c \in Clients : req'[c].stmt # "downloading"
  BY <1>d DEF SlotInv
<1>1. ASSUME Slots' \subseteq Slots, pc' = "claim" => pc = "claim" PROVE SlotInv'
  BY <1>1, <1>e, ShrinkKeepsSlots
<1>2. CASE ListActive \/ ListPending \/ ListRetryable
  <2>1. \E next \in {"poll", "dispatch", "requeue"} :
           \/ Load({j \in ListJobs("downloading") : jobs[j].gid # NoGid}, next)
           \/ Load(ListPendingPostprocess, next) \/ Load(ListRetryableFailed, next)
    BY <1>2 DEF ListActive, ListPending, ListRetryable
  <2>2. \A j \in ListPendingPostprocess \cup ListRetryableFailed :
           jobs[j].status \notin {"downloading", "resolving"}
    BY DEF ListPendingPostprocess, PendingPostprocess, ListRetryableFailed
  <2>3. Slots' \subseteq Slots
    BY <2>1, <2>2, LoadSlots
  <2> QED
    BY <2>1, <2>3, <1>1 DEF Load
<1>3. CASE ApplyProgress \/ RunnerMarkDownloading \/ Resolved
  <2>1. /\ \E row : Update(cur, row)
        /\ \E next \in {"poll", "requeue", "prepare", "start"} : Done(cur, next) \/ Goto(next)
        /\ pc \in {"apply", "record", "resolve"}
    BY <1>3 DEF ApplyProgress, RunnerMarkDownloading, Resolved, Write
  <2>2. cur \in Slots
    BY <2>1, <1>a DEF ListInv, Polled, Slots, Busy
  <2>3. ListShrinks /\ pc' # "claim"
    BY <2>1, <1>a, MoveShrinks DEF Done, Goto
  <2> QED
    BY <2>1, <2>2, <2>3, <1>a, <1>1, StmtSlots
<1>4. CASE ApplyFailed \/ ResolveFailed \/ RunnerMarkFailed \/ RunnerMarkDecrypting
           \/ RunnerMarkCompleted \/ RunnerMarkPostprocessFailed \/ RunnerClearPassword
  <2>1. PICK row \in {MarkFailed(jobs[cur]), MarkDecrypting(jobs[cur]), MarkCompleted(jobs[cur]),
                      MarkPostprocessFailed(jobs[cur]), ClearArchivePassword(jobs[cur])} :
           Update(cur, row)
    BY <1>4 DEF ApplyFailed, ResolveFailed, RunnerMarkFailed, RunnerMarkDecrypting,
         RunnerMarkCompleted, RunnerMarkPostprocessFailed, RunnerClearPassword, Write
  <2>2. \E next \in {"poll", "requeue", "dispatch", "schedule", "clear"} :
           Done(cur, next) \/ Goto(next)
    BY <1>4 DEF ApplyFailed, ResolveFailed, RunnerMarkFailed, RunnerMarkDecrypting,
         RunnerMarkCompleted, RunnerMarkPostprocessFailed, RunnerClearPassword, Loop
  <2>3. ListShrinks /\ pc' # "claim"
    BY <2>2, <1>a, MoveShrinks DEF Done, Goto
  <2>4. (row.status = "downloading" /\ row.deletedAt = "null")
           => jobs[cur].status = "downloading" /\ jobs[cur].deletedAt = "null"
    BY <2>1, <1>c, StatusAfter
  <2>5. (row.status = "downloading" /\ row.deletedAt = "null") => cur \in Slots
    BY <2>4, <1>a DEF Slots, ListJobs, Listed, Exists
  <2> QED
    BY <2>1, <2>3, <2>5, <1>a, <1>1, StmtSlots
<1>5. CASE ApplyComplete
  <2>1. ListShrinks /\ pc' # "claim"
    BY <1>5 DEF ApplyComplete, ListShrinks, Goto
  <2>2. jobs' = jobs \/ Update(cur, UpdateProgress(jobs[cur], "completed"))
    BY <1>5 DEF ApplyComplete, Write, ReadOnly, storeVars
  <2>3. UpdateProgress(jobs[cur], "completed").status = "completed"
    BY <1>c, StatusAfter
  <2>4. Slots' \subseteq Slots
    BY <2>1, <2>2, <2>3, <1>a, ReadSlots, StmtSlots
  <2> QED
    BY <2>1, <2>4, <1>1
<1>6. CASE RunnerSchedule \/ NothingQueued \/ ClaimConflict \/ CheckDeleted
           \/ StartFailed \/ StartLost \/ Started
           \/ PrepareOutputForStart \/ RemoveControlFile \/ RemoveControlFileFailed
  <2>1. jobs' = jobs
    BY <1>6 DEF RunnerSchedule, NothingQueued, ClaimConflict, CheckDeleted,
         StartFailed, StartLost, Started, PrepareOutputForStart, RemoveControlFile,
         RemoveControlFileFailed, ReadOnly, storeVars
  <2>2. (snap' = snap \/ \E next : Done(cur, next)) /\ pc' # "claim"
    BY <1>6 DEF RunnerSchedule, NothingQueued, ClaimConflict, CheckDeleted,
         StartFailed, StartLost, Started, PrepareOutputForStart, RemoveControlFile,
         RemoveControlFileFailed, Goto, Done, Loop
  <2>3. ListShrinks
    BY <2>2, <1>a, MoveShrinks DEF ListShrinks
  <2> QED
    BY <2>1, <2>2, <2>3, <1>1, ReadSlots
<1>7. ASSUME NEW id \in JobId, TellStatus(id) \/ Dispatch(id) PROVE SlotInv'
  <2>1. jobs' = jobs
    BY <1>7 DEF TellStatus, Dispatch, DispatchSkip, DispatchNothingToDo, DispatchNoPath,
         DispatchWait, DispatchTaskReady, Dispatching, ReadOnly, storeVars
  <2>2. (Done(id, "poll") \/ Done(id, "dispatch") \/ UNCHANGED snap) /\ pc' # "claim"
    BY <1>7 DEF TellStatus, Dispatch, DispatchSkip, DispatchNothingToDo, DispatchNoPath,
         DispatchWait, DispatchTaskReady, Select, Done
  <2>3. ListShrinks
    BY <2>2, <1>a, MoveShrinks DEF ListShrinks
  <2> QED
    BY <2>1, <2>2, <2>3, <1>1, ReadSlots
<1>8. ASSUME NEW id \in JobId, AutoRequeue(id) PROVE SlotInv'
  <2>1. Update(id, Requeue(jobs[id])) /\ Done(id, "requeue")
    BY <1>8 DEF AutoRequeue, Write
  <2>2. Requeue(jobs[id]).status = "queued"
    BY <1>b, StatusAfter
  <2>3. ListShrinks /\ pc' # "claim"
    BY <2>1, <1>a, MoveShrinks DEF Done
  <2> QED
    BY <2>1, <2>2, <2>3, <1>a, <1>1, StmtSlots
<1>9. ASSUME NEW id \in JobId, ClaimNextQueued(id) PROVE SlotInv'
  <2>1. /\ pc = "claim" /\ pc' = "check" /\ Update(id, Resolving(jobs[id]))
        /\ snap' = [snap EXCEPT ![id] = Resolving(jobs[id])]
    BY <1>9 DEF ClaimNextQueued, Write
  <2>2. Resolving(jobs[id]).status = "resolving"
    BY <1>b, StatusAfter
  <2>3. \A j \in JobId \ {id} : jobs'[j] = jobs[j] /\ snap'[j] = snap[j]
    BY <2>1, <1>a, UpdateRow DEF RunnerTypeOK
  <2>4. Slots' \subseteq Slots \cup {id}
    BY <2>3 DEF Slots, Busy, ListJobs, Listed, Exists
  <2>5. Slots \subseteq JobId /\ Slots' \subseteq JobId
    BY DEF Slots, Busy, ListJobs
  <2>6. IsFiniteSet(Slots) /\ Cardinality(Slots) \in Nat /\ Cardinality(Slots') \in Nat
    BY <2>5, JobsFinite
  <2>7. /\ IsFiniteSet(Slots \cup {id}) /\ Cardinality(Slots \cup {id}) \in Nat
        /\ Cardinality(Slots \cup {id}) <= Cardinality(Slots) + 1
    <3>1. IsFiniteSet(Slots \cup {id})
          /\ Cardinality(Slots \cup {id})
               = (IF id \in Slots THEN Cardinality(Slots) ELSE Cardinality(Slots) + 1)
      BY <2>6, FS_AddElement
    <3> QED
      BY <2>6, <3>1
  <2>8. Cardinality(Slots') <= Cardinality(Slots \cup {id})
    BY <2>4, <2>7, FS_Subset
  <2>9. Cardinality(Slots) < Concurrency
    BY <2>1 DEF SlotInv
  <2> QED
    BY <2>1, <2>6, <2>7, <2>8, <2>9, <1>e, RunnerAssumption DEF SlotInv
<1>10. CASE CountDownloading
  <2>1. /\ Held = {} /\ snap' = snap /\ jobs' = jobs
        /\ pc' = "claim" => Cardinality(ListJobs("downloading")) < Concurrency
    BY <1>10 DEF CountDownloading, Goto, ReadOnly, storeVars
  <2>2. Busy = {}
    BY <2>1 DEF Busy, Held, Exists
  <2>3. Slots = ListJobs("downloading") /\ Slots' = Slots
    BY <2>1, <2>2 DEF Slots, Busy, ListJobs, Listed, Exists
  <2> QED
    BY <2>1, <2>3, <1>e DEF SlotInv
<1> QED
  BY <1>2, <1>3, <1>4, <1>5, <1>6, <1>7, <1>8, <1>9, <1>10 DEF RunnerStep, RunnerJobStep

(* A decrypt goroutine sets no job to downloading.                         *)
LEMMA WorkerStepSlots ==
    ASSUME Inv, SlotInv, NEW w \in Workers, WorkerNext(w)
    PROVE  SlotInv'
<1> DEFINE id == gor[w].task.id
<1>1. StoreTypeOK /\ id \in JobId
  <2>1. gor[w] \in [pc : WorkerPC, task : Task]
    BY DEF Inv, TypeOK, WorkerTypeOK
  <2> QED
    BY <2>1 DEF Inv, TypeOK, Task
<1>2. jobs[id] \in Row
  BY <1>1 DEF StoreTypeOK
<1>3. ListShrinks /\ pc' = pc /\ req' = req
  BY DEF WorkerNext, localVars, ListShrinks
<1>4. CASE jobs' = jobs
  BY <1>3, <1>4, ReadSlots, ShrinkKeepsSlots DEF SlotInv
<1>5. CASE WorkerMarkCompleted(w) \/ WorkerMarkFailed(w) \/ WorkerClearPassword(w)
  <2>1. PICK row \in {MarkCompleted(jobs[id]), MarkPostprocessFailed(jobs[id]),
                      ClearArchivePassword(jobs[id])} : Update(id, row)
    BY <1>5 DEF WorkerMarkCompleted, WorkerMarkFailed, WorkerClearPassword, WorkerStmt
  <2>2. (row.status = "downloading" /\ row.deletedAt = "null")
           => jobs[id].status = "downloading" /\ jobs[id].deletedAt = "null"
    BY <2>1, <1>2, StatusAfter
  <2>3. (row.status = "downloading" /\ row.deletedAt = "null") => id \in Slots
    BY <2>2, <1>1 DEF Slots, ListJobs, Listed, Exists
  <2>4. Slots' \subseteq Slots
    BY <2>1, <2>3, <1>1, <1>3, StmtSlots
  <2> QED
    BY <2>4, <1>3, ShrinkKeepsSlots DEF SlotInv
<1> QED
  BY <1>4, <1>5 DEF WorkerNext, WorkerStep, AcquireWorker, MegaDecrypted, MegaFailed,
       ArchiveSkipped, ArchiveDecrypted, ArchiveFailed, UnmarkPending, ReleaseWorker, storeVars

(* Of the clients' operations only resume sets a job to downloading.       *)
LEMMA ClientStepSlots ==
    ASSUME "resume" \notin Ops, Inv, SlotInv, NEW c \in Clients, ClientNext(c)
    PROVE  SlotInv'
<1>1. StoreTypeOK /\ req \in [Clients -> Request]
  BY DEF Inv, TypeOK, ServiceTypeOK
<1>2. ListShrinks /\ pc' = pc
  BY DEF ClientNext, localVars, ListShrinks
<1>3. ASSUME NEW id \in JobId, Retry(c, id) \/ Remove(c, id) \/ Pause(c, id) \/ Resume(c, id)
      PROVE  SlotInv'
  <2>1. jobs' = jobs /\ ~ Resume(c, id)
    BY <1>3 DEF Retry, Remove, Pause, Resume, Begin, storeVars
  <2>2. \E plan \in {RetryPlan(jobs[id]), RemovePlan(jobs[id]), PausePlan(jobs[id])} :
           req' = [req EXCEPT ![c] = [call |-> plan.call, stmt |-> plan.stmt,
                                      id |-> id, gid |-> jobs[id].gid]]
    BY <1>3, <2>1 DEF Retry, Remove, Pause, Begin
  <2>3. \A plan \in {RetryPlan(jobs[id]), RemovePlan(jobs[id]), PausePlan(jobs[id])} :
           plan.stmt # "downloading"
    BY DEF RetryPlan, RemovePlan, PausePlan, NoPlan, Plan
  <2>4. \A d \in Clients : req'[d].stmt # "downloading"
    BY <2>2, <2>3, <1>1 DEF SlotInv
  <2> QED
    BY <2>1, <2>4, <1>2, ReadSlots, ShrinkKeepsSlots
<1>4. CASE EngineCall(c)
  <2>1. jobs' = jobs /\ \E out : req' = [req EXCEPT ![c] = AfterCall(@, out)]
    BY <1>4 DEF EngineCall, storeVars
  <2>2. \A out : AfterCall(req[c], out).stmt \in {req[c].stmt, "requeue", "none"}
    BY <1>1 DEF AfterCall, NoRequest, Request
  <2>3. \A d \in Clients : req'[d].stmt # "downloading"
    BY <2>1, <2>2, <1>1 DEF SlotInv
  <2> QED
    BY <2>1, <2>3, <1>2, ReadSlots, ShrinkKeepsSlots
<1>5. CASE Execute(c)
  <2> DEFINE id == req[c].id
             row == RowAfter(req[c].stmt, jobs[id])
  <2>1. id \in JobId /\ req[c].stmt \in Stmt \ {"none", "downloading"}
    BY <1>5, <1>1 DEF Execute, Request, SlotInv
  <2>2. jobs[id] \in Row /\ Update(id, row) /\ req' = [req EXCEPT ![c] = NoRequest]
    BY <1>5, <2>1, <1>1 DEF Execute, StoreTypeOK
  <2>3. row.status # "downloading"
    BY <2>1, <2>2, StatusAfter DEF RowAfter, Stmt
  <2>4. \A d \in Clients : req'[d].stmt # "downloading"
    BY <2>2, <1>1 DEF SlotInv, NoRequest
  <2> HIDE DEF id, row
  <2>5. Slots' \subseteq Slots
    BY <2>1, <2>2, <2>3, <1>1, <1>2, StmtSlots
  <2> QED
    BY <2>4, <2>5, <1>2, ShrinkKeepsSlots
<1> QED
  BY <1>3, <1>4, <1>5 DEF ClientNext, ServiceStep

(* Every step keeps the bound, as long as nobody resumes.                  *)
LEMMA SlotStep == "resume" \notin Ops /\ Inv /\ SlotInv /\ [Next]_vars => SlotInv'
<1> SUFFICES ASSUME "resume" \notin Ops, Inv, SlotInv, [Next]_vars PROVE SlotInv'
  OBVIOUS
<1>a. StoreTypeOK /\ RunnerTypeOK
  BY DEF Inv, TypeOK
<1>1. CASE RunnerNext
  BY <1>1, RunnerStepSlots DEF RunnerNext
<1>2. CASE (\E w \in Workers : WorkerNext(w)) \/ (\E c \in Clients : ClientNext(c))
  BY <1>2, WorkerStepSlots, ClientStepSlots
<1>3. CASE (\E g \in Gids : EngineNext(g)) \/ (\E v \in AutoModes : SetAutoDecrypt(v)) \/ EngineRestart
           \/ UNCHANGED vars
  <2>1. UNCHANGED <<jobs, snap, pc, req>>
    BY <1>3 DEF EngineNext, SetAutoDecrypt, EngineRestart, vars, storeVars, localVars
  <2> QED
    BY <2>1, ReadSlots, ShrinkKeepsSlots DEF ListShrinks, SlotInv
<1>4. ASSUME NEW k \in JobId, TimerNext(k) PROVE SlotInv'
  <2>1. UNCHANGED <<snap, pc, req>>
    BY <1>4 DEF TimerNext, localVars
  <2>2. \A j \in JobId : jobs'[j].status = jobs[j].status /\ jobs'[j].deletedAt = jobs[j].deletedAt
    BY <1>4, <1>a DEF TimerNext, RetryTimer, StoreTypeOK, Row
  <2>3. Slots' \subseteq Slots
    BY <2>1, <2>2 DEF Slots, Busy, ListJobs, Listed, Exists
  <2> QED
    BY <2>1, <2>3, ShrinkKeepsSlots DEF SlotInv
<1>5. CASE BulkNext
  <2>1. UNCHANGED <<snap, pc, req>>
    BY <1>5 DEF BulkNext, BulkStep, Create, Clear, Purge, localVars
  <2>2. \A j \in JobId : \/ jobs'[j].status # "downloading"
                         \/ jobs'[j] = jobs[j]
    <3>1. ASSUME NEW kind \in Kinds, Create(kind), NEW j \in JobId
          PROVE  jobs'[j].status # "downloading" \/ jobs'[j] = jobs[j]
      BY <3>1, <1>a DEF Create, CreateJob, StoreTypeOK, NewRow
    <3>2. ASSUME Clear, NEW j \in JobId
          PROVE  jobs'[j].status # "downloading" \/ jobs'[j] = jobs[j]
      <4>1. jobs[j] \in Row
        BY <1>a DEF StoreTypeOK
      <4> QED
        BY <3>2, <4>1, StatusAfter DEF Clear, ClearCompleted
    <3>3. ASSUME Purge, NEW j \in JobId PROVE jobs'[j].status # "downloading"
      BY <3>3 DEF Purge, ClearAll, NoRow, NewRow
    <3> QED
      BY <1>5, <3>1, <3>2, <3>3 DEF BulkNext, BulkStep
  <2>3. Slots' \subseteq Slots
    BY <2>1, <2>2 DEF Slots, Busy, ListJobs, Listed, Exists
  <2> QED
    BY <2>1, <2>3, ShrinkKeepsSlots DEF SlotInv
<1>6. CASE DaemonCrash
  <2>1. jobs' = jobs /\ ListShrinks /\ pc' = "idle" /\ \A c \in Clients : req'[c].stmt = "none"
    BY <1>6 DEF DaemonCrash, storeVars, ListShrinks, NoRow, NewRow, NoRequest
  <2> QED
    BY <2>1, ReadSlots, ShrinkKeepsSlots
<1> QED
  BY <1>1, <1>2, <1>3, <1>4, <1>5, <1>6 DEF Next

(***************************************************************************)
(* The count that Runner.tick makes before it claims a job is enough to    *)
(* keep the number of downloads within the setting, however updateActive's *)
(* stale list, pauses, retries, purges, crashes and lost replies interfere *)
(* between the count and the recording of the gid; only resume, which sets *)
(* a job to downloading without counting, can exceed it.                   *)
(***************************************************************************)
THEOREM ConcurrencyBounded == "resume" \notin Ops => (Spec => []ConcurrencyBound)
<1> SUFFICES ASSUME "resume" \notin Ops PROVE Spec => []ConcurrencyBound
  OBVIOUS
<1>1. Init => SlotInv
  <2> SUFFICES ASSUME Init PROVE SlotInv
    OBVIOUS
  <2>1. Slots = {}
    BY DEF Init, StoreInit, RunnerStopped, NoRow, NewRow, Slots, Busy, ListJobs, Listed
  <2>2. \A c \in Clients : req[c].stmt # "downloading"
    BY DEF Init, ServiceInit, NoRequest
  <2> QED
    BY <2>1, <2>2, FS_EmptySet, RunnerAssumption DEF SlotInv
<1>2. Inv /\ SlotInv /\ [Next]_vars => SlotInv'
  BY SlotStep
<1>3. SlotInv => ConcurrencyBound
  <2> SUFFICES ASSUME SlotInv PROVE ConcurrencyBound
    OBVIOUS
  <2>1. Slots \subseteq JobId /\ ListJobs("downloading") \subseteq JobId
        /\ ListJobs("downloading") \in SUBSET Slots
    BY DEF Slots, Busy, ListJobs
  <2>2. IsFiniteSet(Slots) /\ Cardinality(Slots) \in Nat /\ Cardinality(ListJobs("downloading")) \in Nat
    BY <2>1, JobsFinite
  <2>3. Cardinality(ListJobs("downloading")) <= Cardinality(Slots)
    BY <2>1, <2>2, FS_Subset
  <2> QED
    BY <2>2, <2>3, RunnerAssumption DEF SlotInv, ConcurrencyBound
<1> QED
  BY <1>1, <1>2, <1>3, Invariance, PTL DEF Spec
=============================================================================
