------------------------------ MODULE DLQProofs ------------------------------
(***************************************************************************)
(* Theorems about DLQ, for every number of jobs, gids, clients and         *)
(* goroutines and every bound.                                             *)
(***************************************************************************)
EXTENDS DLQ, TLAPS

USE StoreAssumption, DLQAssumption DEF JobId

(* The types of everything but the runner's own variables.                 *)
SharedTypeOK == StoreTypeOK /\ EngineTypeOK /\ WorkerTypeOK /\ ServiceTypeOK

(* A gid waiting to be recorded is one that aria2c returned.               *)
HandInv == pc = "record" => hand \in Gids

(* NoRow is a row: there is a kind to give it.                             *)
LEMMA NoRowType == NoRow \in Row
<1>1. (CHOOSE k \in Kinds : TRUE) \in Kinds
  BY StoreAssumption
<1> QED
  BY <1>1 DEF NoRow, NewRow, Row, Status, Kind

(* A row, and in particular NoRow, names a file.                           *)
LEMMA RowKind ==
    /\ \A r \in Row : r.kind \in Kinds /\ r.kind.file \in Name
    /\ NoRow.kind \in Kinds /\ NoRow.kind.file \in Name
<1>1. \A k \in Kinds : k.file \in Name
  BY StoreAssumption DEF Kind
<1>2. \A r \in Row : r.kind \in Kinds
  BY DEF Row
<1> QED
  BY <1>1, <1>2, NoRowType

(* NoOwner, NoTask and NoWork have the types they stand in for.            *)
LEMMA NothingType == NoOwner \in Owner /\ NoTask \in Task /\ NoWork \in Work
<1>1. NoOwner \in Owner  BY RowKind DEF NoOwner, Owner
<1>2. NoTask \in Task  BY RowKind DEF NoTask, Task
<1>3. NoWork \in Work  BY RowKind DEF NoWork, Work
<1> QED
  BY <1>1, <1>2, <1>3

(* The first volume of a set has a name, and os.Stat finds one of two.     *)
LEMMA EntryType ==
    ASSUME NEW n \in Name
    PROVE  /\ MultipartArchiveFirstVolume(n) \in Name
           /\ ResolveArchiveEntryPath(n) \subseteq Name
<1>1. MultipartArchiveFirstVolume(n) \in Name
  BY DEF MultipartArchiveFirstVolume, NameOf, Name, Form
<1> QED
  BY <1>1 DEF ResolveArchiveEntryPath

(* A submitted job is stored as a row.                                     *)
LEMMA NewRowType == ASSUME NEW k \in Kinds PROVE NewRow(k) \in Row
BY DEF NewRow, Row, Status, Kind

(* Every UPDATE statement of the store leaves a row.                       *)
LEMMA RowOpsType ==
    ASSUME NEW r \in Row
    PROVE  /\ Resolving(r) \in Row             /\ \A name \in {"null", "set"} : UpdateResolving(r, name) \in Row
           /\ MarkPaused(r) \in Row            /\ MarkDownloadingStatus(r) \in Row
           /\ MarkCompleted(r) \in Row         /\ MarkDecrypting(r) \in Row
           /\ MarkDecryptingRetry(r) \in Row   /\ MarkPostprocessFailed(r) \in Row
           /\ ClearArchivePassword(r) \in Row  /\ RemoveRow(r) \in Row
           /\ MarkFailed(r) \in Row            /\ Requeue(r) \in Row
<1>1. Resolving(r) \in Row  BY DEF Resolving, Status, Row
<1>2. \A name \in {"null", "set"} : UpdateResolving(r, name) \in Row  BY DEF UpdateResolving, Row
<1>3. MarkPaused(r) \in Row  BY DEF MarkPaused, Status, Row
<1>4. MarkDownloadingStatus(r) \in Row  BY DEF MarkDownloadingStatus, Status, Row
<1>5. MarkCompleted(r) \in Row  BY DEF MarkCompleted, Status, Row
<1>6. MarkDecrypting(r) \in Row  BY DEF MarkDecrypting, Status, Row
<1>7. MarkDecryptingRetry(r) \in Row  BY DEF MarkDecryptingRetry, Status, Row
<1>8. MarkPostprocessFailed(r) \in Row  BY DEF MarkPostprocessFailed, Status, Row
<1>9. ClearArchivePassword(r) \in Row  BY DEF ClearArchivePassword, Row
<1>10. RemoveRow(r) \in Row  BY DEF RemoveRow, Status, Row
<1>11. MarkFailed(r) \in Row
  <2>1. r.attempts + 1 \in Nat  BY DEF Row
  <2> QED  BY <2>1 DEF MarkFailed, Status, Row
<1>12. Requeue(r) \in Row  BY DEF Requeue, Status, Row
<1> QED
  BY <1>1, <1>2, <1>3, <1>4, <1>5, <1>6, <1>7, <1>8, <1>9, <1>10, <1>11, <1>12

(* MarkDownloading keeps the type of a row.                                *)
LEMMA MarkDownloadingType ==
    ASSUME NEW r \in Row, NEW g \in Gids \cup {NoGid}
    PROVE  MarkDownloading(r, g) \in Row
BY DEF MarkDownloading, Status, Row

(* UpdateProgress keeps the type of a row.                                 *)
LEMMA UpdateProgressType ==
    ASSUME NEW r \in Row, NEW st \in Status
    PROVE  UpdateProgress(r, st) \in Row
BY DEF UpdateProgress, Row

(* UPDATE ... WHERE id = ? keeps the table a table.                        *)
LEMMA UpdateType ==
    ASSUME StoreTypeOK, NEW id \in JobId, NEW row \in Row, Update(id, row)
    PROVE  jobs' \in [JobId -> Row]
BY DEF StoreTypeOK, Update

(* What a statement of the runner leaves of the types.                     *)
LEMMA WriteType ==
    ASSUME TypeOK, NEW id \in JobId, NEW row \in Row, Write(id, row)
    PROVE  SharedTypeOK' /\ auto' = auto
<1>1. jobs' \in [JobId -> Row]
  BY UpdateType DEF TypeOK, Write
<1> QED
  BY <1>1 DEF TypeOK, SharedTypeOK, StoreTypeOK, EngineTypeOK, WorkerTypeOK,
              ServiceTypeOK, Write, storeVars, engineVars, workerVars, elsewhere

(* What a step of the runner that only reads leaves of the types.          *)
LEMMA ReadOnlyType ==
    ASSUME TypeOK, ReadOnly
    PROVE  SharedTypeOK' /\ auto' = auto
BY DEF TypeOK, SharedTypeOK, StoreTypeOK, EngineTypeOK, WorkerTypeOK,
       ServiceTypeOK, ReadOnly, storeVars, engineVars, workerVars, elsewhere

(* The two ways in which the runner moves on keep its own types.           *)
LEMMA GotoType ==
    ASSUME RunnerTypeOK, NEW next \in RunnerPC, Goto(next), auto' = auto
    PROVE  RunnerTypeOK'
BY DEF RunnerTypeOK, Goto

(* Leaving a job of the list keeps the types of the runner.                *)
LEMMA DoneType ==
    ASSUME RunnerTypeOK, NEW id \in JobId, NEW next \in RunnerPC, Done(id, next),
           auto' = auto
    PROVE  RunnerTypeOK'
BY NoRowType, NothingType DEF RunnerTypeOK, Done

(* Reading a list keeps the types.                                         *)
LEMMA LoadType ==
    ASSUME TypeOK, NEW ids, NEW next \in RunnerPC, Load(ids, next)
    PROVE  SharedTypeOK' /\ RunnerTypeOK'
<1>1. SharedTypeOK' /\ auto' = auto
  BY ReadOnlyType DEF Load, ReadOnly
<1>2. snap' \in [JobId -> Row]
  BY NoRowType DEF TypeOK, StoreTypeOK, Load
<1> QED
  BY <1>1, <1>2 DEF TypeOK, RunnerTypeOK, Load

(* What the outcome operators of aria2c can return.                        *)
LEMMA OutcomeType ==
    ASSUME EngineTypeOK, NEW g \in Gids
    PROVE  /\ \A out \in RemoveOutcome(g) \cup PauseOutcome(g) \cup UnpauseOutcome(g) :
                 out[1] \in TaskState
           /\ TellStatusOutcome(g) \subseteq TaskState \cup {"not_found", "rpc_error"}
BY DEF EngineTypeOK, RemoveOutcome, PauseOutcome, UnpauseOutcome, Lost, TaskState,
       TellStatusOutcome

(* The decryptTask built for a job, and the goroutine started for it.      *)
LEMMA BuildType ==
    ASSUME NEW id, NEW r, NEW path, NEW entry \in Name
    PROVE  BuildDecryptTask(id, r, path, entry) \in Work
BY DEF BuildDecryptTask, Work, Todo

(* scheduleDecrypt keeps the types of the goroutines.                      *)
LEMMA ScheduleType ==
    ASSUME WorkerTypeOK, NEW task \in Task, ScheduleDecrypt(task)
    PROVE  WorkerTypeOK'
<1>1. CASE task.id \in pending
  BY <1>1 DEF ScheduleDecrypt, WorkerTypeOK, workerVars
<1>2. CASE task.id \notin pending
  <2>1. task.id \in JobId
    BY DEF Task
  <2>2. [pc |-> "waiting", task |-> task] \in [pc : WorkerPC, task : Task]
    BY DEF WorkerPC
  <2> QED
    BY <1>2, <2>1, <2>2 DEF ScheduleDecrypt, WorkerTypeOK
<1> QED
  BY <1>1, <1>2

(* The runner's steps keep the types: first the ones that pick a job.      *)
LEMMA RunnerJobStepType ==
    ASSUME TypeOK, ListInv, NEW id \in JobId, RunnerJobStep(id)
    PROVE  SharedTypeOK' /\ RunnerTypeOK'
<1> USE DEF RunnerPC
<1>a. RunnerTypeOK /\ SharedTypeOK
  BY DEF TypeOK, SharedTypeOK
<1>b. jobs[id] \in Row /\ snap[id] \in Row
  BY <1>a DEF SharedTypeOK, StoreTypeOK, RunnerTypeOK
<1>1. CASE TellStatus(id)
  <2>1. SharedTypeOK' /\ auto' = auto
    BY <1>1, ReadOnlyType DEF TellStatus
  <2>2. CASE Done(id, "poll")
    BY <2>1, <2>2, <1>a, DoneType
  <2>3. CASE ~ Done(id, "poll")
    <3>1. PICK out \in TellStatusOutcome(snap[id].gid) :
             out # "rpc_error" /\ pc' = "apply" /\ cur' = id /\ reply' = out
             /\ UNCHANGED <<snap, work, hand>>
      BY <1>1, <2>3 DEF TellStatus
    <3>2. snap[id].gid \in Gids
      BY <1>1, <1>b DEF TellStatus, ListInv, Polled, Row
    <3>3. out \in TaskState \cup {"not_found"}
      BY <3>1, <3>2, <1>a, OutcomeType DEF SharedTypeOK
    <3> QED
      BY <2>1, <3>1, <3>3, <1>a DEF RunnerTypeOK
  <2> QED
    BY <2>2, <2>3
<1>2. CASE Dispatch(id)
  <2>1. SharedTypeOK' /\ auto' = auto
    BY <1>2, ReadOnlyType DEF Dispatch, DispatchSkip, DispatchNothingToDo,
         DispatchNoPath, DispatchWait, DispatchTaskReady, Dispatching
  <2>2. ResolveArchiveEntryPath(snap[id].kind.file) \subseteq Name
    BY <1>b, RowKind, EntryType
  <2>3. PICK entry \in Name :
           Done(id, "dispatch") \/ \E next \in RunnerPC : Select(id, entry, next)
    BY <1>2, <2>2 DEF Dispatch, DispatchSkip, DispatchNothingToDo, DispatchNoPath,
         DispatchWait, DispatchTaskReady
  <2>4. ASSUME NEW next \in RunnerPC, Select(id, entry, next) PROVE RunnerTypeOK'
    <3>1. DispatchTask(id, entry) \in Work
      BY BuildType DEF DispatchTask
    <3> QED
      BY <2>1, <2>4, <3>1, <1>a DEF Select, RunnerTypeOK
  <2> QED
    BY <2>1, <2>3, <2>4, <1>a, DoneType
<1>3. CASE AutoRequeue(id)
  <2>1. Requeue(jobs[id]) \in Row
    BY <1>b, RowOpsType
  <2> QED
    BY <1>3, <2>1, <1>a, WriteType, DoneType DEF AutoRequeue
<1>4. CASE ClaimNextQueued(id)
  <2>1. Resolving(jobs[id]) \in Row
    BY <1>b, RowOpsType
  <2>2. SharedTypeOK' /\ auto' = auto
    BY <1>4, <2>1, WriteType DEF ClaimNextQueued
  <2> QED
    BY <1>4, <2>1, <2>2, <1>a DEF ClaimNextQueued, RunnerTypeOK
<1> QED
  BY <1>1, <1>2, <1>3, <1>4 DEF RunnerJobStep

(* Then the others.                                                        *)
LEMMA RunnerStepType ==
    ASSUME TypeOK, ListInv, HandInv, RunnerStep
    PROVE  SharedTypeOK' /\ RunnerTypeOK'
<1> USE DEF RunnerPC
<1>a. RunnerTypeOK /\ SharedTypeOK
  BY DEF TypeOK, SharedTypeOK
<1>b. \A j \in JobId : jobs[j] \in Row /\ snap[j] \in Row
  BY <1>a DEF SharedTypeOK, StoreTypeOK, RunnerTypeOK
<1>c. cur \in JobId
  BY <1>a DEF RunnerTypeOK
<1>d. Loop \in RunnerPC
  BY DEF Loop
<1>e. pc = "record" => hand \in Gids
  BY DEF HandInv
<1>1. CASE ListActive \/ ListPending \/ ListRetryable
  BY <1>1, LoadType DEF ListActive, ListPending, ListRetryable
<1>2. CASE ApplyFailed
  <2>1. MarkFailed(jobs[cur]) \in Row
    BY <1>b, <1>c, RowOpsType
  <2> QED
    BY <1>2, <2>1, <1>a, <1>c, WriteType, DoneType DEF ApplyFailed
<1>3. CASE ApplyProgress
  <2>1. UpdateProgress(jobs[cur], "downloading") \in Row
    BY <1>b, <1>c, UpdateProgressType DEF Status
  <2> QED
    BY <1>3, <2>1, <1>a, <1>c, WriteType, DoneType DEF ApplyProgress
<1>4. CASE ApplyComplete
  <2>1. UpdateProgress(jobs[cur], "completed") \in Row
    BY <1>b, <1>c, UpdateProgressType DEF Status
  <2>2. ResolveArchiveEntryPath(snap[cur].kind.file) \subseteq Name
    BY <1>b, <1>c, RowKind, EntryType
  <2>3. CASE Write(cur, UpdateProgress(jobs[cur], "completed")) /\ Goto("complete")
    BY <2>1, <2>3, <1>a, <1>c, WriteType, GotoType
  <2>4. ASSUME NEW entry \in Name, ReadOnly, pc' = "mark",
               work' = BuildDecryptTask(cur, snap[cur], TRUE, entry),
               UNCHANGED <<snap, cur, reply, hand>>
        PROVE  SharedTypeOK' /\ RunnerTypeOK'
    <3>1. BuildDecryptTask(cur, snap[cur], TRUE, entry) \in Work
      BY BuildType
    <3>2. SharedTypeOK' /\ auto' = auto
      BY <2>4, ReadOnlyType
    <3> QED
      BY <2>4, <3>1, <3>2, <1>a DEF RunnerTypeOK
  <2> QED
    BY <1>4, <2>2, <2>3, <2>4 DEF ApplyComplete
<1>5. CASE RunnerMarkDecrypting
  <2>1. MarkDecrypting(jobs[cur]) \in Row
    BY <1>b, <1>c, RowOpsType
  <2> QED
    BY <1>5, <2>1, <1>a, <1>c, <1>d, WriteType, DoneType, GotoType DEF RunnerMarkDecrypting
<1>6. CASE RunnerMarkCompleted
  <2>1. MarkCompleted(jobs[cur]) \in Row
    BY <1>b, <1>c, RowOpsType
  <2> QED
    BY <1>6, <2>1, <1>a, <1>c, <1>d, WriteType, DoneType, GotoType DEF RunnerMarkCompleted
<1>7. CASE RunnerMarkPostprocessFailed
  <2>1. MarkPostprocessFailed(jobs[cur]) \in Row
    BY <1>b, <1>c, RowOpsType
  <2> QED
    BY <1>7, <2>1, <1>a, <1>c, <1>d, WriteType, DoneType, GotoType DEF RunnerMarkPostprocessFailed
<1>8. CASE RunnerClearPassword
  <2>1. ClearArchivePassword(jobs[cur]) \in Row
    BY <1>b, <1>c, RowOpsType
  <2> QED
    BY <1>8, <2>1, <1>a, <1>c, <1>d, WriteType, DoneType, GotoType DEF RunnerClearPassword
<1>9. CASE Resolved
  <2>1. PICK name \in ResolveWithSite(snap[cur].kind.site) \ {"error"} :
           Write(cur, UpdateResolving(jobs[cur], name))
    BY <1>9 DEF Resolved
  <2>2. snap[cur].kind.site \in {"http", "webshare", "mega"}
    BY <1>b, <1>c DEF Row, Kind
  <2>3. name \in {"null", "set"}
    BY <2>1, <2>2 DEF ResolveWithSite, DirectResolve, WebshareResolve, MegaResolve, MegaFilename
  <2>4. UpdateResolving(jobs[cur], name) \in Row
    BY <2>3, <1>b, <1>c, RowOpsType
  <2> QED
    BY <1>9, <2>1, <2>4, <1>a, <1>c, <1>d, WriteType, DoneType, GotoType DEF Resolved
<1>10. CASE ResolveFailed
  <2>1. MarkFailed(jobs[cur]) \in Row
    BY <1>b, <1>c, RowOpsType
  <2> QED
    BY <1>10, <2>1, <1>a, <1>c, <1>d, WriteType, DoneType, GotoType DEF ResolveFailed
<1>11. CASE RunnerMarkFailed
  <2>1. MarkFailed(jobs[cur]) \in Row
    BY <1>b, <1>c, RowOpsType
  <2> QED
    BY <1>11, <2>1, <1>a, <1>c, <1>d, WriteType, DoneType, GotoType DEF RunnerMarkFailed
<1>12. CASE RunnerSchedule
  <2> DEFINE task == [id |-> cur, todo |-> work.todo, entry |-> work.entry]
  <2>1. task \in Task
    BY <1>a, <1>c DEF RunnerTypeOK, Work, Task
  <2>2. WorkerTypeOK'
    BY <1>12, <2>1, <1>a, ScheduleType DEF RunnerSchedule, SharedTypeOK
  <2>3. StoreTypeOK' /\ EngineTypeOK' /\ ServiceTypeOK' /\ auto' = auto
    BY <1>12, <1>a DEF RunnerSchedule, SharedTypeOK, StoreTypeOK, EngineTypeOK,
                      ServiceTypeOK, storeVars, engineVars
  <2>4. RunnerTypeOK'
    BY <1>12, <2>3, <1>a, <1>c, <1>d, DoneType DEF RunnerSchedule
  <2> QED
    BY <2>2, <2>3, <2>4 DEF SharedTypeOK
<1>13. CASE CountDownloading \/ NothingQueued \/ ClaimConflict \/ CheckDeleted \/ StartFailed
            \/ PrepareOutputForStart \/ RemoveControlFile \/ RemoveControlFileFailed
  <2>1. SharedTypeOK' /\ auto' = auto
    BY <1>13, ReadOnlyType DEF CountDownloading, NothingQueued, ClaimConflict, CheckDeleted,
         StartFailed, PrepareOutputForStart, RemoveControlFile, RemoveControlFileFailed
  <2> QED
    BY <1>13, <2>1, <1>a, <1>c, GotoType, DoneType
       DEF CountDownloading, NothingQueued, ClaimConflict, CheckDeleted, StartFailed,
           PrepareOutputForStart, RemoveControlFile, RemoveControlFileFailed
<1>14. CASE Started \/ StartLost
  <2>1. PICK g \in Gids : /\ AddURI(g, cur, snap[cur].kind)
                          /\ abandoned' \in {abandoned \ {g}, abandoned \cup {g}}
                          /\ hand' \in {g, hand}
    BY <1>14 DEF Started, StartLost, Goto
  <2>2. EngineTypeOK'
    <3>1. snap[cur].kind \in Kinds
      BY <1>b, <1>c, RowKind
    <3> QED
      BY <2>1, <3>1, <1>a, <1>c DEF AddURI, SharedTypeOK, EngineTypeOK, Owner, TaskState
  <2>3. StoreTypeOK' /\ WorkerTypeOK' /\ ServiceTypeOK' /\ auto' = auto
    BY <1>14, <1>a DEF Started, StartLost, SharedTypeOK, StoreTypeOK, WorkerTypeOK,
                      ServiceTypeOK, storeVars, workerVars, elsewhere
  <2>4. RunnerTypeOK'
    BY <1>14, <2>1, <2>3, <1>a DEF Started, StartLost, Goto, RunnerTypeOK
  <2> QED
    BY <2>2, <2>3, <2>4 DEF SharedTypeOK
<1>15. CASE RunnerMarkDownloading
  <2>1. hand \in Gids \cup {NoGid}
    BY <1>a DEF RunnerTypeOK
  <2>2. MarkDownloading(jobs[cur], hand) \in Row
    BY <2>1, <1>b, <1>c, MarkDownloadingType
  <2>3. jobs' \in [JobId -> Row]
    BY <1>15, <2>2, <1>a, <1>c, UpdateType DEF RunnerMarkDownloading, SharedTypeOK
  <2>4. SharedTypeOK' /\ auto' = auto
    BY <1>15, <2>1, <2>3, <1>a, <1>e DEF RunnerMarkDownloading, SharedTypeOK, StoreTypeOK,
         EngineTypeOK, WorkerTypeOK, ServiceTypeOK, workerVars, elsewhere
  <2> QED
    BY <1>15, <2>4, <1>a, <1>c, DoneType DEF RunnerMarkDownloading
<1>16. CASE \E id \in JobId : RunnerJobStep(id)
  BY <1>16, RunnerJobStepType
<1> QED
  BY <1>1, <1>2, <1>3, <1>4, <1>5, <1>6, <1>7, <1>8, <1>9, <1>10, <1>11, <1>12, <1>13, <1>14, <1>15, <1>16 DEF RunnerStep

----------------------------------------------------------------------------
(* The other processes leave the runner's variables alone.                 *)

(* A decrypt goroutine keeps the types.                                    *)
LEMMA WorkerStepType ==
    ASSUME SharedTypeOK, NEW w \in Workers, WorkerStep(w)
    PROVE  StoreTypeOK' /\ EngineTypeOK' /\ WorkerTypeOK'
<1> DEFINE id == gor[w].task.id
<1>a. StoreTypeOK /\ EngineTypeOK /\ WorkerTypeOK
  BY DEF SharedTypeOK
<1>b. id \in JobId /\ AfterMega(w) \in WorkerPC
  BY <1>a DEF WorkerTypeOK, Task, AfterMega, WorkerPC
<1>c. jobs[id] \in Row
  BY <1>a, <1>b DEF StoreTypeOK
<1>d. ASSUME NEW p \in WorkerPC, StepTo(w, p)
      PROVE  gor' \in [Workers -> [pc : WorkerPC, task : Task]]
  BY <1>a, <1>d DEF StepTo, WorkerTypeOK
<1>1. CASE AcquireWorker(w)
  <2>1. tokens' \in Nat
    BY <1>1, <1>a DEF AcquireWorker, WorkerTypeOK
  <2>2. \E p \in WorkerPC : StepTo(w, p)
    BY <1>1, <1>b DEF AcquireWorker, WorkerPC
  <2> QED
    BY <1>1, <2>1, <2>2, <1>a, <1>d DEF AcquireWorker, StoreTypeOK, EngineTypeOK,
         WorkerTypeOK, storeVars, engineVars
<1>2. CASE MegaDecrypted(w)
  <2>1. gor' \in [Workers -> [pc : WorkerPC, task : Task]]
    BY <1>2, <1>b, <1>d DEF MegaDecrypted
  <2> QED
    BY <1>2, <2>1, <1>a, <1>b DEF MegaDecrypted, StoreTypeOK, EngineTypeOK,
         WorkerTypeOK, storeVars
<1>3. CASE MegaFailed(w) \/ ArchiveSkipped(w) \/ ArchiveDecrypted(w) \/ ArchiveFailed(w)
  <2>1. gor' \in [Workers -> [pc : WorkerPC, task : Task]]
    BY <1>3, <1>d DEF MegaFailed, ArchiveSkipped, ArchiveDecrypted, ArchiveFailed, WorkerPC
  <2>2. gor[w].task.entry \in Name
    BY <1>a DEF WorkerTypeOK, Task
  <2>3. opened' \in SUBSET Name
    BY <1>3, <2>2, <1>a, EntryType DEF MegaFailed, ArchiveSkipped, ArchiveDecrypted,
         ArchiveFailed, WorkerTypeOK
  <2> QED
    BY <1>3, <2>1, <2>3, <1>a DEF MegaFailed, ArchiveSkipped, ArchiveDecrypted, ArchiveFailed,
         StoreTypeOK, EngineTypeOK, WorkerTypeOK, storeVars, engineVars
<1>4. CASE WorkerMarkCompleted(w) \/ WorkerMarkFailed(w) \/ WorkerClearPassword(w)
  <2>1. PICK row \in Row, at, next \in WorkerPC : WorkerStmt(w, at, row, next)
    BY <1>4, <1>c, RowOpsType DEF WorkerMarkCompleted, WorkerMarkFailed,
         WorkerClearPassword, WorkerPC
  <2>2. jobs' \in [JobId -> Row]
    BY <2>1, <1>a, <1>b, UpdateType DEF WorkerStmt
  <2>3. gor' \in [Workers -> [pc : WorkerPC, task : Task]]
    BY <2>1, <1>d DEF WorkerStmt
  <2> QED
    BY <2>1, <2>2, <2>3, <1>a DEF WorkerStmt, StoreTypeOK, EngineTypeOK, WorkerTypeOK,
         engineVars
<1>5. CASE UnmarkPending(w)
  <2>1. gor' \in [Workers -> [pc : WorkerPC, task : Task]]
    BY <1>5, <1>d DEF UnmarkPending, WorkerPC
  <2> QED
    BY <1>5, <2>1, <1>a DEF UnmarkPending, StoreTypeOK, EngineTypeOK, WorkerTypeOK,
         storeVars, engineVars
<1>6. CASE ReleaseWorker(w)
  <2>1. NoGor \in [pc : WorkerPC, task : Task]
    BY NothingType DEF NoGor, WorkerPC
  <2> QED
    BY <1>6, <2>1, <1>a DEF ReleaseWorker, StoreTypeOK, EngineTypeOK, WorkerTypeOK,
         storeVars, engineVars
<1> QED
  BY <1>1, <1>2, <1>3, <1>4, <1>5, <1>6 DEF WorkerStep

(* A statement that an operation executes leaves a row.                    *)
LEMMA RowAfterType ==
    ASSUME NEW r \in Row, NEW stmt \in Stmt \ {"none"}
    PROVE  RowAfter(stmt, r) \in Row
BY RowOpsType DEF RowAfter, Stmt

(* Every operation has a plan that is a pair of a call and a statement, and *)
(* calls aria2c only when the row has a gid.                               *)
LEMMA PlanType ==
    ASSUME NEW r \in Row,
           NEW plan \in {RetryPlan(r), RemovePlan(r), PausePlan(r), ResumePlan(r)}
    PROVE  /\ plan.call \in Call /\ plan.stmt \in Stmt
           /\ plan.call # "none" => r.gid \in Gids
BY DEF RetryPlan, RemovePlan, PausePlan, ResumePlan, RemoveCall, Plan, NoPlan, Call, Stmt, Row

(* A client's operation that is about to call aria2c has a gid to name.    *)
RequestInv == \A c \in Clients : req[c].call # "none" => req[c].gid \in Gids

(* The operations of the service keep the types and name real gids.        *)
LEMMA ServiceStepType ==
    ASSUME SharedTypeOK, RequestInv, NEW c \in Clients, ServiceStep(c)
    PROVE  SharedTypeOK' /\ RequestInv'
<1>a. StoreTypeOK /\ EngineTypeOK /\ WorkerTypeOK /\ ServiceTypeOK
  BY DEF SharedTypeOK
<1>b. NoRequest \in Request /\ NoRequest.call = "none"
  BY DEF NoRequest, Request, Call, Stmt
<1>c. req[c] \in Request
  BY <1>a DEF ServiceTypeOK
<1>1. ASSUME NEW id \in JobId, Retry(c, id) \/ Remove(c, id) \/ Pause(c, id) \/ Resume(c, id)
      PROVE  SharedTypeOK' /\ RequestInv'
  <2>1. jobs[id] \in Row
    BY <1>a DEF StoreTypeOK
  <2>2. PICK op \in Operations,
             plan \in {RetryPlan(jobs[id]), RemovePlan(jobs[id]),
                       PausePlan(jobs[id]), ResumePlan(jobs[id])} : Begin(c, op, id, plan)
    BY <1>1, Zenon DEF Retry, Remove, Pause, Resume, Operations
  <2> DEFINE new == [call |-> plan.call, stmt |-> plan.stmt, id |-> id, gid |-> jobs[id].gid]
  <2>3. new \in Request /\ (new.call # "none" => new.gid \in Gids)
    BY <2>1, <2>2, PlanType DEF Request, Row
  <2>4. req' = [req EXCEPT ![c] = new] /\ UNCHANGED <<storeVars, engineVars, workerVars>>
    BY <2>2 DEF Begin
  <2> HIDE DEF new
  <2>5. ServiceTypeOK' /\ RequestInv'
    BY <2>3, <2>4, <1>a DEF ServiceTypeOK, RequestInv
  <2> QED
    BY <2>4, <2>5, <1>a DEF SharedTypeOK, StoreTypeOK, EngineTypeOK, WorkerTypeOK,
         storeVars, engineVars, workerVars
<1>2. CASE EngineCall(c)
  <2>1. req[c].call \in {"remove", "pause", "unpause"} /\ req[c].gid \in Gids
    BY <1>2, <1>c DEF EngineCall, Request, Call, RequestInv
  <2>2. PICK out \in CallOutcome(req[c].call, req[c].gid) :
           /\ tasks' = [tasks EXCEPT ![req[c].gid] = out[1]]
           /\ owner' = [owner EXCEPT ![req[c].gid] = IF out[1] \in Live THEN @ ELSE NoOwner]
           /\ req' = [req EXCEPT ![c] = AfterCall(@, out[2])]
    BY <1>2 DEF EngineCall
  <2>3. out[1] \in TaskState
    BY <2>1, <2>2, <1>a, OutcomeType DEF CallOutcome
  <2>4. AfterCall(req[c], out[2]) \in Request /\ AfterCall(req[c], out[2]).call = "none"
    BY <1>b, <1>c DEF AfterCall, Request, Call, Stmt
  <2>5. ServiceTypeOK' /\ RequestInv'
    BY <2>2, <2>4, <1>a DEF ServiceTypeOK, RequestInv
  <2>6. EngineTypeOK'
    BY <1>2, <2>1, <2>2, <2>3, <1>a, NothingType DEF EngineCall, EngineTypeOK
  <2> QED
    BY <1>2, <2>5, <2>6, <1>a DEF EngineCall, SharedTypeOK, StoreTypeOK, WorkerTypeOK,
         storeVars, workerVars
<1>3. CASE Execute(c)
  <2>1. req[c].id \in JobId /\ req[c].stmt \in Stmt \ {"none"}
    BY <1>3, <1>c DEF Execute, Request
  <2>2. RowAfter(req[c].stmt, jobs[req[c].id]) \in Row
    BY <2>1, <1>a, RowAfterType DEF StoreTypeOK
  <2>3. jobs' \in [JobId -> Row]
    BY <1>3, <2>1, <2>2, <1>a, UpdateType DEF Execute
  <2>4. manual' \in [JobId -> Nat]
    BY <1>3, <2>1, <1>a DEF Execute, StoreTypeOK
  <2>5. ServiceTypeOK' /\ RequestInv'
    BY <1>3, <1>a, <1>b DEF Execute, ServiceTypeOK, RequestInv
  <2>6. abandoned' \in SUBSET Gids
    <3>1. jobs[req[c].id].gid \in Gids \cup {NoGid}
      BY <2>1, <1>a DEF StoreTypeOK, Row
    <3> QED
      BY <1>3, <3>1, <1>a DEF Execute, EngineTypeOK
  <2> QED
    BY <1>3, <2>3, <2>4, <2>5, <2>6, <1>a DEF Execute, SharedTypeOK, StoreTypeOK,
         EngineTypeOK, WorkerTypeOK, workerVars
<1> QED
  BY <1>1, <1>2, <1>3 DEF ServiceStep

(* Create, Clear and Purge keep the types.                                 *)
LEMMA BulkStepType ==
    ASSUME SharedTypeOK, BulkStep
    PROVE  SharedTypeOK' /\ req' = req
<1>a. StoreTypeOK /\ EngineTypeOK /\ WorkerTypeOK /\ ServiceTypeOK
  BY DEF SharedTypeOK
<1>1. ASSUME NEW kind \in Kinds, Create(kind)  PROVE SharedTypeOK' /\ req' = req
  <2>1. seq + 1 \in JobId /\ seq' \in 0 .. MaxJobs
    BY <1>1, <1>a DEF Create, CreateJob, StoreTypeOK
  <2>2. StoreTypeOK'
    BY <1>1, <2>1, <1>a, NewRowType DEF Create, CreateJob, StoreTypeOK
  <2>3. EngineTypeOK'
    BY <1>1, <2>1, <1>a DEF Create, EngineTypeOK
  <2> QED
    BY <1>1, <2>2, <2>3, <1>a DEF Create, SharedTypeOK, WorkerTypeOK, ServiceTypeOK, workerVars
<1>2. CASE Clear
  <2>1. \A j \in JobId : jobs[j] \in Row /\ RemoveRow(jobs[j]) \in Row
    BY <1>a, RowOpsType DEF StoreTypeOK
  <2>2. StoreTypeOK'
    BY <1>2, <2>1, <1>a DEF Clear, ClearCompleted, StoreTypeOK
  <2> QED
    BY <1>2, <2>2, <1>a DEF Clear, SharedTypeOK, EngineTypeOK, WorkerTypeOK, ServiceTypeOK,
         engineVars, workerVars
<1>3. CASE Purge
  <2>1. StoreTypeOK'
    BY <1>3, <1>a, NoRowType DEF Purge, ClearAll, StoreTypeOK
  <2>2. \A g \in Gids : owner[g] \in Owner /\ [owner[g] EXCEPT !.job = 0] \in Owner
    BY <1>a DEF EngineTypeOK, Owner
  <2>3. EngineTypeOK'
    BY <1>3, <2>2, <1>a DEF Purge, EngineTypeOK
  <2> QED
    BY <1>3, <2>1, <2>3, <1>a DEF Purge, SharedTypeOK, WorkerTypeOK, ServiceTypeOK, workerVars
<1> QED
  BY <1>1, <1>2, <1>3 DEF BulkStep

(* aria2c keeps the types, working and when it is restarted.               *)
LEMMA EngineType ==
    ASSUME EngineTypeOK, (\E g \in Gids : Finish(g) \/ Fail(g)) \/ ForgetTasks
    PROVE  EngineTypeOK'
<1>1. ASSUME NEW g \in Gids, Finish(g) PROVE EngineTypeOK'
  <2>1. Serves(owner[g].kind) \in {"cipher", "plain"}
    BY DEF Serves
  <2> QED
    BY <1>1, <2>1, NothingType DEF Finish, EngineTypeOK, TaskState
<1>2. ASSUME NEW g \in Gids, Fail(g) PROVE EngineTypeOK'
  BY <1>2, NothingType DEF Fail, EngineTypeOK, TaskState
<1>3. CASE ForgetTasks
  BY <1>3, NothingType DEF ForgetTasks, EngineTypeOK, TaskState
<1> QED
  BY <1>1, <1>2, <1>3

(* The clock keeps the types.                                              *)
LEMMA TimerType ==
    ASSUME StoreTypeOK, NEW j \in JobId, RetryTimer(j)
    PROVE  StoreTypeOK'
<1>1. [jobs[j] EXCEPT !.nextRetryAt = "past"] \in Row
  <2>1. jobs[j] \in Row  BY DEF StoreTypeOK
  <2> QED  BY <2>1 DEF Row
<1>2. jobs' = [jobs EXCEPT ![j] = [jobs[j] EXCEPT !.nextRetryAt = "past"]]
  BY DEF RetryTimer, StoreTypeOK
<1> QED
  BY <1>1, <1>2 DEF RetryTimer, StoreTypeOK

----------------------------------------------------------------------------
(* What the runner's list holds: ListInv and HandInv.                      *)

(* Reading a list leaves exactly the rows that the query returned.         *)
LEMMA LoadHeld ==
    ASSUME NEW ids, NEW next, Load(ids, next)
    PROVE  /\ pc' = next
           /\ \A j \in Held' : j \in ids /\ snap'[j] = jobs[j]
BY DEF Load, Held, Exists, NoRow, NewRow

(* Being done with a job removes it and nothing else from the list.        *)
LEMMA DoneHeld ==
    ASSUME RunnerTypeOK, NEW id \in JobId, NEW next, Done(id, next)
    PROVE  /\ pc' = next
           /\ \A j \in Held' : j \in Held /\ j # id /\ snap'[j] = snap[j]
BY DEF RunnerTypeOK, Done, Held, Exists, NoRow, NewRow

(* Each step of the runner keeps ListInv and HandInv.                      *)
LEMMA RunnerStepList ==
    ASSUME TypeOK, ListInv, HandInv, RunnerStep
    PROVE  ListInv' /\ HandInv'
<1>a. RunnerTypeOK /\ StoreTypeOK /\ cur \in JobId
  BY DEF TypeOK, RunnerTypeOK
<1>b. Held \subseteq JobId
  BY DEF Held
<1>1. CASE ListActive
  BY <1>1, LoadHeld DEF ListActive, ListInv, HandInv, Polled, ListJobs
<1>2. CASE ListPending
  <2>1. \A j \in ListPendingPostprocess : jobs[j].status \in {"decrypting", "completed"}
    BY DEF ListPendingPostprocess, PendingPostprocess
  <2>2. pc' = "dispatch" /\ \A j \in Held' : j \in ListPendingPostprocess /\ snap'[j] = jobs[j]
    BY <1>2, LoadHeld DEF ListPending
  <2> QED
    BY <2>1, <2>2 DEF ListInv, HandInv, Downloaded
<1>3. CASE ListRetryable
  BY <1>3, LoadHeld DEF ListRetryable, ListInv, HandInv, ListRetryableFailed
<1>4. ASSUME NEW id \in JobId, RunnerJobStep(id) PROVE ListInv' /\ HandInv'
  <2>1. CASE TellStatus(id)
    <3>1. CASE Done(id, "poll")
      <4>1. pc' = "poll" /\ \A j \in Held' : j \in Held /\ snap'[j] = snap[j]
        BY <3>1, <1>a, DoneHeld
      <4> QED
        BY <2>1, <4>1 DEF TellStatus, ListInv, HandInv, Polled
    <3>2. CASE ~ Done(id, "poll")
      <4>1. pc = "poll" /\ pc' = "apply" /\ cur' = id /\ snap' = snap /\ id \in Held
        BY <2>1, <3>2 DEF TellStatus
      <4> QED
        BY <4>1 DEF ListInv, HandInv, Polled, Held
    <3> QED  BY <3>1, <3>2
  <2>2. CASE Dispatch(id)
    <3>1. pc = "dispatch" /\ id \in Held
      BY <2>2 DEF Dispatch, DispatchSkip, DispatchNothingToDo, DispatchNoPath,
           DispatchWait, DispatchTaskReady, Dispatching
    <3>2. CASE Done(id, "dispatch")
      <4>1. pc' = "dispatch" /\ \A j \in Held' : j \in Held /\ snap'[j] = snap[j]
        BY <3>2, <1>a, DoneHeld
      <4> QED
        BY <3>1, <4>1 DEF ListInv, HandInv, Downloaded
    <3>3. CASE \E entry : \E next \in {"complete", "fail", "mark", "schedule"} :
                  Select(id, entry, next)
      BY <3>1, <3>3 DEF Select, ListInv, HandInv, Downloaded, Held
    <3>4. PICK entry : \/ Done(id, "dispatch")
                       \/ \E next \in {"complete", "fail", "mark", "schedule"} : Select(id, entry, next)
      BY <2>2 DEF Dispatch, DispatchSkip, DispatchNothingToDo, DispatchNoPath,
           DispatchWait, DispatchTaskReady
    <3> QED
      BY <3>2, <3>3, <3>4
  <2>3. CASE AutoRequeue(id)
    <3>1. Done(id, "requeue") /\ pc = "requeue"
      BY <2>3 DEF AutoRequeue
    <3>2. pc' = "requeue" /\ \A j \in Held' : j \in Held /\ snap'[j] = snap[j]
      BY <3>1, <1>a, DoneHeld
    <3> QED
      BY <3>1, <3>2 DEF ListInv, HandInv
  <2>4. CASE ClaimNextQueued(id)
    <3>1. Held = {} /\ Resolving(jobs[id]).status = "resolving"
      BY <2>4, <1>a DEF ClaimNextQueued, ListInv, Resolving, StoreTypeOK, Row
    <3>2. Held' = {id} /\ snap'[id].status = "resolving" /\ pc' = "check" /\ cur' = id
      BY <2>4, <3>1, <1>a DEF ClaimNextQueued, Held, Exists, RunnerTypeOK
    <3> QED
      BY <3>2 DEF ListInv, HandInv
  <2> QED
    BY <1>4, <2>1, <2>2, <2>3, <2>4 DEF RunnerJobStep
<1>5. CASE ApplyFailed \/ ApplyProgress
  BY <1>5, <1>a, DoneHeld DEF ApplyFailed, ApplyProgress, ListInv, HandInv, Polled
<1>6. CASE ApplyComplete
  <2>1. pc = "apply" /\ pc' \in {"complete", "mark"} /\ UNCHANGED <<snap, cur>>
    BY <1>6 DEF ApplyComplete, Goto
  <2> QED
    BY <2>1 DEF ListInv, HandInv, Polled, Held
<1>7. CASE RunnerMarkDecrypting \/ RunnerSchedule \/ RunnerMarkCompleted
  <2>1. pc \in {"mark", "schedule", "complete"} /\ cur \in Held
    BY <1>7 DEF RunnerMarkDecrypting, RunnerSchedule, RunnerMarkCompleted, ListInv
  <2>2. \/ Loop = "poll" /\ \A j \in Held : Polled(j)
        \/ Loop = "dispatch" /\ \A j \in Held : Downloaded(j)
    BY <2>1 DEF ListInv, Loop, Polled, Downloaded
  <2>3. CASE Done(cur, Loop)
    BY <2>2, <2>3, <1>a, DoneHeld DEF ListInv, HandInv, Polled, Downloaded
  <2>4. CASE Goto("schedule")
    BY <2>1, <2>2, <2>4 DEF Goto, ListInv, HandInv, Polled, Downloaded, Held
  <2>5. CASE Loop = "dispatch" /\ Goto("clear")
    BY <2>1, <2>2, <2>5 DEF Goto, ListInv, HandInv, Polled, Downloaded, Held
  <2> QED
    BY <1>7, <2>2, <2>3, <2>4, <2>5 DEF RunnerMarkDecrypting, RunnerSchedule, RunnerMarkCompleted
<1>8. CASE RunnerMarkPostprocessFailed
  BY <1>8 DEF RunnerMarkPostprocessFailed, Goto, ListInv, HandInv, Downloaded, Held
<1>9. CASE RunnerClearPassword
  <2>1. Loop = "dispatch"
    BY <1>9 DEF RunnerClearPassword, ListInv, Loop, Downloaded
  <2> QED
    BY <1>9, <2>1, <1>a, DoneHeld DEF RunnerClearPassword, ListInv, HandInv, Downloaded
<1>10. CASE CountDownloading \/ NothingQueued \/ ClaimConflict
  BY <1>10 DEF CountDownloading, NothingQueued, ClaimConflict, Goto, ListInv, HandInv, Held
<1>11. CASE CheckDeleted \/ Resolved \/ ResolveFailed \/ StartFailed \/ StartLost
            \/ PrepareOutputForStart \/ RemoveControlFile \/ RemoveControlFileFailed
  <2>1. /\ pc \in {"check", "resolve", "prepare", "unlink", "start"}
        /\ \/ Done(cur, "requeue")
           \/ \E next \in {"resolve", "prepare", "unlink", "start", "startfail"} : Goto(next)
    BY <1>11 DEF CheckDeleted, Resolved, ResolveFailed, StartFailed, StartLost,
         PrepareOutputForStart, RemoveControlFile, RemoveControlFileFailed
  <2> QED
    BY <2>1, <1>a, DoneHeld DEF Goto, ListInv, HandInv, Held
<1>12. CASE Started
  BY <1>12 DEF Started, ListInv, HandInv, Held
<1>13. CASE RunnerMarkFailed \/ RunnerMarkDownloading
  BY <1>13, <1>a, DoneHeld DEF RunnerMarkFailed, RunnerMarkDownloading, ListInv, HandInv
<1> QED
  BY <1>1, <1>2, <1>3, <1>4, <1>5, <1>6, <1>7, <1>8, <1>9, <1>10, <1>11, <1>12, <1>13
     DEF RunnerStep

----------------------------------------------------------------------------

(* The inductive invariant behind the type invariant: without ListInv the  *)
(* gid that TellStatus is asked about could be NULL, without HandInv the   *)
(* one that MarkDownloading records, without RequestInv the one a client's *)
(* operation names to aria2c.                                              *)
Inv == TypeOK /\ ListInv /\ HandInv /\ RequestInv

(* The inductive invariant holds when dlqd first starts.                   *)
LEMMA InitInv == Init => Inv
<1> SUFFICES ASSUME Init PROVE Inv
  OBVIOUS
<1>1. StoreTypeOK
  BY NoRowType DEF Init, StoreInit, StoreTypeOK
<1>2. EngineTypeOK
  BY NothingType DEF Init, EngineInit, EngineTypeOK, TaskState
<1>3. WorkerTypeOK
  BY WorkerAssumption, NothingType DEF Init, WorkerInit, WorkerTypeOK, NoGor, WorkerPC
<1>4. ServiceTypeOK /\ RequestInv
  BY DEF Init, ServiceInit, ServiceTypeOK, RequestInv, NoRequest, Request, Call, Stmt
<1>5. RunnerTypeOK
  BY NoRowType, NothingType DEF Init, RunnerStopped, RunnerTypeOK, RunnerPC
<1>6. Held = {}
  BY DEF Init, RunnerStopped, Held, Exists, NoRow, NewRow
<1>7. ListInv /\ HandInv
  BY <1>6 DEF Init, RunnerStopped, ListInv, HandInv
<1>8. crashes \in 0 .. MaxCrashes
  BY DEF Init
<1> QED
  BY <1>1, <1>2, <1>3, <1>4, <1>5, <1>7, <1>8 DEF Inv, TypeOK

(* Steps that leave the runner and the crash counter alone.                *)
LEMMA OthersKeepRunner ==
    ASSUME Inv, SharedTypeOK', RequestInv', UNCHANGED <<localVars, auto, crashes>>
    PROVE  Inv'
<1>1. UNCHANGED <<pc, snap, cur, reply, work, hand, auto, crashes>>
  BY DEF localVars
<1>2. RunnerTypeOK' /\ (crashes \in 0 .. MaxCrashes)'
  BY <1>1 DEF Inv, TypeOK, RunnerTypeOK
<1>3. ListInv' /\ HandInv'
  BY <1>1 DEF Inv, ListInv, HandInv, Held, Polled, Downloaded
<1> QED
  BY <1>2, <1>3 DEF Inv, TypeOK, SharedTypeOK

(* Every step of the system keeps the inductive invariant.                 *)
LEMMA NextInv == Inv /\ [Next]_vars => Inv'
<1> SUFFICES ASSUME Inv, [Next]_vars PROVE Inv'
  OBVIOUS
<1>a. TypeOK /\ ListInv /\ HandInv /\ RequestInv /\ SharedTypeOK
  BY DEF Inv, TypeOK, SharedTypeOK
<1>b. StoreTypeOK /\ EngineTypeOK /\ WorkerTypeOK /\ ServiceTypeOK
  BY <1>a DEF SharedTypeOK
<1>1. CASE RunnerNext
  <2>1. SharedTypeOK' /\ RunnerTypeOK'
    BY <1>1, <1>a, RunnerStepType DEF RunnerNext
  <2>2. ListInv' /\ HandInv'
    BY <1>1, <1>a, RunnerStepList DEF RunnerNext
  <2>3. UNCHANGED <<req, crashes>>
    BY <1>1 DEF RunnerNext, RunnerStep, RunnerJobStep, TellStatus, Dispatch, DispatchSkip,
         DispatchNothingToDo, DispatchNoPath, DispatchWait, DispatchTaskReady, Dispatching,
         AutoRequeue, ClaimNextQueued, ListActive, ApplyFailed, ApplyProgress, ApplyComplete,
         ListPending, RunnerMarkDecrypting, RunnerSchedule, RunnerMarkCompleted,
         RunnerMarkPostprocessFailed, RunnerClearPassword, ListRetryable, CountDownloading,
         NothingQueued, ClaimConflict, CheckDeleted, Resolved, ResolveFailed,
         PrepareOutputForStart, RemoveControlFile, RemoveControlFileFailed, Started,
         StartFailed, StartLost, RunnerMarkFailed, RunnerMarkDownloading, Load, Write,
         ReadOnly, elsewhere
  <2> QED
    BY <2>1, <2>2, <2>3, <1>a DEF Inv, TypeOK, SharedTypeOK, RequestInv
<1>2. ASSUME NEW w \in Workers, WorkerNext(w) PROVE Inv'
  <2>1. StoreTypeOK' /\ EngineTypeOK' /\ WorkerTypeOK'
    BY <1>2, <1>a, WorkerStepType DEF WorkerNext
  <2>2. UNCHANGED <<req, localVars, auto, crashes>>
    BY <1>2 DEF WorkerNext
  <2>3. SharedTypeOK' /\ RequestInv'
    BY <2>1, <2>2, <1>a, <1>b DEF SharedTypeOK, ServiceTypeOK, RequestInv
  <2> QED
    BY <2>2, <2>3, OthersKeepRunner
<1>3. ASSUME NEW c \in Clients, ClientNext(c) PROVE Inv'
  <2>1. SharedTypeOK' /\ RequestInv'
    BY <1>3, <1>a, ServiceStepType DEF ClientNext
  <2> QED
    BY <1>3, <2>1, OthersKeepRunner DEF ClientNext
<1>4. CASE BulkNext
  <2>1. SharedTypeOK' /\ req' = req
    BY <1>4, <1>a, BulkStepType DEF BulkNext
  <2>2. RequestInv'
    BY <2>1, <1>a DEF RequestInv
  <2> QED
    BY <1>4, <2>1, <2>2, OthersKeepRunner DEF BulkNext
<1>5. ASSUME NEW g \in Gids, EngineNext(g) PROVE Inv'
  <2>1. EngineTypeOK'
    BY <1>5, <1>b, EngineType DEF EngineNext
  <2>2. UNCHANGED <<storeVars, workerVars, req, localVars, auto, crashes>>
    BY <1>5 DEF EngineNext
  <2>3. SharedTypeOK' /\ RequestInv'
    BY <2>1, <2>2, <1>a, <1>b DEF SharedTypeOK, StoreTypeOK, WorkerTypeOK, ServiceTypeOK,
         RequestInv, storeVars, workerVars
  <2> QED
    BY <2>2, <2>3, OthersKeepRunner
<1>6. ASSUME NEW j \in JobId, TimerNext(j) PROVE Inv'
  <2>1. StoreTypeOK'
    BY <1>6, <1>b, TimerType DEF TimerNext
  <2>2. UNCHANGED <<engineVars, workerVars, req, localVars, auto, crashes>>
    BY <1>6 DEF TimerNext
  <2>3. SharedTypeOK' /\ RequestInv'
    BY <2>1, <2>2, <1>a, <1>b DEF SharedTypeOK, EngineTypeOK, WorkerTypeOK, ServiceTypeOK,
         RequestInv, engineVars, workerVars
  <2> QED
    BY <2>2, <2>3, OthersKeepRunner
<1>7. ASSUME NEW v \in AutoModes, SetAutoDecrypt(v) PROVE Inv'
  <2>1. UNCHANGED <<storeVars, engineVars, workerVars, req, localVars, crashes>> /\ auto' \in BOOLEAN
    BY <1>7 DEF SetAutoDecrypt
  <2>2. SharedTypeOK' /\ RequestInv'
    BY <2>1, <1>a, <1>b DEF SharedTypeOK, StoreTypeOK, EngineTypeOK, WorkerTypeOK, ServiceTypeOK,
         RequestInv, storeVars, engineVars, workerVars
  <2>3. UNCHANGED <<pc, snap, cur, reply, work, hand>>
    BY <2>1 DEF localVars
  <2>4. RunnerTypeOK'
    BY <2>1, <2>3, <1>a DEF TypeOK, RunnerTypeOK
  <2>5. ListInv' /\ HandInv'
    BY <2>3, <1>a DEF ListInv, HandInv, Held, Polled, Downloaded
  <2> QED
    BY <2>1, <2>2, <2>4, <2>5, <1>a DEF Inv, TypeOK, SharedTypeOK
<1>8. CASE DaemonCrash
  <2>1. RunnerTypeOK'
    BY <1>8, <1>a, NoRowType, NothingType DEF DaemonCrash, TypeOK, RunnerTypeOK, RunnerPC
  <2>2. WorkerTypeOK'
    BY <1>8, <1>b, WorkerAssumption, NothingType DEF DaemonCrash, WorkerTypeOK, NoGor, WorkerPC
  <2>3. ServiceTypeOK' /\ RequestInv'
    BY <1>8 DEF DaemonCrash, ServiceTypeOK, RequestInv, NoRequest, Request, Call, Stmt
  <2>4. EngineTypeOK'
    <3>1. abandoned' \in SUBSET Gids
      BY <1>8, <1>a, <1>b DEF DaemonCrash, TypeOK, RunnerTypeOK, EngineTypeOK
    <3> QED
      BY <1>8, <3>1, <1>b DEF DaemonCrash, EngineTypeOK
  <2>5. StoreTypeOK'
    BY <1>8, <1>b DEF DaemonCrash, StoreTypeOK, storeVars
  <2>6. Held' = {} /\ pc' = "idle"
    BY <1>8 DEF DaemonCrash, Held, Exists, NoRow, NewRow
  <2>7. ListInv' /\ HandInv'
    BY <2>6 DEF ListInv, HandInv
  <2>8. crashes' \in 0 .. MaxCrashes
    BY <1>8, <1>a DEF DaemonCrash, TypeOK
  <2> QED
    BY <2>1, <2>2, <2>3, <2>4, <2>5, <2>7, <2>8 DEF Inv, TypeOK
<1>9. CASE EngineRestart
  <2>1. EngineTypeOK'
    BY <1>9, <1>b, EngineType DEF EngineRestart
  <2>2. UNCHANGED <<storeVars, workerVars, req, localVars, auto>> /\ crashes' \in 0 .. MaxCrashes
    BY <1>9, <1>a DEF EngineRestart, TypeOK
  <2>3. SharedTypeOK' /\ RequestInv'
    BY <2>1, <2>2, <1>a, <1>b DEF SharedTypeOK, StoreTypeOK, WorkerTypeOK, ServiceTypeOK,
         RequestInv, storeVars, workerVars
  <2>4. UNCHANGED <<pc, snap, cur, reply, work, hand, auto>>
    BY <2>2 DEF localVars
  <2>5. RunnerTypeOK' /\ ListInv' /\ HandInv'
    BY <2>4, <1>a DEF TypeOK, RunnerTypeOK, ListInv, HandInv, Held, Polled, Downloaded
  <2> QED
    BY <2>2, <2>3, <2>5 DEF Inv, TypeOK, SharedTypeOK
<1>10. CASE UNCHANGED vars
  BY <1>10, <1>a, <1>b DEF Inv, TypeOK, StoreTypeOK, EngineTypeOK, WorkerTypeOK, ServiceTypeOK,
       RunnerTypeOK, ListInv, HandInv, RequestInv, Held, Polled, Downloaded, vars, storeVars,
       engineVars, workerVars, localVars
<1> QED
  BY <1>1, <1>2, <1>3, <1>4, <1>5, <1>6, <1>7, <1>8, <1>9, <1>10 DEF Next

(* The inductive invariant holds in every reachable state.                 *)
THEOREM Invariance == Spec => []Inv
BY InitInv, NextInv, PTL DEF Spec

(* Every variable keeps its type, in particular every gid dlqd passes to   *)
(* aria2c or writes to a row is one that aria2c gave it, however runner,   *)
(* clients, goroutines, crashes and restarts interleave.                   *)
THEOREM TypeCorrect == Spec => []TypeOK
<1>1. Inv => TypeOK
  BY DEF Inv
<1> QED
  BY <1>1, Invariance, PTL
=============================================================================
