--------------------------- MODULE LifecycleProofs ---------------------------
(***************************************************************************)
(* What clients see of a job: DLQ implements JobLifecycle as long as the   *)
(* table is not purged.  The runner and the goroutines act on what they    *)
(* read earlier, so the argument is about what each can still hold: a job  *)
(* that nobody has asked to repeat is never both on its way to a download  *)
(* and past it.                                                            *)
(***************************************************************************)
EXTENDS TrackingProofs

AtWork(j) == \E w \in Workers : gor[w].pc # "none" /\ gor[w].task.id = j

Asked(j, stmts) == \E c \in Clients : req[c].stmt \in stmts /\ req[c].id = j

(* Someone holds the job or a row of it.                                   *)
Known(j) ==
    \/ Exists(snap[j]) \/ AtWork(j)
    \/ \E c \in Clients : (req[c].call # "none" \/ req[c].stmt # "none") /\ req[c].id = j

PreStatus == {"queued", "resolving", "downloading", "failed"}
PastStatus == {"decrypting", "completed", "decrypt_failed"}

(* The runner has written a status of PastStatus for the job, or read one. *)
Finishing(j) == pc \in {"schedule", "complete", "fail", "clear"} /\ cur = j

(* The job is on its way to a download, in the table or for the runner.    *)
Preparing(j) ==
    \/ jobs[j].status \in PreStatus
    \/ snap[j].status \in PreStatus /\ ~ Finishing(j)

(* Its download has ended, in the table or for someone who may yet say so. *)
Past(j) ==
    \/ jobs[j].status \in PastStatus
    \/ Downloaded(j) \/ AtWork(j) \/ Asked(j, {"decrypting"}) \/ Finishing(j)

LifeOf(j) ==
    /\ jobs[j].status = "deleted" => jobs[j].deletedAt = "set"
    /\ jobs[j].status = "none" => jobs[j].deletedAt = "null"
    /\ Known(j) => Exists(jobs[j])
    /\ snap[j].status \in {"downloading", "resolving"} => jobs[j].status # "failed"
    /\ manual[j] = 0 => ~ (Preparing(j) /\ Past(j))

LifeInv == \A j \in JobId : LifeOf(j)

----------------------------------------------------------------------------
(* Statements.                                                             *)

(* What the statements do to the status and to deleted_at.                 *)
LEMMA StmtStatus ==
    ASSUME NEW r \in Row
    PROVE  /\ \A row \in {MarkPaused(r), MarkDownloadingStatus(r), MarkCompleted(r),
                          MarkDecrypting(r), MarkDecryptingRetry(r), MarkPostprocessFailed(r),
                          ClearArchivePassword(r), MarkFailed(r), Resolving(r)} :
                 row.deletedAt = r.deletedAt
           /\ \A name : UpdateResolving(r, name).deletedAt = r.deletedAt
           /\ \A st : UpdateProgress(r, st).deletedAt = r.deletedAt
           /\ \A g : MarkDownloading(r, g).deletedAt = r.deletedAt
           /\ MarkDownloadingStatus(r).status = "downloading"
           /\ \A g : MarkDownloading(r, g).status = "downloading"
           /\ RemoveRow(r).deletedAt = "set" /\ Requeue(r).deletedAt = "null"
<1>1. /\ MarkPaused(r).deletedAt = r.deletedAt /\ MarkDownloadingStatus(r).deletedAt = r.deletedAt
      /\ MarkCompleted(r).deletedAt = r.deletedAt /\ MarkDecrypting(r).deletedAt = r.deletedAt
      /\ MarkDecryptingRetry(r).deletedAt = r.deletedAt
      /\ MarkPostprocessFailed(r).deletedAt = r.deletedAt
  BY DEF MarkPaused, MarkDownloadingStatus, MarkCompleted, MarkDecrypting, MarkDecryptingRetry,
         MarkPostprocessFailed, Row
<1>2. /\ ClearArchivePassword(r).deletedAt = r.deletedAt
      /\ MarkFailed(r).deletedAt = r.deletedAt /\ Resolving(r).deletedAt = r.deletedAt
      /\ RemoveRow(r).deletedAt = "set" /\ Requeue(r).deletedAt = "null"
  BY DEF ClearArchivePassword, MarkFailed, Resolving, RemoveRow, Requeue, Row
<1>3. /\ \A name : UpdateResolving(r, name).deletedAt = r.deletedAt
      /\ \A st : UpdateProgress(r, st).deletedAt = r.deletedAt
      /\ \A g : MarkDownloading(r, g).deletedAt = r.deletedAt
  BY DEF UpdateResolving, UpdateProgress, MarkDownloading, Row
<1>4. /\ MarkDownloadingStatus(r).status = "downloading"
      /\ \A g : MarkDownloading(r, g).status = "downloading"
  BY DEF MarkDownloadingStatus, MarkDownloading, Row
<1> QED
  BY <1>1, <1>2, <1>3, <1>4

(* A row that keeps its status, or gives it up for one that says nothing   *)
(* of the download; nobody learns anything that was not known.             *)
LEMMA LifeKept ==
    ASSUME NEW j \in JobId, LifeOf(j),
           \/ jobs'[j].status = jobs[j].status /\ jobs'[j].deletedAt = jobs[j].deletedAt
           \/ /\ jobs'[j].status \in {"paused", "deleted"} /\ Exists(jobs[j])
              /\ jobs'[j].status = "deleted" => jobs'[j].deletedAt = "set",
           manual'[j] = 0 => manual[j] = 0,
           snap'[j] = snap[j] \/ snap'[j].status = "none",
           snap'[j] = snap[j] => (Finishing(j) => Finishing(j)'),
           Finishing(j)' => Past(j),
           Known(j)' => Exists(jobs[j]),
           AtWork(j)' => Past(j), Asked(j, {"decrypting"})' => Past(j)
    PROVE  LifeOf(j)'
<1>1. (Known(j) => Exists(jobs[j]))' /\ (jobs[j].status = "deleted" => jobs[j].deletedAt = "set")'
      /\ (jobs[j].status = "none" => jobs[j].deletedAt = "null")'
  BY DEF LifeOf, Exists
<1>2. (snap[j].status \in {"downloading", "resolving"} => jobs[j].status # "failed")'
  BY DEF LifeOf
<1>3. Preparing(j)' => Preparing(j)
  BY DEF Preparing, PreStatus
<1>4. Past(j)' => Past(j)
  BY DEF Past, PastStatus, Downloaded
<1> QED
  BY <1>1, <1>2, <1>3, <1>4 DEF LifeOf

(* Types, and what ListInv says of a job that the runner finishes.         *)
LEMMA LifeTypes ==
    ASSUME Inv
    PROVE  /\ StoreTypeOK /\ RunnerTypeOK /\ ListInv /\ cur \in JobId
           /\ \A j \in JobId : jobs[j] \in Row /\ snap[j] \in Row
           /\ \A w \in Workers : gor[w].task.id \in JobId
           /\ \A c \in Clients : req[c] \in Request
           /\ \A j \in JobId : Finishing(j) => Exists(snap[j])
<1>1. /\ StoreTypeOK /\ RunnerTypeOK /\ ListInv /\ cur \in JobId
      /\ \A j \in JobId : jobs[j] \in Row /\ snap[j] \in Row
      /\ \A c \in Clients : req[c] \in Request
  BY TrackTypes
<1>2. \A w \in Workers : gor[w].task.id \in JobId
  BY DEF Inv, TypeOK, WorkerTypeOK, Task
<1>3. \A j \in JobId : Finishing(j) => Exists(snap[j])
  BY <1>1 DEF ListInv, Finishing, Held
<1> QED
  BY <1>1, <1>2, <1>3

(* The runner moves on: nothing changes for the jobs it leaves alone.      *)
LEMMA LifeElsewhere ==
    ASSUME Inv, NEW j \in JobId, LifeOf(j), UNCHANGED <<gor, req>>, jobs'[j] = jobs[j],
           manual'[j] = manual[j],
           \/ \E next \in {"poll", "dispatch", "requeue"} : Done(cur, next)
           \/ \E next : Goto(next),
           j # cur
    PROVE  LifeOf(j)'
<1>a. RunnerTypeOK /\ cur \in JobId
  BY LifeTypes
<1>1. snap'[j] = snap[j]
  BY <1>a, DoneRow DEF Goto
<1>2. ~ Finishing(j) /\ ~ Finishing(j)'
  BY DEF Finishing, Goto, Done
<1>3. Known(j)' => Exists(jobs[j])
  BY <1>1 DEF LifeOf, Known, AtWork
<1>4. AtWork(j)' => Past(j)
  BY DEF AtWork, Past
<1>5. Asked(j, {"decrypting"})' => Past(j)
  BY DEF Asked, Past
<1> QED
  BY <1>1, <1>2, <1>3, <1>4, <1>5, LifeKept

(* A statement after which the runner drops the job.  It may put the job   *)
(* on its way to a download only if it was.                                *)
LEMMA LifeDone ==
    ASSUME Inv, LifeInv, NEW row, Update(cur, row), UNCHANGED <<gor, req, manual>>,
           NEW next \in {"poll", "dispatch", "requeue"}, Done(cur, next),
           cur \in Held, row.deletedAt = jobs[cur].deletedAt,
           row.status \notin {"none", "deleted"} \/ row.status = jobs[cur].status,
           row.status \in PreStatus => Preparing(cur)
    PROVE  LifeInv'
<1>a. RunnerTypeOK /\ StoreTypeOK /\ cur \in JobId
  BY LifeTypes
<1> SUFFICES ASSUME NEW j \in JobId PROVE LifeOf(j)'
  BY DEF LifeInv
<1>b. LifeOf(j) /\ manual'[j] = manual[j]
  BY DEF LifeInv
<1>1. CASE j # cur
  BY <1>1, <1>a, <1>b, UpdateRow, LifeElsewhere
<1>2. CASE j = cur
  <2>1. snap'[j].status = "none" /\ ~ Finishing(j)'
    BY <1>2, <1>a, DoneRow DEF Done, Finishing
  <2>2. Known(j)
    BY <1>2 DEF Held, Known
  <2>3. Exists(jobs[j])
    BY <2>2, <1>b DEF LifeOf
  <2>4. jobs'[j] = row
    BY <1>2, <2>3, <1>a DEF Update, StoreTypeOK
  <2>5. Exists(row)
    BY <1>2, <2>3 DEF Exists
  <2>6. Preparing(j)' => Preparing(j)
    BY <1>2, <2>1, <2>4 DEF Preparing, PreStatus
  <2>7. Preparing(j)' /\ Past(j)' => Past(j)
    <3>1. row.status \in PreStatus => row.status \notin PastStatus
      BY DEF PreStatus, PastStatus
    <3>2. AtWork(j)' => AtWork(j)
      BY DEF AtWork
    <3>3. Asked(j, {"decrypting"})' => Asked(j, {"decrypting"})
      BY DEF Asked
    <3>4. ~ Downloaded(j)' /\ (Preparing(j)' => row.status \in PreStatus)
      BY <2>1, <2>4 DEF Downloaded, Preparing, PreStatus
    <3> QED
      BY <2>1, <2>4, <3>1, <3>2, <3>3, <3>4 DEF Past
  <2>8. manual'[j] = 0 => ~ (Preparing(j)' /\ Past(j)')
    BY <2>6, <2>7, <1>b DEF LifeOf
  <2> QED
    BY <1>2, <2>1, <2>3, <2>4, <2>5, <2>8, <1>b DEF LifeOf, Exists
<1> QED
  BY <1>1, <1>2

(* A statement after which the runner goes on with the job, past its       *)
(* download.                                                               *)
LEMMA LifeGoto ==
    ASSUME Inv, LifeInv, NEW row, Update(cur, row), UNCHANGED <<gor, req, manual>>,
           NEW next \in {"schedule", "complete", "clear"}, Goto(next),
           cur \in Held, row.deletedAt = jobs[cur].deletedAt, row.status \in PastStatus
    PROVE  LifeInv'
<1>a. RunnerTypeOK /\ StoreTypeOK /\ cur \in JobId
  BY LifeTypes
<1> SUFFICES ASSUME NEW j \in JobId PROVE LifeOf(j)'
  BY DEF LifeInv
<1>b. LifeOf(j) /\ manual'[j] = manual[j]
  BY DEF LifeInv
<1>1. CASE j # cur
  BY <1>1, <1>a, <1>b, UpdateRow, LifeElsewhere
<1>2. CASE j = cur
  <2>1. Finishing(j)'
    BY <1>2 DEF Goto, Finishing
  <2>2. Known(j)
    BY <1>2 DEF Held, Known
  <2>3. Exists(jobs[j])
    BY <2>2, <1>b DEF LifeOf
  <2>4. jobs'[j] = row
    BY <1>2, <2>3, <1>a DEF Update, StoreTypeOK
  <2>5. row.status \notin {"none", "deleted", "failed"} /\ row.status \notin PreStatus
    BY DEF PastStatus, PreStatus
  <2>6. ~ Preparing(j)'
    BY <2>1, <2>4, <2>5 DEF Preparing
  <2> QED
    BY <2>4, <2>5, <2>6 DEF LifeOf, Exists
<1> QED
  BY <1>1, <1>2

(* A step that changes no status, of a runner that learns of no row.       *)
LEMMA LifeRead ==
    ASSUME Inv, LifeInv, UNCHANGED <<manual, gor, req>>, ListShrinks,
           \A j \in JobId : /\ jobs'[j].status = jobs[j].status
                            /\ jobs'[j].deletedAt = jobs[j].deletedAt,
           \A j \in JobId : ~ Finishing(j) \/ snap'[j].status = "none",
           \A j \in JobId : Finishing(j)' => Downloaded(j)
    PROVE  LifeInv'
<1> SUFFICES ASSUME NEW j \in JobId PROVE LifeOf(j)'
  BY DEF LifeInv
<1>b. LifeOf(j)
  BY DEF LifeInv
<1>1. snap'[j] = snap[j] \/ snap'[j].status = "none"
  BY DEF ListShrinks
<1>2. snap'[j] = snap[j] => (Finishing(j) => Finishing(j)')
  <2>1. CASE ~ Finishing(j)
    BY <2>1
  <2>2. CASE Finishing(j) /\ snap'[j].status = "none"
    BY <2>2, LifeTypes DEF Exists
  <2> QED
    BY <2>1, <2>2
<1>3. Known(j)' => Exists(jobs[j])
  BY <1>1, <1>b DEF LifeOf, Known, AtWork, Exists
<1>4. AtWork(j)' => Past(j)
  BY DEF AtWork, Past
<1>5. Asked(j, {"decrypting"})' => Past(j)
  BY DEF Asked, Past
<1>6. Finishing(j)' => Past(j)
  BY DEF Past
<1> QED
  BY <1>1, <1>2, <1>3, <1>4, <1>5, <1>6, <1>b, LifeKept

(* A list: it says of each job what its row says.                          *)
LEMMA LifeLoad ==
    ASSUME Inv, LifeInv, NEW ids, NEW next \in {"poll", "dispatch", "requeue"}, Load(ids, next),
           \A j \in ids : jobs[j].status \notin {"none", "resolving"},
           pc \in {"idle", "poll", "dispatch"}
    PROVE  LifeInv'
<1> SUFFICES ASSUME NEW j \in JobId PROVE LifeOf(j)'
  BY DEF LifeInv
<1>a. UNCHANGED <<jobs, manual, gor, req>> /\ ~ Finishing(j) /\ ~ Finishing(j)'
  BY DEF Load, storeVars, elsewhere, workerVars, Finishing
<1>b. LifeOf(j)
  BY DEF LifeInv
<1>1. \/ snap'[j] = jobs[j] /\ jobs[j].status \notin {"none", "resolving"}
      \/ snap'[j].status = "none"
  BY DEF Load, NoRow, NewRow
<1>2. Preparing(j)' => Preparing(j)
  BY <1>a, <1>1 DEF Preparing, PreStatus
<1>3. AtWork(j)' => AtWork(j)
  BY <1>a DEF AtWork
<1>4. Asked(j, {"decrypting"})' => Asked(j, {"decrypting"})
  BY <1>a DEF Asked
<1>5. Past(j)' => Past(j)
  BY <1>a, <1>1, <1>3, <1>4 DEF Past, PastStatus, Downloaded
<1>6. Known(j)' => Exists(jobs[j])
  BY <1>a, <1>b, <1>1 DEF LifeOf, Known, AtWork, Exists
<1>7. (snap[j].status \in {"downloading", "resolving"} => jobs[j].status # "failed")'
  BY <1>a, <1>1
<1> QED
  BY <1>a, <1>b, <1>2, <1>5, <1>6, <1>7 DEF LifeOf

(* The runner reads, and goes on with no job that it finishes.             *)
LEMMA LifeMove ==
    ASSUME Inv, LifeInv, UNCHANGED <<manual, gor, req>>,
           \A j \in JobId : /\ jobs'[j].status = jobs[j].status
                            /\ jobs'[j].deletedAt = jobs[j].deletedAt,
           snap' = snap \/ (\E id \in JobId : \E next : Done(id, next)),
           {pc, pc'} \cap {"schedule", "complete", "fail", "clear"} = {}
    PROVE  LifeInv'
<1>1. ListShrinks
  BY LifeTypes, MoveShrinks DEF ListShrinks
<1>2. \A j \in JobId : ~ Finishing(j) /\ ~ Finishing(j)'
  BY DEF Finishing
<1> QED
  BY <1>1, <1>2, LifeRead

(* The claim: the runner holds a resolving job instead of a queued one.    *)
LEMMA LifeClaim ==
    ASSUME Inv, LifeInv, NEW id \in JobId, ClaimNextQueued(id)
    PROVE  LifeInv'
<1> DEFINE row == Resolving(jobs[id])
<1>a. /\ StoreTypeOK /\ RunnerTypeOK /\ pc = "claim" /\ jobs[id].status = "queued" /\ Exists(jobs[id])
      /\ Update(id, row) /\ UNCHANGED <<manual, gor, req>>
      /\ snap' = [snap EXCEPT ![id] = row] /\ pc' = "check" /\ jobs[id] \in Row
  BY LifeTypes DEF ClaimNextQueued, ClaimableQueued, Listed, Write, elsewhere, workerVars
<1>b. row.deletedAt = jobs[id].deletedAt /\ row.status = "resolving"
  BY <1>a, StmtGid, StmtStatus
<1> HIDE DEF row
<1> SUFFICES ASSUME NEW j \in JobId PROVE LifeOf(j)'
  BY DEF LifeInv
<1>c. LifeOf(j) /\ ~ Finishing(j) /\ ~ Finishing(j)'
  BY <1>a DEF LifeInv, Finishing
<1>d. /\ AtWork(j)' => AtWork(j)
      /\ Asked(j, {"decrypting"})' => Asked(j, {"decrypting"})
  BY <1>a DEF AtWork, Asked
<1>1. CASE j # id
  <2>1. jobs'[j] = jobs[j] /\ snap'[j] = snap[j]
    BY <1>1, <1>a, UpdateRow DEF RunnerTypeOK
  <2>2. Known(j)' => Exists(jobs[j])
    BY <2>1, <1>a, <1>c DEF LifeOf, Known, AtWork
  <2> QED
    BY <2>1, <2>2, <1>a, <1>c, <1>d, LifeKept DEF Past
<1>2. CASE j = id
  <2>1. jobs'[j] = row /\ snap'[j] = row
    BY <1>2, <1>a DEF RunnerTypeOK, Update, StoreTypeOK
  <2>2. Preparing(j)
    BY <1>2, <1>a DEF Preparing, PreStatus
  <2>3. Past(j)' => Past(j)
    BY <2>1, <1>b, <1>c, <1>d DEF Past, PastStatus, Downloaded
  <2> QED
    BY <2>1, <2>2, <2>3, <1>a, <1>b, <1>c DEF LifeOf, Exists
<1> QED
  BY <1>1, <1>2

(* scheduleDecrypt starts a goroutine for the job that the runner has.     *)
LEMMA LifeSchedule ==
    ASSUME Inv, LifeInv, RunnerSchedule
    PROVE  LifeInv'
<1>a. /\ RunnerTypeOK /\ cur \in JobId /\ pc = "schedule" /\ cur \in Held
      /\ UNCHANGED <<jobs, manual, req>> /\ Done(cur, Loop) /\ Loop \in {"poll", "dispatch"}
  BY LifeTypes DEF RunnerSchedule, storeVars, Loop, ListInv
<1>b. \A w \in Workers : gor'[w] = gor[w] \/ gor'[w].task.id = cur
  <2>1. WorkerTypeOK
    BY DEF Inv, TypeOK
  <2> QED
    BY <2>1 DEF RunnerSchedule, ScheduleDecrypt, workerVars, WorkerTypeOK
<1> SUFFICES ASSUME NEW j \in JobId PROVE LifeOf(j)'
  BY DEF LifeInv
<1>c. LifeOf(j) /\ ~ Finishing(j)'
  BY <1>a DEF LifeInv, Finishing, Done
<1>1. snap'[j] = snap[j] \/ snap'[j].status = "none"
  BY <1>a, DoneRow
<1>2. snap'[j] = snap[j] => ~ Finishing(j)
  <2>1. j = cur => snap'[j].status = "none" /\ snap[j].status # "none"
    BY <1>a, DoneRow DEF Held, Exists
  <2> QED
    BY <2>1 DEF Finishing
<1>3. AtWork(j)' => AtWork(j) \/ j = cur
  BY <1>b DEF AtWork
<1>4. j = cur => Known(j) /\ Finishing(j)
  BY <1>a DEF Known, Held, Finishing
<1>5. AtWork(j)' => Past(j)
  BY <1>3, <1>4 DEF Past
<1>6. Asked(j, {"decrypting"})' => Past(j)
  BY <1>a DEF Asked, Past
<1>7. Known(j)' => Known(j)
  BY <1>1, <1>3, <1>4, <1>a DEF Known, Exists
<1> QED
  BY <1>1, <1>2, <1>5, <1>6, <1>7, <1>a, <1>c, LifeKept DEF LifeOf

(* A step of the runner.                                                   *)
LEMMA RunnerStepLife ==
    ASSUME Inv, LifeInv, RunnerStep
    PROVE  LifeInv'
<1>a. /\ RunnerTypeOK /\ ListInv /\ cur \in JobId
      /\ \A j \in JobId : jobs[j] \in Row /\ snap[j] \in Row
  BY LifeTypes
<1>b. jobs[cur] \in Row
  BY <1>a
<1>c. Loop \in {"poll", "dispatch", "requeue"}
  BY DEF Loop
<1>1. CASE ListActive \/ ListPending \/ ListRetryable
  <2> DEFINE Ready(ids) == \A j \in ids : jobs[j].status \notin {"none", "resolving"}
  <2>1. pc \in {"idle", "poll", "dispatch"}
    BY <1>1 DEF ListActive, ListPending, ListRetryable
  <2>2. /\ Ready({j \in ListJobs("downloading") : jobs[j].gid # NoGid})
        /\ Ready(ListPendingPostprocess) /\ Ready(ListRetryableFailed)
    BY DEF ListJobs, ListPendingPostprocess, PendingPostprocess, ListRetryableFailed
  <2> HIDE DEF Ready
  <2>3. \A ids : \A next \in {"poll", "dispatch", "requeue"} :
          Ready(ids) /\ Load(ids, next) => LifeInv'
    BY <2>1, LifeLoad DEF Ready
  <2> QED
    BY <1>1, <2>2, <2>3 DEF ListActive, ListPending, ListRetryable
<1>2. ASSUME NEW id \in JobId, RunnerJobStep(id) PROVE LifeInv'
  <2>1. CASE ClaimNextQueued(id)
    BY <2>1, LifeClaim
  <2>2. CASE TellStatus(id)
    <3>1. UNCHANGED <<jobs, manual, gor, req>>
      BY <2>2 DEF TellStatus, ReadOnly, storeVars, elsewhere, workerVars
    <3>2. /\ {pc, pc'} \cap {"schedule", "complete", "fail", "clear"} = {}
          /\ snap' = snap \/ Done(id, "poll")
      BY <2>2 DEF TellStatus, Done
    <3> QED
      BY <3>1, <3>2, LifeMove
  <2>3. CASE Dispatch(id)
    <3>1. UNCHANGED <<jobs, manual, gor, req>> /\ pc = "dispatch" /\ id \in Held
      BY <2>3 DEF Dispatch, DispatchSkip, DispatchNothingToDo, DispatchNoPath, DispatchWait,
           DispatchTaskReady, Dispatching, ReadOnly, storeVars, elsewhere, workerVars
    <3>2. Done(id, "dispatch") \/ (UNCHANGED snap /\ cur' = id)
      BY <2>3 DEF Dispatch, DispatchSkip, DispatchNothingToDo, DispatchNoPath, DispatchWait,
           DispatchTaskReady, Select
    <3>3. ListShrinks
      BY <3>2, <1>a, MoveShrinks DEF ListShrinks
    <3>4. \A j \in JobId : ~ Finishing(j)
      BY <3>1 DEF Finishing
    <3>5. \A j \in JobId : Finishing(j)' => Downloaded(j)
      BY <3>1, <3>2, <1>a DEF Finishing, Done, ListInv
    <3> QED
      BY <3>1, <3>3, <3>4, <3>5, LifeRead
  <2>4. CASE AutoRequeue(id)
    <3> DEFINE row == Requeue(jobs[id])
    <3>1. /\ pc = "requeue" /\ id \in Held /\ Done(id, "requeue") /\ Update(id, row)
          /\ UNCHANGED <<manual, gor, req>> /\ StoreTypeOK
      BY <2>4, LifeTypes DEF AutoRequeue, Write, elsewhere, workerVars
    <3>2. row.deletedAt = "null" /\ row.status = "queued"
      BY <1>a, StmtGid, StmtStatus
    <3> HIDE DEF row
    <3> SUFFICES ASSUME NEW j \in JobId PROVE LifeOf(j)'
      BY DEF LifeInv
    <3>3. LifeOf(j) /\ ~ Finishing(j) /\ ~ Finishing(j)' /\ manual'[j] = manual[j]
      BY <3>1 DEF LifeInv, Finishing, Done
    <3>4. /\ AtWork(j)' => AtWork(j)
          /\ Asked(j, {"decrypting"})' => Asked(j, {"decrypting"})
      BY <3>1 DEF AtWork, Asked
    <3>5. CASE j # id
      <4>1. jobs'[j] = jobs[j] /\ snap'[j] = snap[j]
        BY <3>1, <3>5, <1>a, UpdateRow, DoneRow
      <4>2. Known(j)' => Exists(jobs[j])
        BY <4>1, <3>1, <3>3 DEF LifeOf, Known, AtWork
      <4> QED
        BY <4>1, <4>2, <3>3, <3>4, LifeKept DEF Past
    <3>6. CASE j = id
      <4>1. snap'[j].status = "none" /\ snap[j].status = "failed" /\ Known(j)
        BY <3>1, <3>6, <1>a, DoneRow DEF ListInv, Known, Held
      <4>2. Exists(jobs[j]) /\ jobs'[j] = row
        BY <4>1, <3>1, <3>3, <3>6 DEF LifeOf, Update, StoreTypeOK
      <4>3. Preparing(j)
        BY <4>1, <3>3 DEF Preparing, PreStatus
      <4>4. Past(j)' => Past(j)
        BY <4>1, <4>2, <3>2, <3>3, <3>4 DEF Past, PastStatus, Downloaded
      <4> QED
        BY <4>1, <4>2, <4>3, <4>4, <3>2, <3>3 DEF LifeOf, Exists
    <3> QED
      BY <3>5, <3>6
  <2> QED
    BY <1>2, <2>1, <2>2, <2>3, <2>4 DEF RunnerJobStep
<1>3. CASE ApplyFailed \/ ApplyProgress \/ ResolveFailed \/ RunnerMarkFailed \/ RunnerMarkDownloading
  <2>1. PICK row : /\ Update(cur, row) /\ UNCHANGED <<gor, req, manual>>
                   /\ row.status \in {"failed", "downloading"} /\ row.deletedAt = jobs[cur].deletedAt
    <3>1. CASE ApplyFailed \/ ResolveFailed \/ RunnerMarkFailed
      <4>1. MarkFailed(jobs[cur]).status = "failed" /\ MarkFailed(jobs[cur]).deletedAt = jobs[cur].deletedAt
        BY <1>b, StmtGid, StmtStatus
      <4> QED
        BY <3>1, <4>1 DEF ApplyFailed, ResolveFailed, RunnerMarkFailed, Write, elsewhere, workerVars
    <3>2. CASE ApplyProgress
      <4>1. /\ UpdateProgress(jobs[cur], "downloading").status = "downloading"
            /\ UpdateProgress(jobs[cur], "downloading").deletedAt = jobs[cur].deletedAt
        BY <1>b, StmtGid, StmtStatus
      <4> QED
        BY <3>2, <4>1 DEF ApplyProgress, Write, elsewhere, workerVars
    <3>3. CASE RunnerMarkDownloading
      <4>1. /\ MarkDownloading(jobs[cur], hand).status = "downloading"
            /\ MarkDownloading(jobs[cur], hand).deletedAt = jobs[cur].deletedAt
        BY <1>b, StmtStatus
      <4> QED
        BY <3>3, <4>1 DEF RunnerMarkDownloading, elsewhere, workerVars
    <3> QED
      BY <1>3, <3>1, <3>2, <3>3
  <2>2. /\ pc \in {"apply", "resolve", "startfail", "record"}
        /\ \E next \in {"poll", "requeue"} : Done(cur, next)
    BY <1>3 DEF ApplyFailed, ApplyProgress, ResolveFailed, RunnerMarkFailed, RunnerMarkDownloading
  <2>3. cur \in Held /\ snap[cur].status \in {"downloading", "resolving"}
    BY <2>2, <1>a DEF ListInv, Polled
  <2>4. Preparing(cur)
    BY <2>2, <2>3 DEF Preparing, PreStatus, Finishing
  <2> QED
    BY <2>1, <2>2, <2>3, <2>4, LifeDone
<1>4. CASE ApplyComplete
  <2>1. /\ pc = "apply" /\ UNCHANGED <<snap, manual, gor, req>>
        /\ \/ Update(cur, UpdateProgress(jobs[cur], "completed")) /\ Goto("complete")
           \/ UNCHANGED jobs /\ pc' = "mark"
    BY <1>4 DEF ApplyComplete, Goto, Write, ReadOnly, storeVars, elsewhere, workerVars
  <2>2. cur \in Held
    BY <2>1, <1>a DEF ListInv
  <2>3. /\ UpdateProgress(jobs[cur], "completed").status \in PastStatus
        /\ UpdateProgress(jobs[cur], "completed").deletedAt = jobs[cur].deletedAt
    BY <1>b, StmtGid, StmtStatus DEF PastStatus
  <2>4. CASE Update(cur, UpdateProgress(jobs[cur], "completed")) /\ Goto("complete")
    BY <2>1, <2>2, <2>3, <2>4, LifeGoto
  <2>5. CASE UNCHANGED jobs /\ pc' = "mark"
    BY <2>1, <2>5, LifeMove
  <2> QED
    BY <2>1, <2>4, <2>5
<1>5. CASE RunnerMarkDecrypting \/ RunnerMarkCompleted \/ RunnerMarkPostprocessFailed
  <2>1. PICK row : /\ Update(cur, row) /\ UNCHANGED <<gor, req, manual>>
                   /\ row.status \in PastStatus /\ row.deletedAt = jobs[cur].deletedAt
    BY <1>5, <1>b, FreeOfCharge, StmtStatus DEF RunnerMarkDecrypting, RunnerMarkCompleted,
         RunnerMarkPostprocessFailed, PastStatus, Write, elsewhere, workerVars
  <2>2. /\ pc \in {"mark", "complete", "fail"}
        /\ \/ \E next \in {"poll", "dispatch", "requeue"} : Done(cur, next)
           \/ \E next \in {"schedule", "clear"} : Goto(next)
    BY <1>5, <1>c DEF RunnerMarkDecrypting, RunnerMarkCompleted, RunnerMarkPostprocessFailed
  <2>3. cur \in Held
    BY <2>2, <1>a DEF ListInv
  <2>4. row.status \notin {"none", "deleted"} /\ row.status \notin PreStatus
    BY <2>1 DEF PastStatus, PreStatus
  <2>5. CASE \E next \in {"poll", "dispatch", "requeue"} : Done(cur, next)
    BY <2>1, <2>3, <2>4, <2>5, LifeDone
  <2>6. CASE \E next \in {"schedule", "clear"} : Goto(next)
    BY <2>1, <2>3, <2>6, LifeGoto
  <2> QED
    BY <2>2, <2>5, <2>6
<1>6. CASE RunnerClearPassword
  <2> DEFINE row == ClearArchivePassword(jobs[cur])
  <2>1. /\ pc = "clear" /\ Update(cur, row) /\ UNCHANGED <<gor, req, manual>> /\ Done(cur, Loop)
    BY <1>6 DEF RunnerClearPassword, Write, elsewhere, workerVars
  <2>2. row.status = jobs[cur].status /\ row.deletedAt = jobs[cur].deletedAt /\ cur \in Held
    BY <1>a, <1>b, <2>1, StmtGid, StmtStatus DEF ListInv
  <2>3. row.status \in PreStatus => Preparing(cur)
    BY <2>2 DEF Preparing
  <2> HIDE DEF row
  <2> QED
    BY <2>1, <2>2, <2>3, <1>c, LifeDone
<1>7. CASE Resolved
  <2>1. PICK name : Update(cur, UpdateResolving(jobs[cur], name))
    BY <1>7 DEF Resolved, Write
  <2>2. /\ UpdateResolving(jobs[cur], name).status = jobs[cur].status
        /\ UpdateResolving(jobs[cur], name).deletedAt = jobs[cur].deletedAt
    BY <1>b, StmtGid, StmtStatus
  <2>3. \A j \in JobId : /\ jobs'[j].status = jobs[j].status
                          /\ jobs'[j].deletedAt = jobs[j].deletedAt
    BY <2>1, <2>2, <1>a, LifeTypes, UpdateRow
  <2>4. UNCHANGED <<manual, gor, req, snap>> /\ pc = "resolve" /\ pc' \in {"prepare", "start"}
    BY <1>7 DEF Resolved, Write, Goto, elsewhere, workerVars
  <2> QED
    BY <2>3, <2>4, LifeMove
<1>8. CASE \/ CountDownloading \/ NothingQueued \/ ClaimConflict \/ CheckDeleted
           \/ PrepareOutputForStart \/ RemoveControlFile \/ RemoveControlFileFailed
           \/ StartFailed \/ Started \/ StartLost
  <2>1. UNCHANGED <<jobs, manual, gor, req>>
    BY <1>8 DEF CountDownloading, NothingQueued, ClaimConflict, CheckDeleted,
         PrepareOutputForStart, RemoveControlFile, RemoveControlFileFailed, StartFailed,
         Started, StartLost, ReadOnly, storeVars, elsewhere, workerVars
  <2>2. /\ snap' = snap \/ Done(cur, "requeue")
        /\ {pc, pc'} \cap {"schedule", "complete", "fail", "clear"} = {}
    BY <1>8 DEF CountDownloading, NothingQueued, ClaimConflict, CheckDeleted,
         PrepareOutputForStart, RemoveControlFile, RemoveControlFileFailed, StartFailed,
         Started, StartLost, Goto, Done
  <2> QED
    BY <2>1, <2>2, <1>a, LifeMove
<1> QED
  BY <1>1, <1>2, <1>3, <1>4, <1>5, <1>6, <1>7, <1>8, LifeSchedule DEF RunnerStep

----------------------------------------------------------------------------
(* The other processes' steps leave the runner where it is.                *)

(* A statement about a job that is past its download, or one that stops    *)
(* the job, or one that a user asked for to have it repeated.              *)
LEMMA OtherStmtLife ==
    ASSUME Inv, LifeInv, NEW id \in JobId, NEW row, Update(id, row), Known(id),
           UNCHANGED <<snap, pc, cur>>,
           \A j \in JobId : AtWork(j)' => AtWork(j),
           \A j \in JobId : Asked(j, {"decrypting"})' => Asked(j, {"decrypting"}),
           \A j \in JobId : Known(j)' => Known(j),
           \A j \in JobId \ {id} : manual'[j] = manual[j],
           row.status # "none" /\ (row.status = "deleted" => row.deletedAt = "set"),
           \/ row.status \in PastStatus /\ Past(id) /\ manual'[id] = manual[id]
           \/ row.status \in {"paused", "deleted"} /\ manual'[id] = manual[id]
           \/ row.status = jobs[id].status /\ manual'[id] = manual[id]
           \/ row.status \in {"queued", "downloading"} /\ manual'[id] # 0
    PROVE  LifeInv'
<1>a. StoreTypeOK
  BY LifeTypes
<1> SUFFICES ASSUME NEW j \in JobId PROVE LifeOf(j)'
  BY DEF LifeInv
<1>b. LifeOf(j) /\ LifeOf(id)
  BY DEF LifeInv
<1>c. /\ Finishing(j)' <=> Finishing(j)
      /\ AtWork(j)' => Past(j)
      /\ Asked(j, {"decrypting"})' => Past(j)
  BY DEF Finishing, Past
<1>d. Known(j)' => Exists(jobs[j])
  BY <1>b DEF LifeOf
<1>1. CASE j # id
  <2>1. jobs'[j] = jobs[j] /\ manual'[j] = manual[j]
    BY <1>1, <1>a, UpdateRow
  <2> QED
    BY <2>1, <1>b, <1>c, <1>d, LifeKept DEF Past
<1>2. CASE j = id
  <2>1. Exists(jobs[j])
    BY <1>2, <1>b DEF LifeOf
  <2>2. jobs'[j] = row
    BY <1>2, <2>1, <1>a DEF Update, StoreTypeOK
  <2>3. snap[j].status \in {"downloading", "resolving"} => jobs[j].status # "failed"
    BY <1>b DEF LifeOf
  <2>4. row.status = "failed" => jobs[j].status = "failed"
    BY <1>2 DEF PastStatus
  <2>5. /\ row.status \in PastStatus => row.status \notin PreStatus
        /\ {"paused", "deleted"} \cap (PreStatus \cup PastStatus) = {}
        /\ {"queued", "downloading"} \cap PastStatus = {}
    BY DEF PreStatus, PastStatus
  <2>6. manual'[j] = 0 => ~ (Preparing(j)' /\ Past(j)')
    <3>1. CASE row.status \notin PreStatus \/ row.status = jobs[id].status
      <4>1. Preparing(j)' => Preparing(j)
        BY <1>2, <2>2, <3>1, <1>c DEF Preparing
      <4>2. CASE manual'[id] # 0
        BY <1>2, <4>2
      <4>3. CASE manual'[id] = manual[id]
        <5>1. row.status \in PastStatus => Past(id)
          BY <2>5 DEF Past
        <5>2. Downloaded(j)' => Downloaded(j)
          BY DEF Downloaded
        <5>3. Past(j)' => Past(j)
          BY <1>2, <2>2, <5>1, <5>2, <1>c DEF Past
        <5> QED
          BY <4>1, <4>3, <5>3, <1>2, <1>b DEF LifeOf
      <4> QED
        BY <4>2, <4>3
    <3>2. CASE row.status \in PreStatus /\ row.status # jobs[id].status
      BY <1>2, <3>2, <2>5
    <3> QED  BY <3>1, <3>2
  <2> QED
    BY <2>1, <2>2, <2>3, <2>4, <2>6 DEF LifeOf, Exists
<1> QED
  BY <1>1, <1>2

(* A step of a goroutine.                                                  *)
LEMMA WorkerStepLife ==
    ASSUME Inv, LifeInv, NEW w \in Workers, WorkerNext(w)
    PROVE  LifeInv'
<1> DEFINE id == gor[w].task.id
<1>a. /\ id \in JobId /\ StoreTypeOK /\ WorkerTypeOK
      /\ UNCHANGED <<manual, req, snap, pc, cur>> /\ ListShrinks
  <2>1. id \in JobId /\ StoreTypeOK /\ WorkerTypeOK
    BY LifeTypes DEF Inv, TypeOK
  <2>2. UNCHANGED <<req, snap, pc, cur>> /\ ListShrinks
    BY DEF WorkerNext, localVars, ListShrinks
  <2> QED
    BY <2>1, <2>2 DEF WorkerNext, WorkerStep, AcquireWorker, MegaDecrypted, MegaFailed,
         ArchiveSkipped, ArchiveDecrypted, ArchiveFailed, WorkerMarkCompleted, WorkerMarkFailed,
         WorkerClearPassword, WorkerStmt, UnmarkPending, ReleaseWorker, storeVars
<1>b. gor[w].pc # "none"
  BY DEF WorkerNext, WorkerStep, AcquireWorker, MegaDecrypted, MegaFailed,
         ArchiveSkipped, ArchiveDecrypted, ArchiveFailed, WorkerMarkCompleted, WorkerMarkFailed,
         WorkerClearPassword, WorkerStmt, UnmarkPending, ReleaseWorker
<1>c. \A v \in Workers : \/ gor'[v].pc = "none"
                         \/ gor'[v].task = gor[v].task /\ gor[v].pc # "none"
                         \/ gor'[v] = gor[v]
  BY <1>a, <1>b DEF WorkerNext, WorkerStep, AcquireWorker, MegaDecrypted, MegaFailed,
         ArchiveSkipped, ArchiveDecrypted, ArchiveFailed, WorkerMarkCompleted, WorkerMarkFailed,
         WorkerClearPassword, WorkerStmt, UnmarkPending, ReleaseWorker, StepTo, NoGor, WorkerTypeOK
<1>d. \A j : AtWork(j)' => AtWork(j)
  BY <1>c DEF AtWork
<1>e. \A j : Asked(j, {"decrypting"})' => Asked(j, {"decrypting"})
  BY <1>a DEF Asked
<1>f. \A j : Known(j)' => Known(j)
  BY <1>a, <1>d DEF Known
<1>g. jobs[id] \in Row /\ AtWork(id) /\ Known(id) /\ Past(id)
  BY <1>a, <1>b, LifeTypes DEF AtWork, Known, Past
<1> HIDE DEF id
<1>1. CASE jobs' = jobs
  <2> SUFFICES ASSUME NEW j \in JobId PROVE LifeOf(j)'
    BY DEF LifeInv
  <2>1. LifeOf(j) /\ (Finishing(j)' <=> Finishing(j))
    BY <1>a DEF LifeInv, Finishing
  <2>2. Known(j)' => Exists(jobs[j])
    BY <2>1, <1>f DEF LifeOf
  <2> QED
    BY <2>1, <2>2, <1>1, <1>a, <1>d, <1>e, LifeKept DEF Past
<1>2. CASE WorkerMarkCompleted(w) \/ WorkerMarkFailed(w) \/ WorkerClearPassword(w)
  <2>1. PICK row : /\ Update(id, row) /\ row.deletedAt = jobs[id].deletedAt
                   /\ row.status \in PastStatus \/ row.status = jobs[id].status
    BY <1>2, <1>g, FreeOfCharge, StmtStatus DEF WorkerMarkCompleted, WorkerMarkFailed,
         WorkerClearPassword, WorkerStmt, id, PastStatus
  <2>2. LifeOf(id)
    BY <1>a DEF LifeInv
  <2>3. row.status # "none" /\ (row.status = "deleted" => row.deletedAt = "set")
    BY <2>1, <2>2, <1>g DEF LifeOf, Exists, PastStatus
  <2> QED
    BY <2>1, <2>3, <1>a, <1>d, <1>e, <1>f, <1>g, OtherStmtLife
<1> QED
  BY <1>1, <1>2 DEF WorkerNext, WorkerStep, AcquireWorker, MegaDecrypted, MegaFailed,
       ArchiveSkipped, ArchiveDecrypted, ArchiveFailed, UnmarkPending, ReleaseWorker, storeVars

(* A step of a client: it asks only about rows that are there, and for the *)
(* post-processing to be repeated only of a job whose download has ended.  *)
LEMMA ClientStepLife ==
    ASSUME Inv, LifeInv, NEW c \in Clients, ClientNext(c)
    PROVE  LifeInv'
<1>a. /\ StoreTypeOK /\ req \in [Clients -> Request] /\ req[c] \in Request
      /\ UNCHANGED <<snap, pc, cur>> /\ gor' = gor
  <2>1. StoreTypeOK /\ req \in [Clients -> Request] /\ req[c] \in Request
    BY TrackTypes
  <2> QED
    BY <2>1 DEF ClientNext, localVars, ServiceStep, Retry, Remove, Pause, Resume, Begin,
         EngineCall, Execute, workerVars
<1>b. \A j : AtWork(j)' => AtWork(j)
  BY <1>a DEF AtWork
<1>1. CASE UNCHANGED storeVars
      /\ \A d \in Clients : \/ req'[d] = req[d] \/ req'[d] = NoRequest
                              \/ /\ req'[d].stmt = "decrypting" => Past(req'[d].id)
                                 /\ Exists(jobs[req'[d].id])
  <2> SUFFICES ASSUME NEW j \in JobId PROVE LifeOf(j)'
    BY DEF LifeInv
  <2>1. LifeOf(j) /\ (Finishing(j)' <=> Finishing(j)) /\ jobs' = jobs /\ manual' = manual
    BY <1>1, <1>a DEF LifeInv, Finishing, storeVars
  <2>2. Asked(j, {"decrypting"})' => Past(j)
    BY <1>1 DEF Asked, Past, NoRequest
  <2>3. Known(j)' => Exists(jobs[j])
    BY <1>1, <1>a, <1>b, <2>1 DEF Known, LifeOf, NoRequest
  <2> QED
    BY <2>1, <2>2, <2>3, <1>a, <1>b, LifeKept DEF Past
<1>2. ASSUME NEW id \in JobId, Retry(c, id) \/ Remove(c, id) \/ Pause(c, id) \/ Resume(c, id)
      PROVE  LifeInv'
  <2>a. jobs[id] \in Row
    BY LifeTypes
  <2>1. PICK plan \in {RetryPlan(jobs[id]), RemovePlan(jobs[id]), PausePlan(jobs[id]), ResumePlan(jobs[id])} :
          /\ req' = [req EXCEPT ![c] = [call |-> plan.call, stmt |-> plan.stmt,
                                        id |-> id, gid |-> jobs[id].gid]]
          /\ Exists(jobs[id]) /\ UNCHANGED storeVars
    BY <1>2 DEF Retry, Remove, Pause, Resume, Begin
  <2>2. plan.stmt = "decrypting" => jobs[id].status = "decrypt_failed"
    BY DEF RetryPlan, RemovePlan, PausePlan, ResumePlan, Plan, NoPlan
  <2>3. req'[c].stmt = plan.stmt /\ req'[c].id = id
    BY <2>1, <1>a
  <2>4. plan.stmt = "decrypting" => Past(id)
    BY <2>2 DEF Past, PastStatus
  <2>5. \A d \in Clients \ {c} : req'[d] = req[d]
    BY <2>1, <1>a
  <2> QED
    BY <1>1, <2>1, <2>3, <2>4, <2>5
<1>3. CASE EngineCall(c)
  <2>1. req[c].call # "none" /\ UNCHANGED storeVars
    BY <1>3 DEF EngineCall
  <2>2. PICK reply_ : req' = [req EXCEPT ![c] = AfterCall(req[c], reply_)]
    BY <1>3 DEF EngineCall
  <2>3. \/ req'[c] = NoRequest
        \/ req'[c].id = req[c].id /\ req'[c].stmt \in {req[c].stmt, "requeue"}
    BY <2>2, <1>a DEF AfterCall, Request
  <2>4. Known(req[c].id) /\ req[c].id \in JobId
    BY <2>1, <1>a DEF Known, Request
  <2>5. Exists(jobs[req[c].id])
    BY <2>4 DEF LifeInv, LifeOf
  <2>6. req[c].stmt = "decrypting" => Past(req[c].id)
    BY DEF Past, Asked
  <2>7. \A d \in Clients \ {c} : req'[d] = req[d]
    BY <2>2, <1>a
  <2> QED
    BY <1>1, <2>1, <2>3, <2>5, <2>6, <2>7
<1>4. CASE Execute(c)
  <2> DEFINE id == req[c].id
             row == RowAfter(req[c].stmt, jobs[id])
  <2>1. /\ id \in JobId /\ req[c].stmt \in Stmt \ {"none"} /\ Update(id, row)
        /\ req' = [req EXCEPT ![c] = NoRequest]
    BY <1>4, <1>a DEF Execute, Request
  <2>2. jobs[id] \in Row /\ Known(id) /\ (req[c].stmt = "decrypting" => Past(id))
    BY <2>1, <1>a, LifeTypes DEF Known, Past, Asked
  <2>3. \A d \in Clients : req'[d] = req[d] \/ req'[d] = NoRequest
    BY <2>1, <1>a
  <2>4. /\ \A j \in JobId : Asked(j, {"decrypting"})' => Asked(j, {"decrypting"})
        /\ \A j \in JobId : Known(j)' => Known(j)
    BY <2>3, <1>a, <1>b DEF Asked, Known, NoRequest
  <2>5. /\ \A j \in JobId \ {id} : manual'[j] = manual[j]
        /\ req[c].stmt \notin {"requeue", "downloading"} => manual'[id] = manual[id]
        /\ req[c].stmt \in {"requeue", "downloading"} => manual'[id] # 0
    <3>1. manual \in [JobId -> Nat]
      BY <1>a DEF StoreTypeOK
    <3> QED
      BY <1>4, <2>1, <3>1 DEF Execute
  <2>6. /\ row.status # "none" /\ (row.status = "deleted" => row.deletedAt = "set")
        /\ req[c].stmt \in {"requeue", "downloading"} => row.status \in {"queued", "downloading"}
        /\ req[c].stmt \in {"remove", "pause"} => row.status \in {"paused", "deleted"}
        /\ req[c].stmt = "decrypting" => row.status \in PastStatus
    BY <2>1, <2>2, FreeOfCharge, StmtGid, StmtStatus DEF RowAfter, Stmt, PastStatus
  <2> HIDE DEF id, row
  <2> QED
    BY <2>1, <2>2, <2>4, <2>5, <2>6, <1>a, <1>b, OtherStmtLife DEF Stmt
<1> QED
  BY <1>2, <1>3, <1>4 DEF ClientNext, ServiceStep

(* A new row is nobody's, and clearing stops jobs.                         *)
LEMMA BulkStepLife ==
    ASSUME Inv, TrackInv, LifeInv, "purge" \notin Ops, BulkNext
    PROVE  LifeInv'
<1>a. StoreTypeOK /\ seq \in Nat /\ UNCHANGED <<snap, pc, cur, gor, req>>
  BY TrackTypes DEF BulkNext, localVars, BulkStep, Create, Clear, Purge, workerVars
<1> SUFFICES ASSUME NEW j \in JobId PROVE LifeOf(j)'
  BY DEF LifeInv
<1>b. /\ LifeOf(j) /\ (Finishing(j)' <=> Finishing(j)) /\ (AtWork(j)' <=> AtWork(j))
      /\ (Asked(j, {"decrypting"})' <=> Asked(j, {"decrypting"})) /\ (Known(j)' <=> Known(j))
  BY <1>a DEF LifeInv, Finishing, AtWork, Asked, Known
<1>c. Known(j)' => Exists(jobs[j])
  BY <1>b DEF LifeOf
<1>1. ASSUME NEW kind \in Kinds, Create(kind) PROVE LifeOf(j)'
  <2>1. CASE j # seq + 1
    <3>1. jobs'[j] = jobs[j] /\ manual'[j] = manual[j]
      BY <1>1, <2>1, <1>a DEF Create, CreateJob, StoreTypeOK
    <3> QED
      BY <3>1, <1>a, <1>b, <1>c, LifeKept DEF Past
  <2>2. CASE j = seq + 1
    <3>1. jobs'[j].status = "queued" /\ jobs'[j].deletedAt = "null"
      BY <1>1, <2>2, <1>a DEF Create, CreateJob, StoreTypeOK, NewRow
    <3>2. ~ Exists(jobs[j])
      BY <2>2, <1>a DEF TrackInv, RowTracked
    <3>3. ~ Known(j)'
      BY <3>2, <1>c
    <3>4. ~ Past(j)'
      <4>1. ~ Downloaded(j)' /\ ~ AtWork(j)' /\ ~ Asked(j, {"decrypting"})'
        BY <3>3 DEF Known, Downloaded, Exists, Asked
      <4>2. ~ Finishing(j)'
        BY <3>3, <1>a, <1>b, LifeTypes DEF Known
      <4> QED
        BY <3>1, <4>1, <4>2 DEF Past, PastStatus
    <3> QED
      BY <3>1, <3>3, <3>4 DEF LifeOf
  <2> QED  BY <2>1, <2>2
<1>2. CASE Clear
  <2>1. jobs'[j] = jobs[j] \/ (jobs'[j] = RemoveRow(jobs[j]) /\ Exists(jobs[j]))
    BY <1>2 DEF Clear, ClearCompleted, Exists
  <2>2. RemoveRow(jobs[j]).status = "deleted" /\ RemoveRow(jobs[j]).deletedAt = "set"
    BY LifeTypes, StmtStatus, FreeOfCharge
  <2>3. manual' = manual
    BY <1>2 DEF Clear, ClearCompleted
  <2> QED
    BY <2>1, <2>2, <2>3, <1>a, <1>b, <1>c, LifeKept DEF Past
<1> QED
  BY <1>1, <1>2 DEF BulkNext, BulkStep, Purge

(* Every step but a purge.                                                 *)
LEMMA LifeStep ==
    ASSUME Inv, TrackInv, LifeInv, "purge" \notin Ops, [Next]_vars
    PROVE  LifeInv'
<1>1. CASE (\E g \in Gids : EngineNext(g)) \/ (\E v \in AutoModes : SetAutoDecrypt(v))
           \/ EngineRestart \/ UNCHANGED vars \/ (\E k \in JobId : TimerNext(k))
  <2>1. UNCHANGED <<manual, gor, req, snap, pc, cur>>
    BY <1>1 DEF EngineNext, SetAutoDecrypt, EngineRestart, TimerNext, RetryTimer, vars, storeVars,
         workerVars, localVars
  <2>2. ASSUME NEW j \in JobId
        PROVE  jobs'[j].status = jobs[j].status /\ jobs'[j].deletedAt = jobs[j].deletedAt
    <3>1. jobs' = jobs \/ \E k \in JobId : TimerNext(k)
      BY <1>1 DEF EngineNext, SetAutoDecrypt, EngineRestart, vars, storeVars
    <3>2. jobs[j] \in Row /\ StoreTypeOK
      BY LifeTypes
    <3>3. ASSUME NEW k \in JobId, TimerNext(k)
          PROVE  jobs'[j].status = jobs[j].status /\ jobs'[j].deletedAt = jobs[j].deletedAt
      BY <3>2, <3>3 DEF TimerNext, RetryTimer, StoreTypeOK, Row
    <3> QED
      BY <3>1, <3>3
  <2> SUFFICES ASSUME NEW j \in JobId PROVE LifeOf(j)'
    BY DEF LifeInv
  <2>3. /\ LifeOf(j) /\ (Finishing(j)' <=> Finishing(j)) /\ (AtWork(j)' <=> AtWork(j))
        /\ (Asked(j, {"decrypting"})' <=> Asked(j, {"decrypting"})) /\ (Known(j)' <=> Known(j))
    BY <2>1 DEF LifeInv, Finishing, AtWork, Asked, Known
  <2>4. Known(j)' => Exists(jobs[j])
    BY <2>3 DEF LifeOf
  <2> QED
    BY <2>1, <2>2, <2>3, <2>4, LifeKept DEF Past
<1>2. CASE DaemonCrash
  <2> SUFFICES ASSUME NEW j \in JobId PROVE LifeOf(j)'
    BY DEF LifeInv
  <2>1. /\ UNCHANGED <<jobs, manual>> /\ snap'[j].status = "none" /\ pc' = "idle"
        /\ \A w \in Workers : gor'[w].pc = "none"
        /\ \A c \in Clients : req'[c].call = "none" /\ req'[c].stmt = "none"
    BY <1>2 DEF DaemonCrash, storeVars, NoRow, NewRow, NoGor, NoRequest
  <2>2. ~ Known(j)' /\ ~ Finishing(j)' /\ ~ AtWork(j)' /\ ~ Asked(j, {"decrypting"})'
    BY <2>1 DEF Known, Finishing, AtWork, Asked, Exists
  <2>3. LifeOf(j) /\ snap[j] \in Row
    BY LifeTypes DEF LifeInv
  <2>4. /\ jobs[j].status = "deleted" => jobs[j].deletedAt = "set"
        /\ jobs[j].status = "none" => jobs[j].deletedAt = "null"
    BY <2>3 DEF LifeOf
  <2>5. ~ (Preparing(j)' /\ Past(j)')
    BY <2>1, <2>2 DEF Preparing, Past, PreStatus, PastStatus, Downloaded
  <2> QED
    BY <2>1, <2>2, <2>4, <2>5 DEF LifeOf
<1> QED
  BY <1>1, <1>2, RunnerStepLife, WorkerStepLife, ClientStepLife, BulkStepLife DEF Next, RunnerNext

----------------------------------------------------------------------------
(* The refinement.  Each step of dlqd that clients can see is a step of    *)
(* JobLifecycle on the stages, failures and requests of the jobs.          *)

Stages == [j \in JobId |-> StageOf(jobs[j])]
Failures == [j \in JobId |-> jobs[j].attempts]

(* The stage of a row.                                                     *)
LEMMA StageFacts ==
    ASSUME NEW r \in Row, r.status = "deleted" => r.deletedAt = "set",
           r.status = "none" => r.deletedAt = "null"
    PROVE  /\ StageOf(r) = "removed" <=> r.deletedAt = "set"
           /\ StageOf(r) = "absent" <=> r.status = "none"
           /\ r.deletedAt = "null" =>
                 /\ r.status \in {"queued", "resolving", "downloading"} => StageOf(r) = "active"
                 /\ r.status \in {"paused", "failed"} => StageOf(r) = r.status
                 /\ r.status \in PastStatus => StageOf(r) \in {"processing", "broken", "done"}
                 /\ r.status = "completed" <=> StageOf(r) = "done"
                 /\ r.status = "decrypting" => StageOf(r) = "processing"
<1>1. r.deletedAt \in {"null", "set"} /\ r.status \in Status
  BY DEF Row
<1>2. CASE r.deletedAt = "set"
  BY <1>2 DEF StageOf
<1>3. CASE r.deletedAt = "null"
  BY <1>1, <1>3 DEF StageOf, Status, PastStatus
<1> QED
  BY <1>1, <1>2, <1>3

(* The stage depends on the status and deleted_at.                         *)
LEMMA SameStage ==
    ASSUME NEW r, NEW q, q.status = r.status, q.deletedAt = r.deletedAt
    PROVE  StageOf(q) = StageOf(r)
BY DEF StageOf

(* What clients see when one job changes.                                  *)
LEMMA OneChanges ==
    ASSUME StoreTypeOK, StoreTypeOK', NEW id \in JobId,
           \A j \in JobId \ {id} : /\ StageOf(jobs'[j]) = StageOf(jobs[j])
                                   /\ jobs'[j].attempts = jobs[j].attempts
                                   /\ manual'[j] = manual[j]
    PROVE  /\ Stages' = [Stages EXCEPT ![id] = StageOf(jobs'[id])]
           /\ Failures' = [Failures EXCEPT ![id] = jobs'[id].attempts]
           /\ manual' = [manual EXCEPT ![id] = manual'[id]]
<1>1. Stages' = [Stages EXCEPT ![id] = StageOf(jobs'[id])]
  BY DEF Stages
<1>2. Failures' = [Failures EXCEPT ![id] = jobs'[id].attempts]
  BY DEF Failures
<1>3. manual' = [manual EXCEPT ![id] = manual'[id]]
  BY DEF StoreTypeOK
<1> QED
  BY <1>1, <1>2, <1>3

(* Nobody sees a step that changes no stage and no count.                  *)
LEMMA NothingSeen ==
    ASSUME \A j \in JobId : StageOf(jobs'[j]) = StageOf(jobs[j]) /\ jobs'[j].attempts = jobs[j].attempts,
           manual' = manual
    PROVE  UNCHANGED Lifecycle!lifecycleVars
BY DEF Lifecycle!lifecycleVars

(* Nobody sees a statement that keeps status, deleted_at and attempts.     *)
LEMMA UpdateUnseen ==
    ASSUME StoreTypeOK, NEW id \in JobId, NEW row, Update(id, row), manual' = manual,
           row.status = jobs[id].status, row.deletedAt = jobs[id].deletedAt,
           row.attempts = jobs[id].attempts
    PROVE  UNCHANGED Lifecycle!lifecycleVars
<1>1. ASSUME NEW j \in JobId
      PROVE  StageOf(jobs'[j]) = StageOf(jobs[j]) /\ jobs'[j].attempts = jobs[j].attempts
  <2>1. /\ jobs'[j].status = jobs[j].status /\ jobs'[j].deletedAt = jobs[j].deletedAt
        /\ jobs'[j].attempts = jobs[j].attempts
    BY UpdateRow
  <2> QED
    BY <2>1, SameStage
<1> QED
  BY <1>1, NothingSeen

(* MarkFailed is Fail.                                                     *)
LEMMA FailStep ==
    ASSUME Inv, StoreTypeOK', LifeInv, BudgetInv, NEW id \in JobId, Exists(jobs[id]),
           Update(id, MarkFailed(jobs[id])), manual' = manual, Charged(id),
           jobs[id].status # "failed", manual[id] = 0 => jobs[id].status \notin PastStatus
    PROVE  Lifecycle!Fail(id)
<1> DEFINE r == jobs[id]
<1>a. StoreTypeOK /\ r \in Row /\ LifeOf(id)
  BY LifeTypes DEF LifeInv
<1>b. jobs'[id] = MarkFailed(r) /\ jobs'[id] \in Row /\ \A j \in JobId \ {id} : jobs'[j] = jobs[j]
  BY <1>a DEF Update, StoreTypeOK
<1>c. /\ MarkFailed(r).attempts = r.attempts + 1 /\ MarkFailed(r).status = "failed"
      /\ MarkFailed(r).deletedAt = r.deletedAt
  BY <1>a, ChargeFacts, StmtStatus
<1>1. r.attempts < MaxAttempts + manual[id] /\ manual[id] \in Nat
  BY <1>a DEF BudgetInv, StoreTypeOK
<1>2. /\ StageOf(r) # "absent"
      /\ manual[id] > 0 \/ StageOf(r) \in {"active", "paused", "removed"}
  <2>1. r.status # "none" /\ r.deletedAt \in {"null", "set"} /\ r.status \in Status
    BY <1>a DEF Exists, Row
  <2>2. /\ r.status = "deleted" => r.deletedAt = "set"
        /\ r.status = "none" => r.deletedAt = "null"
    BY <1>a DEF LifeOf
  <2>3. manual[id] = 0 => r.status \in {"queued", "resolving", "downloading", "paused", "deleted"}
    BY <2>1 DEF Status, PastStatus
  <2> QED
    BY <2>1, <2>2, <2>3, <1>1, <1>a, StageFacts
<1>3. StageOf(jobs'[id]) = IF StageOf(r) = "removed" THEN "removed" ELSE "failed"
  <2>1. /\ r.status = "deleted" => r.deletedAt = "set"
        /\ r.status = "none" => r.deletedAt = "null"
    BY <1>a DEF LifeOf
  <2>2. StageOf(r) = "removed" <=> r.deletedAt = "set"
    BY <2>1, <1>a, StageFacts
  <2> QED
    BY <2>2, <1>a, <1>b, <1>c DEF StageOf, Row
<1>4. /\ Stages' = [Stages EXCEPT ![id] = StageOf(jobs'[id])]
      /\ Failures' = [Failures EXCEPT ![id] = jobs'[id].attempts]
  BY <1>a, <1>b, OneChanges
<1>5. Stages[id] = StageOf(r) /\ Failures[id] = r.attempts
  BY DEF Stages, Failures
<1>6. /\ Stages' = [Stages EXCEPT ![id] = IF @ = "removed" THEN @ ELSE "failed"]
      /\ Failures' = [Failures EXCEPT ![id] = @ + 1]
  BY <1>3, <1>4, <1>5, <1>b, <1>c DEF Stages, Failures
<1>7. /\ \/ Stages[id] \in {"active", "paused", "removed"}
         \/ Stages[id] # "absent" /\ manual[id] > 0
      /\ Failures[id] < MaxAttempts + manual[id]
  BY <1>1, <1>2, <1>5
<1> QED
  BY <1>6, <1>7 DEF Lifecycle!Fail, Lifecycle!In, Lifecycle!Present, Lifecycle!Allowance, Stages, Failures

(* What clients see of a statement that charges nothing.                   *)
LEMMA RowSeen ==
    ASSUME Inv, StoreTypeOK', LifeInv, LifeInv', NEW id \in JobId, NEW row, Update(id, row),
           Exists(jobs[id]), row.attempts = jobs[id].attempts,
           \A j \in JobId \ {id} : manual'[j] = manual[j]
    PROVE  /\ jobs[id] \in Row /\ row \in Row /\ jobs'[id] = row
           /\ Stages[id] = StageOf(jobs[id]) /\ Failures[id] = jobs[id].attempts
           /\ Stages' = [Stages EXCEPT ![id] = StageOf(row)] /\ Failures' = Failures
           /\ manual' = [manual EXCEPT ![id] = manual'[id]]
           /\ StageOf(row) = Stages[id] => Stages' = Stages
           /\ jobs[id].status = "deleted" => jobs[id].deletedAt = "set"
           /\ jobs[id].status = "none" => jobs[id].deletedAt = "null"
           /\ row.status = "deleted" => row.deletedAt = "set"
           /\ row.status = "none" => row.deletedAt = "null"
<1>a. StoreTypeOK /\ jobs[id] \in Row /\ LifeOf(id) /\ LifeOf(id)'
  BY LifeTypes DEF LifeInv
<1>b. jobs'[id] = row /\ row \in Row /\ \A j \in JobId \ {id} : jobs'[j] = jobs[j]
  BY <1>a DEF Update, StoreTypeOK
<1>1. /\ Stages' = [Stages EXCEPT ![id] = StageOf(row)]
      /\ Failures' = [Failures EXCEPT ![id] = row.attempts]
      /\ manual' = [manual EXCEPT ![id] = manual'[id]]
  BY <1>a, <1>b, OneChanges
<1>2. Stages[id] = StageOf(jobs[id]) /\ Failures[id] = jobs[id].attempts
  BY DEF Stages, Failures
<1>3. Failures' = Failures /\ (StageOf(row) = Stages[id] => Stages' = Stages)
  BY <1>1, <1>2 DEF Stages, Failures
<1>4. /\ jobs[id].status = "deleted" => jobs[id].deletedAt = "set"
      /\ jobs[id].status = "none" => jobs[id].deletedAt = "null"
      /\ row.status = "deleted" => row.deletedAt = "set"
      /\ row.status = "none" => row.deletedAt = "null"
  BY <1>a, <1>b DEF LifeOf
<1> QED
  BY <1>a, <1>b, <1>1, <1>2, <1>3, <1>4

(* The runner makes a job active, or finds it so: TryAgain or nothing.     *)
LEMMA TryAgainStep ==
    ASSUME Inv, StoreTypeOK', LifeInv, LifeInv', BudgetInv, NEW id \in JobId, NEW row,
           Update(id, row), Exists(jobs[id]), row.attempts = jobs[id].attempts, manual' = manual,
           row.status \in {"queued", "downloading"}, row.deletedAt \in {jobs[id].deletedAt, "null"},
           Charged(id), manual[id] = 0 => jobs[id].status \notin PastStatus
    PROVE  Lifecycle!TryAgain(id) \/ UNCHANGED Lifecycle!lifecycleVars
<1> DEFINE r == jobs[id]
<1>a. /\ r \in Row /\ row \in Row /\ Stages[id] = StageOf(r) /\ Failures[id] = r.attempts
      /\ Stages' = [Stages EXCEPT ![id] = StageOf(row)] /\ Failures' = Failures
      /\ StageOf(row) = Stages[id] => Stages' = Stages
      /\ r.status = "deleted" => r.deletedAt = "set"
      /\ r.status = "none" => r.deletedAt = "null"
      /\ row.status = "deleted" => row.deletedAt = "set"
      /\ row.status = "none" => row.deletedAt = "null"
  BY RowSeen
<1>b. r.attempts < MaxAttempts + manual[id] /\ manual[id] \in Nat
  BY LifeTypes DEF BudgetInv, StoreTypeOK
<1>c. /\ r.status \in Status \ {"none"} /\ {r.deletedAt, row.deletedAt} \subseteq {"null", "set"}
  BY <1>a DEF Row, Exists
<1>1. CASE StageOf(row) = StageOf(r)
  BY <1>1, <1>a DEF Lifecycle!lifecycleVars, Stages, Failures
<1>2. CASE StageOf(row) # StageOf(r)
  <2>1. StageOf(row) \in {"active", "removed"} /\ StageOf(row) = "removed" => r.deletedAt = "set"
    BY <1>a, <1>c, StageFacts
  <2>2. StageOf(row) = "active"
    BY <1>2, <2>1, <1>a, <1>c, StageFacts
  <2>3. StageOf(r) # "absent" /\ (manual[id] = 0 => StageOf(r) \in {"failed", "paused", "removed"})
    <3>1. manual[id] = 0 => r.status \in {"queued", "resolving", "downloading", "paused", "failed", "deleted"}
      BY <1>c DEF Status, PastStatus
    <3> QED
      BY <3>1, <2>2, <1>2, <1>a, <1>c, StageFacts
  <2>4. /\ Stages' = [Stages EXCEPT ![id] = "active"] /\ Failures' = Failures
        /\ \/ Stages[id] \in {"failed", "paused", "removed"}
           \/ Stages[id] # "absent" /\ manual[id] > 0
        /\ Failures[id] < MaxAttempts + manual[id]
    BY <2>2, <2>3, <1>a, <1>b
  <2> QED
    BY <2>4 DEF Lifecycle!TryAgain, Lifecycle!In, Lifecycle!Present, Lifecycle!Allowance, Stages, Failures
<1> QED
  BY <1>1, <1>2

(* The runner or a goroutine records that a download or its processing has *)
(* ended: Advance, or nothing if the job has been removed.                 *)
LEMMA AdvanceStep ==
    ASSUME Inv, StoreTypeOK', LifeInv, LifeInv', NEW id \in JobId, NEW row,
           Update(id, row), Exists(jobs[id]), row.attempts = jobs[id].attempts, manual' = manual,
           row.status \in PastStatus, row.deletedAt = jobs[id].deletedAt,
           manual[id] = 0 => jobs[id].status # "failed"
    PROVE  Lifecycle!Advance(id) \/ UNCHANGED Lifecycle!lifecycleVars
<1> DEFINE r == jobs[id]
<1>a. /\ r \in Row /\ row \in Row /\ Stages[id] = StageOf(r)
      /\ Stages' = [Stages EXCEPT ![id] = StageOf(row)] /\ Failures' = Failures
      /\ StageOf(row) = Stages[id] => Stages' = Stages
      /\ r.status = "deleted" => r.deletedAt = "set"
      /\ r.status = "none" => r.deletedAt = "null"
      /\ row.status = "deleted" => row.deletedAt = "set"
      /\ row.status = "none" => row.deletedAt = "null"
  BY RowSeen
<1>b. manual[id] \in Nat
  BY LifeTypes DEF StoreTypeOK
<1>c. /\ r.status \in Status \ {"none"} /\ {r.deletedAt, row.deletedAt} \subseteq {"null", "set"}
  BY <1>a DEF Row, Exists
<1>1. CASE r.deletedAt = "set"
  <2>1. StageOf(row) = StageOf(r)
    BY <1>1, <1>a, StageFacts
  <2> QED
    BY <2>1, <1>a DEF Lifecycle!lifecycleVars, Stages, Failures
<1>2. CASE r.deletedAt = "null"
  <2>1. StageOf(row) \in {"processing", "broken", "done"}
    BY <1>2, <1>a, StageFacts
  <2>2. /\ StageOf(r) # "absent" /\ StageOf(r) # "removed"
        /\ manual[id] = 0 => StageOf(r) \in {"active", "paused", "processing", "broken", "done"}
    <3>1. manual[id] = 0 => r.status \in {"queued", "resolving", "downloading", "paused"} \cup PastStatus
      BY <1>2, <1>a, <1>c DEF Status, PastStatus
    <3> QED
      BY <3>1, <1>2, <1>a, <1>c, StageFacts
  <2>3. /\ \E st \in {"processing", "broken", "done"} : Stages' = [Stages EXCEPT ![id] = st]
        /\ Failures' = Failures /\ Stages[id] # "removed"
        /\ \/ Stages[id] \in {"active", "paused"} \cup {"processing", "broken", "done"}
           \/ Stages[id] # "absent" /\ manual[id] > 0
    <3> DEFINE st == StageOf(row)
    <3>1. st \in {"processing", "broken", "done"} /\ Stages' = [Stages EXCEPT ![id] = st]
      BY <2>1, <1>a
    <3> HIDE DEF st
    <3>2. \E x \in {"processing", "broken", "done"} : Stages' = [Stages EXCEPT ![id] = x]
      BY <3>1
    <3>3. Failures' = Failures /\ Stages[id] # "removed" /\ Stages[id] # "absent"
      BY <2>2, <1>a
    <3>4. manual[id] = 0 \/ manual[id] > 0
      BY <1>b
    <3> QED
      BY <3>2, <3>3, <3>4, <2>2, <1>a
  <2> QED
    BY <2>3 DEF Lifecycle!Advance, Lifecycle!In, Lifecycle!Present, Lifecycle!Downloaded, Stages, Failures
<1> QED
  BY <1>1, <1>2, <1>c

(* The steps of JobLifecycle, one by one.                                  *)
LEMMA LifecycleStep ==
    ASSUME NEW id \in JobId,
           \/ Lifecycle!Create(id) \/ Lifecycle!Again(id) \/ Lifecycle!Stop(id)
           \/ Lifecycle!Reprocess(id) \/ Lifecycle!Fail(id) \/ Lifecycle!TryAgain(id)
           \/ Lifecycle!Advance(id) \/ UNCHANGED Lifecycle!lifecycleVars
    PROVE  [Lifecycle!Next]_(Lifecycle!lifecycleVars)
BY DEF Lifecycle!Next

(* What a goroutine does.                                                  *)
LEMMA WorkerSeen ==
    ASSUME Inv, StoreTypeOK', LifeInv, LifeInv', NEW w \in Workers, WorkerNext(w)
    PROVE  [Lifecycle!Next]_(Lifecycle!lifecycleVars)
<1> DEFINE id == gor[w].task.id
<1>a. id \in JobId /\ StoreTypeOK /\ manual' = manual /\ jobs[id] \in Row
  <2>1. id \in JobId /\ StoreTypeOK
    BY LifeTypes
  <2> QED
    BY <2>1, LifeTypes DEF WorkerNext, WorkerStep, AcquireWorker, MegaDecrypted, MegaFailed,
         ArchiveSkipped, ArchiveDecrypted, ArchiveFailed, WorkerMarkCompleted, WorkerMarkFailed,
         WorkerClearPassword, WorkerStmt, UnmarkPending, ReleaseWorker, storeVars
<1>1. CASE jobs' = jobs
  BY <1>1, <1>a, NothingSeen
<1>2. CASE WorkerMarkCompleted(w) \/ WorkerMarkFailed(w) \/ WorkerClearPassword(w)
  <2>0. AtWork(id)
    BY <1>2 DEF AtWork, WorkerMarkCompleted, WorkerMarkFailed, WorkerClearPassword, WorkerStmt
  <2> HIDE DEF id
  <2>1. Exists(jobs[id]) /\ (manual[id] = 0 => jobs[id].status # "failed")
    <3>1. Known(id) /\ Past(id) /\ LifeOf(id)
      BY <2>0, <1>a DEF Known, Past, LifeInv
    <3> QED
      BY <3>1 DEF LifeOf, Preparing, PreStatus
  <2>2. CASE WorkerMarkCompleted(w) \/ WorkerMarkFailed(w)
    <3>1. PICK row : /\ Update(id, row) /\ row.deletedAt = jobs[id].deletedAt
                     /\ row.status \in PastStatus /\ row.attempts = jobs[id].attempts
      BY <2>2, <1>a, FreeOfCharge, StmtStatus DEF WorkerMarkCompleted, WorkerMarkFailed,
           WorkerStmt, id, PastStatus
    <3> QED
      BY <2>1, <3>1, <1>a, AdvanceStep, LifecycleStep
  <2>3. CASE WorkerClearPassword(w)
    <3>1. PICK row : /\ Update(id, row) /\ row.deletedAt = jobs[id].deletedAt
                     /\ row.status = jobs[id].status /\ row.attempts = jobs[id].attempts
      BY <2>3, <1>a, FreeOfCharge, StmtStatus DEF WorkerClearPassword, WorkerStmt, id
    <3> QED
      BY <3>1, <1>a, UpdateUnseen
  <2> QED
    BY <1>2, <2>2, <2>3
<1> QED
  BY <1>1, <1>2 DEF WorkerNext, WorkerStep, AcquireWorker, MegaDecrypted, MegaFailed,
       ArchiveSkipped, ArchiveDecrypted, ArchiveFailed, UnmarkPending, ReleaseWorker, storeVars

(* What is known of the row of a job on the runner's list.                 *)
LEMMA HeldSeen ==
    ASSUME Inv, LifeInv, NEW id \in Held
    PROVE  /\ id \in JobId /\ Exists(jobs[id])
           /\ snap[id].status \in {"downloading", "resolving"} => jobs[id].status # "failed"
           /\ (snap[id].status \in PreStatus /\ ~ Finishing(id) /\ manual[id] = 0)
                 => jobs[id].status \notin PastStatus
           /\ (Downloaded(id) /\ manual[id] = 0) => jobs[id].status # "failed"
<1>1. id \in JobId /\ Known(id)
  BY DEF Held, Known
<1>2. LifeOf(id)
  BY <1>1 DEF LifeInv
<1> QED
  BY <1>1, <1>2 DEF LifeOf, Preparing, Past, PreStatus

(* What the runner does.                                                   *)
LEMMA RunnerSeen ==
    ASSUME Inv, StoreTypeOK', LifeInv, LifeInv', BudgetInv, RunnerStep
    PROVE  [Lifecycle!Next]_(Lifecycle!lifecycleVars)
<1>a. /\ StoreTypeOK /\ RunnerTypeOK /\ ListInv /\ cur \in JobId /\ jobs[cur] \in Row
      /\ \A j \in JobId : jobs[j] \in Row
  BY LifeTypes
<1>1. CASE UNCHANGED <<jobs, manual>>
  BY <1>1, NothingSeen
<1>2. ASSUME NEW id \in JobId, AutoRequeue(id) PROVE [Lifecycle!Next]_(Lifecycle!lifecycleVars)
  <2> DEFINE row == Requeue(jobs[id])
  <2>1. pc = "requeue" /\ id \in Held /\ Update(id, row) /\ manual' = manual
    BY <1>2 DEF AutoRequeue, Write
  <2>2. row.status = "queued" /\ row.deletedAt = "null" /\ row.attempts = jobs[id].attempts
    BY <1>a, FreeOfCharge, StmtGid, StmtStatus
  <2>3. snap[id].status = "failed" /\ Charged(id) /\ ~ Finishing(id)
    BY <2>1, <1>a DEF ListInv, Charged, Finishing
  <2>4. Exists(jobs[id]) /\ (manual[id] = 0 => jobs[id].status \notin PastStatus)
    BY <2>1, <2>3, HeldSeen DEF PreStatus
  <2> HIDE DEF row
  <2> QED
    BY <2>1, <2>2, <2>3, <2>4, TryAgainStep, LifecycleStep
<1>3. ASSUME NEW id \in JobId, ClaimNextQueued(id) PROVE [Lifecycle!Next]_(Lifecycle!lifecycleVars)
  <2> DEFINE row == Resolving(jobs[id])
  <2>1. /\ jobs[id].status = "queued" /\ jobs[id].deletedAt = "null" /\ Update(id, row)
        /\ manual' = manual /\ Exists(jobs[id])
    BY <1>3 DEF ClaimNextQueued, ClaimableQueued, Listed, Write
  <2>2. row.status = "resolving" /\ row.deletedAt = "null" /\ row.attempts = jobs[id].attempts
    BY <2>1, <1>a, FreeOfCharge, StmtGid, StmtStatus
  <2>3. row \in Row /\ jobs[id] \in Row
    BY <1>a, RowOpsType
  <2> HIDE DEF row
  <2>4. StageOf(row) = "active" /\ StageOf(jobs[id]) = "active"
    BY <2>1, <2>2, <2>3, StageFacts
  <2>5. \A j \in JobId : StageOf(jobs'[j]) = StageOf(jobs[j]) /\ jobs'[j].attempts = jobs[j].attempts
    BY <2>1, <2>2, <2>4, <1>a, UpdateRow
  <2> QED
    BY <2>1, <2>5, NothingSeen
<1>4. CASE ApplyFailed \/ ResolveFailed \/ RunnerMarkFailed
  <2>1. /\ Update(cur, MarkFailed(jobs[cur])) /\ manual' = manual
        /\ pc \in {"apply", "resolve", "startfail"}
    BY <1>4 DEF ApplyFailed, ResolveFailed, RunnerMarkFailed, Write
  <2>2. cur \in Held /\ snap[cur].status \in {"downloading", "resolving"} /\ Charged(cur) /\ ~ Finishing(cur)
    BY <2>1, <1>a, HeldIsCharged DEF ListInv, Polled, Finishing
  <2>3. /\ Exists(jobs[cur]) /\ jobs[cur].status # "failed"
        /\ manual[cur] = 0 => jobs[cur].status \notin PastStatus
    BY <2>2, HeldSeen DEF PreStatus
  <2> QED
    BY <2>1, <2>2, <2>3, <1>a, FailStep, LifecycleStep
<1>5. CASE ApplyProgress \/ RunnerMarkDownloading
  <2>1. PICK row : /\ Update(cur, row) /\ manual' = manual /\ row.status = "downloading"
                   /\ row.deletedAt = jobs[cur].deletedAt /\ row.attempts = jobs[cur].attempts
    <3>1. CASE ApplyProgress
      BY <3>1, <1>a, FreeOfCharge, StmtGid, StmtStatus DEF ApplyProgress, Write
    <3>2. CASE RunnerMarkDownloading
      BY <3>2, <1>a, FreeOfCharge, StmtStatus DEF RunnerMarkDownloading
    <3> QED  BY <1>5, <3>1, <3>2
  <2>2. pc \in {"apply", "record"}
    BY <1>5 DEF ApplyProgress, RunnerMarkDownloading
  <2>3. cur \in Held /\ snap[cur].status \in {"downloading", "resolving"} /\ Charged(cur) /\ ~ Finishing(cur)
    BY <2>2, <1>a, HeldIsCharged DEF ListInv, Polled, Finishing
  <2>4. Exists(jobs[cur]) /\ (manual[cur] = 0 => jobs[cur].status \notin PastStatus)
    BY <2>3, HeldSeen DEF PreStatus
  <2> QED
    BY <2>1, <2>3, <2>4, <1>a, TryAgainStep, LifecycleStep
<1>6. CASE \/ ApplyComplete /\ ~ UNCHANGED <<jobs, manual>>
           \/ RunnerMarkDecrypting \/ RunnerMarkCompleted \/ RunnerMarkPostprocessFailed
  <2>1. PICK row : /\ Update(cur, row) /\ manual' = manual /\ row.status \in PastStatus
                   /\ row.deletedAt = jobs[cur].deletedAt /\ row.attempts = jobs[cur].attempts
    <3>1. CASE ApplyComplete /\ ~ UNCHANGED <<jobs, manual>>
      <4>1. Update(cur, UpdateProgress(jobs[cur], "completed")) /\ manual' = manual
        BY <3>1 DEF ApplyComplete, Write, ReadOnly, storeVars
      <4> QED
        BY <4>1, <1>a, FreeOfCharge, StmtStatus DEF PastStatus
    <3>2. CASE RunnerMarkDecrypting
      BY <3>2, <1>a, FreeOfCharge, StmtStatus DEF RunnerMarkDecrypting, Write, PastStatus
    <3>3. CASE RunnerMarkCompleted
      BY <3>3, <1>a, FreeOfCharge, StmtStatus DEF RunnerMarkCompleted, Write, PastStatus
    <3>4. CASE RunnerMarkPostprocessFailed
      BY <3>4, <1>a, FreeOfCharge, StmtStatus DEF RunnerMarkPostprocessFailed, Write, PastStatus
    <3> QED  BY <1>6, <3>1, <3>2, <3>3, <3>4
  <2>2. pc \in {"apply", "mark", "complete", "fail"}
    BY <1>6 DEF ApplyComplete, RunnerMarkDecrypting, RunnerMarkCompleted, RunnerMarkPostprocessFailed
  <2>3. cur \in Held /\ (Polled(cur) \/ Downloaded(cur))
    BY <2>2, <1>a DEF ListInv
  <2>4. Exists(jobs[cur]) /\ (manual[cur] = 0 => jobs[cur].status # "failed")
    BY <2>3, HeldSeen DEF Polled
  <2> QED
    BY <2>1, <2>4, <1>a, AdvanceStep, LifecycleStep
<1>7. CASE Resolved \/ RunnerClearPassword
  <2>1. PICK row : /\ Update(cur, row) /\ manual' = manual /\ row.status = jobs[cur].status
                   /\ row.deletedAt = jobs[cur].deletedAt /\ row.attempts = jobs[cur].attempts
    <3>1. CASE Resolved
      BY <3>1, <1>a, FreeOfCharge, StmtGid, StmtStatus DEF Resolved, Write
    <3>2. CASE RunnerClearPassword
      BY <3>2, <1>a, FreeOfCharge, StmtStatus DEF RunnerClearPassword, Write
    <3> QED  BY <1>7, <3>1, <3>2
  <2> QED
    BY <2>1, <1>a, UpdateUnseen
<1>8. CASE \/ ListActive \/ ListPending \/ ListRetryable \/ RunnerSchedule \/ CountDownloading
           \/ NothingQueued \/ ClaimConflict \/ CheckDeleted \/ PrepareOutputForStart
           \/ RemoveControlFile \/ RemoveControlFileFailed \/ Started \/ StartFailed \/ StartLost
           \/ (\E id \in JobId : TellStatus(id) \/ Dispatch(id))
  <2>1. UNCHANGED <<jobs, manual>>
    BY <1>8 DEF ListActive, ListPending, ListRetryable, Load, RunnerSchedule, CountDownloading,
         NothingQueued, ClaimConflict, CheckDeleted, PrepareOutputForStart,
         RemoveControlFile, RemoveControlFileFailed, Started, StartFailed, StartLost,
         TellStatus, Dispatch, DispatchSkip, DispatchNothingToDo, DispatchNoPath, DispatchWait,
         DispatchTaskReady, Dispatching, ReadOnly, storeVars
  <2> QED
    BY <2>1, <1>1
<1> QED
  BY <1>1, <1>2, <1>3, <1>4, <1>5, <1>6, <1>7, <1>8 DEF RunnerStep, RunnerJobStep

(* What a client's operation on a job does: its statement is the only step *)
(* that is seen.                                                           *)
LEMMA ExecuteSeen ==
    ASSUME Inv, StoreTypeOK', LifeInv, LifeInv', NEW c \in Clients, Execute(c)
    PROVE  [Lifecycle!Next]_(Lifecycle!lifecycleVars)
<1> DEFINE id == req[c].id
           stmt == req[c].stmt
           r == jobs[id]
           row == RowAfter(stmt, r)
<1>a. /\ id \in JobId /\ r \in Row /\ manual \in [JobId -> Nat]
      /\ stmt \in {"requeue", "decrypting", "remove", "pause", "downloading"}
  BY LifeTypes DEF Execute, Request, Stmt, StoreTypeOK
<1>b. /\ Update(id, row)
      /\ manual' = [manual EXCEPT ![id] = IF stmt \in {"requeue", "downloading"} THEN @ + 1 ELSE @]
  BY DEF Execute
<1>c. Exists(r)
  <2>1. Known(id) /\ LifeOf(id)
    BY <1>a DEF Known, LifeInv, Execute
  <2> QED
    BY <2>1 DEF LifeOf
<1>d. /\ row.attempts = r.attempts
      /\ stmt = "requeue" => row.status = "queued" /\ row.deletedAt = "null"
      /\ stmt = "decrypting" => row.status = "decrypting" /\ row.deletedAt = r.deletedAt
      /\ stmt = "remove" => row.status = "deleted" /\ row.deletedAt = "set"
      /\ stmt = "pause" => row.status = "paused" /\ row.deletedAt = r.deletedAt
      /\ stmt = "downloading" => row.status = "downloading" /\ row.deletedAt = r.deletedAt
  <2>1. CASE stmt = "requeue"
    BY <2>1, <1>a, FreeOfCharge, StmtGid, StmtStatus DEF RowAfter
  <2>2. CASE stmt = "decrypting"
    BY <2>2, <1>a, FreeOfCharge, StmtStatus DEF RowAfter
  <2>3. CASE stmt = "remove"
    BY <2>3, <1>a, FreeOfCharge, StmtStatus DEF RowAfter
  <2>4. CASE stmt = "pause"
    BY <2>4, <1>a, FreeOfCharge, StmtStatus DEF RowAfter
  <2>5. CASE stmt = "downloading"
    BY <2>5, <1>a, FreeOfCharge, StmtStatus DEF RowAfter
  <2> QED  BY <1>a, <2>1, <2>2, <2>3, <2>4, <2>5
<1>e. \A j \in JobId \ {id} : manual'[j] = manual[j]
  BY <1>a, <1>b
<1> HIDE DEF row, id, stmt
<1>f. /\ row \in Row /\ Stages[id] = StageOf(r)
      /\ Stages' = [Stages EXCEPT ![id] = StageOf(row)] /\ Failures' = Failures
      /\ StageOf(row) = Stages[id] => Stages' = Stages
      /\ r.status = "deleted" => r.deletedAt = "set"
      /\ r.status = "none" => r.deletedAt = "null"
      /\ row.status = "deleted" => row.deletedAt = "set"
      /\ row.status = "none" => row.deletedAt = "null"
  BY <1>a, <1>b, <1>c, <1>d, <1>e, RowSeen
<1>g. r.deletedAt \in {"null", "set"} /\ StageOf(r) # "absent"
  BY <1>a, <1>c, <1>f, StageFacts DEF Row, Exists
<1>1. CASE stmt \in {"requeue", "downloading"}
  <2>1. manual' = [manual EXCEPT ![id] = @ + 1]
    BY <1>1, <1>b
  <2>2. StageOf(row) = "active" \/ (StageOf(r) = "removed" /\ StageOf(row) = StageOf(r))
    BY <1>1, <1>a, <1>d, <1>f, <1>g, StageFacts
  <2>3. Stages' = [Stages EXCEPT ![id] = "active"] \/ (Stages[id] = "removed" /\ Stages' = Stages)
    BY <2>2, <1>f
  <2>4. Lifecycle!Again(id)
    BY <2>1, <2>3, <1>f, <1>g DEF Lifecycle!Again, Lifecycle!Present, Stages, Failures
  <2> QED
    BY <2>4, <1>a, LifecycleStep
<1>2. CASE stmt = "decrypting"
  <2>1. manual' = manual
    BY <1>2, <1>a, <1>b
  <2>2. StageOf(row) = "processing" \/ StageOf(row) = StageOf(r)
    BY <1>2, <1>a, <1>d, <1>f, <1>g, StageFacts
  <2>3. CASE StageOf(row) = "processing"
    <3>1. Lifecycle!Reprocess(id)
      BY <2>1, <2>3, <1>f, <1>g DEF Lifecycle!Reprocess, Lifecycle!Present, Stages, Failures
    <3> QED
      BY <3>1, <1>a, LifecycleStep
  <2>4. CASE StageOf(row) = StageOf(r)
    BY <2>1, <2>4, <1>f DEF Lifecycle!lifecycleVars, Stages, Failures
  <2> QED  BY <2>2, <2>3, <2>4
<1>3. CASE stmt \in {"remove", "pause"}
  <2>1. manual' = manual
    BY <1>3, <1>a, <1>b
  <2>2. StageOf(row) \in {"paused", "removed"}
    BY <1>3, <1>a, <1>d, <1>f, <1>g, StageFacts
  <2>3. Stages' = [Stages EXCEPT ![id] = "paused"] \/ Stages' = [Stages EXCEPT ![id] = "removed"]
    BY <2>2, <1>f
  <2>4. Lifecycle!Stop(id)
    BY <2>1, <2>3, <1>f, <1>g DEF Lifecycle!Stop, Lifecycle!Present, Stages, Failures
  <2> QED
    BY <2>4, <1>a, LifecycleStep
<1> QED
  BY <1>a, <1>1, <1>2, <1>3

LEMMA ClientSeen ==
    ASSUME Inv, StoreTypeOK', LifeInv, LifeInv', NEW c \in Clients, ClientNext(c)
    PROVE  [Lifecycle!Next]_(Lifecycle!lifecycleVars)
<1>1. CASE Execute(c)
  BY <1>1, ExecuteSeen
<1>2. CASE ~ Execute(c)
  <2>1. UNCHANGED <<jobs, manual>>
    BY <1>2 DEF ClientNext, ServiceStep, EngineCall, Retry, Remove, Pause, Resume, Begin, storeVars
  <2> QED
    BY <2>1, NothingSeen
<1> QED
  BY <1>1, <1>2

(* What Create and Clear do.                                               *)
LEMMA BulkSeen ==
    ASSUME Inv, StoreTypeOK', TrackInv, LifeInv, LifeInv', "purge" \notin Ops, BulkNext
    PROVE  [Lifecycle!Next]_(Lifecycle!lifecycleVars)
<1>a. StoreTypeOK /\ \A j \in JobId : jobs[j] \in Row /\ LifeOf(j)
  BY LifeTypes DEF LifeInv
<1>1. ASSUME NEW kind \in Kinds, Create(kind) PROVE [Lifecycle!Next]_(Lifecycle!lifecycleVars)
  <2>0. PICK k \in JobId : k = seq + 1
    BY <1>1, <1>a DEF Create, CreateJob, StoreTypeOK, JobId
  <2>1. /\ jobs' = [jobs EXCEPT ![k] = NewRow(kind)]
        /\ manual' = [manual EXCEPT ![k] = 0]
    BY <2>0, <1>1 DEF Create, CreateJob
  <2>2. jobs[k].status = "none"
    <3>1. RowTracked(k) /\ k > seq
      BY <2>0, <1>a DEF TrackInv, StoreTypeOK
    <3> QED
      BY <3>1, <2>1, <1>a DEF RowTracked, Exists, StoreTypeOK, JobId
  <2>3. /\ jobs'[k] = NewRow(kind) /\ manual'[k] = 0
        /\ \A j \in JobId \ {k} : jobs'[j] = jobs[j] /\ manual'[j] = manual[j]
    BY <2>1, <1>a DEF StoreTypeOK
  <2>4. NewRow(kind).attempts = 0 /\ StageOf(NewRow(kind)) = "active"
    BY DEF NewRow, StageOf
  <2>5. StageOf(jobs[k]) = "absent"
    BY <2>1, <2>2, <1>a, StageFacts DEF LifeOf
  <2>6. /\ Stages' = [Stages EXCEPT ![k] = "active"] /\ Failures' = [Failures EXCEPT ![k] = 0]
    BY <2>1, <2>3, <2>4, <1>a, OneChanges
  <2>7. Lifecycle!Create(k)
    BY <2>1, <2>5, <2>6 DEF Lifecycle!Create, Lifecycle!Present, Stages, Failures
  <2> QED
    BY <2>7, LifecycleStep
<1>2. CASE Clear
  <2>1. /\ jobs' = [j \in JobId |-> IF jobs[j].status = "completed" THEN RemoveRow(jobs[j]) ELSE jobs[j]]
        /\ manual' = manual
    BY <1>2 DEF Clear, ClearCompleted
  <2>2. ASSUME NEW j \in JobId
        PROVE  /\ StageOf(jobs'[j]) = IF StageOf(jobs[j]) = "done" THEN "removed" ELSE StageOf(jobs[j])
               /\ jobs'[j].attempts = jobs[j].attempts
    <3>a. jobs[j] \in Row /\ (jobs[j].status = "deleted" => jobs[j].deletedAt = "set")
          /\ (jobs[j].status = "none" => jobs[j].deletedAt = "null")
          /\ jobs[j].deletedAt \in {"null", "set"}
      BY <1>a DEF LifeOf, Row
    <3>1. CASE jobs[j].status = "completed"
      <4>1. jobs'[j] = RemoveRow(jobs[j])
        BY <2>1, <3>1
      <4>2. /\ RemoveRow(jobs[j]).attempts = jobs[j].attempts
            /\ RemoveRow(jobs[j]).deletedAt = "set"
        BY <3>a, FreeOfCharge, StmtStatus
      <4>3. StageOf(RemoveRow(jobs[j])) = "removed"
        BY <4>2 DEF StageOf
      <4>4. StageOf(jobs[j]) \in {"done", "removed"}
        BY <3>a, <3>1, StageFacts
      <4> QED
        BY <4>1, <4>2, <4>3, <4>4
    <3>2. CASE jobs[j].status # "completed"
      <4>1. jobs'[j] = jobs[j]
        BY <2>1, <3>2
      <4>2. StageOf(jobs[j]) # "done"
        BY <3>2, <3>a, StageFacts
      <4> QED
        BY <4>1, <4>2
    <3> QED
      BY <3>1, <3>2
  <2>3. /\ Stages' = [j \in JobId |-> IF Stages[j] = "done" THEN "removed" ELSE Stages[j]]
        /\ Failures' = Failures
    BY <2>2 DEF Stages, Failures
  <2>4. Lifecycle!ClearDone
    BY <2>1, <2>3 DEF Lifecycle!ClearDone, Stages, Failures
  <2> QED
    BY <2>4 DEF Lifecycle!Next
<1> QED
  BY <1>1, <1>2 DEF BulkNext, BulkStep, Purge

(* Every step of dlqd is a step of JobLifecycle or is not seen.            *)
LEMMA StepSeen ==
    ASSUME Inv, Inv', TrackInv, LifeInv, LifeInv', BudgetInv, "purge" \notin Ops, [Next]_vars
    PROVE  [Lifecycle!Next]_(Lifecycle!lifecycleVars)
<1>a. StoreTypeOK /\ StoreTypeOK'
  BY DEF Inv, TypeOK
<1>1. CASE \/ \E g \in Gids : EngineNext(g)
           \/ \E v \in AutoModes : SetAutoDecrypt(v)
           \/ EngineRestart \/ DaemonCrash \/ UNCHANGED vars
  <2>1. UNCHANGED <<jobs, manual>>
    BY <1>1 DEF EngineNext, SetAutoDecrypt, EngineRestart, DaemonCrash, vars, storeVars
  <2> QED
    BY <2>1, NothingSeen
<1>2. ASSUME NEW k \in JobId, TimerNext(k) PROVE [Lifecycle!Next]_(Lifecycle!lifecycleVars)
  <2>1. ASSUME NEW j \in JobId
        PROVE  StageOf(jobs'[j]) = StageOf(jobs[j]) /\ jobs'[j].attempts = jobs[j].attempts
    <3>1. /\ jobs'[j].status = jobs[j].status /\ jobs'[j].deletedAt = jobs[j].deletedAt
          /\ jobs'[j].attempts = jobs[j].attempts
      BY <1>2, <1>a DEF TimerNext, RetryTimer, StoreTypeOK, Row
    <3> QED
      BY <3>1, SameStage
  <2>2. manual' = manual
    BY <1>2 DEF TimerNext, RetryTimer
  <2> QED
    BY <2>1, <2>2, NothingSeen
<1> QED
  BY <1>a, <1>1, <1>2, RunnerSeen, WorkerSeen, ClientSeen, BulkSeen DEF Next, RunnerNext

LEMMA InitLife == Init => LifeInv /\ Lifecycle!Init
<1> SUFFICES ASSUME Init PROVE LifeInv /\ Lifecycle!Init
  OBVIOUS
<1>1. /\ jobs = [j \in JobId |-> NoRow] /\ manual = [j \in JobId |-> 0]
      /\ snap = [j \in JobId |-> NoRow] /\ pc = "idle"
      /\ \A w \in Workers : gor[w].pc = "none"
      /\ \A c \in Clients : req[c].call = "none" /\ req[c].stmt = "none"
  BY DEF Init, StoreInit, RunnerStopped, WorkerInit, ServiceInit, NoGor, NoRequest
<1>2. NoRow.status = "none" /\ NoRow.deletedAt = "null" /\ NoRow.attempts = 0
  BY DEF NoRow, NewRow
<1>3. \A j \in JobId : LifeOf(j)
  BY <1>1, <1>2 DEF LifeOf, Known, AtWork, Exists, Preparing, PreStatus
<1>4. StageOf(NoRow) = "absent"
  BY <1>2 DEF StageOf
<1>5. Lifecycle!Init
  BY <1>1, <1>2, <1>4 DEF Lifecycle!Init
<1> QED
  BY <1>3, <1>5 DEF LifeInv

(***************************************************************************)
(* Whatever the runner, its goroutines, the clients, aria2c and crashes    *)
(* do, clients see every job live as JobLifecycle says, for every number   *)
(* of jobs, clients and goroutines: the daemon sends no job back to the    *)
(* queue once its download has ended, revives a failed job only while it   *)
(* has some allowance left, and never lets a removed job advance, unless a *)
(* user has asked for the job again (Runner.tick, runDecrypt, service.go). *)
(* Purge is left out: after it ids start over, and the runner may write    *)
(* what it knows of an old job into the row of a new one.                  *)
(***************************************************************************)
THEOREM LifecycleRefined == "purge" \notin Ops => (Spec => LifecycleSpec)
<1> SUFFICES ASSUME "purge" \notin Ops PROVE Spec => LifecycleSpec
  OBVIOUS
<1>1. Init => TrackInv
  BY TrackInit
<1>2. Init => BudgetInv
  BY BudgetInit
<1>3. Inv /\ TrackInv /\ LifeInv /\ [Next]_vars => LifeInv'
  BY LifeStep
<1>4. Inv /\ Inv' /\ TrackInv /\ LifeInv /\ LifeInv' /\ BudgetInv /\ [Next]_vars
         => [Lifecycle!Next]_(Lifecycle!lifecycleVars)
  BY StepSeen
<1> QED
  BY <1>1, <1>2, <1>3, <1>4, InitLife, TrackStep, BudgetStep, Invariance, PTL
     DEF Spec, LifecycleSpec, Lifecycle!Spec
=============================================================================
