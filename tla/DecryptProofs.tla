---------------------------- MODULE DecryptProofs ----------------------------
(***************************************************************************)
(* The decrypt goroutines: no two work on the same job, none of the tokens *)
(* that bound them is lost or made up, a failure erases the password, a    *)
(* completed job has been decrypted, and an archive whose parts have all   *)
(* arrived is opened.                                                      *)
(***************************************************************************)
EXTENDS FileProofs, FiniteSetTheorems

(* OneDecryptPerJob is not inductive: scheduleDecrypt looks at             *)
(* decryptPending and not at the goroutines, so the invariant needs that   *)
(* every goroutine that may touch a file is in it.                         *)
PendingInv ==
    /\ \A w \in Workers : IsPending(w) => gor[w].task.id \in pending
    /\ OneDecryptPerJob

(* Starting a goroutine for a job that has none keeps them apart.          *)
LEMMA SchedulePending ==
    ASSUME WorkerTypeOK, PendingInv, NEW task \in Task, ScheduleDecrypt(task)
    PROVE  PendingInv'
<1>1. CASE task.id \in pending
  BY <1>1 DEF ScheduleDecrypt, workerVars, PendingInv, OneDecryptPerJob, IsPending
<1>2. CASE task.id \notin pending
  <2>1. PICK w \in Workers : gor' = [gor EXCEPT ![w] = [pc |-> "waiting", task |-> task]]
    BY <1>2 DEF ScheduleDecrypt
  <2>2. pending' = pending \cup {task.id}
    BY <1>2 DEF ScheduleDecrypt
  <2>3. gor'[w].task = task /\ \A v \in Workers \ {w} : gor'[v] = gor[v]
    BY <2>1 DEF WorkerTypeOK
  <2>4. \A v \in Workers \ {w} : IsPending(v)' => gor'[v].task.id \in pending
    BY <2>3 DEF PendingInv, IsPending
  <2>5. \A v \in Workers : IsPending(v)' => gor'[v].task.id \in pending'
    BY <2>2, <2>3, <2>4
  <2>6. OneDecryptPerJob'
    BY <1>2, <2>3, <2>4 DEF PendingInv, OneDecryptPerJob, IsPending
  <2> QED
    BY <2>5, <2>6 DEF PendingInv
<1> QED
  BY <1>1, <1>2

(* A step of one goroutine that leaves decryptPending alone and does not   *)
(* bring it back from the dead.                                            *)
LEMMA StepPending ==
    ASSUME WorkerTypeOK, PendingInv, NEW w \in Workers, IsPending(w), NEW p, StepTo(w, p),
           pending' = pending
    PROVE  PendingInv'
<1>1. \A v \in Workers : gor'[v].task = gor[v].task /\ (IsPending(v)' => IsPending(v))
  BY DEF WorkerTypeOK, StepTo, IsPending
<1> QED
  BY <1>1 DEF PendingInv, OneDecryptPerJob

(* A step of a goroutine keeps the goroutines apart.                       *)
LEMMA WorkerStepPending ==
    ASSUME WorkerTypeOK, PendingInv, NEW w \in Workers, WorkerStep(w)
    PROVE  PendingInv'
<1>1. CASE AcquireWorker(w) \/ MegaDecrypted(w) \/ MegaFailed(w) \/ ArchiveSkipped(w) \/ ArchiveDecrypted(w)
           \/ ArchiveFailed(w) \/ WorkerMarkCompleted(w) \/ WorkerMarkFailed(w)
           \/ WorkerClearPassword(w)
  <2>1. IsPending(w) /\ pending' = pending /\ \E p : StepTo(w, p)
    BY <1>1 DEF AcquireWorker, MegaDecrypted, MegaFailed, ArchiveSkipped, ArchiveDecrypted, ArchiveFailed,
         WorkerMarkCompleted, WorkerMarkFailed, WorkerClearPassword, WorkerStmt, IsPending
  <2> QED
    BY <2>1, StepPending
<1>2. CASE UnmarkPending(w)
  <2>1. /\ gor[w].pc = "unmark" /\ gor'[w].pc = "release"
        /\ \A v \in Workers \ {w} : gor'[v] = gor[v]
        /\ pending' = pending \ {gor[w].task.id}
    BY <1>2 DEF UnmarkPending, StepTo, WorkerTypeOK
  <2>2. ASSUME NEW v \in Workers, IsPending(v)' PROVE v # w /\ gor'[v] = gor[v] /\ IsPending(v)
    BY <2>1, <2>2 DEF IsPending
  <2>3. ASSUME NEW v \in Workers, IsPending(v)' PROVE gor'[v].task.id \in pending'
    <3>1. v # w /\ gor'[v] = gor[v] /\ IsPending(v)
      BY <2>2, <2>3
    <3>2. gor[v].task.id # gor[w].task.id
      BY <2>1, <3>1 DEF PendingInv, OneDecryptPerJob, IsPending
    <3> QED
      BY <2>1, <3>1, <3>2 DEF PendingInv
  <2>4. OneDecryptPerJob'
    BY <2>2 DEF PendingInv, OneDecryptPerJob
  <2> QED
    BY <2>3, <2>4 DEF PendingInv
<1>3. CASE ReleaseWorker(w)
  <2>1. /\ gor'[w].pc = "none" /\ pending' = pending
        /\ \A v \in Workers \ {w} : gor'[v] = gor[v]
    BY <1>3 DEF ReleaseWorker, NoGor, WorkerTypeOK
  <2>2. ASSUME NEW v \in Workers, IsPending(v)' PROVE gor'[v] = gor[v] /\ IsPending(v)
    BY <2>1, <2>2 DEF IsPending
  <2> QED
    BY <2>1, <2>2 DEF PendingInv, OneDecryptPerJob
<1> QED
  BY <1>1, <1>2, <1>3 DEF WorkerStep

(* Only the runner's schedule step, the goroutines themselves and a crash  *)
(* touch goroutines, decryptPending and decryptSem.                        *)
LEMMA WhoTouchesWorkers ==
    ASSUME [Next]_vars
    PROVE  \/ UNCHANGED workerVars
           \/ RunnerSchedule
           \/ \E w \in Workers : WorkerNext(w)
           \/ DaemonCrash
<1>1. CASE RunnerNext
  BY <1>1 DEF RunnerNext, RunnerStep, RunnerJobStep, TellStatus, Dispatch, DispatchSkip,
       DispatchNothingToDo, DispatchNoPath, DispatchWait, DispatchTaskReady, Dispatching,
       AutoRequeue, ClaimNextQueued, ListActive, ApplyFailed, ApplyProgress, ApplyComplete,
       ListPending, RunnerMarkDecrypting, RunnerMarkCompleted,
       RunnerMarkPostprocessFailed, RunnerClearPassword, ListRetryable, CountDownloading,
       NothingQueued, ClaimConflict, CheckDeleted, Resolved, ResolveFailed,
       PrepareOutputForStart, RemoveControlFile, RemoveControlFileFailed, Started,
       StartFailed, StartLost, RunnerMarkFailed, RunnerMarkDownloading, Load, Write,
       ReadOnly, elsewhere
<1>2. CASE (\E c \in Clients : ClientNext(c)) \/ BulkNext
  BY <1>2 DEF ClientNext, ServiceStep, Retry, Remove, Pause, Resume, Begin, EngineCall,
       Execute, BulkNext, BulkStep, Create, Clear, Purge
<1>3. CASE (\E g \in Gids : EngineNext(g)) \/ (\E j \in JobId : TimerNext(j))
           \/ (\E v \in AutoModes : SetAutoDecrypt(v)) \/ EngineRestart \/ UNCHANGED vars
  BY <1>3 DEF EngineNext, TimerNext, SetAutoDecrypt, EngineRestart, vars
<1> QED
  BY <1>1, <1>2, <1>3 DEF Next

(* Every step of the system keeps the goroutines apart.                    *)
LEMMA PendingStep == Inv /\ PendingInv /\ [Next]_vars => PendingInv'
<1> SUFFICES ASSUME Inv, PendingInv, [Next]_vars PROVE PendingInv'
  OBVIOUS
<1>a. WorkerTypeOK /\ RunnerTypeOK
  BY DEF Inv, TypeOK
<1>1. CASE UNCHANGED workerVars
  BY <1>1 DEF workerVars, PendingInv, OneDecryptPerJob, IsPending
<1>2. CASE RunnerSchedule
  <2> DEFINE task == [id |-> cur, todo |-> work.todo, entry |-> work.entry]
  <2>1. task \in Task
    BY <1>a DEF RunnerTypeOK, Work, Task
  <2> QED
    BY <1>2, <2>1, <1>a, SchedulePending DEF RunnerSchedule
<1>3. ASSUME NEW w \in Workers, WorkerNext(w) PROVE PendingInv'
  BY <1>3, <1>a, WorkerStepPending DEF WorkerNext
<1>4. CASE DaemonCrash
  BY <1>4 DEF DaemonCrash, PendingInv, OneDecryptPerJob, IsPending, NoGor
<1> QED
  BY <1>1, <1>2, <1>3, <1>4, WhoTouchesWorkers

(* markDecryptPending and the deferred unmarkDecryptPending keep the       *)
(* goroutines of a job apart for any number of jobs, workers and tokens,   *)
(* across retries, crashes and purges: no file is decrypted in place by    *)
(* two goroutines at a time.                                               *)
THEOREM OneDecrypt == Spec => []OneDecryptPerJob
<1>1. Init => PendingInv
  BY DEF Init, WorkerInit, PendingInv, OneDecryptPerJob, IsPending, NoGor
<1>2. PendingInv => OneDecryptPerJob
  BY DEF PendingInv
<1> QED
  BY <1>1, <1>2, PendingStep, Invariance, PTL DEF Spec

----------------------------------------------------------------------------

Holders == {w \in Workers : HoldsToken(w)}

(* The goroutines that hold a token are finitely many.                     *)
LEMMA HoldersFinite == IsFiniteSet(Holders) /\ Cardinality(Holders) \in Nat
<1>1. IsFiniteSet(Holders)
  BY WorkerAssumption, FS_Subset DEF Holders
<1> QED
  BY <1>1, FS_CardinalityType

(* Moving a goroutine that holds a token to another such place changes     *)
(* neither side of the count.                                              *)
LEMMA StepTokens ==
    ASSUME WorkerTypeOK, TokensConserved, NEW w \in Workers, HoldsToken(w),
           NEW p, p \notin {"none", "waiting"}, StepTo(w, p), tokens' = tokens
    PROVE  TokensConserved'
<1>1. \A v \in Workers : HoldsToken(v)' <=> HoldsToken(v)
  BY DEF WorkerTypeOK, StepTo, HoldsToken
<1>2. {v \in Workers : HoldsToken(v)}' = {v \in Workers : HoldsToken(v)}
  BY <1>1
<1> QED
  BY <1>2 DEF TokensConserved

(* A step of a goroutine takes a token or gives its own one back.          *)
LEMMA WorkerStepTokens ==
    ASSUME WorkerTypeOK, TokensConserved, NEW w \in Workers, WorkerStep(w)
    PROVE  TokensConserved'
<1>a. IsFiniteSet(Holders) /\ Cardinality(Holders) \in Nat /\ tokens \in Nat
  BY HoldersFinite DEF WorkerTypeOK
<1>b. tokens + Cardinality(Holders) = DecryptConcurrency
  BY DEF TokensConserved, Holders
<1>1. CASE AcquireWorker(w)
  <2>1. Holders' = Holders \cup {w} /\ w \notin Holders
    BY <1>1 DEF AcquireWorker, StepTo, AfterMega, WorkerTypeOK, Holders, HoldsToken
  <2>2. Cardinality(Holders') = Cardinality(Holders) + 1
    BY <2>1, <1>a, FS_AddElement
  <2>3. tokens' + Cardinality(Holders') = DecryptConcurrency
    BY <1>1, <2>2, <1>a, <1>b DEF AcquireWorker
  <2> QED
    BY <2>3 DEF TokensConserved, Holders
<1>2. CASE MegaDecrypted(w) \/ MegaFailed(w) \/ ArchiveSkipped(w) \/ ArchiveDecrypted(w) \/ ArchiveFailed(w)
           \/ WorkerMarkCompleted(w) \/ WorkerMarkFailed(w) \/ WorkerClearPassword(w)
           \/ UnmarkPending(w)
  <2>1. /\ HoldsToken(w) /\ tokens' = tokens
        /\ \E p \in WorkerPC \ {"none", "waiting"} : StepTo(w, p)
    BY <1>2 DEF MegaDecrypted, MegaFailed, ArchiveSkipped, ArchiveDecrypted, ArchiveFailed, AfterMega,
         WorkerMarkCompleted, WorkerMarkFailed, WorkerClearPassword, WorkerStmt,
         UnmarkPending, HoldsToken, WorkerPC
  <2> QED
    BY <2>1, StepTokens
<1>3. CASE ReleaseWorker(w)
  <2>1. Holders' = Holders \ {w} /\ w \in Holders
    BY <1>3 DEF ReleaseWorker, NoGor, WorkerTypeOK, Holders, HoldsToken
  <2>2. Cardinality(Holders') = Cardinality(Holders) - 1
    BY <2>1, <1>a, FS_RemoveElement
  <2>3. tokens' + Cardinality(Holders') = DecryptConcurrency
    BY <1>3, <2>2, <1>a, <1>b DEF ReleaseWorker
  <2> QED
    BY <2>3 DEF TokensConserved, Holders
<1> QED
  BY <1>1, <1>2, <1>3 DEF WorkerStep

(* A goroutine that waits holds nothing yet.                               *)
LEMMA ScheduleTokens ==
    ASSUME WorkerTypeOK, TokensConserved, NEW task, ScheduleDecrypt(task)
    PROVE  TokensConserved'
<1>1. \A v \in Workers : HoldsToken(v)' <=> HoldsToken(v)
  <2>1. CASE gor' = gor
    BY <2>1 DEF HoldsToken
  <2>2. ASSUME NEW w \in Workers, gor[w].pc = "none",
               gor' = [gor EXCEPT ![w] = [pc |-> "waiting", task |-> task]]
        PROVE  \A v \in Workers : HoldsToken(v)' <=> HoldsToken(v)
    BY <2>2 DEF WorkerTypeOK, HoldsToken
  <2> QED
    BY <2>1, <2>2 DEF ScheduleDecrypt, NewGoroutine, workerVars
<1>2. {v \in Workers : HoldsToken(v)}' = {v \in Workers : HoldsToken(v)}
  BY <1>1
<1> QED
  BY <1>2 DEF TokensConserved, ScheduleDecrypt, workerVars

(* With no goroutine alive every token is in the channel.                  *)
LEMMA NobodyHolds ==
    ASSUME \A w \in Workers : gor[w].pc = "none", tokens = DecryptConcurrency
    PROVE  TokensConserved
<1>1. {w \in Workers : HoldsToken(w)} = {}
  BY DEF HoldsToken
<1> QED
  BY <1>1, FS_EmptySet, WorkerAssumption DEF TokensConserved

(* Every step of the system conserves the tokens.                          *)
LEMMA TokensStep == Inv /\ TokensConserved /\ [Next]_vars => TokensConserved'
<1> SUFFICES ASSUME Inv, TokensConserved, [Next]_vars PROVE TokensConserved'
  OBVIOUS
<1>a. WorkerTypeOK
  BY DEF Inv, TypeOK
<1>1. CASE UNCHANGED workerVars
  BY <1>1 DEF workerVars, TokensConserved, HoldsToken
<1>2. CASE RunnerSchedule
  BY <1>2, <1>a, ScheduleTokens DEF RunnerSchedule
<1>3. ASSUME NEW w \in Workers, WorkerNext(w) PROVE TokensConserved'
  BY <1>3, <1>a, WorkerStepTokens DEF WorkerNext
<1>4. CASE DaemonCrash
  <2>1. {w \in Workers : HoldsToken(w)}' = {} /\ tokens' = DecryptConcurrency
    BY <1>4 DEF DaemonCrash, HoldsToken, NoGor
  <2> QED
    BY <2>1, FS_EmptySet, WorkerAssumption DEF TokensConserved
<1> QED
  BY <1>1, <1>2, <1>3, <1>4, WhoTouchesWorkers

(* The semaphore of acquireDecryptWorker and releaseDecryptWorker neither  *)
(* loses a token on an error path nor hands out more than it has: with any *)
(* number of jobs at most DecryptConcurrency goroutines work.              *)
THEOREM TokensNeverLost == Spec => []TokensConserved
<1>1. Init => TokensConserved
  BY NobodyHolds DEF Init, WorkerInit, NoGor
<1> QED
  BY <1>1, TokensStep, Invariance, PTL DEF Spec

----------------------------------------------------------------------------
(* Archive passwords.                                                      *)

(* A row of failed post-processing that still has its password.            *)
KeepsSecret(r) == r.status = "decrypt_failed" /\ r.archivePassword = "set"

(* Only MarkPostprocessFailed can make a row one of those.                 *)
LEMMA SecretRows ==
    ASSUME NEW r \in Row
    PROVE  /\ ~ KeepsSecret(ClearArchivePassword(r))
           /\ \A row \in {Resolving(r), MarkPaused(r), MarkDownloadingStatus(r), MarkCompleted(r),
                          MarkDecrypting(r), MarkDecryptingRetry(r), RemoveRow(r),
                          MarkFailed(r), Requeue(r)} : ~ KeepsSecret(row)
           /\ \A g : ~ KeepsSecret(MarkDownloading(r, g))
           /\ \A st \in {"downloading", "completed"} : ~ KeepsSecret(UpdateProgress(r, st))
           /\ \A name : KeepsSecret(UpdateResolving(r, name)) => KeepsSecret(r)
           /\ \A kind : ~ KeepsSecret(NewRow(kind))
           /\ ~ KeepsSecret(NoRow)
BY DEF KeepsSecret, ClearArchivePassword, Resolving, MarkPaused, MarkDownloadingStatus,
       MarkCompleted, MarkDecrypting, MarkDecryptingRetry, RemoveRow, MarkFailed, Requeue,
       MarkDownloading, UpdateProgress, UpdateResolving, NewRow, NoRow, Row

(* An UPDATE changes one row, and that one only if it is there.            *)
LEMMA UpdateOne ==
    ASSUME StoreTypeOK, NEW id \in JobId, NEW row, Update(id, row), NEW j \in JobId
    PROVE  /\ j # id => jobs'[j] = jobs[j]
           /\ j = id => jobs'[j] = row \/ (jobs'[j] = jobs[j] /\ jobs[j].status = "none")
BY DEF StoreTypeOK, Update, Exists

(* A step that leaves no new password behind and takes nobody away who is  *)
(* about to erase one.                                                     *)
LEMMA QuietSecrets ==
    ASSUME FailedSecretsCleared,
           \A j \in JobId : KeepsSecret(jobs'[j]) => KeepsSecret(jobs[j]),
           \A j \in JobId : WillClear(j) => WillClear(j)'
    PROVE  FailedSecretsCleared'
BY DEF FailedSecretsCleared, KeepsSecret

(* Unless it is erasing one, the runner takes nobody away.                 *)
LEMMA RunnerKeepsClearing ==
    ASSUME WorkerTypeOK, RunnerStep, pc # "clear"
    PROVE  \A j \in JobId : WillClear(j) => WillClear(j)'
<1>1. \A w \in Workers : gor[w].pc = "clear" => gor'[w] = gor[w]
  <2>1. UNCHANGED workerVars \/ RunnerSchedule
    BY DEF RunnerStep, RunnerJobStep, TellStatus, Dispatch, DispatchSkip,
       DispatchNothingToDo, DispatchNoPath, DispatchWait, DispatchTaskReady, Dispatching,
       AutoRequeue, ClaimNextQueued, ListActive, ApplyFailed, ApplyProgress, ApplyComplete,
       ListPending, RunnerMarkDecrypting, RunnerMarkCompleted,
       RunnerMarkPostprocessFailed, RunnerClearPassword, ListRetryable, CountDownloading,
       NothingQueued, ClaimConflict, CheckDeleted, Resolved, ResolveFailed,
       PrepareOutputForStart, RemoveControlFile, RemoveControlFileFailed, Started,
       StartFailed, StartLost, RunnerMarkFailed, RunnerMarkDownloading, Load, Write,
       ReadOnly, elsewhere
  <2>2. CASE UNCHANGED workerVars
    BY <2>2 DEF workerVars
  <2>3. CASE RunnerSchedule
    <3> DEFINE task == [id |-> cur, todo |-> work.todo, entry |-> work.entry]
    <3>1. ScheduleDecrypt(task)
      BY <2>3 DEF RunnerSchedule
    <3> HIDE DEF task
    <3> QED
      BY <3>1 DEF ScheduleDecrypt, NewGoroutine, workerVars, WorkerTypeOK
  <2> QED  BY <2>1, <2>2, <2>3
<1> QED
  BY <1>1 DEF WillClear

(* A step of the runner.                                                   *)
LEMMA RunnerStepSecrets ==
    ASSUME Inv, FailedSecretsCleared, RunnerStep
    PROVE  FailedSecretsCleared'
<1>a. StoreTypeOK /\ WorkerTypeOK /\ cur \in JobId
  BY DEF Inv, TypeOK, RunnerTypeOK
<1>b. \A j \in JobId : jobs[j] \in Row
  BY <1>a DEF StoreTypeOK
<1>c. jobs[cur] \in Row
  BY <1>a, <1>b
<1>1. CASE RunnerClearPassword
  <2>1. /\ pc = "clear" /\ Update(cur, ClearArchivePassword(jobs[cur])) /\ gor' = gor
    BY <1>1 DEF RunnerClearPassword, Write, elsewhere, workerVars
  <2>2. ~ KeepsSecret(jobs'[cur])
    BY <2>1, <1>a, <1>c, SecretRows, UpdateOne DEF KeepsSecret
  <2>3. \A j \in JobId \ {cur} : jobs'[j] = jobs[j] /\ (WillClear(j) => WillClear(j)')
    BY <2>1, <1>a, UpdateOne DEF WillClear
  <2> QED
    BY <2>2, <2>3 DEF FailedSecretsCleared, KeepsSecret
<1>2. CASE RunnerMarkPostprocessFailed
  <2>1. /\ pc' = "clear" /\ cur' = cur /\ Update(cur, MarkPostprocessFailed(jobs[cur])) /\ pc # "clear"
    BY <1>2 DEF RunnerMarkPostprocessFailed, Write, Goto
  <2>2. \A j \in JobId \ {cur} : jobs'[j] = jobs[j]
    BY <2>1, <1>a, UpdateOne
  <2>3. \A j \in JobId : WillClear(j) => WillClear(j)'
    BY <2>1, <1>a, RunnerKeepsClearing
  <2>4. \A j \in JobId : j = cur => WillClear(j)'
    BY <2>1 DEF WillClear
  <2> QED
    BY <2>2, <2>3, <2>4, <1>a DEF FailedSecretsCleared
<1>3. ASSUME pc # "clear", NEW id \in JobId, NEW row, Update(id, row),
             KeepsSecret(row) => KeepsSecret(jobs[id])
      PROVE  FailedSecretsCleared'
  <2>1. \A j \in JobId : KeepsSecret(jobs'[j]) => KeepsSecret(jobs[j])
    BY <1>3, <1>a, UpdateOne
  <2> QED
    BY <2>1, <1>3, <1>a, RunnerKeepsClearing, QuietSecrets
<1>4. ASSUME pc # "clear", jobs' = jobs PROVE FailedSecretsCleared'
  BY <1>4, <1>a, RunnerKeepsClearing, QuietSecrets
<1>5. CASE ApplyFailed \/ ResolveFailed \/ RunnerMarkFailed \/ RunnerMarkDecrypting
           \/ RunnerMarkCompleted
  <2>1. pc # "clear" /\ \E row \in {MarkFailed(jobs[cur]), MarkDecrypting(jobs[cur]),
                                    MarkCompleted(jobs[cur])} : Update(cur, row)
    BY <1>5 DEF ApplyFailed, ResolveFailed, RunnerMarkFailed, RunnerMarkDecrypting,
         RunnerMarkCompleted, Write
  <2> QED
    BY <2>1, <1>a, <1>c, <1>3, SecretRows
<1>6. CASE ApplyProgress
  BY <1>6, <1>a, <1>c, <1>3, SecretRows DEF ApplyProgress, Write
<1>7. CASE ApplyComplete
  <2>1. pc # "clear" /\ (jobs' = jobs \/ Update(cur, UpdateProgress(jobs[cur], "completed")))
    BY <1>7 DEF ApplyComplete, Write, ReadOnly, storeVars
  <2> QED
    BY <2>1, <1>a, <1>c, <1>3, <1>4, SecretRows
<1>8. CASE RunnerMarkDownloading
  BY <1>8, <1>a, <1>c, <1>3, SecretRows DEF RunnerMarkDownloading
<1>9. CASE Resolved
  <2>1. pc # "clear" /\ \E name : Update(cur, UpdateResolving(jobs[cur], name))
    BY <1>9 DEF Resolved, Write
  <2> QED
    BY <2>1, <1>a, <1>c, <1>3, SecretRows
<1>10. ASSUME NEW id \in JobId, AutoRequeue(id) \/ ClaimNextQueued(id) PROVE FailedSecretsCleared'
  <2>1. pc # "clear" /\ \E row \in {Requeue(jobs[id]), Resolving(jobs[id])} : Update(id, row)
    BY <1>10 DEF AutoRequeue, ClaimNextQueued, Write
  <2> QED
    BY <2>1, <1>b, <1>3, SecretRows
<1>11. ASSUME NEW id \in JobId, TellStatus(id) \/ Dispatch(id) PROVE FailedSecretsCleared'
  <2>1. pc # "clear" /\ jobs' = jobs
    BY <1>11 DEF TellStatus, Dispatch, DispatchSkip, DispatchNothingToDo, DispatchNoPath,
         DispatchWait, DispatchTaskReady, Dispatching, ReadOnly, storeVars
  <2> QED
    BY <2>1, <1>4
<1>12. CASE ListActive \/ ListPending \/ ListRetryable \/ RunnerSchedule \/ CountDownloading
            \/ NothingQueued \/ ClaimConflict \/ CheckDeleted \/ StartFailed \/ StartLost \/ Started
            \/ PrepareOutputForStart \/ RemoveControlFile \/ RemoveControlFileFailed
  <2>1. pc # "clear" /\ jobs' = jobs
    BY <1>12 DEF ListActive, ListPending, ListRetryable, Load, RunnerSchedule, CountDownloading,
         NothingQueued, ClaimConflict, CheckDeleted, StartFailed, StartLost, Started,
         PrepareOutputForStart, RemoveControlFile, RemoveControlFileFailed, ReadOnly, storeVars
  <2> QED
    BY <2>1, <1>4
<1> QED
  BY <1>1, <1>2, <1>5, <1>6, <1>7, <1>8, <1>9, <1>10, <1>11, <1>12 DEF RunnerStep, RunnerJobStep

(* A step of a goroutine: the one that has recorded a failure goes on to   *)
(* erase the password.                                                     *)
LEMMA WorkerStepSecrets ==
    ASSUME Inv, FailedSecretsCleared, NEW w \in Workers, WorkerNext(w)
    PROVE  FailedSecretsCleared'
<1> DEFINE id == gor[w].task.id
<1>a. StoreTypeOK /\ WorkerTypeOK /\ id \in JobId
  <2>1. gor[w] \in [pc : WorkerPC, task : Task]
    BY DEF Inv, TypeOK, WorkerTypeOK
  <2> QED
    BY <2>1 DEF Inv, TypeOK, Task
<1>b. jobs[id] \in Row
  BY <1>a DEF StoreTypeOK
<1>c. pc' = pc /\ cur' = cur
  BY DEF WorkerNext, localVars
<1>d. /\ \A v \in Workers \ {w} : gor'[v] = gor[v]
      /\ \A q : StepTo(w, q) => gor'[w].task.id = id /\ gor'[w].pc = q
  BY <1>a DEF WorkerNext, WorkerStep, AcquireWorker, MegaDecrypted, MegaFailed,
       ArchiveSkipped, ArchiveDecrypted, ArchiveFailed, WorkerMarkCompleted, WorkerMarkFailed,
       WorkerClearPassword, WorkerStmt, UnmarkPending, ReleaseWorker, StepTo, WorkerTypeOK
<1>1. ASSUME gor[w].pc # "clear", NEW j \in JobId, WillClear(j) PROVE WillClear(j)'
  BY <1>1, <1>c, <1>d DEF WillClear
<1>2. ASSUME gor[w].pc # "clear", jobs' = jobs PROVE FailedSecretsCleared'
  BY <1>2, <1>1, QuietSecrets
<1>3. CASE WorkerMarkCompleted(w)
  <2>1. gor[w].pc # "clear" /\ Update(id, MarkCompleted(jobs[id]))
    BY <1>3 DEF WorkerMarkCompleted, WorkerStmt
  <2>2. \A j \in JobId : KeepsSecret(jobs'[j]) => KeepsSecret(jobs[j])
    BY <2>1, <1>a, <1>b, SecretRows, UpdateOne
  <2> QED
    BY <2>1, <2>2, <1>1, QuietSecrets
<1>4. CASE WorkerMarkFailed(w)
  <2>1. gor[w].pc # "clear" /\ Update(id, MarkPostprocessFailed(jobs[id])) /\ StepTo(w, "clear")
    BY <1>4 DEF WorkerMarkFailed, WorkerStmt
  <2>2. \A j \in JobId \ {id} : jobs'[j] = jobs[j]
    BY <2>1, <1>a, UpdateOne
  <2>3. \A j \in JobId : j = id => WillClear(j)'
    BY <2>1, <1>d DEF WillClear
  <2> QED
    BY <2>1, <2>2, <2>3, <1>1 DEF FailedSecretsCleared
<1>5. CASE WorkerClearPassword(w)
  <2>1. Update(id, ClearArchivePassword(jobs[id]))
    BY <1>5 DEF WorkerClearPassword, WorkerStmt
  <2>2. ~ KeepsSecret(jobs'[id])
    BY <2>1, <1>a, <1>b, SecretRows, UpdateOne DEF KeepsSecret
  <2>3. \A j \in JobId \ {id} : jobs'[j] = jobs[j] /\ (WillClear(j) => WillClear(j)')
    BY <2>1, <1>a, <1>c, <1>d, UpdateOne DEF WillClear
  <2> QED
    BY <2>2, <2>3 DEF FailedSecretsCleared, KeepsSecret
<1> QED
  BY <1>2, <1>3, <1>4, <1>5 DEF WorkerNext, WorkerStep, AcquireWorker, MegaDecrypted, MegaFailed,
       ArchiveSkipped, ArchiveDecrypted, ArchiveFailed, UnmarkPending, ReleaseWorker, storeVars

(* Every step but a crash of the daemon.                                   *)
LEMMA SecretsStep ==
    MaxCrashes = 0 /\ Inv /\ FailedSecretsCleared /\ [Next]_vars => FailedSecretsCleared'
<1> SUFFICES ASSUME MaxCrashes = 0, Inv, FailedSecretsCleared, [Next]_vars
             PROVE  FailedSecretsCleared'
  OBVIOUS
<1>a. StoreTypeOK /\ req \in [Clients -> Request] /\ crashes \in 0 .. MaxCrashes
  BY DEF Inv, TypeOK, ServiceTypeOK
<1>b. \A j \in JobId : jobs[j] \in Row
  BY <1>a DEF StoreTypeOK
<1>1. CASE RunnerNext
  BY <1>1, RunnerStepSecrets DEF RunnerNext
<1>2. CASE \E w \in Workers : WorkerNext(w)
  BY <1>2, WorkerStepSecrets
<1>3. ASSUME UNCHANGED <<workerVars, localVars>>,
             \A j \in JobId : KeepsSecret(jobs'[j]) => KeepsSecret(jobs[j])
      PROVE  FailedSecretsCleared'
  <2>1. \A j \in JobId : WillClear(j) => WillClear(j)'
    BY <1>3 DEF WillClear, workerVars, localVars
  <2> QED
    BY <2>1, <1>3, QuietSecrets
<1>4. ASSUME NEW c \in Clients, ClientNext(c) PROVE FailedSecretsCleared'
  <2>1. UNCHANGED <<workerVars, localVars>>
    BY <1>4 DEF ClientNext, ServiceStep, Retry, Remove, Pause, Resume, Begin, EngineCall, Execute
  <2>2. CASE UNCHANGED storeVars
    BY <2>1, <2>2, <1>3 DEF storeVars
  <2>3. CASE Execute(c)
    <3> DEFINE id == req[c].id
               row == RowAfter(req[c].stmt, jobs[id])
    <3>1. id \in JobId /\ req[c].stmt \in Stmt \ {"none"}
      BY <2>3, <1>4, <1>a DEF Execute, Request
    <3>2. Update(id, row) /\ jobs[id] \in Row
      BY <2>3, <3>1, <1>b DEF Execute
    <3>3. ~ KeepsSecret(row)
      BY <3>1, <3>2, SecretRows DEF RowAfter, Stmt
    <3> HIDE DEF row, id
    <3>4. \A j \in JobId : KeepsSecret(jobs'[j]) => KeepsSecret(jobs[j])
      BY <3>1, <3>2, <3>3, <1>a, UpdateOne
    <3> QED
      BY <2>1, <3>4, <1>3
  <2> QED
    BY <1>4, <2>2, <2>3 DEF ClientNext, ServiceStep, Retry, Remove, Pause, Resume, Begin, EngineCall
<1>5. CASE BulkNext
  <2>1. UNCHANGED <<workerVars, localVars>>
    BY <1>5 DEF BulkNext, BulkStep, Create, Clear, Purge
  <2>2. ASSUME NEW kind \in Kinds, Create(kind), NEW j \in JobId, KeepsSecret(jobs'[j])
        PROVE  KeepsSecret(jobs[j])
    <3>1. jobs'[j] \in {jobs[j], NewRow(kind)}
      BY <2>2, <1>a DEF Create, CreateJob, StoreTypeOK
    <3> QED
      BY <2>2, <3>1, <1>b, SecretRows
  <2>3. ASSUME Clear, NEW j \in JobId, KeepsSecret(jobs'[j]) PROVE KeepsSecret(jobs[j])
    BY <2>3, <1>b, SecretRows DEF Clear, ClearCompleted
  <2>4. ASSUME Purge, NEW j \in JobId PROVE ~ KeepsSecret(jobs'[j])
    BY <2>4, <1>b, SecretRows DEF Purge, ClearAll
  <2> QED
    BY <1>5, <1>3, <2>1, <2>2, <2>3, <2>4 DEF BulkNext, BulkStep
<1>6. CASE (\E g \in Gids : EngineNext(g)) \/ (\E v \in AutoModes : SetAutoDecrypt(v))
           \/ EngineRestart \/ UNCHANGED vars
  BY <1>6, <1>3 DEF EngineNext, SetAutoDecrypt, EngineRestart, vars, storeVars
<1>7. ASSUME NEW k \in JobId, TimerNext(k) PROVE FailedSecretsCleared'
  <2>1. UNCHANGED <<workerVars, localVars>>
    BY <1>7 DEF TimerNext
  <2>2. \A j \in JobId : KeepsSecret(jobs'[j]) => KeepsSecret(jobs[j])
    BY <1>7, <1>a, <1>b DEF TimerNext, RetryTimer, StoreTypeOK, KeepsSecret, Row
  <2> QED
    BY <2>1, <2>2, <1>3
<1>8. ~ DaemonCrash
  BY <1>a DEF DaemonCrash
<1> QED
  BY <1>1, <1>2, <1>4, <1>5, <1>6, <1>7, <1>8 DEF Next

(***************************************************************************)
(* As long as dlqd is not stopped in between, whoever records that         *)
(* post-processing failed also erases the archive password, whatever the   *)
(* clients and the other goroutines do to the row (runDecrypt,             *)
(* dispatchCompletedDecrypt).  A crash between the two statements leaves   *)
(* it: the hypothesis is needed.                                           *)
(***************************************************************************)
THEOREM SecretsCleared == MaxCrashes = 0 => (Spec => []FailedSecretsCleared)
<1> SUFFICES ASSUME MaxCrashes = 0 PROVE Spec => []FailedSecretsCleared
  OBVIOUS
<1>1. Init => FailedSecretsCleared
  BY DEF Init, StoreInit, NoRow, NewRow, FailedSecretsCleared
<1>2. Inv /\ FailedSecretsCleared /\ [Next]_vars => FailedSecretsCleared'
  BY SecretsStep
<1> QED
  BY <1>1, <1>2, Invariance, PTL DEF Spec

----------------------------------------------------------------------------
(* A completed MEGA job has been decrypted.                                *)

(* The archive tool, run on n, cannot succeed while f is ciphertext.       *)
SafeEntry(n, f) == IsArchiveFile(n) /\ (n = f \/ SameSet(f, n))

(* What is to be done to a job does not pass over the payload if it comes  *)
(* from MEGA, and starts at a volume of the set that the file is in.       *)
Handled(kind, todo, entry) ==
    /\ kind.site = "mega" => "mega" \in todo \/ ("archive" \in todo /\ SafeEntry(entry, kind.file))
    /\ "mega" \in todo => kind.site = "mega"
    /\ MultipartArchiveFirstVolume(entry) = MultipartArchiveFirstVolume(kind.file)

HandledInv ==
    /\ pc \in {"mark", "schedule"} => Handled(snap[cur].kind, work.todo, work.entry)
    /\ \A w \in Workers : gor[w].pc # "none" =>
          Handled(jobs[gor[w].task.id].kind, gor[w].task.todo, gor[w].task.entry)

(* The first volume is one of the set and, unlike the others, always has   *)
(* the name of an archive.                                                 *)
LEMMA FirstVolume ==
    ASSUME NEW n \in Name
    PROVE  LET m == MultipartArchiveFirstVolume(n) IN
           /\ m = n \/ SameSet(n, m)
           /\ IsArchiveFile(n) => IsArchiveFile(m)
           /\ MultipartArchiveFirstVolume(m) = m
<1>1. CASE n.form = "part" /\ n.num > 1
  BY <1>1 DEF MultipartArchiveFirstVolume, SameSet, MultipartArchiveGroupKey, NoGroup, IsArchiveFile, Name
<1>2. CASE n.form = "rvol"
  BY <1>2 DEF MultipartArchiveFirstVolume, NameOf, SameSet, MultipartArchiveGroupKey, NoGroup,
       IsArchiveFile, Name
<1>3. CASE ~ (n.form = "part" /\ n.num > 1) /\ n.form # "rvol"
  BY <1>3 DEF MultipartArchiveFirstVolume
<1> QED
  BY <1>1, <1>2, <1>3

(* resolveArchiveEntryPath stays within the set.                           *)
LEMMA EntrySafe ==
    ASSUME NEW n \in Name, NEW f, SafeEntry(n, f), NEW m \in ResolveArchiveEntryPath(n)
    PROVE  SafeEntry(m, f)
<1>1. m \in {n, MultipartArchiveFirstVolume(n)}
  BY DEF ResolveArchiveEntryPath
<1>2. (m = n \/ SameSet(n, m)) /\ IsArchiveFile(m)
  BY <1>1, FirstVolume DEF SafeEntry
<1> QED
  BY <1>2 DEF SafeEntry, SameSet

(* buildDecryptTask passes over the payload only for a job whose archive   *)
(* step is to be repeated.                                                 *)
LEMMA TodoHandled ==
    ASSUME NEW r \in Row, NEW path, NEW entry \in ResolveArchiveEntryPath(r.kind.file)
    PROVE  Handled(r.kind, Todo(r, path, entry), entry)
<1>a. r.kind.file \in Name
  BY RowKind
<1>b. MultipartArchiveFirstVolume(entry) = MultipartArchiveFirstVolume(r.kind.file)
  BY <1>a, FirstVolume DEF ResolveArchiveEntryPath
<1>c. "mega" \in Todo(r, path, entry) => r.kind.site = "mega"
  BY DEF Todo, ShouldDecryptMega
<1> SUFFICES ASSUME r.kind.site = "mega", ~ ShouldDecryptMega(r, path)
             PROVE  ShouldDecryptArchive(r, path, entry) /\ SafeEntry(entry, r.kind.file)
  BY <1>b, <1>c DEF Handled, Todo
<1>1. r.status = "decrypting" /\ path /\ IsArchiveFile(r.kind.file)
  BY DEF ShouldDecryptMega
<1>2. SafeEntry(entry, r.kind.file)
  BY <1>1, <1>a, EntrySafe DEF SafeEntry
<1> QED
  BY <1>1, <1>2 DEF ShouldDecryptArchive, SafeEntry

(* How the runner comes to have something to schedule.                     *)
LEMMA WorkEntered ==
    ASSUME RunnerStep, pc' \in {"mark", "schedule"}
    PROVE  ApplyComplete \/ RunnerMarkDecrypting \/ \E id \in JobId : Dispatch(id)
BY DEF RunnerStep, RunnerJobStep, TellStatus, AutoRequeue, ClaimNextQueued, ListActive, ApplyFailed,
       ApplyProgress, ListPending, RunnerSchedule, RunnerMarkCompleted, RunnerMarkPostprocessFailed,
       RunnerClearPassword, ListRetryable, CountDownloading, NothingQueued, ClaimConflict,
       CheckDeleted, Resolved, ResolveFailed, PrepareOutputForStart, RemoveControlFile,
       RemoveControlFileFailed, Started, StartLost, StartFailed, RunnerMarkFailed,
       RunnerMarkDownloading, Load, Goto, Done, Loop

LEMMA RunnerWork ==
    ASSUME Inv, HandledInv, RunnerStep, pc' \in {"mark", "schedule"}
    PROVE  Handled(snap'[cur'].kind, work'.todo, work'.entry)
<1>a. cur \in JobId /\ \A j \in JobId : snap[j] \in Row
  BY LifeTypes
<1>1. CASE ApplyComplete
  <2>1. PICK entry \in ResolveArchiveEntryPath(snap[cur].kind.file) :
          /\ work' = BuildDecryptTask(cur, snap[cur], TRUE, entry)
          /\ UNCHANGED <<snap, cur>>
    BY <1>1 DEF ApplyComplete, Goto
  <2>2. work'.todo = Todo(snap[cur], TRUE, entry) /\ work'.entry = entry
    BY <2>1 DEF BuildDecryptTask
  <2> QED
    BY <2>1, <2>2, <1>a, TodoHandled
<1>2. CASE RunnerMarkDecrypting
  <2>1. pc = "mark" /\ UNCHANGED <<snap, cur, work>>
    BY <1>2 DEF RunnerMarkDecrypting, Done, Goto, Loop
  <2> QED
    BY <2>1 DEF HandledInv
<1>3. ASSUME NEW id \in JobId, Dispatch(id)
      PROVE  Handled(snap'[cur'].kind, work'.todo, work'.entry)
  <2>1. PICK entry \in ResolveArchiveEntryPath(snap[id].kind.file) :
          work' = DispatchTask(id, entry) /\ snap' = snap /\ cur' = id
    BY <1>3 DEF Dispatch, DispatchSkip, DispatchNothingToDo, DispatchNoPath, DispatchWait,
         DispatchTaskReady, Select, Done
  <2>2. work'.todo = Todo(snap[id], PathKnown(snap[id]), entry) /\ work'.entry = entry
    BY <2>1 DEF DispatchTask, BuildDecryptTask
  <2> QED
    BY <2>1, <2>2, <1>a, TodoHandled
<1> QED
  BY <1>1, <1>2, <1>3, WorkEntered

(* A goroutine keeps its task.                                             *)
LEMMA TasksKept ==
    ASSUME WorkerTypeOK, NEW v \in Workers, WorkerNext(v), NEW w \in Workers, gor'[w].pc # "none"
    PROVE  /\ gor[w].pc # "none" /\ gor'[w].task = gor[w].task
           /\ w # v => gor'[w] = gor[w]
<1>1. gor[v].pc # "none"
  BY DEF WorkerNext, WorkerStep, AcquireWorker, MegaDecrypted, MegaFailed,
         ArchiveSkipped, ArchiveDecrypted, ArchiveFailed, WorkerMarkCompleted, WorkerMarkFailed,
         WorkerClearPassword, WorkerStmt, UnmarkPending, ReleaseWorker
<1> QED
  BY <1>1 DEF WorkerNext, WorkerStep, AcquireWorker, MegaDecrypted, MegaFailed,
         ArchiveSkipped, ArchiveDecrypted, ArchiveFailed, WorkerMarkCompleted, WorkerMarkFailed,
         WorkerClearPassword, WorkerStmt, UnmarkPending, ReleaseWorker, StepTo, NoGor, WorkerTypeOK

(* Only the runner moves itself.                                           *)
LEMMA RunnerAlone ==
    ASSUME [Next]_vars, ~ RunnerStep, ~ DaemonCrash
    PROVE  UNCHANGED localVars
BY DEF Next, RunnerNext, WorkerNext, ClientNext, BulkNext, EngineNext, TimerNext, SetAutoDecrypt,
       EngineRestart, vars

LEMMA HandledStep ==
    ASSUME Inv, TrackInv, LifeInv, KindsInv, HandledInv, "purge" \notin Ops, [Next]_vars
    PROVE  HandledInv'
<1>a. WorkerTypeOK /\ \A w \in Workers : gor[w].task.id \in JobId
  BY LifeTypes, TrackTypes
<1>1. ASSUME pc' \in {"mark", "schedule"} PROVE Handled(snap'[cur'].kind, work'.todo, work'.entry)
  <2>1. ~ DaemonCrash
    BY <1>1 DEF DaemonCrash
  <2>2. CASE UNCHANGED localVars
    BY <2>2, <1>1 DEF localVars, HandledInv
  <2> QED
    BY <2>1, <2>2, <1>1, RunnerWork, RunnerAlone
<1>2. ASSUME NEW w \in Workers, gor'[w].pc # "none"
      PROVE  Handled(jobs'[gor'[w].task.id].kind, gor'[w].task.todo, gor'[w].task.entry)
  <2>1. ASSUME gor[w].pc # "none", gor'[w].task = gor[w].task
        PROVE  Handled(jobs'[gor'[w].task.id].kind, gor'[w].task.todo, gor'[w].task.entry)
    <3>1. Exists(jobs[gor[w].task.id])
      BY <2>1, <1>a DEF LifeInv, LifeOf, Known, AtWork
    <3>2. jobs'[gor[w].task.id].kind = jobs[gor[w].task.id].kind
      BY <3>1, <1>a, KindStays
    <3> QED
      BY <2>1, <3>2 DEF HandledInv
  <2>2. CASE UNCHANGED workerVars
    BY <2>1, <2>2, <1>2 DEF workerVars
  <2>3. CASE RunnerSchedule
    <3>1. /\ \/ gor'[w] = gor[w]
             \/ gor'[w].task = [id |-> cur, todo |-> work.todo, entry |-> work.entry]
          /\ jobs' = jobs /\ pc = "schedule"
      BY <2>3, <1>a DEF RunnerSchedule, ScheduleDecrypt, workerVars, storeVars, WorkerTypeOK
    <3>2. snap[cur].kind = jobs[cur].kind
      BY <3>1, LifeTypes DEF ListInv, Held, KindsInv
    <3>3. Handled(jobs[cur].kind, work.todo, work.entry)
      BY <3>1, <3>2 DEF HandledInv
    <3> QED
      BY <2>1, <3>1, <3>3, <1>2
  <2>4. ASSUME NEW v \in Workers, WorkerNext(v)
        PROVE  Handled(jobs'[gor'[w].task.id].kind, gor'[w].task.todo, gor'[w].task.entry)
    BY <2>1, <2>4, <1>2, <1>a, TasksKept
  <2>5. ~ DaemonCrash
    BY <1>2 DEF DaemonCrash, NoGor
  <2> QED
    BY <2>2, <2>3, <2>4, <2>5, WhoTouchesWorkers
<1> QED
  BY <1>1, <1>2 DEF HandledInv

LEMMA HandledInit == Init => HandledInv
BY DEF Init, RunnerStopped, WorkerInit, NoGor, HandledInv

(* Files are those of jobs, and only MEGA serves ciphertext.               *)
CipherInv ==
    \A j \in JobId :
        HasFile(j) => Exists(jobs[j]) /\ (files[j] = "cipher" => jobs[j].kind.site = "mega")

LEMMA CipherStep ==
    ASSUME Inv, TrackInv, LifeInv, KindsInv, CipherInv, "purge" \notin Ops, [Next]_vars
    PROVE  CipherInv'
<1> SUFFICES ASSUME NEW j \in JobId, HasFile(j)'
             PROVE  Exists(jobs'[j]) /\ (files'[j] = "cipher" => jobs'[j].kind.site = "mega")
  BY DEF CipherInv
<1>1. Exists(jobs[j]) /\ (files'[j] = "cipher" => jobs[j].kind.site = "mega")
  <2>1. CASE files'[j] = files[j] \/ (files'[j] = "plain" /\ HasFile(j))
    BY <2>1 DEF CipherInv, HasFile
  <2>2. ASSUME NEW g \in Gids, Arrives(g, j)
        PROVE  Exists(jobs[j]) /\ (files'[j] = "cipher" => jobs[j].kind.site = "mega")
    <3>1. owner[g].job = j /\ (files'[j] = "cipher" => owner[g].kind.site = "mega")
      BY <2>2 DEF Arrives, Serves
    <3>2. j # 0
      BY DEF JobId
    <3> QED
      BY <3>1, <3>2 DEF KindsInv
  <2> QED
    BY <2>1, <2>2, FilesMove DEF HasFile
<1> QED
  BY <1>1, KindStays

LEMMA CipherInit == Init => CipherInv
BY DEF Init, EngineInit, CipherInv, HasFile

(* A file that has arrived for another kind of job is plain.               *)
LEMMA OtherIsPlain ==
    ASSUME Inv, FileInv, CipherInv, NEW j \in JobId, Over(j), jobs[j].kind.site # "mega"
    PROVE  files[j] = "plain"
<1>1. files[j] \in {"none", "cipher", "plain"}
  BY TrackTypes DEF EngineTypeOK
<1> QED
  BY <1>1, FileFacts DEF CipherInv, HasFile

----------------------------------------------------------------------------
(* A download that dlqd forgets because it stopped before MarkDownloading  *)
(* is that of a job it does nothing more to: nothing claims a resolving    *)
(* row again, and requeuing a paused one counts as a user's request.       *)

Unstarted == {"resolving", "paused", "deleted"}

LostTask(j) == \E g \in abandoned : tasks[g] \in Live /\ owner[g].job = j

OutOfReach(j) ==
    /\ jobs[j].status \in Unstarted
    /\ ~ Exists(snap[j]) /\ ~ AtWork(j) /\ ~ Asked(j, {"decrypting"})

LostInv ==
    \A j \in JobId : manual[j] = 0 =>
        /\ snap[j].status = "resolving" => jobs[j].status \in Unstarted
        /\ LostTask(j) => OutOfReach(j)

(* Nobody can say of it that its download is over.                         *)
LEMMA OutOfReachNotOver ==
    ASSUME Inv, NEW j \in JobId, OutOfReach(j)
    PROVE  ~ Over(j)
<1>1. Finishing(j) \/ Ending(j) => j \in Held
  BY LifeTypes DEF Finishing, Ending, ListInv
<1> QED
  BY <1>1 DEF OutOfReach, Over, Past, Told, Polled, Downloaded, Held, Exists, Unstarted, PastStatus

(* Whose row the runner changes the status of.                             *)
LEMMA RunnerWrites ==
    ASSUME Inv, RunnerStep, NEW j \in JobId, jobs'[j].status # jobs[j].status
    PROVE  \/ jobs[j].status = "queued"
           \/ Exists(snap[j]) /\ (snap[j].status = "resolving" => snap'[j].status = "none")
<1>a. /\ StoreTypeOK /\ RunnerTypeOK /\ ListInv /\ cur \in JobId /\ jobs[cur] \in Row
  BY LifeTypes
<1>1. ASSUME NEW id \in JobId, AutoRequeue(id)
      PROVE  Exists(snap[j]) /\ snap[j].status # "resolving"
  <2>1. Update(id, Requeue(jobs[id])) /\ pc = "requeue" /\ id \in Held
    BY <1>1 DEF AutoRequeue, Write
  <2>2. j = id
    BY <2>1, <1>a, UpdateRow
  <2> QED
    BY <2>1, <2>2, <1>a DEF ListInv, Exists
<1>2. ASSUME NEW id \in JobId, ClaimNextQueued(id) PROVE jobs[j].status = "queued"
  <2>1. Update(id, Resolving(jobs[id])) /\ jobs[id].status = "queued"
    BY <1>2 DEF ClaimNextQueued, Write, ClaimableQueued
  <2> QED
    BY <2>1, <1>a, UpdateRow
<1>3. CASE \/ ApplyProgress \/ ApplyComplete \/ RunnerMarkDecrypting \/ RunnerMarkCompleted
           \/ RunnerMarkPostprocessFailed \/ RunnerClearPassword
  <2>1. /\ pc \in {"apply", "mark", "complete", "fail", "clear"}
        /\ jobs' = jobs \/ \E row : Update(cur, row)
    BY <1>3 DEF ApplyProgress, ApplyComplete, RunnerMarkDecrypting, RunnerMarkCompleted,
         RunnerMarkPostprocessFailed, RunnerClearPassword, Write, ReadOnly, storeVars
  <2>2. j = cur
    BY <2>1, <1>a, UpdateRow
  <2> QED
    BY <2>1, <2>2, <1>a DEF ListInv, Held, Polled, Downloaded
<1>4. CASE ApplyFailed \/ ResolveFailed \/ RunnerMarkFailed \/ RunnerMarkDownloading
  <2>1. /\ pc \in {"apply", "resolve", "startfail", "record"}
        /\ \E row : Update(cur, row)
        /\ \E next \in {"poll", "requeue"} : Done(cur, next)
    BY <1>4 DEF ApplyFailed, ResolveFailed, RunnerMarkFailed, RunnerMarkDownloading, Write
  <2>2. j = cur
    BY <2>1, <1>a, UpdateRow
  <2> QED
    BY <2>1, <2>2, <1>a, DoneRow DEF ListInv, Held
<1>5. CASE Resolved
  <2>1. PICK name : Update(cur, UpdateResolving(jobs[cur], name))
    BY <1>5 DEF Resolved, Write
  <2>2. UpdateResolving(jobs[cur], name).status = jobs[cur].status
    BY <1>a, StmtGid
  <2> QED
    BY <2>1, <2>2, <1>a, UpdateRow
<1>6. CASE \/ \E id \in JobId : TellStatus(id) \/ Dispatch(id)
           \/ ListActive \/ ListPending \/ RunnerSchedule \/ ListRetryable \/ CountDownloading
           \/ NothingQueued \/ ClaimConflict \/ CheckDeleted \/ PrepareOutputForStart
           \/ RemoveControlFile \/ RemoveControlFileFailed \/ Started \/ StartFailed \/ StartLost
  <2>1. UNCHANGED jobs
    BY <1>6 DEF TellStatus, Dispatch, DispatchSkip, DispatchNothingToDo, DispatchNoPath,
         DispatchWait, DispatchTaskReady, Dispatching, ListActive, ListPending, RunnerSchedule,
         ListRetryable, CountDownloading, NothingQueued, ClaimConflict, CheckDeleted,
         PrepareOutputForStart, RemoveControlFile, RemoveControlFileFailed, Started, StartFailed,
         StartLost, Load, ReadOnly, storeVars
  <2> QED  BY <2>1
<1> QED
  BY <1>1, <1>2, <1>3, <1>4, <1>5, <1>6 DEF RunnerStep, RunnerJobStep

(* The others, for a job no goroutine is at work on and nobody requeues.   *)
LEMMA OthersWrite ==
    ASSUME Inv, TrackInv, LifeInv, "purge" \notin Ops, [Next]_vars, ~ RunnerStep, NEW j \in JobId,
           jobs[j].status \in Unstarted, manual[j] = 0, manual'[j] = 0,
           ~ AtWork(j), ~ Asked(j, {"decrypting"})
    PROVE  jobs'[j].status \in Unstarted
<1>a. /\ StoreTypeOK /\ \A i \in JobId : jobs[i] \in Row
      /\ \A w \in Workers : gor[w].task.id \in JobId
      /\ \A c \in Clients : req[c] \in Request
  BY LifeTypes
<1>1. ASSUME NEW w \in Workers, WorkerNext(w) PROVE jobs'[j] = jobs[j]
  <2>1. \/ jobs' = jobs
        \/ gor[w].pc # "none" /\ \E row : Update(gor[w].task.id, row)
    BY <1>1 DEF WorkerNext, WorkerStep, AcquireWorker, MegaDecrypted, MegaFailed,
         ArchiveSkipped, ArchiveDecrypted, ArchiveFailed, WorkerMarkCompleted, WorkerMarkFailed,
         WorkerClearPassword, WorkerStmt, UnmarkPending, ReleaseWorker, storeVars
  <2>2. gor[w].pc # "none" => gor[w].task.id # j
    BY DEF AtWork
  <2> QED
    BY <2>1, <2>2, <1>a, UpdateRow
<1>2. ASSUME NEW c \in Clients, Execute(c) PROVE jobs'[j].status \in Unstarted
  <2> DEFINE id == req[c].id
             row == RowAfter(req[c].stmt, jobs[id])
  <2>1. id \in JobId /\ req[c].stmt \in Stmt \ {"none"} /\ Update(id, row)
    BY <1>2, <1>a DEF Execute, Request
  <2>2. CASE j # id
    BY <2>1, <2>2, <1>a, UpdateRow
  <2>3. CASE j = id
    <3>1. req[c].stmt \notin {"requeue", "downloading"}
      BY <1>2, <2>3, <1>a DEF Execute, StoreTypeOK
    <3>2. req[c].stmt # "decrypting"
      BY <2>3 DEF Asked
    <3>3. req[c].stmt \in {"remove", "pause"}
      BY <3>1, <3>2, <2>1 DEF Stmt
    <3>4. row.status \in Unstarted
      BY <3>3, <2>1, <1>a DEF RowAfter, RemoveRow, MarkPaused, Unstarted, Row
    <3> HIDE DEF row, id
    <3> QED
      BY <2>1, <2>3, <3>4, <1>a, UpdateRow
  <2> QED
    BY <2>2, <2>3
<1>3. ASSUME NEW c \in Clients, ClientNext(c) PROVE Execute(c) \/ UNCHANGED jobs
  BY <1>3 DEF ClientNext, ServiceStep, Retry, Remove, Pause, Resume, Begin, EngineCall, storeVars
<1>4. CASE BulkNext
  <2>1. ASSUME NEW kind \in Kinds, Create(kind) PROVE jobs'[j] = jobs[j]
    <3>1. ~ Born(j)
      BY DEF Born, Exists, Unstarted
    <3> QED
      BY <2>1, <3>1, <1>4, CreateMoves DEF BulkNext
  <2>2. Clear => jobs'[j] = jobs[j]
    BY DEF Clear, ClearCompleted, Unstarted
  <2> QED
    BY <1>4, <2>1, <2>2 DEF BulkNext, BulkStep, Purge
<1>5. ASSUME NEW k \in JobId, TimerNext(k) PROVE jobs'[j].status = jobs[j].status
  BY <1>5, <1>a DEF TimerNext, RetryTimer, StoreTypeOK, Row
<1>6. CASE \/ \E g \in Gids : EngineNext(g)
           \/ \E v \in AutoModes : SetAutoDecrypt(v)
           \/ DaemonCrash \/ EngineRestart \/ UNCHANGED vars
  BY <1>6 DEF EngineNext, SetAutoDecrypt, DaemonCrash, EngineRestart, vars, storeVars
<1> QED
  BY <1>1, <1>2, <1>3, <1>4, <1>5, <1>6 DEF Next, RunnerNext

(* The runner records the task that it has just started for the job.       *)
LEMMA HandOwned ==
    ASSUME Inv, TrackInv, LifeInv, FileInv, hand \in Gids, tasks[hand] \in Live
    PROVE  /\ Recording(cur) /\ cur \in JobId /\ owner[hand].job = cur
           /\ snap[cur].status = "resolving" /\ Exists(jobs[cur])
           /\ manual[cur] = 0 => ~ Over(cur)
<1>1. Recording(cur) /\ cur \in JobId
  BY LifeTypes, StoreAssumption DEF TrackInv, Recording
<1>2. owner[hand].job = cur
  BY <1>1, StoreAssumption DEF FileInv, FileOf, Own
<1>3. /\ snap[cur].status = "resolving" /\ Preparing(cur) /\ ~ Ending(cur) /\ ~ Told(cur)
  BY <1>1, RecordingPrepares
<1>4. Exists(jobs[cur]) /\ (manual[cur] = 0 => ~ Past(cur))
  BY <1>1, <1>3 DEF LifeInv, LifeOf, Known, Exists
<1> QED
  BY <1>1, <1>2, <1>3, <1>4 DEF Over

(* No task comes to life by itself.                                        *)
LEMMA OnlyRunnerStarts ==
    ASSUME Inv, [Next]_vars, ~ RunnerStep, NEW g \in Gids, tasks'[g] \in Live
    PROVE  tasks[g] \in Live
<1>a. EngineTypeOK /\ RequestInv /\ \A c \in Clients : req[c] \in Request
  BY TrackTypes DEF Inv
<1>1. ASSUME NEW c \in Clients, EngineCall(c) PROVE tasks[g] \in Live
  <2>1. PICK out \in CallOutcome(req[c].call, req[c].gid) :
          tasks' = [tasks EXCEPT ![req[c].gid] = out[1]]
    BY <1>1 DEF EngineCall
  <2>2. CASE g # req[c].gid
    BY <2>1, <2>2, <1>a DEF EngineTypeOK
  <2>3. CASE g = req[c].gid
    <3>1. tasks'[g] = out[1]
      BY <2>1, <2>3, <1>a DEF EngineTypeOK
    <3>2. req[c].call \in Call \ {"none"}
      BY <1>1, <1>a DEF EngineCall, Request
    <3> QED
      BY <2>3, <3>1, <3>2, OutcomeTracked
  <2> QED
    BY <2>2, <2>3
<1>2. ASSUME NEW c \in Clients, ClientNext(c) PROVE EngineCall(c) \/ UNCHANGED tasks
  BY <1>2 DEF ClientNext, ServiceStep, Retry, Remove, Pause, Resume, Begin, Execute, engineVars
<1>3. ASSUME NEW w \in Workers, WorkerNext(w) PROVE UNCHANGED tasks
  BY <1>3 DEF WorkerNext, WorkerStep, AcquireWorker, MegaDecrypted, MegaFailed,
         ArchiveSkipped, ArchiveDecrypted, ArchiveFailed, WorkerMarkCompleted, WorkerMarkFailed,
         WorkerClearPassword, WorkerStmt, UnmarkPending, ReleaseWorker, engineVars
<1>4. ASSUME NEW h \in Gids, EngineNext(h) PROVE tasks[g] \in Live
  BY <1>4, <1>a DEF EngineNext, Finish, Fail, EngineTypeOK, Live
<1>5. EngineRestart => tasks'[g] = "free"
  BY DEF EngineRestart, ForgetTasks
<1>6. CASE \/ BulkNext \/ (\E j \in JobId : TimerNext(j))
           \/ (\E v \in AutoModes : SetAutoDecrypt(v)) \/ DaemonCrash \/ UNCHANGED vars
  BY <1>6 DEF BulkNext, BulkStep, Create, Clear, Purge, TimerNext, SetAutoDecrypt, DaemonCrash,
       vars, engineVars
<1> QED
  BY <1>1, <1>2, <1>3, <1>4, <1>5, <1>6 DEF Next, RunnerNext, Live

(* How a task that runs comes to be forgotten.                             *)
LEMMA NewlyLost ==
    ASSUME Inv, TrackInv, LifeInv, FileInv, "purge" \notin Ops, Lossy = FALSE, [Next]_vars,
           NEW g \in abandoned', g \in Gids, ~ (g \in abandoned /\ tasks[g] \in Live),
           tasks'[g] \in Live, NEW j \in JobId, owner'[g].job = j, manual'[j] = 0
    PROVE  DaemonCrash /\ g = hand /\ tasks[g] \in Live /\ j = cur
<1>1. ASSUME RunnerStep PROVE FALSE
  <2>1. CASE Started
    <3>1. PICK h \in Gids : /\ abandoned' = abandoned \ {h}
                            /\ tasks' = [tasks EXCEPT ![h] = "active"]
      BY <2>1 DEF Started, AddURI
    <3>2. tasks'[g] = tasks[g] /\ g \in abandoned
      BY <3>1, TrackTypes DEF EngineTypeOK
    <3> QED
      BY <3>2
  <2>2. CASE RunnerMarkDownloading
    <3>1. /\ UNCHANGED <<tasks, owner>> /\ pc = "record"
          /\ ~ (Exists(jobs[cur]) /\ owner[hand].job = cur) => abandoned' = abandoned \cup {hand}
          /\ Exists(jobs[cur]) /\ owner[hand].job = cur => abandoned' = abandoned
      BY <2>2 DEF RunnerMarkDownloading
    <3>2. g = hand
      BY <3>1
    <3>3. Exists(jobs[cur]) /\ owner[hand].job = cur
      BY <3>1, <3>2, HandOwned
    <3> QED
      BY <3>1, <3>3
  <2>3. CASE ~ Started /\ ~ RunnerMarkDownloading
    <3>1. UNCHANGED <<tasks, abandoned>>
      BY <1>1, <2>3 DEF RunnerStep, RunnerJobStep, TellStatus, Dispatch, DispatchSkip,
         DispatchNothingToDo, DispatchNoPath, DispatchWait, DispatchTaskReady, Dispatching,
         AutoRequeue, ClaimNextQueued, ListActive, ApplyFailed, ApplyProgress, ApplyComplete,
         ListPending, RunnerMarkDecrypting, RunnerSchedule, RunnerMarkCompleted,
         RunnerMarkPostprocessFailed, RunnerClearPassword, ListRetryable, CountDownloading,
         NothingQueued, ClaimConflict, CheckDeleted, Resolved, ResolveFailed,
         PrepareOutputForStart, RemoveControlFile, RemoveControlFileFailed, StartFailed, StartLost,
         RunnerMarkFailed, Load, Write, ReadOnly, engineVars
    <3> QED
      BY <3>1
  <2> QED
    BY <2>1, <2>2, <2>3
<1>2. ~ RunnerStep /\ tasks[g] \in Live /\ g \notin abandoned
  BY <1>1, OnlyRunnerStarts
<1>3. ASSUME NEW c \in Clients, Execute(c) PROVE FALSE
  <2> DEFINE id == req[c].id
  <2>1. id \in JobId /\ StoreTypeOK
    BY LifeTypes DEF Request
  <2>2. jobs[id].gid = g /\ req[c].stmt = "requeue" /\ UNCHANGED <<tasks, owner>>
    BY <1>2, <1>3 DEF Execute
  <2>3. owner[g].job = id
    BY <2>1, <2>2, <1>2, StoreAssumption DEF FileInv, FileOf, Own
  <2>4. manual'[j] = manual[j] + 1 /\ manual[j] \in Nat
    BY <1>3, <2>1, <2>2, <2>3 DEF Execute, StoreTypeOK
  <2> QED
    BY <2>4
<1>4. ASSUME NEW c \in Clients, ClientNext(c) PROVE Execute(c) \/ UNCHANGED abandoned
  BY <1>4 DEF ClientNext, ServiceStep, Retry, Remove, Pause, Resume, Begin, EngineCall, engineVars
<1>5. ASSUME NEW w \in Workers, WorkerNext(w) PROVE UNCHANGED abandoned
  BY <1>5 DEF WorkerNext, WorkerStep, AcquireWorker, MegaDecrypted, MegaFailed,
         ArchiveSkipped, ArchiveDecrypted, ArchiveFailed, WorkerMarkCompleted, WorkerMarkFailed,
         WorkerClearPassword, WorkerStmt, UnmarkPending, ReleaseWorker, engineVars
<1>6. CASE \/ BulkNext \/ (\E h \in Gids : EngineNext(h)) \/ (\E i \in JobId : TimerNext(i))
           \/ (\E v \in AutoModes : SetAutoDecrypt(v)) \/ EngineRestart \/ UNCHANGED vars
  BY <1>2, <1>6 DEF BulkNext, BulkStep, Create, Clear, Purge, EngineNext, Finish, Fail, TimerNext,
       SetAutoDecrypt, EngineRestart, ForgetTasks, vars, engineVars
<1>7. CASE DaemonCrash
  <2>1. g = hand /\ owner' = owner
    BY <1>2, <1>7 DEF DaemonCrash
  <2> QED
    BY <2>1, <1>2, <1>7, HandOwned
<1> QED
  BY <1>2, <1>3, <1>4, <1>5, <1>6, <1>7 DEF Next, RunnerNext

LEMMA LostStep ==
    ASSUME Inv, TrackInv, LifeInv, FileInv, KindsInv, LostInv, "purge" \notin Ops, Lossy = FALSE,
           [Next]_vars
    PROVE  LostInv'
<1> SUFFICES ASSUME NEW j \in JobId, manual'[j] = 0
             PROVE  /\ snap'[j].status = "resolving" => jobs'[j].status \in Unstarted
                    /\ LostTask(j)' => OutOfReach(j)'
  BY DEF LostInv
<1>a. StepMoves(j) /\ (manual[j] = 0 \/ Born(j))
  BY EveryStepMoves, ManualGrows
<1>1. ASSUME snap'[j].status = "resolving" PROVE jobs'[j].status \in Unstarted
  <2>1. RunnerMoves(j) /\ manual[j] = 0
    BY <1>a, <1>1 DEF Born, Known, Exists, StepMoves
  <2>2. CASE snap'[j] = snap[j]
    <3>1. jobs[j].status \in Unstarted /\ snap[j].status = "resolving"
      BY <2>1, <2>2, <1>1 DEF LostInv
    <3>2. ~ Finishing(j)
      BY <3>1, LifeTypes DEF Finishing, ListInv, Held, Polled, Downloaded, Exists
    <3>3. ~ Past(j)
      BY <2>1, <3>1, <3>2 DEF LifeInv, LifeOf, Preparing, PreStatus
    <3>4. CASE RunnerStep
      BY <3>1, <3>4, <1>1, RunnerWrites DEF Unstarted
    <3>5. CASE ~ RunnerStep
      BY <2>1, <3>1, <3>3, <3>5, OthersWrite DEF Past
    <3> QED
      BY <3>4, <3>5
  <2>3. CASE snap'[j] = jobs[j] /\ jobs[j].status \in ListedStatus
    BY <2>3, <1>1 DEF ListedStatus
  <2>4. CASE jobs'[j].status = "resolving"
    BY <2>4 DEF Unstarted
  <2> QED
    BY <2>1, <2>2, <2>3, <2>4, <1>1 DEF RunnerMoves, Exists
<1>2. ASSUME LostTask(j)' PROVE OutOfReach(j)'
  <2>1. PICK g \in abandoned' : tasks'[g] \in Live /\ owner'[g].job = j
    BY <1>2 DEF LostTask
  <2>2. g \in Gids
    BY <2>1, NextInv, TrackTypes DEF Inv, TypeOK, EngineTypeOK
  <2>3. CASE g \in abandoned /\ tasks[g] \in Live
    <3>1. ~ StartedFor(g)
      BY <2>3 DEF StartedFor, Fresh
    <3>2. owner[g].job = j
      BY <2>1, <2>2, <3>1, EveryTaskMoves DEF TaskMoves
    <3>3. Exists(jobs[j])
      BY <2>2, <3>2 DEF KindsInv, JobId
    <3>4. manual[j] = 0 /\ OutOfReach(j)
      BY <2>3, <3>2, <3>3, <1>a DEF Born, LostInv, LostTask
    <3>5. ~ Over(j)
      BY <3>4, OutOfReachNotOver
    <3>6. ~ Exists(snap'[j])
      BY <3>4, <1>a DEF StepMoves, RunnerMoves, OutOfReach, Unstarted, ListedStatus
    <3>7. ~ AtWork(j)' /\ ~ Asked(j, {"decrypting"})'
      BY <3>5, <1>a DEF StepMoves, OthersMove
    <3>8. jobs'[j].status \in Unstarted
      <4>1. CASE RunnerStep
        BY <3>4, <4>1, RunnerWrites DEF OutOfReach, Unstarted
      <4>2. CASE ~ RunnerStep
        BY <3>4, <4>2, OthersWrite DEF OutOfReach
      <4> QED
        BY <4>1, <4>2
    <3> QED
      BY <3>6, <3>7, <3>8 DEF OutOfReach
  <2>4. CASE ~ (g \in abandoned /\ tasks[g] \in Live)
    <3>1. DaemonCrash /\ g = hand /\ tasks[g] \in Live /\ j = cur
      BY <2>1, <2>2, <2>4, NewlyLost
    <3>2. snap[j].status = "resolving" /\ manual[j] = 0
      BY <3>1, <2>2, <1>a, HandOwned DEF Born
    <3>3. jobs'[j].status \in Unstarted
      BY <3>1, <3>2 DEF LostInv, DaemonCrash, storeVars
    <3>4. ~ Exists(snap'[j]) /\ ~ AtWork(j)' /\ ~ Asked(j, {"decrypting"})'
      BY <3>1 DEF DaemonCrash, NoRow, NewRow, Exists, AtWork, NoGor, Asked, NoRequest
    <3> QED
      BY <3>3, <3>4 DEF OutOfReach
  <2> QED
    BY <2>3, <2>4
<1> QED
  BY <1>1, <1>2

LEMMA LostInit == Init => LostInv
<1> SUFFICES ASSUME Init PROVE LostInv
  OBVIOUS
<1>1. abandoned = {} /\ \A j \in JobId : snap[j].status = "none"
  BY DEF Init, RunnerStopped, EngineInit, NoRow, NewRow
<1> QED
  BY <1>1 DEF LostInv, LostTask

----------------------------------------------------------------------------
(* The file of a job that is completed, or about to be, is plain and stays *)
(* so until a user asks for the download again.                            *)

(* Two jobs that download to the same place share the file.                *)
UniqueFiles ==
    \A i, j \in JobId : i # j /\ Exists(jobs[i]) /\ Exists(jobs[j])
        => jobs[i].kind.file # jobs[j].kind.file

(* A goroutine has decrypted the payload or does not have to.              *)
Decrypted(w) == \/ gor[w].pc = "complete"
                \/ gor[w].pc = "archive" /\ "mega" \in gor[w].task.todo

Ready(j) ==
    \/ jobs[j].status = "completed"
    \/ pc = "complete" /\ cur = j
    \/ \E w \in Workers : gor[w].task.id = j /\ Decrypted(w)

PlainInv == \A j \in JobId : manual[j] = 0 /\ Ready(j) => files[j] = "plain"

LEMMA ReadyIsPast == ASSUME NEW j \in JobId, Ready(j) PROVE Past(j)
BY DEF Ready, Decrypted, Past, PastStatus, Finishing, AtWork

(* No download arrives for a job that is past it.                          *)
LEMMA NothingArrives ==
    ASSUME Inv, TrackInv, LifeInv, FileInv, SpentInv, LostInv, NEW j \in JobId, Past(j),
           manual[j] = 0, NEW g \in Gids
    PROVE  ~ Arrives(g, j)
<1> SUFFICES ASSUME tasks[g] = "active", owner[g].job = j PROVE FALSE
  BY DEF Arrives
<1>a. tasks[g] \in Live /\ j # 0
  BY DEF Live, JobId
<1>1. g \notin abandoned
  <2>1. OutOfReach(j) => ~ Past(j)
    BY OutOfReachNotOver DEF Over
  <2> QED
    BY <2>1, <1>a DEF LostInv, LostTask
<1>2. CASE hand = g
  BY <1>2, <1>a, HandOwned DEF Over
<1>3. CASE jobs[j].gid = g
  <2>1. Dead(g)
    BY <1>3 DEF SpentInv
  <2> QED
    BY <2>1, <1>1, <1>a, StoreAssumption DEF Dead
<1> QED
  BY <1>1, <1>2, <1>3, <1>a DEF TrackInv, EngineTasksTracked

(* A goroutine whose task passes over the payload has run the archive tool *)
(* on a set with the job's own file in it.                                 *)
LEMMA ArchivePlain ==
    ASSUME Inv, LifeInv, FileInv, HandledInv, CipherInv, UniqueFiles,
           NEW w \in Workers, ArchiveSkipped(w) \/ ArchiveDecrypted(w),
           "mega" \notin gor[w].task.todo
    PROVE  files[gor[w].task.id] = "plain"
<1> DEFINE j == gor[w].task.id
<1>a. /\ j \in JobId /\ jobs[j] \in Row /\ gor[w].pc = "archive" /\ gor[w].task.entry \in Name
  BY LifeTypes, TrackTypes DEF ArchiveSkipped, ArchiveDecrypted, WorkerTypeOK, Task
<1>b. AtWork(j)
  BY <1>a DEF AtWork
<1>c. Over(j) /\ Exists(jobs[j])
  BY <1>a, <1>b, OverFacts DEF LifeInv, LifeOf, Known
<1>1. CASE jobs[j].kind.site # "mega"
  BY <1>1, <1>a, <1>c, OtherIsPlain
<1>2. CASE jobs[j].kind.site = "mega"
  <2>1. SafeEntry(gor[w].task.entry, jobs[j].kind.file)
    BY <1>2, <1>a DEF HandledInv, Handled
  <2>2. \A n \in ResolveArchiveEntryPath(gor[w].task.entry) : SafeEntry(n, jobs[j].kind.file)
    BY <2>1, <1>a, EntrySafe
  <2>3. PICK n : SafeEntry(n, jobs[j].kind.file) /\ Complete(n)
    BY <2>2 DEF ArchiveSkipped, ArchiveDecrypted, SafeEntry
  <2>4. jobs[j].kind.file \in Volumes(n)
    BY <2>3, <1>a, RowKind DEF SafeEntry, Volumes
  <2>5. PICK i \in JobId : /\ Exists(jobs[i]) /\ jobs[i].kind.file = jobs[j].kind.file
                           /\ files[i] = "plain"
    BY <2>3, <2>4 DEF Complete
  <2> QED
    BY <2>5, <1>a, <1>c DEF UniqueFiles
<1> QED
  BY <1>1, <1>2

(* What the statements that do not say so leave is completed only if it    *)
(* was before.                                                             *)
LEMMA StmtCompleted ==
    ASSUME NEW r \in Row
    PROVE  /\ \A row \in {Resolving(r), MarkPaused(r), MarkDownloadingStatus(r), MarkDecrypting(r),
                          MarkDecryptingRetry(r), MarkPostprocessFailed(r),
                          ClearArchivePassword(r), RemoveRow(r), MarkFailed(r), Requeue(r),
                          UpdateProgress(r, "downloading")} :
                 row.status = "completed" => r.status = "completed"
           /\ \A name : UpdateResolving(r, name).status = r.status
           /\ \A g : MarkDownloading(r, g).status # "completed"
<1>1. \A row \in {Resolving(r), MarkPaused(r), MarkDownloadingStatus(r), MarkDecrypting(r),
                  MarkDecryptingRetry(r), MarkPostprocessFailed(r), UpdateProgress(r, "downloading")} :
         row.status # "completed"
  BY DEF Resolving, MarkPaused, MarkDownloadingStatus, MarkDecrypting, MarkDecryptingRetry,
         MarkPostprocessFailed, UpdateProgress, Row
<1>2. \A row \in {RemoveRow(r), MarkFailed(r), Requeue(r)} : row.status # "completed"
  BY DEF RemoveRow, MarkFailed, Requeue, Row
<1>3. ClearArchivePassword(r).status = r.status
  BY DEF ClearArchivePassword, Row
<1>4. (\A name : UpdateResolving(r, name).status = r.status)
      /\ \A g : MarkDownloading(r, g).status # "completed"
  BY DEF UpdateResolving, MarkDownloading, Row
<1> QED
  BY <1>1, <1>2, <1>3, <1>4

(* A statement about one job that does not say so.                         *)
LEMMA UpdateCompleted ==
    ASSUME Inv, NEW id \in JobId, NEW row, Update(id, row),
           row.status = "completed" => jobs[id].status = "completed",
           NEW j \in JobId, jobs'[j].status = "completed"
    PROVE  jobs[j].status = "completed"
<1>1. j # id => jobs'[j] = jobs[j]
  BY LifeTypes, UpdateRow
<1>2. j = id => jobs'[j] = row \/ jobs'[j] = jobs[j]
  BY LifeTypes, UpdateRow
<1> QED
  BY <1>1, <1>2

(* The runner says so for a job with nothing to do.                        *)
NothingToDo(j) ==
    /\ Over(j)
    /\ \E path \in BOOLEAN : \E entry \in ResolveArchiveEntryPath(snap[j].kind.file) :
          Todo(snap[j], path, entry) = {}

LEMMA NothingToDoPlain ==
    ASSUME Inv, FileInv, KindsInv, CipherInv, NEW j \in JobId, NothingToDo(j), Exists(snap[j])
    PROVE  files[j] = "plain"
<1>1. snap[j] \in Row /\ snap[j].kind = jobs[j].kind
  BY LifeTypes DEF KindsInv
<1>2. snap[j].kind.site # "mega"
  BY <1>1, TodoHandled DEF NothingToDo, Handled
<1> QED
  BY <1>1, <1>2, OtherIsPlain DEF NothingToDo

LEMMA RunnerReady ==
    ASSUME Inv, RunnerStep, NEW j \in JobId, Ready(j)'
    PROVE  Ready(j) \/ (NothingToDo(j) /\ Exists(snap[j]))
<1>a. /\ StoreTypeOK /\ RunnerTypeOK /\ ListInv /\ cur \in JobId /\ jobs[cur] \in Row
      /\ \A i \in JobId : jobs[i] \in Row
  BY LifeTypes
<1>b. WorkerTypeOK
  BY TrackTypes
<1>c. ASSUME NEW w \in Workers, gor'[w].task.id = j, Decrypted(w)' PROVE Ready(j)
  <2>1. gor'[w] = gor[w] \/ gor'[w].pc = "waiting"
    <3>1. CASE RunnerSchedule
      BY <3>1, <1>b DEF RunnerSchedule, ScheduleDecrypt, workerVars, WorkerTypeOK
    <3>2. CASE ~ RunnerSchedule
      <4>1. gor' = gor
        BY <3>2 DEF RunnerStep, RunnerJobStep, TellStatus, Dispatch, DispatchSkip,
         DispatchNothingToDo, DispatchNoPath, DispatchWait, DispatchTaskReady, Dispatching,
         AutoRequeue, ClaimNextQueued, ListActive, ApplyFailed, ApplyProgress, ApplyComplete,
         ListPending, RunnerMarkDecrypting, RunnerMarkCompleted,
         RunnerMarkPostprocessFailed, RunnerClearPassword, ListRetryable, CountDownloading,
         NothingQueued, ClaimConflict, CheckDeleted, Resolved, ResolveFailed,
         PrepareOutputForStart, RemoveControlFile, RemoveControlFileFailed, Started, StartFailed,
         StartLost, RunnerMarkFailed, RunnerMarkDownloading, Load, Write, ReadOnly, elsewhere,
         workerVars
      <4> QED  BY <4>1
    <3> QED
      BY <3>1, <3>2
  <2> QED
    BY <1>c, <2>1 DEF Ready, Decrypted
<1>d. ASSUME jobs'[j].status = "completed" => jobs[j].status = "completed",
             ~ (pc' = "complete" /\ cur' = j)
      PROVE  Ready(j)
  BY <1>c, <1>d DEF Ready
<1>1. CASE ApplyComplete
  <2>1. Over(cur) /\ cur \in Held
    BY <1>1, <1>a, OverFacts DEF ApplyComplete, Ending, ListInv
  <2>2. CASE ReadOnly /\ pc' = "mark"
    BY <2>2, <1>d DEF ReadOnly, storeVars
  <2>3. CASE Write(cur, UpdateProgress(jobs[cur], "completed")) /\ NothingToDo(cur) /\ cur' = cur
    <3>1. j # cur => jobs'[j] = jobs[j]
      BY <2>3, <1>a, UpdateRow DEF Write
    <3> QED
      BY <2>1, <2>3, <3>1, <1>d DEF Held
  <2> QED
    BY <1>1, <2>1, <2>2, <2>3 DEF ApplyComplete, NothingToDo, Goto
<1>2. ASSUME NEW id \in JobId, Dispatch(id) PROVE Ready(j) \/ (NothingToDo(j) /\ Exists(snap[j]))
  <2>1. jobs' = jobs /\ pc = "dispatch" /\ id \in Held
    BY <1>2 DEF Dispatch, DispatchSkip, DispatchNothingToDo, DispatchNoPath, DispatchWait,
         DispatchTaskReady, Dispatching, ReadOnly, storeVars
  <2>2. CASE pc' # "complete"
    BY <2>1, <2>2, <1>d
  <2>3. CASE pc' = "complete"
    <3>1. PICK entry \in ResolveArchiveEntryPath(snap[id].kind.file) :
            DispatchTask(id, entry).todo = {} /\ cur' = id
      BY <1>2, <2>3 DEF Dispatch, DispatchSkip, DispatchNothingToDo, DispatchNoPath, DispatchWait,
           DispatchTaskReady, Select, Done
    <3>2. Todo(snap[id], PathKnown(snap[id]), entry) = {}
      BY <3>1 DEF DispatchTask, BuildDecryptTask
    <3>3. Over(id)
      BY <2>1, <1>a, OverFacts DEF ListInv
    <3>4. NothingToDo(id)
      BY <3>1, <3>2, <3>3 DEF NothingToDo, PathKnown
    <3> QED
      BY <2>1, <3>1, <3>4, <1>d DEF Held
  <2> QED
    BY <2>2, <2>3
<1>3. CASE RunnerMarkCompleted
  <2>1. pc = "complete" /\ Update(cur, MarkCompleted(jobs[cur])) /\ pc' # "complete"
    BY <1>3 DEF RunnerMarkCompleted, Write, Done, Goto
  <2>2. j # cur => jobs'[j] = jobs[j]
    BY <2>1, <1>a, UpdateRow
  <2> QED
    BY <2>1, <2>2, <1>d DEF Ready
<1>4. ASSUME NEW id \in JobId,
             NEW row \in {Resolving(jobs[id]), MarkDecrypting(jobs[id]), MarkPostprocessFailed(jobs[id]),
                          ClearArchivePassword(jobs[id]), MarkFailed(jobs[id]), Requeue(jobs[id]),
                          UpdateProgress(jobs[id], "downloading")},
             Update(id, row), pc' # "complete"
      PROVE  Ready(j)
  <2>1. row.status = "completed" => jobs[id].status = "completed"
    BY <1>a, StmtCompleted
  <2> QED
    BY <1>4, <2>1, <1>d, UpdateCompleted
<1>5. CASE \/ \E id \in JobId : AutoRequeue(id) \/ ClaimNextQueued(id)
           \/ ApplyFailed \/ ApplyProgress \/ RunnerMarkDecrypting \/ RunnerMarkPostprocessFailed
           \/ RunnerClearPassword \/ ResolveFailed \/ RunnerMarkFailed
  <2>1. pc' # "complete"
    BY <1>5 DEF AutoRequeue, ClaimNextQueued, ApplyFailed, ApplyProgress, RunnerMarkDecrypting,
         RunnerMarkPostprocessFailed, RunnerClearPassword, ResolveFailed, RunnerMarkFailed, Done,
         Goto, Loop
  <2> QED
    BY <1>4, <1>5, <2>1, <1>a DEF AutoRequeue, ClaimNextQueued, ApplyFailed, ApplyProgress,
         RunnerMarkDecrypting, RunnerMarkPostprocessFailed, RunnerClearPassword, ResolveFailed,
         RunnerMarkFailed, Write
<1>6. CASE Resolved
  <2>1. pc' # "complete" /\ \E name : Update(cur, UpdateResolving(jobs[cur], name))
    BY <1>6 DEF Resolved, Write, Goto
  <2> QED
    BY <2>1, <1>a, <1>d, StmtCompleted, UpdateCompleted
<1>7. CASE RunnerMarkDownloading
  <2>1. pc' # "complete" /\ Update(cur, MarkDownloading(jobs[cur], hand))
    BY <1>7 DEF RunnerMarkDownloading, Done
  <2> QED
    BY <2>1, <1>a, <1>d, StmtCompleted, UpdateCompleted
<1>8. CASE \/ \E id \in JobId : TellStatus(id)
           \/ ListActive \/ ListPending \/ RunnerSchedule \/ ListRetryable \/ CountDownloading
           \/ NothingQueued \/ ClaimConflict \/ CheckDeleted \/ PrepareOutputForStart
           \/ RemoveControlFile \/ RemoveControlFileFailed \/ Started \/ StartFailed \/ StartLost
  <2>1. UNCHANGED jobs /\ pc' # "complete"
    BY <1>8 DEF TellStatus, ListActive, ListPending, RunnerSchedule, ListRetryable,
         CountDownloading, NothingQueued, ClaimConflict, CheckDeleted, PrepareOutputForStart,
         RemoveControlFile, RemoveControlFileFailed, Started, StartFailed, StartLost, Load,
         ReadOnly, storeVars, Done, Goto, Loop
  <2> QED
    BY <2>1, <1>d
<1> QED
  BY <1>1, <1>2, <1>3, <1>5, <1>6, <1>7, <1>8 DEF RunnerStep, RunnerJobStep

(* A goroutine says so when it has done what its task asks for.            *)
LEMMA WorkerReady ==
    ASSUME Inv, LifeInv, FileInv, HandledInv, CipherInv, UniqueFiles,
           NEW w \in Workers, WorkerNext(w), NEW j \in JobId, Ready(j)'
    PROVE  Ready(j) \/ files'[j] = "plain"
<1> DEFINE id == gor[w].task.id
<1>a. /\ id \in JobId /\ jobs[id] \in Row /\ WorkerTypeOK /\ EngineTypeOK /\ UNCHANGED localVars
  BY LifeTypes, TrackTypes DEF WorkerNext
<1>b. ASSUME jobs'[j].status # "completed" \/ jobs[j].status = "completed" PROVE
         Ready(j) \/ (id = j /\ Decrypted(w)' /\ gor'[w].task = gor[w].task)
  <2>1. ASSUME NEW v \in Workers, gor'[v].task.id = j, Decrypted(v)'
        PROVE  Ready(j) \/ (id = j /\ Decrypted(w)' /\ gor'[w].task = gor[w].task)
    <3>1. gor'[v].pc # "none"
      BY <2>1 DEF Decrypted
    <3>2. gor'[v].task = gor[v].task /\ (v # w => gor'[v] = gor[v])
      BY <3>1, <1>a, TasksKept
    <3>3. v # w => Decrypted(v) /\ gor[v].task.id = j
      BY <2>1, <3>2 DEF Decrypted
    <3> QED
      BY <2>1, <3>2, <3>3 DEF Ready
  <2> QED
    BY <1>b, <2>1, <1>a DEF Ready, localVars
<1>c. ASSUME id = j, jobs[id].kind.site # "mega", gor[w].pc # "none" PROVE files[j] = "plain"
  <2>1. AtWork(j)
    BY <1>c DEF AtWork
  <2> QED
    BY <1>c, <2>1, <1>a, OverFacts, OtherIsPlain
<1>1. CASE AcquireWorker(w)
  <2>1. /\ UNCHANGED <<jobs, files>> /\ gor[w].pc = "waiting"
        /\ gor'[w].pc = IF "mega" \in gor[w].task.todo THEN "mega" ELSE AfterMega(w)
    BY <1>1, <1>a DEF AcquireWorker, storeVars, engineVars, StepTo, WorkerTypeOK
  <2>2. Decrypted(w)' /\ gor'[w].task = gor[w].task => gor[w].task.todo \cap {"mega", "archive"} = {}
    BY <2>1 DEF Decrypted, AfterMega
  <2>3. gor[w].task.todo \cap {"mega", "archive"} = {} => jobs[id].kind.site # "mega"
    BY <2>1 DEF HandledInv, Handled
  <2> QED
    BY <2>1, <2>2, <2>3, <1>b, <1>c
<1>2. CASE MegaDecrypted(w)
  <2>1. UNCHANGED jobs /\ files'[id] = "plain"
    BY <1>2, <1>a DEF MegaDecrypted, storeVars, EngineTypeOK
  <2> QED
    BY <2>1, <1>b
<1>3. CASE ArchiveSkipped(w) \/ ArchiveDecrypted(w)
  <2>1. UNCHANGED <<jobs, files>> /\ gor[w].pc = "archive"
    BY <1>3 DEF ArchiveSkipped, ArchiveDecrypted, storeVars, engineVars
  <2>2. CASE "mega" \in gor[w].task.todo
    BY <2>1, <2>2, <1>b DEF Ready, Decrypted
  <2>3. CASE "mega" \notin gor[w].task.todo
    BY <2>1, <2>3, <1>3, <1>b, ArchivePlain
  <2> QED
    BY <2>2, <2>3
<1>4. CASE WorkerMarkCompleted(w)
  <2>1. gor[w].pc = "complete" /\ Update(id, MarkCompleted(jobs[id])) /\ gor'[w].pc = "clear"
    BY <1>4, <1>a DEF WorkerMarkCompleted, WorkerStmt, StepTo, WorkerTypeOK
  <2>2. j # id => jobs'[j] = jobs[j]
    BY <2>1, <1>a, LifeTypes, UpdateRow
  <2>3. j = id => Ready(j)
    BY <2>1 DEF Ready, Decrypted
  <2> QED
    BY <2>2, <2>3, <1>b
<1>5. CASE WorkerMarkFailed(w) \/ WorkerClearPassword(w)
  <2>1. PICK row \in {MarkPostprocessFailed(jobs[id]), ClearArchivePassword(jobs[id])} :
          Update(id, row) /\ gor'[w].pc \in {"clear", "unmark"}
    BY <1>5, <1>a DEF WorkerMarkFailed, WorkerClearPassword, WorkerStmt, StepTo, WorkerTypeOK
  <2>2. row.status = "completed" => jobs[id].status = "completed"
    BY <2>1, <1>a, StmtCompleted
  <2> QED
    BY <2>1, <2>2, <1>a, <1>b, UpdateCompleted DEF Decrypted
<1>6. CASE MegaFailed(w) \/ ArchiveFailed(w) \/ UnmarkPending(w) \/ ReleaseWorker(w)
  <2>1. UNCHANGED jobs /\ gor'[w].pc \in {"fail", "release", "none"}
    BY <1>6, <1>a DEF MegaFailed, ArchiveFailed, UnmarkPending, ReleaseWorker, StepTo, storeVars,
         WorkerTypeOK, NoGor
  <2> QED
    BY <2>1, <1>b DEF Decrypted
<1> QED
  BY <1>1, <1>2, <1>3, <1>4, <1>5, <1>6 DEF WorkerNext, WorkerStep

(* Nobody else does.                                                       *)
LEMMA OthersReady ==
    ASSUME Inv, "purge" \notin Ops, [Next]_vars, ~ RunnerStep, ~ \E w \in Workers : WorkerNext(w),
           NEW j \in JobId, Ready(j)'
    PROVE  Ready(j)
<1>a. /\ StoreTypeOK /\ \A i \in JobId : jobs[i] \in Row
      /\ \A c \in Clients : req[c] \in Request
  BY LifeTypes
<1>1. jobs'[j].status = "completed" => jobs[j].status = "completed"
  <2>1. ASSUME NEW c \in Clients, Execute(c), jobs'[j].status = "completed"
        PROVE  jobs[j].status = "completed"
    <3> DEFINE id == req[c].id
               row == RowAfter(req[c].stmt, jobs[id])
    <3>1. id \in JobId /\ req[c].stmt \in Stmt \ {"none"} /\ Update(id, row)
      BY <2>1, <1>a DEF Execute, Request
    <3>2. row \in {Requeue(jobs[id]), MarkDecryptingRetry(jobs[id]), RemoveRow(jobs[id]),
                   MarkPaused(jobs[id]), MarkDownloadingStatus(jobs[id])}
      BY <3>1 DEF RowAfter, Stmt
    <3>3. row.status = "completed" => jobs[id].status = "completed"
      BY <3>1, <3>2, <1>a, StmtCompleted
    <3> HIDE DEF id, row
    <3> QED
      BY <2>1, <3>1, <3>3, UpdateCompleted
  <2>2. ASSUME NEW c \in Clients, ClientNext(c) PROVE Execute(c) \/ UNCHANGED jobs
    BY <2>2 DEF ClientNext, ServiceStep, Retry, Remove, Pause, Resume, Begin, EngineCall, storeVars
  <2>3. ASSUME NEW kind \in Kinds, Create(kind) PROVE jobs'[j] = jobs[j] \/ jobs'[j].status = "queued"
    BY <2>3, <1>a DEF Create, CreateJob, NewRow, StoreTypeOK
  <2>4. ASSUME Clear PROVE jobs'[j] = jobs[j] \/ jobs'[j].status = "deleted"
    BY <2>4, <1>a DEF Clear, ClearCompleted, RemoveRow, Row
  <2>5. BulkNext => (\E kind \in Kinds : Create(kind)) \/ Clear
    BY DEF BulkNext, BulkStep, Purge
  <2>6. ASSUME NEW k \in JobId, TimerNext(k) PROVE jobs'[j].status = jobs[j].status
    BY <2>6, <1>a DEF TimerNext, RetryTimer, StoreTypeOK, Row
  <2>7. CASE \/ \E g \in Gids : EngineNext(g)
             \/ \E v \in AutoModes : SetAutoDecrypt(v)
             \/ DaemonCrash \/ EngineRestart \/ UNCHANGED vars
    BY <2>7 DEF EngineNext, SetAutoDecrypt, DaemonCrash, EngineRestart, vars, storeVars
  <2> QED
    BY <2>1, <2>2, <2>3, <2>4, <2>5, <2>6, <2>7 DEF Next, RunnerNext
<1>2. CASE DaemonCrash
  BY <1>1, <1>2 DEF DaemonCrash, Ready, Decrypted, NoGor
<1>3. CASE ~ DaemonCrash
  <2>1. UNCHANGED <<localVars, gor>>
    BY <1>3, RunnerAlone, WhoTouchesWorkers DEF workerVars, RunnerStep
  <2> QED
    BY <1>1, <2>1 DEF Ready, Decrypted, localVars
<1> QED
  BY <1>2, <1>3

LEMMA PlainStep ==
    ASSUME Inv, TrackInv, LifeInv, FileInv, SpentInv, KindsInv, HandledInv, CipherInv, LostInv,
           PlainInv, UniqueFiles, "purge" \notin Ops, [Next]_vars
    PROVE  PlainInv'
<1> SUFFICES ASSUME NEW j \in JobId, manual'[j] = 0, Ready(j)' PROVE files'[j] = "plain"
  BY DEF PlainInv
<1>1. ~ Born(j)
  BY DEF Born, Ready, Decrypted, Finishing, Known, AtWork
<1>2. manual[j] = 0
  BY <1>1, ManualGrows
<1>3. ASSUME Past(j), files[j] = "plain" PROVE files'[j] = "plain"
  BY <1>1, <1>2, <1>3, NothingArrives, FilesMove
<1>4. CASE Ready(j)
  BY <1>2, <1>3, <1>4, ReadyIsPast DEF PlainInv
<1>5. CASE ~ Ready(j) /\ RunnerStep
  <2>1. files[j] = "plain"
    BY <1>5, RunnerReady, NothingToDoPlain
  <2>2. UNCHANGED files
    BY <1>5 DEF RunnerStep, RunnerJobStep, TellStatus, Dispatch, DispatchSkip,
         DispatchNothingToDo, DispatchNoPath, DispatchWait, DispatchTaskReady, Dispatching,
         AutoRequeue, ClaimNextQueued, ListActive, ApplyFailed, ApplyProgress, ApplyComplete,
         ListPending, RunnerMarkDecrypting, RunnerSchedule, RunnerMarkCompleted,
         RunnerMarkPostprocessFailed, RunnerClearPassword, ListRetryable, CountDownloading,
         NothingQueued, ClaimConflict, CheckDeleted, Resolved, ResolveFailed,
         PrepareOutputForStart, RemoveControlFile, RemoveControlFileFailed, Started, StartFailed,
         StartLost, AddURI, RunnerMarkFailed, RunnerMarkDownloading, Load, Write, ReadOnly, engineVars
  <2> QED
    BY <2>1, <2>2
<1>6. ASSUME ~ Ready(j), NEW w \in Workers, WorkerNext(w) PROVE files'[j] = "plain"
  BY <1>6, WorkerReady
<1>7. CASE ~ Ready(j) /\ ~ RunnerStep /\ ~ \E w \in Workers : WorkerNext(w)
  BY <1>7, OthersReady
<1> QED
  BY <1>4, <1>5, <1>6, <1>7

LEMMA PlainInit == Init => PlainInv
<1> SUFFICES ASSUME Init PROVE PlainInv
  OBVIOUS
<1>1. pc = "idle" /\ \A j \in JobId : jobs[j].status = "none"
  BY DEF Init, StoreInit, RunnerStopped, NoRow, NewRow
<1>2. \A w \in Workers : gor[w].pc = "none"
  BY DEF Init, WorkerInit, NoGor
<1> QED
  BY <1>1, <1>2 DEF PlainInv, Ready, Decrypted

(***************************************************************************)
(* As long as no reply of aria2c is lost, the queue is not purged and no   *)
(* two jobs download to the same place, the file of a completed MEGA job   *)
(* has been decrypted, however post-processing fails, is retried, is cut   *)
(* short by a crash or races the polls, until a user asks for the download *)
(* again (buildDecryptTask, runDecrypt, updateActive).  A retry after a    *)
(* failure skips the payload of an archive, on the guess that only the     *)
(* archive step had failed; the guess may be wrong, but the archive tool   *)
(* then fails on the ciphertext.  A task that runs on after its reply was  *)
(* lost can overwrite the file with ciphertext later on.                   *)
(***************************************************************************)
THEOREM CompletedDecrypted ==
    "purge" \notin Ops /\ Lossy = FALSE => (Spec /\ []UniqueFiles => []CompletedIsPlain)
<1> SUFFICES ASSUME "purge" \notin Ops, Lossy = FALSE
             PROVE  Spec /\ []UniqueFiles => []CompletedIsPlain
  OBVIOUS
<1>1. Inv /\ TrackInv /\ LifeInv /\ [Next]_vars => LifeInv'
  BY LifeStep
<1>2. Inv /\ TrackInv /\ LifeInv /\ FileInv /\ [Next]_vars => FileInv'
  BY FileStep
<1>3. Inv /\ TrackInv /\ LifeInv /\ SpentInv /\ [Next]_vars => SpentInv'
  BY SpentStep
<1>4. Inv /\ TrackInv /\ LifeInv /\ KindsInv /\ [Next]_vars => KindsInv'
  BY KindsStep
<1>5. Inv /\ TrackInv /\ LifeInv /\ KindsInv /\ HandledInv /\ [Next]_vars => HandledInv'
  BY HandledStep
<1>6. Inv /\ TrackInv /\ LifeInv /\ KindsInv /\ CipherInv /\ [Next]_vars => CipherInv'
  BY CipherStep
<1>7. Inv /\ TrackInv /\ LifeInv /\ FileInv /\ KindsInv /\ LostInv /\ [Next]_vars => LostInv'
  BY LostStep
<1>8. Inv /\ TrackInv /\ LifeInv /\ FileInv /\ SpentInv /\ KindsInv /\ HandledInv /\ CipherInv
        /\ LostInv /\ PlainInv /\ UniqueFiles /\ [Next]_vars => PlainInv'
  BY PlainStep
<1>9. PlainInv => CompletedIsPlain
  BY DEF PlainInv, Ready, CompletedIsPlain
<1> QED
  BY <1>1, <1>2, <1>3, <1>4, <1>5, <1>6, <1>7, <1>8, <1>9, TrackInit, TrackStep, InitLife, FileInit,
     SpentInit, KindsInit, HandledInit, CipherInit, LostInit, PlainInit, Invariance, PTL DEF Spec

----------------------------------------------------------------------------
(* An archive whose volumes have all arrived is opened.                    *)

(* Nobody interferes: clients only add and clear jobs, no call to aria2c   *)
(* is lost, nothing is restarted and auto_decrypt stays on.                *)
Unattended ==
    /\ Ops \subseteq {"create", "clear"} /\ Lossy = FALSE /\ MaxCrashes = 0
    /\ AutoModes = {TRUE}

(* Every set has a first volume, on which the names of the others agree,   *)
(* and is not served by MEGA.                                              *)
WholeSets ==
    \A k \in Kinds :
        /\ \E m \in Kinds : m.file = MultipartArchiveFirstVolume(k.file)
        /\ \A l \in Kinds : SameSet(k.file, l.file) =>
              MultipartArchiveFirstVolume(l.file) = MultipartArchiveFirstVolume(k.file)
        /\ IsArchiveFile(MultipartArchiveFirstVolume(k.file)) => k.site # "mega"

Sets == {n \in {MultipartArchiveFirstVolume(k.file) : k \in Kinds} : IsArchiveFile(n)}

Member(j, n) == Exists(jobs[j]) /\ jobs[j].kind.file \in Volumes(n)

LEMMA SetFacts ==
    ASSUME WholeSets, NEW n \in Sets
    PROVE  /\ n \in Name /\ MultipartArchiveFirstVolume(n) = n /\ n \in Volumes(n)
           /\ \A k \in Kinds : k.file \in Volumes(n) =>
                 MultipartArchiveFirstVolume(k.file) = n /\ k.site # "mega"
           /\ \A k \in Kinds : SameSet(n, k.file) => k.file \in Volumes(n)
<1>1. PICK k \in Kinds : n = MultipartArchiveFirstVolume(k.file) /\ IsArchiveFile(n)
  BY DEF Sets
<1>a. \A l \in Kinds : l.file \in Name
  BY StoreAssumption DEF Kind
<1>2. n \in Name /\ MultipartArchiveFirstVolume(n) = n
  BY <1>1, <1>a, EntryType, FirstVolume
<1>3. PICK m \in Kinds : m.file = n
  BY <1>1 DEF WholeSets
<1>4. n \in Volumes(n)
  BY <1>3 DEF Volumes
<1>5. ASSUME NEW l \in Kinds, l.file \in Volumes(n)
      PROVE  MultipartArchiveFirstVolume(l.file) = n /\ l.site # "mega"
  <2>1. l.file = n \/ SameSet(l.file, n)
    BY <1>5 DEF Volumes
  <2>2. MultipartArchiveFirstVolume(l.file) = n
    BY <2>1, <1>2, <1>3 DEF WholeSets
  <2> QED
    BY <2>2, <1>1 DEF WholeSets
<1>6. ASSUME NEW l \in Kinds, SameSet(n, l.file) PROVE l.file \in Volumes(n)
  BY <1>6 DEF Volumes, SameSet
<1> QED
  BY <1>2, <1>4, <1>5, <1>6

(* When all volumes are there, every look for the first one finds it, and  *)
(* the jobs of the set have their files.                                   *)
LEMMA CompleteFacts ==
    ASSUME Inv, WholeSets, UniqueFiles, NEW n \in Sets, Complete(n)
    PROVE  /\ \A m : MultipartArchiveFirstVolume(m) = n => ResolveArchiveEntryPath(m) = {n}
           /\ \A j \in JobId : Member(j, n) => HasFile(j)
<1>1. Stored(n)
  BY SetFacts DEF Complete, Stored
<1>2. ASSUME NEW j \in JobId, Member(j, n) PROVE HasFile(j)
  <2>1. PICK i \in JobId : Exists(jobs[i]) /\ jobs[i].kind.file = jobs[j].kind.file /\ files[i] = "plain"
    BY <1>2 DEF Member, Complete
  <2> QED
    BY <2>1, <1>2 DEF UniqueFiles, Member, HasFile
<1> QED
  BY <1>1, <1>2 DEF ResolveArchiveEntryPath

(* A goroutine stands in decryptPending for the job.                       *)
Working(j) == \E w \in Workers : IsPending(w) /\ gor[w].task.id = j

(* The runner is about to end its work on the job.                         *)
Deciding(j) == cur = j /\ pc \in {"mark", "schedule", "complete", "fail", "clear"}

(* Who will still have the archive opened: a job that has not been taken   *)
(* up after its download or waits to be taken up again, for which its row  *)
(* must know the path; one the runner is about to schedule; a goroutine    *)
(* that has not run the archive tool yet.                                  *)
Waits(j) ==
    /\ ~ Deciding(j) /\ ~ Working(j)
    /\ \/ jobs[j].status \in {"queued", "resolving", "downloading"}
       \/ jobs[j].status = "decrypting" /\ PathKnown(jobs[j])

Dispatched(j) ==
    /\ cur = j /\ pc \in {"mark", "schedule"} /\ "archive" \in work.todo
    /\ ~ Working(j) /\ ~ Settled(jobs[j])

OpensWith(w, j) ==
    /\ gor[w].task.id = j /\ gor[w].pc \in {"waiting", "archive"}
    /\ "archive" \in gor[w].task.todo

Opening(j) == \E w \in Workers : OpensWith(w, j)

Owing(j) == Waits(j) \/ Dispatched(j) \/ Opening(j)

OwingInv ==
    \A n \in Sets : Complete(n) => n \in opened \/ \E j \in JobId : Member(j, n) /\ Owing(j)

(* An archive that is put off is put off for a sibling that still comes.   *)
WaitInv == pc = "mark" /\ work.wait => MultipartSiblingPending(cur, work.entry)

(* The list read for dispatchCompletedDecrypt knows the paths of its rows. *)
NameInv == \A j \in JobId : Downloaded(j) /\ PathKnown(jobs[j]) => PathKnown(snap[j])

(* decryptPending holds no job for which nothing runs.                     *)
BackInv == \A j \in pending : Working(j)

(* No request is under way and none was.                                   *)
QuietInv ==
    /\ auto
    /\ \A c \in Clients : req[c].call = "none" /\ req[c].stmt = "none"
    /\ \A j \in JobId : jobs[j].status # "paused"

(* Nothing that concerns the jobs comes from outside.                      *)
LEMMA NobodyElse ==
    ASSUME Inv, Unattended, QuietInv, [Next]_vars
    PROVE  /\ \A c \in Clients : ~ ClientNext(c)
           /\ \A v \in AutoModes : ~ SetAutoDecrypt(v)
           /\ ~ DaemonCrash /\ ~ EngineRestart
           /\ auto' = auto /\ req' = req
<1>a. crashes \in 0 .. MaxCrashes
  BY DEF Inv, TypeOK
<1>1. ASSUME NEW c \in Clients PROVE ~ ClientNext(c)
  BY DEF ClientNext, ServiceStep, Retry, Remove, Pause, Resume, Begin, EngineCall, Execute, QuietInv,
         Unattended
<1>2. \A v \in AutoModes : ~ SetAutoDecrypt(v)
  BY DEF SetAutoDecrypt, QuietInv, Unattended
<1>3. ~ DaemonCrash /\ ~ EngineRestart
  BY <1>a DEF DaemonCrash, EngineRestart, Unattended
<1>4. RunnerStep => auto' = auto /\ req' = req
  BY DEF RunnerStep, RunnerJobStep, TellStatus, Dispatch, DispatchSkip,
         DispatchNothingToDo, DispatchNoPath, DispatchWait, DispatchTaskReady, Dispatching,
         AutoRequeue, ClaimNextQueued, ListActive, ApplyFailed, ApplyProgress, ApplyComplete,
         ListPending, RunnerMarkDecrypting, RunnerSchedule, RunnerMarkCompleted,
         RunnerMarkPostprocessFailed, RunnerClearPassword, ListRetryable, CountDownloading,
         NothingQueued, ClaimConflict, CheckDeleted, Resolved, ResolveFailed,
         PrepareOutputForStart, RemoveControlFile, RemoveControlFileFailed, Started, StartFailed,
         StartLost, RunnerMarkFailed, RunnerMarkDownloading, Load, Write, ReadOnly, elsewhere
<1> QED
  BY <1>1, <1>2, <1>3, <1>4 DEF Next, RunnerNext, WorkerNext, BulkNext, BulkStep, Create, Clear, Purge,
     EngineNext, TimerNext, vars

LEMMA QuietStep ==
    ASSUME Inv, TrackInv, LifeInv, Unattended, QuietInv, [Next]_vars
    PROVE  QuietInv'
<1>1. auto' = auto /\ req' = req
  BY NobodyElse
<1>2. ASSUME NEW j \in JobId PROVE jobs'[j].status # "paused"
  <2>1. RowMoves(j, jobs'[j]) \/ Born(j)
    BY EveryStepMoves DEF StepMoves, Unattended
  <2>2. ~ Asked(j, {"pause"})
    BY DEF Asked, QuietInv
  <2> QED
    BY <2>1, <2>2 DEF RowMoves, Born, QuietInv
<1> QED
  BY <1>1, <1>2 DEF QuietInv

LEMMA BackStep ==
    ASSUME Inv, Unattended, QuietInv, BackInv, [Next]_vars
    PROVE  BackInv'
<1>a. WorkerTypeOK
  BY TrackTypes
<1> SUFFICES ASSUME NEW j \in pending' PROVE Working(j)'
  BY DEF BackInv
<1>1. CASE UNCHANGED workerVars
  BY <1>1 DEF workerVars, BackInv, Working, IsPending
<1>2. CASE RunnerSchedule
  <2>1. \/ UNCHANGED <<gor, pending>>
        \/ /\ pending' = pending \cup {cur}
           /\ \E w \in Workers : gor[w].pc = "none" /\ gor' = [gor EXCEPT ![w] =
                [pc |-> "waiting", task |-> [id |-> cur, todo |-> work.todo, entry |-> work.entry]]]
    BY <1>2 DEF RunnerSchedule, ScheduleDecrypt, NewGoroutine, workerVars
  <2> QED
    BY <2>1, <1>a DEF BackInv, Working, IsPending, WorkerTypeOK
<1>3. ASSUME NEW w \in Workers, WorkerNext(w) PROVE Working(j)'
  <2>1. j \in pending
    BY <1>3 DEF WorkerNext, WorkerStep, AcquireWorker, MegaDecrypted, MegaFailed,
         ArchiveSkipped, ArchiveDecrypted, ArchiveFailed, WorkerMarkCompleted, WorkerMarkFailed,
         WorkerClearPassword, WorkerStmt, UnmarkPending, ReleaseWorker
  <2>2. PICK v \in Workers : IsPending(v) /\ gor[v].task.id = j
    BY <2>1 DEF BackInv, Working
  <2>3. CASE v # w
    <3>1. gor'[v] = gor[v]
      BY <1>3, <2>3, <1>a DEF WorkerNext, WorkerStep, AcquireWorker, MegaDecrypted, MegaFailed,
         ArchiveSkipped, ArchiveDecrypted, ArchiveFailed, WorkerMarkCompleted, WorkerMarkFailed,
         WorkerClearPassword, WorkerStmt, UnmarkPending, ReleaseWorker, StepTo, WorkerTypeOK
    <3> QED
      BY <3>1, <2>2 DEF Working, IsPending
  <2>4. CASE v = w
    <3>1. ~ UnmarkPending(w) /\ ~ ReleaseWorker(w)
      BY <2>2, <2>4 DEF UnmarkPending, ReleaseWorker, IsPending
    <3>2. gor'[w].pc \notin {"none", "release"} /\ gor'[w].task = gor[w].task
      BY <1>3, <3>1, <1>a DEF WorkerNext, WorkerStep, AcquireWorker, MegaDecrypted, MegaFailed,
         ArchiveSkipped, ArchiveDecrypted, ArchiveFailed, WorkerMarkCompleted, WorkerMarkFailed,
         WorkerClearPassword, WorkerStmt, StepTo, AfterMega, WorkerTypeOK
    <3> QED
      BY <3>2, <2>2, <2>4 DEF Working, IsPending
  <2> QED
    BY <2>3, <2>4
<1> QED
  BY <1>1, <1>2, <1>3, NobodyElse, WhoTouchesWorkers

(* A job comes to have a goroutine only when the runner schedules it.      *)
LEMMA NotWorkingKept ==
    ASSUME Inv, Unattended, QuietInv, [Next]_vars, NEW j \in JobId, ~ Working(j),
           ~ (RunnerSchedule /\ cur = j)
    PROVE  ~ Working(j)'
<1>a. WorkerTypeOK
  BY TrackTypes
<1>1. CASE UNCHANGED workerVars
  BY <1>1 DEF workerVars, Working, IsPending
<1>2. CASE RunnerSchedule
  <2>1. \A w \in Workers : gor'[w] = gor[w] \/ gor'[w].task.id = cur
    BY <1>2, <1>a DEF RunnerSchedule, ScheduleDecrypt, workerVars, WorkerTypeOK
  <2> QED
    BY <1>2, <2>1 DEF Working, IsPending
<1>3. ASSUME NEW w \in Workers, WorkerNext(w) PROVE ~ Working(j)'
  <2>1. ASSUME NEW v \in Workers, gor'[v].pc \notin {"none", "release"}
        PROVE  gor[v].pc \notin {"none", "release"} /\ gor'[v].task = gor[v].task
    BY <1>3, <2>1, <1>a DEF WorkerNext, WorkerStep, AcquireWorker, MegaDecrypted, MegaFailed,
         ArchiveSkipped, ArchiveDecrypted, ArchiveFailed, WorkerMarkCompleted, WorkerMarkFailed,
         WorkerClearPassword, WorkerStmt, UnmarkPending, ReleaseWorker, StepTo, NoGor, WorkerTypeOK
  <2> QED
    BY <2>1 DEF Working, IsPending
<1> QED
  BY <1>1, <1>2, <1>3, NobodyElse, WhoTouchesWorkers

(* The columns that matter to a row that waits.                            *)
SameRow(j) ==
    /\ jobs'[j].status = jobs[j].status /\ jobs'[j].attempts = jobs[j].attempts
    /\ jobs'[j].deletedAt = jobs[j].deletedAt
    /\ jobs'[j].kind = jobs[j].kind /\ jobs'[j].filename = jobs[j].filename

(* Only the runner and its own goroutine change the row of a job.          *)
LEMMA OthersLeave ==
    ASSUME Inv, TrackInv, LifeInv, Unattended, QuietInv, [Next]_vars, ~ RunnerStep, NEW j \in JobId,
           Exists(jobs[j]), ~ Working(j), jobs[j].status # "completed"
    PROVE  SameRow(j)
<1>a. StoreTypeOK /\ jobs[j] \in Row /\ \A w \in Workers : gor[w].task.id \in JobId
  BY LifeTypes
<1>1. ASSUME NEW w \in Workers, WorkerNext(w) PROVE jobs'[j] = jobs[j]
  <2>1. \/ jobs' = jobs
        \/ IsPending(w) /\ \E row : Update(gor[w].task.id, row)
    BY <1>1 DEF WorkerNext, WorkerStep, AcquireWorker, MegaDecrypted, MegaFailed,
         ArchiveSkipped, ArchiveDecrypted, ArchiveFailed, WorkerMarkCompleted, WorkerMarkFailed,
         WorkerClearPassword, WorkerStmt, UnmarkPending, ReleaseWorker, storeVars, IsPending
  <2>2. IsPending(w) => gor[w].task.id # j
    BY DEF Working
  <2> QED
    BY <2>1, <2>2, <1>a, UpdateRow
<1>2. CASE BulkNext
  <2>1. ASSUME NEW kind \in Kinds, Create(kind) PROVE jobs'[j] = jobs[j]
    BY <2>1, <1>2, CreateMoves DEF BulkNext, Born
  <2>2. Clear => jobs'[j] = jobs[j]
    BY DEF Clear, ClearCompleted
  <2> QED
    BY <1>2, <2>1, <2>2 DEF BulkNext, BulkStep, Purge, Unattended, SameRow
<1>3. ASSUME NEW k \in JobId, TimerNext(k) PROVE SameRow(j)
  BY <1>3, <1>a DEF TimerNext, RetryTimer, StoreTypeOK, Row, SameRow
<1>4. CASE (\E g \in Gids : EngineNext(g)) \/ UNCHANGED vars
  BY <1>4 DEF EngineNext, vars, storeVars, SameRow
<1> QED
  BY <1>1, <1>2, <1>3, <1>4, NobodyElse DEF Next, RunnerNext, SameRow

(* A job on its way to a download has no goroutine.                        *)
LEMMA PreparingIsFree ==
    ASSUME LifeInv, HiddenInv, NEW j \in JobId, jobs[j].status \in PreStatus
    PROVE  ~ Past(j) /\ ~ AtWork(j) /\ ~ Working(j)
<1>1. ~ Past(j)
  BY DEF LifeInv, LifeOf, HiddenInv, Preparing
<1> QED
  BY <1>1 DEF Past, AtWork, Working, IsPending

LEMMA WaitStep ==
    ASSUME Inv, TrackInv, LifeInv, HiddenInv, Unattended, QuietInv, WaitInv, [Next]_vars
    PROVE  WaitInv'
<1> SUFFICES ASSUME pc' = "mark", work'.wait
             PROVE  MultipartSiblingPending(cur, work.entry)'
  BY DEF WaitInv
<1>1. CASE RunnerStep
  <2>1. ~ RunnerMarkDecrypting
    BY DEF RunnerMarkDecrypting, Done, Goto, Loop
  <2>2. ASSUME NEW id, NEW r, NEW path, NEW entry, work' = BuildDecryptTask(id, r, path, entry), cur' = id
        PROVE  MultipartSiblingPending(cur', work'.entry)
    BY <2>2 DEF BuildDecryptTask
  <2>3. MultipartSiblingPending(cur', work'.entry) /\ jobs' = jobs
    <3>1. CASE ApplyComplete
      <4>1. jobs' = jobs /\ cur' = cur /\ \E entry : work' = BuildDecryptTask(cur, snap[cur], TRUE, entry)
        BY <3>1 DEF ApplyComplete, Goto, ReadOnly, storeVars
      <4> QED
        BY <4>1, <2>2
    <3>2. ASSUME NEW id \in JobId, Dispatch(id)
          PROVE  MultipartSiblingPending(cur', work'.entry) /\ jobs' = jobs
      <4>1. jobs' = jobs /\ cur' = id /\ \E entry : work' = DispatchTask(id, entry)
        BY <3>2 DEF Dispatch, DispatchSkip, DispatchNothingToDo, DispatchNoPath, DispatchWait,
             DispatchTaskReady, Dispatching, Select, Done, ReadOnly, storeVars
      <4> QED
        BY <4>1, <2>2 DEF DispatchTask
    <3> QED
      BY <1>1, <2>1, <3>1, <3>2, WorkEntered
  <2> QED
    BY <2>3 DEF MultipartSiblingPending, Listed
<1>2. CASE ~ RunnerStep
  <2>1. UNCHANGED <<pc, cur, work>>
    BY <1>2, NobodyElse, RunnerAlone DEF localVars
  <2>2. PICK j \in JobId \ {cur} :
          /\ Listed(j) /\ SameSet(work.entry, jobs[j].kind.file) /\ PathKnown(jobs[j])
          /\ jobs[j].status \in {"queued", "resolving", "downloading"}
    BY <2>1 DEF WaitInv, MultipartSiblingPending, QuietInv
  <2>3. ~ Working(j) /\ Exists(jobs[j])
    BY <2>2, PreparingIsFree DEF PreStatus, Listed
  <2>4. SameRow(j)
    BY <2>2, <2>3, <1>2, OthersLeave
  <2> QED
    BY <2>1, <2>2, <2>4 DEF MultipartSiblingPending, Listed, PathKnown, SameRow, Exists
<1> QED
  BY <1>1, <1>2

LEMMA NameStep ==
    ASSUME Inv, TrackInv, LifeInv, KindsInv, NameInv, "purge" \notin Ops, [Next]_vars
    PROVE  NameInv'
<1> SUFFICES ASSUME NEW j \in JobId, Downloaded(j)', PathKnown(jobs'[j]) PROVE PathKnown(snap'[j])
  BY DEF NameInv
<1>a. StepMoves(j) /\ ListInv /\ (Exists(snap[j]) => Exists(jobs[j]))
  BY EveryStepMoves, TrackTypes DEF LifeInv, LifeOf, Known
<1>1. Exists(snap'[j]) /\ ~ Born(j)
  BY DEF Downloaded, Exists, Born, Known
<1>2. CASE snap'[j] = snap[j]
  <2>1. Downloaded(j) /\ j \in Held
    BY <1>1, <1>2 DEF Downloaded, Held
  <2>2. pc # "resolve"
    BY <2>1, <1>a DEF ListInv, Downloaded
  <2>3. PathKnown(jobs[j])
    BY <2>2, <1>a, <1>1 DEF StepMoves, RowMoves, PathKnown
  <2> QED
    BY <2>1, <2>3, <1>2 DEF NameInv
<1>3. CASE snap'[j] = jobs[j] /\ jobs'[j] = jobs[j]
  BY <1>3
<1> QED
  BY <1>1, <1>2, <1>3, <1>a DEF StepMoves, RunnerMoves, Downloaded

(* A goroutine that is to open the archive does.                           *)
LEMMA OpeningStep ==
    ASSUME Inv, TrackInv, LifeInv, HandledInv, WholeSets, Unattended, QuietInv, UniqueFiles,
           [Next]_vars, NEW n \in Sets, Complete(n), NEW j \in JobId, Member(j, n), Opening(j)
    PROVE  n \in opened' \/ Opening(j)'
<1>a. WorkerTypeOK /\ jobs[j] \in Row
  BY TrackTypes
<1>1. PICK w \in Workers : OpensWith(w, j)
  BY DEF Opening
<1>2. CASE gor'[w] = gor[w]
  BY <1>1, <1>2 DEF Opening, OpensWith
<1>3. CASE RunnerSchedule
  <2>1. gor'[w] = gor[w]
    BY <1>1, <1>3, <1>a DEF RunnerSchedule, ScheduleDecrypt, NewGoroutine, workerVars, WorkerTypeOK, OpensWith
  <2> QED
    BY <2>1, <1>2
<1>4. ASSUME NEW v \in Workers, WorkerNext(v) PROVE n \in opened' \/ Opening(j)'
  <2>1. CASE v # w
    <3>1. gor'[w] = gor[w]
      BY <1>4, <2>1, <1>a DEF WorkerNext, WorkerStep, AcquireWorker, MegaDecrypted, MegaFailed,
         ArchiveSkipped, ArchiveDecrypted, ArchiveFailed, WorkerMarkCompleted, WorkerMarkFailed,
         WorkerClearPassword, WorkerStmt, UnmarkPending, ReleaseWorker, StepTo, WorkerTypeOK
    <3> QED
      BY <3>1, <1>2
  <2>2. CASE v = w
    <3>1. jobs[j].kind \in Kinds /\ jobs[j].kind.file \in Volumes(n)
      BY <1>a, RowKind DEF Member
    <3>2. MultipartArchiveFirstVolume(jobs[j].kind.file) = n /\ jobs[j].kind.site # "mega"
      BY <3>1, SetFacts
    <3>3. Handled(jobs[j].kind, gor[w].task.todo, gor[w].task.entry)
      BY <1>1 DEF HandledInv, OpensWith
    <3>4. "mega" \notin gor[w].task.todo /\ ResolveArchiveEntryPath(gor[w].task.entry) = {n}
      BY <3>2, <3>3, CompleteFacts DEF Handled
    <3>5. IsArchiveFile(n)
      BY DEF Sets
    <3>6. CASE AcquireWorker(w)
      <4>1. gor' = [gor EXCEPT ![w].pc = "archive"]
        BY <3>4, <3>6, <1>1 DEF AcquireWorker, StepTo, AfterMega, OpensWith
      <4>2. gor'[w].pc = "archive" /\ gor'[w].task = gor[w].task
        BY <4>1, <1>a DEF WorkerTypeOK
      <4> QED
        BY <4>2, <1>1 DEF Opening, OpensWith
    <3>7. CASE ArchiveSkipped(w)
      BY <3>4, <3>5, <3>7 DEF ArchiveSkipped
    <3>8. CASE ArchiveDecrypted(w) \/ ArchiveFailed(w)
      BY <3>4, <3>8 DEF ArchiveDecrypted, ArchiveFailed
    <3> QED
      BY <2>2, <1>4, <1>1, <3>6, <3>7, <3>8 DEF OpensWith, WorkerNext, WorkerStep, MegaDecrypted, MegaFailed,
         WorkerMarkCompleted, WorkerMarkFailed, WorkerClearPassword, WorkerStmt, UnmarkPending,
         ReleaseWorker
  <2> QED
    BY <2>1, <2>2
<1> QED
  BY <1>2, <1>3, <1>4, NobodyElse, WhoTouchesWorkers DEF workerVars

(* A row keeps waiting if it keeps what matters, or is on its way again.   *)
LEMMA WaitsKept ==
    ASSUME NEW j \in JobId, Waits(j), ~ Deciding(j)', ~ Working(j)',
           SameRow(j) \/ jobs'[j].status \in {"queued", "resolving", "downloading"}
    PROVE  Waits(j)'
BY DEF Waits, SameRow, PathKnown

(* What the runner writes about another job, or with which it sends the    *)
(* job on its way, leaves it waiting.                                      *)
LEMMA WriteWaits ==
    ASSUME Inv, Unattended, QuietInv, [Next]_vars, ~ RunnerSchedule, NEW id \in JobId, NEW row,
           Update(id, row), NEW j \in JobId, Waits(j), ~ Deciding(j)',
           j # id \/ row.status \in {"queued", "resolving", "downloading"}
    PROVE  Waits(j)'
<1>1. StoreTypeOK
  BY TrackTypes
<1>2. SameRow(j) \/ jobs'[j].status \in {"queued", "resolving", "downloading"}
  BY <1>1, UpdateRow DEF SameRow
<1>3. ~ Working(j)'
  BY NotWorkingKept DEF Waits
<1> QED
  BY <1>2, <1>3, WaitsKept

(* With all volumes in place the archive step is never left out.           *)
LEMMA TodoArchive ==
    ASSUME QuietInv, NEW r \in Row, NEW n \in Sets
    PROVE  "archive" \in Todo(r, TRUE, n)
BY DEF Todo, ShouldDecryptArchive, QuietInv, Sets

(* updateActive takes up a job of the set for its archive.                 *)
LEMMA ApplyWaits ==
    ASSUME Inv, LifeInv, KindsInv, WholeSets, Unattended, QuietInv, UniqueFiles,
           Next, NEW n \in Sets, Complete(n), NEW j \in JobId, Member(j, n), HasFile(j), Waits(j),
           ApplyComplete
    PROVE  Waits(j)' \/ Dispatched(j)'
<1>a. /\ StoreTypeOK /\ cur \in JobId /\ jobs[j] \in Row /\ snap[j] \in Row /\ pc = "apply"
      /\ cur \in Held
  BY LifeTypes DEF ApplyComplete, ListInv
<1>b. ~ RunnerSchedule
  BY <1>a DEF RunnerSchedule
<1>c. ~ Working(j)'
  BY <1>b, NotWorkingKept DEF Waits
<1>1. CASE j # cur
  <2>1. cur' = cur /\ (jobs' = jobs \/ \E row : Update(cur, row))
    BY DEF ApplyComplete, Goto, ReadOnly, Write, storeVars
  <2>2. ~ Deciding(j)'
    BY <1>1, <2>1 DEF Deciding
  <2>3. CASE jobs' = jobs
    BY <2>2, <2>3, <1>c, WaitsKept DEF SameRow
  <2>4. ASSUME NEW row, Update(cur, row) PROVE Waits(j)'
    BY <2>2, <2>4, <1>1, <1>a, <1>b, WriteWaits
  <2> QED
    BY <2>1, <2>3, <2>4
<1>2. CASE j = cur
  <2>1. snap[j].kind = jobs[j].kind /\ jobs[j].kind \in Kinds
    BY <1>2, <1>a, RowKind DEF Held, KindsInv
  <2>2. MultipartArchiveFirstVolume(snap[j].kind.file) = n
    BY <2>1, SetFacts DEF Member
  <2>3. ResolveArchiveEntryPath(snap[j].kind.file) = {n}
    BY <2>2, CompleteFacts
  <2>4. "archive" \in Todo(snap[j], TRUE, n)
    BY <1>a, TodoArchive
  <2>5. /\ work' = BuildDecryptTask(cur, snap[cur], TRUE, n) /\ pc' = "mark"
        /\ cur' = cur /\ jobs' = jobs
    BY <2>3, <2>4, <1>2 DEF ApplyComplete, ReadOnly, storeVars
  <2>6. "archive" \in work'.todo
    BY <2>4, <2>5, <1>2 DEF BuildDecryptTask
  <2>7. ~ Settled(jobs[j])
    BY <1>2, <1>a DEF Waits, Settled
  <2> QED
    BY <2>5, <2>6, <2>7, <1>2, <1>c DEF Dispatched
<1> QED
  BY <1>1, <1>2

(* So does dispatchCompletedDecrypt, unless it leaves the job waiting.     *)
LEMMA DispatchWaits ==
    ASSUME Inv, LifeInv, HiddenInv, KindsInv, NameInv, WholeSets, Unattended, QuietInv, UniqueFiles,
           Next, NEW n \in Sets, Complete(n), NEW j \in JobId, Member(j, n), Waits(j),
           NEW id \in JobId, Dispatch(id)
    PROVE  Waits(j)' \/ Dispatched(j)'
<1>a. /\ StoreTypeOK /\ jobs[j] \in Row /\ snap[j] \in Row /\ ListInv
      /\ pc = "dispatch" /\ jobs' = jobs /\ id \in Held
  <2>1. StoreTypeOK /\ jobs[j] \in Row /\ snap[j] \in Row /\ ListInv
    BY LifeTypes
  <2> QED
    BY <2>1 DEF Dispatch, DispatchSkip, DispatchNothingToDo, DispatchNoPath, DispatchWait,
         DispatchTaskReady, Dispatching, ReadOnly, storeVars
<1>b. ~ RunnerSchedule
  BY <1>a DEF RunnerSchedule
<1>c. ~ Working(j)'
  BY <1>b, NotWorkingKept DEF Waits
<1>d. ASSUME ~ Deciding(j)' PROVE Waits(j)'
  BY <1>a, <1>c, <1>d, WaitsKept DEF SameRow
<1>1. CASE j # id
  <2>1. cur' = id \/ pc' = "dispatch"
    BY DEF Dispatch, DispatchSkip, DispatchNothingToDo, DispatchNoPath, DispatchWait,
         DispatchTaskReady, Select, Done
  <2> QED
    BY <1>1, <1>d, <2>1 DEF Deciding
<1>2. CASE j = id
  <2>1. Downloaded(j) /\ snap[j].kind = jobs[j].kind /\ jobs[j].kind \in Kinds
    BY <1>2, <1>a, RowKind DEF Held, KindsInv, ListInv
  <2>2. jobs[j].status = "decrypting" /\ PathKnown(jobs[j])
    BY <2>1, PreparingIsFree DEF Waits, PreStatus, Past
  <2>3. PathKnown(snap[j])
    BY <2>1, <2>2 DEF NameInv
  <2>4. MultipartArchiveFirstVolume(snap[j].kind.file) = n
    BY <2>1, SetFacts DEF Member
  <2>5. ResolveArchiveEntryPath(snap[j].kind.file) = {n}
    BY <2>4, CompleteFacts
  <2>6. "archive" \in Todo(snap[j], TRUE, n)
    BY <1>a, TodoArchive
  <2>7. PathKnown(snap[j]) = TRUE
    BY <2>3 DEF PathKnown
  <2>8. "archive" \in DispatchTask(j, n).todo
    BY <2>6, <2>7 DEF DispatchTask, BuildDecryptTask
  <2>9. DispatchWait(id, n) \/ DispatchTaskReady(id, n)
    BY <1>2, <2>3, <2>5, <2>8 DEF Dispatch, DispatchSkip, DispatchNothingToDo, DispatchNoPath
  <2>10. CASE DispatchWait(id, n)
    BY <2>10, <1>d DEF DispatchWait, Done, Deciding
  <2>11. CASE DispatchTaskReady(id, n)
    <3>1. cur' = j /\ pc' \in {"mark", "schedule"} /\ work' = DispatchTask(j, n)
      BY <1>2, <2>11 DEF DispatchTaskReady, Select
    <3>2. ~ Settled(jobs[j])
      BY <2>2 DEF Settled
    <3> QED
      BY <3>1, <3>2, <2>8, <1>a, <1>c DEF Dispatched
  <2> QED
    BY <2>9, <2>10, <2>11
<1> QED
  BY <1>1, <1>2

(* A step of the runner, for a job that waits.                             *)
LEMMA RunnerWaits ==
    ASSUME Inv, LifeInv, HiddenInv, KindsInv, OnceInv, NameInv, WholeSets, Unattended, QuietInv,
           UniqueFiles, Next, RunnerStep, NEW n \in Sets, Complete(n), NEW j \in JobId, Member(j, n),
           Waits(j)
    PROVE  Waits(j)' \/ Dispatched(j)'
<1>a. /\ StoreTypeOK /\ cur \in JobId /\ \A i \in JobId : jobs[i] \in Row
  BY LifeTypes
<1>b. HasFile(j)
  BY CompleteFacts
<1>c. Loop \in {"poll", "dispatch"}
  BY DEF Loop
<1>1. CASE \/ \E id \in JobId : TellStatus(id)
           \/ ListActive \/ ListPending \/ ListRetryable \/ CountDownloading
           \/ NothingQueued \/ ClaimConflict \/ CheckDeleted \/ PrepareOutputForStart
           \/ RemoveControlFile \/ RemoveControlFileFailed \/ Started \/ StartFailed \/ StartLost
  <2>1. jobs' = jobs /\ pc' \notin {"mark", "schedule", "complete", "fail", "clear"} /\ pc # "schedule"
    BY <1>1 DEF TellStatus, ListActive, ListPending, ListRetryable, CountDownloading, NothingQueued,
         ClaimConflict, CheckDeleted, PrepareOutputForStart, RemoveControlFile,
         RemoveControlFileFailed, Started, StartFailed, StartLost, Load, Goto, Done, ReadOnly,
         storeVars
  <2>2. ~ Working(j)' /\ ~ Deciding(j)'
    BY <2>1, NotWorkingKept DEF Waits, RunnerSchedule, Deciding
  <2> QED
    BY <2>1, <2>2, WaitsKept DEF SameRow
<1>2. ASSUME NEW id \in JobId, AutoRequeue(id) \/ ClaimNextQueued(id) PROVE Waits(j)'
  <2>1. PICK row \in {Requeue(jobs[id]), Resolving(jobs[id])} : Update(id, row)
    BY <1>2 DEF AutoRequeue, ClaimNextQueued, Write
  <2>2. row.status \in {"queued", "resolving"}
    BY <1>a, StmtGid
  <2>3. pc' \in {"requeue", "check"} /\ pc # "schedule"
    BY <1>2 DEF AutoRequeue, ClaimNextQueued, Done
  <2> QED
    BY <2>1, <2>2, <2>3, WriteWaits DEF Deciding, RunnerSchedule
<1>3. CASE ApplyProgress \/ RunnerMarkDownloading
  <2>1. PICK row : /\ row = UpdateProgress(jobs[cur], "downloading") \/ row = MarkDownloading(jobs[cur], hand)
                   /\ Update(cur, row)
    BY <1>3 DEF ApplyProgress, RunnerMarkDownloading, Write
  <2>2. row.status = "downloading"
    BY <2>1, <1>a, StmtGid, StmtStatus
  <2>3. pc' \in {"poll", "requeue"} /\ pc # "schedule"
    BY <1>3 DEF ApplyProgress, RunnerMarkDownloading, Done
  <2> QED
    BY <2>1, <2>2, <2>3, <1>a, WriteWaits DEF Deciding, RunnerSchedule
<1>4. CASE ApplyFailed \/ ResolveFailed \/ RunnerMarkFailed \/ Resolved
  <2>1. \E row : Update(cur, row)
    BY <1>4 DEF ApplyFailed, ResolveFailed, RunnerMarkFailed, Resolved, Write
  <2>2. pc' \notin {"mark", "schedule", "complete", "fail", "clear"} /\ pc # "schedule"
    BY <1>4 DEF ApplyFailed, ResolveFailed, RunnerMarkFailed, Resolved, Done, Goto
  <2>3. ~ HasFile(cur)
    <3>1. CASE ApplyFailed
      BY <3>1, <1>a, OnceFacts DEF ApplyFailed, Refused, Recording
    <3>2. CASE ~ ApplyFailed
      BY <3>2, <1>4, ClaimedHasNoFile DEF ResolveFailed, RunnerMarkFailed, Resolved
    <3> QED
      BY <3>1, <3>2
  <2>4. j # cur
    BY <2>3, <1>b
  <2> QED
    BY <2>1, <2>2, <2>4, <1>a, WriteWaits DEF Deciding, RunnerSchedule
<1>5. CASE \/ RunnerMarkDecrypting \/ RunnerMarkCompleted \/ RunnerMarkPostprocessFailed
           \/ RunnerClearPassword
  <2>1. pc \in {"mark", "complete", "fail", "clear"} /\ \E row : Update(cur, row)
    BY <1>5 DEF RunnerMarkDecrypting, RunnerMarkCompleted, RunnerMarkPostprocessFailed,
         RunnerClearPassword, Write
  <2>2. j # cur
    BY <2>1 DEF Waits, Deciding
  <2>3. cur' = cur \/ pc' \in {"poll", "dispatch"}
    BY <1>5, <1>c DEF RunnerMarkDecrypting, RunnerMarkCompleted, RunnerMarkPostprocessFailed,
         RunnerClearPassword, Done, Goto
  <2> QED
    BY <2>1, <2>2, <2>3, <1>a, WriteWaits DEF Deciding, RunnerSchedule
<1>6. CASE RunnerSchedule
  <2>1. j # cur /\ jobs' = jobs /\ pc' \in {"poll", "dispatch"}
    BY <1>6, <1>c DEF RunnerSchedule, Done, Waits, Deciding, storeVars
  <2>2. ~ Working(j)' /\ ~ Deciding(j)'
    BY <2>1, NotWorkingKept DEF Waits, Deciding
  <2> QED
    BY <2>1, <2>2, WaitsKept DEF SameRow
<1>7. CASE ApplyComplete
  BY <1>7, <1>b, ApplyWaits
<1>8. ASSUME NEW id \in JobId, Dispatch(id) PROVE Waits(j)' \/ Dispatched(j)'
  BY <1>8, DispatchWaits
<1> QED
  BY <1>1, <1>2, <1>3, <1>4, <1>5, <1>6, <1>7, <1>8 DEF RunnerStep, RunnerJobStep

(* And for one that it is about to schedule.  If the archive is put off    *)
(* and the row does not know the path, the sibling takes it over.          *)
LEMMA RunnerDispatched ==
    ASSUME Inv, LifeInv, HiddenInv, KindsInv, OnceInv, HandledInv, WaitInv, BackInv, WholeSets,
           Unattended, QuietInv, UniqueFiles, Next, RunnerStep, NEW n \in Sets, Complete(n),
           NEW j \in JobId, Member(j, n), Dispatched(j)
    PROVE  \E i \in JobId : Member(i, n) /\ Owing(i)'
<1>a. /\ StoreTypeOK /\ WorkerTypeOK /\ jobs[j] \in Row /\ cur = j /\ pc \in {"mark", "schedule"}
      /\ j \in Held
  BY LifeTypes, TrackTypes DEF Dispatched, ListInv
<1>b. Loop \in {"poll", "dispatch"}
  BY DEF Loop
<1>1. CASE pc = "mark"
  <2>1. RunnerMarkDecrypting
    BY <1>1 DEF RunnerStep, RunnerJobStep, TellStatus, Dispatch, DispatchSkip,
         DispatchNothingToDo, DispatchNoPath, DispatchWait, DispatchTaskReady, Dispatching,
         AutoRequeue, ClaimNextQueued, ListActive, ApplyFailed, ApplyProgress, ApplyComplete,
         ListPending, RunnerSchedule, RunnerMarkCompleted,
         RunnerMarkPostprocessFailed, RunnerClearPassword, ListRetryable, CountDownloading,
         NothingQueued, ClaimConflict, CheckDeleted, Resolved, ResolveFailed,
         PrepareOutputForStart, RemoveControlFile, RemoveControlFileFailed, Started, StartFailed,
         StartLost, RunnerMarkFailed, RunnerMarkDownloading
  <2>2. Update(j, MarkDecrypting(jobs[j]))
    BY <2>1, <1>a DEF RunnerMarkDecrypting, Write
  <2>3. jobs'[j] = MarkDecrypting(jobs[j]) /\ \A i \in JobId \ {j} : jobs'[i] = jobs[i]
    BY <2>2, <1>a DEF Update, StoreTypeOK, Member
  <2>4. /\ jobs'[j].status = "decrypting" /\ jobs'[j].kind = jobs[j].kind
        /\ jobs'[j].filename = jobs[j].filename
    BY <2>3, <1>a DEF MarkDecrypting, Row
  <2>5. ASSUME NEW i \in JobId, ~ Working(i) PROVE ~ Working(i)'
    BY <2>5, <1>1, NotWorkingKept DEF RunnerSchedule
  <2>6. CASE ~ work.wait
    <3>1. pc' = "schedule" /\ cur' = cur /\ work' = work
      BY <2>1, <2>6 DEF RunnerMarkDecrypting, Goto
    <3>2. ~ Settled(jobs'[j])
      BY <2>4 DEF Settled
    <3>3. Dispatched(j)'
      BY <3>1, <3>2, <2>5 DEF Dispatched
    <3> QED
      BY <3>3 DEF Owing
  <2>7. CASE work.wait
    <3>1. pc' \in {"poll", "dispatch"}
      BY <2>1, <2>7, <1>b DEF RunnerMarkDecrypting, Done
    <3>2. \A i \in JobId : ~ Deciding(i)'
      BY <3>1 DEF Deciding
    <3>3. CASE PathKnown(jobs[j])
      <4>1. PathKnown(jobs'[j])
        BY <3>3, <2>4 DEF PathKnown
      <4>2. Waits(j)'
        BY <4>1, <3>2, <2>4, <2>5 DEF Waits, Dispatched
      <4> QED
        BY <4>2 DEF Owing
    <3>4. CASE ~ PathKnown(jobs[j])
      <4>1. PICK i \in JobId \ {j} :
              /\ Listed(i) /\ SameSet(work.entry, jobs[i].kind.file)
              /\ jobs[i].status \in {"queued", "resolving", "downloading"}
        BY <2>7, <1>1, <1>a DEF WaitInv, MultipartSiblingPending, QuietInv
      <4>2. jobs[i].kind \in Kinds /\ jobs[i].kind.file \in Name /\ jobs[j].kind \in Kinds
        BY <1>a, RowKind, LifeTypes
      <4>3. MultipartArchiveFirstVolume(work.entry) = n
        <5>1. snap[j].kind = jobs[j].kind
          BY <1>a DEF KindsInv, Held
        <5>2. MultipartArchiveFirstVolume(jobs[j].kind.file) = n
          BY <4>2, SetFacts DEF Member
        <5> QED
          BY <5>1, <5>2, <1>a DEF HandledInv, Handled
      <4>4. SameSet(n, jobs[i].kind.file)
        <5>1. work.entry \in Name
          BY LifeTypes DEF RunnerTypeOK, Work
        <5>2. work.entry = n \/ SameSet(work.entry, n)
          BY <5>1, <4>3, FirstVolume
        <5> QED
          BY <5>2, <4>1 DEF SameSet
      <4>5. Member(i, n)
        BY <4>1, <4>2, <4>4, SetFacts DEF Member, Listed
      <4>6. ~ Working(i)
        BY <4>1, PreparingIsFree DEF PreStatus
      <4>7. Waits(i)'
        BY <4>1, <4>6, <2>3, <2>5, <3>2 DEF Waits
      <4> QED
        BY <4>5, <4>7 DEF Owing
    <3> QED
      BY <3>3, <3>4
  <2> QED
    BY <2>6, <2>7
<1>2. CASE pc = "schedule"
  <2>1. RunnerSchedule
    BY <1>2 DEF RunnerStep, RunnerJobStep, TellStatus, Dispatch, DispatchSkip,
         DispatchNothingToDo, DispatchNoPath, DispatchWait, DispatchTaskReady, Dispatching,
         AutoRequeue, ClaimNextQueued, ListActive, ApplyFailed, ApplyProgress, ApplyComplete,
         ListPending, RunnerMarkDecrypting, RunnerMarkCompleted,
         RunnerMarkPostprocessFailed, RunnerClearPassword, ListRetryable, CountDownloading,
         NothingQueued, ClaimConflict, CheckDeleted, Resolved, ResolveFailed,
         PrepareOutputForStart, RemoveControlFile, RemoveControlFileFailed, Started, StartFailed,
         StartLost, RunnerMarkFailed, RunnerMarkDownloading
  <2>2. j \notin pending
    BY DEF BackInv, Dispatched
  <2>3. PICK w \in Workers : gor' = [gor EXCEPT ![w] =
              [pc |-> "waiting", task |-> [id |-> j, todo |-> work.todo, entry |-> work.entry]]]
    BY <2>1, <2>2, <1>a DEF RunnerSchedule, ScheduleDecrypt
  <2>4. gor'[w].pc = "waiting" /\ gor'[w].task.id = j /\ gor'[w].task.todo = work.todo
    BY <2>3, <1>a DEF WorkerTypeOK
  <2>5. Opening(j)'
    BY <2>4 DEF Opening, OpensWith, Dispatched
  <2> QED
    BY <2>5 DEF Owing
<1> QED
  BY <1>1, <1>2, <1>a

(* Somebody of a complete set owes its opening until it is opened.         *)
LEMMA OwedStep ==
    ASSUME Inv, TrackInv, LifeInv, HiddenInv, KindsInv, OnceInv, HandledInv, WaitInv, NameInv, BackInv,
           WholeSets, Unattended, QuietInv, UniqueFiles, [Next]_vars, NEW n \in Sets, Complete(n),
           NEW j \in JobId, Member(j, n), Owing(j)
    PROVE  n \in opened' \/ \E i \in JobId : Member(i, n) /\ Owing(i)'
<1>1. CASE Opening(j)
  BY <1>1, OpeningStep DEF Owing
<1>2. CASE RunnerStep /\ Next /\ ~ Opening(j)
  <2>1. CASE Waits(j)
    BY <1>2, <2>1, RunnerWaits DEF Owing
  <2>2. CASE Dispatched(j)
    BY <1>2, <2>2, RunnerDispatched
  <2> QED
    BY <1>2, <2>1, <2>2 DEF Owing
<1>3. CASE ~ RunnerStep /\ ~ Opening(j)
  <2>1. Exists(jobs[j]) /\ ~ Working(j) /\ jobs[j].status # "completed"
    BY <1>3 DEF Owing, Waits, Dispatched, Member, Settled
  <2>2. SameRow(j)
    BY <2>1, <1>3, OthersLeave
  <2>3. UNCHANGED <<pc, cur, work>>
    BY <1>3, NobodyElse, RunnerAlone DEF localVars
  <2>4. ~ RunnerSchedule
    BY <1>3 DEF RunnerStep
  <2>5. ~ Working(j)'
    BY <2>1, <2>4, NotWorkingKept
  <2>6. Waits(j) => Waits(j)'
    BY <2>2, <2>3, <2>5, WaitsKept DEF Waits, Deciding
  <2>7. Dispatched(j) => Dispatched(j)'
    BY <2>2, <2>3, <2>5 DEF Dispatched, SameRow, Settled
  <2> QED
    BY <1>3, <2>6, <2>7 DEF Owing
<1>4. CASE UNCHANGED vars
  <2>1. Owing(j)'
    BY <1>4 DEF Owing, Waits, Dispatched, Opening, OpensWith, Deciding, Working, IsPending, vars, workerVars,
         localVars, storeVars
  <2> QED
    BY <2>1
<1> QED
  BY <1>1, <1>2, <1>3, <1>4

(* A plain file that was not there before is that of a download.           *)
LEMMA PlainArrives ==
    ASSUME Inv, TrackInv, LifeInv, CipherInv, Unattended, QuietInv, [Next]_vars, NEW j \in JobId,
           files[j] # "plain", files'[j] = "plain", Exists(jobs'[j]), jobs'[j].kind.site # "mega"
    PROVE  ~ HasFile(j) /\ \E g \in Gids : EngineNext(g) /\ tasks[g] = "active" /\ owner[g].job = j
<1>a. EngineTypeOK /\ "purge" \notin Ops
  BY TrackTypes DEF Unattended
<1>1. files[j] # "cipher"
  BY <1>a, KindStays DEF CipherInv, HasFile
<1>2. ~ HasFile(j)
  BY <1>1, <1>a DEF HasFile, EngineTypeOK
<1>3. ASSUME NEW w \in Workers, WorkerNext(w) PROVE FALSE
  <2>1. \/ files' = files
        \/ /\ files[gor[w].task.id] = "cipher"
           /\ files' = [files EXCEPT ![gor[w].task.id] = "plain"]
    BY <1>3 DEF WorkerNext, WorkerStep, AcquireWorker, MegaDecrypted, MegaFailed,
         ArchiveSkipped, ArchiveDecrypted, ArchiveFailed, WorkerMarkCompleted, WorkerMarkFailed,
         WorkerClearPassword, WorkerStmt, UnmarkPending, ReleaseWorker, engineVars
  <2> QED
    BY <2>1, <1>1, <1>a DEF EngineTypeOK
<1>4. CASE BulkNext
  BY <1>4, <1>a DEF BulkNext, BulkStep, Create, Clear, Purge, engineVars, EngineTypeOK
<1>5. CASE RunnerStep
  <2>1. Started \/ StartLost \/ UNCHANGED files
    BY <1>5 DEF RunnerStep, RunnerJobStep, TellStatus, Dispatch, AutoRequeue, ClaimNextQueued,
         ListActive, ApplyFailed, ApplyProgress, ApplyComplete, ListPending, RunnerMarkDecrypting,
         RunnerSchedule, RunnerMarkCompleted, RunnerMarkPostprocessFailed, RunnerClearPassword,
         ListRetryable, CountDownloading, NothingQueued, ClaimConflict, CheckDeleted, Resolved,
         ResolveFailed, PrepareOutputForStart, RemoveControlFile, RemoveControlFileFailed,
         StartFailed, RunnerMarkFailed, RunnerMarkDownloading, DispatchSkip, DispatchNothingToDo,
         DispatchNoPath, DispatchWait, DispatchTaskReady, Dispatching, Load, Write, ReadOnly, engineVars
  <2> QED
    BY <2>1 DEF Started, StartLost, AddURI
<1>6. CASE (\E k \in JobId : TimerNext(k)) \/ UNCHANGED vars
  BY <1>6 DEF TimerNext, vars, engineVars
<1>7. ASSUME NEW g \in Gids, EngineNext(g) PROVE tasks[g] = "active" /\ owner[g].job = j
  BY <1>7 DEF EngineNext, Finish, Fail
<1> QED
  BY <1>2, <1>3, <1>4, <1>5, <1>6, <1>7, NobodyElse DEF Next, RunnerNext

(* A job whose download runs waits for it.                                 *)
LEMMA RunningWaits ==
    ASSUME Inv, TrackInv, LifeInv, FileInv, KindsInv, HiddenInv, OnceInv, QuietInv,
           NEW g \in Gids, tasks[g] = "active", NEW j \in JobId, owner[g].job = j, ~ HasFile(j)
    PROVE  Waits(j) /\ Exists(jobs[j])
<1>a. jobs[j] \in Row /\ Exists(jobs[j]) /\ j # 0 /\ g # NoGid /\ tasks[g] \in Live
  <2>1. j # 0
    BY DEF JobId
  <2> QED
    BY <2>1, LifeTypes, StoreAssumption DEF KindsInv, Live
<1>b. g \notin abandoned
  BY <1>a DEF OnceInv, NoneLost
<1>1. ~ Deciding(j) /\ ~ Working(j)
  BY FileFacts DEF Deciding, Working, IsPending, AtWork, Finishing, Ending
<1>2. jobs[j].status \notin PastStatus /\ jobs[j].status # "paused"
  BY FileFacts DEF QuietInv
<1>3. ASSUME jobs[j].gid = g
      PROVE  jobs[j].status \notin {"failed", "deleted"}
  <2>1. ~ Dead(jobs[j].gid)
    BY <1>a, <1>b, <1>3 DEF Dead
  <2> QED
    BY <2>1 DEF TrackInv, RowTracked, HiddenInv, LifeInv, LifeOf
<1>4. ASSUME hand = g
      PROVE  jobs[j].status \notin {"failed", "deleted"}
  <2>1. cur = j /\ snap[j].status = "resolving" /\ Recording(j)
    BY <1>4, <1>a, HandOwned
  <2>2. Preparing(j)
    BY <2>1, RecordingPrepares
  <2> QED
    BY <2>1, <2>2 DEF HiddenInv, LifeInv, LifeOf
<1>5. jobs[j].status \notin {"failed", "deleted"}
  BY <1>3, <1>4, <1>a, <1>b DEF TrackInv, EngineTasksTracked
<1>6. jobs[j].status \in {"queued", "resolving", "downloading"}
  BY <1>a, <1>2, <1>5 DEF Row, Status, Exists, PastStatus
<1> QED
  BY <1>1, <1>6, <1>a DEF Waits

(* Whoever completes a set owes its opening.                               *)
LEMMA NewlyOwed ==
    ASSUME Inv, TrackInv, LifeInv, FileInv, KindsInv, HiddenInv, OnceInv, CipherInv, QuietInv,
           Unattended, WholeSets, [Next]_vars, NEW n \in Sets, ~ Complete(n), Complete(n)'
    PROVE  \E j \in JobId : Member(j, n)' /\ Owing(j)'
<1>a. Inv'
  BY NextInv
<1>1. PICK v \in Volumes(n) : \A i \in JobId :
        ~ (Exists(jobs[i]) /\ jobs[i].kind.file = v /\ files[i] = "plain")
  BY DEF Complete
<1>2. PICK j \in JobId : Exists(jobs'[j]) /\ jobs'[j].kind.file = v /\ files'[j] = "plain"
  BY <1>1 DEF Complete
<1>3. jobs'[j].kind \in Kinds
  <2>1. jobs'[j] \in Row
    BY <1>a DEF Inv, TypeOK, StoreTypeOK
  <2> QED
    BY <2>1 DEF Row
<1>4. jobs'[j].kind.site # "mega"
  BY <1>1, <1>2, <1>3, SetFacts
<1>5. files[j] # "plain"
  <2>1. CASE Exists(jobs[j])
    BY <2>1, <1>1, <1>2, KindStays DEF Unattended
  <2>2. CASE ~ Exists(jobs[j])
    BY <2>2 DEF CipherInv, HasFile
  <2> QED
    BY <2>1, <2>2
<1>6. PICK g \in Gids : ~ HasFile(j) /\ EngineNext(g) /\ tasks[g] = "active" /\ owner[g].job = j
  BY <1>2, <1>4, <1>5, PlainArrives
<1>7. Waits(j)
  BY <1>6, RunningWaits
<1>8. UNCHANGED <<jobs, gor, pc, cur>>
  BY <1>6 DEF EngineNext, storeVars, workerVars, localVars
<1>9. Waits(j)'
  BY <1>7, <1>8 DEF Waits, Deciding, Working, IsPending
<1> QED
  BY <1>2, <1>9 DEF Member, Owing

LEMMA OpenedGrows ==
    ASSUME Unattended, Inv, [Next]_vars
    PROVE  opened \subseteq opened'
<1>a. ~ DaemonCrash
  BY DEF DaemonCrash, Unattended, Inv, TypeOK
<1>1. ASSUME NEW w \in Workers, WorkerNext(w) PROVE opened \subseteq opened'
  BY <1>1 DEF WorkerNext, WorkerStep, AcquireWorker, MegaDecrypted, MegaFailed,
         ArchiveSkipped, ArchiveDecrypted, ArchiveFailed, WorkerMarkCompleted, WorkerMarkFailed,
         WorkerClearPassword, WorkerStmt, UnmarkPending, ReleaseWorker
<1>2. RunnerSchedule => opened' = opened
  BY DEF RunnerSchedule, ScheduleDecrypt, workerVars
<1> QED
  BY <1>a, <1>1, <1>2, WhoTouchesWorkers DEF workerVars

LEMMA OwingStep ==
    ASSUME Inv, TrackInv, LifeInv, FileInv, KindsInv, HiddenInv, OnceInv, HandledInv, CipherInv,
           WaitInv, NameInv, BackInv, QuietInv, OwingInv, WholeSets, Unattended, UniqueFiles,
           [Next]_vars
    PROVE  OwingInv'
<1> SUFFICES ASSUME NEW n \in Sets, Complete(n)'
             PROVE  n \in opened' \/ \E j \in JobId : Member(j, n)' /\ Owing(j)'
  BY DEF OwingInv
<1>1. CASE ~ Complete(n)
  BY <1>1, NewlyOwed
<1>2. CASE n \in opened
  BY <1>2, OpenedGrows
<1>3. ASSUME Complete(n), NEW j \in JobId, Member(j, n), Owing(j)
      PROVE  n \in opened' \/ \E i \in JobId : Member(i, n)' /\ Owing(i)'
  <2>1. n \in opened' \/ \E i \in JobId : Member(i, n) /\ Owing(i)'
    BY <1>3, OwedStep
  <2>2. \A i \in JobId : Member(i, n) => Member(i, n)'
    BY KindStays DEF Member, Unattended
  <2> QED
    BY <2>1, <2>2
<1> QED
  BY <1>1, <1>2, <1>3 DEF OwingInv

LEMMA OwingInit ==
    Unattended /\ WholeSets /\ Init => WaitInv /\ NameInv /\ BackInv /\ QuietInv /\ OwingInv
<1> SUFFICES ASSUME Unattended, WholeSets, Init
             PROVE  WaitInv /\ NameInv /\ BackInv /\ QuietInv /\ OwingInv
  OBVIOUS
<1>1. /\ pc = "idle" /\ pending = {} /\ auto
      /\ \A j \in JobId : jobs[j].status = "none" /\ snap[j].status = "none"
      /\ \A c \in Clients : req[c].call = "none" /\ req[c].stmt = "none"
  BY DEF Init, StoreInit, RunnerStopped, WorkerInit, ServiceInit, NoRequest, NoRow, NewRow, Unattended
<1>2. WaitInv /\ NameInv /\ BackInv /\ QuietInv
  BY <1>1 DEF WaitInv, NameInv, Downloaded, BackInv, QuietInv
<1>3. ASSUME NEW n \in Sets PROVE ~ Complete(n)
  BY <1>1, SetFacts DEF Complete, Exists
<1> QED
  BY <1>2, <1>3 DEF OwingInv

(* Somebody who owes the opening is not at rest.                           *)
LEMMA OwingNotAtRest ==
    ASSUME PendingInv, NEW j \in JobId, Owing(j)
    PROVE  ~ AtRest(j)
<1>1. CASE Waits(j) \/ Dispatched(j)
  BY <1>1 DEF Waits, Dispatched, AtRest, Settled
<1>2. CASE Opening(j)
  BY <1>2 DEF Opening, OpensWith, PendingInv, IsPending, AtRest
<1> QED
  BY <1>1, <1>2 DEF Owing

(***************************************************************************)
(* If nobody interferes, no two jobs download to the same place and no set *)
(* lacks its first volume or comes from MEGA, then the archive tool has    *)
(* been run on the first volume of every set whose parts have all arrived  *)
(* and whose jobs are at rest, for any number of parts, jobs and workers   *)
(* (buildDecryptTask, archiveDecryptWaitMessage, resolveArchiveEntryPath): *)
(* the part that arrives last does not wait for one that is waiting for    *)
(* it, and one that is put off before its row knows the path leaves the    *)
(* archive to the sibling it was put off for.                              *)
(***************************************************************************)
THEOREM SetsOpened == Unattended /\ WholeSets => (Spec /\ []UniqueFiles => []SetOpened)
<1> SUFFICES ASSUME Unattended, WholeSets PROVE Spec /\ []UniqueFiles => []SetOpened
  OBVIOUS
<1>a. "purge" \notin Ops /\ PauseOnly /\ Undisturbed
  BY DEF Unattended, PauseOnly, Undisturbed
<1>1. Inv /\ TrackInv /\ LifeInv /\ [Next]_vars => LifeInv'
  BY <1>a, LifeStep
<1>2. Inv /\ TrackInv /\ LifeInv /\ FileInv /\ [Next]_vars => FileInv'
  BY <1>a, FileStep
<1>3. Inv /\ TrackInv /\ LifeInv /\ SpentInv /\ [Next]_vars => SpentInv'
  BY <1>a, SpentStep
<1>4. Inv /\ TrackInv /\ LifeInv /\ KindsInv /\ [Next]_vars => KindsInv'
  BY <1>a, KindsStep
<1>5. Inv /\ TrackInv /\ LifeInv /\ SpentInv /\ HiddenInv /\ [Next]_vars => HiddenInv'
  BY <1>a, HiddenStep
<1>6. Inv /\ TrackInv /\ LifeInv /\ FileInv /\ OnceInv /\ [Next]_vars => OnceInv'
  BY <1>a, OnceStep, NextInv DEF Inv
<1>7. Inv /\ TrackInv /\ LifeInv /\ KindsInv /\ HandledInv /\ [Next]_vars => HandledInv'
  BY <1>a, HandledStep
<1>8. Inv /\ TrackInv /\ LifeInv /\ KindsInv /\ CipherInv /\ [Next]_vars => CipherInv'
  BY <1>a, CipherStep
<1>9. Inv /\ TrackInv /\ LifeInv /\ QuietInv /\ [Next]_vars => QuietInv'
  BY QuietStep
<1>10. Inv /\ QuietInv /\ BackInv /\ [Next]_vars => BackInv'
  BY BackStep
<1>11. Inv /\ TrackInv /\ LifeInv /\ HiddenInv /\ QuietInv /\ WaitInv /\ [Next]_vars => WaitInv'
  BY WaitStep
<1>12. Inv /\ TrackInv /\ LifeInv /\ KindsInv /\ NameInv /\ [Next]_vars => NameInv'
  BY <1>a, NameStep
<1>13. Inv /\ TrackInv /\ LifeInv /\ FileInv /\ KindsInv /\ HiddenInv /\ OnceInv /\ HandledInv
          /\ CipherInv /\ WaitInv /\ NameInv /\ BackInv /\ QuietInv /\ OwingInv /\ UniqueFiles
          /\ [Next]_vars => OwingInv'
  BY OwingStep
<1>14. Init => PendingInv /\ WaitInv /\ NameInv /\ BackInv /\ QuietInv /\ OwingInv
  BY OwingInit DEF Init, WorkerInit, PendingInv, OneDecryptPerJob, IsPending, NoGor
<1>15. PendingInv /\ OwingInv => SetOpened
  BY OwingNotAtRest DEF OwingInv, SetOpened, Sets, Member
<1> QED
  BY <1>1, <1>2, <1>3, <1>4, <1>5, <1>6, <1>7, <1>8, <1>9, <1>10, <1>11, <1>12, <1>13, <1>14, <1>15,
     TrackInit, TrackStep, InitLife, FileInit, SpentInit, KindsInit, HiddenInit, OnceInit, HandledInit,
     CipherInit, PendingStep, Invariance, PTL DEF Spec
=============================================================================
