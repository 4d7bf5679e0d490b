--------------------------------- MODULE DLQ ---------------------------------
(***************************************************************************)
(* The daemon dlqd with its database, aria2c, its clients, its runner and  *)
(* its decrypt goroutines (cmd/dlqd/main.go wires them together), with     *)
(* crashes of the daemon and restarts of aria2c.                           *)
(***************************************************************************)
EXTENDS Runner

CONSTANTS
    AutoModes,   \* the auto_decrypt settings that occur
    MaxCrashes   \* bound on daemon crashes and aria2c restarts together

ASSUME DLQAssumption == AutoModes \in SUBSET BOOLEAN /\ AutoModes # {} /\ MaxCrashes \in Nat

VARIABLE crashes

vars == <<storeVars, engineVars, workerVars, req, localVars, auto, crashes>>

(***************************************************************************)
(* Every variable has its type; in particular no step writes a status that *)
(* is not one of store.go's.                                               *)
(***************************************************************************)
TypeOK ==
    /\ StoreTypeOK /\ EngineTypeOK /\ WorkerTypeOK /\ ServiceTypeOK /\ RunnerTypeOK
    /\ crashes \in 0 .. MaxCrashes

Init ==
    /\ StoreInit /\ EngineInit /\ WorkerInit /\ ServiceInit /\ RunnerStopped
    /\ auto \in AutoModes
    /\ crashes = 0

----------------------------------------------------------------------------

(* A client changes auto_decrypt; the runner reads it whenever it decides. *)
SetAutoDecrypt(v) ==
    /\ v # auto
    /\ auto' = v
    /\ UNCHANGED <<storeVars, engineVars, workerVars, req, localVars, crashes>>

(* dlqd dies and is started again: what it held in memory is lost and only *)
(* the database, aria2c's tasks and the files survive.                     *)
DaemonCrash ==
    /\ crashes < MaxCrashes
    /\ crashes' = crashes + 1
    /\ pc' = "idle" /\ snap' = [j \in JobId |-> NoRow]
    /\ cur' = 1 /\ reply' = "none" /\ work' = NoWork /\ hand' = NoGid
    /\ gor' = [w \in Workers |-> NoGor] /\ pending' = {} /\ tokens' = DecryptConcurrency
    /\ req' = [c \in Clients |-> NoRequest]
    /\ abandoned' = IF hand = NoGid THEN abandoned ELSE abandoned \cup {hand}
    /\ UNCHANGED <<storeVars, tasks, owner, files, opened, auto>>

EngineRestart ==
    /\ crashes < MaxCrashes
    /\ crashes' = crashes + 1
    /\ ForgetTasks
    /\ UNCHANGED <<storeVars, workerVars, req, localVars, auto>>

RunnerNext == RunnerStep /\ UNCHANGED crashes
WorkerNext(w) == WorkerStep(w) /\ UNCHANGED <<req, localVars, auto, crashes>>
ClientNext(c) == ServiceStep(c) /\ UNCHANGED <<localVars, auto, crashes>>
BulkNext == BulkStep /\ UNCHANGED <<localVars, auto, crashes>>
EngineNext(g) == /\ Finish(g) \/ Fail(g)
                 /\ UNCHANGED <<storeVars, workerVars, req, localVars, auto, crashes>>
TimerNext(j) == /\ RetryTimer(j)
                /\ UNCHANGED <<engineVars, workerVars, req, localVars, auto, crashes>>

Next ==
    \/ RunnerNext
    \/ \E w \in Workers : WorkerNext(w)
    \/ \E c \in Clients : ClientNext(c)
    \/ BulkNext
    \/ \E g \in Gids : EngineNext(g)
    \/ \E j \in JobId : TimerNext(j)
    \/ \E v \in AutoModes : SetAutoDecrypt(v)
    \/ DaemonCrash
    \/ EngineRestart

Spec == Init /\ [][Next]_vars

(***************************************************************************)
(* The ticker keeps the runner going, the Go scheduler its goroutines and  *)
(* handlers; a download that is not paused ends, and clocks advance.       *)
(***************************************************************************)
Fairness ==
    /\ WF_vars(RunnerNext)
    /\ \A w \in Workers : WF_vars(WorkerNext(w))
    /\ \A c \in Clients : WF_vars((EngineCall(c) \/ Execute(c)) /\ UNCHANGED <<localVars, auto, crashes>>)
    /\ \A g \in Gids : WF_vars(EngineNext(g))
    /\ \A j \in JobId : WF_vars(TimerNext(j))

FairSpec == Spec /\ Fairness

----------------------------------------------------------------------------
(* Safety.                                                                 *)

(***************************************************************************)
(* A job is charged for an attempt at most MaxAttempts times plus once for *)
(* each retry or resume that a user asked for: the automatic retries stop, *)
(* whatever the runner's stale lists make it do (ListRetryableFailed,      *)
(* MarkFailed).                                                            *)
(***************************************************************************)
AttemptsBudget == \A j \in JobId : jobs[j].attempts <= MaxAttempts + manual[j]

(* What the runner's list holds in each phase of a tick.                   *)
Polled(j) == snap[j].status = "downloading" /\ snap[j].gid # NoGid
Downloaded(j) == snap[j].status \in {"decrypting", "completed"}

ListInv ==
    /\ pc \in {"poll", "apply"} => \A j \in Held : Polled(j)
    /\ pc \in {"dispatch", "fail", "clear"} => \A j \in Held : Downloaded(j)
    /\ pc \in {"mark", "schedule", "complete"} =>
          (\A j \in Held : Polled(j)) \/ (\A j \in Held : Downloaded(j))
    /\ pc = "requeue" => \A j \in Held : snap[j].status = "failed"
    /\ pc \in {"check", "resolve", "prepare", "unlink", "start", "record", "startfail"} =>
          \A j \in Held : j = cur /\ snap[j].status = "resolving"
    /\ pc \in {"idle", "claim"} => Held = {}
    /\ pc \notin {"idle", "claim", "poll", "dispatch", "requeue"} => cur \in Held

(* A job that the runner may charge for an attempt without anyone asking:  *)
(* it is on its way to a download, or on one of the runner's lists.        *)
Charged(j) ==
    \/ jobs[j].status \in {"queued", "resolving", "downloading"}
    \/ snap[j].status \in {"downloading", "failed", "resolving"}

BudgetInv ==
    \A j \in JobId :
        /\ jobs[j].attempts <= MaxAttempts + manual[j]
        /\ Charged(j) => jobs[j].attempts < MaxAttempts + manual[j]

(***************************************************************************)
(* Every running or paused aria2c task is recorded in its job, or is one   *)
(* the runner is about to record, or its record was given up in one of the *)
(* known ways (abandoned): a lost addUri reply, a purge, a crash before    *)
(* MarkDownloading, or a user's requeue decided on an older gid.  In       *)
(* particular requeueFailed never forgets a running download.              *)
(***************************************************************************)
EngineTasksTracked ==
    \A g \in Gids : (tasks[g] \in Live /\ g \notin abandoned) =>
        hand = g \/ (owner[g].job # 0 /\ jobs[owner[g].job].gid = g)

(***************************************************************************)
(* When prepareOutputForStart removes a control file, no download that     *)
(* dlqd has on record under that path, running or paused, writes to it:    *)
(* CHANGELOG.md says for 0.2.2 that stale state is removed only when no    *)
(* other active job targets the same output path.  The row of a job that    *)
(* neither the user nor the resolver names never learns its path.          *)
(***************************************************************************)
OnRecord(g) ==
    /\ tasks[g] \in Live /\ g \notin abandoned
    /\ owner[g].job # 0 /\ PathKnown(jobs[owner[g].job])

FreshStartSafe ==
    pc = "unlink" => \A g \in Gids : OnRecord(g) => owner[g].kind.file # snap[cur].kind.file

(***************************************************************************)
(* No more than Concurrency listed jobs are downloading (the loop in       *)
(* Runner.tick), as long as nobody resumes a paused download.              *)
(***************************************************************************)
ConcurrencyBound == Cardinality(ListJobs("downloading")) <= Concurrency

(***************************************************************************)
(* A job that is shown as completed, or as being post-processed, has been  *)
(* downloaded: its file is there (updateActive, dispatchCompletedDecrypt,  *)
(* runDecrypt).                                                            *)
(***************************************************************************)
CompletedWasDownloaded ==
    \A j \in JobId : jobs[j].status \in {"completed", "decrypting", "decrypt_failed"} =>
        files[j] # "none"

(***************************************************************************)
(* Two goroutines never process the same job at the same time, so no file  *)
(* is decrypted in place twice concurrently (markDecryptPending).          *)
(***************************************************************************)
OneDecryptPerJob ==
    \A v, w \in Workers :
        (v # w /\ IsPending(v) /\ IsPending(w)) => gor[v].task.id # gor[w].task.id

(***************************************************************************)
(* Every token of decryptSem is either in the channel or held by one       *)
(* goroutine past acquireDecryptWorker: none is lost on an error path and  *)
(* no more than DecryptConcurrency goroutines run.                         *)
(***************************************************************************)
TokensConserved ==
    tokens + Cardinality({w \in Workers : HoldsToken(w)}) = DecryptConcurrency

(* Someone is about to execute ClearArchivePassword for the job.           *)
WillClear(j) ==
    \/ cur = j /\ pc = "clear"
    \/ \E w \in Workers : gor[w].pc = "clear" /\ gor[w].task.id = j

(***************************************************************************)
(* The archive password of a job whose post-processing failed has been     *)
(* erased, or whoever recorded the failure is about to erase it            *)
(* (runDecrypt, dispatchCompletedDecrypt).                                 *)
(***************************************************************************)
FailedSecretsCleared ==
    \A j \in JobId : (jobs[j].status = "decrypt_failed" /\ jobs[j].archivePassword = "set")
                        => WillClear(j)

(***************************************************************************)
(* A MEGA job that is completed has its payload decrypted, whatever failed *)
(* and however often its post-processing was retried (runDecrypt); only a  *)
(* download that a user asked to repeat can leave ciphertext behind.       *)
(***************************************************************************)
CompletedIsPlain ==
    \A j \in JobId : (jobs[j].status = "completed" /\ manual[j] = 0) => files[j] = "plain"

(* The job has come to an end.                                             *)
Settled(r) == \/ r.status \in {"completed", "decrypt_failed", "deleted"}
              \/ r.status = "failed" /\ r.attempts >= MaxAttempts

(* Nothing more will happen to the job: it is at rest and no goroutine is  *)
(* or will be at work on it.                                               *)
AtRest(j) == Settled(jobs[j]) /\ j \notin pending

(***************************************************************************)
(* Once every part of an archive has arrived and its jobs are at rest, the *)
(* archive tool has been run on the first volume with the whole set in     *)
(* place, in whatever order the parts arrived and were named               *)
(* (buildDecryptTask, archiveDecryptWaitMessage, resolveArchiveEntryPath): *)
(* the last part to arrive is never left waiting or sent to a later        *)
(* volume.  auto_decrypt is on.                                            *)
(***************************************************************************)
SetOpened ==
    \A n \in {MultipartArchiveFirstVolume(k.file) : k \in Kinds} :
        (/\ IsArchiveFile(n) /\ Volumes(n) # {} /\ Complete(n)
         /\ \A j \in JobId : (Exists(jobs[j]) /\ jobs[j].kind.file \in Volumes(n)) => AtRest(j))
            => n \in opened

(***************************************************************************)
(* Without user intervention no download is started for a job whose file   *)
(* has arrived: neither stale lists nor failed post-processing send a job  *)
(* back to the queue (requeueFailed, MarkPostprocessFailed).               *)
(***************************************************************************)
DownloadedOnce ==
    [][\A g \in Gids : (tasks[g] \notin Live /\ tasks'[g] \in Live)
                            => files[owner'[g].job] = "none"]_vars

----------------------------------------------------------------------------
(* The life of a job as its clients see it.                                *)

(* deleted_at hides the status, which the runner may still change.         *)
StageOf(r) ==
    IF r.deletedAt = "set" THEN "removed" ELSE
    CASE r.status = "none"            -> "absent"
      [] r.status \in {"queued", "resolving", "downloading"} -> "active"
      [] r.status = "decrypting"      -> "processing"
      [] r.status = "decrypt_failed"  -> "broken"
      [] r.status = "completed"       -> "done"
      [] r.status \in {"paused", "failed"} -> r.status

Lifecycle == INSTANCE JobLifecycle WITH
    Job <- JobId,
    stage <- [j \in JobId |-> StageOf(jobs[j])],
    failures <- [j \in JobId |-> jobs[j].attempts],
    requests <- manual

LifecycleSpec == Lifecycle!Spec

----------------------------------------------------------------------------
(* Liveness.                                                               *)

(***************************************************************************)
(* Without user intervention every job comes to rest: completed, failed in *)
(* post-processing, or failed for good (tick, runDecrypt).                 *)
(***************************************************************************)
AllSettle ==
    \A j \in JobId : Exists(jobs[j]) ~> Settled(jobs[j])

----------------------------------------------------------------------------
(* What the repository says of the program and the program does not do.    *)

(***************************************************************************)
(* A removed job stays removed until a user requeues it: README.md calls   *)
(* remove a soft delete.  requeueFailed works from a list read earlier and *)
(* Store.Requeue clears deleted_at.                                        *)
(***************************************************************************)
SoftDeleteSticks ==
    [][\A j \in JobId : (jobs[j].deletedAt = "set" /\ jobs'[j].deletedAt = "null")
                            => manual'[j] # manual[j]]_vars

(***************************************************************************)
(* A job is not left downloading without an aria2c task for ever.          *)
(* CHANGELOG.md says that a webshare resume requeues with a fresh link;    *)
(* UpdateProgress for the old task can overwrite the requeued status.      *)
(***************************************************************************)
NoTasklessDownload ==
    \A j \in JobId : []<>(~ (jobs[j].status = "downloading" /\ jobs[j].gid = NoGid))

(***************************************************************************)
(* MEGA payloads are decrypted before an archive is extracted, as          *)
(* CHANGELOG.md says of 0.2.3: no volume of the set the archive tool works *)
(* on is still ciphertext.  A part that waits for its siblings has not had *)
(* its payload decrypted either, and the last part to arrive does not wait *)
(* for it.                                                                 *)
(***************************************************************************)
MegaBeforeArchive ==
    \A w \in Workers : (gor[w].pc = "archive" /\ IsArchiveFile(gor[w].task.entry)) =>
        \A j \in JobId : (Exists(jobs[j]) /\ jobs[j].kind.file \in Volumes(gor[w].task.entry))
            => files[j] # "cipher"

(***************************************************************************)
(* No job stays in resolving for ever: README.md says that the queue is    *)
(* persistent across restarts, but nothing claims a resolving row again.   *)
(***************************************************************************)
ResolvingEnds ==
    \A j \in JobId : (jobs[j].status = "resolving") ~> (jobs[j].status # "resolving")

(***************************************************************************)
(* While a goroutine works on a job's file the job is shown as decrypting, *)
(* as TestRunnerMarksDecryptingWhileArchiveDecryptInProgress requires.     *)
(***************************************************************************)
DecryptingWhileInProgress ==
    \A w \in Workers : gor[w].pc \in {"mega", "archive"} =>
        jobs[gor[w].task.id].status = "decrypting"
=============================================================================
