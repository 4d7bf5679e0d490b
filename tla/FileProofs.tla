----------------------------- MODULE FileProofs -----------------------------
(***************************************************************************)
(* The files and the tasks that write them.  Every step is taken apart     *)
(* once into what it can do to a row, to the runner's place and list, to   *)
(* the goroutines and requests, and to aria2c; the invariants below follow *)
(* from that.  A download is reported as complete only by the task that    *)
(* its own row names, and nothing takes a file away from a job that anyone *)
(* knows to be past its download: a completed job has its file.  If nobody *)
(* interferes, a job that has its file is not downloaded again either,     *)
(* because no job that could be started has a file or a task that runs;    *)
(* and a job past its download has no task that runs, which is why the     *)
(* check before a control file is removed may pass over it.                *)
(***************************************************************************)
EXTENDS LifecycleProofs

HasFile(j) == files[j] # "none"

(* aria2c has told the runner that the download is complete.               *)
Ending(j) == cur = j /\ (pc = "mark" \/ (pc = "apply" /\ reply = "complete"))

(* aria2c would say so of the task on the runner's list.                   *)
Told(j) == Polled(j) /\ tasks[snap[j].gid] = "complete"

(* The download has ended for someone who may yet say so.                  *)
Over(j) == Past(j) \/ Ending(j) \/ Told(j)

Recording(j) == pc = "record" /\ cur = j

(* What a step can do to the row of a job.                                 *)
RowMoves(j, row) ==
    /\ row.kind = jobs[j].kind
    /\ Exists(jobs[j]) => Exists(row)
    /\ row.status \in PastStatus => Over(j)
    /\ row.status \in PreStatus => Preparing(j) \/ Asked(j, {"requeue", "downloading"})
    /\ row.gid \in {jobs[j].gid, NoGid} \/ (Recording(j) /\ row.gid = hand)
    /\ row.deletedAt = "set" => \/ jobs[j].deletedAt = "set" \/ jobs[j].status = "completed"
                                \/ Asked(j, {"remove"})
    /\ row.filename = "set" => jobs[j].filename = "set" \/ pc = "resolve"
    /\ row.status = "paused" => jobs[j].status = "paused" \/ Asked(j, {"pause"})

(* Or there was none, and nobody knows of it.                              *)
Born(j) ==
    /\ ~ Exists(jobs[j])
    /\ jobs'[j].status = "queued" /\ jobs'[j].gid = NoGid /\ jobs'[j].deletedAt = "null"
    /\ ~ Known(j)' /\ ~ Finishing(j)' /\ ~ Ending(j)' /\ ~ Recording(j)'

(* The runner's lists are of jobs in one of these states.                  *)
ListedStatus == {"downloading", "decrypting", "completed", "failed"}

(* To what the runner knows of the job.                                    *)
RunnerMoves(j) ==
    /\ Exists(snap'[j]) => \/ snap'[j] = snap[j]
                           \/ /\ snap'[j] = jobs[j] /\ jobs[j].status \in ListedStatus
                              /\ jobs'[j] = jobs[j]
                           \/ /\ snap'[j].status = "resolving" /\ snap'[j].kind = jobs[j].kind
                              /\ jobs[j].status = "queued" /\ jobs'[j].status = "resolving"
    /\ Finishing(j)' \/ Ending(j)' => Over(j)
    /\ Exists(snap'[j]) /\ Finishing(j) => Finishing(j)'
    /\ Recording(j)' => \/ Recording(j) /\ hand' = hand
                        \/ tasks'[hand'] = "active" /\ owner'[hand'].job = j

(* To what goroutines and clients are about to do to it.                   *)
OthersMove(j) == AtWork(j)' \/ Asked(j, {"decrypting"})' => Over(j)

StepMoves(j) == (RowMoves(j, jobs'[j]) \/ Born(j)) /\ RunnerMoves(j) /\ OthersMove(j)

(* aria2c was asked to download for the job the runner has claimed.        *)
StartedFor(g) ==
    /\ pc = "start" /\ Fresh(g)
    /\ owner'[g].job = cur /\ owner'[g].kind = snap[cur].kind

(* What a step can do to a task.                                           *)
TaskMoves(g) ==
    \/ StartedFor(g)
    \/ /\ tasks'[g] \in Live => tasks[g] \in Live /\ owner'[g] = owner[g]
       /\ tasks'[g] \in Live /\ g \in abandoned => g \in abandoned'
       /\ owner'[g].job # 0 => owner'[g] = owner[g]
       /\ tasks'[g] = "complete" => \/ tasks[g] = "complete"
                                    \/ /\ tasks[g] = "active"
                                       /\ owner[g].job \in JobId => files'[owner[g].job] # "none"

----------------------------------------------------------------------------
(* Each step, taken apart.                                                 *)

(* What says that a download is over.                                      *)
LEMMA OverFacts ==
    ASSUME NEW j
    PROVE  /\ jobs[j].status \in PastStatus => Over(j)
           /\ AtWork(j) => Over(j)
           /\ Asked(j, {"decrypting"}) => Over(j)
           /\ Downloaded(j) => Over(j)
           /\ Finishing(j) \/ Ending(j) => Over(j)
           /\ jobs[j].status \in PreStatus => Preparing(j)
BY DEF Over, Past, Preparing

(* The statements leave the kind alone, and the name or none.              *)
LEMMA StmtColumns ==
    ASSUME NEW r \in Row
    PROVE  /\ \A row \in {Resolving(r), MarkPaused(r), MarkDownloadingStatus(r), MarkCompleted(r),
                          MarkDecrypting(r), MarkDecryptingRetry(r), MarkPostprocessFailed(r),
                          ClearArchivePassword(r), RemoveRow(r), MarkFailed(r), Requeue(r)} :
                 row.kind = r.kind /\ row.filename \in {r.filename, "null"}
           /\ \A name : UpdateResolving(r, name).kind = r.kind
           /\ \A st : UpdateProgress(r, st).kind = r.kind /\ UpdateProgress(r, st).filename = r.filename
           /\ \A g : MarkDownloading(r, g).kind = r.kind /\ MarkDownloading(r, g).filename = r.filename
<1>1. \A row \in {Resolving(r), MarkPaused(r), MarkDownloadingStatus(r), MarkCompleted(r), MarkDecrypting(r)} :
         row.kind = r.kind /\ row.filename = r.filename
  BY DEF Resolving, MarkPaused, MarkDownloadingStatus, MarkCompleted, MarkDecrypting, Row
<1>2. \A row \in {MarkDecryptingRetry(r), MarkPostprocessFailed(r), ClearArchivePassword(r), RemoveRow(r),
                  MarkFailed(r)} : row.kind = r.kind /\ row.filename = r.filename
  BY DEF MarkDecryptingRetry, MarkPostprocessFailed, ClearArchivePassword, RemoveRow, MarkFailed, Row
<1>3. Requeue(r).kind = r.kind /\ Requeue(r).filename = "null"
  BY DEF Requeue, Row
<1>4. /\ \A name : UpdateResolving(r, name).kind = r.kind
      /\ \A st : UpdateProgress(r, st).kind = r.kind /\ UpdateProgress(r, st).filename = r.filename
      /\ \A g : MarkDownloading(r, g).kind = r.kind /\ MarkDownloading(r, g).filename = r.filename
  BY DEF UpdateResolving, UpdateProgress, MarkDownloading, Row
<1> QED
  BY <1>1, <1>2, <1>3, <1>4

(* The statements of which RowMoves asks something only for the status.    *)
LEMMA StmtMoves ==
    ASSUME Inv, NEW j \in JobId,
           NEW row \in {Resolving(jobs[j]), MarkDownloadingStatus(jobs[j]), MarkCompleted(jobs[j]),
                        MarkDecrypting(jobs[j]), MarkDecryptingRetry(jobs[j]),
                        MarkPostprocessFailed(jobs[j]), ClearArchivePassword(jobs[j]),
                        MarkFailed(jobs[j]), Requeue(jobs[j]), UpdateProgress(jobs[j], "downloading"),
                        UpdateProgress(jobs[j], "completed")},
           row.status \in PastStatus => Over(j),
           row.status \in PreStatus => Preparing(j) \/ Asked(j, {"requeue", "downloading"})
    PROVE  RowMoves(j, row)
<1>a. jobs[j] \in Row
  BY TrackTypes
<1>1. row.kind = jobs[j].kind /\ row.filename \in {jobs[j].filename, "null"}
  BY <1>a, StmtColumns
<1>2. row.gid \in {jobs[j].gid, NoGid}
  BY <1>a, StmtGid
<1>3. row.deletedAt \in {jobs[j].deletedAt, "null"}
  BY <1>a, StmtStatus
<1>4. Exists(jobs[j]) => Exists(row)
  BY <1>a, StmtGid DEF Exists
<1>5. row.status = "paused" => jobs[j].status = "paused"
  BY <1>a DEF Resolving, MarkDownloadingStatus, MarkCompleted, MarkDecrypting, MarkDecryptingRetry,
       MarkPostprocessFailed, ClearArchivePassword, MarkFailed, Requeue, UpdateProgress, Row
<1> QED
  BY <1>1, <1>2, <1>3, <1>4, <1>5 DEF RowMoves

(* Rows that keep what RowMoves looks at.                                  *)
LEMMA RowStays ==
    ASSUME NEW j, NEW row, row.kind = jobs[j].kind, row.status = jobs[j].status,
           row.gid = jobs[j].gid, row.deletedAt = jobs[j].deletedAt,
           row.filename = jobs[j].filename \/ pc = "resolve"
    PROVE  RowMoves(j, row)
BY OverFacts DEF RowMoves, Exists

(* A statement about one job, and a step that changes no row.              *)
LEMMA UpdateMoves ==
    ASSUME Inv, NEW id \in JobId, NEW row, Update(id, row), RowMoves(id, row), NEW j \in JobId
    PROVE  RowMoves(j, jobs'[j])
<1>1. StoreTypeOK
  BY TrackTypes
<1>2. jobs'[j] = jobs[j] \/ (j = id /\ jobs'[j] = row)
  BY <1>1, UpdateRow
<1> QED
  BY <1>2, RowStays

(* Goroutines and clients do nothing.                                      *)
LEMMA OthersQuiet ==
    ASSUME UNCHANGED <<gor, req>>, NEW j \in JobId
    PROVE  OthersMove(j)
<1>1. AtWork(j)' => AtWork(j)
  BY DEF AtWork
<1>2. Asked(j, {"decrypting"})' => Asked(j, {"decrypting"})
  BY DEF Asked
<1> QED
  BY <1>1, <1>2, OverFacts DEF OthersMove

(* The runner stays where it is.                                           *)
LEMMA RunnerQuiet ==
    ASSUME UNCHANGED localVars, NEW j \in JobId
    PROVE  RunnerMoves(j)
<1>1. /\ Finishing(j)' <=> Finishing(j)
      /\ Ending(j)' <=> Ending(j)
      /\ Recording(j)' <=> Recording(j)
  BY DEF Finishing, Ending, Recording, localVars
<1> QED
  BY <1>1, OverFacts DEF RunnerMoves, localVars

(* The runner drops a job or goes on with it, reading nothing.             *)
LEMMA MoveKept ==
    ASSUME Inv, NEW id \in JobId, NEW next \in RunnerPC \ {"record", "apply"},
           Done(id, next) \/ Goto(next), pc \notin {"schedule", "complete", "fail", "clear"} \/ id = cur,
           next \in {"mark", "schedule", "complete", "fail", "clear"} => Goto(next) /\ Over(cur),
           Goto(next) => pc \notin {"schedule", "complete", "fail", "clear"} \/ next = "clear",
           NEW j \in JobId
    PROVE  RunnerMoves(j)
<1>1. RunnerTypeOK
  BY TrackTypes
<1>2. snap'[j] = snap[j] \/ ~ Exists(snap'[j])
  BY <1>1, DoneRow DEF Goto, Exists
<1>3. pc' = next /\ pc' \notin {"record", "apply"}
  BY DEF Done, Goto
<1>4. Finishing(j)' \/ Ending(j)' => Over(j)
  BY <1>3 DEF Finishing, Ending, Goto
<1>5. Exists(snap'[j]) /\ Finishing(j) => Finishing(j)'
  <2>1. CASE Done(id, next)
    BY <2>1, <1>1, DoneRow DEF Finishing, Exists
  <2>2. CASE Goto(next)
    BY <2>2 DEF Finishing, Goto
  <2> QED  BY <2>1, <2>2
<1> QED
  BY <1>2, <1>3, <1>4, <1>5 DEF RunnerMoves, Recording

(* What the runner's statements and reads leave alone.                     *)
LEMMA RunnerLeaves ==
    ASSUME ReadOnly \/ \E id, row : Write(id, row)
    PROVE  UNCHANGED <<tasks, owner, files, gor, req, manual>>
BY DEF ReadOnly, Write, engineVars, elsewhere, workerVars, storeVars

(* Steps of the runner that change no row.                                 *)
LEMMA ReadMoves ==
    ASSUME UNCHANGED <<jobs, gor, req>>, NEW j \in JobId, RunnerMoves(j)
    PROVE  StepMoves(j)
BY OthersQuiet, RowStays DEF StepMoves

LEMMA LoadMoves ==
    ASSUME NEW ids, NEW next \in {"poll", "dispatch", "requeue"}, Load(ids, next),
           \A i \in ids : jobs[i].status \in ListedStatus,
           pc \in {"idle", "poll", "dispatch"}, NEW j \in JobId
    PROVE  StepMoves(j)
<1>1. UNCHANGED <<jobs, gor, req>>
  BY DEF Load, storeVars, elsewhere, workerVars
<1>2. (snap'[j] = jobs[j] /\ jobs[j].status \in ListedStatus) \/ ~ Exists(snap'[j])
  BY DEF Load, NoRow, NewRow, Exists
<1>3. RunnerMoves(j)
  BY <1>1, <1>2 DEF RunnerMoves, Load, Finishing, Ending, Recording
<1> QED
  BY <1>1, <1>3, ReadMoves

(* TellStatus says "complete" of a task on the list only if it is.         *)
LEMMA TellStatusMoves ==
    ASSUME Inv, NEW id \in JobId, TellStatus(id), NEW j \in JobId
    PROVE  StepMoves(j)
<1>a. UNCHANGED <<jobs, gor, req>> /\ pc = "poll" /\ id \in Held
  BY RunnerLeaves DEF TellStatus, ReadOnly, storeVars
<1>1. CASE Done(id, "poll")
  BY <1>1, <1>a, MoveKept, ReadMoves DEF RunnerPC
<1>2. CASE ~ Done(id, "poll")
  <2>1. PICK out \in TellStatusOutcome(snap[id].gid) :
          pc' = "apply" /\ cur' = id /\ reply' = out /\ UNCHANGED <<snap, hand>>
    BY <1>2 DEF TellStatus
  <2>2. Polled(id)
    BY <1>a, TrackTypes DEF ListInv
  <2>3. reply' = "complete" => Over(id)
    BY <2>1, <2>2 DEF TellStatusOutcome, Told, Over
  <2>4. RunnerMoves(j)
    BY <1>a, <2>1, <2>3 DEF RunnerMoves, Finishing, Ending, Recording
  <2> QED
    BY <2>4, <1>a, ReadMoves
<1> QED
  BY <1>1, <1>2

(* dispatchCompletedDecrypt takes up jobs that were past their download.   *)
LEMMA DispatchMoves ==
    ASSUME Inv, NEW id \in JobId, Dispatch(id), NEW j \in JobId
    PROVE  StepMoves(j)
<1>a. UNCHANGED <<jobs, gor, req>> /\ pc = "dispatch" /\ id \in Held
  BY RunnerLeaves DEF Dispatch, DispatchSkip, DispatchNothingToDo, DispatchNoPath, DispatchWait,
       DispatchTaskReady, Dispatching, ReadOnly, storeVars
<1>1. Over(id)
  BY <1>a, TrackTypes, OverFacts DEF ListInv
<1>2. \/ Done(id, "dispatch")
      \/ UNCHANGED snap /\ cur' = id /\ pc' \in {"complete", "fail", "mark", "schedule"}
  BY DEF Dispatch, DispatchSkip, DispatchNothingToDo, DispatchNoPath, DispatchWait,
         DispatchTaskReady, Select
<1>3. CASE Done(id, "dispatch")
  BY <1>3, <1>a, MoveKept, ReadMoves DEF RunnerPC
<1>4. CASE UNCHANGED snap /\ cur' = id /\ pc' \in {"complete", "fail", "mark", "schedule"}
  <2>1. RunnerMoves(j)
    BY <1>1, <1>4, <1>a DEF RunnerMoves, Finishing, Ending, Recording
  <2> QED
    BY <2>1, <1>a, ReadMoves
<1> QED
  BY <1>2, <1>3, <1>4

(* A statement of the runner after which it drops or keeps the job.        *)
LEMMA WriteMoves ==
    ASSUME Inv, NEW id \in JobId, NEW row, Write(id, row), RowMoves(id, row),
           NEW next \in RunnerPC \ {"record", "apply"}, Done(id, next) \/ Goto(next),
           pc \notin {"schedule", "complete", "fail", "clear"} \/ id = cur,
           next \in {"mark", "schedule", "complete", "fail", "clear"} => Goto(next) /\ Over(cur),
           Goto(next) => pc \notin {"schedule", "complete", "fail", "clear"} \/ next = "clear",
           NEW j \in JobId
    PROVE  StepMoves(j)
<1>1. Update(id, row) /\ UNCHANGED <<gor, req>>
  BY RunnerLeaves DEF Write
<1> QED
  BY <1>1, UpdateMoves, MoveKept, OthersQuiet DEF StepMoves

(* addUri.                                                                 *)
LEMMA StartMoves ==
    ASSUME Inv, Started \/ StartLost, NEW j \in JobId
    PROVE  StepMoves(j)
<1>a. /\ UNCHANGED <<jobs, gor, req, snap, cur>> /\ pc = "start" /\ pc' \in {"record", "startfail"}
      /\ cur \in JobId /\ EngineTypeOK
  <2>1. UNCHANGED <<jobs, gor, req, snap, cur>> /\ pc = "start" /\ pc' \in {"record", "startfail"}
    BY DEF Started, StartLost, Goto, storeVars, elsewhere, workerVars
  <2> QED  BY <2>1, TrackTypes
<1>1. PICK g \in Gids : /\ tasks' = [tasks EXCEPT ![g] = "active"]
                        /\ owner' = [owner EXCEPT ![g] = [job |-> cur, kind |-> snap[cur].kind]]
                        /\ pc' = "record" => hand' = g
  BY DEF Started, StartLost, AddURI, Goto
<1>2. tasks'[g] = "active" /\ owner'[g].job = cur
  BY <1>1, <1>a DEF EngineTypeOK
<1>3. RunnerMoves(j)
  BY <1>a, <1>1, <1>2 DEF RunnerMoves, Finishing, Ending, Recording
<1> QED
  BY <1>a, <1>3, ReadMoves

(* MarkDownloading records the task that was started for the job.          *)
LEMMA RecordMoves ==
    ASSUME Inv, RunnerMarkDownloading, NEW j \in JobId
    PROVE  StepMoves(j)
<1>a. /\ pc = "record" /\ Update(cur, MarkDownloading(jobs[cur], hand)) /\ Done(cur, "requeue")
      /\ UNCHANGED <<gor, req>>
  BY DEF RunnerMarkDownloading, elsewhere, workerVars
<1>b. cur \in JobId /\ jobs[cur] \in Row /\ hand \in Gids /\ snap[cur].status = "resolving"
  <2>1. cur \in Held /\ cur \in JobId
    BY <1>a, TrackTypes DEF ListInv
  <2> QED
    BY <2>1, <1>a, TrackTypes DEF ListInv, Inv, HandInv
<1> DEFINE row == MarkDownloading(jobs[cur], hand)
<1>1. row.gid = hand /\ row.status = "downloading"
  BY <1>b, StmtGid
<1>2. row.deletedAt = jobs[cur].deletedAt /\ row.kind = jobs[cur].kind /\ row.filename = jobs[cur].filename
  BY <1>b, StmtStatus, StmtColumns
<1>3. Preparing(cur) /\ Recording(cur)
  BY <1>a, <1>b DEF Preparing, PreStatus, Finishing, Recording
<1>4. RowMoves(cur, row)
  BY <1>1, <1>2, <1>3 DEF RowMoves, PastStatus, Exists
<1> HIDE DEF row
<1>5. RowMoves(j, jobs'[j])
  BY <1>4, <1>a, <1>b, UpdateMoves DEF row
<1>6. RunnerMoves(j)
  BY <1>a, <1>b, MoveKept DEF RunnerPC
<1> QED
  BY <1>5, <1>6, <1>a, OthersQuiet DEF StepMoves

(* A job that the runner is about to start or has polled is on its way to  *)
(* a download.                                                             *)
LEMMA HeldPrepares ==
    ASSUME Inv, pc \in {"apply", "resolve", "startfail"}
    PROVE  Preparing(cur)
<1>1. cur \in Held /\ cur \in JobId
  BY TrackTypes DEF ListInv
<1>2. snap[cur].status \in {"downloading", "resolving"}
  BY <1>1, TrackTypes DEF ListInv, Polled
<1> QED
  BY <1>2 DEF Preparing, PreStatus, Finishing

(* A step of the runner.                                                   *)
LEMMA RunnerStepMoves ==
    ASSUME Inv, RunnerStep, NEW j \in JobId
    PROVE  StepMoves(j)
<1>a. /\ RunnerTypeOK /\ ListInv /\ cur \in JobId /\ jobs[cur] \in Row
      /\ \A i \in JobId : jobs[i] \in Row
  BY TrackTypes
<1>b. Loop \in {"poll", "dispatch"}
  BY DEF Loop
<1>c. /\ pc \in {"mark", "schedule", "complete", "fail", "clear"} => Over(cur)
      /\ pc = "apply" /\ reply = "complete" => Over(cur)
  BY <1>a, OverFacts DEF Finishing, Ending
<1>1. CASE ListActive \/ ListPending \/ ListRetryable
  <2>1. \A i \in ListJobs("downloading") \cup ListPendingPostprocess \cup ListRetryableFailed :
           jobs[i].status \in ListedStatus
    BY DEF ListJobs, ListPendingPostprocess, PendingPostprocess, ListRetryableFailed, ListedStatus
  <2> QED
    BY <1>1, <2>1, LoadMoves DEF ListActive, ListPending, ListRetryable
<1>2. ASSUME NEW id \in JobId, AutoRequeue(id) PROVE StepMoves(j)
  <2>1. Preparing(id) /\ pc = "requeue"
    BY <1>2, <1>a DEF AutoRequeue, ListInv, Preparing, PreStatus, Finishing
  <2>2. Requeue(jobs[id]).status \notin PastStatus
    BY <1>a, StmtGid DEF PastStatus
  <2>3. RowMoves(id, Requeue(jobs[id]))
    BY <2>1, <2>2, StmtMoves
  <2> QED
    BY <1>2, <2>1, <2>3, WriteMoves DEF AutoRequeue, RunnerPC
<1>3. ASSUME NEW id \in JobId, ClaimNextQueued(id) PROVE StepMoves(j)
  <2> DEFINE row == Resolving(jobs[id])
  <2>1. row.status = "resolving" /\ row.kind = jobs[id].kind
    BY <1>a, StmtGid, StmtColumns
  <2>2. /\ Update(id, row) /\ UNCHANGED <<gor, req>> /\ jobs[id].status = "queued"
        /\ snap' = [snap EXCEPT ![id] = row] /\ pc' = "check" /\ pc = "claim"
    BY <1>3, RunnerLeaves DEF ClaimNextQueued, Write, ClaimableQueued
  <2>3. RowMoves(id, row)
    BY <2>1, <2>2, OverFacts, StmtMoves DEF PreStatus, PastStatus
  <2> HIDE DEF row
  <2>4. RowMoves(j, jobs'[j])
    BY <2>2, <2>3, UpdateMoves
  <2>5. snap'[j] = snap[j] \/ (j = id /\ snap'[j] = row)
    BY <2>2, <1>a DEF RunnerTypeOK
  <2>6. jobs'[id] = row
    BY <2>2, TrackTypes DEF StoreTypeOK, Update, Exists
  <2>7. RunnerMoves(j)
    BY <2>1, <2>2, <2>5, <2>6 DEF RunnerMoves, Finishing, Ending, Recording
  <2> QED
    BY <2>2, <2>4, <2>7, OthersQuiet DEF StepMoves
<1>4. CASE ApplyFailed \/ ResolveFailed \/ RunnerMarkFailed
  <2>1. /\ pc \in {"apply", "resolve", "startfail"} /\ Write(cur, MarkFailed(jobs[cur]))
        /\ \E next \in {"poll", "requeue"} : Done(cur, next)
    BY <1>4 DEF ApplyFailed, ResolveFailed, RunnerMarkFailed
  <2>2. MarkFailed(jobs[cur]).status \notin PastStatus
    BY <1>a, StmtGid DEF PastStatus
  <2>3. RowMoves(cur, MarkFailed(jobs[cur]))
    BY <2>1, <2>2, <1>a, HeldPrepares, StmtMoves
  <2> QED
    BY <2>1, <2>3, <1>a, WriteMoves DEF RunnerPC
<1>5. CASE ApplyProgress
  <2> DEFINE row == UpdateProgress(jobs[cur], "downloading")
  <2>1. pc = "apply" /\ Write(cur, row) /\ Done(cur, "poll")
    BY <1>5 DEF ApplyProgress
  <2>2. row.status \notin PastStatus
    BY <1>a, StmtGid DEF PastStatus
  <2>3. RowMoves(cur, row)
    BY <2>1, <2>2, <1>a, HeldPrepares, StmtMoves
  <2> HIDE DEF row
  <2> QED
    BY <2>1, <2>3, <1>a, WriteMoves DEF RunnerPC
<1>6. CASE ApplyComplete
  <2> DEFINE row == UpdateProgress(jobs[cur], "completed")
  <2>1. Over(cur) /\ pc = "apply"
    BY <1>6, <1>c DEF ApplyComplete
  <2>2. row.status \notin PreStatus
    BY <1>a, StmtGid DEF PreStatus
  <2>3. RowMoves(cur, row)
    BY <2>1, <2>2, <1>a, StmtMoves
  <2>4. \/ Write(cur, row) /\ Goto("complete")
        \/ ReadOnly /\ pc' = "mark" /\ UNCHANGED <<snap, cur>>
    BY <1>6 DEF ApplyComplete
  <2> HIDE DEF row
  <2>5. CASE Write(cur, row) /\ Goto("complete")
    BY <2>1, <2>3, <2>5, <1>a, WriteMoves DEF RunnerPC
  <2>6. CASE ReadOnly /\ pc' = "mark" /\ UNCHANGED <<snap, cur>>
    <3>1. UNCHANGED <<jobs, gor, req>>
      BY <2>6, RunnerLeaves DEF ReadOnly, storeVars
    <3>2. RunnerMoves(j)
      BY <2>1, <2>6 DEF RunnerMoves, Finishing, Ending, Recording
    <3> QED
      BY <3>1, <3>2, ReadMoves
  <2> QED
    BY <2>4, <2>5, <2>6
<1>7. CASE RunnerMarkDecrypting \/ RunnerMarkCompleted \/ RunnerMarkPostprocessFailed \/ RunnerClearPassword
  <2>1. pc \in {"mark", "complete", "fail", "clear"} /\ Over(cur)
    BY <1>7, <1>c DEF RunnerMarkDecrypting, RunnerMarkCompleted, RunnerMarkPostprocessFailed,
         RunnerClearPassword
  <2>2. PICK row \in {MarkDecrypting(jobs[cur]), MarkCompleted(jobs[cur]),
                      MarkPostprocessFailed(jobs[cur]), ClearArchivePassword(jobs[cur])} :
          Write(cur, row)
    BY <1>7 DEF RunnerMarkDecrypting, RunnerMarkCompleted, RunnerMarkPostprocessFailed,
         RunnerClearPassword
  <2>3. row.status \in PreStatus => row.status = jobs[cur].status
    BY <1>a, FreeOfCharge DEF PreStatus
  <2>4. RowMoves(cur, row)
    BY <2>1, <2>3, <1>a, OverFacts, StmtMoves
  <2>5. \/ \E next \in {"poll", "dispatch"} : Done(cur, next)
        \/ pc = "mark" /\ Goto("schedule")
        \/ Goto("clear")
    BY <1>7, <1>b DEF RunnerMarkDecrypting, RunnerMarkCompleted, RunnerMarkPostprocessFailed,
         RunnerClearPassword
  <2>6. ASSUME NEW next \in {"poll", "dispatch"}, Done(cur, next) PROVE StepMoves(j)
    <3>a. cur \in Held
      BY <2>1, <1>a DEF ListInv
    <3>1. ~ Goto(next)
      BY <2>6, <3>a, <1>a DEF Goto, Done, Held, NoRow, NewRow, Exists, RunnerTypeOK
    <3> QED
      BY <2>1, <2>2, <2>4, <2>6, <3>1, <1>a, WriteMoves DEF RunnerPC
  <2>7. ASSUME pc = "mark" /\ Goto("schedule") PROVE StepMoves(j)
    BY <2>1, <2>2, <2>4, <2>7, <1>a, WriteMoves DEF RunnerPC
  <2>8. ASSUME Goto("clear") PROVE StepMoves(j)
    BY <2>1, <2>2, <2>4, <2>8, <1>a, WriteMoves DEF RunnerPC
  <2> QED
    BY <2>5, <2>6, <2>7, <2>8
<1>8. CASE RunnerSchedule
  <2>1. /\ pc = "schedule" /\ UNCHANGED <<jobs, req>> /\ Done(cur, Loop) /\ cur \in Held
    BY <1>8, <1>a DEF RunnerSchedule, storeVars, ListInv
  <2>2. \A w \in Workers : gor'[w] = gor[w] \/ gor'[w].task.id = cur
    <3>1. WorkerTypeOK
      BY TrackTypes
    <3> QED
      BY <1>8, <3>1 DEF RunnerSchedule, ScheduleDecrypt, workerVars, WorkerTypeOK
  <2>3. AtWork(j)' => AtWork(j) \/ j = cur
    BY <2>2 DEF AtWork
  <2>4. Asked(j, {"decrypting"})' => Asked(j, {"decrypting"})
    BY <2>1 DEF Asked
  <2>5. OthersMove(j)
    BY <2>1, <2>3, <2>4, <1>c, OverFacts DEF OthersMove
  <2>6. ~ Goto(Loop)
    BY <2>1, <1>a DEF Goto, Done, Held, NoRow, NewRow, Exists, RunnerTypeOK
  <2>7. RunnerMoves(j)
    BY <2>1, <2>6, <1>a, <1>b, MoveKept DEF RunnerPC
  <2> QED
    BY <2>1, <2>5, <2>7, RowStays DEF StepMoves
<1>9. CASE Resolved
  <2>1. PICK name : Write(cur, UpdateResolving(jobs[cur], name))
    BY <1>9 DEF Resolved
  <2> DEFINE row == UpdateResolving(jobs[cur], name)
  <2>2. row.gid = jobs[cur].gid /\ row.status = jobs[cur].status
    BY <1>a, StmtGid
  <2>3. row.deletedAt = jobs[cur].deletedAt /\ row.kind = jobs[cur].kind
    BY <1>a, StmtStatus, StmtColumns
  <2>4. pc = "resolve" /\ \E next \in {"prepare", "start"} : Goto(next)
    BY <1>9 DEF Resolved
  <2> HIDE DEF row
  <2>5. RowMoves(cur, row)
    BY <2>2, <2>3, <2>4, RowStays
  <2> QED
    BY <2>1, <2>4, <2>5, <1>a, WriteMoves DEF row, RunnerPC
<1>10. CASE \/ CountDownloading \/ NothingQueued \/ ClaimConflict \/ CheckDeleted
            \/ PrepareOutputForStart \/ RemoveControlFile \/ RemoveControlFileFailed \/ StartFailed
  <2>1. UNCHANGED <<jobs, gor, req>> /\ pc \notin {"schedule", "complete", "fail", "clear"}
    BY <1>10, RunnerLeaves DEF CountDownloading, NothingQueued, ClaimConflict, CheckDeleted,
         PrepareOutputForStart, RemoveControlFile, RemoveControlFileFailed, StartFailed,
         ReadOnly, storeVars
  <2>2. \E next \in {"idle", "claim", "requeue", "resolve", "start", "unlink", "startfail"} :
           Done(cur, next) \/ Goto(next)
    BY <1>10 DEF CountDownloading, NothingQueued, ClaimConflict, CheckDeleted,
         PrepareOutputForStart, RemoveControlFile, RemoveControlFileFailed, StartFailed
  <2>3. RunnerMoves(j)
    BY <2>1, <2>2, <1>a, MoveKept DEF RunnerPC
  <2> QED
    BY <2>1, <2>3, ReadMoves
<1> QED
  BY <1>1, <1>2, <1>3, <1>4, <1>5, <1>6, <1>7, <1>8, <1>9, <1>10, TellStatusMoves,
     DispatchMoves, StartMoves, RecordMoves DEF RunnerStep, RunnerJobStep

(* A step of a goroutine.                                                  *)
LEMMA WorkerStepMoves ==
    ASSUME Inv, NEW w \in Workers, WorkerNext(w), NEW j \in JobId
    PROVE  StepMoves(j)
<1> DEFINE id == gor[w].task.id
<1>a. /\ id \in JobId /\ StoreTypeOK /\ WorkerTypeOK /\ UNCHANGED <<req, localVars>>
  BY LifeTypes, TrackTypes DEF WorkerNext
<1>b. gor[w].pc # "none"
  BY DEF WorkerNext, WorkerStep, AcquireWorker, MegaDecrypted, MegaFailed,
         ArchiveSkipped, ArchiveDecrypted, ArchiveFailed, WorkerMarkCompleted, WorkerMarkFailed,
         WorkerClearPassword, WorkerStmt, UnmarkPending, ReleaseWorker
<1>c. \A v \in Workers : \/ gor'[v].pc = "none"
                         \/ gor'[v].task = gor[v].task /\ gor[v].pc # "none"
                         \/ gor'[v] = gor[v]
  BY <1>a, <1>b DEF WorkerNext, WorkerStep, AcquireWorker, MegaDecrypted, MegaFailed,
         ArchiveSkipped, ArchiveDecrypted, ArchiveFailed, WorkerMarkCompleted, WorkerMarkFailed,
         WorkerClearPassword, WorkerStmt, UnmarkPending, ReleaseWorker, StepTo, NoGor, WorkerTypeOK
<1>d. Over(id) /\ jobs[id] \in Row
  <2>1. AtWork(id)
    BY <1>b DEF AtWork
  <2> QED
    BY <2>1, <1>a, OverFacts, TrackTypes
<1>e. jobs' = jobs \/ \E row \in {MarkCompleted(jobs[id]), MarkPostprocessFailed(jobs[id]),
                                  ClearArchivePassword(jobs[id])} : Update(id, row)
  BY DEF WorkerNext, WorkerStep, AcquireWorker, MegaDecrypted, MegaFailed,
         ArchiveSkipped, ArchiveDecrypted, ArchiveFailed, WorkerMarkCompleted, WorkerMarkFailed,
         WorkerClearPassword, WorkerStmt, UnmarkPending, ReleaseWorker, storeVars
<1> HIDE DEF id
<1>1. RowMoves(j, jobs'[j])
  <2>1. CASE jobs' = jobs
    BY <2>1, RowStays
  <2>2. ASSUME NEW row \in {MarkCompleted(jobs[id]), MarkPostprocessFailed(jobs[id]),
                            ClearArchivePassword(jobs[id])}, Update(id, row)
        PROVE  RowMoves(j, jobs'[j])
    <3>1. row.status \in PreStatus => row.status = jobs[id].status
      BY <1>d, FreeOfCharge DEF PreStatus
    <3>2. RowMoves(id, row)
      BY <3>1, <1>a, <1>d, OverFacts, StmtMoves
    <3> QED
      BY <2>2, <3>2, <1>a, UpdateMoves
  <2> QED
    BY <2>1, <2>2, <1>e
<1>2. RunnerMoves(j)
  BY <1>a, RunnerQuiet
<1>3. OthersMove(j)
  <2>1. AtWork(j)' => AtWork(j)
    BY <1>c DEF AtWork
  <2>2. Asked(j, {"decrypting"})' => Asked(j, {"decrypting"})
    BY <1>a DEF Asked
  <2> QED
    BY <2>1, <2>2, OverFacts DEF OthersMove
<1> QED
  BY <1>1, <1>2, <1>3 DEF StepMoves

(* A task that aria2c still has, or reports as complete, was there before. *)
LEMMA OutcomeOwn ==
    ASSUME NEW g, NEW call \in Call \ {"none"}, NEW out \in CallOutcome(call, g)
    PROVE  out[1] = "complete" => tasks[g] = "complete"
<1>1. CASE call = "remove"
  BY <1>1 DEF CallOutcome, RemoveOutcome, Lost
<1>2. CASE call = "pause"
  BY <1>2 DEF CallOutcome, PauseOutcome, Lost
<1>3. CASE call = "unpause"
  BY <1>3 DEF CallOutcome, UnpauseOutcome, Lost
<1> QED
  BY <1>1, <1>2, <1>3 DEF Call

(* A step of a client.                                                     *)
LEMMA ClientStepMoves ==
    ASSUME Inv, NEW c \in Clients, ClientNext(c), NEW j \in JobId
    PROVE  StepMoves(j)
<1>a. /\ req \in [Clients -> Request] /\ req[c] \in Request
      /\ UNCHANGED localVars /\ gor' = gor
  <2>1. req \in [Clients -> Request] /\ req[c] \in Request
    BY TrackTypes
  <2> QED
    BY <2>1 DEF ClientNext, ServiceStep, Retry, Remove, Pause, Resume, Begin,
         EngineCall, Execute, workerVars
<1>b. AtWork(j)' => AtWork(j)
  BY <1>a DEF AtWork
<1>c. RunnerMoves(j)
  BY <1>a, RunnerQuiet
<1>1. ASSUME NEW id \in JobId, Retry(c, id) \/ Remove(c, id) \/ Pause(c, id) \/ Resume(c, id)
      PROVE  StepMoves(j)
  <2>1. PICK plan \in {RetryPlan(jobs[id]), RemovePlan(jobs[id]), PausePlan(jobs[id]), ResumePlan(jobs[id])} :
          /\ req' = [req EXCEPT ![c] = [call |-> plan.call, stmt |-> plan.stmt,
                                        id |-> id, gid |-> jobs[id].gid]]
          /\ UNCHANGED jobs
    BY <1>1 DEF Retry, Remove, Pause, Resume, Begin, storeVars
  <2>2. plan.stmt = "decrypting" => jobs[id].status = "decrypt_failed"
    BY DEF RetryPlan, RemovePlan, PausePlan, ResumePlan, Plan, NoPlan
  <2>3. plan.stmt = "decrypting" => Over(id)
    BY <2>2, OverFacts DEF PastStatus
  <2>4. req'[c].stmt = plan.stmt /\ req'[c].id = id /\ \A d \in Clients \ {c} : req'[d] = req[d]
    BY <2>1, <1>a
  <2>5. Asked(j, {"decrypting"})' => Asked(j, {"decrypting"}) \/ Over(j)
    BY <2>3, <2>4 DEF Asked
  <2>6. OthersMove(j)
    BY <2>5, <1>b, OverFacts DEF OthersMove
  <2> QED
    BY <2>1, <2>6, <1>c, RowStays DEF StepMoves
<1>2. CASE EngineCall(c)
  <2>1. UNCHANGED jobs /\ \E out : req' = [req EXCEPT ![c] = AfterCall(@, out[2])]
    BY <1>2 DEF EngineCall, storeVars
  <2>2. \A d \in Clients : req'[d].stmt = "decrypting" => req'[d] = req[d] \/
           (req[d].stmt = "decrypting" /\ req'[d].id = req[d].id)
    BY <2>1, <1>a DEF AfterCall, Request, NoRequest
  <2>3. Asked(j, {"decrypting"})' => Asked(j, {"decrypting"})
    BY <2>2 DEF Asked
  <2>4. OthersMove(j)
    BY <2>3, <1>b, OverFacts DEF OthersMove
  <2> QED
    BY <2>1, <2>4, <1>c, RowStays DEF StepMoves
<1>3. CASE Execute(c)
  <2> DEFINE id == req[c].id
             row == RowAfter(req[c].stmt, jobs[id])
  <2>1. /\ id \in JobId /\ req[c].stmt \in Stmt \ {"none"} /\ Update(id, row)
        /\ req' = [req EXCEPT ![c] = NoRequest]
    BY <1>3, <1>a DEF Execute, Request
  <2>2. jobs[id] \in Row /\ Asked(id, {req[c].stmt})
    BY <2>1, TrackTypes DEF Asked
  <2>3. ASSUME req[c].stmt = "remove" PROVE RowMoves(id, row)
    <3>1. row = RemoveRow(jobs[id]) /\ Asked(id, {"remove"})
      BY <2>2, <2>3 DEF RowAfter
    <3>2. row.kind = jobs[id].kind /\ row.filename \in {jobs[id].filename, "null"}
      BY <3>1, <2>2, StmtColumns
    <3>3. row.gid = jobs[id].gid /\ row.status = "deleted"
      BY <3>1, <2>2, StmtGid, FreeOfCharge
    <3> HIDE DEF row, id
    <3> QED
      BY <3>1, <3>2, <3>3 DEF RowMoves, PastStatus, PreStatus, Exists
  <2>4. ASSUME req[c].stmt \in {"requeue", "downloading"} PROVE RowMoves(id, row)
    <3>1. row \in {Requeue(jobs[id]), MarkDownloadingStatus(jobs[id])}
      BY <2>4 DEF RowAfter
    <3>2. row.status \notin PastStatus
      BY <3>1, <2>2, StmtGid, StmtStatus DEF PastStatus
    <3>3. Asked(id, {"requeue", "downloading"})
      BY <2>1, <2>4 DEF Asked
    <3> HIDE DEF row, id
    <3> QED
      BY <3>1, <3>2, <3>3, <2>1, StmtMoves
  <2>5. ASSUME req[c].stmt = "decrypting" PROVE RowMoves(id, row)
    <3>1. row = MarkDecryptingRetry(jobs[id])
      BY <2>5 DEF RowAfter
    <3>2. row.status \notin PreStatus
      BY <3>1, <2>2, FreeOfCharge DEF PreStatus
    <3>3. Over(id)
      BY <2>2, <2>5, OverFacts
    <3> HIDE DEF row, id
    <3> QED
      BY <3>1, <3>2, <3>3, <2>1, StmtMoves
  <2>6. ASSUME req[c].stmt = "pause" PROVE RowMoves(id, row)
    <3>1. row = MarkPaused(jobs[id]) /\ Asked(id, {"pause"})
      BY <2>2, <2>6 DEF RowAfter
    <3>2. row.kind = jobs[id].kind /\ row.filename \in {jobs[id].filename, "null"}
      BY <3>1, <2>2, StmtColumns
    <3>3. row.gid = jobs[id].gid /\ row.deletedAt = jobs[id].deletedAt /\ row.status = "paused"
      BY <3>1, <2>2, StmtGid, StmtStatus DEF MarkPaused, Row
    <3> HIDE DEF row, id
    <3> QED
      BY <3>1, <3>2, <3>3 DEF RowMoves, PastStatus, PreStatus, Exists
  <2>7. RowMoves(id, row)
    BY <2>1, <2>3, <2>4, <2>5, <2>6 DEF Stmt
  <2>8. \A d \in Clients : req'[d] = req[d] \/ req'[d] = NoRequest
    BY <2>1, <1>a
  <2> HIDE DEF id, row
  <2>9. Asked(j, {"decrypting"})' => Asked(j, {"decrypting"})
    BY <2>8 DEF Asked, NoRequest
  <2>10. OthersMove(j)
    BY <2>9, <1>b, OverFacts DEF OthersMove
  <2> QED
    BY <2>1, <2>7, <2>10, <1>c, UpdateMoves DEF StepMoves
<1> QED
  BY <1>1, <1>2, <1>3 DEF ClientNext, ServiceStep

(* A new job is one that nobody knew.                                      *)
LEMMA CreateMoves ==
    ASSUME Inv, TrackInv, LifeInv, NEW kind \in Kinds, Create(kind), UNCHANGED localVars,
           NEW j \in JobId
    PROVE  IF j = seq + 1 THEN Born(j) ELSE jobs'[j] = jobs[j] /\ files'[j] = files[j]
<1>a. /\ StoreTypeOK /\ EngineTypeOK /\ seq \in Nat /\ ListInv /\ UNCHANGED <<gor, req>>
      /\ jobs' = [jobs EXCEPT ![seq + 1] = NewRow(kind)]
      /\ files' = [files EXCEPT ![seq + 1] = "none"]
  BY TrackTypes DEF Create, CreateJob, workerVars
<1>1. CASE j # seq + 1
  BY <1>1, <1>a DEF StoreTypeOK, EngineTypeOK
<1>2. CASE j = seq + 1
  <2>1. jobs'[j].status = "queued" /\ jobs'[j].gid = NoGid /\ jobs'[j].deletedAt = "null"
    BY <1>2, <1>a DEF StoreTypeOK, NewRow
  <2>2. ~ Exists(jobs[j])
    BY <1>2, <1>a DEF TrackInv, RowTracked
  <2>3. ~ Known(j)
    BY <2>2 DEF LifeInv, LifeOf
  <2>4. ~ Known(j)'
    BY <2>3, <1>a DEF Known, AtWork, localVars
  <2>5. ~ (cur = j /\ pc \in {"schedule", "complete", "fail", "clear", "mark", "apply", "record"})
    BY <2>3, <1>a DEF ListInv, Known, Held
  <2>6. ~ Finishing(j)' /\ ~ Ending(j)' /\ ~ Recording(j)'
    BY <2>5 DEF Finishing, Ending, Recording, localVars
  <2> QED
    BY <1>2, <2>1, <2>2, <2>4, <2>6 DEF Born
<1> QED  BY <1>1, <1>2

LEMMA BulkStepMoves ==
    ASSUME Inv, TrackInv, LifeInv, "purge" \notin Ops, BulkNext, NEW j \in JobId
    PROVE  StepMoves(j)
<1>a. jobs[j] \in Row /\ UNCHANGED <<gor, req, localVars>>
  <2>1. jobs[j] \in Row
    BY TrackTypes
  <2> QED
    BY <2>1 DEF BulkNext, BulkStep, Create, Clear, Purge, workerVars
<1>b. RunnerMoves(j) /\ OthersMove(j)
  BY <1>a, RunnerQuiet, OthersQuiet
<1>1. ASSUME NEW kind \in Kinds, Create(kind) PROVE RowMoves(j, jobs'[j]) \/ Born(j)
  BY <1>1, <1>a, CreateMoves, RowStays
<1>2. CASE Clear
  <2>1. jobs'[j] = jobs[j] \/ (jobs[j].status = "completed" /\ jobs'[j] = RemoveRow(jobs[j]))
    BY <1>2 DEF Clear, ClearCompleted
  <2>2. /\ RemoveRow(jobs[j]).status = "deleted" /\ RemoveRow(jobs[j]).kind = jobs[j].kind
        /\ RemoveRow(jobs[j]).filename \in {jobs[j].filename, "null"}
        /\ RemoveRow(jobs[j]).gid = jobs[j].gid
    BY <1>a, StmtGid, StmtColumns, FreeOfCharge
  <2>3. jobs[j].status = "completed" => RowMoves(j, RemoveRow(jobs[j]))
    BY <2>2 DEF RowMoves, PastStatus, PreStatus, Exists
  <2> QED
    BY <2>1, <2>3, <1>b, RowStays DEF StepMoves
<1> QED
  BY <1>b, <1>1, <1>2 DEF BulkNext, BulkStep, Purge, StepMoves

(* Every step but a purge.                                                 *)
LEMMA EveryStepMoves ==
    ASSUME Inv, TrackInv, LifeInv, "purge" \notin Ops, [Next]_vars, NEW j \in JobId
    PROVE  StepMoves(j)
<1>1. CASE \/ \E v \in AutoModes : SetAutoDecrypt(v)
           \/ \E g \in Gids : EngineNext(g)
           \/ EngineRestart \/ UNCHANGED vars
  <2>1. UNCHANGED <<jobs, gor, req, localVars>>
    BY <1>1 DEF SetAutoDecrypt, EngineNext, EngineRestart, vars, storeVars, workerVars
  <2> QED
    BY <2>1, RunnerQuiet, ReadMoves
<1>2. ASSUME NEW k \in JobId, TimerNext(k) PROVE StepMoves(j)
  <2>1. UNCHANGED <<gor, req, localVars>>
    BY <1>2 DEF TimerNext, workerVars
  <2>2. /\ jobs'[j].status = jobs[j].status /\ jobs'[j].gid = jobs[j].gid
        /\ jobs'[j].kind = jobs[j].kind /\ jobs'[j].deletedAt = jobs[j].deletedAt
        /\ jobs'[j].filename = jobs[j].filename
    BY <1>2, TrackTypes DEF TimerNext, RetryTimer, StoreTypeOK, Row
  <2> QED
    BY <2>1, <2>2, RowStays, RunnerQuiet, OthersQuiet DEF StepMoves
<1>3. CASE DaemonCrash
  <2>1. /\ UNCHANGED jobs /\ ~ Exists(snap'[j]) /\ pc' = "idle"
        /\ \A w \in Workers : gor'[w].pc = "none"
        /\ \A c \in Clients : req'[c].stmt = "none"
    BY <1>3 DEF DaemonCrash, storeVars, NoRow, NewRow, NoGor, NoRequest, Exists
  <2>2. OthersMove(j)
    BY <2>1 DEF OthersMove, AtWork, Asked
  <2>3. RunnerMoves(j)
    BY <2>1 DEF RunnerMoves, Finishing, Ending, Recording
  <2> QED
    BY <2>1, <2>2, <2>3, RowStays DEF StepMoves
<1> QED
  BY <1>1, <1>2, <1>3, RunnerStepMoves, WorkerStepMoves, ClientStepMoves, BulkStepMoves
     DEF Next, RunnerNext

(* addUri for the claimed job, under a gid that nothing refers to.         *)
LEMMA StartTask ==
    ASSUME Inv, Started \/ StartLost, NEW g \in Gids
    PROVE  TaskMoves(g) /\ UNCHANGED files
<1>a. EngineTypeOK /\ pc = "start"
  BY TrackTypes DEF Started, StartLost
<1>1. PICK h \in Gids : /\ Fresh(h) /\ tasks' = [tasks EXCEPT ![h] = "active"]
                        /\ owner' = [owner EXCEPT ![h] = [job |-> cur, kind |-> snap[cur].kind]]
                        /\ abandoned' \in {abandoned \ {h}, abandoned \cup {h}} /\ UNCHANGED files
  BY DEF Started, StartLost, AddURI
<1>2. CASE g = h
  <2>1. owner'[g].job = cur /\ owner'[g].kind = snap[cur].kind
    BY <1>1, <1>2, <1>a DEF EngineTypeOK
  <2> QED
    BY <1>1, <1>2, <1>a, <2>1 DEF TaskMoves, StartedFor
<1>3. CASE g # h
  <2>1. tasks'[g] = tasks[g] /\ owner'[g] = owner[g] /\ (g \in abandoned => g \in abandoned')
    BY <1>1, <1>3, <1>a DEF EngineTypeOK
  <2> QED
    BY <1>1, <2>1 DEF TaskMoves
<1> QED
  BY <1>1, <1>2, <1>3

(* Every step but a purge, seen from aria2c.                               *)
LEMMA EveryTaskMoves ==
    ASSUME Inv, "purge" \notin Ops, [Next]_vars, NEW g \in Gids
    PROVE  TaskMoves(g)
<1>a. EngineTypeOK /\ req \in [Clients -> Request]
  BY TrackTypes
<1>0. ASSUME UNCHANGED <<tasks, owner>>, abandoned \subseteq abandoned' PROVE TaskMoves(g)
  BY <1>0 DEF TaskMoves
<1>1. ASSUME NEW c \in Clients, EngineCall(c) PROVE TaskMoves(g)
  <2> DEFINE h == req[c].gid
  <2>1. h \in Gids /\ req[c].call \in Call \ {"none"} /\ UNCHANGED abandoned
    BY <1>1, <1>a DEF EngineCall, Inv, RequestInv, Request
  <2>2. PICK out \in CallOutcome(req[c].call, h) :
           /\ tasks' = [tasks EXCEPT ![h] = out[1]]
           /\ owner' = [owner EXCEPT ![h] = IF out[1] \in Live THEN @ ELSE NoOwner]
    BY <1>1 DEF EngineCall
  <2>3. /\ out[1] \in Live => tasks[h] \in Live
        /\ out[1] = "complete" => tasks[h] = "complete"
    BY <2>1, OutcomeTracked, OutcomeOwn
  <2> HIDE DEF h
  <2>4. /\ tasks'[g] \in Live => tasks[g] \in Live /\ owner'[g] = owner[g]
        /\ owner'[g].job # 0 => owner'[g] = owner[g]
        /\ tasks'[g] = "complete" => tasks[g] = "complete"
    BY <2>1, <2>2, <2>3, <1>a DEF EngineTypeOK, NoOwner
  <2> QED
    BY <2>1, <2>4 DEF TaskMoves
<1>2. ASSUME NEW h \in Gids, Finish(h) \/ Fail(h) PROVE TaskMoves(g)
  <2>1. /\ tasks[h] = "active" /\ UNCHANGED abandoned /\ owner' = [owner EXCEPT ![h] = NoOwner]
        /\ tasks' \in {[tasks EXCEPT ![h] = "complete"], [tasks EXCEPT ![h] = "error"]}
    BY <1>2 DEF Finish, Fail
  <2>2. CASE g # h
    BY <2>1, <2>2, <1>a DEF TaskMoves, EngineTypeOK
  <2>3. CASE g = h
    <3>1. owner'[g].job = 0 /\ tasks'[g] \in {"complete", "error"} /\ tasks[g] = "active"
      BY <2>1, <2>3, <1>a DEF EngineTypeOK, NoOwner
    <3>2. tasks'[g] = "complete" => Finish(h)
      BY <1>2, <2>3, <1>a DEF Fail, EngineTypeOK
    <3>3. tasks'[g] = "complete" => files' = [j \in JobId |-> IF j = owner[g].job
                                                THEN Serves(owner[g].kind) ELSE files[j]]
      BY <3>2, <2>3 DEF Finish
    <3> HIDE <1>2
    <3>4. tasks'[g] = "complete" /\ owner[g].job \in JobId => files'[owner[g].job] # "none"
      BY <3>3 DEF Serves
    <3> QED
      BY <3>1, <3>4 DEF TaskMoves, Live
  <2> QED  BY <2>2, <2>3
<1>3. CASE ForgetTasks
  BY <1>3 DEF ForgetTasks, TaskMoves, Live, NoOwner
<1>4. CASE \/ \E w \in Workers : WorkerNext(w)
           \/ \E j \in JobId : TimerNext(j)
           \/ \E v \in AutoModes : SetAutoDecrypt(v)
           \/ DaemonCrash \/ UNCHANGED vars
  <2>1. UNCHANGED <<tasks, owner>> /\ abandoned \subseteq abandoned'
    BY <1>4 DEF WorkerNext, WorkerStep, AcquireWorker, MegaDecrypted, MegaFailed,
         ArchiveSkipped, ArchiveDecrypted, ArchiveFailed, WorkerMarkCompleted, WorkerMarkFailed,
         WorkerClearPassword, WorkerStmt, UnmarkPending, ReleaseWorker, engineVars, TimerNext,
         SetAutoDecrypt, DaemonCrash, vars
  <2> QED  BY <2>1, <1>0
<1>5. ASSUME NEW c \in Clients, ClientNext(c) PROVE TaskMoves(g)
  <2>1. EngineCall(c) \/ (UNCHANGED <<tasks, owner>> /\ abandoned \subseteq abandoned')
    BY <1>5 DEF ClientNext, ServiceStep, Retry, Remove, Pause, Resume, Begin, Execute, engineVars
  <2> QED  BY <2>1, <1>0, <1>1
<1>6. CASE BulkNext
  <2>1. UNCHANGED <<tasks, owner, abandoned>>
    BY <1>6 DEF BulkNext, BulkStep, Create, Clear, Purge, engineVars
  <2> QED  BY <2>1, <1>0
<1>7. CASE RunnerStep
  <2>1. \/ Started \/ StartLost
        \/ UNCHANGED <<tasks, owner>> /\ abandoned \subseteq abandoned'
    BY <1>7 DEF RunnerStep, RunnerJobStep, TellStatus, Dispatch, AutoRequeue, ClaimNextQueued,
         ListActive, ApplyFailed, ApplyProgress, ApplyComplete, ListPending, RunnerMarkDecrypting,
         RunnerSchedule, RunnerMarkCompleted, RunnerMarkPostprocessFailed, RunnerClearPassword,
         ListRetryable, CountDownloading, NothingQueued, ClaimConflict, CheckDeleted, Resolved,
         ResolveFailed, PrepareOutputForStart, RemoveControlFile, RemoveControlFileFailed,
         StartFailed, RunnerMarkFailed, RunnerMarkDownloading, DispatchSkip, DispatchNothingToDo,
         DispatchNoPath, DispatchWait, DispatchTaskReady, Dispatching, Load, Write, ReadOnly, engineVars
  <2> QED  BY <2>1, <1>0, StartTask
<1> QED
  BY <1>2, <1>3, <1>4, <1>5, <1>6, <1>7 DEF Next, RunnerNext, EngineNext, EngineRestart

(* A download that has arrived for the job.                                *)
Arrives(g, j) == tasks[g] = "active" /\ owner[g].job = j /\ files'[j] = Serves(owner[g].kind)

(* And from the files: one arrives, is decrypted, or is that of a new job. *)
LEMMA FilesMove ==
    ASSUME Inv, TrackInv, LifeInv, "purge" \notin Ops, [Next]_vars, NEW j \in JobId
    PROVE  \/ files'[j] = files[j]
           \/ files'[j] = "plain" /\ HasFile(j)
           \/ files'[j] = "none" /\ Born(j)
           \/ \E g \in Gids : Arrives(g, j)
<1>a. EngineTypeOK
  BY TrackTypes
<1>1. ASSUME NEW w \in Workers, WorkerNext(w)
      PROVE  files'[j] = files[j] \/ (files'[j] = "plain" /\ HasFile(j))
  <2>1. \/ files' = files
        \/ /\ files[gor[w].task.id] = "cipher"
           /\ files' = [files EXCEPT ![gor[w].task.id] = "plain"]
    BY <1>1 DEF WorkerNext, WorkerStep, AcquireWorker, MegaDecrypted, MegaFailed,
         ArchiveSkipped, ArchiveDecrypted, ArchiveFailed, WorkerMarkCompleted, WorkerMarkFailed,
         WorkerClearPassword, WorkerStmt, UnmarkPending, ReleaseWorker, engineVars
  <2> QED
    BY <2>1, <1>a DEF EngineTypeOK, HasFile
<1>2. ASSUME NEW c \in Clients, ClientNext(c) PROVE UNCHANGED files
  BY <1>2 DEF ClientNext, ServiceStep, Retry, Remove, Pause, Resume, Begin, EngineCall, Execute,
     engineVars
<1>3. ASSUME NEW g \in Gids, EngineNext(g) PROVE files'[j] = files[j] \/ Arrives(g, j)
  BY <1>3 DEF EngineNext, Finish, Fail, Arrives
<1>4. CASE BulkNext
  <2>1. ASSUME NEW kind \in Kinds, Create(kind)
        PROVE  files'[j] = files[j] \/ (files'[j] = "none" /\ Born(j))
    <3>1. j = seq + 1 => files'[j] = "none"
      BY <2>1, <1>a DEF Create, EngineTypeOK
    <3> QED
      BY <2>1, <3>1, <1>4, CreateMoves DEF BulkNext
  <2>2. CASE Clear
    BY <2>2 DEF Clear, engineVars
  <2> QED
    BY <1>4, <2>1, <2>2 DEF BulkNext, BulkStep, Purge
<1>5. CASE RunnerStep
  <2>1. Started \/ StartLost \/ UNCHANGED files
    BY <1>5 DEF RunnerStep, RunnerJobStep, TellStatus, Dispatch, AutoRequeue, ClaimNextQueued,
         ListActive, ApplyFailed, ApplyProgress, ApplyComplete, ListPending, RunnerMarkDecrypting,
         RunnerSchedule, RunnerMarkCompleted, RunnerMarkPostprocessFailed, RunnerClearPassword,
         ListRetryable, CountDownloading, NothingQueued, ClaimConflict, CheckDeleted, Resolved,
         ResolveFailed, PrepareOutputForStart, RemoveControlFile, RemoveControlFileFailed,
         StartFailed, RunnerMarkFailed, RunnerMarkDownloading, DispatchSkip, DispatchNothingToDo,
         DispatchNoPath, DispatchWait, DispatchTaskReady, Dispatching, Load, Write, ReadOnly, engineVars
  <2> QED
    BY <2>1 DEF Started, StartLost, AddURI
<1>6. CASE \/ \E k \in JobId : TimerNext(k)
           \/ \E v \in AutoModes : SetAutoDecrypt(v)
           \/ DaemonCrash \/ EngineRestart \/ UNCHANGED vars
  BY <1>6 DEF TimerNext, SetAutoDecrypt, DaemonCrash, EngineRestart, ForgetTasks, vars, engineVars
<1> QED
  BY <1>1, <1>2, <1>3, <1>4, <1>5, <1>6 DEF Next, RunnerNext

LEMMA FilesStay ==
    ASSUME Inv, TrackInv, LifeInv, "purge" \notin Ops, [Next]_vars, NEW j \in JobId, HasFile(j)
    PROVE  HasFile(j)' \/ Born(j)
<1>1. \A g : Arrives(g, j) => HasFile(j)'
  BY DEF Arrives, Serves, HasFile
<1> QED
  BY <1>1, FilesMove DEF HasFile

(* What a job is does not change while it exists.                          *)
LEMMA KindStays ==
    ASSUME Inv, TrackInv, LifeInv, "purge" \notin Ops, [Next]_vars, NEW j \in JobId, Exists(jobs[j])
    PROVE  Exists(jobs'[j]) /\ jobs'[j].kind = jobs[j].kind
<1>1. StepMoves(j) /\ ~ Born(j)
  BY EveryStepMoves DEF Born
<1> QED
  BY <1>1 DEF StepMoves, RowMoves

(* A job whose download is over after a step was over before it, or aria2c *)
(* had completed it; one that prepares for a download did before, unless a *)
(* client asked for it.                                                    *)
LEMMA OverBefore ==
    ASSUME NEW j \in JobId, StepMoves(j)
    PROVE  /\ (Past(j) \/ Ending(j))' => Over(j) /\ ~ Born(j)
           /\ Preparing(j)' => \/ Preparing(j) \/ Asked(j, {"requeue", "downloading"})
                               \/ Born(j)
<1>1. CASE Born(j)
  BY <1>1 DEF Born, Past, Known, PastStatus, Downloaded, Exists, Asked
<1>2. CASE ~ Born(j)
  <2>1. Downloaded(j)' => Over(j)
    <3>1. jobs[j].status \in {"decrypting", "completed"} => Over(j)
      BY OverFacts DEF PastStatus
    <3> QED
      BY <3>1, OverFacts DEF StepMoves, RunnerMoves, Downloaded, Exists
  <2>2. (Past(j) \/ Ending(j))' => Over(j)
    BY <1>2, <2>1 DEF Past, StepMoves, RowMoves, RunnerMoves, OthersMove
  <2>3. jobs'[j].status \in PreStatus => Preparing(j) \/ Asked(j, {"requeue", "downloading"})
    BY <1>2 DEF StepMoves, RowMoves
  <2>4. snap'[j].status \in PreStatus /\ ~ Finishing(j)' => Preparing(j)
    <3> SUFFICES ASSUME snap'[j].status \in PreStatus, ~ Finishing(j)' PROVE Preparing(j)
      OBVIOUS
    <3>1. Exists(snap'[j])
      BY DEF PreStatus, Exists
    <3>2. ~ Finishing(j)
      BY <3>1 DEF StepMoves, RunnerMoves
    <3>3. jobs[j].status = "queued" => Preparing(j)
      BY DEF Preparing, PreStatus
    <3> QED
      BY <3>1, <3>2, <3>3 DEF StepMoves, RunnerMoves, Preparing
  <2> QED
    BY <1>2, <2>2, <2>3, <2>4 DEF Preparing
<1> QED  BY <1>1, <1>2

----------------------------------------------------------------------------
(* A completed job has its file.                                           *)

(* The task, if it runs, runs for the job; if complete, the file is there. *)
Own(j, g) == g = NoGid \/ /\ tasks[g] \in Live => owner[g].job = j
                          /\ tasks[g] = "complete" => files[j] # "none"

(* The same of a gid known now, after the step.                            *)
OwnNext(j, g) == g = NoGid \/ /\ tasks'[g] \in Live => owner'[g].job = j
                              /\ tasks'[g] = "complete" => files'[j] # "none"

FileOf(j) ==
    /\ Past(j) \/ Ending(j) => HasFile(j)
    /\ Own(j, jobs[j].gid)
    /\ Polled(j) => Own(j, snap[j].gid)
    /\ Recording(j) => Own(j, hand)

FileInv == \A j \in JobId : FileOf(j)

(* What FileOf says, taken apart.                                          *)
LEMMA FileFacts ==
    ASSUME FileInv, NEW j \in JobId
    PROVE  /\ jobs[j].status \in PastStatus => HasFile(j)
           /\ AtWork(j) => HasFile(j)
           /\ Asked(j, {"decrypting"}) => HasFile(j)
           /\ Downloaded(j) => HasFile(j)
           /\ Finishing(j) \/ Ending(j) => HasFile(j)
           /\ Over(j) => HasFile(j)
<1>1. Told(j) => HasFile(j)
  BY DEF FileInv, FileOf, Told, Polled, Own, HasFile
<1> QED
  BY <1>1 DEF FileInv, FileOf, Past, Over

(* A gid that was the job's own stays so, unless it is used anew.          *)
LEMMA OwnKept ==
    ASSUME NEW j \in JobId, NEW g \in Gids \cup {NoGid}, Own(j, g), HasFile(j) => HasFile(j)',
           g # NoGid => TaskMoves(g) /\ ~ StartedFor(g)
    PROVE  OwnNext(j, g)
BY DEF Own, OwnNext, TaskMoves, Live, HasFile

LEMMA FileStep ==
    ASSUME Inv, TrackInv, LifeInv, FileInv, "purge" \notin Ops, [Next]_vars
    PROVE  FileInv'
<1> SUFFICES ASSUME NEW j \in JobId PROVE FileOf(j)'
  BY DEF FileInv
<1>a. /\ jobs[j].gid \in Gids \cup {NoGid} /\ snap[j].gid \in Gids \cup {NoGid}
      /\ pc = "record" => hand \in Gids
  BY TrackTypes DEF Inv, HandInv
<1>b. StepMoves(j) /\ \A g \in Gids : TaskMoves(g)
  BY EveryStepMoves, EveryTaskMoves
<1>1. CASE Born(j)
  <2>1. ~ (Past(j) \/ Ending(j))'
    BY <1>1, <1>b, OverBefore
  <2> QED
    BY <1>1, <2>1 DEF FileOf, Born, Known, Polled, Exists, Own
<1>2. CASE ~ Born(j)
  <2>a. (HasFile(j) => HasFile(j)') /\ FileOf(j)
    BY <1>2, FilesStay DEF FileInv
  <2>b. /\ jobs[j].gid # NoGid => ~ StartedFor(jobs[j].gid)
        /\ snap[j].gid # NoGid => ~ StartedFor(snap[j].gid)
        /\ pc = "record" => ~ StartedFor(hand)
    BY DEF StartedFor, Fresh
  <2>c. /\ OwnNext(j, jobs[j].gid)
        /\ Polled(j) => OwnNext(j, snap[j].gid)
        /\ Recording(j) => OwnNext(j, hand)
    BY <2>a, <2>b, <1>a, <1>b, OwnKept DEF FileOf, Recording
  <2>1. (Past(j) \/ Ending(j))' => HasFile(j)'
    BY <2>a, <1>b, OverBefore, FileFacts
  <2>2. OwnNext(j, jobs'[j].gid)
    BY <2>c, <1>2, <1>b DEF StepMoves, RowMoves, OwnNext
  <2>3. Polled(j)' => OwnNext(j, snap'[j].gid)
    <3> SUFFICES ASSUME Polled(j)' PROVE OwnNext(j, snap'[j].gid)
      OBVIOUS
    <3>1. snap'[j] \in {snap[j], jobs[j]}
      BY <1>b DEF StepMoves, RunnerMoves, Polled, Exists
    <3> QED
      BY <3>1, <2>c DEF Polled
  <2>4. Recording(j)' => OwnNext(j, hand')
    BY <2>c, <1>b DEF StepMoves, RunnerMoves, OwnNext
  <2> QED
    BY <2>1, <2>2, <2>3, <2>4 DEF FileOf, Own, OwnNext
<1> QED  BY <1>1, <1>2

LEMMA FileInit == Init => FileInv
<1> SUFFICES ASSUME Init, NEW j \in JobId PROVE FileOf(j)
  BY DEF FileInv
<1>1. /\ jobs[j].status = "none" /\ jobs[j].gid = NoGid /\ snap[j].status = "none" /\ pc = "idle"
      /\ \A w \in Workers : gor[w].pc = "none"
      /\ \A c \in Clients : req[c].stmt = "none"
  BY DEF Init, StoreInit, RunnerStopped, WorkerInit, ServiceInit, NoGor, NoRequest, NoRow, NewRow
<1> QED
  BY <1>1 DEF FileOf, Past, PastStatus, Downloaded, AtWork, Asked, Finishing, Ending, Polled, Own, Recording

(***************************************************************************)
(* As long as the queue is not purged, no job is shown as completed or as  *)
(* being post-processed before its file has arrived, however the polls of  *)
(* updateActive, the goroutines, the requests of clients, aria2c's         *)
(* restarts and crashes of dlqd interleave (updateActive, MarkDownloading, *)
(* dispatchCompletedDecrypt, runDecrypt).                                  *)
(***************************************************************************)
THEOREM CompletedDownloaded == "purge" \notin Ops => (Spec => []CompletedWasDownloaded)
<1> SUFFICES ASSUME "purge" \notin Ops PROVE Spec => []CompletedWasDownloaded
  OBVIOUS
<1>1. Inv /\ TrackInv /\ LifeInv /\ [Next]_vars => LifeInv'
  BY LifeStep
<1>2. Inv /\ TrackInv /\ LifeInv /\ FileInv /\ [Next]_vars => FileInv'
  BY FileStep
<1>3. FileInv => CompletedWasDownloaded
  BY FileFacts DEF CompletedWasDownloaded, PastStatus, HasFile
<1> QED
  BY <1>1, <1>2, <1>3, InitLife, FileInit, TrackInit, TrackStep, Invariance, PTL DEF Spec

----------------------------------------------------------------------------
(* A file arrives once.  A job that the runner could start, or mark as     *)
(* failed so that it is started again, has no file; a job with a file is   *)
(* recorded only under a gid whose task is complete.                       *)

StartStatus == {"queued", "resolving", "failed"}

(* aria2c has told the runner that the download is gone or has failed.     *)
Refused(j) == pc = "apply" /\ cur = j /\ reply \in {"not_found", "error"}

Starting(j) ==
    /\ ~ Recording(j)
    /\ \/ jobs[j].status \in StartStatus
       \/ snap[j].status \in {"resolving", "failed"}
       \/ Refused(j)

Tied(j, g) == HasFile(j) => g = NoGid \/ tasks[g] = "complete"

OnceOf(j) ==
    /\ Starting(j) => ~ HasFile(j)
    /\ Polled(j) => Tied(j, snap[j].gid)
    /\ jobs[j].status = "downloading" => Tied(j, jobs[j].gid)
    /\ Recording(j) => Tied(j, hand)

(* No request but pause is in flight, and no task that runs is forgotten.  *)
RequestsPause ==
    \A c \in Clients : req[c].call \in {"none", "pause"} /\ req[c].stmt \in {"none", "pause"}

NoneLost == \A g \in abandoned : tasks[g] \notin Live

OnceInv == RequestsPause /\ NoneLost /\ \A j \in JobId : OnceOf(j)

(* What nobody's interference means: clients only add, pause and clear     *)
(* jobs, no call to aria2c is lost and neither it nor dlqd is restarted.   *)
Undisturbed == Ops \subseteq {"create", "pause", "clear"} /\ Lossy = FALSE /\ MaxCrashes = 0

(* A step keeps OnceOf if it makes nothing startable that has a file and   *)
(* records no gid that is not tied to it.                                  *)
RowOnce(j) ==
    \/ jobs'[j].status = jobs[j].status /\ jobs'[j].gid = jobs[j].gid
    \/ jobs'[j].status \notin StartStatus \cup {"downloading"}
    \/ jobs'[j].status \in StartStatus /\ ~ HasFile(j)
    \/ jobs'[j].status = "downloading" /\ Tied(j, jobs'[j].gid)

RunnerOnce(j) ==
    /\ Recording(j) <=> Recording(j)'
    /\ Recording(j)' => hand' = hand
    /\ Refused(j)' => ~ HasFile(j)
    /\ \/ snap'[j] = snap[j] \/ snap'[j] = jobs[j] \/ snap'[j].status = "none"
       \/ snap'[j].status = "resolving" /\ ~ HasFile(j)

EngineOnce(j) ==
    /\ HasFile(j)' => HasFile(j)
    /\ \A g \in Gids : tasks[g] = "complete" => tasks'[g] = "complete"

(* Being tied to a gid known now, after the step.                          *)
TiedNext(j, g) == HasFile(j)' => g = NoGid \/ tasks'[g] = "complete"

LEMMA OnceKept ==
    ASSUME Inv, NEW j \in JobId, OnceOf(j), RowOnce(j), RunnerOnce(j), EngineOnce(j),
           jobs'[j].gid \in Gids \cup {NoGid}
    PROVE  OnceOf(j)'
<1>a. /\ jobs[j].gid \in Gids \cup {NoGid} /\ snap[j].gid \in Gids \cup {NoGid}
      /\ hand \in Gids \cup {NoGid}
  BY TrackTypes DEF RunnerTypeOK
<1>b. \A g \in Gids \cup {NoGid} : Tied(j, g) => TiedNext(j, g)
  BY DEF EngineOnce, Tied, TiedNext
<1>c. HasFile(j)' => HasFile(j)
  BY DEF EngineOnce
<1>1. Starting(j)' => ~ HasFile(j)'
  <2> SUFFICES ASSUME Starting(j)' PROVE ~ HasFile(j)
    BY <1>c
  <2>1. ~ Recording(j) /\ (Starting(j) => ~ HasFile(j))
    BY DEF RunnerOnce, Starting, OnceOf
  <2>2. CASE jobs'[j].status \in StartStatus
    <3>1. jobs[j].status \in StartStatus => ~ HasFile(j)
      BY <2>1 DEF Starting
    <3> QED
      BY <2>2, <3>1 DEF RowOnce, StartStatus
  <2>3. CASE snap'[j].status \in {"resolving", "failed"}
    <3>1. snap[j].status \in {"resolving", "failed"} => ~ HasFile(j)
      BY <2>1 DEF Starting
    <3>2. jobs[j].status \in {"resolving", "failed"} => ~ HasFile(j)
      BY <2>1 DEF Starting, StartStatus
    <3> QED
      BY <2>3, <3>1, <3>2 DEF RunnerOnce
  <2>4. CASE Refused(j)'
    BY <2>4 DEF RunnerOnce
  <2> QED
    BY <2>2, <2>3, <2>4 DEF Starting
<1>2. Polled(j)' => TiedNext(j, snap'[j].gid)
  <2> SUFFICES ASSUME Polled(j)' PROVE Tied(j, snap'[j].gid) /\ snap'[j].gid \in Gids \cup {NoGid}
    BY <1>b
  <2>1. snap'[j].status = "downloading" /\ (snap'[j] = snap[j] \/ snap'[j] = jobs[j])
    BY DEF RunnerOnce, Polled
  <2>2. snap'[j] = snap[j] => Polled(j)
    BY DEF Polled
  <2> QED
    BY <2>1, <2>2, <1>a DEF OnceOf
<1>3. jobs'[j].status = "downloading" => TiedNext(j, jobs'[j].gid)
  <2> SUFFICES ASSUME jobs'[j].status = "downloading" PROVE Tied(j, jobs'[j].gid)
    BY <1>b
  <2> QED
    BY DEF RowOnce, OnceOf, StartStatus
<1>4. Recording(j)' => TiedNext(j, hand')
  BY <1>a, <1>b DEF RunnerOnce, OnceOf
<1> QED
  BY <1>1, <1>2, <1>3, <1>4 DEF OnceOf, Tied, TiedNext

(* What OnceOf says, taken apart.                                          *)
LEMMA OnceFacts ==
    ASSUME OnceInv, NEW j \in JobId, ~ Recording(j)
    PROVE  /\ jobs[j].status \in StartStatus => ~ HasFile(j)
           /\ snap[j].status \in {"resolving", "failed"} => ~ HasFile(j)
           /\ Refused(j) => ~ HasFile(j)
           /\ Polled(j) => Tied(j, snap[j].gid)
BY DEF OnceInv, OnceOf, Starting

(* Nothing changes for aria2c and the files.                               *)
LEMMA EngineOnceQuiet ==
    ASSUME UNCHANGED <<tasks, files>>, NEW j
    PROVE  EngineOnce(j)
BY DEF EngineOnce, HasFile

(* A job on the list of the start loop has no file.                        *)
LEMMA ClaimedHasNoFile ==
    ASSUME Inv, OnceInv, pc \in {"check", "resolve", "prepare", "unlink", "start", "startfail"}
    PROVE  cur \in JobId /\ snap[cur].status = "resolving" /\ ~ HasFile(cur)
<1>1. cur \in Held /\ cur \in JobId
  BY TrackTypes DEF ListInv
<1>2. snap[cur].status = "resolving"
  BY <1>1, TrackTypes DEF ListInv
<1> QED
  BY <1>1, <1>2, OnceFacts DEF Recording

(* A statement about one job.                                              *)
LEMMA UpdateOnce ==
    ASSUME Inv, NEW id \in JobId, NEW row, Update(id, row),
           \/ row.status = jobs[id].status /\ row.gid = jobs[id].gid
           \/ row.status \notin StartStatus \cup {"downloading"}
           \/ row.status \in StartStatus /\ ~ HasFile(id)
           \/ row.status = "downloading" /\ Tied(id, row.gid),
           NEW j \in JobId
    PROVE  RowOnce(j)
<1>1. StoreTypeOK
  BY TrackTypes
<1>2. jobs'[j] = jobs[j] \/ (j = id /\ jobs'[j] = row)
  BY <1>1, UpdateRow
<1> QED
  BY <1>2 DEF RowOnce

(* The runner drops a job or goes on with it.                              *)
LEMMA MoveOnce ==
    ASSUME Inv, pc # "record", NEW id \in JobId, NEW next \in RunnerPC \ {"record", "apply"},
           Done(id, next) \/ (pc' = next /\ UNCHANGED snap), NEW j \in JobId
    PROVE  RunnerOnce(j)
<1>1. RunnerTypeOK
  BY TrackTypes
<1>2. snap'[j] = snap[j] \/ snap'[j].status = "none"
  BY <1>1, DoneRow
<1>3. pc' = next
  BY DEF Done
<1> QED
  BY <1>2, <1>3 DEF RunnerOnce, Recording, Refused

(* A step that leaves the tasks, the files and the requests alone.         *)
LEMMA QuietOnce ==
    ASSUME Inv, TypeOK', OnceInv, UNCHANGED <<tasks, files, req, abandoned>>,
           \A j \in JobId : RowOnce(j) /\ RunnerOnce(j)
    PROVE  OnceInv'
<1>1. ASSUME NEW j \in JobId PROVE OnceOf(j)'
  <2>1. jobs'[j].gid \in Gids \cup {NoGid}
    BY DEF TypeOK, StoreTypeOK, Row
  <2>2. OnceOf(j) /\ RowOnce(j) /\ RunnerOnce(j)
    BY DEF OnceInv
  <2> QED
    BY <2>1, <2>2, EngineOnceQuiet, OnceKept
<1> QED
  BY <1>1 DEF OnceInv, RequestsPause, NoneLost

(* The steps of the runner that talk to neither aria2c nor a row, and its  *)
(* statements.                                                             *)
LEMMA ReadOnce ==
    ASSUME Inv, TypeOK', OnceInv, UNCHANGED <<jobs, tasks, files, req, abandoned>>,
           \A j \in JobId : RunnerOnce(j)
    PROVE  OnceInv'
<1>1. \A j \in JobId : RowOnce(j)
  BY DEF RowOnce
<1> QED
  BY <1>1, QuietOnce

LEMMA WriteOnce ==
    ASSUME Inv, TypeOK', OnceInv, NEW id \in JobId, NEW row, Write(id, row), pc # "record",
           \/ row.status = jobs[id].status /\ row.gid = jobs[id].gid
           \/ row.status \notin StartStatus \cup {"downloading"}
           \/ row.status \in StartStatus /\ ~ HasFile(id)
           \/ row.status = "downloading" /\ Tied(id, row.gid),
           NEW next \in RunnerPC \ {"record", "apply"}, Done(id, next) \/ Goto(next)
    PROVE  OnceInv'
<1>1. Update(id, row) /\ UNCHANGED <<tasks, files, req, abandoned>>
  BY DEF Write, engineVars, elsewhere
<1>2. \A j \in JobId : RowOnce(j)
  BY <1>1, UpdateOnce
<1>3. Done(id, next) \/ (pc' = next /\ UNCHANGED snap)
  BY DEF Goto
<1>4. \A j \in JobId : RunnerOnce(j)
  BY <1>3, MoveOnce
<1> QED
  BY <1>1, <1>2, <1>4, QuietOnce

LEMMA LoadOnce ==
    ASSUME Inv, TypeOK', OnceInv, pc # "record", NEW ids,
           NEW next \in {"poll", "dispatch", "requeue"}, Load(ids, next)
    PROVE  OnceInv'
<1>1. UNCHANGED <<jobs, tasks, files, req, abandoned>>
  BY DEF Load, storeVars, engineVars, elsewhere
<1>2. ASSUME NEW j \in JobId PROVE RunnerOnce(j)
  <2>1. snap'[j] = jobs[j] \/ snap'[j].status = "none"
    BY DEF Load, NoRow, NewRow
  <2> QED
    BY <2>1 DEF RunnerOnce, Load, Recording, Refused
<1> QED
  BY <1>1, <1>2, ReadOnce

(* aria2c says that a task has failed or is gone: then no file came of it. *)
LEMMA TellStatusOnce ==
    ASSUME Inv, TypeOK', OnceInv, NEW id \in JobId, TellStatus(id)
    PROVE  OnceInv'
<1>a. UNCHANGED <<jobs, tasks, files, req, abandoned>> /\ pc = "poll"
  BY DEF TellStatus, ReadOnly, storeVars, engineVars, elsewhere
<1>1. CASE Done(id, "poll")
  <2>1. \A j \in JobId : RunnerOnce(j)
    BY <1>1, <1>a, MoveOnce DEF RunnerPC
  <2> QED
    BY <2>1, <1>a, ReadOnce
<1>2. CASE ~ Done(id, "poll")
  <2>1. PICK out \in TellStatusOutcome(snap[id].gid) :
          out # "rpc_error" /\ pc' = "apply" /\ cur' = id /\ reply' = out /\ UNCHANGED snap
    BY <1>2 DEF TellStatus
  <2>2. Polled(id) /\ snap[id].gid # NoGid
    BY TrackTypes DEF TellStatus, ListInv, Polled
  <2>3. reply' \in {"not_found", "error"} => tasks[snap[id].gid] # "complete"
    BY <2>1 DEF TellStatusOutcome
  <2>4. reply' \in {"not_found", "error"} => ~ HasFile(id)
    BY <2>2, <2>3, <1>a, OnceFacts DEF Tied, Recording
  <2>5. \A j \in JobId : RunnerOnce(j)
    BY <2>1, <2>4, <1>a DEF RunnerOnce, Recording, Refused
  <2> QED
    BY <2>5, <1>a, ReadOnce
<1> QED
  BY <1>1, <1>2

(* addUri is called for a job without a file, under a gid not in use.      *)
LEMMA StartedOnce ==
    ASSUME Inv, OnceInv, Started
    PROVE  OnceInv'
<1>a. /\ pc = "start" /\ pc' = "record" /\ UNCHANGED <<jobs, snap, cur, req, files>>
      /\ cur \in JobId /\ EngineTypeOK /\ ~ HasFile(cur) /\ ~ HasFile(cur)'
  <2>1. pc = "start" /\ pc' = "record" /\ UNCHANGED <<jobs, snap, cur, req, files>>
    BY DEF Started, AddURI, storeVars, elsewhere
  <2> QED
    BY <2>1, TrackTypes, ClaimedHasNoFile DEF HasFile
<1>1. PICK g \in Gids : /\ Fresh(g) /\ tasks' = [tasks EXCEPT ![g] = "active"]
                        /\ abandoned' = abandoned \ {g} /\ hand' = g
  BY DEF Started, AddURI
<1>2. \A h : h # g => tasks'[h] = tasks[h]
  BY <1>1, <1>a DEF EngineTypeOK
<1>3. RequestsPause' /\ NoneLost'
  BY <1>a, <1>1, <1>2 DEF OnceInv, RequestsPause, NoneLost
<1>4. ASSUME NEW j \in JobId PROVE OnceOf(j)'
  <2>1. jobs[j].gid # g /\ snap[j].gid # g /\ ~ Recording(j) /\ OnceOf(j) /\ ~ Refused(j)'
    BY <1>1, <1>a DEF Fresh, Recording, OnceInv, Refused
  <2>2. \A h : h # g /\ Tied(j, h) => TiedNext(j, h)
    BY <1>2, <1>a DEF Tied, TiedNext, HasFile
  <2>3. Polled(j)' => TiedNext(j, snap'[j].gid)
    BY <2>1, <2>2, <1>a DEF Polled, OnceOf
  <2>4. jobs'[j].status = "downloading" => TiedNext(j, jobs'[j].gid)
    BY <2>1, <2>2, <1>a DEF OnceOf
  <2>5. Starting(j)' => ~ HasFile(j)'
    BY <2>1, <1>a DEF Starting, OnceOf, HasFile
  <2>6. Recording(j)' => TiedNext(j, hand')
    BY <1>a DEF Recording, TiedNext
  <2> QED
    BY <2>3, <2>4, <2>5, <2>6 DEF OnceOf, Tied, TiedNext
<1> QED
  BY <1>3, <1>4 DEF OnceInv

(* MarkDownloading records the gid, even if its task is complete by then.  *)
LEMMA RecordOnce ==
    ASSUME Inv, LifeInv, FileInv, OnceInv, RunnerMarkDownloading
    PROVE  OnceInv'
<1>a. /\ pc = "record" /\ pc' = "requeue" /\ Update(cur, MarkDownloading(jobs[cur], hand))
      /\ Done(cur, "requeue") /\ UNCHANGED <<tasks, files, req>>
  BY DEF RunnerMarkDownloading, Done, elsewhere
<1>b. /\ cur \in JobId /\ cur \in Held /\ StoreTypeOK /\ RunnerTypeOK
      /\ hand \in Gids \cup {NoGid} /\ jobs[cur] \in Row /\ ListInv
  BY <1>a, TrackTypes DEF RunnerTypeOK, ListInv
<1>c. Exists(jobs[cur]) /\ Own(cur, hand) /\ Tied(cur, hand)
  BY <1>a, <1>b DEF LifeInv, LifeOf, Known, Held, FileInv, FileOf, OnceInv, OnceOf, Recording
<1>1. jobs'[cur].status = "downloading" /\ jobs'[cur].gid = hand
  BY <1>a, <1>b, <1>c DEF Update, StoreTypeOK, MarkDownloading, Row
<1>2. RequestsPause' /\ NoneLost'
  <2>1. abandoned' = abandoned \/ (abandoned' = abandoned \cup {hand} /\ owner[hand].job # cur)
    BY <1>c DEF RunnerMarkDownloading
  <2>2. owner[hand].job # cur /\ hand # NoGid => tasks[hand] \notin Live
    BY <1>c DEF Own
  <2>3. hand # NoGid
    BY <1>a, StoreAssumption DEF Inv, HandInv
  <2> QED
    BY <1>a, <2>1, <2>2, <2>3 DEF OnceInv, RequestsPause, NoneLost
<1>3. ASSUME NEW j \in JobId PROVE OnceOf(j)'
  <2>1. ~ Recording(j)' /\ ~ Refused(j)' /\ snap'[j].status = "none"
    <3>1. snap'[j].status = "none" \/ (j # cur /\ snap'[j] = snap[j])
      BY <1>a, <1>b DEF Done, RunnerTypeOK, NoRow, NewRow
    <3>2. j # cur => snap[j].status = "none"
      BY <1>a, <1>b DEF ListInv, Held, Exists
    <3> QED
      BY <3>1, <3>2, <1>a DEF Recording, Refused
  <2>2. CASE j = cur
    BY <2>1, <2>2, <1>1, <1>a, <1>c DEF OnceOf, Starting, StartStatus, Polled, Tied, HasFile
  <2>3. CASE j # cur
    <3>1. jobs'[j] = jobs[j] /\ ~ Recording(j) /\ OnceOf(j)
      BY <2>3, <1>a, <1>b DEF Update, StoreTypeOK, Recording, OnceInv
    <3> QED
      BY <2>1, <3>1, <1>a DEF OnceOf, Starting, StartStatus, Polled, Tied, HasFile
  <2> QED  BY <2>2, <2>3
<1> QED
  BY <1>2, <1>3 DEF OnceInv

(* Statements after which a job is neither started nor polled.             *)
LEMMA RestingRows ==
    ASSUME NEW r \in Row
    PROVE  \A row \in {MarkDecrypting(r), MarkCompleted(r), MarkPostprocessFailed(r), MarkPaused(r),
                       RemoveRow(r)} : row.status \notin StartStatus \cup {"downloading"}
BY DEF MarkDecrypting, MarkCompleted, MarkPostprocessFailed, MarkPaused, RemoveRow, Row, StartStatus

(* A step of the runner.                                                   *)
LEMMA RunnerStepOnce ==
    ASSUME Inv, TypeOK', TrackInv, LifeInv, FileInv, OnceInv, Undisturbed, RunnerStep
    PROVE  OnceInv'
<1>a. /\ RunnerTypeOK /\ ListInv /\ cur \in JobId /\ jobs[cur] \in Row
      /\ \A j \in JobId : jobs[j] \in Row
  BY TrackTypes
<1>b. Loop \in {"poll", "dispatch"}
  BY DEF Loop
<1>1. CASE ListActive \/ ListPending \/ ListRetryable
  BY <1>1, LoadOnce DEF ListActive, ListPending, ListRetryable
<1>2. ASSUME NEW id \in JobId, AutoRequeue(id) PROVE OnceInv'
  <2>1. Requeue(jobs[id]).status = "queued"
    BY <1>a, StmtGid
  <2>2. ~ HasFile(id) /\ pc = "requeue"
    BY <1>2, <1>a, OnceFacts DEF AutoRequeue, ListInv, Recording
  <2> QED
    BY <1>2, <2>1, <2>2, WriteOnce DEF AutoRequeue, RunnerPC, StartStatus
<1>3. ASSUME NEW id \in JobId, ClaimNextQueued(id) PROVE OnceInv'
  <2>1. Resolving(jobs[id]).status = "resolving"
    BY <1>a, StmtGid
  <2>2. /\ Update(id, Resolving(jobs[id])) /\ UNCHANGED <<tasks, files, req, abandoned>>
        /\ snap' = [snap EXCEPT ![id] = Resolving(jobs[id])] /\ pc' = "check" /\ pc = "claim"
        /\ jobs[id].status = "queued"
    BY <1>3 DEF ClaimNextQueued, Write, engineVars, elsewhere, ClaimableQueued
  <2>3. ~ HasFile(id)
    BY <2>2, OnceFacts DEF Recording, StartStatus
  <2>4. \A j \in JobId : RowOnce(j)
    BY <2>1, <2>2, <2>3, UpdateOnce DEF StartStatus
  <2>5. ASSUME NEW j \in JobId PROVE RunnerOnce(j)
    <3>1. snap'[j] = snap[j] \/ (j = id /\ snap'[j].status = "resolving")
      BY <2>1, <2>2, <1>a DEF RunnerTypeOK
    <3> QED
      BY <3>1, <2>2, <2>3 DEF RunnerOnce, Recording, Refused
  <2> QED
    BY <2>2, <2>4, <2>5, QuietOnce
<1>4. CASE ApplyFailed \/ ResolveFailed \/ RunnerMarkFailed
  <2>1. MarkFailed(jobs[cur]).status = "failed"
    BY <1>a, StmtGid
  <2>2. ~ HasFile(cur) /\ pc # "record"
    <3>1. CASE ApplyFailed
      BY <3>1, <1>a, OnceFacts DEF ApplyFailed, Refused, Recording
    <3>2. CASE ResolveFailed \/ RunnerMarkFailed
      BY <3>2, ClaimedHasNoFile DEF ResolveFailed, RunnerMarkFailed
    <3> QED
      BY <1>4, <3>1, <3>2
  <2>3. Write(cur, MarkFailed(jobs[cur])) /\ \E next \in {"poll", "requeue"} : Done(cur, next)
    BY <1>4 DEF ApplyFailed, ResolveFailed, RunnerMarkFailed
  <2> QED
    BY <2>1, <2>2, <2>3, <1>a, WriteOnce DEF StartStatus, RunnerPC
<1>5. CASE ApplyProgress
  <2> DEFINE row == UpdateProgress(jobs[cur], "downloading")
  <2>1. row.gid = jobs[cur].gid /\ row.status = "downloading"
    BY <1>a, StmtGid
  <2>2. Write(cur, row) /\ Done(cur, "poll") /\ pc = "apply"
    BY <1>5 DEF ApplyProgress
  <2>3. Polled(cur)
    BY <2>2, <1>a DEF ListInv
  <2>4. jobs[cur].gid \in {NoGid, snap[cur].gid} /\ Tied(cur, snap[cur].gid)
    BY <2>2, <2>3, <1>a, OnceFacts DEF TrackInv, RowTracked, Recording
  <2>5. Tied(cur, row.gid)
    BY <2>1, <2>4 DEF Tied
  <2> HIDE DEF row
  <2> QED
    BY <2>1, <2>2, <2>5, <1>a, WriteOnce DEF RunnerPC
<1>6. CASE ApplyComplete
  <2> DEFINE row == UpdateProgress(jobs[cur], "completed")
  <2>1. row.status = "completed"
    BY <1>a, StmtGid
  <2>2. \/ Write(cur, row) /\ Goto("complete")
        \/ ReadOnly /\ pc' = "mark" /\ UNCHANGED snap
    BY <1>6 DEF ApplyComplete
  <2>3. pc = "apply"
    BY <1>6 DEF ApplyComplete
  <2> HIDE DEF row
  <2>4. CASE Write(cur, row) /\ Goto("complete")
    BY <2>1, <2>3, <2>4, <1>a, WriteOnce DEF RunnerPC, StartStatus
  <2>5. CASE ReadOnly /\ pc' = "mark" /\ UNCHANGED snap
    <3>1. UNCHANGED <<jobs, tasks, files, req, abandoned>>
      BY <2>5 DEF ReadOnly, storeVars, engineVars, elsewhere
    <3>2. \A j \in JobId : RunnerOnce(j)
      BY <2>3, <2>5, MoveOnce DEF RunnerPC
    <3> QED
      BY <3>1, <3>2, ReadOnce
  <2> QED
    BY <2>2, <2>4, <2>5
<1>7. CASE RunnerMarkDecrypting \/ RunnerMarkCompleted \/ RunnerMarkPostprocessFailed \/ RunnerClearPassword
  <2>1. PICK row : /\ Write(cur, row)
                   /\ \/ row.status = jobs[cur].status /\ row.gid = jobs[cur].gid
                      \/ row.status \notin StartStatus \cup {"downloading"}
    <3>1. \A row \in {MarkDecrypting(jobs[cur]), MarkCompleted(jobs[cur]), MarkPostprocessFailed(jobs[cur])} :
             row.status \notin StartStatus \cup {"downloading"}
      BY <1>a, RestingRows
    <3>2. /\ ClearArchivePassword(jobs[cur]).status = jobs[cur].status
          /\ ClearArchivePassword(jobs[cur]).gid = jobs[cur].gid
      BY <1>a, StmtGid
    <3> QED
      BY <1>7, <3>1, <3>2 DEF RunnerMarkDecrypting, RunnerMarkCompleted, RunnerMarkPostprocessFailed,
           RunnerClearPassword
  <2>2. pc # "record" /\ \E next \in {"poll", "dispatch", "schedule", "clear"} : Done(cur, next) \/ Goto(next)
    BY <1>7, <1>b DEF RunnerMarkDecrypting, RunnerMarkCompleted, RunnerMarkPostprocessFailed,
         RunnerClearPassword
  <2> QED
    BY <2>1, <2>2, <1>a, WriteOnce DEF RunnerPC
<1>8. CASE RunnerSchedule
  <2>1. pc = "schedule" /\ UNCHANGED <<jobs, tasks, files, req, abandoned>> /\ Done(cur, Loop)
    BY <1>8 DEF RunnerSchedule, storeVars, engineVars
  <2>2. \A j \in JobId : RunnerOnce(j)
    BY <2>1, <1>a, <1>b, MoveOnce DEF RunnerPC
  <2> QED
    BY <2>1, <2>2, ReadOnce
<1>9. CASE Resolved
  <2>1. PICK name : Write(cur, UpdateResolving(jobs[cur], name))
    BY <1>9 DEF Resolved
  <2> DEFINE row == UpdateResolving(jobs[cur], name)
  <2>2. row.gid = jobs[cur].gid /\ row.status = jobs[cur].status
    BY <1>a, StmtGid
  <2>3. pc = "resolve" /\ \E next \in {"prepare", "start"} : Goto(next)
    BY <1>9 DEF Resolved
  <2> HIDE DEF row
  <2> QED
    BY <2>1, <2>2, <2>3, <1>a, WriteOnce DEF row, RunnerPC
<1>10. CASE \/ CountDownloading \/ NothingQueued \/ ClaimConflict \/ CheckDeleted
            \/ PrepareOutputForStart \/ RemoveControlFile \/ RemoveControlFileFailed \/ StartFailed
  <2>1. UNCHANGED <<jobs, tasks, files, req, abandoned>> /\ pc # "record"
    BY <1>10 DEF CountDownloading, NothingQueued, ClaimConflict, CheckDeleted,
         PrepareOutputForStart, RemoveControlFile, RemoveControlFileFailed, StartFailed,
         ReadOnly, storeVars, engineVars, elsewhere
  <2>2. \E next \in {"idle", "claim", "requeue", "resolve", "start", "unlink", "startfail"} :
           Done(cur, next) \/ (pc' = next /\ UNCHANGED snap)
    BY <1>10 DEF CountDownloading, NothingQueued, ClaimConflict, CheckDeleted,
         PrepareOutputForStart, RemoveControlFile, RemoveControlFileFailed, StartFailed, Goto
  <2>3. \A j \in JobId : RunnerOnce(j)
    BY <2>1, <2>2, <1>a, MoveOnce DEF RunnerPC
  <2> QED
    BY <2>1, <2>3, ReadOnce
<1>11. ASSUME NEW id \in JobId, Dispatch(id) PROVE OnceInv'
  <2>1. UNCHANGED <<jobs, tasks, files, req, abandoned>> /\ pc = "dispatch"
    BY <1>11 DEF Dispatch, DispatchSkip, DispatchNothingToDo, DispatchNoPath, DispatchWait,
         DispatchTaskReady, Dispatching, ReadOnly, storeVars, engineVars, elsewhere
  <2>2. \E next \in {"dispatch", "complete", "fail", "mark", "schedule"} :
           Done(id, next) \/ (pc' = next /\ UNCHANGED snap)
    BY <1>11 DEF Dispatch, DispatchSkip, DispatchNothingToDo, DispatchNoPath, DispatchWait,
         DispatchTaskReady, Select
  <2>3. \A j \in JobId : RunnerOnce(j)
    BY <2>1, <2>2, MoveOnce DEF RunnerPC
  <2> QED
    BY <2>1, <2>3, ReadOnce
<1>12. ~ StartLost
  BY DEF StartLost, Undisturbed
<1> QED
  BY <1>1, <1>2, <1>3, <1>4, <1>5, <1>6, <1>7, <1>8, <1>9, <1>10, <1>11, <1>12, TellStatusOnce,
     StartedOnce, RecordOnce DEF RunnerStep, RunnerJobStep

(* The runner stays where it is.                                           *)
LEMMA RunnerOnceQuiet ==
    ASSUME OnceInv, UNCHANGED localVars, NEW j \in JobId
    PROVE  RunnerOnce(j)
<1>1. /\ Recording(j)' <=> Recording(j)
      /\ Refused(j)' <=> Refused(j)
  BY DEF Recording, Refused, localVars
<1>2. Refused(j) => ~ HasFile(j)
  BY OnceFacts DEF Refused, Recording
<1> QED
  BY <1>1, <1>2 DEF RunnerOnce, localVars

(* A step of a goroutine: it works on a file that is there.                *)
LEMMA WorkerStepOnce ==
    ASSUME Inv, TypeOK', FileInv, OnceInv, NEW w \in Workers, WorkerNext(w)
    PROVE  OnceInv'
<1> DEFINE id == gor[w].task.id
<1>a. id \in JobId /\ EngineTypeOK /\ UNCHANGED <<req, localVars>> /\ jobs[id] \in Row
  BY LifeTypes, TrackTypes DEF WorkerNext
<1>b. UNCHANGED <<tasks, abandoned>>
  BY DEF WorkerNext, WorkerStep, AcquireWorker, MegaDecrypted, MegaFailed,
         ArchiveSkipped, ArchiveDecrypted, ArchiveFailed, WorkerMarkCompleted, WorkerMarkFailed,
         WorkerClearPassword, WorkerStmt, UnmarkPending, ReleaseWorker, engineVars
<1>c. files' = files \/ (files' = [files EXCEPT ![id] = "plain"] /\ HasFile(id))
  BY DEF WorkerNext, WorkerStep, AcquireWorker, MegaDecrypted, MegaFailed,
         ArchiveSkipped, ArchiveDecrypted, ArchiveFailed, WorkerMarkCompleted, WorkerMarkFailed,
         WorkerClearPassword, WorkerStmt, UnmarkPending, ReleaseWorker, engineVars, HasFile
<1>d. jobs' = jobs \/ \E row : /\ Update(id, row)
                              /\ \/ row.status = jobs[id].status /\ row.gid = jobs[id].gid
                                 \/ row.status \notin StartStatus \cup {"downloading"}
  <2>1. \A row \in {MarkCompleted(jobs[id]), MarkPostprocessFailed(jobs[id])} :
           row.status \notin StartStatus \cup {"downloading"}
    BY <1>a, RestingRows
  <2>2. /\ ClearArchivePassword(jobs[id]).status = jobs[id].status
        /\ ClearArchivePassword(jobs[id]).gid = jobs[id].gid
    BY <1>a, StmtGid
  <2> QED
    BY <2>1, <2>2 DEF WorkerNext, WorkerStep, AcquireWorker, MegaDecrypted, MegaFailed,
         ArchiveSkipped, ArchiveDecrypted, ArchiveFailed, WorkerMarkCompleted, WorkerMarkFailed,
         WorkerClearPassword, WorkerStmt, UnmarkPending, ReleaseWorker, storeVars
<1> HIDE DEF id
<1>1. ASSUME NEW j \in JobId PROVE OnceOf(j)'
  <2>1. RowOnce(j)
    <3>1. CASE jobs' = jobs
      BY <3>1 DEF RowOnce
    <3>2. CASE jobs' # jobs
      BY <3>2, <1>a, <1>d, UpdateOnce
    <3> QED  BY <3>1, <3>2
  <2>2. RunnerOnce(j) /\ OnceOf(j)
    BY <1>a, RunnerOnceQuiet DEF OnceInv
  <2>3. EngineOnce(j)
    BY <1>a, <1>b, <1>c DEF EngineOnce, HasFile, EngineTypeOK
  <2>4. jobs'[j].gid \in Gids \cup {NoGid}
    BY DEF TypeOK, StoreTypeOK, Row
  <2> QED
    BY <2>1, <2>2, <2>3, <2>4, OnceKept
<1> QED
  BY <1>1, <1>a, <1>b DEF OnceInv, RequestsPause, NoneLost

(* A step of a client, who can only pause.                                 *)
LEMMA ClientStepOnce ==
    ASSUME Inv, TypeOK', OnceInv, Undisturbed, NEW c \in Clients, ClientNext(c)
    PROVE  OnceInv'
<1>a. /\ req \in [Clients -> Request] /\ req[c] \in Request /\ EngineTypeOK
      /\ UNCHANGED localVars /\ files' = files
      /\ req[c].call \in {"none", "pause"} /\ req[c].stmt \in {"none", "pause"}
  <2>1. req \in [Clients -> Request] /\ req[c] \in Request /\ EngineTypeOK
    BY TrackTypes
  <2> QED
    BY <2>1 DEF ClientNext, ServiceStep, Retry, Remove, Pause, Resume, Begin,
         EngineCall, Execute, engineVars, OnceInv, RequestsPause
<1>b. ASSUME NEW j \in JobId
      PROVE  RunnerOnce(j) /\ OnceOf(j) /\ jobs'[j].gid \in Gids \cup {NoGid}
  BY <1>a, RunnerOnceQuiet DEF OnceInv, TypeOK, StoreTypeOK, Row
<1>1. ASSUME NEW id \in JobId, Retry(c, id) \/ Remove(c, id) \/ Pause(c, id) \/ Resume(c, id)
      PROVE  OnceInv'
  <2>1. /\ req' = [req EXCEPT ![c] = [call |-> PausePlan(jobs[id]).call, stmt |-> PausePlan(jobs[id]).stmt,
                                      id |-> id, gid |-> jobs[id].gid]]
        /\ UNCHANGED <<jobs, tasks, abandoned>>
    BY <1>1 DEF Retry, Remove, Pause, Resume, Begin, storeVars, engineVars, Undisturbed
  <2>2. PausePlan(jobs[id]).call \in {"none", "pause"} /\ PausePlan(jobs[id]).stmt \in {"none", "pause"}
    BY DEF PausePlan, Plan, NoPlan
  <2>3. RequestsPause'
    BY <2>1, <2>2, <1>a DEF OnceInv, RequestsPause
  <2>4. ASSUME NEW j \in JobId PROVE OnceOf(j)'
    <3>1. RowOnce(j) /\ EngineOnce(j)
      BY <2>1, <1>a, EngineOnceQuiet DEF RowOnce
    <3> QED
      BY <3>1, <1>b, OnceKept
  <2> QED
    BY <2>1, <2>3, <2>4 DEF OnceInv, NoneLost
<1>2. CASE EngineCall(c)
  <2> DEFINE g == req[c].gid
  <2>1. g \in Gids /\ req[c].call = "pause" /\ UNCHANGED <<jobs, abandoned>>
    BY <1>2, <1>a DEF EngineCall, Inv, RequestInv, storeVars
  <2>2. PICK out \in PauseOutcome(g) :
           /\ tasks' = [tasks EXCEPT ![g] = out[1]]
           /\ req' = [req EXCEPT ![c] = AfterCall(@, out[2])]
    BY <1>2, <2>1 DEF EngineCall, CallOutcome
  <2>3. /\ out[1] \in Live => tasks[g] \in Live
        /\ tasks[g] = "complete" => out[1] = "complete"
    BY DEF PauseOutcome, Lost, Live
  <2> HIDE DEF g
  <2>4. \A h \in Gids : /\ tasks'[h] \in Live => tasks[h] \in Live
                        /\ tasks[h] = "complete" => tasks'[h] = "complete"
    BY <2>1, <2>2, <2>3, <1>a DEF EngineTypeOK
  <2>5. AfterCall(req[c], out[2]) \in {[req[c] EXCEPT !.call = "none"], NoRequest}
    BY <2>1 DEF AfterCall
  <2>6. RequestsPause'
    BY <2>2, <2>5, <1>a DEF OnceInv, RequestsPause, Request, NoRequest
  <2>7. NoneLost'
    BY <2>1, <2>4, <1>a DEF OnceInv, NoneLost, EngineTypeOK
  <2>8. ASSUME NEW j \in JobId PROVE OnceOf(j)'
    <3>1. RowOnce(j) /\ EngineOnce(j)
      BY <2>1, <2>4, <1>a DEF RowOnce, EngineOnce, HasFile
    <3> QED
      BY <3>1, <1>b, OnceKept
  <2> QED
    BY <2>6, <2>7, <2>8 DEF OnceInv
<1>3. CASE Execute(c)
  <2> DEFINE id == req[c].id
             row == MarkPaused(jobs[id])
  <2>1. /\ id \in JobId /\ Update(id, row) /\ req' = [req EXCEPT ![c] = NoRequest]
        /\ UNCHANGED <<tasks, abandoned>>
    BY <1>3, <1>a DEF Execute, Request, RowAfter
  <2>2. row.status \notin StartStatus \cup {"downloading"}
    BY <2>1, TrackTypes, RestingRows
  <2> HIDE DEF id, row
  <2>3. RequestsPause' /\ NoneLost'
    BY <2>1, <1>a DEF OnceInv, RequestsPause, NoneLost, NoRequest
  <2>4. ASSUME NEW j \in JobId PROVE OnceOf(j)'
    <3>1. RowOnce(j) /\ EngineOnce(j)
      BY <2>1, <2>2, <1>a, UpdateOnce, EngineOnceQuiet
    <3> QED
      BY <3>1, <1>b, OnceKept
  <2> QED
    BY <2>3, <2>4 DEF OnceInv
<1> QED
  BY <1>1, <1>2, <1>3 DEF ClientNext, ServiceStep

(* A new job has no file, and clearing starts nothing.                     *)
LEMMA BulkStepOnce ==
    ASSUME Inv, TypeOK', OnceInv, Undisturbed, BulkNext
    PROVE  OnceInv'
<1>a. StoreTypeOK /\ EngineTypeOK /\ UNCHANGED <<req, tasks, localVars>>
  <2>1. StoreTypeOK /\ EngineTypeOK
    BY TrackTypes
  <2> QED
    BY <2>1 DEF BulkNext, BulkStep, Create, Clear, Purge, engineVars
<1>b. abandoned' = abandoned
  BY DEF BulkNext, BulkStep, Create, Clear, Purge, engineVars, Undisturbed
<1>1. ASSUME NEW j \in JobId PROVE OnceOf(j)'
  <2>a. RunnerOnce(j) /\ OnceOf(j) /\ jobs'[j].gid \in Gids \cup {NoGid}
    BY <1>a, RunnerOnceQuiet DEF OnceInv, TypeOK, StoreTypeOK, Row
  <2>1. ASSUME NEW kind \in Kinds, Create(kind) PROVE OnceOf(j)'
    <3>1. CASE j = seq + 1
      <4>1. ~ HasFile(j)'
        BY <2>1, <3>1, <1>a DEF Create, HasFile, EngineTypeOK
      <4> QED
        BY <4>1 DEF OnceOf, Tied
    <3>2. CASE j # seq + 1
      <4>1. jobs'[j] = jobs[j] /\ files'[j] = files[j]
        BY <2>1, <3>2, <1>a DEF Create, CreateJob, StoreTypeOK, EngineTypeOK
      <4>2. RowOnce(j) /\ EngineOnce(j)
        BY <4>1, <1>a DEF RowOnce, EngineOnce, HasFile
      <4> QED
        BY <4>2, <2>a, OnceKept
    <3> QED  BY <3>1, <3>2
  <2>2. CASE Clear
    <3>1. files' = files /\ (jobs'[j] = jobs[j] \/ jobs'[j] = RemoveRow(jobs[j]))
      BY <2>2 DEF Clear, ClearCompleted, engineVars
    <3>2. RemoveRow(jobs[j]).status \notin StartStatus \cup {"downloading"}
      BY TrackTypes, RestingRows
    <3>3. RowOnce(j) /\ EngineOnce(j)
      BY <3>1, <3>2, <1>a, EngineOnceQuiet DEF RowOnce
    <3> QED
      BY <3>3, <2>a, OnceKept
  <2> QED
    BY <2>1, <2>2 DEF BulkNext, BulkStep, Purge, Undisturbed
<1> QED
  BY <1>1, <1>a, <1>b DEF OnceInv, RequestsPause, NoneLost

(* A task that runs for a job is the one its row or the runner names, and  *)
(* such a job is not startable.                                            *)
LEMMA RunningTask ==
    ASSUME Inv, TrackInv, FileInv, OnceInv, NEW g \in Gids, tasks[g] \in Live,
           NEW j \in JobId, owner[g].job = j
    PROVE  /\ ~ Starting(j)
           /\ Polled(j) => snap[j].gid = g
           /\ jobs[j].status = "downloading" => jobs[j].gid \in {g, NoGid}
           /\ Recording(j) => hand = g
<1>a. g \notin abandoned /\ g # NoGid /\ ListInv /\ RowTracked(j)
  BY TrackTypes, StoreAssumption DEF OnceInv, NoneLost, TrackInv
<1>b. ~ Dead(g)
  BY <1>a DEF Dead
<1>1. CASE hand = g
  <2>1. pc = "record" /\ cur \in JobId /\ cur \in Held
    BY <1>1, <1>a, TrackTypes DEF TrackInv, ListInv
  <2>2. cur = j
    BY <2>1, <1>1, <1>a DEF FileInv, FileOf, Own, Recording
  <2>3. snap[j].status = "resolving" /\ Recording(j)
    BY <2>1, <2>2, <1>a DEF ListInv, Recording
  <2> QED
    BY <2>3, <1>1, <1>a DEF Starting, Polled, RowTracked
<1>2. CASE hand # g
  <2>1. jobs[j].gid = g
    BY <1>2, <1>a DEF TrackInv, EngineTasksTracked
  <2>2. /\ jobs[j].status \notin StartStatus
        /\ snap[j].status \notin {"resolving", "failed"}
        /\ Polled(j) => snap[j].gid = g
    BY <2>1, <1>a, <1>b DEF RowTracked, StartStatus
  <2>3. ~ Recording(j)
    BY <2>2, TrackTypes DEF Recording, ListInv
  <2>4. ~ Refused(j)
    <3>1. Refused(j) => Polled(j) /\ tasks[snap[j].gid] \notin Live
      BY TrackTypes DEF Refused, TrackInv, ReplyTracked, ListInv
    <3> QED
      BY <3>1, <2>2
  <2> QED
    BY <2>1, <2>2, <2>3, <2>4 DEF Starting
<1> QED  BY <1>1, <1>2

(* aria2c by itself.                                                       *)
LEMMA EngineStepOnce ==
    ASSUME Inv, TypeOK', TrackInv, FileInv, OnceInv, NEW g \in Gids, EngineNext(g)
    PROVE  OnceInv'
<1>a. /\ EngineTypeOK /\ UNCHANGED <<jobs, req, localVars, abandoned>> /\ tasks[g] = "active"
      /\ tasks' \in {[tasks EXCEPT ![g] = "complete"], [tasks EXCEPT ![g] = "error"]}
  BY TrackTypes DEF EngineNext, Finish, Fail, storeVars
<1>b. \A h \in Gids : /\ tasks'[h] \in Live => tasks[h] \in Live
                      /\ tasks[h] = "complete" => tasks'[h] = "complete"
  BY <1>a DEF EngineTypeOK, Live
<1>c. RequestsPause' /\ NoneLost'
  BY <1>a, <1>b DEF OnceInv, RequestsPause, NoneLost, EngineTypeOK
<1>1. ASSUME NEW j \in JobId PROVE OnceOf(j)'
  <2>a. RunnerOnce(j) /\ OnceOf(j) /\ jobs'[j].gid \in Gids \cup {NoGid} /\ RowOnce(j)
    BY <1>a, RunnerOnceQuiet DEF OnceInv, TypeOK, StoreTypeOK, Row, RowOnce
  <2>1. CASE files'[j] = files[j]
    <3>1. EngineOnce(j)
      BY <2>1, <1>b DEF EngineOnce, HasFile
    <3> QED
      BY <3>1, <2>a, OnceKept
  <2>2. CASE files'[j] # files[j]
    <3>1. owner[g].job = j /\ tasks'[g] = "complete"
      BY <2>2, <1>a DEF EngineNext, Finish, Fail, EngineTypeOK
    <3>2. /\ ~ Starting(j)
          /\ Polled(j) => snap[j].gid = g
          /\ jobs[j].status = "downloading" => jobs[j].gid \in {g, NoGid}
          /\ Recording(j) => hand = g
      BY <3>1, <1>a, RunningTask DEF Live
    <3>3. /\ Starting(j)' <=> Starting(j)
          /\ Polled(j)' <=> Polled(j)
          /\ Recording(j)' <=> Recording(j)
          /\ snap'[j] = snap[j] /\ hand' = hand /\ jobs'[j] = jobs[j]
      BY <1>a DEF Starting, Polled, Recording, Refused, localVars
    <3> QED
      BY <3>1, <3>2, <3>3 DEF OnceOf, Tied
  <2> QED  BY <2>1, <2>2
<1> QED
  BY <1>1, <1>c DEF OnceInv

LEMMA OnceStep ==
    ASSUME Inv, TypeOK', TrackInv, LifeInv, FileInv, OnceInv, Undisturbed, [Next]_vars
    PROVE  OnceInv'
<1>1. CASE (\E v \in AutoModes : SetAutoDecrypt(v)) \/ UNCHANGED vars
  <2>1. UNCHANGED <<jobs, req, tasks, files, abandoned, localVars>>
    BY <1>1 DEF SetAutoDecrypt, vars, storeVars, engineVars
  <2>2. \A j \in JobId : RunnerOnce(j)
    BY <2>1, RunnerOnceQuiet
  <2> QED
    BY <2>1, <2>2, ReadOnce
<1>2. ASSUME NEW k \in JobId, TimerNext(k) PROVE OnceInv'
  <2>1. UNCHANGED <<req, tasks, files, abandoned, localVars>>
    BY <1>2 DEF TimerNext, engineVars
  <2>2. ASSUME NEW j \in JobId PROVE RowOnce(j) /\ RunnerOnce(j)
    <3>1. jobs'[j].status = jobs[j].status /\ jobs'[j].gid = jobs[j].gid
      BY <1>2, TrackTypes DEF TimerNext, RetryTimer, StoreTypeOK, Row
    <3> QED
      BY <3>1, <2>1, RunnerOnceQuiet DEF RowOnce
  <2> QED
    BY <2>1, <2>2, QuietOnce
<1>3. ~ DaemonCrash /\ ~ EngineRestart
  <2>1. crashes \in 0 .. MaxCrashes
    BY DEF Inv, TypeOK
  <2> QED
    BY <2>1 DEF DaemonCrash, EngineRestart, Undisturbed
<1> QED
  BY <1>1, <1>2, <1>3, RunnerStepOnce, WorkerStepOnce, ClientStepOnce, BulkStepOnce,
     EngineStepOnce DEF Next, RunnerNext

LEMMA OnceInit == Init => OnceInv
<1> SUFFICES ASSUME Init PROVE OnceInv
  OBVIOUS
<1>1. \A j \in JobId : ~ HasFile(j)
  BY DEF Init, EngineInit, HasFile
<1>2. RequestsPause /\ NoneLost
  BY DEF Init, EngineInit, ServiceInit, NoRequest, RequestsPause, NoneLost
<1> QED
  BY <1>1, <1>2 DEF OnceInv, OnceOf, Tied

(***************************************************************************)
(* If clients only add, pause and clear jobs, no call to aria2c is lost    *)
(* and nothing is restarted, then no download is started for a job whose   *)
(* file has arrived, for any number of jobs, clients, goroutines and       *)
(* failures: requeueFailed and the start loop act on rows read earlier,    *)
(* but never on one whose download has ended (updateActive, requeueFailed, *)
(* MarkPostprocessFailed, MarkDownloading).                                *)
(***************************************************************************)
THEOREM NotDownloadedAgain == Undisturbed => (Spec => DownloadedOnce)
<1> SUFFICES ASSUME Undisturbed PROVE Spec => DownloadedOnce
  OBVIOUS
<1> DEFINE Once == \A g \in Gids : (tasks[g] \notin Live /\ tasks'[g] \in Live)
                                      => files[owner'[g].job] = "none"
<1>a. "purge" \notin Ops
  BY DEF Undisturbed
<1>1. Inv /\ TrackInv /\ LifeInv /\ [Next]_vars => LifeInv'
  BY <1>a, LifeStep
<1>2. Inv /\ TrackInv /\ LifeInv /\ FileInv /\ [Next]_vars => FileInv'
  BY <1>a, FileStep
<1>3. Inv /\ Inv' /\ TrackInv /\ LifeInv /\ FileInv /\ OnceInv /\ [Next]_vars => OnceInv'
  BY OnceStep DEF Inv
<1>4. Inv /\ OnceInv /\ [Next]_vars => [Once]_vars
  <2> SUFFICES ASSUME Inv, OnceInv, Next, NEW g \in Gids, tasks[g] \notin Live, tasks'[g] \in Live
               PROVE  files[owner'[g].job] = "none"
    OBVIOUS
  <2>1. pc = "start" /\ owner'[g].job = cur
    BY <1>a, EveryTaskMoves DEF TaskMoves, StartedFor
  <2> QED
    BY <2>1, ClaimedHasNoFile DEF HasFile
<1> QED
  BY <1>1, <1>2, <1>3, <1>4, InitLife, FileInit, OnceInit, TrackInit, TrackStep, Invariance, PTL
     DEF Spec, DownloadedOnce

----------------------------------------------------------------------------
(* No task that runs belongs to a job past its download.                   *)

SpentInv == \A j \in JobId : manual[j] = 0 /\ (Past(j) \/ Ending(j)) => Dead(jobs[j].gid)

(* The history of requests only grows, except that of a new job.           *)
LEMMA ManualGrows ==
    ASSUME Inv, TrackInv, LifeInv, "purge" \notin Ops, [Next]_vars, NEW j \in JobId, manual'[j] = 0
    PROVE  manual[j] = 0 \/ Born(j)
<1>a. StoreTypeOK /\ req \in [Clients -> Request] /\ manual[j] \in Nat
  <2>1. StoreTypeOK /\ req \in [Clients -> Request]
    BY TrackTypes
  <2> QED
    BY <2>1 DEF StoreTypeOK
<1>1. ASSUME NEW c \in Clients, Execute(c) PROVE manual[j] = 0
  <2>1. manual' = [manual EXCEPT ![req[c].id] =
                     IF req[c].stmt \in {"requeue", "downloading"} THEN @ + 1 ELSE @]
    BY <1>1 DEF Execute
  <2>2. manual'[j] \in {manual[j], manual[j] + 1}
    BY <2>1, <1>a DEF StoreTypeOK
  <2> QED
    BY <2>2, <1>a
<1>2. CASE BulkNext
  <2>1. ASSUME NEW kind \in Kinds, Create(kind) PROVE manual[j] = 0 \/ Born(j)
    <3>1. manual' = [manual EXCEPT ![seq + 1] = 0]
      BY <2>1 DEF Create, CreateJob
    <3>2. j # seq + 1 => manual'[j] = manual[j]
      BY <3>1, <1>a DEF StoreTypeOK
    <3> QED
      BY <2>1, <3>2, <1>2, CreateMoves DEF BulkNext
  <2>2. Clear => UNCHANGED manual
    BY DEF Clear, ClearCompleted
  <2> QED
    BY <1>2, <2>1, <2>2 DEF BulkNext, BulkStep, Purge
<1>3. CASE RunnerStep
  <2>1. UNCHANGED manual
    BY <1>3 DEF RunnerStep, RunnerJobStep, TellStatus, Dispatch, AutoRequeue, ClaimNextQueued,
         ListActive, ApplyFailed, ApplyProgress, ApplyComplete, ListPending, RunnerMarkDecrypting,
         RunnerSchedule, RunnerMarkCompleted, RunnerMarkPostprocessFailed, RunnerClearPassword,
         ListRetryable, CountDownloading, NothingQueued, ClaimConflict, CheckDeleted, Resolved,
         ResolveFailed, PrepareOutputForStart, RemoveControlFile, RemoveControlFileFailed, Started,
         StartLost, StartFailed, RunnerMarkFailed, RunnerMarkDownloading, DispatchSkip,
         DispatchNothingToDo, DispatchNoPath, DispatchWait, DispatchTaskReady, Dispatching, Load,
         Write, ReadOnly, storeVars
  <2> QED  BY <2>1
<1>4. ASSUME NEW w \in Workers, WorkerNext(w) PROVE UNCHANGED manual
  BY <1>4 DEF WorkerNext, WorkerStep, AcquireWorker, MegaDecrypted, MegaFailed,
         ArchiveSkipped, ArchiveDecrypted, ArchiveFailed, WorkerMarkCompleted, WorkerMarkFailed,
         WorkerClearPassword, WorkerStmt, UnmarkPending, ReleaseWorker, storeVars
<1>5. ASSUME NEW c \in Clients, ClientNext(c) PROVE Execute(c) \/ UNCHANGED manual
  BY <1>5 DEF ClientNext, ServiceStep, Retry, Remove, Pause, Resume, Begin, EngineCall, storeVars
<1>6. CASE \/ \E k \in JobId : TimerNext(k)
           \/ \E g \in Gids : EngineNext(g)
           \/ \E v \in AutoModes : SetAutoDecrypt(v)
           \/ DaemonCrash \/ EngineRestart \/ UNCHANGED vars
  BY <1>6 DEF TimerNext, RetryTimer, EngineNext, SetAutoDecrypt, DaemonCrash, EngineRestart, vars, storeVars
<1> QED
  BY <1>1, <1>2, <1>3, <1>4, <1>5, <1>6 DEF Next, RunnerNext

(* A gid in a row that no task runs under is not used anew.                *)
LEMMA DeadStays ==
    ASSUME Inv, "purge" \notin Ops, [Next]_vars, NEW j \in JobId, Dead(jobs[j].gid)
    PROVE  DeadNext(jobs[j].gid)
<1>1. jobs[j].gid \in Gids \cup {NoGid}
  BY TrackTypes
<1>2. ~ StartedFor(jobs[j].gid)
  BY DEF StartedFor, Fresh
<1> QED
  BY <1>1, <1>2, EveryTaskMoves DEF Dead, DeadNext, TaskMoves

(* A job that the runner is about to record is not past its download.      *)
LEMMA RecordingPrepares ==
    ASSUME Inv, NEW j \in JobId, Recording(j)
    PROVE  /\ snap[j].status = "resolving" /\ Preparing(j) /\ ~ Ending(j) /\ ~ Told(j)
<1>1. j \in Held
  BY TrackTypes DEF ListInv, Recording
<1>2. snap[j].status = "resolving"
  BY <1>1, TrackTypes DEF ListInv, Recording
<1> QED
  BY <1>2 DEF Preparing, PreStatus, Finishing, Recording, Ending, Told, Polled

LEMMA SpentStep ==
    ASSUME Inv, TrackInv, LifeInv, SpentInv, "purge" \notin Ops, [Next]_vars
    PROVE  SpentInv'
<1> SUFFICES ASSUME NEW j \in JobId, manual'[j] = 0, (Past(j) \/ Ending(j))'
             PROVE  DeadNext(jobs'[j].gid)
  BY DEF SpentInv, Dead, DeadNext
<1>1. StepMoves(j) /\ Over(j) /\ ~ Born(j)
  BY EveryStepMoves, OverBefore
<1>2. manual[j] = 0
  BY <1>1, ManualGrows
<1>3. Dead(jobs[j].gid)
  <2>1. CASE Past(j) \/ Ending(j)
    BY <2>1, <1>2 DEF SpentInv
  <2>2. CASE Told(j)
    BY <2>2 DEF Told, TrackInv, RowTracked, Dead, Live
  <2> QED
    BY <2>1, <2>2, <1>1 DEF Over
<1>4. ~ Recording(j)
  <2>1. Recording(j) => ~ Past(j)
    BY <1>2, RecordingPrepares DEF LifeInv, LifeOf
  <2> QED
    BY <2>1, <1>1, RecordingPrepares DEF Over
<1>5. jobs'[j].gid \in {jobs[j].gid, NoGid}
  BY <1>1, <1>4 DEF StepMoves, RowMoves
<1> QED
  BY <1>3, <1>5, DeadStays DEF DeadNext

LEMMA SpentInit == Init => SpentInv
BY DEF Init, StoreInit, NoRow, NewRow, SpentInv, Dead

----------------------------------------------------------------------------
(* Lists and tasks are about what their job's row is about.                *)

KindsInv ==
    /\ \A j \in JobId : Exists(snap[j]) => snap[j].kind = jobs[j].kind
    /\ \A g \in Gids : owner[g].job # 0 => /\ Exists(jobs[owner[g].job])
                                           /\ owner[g].kind = jobs[owner[g].job].kind

LEMMA KindsStep ==
    ASSUME Inv, TrackInv, LifeInv, KindsInv, "purge" \notin Ops, [Next]_vars
    PROVE  KindsInv'
<1>a. ASSUME NEW j \in JobId, Exists(jobs[j])
      PROVE  Exists(jobs'[j]) /\ jobs'[j].kind = jobs[j].kind
  BY <1>a, KindStays
<1>b. ASSUME NEW j \in JobId, Exists(snap[j])
      PROVE  Exists(jobs[j]) /\ snap[j].kind = jobs[j].kind
  BY <1>b DEF LifeInv, LifeOf, Known, KindsInv
<1>1. ASSUME NEW j \in JobId, Exists(snap'[j]) PROVE snap'[j].kind = jobs'[j].kind
  <2>1. RunnerMoves(j)
    BY EveryStepMoves DEF StepMoves
  <2>2. CASE snap'[j] = snap[j]
    BY <2>2, <1>1, <1>a, <1>b
  <2>3. CASE snap'[j] = jobs[j]
    BY <2>3, <1>1, <1>a
  <2>4. CASE jobs[j].status = "queued" /\ snap'[j].kind = jobs[j].kind
    BY <2>4, <1>a DEF Exists
  <2> QED
    BY <2>1, <2>2, <2>3, <2>4, <1>1 DEF RunnerMoves
<1>2. ASSUME NEW g \in Gids, owner'[g].job # 0
      PROVE  Exists(jobs'[owner'[g].job]) /\ owner'[g].kind = jobs'[owner'[g].job].kind
  <2>1. CASE StartedFor(g)
    <3>1. cur \in Held /\ cur \in JobId
      BY <2>1, TrackTypes DEF StartedFor, ListInv
    <3>2. Exists(jobs[cur]) /\ snap[cur].kind = jobs[cur].kind
      BY <3>1, <1>b DEF Held
    <3> QED
      BY <2>1, <3>1, <3>2, <1>a DEF StartedFor
  <2>2. CASE owner'[g] = owner[g]
    <3>1. owner[g].job \in JobId
      BY <2>2, <1>2, TrackTypes
    <3> QED
      BY <2>2, <3>1, <1>2, <1>a DEF KindsInv
  <2> QED
    BY <2>1, <2>2, <1>2, EveryTaskMoves DEF TaskMoves
<1> QED
  BY <1>1, <1>2 DEF KindsInv

LEMMA KindsInit == Init => KindsInv
<1> SUFFICES ASSUME Init PROVE KindsInv
  OBVIOUS
<1>1. \A j \in JobId : ~ Exists(snap[j])
  BY DEF Init, RunnerStopped, NoRow, NewRow, Exists
<1>2. \A g \in Gids : owner[g].job = 0
  BY DEF Init, EngineInit, NoOwner
<1> QED
  BY <1>1, <1>2 DEF KindsInv

----------------------------------------------------------------------------
(* The check before a control file is removed.  A running download that is *)
(* on record is that of a job which the check finds: no job with a task    *)
(* that runs is hidden from it.                                            *)

(* Clients only add, pause and clear jobs.                                 *)
PauseOnly == Ops \subseteq {"create", "pause", "clear"}

HiddenInv ==
    /\ RequestsPause
    /\ \A j \in JobId : manual[j] = 0
    /\ \A j \in JobId : jobs[j].deletedAt = "set" => Dead(jobs[j].gid) /\ ~ Preparing(j)

(* Requests stay what they are.                                            *)
LEMMA RequestsStay ==
    ASSUME Inv, PauseOnly, RequestsPause, \A j \in JobId : manual[j] = 0, [Next]_vars
    PROVE  RequestsPause' /\ \A j \in JobId : manual'[j] = 0
<1>a. req \in [Clients -> Request] /\ StoreTypeOK
  BY TrackTypes
<1>b. ASSUME UNCHANGED req PROVE RequestsPause'
  BY <1>b DEF RequestsPause
<1>1. ASSUME NEW c \in Clients, ClientNext(c)
      PROVE  RequestsPause' /\ \A j \in JobId : manual'[j] = 0
  <2>a. req[c] \in Request /\ req[c].call \in {"none", "pause"} /\ req[c].stmt \in {"none", "pause"}
    BY <1>a DEF RequestsPause
  <2>1. ASSUME NEW id \in JobId, Retry(c, id) \/ Remove(c, id) \/ Pause(c, id) \/ Resume(c, id)
        PROVE  RequestsPause' /\ \A j \in JobId : manual'[j] = 0
    <3>1. /\ req' = [req EXCEPT ![c] = [call |-> PausePlan(jobs[id]).call, stmt |-> PausePlan(jobs[id]).stmt,
                                        id |-> id, gid |-> jobs[id].gid]]
          /\ UNCHANGED manual
      BY <2>1 DEF Retry, Remove, Pause, Resume, Begin, storeVars, PauseOnly
    <3>2. PausePlan(jobs[id]).call \in {"none", "pause"} /\ PausePlan(jobs[id]).stmt \in {"none", "pause"}
      BY DEF PausePlan, Plan, NoPlan
    <3> QED
      BY <3>1, <3>2, <1>a DEF RequestsPause
  <2>2. CASE EngineCall(c)
    <3>1. PICK out : req' = [req EXCEPT ![c] = AfterCall(@, out[2])] /\ UNCHANGED manual /\ req[c].call = "pause"
      BY <2>2, <2>a DEF EngineCall, storeVars
    <3>2. AfterCall(req[c], out[2]) \in {[req[c] EXCEPT !.call = "none"], NoRequest}
      BY <3>1 DEF AfterCall
    <3> QED
      BY <3>1, <3>2, <2>a, <1>a DEF RequestsPause, Request, NoRequest
  <2>3. CASE Execute(c)
    <3>1. req' = [req EXCEPT ![c] = NoRequest] /\ req[c].id \in JobId
      BY <2>3, <2>a DEF Execute, Request
    <3>2. manual' = [manual EXCEPT ![req[c].id] = @]
      BY <2>3, <2>a DEF Execute
    <3> QED
      BY <3>1, <3>2, <1>a DEF RequestsPause, NoRequest, StoreTypeOK
  <2> QED
    BY <1>1, <2>1, <2>2, <2>3 DEF ClientNext, ServiceStep
<1>2. CASE BulkNext
  <2>1. UNCHANGED req
    BY <1>2 DEF BulkNext, BulkStep, Create, Clear, Purge
  <2>2. UNCHANGED manual \/ manual' = [manual EXCEPT ![seq + 1] = 0]
    BY <1>2 DEF BulkNext, BulkStep, Create, Clear, Purge, CreateJob, ClearCompleted, PauseOnly
  <2> QED
    BY <2>1, <2>2, <1>a, <1>b DEF StoreTypeOK
<1>3. CASE RunnerStep
  <2>1. UNCHANGED <<req, manual>>
    BY <1>3 DEF RunnerStep, RunnerJobStep, TellStatus, Dispatch, AutoRequeue, ClaimNextQueued,
         ListActive, ApplyFailed, ApplyProgress, ApplyComplete, ListPending, RunnerMarkDecrypting,
         RunnerSchedule, RunnerMarkCompleted, RunnerMarkPostprocessFailed, RunnerClearPassword,
         ListRetryable, CountDownloading, NothingQueued, ClaimConflict, CheckDeleted, Resolved,
         ResolveFailed, PrepareOutputForStart, RemoveControlFile, RemoveControlFileFailed, Started,
         StartLost, StartFailed, RunnerMarkFailed, RunnerMarkDownloading, DispatchSkip,
         DispatchNothingToDo, DispatchNoPath, DispatchWait, DispatchTaskReady, Dispatching, Load,
         Write, ReadOnly, storeVars, elsewhere
  <2> QED  BY <2>1, <1>b
<1>4. ASSUME NEW w \in Workers, WorkerNext(w) PROVE UNCHANGED <<req, manual>>
  BY <1>4 DEF WorkerNext, WorkerStep, AcquireWorker, MegaDecrypted, MegaFailed,
         ArchiveSkipped, ArchiveDecrypted, ArchiveFailed, WorkerMarkCompleted, WorkerMarkFailed,
         WorkerClearPassword, WorkerStmt, UnmarkPending, ReleaseWorker, storeVars
<1>5. CASE \/ \E k \in JobId : TimerNext(k)
           \/ \E g \in Gids : EngineNext(g)
           \/ \E v \in AutoModes : SetAutoDecrypt(v)
           \/ DaemonCrash \/ EngineRestart \/ UNCHANGED vars
  <2>1. UNCHANGED manual /\ (UNCHANGED req \/ req' = [c \in Clients |-> NoRequest])
    BY <1>5 DEF TimerNext, RetryTimer, EngineNext, SetAutoDecrypt, DaemonCrash, EngineRestart, vars, storeVars
  <2> QED
    BY <2>1, <1>b DEF RequestsPause, NoRequest
<1> QED
  BY <1>1, <1>2, <1>3, <1>4, <1>5, <1>b DEF Next, RunnerNext

LEMMA HiddenStep ==
    ASSUME Inv, TrackInv, LifeInv, SpentInv, HiddenInv, PauseOnly, [Next]_vars
    PROVE  HiddenInv'
<1>a. "purge" \notin Ops /\ RequestsPause' /\ \A j \in JobId : manual[j] = 0 /\ manual'[j] = 0
  BY RequestsStay DEF PauseOnly, HiddenInv
<1> SUFFICES ASSUME NEW j \in JobId, jobs'[j].deletedAt = "set"
             PROVE  DeadNext(jobs'[j].gid) /\ ~ Preparing(j)'
  BY <1>a DEF HiddenInv, Dead, DeadNext
<1>b. StepMoves(j) /\ ~ Born(j)
  BY <1>a, EveryStepMoves DEF Born
<1>c. ~ Asked(j, {"requeue", "downloading", "remove"})
  BY DEF HiddenInv, RequestsPause, Asked
<1>d. ~ Asked(j, {"requeue", "downloading"}) /\ ~ Asked(j, {"remove"})
  BY <1>c DEF Asked
<1>1. Dead(jobs[j].gid) /\ ~ Preparing(j)
  <2>1. jobs[j].deletedAt = "set" \/ jobs[j].status = "completed"
    BY <1>b, <1>d DEF StepMoves, RowMoves
  <2>2. ASSUME jobs[j].status = "completed" PROVE Dead(jobs[j].gid) /\ ~ Preparing(j)
    <3>1. Past(j)
      BY <2>2 DEF Past, PastStatus
    <3> QED
      BY <3>1, <1>a DEF SpentInv, LifeInv, LifeOf
  <2> QED
    BY <2>1, <2>2 DEF HiddenInv
<1>2. ~ Preparing(j)'
  BY <1>1, <1>b, <1>d, OverBefore
<1>3. jobs'[j].gid \in {jobs[j].gid, NoGid}
  BY <1>1, <1>b, RecordingPrepares DEF StepMoves, RowMoves
<1> QED
  BY <1>a, <1>1, <1>2, <1>3, DeadStays DEF DeadNext

LEMMA HiddenInit == Init => HiddenInv
<1> SUFFICES ASSUME Init PROVE HiddenInv
  OBVIOUS
<1>1. \A j \in JobId : manual[j] = 0 /\ jobs[j].deletedAt = "null"
  BY DEF Init, StoreInit, NoRow, NewRow
<1>2. RequestsPause
  BY DEF Init, ServiceInit, NoRequest, RequestsPause
<1> QED
  BY <1>1, <1>2 DEF HiddenInv

(* prepareOutputForStart is how the runner comes to remove a control file. *)
LEMMA UnlinkEntered ==
    ASSUME [Next]_vars, pc' = "unlink"
    PROVE  (pc = "unlink" /\ UNCHANGED <<snap, cur>>) \/ PrepareOutputForStart
<1>1. CASE RunnerStep
  BY <1>1 DEF RunnerStep, RunnerJobStep, TellStatus, Dispatch, AutoRequeue, ClaimNextQueued,
         ListActive, ApplyFailed, ApplyProgress, ApplyComplete, ListPending, RunnerMarkDecrypting,
         RunnerSchedule, RunnerMarkCompleted, RunnerMarkPostprocessFailed, RunnerClearPassword,
         ListRetryable, CountDownloading, NothingQueued, ClaimConflict, CheckDeleted, Resolved,
         ResolveFailed, RemoveControlFile, RemoveControlFileFailed, Started,
         StartLost, StartFailed, RunnerMarkFailed, RunnerMarkDownloading, DispatchSkip,
         DispatchNothingToDo, DispatchNoPath, DispatchWait, DispatchTaskReady, Select, Load, Goto,
         Done, Loop
<1>2. ASSUME ~ RunnerStep PROVE DaemonCrash \/ UNCHANGED localVars
  BY <1>2 DEF Next, RunnerNext, WorkerNext, ClientNext, BulkNext, EngineNext, TimerNext,
         SetAutoDecrypt, EngineRestart, vars
<1> QED
  BY <1>1, <1>2 DEF DaemonCrash, localVars

(* The check finds every job with a download on record.                    *)
LEMMA ConflictSeen ==
    ASSUME Inv, TrackInv, LifeInv, SpentInv, KindsInv, HiddenInv, pc = "prepare",
           NEW g \in Gids, OnRecord(g), owner[g].kind.file = snap[cur].kind.file
    PROVE  HasActiveOutputConflict(cur, snap[cur].kind)
<1>a. ListInv /\ cur \in JobId
  BY TrackTypes
<1>1. PICK j \in JobId : owner[g].job = j
  BY TrackTypes DEF OnRecord
<1>b. /\ jobs[j] \in Row /\ Exists(jobs[j]) /\ jobs[j].kind = owner[g].kind /\ PathKnown(jobs[j])
      /\ j # 0
  BY <1>1, TrackTypes DEF KindsInv, OnRecord
<1>2. jobs[j].gid = g /\ ~ Dead(jobs[j].gid)
  <2>1. hand # g
    BY StoreAssumption DEF TrackInv
  <2>2. jobs[j].gid = g
    BY <1>1, <2>1 DEF TrackInv, EngineTasksTracked, OnRecord
  <2> QED
    BY <2>2, StoreAssumption DEF Dead, OnRecord
<1>3. j # cur
  <2>1. snap[cur].status = "resolving"
    BY <1>a DEF ListInv
  <2>2. jobs[cur].gid = NoGid
    BY <2>1, <1>a DEF TrackInv, RowTracked
  <2> QED
    BY <2>2, <1>2 DEF Dead
<1>4. jobs[j].deletedAt = "null"
  BY <1>2, <1>b DEF HiddenInv, Row
<1>5. jobs[j].status \in {"downloading", "paused"}
  <2>1. jobs[j].status \notin PastStatus
    BY <1>2 DEF SpentInv, HiddenInv, Past
  <2>2. jobs[j].status \notin {"none", "queued", "resolving", "failed"}
    BY <1>2 DEF TrackInv, RowTracked, Dead
  <2>3. jobs[j].status # "deleted"
    BY <1>4 DEF LifeInv, LifeOf
  <2> QED
    BY <2>1, <2>2, <2>3, <1>b DEF Row, Status, PastStatus
<1> QED
  BY <1>b, <1>3, <1>4, <1>5 DEF HasActiveOutputConflict, IsOutputConflictActiveStatus, Listed

LEMMA FreshStep ==
    ASSUME Inv, TrackInv, LifeInv, SpentInv, KindsInv, HiddenInv, FreshStartSafe, PauseOnly, [Next]_vars
    PROVE  FreshStartSafe'
<1>a. "purge" \notin Ops
  BY DEF PauseOnly
<1> SUFFICES ASSUME pc' = "unlink", NEW g \in Gids, OnRecord(g)'
             PROVE  owner'[g].kind.file # snap'[cur'].kind.file
  BY DEF FreshStartSafe
<1>1. CASE pc = "unlink" /\ UNCHANGED <<snap, cur>>
  <2>1. TaskMoves(g) /\ ~ StartedFor(g) /\ tasks'[g] \in Live
    BY <1>1, <1>a, EveryTaskMoves DEF StartedFor, OnRecord
  <2>2. tasks[g] \in Live /\ owner'[g] = owner[g] /\ g \notin abandoned /\ owner[g].job # 0
    BY <2>1 DEF TaskMoves, OnRecord
  <2>3. PICK j \in JobId : owner[g].job = j
    BY <2>2, TrackTypes
  <2>4. Exists(jobs[j]) /\ j # 0
    BY <2>2, <2>3 DEF KindsInv
  <2>5. RowMoves(j, jobs'[j])
    BY <2>4, <1>a, EveryStepMoves DEF StepMoves, Born
  <2>6. PathKnown(jobs'[j])
    BY <2>2, <2>3 DEF OnRecord
  <2>7. PathKnown(jobs[j])
    BY <2>5, <2>6, <1>1 DEF PathKnown, RowMoves
  <2>8. OnRecord(g)
    BY <2>2, <2>3, <2>7 DEF OnRecord
  <2> QED
    BY <2>2, <2>8, <1>1 DEF FreshStartSafe
<1>2. CASE PrepareOutputForStart
  <2>1. /\ pc = "prepare" /\ ~ HasActiveOutputConflict(cur, snap[cur].kind)
        /\ UNCHANGED <<jobs, tasks, owner, abandoned, snap, cur>>
    BY <1>2 DEF PrepareOutputForStart, Goto, ReadOnly, storeVars, engineVars
  <2>2. OnRecord(g)
    BY <2>1 DEF OnRecord
  <2> QED
    BY <2>1, <2>2, ConflictSeen
<1> QED
  BY <1>1, <1>2, UnlinkEntered

(***************************************************************************)
(* If clients only add, pause and clear jobs, prepareOutputForStart never  *)
(* removes the control file of a download that dlqd has on record, however *)
(* many jobs are given the same output path and whatever calls are lost or *)
(* processes restarted: between the look at the table and os.Remove        *)
(* nothing comes to be on record (hasActiveOutputConflict, MarkCompleted,  *)
(* ClearCompleted).                                                        *)
(***************************************************************************)
THEOREM ControlFilesKept == PauseOnly => (Spec => []FreshStartSafe)
<1> SUFFICES ASSUME PauseOnly PROVE Spec => []FreshStartSafe
  OBVIOUS
<1>a. "purge" \notin Ops
  BY DEF PauseOnly
<1>1. Inv /\ TrackInv /\ LifeInv /\ [Next]_vars => LifeInv'
  BY <1>a, LifeStep
<1>2. Inv /\ TrackInv /\ LifeInv /\ SpentInv /\ [Next]_vars => SpentInv'
  BY <1>a, SpentStep
<1>3. Inv /\ TrackInv /\ LifeInv /\ KindsInv /\ [Next]_vars => KindsInv'
  BY <1>a, KindsStep
<1>4. Inv /\ TrackInv /\ LifeInv /\ SpentInv /\ HiddenInv /\ [Next]_vars => HiddenInv'
  BY HiddenStep
<1>5. Inv /\ TrackInv /\ LifeInv /\ SpentInv /\ KindsInv /\ HiddenInv /\ FreshStartSafe /\ [Next]_vars
         => FreshStartSafe'
  BY FreshStep
<1>6. Init => FreshStartSafe
  BY DEF Init, RunnerStopped, FreshStartSafe
<1> QED
  BY <1>1, <1>2, <1>3, <1>4, <1>5, <1>6, InitLife, SpentInit, KindsInit, HiddenInit, TrackInit,
     TrackStep, Invariance, PTL DEF Spec
=============================================================================
