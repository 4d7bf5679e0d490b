------------------------------- MODULE Runner -------------------------------
(***************************************************************************)
(* The runner goroutine (internal/queue/runner.go).  A tick polls the      *)
(* downloading jobs, dispatches post-processing, requeues failed jobs and  *)
(* starts queued ones.  The first three work through a list read at the    *)
(* start of the phase, so each row they hold may be out of date by the     *)
(* time they act on it.  Every statement and every RPC is one step.        *)
(***************************************************************************)
EXTENDS Service

CONSTANT Concurrency   \* settings.json: how many downloads run at once

ASSUME RunnerAssumption == Concurrency \in Nat \ {0}

VARIABLES
    pc,     \* where the tick is
    snap,   \* rows of the list being worked through, or the claimed row
    cur,    \* the job being worked on
    reply,  \* what TellStatus returned for it
    work,   \* the decryptTask built for it, and whether it must wait
    hand,   \* a gid AddURI returned that is not recorded in the row yet
    auto    \* settings.json: auto_decrypt

localVars == <<pc, snap, cur, reply, work, hand>>
elsewhere == <<workerVars, req, auto>>

RunnerPC == {"idle", "poll", "apply", "mark", "schedule", "complete", "fail",
             "clear", "dispatch", "requeue", "claim", "check", "resolve",
             "prepare", "unlink", "start", "record", "startfail"}

Work == [todo : SUBSET {"mega", "archive"}, wait : BOOLEAN, entry : Name]
NoWork == [todo |-> {}, wait |-> FALSE, entry |-> NoRow.kind.file]

RunnerTypeOK ==
    /\ pc \in RunnerPC
    /\ snap \in [JobId -> Row]
    /\ cur \in JobId
    /\ reply \in TaskState \cup {"none", "not_found"}
    /\ work \in Work
    /\ hand \in Gids \cup {NoGid}
    /\ auto \in BOOLEAN

RunnerStopped ==
    /\ pc = "idle"
    /\ snap = [j \in JobId |-> NoRow]
    /\ cur = 1 /\ reply = "none" /\ work = NoWork /\ hand = NoGid

----------------------------------------------------------------------------

Held == {j \in JobId : Exists(snap[j])}

(* Read a list: the rows of ids as they are now.                           *)
Load(ids, next) ==
    /\ pc' = next
    /\ snap' = [j \in JobId |-> IF j \in ids THEN jobs[j] ELSE NoRow]
    /\ UNCHANGED <<cur, reply, work, hand, storeVars, engineVars, elsewhere>>

Goto(next) == pc' = next /\ UNCHANGED <<snap, cur, reply, work, hand>>

(* Done with a job: drop it from the list and go on.                       *)
Done(id, next) ==
    /\ pc' = next
    /\ snap' = [snap EXCEPT ![id] = NoRow]
    /\ cur' = 1 /\ reply' = "none" /\ work' = NoWork /\ hand' = NoGid

(* The loop that the current job came from.                                *)
Loop == IF snap[cur].status = "downloading" THEN "poll" ELSE "dispatch"

Write(id, row) == Update(id, row) /\ UNCHANGED <<seq, manual, engineVars, elsewhere>>
ReadOnly == UNCHANGED <<storeVars, engineVars, elsewhere>>

----------------------------------------------------------------------------
(* buildDecryptTask, for a row whose path is known or not and the volume   *)
(* that resolveArchiveEntryPath has found for it.                          *)

PathKnown(r) == r.kind.name = "set" \/ r.filename = "set"

(* A decrypting job whose error_code is still set had only its archive     *)
(* step fail, so its MEGA payload is not decrypted again.                  *)
ShouldDecryptMega(r, path) ==
    /\ r.kind.site = "mega"
    /\ ~ (r.status = "decrypting" /\ path /\ IsArchiveFile(r.kind.file) /\ r.errorCode = "set")

ShouldDecryptArchive(r, path, entry) ==
    /\ r.status = "decrypting" \/ auto
    /\ r.archivePassword = "set" \/ (path /\ IsArchiveFile(entry))

Todo(r, path, entry) ==
    (IF ShouldDecryptMega(r, path) THEN {"mega"} ELSE {})
        \cup (IF ShouldDecryptArchive(r, path, entry) THEN {"archive"} ELSE {})

(* Mutant: parts that wait for their siblings count as pending themselves. *)
MultipartSiblingUnfinished(id, entry) ==
    \E j \in JobId \ {id} :
        /\ Listed(j)
        /\ SameSet(entry, jobs[j].kind.file)
        /\ PathKnown(jobs[j])
        /\ jobs[j].status \in {"queued", "resolving", "downloading", "paused", "decrypting"}

MultipartSiblingPending(id, entry) ==
    \E j \in JobId \ {id} :
        /\ Listed(j)
        /\ SameSet(entry, jobs[j].kind.file)
        /\ PathKnown(jobs[j])
        /\ jobs[j].status \in {"queued", "resolving", "downloading", "paused"}

BuildDecryptTask(id, r, path, entry) ==
    [todo  |-> Todo(r, path, entry),
     wait  |-> "archive" \in Todo(r, path, entry) /\ MultipartSiblingPending(id, entry),
     entry |-> entry]

----------------------------------------------------------------------------
(* updateActive: newest job first; rows without a gid are passed over.     *)

ListActive ==
    /\ pc = "idle"
    /\ Load({j \in ListJobs("downloading") : jobs[j].gid # NoGid}, "poll")

TellStatus(id) ==
    /\ pc = "poll" /\ id \in Held /\ \A k \in Held : k <= id
    /\ \E out \in TellStatusOutcome(snap[id].gid) :
          IF out = "rpc_error"
            THEN Done(id, "poll")
            ELSE /\ pc' = "apply" /\ cur' = id /\ reply' = out
                 /\ UNCHANGED <<snap, work, hand>>
    /\ ReadOnly

ApplyFailed ==
    /\ pc = "apply" /\ reply \in {"not_found", "error"}
    /\ Write(cur, MarkFailed(jobs[cur]))
    /\ Done(cur, "poll")

ApplyProgress ==
    /\ pc = "apply" /\ reply \in {"active", "paused", "removed"}
    /\ Write(cur, UpdateProgress(jobs[cur], "downloading"))
    /\ Done(cur, "poll")

(* Mutant: a task that was removed counts as one that is complete.         *)
ApplyStopped ==
    /\ pc = "apply" /\ reply \in {"complete", "removed"}
    /\ \E entry \in ResolveArchiveEntryPath(snap[cur].kind.file) :
         IF Todo(snap[cur], TRUE, entry) = {}
           THEN /\ Write(cur, UpdateProgress(jobs[cur], "completed"))
                /\ Goto("complete")
           ELSE /\ work' = BuildDecryptTask(cur, snap[cur], TRUE, entry)
                /\ pc' = "mark"
                /\ UNCHANGED <<snap, cur, reply, hand>>
                /\ ReadOnly

(* aria2c reports the path of the file with the status.                    *)
ApplyComplete ==
    /\ pc = "apply" /\ reply = "complete"
    /\ \E entry \in ResolveArchiveEntryPath(snap[cur].kind.file) :
         IF Todo(snap[cur], TRUE, entry) = {}
           THEN /\ Write(cur, UpdateProgress(jobs[cur], "completed"))
                /\ Goto("complete")
           ELSE /\ work' = BuildDecryptTask(cur, snap[cur], TRUE, entry)
                /\ pc' = "mark"
                /\ UNCHANGED <<snap, cur, reply, hand>>
                /\ ReadOnly

----------------------------------------------------------------------------
(* dispatchCompletedDecrypt: oldest job first.                             *)

ListPending ==
    /\ pc = "poll" /\ Held = {}
    /\ Load(ListPendingPostprocess, "dispatch")

DispatchTask(id, entry) == BuildDecryptTask(id, snap[id], PathKnown(snap[id]), entry)

Dispatching(id) ==
    /\ pc = "dispatch" /\ id \in Held /\ \A k \in Held : id <= k
    /\ ReadOnly

Select(id, entry, next) ==
    /\ pc' = next /\ cur' = id /\ work' = DispatchTask(id, entry)
    /\ UNCHANGED <<snap, reply, hand>>

(* A completed job with nothing to do, or one that auto_decrypt = false    *)
(* leaves without anything to do.                                          *)
DispatchSkip(id, entry) ==
    /\ Dispatching(id)
    /\ DispatchTask(id, entry).todo = {}
    /\ snap[id].status # "decrypting"
    /\ Done(id, "dispatch")

DispatchNothingToDo(id, entry) ==
    /\ Dispatching(id)
    /\ DispatchTask(id, entry).todo = {}
    /\ snap[id].status = "decrypting"
    /\ Select(id, entry, "complete")

DispatchNoPath(id, entry) ==
    /\ Dispatching(id)
    /\ DispatchTask(id, entry).todo # {}
    /\ ~ PathKnown(snap[id])
    /\ Select(id, entry, "fail")

DispatchWait(id, entry) ==
    /\ Dispatching(id)
    /\ DispatchTask(id, entry).wait
    /\ PathKnown(snap[id])
    /\ snap[id].status = "decrypting"
    /\ Done(id, "dispatch")

DispatchTaskReady(id, entry) ==
    /\ Dispatching(id)
    /\ DispatchTask(id, entry).todo # {}
    /\ PathKnown(snap[id])
    /\ \/ snap[id].status # "decrypting" /\ Select(id, entry, "mark")
       \/ snap[id].status = "decrypting" /\ ~ DispatchTask(id, entry).wait /\ Select(id, entry, "schedule")

Dispatch(id) ==
    \E entry \in ResolveArchiveEntryPath(snap[id].kind.file) :
        \/ DispatchSkip(id, entry) \/ DispatchNothingToDo(id, entry) \/ DispatchNoPath(id, entry)
        \/ DispatchWait(id, entry) \/ DispatchTaskReady(id, entry)

----------------------------------------------------------------------------
(* Statements both loops can end a job with.                               *)

RunnerMarkDecrypting ==
    /\ pc = "mark"
    /\ Write(cur, MarkDecrypting(jobs[cur]))
    /\ IF work.wait THEN Done(cur, Loop) ELSE Goto("schedule")

RunnerSchedule ==
    /\ pc = "schedule"
    /\ ScheduleDecrypt([id |-> cur, todo |-> work.todo, entry |-> work.entry])
    /\ Done(cur, Loop)
    /\ UNCHANGED <<storeVars, engineVars, req, auto>>

RunnerMarkCompleted ==
    /\ pc = "complete"
    /\ Write(cur, MarkCompleted(jobs[cur]))
    /\ IF Loop = "poll" THEN Done(cur, "poll") ELSE Goto("clear")

RunnerMarkPostprocessFailed ==
    /\ pc = "fail"
    /\ Write(cur, MarkPostprocessFailed(jobs[cur]))
    /\ Goto("clear")

RunnerClearPassword ==
    /\ pc = "clear"
    /\ Write(cur, ClearArchivePassword(jobs[cur]))
    /\ Done(cur, Loop)

----------------------------------------------------------------------------
(* requeueFailed.                                                          *)

ListRetryable ==
    /\ pc = "dispatch" /\ Held = {}
    /\ Load(ListRetryableFailed, "requeue")

AutoRequeue(id) ==
    /\ pc = "requeue" /\ id \in Held
    /\ Write(id, Requeue(jobs[id]))
    /\ Done(id, "requeue")

----------------------------------------------------------------------------
(* Start queued jobs while there is room.                                  *)

(* Mutant: room for one download too many.                                 *)
CountDownloadingOffByOne ==
    /\ pc = "requeue" /\ Held = {}
    /\ Goto(IF Cardinality(ListJobs("downloading")) <= Concurrency THEN "claim" ELSE "idle")
    /\ ReadOnly

CountDownloading ==
    /\ pc = "requeue" /\ Held = {}
    /\ Goto(IF Cardinality(ListJobs("downloading")) < Concurrency THEN "claim" ELSE "idle")
    /\ ReadOnly

ClaimNextQueued(id) ==
    /\ pc = "claim"
    /\ id \in ClaimableQueued /\ \A k \in ClaimableQueued : id <= k
    /\ Write(id, Resolving(jobs[id]))
    /\ snap' = [snap EXCEPT ![id] = Resolving(jobs[id])]
    /\ pc' = "check" /\ cur' = id
    /\ UNCHANGED <<reply, work, hand>>

NothingQueued ==
    /\ pc = "claim" /\ ClaimableQueued = {}
    /\ Goto("idle") /\ ReadOnly

(* The claiming transaction can fail, when another connection has written  *)
(* since its read; the tick then ends.                                     *)
ClaimConflict ==
    /\ Lossy /\ pc = "claim"
    /\ Goto("idle") /\ ReadOnly

CheckDeleted ==
    /\ pc = "check"
    /\ IF Exists(jobs[cur]) /\ jobs[cur].deletedAt = "set"
         THEN Done(cur, "requeue") ELSE Goto("resolve")
    /\ ReadOnly

(* What a resolver can answer: an error, or success with a name that       *)
(* sanitizeFilename keeps ("set") or leaves empty ("null").  A direct URL  *)
(* is passed on unchanged and unnamed, and only the registry can refuse    *)
(* it; Webshare's file_info names the file, unchecked; MEGA's attributes   *)
(* must decrypt to a name that is not blank, but it may still be one that  *)
(* sanitizeFilename refuses.                                               *)
DirectResolve == {"null", "error"}
WebshareResolve == {"set", "null", "error"}
MegaFilename == {"set", "null", "error"}
MegaResolve == {"error"} \cup MegaFilename

ResolveWithSite(site) ==
    CASE site = "http" -> DirectResolve
      [] site = "webshare" -> WebshareResolve
      [] site = "mega" -> MegaResolve

(* Webshare's options tell aria2c not to continue an old download.         *)
NeedsFreshStart(kind) == kind.site = "webshare"

(* The output is prepared only if the job or the resolver gives it a name. *)
Resolved ==
    /\ pc = "resolve"
    /\ \E name \in ResolveWithSite(snap[cur].kind.site) \ {"error"} :
          /\ Write(cur, UpdateResolving(jobs[cur], name))
          /\ Goto(IF NeedsFreshStart(snap[cur].kind) /\ "set" \in {snap[cur].kind.name, name}
                    THEN "prepare" ELSE "start")

ResolveFailed ==
    /\ Faults /\ pc = "resolve"
    /\ "error" \in ResolveWithSite(snap[cur].kind.site)
    /\ Write(cur, MarkFailed(jobs[cur]))
    /\ Done(cur, "requeue")

----------------------------------------------------------------------------
(* prepareOutputForStart: a control file that an earlier download left in  *)
(* the same place goes, unless another job needs it.                       *)

(* Mutant: a paused download does not count.                               *)
IsOutputConflictRunningStatus(status) ==
    status \in {"queued", "resolving", "downloading", "decrypting"}

IsOutputConflictActiveStatus(status) ==
    status \in {"queued", "resolving", "downloading", "paused", "decrypting"}

HasActiveOutputConflict(id, kind) ==
    \E j \in JobId \ {id} :
        /\ Listed(j)
        /\ IsOutputConflictActiveStatus(jobs[j].status)
        /\ PathKnown(jobs[j])
        /\ jobs[j].kind.file = kind.file

PrepareOutputForStart ==
    /\ pc = "prepare"
    /\ Goto(IF HasActiveOutputConflict(cur, snap[cur].kind) THEN "start" ELSE "unlink")
    /\ ReadOnly

(* os.Remove succeeds, or finds no file.                                   *)
RemoveControlFile ==
    /\ pc = "unlink"
    /\ Goto("start") /\ ReadOnly

RemoveControlFileFailed ==
    /\ Faults /\ pc = "unlink"
    /\ Goto("startfail") /\ ReadOnly

----------------------------------------------------------------------------

(* A gid nothing refers to any more can stand for a new task.              *)
Fresh(g) ==
    /\ tasks[g] \notin Live
    /\ \A j \in JobId : jobs[j].gid # g /\ snap[j].gid # g
    /\ \A c \in Clients : req[c].gid # g

Started ==
    /\ pc = "start"
    /\ \E g \in Gids :
         /\ Fresh(g)
         /\ AddURI(g, cur, snap[cur].kind)
         /\ abandoned' = abandoned \ {g}
         /\ hand' = g
    /\ pc' = "record"
    /\ UNCHANGED <<snap, cur, reply, work, storeVars, elsewhere>>

(* aria2c refuses.                                                         *)
StartFailed ==
    /\ Faults /\ pc = "start"
    /\ Goto("startfail") /\ ReadOnly

(* aria2c has started the download, but its reply is lost.                 *)
StartLost ==
    /\ Lossy /\ pc = "start"
    /\ \E g \in Gids :
         /\ Fresh(g)
         /\ AddURI(g, cur, snap[cur].kind)
         /\ abandoned' = abandoned \cup {g}
    /\ Goto("startfail")
    /\ UNCHANGED <<storeVars, elsewhere>>

RunnerMarkFailed ==
    /\ pc = "startfail"
    /\ Write(cur, MarkFailed(jobs[cur]))
    /\ Done(cur, "requeue")

RunnerMarkDownloading ==
    /\ pc = "record"
    /\ Update(cur, MarkDownloading(jobs[cur], hand))
    /\ abandoned' = IF Exists(jobs[cur]) /\ owner[hand].job = cur
                      THEN abandoned ELSE abandoned \cup {hand}   \* purged meanwhile
    /\ Done(cur, "requeue")
    /\ UNCHANGED <<seq, manual, tasks, owner, files, elsewhere>>

RunnerJobStep(id) ==
    \/ TellStatus(id) \/ Dispatch(id) \/ AutoRequeue(id) \/ ClaimNextQueued(id)

RunnerStep ==
    \/ \E id \in JobId : RunnerJobStep(id)
    \/ ListActive \/ ApplyFailed \/ ApplyProgress \/ ApplyComplete \/ ListPending
    \/ RunnerMarkDecrypting \/ RunnerSchedule \/ RunnerMarkCompleted
    \/ RunnerMarkPostprocessFailed \/ RunnerClearPassword
    \/ ListRetryable \/ CountDownloading \/ NothingQueued \/ ClaimConflict
    \/ CheckDeleted \/ Resolved \/ ResolveFailed
    \/ PrepareOutputForStart \/ RemoveControlFile \/ RemoveControlFileFailed
    \/ Started \/ StartFailed \/ StartLost \/ RunnerMarkFailed \/ RunnerMarkDownloading
=============================================================================
