--------------------------- MODULE DecryptWorker ---------------------------
(***************************************************************************)
(* The decrypt goroutines of the runner (runDecrypt in                     *)
(* internal/queue/runner.go): one per scheduled task, started only if the  *)
(* job is not in decryptPending, and running only while it holds a token   *)
(* of decryptSem.  Each database statement and each tool run is one step.  *)
(***************************************************************************)
EXTENDS Aria2

CONSTANTS
    Workers,             \* goroutine identities; MaxJobs + DecryptConcurrency suffice
    DecryptConcurrency   \* capacity of decryptSem (1 unless configured)

ASSUME WorkerAssumption ==
    /\ DecryptConcurrency \in Nat \ {0}
    /\ IsFiniteSet(Workers)
    /\ Cardinality(Workers) >= MaxJobs + DecryptConcurrency

VARIABLES
    gor,       \* the goroutines
    pending,   \* decryptPending
    tokens,    \* tokens left in decryptSem
    opened     \* history: what the archive tool was run on with its set complete

workerVars == <<gor, pending, tokens, opened>>

(* What is to be done to which file: the decryptTask of the runner.        *)
Task == [id : JobId, todo : SUBSET {"mega", "archive"}, entry : Name]

WorkerPC == {"none", "waiting", "mega", "archive", "complete", "fail", "clear",
             "unmark", "release"}

NoTask == [id |-> 1, todo |-> {}, entry |-> NoRow.kind.file]
NoGor == [pc |-> "none", task |-> NoTask]

(* The goroutine stands in decryptPending / holds a token.                 *)
IsPending(w) == gor[w].pc \notin {"none", "release"}
HoldsToken(w) == gor[w].pc \notin {"none", "waiting"}

WorkerTypeOK ==
    /\ gor \in [Workers -> [pc : WorkerPC, task : Task]]
    /\ pending \in SUBSET JobId
    /\ tokens \in Nat
    /\ opened \in SUBSET Name

WorkerInit ==
    /\ gor = [w \in Workers |-> NoGor]
    /\ pending = {}
    /\ tokens = DecryptConcurrency
    /\ opened = {}

----------------------------------------------------------------------------
(* Files on disk.                                                          *)

(* Some job has finished downloading the file of that name.                *)
Stored(n) == \E j \in JobId : Exists(jobs[j]) /\ jobs[j].kind.file = n /\ files[j] # "none"

(* resolveArchiveEntryPath: the first volume if os.Stat finds it.  Besides *)
(* a finished download it may find one under way, or a file of old.        *)
ResolveArchiveEntryPath(n) ==
    IF Stored(MultipartArchiveFirstVolume(n))
      THEN {MultipartArchiveFirstVolume(n)}
      ELSE {n, MultipartArchiveFirstVolume(n)}

(* The files the archive tool needs to open n, all there and decrypted.    *)
Volumes(n) == {k.file : k \in {k \in Kinds : k.file = n \/ SameSet(k.file, n)}}
Complete(n) ==
    \A v \in Volumes(n) : \E j \in JobId :
        Exists(jobs[j]) /\ jobs[j].kind.file = v /\ files[j] = "plain"

----------------------------------------------------------------------------

(* Unused identities are alike, so any one of them will do.                *)
NewGoroutine(w) ==
    /\ gor[w].pc = "none"
    /\ w = CHOOSE v \in Workers : gor[v].pc = "none"

(* Mutant: markDecryptPending is not consulted.                            *)
ScheduleDecryptAlways(task) ==
    /\ pending' = pending \cup {task.id}
    /\ \E w \in Workers :
         /\ NewGoroutine(w)
         /\ gor' = [gor EXCEPT ![w] = [pc |-> "waiting", task |-> task]]
    /\ UNCHANGED <<tokens, opened>>

(* scheduleDecrypt: nothing happens if the job already has a goroutine.    *)
ScheduleDecrypt(task) ==
    IF task.id \in pending
      THEN UNCHANGED workerVars
      ELSE /\ pending' = pending \cup {task.id}
           /\ \E w \in Workers :
                /\ NewGoroutine(w)
                /\ gor' = [gor EXCEPT ![w] = [pc |-> "waiting", task |-> task]]
           /\ UNCHANGED <<tokens, opened>>

StepTo(w, pc) == gor' = [gor EXCEPT ![w].pc = pc]

AfterMega(w) == IF "archive" \in gor[w].task.todo THEN "archive" ELSE "complete"

AcquireWorker(w) ==
    /\ gor[w].pc = "waiting"
    /\ tokens > 0
    /\ tokens' = tokens - 1
    /\ StepTo(w, IF "mega" \in gor[w].task.todo THEN "mega" ELSE AfterMega(w))
    /\ UNCHANGED <<storeVars, engineVars, pending, opened>>

(* The payload is decrypted into a temporary file that replaces the        *)
(* download once its MAC matches; a file that is plain already fails it.   *)
(* Keys are those of file links, 32 bytes long, which carry a MAC.         *)
MegaDecrypted(w) ==
    /\ gor[w].pc = "mega"
    /\ files[gor[w].task.id] = "cipher"
    /\ files' = [files EXCEPT ![gor[w].task.id] = "plain"]
    /\ StepTo(w, AfterMega(w))
    /\ UNCHANGED <<storeVars, tasks, owner, abandoned, pending, tokens, opened>>

(* Mutant: the error of the MEGA step is dropped.                          *)
MegaFailedIgnored(w) ==
    /\ gor[w].pc = "mega"
    /\ StepTo(w, AfterMega(w))
    /\ UNCHANGED <<storeVars, engineVars, pending, tokens, opened>>

MegaFailed(w) ==
    /\ gor[w].pc = "mega"
    /\ StepTo(w, "fail")
    /\ UNCHANGED <<storeVars, engineVars, pending, tokens, opened>>

(* MaybeDecrypt looks for the first volume once more, and skips a file     *)
(* without an archive extension.                                           *)
ArchiveSkipped(w) ==
    /\ gor[w].pc = "archive"
    /\ \E n \in ResolveArchiveEntryPath(gor[w].task.entry) : ~ IsArchiveFile(n)
    /\ StepTo(w, "complete")
    /\ UNCHANGED <<storeVars, engineVars, pending, tokens, opened>>

(* The tool leaves the archive itself alone.  It opens neither ciphertext  *)
(* nor a set with a volume missing, and can fail for other reasons.        *)
ArchiveDecrypted(w) ==
    /\ gor[w].pc = "archive"
    /\ \E n \in ResolveArchiveEntryPath(gor[w].task.entry) :
         /\ IsArchiveFile(n)
         /\ Complete(n)
         /\ opened' = opened \cup {n}
    /\ StepTo(w, "complete")
    /\ UNCHANGED <<storeVars, engineVars, pending, tokens>>

ArchiveFailed(w) ==
    /\ gor[w].pc = "archive"
    /\ \E n \in ResolveArchiveEntryPath(gor[w].task.entry) :
         /\ IsArchiveFile(n)
         /\ opened' = IF Complete(n) THEN opened \cup {n} ELSE opened
    /\ StepTo(w, "fail")
    /\ UNCHANGED <<storeVars, engineVars, pending, tokens>>

(* A database statement of the goroutine, then the next one.               *)
WorkerStmt(w, at, row, next) ==
    /\ gor[w].pc = at
    /\ Update(gor[w].task.id, row)
    /\ StepTo(w, next)
    /\ UNCHANGED <<seq, manual, engineVars, pending, tokens, opened>>

WorkerMarkCompleted(w) ==
    WorkerStmt(w, "complete", MarkCompleted(jobs[gor[w].task.id]), "clear")
(* Mutant: the error path returns before ClearArchivePassword.             *)
WorkerMarkFailedEarlyReturn(w) ==
    WorkerStmt(w, "fail", MarkPostprocessFailed(jobs[gor[w].task.id]), "unmark")
WorkerMarkFailed(w) ==
    WorkerStmt(w, "fail", MarkPostprocessFailed(jobs[gor[w].task.id]), "clear")
WorkerClearPassword(w) ==
    WorkerStmt(w, "clear", ClearArchivePassword(jobs[gor[w].task.id]), "unmark")

(* Mutant: releaseDecryptWorker is not deferred.                           *)
UnmarkPendingNoRelease(w) ==
    /\ gor[w].pc = "unmark"
    /\ pending' = pending \ {gor[w].task.id}
    /\ gor' = [gor EXCEPT ![w] = NoGor]
    /\ UNCHANGED <<storeVars, engineVars, tokens, opened>>

(* The deferred calls run last in, first out.                              *)
UnmarkPending(w) ==
    /\ gor[w].pc = "unmark"
    /\ pending' = pending \ {gor[w].task.id}
    /\ StepTo(w, "release")
    /\ UNCHANGED <<storeVars, engineVars, tokens, opened>>

ReleaseWorker(w) ==
    /\ gor[w].pc = "release"
    /\ tokens' = tokens + 1
    /\ gor' = [gor EXCEPT ![w] = NoGor]
    /\ UNCHANGED <<storeVars, engineVars, pending, opened>>

WorkerStep(w) ==
    \/ AcquireWorker(w)
    \/ MegaDecrypted(w)       \/ MegaFailed(w)
    \/ ArchiveSkipped(w)      \/ ArchiveDecrypted(w) \/ ArchiveFailed(w)
    \/ WorkerMarkCompleted(w) \/ WorkerMarkFailed(w) \/ WorkerClearPassword(w)
    \/ UnmarkPending(w)       \/ ReleaseWorker(w)
=============================================================================
