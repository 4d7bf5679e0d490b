------------------------------ MODULE JobStore ------------------------------
(***************************************************************************)
(* The jobs table of /state/dlq.db and the SQL statements of               *)
(* internal/queue/store.go.  A statement is one atomic step on the table;  *)
(* every operator below gives the row a statement leaves, or the rows a    *)
(* query returns.  Nullable columns take the values "null" and "set".      *)
(***************************************************************************)
EXTENDS ArchiveNames, FiniteSets

CONSTANTS
    MaxJobs,           \* ids the table can hand out before it is purged
    Kinds,             \* what a submitted job can be: see Kind
    Gids,              \* aria2 task identifiers
    NoGid,             \* engine_gid IS NULL
    MaxAttempts,       \* max_attempts of every job (settings.json default: 5)
    PostprocessLimit   \* LIMIT of the postprocess query (runner.go passes 100)

JobId == 1 .. MaxJobs

(***************************************************************************)
(* The columns a client chooses once.  "name" says whether the client gave *)
(* an output name, "file" is the name the file gets in the download        *)
(* directory, from the client or else from the link, and "password" the    *)
(* archive password given with the job.                                    *)
(***************************************************************************)
Kind == [site : {"http", "webshare", "mega"}, name : {"null", "set"},
         file : Name, password : {"null", "set"}]

ASSUME StoreAssumption ==
    /\ MaxJobs \in Nat \ {0}
    /\ MaxAttempts \in Nat \ {0}
    /\ PostprocessLimit \in Nat \ {0}
    /\ Kinds \subseteq Kind /\ Kinds # {}
    /\ NoGid \notin Gids

VARIABLES
    jobs,      \* the table, by id; a row with status "none" does not exist
    seq,       \* sqlite_sequence: the last id handed out
    manual     \* history: per job, the requeues and resumes a user asked for

storeVars == <<jobs, seq, manual>>

Status == {"none", "queued", "resolving", "downloading", "paused",
           "decrypting", "decrypt_failed", "completed", "failed", "deleted"}

Row == [status : Status, kind : Kinds, deletedAt : {"null", "set"},
        gid : Gids \cup {NoGid}, attempts : Nat,
        nextRetryAt : {"null", "future", "past"}, errorCode : {"null", "set"},
        archivePassword : {"null", "set"}, filename : {"null", "set"}]

NewRow(kind) ==
    [status |-> "queued", kind |-> kind, deletedAt |-> "null", gid |-> NoGid,
     attempts |-> 0, nextRetryAt |-> "null", errorCode |-> "null",
     archivePassword |-> kind.password, filename |-> "null"]

NoRow == [NewRow(CHOOSE k \in Kinds : TRUE) EXCEPT !.status = "none",
                                                   !.archivePassword = "null"]

Exists(row) == row.status # "none"

StoreTypeOK ==
    /\ jobs \in [JobId -> Row]
    /\ seq \in 0 .. MaxJobs
    /\ manual \in [JobId -> Nat]

StoreInit ==
    /\ jobs = [j \in JobId |-> NoRow]
    /\ seq = 0
    /\ manual = [j \in JobId |-> 0]

----------------------------------------------------------------------------
(* UPDATE statements, as functions from the old row to the new one.        *)

(* Mutants: the engine's own state is stored, the gid is not, a failed row *)
(* gets no retry time, and failed post-processing looks like a failed      *)
(* download.                                                               *)
UpdateProgressRaw(r, st) == [r EXCEPT !.status = IF st = "downloading" THEN "active" ELSE st]
MarkDownloadingNoGid(r, g) == [r EXCEPT !.status = "downloading"]
MarkFailedNoTimer(r) == [r EXCEPT !.status = "failed", !.errorCode = "set", !.attempts = @ + 1]
MarkPostprocessFailedRetryable(r) ==
    [r EXCEPT !.status = "failed", !.errorCode = "set", !.nextRetryAt = "future"]

Resolving(r)          == [r EXCEPT !.status = "resolving"]
UpdateResolving(r, name) == [r EXCEPT !.filename = name]
MarkDownloading(r, g) == [r EXCEPT !.status = "downloading", !.gid = g]
MarkPaused(r)         == [r EXCEPT !.status = "paused"]
MarkDownloadingStatus(r) == [r EXCEPT !.status = "downloading"]
UpdateProgress(r, st) == [r EXCEPT !.status = st]
MarkCompleted(r)      == [r EXCEPT !.status = "completed", !.errorCode = "null"]
MarkDecrypting(r)     == [r EXCEPT !.status = "decrypting", !.errorCode = "null"]
MarkDecryptingRetry(r) == [r EXCEPT !.status = "decrypting"]
MarkPostprocessFailed(r) == [r EXCEPT !.status = "decrypt_failed", !.errorCode = "set"]
ClearArchivePassword(r) == [r EXCEPT !.archivePassword = "null"]
RemoveRow(r)          == [r EXCEPT !.status = "deleted", !.deletedAt = "set"]

MarkFailed(r) ==
    [r EXCEPT !.status = "failed", !.errorCode = "set",
              !.nextRetryAt = "future", !.attempts = @ + 1]

Requeue(r) ==
    [r EXCEPT !.status = "queued", !.errorCode = "null", !.nextRetryAt = "null",
              !.deletedAt = "null", !.filename = "null", !.gid = NoGid]

(* UPDATE ... WHERE id = ? changes nothing when the row is gone.           *)
Update(id, row) ==
    jobs' = [jobs EXCEPT ![id] = IF Exists(@) THEN row ELSE @]

----------------------------------------------------------------------------
(* INSERT and the two bulk statements.                                     *)

CreateJob(kind) ==
    /\ seq < MaxJobs
    /\ seq' = seq + 1
    /\ jobs' = [jobs EXCEPT ![seq + 1] = NewRow(kind)]
    /\ manual' = [manual EXCEPT ![seq + 1] = 0]

ClearCompleted ==
    /\ jobs' = [j \in JobId |-> IF jobs[j].status = "completed"
                                  THEN RemoveRow(jobs[j]) ELSE jobs[j]]
    /\ UNCHANGED <<seq, manual>>

(* Mutant: only finished jobs are deleted.                                 *)
ClearAllFinished ==
    /\ jobs' = [j \in JobId |-> IF jobs[j].status = "completed" THEN NoRow ELSE jobs[j]]
    /\ seq' = 0
    /\ UNCHANGED manual

ClearAll ==
    /\ jobs' = [j \in JobId |-> NoRow]
    /\ seq' = 0
    /\ UNCHANGED manual

----------------------------------------------------------------------------
(* Queries: the ids of the rows a SELECT returns.                          *)

Listed(j) == Exists(jobs[j]) /\ jobs[j].deletedAt = "null"

ListJobs(status) == {j \in JobId : Listed(j) /\ jobs[j].status = status}

PendingPostprocess ==
    {j \in JobId : /\ Listed(j)
                   /\ \/ jobs[j].status = "decrypting"
                      \/ /\ jobs[j].status = "completed"
                         /\ jobs[j].archivePassword = "set"}

(* ORDER BY id ASC LIMIT PostprocessLimit *)
ListPendingPostprocess ==
    {j \in PendingPostprocess :
        Cardinality({i \in PendingPostprocess : i < j}) < PostprocessLimit}

(* Mutant: one attempt too many.                                           *)
ListRetryableFailedOffByOne ==
    {j \in JobId : /\ Listed(j)
                   /\ jobs[j].status = "failed"
                   /\ jobs[j].nextRetryAt = "past"
                   /\ jobs[j].attempts <= MaxAttempts}

ListRetryableFailed ==
    {j \in JobId : /\ Listed(j)
                   /\ jobs[j].status = "failed"
                   /\ jobs[j].nextRetryAt = "past"
                   /\ jobs[j].attempts < MaxAttempts}

ClaimableQueued ==
    {j \in JobId : /\ Listed(j)
                   /\ jobs[j].status = "queued"
                   /\ jobs[j].nextRetryAt # "future"}

(* The clock reaches next_retry_at of a row.                               *)
RetryTimer(j) ==
    /\ jobs[j].nextRetryAt = "future"
    /\ jobs' = [jobs EXCEPT ![j].nextRetryAt = "past"]
    /\ UNCHANGED <<seq, manual>>
=============================================================================
