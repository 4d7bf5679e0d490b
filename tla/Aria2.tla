------------------------------- MODULE Aria2 -------------------------------
(***************************************************************************)
(* aria2c as dlqd sees it over JSON-RPC (internal/downloader/aria2.go) and *)
(* the files it leaves in the download directory.  aria2c is an external   *)
(* program: its replies are modelled from the errors and states that the   *)
(* client tells apart.  A gid whose task is "free" is unknown to aria2c.   *)
(***************************************************************************)
EXTENDS JobStore

CONSTANTS
    Faults,   \* TRUE when links fail to resolve and downloads to start or end
    Lossy     \* TRUE when RPCs time out, lose their reply or stop half way

ASSUME FaultsAssumption == Faults \in BOOLEAN /\ Lossy \in BOOLEAN

VARIABLES
    tasks,      \* state of the task behind each gid
    owner,      \* the job a live task was added for, and what it downloads
    files,      \* contents of each job's output file
    abandoned   \* history: gids whose only record dlqd has given up

engineVars == <<tasks, owner, files, abandoned>>

TaskState == {"free", "active", "paused", "complete", "error", "removed"}
Live == {"active", "paused"}

(* Job 0 stands for one that was purged: its file is nobody's any more.    *)
Owner == [job : 0 .. MaxJobs, kind : Kinds]
NoOwner == [job |-> 0, kind |-> NoRow.kind]

(* MEGA serves encrypted contents.                                         *)
Serves(kind) == IF kind.site = "mega" THEN "cipher" ELSE "plain"

EngineTypeOK ==
    /\ tasks \in [Gids -> TaskState]
    /\ owner \in [Gids -> Owner]
    /\ files \in [JobId -> {"none", "cipher", "plain"}]
    /\ abandoned \in SUBSET Gids

EngineInit ==
    /\ tasks = [g \in Gids |-> "free"]
    /\ owner = [g \in Gids |-> NoOwner]
    /\ files = [j \in JobId |-> "none"]
    /\ abandoned = {}

----------------------------------------------------------------------------
(* What aria2c does by itself.                                             *)

Finish(g) ==
    /\ tasks[g] = "active"
    /\ tasks' = [tasks EXCEPT ![g] = "complete"]
    /\ files' = [j \in JobId |-> IF j = owner[g].job THEN Serves(owner[g].kind) ELSE files[j]]
    /\ owner' = [owner EXCEPT ![g] = NoOwner]
    /\ UNCHANGED abandoned

Fail(g) ==
    /\ Faults
    /\ tasks[g] = "active"
    /\ tasks' = [tasks EXCEPT ![g] = "error"]
    /\ owner' = [owner EXCEPT ![g] = NoOwner]
    /\ UNCHANGED <<files, abandoned>>

(* aria2c is started without a session file: a restart forgets every task. *)
ForgetTasks ==
    /\ tasks' = [g \in Gids |-> "free"]
    /\ owner' = [g \in Gids |-> NoOwner]
    /\ abandoned' = {}
    /\ UNCHANGED files

----------------------------------------------------------------------------
(* addUri for a job.                                                       *)
AddURI(g, id, kind) ==
    /\ tasks' = [tasks EXCEPT ![g] = "active"]
    /\ owner' = [owner EXCEPT ![g] = [job |-> id, kind |-> kind]]
    /\ UNCHANGED files

(* Replies to the calls.  An outcome is a pair: the state the task is left *)
(* in and what the client returns.  A lost call has had its effect or not. *)

Lost(g, effect) == IF Lossy THEN {<<tasks[g], "error">>, <<effect, "error">>} ELSE {}

PauseOutcome(g) ==
    CASE tasks[g] = "active" -> {<<"paused", "ok">>} \cup Lost(g, "paused")
      [] tasks[g] = "free"   -> {<<"free", "not_found">>} \cup Lost(g, "free")
      [] OTHER               -> {<<tasks[g], "not_allowed">>} \cup Lost(g, tasks[g])

UnpauseOutcome(g) ==
    CASE tasks[g] = "paused" -> {<<"active", "ok">>} \cup Lost(g, "active")
      [] tasks[g] = "free"   -> {<<"free", "not_found">>} \cup Lost(g, "free")
      [] OTHER               -> {<<tasks[g], "not_allowed">>} \cup Lost(g, tasks[g])

(* remove, then forceRemove if refused, then removeDownloadResult, whose   *)
(* refusal for a task that is still stopping fails the call half way.      *)
RemoveOutcome(g) ==
    {<<"free", "ok">>} \cup Lost(g, "free")
        \cup (IF tasks[g] \in Live THEN {<<"removed", "error">>} ELSE {})

TellStatusOutcome(g) ==
    {IF tasks[g] = "free" THEN "not_found" ELSE tasks[g]}
        \cup (IF Lossy THEN {"rpc_error"} ELSE {})
=============================================================================
