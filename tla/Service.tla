------------------------------ MODULE Service ------------------------------
(***************************************************************************)
(* The operations of internal/queue/service.go, run by HTTP handlers that  *)
(* interleave with the runner.  An operation on a job reads its row, then  *)
(* may call aria2c, then executes one statement; nothing holds the row in  *)
(* between, so each of the three is a step.                                *)
(***************************************************************************)
EXTENDS DecryptWorker

CONSTANTS
    Clients,    \* requests that can be in flight at once
    Ops,        \* the operations clients use: a subset of Operations
    MaxManual   \* bound on the retries and resumes of one job

Operations == {"create", "retry", "remove", "pause", "resume", "clear", "purge"}

ASSUME ServiceAssumption == Ops \subseteq Operations /\ MaxManual \in Nat

VARIABLE req   \* per client, what its operation still has to do

Call == {"none", "remove", "pause", "unpause"}
Stmt == {"none", "requeue", "decrypting", "remove", "pause", "downloading"}

Request == [call : Call, stmt : Stmt, id : JobId, gid : Gids \cup {NoGid}]
NoRequest == [call |-> "none", stmt |-> "none", id |-> 1, gid |-> NoGid]

Idle(c) == req[c] = NoRequest

ServiceTypeOK == req \in [Clients -> Request]
ServiceInit == req = [c \in Clients |-> NoRequest]

----------------------------------------------------------------------------
(* What each operation decides from the row it has read: the call to make  *)
(* and the statement to execute; NoPlan is an error returned at once.      *)

Plan(call, stmt) == [call |-> call, stmt |-> stmt]
NoPlan == Plan("none", "none")

(* removeEngineTask is called only when the row has a gid.                 *)
RemoveCall(r) == IF r.gid = NoGid THEN "none" ELSE "remove"

(* Mutant: retry requeues without removing the old task.                   *)
RetryPlanKeepsTask(r) ==
    Plan("none", IF r.status = "decrypt_failed" THEN "decrypting" ELSE "requeue")

RetryPlan(r) ==
    IF r.status = "decrypt_failed" THEN Plan("none", "decrypting")
                                   ELSE Plan(RemoveCall(r), "requeue")

RemovePlan(r) == Plan(RemoveCall(r), "remove")

PausePlan(r) ==
    IF r.status \in {"queued", "resolving"} THEN Plan("none", "pause")
    ELSE IF r.gid = NoGid THEN NoPlan ELSE Plan("pause", "pause")

ResumePlan(r) ==
    CASE r.kind.site = "webshare" -> Plan(RemoveCall(r), "requeue")
      [] r.gid = NoGid            -> Plan("none", "requeue")
      [] OTHER                    -> Plan("unpause", "downloading")

Begin(c, op, id, plan) ==
    /\ op \in Ops
    /\ Idle(c)
    /\ Exists(jobs[id])
    /\ plan # NoPlan
    /\ req' = [req EXCEPT ![c] = [call |-> plan.call, stmt |-> plan.stmt,
                                  id |-> id, gid |-> jobs[id].gid]]
    /\ UNCHANGED <<storeVars, engineVars, workerVars>>

Retry(c, id)  == manual[id] < MaxManual /\ Begin(c, "retry", id, RetryPlan(jobs[id]))
Remove(c, id) == Begin(c, "remove", id, RemovePlan(jobs[id]))
Pause(c, id)  == Begin(c, "pause", id, PausePlan(jobs[id]))
Resume(c, id) == manual[id] < MaxManual /\ Begin(c, "resume", id, ResumePlan(jobs[id]))

----------------------------------------------------------------------------

CallOutcome(call, g) ==
    CASE call = "remove"  -> RemoveOutcome(g)
      [] call = "pause"   -> PauseOutcome(g)
      [] call = "unpause" -> UnpauseOutcome(g)

(* An error ends the operation, except that resuming a task aria2c no      *)
(* longer knows requeues the job.  A client that goes away cancels its     *)
(* request: the statement that was to follow the call is not executed, as  *)
(* after a call that had its effect and lost its reply.                    *)
AfterCall(r, reply) ==
    CASE reply = "ok"                                 -> [r EXCEPT !.call = "none"]
      [] reply = "not_found" /\ r.call = "unpause"    -> [r EXCEPT !.call = "none", !.stmt = "requeue"]
      [] OTHER                                        -> NoRequest

EngineCall(c) ==
    /\ req[c].call # "none"
    /\ \E out \in CallOutcome(req[c].call, req[c].gid) :
         /\ tasks' = [tasks EXCEPT ![req[c].gid] = out[1]]
         /\ owner' = [owner EXCEPT ![req[c].gid] = IF out[1] \in Live THEN @ ELSE NoOwner]
         /\ req' = [req EXCEPT ![c] = AfterCall(@, out[2])]
    /\ UNCHANGED <<storeVars, files, abandoned, workerVars>>

RowAfter(stmt, r) ==
    CASE stmt = "requeue"     -> Requeue(r)
      [] stmt = "decrypting"  -> MarkDecryptingRetry(r)
      [] stmt = "remove"      -> RemoveRow(r)
      [] stmt = "pause"       -> MarkPaused(r)
      [] stmt = "downloading" -> MarkDownloadingStatus(r)

(* A requeue forgets the gid in the row, which is not the one the          *)
(* operation dealt with if the runner has recorded a new one meanwhile.    *)
Execute(c) ==
    LET id == req[c].id IN
    /\ req[c].stmt # "none"
    /\ req[c].call = "none"
    /\ Update(id, RowAfter(req[c].stmt, jobs[id]))
    /\ manual' = [manual EXCEPT ![id] =
           IF req[c].stmt \in {"requeue", "downloading"} THEN @ + 1 ELSE @]
    /\ abandoned' = IF req[c].stmt = "requeue" /\ jobs[id].gid \notin {NoGid, req[c].gid}
                      THEN abandoned \cup {jobs[id].gid} ELSE abandoned
    /\ req' = [req EXCEPT ![c] = NoRequest]
    /\ UNCHANGED <<seq, tasks, owner, files, workerVars>>

----------------------------------------------------------------------------
(* Operations of a single statement.                                       *)

Create(kind) ==
    /\ "create" \in Ops
    /\ CreateJob(kind)
    /\ files' = [files EXCEPT ![seq + 1] = "none"]
    /\ UNCHANGED <<tasks, owner, abandoned, workerVars, req>>

Clear ==
    /\ "clear" \in Ops
    /\ ClearCompleted
    /\ UNCHANGED <<engineVars, workerVars, req>>

Purge ==
    /\ "purge" \in Ops
    /\ ClearAll
    /\ owner' = [g \in Gids |-> [owner[g] EXCEPT !.job = 0]]
    /\ files' = [j \in JobId |-> "none"]
    /\ abandoned' = abandoned \cup {g \in Gids : \E j \in JobId : jobs[j].gid = g}
    /\ UNCHANGED <<tasks, workerVars, req>>

ServiceStep(c) ==
    \/ \E id \in JobId : Retry(c, id) \/ Remove(c, id) \/ Pause(c, id) \/ Resume(c, id)
    \/ EngineCall(c)
    \/ Execute(c)

BulkStep == (\E kind \in Kinds : Create(kind)) \/ Clear \/ Purge
=============================================================================
