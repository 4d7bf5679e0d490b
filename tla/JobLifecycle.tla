---------------------------- MODULE JobLifecycle ----------------------------
(***************************************************************************)
(* What a client of dlqd may see happen to the jobs: the stage of each, as *)
(* its status and deleted_at show it, the failures charged to it and the   *)
(* requests for more that users have made.                                 *)
(***************************************************************************)
EXTENDS Integers

CONSTANTS
    Job,         \* the ids of jobs
    MaxAttempts  \* failures a job may have without anyone asking for more

VARIABLES stage, failures, requests

lifecycleVars == <<stage, failures, requests>>

Stage == {"absent", "active", "paused", "processing", "broken", "done",
          "failed", "removed"}

Init ==
    /\ stage = [j \in Job |-> "absent"]
    /\ failures = [j \in Job |-> 0]
    /\ requests = [j \in Job |-> 0]

Present(j) == stage[j] # "absent"
Allowance(j) == failures[j] < MaxAttempts + requests[j]

----------------------------------------------------------------------------
(* What users do.                                                          *)

Create(j) ==
    /\ ~ Present(j)
    /\ stage' = [stage EXCEPT ![j] = "active"]
    /\ failures' = [failures EXCEPT ![j] = 0]
    /\ requests' = [requests EXCEPT ![j] = 0]

(* Retry or resume; resuming a removed job does not bring it back.         *)
Again(j) ==
    /\ Present(j)
    /\ requests' = [requests EXCEPT ![j] = @ + 1]
    /\ stage' = [stage EXCEPT ![j] = "active"] \/ (stage[j] = "removed" /\ UNCHANGED stage)
    /\ UNCHANGED failures

(* Pause or remove.                                                        *)
Stop(j) ==
    /\ Present(j)
    /\ \E s \in {"paused", "removed"} : stage' = [stage EXCEPT ![j] = s]
    /\ UNCHANGED <<failures, requests>>

(* Retry of failed post-processing.                                        *)
Reprocess(j) ==
    /\ Present(j)
    /\ stage' = [stage EXCEPT ![j] = "processing"]
    /\ UNCHANGED <<failures, requests>>

ClearDone ==
    /\ stage' = [j \in Job |-> IF stage[j] = "done" THEN "removed" ELSE stage[j]]
    /\ UNCHANGED <<failures, requests>>

Purge ==
    /\ stage' = [j \in Job |-> "absent"]
    /\ failures' = [j \in Job |-> 0]
    /\ UNCHANGED requests

----------------------------------------------------------------------------
(* What the daemon does by itself.  It may still act on what it saw of a   *)
(* job before a user stopped it, or asked for it again.                    *)

Downloaded == {"processing", "broken", "done"}

In(j, stages) == stage[j] \in stages \/ (Present(j) /\ requests[j] > 0)

(* A failure is charged only while the job has some allowance left.        *)
Fail(j) ==
    /\ In(j, {"active", "paused", "removed"}) /\ Allowance(j)
    /\ failures' = [failures EXCEPT ![j] = @ + 1]
    /\ stage' = [stage EXCEPT ![j] = IF @ = "removed" THEN @ ELSE "failed"]
    /\ UNCHANGED requests

(* A job becomes active again only if it may fail once more: a failed one  *)
(* that is retried, or one whose pause or removal the runner has overtaken. *)
TryAgain(j) ==
    /\ In(j, {"failed", "paused", "removed"}) /\ Allowance(j)
    /\ stage' = [stage EXCEPT ![j] = "active"]
    /\ UNCHANGED <<failures, requests>>

(* The download ends; what follows never sends the job back to the queue.  *)
Advance(j) ==
    /\ In(j, {"active", "paused"} \cup Downloaded) /\ stage[j] # "removed"
    /\ \E s \in Downloaded : stage' = [stage EXCEPT ![j] = s]
    /\ UNCHANGED <<failures, requests>>

Next ==
    \/ \E j \in Job : \/ Create(j) \/ Again(j) \/ Stop(j) \/ Reprocess(j)
                      \/ Fail(j) \/ TryAgain(j) \/ Advance(j)
    \/ ClearDone \/ Purge

Spec == Init /\ [][Next]_lifecycleVars
=============================================================================
