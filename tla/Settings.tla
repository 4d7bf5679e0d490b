------------------------------ MODULE Settings ------------------------------
(***************************************************************************)
(* settings.json and its copy in memory (internal/api/settings.go), under  *)
(* GET and POST /settings requests (handleSettings in internal/api/http.go) *)
(* that run concurrently, crashes of dlqd and failing writes.  The mutex   *)
(* covers Get, Update and the marshalling; the file is written outside it, *)
(* by os.WriteFile, which truncates the file and then writes it.           *)
(***************************************************************************)
EXTENDS Integers

CONSTANTS
    Admins,       \* requests that can be in flight at once
    Updates,      \* the request bodies that occur: see UpdateBody
    WriteFaults,  \* TRUE when writing the file may fail
    MaxCrashes    \* bound on the crashes of dlqd

(* The values that a job's max_attempts, the runner's loop and the         *)
(* post-processing depend on.                                              *)
Values == [concurrency : 1 .. 10, maxAttempts : 1 .. 20, autoDecrypt : BOOLEAN]
Default == [concurrency |-> 2, maxAttempts |-> 5, autoDecrypt |-> TRUE]

(* A decoded request body: a field holds its one value, or none if it is   *)
(* missing.  Numbers that are not integers, and values of other types,  *)
(* are refused like those out of range and "other".                        *)
UpdateBody == [concurrency : SUBSET Int, maxAttempts : SUBSET Int,
               autoDecrypt : SUBSET {"true", "false", "other"}]

ASSUME SettingsAssumption ==
    /\ Updates \subseteq UpdateBody
    /\ WriteFaults \in BOOLEAN
    /\ MaxCrashes \in Nat

VARIABLES
    up,       \* whether dlqd runs
    crashes,  \* how often it has crashed
    mem,      \* the Settings struct
    file,     \* settings.json: the text written last, and the file's size
    handler,  \* per request, its step and the bytes it has marshalled
    told,     \* history: what the last 200 reply, to GET or POST, reported
    alone,    \* history: whether the last POST met no other one and none of its steps failed
    saved,    \* history: what the last such POST reported, or the defaults; {} before them
    newer     \* history: what was marshalled since

history == <<told, alone, saved, newer>>
vars == <<up, crashes, mem, file, handler, history>>

(* Length of the marshalled text, up to a constant.                        *)
Digits(n) == IF n < 10 THEN 1 ELSE 2
Size(v) == Digits(v.concurrency) + Digits(v.maxAttempts) + (IF v.autoDecrypt THEN 4 ELSE 5)

File == [exists : BOOLEAN, size : Nat, text : Values]
Written(v) == [exists |-> TRUE, size |-> Size(v), text |-> v]
Absent == [exists |-> FALSE, size |-> 0, text |-> Default]

(* json.Unmarshal accepts neither an empty file nor one with remains of a  *)
(* longer text after the object.                                           *)
Readable(f) == f.size = Size(f.text)

Idle == [pc |-> "idle", data |-> Default]
HandlerPC == {"idle", "marshal", "open", "write", "answer"}

(* No POST is between its Update and its reply.                            *)
Quiet == \A a \in Admins : handler[a].pc = "idle"

Init ==
    /\ up = FALSE /\ crashes = 0
    /\ mem = Default /\ file = Absent
    /\ handler = [a \in Admins |-> Idle]
    /\ told = Default /\ alone = FALSE /\ saved = {} /\ newer = {}

----------------------------------------------------------------------------
(* NewSettings: load the file, or save the defaults if there is none; an   *)
(* unreadable file ends dlqd, and it is started again.                     *)
Start ==
    /\ ~ up
    /\ IF file.exists
         THEN /\ up' = Readable(file)
              /\ mem' = IF Readable(file) THEN file.text ELSE mem
              /\ UNCHANGED <<file, saved>>
         ELSE /\ up' = TRUE
              /\ mem' = Default /\ file' = Written(Default) /\ saved' = {Default}
    /\ UNCHANGED <<crashes, handler, told, alone, newer>>

(* Save fails on the defaults, before or after it has created the file.    *)
StartFails ==
    /\ ~ up /\ ~ file.exists
    /\ WriteFaults
    /\ file' \in {file, [file EXCEPT !.exists = TRUE]}
    /\ UNCHANGED <<up, crashes, mem, handler, history>>

Crash ==
    /\ up
    /\ crashes < MaxCrashes
    /\ crashes' = crashes + 1
    /\ up' = FALSE
    /\ handler' = [a \in Admins |-> Idle]
    /\ alone' = (alone /\ Quiet)
    /\ UNCHANGED <<mem, file, told, saved, newer>>

----------------------------------------------------------------------------
(* Settings.Update takes the fields in turn and stops at the first that is *)
(* refused, keeping what it has applied so far.                            *)

(* Mutant: the upper bound is not checked.                                 *)
BadConcurrencyNoMax(u) == \E n \in u.concurrency : n < 1

BadConcurrency(u) == \E n \in u.concurrency : n < 1 \/ n > 10
BadMaxAttempts(u) == \E n \in u.maxAttempts : n < 1 \/ n > 20
BadAutoDecrypt(u) == "other" \in u.autoDecrypt
Refused(u) == BadConcurrency(u) \/ BadMaxAttempts(u) \/ BadAutoDecrypt(u)

ValueOf(field, old) == IF field = {} THEN old ELSE CHOOSE x \in field : TRUE

Applied(s, u) ==
    [concurrency |-> IF BadConcurrency(u) THEN s.concurrency
                     ELSE ValueOf(u.concurrency, s.concurrency),
     maxAttempts |-> IF BadConcurrency(u) \/ BadMaxAttempts(u) THEN s.maxAttempts
                     ELSE ValueOf(u.maxAttempts, s.maxAttempts),
     autoDecrypt |-> IF Refused(u) THEN s.autoDecrypt
                     ELSE IF u.autoDecrypt = {} THEN s.autoDecrypt ELSE "true" \in u.autoDecrypt]

Goto(a, pc) == handler' = [handler EXCEPT ![a].pc = pc]

(* Mutant: the handler answers without calling Save.                       *)
UpdateNoSave(a, u) ==
    /\ up /\ handler[a].pc = "idle"
    /\ mem' = Applied(mem, u)
    /\ IF Refused(u) THEN UNCHANGED handler ELSE Goto(a, "answer")
    /\ alone' = (Quiet /\ ~ Refused(u))
    /\ UNCHANGED <<up, crashes, file, told, saved, newer>>

(* POST /settings, once its body is decoded: Update, under the lock.  What *)
(* it refuses is answered with 400 and is not saved.                       *)
Update(a, u) ==
    /\ up /\ handler[a].pc = "idle"
    /\ mem' = Applied(mem, u)
    /\ IF Refused(u) THEN UNCHANGED handler ELSE Goto(a, "marshal")
    /\ alone' = (Quiet /\ ~ Refused(u))
    /\ UNCHANGED <<up, crashes, file, told, saved, newer>>

----------------------------------------------------------------------------
(* Settings.Save: marshal under the lock, then truncate, then write.       *)

Marshal(a) ==
    /\ handler[a].pc = "marshal"
    /\ handler' = [handler EXCEPT ![a] = [pc |-> "open", data |-> mem]]
    /\ newer' = newer \cup {mem}
    /\ UNCHANGED <<up, crashes, mem, file, told, alone, saved>>

Truncate(a) ==
    /\ handler[a].pc = "open"
    /\ file' = [file EXCEPT !.exists = TRUE, !.size = 0]
    /\ Goto(a, "write")
    /\ UNCHANGED <<up, crashes, mem, history>>

(* Every descriptor writes from offset 0, over what another has written.   *)
WriteFile(a) ==
    /\ handler[a].pc = "write"
    /\ LET written == Size(handler[a].data) IN
         file' = [exists |-> TRUE, size |-> IF file.size > written THEN file.size ELSE written,
                  text |-> handler[a].data]
    /\ Goto(a, "answer")
    /\ UNCHANGED <<up, crashes, mem, history>>

(* Opening or writing fails: the request is answered with an error.        *)
SaveFails(a) ==
    /\ WriteFaults
    /\ handler[a].pc \in {"open", "write"}
    /\ handler' = [handler EXCEPT ![a] = Idle]
    /\ alone' = FALSE
    /\ UNCHANGED <<up, crashes, mem, file, told, saved, newer>>

(* 200 with the settings as they are now.                                  *)
Answer(a) ==
    /\ handler[a].pc = "answer"
    /\ handler' = [handler EXCEPT ![a] = Idle]
    /\ told' = mem
    /\ saved' = IF alone THEN {mem} ELSE saved
    /\ newer' = IF alone THEN {} ELSE newer
    /\ UNCHANGED <<up, crashes, mem, file, alone>>

(* GET /settings: 200 with the settings as they are now, which need not be *)
(* those in the file.                                                      *)
Get(a) ==
    /\ up /\ handler[a].pc = "idle"
    /\ told' = mem
    /\ UNCHANGED <<up, crashes, mem, file, handler, alone, saved, newer>>

(* handleSettings.  Other methods and bodies that cannot be decoded or are *)
(* too large are answered with an error and change nothing.                *)
Request(a) ==
    \/ Get(a)
    \/ \E u \in Updates : Update(a, u)
    \/ Marshal(a) \/ Truncate(a) \/ WriteFile(a) \/ SaveFails(a) \/ Answer(a)

Next == Start \/ StartFails \/ Crash \/ \E a \in Admins : Request(a)

Spec == Init /\ [][Next]_vars

----------------------------------------------------------------------------

(***************************************************************************)
(* Every variable has its type; in particular the settings in force lie in *)
(* the ranges that Update checks.                                          *)
(***************************************************************************)
TypeOK ==
    /\ up \in BOOLEAN /\ crashes \in 0 .. MaxCrashes
    /\ mem \in Values /\ file \in File
    /\ handler \in [Admins -> [pc : HandlerPC, data : Values]]
    /\ told \in Values /\ alone \in BOOLEAN
    /\ saved \in SUBSET Values /\ newer \in SUBSET Values

(***************************************************************************)
(* A POST that is answered with 200 and met no other POST on its way is    *)
(* saved for good, however many requests run concurrently before and after *)
(* it (handleSettings, Save, load).  Until another POST is accepted,       *)
(* settings.json is byte for byte what it wrote, through crashes,          *)
(* restarts, GETs and refused POSTs; until another POST comes at all, what *)
(* it reported is also what is in force and what every GET is told.  After *)
(* that a file that can be read holds it or a text marshalled later: no    *)
(* save that was under way brings older settings back.  The same goes for  *)
(* the defaults of the first start, GETs apart.                            *)
(***************************************************************************)
SavedUpdateKept ==
    \A v \in saved :
        /\ newer = {} => file = Written(v)
        /\ Readable(file) => file.text \in {v} \cup newer
        /\ (alone /\ Quiet) => told = v /\ (up => mem = v)
=============================================================================
