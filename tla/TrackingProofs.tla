--------------------------- MODULE TrackingProofs ---------------------------
(***************************************************************************)
(* dlqd keeps a record of every aria2c task it has started, except where   *)
(* it is known to give the record up.  That nothing else forgets one rests *)
(* on what the runner's lists, the clients' requests and the statuses say  *)
(* about the gid of a row.                                                 *)
(***************************************************************************)
EXTENDS BudgetProofs

(* A gid that may be forgotten.                                            *)
Dead(g) == g = NoGid \/ tasks[g] \notin Live \/ g \in abandoned

(* The same of a gid known now, after the step.                            *)
DeadNext(g) == g = NoGid \/ tasks'[g] \notin Live \/ g \in abandoned'

(* What is known of the gid of a row: it has none before it is downloading *)
(* for the first time or again, and a failed one, or one that the runner   *)
(* has seen to be failed, has no task that runs.                           *)
RowTracked(j) ==
    /\ jobs[j].status \in {"none", "queued", "resolving"} => jobs[j].gid = NoGid
    /\ jobs[j].status = "failed" => Dead(jobs[j].gid)
    /\ snap[j].status = "resolving" => jobs[j].gid = NoGid
    /\ snap[j].status = "failed" => Dead(jobs[j].gid)
    /\ Polled(j) => jobs[j].gid \in {NoGid, snap[j].gid}
    /\ Exists(jobs[j]) => j <= seq

(* A request that will requeue has removed the task or found it gone, or   *)
(* is going to remove it first.                                            *)
RequestTracked(c) ==
    req[c].stmt = "requeue" =>
        \/ req[c].call = "remove"
        \/ req[c].call = "none" /\ Dead(req[c].gid)

ReplyTracked ==
    (pc = "apply" /\ reply \in {"not_found", "error"}) => tasks[snap[cur].gid] \notin Live

TrackInv ==
    /\ \A j \in JobId : RowTracked(j)
    /\ \A c \in Clients : RequestTracked(c)
    /\ ReplyTracked
    /\ pc # "record" => hand = NoGid
    /\ EngineTasksTracked

(* Types used throughout.                                                  *)
LEMMA TrackTypes ==
    ASSUME Inv
    PROVE  /\ StoreTypeOK /\ EngineTypeOK /\ WorkerTypeOK /\ RunnerTypeOK /\ ListInv
           /\ req \in [Clients -> Request]
           /\ cur \in JobId /\ seq \in Nat
           /\ \A j \in JobId : /\ jobs[j] \in Row /\ snap[j] \in Row
                               /\ jobs[j].gid \in Gids \cup {NoGid}
                               /\ snap[j].gid \in Gids \cup {NoGid}
           /\ \A g \in Gids : owner[g].job # 0 => owner[g].job \in JobId
<1>1. /\ StoreTypeOK /\ EngineTypeOK /\ WorkerTypeOK /\ RunnerTypeOK /\ ListInv
      /\ req \in [Clients -> Request]
  BY DEF Inv, TypeOK, ServiceTypeOK
<1>2. cur \in JobId /\ seq \in Nat
  BY <1>1 DEF RunnerTypeOK, StoreTypeOK
<1>3. \A j \in JobId : jobs[j] \in Row /\ snap[j] \in Row
  BY <1>1 DEF RunnerTypeOK, StoreTypeOK
<1>4. \A g \in Gids : owner[g].job # 0 => owner[g].job \in JobId
  BY <1>1 DEF EngineTypeOK, Owner, JobId
<1> QED
  BY <1>1, <1>2, <1>3, <1>4 DEF Row

(* An UPDATE changes one row, and that one only if it is there.            *)
LEMMA UpdateExisting ==
    ASSUME StoreTypeOK, NEW id \in JobId, NEW row, Update(id, row), NEW j \in JobId
    PROVE  jobs'[j] = jobs[j] \/ (j = id /\ Exists(jobs[j]) /\ jobs'[j] = row)
BY DEF StoreTypeOK, Update

(* What the statements do to the gid and the status.                       *)
LEMMA StmtGid ==
    ASSUME NEW r \in Row
    PROVE  /\ \A row \in {Resolving(r), MarkPaused(r), MarkDownloadingStatus(r), MarkCompleted(r),
                          MarkDecrypting(r), MarkDecryptingRetry(r), MarkPostprocessFailed(r),
                          ClearArchivePassword(r), RemoveRow(r), MarkFailed(r)} : row.gid = r.gid
           /\ \A row \in {MarkPaused(r), MarkDownloadingStatus(r), MarkCompleted(r),
                          MarkDecrypting(r), MarkDecryptingRetry(r), MarkPostprocessFailed(r),
                          RemoveRow(r)} :
                 row.status \notin {"none", "queued", "resolving", "failed"}
           /\ MarkFailed(r).status = "failed" /\ ClearArchivePassword(r).status = r.status
           /\ Requeue(r).gid = NoGid /\ Requeue(r).status = "queued"
           /\ Resolving(r).status = "resolving"
           /\ \A name : UpdateResolving(r, name).gid = r.gid /\ UpdateResolving(r, name).status = r.status
           /\ \A st \in {"downloading", "completed"} :
                 UpdateProgress(r, st).gid = r.gid /\ UpdateProgress(r, st).status = st
           /\ \A g \in Gids : MarkDownloading(r, g).gid = g /\ MarkDownloading(r, g).status = "downloading"
<1>1. /\ MarkFailed(r).status = "failed" /\ ClearArchivePassword(r).status = r.status
      /\ Requeue(r).gid = NoGid /\ Requeue(r).status = "queued" /\ Resolving(r).status = "resolving"
      /\ MarkFailed(r).gid = r.gid /\ ClearArchivePassword(r).gid = r.gid /\ Resolving(r).gid = r.gid
  BY DEF MarkFailed, ClearArchivePassword, Requeue, Resolving, Row
<1>2. /\ MarkPaused(r).gid = r.gid /\ MarkPaused(r).status = "paused"
      /\ MarkDownloadingStatus(r).gid = r.gid /\ MarkDownloadingStatus(r).status = "downloading"
      /\ MarkCompleted(r).gid = r.gid /\ MarkCompleted(r).status = "completed"
      /\ MarkDecrypting(r).gid = r.gid /\ MarkDecrypting(r).status = "decrypting"
  BY DEF MarkPaused, MarkDownloadingStatus, MarkCompleted, MarkDecrypting, Row
<1>3. /\ MarkDecryptingRetry(r).gid = r.gid /\ MarkDecryptingRetry(r).status = "decrypting"
      /\ MarkPostprocessFailed(r).gid = r.gid /\ MarkPostprocessFailed(r).status = "decrypt_failed"
      /\ RemoveRow(r).gid = r.gid /\ RemoveRow(r).status = "deleted"
  BY DEF MarkDecryptingRetry, MarkPostprocessFailed, RemoveRow, Row
<1>4. /\ \A name : UpdateResolving(r, name).gid = r.gid /\ UpdateResolving(r, name).status = r.status
      /\ \A st \in {"downloading", "completed"} :
                 UpdateProgress(r, st).gid = r.gid /\ UpdateProgress(r, st).status = st
      /\ \A g \in Gids : MarkDownloading(r, g).gid = g /\ MarkDownloading(r, g).status = "downloading"
  BY DEF UpdateResolving, UpdateProgress, MarkDownloading, Row
<1> QED
  BY <1>1, <1>2, <1>3, <1>4

----------------------------------------------------------------------------

(* The runner goes on to another step, or stays where it is.               *)
MovesOn ==
    /\ ListShrinks /\ hand' = hand
    /\ pc' = "record" <=> pc = "record"
    /\ pc' = "apply" => UNCHANGED <<pc, reply, cur, snap>>

(* A statement that keeps the gid of the row, or forgets a dead one.       *)
LEMMA StmtTracked ==
    ASSUME Inv, TrackInv, NEW id \in JobId, NEW row, Update(id, row),
           UNCHANGED <<tasks, owner, seq>>, abandoned \subseteq abandoned',
           \/ row.gid = jobs[id].gid
           \/ /\ row.gid = NoGid
              /\ Dead(jobs[id].gid) \/ jobs[id].gid \in abandoned',
           row.status \in {"none", "queued", "resolving"} => row.gid = NoGid,
           row.status = "failed" => Dead(row.gid),
           MovesOn, \A c \in Clients : RequestTracked(c)'
    PROVE  TrackInv'
<1>a. StoreTypeOK /\ \A g \in Gids : owner[g].job # 0 => owner[g].job \in JobId
  BY TrackTypes
<1>1. \A g : Dead(g) => (g = NoGid \/ tasks'[g] \notin Live \/ g \in abandoned')
  BY DEF Dead
<1>2. ASSUME NEW j \in JobId PROVE RowTracked(j)'
  <2>1. RowTracked(j) /\ (snap'[j] = snap[j] \/ snap'[j].status = "none")
    BY DEF TrackInv, MovesOn, ListShrinks
  <2>2. CASE jobs'[j] = jobs[j]
    BY <2>1, <2>2, <1>1 DEF RowTracked, Dead, Polled, Exists
  <2>3. CASE j = id /\ Exists(jobs[j]) /\ jobs'[j] = row
    <3>1. jobs'[j].gid = NoGid \/ jobs'[j].gid = jobs[j].gid
      BY <2>3
    <3> QED
      BY <2>1, <2>3, <3>1, <1>1 DEF RowTracked, Dead, Polled, Exists
  <2> QED
    BY <2>2, <2>3, <1>a, UpdateExisting
<1>3. ReplyTracked' /\ (pc' # "record" => hand' = NoGid)
  <2>1. ReplyTracked /\ (pc # "record" => hand = NoGid)
    BY DEF TrackInv
  <2>2. ReplyTracked'
    BY <2>1 DEF ReplyTracked, MovesOn
  <2> QED
    BY <2>1, <2>2 DEF MovesOn
<1>4. EngineTasksTracked'
  <2> SUFFICES ASSUME NEW g \in Gids, tasks'[g] \in Live, g \notin abandoned', hand' # g
               PROVE  owner'[g].job # 0 /\ jobs'[owner'[g].job].gid = g
    BY DEF EngineTasksTracked
  <2>1. owner[g].job \in JobId /\ jobs[owner[g].job].gid = g
    BY <1>a DEF TrackInv, EngineTasksTracked, MovesOn
  <2>2. ~ Dead(g)
    BY StoreAssumption DEF Dead
  <2>3. jobs'[owner[g].job].gid = g
    BY <2>1, <2>2, <1>a, UpdateExisting
  <2> QED
    BY <2>1, <2>3, <1>a DEF JobId
<1> QED
  BY <1>2, <1>3, <1>4 DEF TrackInv

(* A step that forgets no gid and starts no task.                          *)
LEMMA QuietTracked ==
    ASSUME Inv, TrackInv,
           \A j \in JobId : /\ jobs'[j].gid = jobs[j].gid
                            /\ \/ jobs'[j].status = jobs[j].status
                               \/ jobs'[j].status = "deleted" /\ Exists(jobs[j]),
           seq' = seq, ListShrinks, ReplyTracked', pc' # "record" => hand' = NoGid,
           \A g \in Gids : tasks'[g] \in Live /\ g \notin abandoned' /\ g # hand' =>
                /\ tasks[g] \in Live /\ g \notin abandoned /\ g # hand
                /\ owner'[g] = owner[g],
           \A g \in Gids : Dead(g) => DeadNext(g),
           \A c \in Clients : RequestTracked(c)'
    PROVE  TrackInv'
<1>a. /\ \A g \in Gids : owner[g].job # 0 => owner[g].job \in JobId
      /\ \A j \in JobId : jobs[j].gid \in Gids \cup {NoGid}
  BY TrackTypes
<1>1. \A g \in Gids \cup {NoGid} : Dead(g) => DeadNext(g)
  BY DEF Dead, DeadNext
<1>2. ASSUME NEW j \in JobId PROVE RowTracked(j)'
  <2>1. RowTracked(j) /\ (snap'[j] = snap[j] \/ snap'[j].status = "none")
    BY DEF TrackInv, ListShrinks
  <2>2. Dead(jobs[j].gid) => DeadNext(jobs[j].gid)
    BY <1>1, <1>a DEF Dead, DeadNext
  <2>3. /\ jobs'[j].gid = jobs[j].gid
        /\ \/ jobs'[j].status = jobs[j].status
           \/ jobs'[j].status = "deleted" /\ Exists(jobs[j])
    OBVIOUS
  <2> QED
    BY <2>1, <2>2, <2>3 DEF RowTracked, Polled, Exists, Dead, DeadNext
<1>3. EngineTasksTracked'
  <2> SUFFICES ASSUME NEW g \in Gids, tasks'[g] \in Live, g \notin abandoned', hand' # g
               PROVE  owner'[g].job # 0 /\ jobs'[owner'[g].job].gid = g
    BY DEF EngineTasksTracked
  <2>1. owner[g].job # 0 /\ jobs[owner[g].job].gid = g /\ owner'[g] = owner[g]
    BY DEF TrackInv, EngineTasksTracked
  <2> QED
    BY <2>1, <1>a
<1> QED
  BY <1>2, <1>3 DEF TrackInv

(* The runner moves on without a task in its hand.                         *)
LEMMA MoveOn ==
    ASSUME Inv, TrackInv, NEW id \in JobId, NEW next \in RunnerPC \ {"record", "apply"},
           Done(id, next) \/ Goto(next), pc # "record"
    PROVE  MovesOn
<1>1. RunnerTypeOK /\ hand = NoGid
  BY TrackTypes DEF TrackInv
<1>2. ListShrinks
  BY <1>1, MoveShrinks
<1> QED
  BY <1>1, <1>2 DEF MovesOn, Done, Goto

(* A step that leaves the table, the tasks and the requests alone.         *)
LEMMA ReadTracked ==
    ASSUME Inv, TrackInv, UNCHANGED <<jobs, seq, tasks, owner, abandoned, req>>, MovesOn
    PROVE  TrackInv'
<1>1. /\ ReplyTracked /\ (pc # "record" => hand = NoGid)
      /\ \A c \in Clients : RequestTracked(c)
  BY DEF TrackInv
<1>2. ReplyTracked'
  BY <1>1 DEF ReplyTracked, MovesOn
<1>3. \A c \in Clients : RequestTracked(c)'
  BY <1>1 DEF RequestTracked, Dead, DeadNext
<1>4. \A g \in Gids : Dead(g) => DeadNext(g)
  BY DEF Dead, DeadNext
<1>5. ListShrinks /\ hand' = hand /\ (pc' # "record" => hand' = NoGid)
  BY <1>1 DEF MovesOn
<1> QED
  BY <1>2, <1>3, <1>4, <1>5, QuietTracked

(* Reading a list: what is on it has the gid that the row has.             *)
LEMMA LoadTracked ==
    ASSUME Inv, TrackInv, NEW ids, NEW next \in RunnerPC \ {"record", "apply"}, Load(ids, next),
           \A j \in ids : jobs[j].status # "resolving", pc # "record"
    PROVE  TrackInv'
<1>a. UNCHANGED <<jobs, seq, tasks, owner, abandoned, req, hand>> /\ pc' = next
  BY DEF Load, storeVars, engineVars, elsewhere
<1>1. ASSUME NEW j \in JobId PROVE RowTracked(j)'
  <2>1. RowTracked(j)
    BY DEF TrackInv
  <2>2. (snap'[j] = jobs[j] /\ jobs[j].status # "resolving") \/ snap'[j].status = "none"
    BY DEF Load, NoRow, NewRow
  <2> QED
    BY <2>1, <2>2, <1>a DEF RowTracked, Dead, DeadNext, Polled, Exists
<1>2. \A c \in Clients : RequestTracked(c)'
  BY <1>a DEF TrackInv, RequestTracked, Dead, DeadNext
<1>3. ReplyTracked' /\ hand' = NoGid
  BY <1>a DEF ReplyTracked, TrackInv
<1>4. EngineTasksTracked'
  BY <1>a DEF TrackInv, EngineTasksTracked
<1> QED
  BY <1>1, <1>2, <1>3, <1>4 DEF TrackInv

(* aria2c starts a task under a gid that nothing refers to.                *)
LEMMA StartTracked ==
    ASSUME Inv, TrackInv, Started \/ StartLost
    PROVE  TrackInv'
<1>a. /\ StoreTypeOK /\ EngineTypeOK /\ pc = "start"
      /\ \A j \in JobId : jobs[j].gid \in Gids \cup {NoGid}
      /\ \A c \in Clients : req[c] \in Request
  BY TrackTypes DEF Started, StartLost
<1>b. UNCHANGED <<jobs, seq, snap, cur, reply, req>>
  BY DEF Started, StartLost, Goto, storeVars, elsewhere
<1>1. PICK g \in Gids :
        /\ Fresh(g) /\ AddURI(g, cur, snap[cur].kind)
        /\ \/ hand' = g /\ abandoned' = abandoned \ {g} /\ pc' = "record"
           \/ hand' = hand /\ abandoned' = abandoned \cup {g} /\ pc' = "startfail"
  BY DEF Started, StartLost, Goto
<1>2. ASSUME NEW h \in Gids \ {g}
      PROVE  /\ tasks'[h] = tasks[h] /\ owner'[h] = owner[h]
             /\ h \in abandoned' <=> h \in abandoned
  BY <1>1, <1>a DEF AddURI, EngineTypeOK
<1>3. \A h \in (Gids \cup {NoGid}) \ {g} : Dead(h) => DeadNext(h)
  BY <1>2 DEF Dead, DeadNext
<1>4. ASSUME NEW j \in JobId PROVE RowTracked(j)'
  <2>1. RowTracked(j)
    BY DEF TrackInv
  <2>2. jobs[j].gid \in (Gids \cup {NoGid}) \ {g}
    BY <1>1, <1>a DEF Fresh
  <2>3. Dead(jobs[j].gid) => DeadNext(jobs[j].gid)
    BY <2>2, <1>3, <1>b DEF Dead, DeadNext
  <2> QED
    BY <2>1, <2>3, <1>b DEF RowTracked, Polled, Exists, Dead, DeadNext
<1>5. ASSUME NEW c \in Clients PROVE RequestTracked(c)'
  <2>1. RequestTracked(c)
    BY DEF TrackInv
  <2>2. req[c].gid \in (Gids \cup {NoGid}) \ {g}
    BY <1>1, <1>a DEF Fresh, Request
  <2>3. Dead(req[c].gid) => DeadNext(req[c].gid)
    BY <2>2, <1>3, <1>b DEF Dead, DeadNext
  <2> QED
    BY <2>1, <2>3, <1>b DEF RequestTracked, Dead, DeadNext
<1>6. hand = NoGid
  BY <1>a DEF TrackInv
<1>7. ReplyTracked' /\ (pc' # "record" => hand' = NoGid)
  BY <1>1, <1>6 DEF ReplyTracked
<1>8. EngineTasksTracked'
  <2> SUFFICES ASSUME NEW h \in Gids, tasks'[h] \in Live, h \notin abandoned', hand' # h
               PROVE  owner'[h].job # 0 /\ jobs'[owner'[h].job].gid = h
    BY DEF EngineTasksTracked
  <2>1. h # g
    BY <1>1
  <2>2. owner[h].job # 0 /\ jobs[owner[h].job].gid = h
    BY <2>1, <1>2, <1>6, StoreAssumption DEF TrackInv, EngineTasksTracked
  <2> QED
    BY <2>1, <2>2, <1>2, <1>b
<1> QED
  BY <1>4, <1>5, <1>7, <1>8 DEF TrackInv

(* MarkDownloading records the task in a row that had none.                *)
LEMMA RecordTracked ==
    ASSUME Inv, TrackInv, RunnerMarkDownloading
    PROVE  TrackInv'
<1>a. /\ StoreTypeOK /\ EngineTypeOK /\ RunnerTypeOK /\ ListInv /\ cur \in JobId /\ jobs[cur] \in Row
      /\ \A g \in Gids : owner[g].job # 0 => owner[g].job \in JobId
  BY TrackTypes
<1>b. /\ pc = "record" /\ UNCHANGED <<seq, tasks, owner, req>> /\ Done(cur, "requeue")
      /\ Update(cur, MarkDownloading(jobs[cur], hand))
      /\ abandoned \subseteq abandoned'
      /\ hand \notin abandoned' => Exists(jobs[cur]) /\ owner[hand].job = cur
  BY DEF RunnerMarkDownloading, elsewhere
<1>c. hand \in Gids
  BY <1>b DEF Inv, HandInv
<1>d. snap[cur].status = "resolving"
  BY <1>a, <1>b DEF ListInv
<1>e. jobs[cur].gid = NoGid
  BY <1>a, <1>d DEF TrackInv, RowTracked
<1>f. \A g : Dead(g) => DeadNext(g)
  BY <1>b DEF Dead, DeadNext
<1>g. MarkDownloading(jobs[cur], hand).gid = hand /\ MarkDownloading(jobs[cur], hand).status = "downloading"
  BY <1>a, <1>c, StmtGid
<1>1. ASSUME NEW j \in JobId PROVE RowTracked(j)'
  <2>1. RowTracked(j) /\ seq' = seq
    BY <1>b DEF TrackInv
  <2>2. CASE jobs'[j] = jobs[j]
    <3>1. Dead(jobs[j].gid) => DeadNext(jobs[j].gid)
      BY <2>2, <1>b DEF Dead, DeadNext
    <3>2. snap'[j] = snap[j] \/ snap'[j].status = "none"
      BY <1>a, <1>b, DoneRow
    <3> QED
      BY <2>1, <2>2, <3>1, <3>2 DEF RowTracked, Polled, Exists, Dead, DeadNext
  <2>3. CASE j = cur /\ Exists(jobs[j]) /\ jobs'[j] = MarkDownloading(jobs[cur], hand)
    <3>1. snap'[j].status = "none"
      BY <2>3, <1>a, <1>b, DoneRow
    <3> QED
      BY <2>1, <2>3, <3>1, <1>g DEF RowTracked, Polled, Exists
  <2> QED
    BY <2>2, <2>3, <1>a, <1>b, UpdateExisting
<1>2. \A c \in Clients : RequestTracked(c)'
  <2> SUFFICES ASSUME NEW c \in Clients PROVE RequestTracked(c)'
    OBVIOUS
  <2>1. RequestTracked(c) /\ req' = req
    BY <1>b DEF TrackInv
  <2> QED
    BY <2>1, <1>b DEF RequestTracked, Dead, DeadNext
<1>3. ReplyTracked' /\ hand' = NoGid
  BY <1>b DEF ReplyTracked, Done
<1>4. EngineTasksTracked'
  <2> SUFFICES ASSUME NEW g \in Gids, tasks'[g] \in Live, g \notin abandoned'
               PROVE  owner'[g].job # 0 /\ jobs'[owner'[g].job].gid = g
    BY DEF EngineTasksTracked
  <2>1. CASE g = hand
    <3>1. Exists(jobs[cur]) /\ owner'[g].job = cur
      BY <2>1, <1>b
    <3>2. jobs'[cur] = MarkDownloading(jobs[cur], hand)
      BY <3>1, <1>a, <1>b DEF Update, StoreTypeOK
    <3> QED
      BY <2>1, <3>1, <3>2, <1>a, <1>g DEF JobId
  <2>2. CASE g # hand
    <3>1. owner[g].job \in JobId /\ jobs[owner[g].job].gid = g
      BY <2>2, <1>a, <1>b DEF TrackInv, EngineTasksTracked
    <3>2. owner[g].job # cur
      BY <3>1, <1>e, StoreAssumption
    <3> QED
      BY <3>1, <3>2, <1>a, <1>b, UpdateExisting DEF JobId
  <2> QED  BY <2>1, <2>2
<1> QED
  BY <1>1, <1>2, <1>3, <1>4 DEF TrackInv

(* What a request will find dead stays dead when no task is started.       *)
LEMMA RequestsTracked ==
    ASSUME TrackInv, req' = req, \A g : Dead(g) => DeadNext(g)
    PROVE  \A c \in Clients : RequestTracked(c)'
<1> SUFFICES ASSUME NEW c \in Clients PROVE RequestTracked(c)'
  OBVIOUS
<1>1. RequestTracked(c)
  BY DEF TrackInv
<1>2. Dead(req[c].gid) => DeadNext(req[c].gid)
  OBVIOUS
<1> QED
  BY <1>1, <1>2 DEF RequestTracked, Dead, DeadNext

(* A statement of the runner or a goroutine.                               *)
LEMMA WriteTracked ==
    ASSUME Inv, TrackInv, NEW id \in JobId, NEW row, Update(id, row),
           UNCHANGED <<tasks, owner, abandoned, seq, req>>,
           row.gid = jobs[id].gid \/ (row.gid = NoGid /\ Dead(jobs[id].gid)),
           row.status \in {"none", "queued", "resolving"} => row.gid = NoGid,
           row.status = "failed" => Dead(row.gid), MovesOn
    PROVE  TrackInv'
<1>1. \A g : Dead(g) => DeadNext(g)
  BY DEF Dead, DeadNext
<1>2. \A c \in Clients : RequestTracked(c)'
  BY <1>1, RequestsTracked
<1>3. abandoned \subseteq abandoned'
  OBVIOUS
<1> QED
  BY <1>2, <1>3, StmtTracked

(* The runner's statements leave aria2c alone.                             *)
LEMMA WriteFacts ==
    ASSUME NEW id, NEW row, Write(id, row)
    PROVE  Update(id, row) /\ UNCHANGED <<tasks, owner, abandoned, seq, req>>
BY DEF Write, engineVars, elsewhere

(* The steps of the runner that only read.                                 *)
LEMMA ReadFacts ==
    ASSUME ReadOnly
    PROVE  UNCHANGED <<jobs, seq, tasks, owner, abandoned, req>>
BY DEF ReadOnly, storeVars, engineVars, elsewhere

(* TellStatus reports a failure only of a task that does not run.          *)
LEMMA TellStatusTracked ==
    ASSUME Inv, TrackInv, NEW id \in JobId, TellStatus(id)
    PROVE  TrackInv'
<1>a. pc = "poll" /\ UNCHANGED <<jobs, seq, tasks, owner, abandoned, req>>
  BY ReadFacts DEF TellStatus
<1>1. CASE Done(id, "poll")
  <2>1. MovesOn
    BY <1>1, <1>a, MoveOn DEF RunnerPC
  <2> QED
    BY <2>1, <1>a, ReadTracked
<1>2. CASE ~ Done(id, "poll")
  <2>1. PICK out \in TellStatusOutcome(snap[id].gid) :
          pc' = "apply" /\ cur' = id /\ reply' = out /\ UNCHANGED <<snap, hand>>
    BY <1>2 DEF TellStatus
  <2>2. reply' \in {"not_found", "error"} => tasks[snap[id].gid] \in {"free", "error"}
    <3>1. snap[id].gid \in Gids /\ EngineTypeOK
      BY <1>a, TrackTypes DEF TellStatus, ListInv, Polled
    <3>2. tasks[snap[id].gid] # "not_found"
      BY <3>1 DEF EngineTypeOK, TaskState
    <3> QED
      BY <2>1, <3>2 DEF TellStatusOutcome
  <2>3. ReplyTracked'
    BY <2>1, <2>2, <1>a DEF ReplyTracked, Live
  <2>4. \A g : Dead(g) => DeadNext(g)
    BY <1>a DEF Dead, DeadNext
  <2>5. \A c \in Clients : RequestTracked(c)'
    BY <2>4, <1>a, RequestsTracked
  <2>6. ListShrinks /\ hand = NoGid
    BY <2>1, <1>a DEF ListShrinks, TrackInv
  <2> QED
    BY <2>1, <2>3, <2>4, <2>5, <2>6, <1>a, QuietTracked
<1> QED
  BY <1>1, <1>2

(* The claim takes a queued row, which has no gid.                         *)
LEMMA ClaimTracked ==
    ASSUME Inv, TrackInv, NEW id \in JobId, ClaimNextQueued(id)
    PROVE  TrackInv'
<1> DEFINE row == Resolving(jobs[id])
<1>a. /\ StoreTypeOK /\ RunnerTypeOK /\ pc = "claim" /\ jobs[id].status = "queued"
      /\ Update(id, row) /\ UNCHANGED <<tasks, owner, abandoned, seq, req, hand>>
      /\ snap' = [snap EXCEPT ![id] = row] /\ pc' = "check" /\ jobs[id] \in Row
      /\ \A g \in Gids : owner[g].job # 0 => owner[g].job \in JobId
  BY WriteFacts, TrackTypes DEF ClaimNextQueued, ClaimableQueued
<1>b. jobs[id].gid = NoGid /\ row.gid = NoGid /\ row.status = "resolving"
  BY <1>a, StmtGid DEF TrackInv, RowTracked
<1> HIDE DEF row
<1>c. \A g : Dead(g) => DeadNext(g)
  BY <1>a DEF Dead, DeadNext
<1>1. ASSUME NEW j \in JobId PROVE RowTracked(j)'
  <2>2. CASE j # id
    <3>1. jobs'[j] = jobs[j] /\ snap'[j] = snap[j] /\ seq' = seq
      BY <2>2, <1>a, UpdateRow DEF RunnerTypeOK
    <3>2. RowTracked(j) /\ (Dead(jobs[j].gid) => DeadNext(jobs[j].gid))
      BY <1>c DEF TrackInv
    <3> QED
      BY <3>1, <3>2 DEF RowTracked, Polled, Exists, Dead, DeadNext
  <2>3. CASE j = id
    <3>1. jobs'[j].gid = NoGid /\ seq' = seq /\ snap'[j].status = "resolving"
      BY <2>3, <1>a, <1>b, UpdateRow DEF RunnerTypeOK
    <3>2. Exists(jobs[j]) /\ RowTracked(j)
      BY <2>3, <1>a DEF Exists, TrackInv
    <3> QED
      BY <3>1, <3>2 DEF RowTracked, Polled, Exists, Dead
  <2> QED  BY <2>2, <2>3
<1>2. \A c \in Clients : RequestTracked(c)'
  BY <1>a, <1>c, RequestsTracked
<1>3. ReplyTracked' /\ hand' = NoGid
  BY <1>a DEF ReplyTracked, TrackInv
<1>4. EngineTasksTracked'
  <2> SUFFICES ASSUME NEW g \in Gids, tasks'[g] \in Live, g \notin abandoned', hand' # g
               PROVE  owner'[g].job # 0 /\ jobs'[owner'[g].job].gid = g
    BY DEF EngineTasksTracked
  <2>1. owner[g].job \in JobId /\ jobs[owner[g].job].gid = g
    BY <1>a DEF TrackInv, EngineTasksTracked
  <2>2. owner[g].job # id
    BY <2>1, <1>b, StoreAssumption
  <2> QED
    BY <2>1, <2>2, <1>a, UpdateRow DEF JobId
<1> QED
  BY <1>1, <1>2, <1>3, <1>4 DEF TrackInv

(* A step of the runner keeps every task on record.                        *)
LEMMA RunnerStepTracked ==
    ASSUME Inv, TrackInv, RunnerStep
    PROVE  TrackInv'
<1>a. /\ RunnerTypeOK /\ ListInv /\ cur \in JobId /\ \A j \in JobId : RowTracked(j)
      /\ \A j \in JobId : jobs[j] \in Row
  BY TrackTypes DEF TrackInv
<1>b. jobs[cur] \in Row /\ RowTracked(cur)
  BY <1>a
<1>c. Loop \in RunnerPC \ {"record", "apply"}
  BY DEF Loop, RunnerPC
<1>1. CASE ListActive \/ ListPending \/ ListRetryable
  <2> DEFINE Ready(ids) == \A j \in ids : jobs[j].status # "resolving"
  <2>1. /\ {"poll", "dispatch", "requeue"} \subseteq RunnerPC \ {"record", "apply"}
        /\ pc # "record"
    BY <1>1 DEF RunnerPC, ListActive, ListPending, ListRetryable
  <2>2. /\ Ready({j \in ListJobs("downloading") : jobs[j].gid # NoGid})
        /\ Ready(ListPendingPostprocess) /\ Ready(ListRetryableFailed)
    BY DEF ListJobs, ListPendingPostprocess, PendingPostprocess, ListRetryableFailed
  <2> HIDE DEF Ready
  <2>3. \A ids : \A next \in {"poll", "dispatch", "requeue"} :
          Ready(ids) /\ Load(ids, next) => TrackInv'
    BY <2>1, LoadTracked DEF Ready
  <2> QED
    BY <1>1, <2>2, <2>3 DEF ListActive, ListPending, ListRetryable
<1>2. ASSUME NEW id \in JobId, RunnerJobStep(id) PROVE TrackInv'
  <2>1. CASE TellStatus(id)
    BY <2>1, TellStatusTracked
  <2>2. CASE ClaimNextQueued(id)
    BY <2>2, ClaimTracked
  <2>3. CASE Dispatch(id)
    <3>1. UNCHANGED <<jobs, seq, tasks, owner, abandoned, req>> /\ pc = "dispatch"
      BY <2>3, ReadFacts DEF Dispatch, DispatchSkip, DispatchNothingToDo, DispatchNoPath,
           DispatchWait, DispatchTaskReady, Dispatching
    <3>2. Done(id, "dispatch") \/ (UNCHANGED <<snap, hand>> /\ pc' \in {"complete", "fail", "mark", "schedule"})
      BY <2>3 DEF Dispatch, DispatchSkip, DispatchNothingToDo, DispatchNoPath,
           DispatchWait, DispatchTaskReady, Select
    <3>3. CASE Done(id, "dispatch")
      <4>1. MovesOn
        BY <3>1, <3>3, MoveOn DEF RunnerPC
      <4> QED
        BY <3>1, <4>1, ReadTracked
    <3>4. CASE UNCHANGED <<snap, hand>> /\ pc' \in {"complete", "fail", "mark", "schedule"}
      <4>1. MovesOn
        BY <3>1, <3>4 DEF MovesOn, ListShrinks
      <4> QED
        BY <3>1, <4>1, ReadTracked
    <3> QED
      BY <3>2, <3>3, <3>4
  <2>4. CASE AutoRequeue(id)
    <3>1. /\ pc = "requeue" /\ id \in Held /\ Done(id, "requeue")
          /\ Update(id, Requeue(jobs[id])) /\ UNCHANGED <<tasks, owner, abandoned, seq, req>>
      BY <2>4, WriteFacts DEF AutoRequeue
    <3>2. MovesOn
      BY <3>1, MoveOn DEF RunnerPC
    <3>3. Dead(jobs[id].gid)
      BY <3>1, <1>a DEF ListInv, RowTracked
    <3>4. Requeue(jobs[id]).gid = NoGid /\ Requeue(jobs[id]).status = "queued"
      BY <1>a, StmtGid
    <3> QED
      BY <3>1, <3>2, <3>3, <3>4, WriteTracked
  <2> QED
    BY <1>2, <2>1, <2>2, <2>3, <2>4 DEF RunnerJobStep
<1>3. CASE ApplyFailed \/ ResolveFailed \/ RunnerMarkFailed
  <2>1. /\ Update(cur, MarkFailed(jobs[cur])) /\ UNCHANGED <<tasks, owner, abandoned, seq, req>>
        /\ \E next \in {"poll", "requeue"} : Done(cur, next)
        /\ \/ pc = "apply" /\ reply \in {"not_found", "error"}
           \/ pc \in {"resolve", "startfail"}
    BY <1>3, WriteFacts DEF ApplyFailed, ResolveFailed, RunnerMarkFailed
  <2>2. MovesOn
    BY <2>1, <1>a, MoveOn DEF RunnerPC
  <2>3. Dead(jobs[cur].gid)
    <3>1. CASE pc = "apply" /\ reply \in {"not_found", "error"}
      <4>1. tasks[snap[cur].gid] \notin Live
        BY <3>1 DEF TrackInv, ReplyTracked
      <4>2. jobs[cur].gid \in {NoGid, snap[cur].gid}
        BY <3>1, <1>a, <1>b DEF ListInv, RowTracked
      <4> QED
        BY <4>1, <4>2 DEF Dead
    <3>2. CASE pc \in {"resolve", "startfail"}
      BY <3>2, <1>a, <1>b DEF ListInv, RowTracked, Dead
    <3> QED
      BY <2>1, <3>1, <3>2
  <2>4. MarkFailed(jobs[cur]).gid = jobs[cur].gid /\ MarkFailed(jobs[cur]).status = "failed"
    BY <1>b, StmtGid
  <2> QED
    BY <2>1, <2>2, <2>3, <2>4, <1>a, WriteTracked
<1>4. CASE \/ ApplyProgress \/ RunnerMarkDecrypting \/ RunnerMarkCompleted
           \/ RunnerMarkPostprocessFailed \/ RunnerClearPassword \/ Resolved
  <2>1. PICK row : /\ Update(cur, row) /\ UNCHANGED <<tasks, owner, abandoned, seq, req>>
                   /\ row.gid = jobs[cur].gid
                   /\ row.status \in {jobs[cur].status, "downloading", "decrypting", "completed",
                                      "decrypt_failed"}
    <3>1. CASE ApplyProgress
      BY <3>1, <1>b, WriteFacts, StmtGid DEF ApplyProgress
    <3>2. CASE RunnerMarkDecrypting
      BY <3>2, <1>b, WriteFacts, FreeOfCharge, StmtGid DEF RunnerMarkDecrypting
    <3>3. CASE RunnerMarkCompleted
      BY <3>3, <1>b, WriteFacts, FreeOfCharge, StmtGid DEF RunnerMarkCompleted
    <3>4. CASE RunnerMarkPostprocessFailed
      BY <3>4, <1>b, WriteFacts, FreeOfCharge, StmtGid DEF RunnerMarkPostprocessFailed
    <3>5. CASE RunnerClearPassword
      BY <3>5, <1>b, WriteFacts, StmtGid DEF RunnerClearPassword
    <3>6. CASE Resolved
      BY <3>6, <1>b, WriteFacts, StmtGid DEF Resolved
    <3> QED
      BY <1>4, <3>1, <3>2, <3>3, <3>4, <3>5, <3>6
  <2>2. /\ pc # "record"
        /\ \E next \in {"poll", "schedule", "clear", Loop, "prepare", "start"} : Done(cur, next) \/ Goto(next)
    BY <1>4 DEF ApplyProgress, RunnerMarkDecrypting, RunnerMarkCompleted,
         RunnerMarkPostprocessFailed, RunnerClearPassword, Resolved
  <2>3. MovesOn
    BY <2>2, <1>a, <1>c, MoveOn DEF RunnerPC
  <2> QED
    BY <2>1, <2>3, <1>a, <1>b, WriteTracked DEF RowTracked
<1>5. CASE ApplyComplete
  <2>1. /\ pc = "apply" /\ UNCHANGED <<snap, hand>> /\ pc' \in {"complete", "mark"}
        /\ \/ Write(cur, UpdateProgress(jobs[cur], "completed"))
           \/ ReadOnly
    BY <1>5 DEF ApplyComplete, Goto
  <2>2. MovesOn
    BY <2>1 DEF MovesOn, ListShrinks
  <2>3. CASE ReadOnly
    BY <2>2, <2>3, ReadFacts, ReadTracked
  <2>4. CASE Write(cur, UpdateProgress(jobs[cur], "completed"))
    <3>1. /\ UpdateProgress(jobs[cur], "completed").gid = jobs[cur].gid
          /\ UpdateProgress(jobs[cur], "completed").status = "completed"
      BY <1>b, StmtGid
    <3> QED
      BY <2>2, <2>4, <3>1, <1>a, WriteFacts, WriteTracked
  <2> QED
    BY <2>1, <2>3, <2>4
<1>6. CASE \/ RunnerSchedule \/ CountDownloading \/ NothingQueued \/ ClaimConflict
           \/ CheckDeleted \/ PrepareOutputForStart \/ RemoveControlFile
           \/ RemoveControlFileFailed \/ StartFailed
  <2>1. UNCHANGED <<jobs, seq, tasks, owner, abandoned, req>>
    BY <1>6, ReadFacts DEF RunnerSchedule, CountDownloading, NothingQueued, ClaimConflict,
         CheckDeleted, PrepareOutputForStart, RemoveControlFile, RemoveControlFileFailed,
         StartFailed, storeVars, engineVars
  <2>2. /\ pc # "record"
        /\ \E next \in {Loop, "claim", "idle", "requeue", "resolve", "start", "unlink", "startfail"} :
               Done(cur, next) \/ Goto(next)
    BY <1>6 DEF RunnerSchedule, CountDownloading, NothingQueued, ClaimConflict,
         CheckDeleted, PrepareOutputForStart, RemoveControlFile, RemoveControlFileFailed,
         StartFailed
  <2>3. MovesOn
    BY <2>2, <1>a, <1>c, MoveOn DEF RunnerPC
  <2> QED
    BY <2>1, <2>3, ReadTracked
<1> QED
  BY <1>1, <1>2, <1>3, <1>4, <1>5, <1>6, StartTracked, RecordTracked DEF RunnerStep

----------------------------------------------------------------------------
(* The other processes' steps.                                             *)

(* Goroutines write rows and keep the gid in them.                         *)
LEMMA WorkerStepTracked ==
    ASSUME Inv, TrackInv, NEW w \in Workers, WorkerNext(w)
    PROVE  TrackInv'
<1> DEFINE id == gor[w].task.id
<1>a. id \in JobId /\ MovesOn /\ UNCHANGED <<seq, tasks, owner, abandoned, req>>
  <2>1. gor[w] \in [pc : WorkerPC, task : Task]
    BY DEF Inv, TypeOK, WorkerTypeOK
  <2>2. id \in JobId
    BY <2>1 DEF Task
  <2>3. MovesOn
    BY DEF WorkerNext, localVars, MovesOn, ListShrinks
  <2> QED
    BY <2>2, <2>3 DEF WorkerNext, WorkerStep, AcquireWorker, MegaDecrypted, MegaFailed,
         ArchiveSkipped, ArchiveDecrypted, ArchiveFailed, WorkerMarkCompleted, WorkerMarkFailed,
         WorkerClearPassword, WorkerStmt, UnmarkPending, ReleaseWorker, storeVars, engineVars
<1>b. jobs[id] \in Row /\ RowTracked(id)
  BY <1>a, TrackTypes DEF TrackInv
<1> HIDE DEF id
<1>1. CASE jobs' = jobs
  BY <1>1, <1>a, ReadTracked
<1>2. CASE WorkerMarkCompleted(w) \/ WorkerMarkFailed(w) \/ WorkerClearPassword(w)
  <2>1. PICK row : /\ Update(id, row) /\ row.gid = jobs[id].gid
                   /\ row.status \in {jobs[id].status, "completed", "decrypt_failed"}
    BY <1>2, <1>b, FreeOfCharge, StmtGid DEF WorkerMarkCompleted, WorkerMarkFailed,
         WorkerClearPassword, WorkerStmt, id
  <2> QED
    BY <2>1, <1>a, <1>b, WriteTracked DEF RowTracked
<1> QED
  BY <1>1, <1>2 DEF WorkerNext, WorkerStep, AcquireWorker, MegaDecrypted, MegaFailed,
       ArchiveSkipped, ArchiveDecrypted, ArchiveFailed, UnmarkPending, ReleaseWorker, storeVars

(* An operation requeues at once only if the row has no gid.               *)
LEMMA PlanTracked ==
    ASSUME NEW r \in Row,
           NEW plan \in {RetryPlan(r), RemovePlan(r), PausePlan(r), ResumePlan(r)}
    PROVE  plan.stmt = "requeue" => plan.call = "remove" \/ (plan.call = "none" /\ r.gid = NoGid)
BY DEF RetryPlan, RemovePlan, PausePlan, ResumePlan, RemoveCall, Plan, NoPlan, Row

(* No call brings a task back to life, a removal that succeeds ends it,    *)
(* and one that aria2c does not know does not run.                         *)
LEMMA OutcomeTracked ==
    ASSUME NEW g, NEW call \in Call \ {"none"}, NEW out \in CallOutcome(call, g)
    PROVE  /\ out[1] \in Live => tasks[g] \in Live
           /\ call = "remove" /\ out[2] = "ok" => out[1] \notin Live
           /\ call = "unpause" /\ out[2] = "not_found" => out[1] \notin Live
<1>1. CASE call = "remove"
  BY <1>1 DEF CallOutcome, RemoveOutcome, Lost, Live
<1>2. CASE call = "pause"
  BY <1>2 DEF CallOutcome, PauseOutcome, Lost, Live
<1>3. CASE call = "unpause"
  BY <1>3 DEF CallOutcome, UnpauseOutcome, Lost, Live
<1> QED
  BY <1>1, <1>2, <1>3 DEF Call

(* A client's call to aria2c.                                              *)
LEMMA EngineCallTracked ==
    ASSUME Inv, TrackInv, NEW c \in Clients, EngineCall(c), UNCHANGED localVars
    PROVE  TrackInv'
<1> DEFINE g == req[c].gid
<1>a. /\ EngineTypeOK /\ req \in [Clients -> Request] /\ ListInv /\ cur \in JobId
      /\ snap[cur].gid \in Gids \cup {NoGid}
  BY TrackTypes
<1>b. g \in Gids /\ req[c].call \in Call \ {"none"}
  BY <1>a DEF EngineCall, Inv, RequestInv, Request
<1>c. UNCHANGED <<jobs, seq, abandoned, pc, snap, cur, reply, hand>>
  BY DEF EngineCall, storeVars, localVars
<1>1. PICK out \in CallOutcome(req[c].call, g) :
         /\ tasks' = [tasks EXCEPT ![g] = out[1]]
         /\ owner' = [owner EXCEPT ![g] = IF out[1] \in Live THEN @ ELSE NoOwner]
         /\ req' = [req EXCEPT ![c] = AfterCall(@, out[2])]
  BY DEF EngineCall
<1>2. /\ out[1] \in Live => tasks[g] \in Live
      /\ req[c].call = "remove" /\ out[2] = "ok" => out[1] \notin Live
      /\ req[c].call = "unpause" /\ out[2] = "not_found" => out[1] \notin Live
  BY <1>b, OutcomeTracked
<1>d. tasks'[g] = out[1]
  BY <1>1, <1>a, <1>b DEF EngineTypeOK
<1> HIDE DEF g
<1>3. ASSUME NEW h \in Gids
      PROVE  /\ tasks'[h] \in Live => tasks[h] \in Live
             /\ tasks'[h] \in Live => owner'[h] = owner[h]
  BY <1>1, <1>2, <1>a, <1>b DEF EngineTypeOK
<1>4. \A h \in Gids \cup {NoGid} : Dead(h) => DeadNext(h)
  BY <1>3, <1>c DEF Dead, DeadNext
<1>5. ASSUME NEW d \in Clients PROVE RequestTracked(d)'
  <2>1. RequestTracked(d) /\ RequestTracked(c) /\ req[d] \in Request /\ req[c] \in Request
    BY <1>a DEF TrackInv
  <2>2. CASE d # c
    <3>1. req'[d] = req[d]
      BY <2>2, <1>1, <1>a
    <3>2. Dead(req[d].gid) => DeadNext(req[d].gid)
      BY <2>1, <1>4 DEF Request
    <3> QED
      BY <2>1, <3>1, <3>2 DEF RequestTracked, Dead, DeadNext
  <2>3. CASE d = c
    <3>1. req'[c] = AfterCall(req[c], out[2])
      BY <1>1, <1>a
    <3>2. CASE req'[c] = NoRequest
      BY <2>3, <3>2 DEF RequestTracked, NoRequest
    <3>3. CASE out[2] = "ok"
      <4>1. req'[c].call = "none" /\ req'[c].stmt = req[c].stmt /\ req'[c].gid = g
        BY <2>1, <3>1, <3>3 DEF AfterCall, Request, g
      <4>2. req[c].stmt = "requeue" => req[c].call = "remove"
        BY <2>1, <1>b DEF RequestTracked
      <4>3. req[c].stmt = "requeue" => tasks'[g] \notin Live
        BY <4>2, <3>3, <1>2, <1>d
      <4> QED
        BY <2>3, <4>1, <4>3 DEF RequestTracked, Dead
    <3>4. CASE out[2] = "not_found" /\ req[c].call = "unpause"
      <4>1. req'[c].call = "none" /\ req'[c].gid = g
        BY <2>1, <3>1, <3>4 DEF AfterCall, Request, g
      <4>2. tasks'[g] \notin Live
        BY <3>4, <1>2, <1>d
      <4> QED
        BY <2>3, <4>1, <4>2 DEF RequestTracked, Dead
    <3> QED
      BY <3>1, <3>2, <3>3, <3>4 DEF AfterCall
  <2> QED  BY <2>2, <2>3
<1>6. ReplyTracked'
  <2>1. pc = "apply" => snap[cur].gid \in Gids
    BY <1>a DEF ListInv, Polled
  <2> QED
    BY <2>1, <1>3, <1>c DEF TrackInv, ReplyTracked
<1>7. ListShrinks /\ (pc' # "record" => hand' = NoGid)
  BY <1>c DEF ListShrinks, TrackInv
<1> QED
  BY <1>3, <1>4, <1>5, <1>6, <1>7, <1>c, QuietTracked

(* The statement of a client's operation.                                  *)
LEMMA ExecuteTracked ==
    ASSUME Inv, TrackInv, NEW c \in Clients, Execute(c), UNCHANGED localVars
    PROVE  TrackInv'
<1> DEFINE id == req[c].id
           row == RowAfter(req[c].stmt, jobs[id])
<1>a. /\ req \in [Clients -> Request] /\ req[c] \in Request /\ id \in JobId
      /\ req[c].stmt \in Stmt \ {"none"} /\ jobs[id] \in Row
  BY TrackTypes DEF Execute, Request
<1>b. /\ Update(id, row) /\ UNCHANGED <<seq, tasks, owner>> /\ abandoned \subseteq abandoned'
      /\ req' = [req EXCEPT ![c] = NoRequest] /\ req[c].call = "none"
  BY DEF Execute
<1>1. MovesOn
  BY DEF localVars, MovesOn, ListShrinks
<1>2. ASSUME NEW d \in Clients PROVE RequestTracked(d)'
  <2>1. RequestTracked(d) /\ (Dead(req[d].gid) => DeadNext(req[d].gid))
    BY <1>b DEF TrackInv, Dead, DeadNext
  <2>2. req'[d] = req[d] \/ req'[d] = NoRequest
    BY <1>a, <1>b
  <2> QED
    BY <2>1, <2>2 DEF RequestTracked, NoRequest, Dead, DeadNext
<1>3. CASE req[c].stmt = "requeue"
  <2>1. row.gid = NoGid /\ row.status = "queued"
    BY <1>3, <1>a, StmtGid DEF RowAfter
  <2>2. Dead(jobs[id].gid) \/ jobs[id].gid \in abandoned'
    <3>1. Dead(req[c].gid)
      BY <1>3, <1>b DEF TrackInv, RequestTracked
    <3>2. jobs[id].gid \in {NoGid, req[c].gid} \/ jobs[id].gid \in abandoned'
      BY <1>3 DEF Execute
    <3> QED
      BY <3>1, <3>2 DEF Dead
  <2> HIDE DEF row, id
  <2> QED
    BY <2>1, <2>2, <1>1, <1>2, <1>a, <1>b, StmtTracked
<1>4. CASE req[c].stmt # "requeue"
  <2>1. row.gid = jobs[id].gid /\ row.status \notin {"none", "queued", "resolving", "failed"}
    BY <1>4, <1>a, StmtGid DEF RowAfter, Stmt
  <2> HIDE DEF row, id
  <2> QED
    BY <2>1, <1>1, <1>2, <1>a, <1>b, StmtTracked
<1> QED
  BY <1>3, <1>4

(* A step of a client keeps every task on record.                          *)
LEMMA ClientStepTracked ==
    ASSUME Inv, TrackInv, NEW c \in Clients, ClientNext(c)
    PROVE  TrackInv'
<1>a. UNCHANGED localVars
  BY DEF ClientNext
<1>1. ASSUME NEW id \in JobId, Retry(c, id) \/ Remove(c, id) \/ Pause(c, id) \/ Resume(c, id)
      PROVE  TrackInv'
  <2>a. req \in [Clients -> Request] /\ jobs[id] \in Row
    BY TrackTypes
  <2>1. PICK plan \in {RetryPlan(jobs[id]), RemovePlan(jobs[id]), PausePlan(jobs[id]), ResumePlan(jobs[id])} :
          /\ req' = [req EXCEPT ![c] = [call |-> plan.call, stmt |-> plan.stmt,
                                        id |-> id, gid |-> jobs[id].gid]]
          /\ UNCHANGED <<storeVars, engineVars>>
    BY <1>1 DEF Retry, Remove, Pause, Resume, Begin
  <2>2. UNCHANGED <<jobs, seq, tasks, owner, abandoned, pc, snap, cur, reply, hand>>
    BY <2>1, <1>a DEF storeVars, engineVars, localVars
  <2>3. ASSUME NEW d \in Clients PROVE RequestTracked(d)'
    <3>1. RequestTracked(d) /\ (Dead(req[d].gid) => DeadNext(req[d].gid))
      BY <2>2 DEF TrackInv, Dead, DeadNext
    <3>2. CASE d # c
      <4>1. req'[d] = req[d]
        BY <3>2, <2>1, <2>a
      <4> QED
        BY <3>1, <4>1 DEF RequestTracked, Dead, DeadNext
    <3>3. CASE d = c
      <4>1. req'[c].call = plan.call /\ req'[c].stmt = plan.stmt /\ req'[c].gid = jobs[id].gid
        BY <2>1, <2>a
      <4>2. plan.stmt = "requeue" => plan.call = "remove" \/ (plan.call = "none" /\ jobs[id].gid = NoGid)
        BY <2>a, PlanTracked
      <4> QED
        BY <3>3, <4>1, <4>2 DEF RequestTracked, Dead
    <3> QED  BY <3>2, <3>3
  <2>4. ReplyTracked' /\ ListShrinks /\ (pc' # "record" => hand' = NoGid)
    BY <2>2 DEF TrackInv, ReplyTracked, ListShrinks
  <2>5. \A g : Dead(g) => DeadNext(g)
    BY <2>2 DEF Dead, DeadNext
  <2> QED
    BY <2>2, <2>3, <2>4, <2>5, QuietTracked
<1> QED
  BY <1>1, <1>a, EngineCallTracked, ExecuteTracked DEF ClientNext, ServiceStep

(* Creating, clearing and purging.                                         *)
LEMMA BulkStepTracked ==
    ASSUME Inv, TrackInv, BulkNext
    PROVE  TrackInv'
<1>a. /\ StoreTypeOK /\ EngineTypeOK /\ seq \in Nat
      /\ UNCHANGED <<pc, snap, cur, reply, hand, req, tasks>>
      /\ \A g \in Gids : owner[g].job # 0 => owner[g].job \in JobId
      /\ \A j \in JobId : jobs[j] \in Row
  BY TrackTypes DEF BulkNext, localVars, BulkStep, Create, Clear, Purge, engineVars
<1>b. ReplyTracked' /\ ListShrinks /\ (pc' # "record" => hand' = NoGid)
  BY <1>a DEF TrackInv, ReplyTracked, ListShrinks
<1>1. ASSUME NEW kind \in Kinds, Create(kind) PROVE TrackInv'
  <2> DEFINE k == seq + 1
  <2>a. /\ UNCHANGED <<owner, abandoned>> /\ k \in JobId /\ seq' = k
        /\ jobs' = [jobs EXCEPT ![k] = NewRow(kind)]
    <3>1. UNCHANGED <<owner, abandoned>> /\ seq' = k /\ jobs' = [jobs EXCEPT ![k] = NewRow(kind)]
      BY <1>1 DEF Create, CreateJob
    <3>2. k \in JobId
      BY <1>1, <1>a, StoreAssumption DEF Create, CreateJob, JobId
    <3> QED
      BY <3>1, <3>2
  <2>b. \A g : Dead(g) => DeadNext(g)
    BY <1>a, <2>a DEF Dead, DeadNext
  <2>c. NewRow(kind).gid = NoGid /\ NewRow(kind).status = "queued"
    BY DEF NewRow
  <2>1. jobs[k].gid = NoGid
    <3>1. RowTracked(k) /\ ~ (k <= seq)
      BY <2>a, <1>a DEF TrackInv
    <3>2. jobs[k].status = "none"
      BY <3>1 DEF RowTracked, Exists
    <3> QED
      BY <3>1, <3>2 DEF RowTracked
  <2>2. ASSUME NEW j \in JobId PROVE RowTracked(j)'
    <3>1. RowTracked(j) /\ (Dead(jobs[j].gid) => DeadNext(jobs[j].gid)) /\ j \in Nat
      BY <2>b DEF TrackInv, JobId
    <3>2. CASE j # k
      <4>1. jobs'[j] = jobs[j] /\ snap'[j] = snap[j] /\ (j <= seq => j <= seq')
        BY <3>1, <3>2, <2>a, <1>a DEF StoreTypeOK
      <4> QED
        BY <3>1, <4>1 DEF RowTracked, Polled, Exists, Dead, DeadNext
    <3>3. CASE j = k
      <4>1. jobs'[j].gid = NoGid /\ jobs'[j].status = "queued" /\ j <= seq'
        BY <3>1, <3>3, <2>a, <2>c, <1>a DEF StoreTypeOK
      <4> QED
        BY <4>1 DEF RowTracked, Polled, Exists, Dead
    <3> QED  BY <3>2, <3>3
  <2>3. \A c \in Clients : RequestTracked(c)'
    BY <1>a, <2>b, RequestsTracked
  <2>4. EngineTasksTracked'
    <3> SUFFICES ASSUME NEW g \in Gids, tasks'[g] \in Live, g \notin abandoned', hand' # g
                 PROVE  owner'[g].job # 0 /\ jobs'[owner'[g].job].gid = g
      BY DEF EngineTasksTracked
    <3>1. owner[g].job \in JobId /\ jobs[owner[g].job].gid = g
      BY <1>a, <2>a DEF TrackInv, EngineTasksTracked
    <3>2. owner[g].job # k
      BY <3>1, <2>1, StoreAssumption
    <3> QED
      BY <3>1, <3>2, <2>a, <1>a DEF JobId, StoreTypeOK
  <2> QED
    BY <2>2, <2>3, <2>4, <1>b DEF TrackInv
<1>2. CASE Clear
  <2>1. UNCHANGED <<seq, owner, abandoned>>
    BY <1>2 DEF Clear, ClearCompleted, engineVars
  <2>2. ASSUME NEW j \in JobId
        PROVE  /\ jobs'[j].gid = jobs[j].gid
               /\ \/ jobs'[j].status = jobs[j].status
                  \/ jobs'[j].status = "deleted" /\ Exists(jobs[j])
    <3>1. jobs'[j] = jobs[j] \/ (jobs'[j] = RemoveRow(jobs[j]) /\ Exists(jobs[j]))
      BY <1>2 DEF Clear, ClearCompleted, Exists
    <3>2. RemoveRow(jobs[j]).gid = jobs[j].gid /\ RemoveRow(jobs[j]).status = "deleted"
      BY <1>a, StmtGid, FreeOfCharge
    <3> QED
      BY <3>1, <3>2
  <2>3. \A g : Dead(g) => DeadNext(g)
    BY <2>1, <1>a DEF Dead, DeadNext
  <2>4. \A c \in Clients : RequestTracked(c)'
    BY <1>a, <2>3, RequestsTracked
  <2> QED
    BY <2>1, <2>2, <2>3, <2>4, <1>a, <1>b, QuietTracked
<1>3. CASE Purge
  <2>1. /\ jobs' = [j \in JobId |-> NoRow] /\ seq' = 0
        /\ abandoned' = abandoned \cup {g \in Gids : \E j \in JobId : jobs[j].gid = g}
    BY <1>3 DEF Purge, ClearAll
  <2>2. \A g : Dead(g) => DeadNext(g)
    BY <2>1, <1>a DEF Dead, DeadNext
  <2>3. \A c \in Clients : RequestTracked(c)'
    BY <1>a, <2>2, RequestsTracked
  <2>4. ASSUME NEW j \in JobId PROVE RowTracked(j)'
    <3>1. jobs'[j].status = "none" /\ jobs'[j].gid = NoGid
      BY <2>1 DEF NoRow, NewRow
    <3> QED
      BY <3>1 DEF RowTracked, Polled, Exists, Dead
  <2>5. EngineTasksTracked'
    <3> SUFFICES ASSUME NEW g \in Gids, tasks'[g] \in Live, g \notin abandoned', hand' # g
                 PROVE  FALSE
      BY DEF EngineTasksTracked
    <3>1. owner[g].job \in JobId /\ jobs[owner[g].job].gid = g
      BY <1>a, <2>1 DEF TrackInv, EngineTasksTracked
    <3> QED
      BY <3>1, <2>1
  <2> QED
    BY <2>3, <2>4, <2>5, <1>b DEF TrackInv
<1> QED
  BY <1>1, <1>2, <1>3 DEF BulkNext, BulkStep

(* aria2c by itself, and its restart: tasks end and none begins.           *)
LEMMA EngineTracked ==
    ASSUME Inv, TrackInv, (\E g \in Gids : EngineNext(g)) \/ EngineRestart
    PROVE  TrackInv'
<1>a. /\ UNCHANGED <<jobs, seq, req, pc, snap, cur, reply, hand>> /\ EngineTypeOK /\ ListInv
      /\ snap[cur].gid \in Gids \cup {NoGid}
  BY TrackTypes DEF EngineNext, EngineRestart, storeVars, localVars
<1>1. ASSUME NEW h \in Gids
      PROVE  /\ tasks'[h] \in Live => tasks[h] \in Live /\ owner'[h] = owner[h]
             /\ tasks'[h] \in Live => (h \in abandoned' <=> h \in abandoned)
  <2>1. ASSUME NEW g \in Gids, Finish(g) \/ Fail(g)
        PROVE  /\ tasks'[h] \in Live => tasks[h] \in Live /\ owner'[h] = owner[h]
               /\ abandoned' = abandoned
    BY <2>1, <1>a DEF Finish, Fail, EngineTypeOK, Live
  <2>2. ForgetTasks => tasks'[h] \notin Live
    BY DEF ForgetTasks, Live
  <2> QED
    BY <2>1, <2>2 DEF EngineNext, EngineRestart
<1>2. \A h \in Gids \cup {NoGid} : Dead(h) => DeadNext(h)
  BY <1>1 DEF Dead, DeadNext
<1>3. ASSUME NEW c \in Clients PROVE RequestTracked(c)'
  <2>1. RequestTracked(c) /\ req[c] \in Request
    BY TrackTypes DEF TrackInv
  <2>2. Dead(req[c].gid) => DeadNext(req[c].gid)
    BY <2>1, <1>2 DEF Request
  <2> QED
    BY <2>1, <2>2, <1>a DEF RequestTracked, Dead, DeadNext
<1>4. ReplyTracked'
  <2>1. pc = "apply" => snap[cur].gid \in Gids
    BY <1>a DEF ListInv, Polled
  <2> QED
    BY <2>1, <1>1, <1>a DEF TrackInv, ReplyTracked
<1>5. ListShrinks /\ (pc' # "record" => hand' = NoGid)
  BY <1>a DEF ListShrinks, TrackInv
<1> QED
  BY <1>1, <1>2, <1>3, <1>4, <1>5, <1>a, QuietTracked

(* A crash forgets the task in the runner's hand, which is thereby given   *)
(* up, and every request.                                                  *)
LEMMA CrashTracked ==
    ASSUME Inv, TrackInv, DaemonCrash
    PROVE  TrackInv'
<1>a. /\ UNCHANGED <<jobs, seq, tasks, owner>> /\ hand' = NoGid /\ pc' = "idle"
      /\ req' = [c \in Clients |-> NoRequest] /\ abandoned \subseteq abandoned'
      /\ hand \in abandoned' \/ hand = NoGid
  BY DEF DaemonCrash, storeVars
<1>1. ListShrinks /\ ReplyTracked'
  BY <1>a DEF DaemonCrash, ListShrinks, NoRow, NewRow, ReplyTracked
<1>2. \A c \in Clients : RequestTracked(c)'
  BY <1>a DEF RequestTracked, NoRequest
<1>3. \A g : Dead(g) => DeadNext(g)
  BY <1>a DEF Dead, DeadNext
<1>4. \A g \in Gids : tasks'[g] \in Live /\ g \notin abandoned' /\ g # hand' =>
                /\ tasks[g] \in Live /\ g \notin abandoned /\ g # hand
                /\ owner'[g] = owner[g]
  BY <1>a, StoreAssumption
<1> QED
  BY <1>1, <1>2, <1>3, <1>4, <1>a, QuietTracked

(* Every step of the system keeps the tasks on record.                     *)
LEMMA TrackStep == Inv /\ TrackInv /\ [Next]_vars => TrackInv'
<1> SUFFICES ASSUME Inv, TrackInv, [Next]_vars PROVE TrackInv'
  OBVIOUS
<1>1. ASSUME NEW k \in JobId, TimerNext(k) PROVE TrackInv'
  <2>a. UNCHANGED <<seq, tasks, owner, abandoned, req, pc, snap, cur, reply, hand>>
    BY <1>1 DEF TimerNext, RetryTimer, engineVars, localVars
  <2>1. ASSUME NEW j \in JobId
        PROVE  jobs'[j].gid = jobs[j].gid /\ jobs'[j].status = jobs[j].status
    <3>1. jobs[j] \in Row /\ StoreTypeOK
      BY TrackTypes
    <3> QED
      BY <1>1, <3>1 DEF TimerNext, RetryTimer, StoreTypeOK, Row
  <2>2. \A g : Dead(g) => DeadNext(g)
    BY <2>a DEF Dead, DeadNext
  <2>3. \A c \in Clients : RequestTracked(c)'
    BY <2>2, <2>a, RequestsTracked
  <2>4. ReplyTracked' /\ ListShrinks /\ (pc' # "record" => hand' = NoGid)
    BY <2>a DEF TrackInv, ReplyTracked, ListShrinks
  <2> QED
    BY <2>1, <2>2, <2>3, <2>4, <2>a, QuietTracked
<1>2. CASE (\E v \in AutoModes : SetAutoDecrypt(v)) \/ UNCHANGED vars
  <2>1. UNCHANGED <<jobs, seq, tasks, owner, abandoned, req, pc, snap, cur, reply, hand>>
    BY <1>2 DEF SetAutoDecrypt, vars, storeVars, engineVars, localVars
  <2>2. MovesOn
    BY <2>1 DEF MovesOn, ListShrinks
  <2> QED
    BY <2>1, <2>2, ReadTracked
<1> QED
  BY <1>1, <1>2, RunnerStepTracked, WorkerStepTracked, ClientStepTracked, BulkStepTracked,
     EngineTracked, CrashTracked DEF Next, RunnerNext

LEMMA TrackInit == Init => TrackInv
<1> SUFFICES ASSUME Init PROVE TrackInv
  OBVIOUS
<1>1. \A j \in JobId : /\ jobs[j].status = "none" /\ jobs[j].gid = NoGid
                        /\ snap[j].status = "none"
  BY DEF Init, StoreInit, RunnerStopped, NoRow, NewRow
<1>2. \A j \in JobId : RowTracked(j)
  BY <1>1 DEF RowTracked, Polled, Exists
<1>3. \A c \in Clients : RequestTracked(c)
  BY DEF Init, ServiceInit, RequestTracked, NoRequest
<1>4. ReplyTracked /\ hand = NoGid
  BY DEF Init, RunnerStopped, ReplyTracked
<1>5. EngineTasksTracked
  BY DEF Init, EngineInit, EngineTasksTracked, Live
<1> QED
  BY <1>2, <1>3, <1>4, <1>5 DEF TrackInv

(* dlqd loses track of a running or paused download only in the four known *)
(* ways (abandoned): a lost addUri reply, a purge, a crash before          *)
(* MarkDownloading, and a requeue that was decided on an older gid.  In    *)
(* particular neither the stale lists of updateActive and requeueFailed    *)
(* nor any other interleaving of the runner with clients, goroutines,      *)
(* crashes and restarts of aria2c forgets one.                             *)
THEOREM TasksTracked == Spec => []EngineTasksTracked
<1>1. TrackInv => EngineTasksTracked
  BY DEF TrackInv
<1> QED
  BY <1>1, TrackInit, TrackStep, Invariance, PTL DEF Spec
=============================================================================
