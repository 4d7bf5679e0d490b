# A TLA+ model of the DLQ download queue

DLQ is a daemon (`dlqd`) that keeps a queue of downloads in SQLite, resolves
links, hands them to aria2c over JSON-RPC, polls aria2c once per tick, and
decrypts or extracts what has arrived. HTTP handlers, the runner and the
decrypt goroutines all work on the same rows without holding them between
statements. These modules model that concurrency, check it with TLC on small
instances, and prove the most important invariants with TLAPS for every value
of the constants.

## 1. Inventory

| Part | State | Operations | What makes it correct |
|---|---|---|---|
| Job store (`internal/queue/store.go`, `internal/db/db.go`) | table `jobs`, `sqlite_sequence` | one SQL statement each: create, claim, the `Mark*` updates, requeue, remove, clear, purge, the list queries | retries stop; statuses only as listed |
| aria2 client (`internal/downloader/aria2.go`) and aria2c | tasks by gid; the files on disk | addUri, tellStatus, pause, unpause, the three calls of remove | nothing runs that the table does not know of |
| Service (`internal/queue/service.go`, handlers in `internal/api/http.go`) | none between requests | create, retry, remove, pause, resume, clear, purge: read the row, call aria2c, execute a statement | the user's decision sticks; no task is forgotten |
| Runner (`internal/queue/runner.go`) | the lists of the current tick | poll, dispatch post-processing, requeue failed jobs, claim, resolve, prepare the output, start | stale lists do no harm; slots are respected; every job comes to rest |
| Decrypt goroutines (`runDecrypt`, `archive_decryptor.go`) | `decryptPending`, `decryptSem` | MEGA payload, archive, record the result, erase the password | one goroutine per job, no token lost, completed files are plain, a complete archive is opened |
| Archive names (`archive_decryptor.go`) | none | first volume and group key of a name | parts of one set are recognised in any order |
| MEGA payload (`mega_decryptor.go`) | a temporary file, the running MAC | read, decrypt, authenticate, replace the download | the MAC does not depend on how the file is read; only verified ciphertext is replaced |
| Settings (`internal/api/settings.go`) | struct in memory, `settings.json` | load, get, update, save | values in range; an acknowledged update is kept |
| Daemon (`cmd/dlqd/main.go`, `docker/entrypoint.sh`) | all of the above | start, crash, restart of aria2c | the queue survives |
| Resolvers (`internal/resolver`) | none | turn a page link into a download link | modelled by the answers each can give: an error, or success with or without a file name (`ResolveWithSite`) |
| Output paths (`paths.go`) | none | clean a directory, a file name | not modelled (section 9) |
| CLI, Web UI, deployment scripts | none | clients of the HTTP API | not modelled |

What is hard to test here: a status written from a row that was read before an
RPC; the runner's lists going stale while users act; replies of aria2c that get
lost; crashes between two statements; ids reused after a purge; two phases of
one tick judging a job by different data; parts of an archive waiting for each
other; a file that ends on the boundary of a MAC chunk. `PROJECT.json` lists each such hazard at its line with the properties
that watch it.

## 2. Modules

The modules of the queue form a chain, each extending the one before; `DLQ`
composes them into one specification.

* **ArchiveNames** - a file name is a stem, a form (`.partN.rar`, `.rNN`, `.rar`,
  another archive, anything else), a number and the width it is written with;
  `MultipartArchiveFirstVolume` and `MultipartArchiveGroupKey` as the regular
  expressions of `archive_decryptor.go` decide them. `.rNN` files are not archives
  to `isArchiveFile`; a part is sent to the first volume with the width of its
  own number.
* **JobStore** - the table. `jobs[id]` is a row; `Status`, `Row` follow
  `store.go` 13-52. Each UPDATE is a function from the old row to the new one
  (`MarkFailed`, `Requeue`, ...) and each SELECT a set of ids
  (`ListRetryableFailed`, ...). Nullable columns are `"null"` or `"set"`;
  `next_retry_at` is null, in the future or past (`RetryTimer` lets the time come).
  A row's `kind` is what its link stands for: the site, whether the user named
  it, the file it delivers and whether it has a password. `manual` is history:
  how often users asked for a requeue or resume.
* **Aria2** - `tasks[gid]`, the `owner` (job and kind) a live task is for, and the
  output `files`. The outcome sets (`PauseOutcome`, `RemoveOutcome`, ...) are the
  replies `aria2.go` tells apart, among them the refusal of `removeDownloadResult`
  for a task that is still stopping; with `Lossy` a call may fail before or after it
  took effect. aria2c's queue state "waiting" is folded into "active".
  `abandoned` is history: gids that dlqd can no longer know of.
* **DecryptWorker** - `scheduleDecrypt` and the goroutine `runDecrypt`, one step
  per tool run and per statement; `pending` and `tokens` are `decryptPending` and
  `decryptSem`. The deferred calls run unmark before release, as in the code.
  A task carries the archive `entry` that `resolveArchiveEntryPath` found when it
  was built; the tool resolves it again, and succeeds only on a first volume whose
  set has arrived and is decrypted (`Volumes`, `Complete`). `opened` is history:
  the sets the tool was run on while they were complete. MEGA keys are those of
  file links (32 bytes), which carry a MAC.
* **MegaDecryptor**, **MCMegaDecryptor** - `decryptMegaFileInPlace` alone:
  `Read`, one round of `macCalc.Write` (`WriteMAC`), `EndOfFile`, `CompareMAC`,
  `Rename`, and the error paths and crashes between them, over repeated calls on
  the same file. AES is symbolic: a chunk's MAC is the list of what was mixed into
  it, so two MACs are equal exactly when the same blocks were mixed in the same
  order. `ReferenceMAC` gives MEGA's layout in closed form. This module
  justifies DecryptWorker's outcome that a plain file fails the MAC and is left
  alone.
* **Service** - the handlers. An operation reads the row and makes a plan
  (`RetryPlan`, `ResumePlan`, ...: the call and the statement to follow), then
  `EngineCall`, then `Execute`; other processes run in between.
* **Runner** - one tick: `ListActive`/`TellStatus`/`Apply*` is `updateActive`,
  `ListPending`/`Dispatch*` is `dispatchCompletedDecrypt`, `ListRetryable`/
  `AutoRequeue` is `requeueFailed`, and `CountDownloading` to
  `RunnerMarkDownloading` the loop that starts jobs. `HasActiveOutputConflict`,
  `PrepareOutputForStart` and `RemoveControlFile` are `prepareOutputForStart`: the
  look for another active job on the path and the removal of the `.aria2` file are
  two steps. `snap` holds the rows a list
  was read with; `pc` says which statement or RPC comes next.
* **DLQ** - `Next`, fairness, `DaemonCrash` (everything in memory is lost; a
  cancelled context at shutdown is the same), `EngineRestart` (aria2c is started
  without a session file and forgets its tasks; it may run outside dlqd's
  container, so the two can fail separately), `SetAutoDecrypt`, and the
  properties.
* **JobLifecycle** - what a client may observe of the jobs, with no runner, lists,
  gids or goroutines (section 5). DLQ is shown to implement it.
* **MCDLQ** - kinds of jobs and the symmetry for TLC.
* **Settings**, **MCSettings** - `settings.json` under concurrent GET and POST
  requests. The lock covers `Get`, `Update` and the marshalling; `os.WriteFile`
  truncates and then writes outside it, and every descriptor writes from offset 0, so
  the file's size can exceed the text written last. Bodies that do not decode and
  other methods are answered with an error and change nothing. `told`, `alone`,
  `saved` and `newer` are history: what the last 200 reply reported, whether the last
  POST met no other one, what the last such POST reported when it was answered, and
  the texts marshalled since. The settings file that `entrypoint.sh` writes on the
  very first start stands for the one that `NewSettings` would save, and is left out.
* **DLQProofs**, **BudgetProofs**, **TrackingProofs**, **LifecycleProofs**,
  **FileProofs**, **DecryptProofs** (each extends the one before), **MegaProofs**,
  **SettingsProofs** - the theorems (section 7).

Operators named as a mutant in a comment are deliberately wrong variants of the
definition that follows; `PROJECT.json` pairs each with the property that
notices it, which shows that the property depends on that piece of code.

## 3. Runs that pass

All bounds are constants of the configurations. Sizes are distinct states.

| Run | Properties | Instance |
|---|---|---|
| `service` | `TypeOK`, `AttemptsBudget`, `EngineTasksTracked`, `CompletedWasDownloaded`, `LifecycleSpec` | one job (http or webshare), one client with every operation on it, two attempts, one manual requeue, lost RPCs, failures, one crash or restart; 678,527 |
| `slots` | `ConcurrencyBound`, `EngineTasksTracked`, `FreshStartSafe`, `LifecycleSpec` | two webshare jobs for one file, one slot, a client that pauses and purges; 252,910 |
| `decrypt` | `OneDecryptPerJob`, `TokensConserved`, `CompletedIsPlain`, `LifecycleSpec` | one MEGA job of three kinds, failures, one retry, one crash, `auto_decrypt` changing; 1,148,176 |
| `settle` | `FailedSecretsCleared`, `AllSettle`, `DownloadedOnce` | one job of six kinds, two attempts, failures, `auto_decrypt` changing, fair; 78,208 |
| `multipart` | `SetOpened`, `AllSettle` | two parts of one archive, one unnamed until aria2c reports its path, fair; 312,301 |
| `settings_saves` | `TypeOK`, `SavedUpdateKept` | two requests at a time, GET or POST, with values at and beyond the borders, failing writes, one crash; 520,049 |
| `mega_mac` | `MacOfPrefix`, `ReplacedOnlyIfVerified`, `LoopEnds` | files of 0 to 90 bytes, reads of 1, 3 or 16 bytes, keys of 16, 20 and 32 bytes, failures, one crash, fair; 216,794 |

Why the bounds are enough: every race modelled is between one operation and one
phase of a tick, so one client and one or two jobs show it; a save of the settings
races with one other request; two gids allow a
download and its replacement, and a gid is reused only when nothing refers to
it (`Fresh`). Two attempts have a first, a last and a retry between. Three
goroutine identities cover one per job and one past `unmark`, the most that can
exist. In `mega_mac` a block has 2 bytes and the first chunk one block, so that
chunks have 2, 4, ..., 16, 16, ... bytes and a file of 90 bytes ends in the tenth
chunk, past the eighth after which chunks stop growing; reads end inside a block,
on its end, and span several chunks. The code decides by comparisons and remainders
of these sizes only. The proofs of section 7 cover all other sizes for most of the
properties.

What the properties say:

* `AttemptsBudget` - a job is charged at most `max_attempts` failures plus one
  per request of a user, whatever stale lists make the runner do.
* `EngineTasksTracked` - a running or paused task is recorded in its job's row,
  unless its record was given up in one of the ways the code cannot avoid, which
  are named: a lost addUri reply, a purge, a crash before `MarkDownloading`, or
  a user's requeue decided on an older gid.
* `CompletedWasDownloaded` - completed, decrypting and decrypt_failed jobs have a
  file. It is checked without purge: after one, the poll can complete a new job
  that has inherited the id.
* `ConcurrencyBound` - holds as long as nobody resumes a paused download, which
  `Resume` does without looking at the limit.
* `FreshStartSafe` - the control file that `prepareOutputForStart` removes belongs
  to no download on record, running or paused. Resuming is left out of `slots`: a
  paused job that is resumed between the look and the removal is on record before
  the look already. A job that neither the user nor the resolver named (every direct
  link, and a Webshare or MEGA file whose name `sanitizeFilename` empties) has no path
  in its row; its control file can be removed by another job on the same path.
* `LifecycleSpec` - the refinement of section 5.
* `OneDecryptPerJob`, `TokensConserved` - `decryptPending` and `decryptSem`.
* `CompletedIsPlain` - a MEGA job that users have not sent back to the queue is
  completed only with a decrypted file. A second decryption of a plain file does
  happen (the dispatch of a later tick can act on a row read before the goroutine
  finished), but its MAC fails and the job is marked decrypt_failed.
* `FailedSecretsCleared`, `DownloadedOnce` - without crashes and users.
* `AllSettle` - every job ends completed, failed in post-processing or failed for
  good; in `multipart`, parts do not wait in a circle.
* `SetOpened` - once all parts have arrived and the jobs rest, the archive tool
  has been run on the first volume with the set complete, whatever the order in
  which parts arrived and got their names.
* `MacOfPrefix` - at every moment the MAC, if finished now, is MEGA's MAC of the
  bytes taken so far. `ReplacedOnlyIfVerified` - the download is replaced by its
  whole decryption or not at all, and with a 32-byte key only if it is the
  ciphertext as uploaded. The content of a file is one of four values that the key
  stream exchanges in pairs: ciphertext and plaintext, a damaged copy and the garbage
  it decrypts to; so replacing a damaged download would be seen. An empty file is its
  own decryption. A 16-byte key has no MAC, and a second call does turn
  plaintext back into ciphertext. `LoopEnds` - the read loop ends.
* `SavedUpdateKept` - about a POST that was answered with 200 and met no other POST
  between its `Update` and its reply, with any requests concurrent before and after
  it. Until another POST is accepted `settings.json` is byte for byte what it wrote;
  until another POST comes at all, what it reported is in force and is what GETs are
  told; later, a file that can be read holds it or a text marshalled after it. It
  promises nothing of a POST that overlapped another one or was refused: what such
  a POST leaves behind is in section 4.

Fairness (`FairSpec`): weak fairness of the runner (the ticker in `Runner.Start`
runs for ever), of each decrypt goroutine and of each handler once it has begun
(the Go scheduler), of each unpaused aria2c task (a download ends or fails), and
of the retry timers (time passes). In MegaDecryptor it is weak fairness of the
loop's own steps. Nothing is assumed of users, crashes, errors or settings.

## 4. Runs that show a disagreement

Each of these checks one property that a document, comment or test of the
repository states, and TLC finds a behaviour of the code against it.

| Run | Property | What happens |
|---|---|---|
| `soft_delete` | `SoftDeleteSticks` | `requeueFailed` has listed a failed job, the user removes it, and `Requeue` clears `deleted_at` |
| `webshare_resume` | `NoTasklessDownload` | `resume` requeues a webshare job while the poll holds its old row; `UpdateProgress` sets it back to downloading, without a gid, and no loop looks at it again |
| `mega_parts` | `MegaBeforeArchive` | a part of a MEGA archive that waits for its siblings waits with its MEGA step too; the part that arrives last does not count `decrypting` as pending, and runs the archive tool while the other part is ciphertext |
| `restart` | `ResolvingEnds` | a crash after the claim leaves the row in resolving; nothing claims it again |
| `unnamed` | `DecryptingWhileInProgress` | an archive without a name is scheduled from aria2c's path by the poll; the dispatch of the same tick finds no path in the row and marks the job finished |

Smaller things seen while modelling, without a run of their own:

* README.md 127 calls `dlq clear` a hard delete, while `ClearCompleted` marks rows
  deleted.
* README.md 187 says that the settings are stored in `settings.json`. In the model
  the file can differ from what clients were told, with no POST under way, in two
  ways (the invariant `(up /\ Quiet) => file = Written(told)` shows both). Of two
  accepted POSTs that overlap, the one that marshalled first can write last
  (`settings.go` 75): both clients are answered with the settings in force, and the
  file holds the older text; if both have truncated the file it may even end with
  remains of the longer text. And a POST whose `max_attempts` is refused has already
  changed the concurrency (`settings.go` 131, `Applied`): GET reports it, and nothing
  saves it, although the comment at `settings.go` 114 says that `Update` saves.
* A crash between truncating and writing leaves an empty file; the next start can
  parse neither it nor remains of a longer text, and dlqd ends (`Readable`, `Start`).
* A dispatch that acts on a row read before the goroutine finished runs the MEGA
  step again: a completed job can become decrypt_failed, with its file intact.
* A retry of an archive with any error code skips the MEGA step: the tests at
  `runner_test.go` 910 and 990 want it after a failed archive step and after a failed
  MEGA step. In the second case the file is still ciphertext; that test expects
  `completed`, with a stub for the archive tool, while the model's tool fails on
  ciphertext, so that `CompletedIsPlain` holds. A MEGA `.r00` file, which is not an
  archive to `isArchiveFile`, runs the MEGA step again instead, against the comment
  at `runner.go` 522.
* Parts numbered without padding (`part10` beside `part1`) are sent to `part01`,
  which does not exist; the tool is then run on the part itself.
* CHANGELOG.md announces a RAR signature check for 0.2.3 that the code at this
  commit does not have.
* Completed jobs with a password that `auto_decrypt = false` passes over count
  against the LIMIT of 100 of the post-processing query, and can keep it from
  later rows.

## 5. The abstract specification

`JobLifecycle` has three variables: the `stage` of each job, the `failures`
charged to it and the `requests` users have made. `StageOf` in DLQ maps a row:
`deleted_at` set is removed, queued, resolving and downloading are active,
decrypting is processing, decrypt_failed is broken, completed is done. `failures`
is `attempts` and `requests` is `manual`. `LifecycleSpec` says that every step of
DLQ, seen through this mapping, is one of JobLifecycle's or none:

* a failure is charged, and a job becomes active by the daemon's own doing, only
  while the allowance `MaxAttempts + requests` is not used up;
* a downloaded job moves only among processing, broken and done unless a user
  asks for it again: the runner never sends it back to the queue;
* a removed job stays removed except by a request, or by the runner overtaking the
  removal, and only within the allowance;
* once a user has asked for a job again, the daemon may still act on what it
  knew of its earlier life (`In`): the stale polls of section 4 are such steps.

The runs `service`, `slots` and `decrypt` check it with every operation, with
purged tables whose ids are handed out again, and with post-processing.

## 6. Abstractions

Byte counts, speeds, times, messages and `job_events` are left out: no decision
depends on them. URL, site and name are one `Kind` chosen at creation. All files
are in one directory, and names do not differ by letter case only. The archive tool
either extracts or fails and leaves the archive alone. A client that goes away in
the middle of a request cancels its context, which is a lost reply. SQL
statements are atomic, as SQLite makes them; the claiming transaction may fail
(`ClaimConflict`). Errors of other statements, which the code mostly ignores, are
not modelled. `max_attempts` and the concurrency are constant within a run.

## 7. Theorems

`tlapm` checks every proof down to its leaves. Assumptions are those named in
the modules (`StoreAssumption`, `FaultsAssumption`, `WorkerAssumption`,
`ServiceAssumption`, `RunnerAssumption`, `DLQAssumption`, `SettingsAssumption`):
kinds that are kinds, positive bounds, `NoGid` not a gid, and enough goroutine identities. TLC
evaluates them in every run.

* **DLQProofs** `Invariance`, `TypeCorrect`. The types alone are not inductive:
  what the runner does to a row depends on what its list holds in each phase.
  `Inv` is `TypeOK` with `ListInv` (polled rows are downloading and have a gid,
  dispatched rows are decrypting or completed, requeued ones failed, the claimed
  one resolving), `HandInv` (where a gid not yet recorded can be) and
  `RequestInv` (an engine call has a gid). One lemma per group of actions;
  `RowKind`, `EntryType` and `NothingType` type the names and tasks that rows,
  dispatched entries and idle goroutines hold.
* **BudgetProofs** `AttemptsBounded`: `AttemptsBudget` for any number of jobs,
  clients, crashes and attempts. `AttemptsBudget` is not inductive: a job at its
  limit must not be charged again. `BudgetInv` adds that a job the runner could
  still charge without being asked (`Charged`: on its way to a download, or on
  one of the runner's lists) is strictly below its limit. The delicate cases are
  a list that has gone stale, which `Charged` includes, and a purge, after which
  an id belongs to a new job. `ConcurrencyBounded`: `ConcurrencyBound` if nobody
  resumes. `SlotInv` counts, with the downloading rows, the polled ones (the poll
  can set a paused job back to downloading) and the claimed one (its slot was
  free when it was counted), and says that there is room when the runner claims.
* **TrackingProofs** `TasksTracked`: `EngineTasksTracked` with every operation,
  lost calls, crashes, restarts and purges. `TrackInv` says what the gid of a row
  can be: none before a download; for a polled row the one it was listed with or
  none; of a task that is not live once the row is failed, or was listed as failed,
  or aria2c answered that it is gone. A request that will requeue has removed the
  task it read or found it gone.
* **LifecycleProofs** `LifecycleRefined`: DLQ implements JobLifecycle unless the
  queue is purged. Every action is shown to be one abstract action or a stutter
  under the mapping of section 5. What makes it go through is `LifeInv`: a job that
  users have not asked for again is never both on its way to a download
  (`Preparing`, in the table or for the runner) and past one (`Past`, in the table
  or for the runner, a goroutine or a request); whoever holds a row's id holds one
  that exists. `BudgetInv` gives the part about the allowance.
* **FileProofs** `CompletedDownloaded`: `CompletedWasDownloaded` unless the queue
  is purged. `FileInv` adds to `LifeInv` that whoever takes a job to be past its
  download is right, and that the tasks named by the row, by the runner's list and by
  the gid not yet recorded were started for that job (`Own`). `NotDownloadedAgain`:
  the action property `DownloadedOnce` if the queue is `Undisturbed`: clients only add,
  pause and clear jobs, no call to aria2c is lost, nothing is restarted. `OnceInv`
  says that no job that could be started, or marked as failed, has a file, and that a
  job with a file is recorded only under a gid whose task is complete. `RunningTask`
  is the heart of it: by `TrackInv` a task that runs for a job excludes that the job
  is on its way to another start. `ControlFilesKept`: `FreshStartSafe` if clients only
  add, pause and clear jobs (`PauseOnly`). The runner removes a control file when no
  listed row shares the path; so a row whose task is live must be listed. `SpentInv`:
  the task of a job past its download is dead; `KindsInv`: rows, list and tasks agree
  on the kind of a job, hence on its path; `HiddenInv`: a cleared row has a dead task
  and nobody is about to start it. All of these go through one walk over the steps
  (`EveryStepMoves`, `EveryTaskMoves`, `FilesMove`): it says once how a step can move a
  row, the runner, the others who hold a row, a task and a file, and each invariant is
  shown to survive those moves.
* **DecryptProofs** `OneDecrypt` (through `PendingInv`: every goroutine that may
  touch a file is in `decryptPending`), `TokensNeverLost` (through the
  cardinality of the set of holders) and `SecretsCleared`: `FailedSecretsCleared` if
  dlqd does not stop. `CompletedDecrypted`: `CompletedIsPlain` unless the queue is
  purged or a reply lost, for jobs with a file each. `PlainInv` says that a job which
  someone is ready to call completed has a plain file. It needs `HandledInv` (a
  dispatch passes over a MEGA payload only to open an archive that is that payload, and
  the tool fails on ciphertext), `CipherInv` (files belong to jobs, and only MEGA's are
  ciphertext) and `LostInv`, about the one way left to overwrite a decrypted file: a task that a crash
  before `MarkDownloading` made dlqd forget belongs to a job that nobody holds and that
  stays out of reach until a user asks for it. `SetsOpened`: `SetOpened` for sets of any
  number of parts if the queue is `Unattended` (clients only add and clear jobs, no call
  is lost, nothing is restarted, auto_decrypt is on), each set has a first volume and
  does not come from MEGA (`WholeSets`), and jobs have a file each. `OwingInv`: while a
  complete set has not been opened, some job of it owes the opening: it waits to be
  taken up, is about to be scheduled, or has a goroutine that has not run the tool
  yet. The hard case is a part that is put off while its row does not know the
  path, and that no later tick takes up for its archive: `WaitInv` says that a sibling
  is still on its way when the runner puts it off, and that one inherits the debt.
  `NameInv` (the list knows the paths the table knows), `BackInv` (nothing stays in
  `decryptPending` without a goroutine) and `QuietInv` (no request, no paused row)
  complete the argument; `RunningWaits` says that whoever completes a set owes its
  opening.
* **MegaProofs** `MacOfPrefixHolds`, `ComparisonDiscerns` and
  `ReplacedOnlyIfVerifiedHolds`, for every size of file, block and unit and every way
  the reads cut the file. The inductive part of `MacOfPrefix` is the place within
  the chunk: `chunkRemaining` is what the chunk that holds the next byte still lacks.
  `ComparisonDiscerns` says that the comparison accepts the uploaded ciphertext and
  nothing else; with it, what `Rename` replaces under a 32-byte key is that ciphertext.
* **SettingsProofs** `SettingsTypeCorrect` and `LoneUpdatesKept` (`SavedUpdateKept`),
  both for any number of concurrent requests, through `SavesInv`: a text about to be
  written was marshalled since the last lone reply, so that no older one is in
  flight; and a POST that is alone so far is the only one in flight, has marshalled
  the settings in force, finds the file as it truncated it, and has written exactly
  them when it answers (`LoneInv`).

Where a theorem excludes an operation, the code needs it:

* purge (`LifecycleRefined`, `CompletedDownloaded`): after it ids start over, and a
  poll or goroutine that began earlier writes into the row of a new job;
* resume (`ConcurrencyBounded`): `Service.Resume` does not look at the limit;
* stopping dlqd (`SecretsCleared`, `MaxCrashes = 0`): between `MarkPostprocessFailed`
  and `ClearArchivePassword` it leaves the password in the row;
* `PauseOnly` (`ControlFilesKept`): after a purge, or a retry or resume of a job that
  a goroutine still works on, the goroutine's end can mark a row as completed whose
  task runs, and the row is no longer looked at; a removal that was decided while the
  job was queued can be executed after its start, with the same effect;
* purge and lost replies (`CompletedDecrypted`): a task that runs on after its addUri
  reply was lost can overwrite a decrypted file with ciphertext;
* shared paths (`CompletedDecrypted`, `SetsOpened`): the model keeps a file per job, while
  two jobs for one path share it; in the model the tool can find a volume complete in
  another job's copy, and a duplicate of a part can fail after an unnamed part was put
  off for it;
* `Unattended` (`SetsOpened`): a pause decided earlier can mark a part as paused that has
  arrived and whose goroutine has already failed for want of the others; the last part,
  unnamed, is put off for it and completed without opening the archive. A restart of aria2c
  forgets complete tasks, and a lost addUri reply hides one, so that all jobs end as
  failed with their files in place; a removal or a requeue that was decided before
  the start does the same. With auto_decrypt off nothing is opened;
* `WholeSets` (`SetsOpened`): a set that lacks its first volume need not be opened from it, and
  the last part of a MEGA set does not wait for the payloads of the others
  (`mega_parts`, section 4);
* `Undisturbed`: retry and resume are requests to download again; a removal makes
  the poll find the task gone and mark the job failed, and so does a restart of aria2c
  that forgets a complete task; a lost addUri reply leaves a task whose file arrives
  while the job is started once more.

Apart from `UniqueFiles` and `WholeSets` the hypotheses are about `Ops`, `Lossy`,
`MaxCrashes` and `AutoModes`, and the runs of section 3 that check the same property
satisfy them, with one exception: `slots` checks `FreshStartSafe` and the refinement with purges too, for downloads that
need no post-processing. `decrypt` has one job, so that `UniqueFiles` always holds.
`multipart` satisfies `WholeSets`; two jobs with the same part never complete the set
of two there.

Only model-checked: the liveness properties `AllSettle` and `LoopEnds`, which rest on
fairness and are out of the prover's reach.

## 8. Running it

    tlc -workers 2 -config MCDLQ_service.cfg MCDLQ
    tlc -workers 2 -config MCSettings_saves.cfg MCSettings
    tlc -workers 2 -config MCMegaDecryptor.cfg MCMegaDecryptor
    for m in *Proofs.tla; do tlapm $m; done

`PROJECT.json` lists every run with its module and configuration, every mutant,
the source lines behind each definition, the findings, hazards and theorems.

## 9. Not modelled, and the plan

Not modelled, and why:

* the web protocols of the resolvers (only their answers matter to the queue), the
  arithmetic of AES, status codes, the GET handlers of jobs and events, the directory browser and mkdir:
  no state of the queue depends on them;
* `paths.go`: its three functions clean strings character by character, and a
  model of them would be a transliteration of `filepath.Clean`; a path enters the
  models as the name of a file in one directory, already clean;
* the CLI, the UI and the deployment scripts: clients and packaging of what is
  modelled.

Next: composing Settings with the runner, so that the concurrency changes while a
tick runs.
