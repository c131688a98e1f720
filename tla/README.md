# Formal models of the print server

TLA+ modules for the program in `src/`: a Windows print server written in
Python (FastAPI, SQLite, a PySide6 tray GUI in the same process) with an update
service written in Go.  The modules are checked with TLC on small instances; the
theorems are proved with TLAPS for every value of the constants.

`PROJECT.json` lists the components, the runs, the findings, the hazards the
properties are for, the proved theorems, and for each definition the source
lines it stands for.

## 1. The system

### 1.1 Components, their state and their operations

| Component | State | Operations |
|---|---|---|
| Job queue (`app/printing/job_queue.py`) | FIFO `_queue`, id sets `_queued_ids` and `_cancelled_ids` (lock `_cancel_lock`), worker threads, `_print_pool` of 4 threads, stop event | `add_job`, `cancel_job`, `cancel_all_queued`, `mark_cancelled`, `retry_job`, `get_for_processing`, `_worker_loop`, `_execute_with_retry`, `_execute_job`, `_execute_print`, `_finalize_job`, `recover_stuck_jobs`, `start`, `stop` |
| Job repository (`app/printing/repository.py`, `stats.py`, `migrations.py`) | table `jobs` in SQLite, one connection, one lock | insert, get, list, `update_status`, `batch_update_status`, `increment_retry`, stuck rows, cleanup by age, statistics, migrations |
| Upload service (`app/services/upload.py`, `core/utils.py`) | files in the upload folder | check name, size and magic number, write the file, add the job; temporary copy for a print, `safe_remove` |
| Heartbeat (`app/services/heartbeat.py`) | thread, stop event | every 30 s: cleanup, then recovery, each with a 10 s limit |
| Print engine and back ends (`printing/engine.py`, `backends/*`, `ipp_client.py`) | the print that is active, per-backend processes | `print_file`, the IPP / raw / GDI / Chromium chain, `cancel_active_job` |
| Event bus (`services/sse_broadcaster.py`, `routes/ws.py`, `gui/event_bridge.py`) | subscribers with bounded queues, counters of lost events, local listeners | `subscribe`, `unsubscribe`, `publish`, `cleanup_idle`; the log sink publishes every log record |
| Configuration (`core/config.py`, `gui/settings_store.py`) | dictionary, JSON file, modification time seen by the watcher | `set`, `set_many`, `save`, `reload`, watcher |
| Printer monitor (`services/printer_monitor.py`) | cache of printer states, thread | poll, compare, publish changes; `parse_status` |
| HTTP API (`routes/api.py`, `system.py`, `ws.py`, `core/auth.py`) | none of its own | requests, all on one event loop |
| Bootstrap and launcher (`app/bootstrap.py`, `launcher/*`) | the server thread and its handle | start, stop, restart, autostart, boot-time cleanup |
| Update service (`service/*.go`) | downloaded package, pending version, `pending.json`, a local TCP port (`pipe.go`) | check, download with retries, apply: stop, back up, extract, restart, roll back; `versionGreater` |
| Update client (`gui/pipe_client.py`, `gui/app.py`, `gui/pages/update.py`) | pending file, idle timer | read pending version, wait for idle, ask the service to apply |
| GUI pages (`gui/app.py`, `gui/pages/*`, `gui/components/*`) | the page shown, widgets, timers, scan worker | navigation, tray, dashboard, quick print, scan, job manager, settings, logs, setup wizard |
| Phone script (`scripts/ios_scriptable.js`) | upload queue, job ids, statuses, notifications | concurrent upload, cancel, progress over a WebSocket |
| Image batches (`routes/api.py`, `services/image_processor.py`) | the files of one request | save, enhance, merge, clean up, add the job |
| Notifications, logging | none | remote calls, formats |

### 1.2 How they interact

* The API's handlers run on one asyncio loop; the GUI calls the same `JobQueue`
  object from its own thread.  Both add, cancel and retry jobs.
* Workers take ids from `_queue`, read and write the row, hand the document to
  `_print_pool` and poll the future for up to a second at a time, looking at
  `_cancelled_ids` and the deadline between polls.
* The heartbeat reads 'printing' rows and puts them into the queue again.
* A write of a status is followed by a `publish` on the event bus, but for the
  'queued' of a new job and of a retry; every log record becomes a `publish` as
  well, because the bus installs a loguru sink.
* The update service runs as a process of its own; it talks to the GUI through a
  local TCP port and `pending.json`, and replaces the program's files while the program is stopped.

### 1.3 What is hard here

* *Cancel against print.*  The handler sets a mark and writes the row, the worker
  looks at the mark twice and writes the row twice; nothing orders the writes.
* *Recovery against work.*  Recovery judges by `created_at`, from a copy of
  `_queued_ids`, and cannot see what a worker holds.
* *Timeouts.*  A future that timed out is not stopped.  It keeps its thread, may
  print after the row says 'failed', and may print beside its own retry.
* *Crashes.*  The queue is in memory, the rows are on disk.
* *Retries as new rows.*  Two rows may share one uploaded file.
* *Bounded queues and logging inside the bus*, *file replacement in the update
  service*, *reload against save in the configuration*.

`PROJECT.json` lists each hazard at its line and the properties that look at it.

## 2. Plan

| Order | Modules | Subject | State |
|---|---|---|---|
| 1 | `JobQueue`, `JobLifecycle`, `MCJobQueue` | job queue, rows, workers, pool, cancel, retry, recovery, crash | done |
| 2 | `JobQueueProofs`, `JobQueueSafetyProofs` | typing; what 'completed' says; uploads; one owner; cancels in time | done |
| 3 | `SSEBroadcaster`, `MCSSE` | publish, bounded queues, eviction, log sink, WebSocket pollers, local listeners | done |
| 4 | `UpdateService`, `MCUpdate` | download, verify, announce, back up, extract, roll back, kills; idle, apply and exit in the tray program | done |
| 5 | `PrintEngine`, `ConfigFile`, `ServerLifecycle`, `ImageBatch`, `PrinterMonitor`, `MCHost` | the rest of the server | done |
| 6 | `PhoneClient`, `UpdateClient`, `MainWindow`, `ScanPage`, `LogsPage`, `JobsPage`, `SetupWizard`, `PureFunctions`, `MCClients` | the clients, and the functions that only compute | done |
| 7 | `JobLifecycleProofs`, `JobRequeueProofs`, `SSEProofs`, `UpdateServiceProofs`, `HostProofs` | what becomes of a job, the refinement of `JobLifecycle`, the queue without duplicates; order and eviction on the bus; the program kept through updates; every safety property of the host | done |
| 8 | `ClientsProofs` | every safety property of the clients | done |

The components of rows 5 and 6 are small and, in the code, share no variable
with each other.  `MCHost` and `MCClients` take each of them by `INSTANCE`; the
variable `part`, chosen in the first state, says which one moves.  A behaviour of
the composition is a behaviour of one component, so their states add up and do
not multiply, and every property of a component is checked over all behaviours
it has alone.  Where the components touch, what one may do to another is an action
of the other, chosen among what the first is known to do (`Subscribe` and `ServerWorks` in
`PhoneClient`, `Upload` and `WorkerWrites` in `MainWindow`, `OtherSave` in
`SetupWizard`, `StartMonitor` and `Lifespan` in `ServerLifecycle`).  That is as strong as these
actions are faithful: no run has two of these components at work together, and an
event of `MainWindow` or `PhoneClient` is not an event of `SSEBroadcaster`.

Abstract specifications: `JobLifecycle` for the queue; "every listener
sees the events of one publisher in order" for the bus; "the installed files are
one version, old or new" for the update service (both stated as invariants).

## 3. The job queue

### 3.1 State and code

| Variable of `JobQueue` | Code |
|---|---|
| `status`, `error`, `age` | columns `status`, `error_message`, `created_at` of the row.  `"none"`: not inserted, `"gone"`: deleted by the cleanup.  `age` counts the limits passed: 1 five minutes (`recover_stuck_jobs`), 2 `job_retention_days` |
| `path`, `onDisk` | column `filepath`, named by the job whose upload wrote the file, and the files in the upload folder |
| `queue`, `queuedIds`, `cancelledIds`, `stop` | `_queue`, `_queued_ids`, `_cancelled_ids`, `_stop_event` and the pool's shutdown |
| `wpc`, `wjob`, `attempt`, `result` | where a worker thread is, its job, its retry count, what it has seen of the future |
| `slotJob`, `slotOwner`, `pending` | the threads of `_print_pool`, who still polls their future, the futures that wait |
| `cpc`, `target`, `toMark` | a handler in the middle of a request |
| `hpc`, `hstuck`, `hjob` | a heartbeat in the middle of a cycle |
| `runs`, `printed`, `doomed`, `casualties` | history: prints begun per job, jobs the engine reported printed, jobs marked cancelled in time, jobs whose handling was cut short |

One action is one access to shared state: one SQL statement (the repository
holds its lock for each), one operation of the FIFO queue, one critical section
of `_cancel_lock`.  A handler is therefore several actions, in the order of the
code:

* `add_job`: `AddJob` (upload and row), `Put` (`_queue.put`), `Track`
  (`_queued_ids.add`).  `retry_job` is `RetryJob` and the same two.
* `cancel_job`, `cancel_all_queued`: `CancelJob` or `CancelAllQueued` (the read),
  `MarkCancelled` per id, `WriteCancelled`.
* A worker: `Get`, `Discard`, `SkipCancelled`/`NotCancelled`, `LoadJob`,
  `MarkPrinting`, `Recheck`, `AbortCancelled`, `CopyFile`, `SubmitPrint`,
  `PollResult`/`PollCancelled`/`PollTimeout`, `FinishOk`, `RemoveFile`,
  `FinishBad`, `ExecuteException`, `RetryAttempt`.
* The pool: `StartPrint`, `FinishPrint`.  A print may never return.
* The heartbeat: `Cleanup`, `ListStuck`, `Snapshot`, `Requeue`, `RequeuePut`,
  `RequeueTrack`.
* The world: `GetOlder`, `StopWorkers`, `ExitWorker`, `WorkerFault`,
  `CancelFault`, `BeatFault` (an exception out of the repository or the bus,
  before or after the write), `Crash` (the process dies and boots).

Abstractions: time is a choice (a deadline may pass whenever the code looks at
the clock); `_print_pool`'s order of waiting futures is not kept; columns no
decision rests on are left out; the events published after each write belong to
the event bus.

### 3.2 Runs

| Run | Question | Instance |
|---|---|---|
| `JQBase` | Is a job with one owner, is a cancel reported, does a failed job keep its file, does the queue implement `JobLifecycle`? | 2 jobs, 2 workers, 1 pool thread, 2 clients |
| `JQRetry` | Automatic retries, and `stop()` at any time: are cancels in time honoured, prints bounded, is 'completed' true? | 2 jobs, 1 worker, `MaxRetries` 1 |
| `JQRecover` | Recovery against retries and cancels: is a job put into the queue twice? | 1 job, 2 workers, `MaxRetries` 1, age 1; the history variables are left out of the state (`VIEW`), no guard reads them |
| `JQFaults` | Exceptions at every point: who is left without an owner, and does every other job end although the engine may hang? | 2 jobs, 1 worker, 1 fault, `FairSpec` |
| `JQStuck` | Is a job a crash left 'printing' brought to an end? | 1 job, 1 crash, 1 fault, ages to 2, `FairSpec` |
| `JQCancelRetry` | violated: a cancel between two attempts leaves the row 'queued' for ever | 1 job, 1 retry |

Bounds and why they are enough: two jobs and two workers are the least in which
one thread's job can be confused with another's, in which a queue has an order,
and in which a retry shares a file with its original.  One pool thread makes
futures wait; a second adds prints that run beside each other, which no
property distinguishes from the two workers' attempts.  One crash and one
exception may hit any step; a second one finds the same memory as the first.
`runs` saturates above the bound the property states.  Crashes, exceptions,
recovery and retries are in runs of their own because they multiply the states
and each question needs only some of them.

Stopping: TLC checks for deadlock in every run of the queue.  There is none
because requests can always end the stillness or the heartbeat goes round.

Fairness (`FairSpec`): weak fairness of every worker, every handler that is in a
request and every heartbeat: the operating system runs their threads and none of
them waits for anything without a time limit (`_queue.get` has one second, the
poll up to one second).  Nothing is assumed of the print engine, of requests, of time
passing or of `stop`.  `EveryJobEnds` holds without the engine's help because
the deadline is looked at before the future.  `StuckIsRecovered` assumes in its
premise that the row has got old, and that the crash is behind; it excepts the
executions in which an exception stops the heartbeat or a worker halfway.

### 3.3 What the finding says

*A cancel between two attempts is lost in the row* (`JQCancelRetry`).
`_execute_with_retry` writes 'queued' after the cancel wrote 'failed', the
next attempt sees the mark and returns without a write.

Three more behaviours of the code are in the model and bound what the properties
say.  *Recovery takes what is not stuck*: `created_at` is the time of the upload,
and a job that waited five minutes is requeued while it prints; `Exclusive` fails
from there on, which is why the proof and the run of `Exclusive` have
`AgeLimit = 0`.  *Recovery lists its rows first and updates them later*, so it
may write 'queued' over a cancel; `CancelReported` is checked with `AgeLimit = 0`
too.  And *`_queued_ids` is filled after the queue* (`Put`, then `Track`): a
worker may take the id in between, the id stays in the set, and recovery skips
that job until the process ends, which is why `StuckIsRecovered` speaks of a row
a crash left.

## 4. The event bus

### 4.1 State and code

| Variable of `SSEBroadcaster` | Code (`app/services/sse_broadcaster.py`) |
|---|---|
| `live`, `stale`, `q` | `_subscribers`, `_stale_count`, the `queue.Queue(maxsize)` of each subscriber |
| `lock` | who keeps `_lock` over several steps; only the eviction does, every other critical section is one step |
| `sink` | who holds the lock of the loguru sink `bootstrap` installs |
| `frames` | the calls of `publish` a thread is in, innermost last, each with where it is, the rest of its snapshot and its `stale_ids` |
| `calls` | bound on the calls |
| `conn` | a `ws_events` handler: not connected, in its loop, in its `finally` |
| `since` | whether the limit of `cleanup_idle_subscribers` passed since the subscription |
| `seen`, `fulls` | history: the last event a client got of each thread, how often its queue was full |

`publish` is `Snapshot`, then per subscriber `Put`, and `Reset` or (queue full)
`Drop`, `Reput`, `Warn`, `Count`; then `EndLoop`, per victim `Evict` and
`LogEviction`, `ReleaseLock`; `CallListeners` last.  `Warn` and `LogEviction` log:
with the sink installed the record comes back as a `publish` of the same thread,
a second frame (`LogThenGoto`).  A thread already in the sink is refused by
loguru, which is outside `src/` and modelled from its use; `publish` raising is
modelled where it can: the second `put_nowait`.  Clients are `Subscribe`,
`Receive`, `Leave`, `Unsubscribe`; time and the cleanup are `TimePasses` and
`CleanupIdle`.

Abstractions: an event is its thread and number; the loop over the snapshot takes
the subscribers in any order; registering listeners, and what they do, is left
out (their exceptions are caught and they come after everything else).

### 4.2 Runs

| Run | Question | Instance |
|---|---|---|
| `SSEBase` | Do the events of one thread stay in order through loss, is a client evicted only for cause, does every call and log record end unless a direct call evicts, and does a client that leaves get out? | 2 threads, 2 calls each, queue 2, limit 2, idle cleanup, `FairSpec` |
| `SSEDeadlock` | violated: a thread waits for `_lock` it holds | 1 thread, 5 calls, queue 2, limit 3 |

Bounds: two threads are the least that can race for the room one of them made
and that can wait for each other's locks.  One subscriber is enough for what is
said per subscriber; two threads with two calls, each of which may log in
between, fill a queue of two, empty it and fill it again.  `MaxCalls` also takes
away the one way a fair lock could starve a thread, an endless stream of records
from another.  Calls and connections are bounded, so the system may really come
to rest: the configurations say `CHECK_DEADLOCK FALSE`.

Fairness: weak, of a thread inside `publish` and of a handler in its `finally`
clause: both wait only for locks.  Nothing is assumed of clients, who may never
take an event.

### 4.3 What the finding says

*The eviction logs under `_lock`* (`SSEDeadlock`).  A direct call of `publish`
that evicts logs a warning, the sink calls `publish`, and `publish` takes the
lock the thread holds; `threading.Lock` is not re-entrant.  The job queue's
workers publish directly.

Also in the model, without a run.  *`queue.Full` escapes*: between `get_nowait`
and the second `put_nowait` another thread may take the room; the exception
leaves `publish` before the local listeners are called.  Dropping the oldest
event counts as a miss, and the record that says so goes into the same queue, so
`_STALE_LIMIT` misses need not be misses in a row (`EvictedForCause` counts them
whichever thread they come from).  And `cleanup_idle_subscribers` goes by the
time of the subscription, so "idle" means old.

## 5. The update service

### 5.1 State and code

| Variable of `UpdateService` | Code (`service/*.go` unless said otherwise) |
|---|---|
| `place`, `bak` | the program's directory and the `.bak` names in it, by part: `internal` (`_internal`), `exe`, `svc` (`update_service.exe`), `res` (`resources/version_info.json`).  A part has a version, 0 when it is missing, and is whole or torn |
| `cache`, `json` | the packages in `update_cache` and the version `pending.json` names |
| `up`, `pending`, `check` | the service's process, its variable `pending`, the checker goroutine (`checkAndDownload`) |
| `latest` | the version the release's `update.json` names (`ci.yml`) |
| `request` | an APPLY the service has not handled |
| `run` | the goroutines in `runUpdate`: where, with which package, which parts are left |
| `app` | the tray program (`gui/app.py`): `_service_pending_update`, the one-minute timers, whether `_idle_timer` exists |
| `trouble` | history: a step failed or gave up (`"failed"`), a rename failed or files were in use (`"disturbed"`), the service was killed in the middle (`"killed"`) |

The zip has `internal`, `exe` and `res` and no `svc` (`scripts/build.py`);
`runUpdate` backs up `internal`, `exe` and `svc` and no `res`.  The model keeps
both sets apart (`Package`, `Saved`).

Actions: the checker is `BeginCheck`, `Fetch`, `Download`, `Verify`,
`SetPending`, `WritePendingJSON`; `runUpdate` is `WaitForExit`, `Backup` per part,
`OpenPart` and `WritePart` (a file is truncated, then written), `StartNew`,
`VerifyRuns`, then `Cleanup`, or `Restore` per part and `Restart`; `ExtractFails`
may come at any point of the extraction.  A kill of the service (`Kill`) ends all
goroutines where they are; `StartService` is the boot with `resumePending`.  The
program is `UserStart`, `AppStops`, `CheckServicePending`, `PendingDirChanged`,
`TimerBusy`, `ApplyAndExit`, `AppExit`.  The world is `Publish`.

Abstractions.  `backupFile`'s `RemoveAll` and `Rename` are one step, and so is a
part of `restoreAll`; the parts of the zip may come in any order; `pending.json`
is written at once; libraries and executable of different builds do not work
together.  Full installers (`.exe` packages), which `UpdateClient` hands over, and the
commands CHECK, STATUS and PENDING_UPDATE, which nothing in the program sends,
are left out.  The manifest always has a checksum, as `ci.yml`
writes it.  `HandleApply` comes after the client has closed its side, because the
service reads to the end of the stream; the client has then given up waiting.
`TimerDue` rests on time: a program that is started has its timer fire after
more than a minute, and a run it could be started in the middle of is over by
then, so two runs are never at work together.

### 5.2 Runs

| Run | Question | Instance |
|---|---|---|
| `UPBase` | Is the whole program of one version always on disk, is what an ended update leaves in place a program that works, is what is announced verified, does the program come back? | 3 versions, 1 run, kills |
| `UPStale` | violated: the program exits for a package that is gone | 2 versions, no kills |

Bounds: three versions are the least in which a pending package is replaced by a
newer one while it is announced, and in which a second update finds the backups
of the first.  One goroutine is what the timers allow.  A kill in the middle of
an update may leave neither the program nor the service's executable in place, and
then nothing can happen any more: `UPBase` says `CHECK_DEADLOCK FALSE`.

Fairness: weak, of `HandleApply`, of every run and of a program that is exiting:
goroutines and a quitting process are scheduled.  Nothing is assumed of the
network, of users, or of the service being started again.

`ProgramKept` excepts executions in which a rename failed or files were in use,
`NothingHalfDone` those and kills: the code goes on after a failed backup and has
nothing that resumes an update after a boot.  `ProgramComesBack` excepts every
trouble: after a failed extraction the files are put back and the program is not
started; a rename that fails in `restoreAll` leaves the backup where it is
(`Restore`, second branch), and nobody looks whether the old program could be
started (`Restart`).

### 5.3 What the finding says

*A finished update is announced again* (`UPStale`).  `runUpdate` removes the
package and leaves `pending` and `pending.json`; `removePendingJSON` is never
called.  The new program reads the file, announces an update, sends an APPLY that
is refused, and exits whatever the answer was.  Nobody starts it.

Facts of the code the model has or leaves out that no run is about yet: the
cleanup deletes the only copy of `update_service.exe`, because the zip is built
before the service (`ci.yml:127`); `version_info.json` is not rolled back, so a
version that was rolled back is not offered again; `_send_request` keeps its side
open while the service reads to the end, so every request of the client ends
with its time limit and `None`.

## 6. The rest of the server (`MCHost`)

### 6.1 The print engine (`PrintEngine`)

| Variable | Code |
|---|---|
| `pc`, `doc`, `result` | a thread of the pool in `PrintEngine.print_file`, its job, what the run came to |
| `lock` | `word_lock`, `excel_lock`, `ppt_lock` |
| `active`, `tracked` | `PrintEngine._active_jobs`, `PdfBackend._active_jobs` |
| `chrome`, `temps`, `spool` | the Chromium child, the temporary files of a run, the Windows spooler |
| `left` | the temporary files an exception has left on the disk |
| `sent`, `doubted` | history: documents the printer got of a run; whether the run took one of them for not sent |
| `cpc`, `cdoc`, `cinfo` | `cancel_active_job`, one call at a time |

`Dispatch` chooses the back end.  An Office document is converted under its
application's lock (`AcquireApp`, `Convert`), registered (`Register`), prepared
(`Prepare`: page range, n-up), and tried by IPP, RAW, Chromium and GDI in turn
(`SkipIpp`/`TryIpp`, `SkipRaw`/`TryRaw`, `SkipChromium`/`StartChromium`,
`AwaitChromium`, `TryGdi`); `Release` and `Finish` are the `finally` clauses.  A
cancel takes the entry (`Cancel`), looks at the method (`CancelInfo`), kills the
browser (`CancelKill`) and purges the printer (`CancelPurge`).  The queue may
start a run of a job whose earlier attempt timed out and still runs.

Failures.  Each way of printing may give the printer its document and fail all
the same (`Attempt`, `AwaitChromium`, `TryGdi`): the next way prints it again.  A
browser that cannot be started ends the run without GDI (`StartChromium`).  A
conversion that raises leaves the file made for it (`Convert`: `engine.py:97` is
outside the `try`), a page range or n-up that raises leaves the file of the range
(`Prepare`, `pdf.py:261`), and Windows may refuse the removal of either
(`Release`, where the exception turns a success into a failure, and `Finish`).
The spooler may refuse the purge, and `base.py:23` only logs it
(`CancelPurge`, `refused`).

Known behaviours of the code the model has: `engine.py:112` passes `lock=`, which
the PDF, image and text back ends do not accept, so that only Office documents
print; a browser that a cancel killed has a bad exit code, and the run goes on to
GDI and prints all the same (no property is about that, the last hazard of
`PROJECT.json` is); a cancel purges every document of the printer, and for IPP
none, because it opens a printer by the name of an address.

### 6.2 Configuration (`ConfigFile`)

`mem` and `file` are the settings in memory and in `config.json`; `damage` says
whether the file can be parsed.  `set`/`set_many` are `SetOne`; the settings page
fills a form (`LoadForm`) and saves it (`SavePage`); a save is `Dump`, `Open`
(which truncates) and `Write`; the watcher is `Reload` and `LoadKey`, one setting at a
time, without the lock, but for those `env` names, which environment variables
give.  An exception that is no parse error ends the watcher for good
(`WatcherDies`); a file that is gone makes it save one.  `Edit` and `Remove` are
somebody with an editor, `Crash` a kill and a boot, which starts from the defaults
when the file cannot be parsed.  `excused` holds the settings that a race of the
code may cost (a save or reload beside a set, a page filled before, an edit the
watcher had not loaded, the environment at a boot); `SettingKept` speaks of the
others, `MemoryIsFile` of those the environment does not give, and both of times
at which the watcher lives.

### 6.3 The server handle (`ServerLifecycle`)

`ServerHandle.start` and `stop` are called by the boot and by the settings page,
each step an action: `Stop`, `Join` (with its time limit), `Start`, `Probe`,
`Return`; `Quit`, `Stop` and `Leave` are the end of the program.  A uvicorn thread
goes `Configure`, `Bind`, `Close`, `Lifespan`, or ends while it starts (`Fail`).
`foreign` are the ports on which another program listens, which `Probe` cannot
tell from the server.  The services `bootstrap` starts are in `alive`.  `ServesUntilRestart` says what its
name says because the lifespan that ends with the first server stops the
services for good: after a restart (`settings.py:386`) the server answers and no
worker prints.

### 6.4 Batches of pictures and the printer monitor

`ImageBatch` is one request of `print_images_batch`, step by step: `Save` and
`Enhance` per picture, `Merge`, `Clean`, `Add`, each of which may fail.  `paths`
is `saved_paths`, `list` is `enhanced_paths`.
`PrinterMonitor` polls printer by printer (`Enumerate`, `ReadPrinter`, `ReadAll`)
while Windows changes them, compares with the cache (`Diff`), and publishes the
events one after the other after the lock was given back (`Publish`, which may
fail for one event).

### 6.5 The run

| Property of `MCHost` | What it says |
|---|---|
| `NothingLeft` | a print that is over has left no entry, no browser, and no temporary file but one whose filling or removal raised |
| `CancelEffective` | a running print can be found by a cancel; what a killed browser spooled is erased unless the spooler refuses |
| `CopiesExplained` | a run prints twice only after it took a first document for not sent; it returns True only if it printed, and raises after a print only if it took that for not sent |
| `EveryRunEnds` | every run ends, or an Office application hangs for ever |
| `SettingsKept` | the file is whole, memory is the file, what was set is in both, with the exceptions of 6.2 |
| `OneServer` | one server lives, the handle says so (or a foreign program listens on its port), and until a stop it has its services |
| `CallsReturn` | `start` and `stop` return and what they stop ends |
| `BatchRight` | a batch is printed whole and in order, or nothing is left of it |
| `EventsTrue` | who follows the events knows the cache; a printer said to be gone was gone |

Bounds: two threads, one Word document and two starts are the least in which a
retry runs beside its first attempt and waits for its lock, and a PDF is the
second kind of document (`kind` is chosen in `Init`); the document asks for a page
range (`Parted`), so that there is a second file to leave.  Two settings and two
changes let an older value meet a newer one and a change of another setting; one
crash may hit any step of a save.  Two ports and one restart make two servers
that may want the same port or different ones, each call of which may give up
waiting.  Three pictures are the least with an inner one; one fault of the disk
may hit any of its steps.  Two printers and two changes of Windows let one
printer change while the other is asked.

Fairness: weak, of a thread in `print_file` outside `Convert`, of a caller and of
a uvicorn thread, of the thread that starts the services.  IPP has a limit of 60
seconds, the browser one of `job_timeout`, the joins and probes theirs.  The calls
of `win32print` and GDI have none: `EveryRunEnds` assumes that they return, which
the code does not ensure, and so does every other step of `OwnStep`.  Nothing is
assumed of Office, of the user, what the spooler does with its documents, the
disk, Windows or the watcher.  `CHECK_DEADLOCK FALSE`, because
starts, changes and restarts are bounded and a request has an end: the components
come to rest.

## 7. The clients (`MCClients`)

### 7.1 The phone's script (`PhoneClient`)

One JavaScript thread; an action is what runs between two `await`s.  Each
`Uploaders` is one of the concurrent `uploadOne` loops (`BeginUploads`,
`Request`, `Answered`, `Ask`, `Asked`), which look at the page's cancel flag
`c_` through an evaluation that may fail.  Then the page that follows the jobs:
`ViewProgress`, `Subscribe`, `OnMessage`, `SocketError`, `LeaveWait`, `After`; or
the page is closed at the choice in between (`LeaveAtChoice`).
The server's rows are in `job` (`ServerWorks`, `ClickCancel`).  A final row is not
the last: a retry publishes 'printing' after 'failed' (`job_queue.py:269`), and a
cancel may cross the start or the end of a print.  `late` has the jobs this
happened to; the bound is one job of them in a behaviour.

`PhoneRight`: after a cancel each upload begins at most one more file; a result
is only notified when every job has had a final row, and it is what the server
had come to but for the jobs in `late`; who followed the jobs, or closed the page
during the upload, is told something.  Known behaviours: 'completed' is also said
of jobs one of which is printed again, because `js:370` looks at the failed ones
alone; a page that is closed during the wait need not end it, because `js:339`
awaits `waitForLoad` alone, where `js:298` races it with the close;
'done' sends two notifications; closing the page at
the choice tells nothing; events before the subscription are missed, and nothing
asks for the rows; a lost answer counts as a failed upload although the job is there;
the history page asks for the status `completed,failed`, which is no status.

### 7.2 The buttons: `ScanPage` and `UpdateClient`

`ScanPage`: a worker thread enhances pictures (`EnhanceNext`, `EmitFinished`);
`CancelGeneration` forgets the worker and its signal still comes (`Done`);
`TimerFires` resets the button.  A success that was shown by a late signal leaves
the button enabled (`Enabled`), so that the next generation may begin before the
timer.  `UpdateClient`: the one button of the update
section, whose label and handler change with the stage; the worker's call
(`Begin`, `CheckEnds`, `DownloadEnds`, `InstallEnds`, `WorkerRaises`) and the
delivery of its signal (`OnCheckFinished`, `OnDownloadFinished`,
`OnInstallLaunched`), `Cleanup` when the window goes.

`ButtonsRight`: nothing stays loading when nothing runs, whatever order cancels,
clears and signals had; what can be printed is what is shown; an enabled button
has one handler, the one its label names, and nothing under way; the program
exits only after a package was handed to whom it is for.  Known behaviours: the
late signal of a cancelled worker is shown as a success; `HTTPException` is not caught
(`updater.py:45`), and a program that is not installed leaves the button without
an answer (both in `mute`); a download that was cut short is not noticed.

### 7.3 The window and its pages: `MainWindow`, `JobsPage`, `LogsPage`

`MainWindow` has the page (`Navigate`), window and tray
(`ShowWindow`, `HideWindow`), the dashboard's timer, the quick print page with
its files and the jobs it tracks (`SelectFiles`, `RemoveFiles`, `ConfirmClear`,
`Submit`), the batch buttons, and the signals that bring the events of the workers
into Qt's thread (`WorkerWrites` or `CancelJob`, then `Publish`, then
`OnJobStatus`).  `Publish` may lose an event: `publish` can raise `queue.Full` before
it calls the listeners, or stop at its own lock (section 4.3), and the thread may
fail before.  A failed job may be queued again by a retry, or printed by a worker
that overlooked its cancel.
`JobsPage` is the table with its filter and pages over rows that come, move and
are deleted.  `LogsPage` has the list of lines with its limit, the pause buffer, the
filters and the search timer.

`WindowRight`: the label of quick print is about the last submission of which a
job was accepted, although the events of earlier ones still come, and empty after
a clear; files are only kept on the page that is
shown.  `TablesRight`: the log shows the last lines in order through pauses and
clears; a hidden line does not match; a walk through the pages of all jobs misses
none.  Known behaviours: after 'no' in the question about unsaved files the
sidebar shows the other row (`app.py:392`); the job page is not refreshed when a
job is created; 'submitted' is never published; the filter '已取消' maps to no
status; the batch retry pages a list the retried rows leave
(`job_manager.py:322`); with a status filter the same happens to the user's own
walk; new log lines come unfiltered; lines without a time sort first in the history.

### 7.4 `SetupWizard`

The form, the three settings in memory and in the file, and the mark
`wizard_completed`, which is a save of its own.  A save takes two steps, as in
`ConfigFile`: it empties the file (`BeginSave`) and writes it (`Written`), or does
not (`NotWritten`), and `Restart` may come in between; an empty file boots with the
defaults.  The watcher runs beside the wizard (`WatcherReads`, `WatcherAssigns`)
and may assign what the first save wrote over the mark that was set since.

`FormWhole`: between saves the file has a whole form or the one before; only a save
that was killed or failed leaves it empty; with the mark it has the whole form,
whatever the watcher assigned.  Known behaviours: the watcher may undo the mark
before its save, and the wizard comes again; the printers may not have been
polled when the wizard is built, and finishing then erases the default printer; an
empty port refuses the form after the key has been set, and the next save of
another part stores that key (`leaked`); a kill between the two saves shows the
wizard again.

### 7.5 `PureFunctions`

Each call chooses an input and keeps function, input and result in `call`;
`FunctionsRight` compares with a reference: versions as numbers with the
components for digits, page ranges as sets, cells of a sheet by rank, the worst of
the status bits.  Status bits are the three classes of the code (error, warning,
busy), so that 'paused', for one, counts as a warning.  A component of a version
may be a word, or digits with text behind, of which the client raises and the
service takes the digits (`Sscanf`).  Known behaviours: a page range that names no page prints
everything; a number of pages per sheet other than those documented draws off the
sheet; text in a version is treated differently by the client and the service.

### 7.6 The run

Bounds: three files for two uploaders, so that one has a second file when a
cancel comes; one lost answer, one failed evaluation and one job whose final row is
written over; the page follows two jobs (`MaxFollowed`).  Two pictures and two
workers, so that a cancelled worker's signal meets the next one.  Two jobs and
four pages of the window (the other pages behave like 'about' there); one of the
jobs (`Unlucky`) can be printed again or cancelled by itself, and two events are
under way at most (`MaxEvents`), so that a retried job's events meet another's.  Two lines
in the log (1000 in the code) and four received, so that the limit is passed
with a buffer.  Three jobs, one on each page, the least walk with a middle.
Versions of three components of 0..2 or text, ranges of two parts over three
pages.

Fairness: weak, of an upload and of the script between two `await`s (requests
end by the time limit Scriptable gives them; not of `LeaveWait`, which waits for the
page), of a scan or update worker, of the delivery of a Qt signal, of
a worker's publish, which delivers or loses its event, of the dashboard's timer while it runs.  Nothing is assumed of
the user, of the server's jobs or of the network.  `NothingStaysOwed` uses it: a closed
page ends the script unless it waits for the page, a loading or disabled button
comes back, the end of a job is announced by the tray unless its event was lost, a shown dashboard becomes up to date.
`CHECK_DEADLOCK FALSE` for the reason given in 6.5.

## 8. How the properties are tested

Every property of a passing run has a mutant in `PROJECT.json`: a definition that
changes one action the way a slip in the code would (no second look at the marks,
an off-by-one in the retry count, a recovery that does not look at the age, a
file removed after a failure, a rollback that forgets the executable, an Office
lock that an exception keeps, a handler left on a button).  TLC finds the property
violated for the mutant, under the same configuration.  Of a property of `MCHost`
or `MCClients` that joins several the mutant breaks one part.

## 9. What is proved

The theorems hold for every value of the constants that meets the one named
assumption of the module: `ConstantsAssumption` of the queue, `BusAssumption`,
`UpdateAssumption`, `HostConstants` and `ClientConstants` (the null values are no
thread, document, job or worker; bounds are naturals, those without which nothing
happens positive; there are finitely many printers and jobs of the window).  Bounds on faults, crashes, calls and versions stand for any number.
What a theorem assumes beyond that is in its statement and said here.

Every proof has the same form: an inductive invariant that holds in the first
states, is kept by each action, and implies the property.  A lemma says
per action, or per group of actions that touch the same variables, what it
leaves alone; the preservation of an invariant then has a step for each action
that is left.

### 9.1 The job queue

`JobQueueProofs`:

* `TypeCorrect`: `Spec => []TypeOK`.  `TypeOK` is inductive but for `attempt`,
  which needs that a worker about to retry has a retry left (`AttemptLeft`).

`JobQueueSafetyProofs`:

* `CompletedCorrect`: `Spec => []CompletedWasPrinted`, and `UploadsKept`:
  `Spec => []UploadKept`.  Neither is inductive.  `PrintInv` adds that only jobs
  that were added are anywhere in the system (`AllKnown`), that a pool thread or
  a waiting future belongs to a worker that polls it for that very job
  (`PoolInv`), and that a result 'ok' a worker has seen, and every worker about to
  remove the upload, is about a job in `printed` (`ResultInv`).  The step that
  needs it is the late answer: a future of an earlier attempt must not deliver
  its result to the next attempt or to another job.
* `ExclusiveWhileYoung`: `AgeLimit = 0` implies `Spec => []Exclusive`.
  `OneOwner` extends `Exclusive` by the handlers that are about to put a job into
  the queue: it is nowhere else, and no two handlers bring the same job.  It
  needs `AllKnown`, because a new job must not be one that is about already.
* `CancelHonouredWhileYoung`: `AgeLimit = 0` implies `Spec => []CancelHonoured`.
  `DoomInv` says that a job marked in time keeps its mark as long as anybody may
  take it up, and that a worker holding it has a look at the marks ahead.  The
  mark goes with `SkipCancelled` only; `OneOwner` shows that the job is then out
  of the system and `GoneForever` that it stays out.

`JobLifecycleProofs`, over the same `PrintInv` and `OneOwner`:

* `RunsBounded`: `AgeLimit = 0` implies `Spec => []BoundedRuns`.  `RunsInv`
  counts per worker: the engine was started for its job at most once per attempt
  begun, and not yet in this attempt before the submission or while the future
  waits (`Fresh`).  `PoolInv` is what makes a print of an earlier attempt, which
  nobody waits for, no start of the present one.
* `NoJobOrphaned`: `AgeLimit = 0` and `MaxRetries = 0` imply
  `Spec => []NoOrphan`.  `Stages` ties what a row can say to where the worker of
  the job is; `MarkAnswered` says that a mark on a row that is not final was set
  by a handler whose write is to come, or that a worker has its second look ahead.
  Without it the worker that drops a marked job would leave the row behind.
* `CancelsReported`: the same hypotheses imply `Spec => []CancelReported`, by
  `DoomedTended`: a job marked in time says 'cancelled' already, or the one who
  will write it is named.
* `LifecycleImplemented`: with `MaxCrashes = 0` and `MaxFaults = 0` as well,
  `Spec => ImplementsLifecycle`.  The refinement mapping takes the jobs somebody
  owns (`Charge`) for the charge of the abstract queue.  The steps are sorted
  into those that take charge of new jobs (`AcceptStep`) and those that move one
  row and perhaps let go of it (`WorkStep`); all else is a stutter.

`JobRequeueProofs`:

* `NoDoubleRequeue`: with one heartbeat at a time `Spec => []NoDuplicateInQueue`,
  for jobs of any age and any retries, crashes and exceptions.  `QueueInv` says
  that a job has one *token*, an entry of the queue or a worker that has just
  taken it and has not discarded the id, and that a token is *tracked*: its id is
  in `_queued_ids`, or about to be added by recovery, or by an `add_job` whose job
  nobody has begun to work on.  The last clause is what the order of `_queue.put`
  and `_queued_ids.add` needs: recovery may miss the id, but then the row is still
  'queued' and not listed.  The sets of ids of `Snapshot` and the rows of
  `ListStuck` are read at different times, so `Requeuing` carries over that what
  recovery goes on to put back has no token.

What the hypotheses leave out is not left out by the model.  `AgeLimit = 0` says
that no job gets five minutes old; recovery requeues older ones while they are
worked on (section 3.3).  With `MaxRetries > 0` the finding of `JQCancelRetry` is
a counterexample to `NoOrphan` and `CancelReported`.  Two heartbeats at once, which need a recovery
that overstays its ten seconds and the thirty seconds' pause, would
both take their snapshot before either puts a job back.  The abstract queue has no crashes;
what a crash or an exception does to a row is in the `casualties` of the other theorems.

### 9.2 The event bus

`SSEProofs`, without hypotheses:

* `BusTypes`: `Spec => []TypeOK`.  Needs `StackInv`: a thread is in at most two
  calls of `publish`, the inner one came through the sink, and it owns the sink's
  lock exactly then.  Otherwise a call that logs could nest without bound.
* `EvictionJustified`: `Spec => []EvictedForCause`.  `Counted`: what
  `_stale_count` has, and the calls that met a full queue and have not counted it
  yet, are together no more than the full queues there were; a call about to
  evict a subscriber (`Doomed`) has read the limit.
* `EventsInOrder`: `Spec => []InOrder`.  `Ordered` is the order within a queue
  and towards what the client has taken; `NotYet` says that an event still to
  be put is younger than all of its thread in the queue or taken.  It is the
  direct call's event alone that can be pending: the record that comes back
  through the sink is an event without a number, and `Aside` says that a
  subscriber being served is not served again by the same call.

### 9.3 The update service

`UpdateServiceProofs`, without hypotheses:

* `UpdateTypes`: `Spec => []TypeOK`, with the shape of a run at each step
  (`RunShape`), at most one run at work (`OneRun`), the timers left
  (`ShotsLeft`) and that a service that is down holds nothing (`DownIsIdle`).
* `ProgramNeverLost` and `UpdateAllOrNothing`: `Spec => []ProgramKept` and
  `Spec => []NothingHalfDone`, by `ProgramInv`: `Halfway` says for each step of
  `runUpdate` which parts of the program are in place and which are backups of
  which version, and `RunsWhole` that an update is only asked for by a program
  that is whole, so that the backup that begins removes nothing that is needed.
* `AnnouncedIsVerified`: `Spec => []PendingVerified`.  The danger is a version
  that is announced while its package is loaded once more.  `Chain`: versions
  travel one way, from the release to the service, `pending.json`, the program,
  the request, the run and the resources, and none overtakes another; `Newer`: a
  package being loaded is newer than all of them; `Taken`: the latest version, if
  in use, still has its package or is installed for good.

### 9.4 The rest of the server

`HostProofs` proves every safety property of the run of `MCHost` for `FairSpec`,
with one invariant per component:

* `EngineLeavesNothing`, `CancelsReachThePrinter`, `CopiesAreExplained`
  (`NothingLeft`, `CancelEffective`, `CopiesExplained`), by `EngineInv`.  `RunsInv`: every
  entry of the two tables has a run that will remove it, and a browser lives only
  while its thread waits for it.  `KilledInv`: a cancel that has killed a browser is
  about to purge the printer, or the spooler has refused.  `SentSoFar`: until a way
  has succeeded, every document the printer got of a run is one the run took for
  not sent.  `FilesAt`: which temporary files a run may have where it is, which is
  why the ones an exception leaves have to be told apart (`left`).
* `ServerIsOne` (`OneServer`), by `ServerInv`.  As long as no wait was given up
  and no two starts overlapped, the server that lives is the one the handle knows
  (`HandleInv`, also where a start fails or a foreign program has the port); before
  the first stop nobody tells it to exit (`FirstServer`).
* `SettingsAreKept` (`SettingsKept`), by `ConfigInv`: one writer at most has
  emptied the file, if nobody has removed it (`FileInv`), the watcher has read what is
  there or has a change to come (`MemoryInv`), and for a setting no race has cost, where its
  last accepted value is at each step of a save and a reload (`ValueOf`).
* `EventsAreTrue` (the action property `EventsTrue`), by `MonitorInv`: the events
  still to be published are about different printers and say what the cache
  says (`OutgoingInv`), and a printer the poll has not found was gone at some time
  of it (`ReadInv`).  `Diff` numbers the printers that changed in any order; that
  the numbering names all of them is a fact about finite sets (`AllInOrder`).
* `BatchesAreRight` (`BatchRight`), by `BatchInv`: `saved_paths` has the pictures so
  far (`PathsInv`), `enhanced_paths` one entry for each, and every copy on disk is
  in it (`ListInv`).
* `HostTypes` (`TypeOK`), from all five.

### 9.5 The clients

`ClientsProofs` proves every safety property of the run of `MCClients` for
`FairSpec`, with one invariant per component:

* `PhoneIsRight` (`PhoneRight`), by `PhoneInv`.  `CancelSeen`: who has begun an
  upload after the cancel will ask the page once more before it takes another
  file, and be told, whatever the others write into the shared flag.  `Heard`:
  each final row the script believes, or has under way to it, is one the job has
  had.  `Forward`: of a job that is not in `late`, behind a final row come only
  final rows, along the way from the script's belief over the events under way to
  the server; and once all was done every job, also one in `late`, has had a final
  row, which is all a notification then says of it.  `Told`: a wait that began, or
  an upload whose page was closed, leaves a notification.  The script subscribes after the statuses were set to
  'queued', so the invariant has to say that while the socket opens nothing is
  believed and nothing is under way (`Uploading`).
* `ButtonsAreRight` (`ButtonsRight`), by `ScanInv` and `UpdateInv`.  A cancel has
  reset the button of the generation it ended, so a late signal of that generation
  finds nothing to stop.  `StageInv` ties the handler on the update button to the
  worker and the signal under way: there is never one of each, and a download's
  end meets the handler and the installer of its own kind.
* `WindowIsRight` (`WindowRight`), by `WindowInv`: the jobs that are tracked are
  those of the last submission, or none when it had none accepted, so an earlier
  one's event changes no label.
* `TablesAreRight` (`TablesRight`), by `LogsInv` and `HistoryInv`.  `LinesInv`: the
  buffer is the end of what came since the last clear, and the list what is before
  it, less what did not fit; a resumed log appends the one to the other, and
  `Appends` computes what that gives for buffers of any length.  The walk misses
  nothing because a row's place, the number of rows as new or newer, never gets
  smaller: new jobs come before it and the cleanup deletes at the far end
  (`PlaceGrows`, `TableChanges`).  What was past the last page looked at stays past
  it; the others were seen or are new.
* `FormStaysWhole` (`FormWhole`), by `WizardInv`: `InMemory`, memory and the last
  whole form agree, except between a refused form and the next finish or boot;
  `InTheFile`, so do the file, if it is not empty, and what the save under way will
  write; `InTheWatcher`, and what the watcher has read, but for an older mark: it
  reads nothing before the form was saved, because nothing saves until then.
* `FunctionsAreRight` (`FunctionsRight`), by `PureInv`, which says that `call` has
  what its function gives.  Page ranges over documents of any length
  (`PartSelects`, `RangeSelects`), a sheet's cells by division for each documented
  number (`PlaceOnSheet`), the order of the status bits (`HowBadIs`).  That the loop
  over two versions agrees with their weights is an induction over the places
  (`DecidesWeight`): as the provers cannot instantiate the library's induction
  theorems, `Least` and `AllNaturals` get it from `WFMin`, for the set of numbers a
  claim holds of.  The weight is a recursive function; `WeightsExist` shows in the
  same way that there is one.
* `TypesAreRight` (`TypeOK`), from all of them.

### 9.6 Only model-checked

* The liveness properties (`EveryJobEnds`, `StuckIsRecovered`, those of the bus
  and of the update service, `EveryRunEnds`, `CallsReturn`, `NothingStaysOwed`):
  liveness under fairness and `ENABLED` are outside what the prover does.
* The runs that expect a violation.

## 10. What is not modelled

* *Reading and formatting*: the statistics queries, the position in the queue,
  health and status routes, the texts of e-mails, webhooks and logs, page layout,
  skeletons, toggles, translators, printer cards.  They keep no state a property
  could be about.
* *Libraries and remote services*: COM and GDI calls, IPP packets, image filters,
  the enhancement protocol, Qt, uvicorn, the Windows spooler.  What the code
  relies on of them is in the models as a choice between their outcomes.
* *Checks of single values*: names, sizes and magic numbers of uploads, the
  validation of single settings, authentication.
* *The process's surroundings*: build scripts, the installer, autostart, the
  single-instance check, the registration of the service, the certificates, the
  migrations of the data base.
* *The image and text back ends beyond their first call*, which raises
  (section 6.1).

Left out of components that are otherwise modelled: of the repository the
reconnect after an `OperationalError`; of the heartbeat the thread of a recovery
that overstays ten seconds; of the phone script the menu, the settings, the
history page and the widget; of the tray program the exchange between its idle
timer and the queue, which are in two models (`UpdateService`, `JobQueue`).
