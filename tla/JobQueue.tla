------------------------------ MODULE JobQueue ------------------------------
(***************************************************************************)
(* The print-job queue of the server (app/printing/job_queue.py) with the  *)
(* rows it keeps in SQLite (app/printing/repository.py), the worker        *)
(* threads that take jobs from it, the pool of four threads that runs the  *)
(* print engine, the request handlers that add, cancel and retry jobs, and *)
(* the heartbeat thread that requeues what looks stuck.                    *)
(*                                                                         *)
(* A step is one access to shared state: one SQL statement (each runs      *)
(* under the repository's lock), one operation of the FIFO queue, one      *)
(* critical section of the two id sets.  Time is abstracted: a deadline    *)
(* may pass whenever the code looks at the clock.                          *)
(***************************************************************************)
EXTENDS Naturals, Sequences, FiniteSets

CONSTANTS
    Jobs,         \* job ids; an id is used once (uuid4)
    Workers,      \* the worker threads of start(count)
    Slots,        \* the threads of _print_pool
    Clients,      \* threads that call the queue: the API's event loop, the GUI
    Beats,        \* threads inside recover_stuck_jobs (two if one overstays 10 s)
    NoJob, NoWorker,
    MaxRetries,   \* config auto_retry_count
    AgeLimit,     \* 0: no job gets old, 1: past the five minutes of
                  \* recover_stuck_jobs, 2: past job_retention_days
    MaxCrashes,   \* bound on process crashes
    MaxFaults,    \* bound on exceptions out of the repository or the event bus
    CanStop       \* whether stop() may be called

ASSUME ConstantsAssumption ==
    /\ NoJob \notin Jobs
    /\ NoWorker \notin Workers
    /\ MaxRetries \in Nat
    /\ AgeLimit \in 0..2
    /\ MaxCrashes \in Nat
    /\ MaxFaults \in Nat
    /\ CanStop \in BOOLEAN

VARIABLES
    \* the jobs table, one row per job, and the uploaded files
    status,       \* "none": not inserted yet; "gone": deleted by the cleanup
    error,        \* error_message
    age,          \* created_at, against the limits of AgeLimit
    path,         \* filepath: the job whose upload wrote the file
    onDisk,       \* the uploaded files that exist
    \* the memory of JobQueue
    queue, queuedIds, cancelledIds, stop,
    \* the worker threads
    wpc, wjob, attempt,
    result,       \* what the attempt came to, as far as the worker can see
    \* _print_pool: what runs and which worker submitted it (NoWorker: that
    \* worker has moved on), and the workers whose futures wait for a thread
    \* (the pool's order is not kept: nothing below rests on it)
    slotJob, slotOwner, pending,
    \* the request handlers and the heartbeat
    cpc, target, toMark,
    hpc, hstuck, hjob,
    \* bounds and history
    crashes, faults,
    runs,         \* how often the engine began to print the job (saturates)
    printed,      \* the jobs some run of the engine reported as printed
    doomed,       \* jobs marked cancelled before a worker was past its re-check
    casualties    \* jobs whose handling was cut short by a crash or exception

dbVars     == <<status, error>>
fileVars   == <<path, onDisk>>
memVars    == <<queue, queuedIds, cancelledIds>>
workerVars == <<wpc, wjob, attempt, result>>
poolVars   == <<slotJob, slotOwner, pending>>
clientVars == <<cpc, target, toMark>>
beatVars   == <<hpc, hstuck, hjob>>
budgetVars == <<crashes, faults>>
histVars   == <<runs, printed, doomed, casualties>>
vars == <<dbVars, age, fileVars, memVars, stop, workerVars, poolVars,
          clientVars, beatVars, budgetVars, histVars>>

Terminal == {"completed", "failed"}
Status == {"none", "queued", "printing", "gone"} \cup Terminal
WorkerPc == {"idle", "discard", "check", "load", "mark", "recheck", "abort",
             "copy", "submit", "wait", "finish", "remove", "except", "retry",
             "exited"}
\* Where a worker is between taking a job and deciding to print it.
BeforePrint == {"discard", "check", "load", "mark", "recheck", "abort", "retry"}
InPrint == {"copy", "submit", "wait", "finish", "remove"}

DbTypeOK ==
    /\ status \in [Jobs -> Status]
    /\ error \in [Jobs -> {"", "cancelled", "timeout", "failed"}]
    /\ age \in [Jobs -> 0..AgeLimit]
    /\ path \in [Jobs -> Jobs]
    /\ onDisk \in SUBSET Jobs

MemoryTypeOK ==
    /\ queue \in Seq(Jobs)
    /\ queuedIds \in SUBSET Jobs
    /\ cancelledIds \in SUBSET Jobs
    /\ stop \in {"running", "stopping", "stopped"}

WorkerTypeOK ==
    /\ wpc \in [Workers -> WorkerPc]
    /\ wjob \in [Workers -> Jobs \cup {NoJob}]
    /\ \A w \in Workers : wjob[w] = NoJob <=> wpc[w] \in {"idle", "exited"}
    /\ attempt \in [Workers -> 0..MaxRetries]
    /\ result \in [Workers -> {"none", "ok", "fail", "timeout"}]

PoolTypeOK ==
    /\ slotJob \in [Slots -> Jobs \cup {NoJob}]
    /\ slotOwner \in [Slots -> Workers \cup {NoWorker}]
    /\ pending \in SUBSET Workers

ClientTypeOK ==
    /\ cpc \in [Clients -> {"idle", "put", "track", "mark", "write"}]
    /\ target \in [Clients -> SUBSET Jobs]
    /\ toMark \in [Clients -> SUBSET Jobs]

BeatTypeOK ==
    /\ hpc \in [Beats -> {"idle", "list", "snapshot", "requeue", "put", "track"}]
    /\ hstuck \in [Beats -> SUBSET Jobs]
    /\ hjob \in [Beats -> Jobs \cup {NoJob}]
    /\ \A h \in Beats : hpc[h] \in {"put", "track"} => hjob[h] \in Jobs

HistoryTypeOK ==
    /\ crashes \in 0..MaxCrashes
    /\ faults \in 0..MaxFaults
    /\ runs \in [Jobs -> 0..(MaxRetries + 2)]
    /\ printed \in SUBSET Jobs
    /\ doomed \in SUBSET Jobs
    /\ casualties \in SUBSET Jobs

TypeOK ==
    /\ DbTypeOK
    /\ MemoryTypeOK
    /\ WorkerTypeOK
    /\ PoolTypeOK
    /\ ClientTypeOK
    /\ BeatTypeOK
    /\ HistoryTypeOK

Init ==
    /\ status = [j \in Jobs |-> "none"]
    /\ error = [j \in Jobs |-> ""]
    /\ age = [j \in Jobs |-> 0]
    /\ path = [j \in Jobs |-> j]
    /\ onDisk = {}
    /\ queue = <<>>
    /\ queuedIds = {}
    /\ cancelledIds = {}
    /\ stop = "running"
    /\ wpc = [w \in Workers |-> "idle"]
    /\ wjob = [w \in Workers |-> NoJob]
    /\ attempt = [w \in Workers |-> 0]
    /\ result = [w \in Workers |-> "none"]
    /\ slotJob = [t \in Slots |-> NoJob]
    /\ slotOwner = [t \in Slots |-> NoWorker]
    /\ pending = {}
    /\ cpc = [c \in Clients |-> "idle"]
    /\ target = [c \in Clients |-> {}]
    /\ toMark = [c \in Clients |-> {}]
    /\ hpc = [h \in Beats |-> "idle"]
    /\ hstuck = [h \in Beats |-> {}]
    /\ hjob = [h \in Beats |-> NoJob]
    /\ crashes = 0
    /\ faults = 0
    /\ runs = [j \in Jobs |-> 0]
    /\ printed = {}
    /\ doomed = {}
    /\ casualties = {}

-----------------------------------------------------------------------------
(* The jobs table. *)

Row(j) == status[j] \notin {"none", "gone"}

\* UPDATE ... WHERE id = ?: no row, no effect; only the two final statuses
\* touch error_message.
Update(S, s, e) ==
    /\ status' = [j \in Jobs |-> IF j \in S /\ Row(j) THEN s ELSE status[j]]
    /\ error' = [j \in Jobs |->
                    IF j \in S /\ Row(j) /\ s \in Terminal THEN e ELSE error[j]]

InQueue(j) == \E i \in 1..Len(queue) : queue[i] = j

\* Someone is bound to look at the job again: it is in the queue, held by a
\* worker, about to be put there, or about to get a cancel handler's write.
Owned(j) ==
    \/ InQueue(j)
    \/ \E w \in Workers : wjob[w] = j
    \/ \E c \in Clients : cpc[c] \in {"put", "mark", "write"} /\ j \in target[c]
    \/ \E h \in Beats : hpc[h] = "put" /\ hjob[h] = j

-----------------------------------------------------------------------------
(* Request handlers.  The API's handlers run one at a time on the event    *)
(* loop; the GUI calls the queue from its own thread.                      *)

\* handle_file_upload wrote the file; add_job inserts the row.
AddJob(c, j) ==
    /\ cpc[c] = "idle"
    /\ status[j] = "none"
    /\ status' = [status EXCEPT ![j] = "queued"]
    /\ path' = [path EXCEPT ![j] = j]
    /\ onDisk' = onDisk \cup {j}
    /\ cpc' = [cpc EXCEPT ![c] = "put"]
    /\ target' = [target EXCEPT ![c] = {j}]
    /\ UNCHANGED <<error, age, memVars, stop, workerVars, poolVars, toMark,
                   beatVars, budgetVars, histVars>>

\* retry_job: a failed job is added again, as a new job with the same file.
RetryJob(c, j, k) ==
    /\ cpc[c] = "idle"
    /\ status[j] = "failed"
    /\ status[k] = "none"
    /\ status' = [status EXCEPT ![k] = "queued"]
    /\ path' = [path EXCEPT ![k] = path[j]]
    /\ cpc' = [cpc EXCEPT ![c] = "put"]
    /\ target' = [target EXCEPT ![c] = {k}]
    /\ UNCHANGED <<error, age, onDisk, memVars, stop, workerVars, poolVars,
                   toMark, beatVars, budgetVars, histVars>>

\* add_job: the id goes into the queue ...
Put(c) ==
    /\ cpc[c] = "put"
    /\ \E j \in target[c] : queue' = Append(queue, j)
    /\ cpc' = [cpc EXCEPT ![c] = "track"]
    /\ UNCHANGED <<dbVars, age, fileVars, queuedIds, cancelledIds, stop,
                   workerVars, poolVars, target, toMark, beatVars, budgetVars,
                   histVars>>

\* ... and only then into the set that is to mirror the queue.
Track(c) ==
    /\ cpc[c] = "track"
    /\ queuedIds' = queuedIds \cup target[c]
    /\ cpc' = [cpc EXCEPT ![c] = "idle"]
    /\ target' = [target EXCEPT ![c] = {}]
    /\ UNCHANGED <<dbVars, age, fileVars, queue, cancelledIds, stop, workerVars,
                   poolVars, toMark, beatVars, budgetVars, histVars>>

StartCancel(c, S) ==
    /\ cpc' = [cpc EXCEPT ![c] = "mark"]
    /\ target' = [target EXCEPT ![c] = S]
    /\ toMark' = [toMark EXCEPT ![c] = S]
    /\ UNCHANGED <<dbVars, age, fileVars, memVars, stop, workerVars, poolVars,
                   beatVars, budgetVars, histVars>>


\* Mutant: the status that was read is not looked at.
CancelAnyStatus(c, j) ==
    /\ cpc[c] = "idle"
    /\ Row(j)
    /\ StartCancel(c, {j})

\* cancel_job reads the row; what it does next rests on this status.
CancelJob(c, j) ==
    /\ cpc[c] = "idle"
    /\ status[j] \in {"queued", "printing"}
    /\ StartCancel(c, {j})

\* cancel_all_queued reads the queued rows that are not cancelled yet.
CancelAllQueued(c) ==
    LET jobs == {j \in Jobs : status[j] = "queued"} \ cancelledIds
    IN  /\ cpc[c] = "idle"
        /\ jobs # {}
        /\ StartCancel(c, jobs)

\* mark_cancelled, one id at a time.  (What cancel_active_job does to a print
\* that runs is an outcome FinishPrint may choose anyway.)
MarkCancelled(c, j) ==
    /\ cpc[c] = "mark"
    /\ j \in toMark[c]
    /\ cancelledIds' = cancelledIds \cup {j}
    /\ toMark' = [toMark EXCEPT ![c] = @ \ {j}]
    /\ cpc' = [cpc EXCEPT ![c] = IF toMark[c] = {j} THEN "write" ELSE "mark"]
    /\ doomed' = IF \A w \in Workers : wjob[w] = j => wpc[w] \in BeforePrint
                 THEN doomed \cup {j} ELSE doomed
    /\ UNCHANGED <<dbVars, age, fileVars, queue, queuedIds, stop, workerVars,
                   poolVars, target, beatVars, budgetVars, runs, printed,
                   casualties>>

\* update_status / batch_update_status, whatever the rows say by now.
WriteCancelled(c) ==
    /\ cpc[c] = "write"
    /\ Update(target[c], "failed", "cancelled")
    /\ cpc' = [cpc EXCEPT ![c] = "idle"]
    /\ target' = [target EXCEPT ![c] = {}]
    /\ UNCHANGED <<age, fileVars, memVars, stop, workerVars, poolVars, toMark,
                   beatVars, budgetVars, histVars>>

-----------------------------------------------------------------------------
(* Worker threads. *)

Goto(w, l) == wpc' = [wpc EXCEPT ![w] = l]

\* Back to the top of _worker_loop, which leaves when stop() was called.
Drop(w) ==
    /\ Goto(w, IF stop = "running" THEN "idle" ELSE "exited")
    /\ wjob' = [wjob EXCEPT ![w] = NoJob]
    /\ attempt' = [attempt EXCEPT ![w] = 0]
    /\ result' = [result EXCEPT ![w] = "none"]


\* Mutant: one attempt too many.
RetryOnceMore(w) ==
    IF attempt[w] <= MaxRetries
    THEN Goto(w, "retry") /\ UNCHANGED <<wjob, attempt, result>>
    ELSE Drop(w)

\* An attempt that failed or timed out is repeated while retries are left.
DropOrRetry(w) ==
    IF attempt[w] < MaxRetries
    THEN Goto(w, "retry") /\ UNCHANGED <<wjob, attempt, result>>
    ELSE Drop(w)

\* get_for_processing: first the queue ...
Get(w) ==
    /\ wpc[w] = "idle"
    /\ queue # <<>>
    /\ queue' = Tail(queue)
    /\ wjob' = [wjob EXCEPT ![w] = Head(queue)]
    /\ Goto(w, "discard")
    /\ UNCHANGED <<dbVars, age, fileVars, queuedIds, cancelledIds, stop, attempt,
                   result, poolVars, clientVars, beatVars, budgetVars, histVars>>

\* ... then the set of queued ids.
Discard(w) ==
    /\ wpc[w] = "discard"
    /\ queuedIds' = queuedIds \ {wjob[w]}
    /\ Goto(w, "check")
    /\ UNCHANGED <<dbVars, age, fileVars, queue, cancelledIds, stop, wjob,
                   attempt, result, poolVars, clientVars, beatVars, budgetVars,
                   histVars>>

\* _worker_loop leaves a cancelled job alone and forgets the mark.
SkipCancelled(w) ==
    /\ wpc[w] = "check"
    /\ wjob[w] \in cancelledIds
    /\ cancelledIds' = cancelledIds \ {wjob[w]}
    /\ Drop(w)
    /\ UNCHANGED <<dbVars, age, fileVars, queue, queuedIds, stop, poolVars,
                   clientVars, beatVars, budgetVars, histVars>>

NotCancelled(w) ==
    /\ wpc[w] = "check"
    /\ wjob[w] \notin cancelledIds
    /\ Goto(w, "load")
    /\ UNCHANGED <<dbVars, age, fileVars, memVars, stop, wjob, attempt, result,
                   poolVars, clientVars, beatVars, budgetVars, histVars>>

\* _execute_job: no row, or cancelled by now: 'cancelled', and no write.
LoadJob(w) ==
    /\ wpc[w] = "load"
    /\ IF Row(wjob[w]) /\ wjob[w] \notin cancelledIds
       THEN Goto(w, "mark") /\ UNCHANGED <<wjob, attempt, result>>
       ELSE Drop(w)
    /\ UNCHANGED <<dbVars, age, fileVars, memVars, stop, poolVars, clientVars,
                   beatVars, budgetVars, histVars>>

MarkPrinting(w) ==
    /\ wpc[w] = "mark"
    /\ Update({wjob[w]}, "printing", "")
    /\ Goto(w, "recheck")
    /\ UNCHANGED <<age, fileVars, memVars, stop, wjob, attempt, result, poolVars,
                   clientVars, beatVars, budgetVars, histVars>>


\* Mutant: no second look at cancelled_ids.
NoRecheck(w) ==
    /\ wpc[w] = "recheck"
    /\ Goto(w, "copy")
    /\ UNCHANGED <<dbVars, age, fileVars, memVars, stop, wjob, attempt, result,
                   poolVars, clientVars, beatVars, budgetVars, histVars>>

\* Re-check cancel after status update.
Recheck(w) ==
    /\ wpc[w] = "recheck"
    /\ Goto(w, IF wjob[w] \in cancelledIds THEN "abort" ELSE "copy")
    /\ UNCHANGED <<dbVars, age, fileVars, memVars, stop, wjob, attempt, result,
                   poolVars, clientVars, beatVars, budgetVars, histVars>>


\* Mutant: the worker leaves the write to the cancel handler.
AbortSilently(w) ==
    /\ wpc[w] = "abort"
    /\ Drop(w)
    /\ UNCHANGED <<dbVars, age, fileVars, memVars, stop, poolVars, clientVars,
                   beatVars, budgetVars, histVars>>

AbortCancelled(w) ==
    /\ wpc[w] = "abort"
    /\ Update({wjob[w]}, "failed", "cancelled")
    /\ Drop(w)
    /\ UNCHANGED <<age, fileVars, memVars, stop, poolVars, clientVars, beatVars,
                   budgetVars, histVars>>

\* temp_print_file copies the upload, which must still be there.
CopyFile(w) ==
    /\ wpc[w] = "copy"
    /\ Goto(w, IF path[wjob[w]] \in onDisk THEN "submit" ELSE "except")
    /\ UNCHANGED <<dbVars, age, fileVars, memVars, stop, wjob, attempt, result,
                   poolVars, clientVars, beatVars, budgetVars, histVars>>

\* _execute_print: a pool that was shut down refuses the future.
SubmitPrint(w) ==
    /\ wpc[w] = "submit"
    /\ IF stop = "stopped"
       THEN Goto(w, "except") /\ UNCHANGED pending
       ELSE pending' = pending \cup {w} /\ Goto(w, "wait")
    /\ result' = [result EXCEPT ![w] = "none"]
    /\ UNCHANGED <<dbVars, age, fileVars, memVars, stop, wjob, attempt, slotJob,
                   slotOwner, clientVars, beatVars, budgetVars, histVars>>

\* Leaving temp_print_file: nothing cancels the future, but one that has not
\* started finds no file any more and fails at once, so it is left out; one
\* that runs goes on for nobody.
DeleteCopy(w) ==
    /\ pending' = pending \ {w}
    /\ slotOwner' = [t \in Slots |->
                        IF slotOwner[t] = w THEN NoWorker ELSE slotOwner[t]]
    /\ UNCHANGED slotJob

PollResult(w) ==
    /\ wpc[w] = "wait"
    /\ result[w] # "none"
    /\ Goto(w, "finish")
    /\ UNCHANGED <<dbVars, age, fileVars, memVars, stop, wjob, attempt, result,
                   poolVars, clientVars, beatVars, budgetVars, histVars>>

\* The poll timed out before the check, so a result may be there by now.
PollCancelled(w) ==
    /\ wpc[w] = "wait"
    /\ wjob[w] \in cancelledIds
    /\ DeleteCopy(w)
    /\ Drop(w)
    /\ UNCHANGED <<dbVars, age, fileVars, memVars, stop, clientVars, beatVars,
                   budgetVars, histVars>>


\* Mutant: fut.result() without a deadline.
NoTimeout(w) == FALSE

\* The deadline is looked at before the future.
PollTimeout(w) ==
    /\ wpc[w] = "wait"
    /\ result' = [result EXCEPT ![w] = "timeout"]
    /\ Goto(w, "finish")
    /\ UNCHANGED <<dbVars, age, fileVars, memVars, stop, wjob, attempt, poolVars,
                   clientVars, beatVars, budgetVars, histVars>>


\* Mutant: a print_file that returns False counts as printed.
FinishAnyReturn(w) ==
    /\ wpc[w] = "finish"
    /\ result[w] \in {"ok", "fail"}
    /\ Update({wjob[w]}, "completed", "")
    /\ Goto(w, "remove")
    /\ UNCHANGED <<age, fileVars, memVars, stop, wjob, attempt, result, poolVars,
                   clientVars, beatVars, budgetVars, histVars>>

\* _finalize_job
FinishOk(w) ==
    /\ wpc[w] = "finish"
    /\ result[w] = "ok"
    /\ Update({wjob[w]}, "completed", "")
    /\ Goto(w, "remove")
    /\ UNCHANGED <<age, fileVars, memVars, stop, wjob, attempt, result, poolVars,
                   clientVars, beatVars, budgetVars, histVars>>

\* safe_remove(original_path)
RemoveFile(w) ==
    /\ wpc[w] = "remove"
    /\ onDisk' = onDisk \ {path[wjob[w]]}
    /\ Drop(w)
    /\ UNCHANGED <<dbVars, age, path, memVars, stop, poolVars, clientVars,
                   beatVars, budgetVars, histVars>>


\* Mutant: the upload is removed whatever came of the attempt.
FinishBadAndRemove(w) ==
    /\ wpc[w] = "finish"
    /\ result[w] \in {"fail", "timeout"}
    /\ Update({wjob[w]}, "failed", "failed")
    /\ onDisk' = onDisk \ {path[wjob[w]]}
    /\ DeleteCopy(w)
    /\ DropOrRetry(w)
    /\ UNCHANGED <<age, path, memVars, stop, clientVars, beatVars, budgetVars,
                   histVars>>

FinishBad(w) ==
    /\ wpc[w] = "finish"
    /\ result[w] \in {"fail", "timeout"}
    /\ Update({wjob[w]}, "failed",
              IF result[w] = "timeout" THEN "timeout" ELSE "failed")
    /\ DeleteCopy(w)
    /\ DropOrRetry(w)
    /\ UNCHANGED <<age, fileVars, memVars, stop, clientVars, beatVars, budgetVars,
                   histVars>>


\* Mutant: the except clause only logs.
ExceptionOnlyLogged(w) ==
    /\ wpc[w] = "except"
    /\ DropOrRetry(w)
    /\ UNCHANGED <<dbVars, age, fileVars, memVars, stop, poolVars, clientVars,
                   beatVars, budgetVars, histVars>>

\* _execute_job: except Exception
ExecuteException(w) ==
    /\ wpc[w] = "except"
    /\ Update({wjob[w]}, "failed", "failed")
    /\ DropOrRetry(w)
    /\ UNCHANGED <<age, fileVars, memVars, stop, poolVars, clientVars, beatVars,
                   budgetVars, histVars>>

\* _execute_with_retry: the row says 'queued' although the worker keeps the
\* job.  (increment_retry changes a column nothing here reads.)
RetryAttempt(w) ==
    /\ wpc[w] = "retry"
    /\ Update({wjob[w]}, "queued", "")
    /\ attempt' = [attempt EXCEPT ![w] = @ + 1]
    /\ Goto(w, "load")
    /\ UNCHANGED <<age, fileVars, memVars, stop, wjob, result, poolVars,
                   clientVars, beatVars, budgetVars, histVars>>

-----------------------------------------------------------------------------
(* The threads of _print_pool. *)

Saturate(n) == IF n < MaxRetries + 2 THEN n + 1 ELSE n

\* A free thread takes a future that waits.
StartPrint(t, w) ==
    /\ slotJob[t] = NoJob
    /\ w \in pending
    /\ pending' = pending \ {w}
    /\ slotJob' = [slotJob EXCEPT ![t] = wjob[w]]
    /\ slotOwner' = [slotOwner EXCEPT ![t] = w]
    /\ runs' = [runs EXCEPT ![wjob[w]] = Saturate(@)]
    /\ UNCHANGED <<dbVars, age, fileVars, memVars, stop, workerVars, clientVars,
                   beatVars, budgetVars, printed, doomed, casualties>>

\* print_file returns, or raises (which the worker treats as a failure).
FinishPrint(t, outcome) ==
    /\ slotJob[t] # NoJob
    /\ printed' = IF outcome = "ok" THEN printed \cup {slotJob[t]} ELSE printed
    /\ result' = [w \in Workers |->
                     IF slotOwner[t] = w /\ wpc[w] = "wait"
                     THEN outcome ELSE result[w]]
    /\ slotJob' = [slotJob EXCEPT ![t] = NoJob]
    /\ slotOwner' = [slotOwner EXCEPT ![t] = NoWorker]
    /\ UNCHANGED <<dbVars, age, fileVars, memVars, stop, wpc, wjob, attempt,
                   pending, clientVars, beatVars, budgetVars, runs, doomed,
                   casualties>>

-----------------------------------------------------------------------------
(* The heartbeat: every 30 s a cleanup, then a recovery. *)

Expired == {j \in Jobs : Row(j) /\ age[j] = 2}

\* cleanup_old_jobs deletes by created_at, whatever the status.
Cleanup(h) ==
    /\ hpc[h] = "idle"
    /\ status' = [j \in Jobs |-> IF j \in Expired THEN "gone" ELSE status[j]]
    /\ hpc' = [hpc EXCEPT ![h] = "list"]
    /\ UNCHANGED <<error, age, fileVars, memVars, stop, workerVars, poolVars,
                   clientVars, hstuck, hjob, budgetVars, histVars>>


\* Mutant: no look at created_at.
ListAllPrinting(h) ==
    /\ hpc[h] = "list"
    /\ hstuck' = [hstuck EXCEPT ![h] = {j \in Jobs : status[j] = "printing"}]
    /\ hpc' = [hpc EXCEPT ![h] = IF hstuck'[h] = {} THEN "idle" ELSE "snapshot"]
    /\ UNCHANGED <<dbVars, age, fileVars, memVars, stop, workerVars, poolVars,
                   clientVars, hjob, budgetVars, histVars>>

\* Mutant: the comparison with the five-minute mark the other way round.
ListRecent(h) ==
    /\ hpc[h] = "list"
    /\ hstuck' = [hstuck EXCEPT ![h] =
                     {j \in Jobs : status[j] = "printing" /\ age[j] = 0}]
    /\ hpc' = [hpc EXCEPT ![h] = IF hstuck'[h] = {} THEN "idle" ELSE "snapshot"]
    /\ UNCHANGED <<dbVars, age, fileVars, memVars, stop, workerVars, poolVars,
                   clientVars, hjob, budgetVars, histVars>>

\* recover_stuck_jobs: 'printing' rows created more than five minutes ago ...
ListStuck(h) ==
    /\ hpc[h] = "list"
    /\ hstuck' = [hstuck EXCEPT ![h] =
                     {j \in Jobs : status[j] = "printing" /\ age[j] >= 1}]
    /\ hpc' = [hpc EXCEPT ![h] = IF hstuck'[h] = {} THEN "idle" ELSE "snapshot"]
    /\ UNCHANGED <<dbVars, age, fileVars, memVars, stop, workerVars, poolVars,
                   clientVars, hjob, budgetVars, histVars>>


\* Mutant: ids that are in the queue are not left out.
SnapshotNothing(h) ==
    /\ hpc[h] = "snapshot"
    /\ hpc' = [hpc EXCEPT ![h] = "requeue"]
    /\ UNCHANGED <<dbVars, age, fileVars, memVars, stop, workerVars, poolVars,
                   clientVars, hstuck, hjob, budgetVars, histVars>>

\* ... without those the set of queued ids holds at one moment ...
Snapshot(h) ==
    /\ hpc[h] = "snapshot"
    /\ hstuck' = [hstuck EXCEPT ![h] = @ \ queuedIds]
    /\ hpc' = [hpc EXCEPT ![h] = IF hstuck'[h] = {} THEN "idle" ELSE "requeue"]
    /\ UNCHANGED <<dbVars, age, fileVars, memVars, stop, workerVars, poolVars,
                   clientVars, hjob, budgetVars, histVars>>

\* ... go back to 'queued', one after the other ...
Requeue(h, j) ==
    /\ hpc[h] = "requeue"
    /\ j \in hstuck[h]
    /\ Update({j}, "queued", "")
    /\ hstuck' = [hstuck EXCEPT ![h] = @ \ {j}]
    /\ hjob' = [hjob EXCEPT ![h] = j]
    /\ hpc' = [hpc EXCEPT ![h] = "put"]
    /\ UNCHANGED <<age, fileVars, memVars, stop, workerVars, poolVars,
                   clientVars, budgetVars, histVars>>

\* ... and into the queue.
RequeuePut(h) ==
    /\ hpc[h] = "put"
    /\ queue' = Append(queue, hjob[h])
    /\ hpc' = [hpc EXCEPT ![h] = "track"]
    /\ UNCHANGED <<dbVars, age, fileVars, queuedIds, cancelledIds, stop,
                   workerVars, poolVars, clientVars, hstuck, hjob, budgetVars,
                   histVars>>

RequeueTrack(h) ==
    /\ hpc[h] = "track"
    /\ queuedIds' = queuedIds \cup {hjob[h]}
    /\ hjob' = [hjob EXCEPT ![h] = NoJob]
    /\ hpc' = [hpc EXCEPT ![h] = IF hstuck[h] = {} THEN "idle" ELSE "requeue"]
    /\ UNCHANGED <<dbVars, age, fileVars, queue, cancelledIds, stop, workerVars,
                   poolVars, clientVars, hstuck, budgetVars, histVars>>

-----------------------------------------------------------------------------
(* Time, shutdown, exceptions and crashes. *)

GetOlder(j) ==
    /\ Row(j)
    /\ age[j] < AgeLimit
    /\ age' = [age EXCEPT ![j] = @ + 1]
    /\ UNCHANGED <<dbVars, fileVars, memVars, stop, workerVars, poolVars,
                   clientVars, beatVars, budgetVars, histVars>>

\* stop(): the event; after the joins, which time out, the pool.
StopWorkers ==
    /\ CanStop
    /\ stop # "stopped"
    /\ stop' = IF stop = "running" THEN "stopping" ELSE "stopped"
    /\ UNCHANGED <<dbVars, age, fileVars, memVars, workerVars, poolVars,
                   clientVars, beatVars, budgetVars, histVars>>

ExitWorker(w) ==
    /\ wpc[w] = "idle"
    /\ stop # "running"
    /\ Goto(w, "exited")
    /\ UNCHANGED <<dbVars, age, fileVars, memVars, stop, wjob, attempt, result,
                   poolVars, clientVars, beatVars, budgetVars, histVars>>

\* What the worker would write next, and whether it has got to write it when
\* the exception comes.
PendingWrite(w) ==
    \/ UNCHANGED dbVars
    \/ wpc[w] = "mark" /\ Update({wjob[w]}, "printing", "")
    \/ wpc[w] = "abort" /\ Update({wjob[w]}, "failed", "cancelled")
    \/ wpc[w] = "except" /\ Update({wjob[w]}, "failed", "failed")
    \/ wpc[w] = "retry" /\ Update({wjob[w]}, "queued", "")
    \/ wpc[w] = "finish" /\ result[w] = "ok" /\ Update({wjob[w]}, "completed", "")
    \/ wpc[w] = "finish" /\ result[w] # "ok" /\ Update({wjob[w]}, "failed", "failed")

Fault(S) ==
    /\ faults < MaxFaults
    /\ faults' = faults + 1
    /\ casualties' = casualties \cup S
    /\ UNCHANGED <<age, fileVars, memVars, stop, crashes, runs, printed, doomed>>

\* Outside the try block of _execute_job an exception ends in _worker_loop,
\* inside it in its except clause.
WorkerFault(w) ==
    /\ wpc[w] \in {"load", "mark", "abort", "copy", "finish", "except", "retry"}
    /\ PendingWrite(w)
    /\ IF wpc[w] \in {"copy", "finish"}
       THEN /\ Goto(w, "except")
            /\ DeleteCopy(w)
            /\ UNCHANGED <<wjob, attempt, result>>
            /\ Fault({})
       ELSE /\ Drop(w)
            /\ UNCHANGED poolVars
            /\ Fault({wjob[w]})
    /\ UNCHANGED <<clientVars, beatVars>>

\* The update of cancel_job or cancel_all_queued fails after the mark.
CancelFault(c) ==
    /\ cpc[c] = "write"
    /\ cpc' = [cpc EXCEPT ![c] = "idle"]
    /\ target' = [target EXCEPT ![c] = {}]
    /\ Fault(target[c])
    /\ UNCHANGED <<dbVars, workerVars, poolVars, toMark, beatVars>>

\* The update of recover_stuck_jobs fails; the heartbeat logs it.
BeatFault(h) ==
    /\ hpc[h] = "requeue"
    /\ hpc' = [hpc EXCEPT ![h] = "idle"]
    /\ hstuck' = [hstuck EXCEPT ![h] = {}]
    /\ Fault({})
    /\ UNCHANGED <<dbVars, workerVars, poolVars, clientVars, hjob>>

\* The process dies and boots: memory is new, rows and files are what they
\* were, bootstrap runs the cleanup and requeues nothing.
Crash ==
    /\ crashes < MaxCrashes
    /\ crashes' = crashes + 1
    /\ casualties' = casualties
                       \cup {j \in Jobs : Owned(j) \/ status[j] \in {"queued", "printing"}}
    /\ status' = [j \in Jobs |-> IF j \in Expired THEN "gone" ELSE status[j]]
    /\ queue' = <<>>
    /\ queuedIds' = {}
    /\ cancelledIds' = {}
    /\ stop' = "running"
    /\ wpc' = [w \in Workers |-> "idle"]
    /\ wjob' = [w \in Workers |-> NoJob]
    /\ attempt' = [w \in Workers |-> 0]
    /\ result' = [w \in Workers |-> "none"]
    /\ slotJob' = [t \in Slots |-> NoJob]
    /\ slotOwner' = [t \in Slots |-> NoWorker]
    /\ pending' = {}
    /\ cpc' = [c \in Clients |-> "idle"]
    /\ target' = [c \in Clients |-> {}]
    /\ toMark' = [c \in Clients |-> {}]
    /\ hpc' = [h \in Beats |-> "idle"]
    /\ hstuck' = [h \in Beats |-> {}]
    /\ hjob' = [h \in Beats |-> NoJob]
    /\ UNCHANGED <<error, age, fileVars, faults, runs, printed, doomed>>

-----------------------------------------------------------------------------
WorkerStep(w) ==
    \/ Get(w) \/ Discard(w) \/ SkipCancelled(w) \/ NotCancelled(w)
    \/ LoadJob(w) \/ MarkPrinting(w) \/ Recheck(w) \/ AbortCancelled(w)
    \/ CopyFile(w) \/ SubmitPrint(w)
    \/ PollResult(w) \/ PollCancelled(w) \/ PollTimeout(w)
    \/ FinishOk(w) \/ RemoveFile(w) \/ FinishBad(w)
    \/ ExecuteException(w) \/ RetryAttempt(w)

ClientRequest(c) ==
    \/ \E j \in Jobs : AddJob(c, j) \/ CancelJob(c, j)
    \/ \E j, k \in Jobs : RetryJob(c, j, k)
    \/ CancelAllQueued(c)

ClientStep(c) ==
    \/ Put(c) \/ Track(c)
    \/ \E j \in Jobs : MarkCancelled(c, j)
    \/ WriteCancelled(c)

PoolStep(t) ==
    \/ \E w \in Workers : StartPrint(t, w)
    \/ \E outcome \in {"ok", "fail"} : FinishPrint(t, outcome)

BeatStep(h) ==
    \/ Cleanup(h) \/ ListStuck(h) \/ Snapshot(h)
    \/ \E j \in Jobs : Requeue(h, j)
    \/ RequeuePut(h) \/ RequeueTrack(h)

Environment ==
    \/ \E j \in Jobs : GetOlder(j)
    \/ StopWorkers
    \/ \E w \in Workers : ExitWorker(w) \/ WorkerFault(w)
    \/ \E c \in Clients : CancelFault(c)
    \/ \E h \in Beats : BeatFault(h)
    \/ Crash

Next ==
    \/ \E w \in Workers : WorkerStep(w)
    \/ \E c \in Clients : ClientRequest(c) \/ ClientStep(c)
    \/ \E t \in Slots : PoolStep(t)
    \/ \E h \in Beats : BeatStep(h)
    \/ Environment

Spec == Init /\ [][Next]_vars

\* Threads run: a worker, a handler in the middle of a request and a beat
\* keep going.  Nothing is assumed of the engine: it may never return.
Fairness ==
    /\ \A w \in Workers : WF_vars(WorkerStep(w))
    /\ \A c \in Clients : WF_vars(ClientStep(c))
    /\ \A h \in Beats : WF_vars(BeatStep(h))

FairSpec == Spec /\ Fairness

-----------------------------------------------------------------------------
(* Properties. *)

\* A job is in one place only: once in the queue, or with one worker
\* (get_for_processing hands an id out once).  It is what keeps two workers
\* from printing the same document side by side.
Exclusive ==
    /\ \A i, k \in 1..Len(queue) : queue[i] = queue[k] => i = k
    /\ \A v, w \in Workers : wjob[v] = wjob[w] => v = w \/ wjob[v] = NoJob
    /\ \A w \in Workers : ~InQueue(wjob[w])

\* What queuedIds is for: recover_stuck_jobs puts no job into the queue that
\* is there already.
NoDuplicateInQueue ==
    \A i, k \in 1..Len(queue) : queue[i] = queue[k] => i = k

\* A job marked cancelled before a worker was past its re-check is not printed,
\* however the marking falls between the worker's two looks at cancelled_ids.
CancelHonoured ==
    \A w \in Workers : wjob[w] \in doomed => wpc[w] \notin InPrint

\* Once nobody is busy with such a job any more, its row says so: the writes
\* of the handler and of the worker may come in either order.
CancelReported ==
    \A j \in doomed :
        Row(j) /\ ~Owned(j) /\ j \notin casualties
            => status[j] = "failed" /\ error[j] = "cancelled"

\* A row that is not final has somebody who will look at it again; only a crash
\* or an exception leaves one behind.
NoOrphan ==
    \A j \in Jobs :
        status[j] \in {"queued", "printing"} => Owned(j) \/ j \in casualties

\* The engine is started once per attempt, and auto_retry_count bounds those.
BoundedRuns == \A j \in Jobs : runs[j] <= MaxRetries + 1

\* 'completed' is only said of a document the engine reported as printed.
CompletedWasPrinted ==
    \A j \in Jobs : status[j] = "completed" => j \in printed

\* The upload of a job is not deleted before a job made from it was printed:
\* a failed job can be tried again.
UploadKept ==
    \A j \in Jobs :
        Row(j) /\ path[j] \notin onDisk
            => \E k \in printed : path[k] = path[j]

\* The queue implements the life of a job a client may rely on, as long as no
\* job gets old, none is retried automatically and nothing crashes or raises.
Lifecycle == INSTANCE JobLifecycle
                 WITH row <- status, charge <- {j \in Jobs : Owned(j)}
ImplementsLifecycle == Lifecycle!LifeSpec

\* Every job that was added comes to an end although the engine may hang, unless
\* a crash or an exception hits it.
EveryJobEnds ==
    \A j \in Jobs :
        status[j] = "queued"
            ~> []<>(status[j] \in Terminal \/ j \in casualties)

\* A job the last crash left 'printing' comes to an end: once it is old enough
\* the heartbeat takes it back, if the cleanup does not delete it first and no
\* exception stops the heartbeat or a worker halfway.
StuckIsRecovered ==
    \A j \in Jobs :
        status[j] = "printing" /\ age[j] >= 1 /\ crashes = MaxCrashes
            ~> status[j] \in Terminal \cup {"gone"} \/ faults > 0
=============================================================================
