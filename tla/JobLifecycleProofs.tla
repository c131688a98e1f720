-------------------------- MODULE JobLifecycleProofs --------------------------
(***************************************************************************)
(* What becomes of a job, for any number of jobs and threads, while none   *)
(* gets old enough for recover_stuck_jobs: how often the engine is started *)
(* for it, that somebody is left who will end it, that a cancel in time is *)
(* what its row says in the end, and that the queue as a whole implements  *)
(* JobLifecycle.                                                           *)
(***************************************************************************)
EXTENDS JobQueueSafetyProofs

-----------------------------------------------------------------------------
(* What a worker's step leaves alone. *)

\* A worker writes the row of its own job only, moves itself only, and does
\* nothing to requests, ages or the history of faults and cancels.
LEMMA WorkerFrame ==
  ASSUME TypeInv, NEW w \in Workers, WorkerStep(w)
  PROVE  /\ UNCHANGED <<age, clientVars, beatVars, doomed, casualties, runs>>
         /\ \A v \in Workers : v # w =>
               wjob'[v] = wjob[v] /\ wpc'[v] = wpc[v] /\ attempt'[v] = attempt[v]
         /\ \A j \in Jobs : j # wjob[w] =>
               status'[j] = status[j] /\ error'[j] = error[j]
<1> USE DEF TypeInv, TypeOK, WorkerTypeOK
<1>1. UNCHANGED <<age, clientVars, beatVars, doomed, casualties, runs>>
  BY DEF histVars, WorkerStep, Get, Discard, SkipCancelled, NotCancelled,
     LoadJob, MarkPrinting, Recheck, AbortCancelled, CopyFile, SubmitPrint,
     PollResult, PollCancelled, PollTimeout, FinishOk, RemoveFile, FinishBad,
     ExecuteException, RetryAttempt
<1>2. ASSUME NEW v \in Workers, v # w
      PROVE  wjob'[v] = wjob[v] /\ wpc'[v] = wpc[v] /\ attempt'[v] = attempt[v]
  BY <1>2 DEF WorkerStep, Get, Discard, SkipCancelled, NotCancelled, LoadJob,
     MarkPrinting, Recheck, AbortCancelled, CopyFile, SubmitPrint, PollResult,
     PollCancelled, PollTimeout, FinishOk, RemoveFile, FinishBad,
     ExecuteException, RetryAttempt, Drop, DropOrRetry, Goto
<1>3. ASSUME NEW j \in Jobs, j # wjob[w]
      PROVE  status'[j] = status[j] /\ error'[j] = error[j]
  <2>1. ASSUME NEW s, NEW e, Update({wjob[w]}, s, e)
        PROVE  status'[j] = status[j] /\ error'[j] = error[j]
    BY <1>3, <2>1 DEF Update
  <2>2. CASE MarkPrinting(w) \/ AbortCancelled(w) \/ FinishOk(w) \/ FinishBad(w)
               \/ ExecuteException(w) \/ RetryAttempt(w)
    BY <2>1, <2>2 DEF MarkPrinting, AbortCancelled, FinishOk, FinishBad,
       ExecuteException, RetryAttempt
  <2> QED
    BY <2>2 DEF dbVars, WorkerStep, Get, Discard, SkipCancelled,
       NotCancelled, LoadJob, Recheck, CopyFile, SubmitPrint, PollResult,
       PollCancelled, PollTimeout, RemoveFile
<1> QED BY <1>1, <1>2, <1>3

\* It takes the head of the queue, or leaves the queue alone and at most
\* lets go of its job.
LEMMA WorkerTakes ==
  ASSUME TypeInv, NEW w \in Workers, WorkerStep(w), ~Get(w)
  PROVE  queue' = queue /\ wjob'[w] \in {wjob[w], NoJob}
BY DEF TypeInv, TypeOK, WorkerTypeOK, memVars, WorkerStep, Discard,
   SkipCancelled, NotCancelled, LoadJob, MarkPrinting, Recheck,
   AbortCancelled, CopyFile, SubmitPrint, PollResult, PollCancelled,
   PollTimeout, FinishOk, RemoveFile, FinishBad, ExecuteException,
   RetryAttempt, Drop, DropOrRetry

\* The exceptions and the shutdown leave requests to be put, the queue and
\* whoever is not hit alone.
LEMMA QuietEnvironment ==
  ASSUME TypeInv, Environment, ~Crash
  PROVE  /\ queue' = queue
         /\ \A w \in Workers : wjob'[w] \in {wjob[w], NoJob}
         /\ \A c \in Clients : Incoming(c)' \subseteq Incoming(c)
         /\ casualties \subseteq casualties'
         /\ UNCHANGED <<cancelledIds, toMark, doomed, runs>>
<1> USE DEF TypeInv, TypeOK
<1>1. queue' = queue /\ cancelledIds' = cancelledIds
  BY DEF memVars, Environment, GetOlder, StopWorkers, ExitWorker,
     WorkerFault, CancelFault, BeatFault, Fault
<1>2. \A w \in Workers : wjob'[w] \in {wjob[w], NoJob}
  BY DEF WorkerTypeOK, workerVars, Environment, GetOlder, StopWorkers,
     ExitWorker, WorkerFault, CancelFault, BeatFault, Drop
<1>3. \A c \in Clients : Incoming(c)' \subseteq Incoming(c)
  BY DEF Incoming, ClientTypeOK, clientVars, Environment, GetOlder,
     StopWorkers, ExitWorker, WorkerFault, CancelFault, BeatFault
<1>4. casualties \subseteq casualties' /\ doomed' = doomed /\ runs' = runs
  BY DEF histVars, Environment, GetOlder, StopWorkers, ExitWorker,
     WorkerFault, CancelFault, BeatFault, Fault
<1>5. toMark' = toMark
  BY DEF clientVars, Environment, GetOlder, StopWorkers, ExitWorker,
     WorkerFault, CancelFault, BeatFault
<1> QED BY <1>1, <1>2, <1>3, <1>4, <1>5

-----------------------------------------------------------------------------
(* Where a job is and what its row says. *)

\* While nothing gets old no row is deleted.
Rows == \A j \in Jobs : age[j] = 0 /\ status[j] # "gone"

\* What the row of a worker's job may say, by where the worker is.  A cancel
\* handler may write 'failed' at any time.
Says(l) ==
    IF l \in {"discard", "check", "load", "mark"} THEN {"queued", "failed"}
    ELSE IF l = "retry" THEN {"failed"}
    ELSE IF l = "remove" THEN {"completed", "failed"}
    ELSE IF l = "except" THEN {"printing", "completed", "failed"}
    ELSE {"printing", "failed"}

Stages ==
    /\ Rows
    /\ \A j \in Jobs : Has(queue, j) => status[j] \in {"queued", "failed"}
    /\ \A c \in Clients : \A j \in Incoming(c) : status[j] \in {"queued", "failed"}
    /\ \A w \in Workers : wjob[w] # NoJob => status[wjob[w]] \in Says(wpc[w])

\* No row is past its retention.
LEMMA NothingExpired == Rows => Expired = {}
<1>1. ASSUME Rows, NEW j \in Jobs PROVE age[j] # 2
  BY <1>1 DEF Rows
<1> QED BY <1>1 DEF Expired

\* Nothing gets older.
LEMMA NeverOlder ==
  ASSUME AgeLimit = 0, TypeInv, Rows, [Next]_vars
  PROVE  Rows'
<1> USE DEF TypeInv, TypeOK, DbTypeOK
<1>0. Expired = {}
  BY NothingExpired
<1>1. age' = age
  <2>1. ASSUME NEW j \in Jobs, GetOlder(j) PROVE FALSE
    <3>1. age[j] = 0 /\ age[j] < AgeLimit
      BY <2>1 DEF GetOlder, Rows
    <3>2. AgeLimit = 0
      OBVIOUS
    <3> QED BY ONLY <3>1, <3>2
  <2> QED
    BY <2>1, ZenonT(40) DEF vars, Next, WorkerStep, ClientRequest, ClientStep, PoolStep,
       BeatStep, Environment, Get, Discard, SkipCancelled, NotCancelled,
       LoadJob, MarkPrinting, Recheck, AbortCancelled, CopyFile, SubmitPrint,
       PollResult, PollCancelled, PollTimeout, FinishOk, RemoveFile,
       FinishBad, ExecuteException, RetryAttempt, AddJob, RetryJob,
       CancelJob, CancelAllQueued, StartCancel, Put, Track, MarkCancelled,
       WriteCancelled, StartPrint, FinishPrint, Cleanup, ListStuck, Snapshot,
       Requeue, RequeuePut, RequeueTrack, StopWorkers, ExitWorker,
       WorkerFault, CancelFault, BeatFault, Fault, Crash
<1>2. ASSUME NEW j \in Jobs PROVE status'[j] # "gone"
  <2>0. status[j] # "gone"
    BY DEF Rows
  <2>1. ASSUME NEW S, NEW s \in {"queued", "printing", "completed", "failed"},
               NEW e, Update(S, s, e)
        PROVE  status'[j] # "gone"
    BY <2>0, <2>1 DEF Update
  <2>2. ASSUME NEW w \in Workers, WorkerStep(w) PROVE status'[j] # "gone"
    <3>1. CASE MarkPrinting(w) \/ AbortCancelled(w) \/ FinishOk(w)
                 \/ FinishBad(w) \/ ExecuteException(w) \/ RetryAttempt(w)
      BY <2>1, <3>1 DEF MarkPrinting, AbortCancelled, FinishOk, FinishBad,
         ExecuteException, RetryAttempt
    <3> QED
      BY <2>0, <2>2, <3>1 DEF dbVars, WorkerStep, Get, Discard,
         SkipCancelled, NotCancelled, LoadJob, Recheck, CopyFile, SubmitPrint,
         PollResult, PollCancelled, PollTimeout, RemoveFile
  <2>3. ASSUME NEW c \in Clients, ClientRequest(c) \/ ClientStep(c)
        PROVE  status'[j] # "gone"
    <3>1. CASE WriteCancelled(c)
      BY <2>1, <3>1 DEF WriteCancelled
    <3> QED
      BY <2>0, <2>3, <3>1 DEF dbVars, ClientRequest, ClientStep, AddJob,
         RetryJob, CancelJob, CancelAllQueued, StartCancel, Put, Track,
         MarkCancelled
  <2>4. ASSUME NEW t \in Slots, PoolStep(t) PROVE status'[j] # "gone"
    BY <2>0, <2>4 DEF dbVars, PoolStep, StartPrint, FinishPrint
  <2>5. ASSUME NEW h \in Beats, BeatStep(h) PROVE status'[j] # "gone"
    <3>1. ASSUME NEW k \in Jobs, Requeue(h, k) PROVE status'[j] # "gone"
      BY <2>1, <3>1 DEF Requeue
    <3> QED
      BY <1>0, <2>0, <2>5, <3>1 DEF dbVars, BeatStep, Cleanup, ListStuck,
         Snapshot, RequeuePut, RequeueTrack
  <2>6. CASE Environment
    <3>1. ASSUME NEW w \in Workers, WorkerFault(w) PROVE status'[j] # "gone"
      BY <2>0, <2>1, <3>1 DEF dbVars, WorkerFault, PendingWrite
    <3> QED
      BY <1>0, <2>0, <2>6, <3>1 DEF dbVars, Environment, GetOlder,
         StopWorkers, ExitWorker, CancelFault, BeatFault, Crash
  <2>7. CASE UNCHANGED vars
    BY <2>0, <2>7 DEF vars, dbVars
  <2> QED BY <2>2, <2>3, <2>4, <2>5, <2>6, <2>7 DEF Next
<1> QED BY <1>1, <1>2 DEF Rows

\* The head of a queue is one of its jobs.
LEMMA HeadHas ==
  ASSUME NEW q \in Seq(Jobs), q # <<>>
  PROVE  Head(q) \in Jobs /\ Has(q, Head(q))
BY DEF Has

\* A cancel handler writes nothing but 'failed'.
LEMMA SaysFailed == \A l : "failed" \in Says(l)
BY DEF Says

\* What the worker that moves makes of its own row.
LEMMA StagesWorker ==
  ASSUME TypeInv, Rows, Stages, NEW w \in Workers, WorkerStep(w)
  PROVE  wjob'[w] # NoJob => status'[wjob'[w]] \in Says(wpc'[w])
<1> USE DEF TypeInv, TypeOK, DbTypeOK, WorkerTypeOK
<1>0. ASSUME wjob[w] # NoJob
      PROVE  /\ wjob[w] \in Jobs
             /\ status[wjob[w]] \in Says(wpc[w])
             /\ status[wjob[w]] \in {"queued", "printing", "completed", "failed"}
  <2>1. wjob[w] \in Jobs /\ status[wjob[w]] \in Says(wpc[w])
    BY <1>0 DEF Stages
  <2>2. Says(wpc[w]) \subseteq {"queued", "printing", "completed", "failed"}
    BY DEF Says
  <2> QED BY <2>1, <2>2
<1>1. ASSUME wjob[w] # NoJob, NEW s \in {"queued", "printing", "completed", "failed"},
             NEW e, Update({wjob[w]}, s, e)
      PROVE  status'[wjob[w]] = s
  BY <1>0, <1>1 DEF Update, Row
<1>2. CASE Get(w)
  <2>1. queue # <<>> /\ Head(queue) \in Jobs /\ Has(queue, Head(queue))
    BY <1>2, HeadHas DEF Get, MemoryTypeOK
  <2>2. wjob'[w] = Head(queue) /\ wpc'[w] = "discard" /\ status' = status
    BY <1>2 DEF Get, Goto, dbVars
  <2> QED BY <2>1, <2>2 DEF Stages, Says
<1>3. ASSUME wjob[w] # NoJob, wjob' = wjob, status' = status, NEW l, Goto(w, l),
             Says(wpc[w]) \subseteq Says(l)
      PROVE  status'[wjob'[w]] \in Says(wpc'[w])
  BY <1>0, <1>3 DEF Goto
<1>4. CASE Discard(w) \/ NotCancelled(w)
  BY <1>3, <1>4 DEF Discard, NotCancelled, dbVars, Says
<1>5. CASE Drop(w)
  BY <1>5 DEF Drop
<1>6. CASE LoadJob(w)
  BY <1>3, <1>5, <1>6 DEF LoadJob, dbVars, Says
<1>7. CASE MarkPrinting(w)
  <2>1. wpc'[w] = "recheck" /\ wjob' = wjob /\ wjob[w] # NoJob
    BY <1>7 DEF MarkPrinting, Goto
  <2>2. status'[wjob[w]] = "printing"
    BY <1>1, <1>7, <2>1 DEF MarkPrinting
  <2> QED BY <2>1, <2>2 DEF Says
<1>8. CASE Recheck(w)
  BY <1>3, <1>8 DEF Recheck, dbVars, Says
<1>9. CASE CopyFile(w)
  BY <1>3, <1>9 DEF CopyFile, dbVars, Says
<1>10. CASE SubmitPrint(w)
  BY <1>3, <1>10 DEF SubmitPrint, dbVars, Says
<1>11. CASE PollResult(w) \/ PollTimeout(w)
  BY <1>3, <1>11 DEF PollResult, PollTimeout, dbVars, Says
<1>12. CASE FinishOk(w)
  <2>1. wpc'[w] = "remove" /\ wjob' = wjob /\ wjob[w] # NoJob
    BY <1>12 DEF FinishOk, Goto
  <2>2. status'[wjob[w]] = "completed"
    BY <1>1, <1>12, <2>1 DEF FinishOk
  <2> QED BY <2>1, <2>2 DEF Says
<1>13. CASE FinishBad(w) \/ ExecuteException(w)
  <2>1. DropOrRetry(w) /\ wjob[w] # NoJob
    BY <1>13 DEF FinishBad, ExecuteException
  <2>2. status'[wjob[w]] = "failed"
    BY <1>1, <1>13, <2>1 DEF FinishBad, ExecuteException
  <2>3. CASE Goto(w, "retry") /\ wjob' = wjob
    BY <2>2, <2>3 DEF Goto, Says
  <2> QED BY <1>5, <2>1, <2>3 DEF DropOrRetry
<1>14. CASE RetryAttempt(w)
  <2>1. wpc'[w] = "load" /\ wjob' = wjob /\ wjob[w] # NoJob
    BY <1>14 DEF RetryAttempt, Goto
  <2>2. status'[wjob[w]] = "queued"
    BY <1>1, <1>14, <2>1 DEF RetryAttempt
  <2> QED BY <2>1, <2>2 DEF Says
<1> QED
  BY <1>2, <1>4, <1>5, <1>6, <1>7, <1>8, <1>9, <1>10, <1>11, <1>12, <1>13,
     <1>14 DEF WorkerStep, SkipCancelled, AbortCancelled, PollCancelled,
     RemoveFile

\* At boot there are no rows.
LEMMA StagesInit == AgeLimit = 0 /\ Init => Stages
<1> SUFFICES ASSUME Init PROVE Stages
  OBVIOUS
<1>1. \A j \in Jobs : ~Has(queue, j)
  BY HasEmpty DEF Init
<1>2. \A c \in Clients : Incoming(c) = {}
  BY DEF Init, Incoming
<1> QED BY <1>1, <1>2 DEF Init, Stages, Rows

\* Every step keeps the rows to what their jobs' places say.
LEMMA StagesNext ==
  ASSUME AgeLimit = 0, TypeInv, AllKnown, OneOwner, Stages, [Next]_vars
  PROVE  Stages'
<1> USE DEF TypeInv, TypeOK
<1>r. Rows /\ Rows'
  BY NeverOlder DEF Stages
<1>0. ASSUME \A j \in Jobs : Has(queue', j) => Has(queue, j),
             \A c \in Clients : Incoming(c)' \subseteq Incoming(c),
             \A w \in Workers :
                /\ wjob'[w] \in {wjob[w], NoJob}
                /\ wjob'[w] # NoJob => Says(wpc[w]) \subseteq Says(wpc'[w]),
             \A j \in Jobs : status'[j] \in {status[j], "failed"}
      PROVE  Stages'
  <2>1. \A j \in Jobs : Has(queue', j) => status'[j] \in {"queued", "failed"}
    BY <1>0 DEF Stages
  <2>2. \A c \in Clients : \A j \in Incoming(c)' : status'[j] \in {"queued", "failed"}
    <3>1. \A c \in Clients : Incoming(c) \subseteq Jobs
      BY DEF Incoming, ClientTypeOK
    <3> QED BY <1>0, <3>1 DEF Stages
  <2>3. \A w \in Workers : wjob'[w] # NoJob => status'[wjob'[w]] \in Says(wpc'[w])
    <3>1. TAKE w \in Workers
    <3>2. HAVE wjob'[w] # NoJob
    <3>3. /\ wjob'[w] = wjob[w] /\ wjob[w] \in Jobs
          /\ Says(wpc[w]) \subseteq Says(wpc'[w])
          /\ status'[wjob[w]] \in {status[wjob[w]], "failed"}
      BY <1>0, <3>2 DEF WorkerTypeOK
    <3>4. status[wjob[w]] \in Says(wpc[w])
      BY <3>2, <3>3 DEF Stages
    <3> QED BY <3>3, <3>4, SaysFailed
  <2> QED BY <1>r, <2>1, <2>2, <2>3 DEF Stages, Has
<1>1. ASSUME NEW w \in Workers, WorkerStep(w) PROVE Stages'
  <2>1. /\ UNCHANGED clientVars
        /\ \A v \in Workers : v # w => wjob'[v] = wjob[v] /\ wpc'[v] = wpc[v]
        /\ \A j \in Jobs : j # wjob[w] => status'[j] = status[j]
    BY <1>1, WorkerFrame
  <2>2. wjob'[w] # NoJob => status'[wjob'[w]] \in Says(wpc'[w])
    BY <1>1, <1>r, StagesWorker
  <2>3. \A j \in Jobs : Has(queue', j) => status'[j] \in {"queued", "failed"}
    <3>1. CASE Get(w)
      <4>1. \A j \in Jobs : Has(queue', j) => Has(queue, j)
        BY <3>1, HasTail DEF Get, MemoryTypeOK
      <4> QED BY <3>1, <4>1 DEF Get, dbVars, Stages
    <3>2. CASE ~Get(w)
      <4>1. queue' = queue
        BY <1>1, <3>2, WorkerTakes
      <4>2. \A j \in Jobs : Has(queue, j) => j # wjob[w]
        BY ExclusiveIs DEF OneOwner
      <4> QED BY <2>1, <4>1, <4>2 DEF Stages
    <3> QED BY <3>1, <3>2
  <2>4. \A c \in Clients : \A j \in Incoming(c)' : status'[j] \in {"queued", "failed"}
    <3>1. \A c \in Clients : Incoming(c)' = Incoming(c) /\ Incoming(c) \subseteq Jobs
      BY <2>1 DEF clientVars, Incoming, ClientTypeOK
    <3>2. \A c \in Clients : \A j \in Incoming(c) : j # wjob[w]
      BY DEF OneOwner
    <3> QED BY <2>1, <3>1, <3>2 DEF Stages
  <2>5. \A v \in Workers : wjob'[v] # NoJob => status'[wjob'[v]] \in Says(wpc'[v])
    <3>1. ASSUME NEW v \in Workers, v # w, wjob[v] # NoJob
          PROVE  wjob[v] \in Jobs /\ wjob[v] # wjob[w]
      BY <3>1, ExclusiveIs DEF OneOwner, WorkerTypeOK
    <3> QED BY <2>1, <2>2, <3>1 DEF Stages
  <2> QED BY <1>r, <2>3, <2>4, <2>5 DEF Stages, Has
<1>2. ASSUME NEW c \in Clients, ClientRequest(c) \/ ClientStep(c) PROVE Stages'
  <2>1. wjob' = wjob /\ wpc' = wpc
    BY <1>2 DEF workerVars, ClientRequest, ClientStep, AddJob, RetryJob,
       CancelJob, CancelAllQueued, StartCancel, Put, Track, MarkCancelled,
       WriteCancelled
  <2>2. ASSUME NEW k \in Jobs, status[k] = "none", queue' = queue,
               cpc' = [cpc EXCEPT ![c] = "put"],
               target' = [target EXCEPT ![c] = {k}],
               status' = [status EXCEPT ![k] = "queued"]
        PROVE  Stages'
    <3>1. /\ ~Has(queue, k)
          /\ \A w \in Workers : wjob[w] # k
          /\ \A d \in Clients : k \notin target[d]
      BY <2>2, ConstantsAssumption DEF AllKnown, Known
    <3>2. /\ Incoming(c)' = {k}
          /\ \A d \in Clients : d # c => Incoming(d)' = Incoming(d)
          /\ \A d \in Clients : Incoming(d) \subseteq target[d] /\ Incoming(d) \subseteq Jobs
      BY <2>2 DEF Incoming, ClientTypeOK
    <3>3. status'[k] = "queued" /\ \A j \in Jobs : j # k => status'[j] = status[j]
      BY <2>2 DEF DbTypeOK
    <3>4. \A w \in Workers : wjob'[w] # NoJob => status'[wjob'[w]] \in Says(wpc'[w])
      BY <2>1, <3>1, <3>3 DEF Stages, WorkerTypeOK
    <3>5. \A j \in Jobs : Has(queue', j) => status'[j] \in {"queued", "failed"}
      BY <2>2, <3>1, <3>3 DEF Stages
    <3>6. ASSUME NEW d \in Clients, NEW j \in Incoming(d)'
          PROVE  status'[j] \in {"queued", "failed"}
      <4>1. CASE d = c
        BY <3>2, <3>3, <3>6, <4>1
      <4>2. CASE d # c
        <5>1. j \in Incoming(d) /\ j \in Jobs /\ j # k
          BY <3>1, <3>2, <3>6, <4>2
        <5> QED BY <3>3, <5>1 DEF Stages
      <4> QED BY <4>1, <4>2
    <3> QED BY <1>r, <3>4, <3>5, <3>6 DEF Stages, Has
  <2>3. ASSUME NEW j \in Jobs, AddJob(c, j) PROVE Stages'
    BY <2>2, <2>3 DEF AddJob, memVars
  <2>4. ASSUME NEW j \in Jobs, NEW k \in Jobs, RetryJob(c, j, k) PROVE Stages'
    BY <2>2, <2>4 DEF RetryJob, memVars
  <2>5. CASE Put(c)
    <3>1. PICK j \in target[c] : queue' = Append(queue, j)
      BY <2>5 DEF Put
    <3>2. j \in Jobs /\ j \in Incoming(c) /\ status' = status
      BY <2>5, <3>1 DEF Put, Incoming, ClientTypeOK, dbVars
    <3>3. \A k \in Jobs : Has(queue', k) <=> Has(queue, k) \/ k = j
      BY <3>1, <3>2, HasAppend DEF MemoryTypeOK
    <3>4. \A d \in Clients : Incoming(d)' \subseteq Incoming(d)
      BY <2>5 DEF Put, Incoming, ClientTypeOK
    <3>5. \A k \in Jobs : Has(queue', k) => status'[k] \in {"queued", "failed"}
      BY <3>2, <3>3 DEF Stages
    <3>6. \A d \in Clients : \A k \in Incoming(d)' : status'[k] \in {"queued", "failed"}
      BY <3>2, <3>4 DEF Stages
    <3> QED BY <1>r, <2>1, <3>2, <3>5, <3>6 DEF Stages, Has
  <2>6. ASSUME UNCHANGED queue,
               \A d \in Clients : Incoming(d)' \subseteq Incoming(d),
               \A j \in Jobs : status'[j] \in {status[j], "failed"}
        PROVE  Stages'
    BY <1>0, <2>1, <2>6
  <2>7. CASE WriteCancelled(c)
    <3>1. \A j \in Jobs : status'[j] \in {status[j], "failed"}
      BY <2>7 DEF WriteCancelled, Update
    <3> QED
      BY <2>6, <2>7, <3>1 DEF WriteCancelled, memVars, Incoming, ClientTypeOK
  <2>8. CASE Track(c) \/ \E j \in Jobs : MarkCancelled(c, j)
    BY <2>6, <2>8 DEF Track, MarkCancelled, memVars, dbVars, Incoming, ClientTypeOK
  <2>9. CASE CancelAllQueued(c) \/ \E j \in Jobs : CancelJob(c, j)
    BY <2>6, <2>9 DEF CancelAllQueued, CancelJob, StartCancel, memVars,
       dbVars, Incoming, ClientTypeOK
  <2> QED
    BY <1>2, <2>3, <2>4, <2>5, <2>7, <2>8, <2>9 DEF ClientRequest, ClientStep
<1>3. ASSUME NEW t \in Slots, PoolStep(t) PROVE Stages'
  BY <1>0, <1>3 DEF Incoming, memVars, dbVars, workerVars, clientVars,
     PoolStep, StartPrint, FinishPrint
<1>4. ASSUME NEW h \in Beats, BeatStep(h) PROVE Stages'
  <2>1. hpc[h] \in {"idle", "list"}
    BY DEF OneOwner, NothingStuck
  <2>2. Cleanup(h) \/ ListStuck(h)
    BY <1>4, <2>1 DEF BeatStep, Snapshot, Requeue, RequeuePut, RequeueTrack
  <2>3. status' = status
    <3>1. Expired = {}
      BY <1>r, NothingExpired
    <3> QED BY <2>2, <3>1 DEF Cleanup, ListStuck, dbVars, DbTypeOK
  <2> QED
    BY <1>0, <2>2, <2>3 DEF Cleanup, ListStuck, memVars, workerVars,
       clientVars, Incoming
<1>5. CASE Environment
  <2>1. CASE Crash
    <3>1. Expired = {}
      BY <1>r, NothingExpired
    <3>2. status' = status
      BY <2>1, <3>1 DEF Crash, DbTypeOK
    <3>3. \A j : ~Has(queue', j)
      BY <2>1, HasEmpty DEF Crash
    <3> QED
      BY <1>0, <2>1, <3>2, <3>3 DEF Crash, Incoming
  <2>2. ASSUME NEW w \in Workers, WorkerFault(w) PROVE Stages'
    <3>1. queue' = queue /\ \A c \in Clients : Incoming(c)' \subseteq Incoming(c)
      BY <1>5, <2>2, QuietEnvironment DEF WorkerFault, Fault, Crash,
         clientVars, memVars, Incoming
    <3>2. /\ \A j \in Jobs : j # wjob[w] => status'[j] = status[j]
          /\ \A v \in Workers : v # w => wjob'[v] = wjob[v] /\ wpc'[v] = wpc[v]
      BY <2>2, ZenonT(40) DEF WorkerFault, PendingWrite, Update, dbVars, Drop, Goto,
         WorkerTypeOK
    <3>3. wjob'[w] # NoJob => status'[wjob'[w]] \in Says(wpc'[w])
      <4>1. CASE wpc[w] \in {"copy", "finish"}
        <5>1. wpc'[w] = "except" /\ wjob' = wjob
          BY <2>2, <4>1 DEF WorkerFault, Goto, WorkerTypeOK
        <5>2. status'[wjob[w]] \in {status[wjob[w]], "completed", "failed"}
          BY <2>2, <4>1, ZenonT(40) DEF WorkerFault, PendingWrite, Update, dbVars,
             WorkerTypeOK, DbTypeOK
        <5>3. wjob[w] # NoJob => status[wjob[w]] \in {"printing", "failed"}
          BY <4>1 DEF Stages, Says
        <5> QED BY <5>1, <5>2, <5>3 DEF Says
      <4>2. CASE wpc[w] \notin {"copy", "finish"}
        BY <2>2, <4>2 DEF WorkerFault, Drop, WorkerTypeOK
      <4> QED BY <4>1, <4>2
    <3>4. \A j \in Jobs : Has(queue, j) => j # wjob[w]
      BY ExclusiveIs DEF OneOwner
    <3>5. \A c \in Clients : \A j \in Incoming(c) : j \in Jobs /\ j # wjob[w]
      BY DEF OneOwner, Incoming, ClientTypeOK
    <3>6. \A j \in Jobs : Has(queue', j) => status'[j] \in {"queued", "failed"}
      BY <3>1, <3>2, <3>4 DEF Stages
    <3>7. \A c \in Clients : \A j \in Incoming(c)' : status'[j] \in {"queued", "failed"}
      BY <3>1, <3>2, <3>5 DEF Stages
    <3>8. \A v \in Workers : wjob'[v] # NoJob => status'[wjob'[v]] \in Says(wpc'[v])
      <4>1. ASSUME NEW v \in Workers, v # w, wjob[v] # NoJob
            PROVE  wjob[v] \in Jobs /\ wjob[v] # wjob[w]
        BY <4>1, ExclusiveIs DEF OneOwner, WorkerTypeOK
      <4> QED BY <3>2, <3>3, <4>1 DEF Stages
    <3> QED BY <1>r, <3>6, <3>7, <3>8 DEF Stages, Has
  <2>3. CASE \/ \E w \in Workers : ExitWorker(w)
             \/ \E j \in Jobs : GetOlder(j)
             \/ StopWorkers
             \/ \E c \in Clients : CancelFault(c)
             \/ \E h \in Beats : BeatFault(h)
    <3>1. status' = status /\ queue' = queue /\ wjob' = wjob
      BY <2>3 DEF ExitWorker, GetOlder, StopWorkers, CancelFault, BeatFault,
         Fault, dbVars, memVars, workerVars
    <3>2. \A c \in Clients : Incoming(c)' \subseteq Incoming(c)
      BY <2>3 DEF ExitWorker, GetOlder, StopWorkers, CancelFault, BeatFault,
         Incoming, clientVars, ClientTypeOK
    <3>3. \A w \in Workers : wjob[w] # NoJob => wpc'[w] = wpc[w]
      BY <2>3 DEF ExitWorker, GetOlder, StopWorkers, CancelFault, BeatFault,
         workerVars, WorkerTypeOK, Goto
    <3> QED BY <1>0, <3>1, <3>2, <3>3
  <2> QED BY <1>5, <2>1, <2>2, <2>3 DEF Environment
<1>6. CASE UNCHANGED vars
  BY <1>0, <1>6 DEF vars, memVars, dbVars, workerVars, clientVars, Incoming
<1> QED BY <1>1, <1>2, <1>3, <1>4, <1>5, <1>6 DEF Next

-----------------------------------------------------------------------------
(* How often the engine is started for a job. *)

\* The attempt the worker is at has not had the engine started yet.
Fresh(w) ==
    \/ wpc[w] \in {"discard", "check", "load", "mark", "recheck", "abort",
                   "copy", "submit"}
    \/ w \in pending

\* A job nobody has taken up was never printed; the engine was started for a
\* worker's job once per attempt so far, the current one counted when it is.
RunsInv ==
    /\ BoundedRuns
    /\ \A j \in Jobs : ~Known(j) => runs[j] = 0
    /\ \A j \in Jobs : Has(queue, j) => runs[j] = 0
    /\ \A c \in Clients : \A j \in Incoming(c) : runs[j] = 0
    /\ \A w \in Workers : wjob[w] # NoJob =>
          /\ runs[wjob[w]] <= attempt[w] + 1
          /\ Fresh(w) => runs[wjob[w]] <= attempt[w]

\* The counter goes up by one at most.
LEMMA SaturateBound == \A n \in Nat : Saturate(n) <= n + 1
BY ConstantsAssumption DEF Saturate

\* Nothing has run at boot.
LEMMA RunsInit == Init => RunsInv
<1> SUFFICES ASSUME Init PROVE RunsInv
  OBVIOUS
<1>1. BoundedRuns
  <2>1. 0 <= MaxRetries + 1
    BY ConstantsAssumption DEF ConstantsAssumption
  <2> QED BY <2>1 DEF Init, BoundedRuns
<1>2. \A j \in Jobs : ~Has(queue, j)
  BY HasEmpty DEF Init
<1>3. \A c \in Clients : Incoming(c) = {}
  BY DEF Init, Incoming
<1> QED BY <1>1, <1>2, <1>3 DEF Init, RunsInv

\* The worker that moves does not lose count.
LEMMA RunsWorker ==
  ASSUME TypeInv, PoolInv, RunsInv, NEW w \in Workers, WorkerStep(w)
  PROVE  wjob'[w] # NoJob =>
            /\ runs[wjob'[w]] <= attempt'[w] + 1
            /\ Fresh(w)' => runs[wjob'[w]] <= attempt'[w]
<1> USE DEF TypeInv, TypeOK, WorkerTypeOK
<1> DEFINE Counted == wjob'[w] # NoJob =>
                         /\ runs[wjob'[w]] <= attempt'[w] + 1
                         /\ Fresh(w)' => runs[wjob'[w]] <= attempt'[w]
<1>1. CASE Get(w)
  <2>1. Head(queue) \in Jobs /\ Has(queue, Head(queue))
    BY <1>1, HeadHas DEF Get, MemoryTypeOK
  <2>2. runs[Head(queue)] = 0 /\ wjob'[w] = Head(queue) /\ attempt' = attempt
    BY <1>1, <2>1 DEF Get, RunsInv
  <2>3. attempt[w] \in Nat
    BY ConstantsAssumption
  <2> QED BY ONLY <2>2, <2>3
<1>2. ASSUME wjob'[w] # NoJob => /\ wjob'[w] = wjob[w]
                                 /\ attempt'[w] = attempt[w]
                                 /\ Fresh(w)' => Fresh(w)
      PROVE  Counted
  BY <1>2 DEF RunsInv
<1>3. CASE Drop(w)
  BY <1>3 DEF Drop
<1>4. CASE Discard(w) \/ NotCancelled(w) \/ MarkPrinting(w) \/ Recheck(w)
  BY <1>2, <1>4 DEF Discard, NotCancelled, MarkPrinting, Recheck, Goto, Fresh
<1>5. CASE LoadJob(w)
  <2>1. CASE Goto(w, "mark") /\ UNCHANGED <<wjob, attempt, result>>
    BY <1>2, <1>5, <2>1 DEF LoadJob, Goto, Fresh
  <2> QED BY <1>3, <1>5, <2>1 DEF LoadJob
<1>6. CASE CopyFile(w) \/ SubmitPrint(w)
  BY <1>2, <1>6 DEF CopyFile, SubmitPrint, Goto, Fresh
<1>7. CASE PollResult(w) \/ PollTimeout(w) \/ FinishOk(w)
  BY <1>2, <1>7 DEF PollResult, PollTimeout, FinishOk, Goto, Fresh, poolVars
<1>8. CASE FinishBad(w) \/ ExecuteException(w)
  <2>1. DropOrRetry(w) /\ pending' \subseteq pending
    BY <1>8 DEF FinishBad, ExecuteException, DeleteCopy, poolVars
  <2>2. CASE Goto(w, "retry") /\ UNCHANGED <<wjob, attempt, result>>
    BY <1>2, <2>1, <2>2 DEF Goto, Fresh
  <2> QED BY <1>3, <2>1, <2>2 DEF DropOrRetry
<1>9. CASE RetryAttempt(w)
  <2>1. /\ wjob' = wjob
        /\ attempt'[w] = attempt[w] + 1
        /\ wjob[w] # NoJob => wjob[w] \in Jobs /\ runs[wjob[w]] <= attempt[w] + 1
    BY <1>9 DEF RetryAttempt, RunsInv
  <2>2. attempt[w] \in Nat
    BY ConstantsAssumption
  <2>3. wjob[w] \in Jobs => runs[wjob[w]] \in Nat
    BY ConstantsAssumption DEF HistoryTypeOK
  <2> QED BY ONLY <2>1, <2>2, <2>3
<1> QED
  BY <1>1, <1>3, <1>4, <1>5, <1>6, <1>7, <1>8, <1>9 DEF WorkerStep,
     SkipCancelled, AbortCancelled, PollCancelled, RemoveFile

\* Every step keeps count: a future is started once, and only the job of the
\* worker that submitted it is printed.
LEMMA RunsNext ==
  ASSUME AgeLimit = 0, TypeInv, AllKnown, PoolInv, OneOwner, RunsInv, [Next]_vars
  PROVE  RunsInv'
<1> USE DEF TypeInv, TypeOK
<1>k. \A j \in Jobs : Known(j) => Known(j)'
  BY KnownForever
<1>0. ASSUME runs' = runs,
             \A j \in Jobs : Has(queue', j) => Has(queue, j),
             \A c \in Clients : Incoming(c)' \subseteq Incoming(c),
             \A w \in Workers : wjob'[w] # NoJob =>
                /\ runs[wjob'[w]] <= attempt'[w] + 1
                /\ Fresh(w)' => runs[wjob'[w]] <= attempt'[w]
      PROVE  RunsInv'
  <2>1. \A c \in Clients : \A j \in Incoming(c)' : runs'[j] = 0
    BY <1>0 DEF RunsInv
  <2>2. \A j \in Jobs : Has(queue', j) => runs'[j] = 0
    BY <1>0 DEF RunsInv
  <2>3. BoundedRuns'
    BY <1>0 DEF RunsInv, BoundedRuns
  <2>4. \A j \in Jobs : ~Known(j)' => runs'[j] = 0
    BY <1>0, <1>k DEF RunsInv
  <2> QED BY <1>0, <2>1, <2>2, <2>3, <2>4 DEF RunsInv, Has
<1>w. ASSUME \A w \in Workers :
                /\ wjob'[w] \in {wjob[w], NoJob}
                /\ wjob'[w] # NoJob => /\ attempt'[w] = attempt[w]
                                       /\ Fresh(w)' => Fresh(w)
      PROVE  \A w \in Workers : wjob'[w] # NoJob =>
                /\ runs[wjob'[w]] <= attempt'[w] + 1
                /\ Fresh(w)' => runs[wjob'[w]] <= attempt'[w]
  BY <1>w DEF RunsInv
<1>1. ASSUME NEW w \in Workers, WorkerStep(w) PROVE RunsInv'
  <2>1. /\ UNCHANGED <<clientVars, runs>>
        /\ \A v \in Workers : v # w =>
              wjob'[v] = wjob[v] /\ wpc'[v] = wpc[v] /\ attempt'[v] = attempt[v]
    BY <1>1, WorkerFrame
  <2>2. \A v \in Workers : v # w => (v \in pending' <=> v \in pending)
    BY <1>1 DEF poolVars, DeleteCopy, WorkerStep, Get, Discard,
       SkipCancelled, NotCancelled, LoadJob, MarkPrinting, Recheck,
       AbortCancelled, CopyFile, SubmitPrint, PollResult, PollCancelled,
       PollTimeout, FinishOk, RemoveFile, FinishBad, ExecuteException,
       RetryAttempt
  <2>3. wjob'[w] # NoJob =>
           /\ runs[wjob'[w]] <= attempt'[w] + 1
           /\ Fresh(w)' => runs[wjob'[w]] <= attempt'[w]
    BY <1>1, RunsWorker
  <2>4. \A v \in Workers : wjob'[v] # NoJob =>
           /\ runs[wjob'[v]] <= attempt'[v] + 1
           /\ Fresh(v)' => runs[wjob'[v]] <= attempt'[v]
    <3>1. ASSUME NEW v \in Workers, v # w PROVE Fresh(v)' => Fresh(v)
      BY <2>1, <2>2, <3>1 DEF Fresh
    <3> QED BY <2>1, <2>3, <3>1 DEF RunsInv
  <2>5. \A j \in Jobs : Has(queue', j) => Has(queue, j)
    <3>1. CASE Get(w)
      BY <3>1, HasTail DEF Get, MemoryTypeOK
    <3>2. CASE ~Get(w)
      BY <1>1, <3>2, WorkerTakes
    <3> QED BY <3>1, <3>2
  <2>6. \A c \in Clients : Incoming(c)' = Incoming(c)
    BY <2>1 DEF clientVars, Incoming
  <2> QED BY <1>0, <2>1, <2>4, <2>5, <2>6
<1>2. ASSUME NEW c \in Clients, ClientRequest(c) \/ ClientStep(c) PROVE RunsInv'
  <2>1. UNCHANGED <<workerVars, pending, runs>>
    BY <1>2 DEF poolVars, histVars, ClientRequest, ClientStep, AddJob,
       RetryJob, CancelJob, CancelAllQueued, StartCancel, Put, Track,
       MarkCancelled, WriteCancelled
  <2>2. \A w \in Workers : wjob'[w] # NoJob =>
           /\ runs[wjob'[w]] <= attempt'[w] + 1
           /\ Fresh(w)' => runs[wjob'[w]] <= attempt'[w]
    BY <2>1, <1>w DEF workerVars, Fresh
  <2>3. \A d \in Clients : \A j \in Incoming(d)' : j \in Jobs /\ runs[j] = 0
    <3>1. ASSUME NEW k \in Jobs, status[k] = "none",
                 cpc' = [cpc EXCEPT ![c] = "put"],
                 target' = [target EXCEPT ![c] = {k}]
          PROVE  \A d \in Clients : \A j \in Incoming(d)' : j \in Jobs /\ runs[j] = 0
      <4>1. runs[k] = 0
        BY <3>1 DEF RunsInv, Known
      <4>2. \A d \in Clients : Incoming(d)' \in {Incoming(d), {k}} /\ Incoming(d) \subseteq Jobs
        BY <3>1 DEF Incoming, ClientTypeOK
      <4> QED BY <4>1, <4>2 DEF RunsInv
    <3>2. ASSUME NEW j \in Jobs, AddJob(c, j)
          PROVE  \A d \in Clients : \A i \in Incoming(d)' : i \in Jobs /\ runs[i] = 0
      BY <3>1, <3>2 DEF AddJob
    <3>3. ASSUME NEW j \in Jobs, NEW k \in Jobs, RetryJob(c, j, k)
          PROVE  \A d \in Clients : \A i \in Incoming(d)' : i \in Jobs /\ runs[i] = 0
      BY <3>1, <3>3 DEF RetryJob
    <3>4. CASE \A d \in Clients : Incoming(d)' \subseteq Incoming(d)
      BY <3>4 DEF RunsInv, Incoming, ClientTypeOK
    <3>5. CASE \/ CancelAllQueued(c) \/ \E j \in Jobs : CancelJob(c, j)
      <4>1. \A d \in Clients : Incoming(d)' \subseteq Incoming(d)
        BY <3>5 DEF CancelAllQueued, CancelJob, StartCancel, Incoming, ClientTypeOK
      <4> QED BY <3>4, <4>1
    <3>6. CASE ClientStep(c)
      <4>1. \A d \in Clients : Incoming(d)' \subseteq Incoming(d)
        BY <3>6 DEF ClientStep, Put, Track, MarkCancelled, WriteCancelled,
           Incoming, ClientTypeOK
      <4> QED BY <3>4, <4>1
    <3> QED BY <1>2, <3>2, <3>3, <3>5, <3>6 DEF ClientRequest
  <2>4. \A j \in Jobs : Has(queue', j) => runs[j] = 0
    <3>1. CASE Put(c)
      <4>1. PICK j \in target[c] : queue' = Append(queue, j)
        BY <3>1 DEF Put
      <4>2. j \in Jobs /\ j \in Incoming(c)
        BY <3>1, <4>1 DEF Put, Incoming, ClientTypeOK
      <4>3. \A k \in Jobs : Has(queue', k) <=> Has(queue, k) \/ k = j
        BY <4>1, <4>2, HasAppend DEF MemoryTypeOK
      <4> QED BY <4>2, <4>3 DEF RunsInv
    <3>2. CASE ~Put(c)
      <4>1. queue' = queue
        BY <1>2, <3>2 DEF memVars, ClientRequest, ClientStep, AddJob,
           RetryJob, CancelJob, CancelAllQueued, StartCancel, Track,
           MarkCancelled, WriteCancelled
      <4> QED BY <4>1 DEF RunsInv
    <3> QED BY <3>1, <3>2
  <2>5. BoundedRuns'
    BY <2>1 DEF RunsInv, BoundedRuns
  <2>6. \A j \in Jobs : ~Known(j)' => runs[j] = 0
    BY <1>k DEF RunsInv
  <2> QED BY <2>1, <2>2, <2>3, <2>4, <2>5, <2>6 DEF RunsInv, Has
<1>3. ASSUME NEW t \in Slots, PoolStep(t) PROVE RunsInv'
  <2>1. UNCHANGED <<status, queue, wpc, wjob, attempt, cpc, target>>
    BY <1>3 DEF dbVars, memVars, workerVars, clientVars, PoolStep,
       StartPrint, FinishPrint
  <2>2. ASSUME NEW w \in Workers, StartPrint(t, w) PROVE RunsInv'
    <3>1. /\ w \in pending /\ w \notin pending'
          /\ \A v \in Workers : v # w => (v \in pending' <=> v \in pending)
          /\ runs' = [runs EXCEPT ![wjob[w]] = Saturate(@)]
      BY <2>2 DEF StartPrint
    <3>2. wpc[w] \in {"wait", "finish"}
      BY <3>1 DEF PoolInv, Waiting
    <3>3. wjob[w] # NoJob /\ wjob[w] \in Jobs /\ Fresh(w) /\ ~Fresh(w)'
      BY <2>1, <3>1, <3>2 DEF WorkerTypeOK, Fresh
    <3>4. /\ runs[wjob[w]] \in Nat
          /\ attempt[w] \in 0..MaxRetries
          /\ MaxRetries \in Nat
      BY <3>3, ConstantsAssumption DEF HistoryTypeOK, WorkerTypeOK
    <3>5. runs[wjob[w]] <= attempt[w]
      BY <3>3 DEF RunsInv
    <3>6. runs'[wjob[w]] = Saturate(runs[wjob[w]])
      BY <3>1, <3>3 DEF HistoryTypeOK
    <3>7. Saturate(runs[wjob[w]]) <= runs[wjob[w]] + 1
      BY <3>4, SaturateBound
    <3>8. Saturate(runs[wjob[w]]) \in Nat
      BY <3>4, ConstantsAssumption DEF Saturate
    <3>9. runs'[wjob[w]] <= attempt[w] + 1 /\ runs'[wjob[w]] <= MaxRetries + 1
      BY ONLY <3>4, <3>5, <3>6, <3>7, <3>8
    <3>10. \A j \in Jobs : j # wjob[w] => runs'[j] = runs[j]
      BY <3>1 DEF HistoryTypeOK
    <3>11. BoundedRuns'
      BY <3>9, <3>10 DEF RunsInv, BoundedRuns
    <3>12. \A j \in Jobs : ~Known(j) => runs'[j] = 0
      BY <3>3, <3>10 DEF RunsInv, AllKnown
    <3>13. \A j \in Jobs : Has(queue, j) => runs'[j] = 0
      <4>1. \A j \in Jobs : Has(queue, j) => j # wjob[w]
        BY ExclusiveIs DEF OneOwner
      <4> QED BY <3>10, <4>1 DEF RunsInv
    <3>14. \A c \in Clients : \A j \in Incoming(c) : runs'[j] = 0
      <4>1. \A c \in Clients : \A j \in Incoming(c) : j \in Jobs /\ j # wjob[w]
        BY DEF OneOwner, Incoming, ClientTypeOK
      <4> QED BY <3>10, <4>1 DEF RunsInv
    <3>15. ASSUME NEW v \in Workers, wjob[v] # NoJob
           PROVE  /\ runs'[wjob[v]] <= attempt[v] + 1
                  /\ Fresh(v)' => runs'[wjob[v]] <= attempt[v]
      <4>1. CASE v = w
        BY <3>3, <3>9, <4>1
      <4>2. CASE v # w
        <5>1. wjob[v] \in Jobs /\ wjob[v] # wjob[w]
          BY <3>15, <4>2, ExclusiveIs DEF OneOwner, WorkerTypeOK
        <5>2. Fresh(v)' => Fresh(v)
          BY <2>1, <3>1, <4>2 DEF Fresh
        <5> QED BY <3>10, <3>15, <5>1, <5>2 DEF RunsInv
      <4> QED BY <4>1, <4>2
    <3>16. \A j \in Jobs : ~Known(j)' => runs'[j] = 0
      BY <1>k, <3>12
    <3>17. \A j \in Jobs : Has(queue', j) => runs'[j] = 0
      BY <2>1, <3>13
    <3>18. \A c \in Clients : \A j \in Incoming(c)' : runs'[j] = 0
      BY <2>1, <3>14 DEF Incoming
    <3>19. \A v \in Workers : wjob'[v] # NoJob =>
              /\ runs'[wjob'[v]] <= attempt'[v] + 1
              /\ Fresh(v)' => runs'[wjob'[v]] <= attempt'[v]
      BY <2>1, <3>15
    <3> QED BY <3>11, <3>16, <3>17, <3>18, <3>19 DEF RunsInv, Has
  <2>3. ASSUME NEW o \in {"ok", "fail"}, FinishPrint(t, o) PROVE RunsInv'
    <3>1. pending' = pending /\ runs' = runs
      BY <2>3 DEF FinishPrint
    <3> QED BY <1>0, <1>w, <2>1, <3>1 DEF Fresh, Incoming
  <2> QED BY <1>3, <2>2, <2>3 DEF PoolStep
<1>4. ASSUME NEW h \in Beats, BeatStep(h) PROVE RunsInv'
  <2>1. hpc[h] \in {"idle", "list"}
    BY DEF OneOwner, NothingStuck
  <2>2. Cleanup(h) \/ ListStuck(h)
    BY <1>4, <2>1 DEF BeatStep, Snapshot, Requeue, RequeuePut, RequeueTrack
  <2>3. UNCHANGED <<queue, workerVars, clientVars, pending, runs>>
    BY <2>2 DEF Cleanup, ListStuck, memVars, poolVars, histVars
  <2> QED BY <1>0, <1>w, <2>3 DEF workerVars, clientVars, Fresh, Incoming
<1>5. CASE Environment
  <2>1. CASE Crash
    <3>1. \A j : ~Has(queue', j)
      BY <2>1, HasEmpty DEF Crash
    <3> QED BY <1>0, <2>1, <3>1 DEF Crash, Incoming
  <2>2. CASE ~Crash
    <3>1. /\ queue' = queue /\ runs' = runs
          /\ \A w \in Workers : wjob'[w] \in {wjob[w], NoJob}
          /\ \A c \in Clients : Incoming(c)' \subseteq Incoming(c)
      BY <1>5, <2>2, QuietEnvironment
    <3>2. \A w \in Workers : wjob'[w] # NoJob => attempt'[w] = attempt[w]
      BY <1>5, <2>2 DEF WorkerTypeOK, workerVars, Environment, GetOlder,
         StopWorkers, ExitWorker, WorkerFault, CancelFault, BeatFault, Drop
    <3>3. \A w \in Workers : wjob'[w] # NoJob => (Fresh(w)' => Fresh(w))
      <4>1. ASSUME NEW v \in Workers, WorkerFault(v), NEW w \in Workers, wjob'[w] # NoJob
            PROVE  Fresh(w)' => Fresh(w)
        BY <4>1 DEF WorkerFault, Drop, Goto, DeleteCopy, poolVars, Fresh,
           WorkerTypeOK
      <4>2. ASSUME NEW v \in Workers, ExitWorker(v), NEW w \in Workers
            PROVE  Fresh(w)' => Fresh(w)
        BY <4>2 DEF ExitWorker, Goto, poolVars, Fresh, WorkerTypeOK
      <4> QED
        BY <1>5, <2>2, <4>1, <4>2 DEF Environment, GetOlder, StopWorkers,
           CancelFault, BeatFault, workerVars, poolVars, Fresh
    <3> QED BY <1>0, <1>w, <3>1, <3>2, <3>3
  <2> QED BY <2>1, <2>2
<1>6. CASE UNCHANGED vars
  BY <1>0, <1>w, <1>6 DEF vars, memVars, workerVars, poolVars, clientVars,
     histVars, Fresh, Incoming
<1> QED BY <1>1, <1>2, <1>3, <1>4, <1>5, <1>6 DEF Next

\* While no job is five minutes old the engine is started for a job once per
\* attempt, and auto_retry_count bounds the attempts: no timeout, late answer
\* of a print nobody waits for, exception or crash starts it once more.
THEOREM RunsBounded ==
  ASSUME AgeLimit = 0
  PROVE  Spec => []BoundedRuns
<1>1. Init => OneOwner /\ RunsInv
  BY OneOwnerInit, RunsInit
<1>2. PrintInv /\ OneOwner /\ RunsInv /\ [Next]_vars => OneOwner' /\ RunsInv'
  BY OneOwnerNext, RunsNext DEF PrintInv
<1>3. RunsInv => BoundedRuns
  BY DEF RunsInv
<1> QED BY <1>1, <1>2, <1>3, PrintInvAlways, PTL DEF Spec

-----------------------------------------------------------------------------
(* Who will end a job that is not ended, and what becomes of a cancel. *)

\* A cancel handler has the job and its write still to come.
Cancelling(j) == \E c \in Clients : cpc[c] \in {"mark", "write"} /\ j \in target[c]

\* A marked job is cared for: a handler's write is to come, or its worker has
\* the second look at the marks ahead, or it was hit by a crash or exception.
Tended(j) ==
    \/ Cancelling(j)
    \/ j \in casualties
    \/ \E w \in Workers : wjob[w] = j /\ wpc[w] \in {"recheck", "abort"}

Open(j) == status[j] \in {"queued", "printing"}

Reported(j) == status[j] = "failed" /\ error[j] = "cancelled"

\* What a cancel handler goes through: it marks jobs it will write, and it is
\* the one job of an add_job that goes into the queue.
Handlers ==
    /\ \A j \in cancelledIds : Known(j)
    /\ \A c \in Clients : toMark[c] \subseteq target[c]
    /\ \A c \in Clients : toMark[c] # {} => cpc[c] = "mark"
    /\ \A c \in Clients : cpc[c] = "put" => \A j, k \in target[c] : j = k

\* A mark on a row that is not final was set by somebody who is not done.
MarkAnswered == \A j \in cancelledIds : Open(j) => Tended(j)

\* NoOrphan, in these terms.
InCharge ==
    \A j \in Jobs : Open(j) => ~Gone(j) \/ Cancelling(j) \/ j \in casualties

\* CancelReported, in these terms.
DoomedTended == \A j \in doomed : Tended(j) \/ Reported(j)

OrphanInv == Handlers /\ MarkAnswered /\ InCharge

\* The two ways to say that somebody has the job.
LEMMA OwnedIs ==
  ASSUME TypeInv, OneOwner, NEW j \in Jobs
  PROVE  Owned(j) <=> ~Gone(j) \/ Cancelling(j)
<1>1. \A h \in Beats : hpc[h] # "put"
  BY DEF OneOwner, NothingStuck
<1>2. \A c \in Clients : j \in Incoming(c) <=> cpc[c] = "put" /\ j \in target[c]
  BY DEF Incoming
<1>3. InQueue(j) <=> Has(queue, j)
  BY DEF InQueue, Has
<1>4. Cancelling(j) <=> \E c \in Clients :
         j \in target[c] /\ (cpc[c] = "mark" \/ cpc[c] = "write")
  BY DEF Cancelling
<1>5. Owned(j) <=> \/ Has(queue, j)
                   \/ \E w \in Workers : wjob[w] = j
                   \/ \E c \in Clients : j \in Incoming(c)
                   \/ Cancelling(j)
  BY <1>1, <1>2, <1>3, <1>4 DEF Owned
<1> QED BY <1>5 DEF Gone

\* The handlers keep to it.
LEMMA HandlersNext ==
  ASSUME TypeInv, AllKnown, Handlers, [Next]_vars
  PROVE  Handlers'
<1> USE DEF TypeInv, TypeOK
<1>k. \A j \in Jobs : Known(j) => Known(j)'
  BY KnownForever
<1>0. ASSUME cancelledIds' \subseteq cancelledIds, UNCHANGED clientVars
      PROVE  Handlers'
  BY <1>0, <1>k DEF clientVars, Handlers, MemoryTypeOK
<1>1. ASSUME NEW w \in Workers, WorkerStep(w) PROVE Handlers'
  <2>1. UNCHANGED clientVars
    BY <1>1, WorkerFrame
  <2>2. cancelledIds' \subseteq cancelledIds
    BY <1>1 DEF memVars, WorkerStep, Get, Discard, SkipCancelled,
       NotCancelled, LoadJob, MarkPrinting, Recheck, AbortCancelled,
       CopyFile, SubmitPrint, PollResult, PollCancelled, PollTimeout,
       FinishOk, RemoveFile, FinishBad, ExecuteException, RetryAttempt
  <2> QED BY <1>0, <2>1, <2>2
<1>2. ASSUME NEW c \in Clients, ClientRequest(c) \/ ClientStep(c) PROVE Handlers'
  <2>1. ASSUME NEW j \in Jobs, MarkCancelled(c, j) PROVE Handlers'
    <3>1. /\ cancelledIds' = cancelledIds \cup {j}
          /\ toMark' = [toMark EXCEPT ![c] = @ \ {j}]
          /\ cpc' = [cpc EXCEPT ![c] = IF toMark[c] = {j} THEN "write" ELSE "mark"]
          /\ target' = target
          /\ j \in target[c]
      BY <2>1 DEF MarkCancelled, Handlers
    <3>2. \A k \in cancelledIds' : k \in Jobs /\ Known(k)
      BY <3>1 DEF Handlers, AllKnown, MemoryTypeOK
    <3>3. \A d \in Clients : toMark'[d] \subseteq target'[d]
      BY <3>1 DEF Handlers, ClientTypeOK
    <3>4. \A d \in Clients : toMark'[d] # {} => cpc'[d] = "mark"
      BY <3>1 DEF Handlers, ClientTypeOK
    <3>5. \A d \in Clients : cpc'[d] = "put" => \A i, k \in target'[d] : i = k
      BY <3>1 DEF Handlers, ClientTypeOK
    <3> QED BY <1>k, <3>2, <3>3, <3>4, <3>5 DEF Handlers
  <2>2. CASE ~\E j \in Jobs : MarkCancelled(c, j)
    <3>1. cancelledIds' = cancelledIds
      BY <1>2, <2>2 DEF memVars, ClientRequest, ClientStep, AddJob, RetryJob,
         CancelJob, CancelAllQueued, StartCancel, Put, Track, WriteCancelled
    <3>2. ASSUME NEW S \in SUBSET Jobs, StartCancel(c, S)
          PROVE  Handlers'
      BY <1>k, <3>1, <3>2 DEF StartCancel, Handlers, ClientTypeOK, MemoryTypeOK
    <3>3. CASE CancelAllQueued(c) \/ \E j \in Jobs : CancelJob(c, j)
      BY <3>2, <3>3 DEF CancelAllQueued, CancelJob
    <3>4. CASE Put(c) \/ Track(c) \/ WriteCancelled(c)
      BY <1>k, <3>1, <3>4 DEF Put, Track, WriteCancelled, Handlers,
         ClientTypeOK, MemoryTypeOK
    <3>5. CASE (\E j \in Jobs : AddJob(c, j)) \/ \E j, k \in Jobs : RetryJob(c, j, k)
      <4>1. PICK k \in Jobs :
               /\ cpc[c] = "idle"
               /\ cpc' = [cpc EXCEPT ![c] = "put"]
               /\ target' = [target EXCEPT ![c] = {k}]
               /\ toMark' = toMark
        BY <3>5 DEF AddJob, RetryJob
      <4> QED
        BY <1>k, <3>1, <4>1 DEF Handlers, ClientTypeOK, MemoryTypeOK
    <3> QED BY <1>2, <2>2, <3>3, <3>4, <3>5 DEF ClientRequest, ClientStep
  <2> QED BY <2>1, <2>2
<1>3. ASSUME NEW t \in Slots, PoolStep(t) PROVE Handlers'
  BY <1>0, <1>3 DEF memVars, PoolStep, StartPrint, FinishPrint
<1>4. ASSUME NEW h \in Beats, BeatStep(h) PROVE Handlers'
  BY <1>0, <1>4 DEF memVars, BeatStep, Cleanup, ListStuck, Snapshot, Requeue,
     RequeuePut, RequeueTrack
<1>5. CASE Environment
  <2>1. CASE Crash
    BY <2>1 DEF Crash, Handlers
  <2>2. ASSUME NEW c \in Clients, CancelFault(c) PROVE Handlers'
    BY <1>k, <2>2 DEF CancelFault, Fault, memVars, Handlers, ClientTypeOK,
       MemoryTypeOK
  <2> QED
    BY <1>0, <1>5, <2>1, <2>2 DEF memVars, Environment, GetOlder,
       StopWorkers, ExitWorker, WorkerFault, BeatFault, Fault
<1>6. CASE UNCHANGED vars
  BY <1>0, <1>6 DEF vars, memVars
<1> QED BY <1>1, <1>2, <1>3, <1>4, <1>5, <1>6 DEF Next

\* A job that was added has a row.
LEMMA KnownRow ==
  ASSUME TypeInv, Rows, NEW j \in Jobs, Known(j)
  PROVE  Row(j) /\ status[j] \in {"queued", "printing", "completed", "failed"}
BY DEF TypeInv, TypeOK, DbTypeOK, Status, Terminal, Rows, Known, Row

\* A handler gets to its write, or it is cut short.
LEMMA CancellingNext ==
  ASSUME TypeInv, AllKnown, Rows, [Next]_vars, NEW j \in Jobs, Cancelling(j)
  PROVE  Cancelling(j)' \/ Reported(j)' \/ j \in casualties'
<1> USE DEF TypeInv, TypeOK
<1>0. PICK d \in Clients : cpc[d] \in {"mark", "write"} /\ j \in target[d]
  BY DEF Cancelling
<1>r. Row(j)
  BY <1>0, KnownRow DEF AllKnown
<1>s. ASSUME cpc'[d] \in {"mark", "write"}, target'[d] = target[d]
      PROVE  Cancelling(j)'
  BY <1>0, <1>s DEF Cancelling
<1>1. ASSUME NEW w \in Workers, WorkerStep(w) PROVE Cancelling(j)'
  BY <1>0, <1>1, <1>s, WorkerFrame DEF clientVars
<1>2. ASSUME NEW c \in Clients, ClientRequest(c) \/ ClientStep(c)
      PROVE  Cancelling(j)' \/ Reported(j)'
  <2>1. CASE c # d
    BY <1>0, <1>2, <1>s, <2>1 DEF ClientTypeOK, ClientRequest, ClientStep,
       AddJob, RetryJob, CancelJob, CancelAllQueued, StartCancel, Put, Track,
       MarkCancelled, WriteCancelled
  <2>2. CASE c = d /\ WriteCancelled(c)
    BY <1>0, <1>r, <2>2 DEF WriteCancelled, Update, Reported, Terminal
  <2>3. CASE c = d /\ ~WriteCancelled(c)
    <3>1. PICK i \in Jobs : MarkCancelled(c, i)
      BY <1>0, <1>2, <2>3 DEF ClientRequest, ClientStep, AddJob, RetryJob,
         CancelJob, CancelAllQueued, Put, Track
    <3> QED BY <1>0, <1>s, <2>3, <3>1 DEF MarkCancelled, ClientTypeOK
  <2> QED BY <2>1, <2>2, <2>3
<1>3. ASSUME NEW t \in Slots, PoolStep(t) PROVE Cancelling(j)'
  BY <1>0, <1>3, <1>s DEF clientVars, PoolStep, StartPrint, FinishPrint
<1>4. ASSUME NEW h \in Beats, BeatStep(h) PROVE Cancelling(j)'
  BY <1>0, <1>4, <1>s DEF clientVars, BeatStep, Cleanup, ListStuck,
     Snapshot, Requeue, RequeuePut, RequeueTrack
<1>5. CASE Environment
  <2>1. CASE Crash
    <3>1. Owned(j)
      BY <1>0 DEF Owned
    <3> QED BY <2>1, <3>1 DEF Crash
  <2>2. ASSUME NEW c \in Clients, CancelFault(c)
        PROVE  Cancelling(j)' \/ j \in casualties'
    <3>1. CASE c = d
      BY <1>0, <2>2, <3>1 DEF CancelFault, Fault
    <3>2. CASE c # d
      BY <1>0, <1>s, <2>2, <3>2 DEF CancelFault, ClientTypeOK
    <3> QED BY <3>1, <3>2
  <2> QED
    BY <1>0, <1>5, <1>s, <2>1, <2>2 DEF clientVars, Environment, GetOlder,
       StopWorkers, ExitWorker, WorkerFault, BeatFault
<1>6. CASE UNCHANGED vars
  BY <1>0, <1>6, <1>s DEF vars, clientVars
<1> QED BY <1>1, <1>2, <1>3, <1>4, <1>5, <1>6 DEF Next

\* No casualty is forgotten.
LEMMA CasualtiesGrow == [Next]_vars => casualties \subseteq casualties'
<1> SUFFICES ASSUME [Next]_vars PROVE casualties \subseteq casualties'
  OBVIOUS
<1>1. ASSUME NEW w \in Workers, WorkerStep(w) PROVE casualties' = casualties
  BY <1>1 DEF histVars, WorkerStep, Get, Discard, SkipCancelled,
     NotCancelled, LoadJob, MarkPrinting, Recheck, AbortCancelled, CopyFile,
     SubmitPrint, PollResult, PollCancelled, PollTimeout, FinishOk,
     RemoveFile, FinishBad, ExecuteException, RetryAttempt
<1>2. ASSUME NEW c \in Clients, ClientRequest(c) \/ ClientStep(c)
      PROVE  casualties' = casualties
  BY <1>2 DEF histVars, ClientRequest, ClientStep, AddJob, RetryJob,
     CancelJob, CancelAllQueued, StartCancel, Put, Track, MarkCancelled,
     WriteCancelled
<1>3. ASSUME NEW t \in Slots, PoolStep(t) PROVE casualties' = casualties
  BY <1>3 DEF histVars, PoolStep, StartPrint, FinishPrint
<1>4. ASSUME NEW h \in Beats, BeatStep(h) PROVE casualties' = casualties
  BY <1>4 DEF histVars, BeatStep, Cleanup, ListStuck, Snapshot, Requeue,
     RequeuePut, RequeueTrack
<1>5. CASE Environment
  BY <1>5 DEF histVars, Environment, GetOlder, StopWorkers, ExitWorker,
     WorkerFault, CancelFault, BeatFault, Fault, Crash
<1>6. CASE UNCHANGED vars
  BY <1>6 DEF vars, histVars
<1> QED BY <1>1, <1>2, <1>3, <1>4, <1>5, <1>6 DEF Next

\* Care for a marked job ends with the report, and a worker that looks again
\* goes on to print only a job that is not marked.
LEMMA TendedNext ==
  ASSUME TypeInv, AllKnown, Stages, [Next]_vars, NEW j \in Jobs, Tended(j)
  PROVE  Tended(j)' \/ Reported(j)' \/ (j \notin cancelledIds /\ ~Gone(j))
<1> USE DEF TypeInv, TypeOK, WorkerTypeOK
<1>1. CASE Cancelling(j) \/ j \in casualties
  <2>1. j \in casualties => j \in casualties'
    BY CasualtiesGrow
  <2>2. Rows
    BY DEF Stages
  <2> QED BY <1>1, <2>1, <2>2, CancellingNext DEF Tended
<1>2. CASE \E w \in Workers : wjob[w] = j /\ wpc[w] \in {"recheck", "abort"}
  <2>0. PICK w \in Workers : wjob[w] = j /\ wpc[w] \in {"recheck", "abort"}
    BY <1>2
  <2>s. ASSUME wjob'[w] = wjob[w], wpc'[w] \in {"recheck", "abort"}
        PROVE  Tended(j)'
    BY <2>0, <2>s DEF Tended
  <2>1. ASSUME NEW v \in Workers, WorkerStep(v)
        PROVE  Tended(j)' \/ Reported(j)' \/ (j \notin cancelledIds /\ ~Gone(j))
    <3>1. CASE v # w
      BY <2>0, <2>1, <2>s, <3>1, WorkerFrame
    <3>2. CASE v = w /\ Recheck(w)
      <4>1. ~Gone(j)
        BY <2>0 DEF Gone
      <4>2. CASE j \in cancelledIds
        BY <2>0, <2>s, <3>2, <4>2 DEF Recheck, Goto
      <4> QED BY <4>1, <4>2
    <3>3. CASE v = w /\ AbortCancelled(w)
      <4>1. status[j] # "none" /\ status[j] # "gone"
        BY <2>0, ConstantsAssumption DEF AllKnown, Known, Stages, Rows
      <4> QED
        BY <2>0, <3>3, <4>1 DEF AbortCancelled, Update, Row, Terminal, Reported
    <3> QED
      BY <2>0, <2>1, <3>1, <3>2, <3>3 DEF WorkerStep, Get, Discard,
         SkipCancelled, NotCancelled, LoadJob, MarkPrinting, CopyFile,
         SubmitPrint, PollResult, PollCancelled, PollTimeout, FinishOk,
         RemoveFile, FinishBad, ExecuteException, RetryAttempt
  <2>2. ASSUME NEW c \in Clients, ClientRequest(c) \/ ClientStep(c) PROVE Tended(j)'
    BY <2>0, <2>2, <2>s DEF workerVars, ClientRequest, ClientStep, AddJob,
       RetryJob, CancelJob, CancelAllQueued, StartCancel, Put, Track,
       MarkCancelled, WriteCancelled
  <2>3. ASSUME NEW t \in Slots, PoolStep(t) PROVE Tended(j)'
    BY <2>0, <2>3, <2>s DEF workerVars, PoolStep, StartPrint, FinishPrint
  <2>4. ASSUME NEW h \in Beats, BeatStep(h) PROVE Tended(j)'
    BY <2>0, <2>4, <2>s DEF workerVars, BeatStep, Cleanup, ListStuck,
       Snapshot, Requeue, RequeuePut, RequeueTrack
  <2>5. CASE Environment
    <3>1. CASE Crash
      <4>1. Owned(j)
        BY <2>0 DEF Owned
      <4> QED BY <3>1, <4>1 DEF Crash, Tended
    <3>2. ASSUME NEW v \in Workers, WorkerFault(v) PROVE Tended(j)'
      <4>1. CASE v = w
        BY <2>0, <3>2, <4>1 DEF WorkerFault, Fault, Tended
      <4>2. CASE v # w
        BY <2>0, <2>s, <3>2, <4>2 DEF WorkerFault, Goto, Drop
      <4> QED BY <4>1, <4>2
    <3>3. ASSUME NEW v \in Workers, ExitWorker(v) PROVE Tended(j)'
      BY <2>0, <2>s, <3>3 DEF ExitWorker, Goto
    <3> QED
      BY <2>0, <2>5, <2>s, <3>1, <3>2, <3>3 DEF workerVars, Environment,
         GetOlder, StopWorkers, CancelFault, BeatFault
  <2>6. CASE UNCHANGED vars
    BY <2>0, <2>6, <2>s DEF vars, workerVars
  <2> QED BY <2>1, <2>2, <2>3, <2>4, <2>5, <2>6 DEF Next
<1> QED BY <1>1, <1>2 DEF Tended

\* Without automatic retries no worker is about to retry.
LEMMA NeverRetries ==
  ASSUME MaxRetries = 0, TypeInv, NEW w \in Workers
  PROVE  wpc[w] # "retry"
<1>1. attempt[w] \in 0..MaxRetries
  BY DEF TypeInv, TypeOK, WorkerTypeOK
<1>2. MaxRetries = 0
  OBVIOUS
<1>3. wpc[w] = "retry" => attempt[w] < MaxRetries
  BY DEF TypeInv, AttemptLeft
<1> QED BY ONLY <1>1, <1>2, <1>3

\* Only recover_stuck_jobs writes rows in a beat.
LEMMA BeatRows ==
  ASSUME TypeInv, OneOwner, Rows, NEW h \in Beats, BeatStep(h)
  PROVE  UNCHANGED <<status, error, queue, cancelledIds, workerVars, clientVars>>
<1>1. hpc[h] \in {"idle", "list"}
  BY DEF OneOwner, NothingStuck
<1>2. Cleanup(h) \/ ListStuck(h)
  BY <1>1 DEF BeatStep, Snapshot, Requeue, RequeuePut, RequeueTrack
<1>3. Expired = {}
  BY NothingExpired
<1> QED
  BY <1>2, <1>3 DEF Cleanup, ListStuck, dbVars, memVars, TypeInv, TypeOK,
     DbTypeOK

\* A row that is final is opened again by a worker that starts on the job (a
\* cancel came in between), and that worker looks at the marks again.
LEMMA Reopened ==
  ASSUME MaxRetries = 0, TypeInv, AllKnown, OneOwner, Rows, [Next]_vars,
         NEW j \in Jobs, Known(j), ~Open(j), Open(j)'
  PROVE  Tended(j)'
<1> USE DEF TypeInv, TypeOK, WorkerTypeOK, DbTypeOK
<1>0. ASSUME status'[j] \in {status[j], "failed", "completed"} PROVE FALSE
  BY <1>0 DEF Open
<1>u. ASSUME NEW S, NEW s \in {"failed", "completed"}, NEW e, Update(S, s, e)
      PROVE  FALSE
  BY <1>0, <1>u DEF Update
<1>1. ASSUME NEW w \in Workers, WorkerStep(w) PROVE Tended(j)'
  <2>1. j = wjob[w]
    BY <1>0, <1>1, WorkerFrame
  <2>2. ~RetryAttempt(w)
    BY NeverRetries DEF RetryAttempt
  <2>3. CASE MarkPrinting(w)
    BY <2>1, <2>3 DEF MarkPrinting, Goto, Tended
  <2>4. CASE AbortCancelled(w) \/ FinishOk(w) \/ FinishBad(w) \/ ExecuteException(w)
    BY <1>u, <2>4 DEF AbortCancelled, FinishOk, FinishBad, ExecuteException
  <2> QED
    BY <1>0, <1>1, <2>2, <2>3, <2>4 DEF dbVars, WorkerStep, Get, Discard,
       SkipCancelled, NotCancelled, LoadJob, Recheck, CopyFile, SubmitPrint,
       PollResult, PollCancelled, PollTimeout, RemoveFile
<1>2. ASSUME NEW c \in Clients, ClientRequest(c) \/ ClientStep(c) PROVE FALSE
  <2>1. CASE WriteCancelled(c)
    BY <1>u, <2>1 DEF WriteCancelled
  <2>2. ASSUME NEW k \in Jobs, AddJob(c, k) PROVE FALSE
    BY <1>0, <2>2 DEF AddJob, Known
  <2>3. ASSUME NEW i \in Jobs, NEW k \in Jobs, RetryJob(c, i, k) PROVE FALSE
    BY <1>0, <2>3 DEF RetryJob, Known
  <2> QED
    BY <1>0, <1>2, <2>1, <2>2, <2>3 DEF dbVars, ClientRequest, ClientStep,
       CancelJob, CancelAllQueued, StartCancel, Put, Track, MarkCancelled
<1>3. ASSUME NEW t \in Slots, PoolStep(t) PROVE FALSE
  BY <1>0, <1>3 DEF dbVars, PoolStep, StartPrint, FinishPrint
<1>4. ASSUME NEW h \in Beats, BeatStep(h) PROVE FALSE
  BY <1>0, <1>4, BeatRows
<1>5. CASE Environment
  <2>1. ASSUME NEW w \in Workers, WorkerFault(w) PROVE Tended(j)'
    <3>1. wpc[w] # "retry"
      BY NeverRetries
    <3>2. wpc[w] = "mark" /\ wjob[w] = j
      BY <1>0, <2>1, <3>1, ZenonT(40) DEF WorkerFault, PendingWrite, Update, dbVars
    <3> QED BY <2>1, <3>2 DEF WorkerFault, Fault, Tended
  <2>2. CASE Crash
    <3>1. Expired = {}
      BY NothingExpired
    <3> QED BY <1>0, <2>2, <3>1 DEF Crash
  <2> QED
    BY <1>0, <1>5, <2>1, <2>2 DEF dbVars, Environment, GetOlder, StopWorkers,
       ExitWorker, CancelFault, BeatFault
<1>6. CASE UNCHANGED vars
  BY <1>0, <1>6 DEF vars, dbVars
<1> QED BY <1>1, <1>2, <1>3, <1>4, <1>5, <1>6 DEF Next

\* A mark is set by a handler that has its write to come.
LEMMA NewMark ==
  ASSUME TypeInv, Handlers, [Next]_vars, NEW j \in Jobs,
         \/ j \in cancelledIds' \ cancelledIds
         \/ j \in doomed' \ doomed
  PROVE  Cancelling(j)'
<1> USE DEF TypeInv, TypeOK
<1>1. ASSUME NEW c \in Clients, MarkCancelled(c, j) PROVE Cancelling(j)'
  <2>1. j \in target[c]
    BY <1>1 DEF MarkCancelled, Handlers
  <2>2. target' = target /\ cpc'[c] \in {"mark", "write"}
    BY <1>1 DEF MarkCancelled, ClientTypeOK
  <2> QED BY <2>1, <2>2 DEF Cancelling
<1>2. \E c \in Clients : MarkCancelled(c, j)
  <2>1. ASSUME NEW w \in Workers, WorkerStep(w)
        PROVE  cancelledIds' \subseteq cancelledIds /\ doomed' = doomed
    BY <2>1 DEF memVars, histVars, WorkerStep, Get, Discard, SkipCancelled,
       NotCancelled, LoadJob, MarkPrinting, Recheck, AbortCancelled,
       CopyFile, SubmitPrint, PollResult, PollCancelled, PollTimeout,
       FinishOk, RemoveFile, FinishBad, ExecuteException, RetryAttempt
  <2>2. ASSUME NEW c \in Clients, ClientRequest(c) \/ ClientStep(c)
        PROVE  \E d \in Clients : MarkCancelled(d, j)
    <3>1. PICK i \in Jobs : MarkCancelled(c, i)
      BY <2>2 DEF memVars, histVars, ClientRequest, ClientStep, AddJob,
         RetryJob, CancelJob, CancelAllQueued, StartCancel, Put, Track,
         WriteCancelled
    <3>2. i = j
      BY <3>1 DEF MarkCancelled
    <3> QED BY <3>1, <3>2
  <2>3. ASSUME NEW t \in Slots, PoolStep(t)
        PROVE  cancelledIds' = cancelledIds /\ doomed' = doomed
    BY <2>3 DEF memVars, histVars, PoolStep, StartPrint, FinishPrint
  <2>4. ASSUME NEW h \in Beats, BeatStep(h)
        PROVE  cancelledIds' = cancelledIds /\ doomed' = doomed
    BY <2>4 DEF memVars, histVars, BeatStep, Cleanup, ListStuck, Snapshot,
       Requeue, RequeuePut, RequeueTrack
  <2>5. CASE Environment
    BY <2>5 DEF memVars, histVars, Environment, GetOlder, StopWorkers,
       ExitWorker, WorkerFault, CancelFault, BeatFault, Fault, Crash
  <2>6. CASE UNCHANGED vars
    BY <2>6 DEF vars, memVars, histVars
  <2> QED BY <2>1, <2>2, <2>3, <2>4, <2>5, <2>6 DEF Next
<1> QED BY <1>1, <1>2

\* Who lets go of a job leaves a final row, or saw the mark, or was hit by an
\* exception or a crash.
LEMMA LetGo ==
  ASSUME TypeInv, AllKnown, OneOwner, Stages, Handlers, [Next]_vars,
         NEW j \in Jobs, ~Gone(j), Gone(j)'
  PROVE  \/ ~Open(j)'
         \/ /\ j \in cancelledIds
            /\ \A w \in Workers : wjob[w] = j => wpc[w] \notin {"recheck", "abort"}
         \/ j \in casualties'
<1> USE DEF TypeInv, TypeOK, WorkerTypeOK
<1>0. ASSUME UNCHANGED <<queue, wjob>>,
             \A c \in Clients : Incoming(c) \subseteq Incoming(c)'
      PROVE  FALSE
  BY <1>0 DEF Gone, Has
<1>g. /\ ~Has(queue', j)
      /\ \A w \in Workers : wjob'[w] # j
      /\ \A c \in Clients : j \notin Incoming(c)'
  BY DEF Gone, Has
<1>1. ASSUME NEW w \in Workers, WorkerStep(w)
      PROVE  \/ ~Open(j)'
             \/ /\ j \in cancelledIds
                /\ \A v \in Workers : wjob[v] = j => wpc[v] \notin {"recheck", "abort"}
  <2>1. /\ \A c \in Clients : Incoming(c)' = Incoming(c)
        /\ \A v \in Workers : v # w => wjob'[v] = wjob[v]
    BY <1>1, WorkerFrame DEF clientVars, Incoming
  <2>2. ~Get(w)
    <3>1. SUFFICES ASSUME Get(w) PROVE FALSE
      OBVIOUS
    <3>2. Has(queue, j) => Has(queue', j) \/ wjob'[w] = j
      BY <3>1, HasTail DEF Get, MemoryTypeOK
    <3>3. wjob[w] # j
      BY <3>1, ConstantsAssumption DEF Get
    <3> QED BY <1>g, <2>1, <3>2, <3>3 DEF Gone
  <2>3. queue' = queue /\ wjob'[w] \in {wjob[w], NoJob}
    BY <1>1, <2>2, WorkerTakes
  <2>4. wjob[w] = j /\ wjob'[w] # wjob[w]
    BY <1>g, <2>1, <2>3 DEF Gone
  <2>5. \A v \in Workers : wjob[v] = j => v = w
    BY <2>4, ExclusiveIs, ConstantsAssumption DEF OneOwner
  <2>6. Row(j) /\ Known(j)
    BY <2>4, KnownRow, ConstantsAssumption DEF Stages, AllKnown
  <2>7. CASE SkipCancelled(w) \/ PollCancelled(w)
    BY <2>4, <2>5, <2>7 DEF SkipCancelled, PollCancelled
  <2>8. CASE LoadJob(w)
    BY <2>4, <2>5, <2>6, <2>8 DEF LoadJob
  <2>9. CASE AbortCancelled(w) \/ FinishBad(w) \/ ExecuteException(w)
    <3>1. \E e : Update({wjob[w]}, "failed", e)
      BY <2>9 DEF AbortCancelled, FinishBad, ExecuteException
    <3> QED BY <2>4, <2>6, <3>1 DEF Update, Open
  <2>10. CASE RemoveFile(w)
    <3>1. status[j] \in {"completed", "failed"}
      BY <2>4, <2>10, ConstantsAssumption DEF RemoveFile, Stages, Says
    <3>2. status' = status
      BY <2>10 DEF RemoveFile, dbVars
    <3> QED BY <3>1, <3>2 DEF Open
  <2> QED
    BY <1>1, <2>2, <2>4, <2>7, <2>8, <2>9, <2>10 DEF WorkerStep, Discard,
       NotCancelled, MarkPrinting, Recheck, CopyFile, SubmitPrint, PollResult,
       PollTimeout, FinishOk, RetryAttempt
<1>2. ASSUME NEW c \in Clients, ClientRequest(c) \/ ClientStep(c) PROVE FALSE
  <2>1. wjob' = wjob
    BY <1>2 DEF workerVars, ClientRequest, ClientStep, AddJob, RetryJob,
       CancelJob, CancelAllQueued, StartCancel, Put, Track, MarkCancelled,
       WriteCancelled
  <2>2. CASE Put(c)
    <3>1. PICK i \in target[c] : queue' = Append(queue, i)
      BY <2>2 DEF Put
    <3>2. i \in Jobs /\ (j \in Incoming(c) => i = j)
      BY <2>2, <3>1 DEF Put, Incoming, Handlers, ClientTypeOK
    <3>3. Has(queue', j) <=> Has(queue, j) \/ j = i
      BY <3>1, <3>2, HasAppend DEF MemoryTypeOK
    <3>4. \A d \in Clients : d # c => Incoming(d)' = Incoming(d)
      BY <2>2 DEF Put, Incoming, ClientTypeOK
    <3> QED BY <1>g, <2>1, <3>2, <3>3, <3>4 DEF Gone
  <2>3. CASE ~Put(c)
    <3>1. queue' = queue
      BY <1>2, <2>3 DEF memVars, ClientRequest, ClientStep, AddJob,
         RetryJob, CancelJob, CancelAllQueued, StartCancel, Track,
         MarkCancelled, WriteCancelled
    <3>2. cpc[c] # "put" /\ \A d \in Clients : d # c =>
             cpc'[d] = cpc[d] /\ target'[d] = target[d]
      BY <1>2, <2>3 DEF ClientTypeOK, ClientRequest, ClientStep, AddJob,
         RetryJob, CancelJob, CancelAllQueued, StartCancel, Track,
         MarkCancelled, WriteCancelled
    <3>3. \A d \in Clients : Incoming(d) \subseteq Incoming(d)'
      BY <3>2 DEF Incoming
    <3> QED BY <1>0, <2>1, <3>1, <3>3
  <2> QED BY <2>2, <2>3
<1>3. ASSUME NEW t \in Slots, PoolStep(t) PROVE FALSE
  BY <1>0, <1>3 DEF memVars, workerVars, clientVars, Incoming, PoolStep,
     StartPrint, FinishPrint
<1>4. ASSUME NEW h \in Beats, BeatStep(h) PROVE FALSE
  <2>1. UNCHANGED <<queue, workerVars, clientVars>>
    BY <1>4, BeatRows DEF Stages
  <2> QED BY <1>0, <2>1 DEF workerVars, clientVars, Incoming
<1>5. CASE Environment
  <2>1. CASE Crash
    <3>1. Owned(j)
      BY OwnedIs
    <3> QED BY <2>1, <3>1 DEF Crash
  <2>2. ASSUME NEW w \in Workers, WorkerFault(w) PROVE j \in casualties'
    <3>1. queue' = queue /\ UNCHANGED clientVars
      BY <2>2 DEF WorkerFault, Fault, memVars
    <3>2. CASE wpc[w] \in {"copy", "finish"}
      <4>1. wjob' = wjob
        BY <2>2, <3>2 DEF WorkerFault
      <4> QED BY <1>0, <3>1, <4>1 DEF clientVars, Incoming
    <3>3. CASE wpc[w] \notin {"copy", "finish"}
      <4>1. /\ casualties' = casualties \cup {wjob[w]}
            /\ wjob' = [wjob EXCEPT ![w] = NoJob]
        BY <2>2, <3>3 DEF WorkerFault, Fault, Drop
      <4>2. wjob[w] = j
        BY <1>g, <3>1, <4>1 DEF clientVars, Incoming, Gone
      <4> QED BY <4>1, <4>2
    <3> QED BY <3>2, <3>3
  <2>3. ASSUME NEW c \in Clients, CancelFault(c) PROVE FALSE
    <3>1. UNCHANGED <<queue, workerVars>>
      BY <2>3 DEF CancelFault, Fault, memVars
    <3>2. \A d \in Clients : Incoming(d) \subseteq Incoming(d)'
      BY <2>3 DEF CancelFault, Incoming, ClientTypeOK
    <3> QED BY <1>0, <3>1, <3>2 DEF workerVars
  <2> QED
    BY <1>0, <1>5, <2>1, <2>2, <2>3 DEF memVars, workerVars, clientVars,
       Incoming, Environment, GetOlder, StopWorkers, ExitWorker, BeatFault,
       Fault
<1>6. CASE UNCHANGED vars
  BY <1>0, <1>6 DEF vars, memVars, workerVars, clientVars, Incoming
<1> QED BY <1>1, <1>2, <1>3, <1>4, <1>5, <1>6 DEF Next

\* A row comes up with a handler that is about to queue the job.
LEMMA Added ==
  ASSUME TypeInv, [Next]_vars, NEW j \in Jobs, ~Known(j), Known(j)'
  PROVE  \E c \in Clients :
            /\ \/ AddJob(c, j)
               \/ \E i \in Jobs : RetryJob(c, i, j)
            /\ Incoming(c)' = {j}
<1> USE DEF TypeInv, TypeOK, DbTypeOK
<1>0. status'[j] # status[j]
  BY DEF Known
<1>u. ASSUME NEW S, NEW s, NEW e, Update(S, s, e) PROVE FALSE
  BY <1>0, <1>u DEF Update, Row, Known
<1>1. ASSUME NEW w \in Workers, WorkerStep(w) PROVE FALSE
  <2>1. CASE \/ MarkPrinting(w) \/ AbortCancelled(w) \/ FinishOk(w)
             \/ FinishBad(w) \/ ExecuteException(w) \/ RetryAttempt(w)
    BY <1>u, <2>1 DEF MarkPrinting, AbortCancelled, FinishOk, FinishBad,
       ExecuteException, RetryAttempt
  <2> QED
    BY <1>0, <1>1, <2>1 DEF dbVars, WorkerStep, Get, Discard, SkipCancelled,
       NotCancelled, LoadJob, Recheck, CopyFile, SubmitPrint, PollResult,
       PollCancelled, PollTimeout, RemoveFile
<1>2. ASSUME NEW c \in Clients, ClientRequest(c) \/ ClientStep(c)
      PROVE  /\ AddJob(c, j) \/ \E i \in Jobs : RetryJob(c, i, j)
             /\ Incoming(c)' = {j}
  <2>1. CASE WriteCancelled(c)
    BY <1>u, <2>1 DEF WriteCancelled
  <2>2. ASSUME NEW k \in Jobs, AddJob(c, k)
        PROVE  k = j /\ Incoming(c)' = {j}
    BY <1>0, <2>2 DEF AddJob, Incoming, ClientTypeOK
  <2>3. ASSUME NEW i \in Jobs, NEW k \in Jobs, RetryJob(c, i, k)
        PROVE  k = j /\ Incoming(c)' = {j}
    BY <1>0, <2>3 DEF RetryJob, Incoming, ClientTypeOK
  <2> QED
    BY <1>0, <1>2, <2>1, <2>2, <2>3 DEF dbVars, ClientRequest, ClientStep,
       CancelJob, CancelAllQueued, StartCancel, Put, Track, MarkCancelled
<1>3. ASSUME NEW t \in Slots, PoolStep(t) PROVE FALSE
  BY <1>0, <1>3 DEF dbVars, PoolStep, StartPrint, FinishPrint
<1>4. ASSUME NEW h \in Beats, BeatStep(h) PROVE FALSE
  <2>1. ~Cleanup(h)
    BY <1>0 DEF Cleanup, Expired, Row, Known
  <2>2. ASSUME NEW k \in Jobs, Requeue(h, k) PROVE FALSE
    BY <1>u, <2>2 DEF Requeue
  <2> QED
    BY <1>0, <1>4, <2>1, <2>2 DEF dbVars, BeatStep, ListStuck, Snapshot,
       RequeuePut, RequeueTrack
<1>5. CASE Environment
  <2>1. ~Crash
    <3>1. j \notin Expired
      BY DEF Expired, Row, Known
    <3>2. Crash => status' = [k \in Jobs |->
                                IF k \in Expired THEN "gone" ELSE status[k]]
      BY DEF Crash
    <3> QED BY <1>0, <3>1, <3>2
  <2>2. ASSUME NEW w \in Workers, WorkerFault(w) PROVE FALSE
    BY <1>0, <1>u, <2>2 DEF WorkerFault, PendingWrite, dbVars
  <2> QED
    BY <1>0, <1>5, <2>1, <2>2 DEF dbVars, Environment, GetOlder, StopWorkers,
       ExitWorker, CancelFault, BeatFault
<1>6. CASE UNCHANGED vars
  BY <1>0, <1>6 DEF vars, dbVars
<1> QED BY <1>1, <1>2, <1>3, <1>4, <1>5, <1>6 DEF Next

\* Whatever row is open, somebody is left who will end it.
LEMMA OrphanNext ==
  ASSUME AgeLimit = 0, MaxRetries = 0, TypeInv, AllKnown, OneOwner, Stages,
         OrphanInv, [Next]_vars
  PROVE  OrphanInv'
<1> USE DEF TypeInv, TypeOK
<1>1. Handlers'
  BY HandlersNext DEF OrphanInv
<1>2. ASSUME NEW j \in Jobs, Known(j), ~Open(j), Open(j)' PROVE Tended(j)'
  BY <1>2, Reopened DEF Stages
<1>3. ASSUME NEW j \in cancelledIds', Open(j)' PROVE Tended(j)'
  <2>0. j \in Jobs
    BY <1>3, NextTypeInv DEF MemoryTypeOK
  <2>1. CASE j \notin cancelledIds
    BY <1>3, <2>0, <2>1, NewMark DEF OrphanInv, Tended
  <2>2. CASE j \in cancelledIds /\ ~Open(j)
    BY <1>2, <1>3, <2>0, <2>2 DEF OrphanInv, Handlers
  <2>3. CASE j \in cancelledIds /\ Open(j)
    <3>1. Tended(j)
      BY <2>3 DEF OrphanInv, MarkAnswered
    <3>2. Tended(j)' \/ Reported(j)'
      BY <2>0, <2>3, <3>1, TendedNext
    <3> QED BY <1>3, <3>2 DEF Reported, Open
  <2> QED BY <2>1, <2>2, <2>3
<1>4. ASSUME NEW j \in Jobs, Open(j)'
      PROVE  ~Gone(j)' \/ Cancelling(j)' \/ j \in casualties'
  <2>1. CASE ~Known(j)
    <3>1. Known(j)'
      BY <1>4 DEF Known, Open
    <3>2. PICK c \in Clients : Incoming(c)' = {j}
      BY <2>1, <3>1, Added
    <3> QED BY <3>2 DEF Gone
  <2>2. CASE Known(j) /\ ~Open(j)
    <3>1. Tended(j)'
      BY <1>2, <1>4, <2>2
    <3> QED BY <3>1 DEF Tended, Gone
  <2>3. CASE Cancelling(j) \/ j \in casualties
    <3>1. Cancelling(j)' \/ Reported(j)' \/ j \in casualties'
      BY <2>3, CancellingNext, CasualtiesGrow DEF Stages
    <3> QED BY <1>4, <3>1 DEF Reported, Open
  <2>4. CASE Open(j) /\ ~Cancelling(j) /\ j \notin casualties
    <3>1. ~Gone(j)
      BY <2>4 DEF OrphanInv, InCharge
    <3>2. CASE Gone(j)'
      <4>1. \/ j \in cancelledIds /\ \A w \in Workers :
                  wjob[w] = j => wpc[w] \notin {"recheck", "abort"}
            \/ j \in casualties'
        BY <1>4, <3>1, <3>2, LetGo DEF OrphanInv
      <4>2. ~(j \in cancelledIds /\ \A w \in Workers :
                  wjob[w] = j => wpc[w] \notin {"recheck", "abort"})
        BY <2>4 DEF OrphanInv, MarkAnswered, Tended
      <4> QED BY <4>1, <4>2
    <3> QED BY <3>2
  <2> QED BY <2>1, <2>2, <2>3, <2>4
<1>5. MarkAnswered'
  BY <1>3 DEF MarkAnswered
<1>6. InCharge'
  BY <1>4 DEF InCharge
<1> QED BY <1>1, <1>5, <1>6 DEF OrphanInv

\* At boot there is nothing to end.
LEMMA OrphanInit == Init => OrphanInv
<1> SUFFICES ASSUME Init PROVE OrphanInv
  OBVIOUS
<1>1. Handlers
  BY DEF Init, Handlers
<1>2. MarkAnswered
  BY DEF Init, MarkAnswered
<1>3. InCharge
  BY DEF Init, InCharge, Open
<1> QED BY <1>1, <1>2, <1>3 DEF OrphanInv

\* The report of a cancel in time is final: only a worker that is about to see
\* the mark writes over it.
LEMMA ReportedNext ==
  ASSUME MaxRetries = 0, TypeInv, AllKnown, OneOwner, Stages, DoomInv,
         [Next]_vars, NEW j \in doomed, Reported(j)
  PROVE  Reported(j)' \/ Tended(j)'
<1> USE DEF TypeInv, TypeOK
<1>j. j \in Jobs /\ j # NoJob /\ Row(j)
  <2>1. j \in Jobs /\ Known(j)
    BY DEF DoomInv, HistoryTypeOK
  <2> QED BY <2>1, KnownRow, ConstantsAssumption DEF Stages
<1>0. ASSUME status'[j] = status[j], error'[j] = error[j]
      PROVE  Reported(j)'
  BY <1>0 DEF Reported
<1>p. ASSUME NEW w \in Workers, wjob[w] = j
      PROVE  wpc[w] \in BeforePrint \ {"retry"}
  BY <1>p, NeverRetries DEF DoomInv
<1>1. ASSUME NEW w \in Workers, WorkerStep(w) PROVE Reported(j)' \/ Tended(j)'
  <2>1. CASE wjob[w] # j
    BY <1>0, <1>1, <1>j, <2>1, WorkerFrame
  <2>2. CASE wjob[w] = j /\ MarkPrinting(w)
    BY <2>2 DEF MarkPrinting, Goto, Tended, WorkerTypeOK
  <2>3. CASE wjob[w] = j /\ AbortCancelled(w)
    BY <1>j, <2>3 DEF AbortCancelled, Update, Reported, Terminal
  <2>4. CASE wjob[w] = j /\ ~MarkPrinting(w) /\ ~AbortCancelled(w)
    <3>1. UNCHANGED dbVars
      BY <1>1, <1>p, <2>4 DEF BeforePrint, WorkerStep, Get, Discard,
         SkipCancelled, NotCancelled, LoadJob, Recheck, CopyFile, SubmitPrint,
         PollResult, PollCancelled, PollTimeout, FinishOk, RemoveFile,
         FinishBad, ExecuteException, RetryAttempt
    <3> QED BY <1>0, <3>1 DEF dbVars
  <2> QED BY <2>1, <2>2, <2>3, <2>4
<1>2. ASSUME NEW c \in Clients, ClientRequest(c) \/ ClientStep(c) PROVE Reported(j)'
  <2>1. CASE WriteCancelled(c)
    BY <1>j, <2>1 DEF WriteCancelled, Update, Reported, Terminal
  <2>2. ASSUME NEW k \in Jobs, AddJob(c, k) PROVE Reported(j)'
    <3>1. j # k /\ error' = error
      BY <2>2 DEF AddJob, Reported
    <3> QED BY <1>0, <1>j, <2>2, <3>1 DEF AddJob, DbTypeOK
  <2>3. ASSUME NEW i \in Jobs, NEW k \in Jobs, RetryJob(c, i, k) PROVE Reported(j)'
    <3>1. j # k /\ error' = error
      BY <2>3 DEF RetryJob, Reported
    <3> QED BY <1>0, <1>j, <2>3, <3>1 DEF RetryJob, DbTypeOK
  <2> QED
    BY <1>0, <1>2, <2>1, <2>2, <2>3 DEF dbVars, ClientRequest, ClientStep,
       CancelJob, CancelAllQueued, StartCancel, Put, Track, MarkCancelled
<1>3. ASSUME NEW t \in Slots, PoolStep(t) PROVE Reported(j)'
  BY <1>0, <1>3 DEF dbVars, PoolStep, StartPrint, FinishPrint
<1>4. ASSUME NEW h \in Beats, BeatStep(h) PROVE Reported(j)'
  BY <1>0, <1>4, BeatRows DEF Stages
<1>5. CASE Environment
  <2>1. ASSUME NEW w \in Workers, WorkerFault(w) PROVE Reported(j)' \/ Tended(j)'
    <3>1. CASE wjob[w] # j
      BY <1>0, <1>j, <2>1, <3>1 DEF WorkerFault, PendingWrite, Update, dbVars
    <3>2. CASE wjob[w] = j
      <4>1. wpc[w] \notin {"copy", "finish"}
        BY <1>p, <3>2 DEF BeforePrint
      <4> QED BY <2>1, <3>2, <4>1 DEF WorkerFault, Fault, Tended
    <3> QED BY <3>1, <3>2
  <2>2. CASE Crash
    <3>1. Expired = {}
      BY NothingExpired DEF Stages
    <3> QED BY <1>0, <1>j, <2>2, <3>1 DEF Crash
  <2> QED
    BY <1>0, <1>5, <2>1, <2>2 DEF dbVars, Environment, GetOlder, StopWorkers,
       ExitWorker, CancelFault, BeatFault
<1>6. CASE UNCHANGED vars
  BY <1>0, <1>6 DEF vars, dbVars
<1> QED BY <1>1, <1>2, <1>3, <1>4, <1>5, <1>6 DEF Next

\* A cancel in time is on its way to the row, or has got there.
LEMMA DoomedTendedNext ==
  ASSUME MaxRetries = 0, TypeInv, AllKnown, OneOwner, Stages, DoomInv,
         Handlers, DoomedTended, [Next]_vars
  PROVE  DoomedTended'
<1> SUFFICES ASSUME NEW j \in doomed' PROVE Tended(j)' \/ Reported(j)'
  BY DEF DoomedTended
<1>0. j \in Jobs
  BY NextTypeInv DEF TypeInv, TypeOK, HistoryTypeOK
<1>1. CASE j \notin doomed
  BY <1>0, <1>1, NewMark DEF Tended
<1>2. CASE j \in doomed /\ Reported(j)
  BY <1>2, ReportedNext
<1>3. CASE j \in doomed /\ Tended(j)
  <2>1. j \in cancelledIds \/ Gone(j)
    BY <1>3 DEF DoomInv
  <2> QED BY <1>0, <1>3, <2>1, TendedNext
<1> QED BY <1>1, <1>2, <1>3 DEF DoomedTended

\* The invariants of this module's theorems, one after the other.
LifeInv == PrintInv /\ OneOwner /\ Stages /\ OrphanInv

LEMMA LifeInvAlways ==
  ASSUME AgeLimit = 0, MaxRetries = 0
  PROVE  Spec => []LifeInv
<1>1. Init => OneOwner /\ Stages /\ OrphanInv
  BY OneOwnerInit, StagesInit, OrphanInit
<1>2. /\ PrintInv /\ OneOwner /\ Stages /\ OrphanInv /\ [Next]_vars
      => OneOwner' /\ Stages' /\ OrphanInv'
  BY OneOwnerNext, StagesNext, OrphanNext DEF PrintInv
<1> QED BY <1>1, <1>2, PrintInvAlways, PTL DEF Spec, LifeInv

\* While no job is five minutes old and none is retried automatically, a row
\* that is not final has somebody who will look at it again, whatever cancels,
\* timeouts and shutdowns come between; only a crash or an exception leaves
\* one behind.
THEOREM NoJobOrphaned ==
  ASSUME AgeLimit = 0, MaxRetries = 0
  PROVE  Spec => []NoOrphan
<1>1. LifeInv => NoOrphan
  <2>1. SUFFICES ASSUME LifeInv, NEW j \in Jobs, status[j] \in {"queued", "printing"}
                 PROVE  Owned(j) \/ j \in casualties
    BY DEF NoOrphan
  <2>2. ~Gone(j) \/ Cancelling(j) \/ j \in casualties
    BY <2>1 DEF LifeInv, OrphanInv, InCharge, Open
  <2> QED BY <2>1, <2>2, OwnedIs DEF LifeInv, PrintInv
<1> QED BY <1>1, LifeInvAlways, PTL

\* While no job is five minutes old and none is retried automatically, a job
\* marked cancelled before a worker was past its second look says 'cancelled'
\* in its row once nobody is busy with it, whichever of the handler and the
\* worker writes last.
THEOREM CancelsReported ==
  ASSUME AgeLimit = 0, MaxRetries = 0
  PROVE  Spec => []CancelReported
<1>1. Init => DoomInv /\ DoomedTended
  BY DEF Init, DoomInv, DoomedTended
<1>2. LifeInv /\ DoomInv /\ DoomedTended /\ [Next]_vars
        => DoomInv' /\ DoomedTended'
  BY DoomNext, DoomedTendedNext DEF LifeInv, PrintInv, OrphanInv
<1>3. LifeInv /\ DoomedTended => CancelReported
  <2>1. SUFFICES ASSUME LifeInv, DoomedTended, NEW j \in doomed, ~Owned(j),
                        j \notin casualties
                 PROVE  status[j] = "failed" /\ error[j] = "cancelled"
    BY DEF CancelReported
  <2>2. j \in Jobs
    BY <2>1 DEF LifeInv, PrintInv, TypeInv, TypeOK, HistoryTypeOK
  <2>3. Gone(j) /\ ~Cancelling(j)
    BY <2>1, <2>2, OwnedIs DEF LifeInv, PrintInv
  <2>4. ~Tended(j)
    BY <2>1, <2>3 DEF Tended, Gone
  <2> QED BY <2>1, <2>4 DEF DoomedTended, Reported
<1> QED BY <1>1, <1>2, <1>3, LifeInvAlways, PTL DEF Spec

-----------------------------------------------------------------------------
(* The queue implements JobLifecycle. *)

\* OwnedIs after a step.
LEMMA OwnedThen ==
  ASSUME NEW j \in Jobs
  PROVE  TypeInv' /\ OneOwner' => (Owned(j)' <=> ~Gone(j)' \/ Cancelling(j)')
<1>1. TypeInv /\ OneOwner => (Owned(j) <=> ~Gone(j) \/ Cancelling(j))
  BY OwnedIs
<1> QED BY <1>1, PTL

\* A job that was never added has no owner.
LEMMA UnknownUnowned ==
  ASSUME TypeInv, AllKnown, OneOwner, NEW j \in Jobs, ~Known(j)
  PROVE  ~Owned(j)
<1>1. ~Has(queue, j)
  BY DEF AllKnown
<1>2. \A w \in Workers : wjob[w] # j
  BY ConstantsAssumption DEF AllKnown
<1>3. \A c \in Clients : j \notin target[c]
  BY DEF AllKnown
<1> QED BY <1>1, <1>2, <1>3, OwnedIs DEF Gone, Cancelling, Incoming

\* A handler takes up the cancel of an open job only.
LEMMA NewCancel ==
  ASSUME TypeInv, [Next]_vars, NEW j \in Jobs, ~Cancelling(j), Cancelling(j)'
  PROVE  Open(j)
<1> USE DEF TypeInv, TypeOK
<1>0. ASSUME \A c \in Clients : cpc'[c] \in {"mark", "write"} =>
                /\ cpc[c] \in {"mark", "write"}
                /\ target'[c] = target[c]
      PROVE  FALSE
  BY <1>0 DEF Cancelling
<1>1. ASSUME NEW w \in Workers, WorkerStep(w) PROVE FALSE
  BY <1>0, <1>1, WorkerFrame DEF clientVars
<1>2. ASSUME NEW c \in Clients, ClientRequest(c) \/ ClientStep(c) PROVE Open(j)
  <2>1. ASSUME NEW S \in SUBSET Jobs, StartCancel(c, S) PROVE j \in S
    BY <2>1 DEF StartCancel, Cancelling, ClientTypeOK
  <2>2. CASE CancelAllQueued(c)
    BY <2>1, <2>2 DEF CancelAllQueued, Open
  <2>3. ASSUME NEW i \in Jobs, CancelJob(c, i) PROVE Open(j)
    BY <2>1, <2>3 DEF CancelJob, Open
  <2>4. CASE (\E i \in Jobs : AddJob(c, i)) \/ \E i, k \in Jobs : RetryJob(c, i, k)
    BY <1>0, <2>4 DEF AddJob, RetryJob, ClientTypeOK
  <2>5. CASE ClientStep(c)
    BY <1>0, <2>5 DEF ClientStep, Put, Track, MarkCancelled, WriteCancelled,
       ClientTypeOK
  <2> QED BY <1>2, <2>2, <2>3, <2>4, <2>5 DEF ClientRequest
<1>3. ASSUME NEW t \in Slots, PoolStep(t) PROVE FALSE
  BY <1>0, <1>3 DEF clientVars, PoolStep, StartPrint, FinishPrint
<1>4. ASSUME NEW h \in Beats, BeatStep(h) PROVE FALSE
  BY <1>0, <1>4 DEF clientVars, BeatStep, Cleanup, ListStuck, Snapshot,
     Requeue, RequeuePut, RequeueTrack
<1>5. CASE Environment
  BY <1>0, <1>5 DEF clientVars, ClientTypeOK, Environment, GetOlder,
     StopWorkers, ExitWorker, WorkerFault, CancelFault, BeatFault, Crash
<1>6. CASE UNCHANGED vars
  BY <1>0, <1>6 DEF vars, clientVars
<1> QED BY <1>1, <1>2, <1>3, <1>4, <1>5, <1>6 DEF Next

\* What no crash and no exception leave as it was.
LEMMA NoTrouble ==
  ASSUME MaxCrashes = 0, MaxFaults = 0, TypeInv
  PROVE  /\ ~Crash
         /\ \A w \in Workers : ~WorkerFault(w)
         /\ \A c \in Clients : ~CancelFault(c)
         /\ \A h \in Beats : ~BeatFault(h)
<1>1. crashes \in 0..MaxCrashes /\ faults \in 0..MaxFaults
  BY DEF TypeInv, TypeOK, HistoryTypeOK
<1>2. MaxCrashes = 0 /\ MaxFaults = 0
  OBVIOUS
<1>3. ~(crashes < MaxCrashes) /\ ~(faults < MaxFaults)
  BY ONLY <1>1, <1>2
<1> QED BY <1>3 DEF Crash, WorkerFault, CancelFault, BeatFault, Fault

LEMMA NoCasualties ==
  ASSUME MaxCrashes = 0, MaxFaults = 0, TypeInv, casualties = {}, [Next]_vars
  PROVE  casualties' = {}
<1>1. ASSUME NEW w \in Workers, WorkerStep(w) PROVE casualties' = casualties
  BY <1>1, WorkerFrame
<1>2. ASSUME NEW c \in Clients, ClientRequest(c) \/ ClientStep(c)
      PROVE  casualties' = casualties
  BY <1>2 DEF histVars, ClientRequest, ClientStep, AddJob, RetryJob,
     CancelJob, CancelAllQueued, StartCancel, Put, Track, MarkCancelled,
     WriteCancelled
<1>3. ASSUME NEW t \in Slots, PoolStep(t) PROVE casualties' = casualties
  BY <1>3 DEF histVars, PoolStep, StartPrint, FinishPrint
<1>4. ASSUME NEW h \in Beats, BeatStep(h) PROVE casualties' = casualties
  BY <1>4 DEF histVars, BeatStep, Cleanup, ListStuck, Snapshot, Requeue,
     RequeuePut, RequeueTrack
<1>5. CASE Environment
  BY <1>5, NoTrouble DEF histVars, Environment, GetOlder, StopWorkers, ExitWorker
<1>6. CASE UNCHANGED vars
  BY <1>6 DEF vars, histVars
<1> QED BY <1>1, <1>2, <1>3, <1>4, <1>5, <1>6 DEF Next

\* A row moves forward, and only while somebody has the job.
LEMMA RowMoves ==
  ASSUME MaxRetries = 0, MaxCrashes = 0, MaxFaults = 0, TypeInv, AllKnown,
         OneOwner, Stages, [Next]_vars, NEW j \in Jobs, Known(j)
  PROVE  \/ status'[j] = status[j]
         \/ Owned(j) /\ <<status[j], status'[j]>> \in Lifecycle!Forward
<1> USE DEF TypeInv, TypeOK, DbTypeOK
<1>r. Row(j) /\ status[j] \in {"queued", "printing", "completed", "failed"}
  BY KnownRow DEF Stages
<1>u. ASSUME NEW S, NEW s, NEW e, Update(S, s, e)
      PROVE  status'[j] = status[j] \/ (j \in S /\ status'[j] = s)
  BY <1>u DEF Update
<1>1. ASSUME NEW w \in Workers, WorkerStep(w), status'[j] # status[j]
      PROVE  Owned(j) /\ <<status[j], status'[j]>> \in Lifecycle!Forward
  <2>1. j = wjob[w]
    BY <1>1, WorkerFrame
  <2>2. Owned(j)
    BY <2>1 DEF Owned
  <2>3. status[j] \in Says(wpc[w])
    BY <2>1, ConstantsAssumption DEF Stages
  <2>4. ~RetryAttempt(w)
    BY NeverRetries DEF RetryAttempt
  <2>5. CASE MarkPrinting(w)
    <3>1. status[j] \in {"queued", "failed"}
      BY <2>3, <2>5 DEF MarkPrinting, Says
    <3>2. status'[j] = "printing"
      BY <1>1, <1>u, <2>5 DEF MarkPrinting
    <3> QED BY <2>2, <3>1, <3>2 DEF Lifecycle!Forward
  <2>6. CASE FinishOk(w)
    <3>1. status[j] \in {"printing", "failed"}
      BY <2>3, <2>6 DEF FinishOk, Says
    <3>2. status'[j] = "completed"
      BY <1>1, <1>u, <2>6 DEF FinishOk
    <3> QED BY <2>2, <3>1, <3>2 DEF Lifecycle!Forward
  <2>7. CASE AbortCancelled(w) \/ FinishBad(w) \/ ExecuteException(w)
    <3>1. status[j] \in {"printing", "completed", "failed"}
      BY <2>3, <2>7 DEF AbortCancelled, FinishBad, ExecuteException, Says
    <3>2. status'[j] = "failed"
      BY <1>1, <1>u, <2>7 DEF AbortCancelled, FinishBad, ExecuteException
    <3> QED BY <1>1, <2>2, <3>1, <3>2 DEF Lifecycle!Forward
  <2> QED
    BY <1>1, <2>4, <2>5, <2>6, <2>7 DEF dbVars, WorkerStep, Get, Discard,
       SkipCancelled, NotCancelled, LoadJob, Recheck, CopyFile, SubmitPrint,
       PollResult, PollCancelled, PollTimeout, RemoveFile
<1>2. ASSUME NEW c \in Clients, ClientRequest(c) \/ ClientStep(c),
             status'[j] # status[j]
      PROVE  Owned(j) /\ <<status[j], status'[j]>> \in Lifecycle!Forward
  <2>1. ~\E k \in Jobs : AddJob(c, k)
    BY <1>2 DEF AddJob, Known
  <2>2. ~\E i, k \in Jobs : RetryJob(c, i, k)
    BY <1>2 DEF RetryJob, Known
  <2>3. WriteCancelled(c)
    BY <1>2, <2>1, <2>2 DEF dbVars, ClientRequest, ClientStep, CancelJob,
       CancelAllQueued, StartCancel, Put, Track, MarkCancelled
  <2>4. j \in target[c] /\ status'[j] = "failed"
    BY <1>2, <1>u, <2>3 DEF WriteCancelled
  <2>5. Owned(j)
    BY <2>3, <2>4 DEF WriteCancelled, Owned
  <2> QED BY <1>2, <1>r, <2>4, <2>5 DEF Lifecycle!Forward
<1>3. ASSUME NEW t \in Slots, PoolStep(t) PROVE status' = status
  BY <1>3 DEF dbVars, PoolStep, StartPrint, FinishPrint
<1>4. ASSUME NEW h \in Beats, BeatStep(h) PROVE status' = status
  BY <1>4, BeatRows DEF Stages
<1>5. CASE Environment
  BY <1>5, NoTrouble DEF dbVars, Environment, GetOlder, StopWorkers, ExitWorker
<1>6. CASE UNCHANGED vars
  BY <1>6 DEF vars, dbVars
<1> QED BY <1>1, <1>2, <1>3, <1>4, <1>5, <1>6 DEF Next

\* Nobody takes charge of a job again.
LEMMA ChargeShrinks ==
  ASSUME TypeInv, AllKnown, OneOwner, OneOwner', InCharge, casualties = {},
         [Next]_vars, NEW j \in Jobs, Known(j), Owned(j)'
  PROVE  Owned(j)
<1>1. TypeInv'
  BY NextTypeInv
<1>2. ~Gone(j)' \/ Cancelling(j)'
  BY <1>1, OwnedThen
<1>3. Gone(j) => Gone(j)'
  BY GoneForever
<1>4. CASE Cancelling(j)' /\ ~Cancelling(j)
  <2>1. Open(j)
    BY <1>4, NewCancel
  <2> QED BY <2>1, OwnedIs DEF InCharge
<1> QED BY <1>2, <1>3, <1>4, OwnedIs

\* What was never added and is not added now has no owner after the step.
LEMMA UnknownThen ==
  ASSUME NEW j \in Jobs
  PROVE  TypeInv' /\ AllKnown' /\ OneOwner' /\ ~Known(j)' => ~Owned(j)'
<1>1. TypeInv /\ AllKnown /\ OneOwner /\ ~Known(j) => ~Owned(j)
  BY UnknownUnowned
<1> QED BY <1>1, PTL

\* No crash and no exception has hit a job.
Unhurt == casualties = {}

\* InCharge after a step.
LEMMA OpenOwnedThen ==
  ASSUME NEW j \in Jobs
  PROVE  TypeInv' /\ OneOwner' /\ InCharge' /\ Unhurt' => (Open(j)' => Owned(j)')
<1>1. TypeInv /\ OneOwner /\ InCharge /\ Unhurt => (Open(j) => Owned(j))
  BY OwnedIs DEF InCharge, Unhurt
<1> QED BY <1>1, PTL

\* The jobs somebody has: what JobLifecycle calls charge.
Charge == {j \in Jobs : Owned(j)}

\* An upload, or a failed job that is tried again, is an Accept.
LEMMA AcceptStep ==
  ASSUME TypeInv, AllKnown, OneOwner, OneOwner', [Next]_vars,
         NEW j \in Jobs, ~Known(j), Known(j)'
  PROVE  Lifecycle!Accept(j)
<1> USE DEF TypeInv, TypeOK
<1>1. PICK c \in Clients :
         /\ AddJob(c, j) \/ \E i \in Jobs : RetryJob(c, i, j)
         /\ Incoming(c)' = {j}
  BY Added
<1>2. /\ cpc[c] = "idle"
      /\ status[j] = "none"
      /\ status' = [status EXCEPT ![j] = "queued"]
      /\ cpc' = [cpc EXCEPT ![c] = "put"]
      /\ target' = [target EXCEPT ![c] = {j}]
      /\ UNCHANGED <<queue, wjob>>
  BY <1>1 DEF AddJob, RetryJob, memVars, workerVars
<1>3. Owned(j)'
  <2>1. ~Gone(j)'
    BY <1>1 DEF Gone
  <2> QED BY <2>1, NextTypeInv, OwnedThen
<1>4. ASSUME NEW k \in Jobs, k # j
      PROVE  Owned(k)' <=> Owned(k)
  <2>1. \A d \in Clients : k \in Incoming(d)' <=> k \in Incoming(d)
    BY <1>2, <1>4 DEF Incoming, ClientTypeOK
  <2>2. Cancelling(k)' <=> Cancelling(k)
    BY <1>2 DEF Cancelling, ClientTypeOK
  <2>3. Gone(k)' <=> Gone(k)
    BY <1>2, <2>1 DEF Gone, Has
  <2>4. Owned(k)' <=> ~Gone(k)' \/ Cancelling(k)'
    BY NextTypeInv, OwnedThen
  <2> QED BY <2>2, <2>3, <2>4, OwnedIs
<1>5. Charge' = Charge \cup {j}
  BY <1>3, <1>4 DEF Charge
<1> QED BY <1>2, <1>5 DEF Lifecycle!Accept, Charge

\* Every other step is Work, or changes neither a row nor who is in charge.
LEMMA WorkStep ==
  ASSUME AgeLimit = 0, MaxRetries = 0, MaxCrashes = 0, MaxFaults = 0,
         LifeInv, LifeInv', Unhurt, [Next]_vars,
         \A j \in Jobs : Known(j)' => Known(j)
  PROVE  Lifecycle!Work
<1> USE DEF LifeInv, PrintInv
<1>1. Unhurt'
  BY NoCasualties DEF Unhurt
<1>2. ASSUME NEW j \in Jobs, Owned(j)' PROVE Owned(j)
  <2>1. Known(j)
    BY <1>2, UnknownThen
  <2> QED BY <1>2, <2>1, ChargeShrinks DEF OrphanInv, Unhurt
<1>3. status' \in [Jobs -> {"none", "queued", "printing"} \cup Lifecycle!Final]
  <2>1. DbTypeOK' /\ Rows'
    BY DEF TypeInv, TypeOK, Stages
  <2> QED BY <2>1 DEF DbTypeOK, Rows, Status, Terminal, Lifecycle!Final
<1>4. ASSUME NEW j \in Jobs, status'[j] # status[j]
      PROVE  Owned(j) /\ <<status[j], status'[j]>> \in Lifecycle!Forward
  <2>1. CASE Known(j)
    BY <1>4, <2>1, RowMoves
  <2>2. CASE ~Known(j)
    BY <1>4, <2>2 DEF Known
  <2> QED BY <2>1, <2>2
<1>5. ASSUME NEW j \in Jobs, Owned(j), ~Owned(j)'
      PROVE  status'[j] \in Lifecycle!Final
  <2>1. Known(j)'
    BY <1>5, UnknownUnowned, KnownForever
  <2>2. ~Open(j)'
    BY <1>1, <1>5, OpenOwnedThen DEF OrphanInv
  <2> QED BY <1>3, <2>1, <2>2 DEF Known, Open
<1>6. Charge' \subseteq Charge
  BY <1>2 DEF Charge
<1>7. \A j \in Jobs :
         /\ status'[j] # status[j] => j \in Charge /\ <<status[j], status'[j]>> \in Lifecycle!Forward
         /\ j \in Charge \ Charge' => status'[j] \in Lifecycle!Final
  BY <1>4, <1>5 DEF Charge
<1> QED BY <1>3, <1>6, <1>7 DEF Lifecycle!Work, Charge

\* While no job is five minutes old, none is retried automatically and nothing
\* crashes or raises, the queue with its threads, its two id sets and its
\* table does what JobLifecycle says: it takes charge of a job once, moves its
\* row forward only while in charge of it, and lets go of it with a final row.
THEOREM LifecycleImplemented ==
  ASSUME AgeLimit = 0, MaxRetries = 0, MaxCrashes = 0, MaxFaults = 0
  PROVE  Spec => ImplementsLifecycle
<1>1. Init => Unhurt
  BY DEF Init, Unhurt
<1>2. LifeInv /\ Unhurt /\ [Next]_vars => Unhurt'
  BY NoCasualties DEF LifeInv, PrintInv, Unhurt
<1>3. Init => Lifecycle!LifeInit
  <2>1. SUFFICES ASSUME Init PROVE Lifecycle!LifeInit
    OBVIOUS
  <2>2. status = [j \in Jobs |-> "none"]
    BY <2>1 DEF Init
  <2>3. ASSUME NEW j \in Jobs PROVE ~Owned(j)
    <3>1. ~Known(j)
      BY <2>2 DEF Known
    <3> QED BY <2>1, <3>1, InitTypeInv, AllKnownInit, OneOwnerInit, UnknownUnowned
  <2> QED BY <2>2, <2>3 DEF Lifecycle!LifeInit
<1>4. LifeInv /\ LifeInv' /\ Unhurt /\ [Next]_vars
        => [Lifecycle!LifeNext]_(Lifecycle!lifeVars)
  <2>1. SUFFICES ASSUME LifeInv, LifeInv', Unhurt, [Next]_vars
                 PROVE  Lifecycle!LifeNext
    OBVIOUS
  <2>2. ASSUME NEW j \in Jobs, ~Known(j), Known(j)' PROVE Lifecycle!LifeNext
    BY <2>1, <2>2, AcceptStep DEF LifeInv, PrintInv, Lifecycle!LifeNext
  <2>3. CASE \A j \in Jobs : Known(j)' => Known(j)
    BY <2>1, <2>3, WorkStep DEF Lifecycle!LifeNext
  <2> QED BY <2>2, <2>3
<1> QED
  BY <1>1, <1>2, <1>3, <1>4, LifeInvAlways, PTL DEF Spec,
     ImplementsLifecycle, Lifecycle!LifeSpec
=============================================================================
