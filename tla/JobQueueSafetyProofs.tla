------------------------ MODULE JobQueueSafetyProofs ------------------------
(***************************************************************************)
(* Safety of JobQueue, for any number of jobs and threads: what            *)
(* 'completed' says and which uploads are kept hold of every behaviour;    *)
(* that a job has one owner and that a cancel in time is honoured hold     *)
(* while no job gets old enough for recover_stuck_jobs.                    *)
(***************************************************************************)
EXTENDS JobQueueProofs

\* A job that was added stays known, be it only as a deleted row.
Known(j) == status[j] # "none"

\* A sequence of jobs has j.
Has(q, j) == \E i \in 1..Len(q) : q[i] = j

\* Only jobs that were added are anywhere in the system.
AllKnown ==
    /\ \A j \in Jobs : Has(queue, j) => Known(j)
    /\ \A w \in Workers : wjob[w] # NoJob => Known(wjob[w])
    /\ \A c \in Clients : \A j \in target[c] : Known(j)
    /\ \A h \in Beats : \A j \in hstuck[h] : Known(j)
    /\ \A h \in Beats : hjob[h] # NoJob => Known(hjob[h])
    /\ \A t \in Slots : slotJob[t] # NoJob => Known(slotJob[t])
    /\ \A j \in printed : Known(j)

\* Append adds the job to those of the queue.
LEMMA HasAppend ==
  ASSUME NEW q \in Seq(Jobs), NEW j \in Jobs, NEW k \in Jobs
  PROVE  Has(Append(q, j), k) <=> Has(q, k) \/ k = j
BY DEF Has

\* Tail takes the head away, and a job that is not the head stays.
LEMMA HasTail ==
  ASSUME NEW q \in Seq(Jobs), q # <<>>, NEW k \in Jobs
  PROVE  Has(q, k) <=> Has(Tail(q), k) \/ k = Head(q)
BY DEF Has

\* No step takes a row back to "none": a job that was added stays known.
LEMMA KnownForever ==
  ASSUME TypeInv, [Next]_vars, NEW j \in Jobs, Known(j)
  PROVE  Known(j)'
<1> USE DEF Known
<1>1. ASSUME NEW w \in Workers, WorkerStep(w) PROVE Known(j)'
  BY <1>1 DEF TypeInv, TypeOK, DbTypeOK, dbVars, Update, WorkerStep, Get,
     Discard, SkipCancelled, NotCancelled, LoadJob, MarkPrinting, Recheck,
     AbortCancelled, CopyFile, SubmitPrint, PollResult, PollCancelled,
     PollTimeout, FinishOk, RemoveFile, FinishBad, ExecuteException,
     RetryAttempt
<1>2. ASSUME NEW c \in Clients, ClientRequest(c) \/ ClientStep(c) PROVE Known(j)'
  BY <1>2 DEF TypeInv, TypeOK, DbTypeOK, dbVars, Update, ClientRequest,
     ClientStep, AddJob, RetryJob, CancelJob, CancelAllQueued, StartCancel,
     Put, Track, MarkCancelled, WriteCancelled
<1>3. ASSUME NEW t \in Slots, PoolStep(t) PROVE Known(j)'
  BY <1>3 DEF dbVars, PoolStep, StartPrint, FinishPrint
<1>4. ASSUME NEW h \in Beats, BeatStep(h) PROVE Known(j)'
  BY <1>4 DEF TypeInv, TypeOK, DbTypeOK, dbVars, Update, BeatStep, Cleanup,
     ListStuck, Snapshot, Requeue, RequeuePut, RequeueTrack
<1>5. CASE Environment
  <2>1. ASSUME NEW w \in Workers, WorkerFault(w) PROVE Known(j)'
    BY <2>1 DEF TypeInv, TypeOK, DbTypeOK, dbVars, Update, WorkerFault,
       PendingWrite
  <2>2. CASE Crash
    BY <2>2 DEF TypeInv, TypeOK, DbTypeOK, Crash
  <2> QED
    BY <1>5, <2>1, <2>2 DEF dbVars, Environment, GetOlder, StopWorkers,
       ExitWorker, CancelFault, BeatFault
<1>6. CASE UNCHANGED vars
  BY <1>6 DEF vars, dbVars
<1> QED BY <1>1, <1>2, <1>3, <1>4, <1>5, <1>6 DEF Next

\* The empty queue has nothing.
LEMMA HasEmpty == \A k : ~Has(<<>>, k)
BY DEF Has

\* At boot nothing is anywhere.
LEMMA AllKnownInit == Init => AllKnown
<1> SUFFICES ASSUME Init PROVE AllKnown
  OBVIOUS
<1>1. \A j \in Jobs : Has(queue, j) => Known(j)
  BY HasEmpty DEF Init
<1> QED
  BY <1>1 DEF Init, AllKnown

\* No step brings up a job that was not added: an id only moves between
\* the queue, the threads and the sets, and only requests bring in new ones.
LEMMA AllKnownNext ==
  ASSUME TypeInv, AllKnown, [Next]_vars
  PROVE  AllKnown'
<1> USE DEF TypeInv, TypeOK
<1>0. \A j \in Jobs : Known(j) => Known(j)'
  BY KnownForever
<1>1. ASSUME NEW w \in Workers, WorkerStep(w) PROVE AllKnown'
  <2>1. CASE Get(w)
    BY <1>0, <2>1, HasTail, QueueType DEF AllKnown, Get, Goto,
       MemoryTypeOK, WorkerTypeOK, clientVars, beatVars, poolVars, histVars,
       ClientTypeOK, BeatTypeOK, PoolTypeOK, HistoryTypeOK
  <2>2. CASE ~Get(w)
    <3>1. /\ UNCHANGED <<queue, clientVars, beatVars, slotJob, printed>>
          /\ wjob' = wjob \/ wjob' = [wjob EXCEPT ![w] = NoJob]
      BY <1>1, <2>2 DEF poolVars, histVars, memVars, WorkerStep, Discard,
         SkipCancelled, NotCancelled, LoadJob, MarkPrinting, Recheck,
         AbortCancelled, CopyFile, SubmitPrint, PollResult, PollCancelled,
         PollTimeout, FinishOk, RemoveFile, FinishBad, ExecuteException,
         RetryAttempt, Drop, DropOrRetry, DeleteCopy
    <3> QED
      BY <1>0, <3>1 DEF AllKnown, WorkerTypeOK, clientVars, beatVars,
         ClientTypeOK, BeatTypeOK, PoolTypeOK, HistoryTypeOK
  <2> QED BY <2>1, <2>2
<1>2. ASSUME NEW c \in Clients, ClientRequest(c) \/ ClientStep(c) PROVE AllKnown'
  <2> DEFINE Targets == \A d \in Clients :
                 \/ target'[d] = target[d]
                 \/ \A j \in target'[d] : j \in Jobs /\ Known(j)'
  <2>0. Targets
    <3>1. ASSUME NEW j \in Jobs, AddJob(c, j) PROVE Targets
      BY <3>1 DEF Known, DbTypeOK, ClientTypeOK, AddJob
    <3>2. ASSUME NEW j \in Jobs, NEW k \in Jobs, RetryJob(c, j, k) PROVE Targets
      BY <3>2 DEF Known, DbTypeOK, ClientTypeOK, RetryJob
    <3>3. CASE CancelAllQueued(c)
      BY <3>3, <1>0 DEF Known, ClientTypeOK, CancelAllQueued, StartCancel
    <3>4. ASSUME NEW j \in Jobs, CancelJob(c, j) PROVE Targets
      BY <3>4, <1>0 DEF Known, ClientTypeOK, CancelJob, StartCancel
    <3> QED
      BY <1>2, <3>1, <3>2, <3>3, <3>4 DEF ClientTypeOK, ClientRequest,
         ClientStep, Put, Track, MarkCancelled, WriteCancelled
  <2>1. UNCHANGED <<wjob, slotJob, printed, beatVars>>
    BY <1>2 DEF workerVars, poolVars, histVars, ClientRequest, ClientStep,
       AddJob, RetryJob, CancelJob, CancelAllQueued, StartCancel, Put, Track,
       MarkCancelled, WriteCancelled
  <2>2. \A j \in Jobs : Has(queue', j) => Known(j)
    <3>1. CASE Put(c)
      BY <3>1, HasAppend DEF Put, AllKnown, ClientTypeOK, MemoryTypeOK
    <3>2. CASE ~Put(c)
      <4>1. queue' = queue
        BY <1>2, <3>2 DEF memVars, ClientRequest, ClientStep, AddJob,
           RetryJob, CancelJob, CancelAllQueued, StartCancel, Track,
           MarkCancelled, WriteCancelled
      <4> QED BY <4>1 DEF AllKnown
    <3> QED BY <3>1, <3>2
  <2> QED
    BY <1>0, <2>0, <2>1, <2>2 DEF AllKnown, beatVars, WorkerTypeOK,
       ClientTypeOK, BeatTypeOK, PoolTypeOK, HistoryTypeOK, Has
<1>3. ASSUME NEW t \in Slots, PoolStep(t) PROVE AllKnown'
  <2>1. UNCHANGED <<status, queue, wjob, clientVars, beatVars>>
    BY <1>3 DEF dbVars, memVars, workerVars, PoolStep, StartPrint, FinishPrint
  <2>2. ASSUME NEW w \in Workers, StartPrint(t, w) PROVE AllKnown'
    BY <2>1, <2>2 DEF AllKnown, Known, Has, StartPrint, clientVars,
       beatVars, WorkerTypeOK, PoolTypeOK
  <2>3. ASSUME NEW o \in {"ok", "fail"}, FinishPrint(t, o) PROVE AllKnown'
    BY <2>1, <2>3 DEF AllKnown, Known, Has, FinishPrint, clientVars,
       beatVars, WorkerTypeOK, PoolTypeOK
  <2> QED BY <1>3, <2>2, <2>3 DEF PoolStep
<1>4. ASSUME NEW h \in Beats, BeatStep(h) PROVE AllKnown'
  <2>1. UNCHANGED <<wjob, clientVars, slotJob, printed>>
    BY <1>4 DEF histVars, workerVars, poolVars, BeatStep, Cleanup,
       ListStuck, Snapshot, Requeue, RequeuePut, RequeueTrack
  <2>2. \A j \in Jobs : Has(queue', j) => Known(j)
    <3>1. CASE RequeuePut(h)
      BY <3>1, HasAppend, ConstantsAssumption DEF RequeuePut, AllKnown,
         BeatTypeOK, MemoryTypeOK
    <3>2. CASE ~RequeuePut(h)
      <4>1. queue' = queue
        BY <1>4, <3>2 DEF memVars, BeatStep, Cleanup, ListStuck, Snapshot,
           Requeue, RequeueTrack
      <4> QED BY <4>1 DEF AllKnown
    <3> QED BY <3>1, <3>2
  <2>3. ASSUME NEW g \in Beats PROVE \A j \in hstuck'[g] : j \in Jobs /\ Known(j)
    <3>1. CASE ListStuck(h)
      BY <3>1 DEF AllKnown, Known, BeatTypeOK, ListStuck
    <3>2. CASE ~ListStuck(h)
      <4>1. hstuck'[g] \subseteq hstuck[g]
        <5>1. CASE Snapshot(h)
          BY <5>1 DEF BeatTypeOK, Snapshot
        <5>2. ASSUME NEW j \in Jobs, Requeue(h, j)
               PROVE  hstuck'[g] \subseteq hstuck[g]
          BY <5>2 DEF BeatTypeOK, Requeue
        <5> QED
          BY <1>4, <3>2, <5>1, <5>2 DEF BeatStep, Cleanup, RequeuePut,
             RequeueTrack
      <4> QED BY <4>1 DEF AllKnown, BeatTypeOK
    <3> QED BY <3>1, <3>2
  <2>4. \A g \in Beats : hjob'[g] # NoJob => hjob'[g] \in Jobs /\ Known(hjob'[g])
    <3>1. ASSUME NEW j \in Jobs, Requeue(h, j)
          PROVE  \A g \in Beats : hjob'[g] # NoJob => hjob'[g] \in Jobs /\ Known(hjob'[g])
      BY <3>1 DEF AllKnown, BeatTypeOK, Requeue
    <3> QED
      BY <1>4, <3>1 DEF AllKnown, BeatTypeOK, BeatStep, Cleanup, ListStuck,
         Snapshot, RequeuePut, RequeueTrack
  <2> QED
    BY <1>0, <2>1, <2>2, <2>3, <2>4 DEF AllKnown, clientVars, WorkerTypeOK,
       ClientTypeOK, PoolTypeOK, HistoryTypeOK, Has
<1>5. CASE Environment
  <2>1. CASE Crash
    BY <1>0, <2>1 DEF Crash, AllKnown, Has, HistoryTypeOK
  <2>2. CASE ~Crash
    <3>1. /\ UNCHANGED <<queue, toMark, hjob, slotJob, printed>>
          /\ \A w \in Workers : wjob'[w] \in {wjob[w], NoJob}
          /\ \A c \in Clients : target'[c] \subseteq target[c]
          /\ \A h \in Beats : hstuck'[h] \subseteq hstuck[h]
      BY <1>5, <2>2 DEF Environment, GetOlder, StopWorkers, ExitWorker,
         WorkerFault, CancelFault, BeatFault, Fault, Drop, DeleteCopy,
         memVars, clientVars, beatVars, poolVars, workerVars, histVars,
         WorkerTypeOK, ClientTypeOK, BeatTypeOK
    <3> QED
      BY <1>0, <3>1 DEF AllKnown, WorkerTypeOK, ClientTypeOK, BeatTypeOK,
         PoolTypeOK, HistoryTypeOK, Has
  <2> QED BY <2>1, <2>2
<1>6. CASE UNCHANGED vars
  BY <1>6 DEF vars, dbVars, memVars, workerVars, clientVars, beatVars,
     poolVars, histVars, AllKnown, Known, Has
<1> QED BY <1>1, <1>2, <1>3, <1>4, <1>5, <1>6 DEF Next

-----------------------------------------------------------------------------
(* What 'completed' says, and which uploads are kept. *)

\* The worker still waits for its future, as far as it can see.
Waiting(w) == wpc[w] \in {"wait", "finish"} /\ result[w] \in {"none", "timeout"}

\* A future belongs to a worker that waits for it, and is in one place.
PoolInv ==
    /\ \A w \in pending : Waiting(w)
    /\ \A t \in Slots : slotOwner[t] # NoWorker =>
          /\ Waiting(slotOwner[t])
          /\ slotOwner[t] \notin pending
          /\ slotJob[t] = wjob[slotOwner[t]]
    /\ \A t, u \in Slots :
          slotOwner[t] = slotOwner[u] => t = u \/ slotOwner[t] = NoWorker

\* A worker knows of no success but that of the job it has.
ResultInv ==
    \A w \in Workers :
        /\ wpc[w] \in {"idle", "exited"} => result[w] = "none"
        /\ wpc[w] = "remove" => result[w] = "ok"
        /\ result[w] = "ok" => wjob[w] \in printed

\* Both hold at the start.
LEMMA PoolInit ==
  Init => PoolInv /\ ResultInv /\ CompletedWasPrinted /\ UploadKept
<1> SUFFICES ASSUME Init
             PROVE  PoolInv /\ ResultInv /\ CompletedWasPrinted /\ UploadKept
  OBVIOUS
<1>1. PoolInv
  BY DEF Init, PoolInv
<1>2. ResultInv
  BY DEF Init, ResultInv
<1>3. CompletedWasPrinted /\ UploadKept
  BY DEF Init, CompletedWasPrinted, UploadKept, Row
<1> QED BY <1>1, <1>2, <1>3

\* The pool's invariant is kept by the steps of a worker.
LEMMA PoolWorkerNext ==
  ASSUME TypeInv, PoolInv, NEW w \in Workers, WorkerStep(w)
  PROVE  PoolInv'
<1> USE DEF TypeInv, TypeOK, WorkerTypeOK, PoolTypeOK, PoolInv, Waiting
<1>1. CASE Get(w)
  BY <1>1, ConstantsAssumption DEF Get, Goto, Drop, DropOrRetry,
     DeleteCopy, poolVars
<1>2. CASE Discard(w)
  BY <1>2, ConstantsAssumption DEF Discard, Goto, Drop, DropOrRetry,
     DeleteCopy, poolVars
<1>3. CASE SkipCancelled(w)
  BY <1>3, ConstantsAssumption DEF SkipCancelled, Goto, Drop, DropOrRetry,
     DeleteCopy, poolVars
<1>4. CASE NotCancelled(w)
  BY <1>4, ConstantsAssumption DEF NotCancelled, Goto, Drop, DropOrRetry,
     DeleteCopy, poolVars
<1>5. CASE LoadJob(w)
  BY <1>5, ConstantsAssumption DEF LoadJob, Goto, Drop, DropOrRetry,
     DeleteCopy, poolVars
<1>6. CASE MarkPrinting(w)
  BY <1>6, ConstantsAssumption DEF MarkPrinting, Goto, Drop, DropOrRetry,
     DeleteCopy, poolVars
<1>7. CASE Recheck(w)
  BY <1>7, ConstantsAssumption DEF Recheck, Goto, Drop, DropOrRetry,
     DeleteCopy, poolVars
<1>8. CASE AbortCancelled(w)
  BY <1>8, ConstantsAssumption DEF AbortCancelled, Goto, Drop, DropOrRetry,
     DeleteCopy, poolVars
<1>9. CASE CopyFile(w)
  BY <1>9, ConstantsAssumption DEF CopyFile, Goto, Drop, DropOrRetry,
     DeleteCopy, poolVars
<1>10. CASE SubmitPrint(w)
  BY <1>10, ConstantsAssumption DEF SubmitPrint, Goto, Drop, DropOrRetry,
     DeleteCopy, poolVars
<1>11. CASE PollResult(w)
  BY <1>11, ConstantsAssumption DEF PollResult, Goto, Drop, DropOrRetry,
     DeleteCopy, poolVars
<1>12. CASE PollCancelled(w)
  BY <1>12, ConstantsAssumption DEF PollCancelled, Goto, Drop, DropOrRetry,
     DeleteCopy, poolVars
<1>13. CASE PollTimeout(w)
  BY <1>13, ConstantsAssumption DEF PollTimeout, Goto, Drop, DropOrRetry,
     DeleteCopy, poolVars
<1>14. CASE FinishOk(w)
  BY <1>14, ConstantsAssumption DEF FinishOk, Goto, Drop, DropOrRetry,
     DeleteCopy, poolVars
<1>15. CASE RemoveFile(w)
  BY <1>15, ConstantsAssumption DEF RemoveFile, Goto, Drop, DropOrRetry,
     DeleteCopy, poolVars
<1>16. CASE FinishBad(w)
  BY <1>16, ConstantsAssumption DEF FinishBad, Goto, Drop, DropOrRetry,
     DeleteCopy, poolVars
<1>17. CASE ExecuteException(w)
  BY <1>17, ConstantsAssumption DEF ExecuteException, Goto, Drop,
     DropOrRetry, DeleteCopy, poolVars
<1>18. CASE RetryAttempt(w)
  BY <1>18, ConstantsAssumption DEF RetryAttempt, Goto, Drop, DropOrRetry,
     DeleteCopy, poolVars
<1> QED
  BY <1>1, <1>2, <1>3, <1>4, <1>5, <1>6, <1>7, <1>8, <1>9, <1>10, <1>11,
     <1>12, <1>13, <1>14, <1>15, <1>16, <1>17, <1>18 DEF WorkerStep

\* And by all others.
LEMMA PoolNext ==
  ASSUME TypeInv, PoolInv, [Next]_vars
  PROVE  PoolInv'
<1> USE DEF TypeInv, TypeOK, WorkerTypeOK, PoolTypeOK
<1>0. UNCHANGED <<workerVars, poolVars>> => PoolInv'
  BY DEF workerVars, poolVars, PoolInv, Waiting
<1>1. ASSUME NEW w \in Workers, WorkerStep(w) PROVE PoolInv'
  BY <1>1, PoolWorkerNext
<1>2. ASSUME NEW c \in Clients, ClientRequest(c) \/ ClientStep(c) PROVE PoolInv'
  BY <1>0, <1>2 DEF ClientRequest, ClientStep, AddJob, RetryJob, CancelJob,
     CancelAllQueued, StartCancel, Put, Track, MarkCancelled, WriteCancelled
<1>3. ASSUME NEW t \in Slots, PoolStep(t) PROVE PoolInv'
  <2>1. ASSUME NEW w \in Workers, StartPrint(t, w) PROVE PoolInv'
    BY <2>1, ConstantsAssumption DEF StartPrint, workerVars, PoolInv, Waiting
  <2>2. ASSUME NEW o \in {"ok", "fail"}, FinishPrint(t, o) PROVE PoolInv'
    BY <2>2, ConstantsAssumption DEF FinishPrint, PoolInv, Waiting
  <2> QED BY <1>3, <2>1, <2>2 DEF PoolStep
<1>4. ASSUME NEW h \in Beats, BeatStep(h) PROVE PoolInv'
  BY <1>0, <1>4 DEF BeatStep, Cleanup, ListStuck, Snapshot, Requeue,
     RequeuePut, RequeueTrack
<1>5. CASE Environment
  <2>1. ASSUME NEW w \in Workers, WorkerFault(w) PROVE PoolInv'
    BY <2>1, ConstantsAssumption DEF WorkerFault, Goto, Drop, DeleteCopy,
       poolVars, PoolInv, Waiting
  <2>2. ASSUME NEW w \in Workers, ExitWorker(w) PROVE PoolInv'
    BY <2>2, ConstantsAssumption DEF ExitWorker, Goto, poolVars, PoolInv,
       Waiting
  <2>3. CASE Crash
    BY <2>3 DEF Crash, PoolInv, Waiting
  <2> QED
    BY <1>0, <1>5, <2>1, <2>2, <2>3 DEF Environment, GetOlder, StopWorkers,
       CancelFault, BeatFault
<1>6. CASE UNCHANGED vars
  BY <1>0, <1>6 DEF vars
<1> QED BY <1>1, <1>2, <1>3, <1>4, <1>5, <1>6 DEF Next

\* What a worker takes for a success was one.
LEMMA ResultNext ==
  ASSUME TypeInv, PoolInv, ResultInv, [Next]_vars
  PROVE  ResultInv'
<1> USE DEF TypeInv, TypeOK, WorkerTypeOK, PoolTypeOK
<1>0. UNCHANGED <<workerVars, printed>> => ResultInv'
  BY DEF workerVars, ResultInv
<1>1. ASSUME NEW w \in Workers, WorkerStep(w) PROVE ResultInv'
  <2>1. printed' = printed
    BY <1>1 DEF histVars, WorkerStep, Get, Discard, SkipCancelled,
       NotCancelled, LoadJob, MarkPrinting, Recheck, AbortCancelled, CopyFile,
       SubmitPrint, PollResult, PollCancelled, PollTimeout, FinishOk,
       RemoveFile, FinishBad, ExecuteException, RetryAttempt
  <2>2. CASE Get(w)
    BY <2>1, <2>2 DEF ResultInv, Get, Goto
  <2>3. CASE Drop(w)
    BY <2>1, <2>3 DEF ResultInv, Drop, Goto
  <2>4. CASE /\ wjob' = wjob
             /\ \E l \in WorkerPc \ {"idle", "exited", "remove"} : Goto(w, l)
             /\ \E r \in {"none", "timeout", result[w]} :
                   result' = [result EXCEPT ![w] = r]
    BY <2>1, <2>4 DEF ResultInv, Goto
  <2>5. CASE FinishOk(w)
    BY <2>1, <2>5 DEF ResultInv, FinishOk, Goto
  <2> QED
    BY <1>1, <2>2, <2>3, <2>4, <2>5 DEF WorkerPc, WorkerStep, Discard,
       SkipCancelled, NotCancelled, LoadJob, MarkPrinting, Recheck,
       AbortCancelled, CopyFile, SubmitPrint, PollResult, PollCancelled,
       PollTimeout, RemoveFile, FinishBad, ExecuteException, RetryAttempt,
       DropOrRetry, Goto
<1>2. ASSUME NEW c \in Clients, ClientRequest(c) \/ ClientStep(c) PROVE ResultInv'
  BY <1>0, <1>2 DEF histVars, ClientRequest, ClientStep, AddJob, RetryJob,
     CancelJob, CancelAllQueued, StartCancel, Put, Track, MarkCancelled,
     WriteCancelled
<1>3. ASSUME NEW t \in Slots, PoolStep(t) PROVE ResultInv'
  <2>1. ASSUME NEW w \in Workers, StartPrint(t, w) PROVE ResultInv'
    BY <1>0, <2>1 DEF StartPrint
  <2>2. ASSUME NEW o \in {"ok", "fail"}, FinishPrint(t, o) PROVE ResultInv'
    BY <2>2, ConstantsAssumption DEF FinishPrint, PoolInv, Waiting, ResultInv
  <2> QED BY <1>3, <2>1, <2>2 DEF PoolStep
<1>4. ASSUME NEW h \in Beats, BeatStep(h) PROVE ResultInv'
  BY <1>0, <1>4 DEF histVars, BeatStep, Cleanup, ListStuck, Snapshot,
     Requeue, RequeuePut, RequeueTrack
<1>5. CASE Environment
  <2>1. ASSUME NEW w \in Workers, WorkerFault(w) PROVE ResultInv'
    BY <2>1 DEF WorkerFault, Fault, Goto, Drop, ResultInv
  <2>2. ASSUME NEW w \in Workers, ExitWorker(w) PROVE ResultInv'
    BY <2>2 DEF ExitWorker, Goto, histVars, ResultInv
  <2>3. CASE Crash
    BY <2>3 DEF Crash, ResultInv
  <2> QED
    BY <1>0, <1>5, <2>1, <2>2, <2>3 DEF histVars, Environment, GetOlder,
       StopWorkers, CancelFault, BeatFault, Fault
<1>6. CASE UNCHANGED vars
  BY <1>0, <1>6 DEF vars, histVars
<1> QED BY <1>1, <1>2, <1>3, <1>4, <1>5, <1>6 DEF Next

\* Only the worker that saw a success writes 'completed'.
LEMMA CompletedNext ==
  ASSUME TypeInv, ResultInv, CompletedWasPrinted, [Next]_vars
  PROVE  CompletedWasPrinted'
<1> USE DEF TypeInv, TypeOK
<1>0. ASSUME printed \subseteq printed',
             \A j \in Jobs : status'[j] = "completed"
                                => status[j] = "completed" \/ j \in printed
      PROVE  CompletedWasPrinted'
  BY <1>0 DEF CompletedWasPrinted
<1>1. ASSUME NEW S, NEW s, NEW e, Update(S, s, e), s # "completed"
      PROVE  \A j \in Jobs : status'[j] = "completed" => status[j] = "completed"
  BY <1>1 DEF Update, DbTypeOK
<1>2. ASSUME NEW w \in Workers, WorkerStep(w) PROVE CompletedWasPrinted'
  <2>1. printed' = printed
    BY <1>2 DEF histVars, WorkerStep, Get, Discard, SkipCancelled,
       NotCancelled, LoadJob, MarkPrinting, Recheck, AbortCancelled, CopyFile,
       SubmitPrint, PollResult, PollCancelled, PollTimeout, FinishOk,
       RemoveFile, FinishBad, ExecuteException, RetryAttempt
  <2>2. CASE FinishOk(w)
    BY <1>0, <2>1, <2>2 DEF FinishOk, Update, ResultInv, DbTypeOK
  <2>3. CASE MarkPrinting(w) \/ RetryAttempt(w)
    BY <1>0, <1>1, <2>1, <2>3 DEF MarkPrinting, RetryAttempt
  <2>4. CASE AbortCancelled(w) \/ FinishBad(w) \/ ExecuteException(w)
    BY <1>0, <1>1, <2>1, <2>4 DEF AbortCancelled, FinishBad, ExecuteException
  <2> QED
    BY <1>0, <1>2, <2>1, <2>2, <2>3, <2>4 DEF dbVars, WorkerStep, Get,
       Discard, SkipCancelled, NotCancelled, LoadJob, Recheck, CopyFile,
       SubmitPrint, PollResult, PollCancelled, PollTimeout, RemoveFile
<1>3. ASSUME NEW c \in Clients, ClientRequest(c) \/ ClientStep(c)
      PROVE  CompletedWasPrinted'
  <2>1. printed' = printed
    BY <1>3 DEF histVars, ClientRequest, ClientStep, AddJob, RetryJob,
       CancelJob, CancelAllQueued, StartCancel, Put, Track, MarkCancelled,
       WriteCancelled
  <2>2. CASE WriteCancelled(c)
    BY <1>0, <1>1, <2>1, <2>2 DEF WriteCancelled
  <2>3. ASSUME NEW j \in Jobs, AddJob(c, j) PROVE CompletedWasPrinted'
    BY <1>0, <2>1, <2>3 DEF AddJob, DbTypeOK
  <2>4. ASSUME NEW j \in Jobs, NEW k \in Jobs, RetryJob(c, j, k)
        PROVE  CompletedWasPrinted'
    BY <1>0, <2>1, <2>4 DEF RetryJob, DbTypeOK
  <2> QED
    BY <1>0, <1>3, <2>1, <2>2, <2>3, <2>4 DEF dbVars, ClientRequest,
       ClientStep, CancelJob, CancelAllQueued, StartCancel, Put, Track,
       MarkCancelled
<1>4. ASSUME NEW t \in Slots, PoolStep(t) PROVE CompletedWasPrinted'
  BY <1>0, <1>4 DEF dbVars, PoolStep, StartPrint, FinishPrint
<1>5. ASSUME NEW h \in Beats, BeatStep(h) PROVE CompletedWasPrinted'
  <2>1. printed' = printed
    BY <1>5 DEF histVars, BeatStep, Cleanup, ListStuck, Snapshot, Requeue,
       RequeuePut, RequeueTrack
  <2>2. CASE Cleanup(h)
    BY <1>0, <2>1, <2>2 DEF Cleanup, DbTypeOK
  <2>3. ASSUME NEW j \in Jobs, Requeue(h, j) PROVE CompletedWasPrinted'
    BY <1>0, <1>1, <2>1, <2>3 DEF Requeue
  <2> QED
    BY <1>0, <1>5, <2>1, <2>2, <2>3 DEF dbVars, BeatStep, ListStuck,
       Snapshot, RequeuePut, RequeueTrack
<1>6. CASE Environment
  <2>1. printed' = printed
    BY <1>6 DEF histVars, Environment, GetOlder, StopWorkers, ExitWorker,
       WorkerFault, CancelFault, BeatFault, Crash, Fault
  <2>2. ASSUME NEW w \in Workers, WorkerFault(w) PROVE CompletedWasPrinted'
    <3>1. PendingWrite(w)
      BY <2>2 DEF WorkerFault
    <3>2. CASE wpc[w] = "finish" /\ result[w] = "ok"
      BY <1>0, <2>1, <3>1, <3>2 DEF PendingWrite, Update, ResultInv,
         DbTypeOK, dbVars
    <3>3. CASE ~(wpc[w] = "finish" /\ result[w] = "ok")
      BY <1>0, <1>1, <2>1, <3>1, <3>3 DEF PendingWrite, dbVars
    <3> QED BY <3>2, <3>3
  <2>3. CASE Crash
    BY <1>0, <2>1, <2>3 DEF Crash, DbTypeOK
  <2> QED
    BY <1>0, <1>6, <2>1, <2>2, <2>3 DEF dbVars, Environment, GetOlder,
       StopWorkers, ExitWorker, CancelFault, BeatFault
<1>7. CASE UNCHANGED vars
  BY <1>0, <1>7 DEF vars, dbVars, histVars
<1> QED BY <1>2, <1>3, <1>4, <1>5, <1>6, <1>7 DEF Next

\* Files go after a success only, and what was added since has its file.
LEMMA UploadNext ==
  ASSUME TypeInv, AllKnown, ResultInv, UploadKept, [Next]_vars
  PROVE  UploadKept'
<1> USE DEF TypeInv, TypeOK
<1>0. ASSUME path' = path, onDisk' = onDisk, printed \subseteq printed',
             \A j \in Jobs : Row(j)' => Row(j)
      PROVE  UploadKept'
  BY <1>0 DEF UploadKept
<1>1. ASSUME NEW S, NEW s, NEW e, Update(S, s, e)
      PROVE  \A j \in Jobs : Row(j)' => Row(j)
  BY <1>1 DEF Update, Row, DbTypeOK
<1>2. ASSUME NEW w \in Workers, WorkerStep(w) PROVE UploadKept'
  <2>1. printed' = printed /\ path' = path
    BY <1>2 DEF fileVars, histVars, WorkerStep, Get, Discard,
       SkipCancelled, NotCancelled, LoadJob, MarkPrinting, Recheck,
       AbortCancelled, CopyFile, SubmitPrint, PollResult, PollCancelled,
       PollTimeout, FinishOk, RemoveFile, FinishBad, ExecuteException,
       RetryAttempt
  <2>2. CASE RemoveFile(w)
    <3>1. wjob[w] \in printed
      BY <2>2 DEF RemoveFile, ResultInv
    <3>2. onDisk' = onDisk \ {path[wjob[w]]} /\ status' = status
      BY <2>2 DEF RemoveFile, dbVars
    <3> QED
      BY <2>1, <3>1, <3>2 DEF UploadKept, Row
  <2>3. CASE ~RemoveFile(w)
    <3>1. onDisk' = onDisk
      BY <1>2, <2>3 DEF fileVars, WorkerStep, Get, Discard, SkipCancelled,
         NotCancelled, LoadJob, MarkPrinting, Recheck, AbortCancelled,
         CopyFile, SubmitPrint, PollResult, PollCancelled, PollTimeout,
         FinishOk, FinishBad, ExecuteException, RetryAttempt
    <3>2. (\E S, s, e : Update(S, s, e)) \/ status' = status
      BY <1>2, <2>3 DEF dbVars, WorkerStep, Get, Discard, SkipCancelled,
         NotCancelled, LoadJob, MarkPrinting, Recheck, AbortCancelled,
         CopyFile, SubmitPrint, PollResult, PollCancelled, PollTimeout,
         FinishOk, FinishBad, ExecuteException, RetryAttempt
    <3> QED
      BY <1>0, <1>1, <2>1, <3>1, <3>2 DEF Row
  <2> QED BY <2>2, <2>3
<1>3. ASSUME NEW c \in Clients, ClientRequest(c) \/ ClientStep(c)
      PROVE  UploadKept'
  <2>1. printed' = printed
    BY <1>3 DEF histVars, ClientRequest, ClientStep, AddJob, RetryJob,
       CancelJob, CancelAllQueued, StartCancel, Put, Track, MarkCancelled,
       WriteCancelled
  <2>2. CASE WriteCancelled(c)
    BY <1>0, <1>1, <2>1, <2>2 DEF WriteCancelled, fileVars
  <2>3. ASSUME NEW j \in Jobs, AddJob(c, j) PROVE UploadKept'
    <3>1. \A k \in Jobs : k # j => path'[k] = path[k] /\ status'[k] = status[k]
      BY <2>3 DEF AddJob, DbTypeOK
    <3>2. path'[j] = j /\ onDisk' = onDisk \cup {j}
      BY <2>3 DEF AddJob, DbTypeOK
    <3>3. j \notin printed
      BY <2>3 DEF AddJob, AllKnown, Known
    <3> QED
      BY <2>1, <3>1, <3>2, <3>3 DEF UploadKept, Row, HistoryTypeOK
  <2>4. ASSUME NEW j \in Jobs, NEW k \in Jobs, RetryJob(c, j, k)
        PROVE  UploadKept'
    <3>1. \A i \in Jobs : i # k => path'[i] = path[i] /\ status'[i] = status[i]
      BY <2>4 DEF RetryJob, DbTypeOK
    <3>2. path'[k] = path[j] /\ onDisk' = onDisk /\ Row(j)
      BY <2>4 DEF RetryJob, DbTypeOK, Row
    <3>3. k \notin printed
      BY <2>4 DEF RetryJob, AllKnown, Known
    <3> QED
      BY <2>1, <3>1, <3>2, <3>3 DEF UploadKept, Row, HistoryTypeOK
  <2> QED
    BY <1>0, <1>3, <2>1, <2>2, <2>3, <2>4 DEF dbVars, fileVars, Row,
       ClientRequest, ClientStep, CancelJob, CancelAllQueued, StartCancel,
       Put, Track, MarkCancelled
<1>4. ASSUME NEW t \in Slots, PoolStep(t) PROVE UploadKept'
  BY <1>0, <1>4 DEF Row, dbVars, fileVars, PoolStep, StartPrint, FinishPrint
<1>5. ASSUME NEW h \in Beats, BeatStep(h) PROVE UploadKept'
  <2>1. printed' = printed /\ path' = path /\ onDisk' = onDisk
    BY <1>5 DEF histVars, fileVars, BeatStep, Cleanup, ListStuck, Snapshot,
       Requeue, RequeuePut, RequeueTrack
  <2>2. CASE Cleanup(h)
    BY <1>0, <2>1, <2>2 DEF Cleanup, Row, DbTypeOK
  <2>3. ASSUME NEW j \in Jobs, Requeue(h, j) PROVE UploadKept'
    BY <1>0, <1>1, <2>1, <2>3 DEF Requeue
  <2> QED
    BY <1>0, <1>5, <2>1, <2>2, <2>3 DEF dbVars, Row, BeatStep, ListStuck,
       Snapshot, RequeuePut, RequeueTrack
<1>6. CASE Environment
  <2>1. printed' = printed /\ path' = path /\ onDisk' = onDisk
    BY <1>6 DEF histVars, fileVars, Environment, GetOlder, StopWorkers,
       ExitWorker, WorkerFault, CancelFault, BeatFault, Crash, Fault
  <2>2. ASSUME NEW w \in Workers, WorkerFault(w) PROVE UploadKept'
    <3>1. (\E S, s, e : Update(S, s, e)) \/ status' = status
      BY <2>2 DEF WorkerFault, PendingWrite, dbVars
    <3> QED BY <1>0, <1>1, <2>1, <3>1 DEF Row
  <2>3. CASE Crash
    BY <1>0, <2>1, <2>3 DEF Crash, Row, DbTypeOK
  <2> QED
    BY <1>0, <1>6, <2>1, <2>2, <2>3 DEF dbVars, Row, Environment, GetOlder,
       StopWorkers, ExitWorker, CancelFault, BeatFault
<1>7. CASE UNCHANGED vars
  BY <1>0, <1>7 DEF vars, dbVars, fileVars, histVars, Row
<1> QED BY <1>2, <1>3, <1>4, <1>5, <1>6, <1>7 DEF Next

PrintInv == TypeInv /\ AllKnown /\ PoolInv /\ ResultInv

\* The invariant behind the two theorems below.
LEMMA PrintInvAlways == Spec => []PrintInv
<1>1. Init => PrintInv
  BY InitTypeInv, AllKnownInit, PoolInit DEF PrintInv
<1>2. PrintInv /\ [Next]_vars => PrintInv'
  BY NextTypeInv, AllKnownNext, PoolNext, ResultNext DEF PrintInv
<1> QED BY <1>1, <1>2, PTL DEF Spec

\* 'completed' means that the engine reported the document as printed: no
\* timeout, cancel, retry, recovery, crash or exception makes it a lie.
THEOREM CompletedCorrect == Spec => []CompletedWasPrinted
<1>1. Init => CompletedWasPrinted
  BY PoolInit
<1>2. PrintInv /\ CompletedWasPrinted /\ [Next]_vars => CompletedWasPrinted'
  BY CompletedNext DEF PrintInv
<1> QED BY <1>1, <1>2, PrintInvAlways, PTL DEF Spec

\* An upload is there until a job made from it was printed.
THEOREM UploadsKept == Spec => []UploadKept
<1>1. Init => UploadKept
  BY PoolInit
<1>2. PrintInv /\ UploadKept /\ [Next]_vars => UploadKept'
  BY UploadNext DEF PrintInv
<1> QED BY <1>1, <1>2, PrintInvAlways, PTL DEF Spec

-----------------------------------------------------------------------------
(* One owner per job, and cancels in time, while no job gets old. *)

\* Nothing is old enough for recover_stuck_jobs to requeue it.
NothingStuck == \A h \in Beats : hpc[h] \in {"idle", "list"}

\* The jobs a handler is about to put into the queue.
Incoming(c) == IF cpc[c] = "put" THEN target[c] ELSE {}

\* A job is in the queue, with a worker or about to be put there: one of them.
OneOwner ==
    /\ NothingStuck
    /\ Exclusive
    /\ \A c \in Clients : \A j \in Incoming(c) :
          ~Has(queue, j) /\ \A w \in Workers : wjob[w] # j
    /\ \A c, d \in Clients : Incoming(c) \cap Incoming(d) = {} \/ c = d

\* No entry twice, as Exclusive says of the queue.
Distinct(q) == \A i, k \in 1..Len(q) : q[i] = q[k] => i = k

\* An id that is not there yet makes no double.
LEMMA DistinctAppend ==
  ASSUME NEW q \in Seq(Jobs), NEW j \in Jobs, Distinct(q), ~Has(q, j)
  PROVE  Distinct(Append(q, j))
BY DEF Distinct, Has

\* The head of a queue without doubles is not in its tail.
LEMMA DistinctTail ==
  ASSUME NEW q \in Seq(Jobs), q # <<>>, Distinct(q)
  PROVE  Distinct(Tail(q)) /\ ~Has(Tail(q), Head(q))
BY DEF Distinct, Has

\* Exclusive, in these terms.
LEMMA ExclusiveIs ==
    Exclusive <=>
        /\ Distinct(queue)
        /\ \A v, w \in Workers : wjob[v] = wjob[w] => v = w \/ wjob[v] = NoJob
        /\ \A w \in Workers : ~Has(queue, wjob[w])
BY DEF Exclusive, Distinct, Has, InQueue

\* At boot nobody owns anything.
LEMMA OneOwnerInit == Init => OneOwner
<1> SUFFICES ASSUME Init PROVE OneOwner
  OBVIOUS
<1>1. Distinct(queue) /\ \A k : ~Has(queue, k)
  <2>1. queue = <<>>
    BY DEF Init
  <2> QED BY <2>1, HasEmpty DEF Distinct
<1>2. Exclusive
  BY <1>1, ExclusiveIs DEF Init
<1>3. \A c \in Clients : Incoming(c) = {}
  BY DEF Init, Incoming
<1>4. NothingStuck
  BY DEF Init, NothingStuck
<1> QED
  BY <1>2, <1>3, <1>4 DEF OneOwner

\* Every step moves a job from one owner to the next.
LEMMA OneOwnerNext ==
  ASSUME AgeLimit = 0, TypeInv, AllKnown, OneOwner, [Next]_vars
  PROVE  OneOwner'
<1> USE DEF TypeInv, TypeOK
<1>0. ASSUME NothingStuck', queue' = queue,
             \A w \in Workers : wjob'[w] \in {wjob[w], NoJob},
             \A c \in Clients : Incoming(c)' \subseteq Incoming(c)
      PROVE  OneOwner'
  <2>1. ~Has(queue, NoJob)
    BY ConstantsAssumption DEF Has, MemoryTypeOK
  <2>2. Exclusive'
    BY <1>0, <2>1, ExclusiveIs DEF OneOwner, Exclusive, InQueue, Has
  <2>3. \A c \in Clients : \A j \in Incoming(c) : j # NoJob
    BY ConstantsAssumption DEF Incoming, ClientTypeOK
  <2> QED
    BY <1>0, <2>2, <2>3 DEF OneOwner, Has
<1>1. ASSUME NEW w \in Workers, WorkerStep(w) PROVE OneOwner'
  <2>1. UNCHANGED <<hpc, cpc, target>>
    BY <1>1 DEF beatVars, clientVars, WorkerStep, Get, Discard,
       SkipCancelled, NotCancelled, LoadJob, MarkPrinting, Recheck,
       AbortCancelled, CopyFile, SubmitPrint, PollResult, PollCancelled,
       PollTimeout, FinishOk, RemoveFile, FinishBad, ExecuteException,
       RetryAttempt
  <2>2. CASE Get(w)
    <3>1. /\ queue' = Tail(queue)
          /\ wjob' = [wjob EXCEPT ![w] = Head(queue)]
          /\ Head(queue) \in Jobs
          /\ Distinct(Tail(queue)) /\ ~Has(Tail(queue), Head(queue))
          /\ \A k \in Jobs :
                Has(queue, k) <=> Has(Tail(queue), k) \/ k = Head(queue)
      BY <2>2, QueueType, HasTail, DistinctTail, ExclusiveIs DEF Get,
         OneOwner, MemoryTypeOK
    <3>2. /\ Distinct(queue')
          /\ \A v \in Workers : wjob'[v] # NoJob => ~Has(queue', wjob'[v])
          /\ \A u, v \in Workers :
                wjob'[u] = wjob'[v] => u = v \/ wjob'[u] = NoJob
      BY <3>1, ExclusiveIs DEF OneOwner, WorkerTypeOK
    <3>3. ~Has(queue', NoJob)
      BY <3>1, QueueType, ConstantsAssumption DEF Has, MemoryTypeOK, Get
    <3>4. Exclusive'
      BY <3>2, <3>3 DEF Exclusive, Distinct, Has, InQueue
    <3>5. \A c \in Clients : \A j \in Incoming(c) :
             ~Has(queue', j) /\ \A v \in Workers : wjob'[v] # j
      BY <3>1 DEF OneOwner, WorkerTypeOK, Incoming, ClientTypeOK
    <3> QED
      BY <2>1, <3>4, <3>5 DEF OneOwner, NothingStuck, Incoming, Has
  <2>3. CASE ~Get(w)
    <3>1. queue' = queue /\ \A v \in Workers : wjob'[v] \in {wjob[v], NoJob}
      BY <1>1, <2>3 DEF WorkerTypeOK, memVars, WorkerStep, Discard,
         SkipCancelled, NotCancelled, LoadJob, MarkPrinting, Recheck,
         AbortCancelled, CopyFile, SubmitPrint, PollResult, PollCancelled,
         PollTimeout, FinishOk, RemoveFile, FinishBad, ExecuteException,
         RetryAttempt, Drop, DropOrRetry
    <3> QED
      BY <1>0, <2>1, <3>1 DEF OneOwner, NothingStuck, Incoming
  <2> QED BY <2>2, <2>3
<1>2. ASSUME NEW c \in Clients, ClientRequest(c) \/ ClientStep(c) PROVE OneOwner'
  <2>1. UNCHANGED <<hpc, wjob>>
    BY <1>2 DEF beatVars, workerVars, ClientRequest, ClientStep, AddJob,
       RetryJob, CancelJob, CancelAllQueued, StartCancel, Put, Track,
       MarkCancelled, WriteCancelled
  <2>2. ASSUME NEW k \in Jobs, status[k] = "none", queue' = queue,
               cpc' = [cpc EXCEPT ![c] = "put"],
               target' = [target EXCEPT ![c] = {k}]
        PROVE  OneOwner'
    <3>1. /\ ~Has(queue, k)
          /\ \A w \in Workers : wjob[w] # k
          /\ \A d \in Clients : k \notin target[d]
      BY <2>2, ConstantsAssumption DEF AllKnown, Known
    <3>2. /\ Incoming(c)' = {k}
          /\ \A d \in Clients : d # c => Incoming(d)' = Incoming(d)
      BY <2>2 DEF Incoming, ClientTypeOK
    <3>3. \A d \in Clients : k \notin Incoming(d)
      BY <3>1 DEF Incoming
    <3>4. Exclusive'
      BY <2>1, <2>2 DEF OneOwner, Exclusive, InQueue
    <3>5. \A d \in Clients : \A j \in Incoming(d)' :
             ~Has(queue, j) /\ \A w \in Workers : wjob[w] # j
      BY <3>1, <3>2 DEF OneOwner
    <3>6. \A d, e \in Clients : Incoming(d)' \cap Incoming(e)' = {} \/ d = e
      BY <3>2, <3>3 DEF OneOwner
    <3> QED
      BY <2>1, <2>2, <3>4, <3>5, <3>6 DEF OneOwner, NothingStuck, Has
  <2>3. ASSUME NEW j \in Jobs, AddJob(c, j) PROVE OneOwner'
    BY <2>2, <2>3 DEF AddJob, memVars
  <2>4. ASSUME NEW j \in Jobs, NEW k \in Jobs, RetryJob(c, j, k) PROVE OneOwner'
    BY <2>2, <2>4 DEF RetryJob, memVars
  <2>5. CASE Put(c)
    <3>1. PICK j \in target[c] : queue' = Append(queue, j)
      BY <2>5 DEF Put
    <3>2. j \in Jobs /\ j \in Incoming(c)
      BY <2>5, <3>1 DEF Put, Incoming, ClientTypeOK
    <3>3. /\ Distinct(queue')
          /\ \A k \in Jobs : Has(queue', k) <=> Has(queue, k) \/ k = j
      BY <3>1, <3>2, HasAppend, DistinctAppend, ExclusiveIs DEF OneOwner,
         MemoryTypeOK
    <3>4. ~Has(queue', NoJob)
      BY <3>1, <3>2, QueueType, ConstantsAssumption DEF Has, MemoryTypeOK
    <3>5. Exclusive'
      <4>1. \A w \in Workers : ~Has(queue', wjob[w])
        BY <3>2, <3>3, <3>4, ExclusiveIs DEF OneOwner, WorkerTypeOK
      <4> QED
        BY <2>1, <3>3, <4>1, ExclusiveIs DEF OneOwner, Exclusive, Distinct,
           Has, InQueue
    <3>6. \A d \in Clients : Incoming(d)' = IF d = c THEN {} ELSE Incoming(d)
      BY <2>5 DEF Put, Incoming, ClientTypeOK
    <3>7. \A d \in Clients : \A k \in Incoming(d)' :
             ~Has(queue', k) /\ \A w \in Workers : wjob[w] # k
      BY <3>2, <3>3, <3>6 DEF OneOwner, Incoming, ClientTypeOK
    <3>8. \A d, e \in Clients : Incoming(d)' \cap Incoming(e)' = {} \/ d = e
      BY <3>6 DEF OneOwner
    <3> QED
      BY <2>1, <3>5, <3>7, <3>8 DEF OneOwner, NothingStuck, Has
  <2>6. ASSUME UNCHANGED queue,
               \A d \in Clients : Incoming(d)' \subseteq Incoming(d)
        PROVE  OneOwner'
    BY <1>0, <2>1, <2>6 DEF OneOwner, NothingStuck
  <2>7. CASE Track(c) \/ WriteCancelled(c) \/ \E j \in Jobs : MarkCancelled(c, j)
    BY <2>6, <2>7 DEF Track, WriteCancelled, MarkCancelled, memVars,
       Incoming, ClientTypeOK
  <2>8. CASE CancelAllQueued(c) \/ \E j \in Jobs : CancelJob(c, j)
    BY <2>6, <2>8 DEF CancelAllQueued, CancelJob, StartCancel, memVars,
       Incoming, ClientTypeOK
  <2> QED
    BY <1>2, <2>3, <2>4, <2>5, <2>7, <2>8 DEF ClientRequest, ClientStep
<1>3. ASSUME NEW t \in Slots, PoolStep(t) PROVE OneOwner'
  BY <1>0, <1>3 DEF OneOwner, NothingStuck, Incoming, memVars, workerVars,
     clientVars, beatVars, PoolStep, StartPrint, FinishPrint
<1>4. ASSUME NEW h \in Beats, BeatStep(h) PROVE OneOwner'
  <2>1. UNCHANGED <<queue, wjob, cpc, target>>
    <3>1. hpc[h] \in {"idle", "list"}
      BY DEF OneOwner, NothingStuck
    <3>2. Cleanup(h) \/ ListStuck(h)
      BY <1>4, <3>1 DEF BeatStep, Snapshot, Requeue, RequeuePut, RequeueTrack
    <3> QED
      BY <3>2 DEF memVars, workerVars, clientVars, Cleanup, ListStuck
  <2>2. \A j \in Jobs : ~(age[j] >= 1)
    <3>1. TAKE j \in Jobs
    <3>2. age[j] \in 0..AgeLimit
      BY DEF DbTypeOK
    <3>3. AgeLimit = 0
      OBVIOUS
    <3> QED
      BY ONLY <3>2, <3>3
  <2>3. NothingStuck'
    <3>1. CASE ListStuck(h)
      <4>1. hstuck'[h] = {}
        BY <2>2, <3>1 DEF ListStuck, BeatTypeOK
      <4> QED BY <3>1, <4>1 DEF ListStuck, OneOwner, NothingStuck, BeatTypeOK
    <3>2. CASE Cleanup(h)
      BY <3>2 DEF Cleanup, OneOwner, NothingStuck, BeatTypeOK
    <3> QED
      BY <1>4, <3>1, <3>2 DEF OneOwner, NothingStuck, BeatStep, Snapshot,
         Requeue, RequeuePut, RequeueTrack
  <2> QED
    BY <1>0, <2>1, <2>3 DEF Incoming
<1>5. CASE Environment
  <2>1. CASE Crash
    <3>1. Distinct(queue') /\ \A k : ~Has(queue', k)
      BY <2>1, HasEmpty DEF Crash, Distinct
    <3>2. Exclusive'
      BY <2>1, <3>1 DEF Crash, Exclusive, Distinct, Has, InQueue
    <3> QED
      BY <2>1, <3>1, <3>2 DEF Crash, OneOwner, NothingStuck, Incoming, Has
  <2>2. CASE ~Crash
    <3>1. queue' = queue
      BY <1>5, <2>2 DEF memVars, Environment, GetOlder, StopWorkers,
         ExitWorker, WorkerFault, CancelFault, BeatFault, Fault
    <3>2. \A w \in Workers : wjob'[w] \in {wjob[w], NoJob}
      BY <1>5, <2>2 DEF WorkerTypeOK, workerVars, Environment, GetOlder,
         StopWorkers, ExitWorker, WorkerFault, CancelFault, BeatFault, Drop
    <3>3. \A c \in Clients : Incoming(c)' \subseteq Incoming(c)
      BY <1>5, <2>2 DEF Incoming, ClientTypeOK, clientVars, Environment,
         GetOlder, StopWorkers, ExitWorker, WorkerFault, CancelFault,
         BeatFault
    <3>4. NothingStuck'
      BY <1>5, <2>2 DEF OneOwner, NothingStuck, BeatTypeOK, beatVars,
         Environment, GetOlder, StopWorkers, ExitWorker, WorkerFault,
         CancelFault, BeatFault
    <3> QED BY <1>0, <3>1, <3>2, <3>3, <3>4
  <2> QED BY <2>1, <2>2
<1>6. CASE UNCHANGED vars
  BY <1>0, <1>6 DEF vars, memVars, workerVars, clientVars, beatVars,
     OneOwner, NothingStuck, Incoming
<1> QED BY <1>1, <1>2, <1>3, <1>4, <1>5, <1>6 DEF Next

\* While no job is five minutes old, a job is in one place: whatever requests,
\* retries, timeouts, exceptions and crashes come, no two workers have the
\* same job and no worker's job is in the queue.
THEOREM ExclusiveWhileYoung ==
  ASSUME AgeLimit = 0
  PROVE  Spec => []Exclusive
<1>1. Init => OneOwner
  BY OneOwnerInit
<1>2. PrintInv /\ OneOwner /\ [Next]_vars => OneOwner'
  BY OneOwnerNext DEF PrintInv
<1>3. OneOwner => Exclusive
  BY DEF OneOwner
<1> QED BY <1>1, <1>2, <1>3, PrintInvAlways, PTL DEF Spec

-----------------------------------------------------------------------------
(* A cancel in time is honoured. *)

\* The job is out of the system.
Gone(j) ==
    /\ ~Has(queue, j)
    /\ \A w \in Workers : wjob[w] # j
    /\ \A c \in Clients : j \notin Incoming(c)

\* A doomed job keeps its mark as long as somebody may still take it up, and
\* a worker that has it has a look at the marks ahead.
DoomInv ==
    /\ \A c \in Clients : \A j \in toMark[c] : Known(j)
    /\ \A j \in doomed : Known(j)
    /\ \A j \in doomed : j \in cancelledIds \/ Gone(j)
    /\ \A w \in Workers : wjob[w] \in doomed => wpc[w] \in BeforePrint

\* The lemma behind it: only recover_stuck_jobs brings a job back.
LEMMA GoneForever ==
  ASSUME TypeInv, OneOwner, [Next]_vars, NEW j \in Jobs, Known(j), Gone(j)
  PROVE  Gone(j)'
<1> USE DEF TypeInv, TypeOK
<1>0. ASSUME \/ queue' = queue
             \/ queue # <<>> /\ queue' = Tail(queue),
             \A w \in Workers : wjob'[w] # j,
             \A c \in Clients : j \notin Incoming(c)'
      PROVE  Gone(j)'
  <2>1. CASE queue' = queue
    BY <1>0, <2>1 DEF Gone, Has
  <2>2. CASE queue # <<>> /\ queue' = Tail(queue)
    <3>1. ~Has(Tail(queue), j)
      BY <2>2, HasTail DEF Gone, MemoryTypeOK
    <3>2. ~Has(queue', j)
      BY <2>2, <3>1
    <3> QED
      BY <1>0, <3>2 DEF Gone, Has
  <2> QED BY <1>0, <2>1, <2>2
<1>1. ASSUME NEW w \in Workers, WorkerStep(w) PROVE Gone(j)'
  <2>1. UNCHANGED <<cpc, target>>
    BY <1>1 DEF clientVars, WorkerStep, Get, Discard, SkipCancelled,
       NotCancelled, LoadJob, MarkPrinting, Recheck, AbortCancelled, CopyFile,
       SubmitPrint, PollResult, PollCancelled, PollTimeout, FinishOk,
       RemoveFile, FinishBad, ExecuteException, RetryAttempt
  <2>2. CASE Get(w)
    <3>1. queue # <<>> /\ Head(queue) # j
      BY <2>2, HasTail DEF Get, Gone, MemoryTypeOK
    <3> QED
      BY <1>0, <2>1, <2>2, <3>1 DEF Get, Gone, Incoming, WorkerTypeOK
  <2>3. CASE ~Get(w)
    <3>1. queue' = queue /\ \A v \in Workers : wjob'[v] \in {wjob[v], NoJob}
      BY <1>1, <2>3 DEF WorkerTypeOK, memVars, WorkerStep, Discard,
         SkipCancelled, NotCancelled, LoadJob, MarkPrinting, Recheck,
         AbortCancelled, CopyFile, SubmitPrint, PollResult, PollCancelled,
         PollTimeout, FinishOk, RemoveFile, FinishBad, ExecuteException,
         RetryAttempt, Drop, DropOrRetry
    <3> QED
      BY <1>0, <2>1, <3>1, ConstantsAssumption DEF Gone, Incoming
  <2> QED BY <2>2, <2>3
<1>2. ASSUME NEW c \in Clients, ClientRequest(c) \/ ClientStep(c)
      PROVE  Gone(j)'
  <2>1. wjob' = wjob
    BY <1>2 DEF workerVars, ClientRequest, ClientStep, AddJob, RetryJob,
       CancelJob, CancelAllQueued, StartCancel, Put, Track, MarkCancelled,
       WriteCancelled
  <2>2. \A d \in Clients : j \notin Incoming(d)'
    BY <1>2 DEF Gone, Known, Incoming, ClientTypeOK, ClientRequest,
       ClientStep, AddJob, RetryJob, CancelJob, CancelAllQueued, StartCancel,
       Put, Track, MarkCancelled, WriteCancelled
  <2>3. CASE Put(c)
    <3>1. PICK k \in target[c] : queue' = Append(queue, k)
      BY <2>3 DEF Put
    <3>2. k \in Jobs /\ k # j
      BY <2>3, <3>1 DEF Put, Gone, Incoming, ClientTypeOK
    <3>3. ~Has(queue', j)
      BY <3>1, <3>2, HasAppend DEF Gone, MemoryTypeOK
    <3> QED
      BY <2>1, <2>2, <3>3 DEF Gone, Has
  <2>4. CASE ~Put(c)
    <3>1. queue' = queue
      BY <1>2, <2>4 DEF memVars, ClientRequest, ClientStep, AddJob,
         RetryJob, CancelJob, CancelAllQueued, StartCancel, Track,
         MarkCancelled, WriteCancelled
    <3> QED
      BY <1>0, <2>1, <2>2, <3>1 DEF Gone
  <2> QED BY <2>3, <2>4
<1>3. ASSUME NEW t \in Slots, PoolStep(t) PROVE Gone(j)'
  <2>1. UNCHANGED <<queue, wjob, cpc, target>>
    BY <1>3 DEF memVars, workerVars, clientVars, PoolStep, StartPrint,
       FinishPrint
  <2> QED
    BY <1>0, <2>1 DEF Gone, Incoming
<1>4. ASSUME NEW h \in Beats, BeatStep(h) PROVE Gone(j)'
  <2>1. hpc[h] \in {"idle", "list"}
    BY DEF OneOwner, NothingStuck
  <2>2. Cleanup(h) \/ ListStuck(h)
    BY <1>4, <2>1 DEF BeatStep, Snapshot, Requeue, RequeuePut, RequeueTrack
  <2>3. UNCHANGED <<queue, wjob, cpc, target>>
    BY <2>2 DEF memVars, workerVars, clientVars, Cleanup, ListStuck
  <2> QED
    BY <1>0, <2>3 DEF Gone, Incoming
<1>5. CASE Environment
  <2>1. CASE Crash
    <3>1. queue' = <<>> /\ \A w \in Workers : wjob'[w] # j
      BY <2>1, ConstantsAssumption DEF Crash
    <3>2. ~Has(queue', j)
      BY <3>1, HasEmpty
    <3> QED
      BY <2>1, <3>1, <3>2 DEF Crash, Gone, Incoming, Has
  <2>2. CASE ~Crash
    <3>1. queue' = queue
      BY <1>5, <2>2 DEF memVars, Environment, GetOlder, StopWorkers,
         ExitWorker, WorkerFault, CancelFault, BeatFault, Fault
    <3>2. \A w \in Workers : wjob'[w] \in {wjob[w], NoJob}
      BY <1>5, <2>2 DEF WorkerTypeOK, workerVars, Environment, GetOlder,
         StopWorkers, ExitWorker, WorkerFault, CancelFault, BeatFault, Drop
    <3>3. \A c \in Clients : Incoming(c)' \subseteq Incoming(c)
      BY <1>5, <2>2 DEF Incoming, ClientTypeOK, clientVars, Environment,
         GetOlder, StopWorkers, ExitWorker, WorkerFault, CancelFault,
         BeatFault
    <3> QED
      BY <1>0, <3>1, <3>2, <3>3, ConstantsAssumption DEF Gone
  <2> QED BY <2>1, <2>2
<1>6. CASE UNCHANGED vars
  BY <1>0, <1>6 DEF vars, memVars, workerVars, clientVars, Gone, Incoming
<1> QED BY <1>1, <1>2, <1>3, <1>4, <1>5, <1>6 DEF Next

\* Every step keeps the marks that are still needed.
LEMMA DoomNext ==
  ASSUME AgeLimit = 0, TypeInv, AllKnown, OneOwner, DoomInv, [Next]_vars
  PROVE  DoomInv'
<1> USE DEF TypeInv, TypeOK
<1>0. ASSUME cancelledIds \subseteq cancelledIds',
             doomed' = doomed,
             \A c \in Clients : \A j \in toMark'[c] : j \in Jobs /\ Known(j),
             \A w \in Workers :
                wjob'[w] \in doomed => wpc'[w] \in BeforePrint
      PROVE  DoomInv'
  <2>1. \A j \in Jobs : Known(j) => Known(j)'
    BY KnownForever
  <2>2. \A j \in doomed : j \in Jobs /\ Known(j)
    BY DEF DoomInv, HistoryTypeOK
  <2>3. \A j \in doomed : Gone(j) => Gone(j)'
    BY <2>2, GoneForever
  <2> QED
    BY <1>0, <2>1, <2>2, <2>3 DEF DoomInv
<1>1. ASSUME NEW w \in Workers, WorkerStep(w) PROVE DoomInv'
  <2>1. UNCHANGED <<toMark, doomed>>
    BY <1>1 DEF clientVars, histVars, WorkerStep, Get, Discard,
       SkipCancelled, NotCancelled, LoadJob, MarkPrinting, Recheck,
       AbortCancelled, CopyFile, SubmitPrint, PollResult, PollCancelled,
       PollTimeout, FinishOk, RemoveFile, FinishBad, ExecuteException,
       RetryAttempt
  <2>2. \A c \in Clients : \A j \in toMark'[c] : j \in Jobs /\ Known(j)
    BY <2>1 DEF DoomInv, ClientTypeOK
  <2>3. wjob[w] \in doomed => wjob[w] \in cancelledIds
    BY DEF DoomInv, Gone
  <2>4. CASE SkipCancelled(w)
    <3>1. /\ wjob'[w] = NoJob
          /\ \A v \in Workers : v # w => wjob'[v] = wjob[v]
          /\ \A v \in Workers : v # w => wpc'[v] = wpc[v]
          /\ cancelledIds' = cancelledIds \ {wjob[w]}
          /\ UNCHANGED <<queue, cpc, target>>
      BY <2>4 DEF SkipCancelled, Drop, Goto, WorkerTypeOK, clientVars
    <3>2. PICK k \in Jobs : wjob[w] = k
      BY <2>4 DEF SkipCancelled, WorkerTypeOK
    <3>3. Gone(k)'
      <4>1. ~Has(queue, k)
        BY <3>2, ExclusiveIs DEF OneOwner
      <4>2. \A v \in Workers : wjob'[v] # k
        BY <3>1, <3>2, ExclusiveIs, ConstantsAssumption DEF OneOwner
      <4>3. \A c \in Clients : k \notin Incoming(c)
        BY <3>2 DEF OneOwner
      <4>4. ~Has(queue', k)
        BY <3>1, <4>1 DEF Has
      <4> QED
        BY <3>1, <4>2, <4>3, <4>4 DEF Gone, Has, Incoming
    <3>4. \A j \in Jobs : Known(j) => Known(j)'
      BY KnownForever
    <3>5. \A j \in doomed : j \in Jobs /\ Known(j)
      BY DEF DoomInv, HistoryTypeOK
    <3>6. \A j \in doomed : Gone(j) => Gone(j)'
      BY <3>5, GoneForever
    <3>7. \A j \in doomed : j \in cancelledIds' \/ Gone(j)'
      BY <3>1, <3>2, <3>3, <3>6 DEF DoomInv
    <3>8. \A v \in Workers : wjob'[v] \in doomed => wpc'[v] \in BeforePrint
      BY <3>1, <3>5, ConstantsAssumption DEF DoomInv
    <3> QED
      BY <2>1, <2>2, <3>4, <3>5, <3>7, <3>8 DEF DoomInv
  <2>5. CASE ~SkipCancelled(w)
    <3>1. cancelledIds' = cancelledIds
      BY <1>1, <2>5 DEF memVars, WorkerStep, Get, Discard, NotCancelled,
         LoadJob, MarkPrinting, Recheck, AbortCancelled, CopyFile,
         SubmitPrint, PollResult, PollCancelled, PollTimeout, FinishOk,
         RemoveFile, FinishBad, ExecuteException, RetryAttempt
    <3>2. \A v \in Workers : v # w => wjob'[v] = wjob[v] /\ wpc'[v] = wpc[v]
      BY <1>1 DEF WorkerTypeOK, WorkerStep, Get, Discard, SkipCancelled,
         NotCancelled, LoadJob, MarkPrinting, Recheck, AbortCancelled,
         CopyFile, SubmitPrint, PollResult, PollCancelled, PollTimeout,
         FinishOk, RemoveFile, FinishBad, ExecuteException, RetryAttempt,
         Drop, DropOrRetry, Goto
    <3>3. wjob'[w] \in doomed => wpc'[w] \in BeforePrint
      <4>1. NoJob \notin doomed
        BY ConstantsAssumption DEF HistoryTypeOK
      <4>2. CASE Get(w) \/ Discard(w) \/ MarkPrinting(w) \/ RetryAttempt(w)
        BY <4>2 DEF WorkerTypeOK, BeforePrint, Get, Discard, MarkPrinting,
           RetryAttempt, Goto
      <4>3. CASE NotCancelled(w) \/ LoadJob(w) \/ Recheck(w)
        BY <2>3, <4>1, <4>3 DEF WorkerTypeOK, BeforePrint, NotCancelled,
           LoadJob, Recheck, Drop, Goto
      <4>4. CASE AbortCancelled(w) \/ RemoveFile(w) \/ PollCancelled(w)
        BY <4>1, <4>4 DEF WorkerTypeOK, AbortCancelled, RemoveFile,
           PollCancelled, Drop, Goto
      <4>5. CASE CopyFile(w) \/ SubmitPrint(w) \/ PollResult(w) \/ PollTimeout(w)
                   \/ FinishOk(w) \/ FinishBad(w) \/ ExecuteException(w)
        <5>1. wpc[w] \notin BeforePrint
          BY <4>5 DEF BeforePrint, CopyFile, SubmitPrint, PollResult,
             PollTimeout, FinishOk, FinishBad, ExecuteException
        <5>2. wjob[w] \notin doomed
          BY <5>1 DEF DoomInv
        <5>3. wjob'[w] \in {wjob[w], NoJob}
          BY <4>5 DEF WorkerTypeOK, CopyFile, SubmitPrint, PollResult,
             PollTimeout, FinishOk, FinishBad, ExecuteException, DropOrRetry,
             Drop
        <5> QED BY <4>1, <5>2, <5>3
      <4> QED
        BY <1>1, <2>5, <4>2, <4>3, <4>4, <4>5 DEF WorkerStep
    <3>4. \A v \in Workers : wjob'[v] \in doomed => wpc'[v] \in BeforePrint
      BY <3>2, <3>3 DEF DoomInv
    <3> QED
      BY <1>0, <2>1, <2>2, <3>1, <3>4
  <2> QED BY <2>4, <2>5
<1>2. ASSUME NEW c \in Clients, ClientRequest(c) \/ ClientStep(c) PROVE DoomInv'
  <2>1. UNCHANGED workerVars
    BY <1>2 DEF ClientRequest, ClientStep, AddJob, RetryJob, CancelJob,
       CancelAllQueued, StartCancel, Put, Track, MarkCancelled, WriteCancelled
  <2>2. \A d \in Clients : \A j \in toMark'[d] : j \in Jobs /\ Known(j)
    <3>1. CASE CancelAllQueued(c) \/ \E j \in Jobs : CancelJob(c, j)
      BY <3>1 DEF CancelAllQueued, CancelJob, StartCancel, Known, DoomInv,
         ClientTypeOK
    <3>2. CASE \E j \in Jobs : MarkCancelled(c, j)
      BY <3>2 DEF MarkCancelled, DoomInv, ClientTypeOK
    <3>3. CASE \/ Put(c) \/ Track(c) \/ WriteCancelled(c)
               \/ \E j \in Jobs : AddJob(c, j)
               \/ \E j, k \in Jobs : RetryJob(c, j, k)
      BY <3>3 DEF Put, Track, WriteCancelled, AddJob, RetryJob, DoomInv,
         ClientTypeOK
    <3> QED
      BY <1>2, <3>1, <3>2, <3>3 DEF ClientRequest, ClientStep
  <2>3. ASSUME NEW j \in Jobs, MarkCancelled(c, j) PROVE DoomInv'
    <3>1. /\ cancelledIds' = cancelledIds \cup {j}
          /\ doomed' \in {doomed, doomed \cup {j}}
          /\ j \in doomed' =>
                \/ j \in doomed
                \/ \A w \in Workers : wjob[w] = j => wpc[w] \in BeforePrint
      BY <2>3 DEF MarkCancelled
    <3>2. Known(j)
      BY <2>3 DEF MarkCancelled, DoomInv
    <3>3. \A k \in Jobs : Known(k) => Known(k)'
      BY KnownForever
    <3>4. \A k \in doomed : k \in Jobs /\ Known(k)
      BY DEF DoomInv, HistoryTypeOK
    <3>5. \A k \in doomed : Gone(k) => Gone(k)'
      BY <3>4, GoneForever
    <3>6. \A w \in Workers : wjob'[w] \in doomed' => wpc'[w] \in BeforePrint
      BY <2>1, <3>1 DEF workerVars, DoomInv
    <3> QED
      BY <2>2, <3>1, <3>2, <3>3, <3>4, <3>5, <3>6 DEF DoomInv
  <2>4. CASE ~\E j \in Jobs : MarkCancelled(c, j)
    <3>1. UNCHANGED <<cancelledIds, doomed>>
      BY <1>2, <2>4 DEF memVars, histVars, ClientRequest, ClientStep,
         AddJob, RetryJob, CancelJob, CancelAllQueued, StartCancel, Put,
         Track, WriteCancelled
    <3> QED
      BY <1>0, <2>1, <2>2, <3>1 DEF workerVars, DoomInv
  <2> QED BY <2>3, <2>4
<1>3. ASSUME NEW t \in Slots, PoolStep(t) PROVE DoomInv'
  <2>1. UNCHANGED <<cancelledIds, doomed, toMark, wjob, wpc>>
    BY <1>3 DEF memVars, workerVars, clientVars, PoolStep, StartPrint,
       FinishPrint
  <2> QED
    BY <1>0, <2>1 DEF DoomInv, ClientTypeOK
<1>4. ASSUME NEW h \in Beats, BeatStep(h) PROVE DoomInv'
  <2>1. UNCHANGED <<cancelledIds, doomed, toMark, wjob, wpc>>
    BY <1>4 DEF memVars, workerVars, clientVars, histVars, BeatStep,
       Cleanup, ListStuck, Snapshot, Requeue, RequeuePut, RequeueTrack
  <2> QED
    BY <1>0, <2>1 DEF DoomInv, ClientTypeOK
<1>5. CASE Environment
  <2>1. CASE Crash
    <3>1. /\ queue' = <<>>
          /\ \A w \in Workers : wjob'[w] = NoJob
          /\ \A c \in Clients : toMark'[c] = {}
          /\ \A c \in Clients : cpc'[c] = "idle"
          /\ doomed' = doomed
      BY <2>1 DEF Crash
    <3>2. \A j \in doomed : j \in Jobs /\ Known(j)'
      BY KnownForever DEF DoomInv, HistoryTypeOK
    <3>3. \A j \in doomed : Gone(j)'
      <4>1. TAKE j \in doomed
      <4>2. ~Has(queue', j)
        BY <3>1, HasEmpty
      <4>3. \A w \in Workers : wjob'[w] # j
        BY <3>1, <3>2, ConstantsAssumption
      <4> QED
        BY <3>1, <4>2, <4>3 DEF Gone, Incoming, Has
    <3>4. \A w \in Workers : wjob'[w] \notin doomed
      BY <3>1, <3>2, ConstantsAssumption
    <3> QED
      BY <3>1, <3>2, <3>3, <3>4 DEF DoomInv
  <2>2. CASE ~Crash
    <3>1. UNCHANGED <<cancelledIds, doomed>>
      BY <1>5, <2>2 DEF memVars, histVars, Environment, GetOlder,
         StopWorkers, ExitWorker, WorkerFault, CancelFault, BeatFault, Fault
    <3>2. toMark' = toMark
      BY <1>5, <2>2 DEF clientVars, Environment, GetOlder, StopWorkers,
         ExitWorker, WorkerFault, CancelFault, BeatFault
    <3>3. \A w \in Workers : wjob'[w] \in doomed => wpc'[w] \in BeforePrint
      <4>1. NoJob \notin doomed
        BY ConstantsAssumption DEF HistoryTypeOK
      <4>2. ASSUME NEW v \in Workers, WorkerFault(v)
            PROVE  \A w \in Workers :
                      wjob'[w] \in doomed => wpc'[w] \in BeforePrint
        <5>1. CASE wpc[v] \in {"copy", "finish"}
          BY <4>2, <5>1 DEF WorkerFault, Goto, WorkerTypeOK, DoomInv,
             BeforePrint
        <5>2. CASE wpc[v] \notin {"copy", "finish"}
          BY <4>1, <4>2, <5>2 DEF WorkerFault, Drop, Goto, WorkerTypeOK,
             DoomInv
        <5> QED BY <5>1, <5>2
      <4>3. ASSUME NEW v \in Workers, ExitWorker(v)
            PROVE  \A w \in Workers :
                      wjob'[w] \in doomed => wpc'[w] \in BeforePrint
        BY <4>1, <4>3 DEF ExitWorker, Goto, WorkerTypeOK, DoomInv
      <4>4. CASE UNCHANGED workerVars
        BY <4>4 DEF workerVars, DoomInv
      <4> QED
        BY <1>5, <2>2, <4>2, <4>3, <4>4 DEF Environment, GetOlder,
           StopWorkers, CancelFault, BeatFault
    <3> QED
      BY <1>0, <3>1, <3>2, <3>3 DEF DoomInv, ClientTypeOK
  <2> QED BY <2>1, <2>2
<1>6. CASE UNCHANGED vars
  BY <1>0, <1>6 DEF vars, memVars, workerVars, clientVars, histVars,
     DoomInv, ClientTypeOK
<1> QED BY <1>1, <1>2, <1>3, <1>4, <1>5, <1>6 DEF Next

\* While no job is five minutes old, a job that was marked cancelled before a
\* worker was past its second look at cancelled_ids is never printed, whatever
\* comes between the two looks.
THEOREM CancelHonouredWhileYoung ==
  ASSUME AgeLimit = 0
  PROVE  Spec => []CancelHonoured
<1>1. Init => OneOwner /\ DoomInv
  <2>1. ASSUME Init PROVE DoomInv
    BY <2>1 DEF Init, DoomInv
  <2> QED BY <2>1, OneOwnerInit
<1>2. PrintInv /\ OneOwner /\ DoomInv /\ [Next]_vars
        => OneOwner' /\ DoomInv'
  BY OneOwnerNext, DoomNext DEF PrintInv
<1>3. DoomInv => CancelHonoured
  BY DEF DoomInv, CancelHonoured, BeforePrint, InPrint
<1> QED BY <1>1, <1>2, <1>3, PrintInvAlways, PTL DEF Spec
=============================================================================
