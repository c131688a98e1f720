--------------------------- MODULE JobQueueProofs ---------------------------
(***************************************************************************)
(* Proofs about JobQueue for any number of jobs, workers, pool threads,    *)
(* clients and heartbeats.                                                 *)
(***************************************************************************)
EXTENDS JobQueue, TLAPS

-----------------------------------------------------------------------------
(* Type correctness. *)

\* What TypeOK needs to be inductive: a worker at "retry" has an attempt left.
AttemptLeft == \A w \in Workers : wpc[w] = "retry" => attempt[w] < MaxRetries
TypeInv == TypeOK /\ AttemptLeft

\* What Init starts from lies in the types.
LEMMA InitialValues ==
    /\ 0 \in 0..AgeLimit
    /\ 0 \in 0..MaxRetries
    /\ 0 \in 0..(MaxRetries + 2)
    /\ 0 \in 0..MaxCrashes
    /\ 0 \in 0..MaxFaults
    /\ <<>> \in Seq(Jobs)
BY ConstantsAssumption DEF ConstantsAssumption

\* Init establishes the invariant.
LEMMA InitTypeInv == Init => TypeInv
<1> SUFFICES ASSUME Init PROVE TypeInv
  OBVIOUS
<1> USE InitialValues DEF Init
<1>1. DbTypeOK
  BY DEF DbTypeOK, Status, Terminal
<1>2. MemoryTypeOK
  BY DEF MemoryTypeOK
<1>3. WorkerTypeOK /\ AttemptLeft
  BY ConstantsAssumption DEF WorkerTypeOK, WorkerPc, AttemptLeft
<1>4. PoolTypeOK
  BY DEF PoolTypeOK
<1>5. ClientTypeOK /\ BeatTypeOK
  BY DEF ClientTypeOK, BeatTypeOK
<1>6. HistoryTypeOK
  BY DEF HistoryTypeOK
<1> QED
  BY <1>1, <1>2, <1>3, <1>4, <1>5, <1>6 DEF TypeInv, TypeOK

\* An UPDATE statement keeps the columns in their types.
LEMMA UpdateType ==
  ASSUME DbTypeOK, NEW S, NEW s \in Terminal \cup {"queued", "printing"},
         NEW e \in {"", "cancelled", "timeout", "failed"}, Update(S, s, e),
         UNCHANGED <<age, path, onDisk>>
  PROVE  DbTypeOK'
BY DEF DbTypeOK, Update, Status, Terminal

\* What a step leaves alone keeps its type.
LEMMA UnchangedTypes ==
    /\ DbTypeOK /\ UNCHANGED <<dbVars, age, fileVars>> => DbTypeOK'
    /\ MemoryTypeOK /\ UNCHANGED <<memVars, stop>> => MemoryTypeOK'
    /\ /\ WorkerTypeOK /\ AttemptLeft
       /\ UNCHANGED workerVars
       => WorkerTypeOK' /\ AttemptLeft'
    /\ PoolTypeOK /\ UNCHANGED poolVars => PoolTypeOK'
    /\ ClientTypeOK /\ UNCHANGED clientVars => ClientTypeOK'
    /\ BeatTypeOK /\ UNCHANGED beatVars => BeatTypeOK'
    /\ HistoryTypeOK /\ UNCHANGED <<budgetVars, histVars>> => HistoryTypeOK'
<1>1. DbTypeOK /\ UNCHANGED <<dbVars, age, fileVars>> => DbTypeOK'
  BY DEF DbTypeOK, dbVars, fileVars
<1>2. MemoryTypeOK /\ UNCHANGED <<memVars, stop>> => MemoryTypeOK'
  BY DEF MemoryTypeOK, memVars
<1>3. /\ WorkerTypeOK /\ AttemptLeft
      /\ UNCHANGED workerVars
      => WorkerTypeOK' /\ AttemptLeft'
  BY DEF WorkerTypeOK, AttemptLeft, workerVars
<1>4. PoolTypeOK /\ UNCHANGED poolVars => PoolTypeOK'
  BY DEF PoolTypeOK, poolVars
<1>5. ClientTypeOK /\ UNCHANGED clientVars => ClientTypeOK'
  BY DEF ClientTypeOK, clientVars
<1>6. BeatTypeOK /\ UNCHANGED beatVars => BeatTypeOK'
  BY DEF BeatTypeOK, beatVars
<1>7. HistoryTypeOK /\ UNCHANGED <<budgetVars, histVars>> => HistoryTypeOK'
  BY DEF HistoryTypeOK, budgetVars, histVars
<1> QED
  BY <1>1, <1>2, <1>3, <1>4, <1>5, <1>6, <1>7

\* A worker that goes on with its job.
LEMMA GotoType ==
  ASSUME TypeInv, NEW w \in Workers, wjob[w] # NoJob,
         NEW l \in WorkerPc \ {"idle", "exited"}, Goto(w, l),
         l = "retry" => attempt[w] < MaxRetries,
         UNCHANGED <<wjob, attempt>>,
         result' = result \/ \E r \in {"none", "timeout"} :
                                result' = [result EXCEPT ![w] = r]
  PROVE  WorkerTypeOK' /\ AttemptLeft'
<1>1. WorkerTypeOK'
  BY DEF TypeInv, TypeOK, WorkerTypeOK, WorkerPc, Goto
<1>2. AttemptLeft'
  BY DEF TypeInv, TypeOK, WorkerTypeOK, AttemptLeft, Goto
<1> QED BY <1>1, <1>2

\* A worker that lets go of its job is idle or gone.
LEMMA DropType ==
  ASSUME TypeInv, NEW w \in Workers, Drop(w)
  PROVE  WorkerTypeOK' /\ AttemptLeft'
BY ConstantsAssumption, InitialValues
   DEF TypeInv, TypeOK, WorkerTypeOK, WorkerPc, AttemptLeft,
       Drop, Goto

\* After an attempt that came to nothing.
LEMMA DropOrRetryType ==
  ASSUME TypeInv, NEW w \in Workers, wjob[w] # NoJob, DropOrRetry(w)
  PROVE  WorkerTypeOK' /\ AttemptLeft'
<1>1. CASE attempt[w] < MaxRetries
  <2>1. Goto(w, "retry") /\ UNCHANGED <<wjob, attempt, result>>
    BY <1>1 DEF DropOrRetry
  <2> QED BY <1>1, <2>1, GotoType DEF WorkerPc
<1>2. CASE ~(attempt[w] < MaxRetries)
  BY <1>2, DropType DEF DropOrRetry
<1> QED BY <1>1, <1>2

\* Both ends of a queue of jobs.
LEMMA QueueType ==
  ASSUME NEW q \in Seq(Jobs), NEW j \in Jobs
  PROVE  /\ Append(q, j) \in Seq(Jobs)
         /\ q # <<>> => Head(q) \in Jobs /\ Tail(q) \in Seq(Jobs)
OBVIOUS

\* A worker's step keeps the types.
LEMMA WorkerTypeInv ==
  ASSUME TypeInv, NEW w \in Workers, WorkerStep(w)
  PROVE  TypeInv'
<1> USE DEF TypeInv, TypeOK
<1>1. ClientTypeOK' /\ BeatTypeOK' /\ HistoryTypeOK'
  <2>1. UNCHANGED <<clientVars, beatVars, budgetVars, histVars>>
    BY DEF WorkerStep, Get, Discard, SkipCancelled, NotCancelled, LoadJob,
           MarkPrinting, Recheck, AbortCancelled, CopyFile, SubmitPrint,
           PollResult, PollCancelled, PollTimeout, FinishOk, RemoveFile,
           FinishBad, ExecuteException, RetryAttempt
  <2> QED BY <2>1, UnchangedTypes
<1>2. CASE Get(w)
  <2>1. DbTypeOK' /\ PoolTypeOK'
    BY <1>2, UnchangedTypes DEF Get
  <2>2. MemoryTypeOK'
    BY <1>2, QueueType DEF Get, MemoryTypeOK
  <2>3. WorkerTypeOK' /\ AttemptLeft'
    BY <1>2, QueueType, ConstantsAssumption
       DEF Get, Goto, MemoryTypeOK, WorkerTypeOK, WorkerPc, AttemptLeft
  <2> QED BY <1>1, <2>1, <2>2, <2>3
<1>3. CASE Discard(w)
  <2>1. wjob[w] # NoJob
    BY <1>3 DEF WorkerTypeOK, Discard
  <2>2. DbTypeOK'
    BY <1>3, UnchangedTypes DEF Discard
  <2>3. MemoryTypeOK'
    BY <1>3 DEF Discard, MemoryTypeOK
  <2>4. WorkerTypeOK' /\ AttemptLeft'
    BY <1>3, <2>1, GotoType DEF Discard, WorkerPc
  <2>5. PoolTypeOK'
    BY <1>3, UnchangedTypes DEF Discard
  <2> QED BY <1>1, <2>2, <2>3, <2>4, <2>5
<1>4. CASE SkipCancelled(w)
  <2>1. wjob[w] # NoJob
    BY <1>4 DEF WorkerTypeOK, SkipCancelled
  <2>2. DbTypeOK'
    BY <1>4, UnchangedTypes DEF SkipCancelled
  <2>3. MemoryTypeOK'
    BY <1>4 DEF SkipCancelled, MemoryTypeOK
  <2>4. WorkerTypeOK' /\ AttemptLeft'
    BY <1>4, <2>1, DropType DEF SkipCancelled
  <2>5. PoolTypeOK'
    BY <1>4, UnchangedTypes DEF SkipCancelled
  <2> QED BY <1>1, <2>2, <2>3, <2>4, <2>5
<1>5. CASE NotCancelled(w)
  <2>1. wjob[w] # NoJob
    BY <1>5 DEF WorkerTypeOK, NotCancelled
  <2>2. DbTypeOK'
    BY <1>5, UnchangedTypes DEF NotCancelled
  <2>3. MemoryTypeOK'
    BY <1>5, UnchangedTypes DEF NotCancelled
  <2>4. WorkerTypeOK' /\ AttemptLeft'
    BY <1>5, <2>1, GotoType DEF NotCancelled, WorkerPc
  <2>5. PoolTypeOK'
    BY <1>5, UnchangedTypes DEF NotCancelled
  <2> QED BY <1>1, <2>2, <2>3, <2>4, <2>5
<1>6. CASE LoadJob(w)
  <2>1. wjob[w] # NoJob
    BY <1>6 DEF WorkerTypeOK, LoadJob
  <2>2. DbTypeOK' /\ MemoryTypeOK' /\ PoolTypeOK'
    BY <1>6, UnchangedTypes DEF LoadJob
  <2>3. WorkerTypeOK' /\ AttemptLeft'
    <3>1. CASE Goto(w, "mark") /\ UNCHANGED <<wjob, attempt, result>>
      BY <1>6, <2>1, <3>1, GotoType DEF LoadJob, WorkerPc
    <3>2. CASE Drop(w)
      BY <1>6, <3>2, DropType DEF LoadJob
    <3> QED BY <1>6, <3>1, <3>2 DEF LoadJob
  <2> QED BY <1>1, <2>2, <2>3
<1>7. CASE MarkPrinting(w)
  <2>1. wjob[w] # NoJob
    BY <1>7 DEF WorkerTypeOK, MarkPrinting
  <2>2. DbTypeOK'
    BY <1>7, UpdateType DEF MarkPrinting, fileVars, Terminal
  <2>3. MemoryTypeOK'
    BY <1>7, UnchangedTypes DEF MarkPrinting
  <2>4. WorkerTypeOK' /\ AttemptLeft'
    BY <1>7, <2>1, GotoType DEF MarkPrinting, WorkerPc
  <2>5. PoolTypeOK'
    BY <1>7, UnchangedTypes DEF MarkPrinting
  <2> QED BY <1>1, <2>2, <2>3, <2>4, <2>5
<1>8. CASE Recheck(w)
  <2>1. wjob[w] # NoJob
    BY <1>8 DEF WorkerTypeOK, Recheck
  <2>2. DbTypeOK'
    BY <1>8, UnchangedTypes DEF Recheck
  <2>3. MemoryTypeOK'
    BY <1>8, UnchangedTypes DEF Recheck
  <2>4. WorkerTypeOK' /\ AttemptLeft'
    BY <1>8, <2>1, GotoType DEF Recheck, WorkerPc
  <2>5. PoolTypeOK'
    BY <1>8, UnchangedTypes DEF Recheck
  <2> QED BY <1>1, <2>2, <2>3, <2>4, <2>5
<1>9. CASE AbortCancelled(w)
  <2>1. wjob[w] # NoJob
    BY <1>9 DEF WorkerTypeOK, AbortCancelled
  <2>2. DbTypeOK'
    BY <1>9, UpdateType DEF AbortCancelled, fileVars, Terminal
  <2>3. MemoryTypeOK'
    BY <1>9, UnchangedTypes DEF AbortCancelled
  <2>4. WorkerTypeOK' /\ AttemptLeft'
    BY <1>9, <2>1, DropType DEF AbortCancelled
  <2>5. PoolTypeOK'
    BY <1>9, UnchangedTypes DEF AbortCancelled
  <2> QED BY <1>1, <2>2, <2>3, <2>4, <2>5
<1>10. CASE CopyFile(w)
  <2>1. wjob[w] # NoJob
    BY <1>10 DEF WorkerTypeOK, CopyFile
  <2>2. DbTypeOK'
    BY <1>10, UnchangedTypes DEF CopyFile
  <2>3. MemoryTypeOK'
    BY <1>10, UnchangedTypes DEF CopyFile
  <2>4. WorkerTypeOK' /\ AttemptLeft'
    BY <1>10, <2>1, GotoType DEF CopyFile, WorkerPc
  <2>5. PoolTypeOK'
    BY <1>10, UnchangedTypes DEF CopyFile
  <2> QED BY <1>1, <2>2, <2>3, <2>4, <2>5
<1>11. CASE SubmitPrint(w)
  <2>1. wjob[w] # NoJob
    BY <1>11 DEF WorkerTypeOK, SubmitPrint
  <2>2. DbTypeOK' /\ MemoryTypeOK'
    BY <1>11, UnchangedTypes DEF SubmitPrint
  <2>3. PoolTypeOK'
    BY <1>11 DEF SubmitPrint, PoolTypeOK
  <2>4. WorkerTypeOK' /\ AttemptLeft'
    <3>1. CASE stop = "stopped"
      BY <1>11, <2>1, <3>1, GotoType DEF SubmitPrint, WorkerPc
    <3>2. CASE stop # "stopped"
      BY <1>11, <2>1, <3>2, GotoType DEF SubmitPrint, WorkerPc
    <3> QED BY <3>1, <3>2
  <2> QED BY <1>1, <2>2, <2>3, <2>4
<1>12. CASE PollResult(w)
  <2>1. wjob[w] # NoJob
    BY <1>12 DEF WorkerTypeOK, PollResult
  <2>2. DbTypeOK'
    BY <1>12, UnchangedTypes DEF PollResult
  <2>3. MemoryTypeOK'
    BY <1>12, UnchangedTypes DEF PollResult
  <2>4. WorkerTypeOK' /\ AttemptLeft'
    BY <1>12, <2>1, GotoType DEF PollResult, WorkerPc
  <2>5. PoolTypeOK'
    BY <1>12, UnchangedTypes DEF PollResult
  <2> QED BY <1>1, <2>2, <2>3, <2>4, <2>5
<1>13. CASE PollCancelled(w)
  <2>1. wjob[w] # NoJob
    BY <1>13 DEF WorkerTypeOK, PollCancelled
  <2>2. DbTypeOK'
    BY <1>13, UnchangedTypes DEF PollCancelled
  <2>3. MemoryTypeOK'
    BY <1>13, UnchangedTypes DEF PollCancelled
  <2>4. WorkerTypeOK' /\ AttemptLeft'
    BY <1>13, <2>1, DropType DEF PollCancelled, DeleteCopy
  <2>5. PoolTypeOK'
    BY <1>13 DEF PollCancelled, DeleteCopy, PoolTypeOK
  <2> QED BY <1>1, <2>2, <2>3, <2>4, <2>5
<1>14. CASE PollTimeout(w)
  <2>1. wjob[w] # NoJob
    BY <1>14 DEF WorkerTypeOK, PollTimeout
  <2>2. DbTypeOK'
    BY <1>14, UnchangedTypes DEF PollTimeout
  <2>3. MemoryTypeOK'
    BY <1>14, UnchangedTypes DEF PollTimeout
  <2>4. WorkerTypeOK' /\ AttemptLeft'
    BY <1>14, <2>1, GotoType DEF PollTimeout, WorkerPc
  <2>5. PoolTypeOK'
    BY <1>14, UnchangedTypes DEF PollTimeout
  <2> QED BY <1>1, <2>2, <2>3, <2>4, <2>5
<1>15. CASE FinishOk(w)
  <2>1. wjob[w] # NoJob
    BY <1>15 DEF WorkerTypeOK, FinishOk
  <2>2. DbTypeOK'
    BY <1>15, UpdateType DEF FinishOk, fileVars, Terminal
  <2>3. MemoryTypeOK'
    BY <1>15, UnchangedTypes DEF FinishOk
  <2>4. WorkerTypeOK' /\ AttemptLeft'
    BY <1>15, <2>1, GotoType DEF FinishOk, WorkerPc
  <2>5. PoolTypeOK'
    BY <1>15, UnchangedTypes DEF FinishOk
  <2> QED BY <1>1, <2>2, <2>3, <2>4, <2>5
<1>16. CASE RemoveFile(w)
  <2>1. wjob[w] # NoJob
    BY <1>16 DEF WorkerTypeOK, RemoveFile
  <2>2. DbTypeOK'
    BY <1>16 DEF RemoveFile, DbTypeOK, dbVars
  <2>3. MemoryTypeOK'
    BY <1>16, UnchangedTypes DEF RemoveFile
  <2>4. WorkerTypeOK' /\ AttemptLeft'
    BY <1>16, <2>1, DropType DEF RemoveFile
  <2>5. PoolTypeOK'
    BY <1>16, UnchangedTypes DEF RemoveFile
  <2> QED BY <1>1, <2>2, <2>3, <2>4, <2>5
<1>17. CASE FinishBad(w)
  <2>1. wjob[w] # NoJob
    BY <1>17 DEF WorkerTypeOK, FinishBad
  <2>2. DbTypeOK' /\ MemoryTypeOK'
    BY <1>17, UpdateType, UnchangedTypes DEF FinishBad, fileVars, Terminal
  <2>3. WorkerTypeOK' /\ AttemptLeft'
    BY <1>17, <2>1, DropOrRetryType DEF FinishBad
  <2>4. PoolTypeOK'
    BY <1>17 DEF FinishBad, DeleteCopy, PoolTypeOK
  <2> QED BY <1>1, <2>2, <2>3, <2>4
<1>18. CASE ExecuteException(w)
  <2>1. wjob[w] # NoJob
    BY <1>18 DEF WorkerTypeOK, ExecuteException
  <2>2. DbTypeOK'
    BY <1>18, UpdateType DEF ExecuteException, fileVars, Terminal
  <2>3. MemoryTypeOK'
    BY <1>18, UnchangedTypes DEF ExecuteException
  <2>4. WorkerTypeOK' /\ AttemptLeft'
    BY <1>18, <2>1, DropOrRetryType DEF ExecuteException
  <2>5. PoolTypeOK'
    BY <1>18, UnchangedTypes DEF ExecuteException
  <2> QED BY <1>1, <2>2, <2>3, <2>4, <2>5
<1>19. CASE RetryAttempt(w)
  <2>1. DbTypeOK' /\ MemoryTypeOK' /\ PoolTypeOK'
    BY <1>19, UpdateType, UnchangedTypes DEF RetryAttempt, fileVars
  <2>2. attempt[w] \in 0..MaxRetries /\ attempt[w] < MaxRetries
    BY <1>19 DEF RetryAttempt, WorkerTypeOK, AttemptLeft
  <2>3. attempt[w] + 1 \in 0..MaxRetries
    BY <2>2, ConstantsAssumption DEF ConstantsAssumption
  <2>4. WorkerTypeOK' /\ AttemptLeft'
    BY <1>19, <2>3 DEF RetryAttempt, Goto, WorkerTypeOK, WorkerPc, AttemptLeft
  <2> QED BY <1>1, <2>1, <2>4
<1> QED
  BY <1>2, <1>3, <1>4, <1>5, <1>6, <1>7, <1>8, <1>9, <1>10, <1>11, <1>12, <1>13, <1>14, <1>15, <1>16, <1>17, <1>18, <1>19 DEF WorkerStep

\* A request handler's step keeps the types.
LEMMA ClientTypeInv ==
  ASSUME TypeInv, NEW c \in Clients, ClientRequest(c) \/ ClientStep(c)
  PROVE  TypeInv'
<1> USE DEF TypeInv, TypeOK
<1>1. CASE \E j \in Jobs : AddJob(c, j)
  <2> PICK j \in Jobs : AddJob(c, j)
    BY <1>1
  <2>1. DbTypeOK' /\ ClientTypeOK'
    BY DEF AddJob, DbTypeOK, Status, ClientTypeOK
  <2> QED BY <2>1, UnchangedTypes DEF AddJob
<1>2. CASE \E j, k \in Jobs : RetryJob(c, j, k)
  <2> PICK j \in Jobs, k \in Jobs : RetryJob(c, j, k)
    BY <1>2
  <2>1. DbTypeOK' /\ ClientTypeOK'
    BY DEF RetryJob, DbTypeOK, Status, ClientTypeOK
  <2> QED BY <2>1, UnchangedTypes DEF RetryJob
<1>3. CASE \E j \in Jobs : CancelJob(c, j)
  <2>1. ClientTypeOK'
    BY <1>3 DEF CancelJob, StartCancel, ClientTypeOK
  <2> QED BY <1>3, <2>1, UnchangedTypes DEF CancelJob, StartCancel
<1>4. CASE CancelAllQueued(c)
  <2>1. ClientTypeOK'
    BY <1>4 DEF CancelAllQueued, StartCancel, ClientTypeOK
  <2> QED BY <1>4, <2>1, UnchangedTypes DEF CancelAllQueued, StartCancel
<1>5. CASE Put(c)
  <2>1. PICK j \in target[c] : queue' = Append(queue, j)
    BY <1>5 DEF Put
  <2>2. MemoryTypeOK'
    BY <1>5, <2>1, QueueType DEF Put, MemoryTypeOK, ClientTypeOK
  <2>3. ClientTypeOK'
    BY <1>5 DEF Put, ClientTypeOK
  <2> QED BY <1>5, <2>2, <2>3, UnchangedTypes DEF Put
<1>6. CASE Track(c)
  <2>1. MemoryTypeOK' /\ ClientTypeOK'
    BY <1>6 DEF Track, MemoryTypeOK, ClientTypeOK
  <2> QED BY <1>6, <2>1, UnchangedTypes DEF Track
<1>7. CASE \E j \in Jobs : MarkCancelled(c, j)
  <2> PICK j \in Jobs : MarkCancelled(c, j)
    BY <1>7
  <2>1. MemoryTypeOK' /\ ClientTypeOK'
    BY DEF MarkCancelled, MemoryTypeOK, ClientTypeOK
  <2>2. HistoryTypeOK'
    BY DEF MarkCancelled, HistoryTypeOK, budgetVars
  <2> QED BY <2>1, <2>2, UnchangedTypes DEF MarkCancelled
<1>8. CASE WriteCancelled(c)
  <2>1. DbTypeOK'
    BY <1>8, UpdateType DEF WriteCancelled, fileVars, Terminal
  <2>2. ClientTypeOK'
    BY <1>8 DEF WriteCancelled, ClientTypeOK
  <2> QED BY <1>8, <2>1, <2>2, UnchangedTypes DEF WriteCancelled
<1> QED
  BY <1>1, <1>2, <1>3, <1>4, <1>5, <1>6, <1>7, <1>8
     DEF ClientRequest, ClientStep

\* So does a step of the pool.
LEMMA PoolTypeInv ==
  ASSUME TypeInv, NEW t \in Slots, PoolStep(t)
  PROVE  TypeInv'
<1> USE DEF TypeInv, TypeOK
<1>1. ASSUME NEW w \in Workers, StartPrint(t, w) PROVE TypeInv'
  <2>1. PoolTypeOK'
    BY <1>1 DEF StartPrint, PoolTypeOK, WorkerTypeOK
  <2>2. HistoryTypeOK'
    <3>1. ASSUME NEW n \in 0..(MaxRetries + 2)
          PROVE  Saturate(n) \in 0..(MaxRetries + 2)
      BY <3>1, ConstantsAssumption DEF ConstantsAssumption, Saturate
    <3>2. runs' \in [Jobs -> 0..(MaxRetries + 2)]
      BY <1>1, <3>1 DEF StartPrint, HistoryTypeOK
    <3> QED BY <1>1, <3>2 DEF StartPrint, HistoryTypeOK, budgetVars
  <2> QED BY <1>1, <2>1, <2>2, UnchangedTypes DEF StartPrint
<1>2. ASSUME NEW o \in {"ok", "fail"}, FinishPrint(t, o) PROVE TypeInv'
  <2>1. PoolTypeOK' /\ HistoryTypeOK'
    BY <1>2 DEF FinishPrint, PoolTypeOK, HistoryTypeOK, budgetVars
  <2>2. WorkerTypeOK' /\ AttemptLeft'
    BY <1>2 DEF FinishPrint, WorkerTypeOK, AttemptLeft
  <2> QED BY <1>2, <2>1, <2>2, UnchangedTypes DEF FinishPrint
<1> QED BY <1>1, <1>2 DEF PoolStep

\* So does a step of the heartbeat.
LEMMA BeatTypeInv ==
  ASSUME TypeInv, NEW h \in Beats, BeatStep(h)
  PROVE  TypeInv'
<1> USE DEF TypeInv, TypeOK
<1>1. CASE Cleanup(h)
  <2>1. DbTypeOK' /\ BeatTypeOK'
    BY <1>1 DEF Cleanup, DbTypeOK, Status, BeatTypeOK, fileVars
  <2> QED BY <1>1, <2>1, UnchangedTypes DEF Cleanup
<1>2. CASE ListStuck(h)
  <2>1. BeatTypeOK'
    BY <1>2 DEF ListStuck, BeatTypeOK
  <2> QED BY <1>2, <2>1, UnchangedTypes DEF ListStuck
<1>3. CASE Snapshot(h)
  <2>1. BeatTypeOK'
    BY <1>3 DEF Snapshot, BeatTypeOK
  <2> QED BY <1>3, <2>1, UnchangedTypes DEF Snapshot
<1>4. ASSUME NEW j \in Jobs, Requeue(h, j) PROVE TypeInv'
  <2>1. DbTypeOK'
    BY <1>4, UpdateType DEF Requeue, fileVars
  <2>2. BeatTypeOK'
    BY <1>4 DEF Requeue, BeatTypeOK
  <2> QED BY <1>4, <2>1, <2>2, UnchangedTypes DEF Requeue
<1>5. CASE RequeuePut(h)
  <2>1. MemoryTypeOK'
    BY <1>5, QueueType DEF RequeuePut, MemoryTypeOK, BeatTypeOK
  <2>2. BeatTypeOK'
    BY <1>5 DEF RequeuePut, BeatTypeOK
  <2> QED BY <1>5, <2>1, <2>2, UnchangedTypes DEF RequeuePut
<1>6. CASE RequeueTrack(h)
  <2>1. MemoryTypeOK' /\ BeatTypeOK'
    BY <1>6 DEF RequeueTrack, MemoryTypeOK, BeatTypeOK
  <2> QED BY <1>6, <2>1, UnchangedTypes DEF RequeueTrack
<1> QED
  BY <1>1, <1>2, <1>3, <1>4, <1>5, <1>6 DEF BeatStep

\* A fault counts itself.
LEMMA FaultType ==
  ASSUME HistoryTypeOK, NEW S \in SUBSET Jobs, Fault(S)
  PROVE  HistoryTypeOK'
<1>1. faults + 1 \in 0..MaxFaults
  BY ConstantsAssumption DEF Fault, HistoryTypeOK, ConstantsAssumption
<1> QED BY <1>1 DEF Fault, HistoryTypeOK

\* So does what the environment does.
LEMMA EnvironmentTypeInv ==
  ASSUME TypeInv, Environment
  PROVE  TypeInv'
<1> USE DEF TypeInv, TypeOK
<1>1. ASSUME NEW j \in Jobs, GetOlder(j) PROVE TypeInv'
  <2>1. age[j] \in 0..AgeLimit /\ age[j] < AgeLimit
    BY <1>1 DEF GetOlder, DbTypeOK
  <2>2. age[j] + 1 \in 0..AgeLimit
    BY <2>1, ConstantsAssumption DEF ConstantsAssumption
  <2>3. DbTypeOK'
    BY <1>1, <2>2 DEF GetOlder, DbTypeOK, dbVars, fileVars
  <2> QED BY <1>1, <2>3, UnchangedTypes DEF GetOlder
<1>2. CASE StopWorkers
  <2>1. MemoryTypeOK'
    BY <1>2 DEF StopWorkers, MemoryTypeOK, memVars
  <2> QED BY <1>2, <2>1, UnchangedTypes DEF StopWorkers
<1>3. ASSUME NEW w \in Workers, ExitWorker(w) PROVE TypeInv'
  <2>1. WorkerTypeOK' /\ AttemptLeft'
    BY <1>3 DEF ExitWorker, Goto, WorkerTypeOK, WorkerPc, AttemptLeft
  <2> QED BY <1>3, <2>1, UnchangedTypes DEF ExitWorker
<1>4. ASSUME NEW w \in Workers, WorkerFault(w) PROVE TypeInv'
  <2>1. wjob[w] # NoJob /\ wjob[w] \in Jobs
    BY <1>4 DEF WorkerFault, WorkerTypeOK
  <2>2. UNCHANGED <<age, fileVars, memVars, stop, clientVars, beatVars>>
    BY <1>4 DEF WorkerFault, Fault
  <2>3. DbTypeOK'
    BY <1>4, <2>2, UpdateType, UnchangedTypes
       DEF WorkerFault, PendingWrite, fileVars, Terminal
  <2>4. HistoryTypeOK'
    BY <1>4, <2>1, FaultType DEF WorkerFault
  <2>5. WorkerTypeOK' /\ AttemptLeft' /\ PoolTypeOK'
    <3>1. CASE wpc[w] \in {"copy", "finish"}
      <4>1. WorkerTypeOK' /\ AttemptLeft'
        BY <1>4, <2>1, <3>1, GotoType DEF WorkerFault, WorkerPc
      <4>2. PoolTypeOK'
        BY <1>4, <3>1 DEF WorkerFault, DeleteCopy, PoolTypeOK
      <4> QED BY <4>1, <4>2
    <3>2. CASE wpc[w] \notin {"copy", "finish"}
      BY <1>4, <3>2, DropType, UnchangedTypes DEF WorkerFault
    <3> QED BY <3>1, <3>2
  <2> QED BY <2>2, <2>3, <2>4, <2>5, UnchangedTypes
<1>5. ASSUME NEW c \in Clients, CancelFault(c) PROVE TypeInv'
  <2>1. UNCHANGED <<dbVars, age, fileVars, memVars, stop, workerVars, poolVars,
                    beatVars>>
    BY <1>5 DEF CancelFault, Fault
  <2>2. HistoryTypeOK'
    BY <1>5, FaultType DEF CancelFault, ClientTypeOK
  <2>3. ClientTypeOK'
    BY <1>5 DEF CancelFault, ClientTypeOK
  <2> QED BY <2>1, <2>2, <2>3, UnchangedTypes
<1>6. ASSUME NEW h \in Beats, BeatFault(h) PROVE TypeInv'
  <2>1. UNCHANGED <<dbVars, age, fileVars, memVars, stop, workerVars, poolVars,
                    clientVars>>
    BY <1>6 DEF BeatFault, Fault
  <2>2. HistoryTypeOK'
    BY <1>6, FaultType DEF BeatFault
  <2>3. BeatTypeOK'
    BY <1>6 DEF BeatFault, BeatTypeOK
  <2> QED BY <2>1, <2>2, <2>3, UnchangedTypes
<1>7. CASE Crash
  <2>1. crashes + 1 \in 0..MaxCrashes
    BY <1>7, ConstantsAssumption DEF Crash, HistoryTypeOK, ConstantsAssumption
  <2>2. HistoryTypeOK'
    BY <1>7, <2>1 DEF Crash, HistoryTypeOK
  <2>3. DbTypeOK'
    BY <1>7 DEF Crash, DbTypeOK, Status, fileVars
  <2>4. MemoryTypeOK' /\ PoolTypeOK'
    BY <1>7, InitialValues DEF Crash, MemoryTypeOK, PoolTypeOK
  <2>5. WorkerTypeOK' /\ AttemptLeft'
    BY <1>7, InitialValues DEF Crash, WorkerTypeOK, WorkerPc, AttemptLeft
  <2>6. ClientTypeOK' /\ BeatTypeOK'
    BY <1>7 DEF Crash, ClientTypeOK, BeatTypeOK
  <2> QED BY <2>2, <2>3, <2>4, <2>5, <2>6
<1> QED
  BY <1>1, <1>2, <1>3, <1>4, <1>5, <1>6, <1>7 DEF Environment

\* TypeInv is inductive.
LEMMA NextTypeInv == TypeInv /\ [Next]_vars => TypeInv'
<1> SUFFICES ASSUME TypeInv, [Next]_vars PROVE TypeInv'
  OBVIOUS
<1>1. CASE Next
  BY <1>1, WorkerTypeInv, ClientTypeInv, PoolTypeInv, BeatTypeInv,
     EnvironmentTypeInv DEF Next
<1>2. CASE UNCHANGED vars
  BY <1>2, UnchangedTypes DEF TypeInv, TypeOK, vars
<1> QED BY <1>1, <1>2

\* Type correctness, for any number of jobs and threads.
THEOREM TypeCorrect == Spec => []TypeOK
<1>1. TypeInv => TypeOK
  BY DEF TypeInv
<1> QED BY <1>1, InitTypeInv, NextTypeInv, PTL DEF Spec

\* The stronger invariant that proves it, for the theorems below.
LEMMA TypeInvAlways == Spec => []TypeInv
BY InitTypeInv, NextTypeInv, PTL DEF Spec

====
