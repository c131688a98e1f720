--------------------------- MODULE JobRequeueProofs ---------------------------
(***************************************************************************)
(* What the set of queued ids is for, for any number of jobs and threads   *)
(* and jobs of any age: with one heartbeat at a time, recover_stuck_jobs   *)
(* puts no job into the queue that is there already.                       *)
(***************************************************************************)
EXTENDS JobQueueSafetyProofs

\* A job has a token while it is in the queue, and until the worker that took
\* it from there has taken its id out of queuedIds.
Token(j) ==
    \/ Has(queue, j)
    \/ \E w \in Workers : wpc[w] = "discard" /\ wjob[w] = j

\* Nobody has begun to work on the job, and no heartbeat has listed it.
Untouched(j) ==
    /\ status[j] # "printing"
    /\ \A w \in Workers : wjob[w] = j => wpc[w] = "discard"
    /\ \A h \in Beats : j \notin hstuck[h] /\ hjob[h] # j

\* The id of the job is in queuedIds, or on its way there from a heartbeat, or
\* from an add_job whose job nobody has begun to work on.
Tracked(j) ==
    \/ j \in queuedIds
    \/ \E h \in Beats : hpc[h] = "track" /\ hjob[h] = j
    \/ Untouched(j) /\ \E c \in Clients : cpc[c] = "track" /\ j \in target[c]

\* One token per job, in the queue or with one worker.
OneToken ==
    /\ Distinct(queue)
    /\ \A w \in Workers : wpc[w] = "discard" => ~Has(queue, wjob[w])
    /\ \A v, w \in Workers :
          wpc[v] = "discard" /\ wpc[w] = "discard" /\ wjob[v] = wjob[w] => v = w

TokensTracked == \A j \in Jobs : Token(j) => Tracked(j)

\* A job that add_job is about to put into the queue was never there.
NewJobs ==
    /\ \A c \in Clients : \A j \in Incoming(c) : ~Token(j) /\ Untouched(j)
    /\ \A c, d \in Clients : Incoming(c) \cap Incoming(d) = {} \/ c = d

\* What a heartbeat goes on to requeue, after its look at queuedIds, has no
\* token.
Requeuing ==
    \A h \in Beats :
        /\ hpc[h] \in {"requeue", "put", "track"} => \A j \in hstuck[h] : ~Token(j)
        /\ hpc[h] = "put" => ~Token(hjob[h])
        /\ hpc[h] \in {"put", "track"} => hjob[h] \notin hstuck[h]

QueueInv == OneToken /\ TokensTracked /\ NewJobs /\ Requeuing

\* At boot there are no tokens.
LEMMA QueueInit == Init => QueueInv
<1> SUFFICES ASSUME Init PROVE QueueInv
  OBVIOUS
<1>1. Distinct(queue) /\ \A k : ~Has(queue, k)
  <2>1. queue = <<>>
    BY DEF Init
  <2> QED BY <2>1, HasEmpty DEF Distinct
<1>2. \A w \in Workers : wpc[w] = "idle"
  BY DEF Init
<1>3. \A c \in Clients : Incoming(c) = {}
  BY DEF Init, Incoming
<1>4. \A j : ~Token(j)
  BY <1>1, <1>2 DEF Token
<1>5. \A h \in Beats : hpc[h] = "idle"
  BY DEF Init
<1> QED
  BY <1>1, <1>2, <1>3, <1>4, <1>5 DEF QueueInv, OneToken, TokensTracked,
     NewJobs, Requeuing

\* A step that makes no token: those that are left stay tracked, what has none
\* stays untouched, and no job comes in.
LEMMA NoNewToken ==
  ASSUME QueueInv, OneToken', Requeuing',
         \A k \in Jobs : Token(k)' => Token(k),
         \A k \in Jobs : Token(k)' /\ Tracked(k) => Tracked(k)',
         \A k \in Jobs : Untouched(k) /\ ~Token(k) => Untouched(k)',
         \A c \in Clients : Incoming(c)' \subseteq Incoming(c),
         \A c \in Clients : Incoming(c) \subseteq Jobs
  PROVE  QueueInv'
<1>1. TokensTracked'
  BY DEF QueueInv, TokensTracked
<1>2. NewJobs'
  BY DEF QueueInv, NewJobs
<1> QED BY <1>1, <1>2 DEF QueueInv

\* The clients' jobs are jobs.
LEMMA IncomingJobs == TypeInv => \A c \in Clients : Incoming(c) \subseteq Jobs
BY DEF TypeInv, TypeOK, ClientTypeOK, Incoming

\* Most steps leave the queue and the heartbeats alone, take no id out of
\* queuedIds and touch only jobs some worker is at work on.
LEMMA QuietStep ==
  ASSUME TypeInv, QueueInv,
         UNCHANGED <<queue, hpc, hstuck, hjob>>,
         queuedIds \subseteq queuedIds',
         \A w \in Workers :
            wpc'[w] = "discard" => wpc[w] = "discard" /\ wjob'[w] = wjob[w],
         \A w \in Workers : wjob'[w] \in Jobs =>
            /\ wjob'[w] = wjob[w]
            /\ wpc[w] = "discard" => wpc'[w] = "discard",
         \A k \in Jobs : status'[k] = "printing" =>
            \/ status[k] = "printing"
            \/ \E w \in Workers : wjob[w] = k /\ wpc[w] # "discard",
         \A c \in Clients : cpc[c] = "track" =>
            \/ cpc'[c] = "track" /\ target'[c] = target[c]
            \/ target[c] \subseteq queuedIds',
         \A c \in Clients : Incoming(c)' \subseteq Incoming(c)
  PROVE  QueueInv'
<1>1. \A k \in Jobs : Token(k)' => Token(k)
  BY DEF Token, Has
<1>2. OneToken'
  BY DEF QueueInv, OneToken, Distinct, Has
<1>3. Requeuing'
  BY <1>1 DEF QueueInv, Requeuing, TypeInv, TypeOK, BeatTypeOK
<1>4. \A k \in Jobs : Untouched(k) => Untouched(k)'
  BY DEF Untouched
<1>5. \A k \in Jobs : Tracked(k) => Tracked(k)'
  BY <1>4 DEF Tracked
<1> QED
  BY <1>1, <1>2, <1>3, <1>4, <1>5, NoNewToken, IncomingJobs

\* Taking a job from the queue moves its token to the worker.
LEMMA GetStep ==
  ASSUME TypeInv, QueueInv, NEW w \in Workers, Get(w)
  PROVE  QueueInv'
<1> USE DEF TypeInv, TypeOK
<1>1. /\ queue' = Tail(queue)
      /\ wjob' = [wjob EXCEPT ![w] = Head(queue)]
      /\ wpc' = [wpc EXCEPT ![w] = "discard"]
      /\ wpc[w] = "idle"
      /\ Head(queue) \in Jobs
      /\ Distinct(Tail(queue)) /\ ~Has(Tail(queue), Head(queue))
      /\ \A k \in Jobs : Has(queue, k) <=> Has(Tail(queue), k) \/ k = Head(queue)
  BY QueueType, HasTail, DistinctTail DEF Get, Goto, QueueInv, OneToken,
     MemoryTypeOK
<1>2. UNCHANGED <<status, queuedIds, cpc, target, hpc, hstuck, hjob>>
  BY DEF Get, dbVars, clientVars, beatVars
<1>3. \A v \in Workers : wpc[v] = "discard" => v # w /\ wjob[v] \in Jobs
  BY <1>1 DEF WorkerTypeOK
<1>4. \A k \in Jobs : Token(k)' <=> Token(k)
  BY <1>1, <1>3 DEF Token, WorkerTypeOK
<1>5. OneToken'
  <2>1. \A v \in Workers : wpc'[v] = "discard" =>
           \/ v = w /\ wjob'[v] = Head(queue)
           \/ /\ v # w /\ wpc[v] = "discard"
              /\ wjob'[v] = wjob[v] /\ wjob[v] \in Jobs /\ ~Has(queue, wjob[v])
    BY <1>1, <1>3 DEF WorkerTypeOK, QueueInv, OneToken
  <2>2. \A v \in Workers : wpc'[v] = "discard" => ~Has(queue', wjob'[v])
    BY <1>1, <2>1
  <2>3. \A u, v \in Workers :
           wpc'[u] = "discard" /\ wpc'[v] = "discard" /\ wjob'[u] = wjob'[v] => u = v
    BY <1>1, <2>1 DEF QueueInv, OneToken
  <2> QED BY <1>1, <2>2, <2>3 DEF OneToken
<1>6. Requeuing'
  BY <1>2, <1>4 DEF QueueInv, Requeuing, BeatTypeOK
<1>7. \A k \in Jobs : Untouched(k) => Untouched(k)'
  BY <1>1, <1>2 DEF Untouched, WorkerTypeOK
<1>8. \A k \in Jobs : Tracked(k) => Tracked(k)'
  BY <1>2, <1>7 DEF Tracked
<1>9. \A c \in Clients : Incoming(c)' \subseteq Incoming(c)
  BY <1>2 DEF Incoming
<1> QED
  BY <1>4, <1>5, <1>6, <1>7, <1>8, <1>9, NoNewToken, IncomingJobs

\* Taking its id out of queuedIds ends it.
LEMMA DiscardStep ==
  ASSUME TypeInv, QueueInv, NEW w \in Workers, Discard(w)
  PROVE  QueueInv'
<1> USE DEF TypeInv, TypeOK
<1>1. /\ wpc[w] = "discard" /\ wjob[w] \in Jobs
      /\ queuedIds' = queuedIds \ {wjob[w]}
      /\ wpc' = [wpc EXCEPT ![w] = "check"]
      /\ UNCHANGED <<status, queue, wjob, cpc, target, hpc, hstuck, hjob>>
  BY DEF Discard, Goto, WorkerTypeOK, dbVars, clientVars, beatVars
<1>2. \A v \in Workers : wpc'[v] = "discard" <=> wpc[v] = "discard" /\ v # w
  BY <1>1 DEF WorkerTypeOK
<1>3. \A k \in Jobs : Token(k)' => Token(k) /\ k # wjob[w]
  BY <1>1, <1>2 DEF Token, QueueInv, OneToken
<1>4. OneToken'
  BY <1>1, <1>2 DEF QueueInv, OneToken
<1>5. Requeuing'
  BY <1>1, <1>3 DEF QueueInv, Requeuing, BeatTypeOK
<1>6. \A k \in Jobs : Untouched(k) /\ k # wjob[w] => Untouched(k)'
  BY <1>1, <1>2 DEF Untouched
<1>7. \A k \in Jobs : Tracked(k) /\ k # wjob[w] => Tracked(k)'
  BY <1>1, <1>6 DEF Tracked
<1>8. Token(wjob[w])
  BY <1>1 DEF Token
<1>9. \A c \in Clients : Incoming(c)' \subseteq Incoming(c)
  BY <1>1 DEF Incoming
<1> QED
  BY <1>3, <1>4, <1>5, <1>6, <1>7, <1>8, <1>9, NoNewToken, IncomingJobs

\* All steps of a worker.
LEMMA QueueWorkerNext ==
  ASSUME TypeInv, QueueInv, NEW w \in Workers, WorkerStep(w)
  PROVE  QueueInv'
<1> USE DEF TypeInv, TypeOK
<1>1. CASE Get(w)
  BY <1>1, GetStep
<1>2. CASE Discard(w)
  BY <1>2, DiscardStep
<1>3. CASE ~Get(w) /\ ~Discard(w)
  <2>1. UNCHANGED <<queue, queuedIds, cpc, target, hpc, hstuck, hjob>>
    BY <1>3 DEF memVars, clientVars, beatVars, WorkerStep, SkipCancelled,
       NotCancelled, LoadJob, MarkPrinting, Recheck, AbortCancelled, CopyFile,
       SubmitPrint, PollResult, PollCancelled, PollTimeout, FinishOk,
       RemoveFile, FinishBad, ExecuteException, RetryAttempt
  <2>2. wpc[w] # "discard"
    BY <1>3 DEF WorkerStep, SkipCancelled, NotCancelled, LoadJob, MarkPrinting,
       Recheck, AbortCancelled, CopyFile, SubmitPrint, PollResult,
       PollCancelled, PollTimeout, FinishOk, RemoveFile, FinishBad,
       ExecuteException, RetryAttempt
  <2>3. \E l \in WorkerPc \ {"discard"} : wpc' = [wpc EXCEPT ![w] = l]
    BY <1>3 DEF WorkerPc, WorkerStep, SkipCancelled, NotCancelled, LoadJob,
       MarkPrinting, Recheck, AbortCancelled, CopyFile, SubmitPrint,
       PollResult, PollCancelled, PollTimeout, FinishOk, RemoveFile, FinishBad,
       ExecuteException, RetryAttempt, Goto, Drop, DropOrRetry
  <2>4. wjob' = wjob \/ wjob' = [wjob EXCEPT ![w] = NoJob]
    BY <1>3 DEF WorkerStep, SkipCancelled, NotCancelled, LoadJob, MarkPrinting,
       Recheck, AbortCancelled, CopyFile, SubmitPrint, PollResult,
       PollCancelled, PollTimeout, FinishOk, RemoveFile, FinishBad,
       ExecuteException, RetryAttempt, Drop, DropOrRetry
  <2>5. \A k \in Jobs : status'[k] = "printing" =>
           status[k] = "printing" \/ (wjob[w] = k /\ wpc[w] # "discard")
    BY <1>3 DEF WorkerStep, SkipCancelled, NotCancelled, LoadJob, MarkPrinting,
       Recheck, AbortCancelled, CopyFile, SubmitPrint, PollResult,
       PollCancelled, PollTimeout, FinishOk, RemoveFile, FinishBad,
       ExecuteException, RetryAttempt, Update, dbVars, DbTypeOK
  <2>6. \A v \in Workers : wjob'[v] \in Jobs =>
           /\ wjob'[v] = wjob[v]
           /\ wpc[v] = "discard" => wpc'[v] = "discard"
    BY <2>2, <2>3, <2>4, ConstantsAssumption DEF WorkerTypeOK
  <2>7. \A v \in Workers :
           wpc'[v] = "discard" => wpc[v] = "discard" /\ wjob'[v] = wjob[v]
    BY <2>2, <2>3, <2>4 DEF WorkerTypeOK
  <2>8. \A c \in Clients : Incoming(c)' \subseteq Incoming(c)
    BY <2>1 DEF Incoming
  <2> QED
    BY <2>1, <2>2, <2>5, <2>6, <2>7, <2>8, QuietStep
<1> QED BY <1>1, <1>2, <1>3

-----------------------------------------------------------------------------
(* Requests. *)

\* add_job's put gives a job that came in its token; until the worker that
\* takes it from the queue has discarded it, or this client has tracked it,
\* nobody begins to work on it.
LEMMA PutStep ==
  ASSUME TypeInv, QueueInv, NEW c \in Clients, Put(c)
  PROVE  QueueInv'
<1> USE DEF TypeInv, TypeOK
<1>1. PICK j \in target[c] : queue' = Append(queue, j)
  BY DEF Put
<1>2. /\ cpc[c] = "put" /\ cpc' = [cpc EXCEPT ![c] = "track"]
      /\ UNCHANGED <<status, queuedIds, wpc, wjob, target, hpc, hstuck, hjob>>
  BY DEF Put, dbVars, workerVars, beatVars
<1>3. j \in Jobs /\ j \in Incoming(c) /\ ~Token(j) /\ Untouched(j)
  BY <1>1, <1>2 DEF ClientTypeOK, Incoming, QueueInv, NewJobs
<1>4. /\ Distinct(queue')
      /\ \A k \in Jobs : Has(queue', k) <=> Has(queue, k) \/ k = j
  BY <1>1, <1>3, HasAppend, DistinctAppend DEF QueueInv, OneToken, Token,
     MemoryTypeOK
<1>5. \A k \in Jobs : Token(k)' <=> Token(k) \/ k = j
  BY <1>2, <1>4 DEF Token
<1>6. \A w \in Workers : wpc[w] = "discard" => wjob[w] \in Jobs /\ wjob[w] # j
  BY <1>3 DEF Token, WorkerTypeOK
<1>7. OneToken'
  BY <1>2, <1>4, <1>6 DEF QueueInv, OneToken
<1>8. \A k \in Jobs : Untouched(k) <=> Untouched(k)'
  BY <1>2 DEF Untouched
<1>9. TokensTracked'
  <2>1. Tracked(j)'
    BY <1>1, <1>2, <1>3, <1>8 DEF Tracked, ClientTypeOK
  <2>2. \A k \in Jobs : Tracked(k) => Tracked(k)'
    BY <1>2, <1>8 DEF Tracked, ClientTypeOK
  <2> QED BY <1>5, <2>1, <2>2 DEF QueueInv, TokensTracked
<1>10. NewJobs'
  <2>1. \A d \in Clients : Incoming(d)' = IF d = c THEN {} ELSE Incoming(d)
    BY <1>2 DEF Incoming, ClientTypeOK
  <2>2. \A d \in Clients : d # c => j \notin Incoming(d)
    BY <1>3 DEF QueueInv, NewJobs
  <2>3. \A d \in Clients : \A k \in Incoming(d)' : ~Token(k)' /\ Untouched(k)'
    BY <1>5, <1>8, <2>1, <2>2, IncomingJobs DEF QueueInv, NewJobs
  <2> QED BY <2>1, <2>3 DEF QueueInv, NewJobs
<1>11. Requeuing'
  BY <1>2, <1>3, <1>5 DEF QueueInv, Requeuing, Untouched, BeatTypeOK
<1> QED BY <1>7, <1>9, <1>10, <1>11 DEF QueueInv

\* A request for a new job, an id that was nowhere so far.
LEMMA NewJobStep ==
  ASSUME TypeInv, AllKnown, QueueInv, NEW c \in Clients, NEW k \in Jobs,
         cpc[c] = "idle", status[k] = "none",
         status' = [status EXCEPT ![k] = "queued"],
         cpc' = [cpc EXCEPT ![c] = "put"],
         target' = [target EXCEPT ![c] = {k}],
         UNCHANGED <<queue, queuedIds, wpc, wjob, hpc, hstuck, hjob>>
  PROVE  QueueInv'
<1> USE DEF TypeInv, TypeOK
<1>1. /\ ~Has(queue, k)
      /\ \A w \in Workers : wjob[w] # k
      /\ \A d \in Clients : k \notin target[d]
      /\ \A h \in Beats : k \notin hstuck[h] /\ hjob[h] # k
  BY ConstantsAssumption DEF AllKnown, Known
<1>2. \A j : Token(j)' <=> Token(j)
  BY DEF Token
<1>3. OneToken'
  BY DEF QueueInv, OneToken
<1>4. \A j \in Jobs : status'[j] = "printing" <=> status[j] = "printing"
  BY DEF DbTypeOK
<1>5. \A j \in Jobs : Untouched(j)' <=> Untouched(j)
  BY <1>4 DEF Untouched
<1>6. TokensTracked'
  <2>1. \A j \in Jobs : Tracked(j) => Tracked(j)'
    BY <1>5 DEF Tracked, ClientTypeOK
  <2> QED BY <1>2, <2>1 DEF QueueInv, TokensTracked
<1>7. NewJobs'
  <2>1. /\ Incoming(c)' = {k}
        /\ \A d \in Clients : d # c => Incoming(d)' = Incoming(d)
    BY DEF Incoming, ClientTypeOK
  <2>2. ~Token(k) /\ Untouched(k)
    BY <1>1 DEF Token, Untouched
  <2>3. \A d \in Clients : k \notin Incoming(d)
    BY <1>1 DEF Incoming
  <2>4. \A d \in Clients : \A j \in Incoming(d)' : ~Token(j)' /\ Untouched(j)'
    BY <1>2, <1>5, <2>1, <2>2, IncomingJobs DEF QueueInv, NewJobs
  <2>5. \A d, e \in Clients : Incoming(d)' \cap Incoming(e)' = {} \/ d = e
    BY <2>1, <2>3 DEF QueueInv, NewJobs
  <2> QED BY <2>4, <2>5 DEF NewJobs
<1>8. Requeuing'
  BY <1>2 DEF QueueInv, Requeuing
<1> QED BY <1>3, <1>6, <1>7, <1>8 DEF QueueInv

\* All steps of the request handlers.
LEMMA QueueClientNext ==
  ASSUME TypeInv, AllKnown, QueueInv, NEW c \in Clients,
         ClientRequest(c) \/ ClientStep(c)
  PROVE  QueueInv'
<1> USE DEF TypeInv, TypeOK
<1>1. CASE Put(c)
  BY <1>1, PutStep
<1>2. ASSUME NEW j \in Jobs, AddJob(c, j) PROVE QueueInv'
  BY <1>2, NewJobStep DEF AddJob, memVars, workerVars, beatVars
<1>3. ASSUME NEW j \in Jobs, NEW k \in Jobs, RetryJob(c, j, k) PROVE QueueInv'
  BY <1>3, NewJobStep DEF RetryJob, memVars, workerVars, beatVars
<1>4. ASSUME UNCHANGED <<queue, wpc, wjob, hpc, hstuck, hjob>>,
             queuedIds \subseteq queuedIds',
             \A k \in Jobs : status'[k] = "printing" => status[k] = "printing",
             \A d \in Clients : cpc[d] = "track" =>
                \/ cpc'[d] = "track" /\ target'[d] = target[d]
                \/ target[d] \subseteq queuedIds',
             \A d \in Clients : Incoming(d)' \subseteq Incoming(d)
      PROVE  QueueInv'
  BY <1>4, QuietStep
<1>5. CASE Track(c)
  BY <1>4, <1>5 DEF Track, dbVars, memVars, workerVars, beatVars, Incoming,
     ClientTypeOK
<1>6. CASE WriteCancelled(c)
  BY <1>4, <1>6 DEF WriteCancelled, Update, memVars, workerVars, beatVars,
     Incoming, ClientTypeOK, DbTypeOK
<1>7. CASE \E j \in Jobs : MarkCancelled(c, j)
  BY <1>4, <1>7 DEF MarkCancelled, dbVars, workerVars, beatVars, Incoming,
     ClientTypeOK
<1>8. CASE CancelAllQueued(c) \/ \E j \in Jobs : CancelJob(c, j)
  BY <1>4, <1>8 DEF CancelAllQueued, CancelJob, StartCancel, dbVars, memVars,
     workerVars, beatVars, Incoming, ClientTypeOK
<1> QED
  BY <1>1, <1>2, <1>3, <1>5, <1>6, <1>7, <1>8 DEF ClientRequest, ClientStep

-----------------------------------------------------------------------------
(* The heartbeat. *)

\* The id of a job that is put back was left out of what queuedIds held, and
\* a job on its way into queuedIds is not among the listed ones.
LEMMA SnapshotStep ==
  ASSUME \A g, h \in Beats : g = h,
         TypeInv, QueueInv, NEW h \in Beats, Snapshot(h)
  PROVE  Requeuing'
<1> USE DEF TypeInv, TypeOK
<1>1. \A j \in hstuck[h] \ queuedIds : ~Token(j)
  <2>1. SUFFICES ASSUME NEW j \in hstuck[h] \ queuedIds, Token(j) PROVE FALSE
    OBVIOUS
  <2>2. j \in Jobs /\ ~Untouched(j)
    BY DEF BeatTypeOK, Untouched
  <2>3. \A g \in Beats : hpc[g] # "track"
    BY DEF Snapshot
  <2> QED BY <2>1, <2>2, <2>3 DEF QueueInv, TokensTracked, Tracked
<1>2. UNCHANGED <<queue, wpc, wjob, hjob>>
  BY DEF Snapshot, memVars, workerVars
<1>3. \A j : Token(j)' <=> Token(j)
  BY <1>2 DEF Token
<1>4. /\ hstuck'[h] = hstuck[h] \ queuedIds
      /\ hpc'[h] \in {"idle", "requeue"}
  BY DEF Snapshot, BeatTypeOK
<1>5. \A j \in hstuck'[h] : ~Token(j)'
  BY <1>1, <1>3, <1>4
<1> QED BY <1>4, <1>5 DEF Requeuing

\* A requeued job gets its token, and recover_stuck_jobs tracks it at once.
LEMMA RequeuePutStep ==
  ASSUME \A g, h \in Beats : g = h,
         TypeInv, QueueInv, NEW h \in Beats, RequeuePut(h)
  PROVE  QueueInv'
<1> USE DEF TypeInv, TypeOK
<1>0. PICK j : j = hjob[h]
  OBVIOUS
<1>1. /\ queue' = Append(queue, j)
      /\ hpc[h] = "put" /\ hpc' = [hpc EXCEPT ![h] = "track"]
      /\ UNCHANGED <<status, queuedIds, wpc, wjob, cpc, target, hstuck, hjob>>
  BY <1>0 DEF RequeuePut, dbVars, workerVars, clientVars
<1>2. j \in Jobs /\ ~Token(j) /\ j \notin hstuck[h]
  BY <1>0, <1>1 DEF BeatTypeOK, QueueInv, Requeuing
<1>3. /\ Distinct(queue')
      /\ \A k \in Jobs : Has(queue', k) <=> Has(queue, k) \/ k = j
  BY <1>1, <1>2, HasAppend, DistinctAppend DEF QueueInv, OneToken, Token,
     MemoryTypeOK
<1>4. \A k \in Jobs : Token(k)' <=> Token(k) \/ k = j
  BY <1>1, <1>3 DEF Token
<1>5. \A w \in Workers : wpc[w] = "discard" => wjob[w] \in Jobs /\ wjob[w] # j
  BY <1>2 DEF Token, WorkerTypeOK
<1>6. OneToken'
  BY <1>1, <1>3, <1>5 DEF QueueInv, OneToken
<1>7. \A k \in Jobs : Untouched(k) <=> Untouched(k)'
  BY <1>1 DEF Untouched
<1>8. TokensTracked'
  <2>1. Tracked(j)'
    BY <1>0, <1>1 DEF Tracked, BeatTypeOK
  <2>2. \A k \in Jobs : Tracked(k) => Tracked(k)'
    BY <1>1, <1>7 DEF Tracked
  <2> QED BY <1>4, <2>1, <2>2 DEF QueueInv, TokensTracked
<1>9. NewJobs'
  <2>1. \A d \in Clients : Incoming(d)' = Incoming(d)
    BY <1>1 DEF Incoming
  <2>2. ~Untouched(j)
    BY <1>0 DEF Untouched
  <2>3. \A d \in Clients : \A k \in Incoming(d)' : ~Token(k)' /\ Untouched(k)'
    BY <1>4, <1>7, <2>1, <2>2, IncomingJobs DEF QueueInv, NewJobs
  <2> QED BY <2>1, <2>3 DEF QueueInv, NewJobs
<1>10. Requeuing'
  <2>1. \A k \in hstuck[h] : ~Token(k)
    BY <1>1 DEF QueueInv, Requeuing
  <2>2. \A k \in hstuck'[h] : ~Token(k)'
    BY <1>1, <1>2, <1>4, <2>1 DEF BeatTypeOK
  <2>3. hpc'[h] = "track" /\ hjob'[h] \notin hstuck'[h]
    BY <1>0, <1>1, <1>2 DEF BeatTypeOK
  <2> QED BY <2>2, <2>3 DEF Requeuing
<1> QED BY <1>6, <1>8, <1>9, <1>10 DEF QueueInv

\* All steps of the heartbeat.
LEMMA QueueBeatNext ==
  ASSUME \A g, h \in Beats : g = h,
         TypeInv, QueueInv, NEW h \in Beats, BeatStep(h)
  PROVE  QueueInv'
<1> USE DEF TypeInv, TypeOK
<1>1. CASE RequeuePut(h)
  BY <1>1, RequeuePutStep
<1>2. CASE ~RequeuePut(h)
  <2>1. UNCHANGED <<queue, wpc, wjob, cpc, target>>
    BY <1>2 DEF memVars, workerVars, clientVars, BeatStep, Cleanup, ListStuck,
       Snapshot, Requeue, RequeueTrack
  <2>2. \A k : Token(k)' <=> Token(k)
    BY <2>1 DEF Token
  <2>3. OneToken'
    BY <2>1 DEF QueueInv, OneToken
  <2>4. queuedIds \subseteq queuedIds'
    BY <1>2 DEF memVars, BeatStep, Cleanup, ListStuck, Snapshot, Requeue,
       RequeueTrack
  <2>5. \A k \in Jobs : Untouched(k) => Untouched(k)'
    <3>1. \A k \in Jobs : status'[k] = "printing" => status[k] = "printing"
      BY <1>2 DEF dbVars, DbTypeOK, Update, BeatStep, Cleanup, ListStuck,
         Snapshot, Requeue, RequeueTrack
    <3>2. \A g \in Beats : \A k \in hstuck'[g] :
             k \in hstuck[g] \/ status[k] = "printing"
      <4>1. CASE ListStuck(h)
        BY <4>1 DEF BeatTypeOK, ListStuck
      <4>2. CASE ~ListStuck(h)
        <5>1. \A g \in Beats : hstuck'[g] \subseteq hstuck[g]
          <6>1. CASE Snapshot(h)
            BY <6>1 DEF BeatTypeOK, Snapshot
          <6>2. ASSUME NEW j \in Jobs, Requeue(h, j)
                PROVE  \A g \in Beats : hstuck'[g] \subseteq hstuck[g]
            BY <6>2 DEF BeatTypeOK, Requeue
          <6> QED
            BY <1>2, <4>2, <6>1, <6>2 DEF BeatTypeOK, BeatStep, Cleanup,
               RequeueTrack
        <5> QED BY <5>1
      <4> QED BY <4>1, <4>2
    <3>3. \A g \in Beats : hjob'[g] \in {hjob[g], NoJob} \cup hstuck[g]
      BY <1>2 DEF BeatTypeOK, BeatStep, Cleanup, ListStuck, Snapshot, Requeue,
         RequeueTrack
    <3> QED
      BY <2>1, <3>1, <3>2, <3>3, ConstantsAssumption DEF Untouched
  <2>6. \A g \in Beats : hpc[g] = "track" =>
           \/ hpc'[g] = "track" /\ hjob'[g] = hjob[g]
           \/ hjob[g] \in queuedIds'
    BY <1>2 DEF BeatTypeOK, BeatStep, Cleanup, ListStuck, Snapshot, Requeue,
       RequeueTrack
  <2>7. \A k \in Jobs : Tracked(k) => Tracked(k)'
    BY <2>1, <2>4, <2>5, <2>6 DEF Tracked
  <2>8. Requeuing'
    <3>1. CASE Snapshot(h)
      BY <3>1, SnapshotStep
    <3>2. CASE Cleanup(h) \/ ListStuck(h)
      <4>1. hpc'[h] \in {"idle", "list", "snapshot"}
        BY <3>2 DEF Cleanup, ListStuck, BeatTypeOK
      <4> QED BY <4>1 DEF Requeuing
    <3>3. ASSUME NEW j \in Jobs, Requeue(h, j) PROVE Requeuing'
      <4>1. /\ hpc[h] = "requeue" /\ j \in hstuck[h]
            /\ hpc'[h] = "put" /\ hjob'[h] = j /\ hstuck'[h] = hstuck[h] \ {j}
        BY <3>3 DEF Requeue, BeatTypeOK
      <4>2. \A k \in hstuck[h] : ~Token(k)'
        BY <2>2, <4>1 DEF QueueInv, Requeuing
      <4> QED BY <4>1, <4>2 DEF Requeuing
    <3>4. CASE RequeueTrack(h)
      <4>1. /\ hpc[h] = "track" /\ hpc'[h] \in {"idle", "requeue"}
            /\ hstuck'[h] = hstuck[h]
        BY <3>4 DEF RequeueTrack, BeatTypeOK
      <4>2. \A k \in hstuck[h] : ~Token(k)'
        BY <2>2, <4>1 DEF QueueInv, Requeuing
      <4> QED BY <4>1, <4>2 DEF Requeuing
    <3> QED BY <1>2, <3>1, <3>2, <3>3, <3>4 DEF BeatStep
  <2>9. \A c \in Clients : Incoming(c)' \subseteq Incoming(c)
    BY <2>1 DEF Incoming
  <2> QED
    BY <2>2, <2>3, <2>5, <2>7, <2>8, <2>9, NoNewToken, IncomingJobs
<1> QED BY <1>1, <1>2

-----------------------------------------------------------------------------
(* The rest, and the theorem. *)

\* Time, shutdown, exceptions and crashes give no job a token.
LEMMA QueueEnvNext ==
  ASSUME TypeInv, QueueInv, Environment
  PROVE  QueueInv'
<1> USE DEF TypeInv, TypeOK
<1>1. CASE Crash
  <2>1. Distinct(queue') /\ \A k : ~Has(queue', k)
    BY <1>1, HasEmpty DEF Crash, Distinct
  <2>2. \A w \in Workers : wpc'[w] # "discard"
    BY <1>1 DEF Crash
  <2>3. \A k : ~Token(k)'
    BY <2>1, <2>2 DEF Token
  <2>4. \A c \in Clients : Incoming(c)' = {}
    BY <1>1 DEF Crash, Incoming
  <2>5. \A h \in Beats : hpc'[h] = "idle"
    BY <1>1 DEF Crash
  <2> QED
    BY <2>1, <2>2, <2>3, <2>4, <2>5 DEF QueueInv, OneToken, TokensTracked,
       NewJobs, Requeuing
<1>2. ASSUME NEW h \in Beats, BeatFault(h) PROVE QueueInv'
  <2>1. /\ UNCHANGED <<status, queue, queuedIds, wpc, wjob, cpc, target, hjob>>
        /\ hpc[h] = "requeue"
        /\ hpc' = [hpc EXCEPT ![h] = "idle"]
        /\ hstuck' = [hstuck EXCEPT ![h] = {}]
    BY <1>2 DEF BeatFault, Fault, dbVars, memVars, workerVars, clientVars
  <2>2. \A k : Token(k)' <=> Token(k)
    BY <2>1 DEF Token
  <2>3. OneToken'
    BY <2>1 DEF QueueInv, OneToken
  <2>4. \A k \in Jobs : Untouched(k) => Untouched(k)'
    BY <2>1 DEF Untouched, BeatTypeOK
  <2>5. \A k \in Jobs : Tracked(k) => Tracked(k)'
    BY <2>1, <2>4 DEF Tracked, BeatTypeOK
  <2>6. Requeuing'
    BY <2>1, <2>2 DEF QueueInv, Requeuing, BeatTypeOK
  <2>7. \A c \in Clients : Incoming(c)' \subseteq Incoming(c)
    BY <2>1 DEF Incoming
  <2> QED
    BY <2>2, <2>3, <2>4, <2>5, <2>6, <2>7, NoNewToken, IncomingJobs
<1>3. ASSUME NEW w \in Workers, WorkerFault(w) PROVE QueueInv'
  <2>1. UNCHANGED <<queue, queuedIds, cpc, target, hpc, hstuck, hjob>>
    BY <1>3 DEF WorkerFault, Fault, memVars, clientVars, beatVars
  <2>2. wpc[w] # "discard"
    BY <1>3 DEF WorkerFault
  <2>3. \E l \in WorkerPc \ {"discard"} : wpc' = [wpc EXCEPT ![w] = l]
    BY <1>3 DEF WorkerPc, WorkerFault, Goto, Drop
  <2>4. wjob' = wjob \/ wjob' = [wjob EXCEPT ![w] = NoJob]
    BY <1>3 DEF WorkerFault, Drop
  <2>5. \A k \in Jobs : status'[k] = "printing" =>
           status[k] = "printing" \/ (wjob[w] = k /\ wpc[w] # "discard")
    BY <1>3 DEF WorkerFault, PendingWrite, Update, dbVars, DbTypeOK
  <2>6. \A v \in Workers : wjob'[v] \in Jobs =>
           /\ wjob'[v] = wjob[v]
           /\ wpc[v] = "discard" => wpc'[v] = "discard"
    BY <2>2, <2>3, <2>4, ConstantsAssumption DEF WorkerTypeOK
  <2>7. \A v \in Workers :
           wpc'[v] = "discard" => wpc[v] = "discard" /\ wjob'[v] = wjob[v]
    BY <2>2, <2>3, <2>4 DEF WorkerTypeOK
  <2>8. \A c \in Clients : Incoming(c)' \subseteq Incoming(c)
    BY <2>1 DEF Incoming
  <2> QED
    BY <2>1, <2>2, <2>5, <2>6, <2>7, <2>8, QuietStep
<1>4. ASSUME NEW w \in Workers, ExitWorker(w) PROVE QueueInv'
  <2>1. /\ UNCHANGED <<status, queue, queuedIds, wjob, cpc, target, hpc, hstuck,
                       hjob>>
        /\ wpc[w] = "idle" /\ wpc' = [wpc EXCEPT ![w] = "exited"]
    BY <1>4 DEF ExitWorker, Goto, dbVars, memVars, clientVars, beatVars
  <2>2. \A v \in Workers : wpc'[v] = "discard" <=> wpc[v] = "discard"
    BY <2>1 DEF WorkerTypeOK
  <2>3. \A c \in Clients : Incoming(c)' \subseteq Incoming(c)
    BY <2>1 DEF Incoming
  <2> QED
    BY <2>1, <2>2, <2>3, QuietStep
<1>5. ASSUME NEW c \in Clients, CancelFault(c) PROVE QueueInv'
  <2>1. /\ UNCHANGED <<status, queue, queuedIds, wpc, wjob, hpc, hstuck, hjob>>
        /\ cpc[c] = "write" /\ cpc' = [cpc EXCEPT ![c] = "idle"]
        /\ target' = [target EXCEPT ![c] = {}]
    BY <1>5 DEF CancelFault, Fault, dbVars, memVars, workerVars, beatVars
  <2>2. \A d \in Clients : Incoming(d)' \subseteq Incoming(d)
    BY <2>1 DEF Incoming, ClientTypeOK
  <2>3. \A d \in Clients : cpc[d] = "track" =>
           cpc'[d] = "track" /\ target'[d] = target[d]
    BY <2>1 DEF ClientTypeOK
  <2> QED
    BY <2>1, <2>2, <2>3, QuietStep
<1>6. ASSUME UNCHANGED <<status, queue, queuedIds, wpc, wjob, cpc, target, hpc,
                         hstuck, hjob>>
      PROVE  QueueInv'
  BY <1>6, QuietStep DEF Incoming
<1>7. CASE StopWorkers \/ \E j \in Jobs : GetOlder(j)
  BY <1>6, <1>7 DEF StopWorkers, GetOlder, dbVars, memVars, workerVars,
     clientVars, beatVars
<1> QED
  BY <1>1, <1>2, <1>3, <1>4, <1>5, <1>7 DEF Environment

\* The invariant is inductive.
LEMMA QueueNext ==
  ASSUME \A g, h \in Beats : g = h,
         TypeInv, AllKnown, QueueInv, [Next]_vars
  PROVE  QueueInv'
<1>1. ASSUME NEW t \in Slots, PoolStep(t) PROVE QueueInv'
  <2>1. UNCHANGED <<status, queue, queuedIds, wpc, wjob, cpc, target, hpc,
                    hstuck, hjob>>
    BY <1>1 DEF PoolStep, StartPrint, FinishPrint, dbVars, memVars, workerVars,
       clientVars, beatVars
  <2> QED BY <2>1, QuietStep DEF Incoming
<1>2. CASE UNCHANGED vars
  BY <1>2, QuietStep DEF Incoming, vars, dbVars, memVars, workerVars,
     clientVars, beatVars
<1> QED
  BY <1>1, <1>2, QueueWorkerNext, QueueClientNext, QueueBeatNext, QueueEnvNext
     DEF Next

\* A heartbeat that finishes before the next one begins puts no job into the
\* queue that is there: not one whose add_job has not tracked it yet, not one
\* a worker has just taken, and not one it has put there itself, however often
\* jobs get old, the process crashes or a statement fails in between.  Two
\* heartbeats at once can: both take their snapshot before either has put back
\* what both have listed.
THEOREM NoDoubleRequeue ==
  ASSUME \A g, h \in Beats : g = h
  PROVE  Spec => []NoDuplicateInQueue
<1>1. Init => QueueInv
  BY QueueInit
<1>2. PrintInv /\ QueueInv /\ [Next]_vars => QueueInv'
  BY QueueNext DEF PrintInv
<1>3. QueueInv => NoDuplicateInQueue
  BY DEF QueueInv, OneToken, Distinct, NoDuplicateInQueue
<1> QED BY <1>1, <1>2, <1>3, PrintInvAlways, PTL DEF Spec
=============================================================================
