--------------------------- MODULE SSEBroadcaster ---------------------------
(***************************************************************************)
(* The event bus of the server (app/services/sse_broadcaster.py): threads  *)
(* publish, WebSocket handlers (app/routes/ws.py) subscribe with a bounded *)
(* queue each, local listeners are called.  The log is on the bus as well: *)
(* bootstrap installs a loguru sink that publishes every record, so that a *)
(* record logged inside publish comes back to publish while the thread     *)
(* holds the sink's lock, and perhaps the bus's.                           *)
(*                                                                         *)
(* A call of publish is a frame on the stack of its thread.  The critical  *)
(* sections of _lock that call nothing are one step; the one that evicts   *)
(* logs, so it holds the lock over several steps.                          *)
(***************************************************************************)
EXTENDS Naturals, Sequences

CONSTANTS
    Threads,     \* threads that publish or log
    Subs,        \* subscriber ids; an id is used once (uuid4)
    NoThread,
    MaxSize,     \* capacity of a subscriber's queue
    StaleLimit,  \* _STALE_LIMIT
    IdleCleanup, \* whether cleanup_idle_subscribers is called (a test does)
    MaxCalls     \* bound on the calls a thread makes

ASSUME BusAssumption ==
    /\ NoThread \notin Threads
    /\ MaxSize \in Nat \ {0}
    /\ StaleLimit \in Nat \ {0}
    /\ IdleCleanup \in BOOLEAN
    /\ MaxCalls \in Nat

VARIABLES
    live,        \* the keys of _subscribers
    stale,       \* _stale_count
    q,           \* the subscribers' queues
    lock,        \* who holds _lock over several steps
    sink,        \* who holds the lock of loguru's sink
    frames,      \* the calls of publish each thread is in, innermost last
    calls,       \* how many calls a thread has made
    conn,        \* a WebSocket handler: not connected, in its loop, leaving
    since,       \* whether the limit of cleanup_idle passed since subscribe
    \* history
    seen,        \* the last event of each thread the subscriber took
    fulls        \* how often the queue was found full (saturates)

histVars == <<seen, fulls>>
vars == <<live, stale, q, lock, sink, frames, calls, conn, since, histVars>>

\* An event is known by its thread and the call it comes from; number 0 is a
\* record logged from inside publish.
Events == Threads \X (0..MaxCalls)

Frame ==
    [pc : {"snapshot", "put", "drop", "reput", "warn", "count", "reset",
           "evict", "evicted", "listeners"},
     ev : Events,
     todo : SUBSET Subs,    \* subscribers still to be served
     sub : Subs \cup {NoThread},
     gone : SUBSET Subs,    \* stale_ids
     log : BOOLEAN]         \* called by the sink

TypeOK ==
    /\ live \in SUBSET Subs
    /\ stale \in [Subs -> 0..(StaleLimit - 1)]
    /\ q \in [Subs -> Seq(Events)]
    /\ \A s \in Subs : Len(q[s]) <= MaxSize
    /\ lock \in Threads \cup {NoThread}
    /\ sink \in Threads \cup {NoThread}
    /\ frames \in [Threads -> Seq(Frame)]
    /\ \A t \in Threads :
          /\ Len(frames[t]) <= 2
          /\ sink = t <=> \E i \in 1..Len(frames[t]) : frames[t][i].log
    /\ calls \in [Threads -> 0..MaxCalls]
    /\ conn \in [Subs -> {"none", "open", "leaving", "closed"}]
    /\ since \in [Subs -> BOOLEAN]
    /\ seen \in [Subs -> [Threads -> 0..MaxCalls]]
    /\ fulls \in [Subs -> 0..StaleLimit]

Init ==
    /\ live = {}
    /\ stale = [s \in Subs |-> 0]
    /\ q = [s \in Subs |-> <<>>]
    /\ lock = NoThread
    /\ sink = NoThread
    /\ frames = [t \in Threads |-> <<>>]
    /\ calls = [t \in Threads |-> 0]
    /\ conn = [s \in Subs |-> "none"]
    /\ since = [s \in Subs |-> FALSE]
    /\ seen = [s \in Subs |-> [t \in Threads |-> 0]]
    /\ fulls = [s \in Subs |-> 0]

Free == lock = NoThread

-----------------------------------------------------------------------------
(* Frames. *)

Call(ev, log) ==
    [pc |-> "snapshot", ev |-> ev, todo |-> {}, sub |-> NoThread, gone |-> {},
     log |-> log]

Depth(t) == Len(frames[t])
Top(t) == frames[t][Depth(t)]
At(t, pc) == Depth(t) > 0 /\ Top(t).pc = pc

Become(t, f) == frames' = [frames EXCEPT ![t][Depth(t)] = f]
Goto(t, pc) == Become(t, [Top(t) EXCEPT !.pc = pc])

\* The innermost call returns or raises; the sink swallows the exception and
\* gives up its lock either way.
Return(t) ==
    /\ frames' = [frames EXCEPT ![t] = SubSeq(@, 1, Depth(t) - 1)]
    /\ sink' = IF Top(t).log THEN NoThread ELSE sink

\* A record logged inside publish: a thread that is in the sink is refused by
\* loguru, another waits for the sink's lock and calls publish again.
LogThenGoto(t, pc) ==
    IF sink # t
    THEN /\ sink = NoThread
         /\ sink' = t
         /\ frames' = [frames EXCEPT ![t] =
                          Append([@ EXCEPT ![Depth(t)].pc = pc],
                                 Call(<<t, 0>>, TRUE))]
    ELSE Goto(t, pc) /\ UNCHANGED sink

-----------------------------------------------------------------------------
(* Threads. *)

Begin(t, log) ==
    /\ Depth(t) = 0
    /\ calls[t] < MaxCalls
    /\ calls' = [calls EXCEPT ![t] = @ + 1]
    /\ frames' = [frames EXCEPT ![t] = <<Call(<<t, calls'[t]>>, log)>>]
    /\ UNCHANGED <<live, stale, q, lock, conn, since, histVars>>

\* publish, called by the job queue or the printer monitor.
Publish(t) == Begin(t, FALSE) /\ UNCHANGED sink

\* LogBroadcaster.write, called by the sink for a record of any thread.
WriteLog(t) ==
    /\ sink = NoThread
    /\ sink' = t
    /\ Begin(t, TRUE)

Snapshot(t) ==
    /\ At(t, "snapshot")
    /\ Free
    /\ Become(t, [Top(t) EXCEPT !.pc = "put", !.todo = live])
    /\ UNCHANGED <<live, stale, q, lock, sink, calls, conn, since, histVars>>

Saturate(n) == IF n < StaleLimit THEN n + 1 ELSE n

\* put_nowait; the queue may be full.  (The order of the loop is not kept.)
Put(t, s) ==
    /\ At(t, "put")
    /\ s \in Top(t).todo
    /\ LET rest == Top(t).todo \ {s}
           full == Len(q[s]) = MaxSize
       IN  /\ Become(t, [Top(t) EXCEPT !.pc = IF full THEN "drop" ELSE "reset",
                                       !.todo = rest, !.sub = s])
           /\ q' = IF full THEN q ELSE [q EXCEPT ![s] = Append(@, Top(t).ev)]
           /\ fulls' = IF full THEN [fulls EXCEPT ![s] = Saturate(@)] ELSE fulls
    /\ UNCHANGED <<live, stale, lock, sink, calls, conn, since, seen>>

\* Mutant: the newest event makes room, not the oldest.
DropNewest(t) ==
    /\ At(t, "drop")
    /\ LET s == Top(t).sub
       IN  IF q[s] = <<>>
           THEN Goto(t, "count") /\ UNCHANGED q
           ELSE /\ q' = [q EXCEPT ![s] = <<Top(t).ev>> \o SubSeq(@, 2, Len(@))]
                /\ Goto(t, "warn")
    /\ UNCHANGED <<live, stale, lock, sink, calls, conn, since, histVars>>

\* get_nowait makes room, unless the subscriber has just emptied the queue.
Drop(t) ==
    /\ At(t, "drop")
    /\ LET s == Top(t).sub
       IN  IF q[s] = <<>>
           THEN Goto(t, "count") /\ UNCHANGED q
           ELSE q' = [q EXCEPT ![s] = Tail(@)] /\ Goto(t, "reput")
    /\ UNCHANGED <<live, stale, lock, sink, calls, conn, since, histVars>>

\* The second put_nowait.  Another thread may have taken the room, and this
\* queue.Full leaves publish.
Reput(t) ==
    /\ At(t, "reput")
    /\ LET s == Top(t).sub
       IN  IF Len(q[s]) < MaxSize
           THEN /\ q' = [q EXCEPT ![s] = Append(@, Top(t).ev)]
                /\ Goto(t, "warn")
                /\ UNCHANGED sink
           ELSE UNCHANGED q /\ Return(t)
    /\ UNCHANGED <<live, stale, lock, calls, conn, since, histVars>>

Warn(t) ==
    /\ At(t, "warn")
    /\ LogThenGoto(t, "count")
    /\ UNCHANGED <<live, stale, q, lock, calls, conn, since, histVars>>

\* Mutant: one too few.
CountTooEarly(t) ==
    /\ At(t, "count")
    /\ Free
    /\ Become(t, [Top(t) EXCEPT !.pc = "put", !.gone = @ \cup {Top(t).sub}])
    /\ UNCHANGED <<live, stale, q, lock, sink, calls, conn, since, histVars>>

\* Mutant: > for >=.
CountTooLate(t) ==
    /\ At(t, "count")
    /\ Free
    /\ LET s == Top(t).sub
       IN  IF stale[s] + 1 > StaleLimit
           THEN /\ Become(t, [Top(t) EXCEPT !.pc = "put", !.gone = @ \cup {s}])
                /\ UNCHANGED stale
           ELSE stale' = [stale EXCEPT ![s] = @ + 1] /\ Goto(t, "put")
    /\ UNCHANGED <<live, q, lock, sink, calls, conn, since, histVars>>

\* The count goes up also for a subscriber that has been removed by now.
Count(t) ==
    /\ At(t, "count")
    /\ Free
    /\ LET s == Top(t).sub
       IN  IF stale[s] + 1 >= StaleLimit
           THEN /\ Become(t, [Top(t) EXCEPT !.pc = "put", !.gone = @ \cup {s}])
                /\ UNCHANGED stale
           ELSE stale' = [stale EXCEPT ![s] = @ + 1] /\ Goto(t, "put")
    /\ UNCHANGED <<live, q, lock, sink, calls, conn, since, histVars>>

Reset(t) ==
    /\ At(t, "reset")
    /\ Free
    /\ stale' = [stale EXCEPT ![Top(t).sub] = 0]
    /\ Goto(t, "put")
    /\ UNCHANGED <<live, q, lock, sink, calls, conn, since, histVars>>

\* After the loop: with somebody to evict, _lock is taken and kept.
EndLoop(t) ==
    /\ At(t, "put")
    /\ Top(t).todo = {}
    /\ IF Top(t).gone = {}
       THEN Goto(t, "listeners") /\ UNCHANGED lock
       ELSE Free /\ lock' = t /\ Goto(t, "evict")
    /\ UNCHANGED <<live, stale, q, sink, calls, conn, since, histVars>>

Evict(t, s) ==
    /\ At(t, "evict")
    /\ s \in Top(t).gone
    /\ live' = live \ {s}
    /\ stale' = [stale EXCEPT ![s] = 0]
    /\ Become(t, [Top(t) EXCEPT !.pc = "evicted", !.gone = @ \ {s}])
    /\ UNCHANGED <<q, lock, sink, calls, conn, since, histVars>>

\* The eviction is logged under _lock.
LogEviction(t) ==
    /\ At(t, "evicted")
    /\ LogThenGoto(t, "evict")
    /\ UNCHANGED <<live, stale, q, lock, calls, conn, since, histVars>>

\* Mutant: a path out of the critical section that keeps the lock.
KeepLock(t) ==
    /\ At(t, "evict")
    /\ Top(t).gone = {}
    /\ Goto(t, "listeners")
    /\ UNCHANGED <<live, stale, q, lock, sink, calls, conn, since, histVars>>

ReleaseLock(t) ==
    /\ At(t, "evict")
    /\ Top(t).gone = {}
    /\ lock' = NoThread
    /\ Goto(t, "listeners")
    /\ UNCHANGED <<live, stale, q, sink, calls, conn, since, histVars>>

\* The listeners come last; their exceptions are caught.
CallListeners(t) ==
    /\ At(t, "listeners")
    /\ Return(t)
    /\ UNCHANGED <<live, stale, q, lock, calls, conn, since, histVars>>

-----------------------------------------------------------------------------
(* Subscribers. *)

Subscribe(s) ==
    /\ conn[s] = "none"
    /\ Free
    /\ live' = live \cup {s}
    /\ conn' = [conn EXCEPT ![s] = "open"]
    /\ UNCHANGED <<stale, q, lock, sink, frames, calls, since, histVars>>

\* ws_events takes an event and sends it.
Receive(s) ==
    /\ conn[s] = "open"
    /\ q[s] # <<>>
    /\ q' = [q EXCEPT ![s] = Tail(@)]
    /\ seen' = LET e == Head(q[s])
               IN  IF e[2] = 0 THEN seen ELSE [seen EXCEPT ![s][e[1]] = e[2]]
    /\ UNCHANGED <<live, stale, lock, sink, frames, calls, conn, since, fulls>>

\* The connection breaks, or _MAX_DURATION is over ...
Leave(s) ==
    /\ conn[s] = "open"
    /\ conn' = [conn EXCEPT ![s] = "leaving"]
    /\ UNCHANGED <<live, stale, q, lock, sink, frames, calls, since, histVars>>

\* Mutant: the queue stays among the subscribers.
UnsubscribeCountOnly(s) ==
    /\ conn[s] = "leaving"
    /\ Free
    /\ stale' = [stale EXCEPT ![s] = 0]
    /\ conn' = [conn EXCEPT ![s] = "closed"]
    /\ UNCHANGED <<live, q, lock, sink, frames, calls, since, histVars>>

\* ... and the handler unsubscribes in its finally clause.
Unsubscribe(s) ==
    /\ conn[s] = "leaving"
    /\ Free
    /\ live' = live \ {s}
    /\ stale' = [stale EXCEPT ![s] = 0]
    /\ conn' = [conn EXCEPT ![s] = "closed"]
    /\ UNCHANGED <<q, lock, sink, frames, calls, since, histVars>>

TimePasses(s) ==
    /\ IdleCleanup
    /\ s \in live
    /\ since' = [since EXCEPT ![s] = TRUE]
    /\ UNCHANGED <<live, stale, q, lock, sink, frames, calls, conn, histVars>>

\* cleanup_idle_subscribers goes by the time of the subscription.
CleanupIdle ==
    /\ IdleCleanup
    /\ Free
    /\ live' = {s \in live : ~since[s]}
    /\ stale' = [s \in Subs |-> IF s \in live \ live' THEN 0 ELSE stale[s]]
    /\ UNCHANGED <<q, lock, sink, frames, calls, conn, since, histVars>>

-----------------------------------------------------------------------------
CallStep(t) ==
    \/ Snapshot(t)
    \/ \E s \in Subs : Put(t, s) \/ Evict(t, s)
    \/ Drop(t) \/ Reput(t) \/ Warn(t) \/ Count(t) \/ Reset(t)
    \/ EndLoop(t) \/ LogEviction(t) \/ ReleaseLock(t)
    \/ CallListeners(t)

SubscriberStep(s) == Subscribe(s) \/ Receive(s) \/ Leave(s) \/ Unsubscribe(s)

Next ==
    \/ \E t \in Threads : Publish(t) \/ WriteLog(t) \/ CallStep(t)
    \/ \E s \in Subs : SubscriberStep(s) \/ TimePasses(s)
    \/ CleanupIdle

Spec == Init /\ [][Next]_vars

\* A thread inside publish and a handler in its finally clause keep going.
\* Nothing is assumed of the clients: they may never take an event.
FairSpec ==
    /\ Spec
    /\ \A t \in Threads : WF_vars(CallStep(t))
    /\ \A s \in Subs : WF_vars(Unsubscribe(s))

-----------------------------------------------------------------------------
(* Properties. *)

\* Events may be lost, but a client gets those of one thread in the order they
\* were published: 'printing' is not told after 'completed'.
InOrder ==
    \A s \in Subs : \A i \in 1..Len(q[s]) :
        LET e == q[s][i]
        IN  e[2] > 0 =>
               /\ e[2] > seen[s][e[1]]
               /\ \A k \in 1..(i - 1) : q[s][k][1] = e[1] => q[s][k][2] < e[2]

\* A subscriber that neither leaves nor gets old is removed only if its queue
\* was found full _STALE_LIMIT times, whichever threads found it so.
EvictedForCause ==
    \A s \in Subs :
        conn[s] = "open" /\ s \notin live => fulls[s] = StaleLimit \/ since[s]

\* A direct call of publish evicts while the sink is installed.
DirectEviction ==
    \E t \in Threads : lock = t /\ Depth(t) > 0 /\ ~frames[t][1].log

\* Every call of publish and every log record ends, whatever the clients do and
\* in whichever order threads take _lock and the sink's lock; the one thing
\* that may hang the bus is the eviction in a call that does not come from the
\* sink.
EveryCallEnds ==
    \A t \in Threads : Depth(t) > 0 ~> Depth(t) = 0 \/ DirectEviction

\* A client that leaves gets out of the bus, with the same exception.
EveryLeaverGone ==
    \A s \in Subs : conn[s] = "leaving" ~> s \notin live \/ DirectEviction

\* Thread-safe: no thread waits for the lock it holds itself.
NoSelfDeadlock == \A t \in Threads : ~(lock = t /\ At(t, "snapshot"))
=============================================================================
