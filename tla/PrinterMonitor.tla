---------------------------- MODULE PrinterMonitor ----------------------------
(***************************************************************************)
(* PrinterMonitor._poll (src/app/services/printer_monitor.py): the thread  *)
(* asks Windows for each printer in turn, updates its cache under a lock   *)
(* and then publishes the differences; pages and requests read the cache.  *)
(***************************************************************************)
EXTENDS Naturals, Sequences, FiniteSets

CONSTANTS
    Printers,
    MaxChanges   \* bound: changes of a printer in Windows

States == {"ready", "error"}
Absent == "absent"

VARIABLES
    windows,   \* state of each printer in Windows
    pc,        \* wait, read, diff, publish
    toRead, got, \* printers of this enumeration still to ask; what was read
    cache,     \* _cache, Absent for names not in it
    outgoing,  \* events still to publish: changed, then removed
    listener,  \* what a listener believes who has applied every event
    changes,
    deaf,      \* history: printers whose last event could not be published
    gone       \* history: printers Windows has lacked at some time of this poll

vars == <<windows, pc, toRead, got, cache, outgoing, listener, changes, deaf, gone>>

Reading == States \cup {Absent}

TypeOK ==
    /\ windows \in [Printers -> Reading]
    /\ pc \in {"wait", "read", "diff", "publish"}
    /\ toRead \subseteq Printers
    /\ got \in [Printers -> Reading]
    /\ cache \in [Printers -> Reading]
    /\ outgoing \in Seq(Printers \X Reading)
    /\ listener \in [Printers -> Reading]
    /\ changes \in 0..MaxChanges
    /\ deaf \subseteq Printers /\ gone \subseteq Printers

Nothing == [p \in Printers |-> Absent]

Init ==
    /\ windows \in [Printers -> Reading]
    /\ pc = "wait" /\ toRead = {} /\ got = Nothing
    /\ cache = Nothing /\ outgoing = <<>> /\ listener = Nothing
    /\ changes = 0 /\ deaf = {} /\ gone = {}

\* A printer changes, comes or goes (external).
WindowsChanges(p, s) ==
    /\ changes < MaxChanges /\ windows[p] # s
    /\ changes' = changes + 1
    /\ windows' = [windows EXCEPT ![p] = s]
    /\ gone' = IF s = Absent THEN gone \cup {p} ELSE gone
    /\ UNCHANGED <<pc, toRead, got, cache, outgoing, listener, deaf>>

\* EnumPrinters gives the names there are now.
Enumerate ==
    /\ pc = "wait"
    /\ pc' = "read"
    /\ toRead' = {p \in Printers : windows[p] # Absent}
    /\ got' = Nothing
    /\ gone' = {p \in Printers : windows[p] = Absent}
    /\ UNCHANGED <<windows, cache, outgoing, listener, changes, deaf>>

\* OpenPrinter and GetPrinter; a printer that went meanwhile, or any other
\* error, ends the poll without a change.
ReadPrinter(p) ==
    /\ pc = "read" /\ p \in toRead
    /\ \/ /\ windows[p] # Absent
          /\ toRead' = toRead \ {p}
          /\ got' = [got EXCEPT ![p] = windows[p]]
          /\ UNCHANGED pc
       \/ pc' = "wait" /\ toRead' = {} /\ got' = Nothing
    /\ UNCHANGED <<windows, cache, outgoing, listener, changes, deaf, gone>>

ReadAll ==
    /\ pc = "read" /\ toRead = {}
    /\ pc' = "diff"
    /\ UNCHANGED <<windows, toRead, got, cache, outgoing, listener, changes, deaf, gone>>

\* Under _cache_lock: the cache becomes what was read; the differences are kept
\* for after the lock, the removals last.
Diff ==
    /\ pc = "diff"
    /\ LET differ == {p \in Printers : got[p] # cache[p]}
       IN  \E order \in [1..Cardinality(differ) -> differ] :
             /\ \A m, n \in DOMAIN order : m # n => order[m] # order[n]
             /\ \A m, n \in DOMAIN order :
                   got[order[m]] = Absent /\ got[order[n]] # Absent => n < m
             /\ outgoing' = [n \in DOMAIN order |-> <<order[n], got[order[n]]>>]
    /\ cache' = got /\ pc' = "publish" /\ got' = Nothing
    /\ UNCHANGED <<windows, toRead, listener, changes, deaf, gone>>

Heard == /\ listener' = [listener EXCEPT ![Head(outgoing)[1]] = Head(outgoing)[2]]
         /\ deaf' = deaf \ {Head(outgoing)[1]}

Unheard == deaf' = deaf \cup {Head(outgoing)[1]} /\ UNCHANGED listener

\* Mutant: a publish that fails ends the round.
PublishAndStop ==
    /\ pc = "publish" /\ outgoing # <<>>
    /\ \/ Heard /\ outgoing' = Tail(outgoing)
       \/ Unheard /\ outgoing' = <<>>
    /\ UNCHANGED <<windows, pc, toRead, got, cache, changes, gone>>

\* Each publish has a handler of its own: one that fails loses one event.
Publish ==
    /\ pc = "publish" /\ outgoing # <<>>
    /\ Heard \/ Unheard
    /\ outgoing' = Tail(outgoing)
    /\ UNCHANGED <<windows, pc, toRead, got, cache, changes, gone>>

\* The round is over; thirty seconds later the next.
Rest ==
    /\ pc = "publish" /\ outgoing = <<>>
    /\ pc' = "wait"
    /\ UNCHANGED <<windows, toRead, got, cache, outgoing, listener, changes, deaf, gone>>

MonitorStep ==
    \/ Enumerate \/ (\E p \in Printers : ReadPrinter(p)) \/ ReadAll \/ Diff
    \/ Publish \/ Rest

Next == MonitorStep \/ \E p \in Printers, s \in Reading : WindowsChanges(p, s)

Spec == Init /\ [][Next]_vars

-----------------------------------------------------------------------------
(* Properties. *)

\* Between two polls a listener that has heard the last event of a printer
\* believes what the cache says of it, although the events are sent after the
\* lock was given back and each may fail on its own.
EventsMakeTheCache ==
    pc # "publish" => \A p \in Printers \ deaf : listener[p] = cache[p]

\* A printer is only reported as removed if Windows lacked it during the poll:
\* one that could not be asked does not disappear, it voids the poll.
RemovedWereGone == \A p \in Printers : cache[p] # Absent /\ cache'[p] = Absent => p \in gone

\* Both, of every step.
EventsTrue == [][EventsMakeTheCache' /\ RemovedWereGone]_vars
=============================================================================
