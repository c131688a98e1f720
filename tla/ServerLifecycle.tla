--------------------------- MODULE ServerLifecycle ---------------------------
(***************************************************************************)
(* The web server inside the tray program: ServerHandle.start and stop     *)
(* (src/launcher/_server.py), called by the thread that boots the server   *)
(* and by the GUI's, for its settings page and when it ends, the uvicorn   *)
(* threads they leave behind, and the services that bootstrap starts and   *)
(* the lifespan of a server stops (src/launcher/__init__.py,               *)
(* src/app/bootstrap.py).                                                  *)
(***************************************************************************)
EXTENDS Naturals, FiniteSets

CONSTANTS
    Ports,       \* values of the setting port
    MaxRestarts  \* bound: restarts from the settings page

Callers == {"boot", "page"}
Services == {"watcher", "monitor", "heartbeat", "workers", "http_client"}
Servers == 1..(MaxRestarts + 1)

VARIABLES
    foreign,     \* ports on which another program listens
    wanted,      \* the port in the settings
    pc,          \* where each caller is
    port,        \* ServerHandle._port
    thread,      \* _thread, 0 before the first
    server,      \* server: the number of its thread, 0 before the first
    started,     \* _started
    state,       \* of each uvicorn thread
    bound,       \* the port it listens on, or will
    should_exit, \* uvicorn's flag
    alive,       \* services that run and are not told to stop
    restarts,
    timedOut,    \* history: a join or a probe gave up
    together     \* history: two calls of start overlapped

handleVars == <<port, thread, server, started>>
serverVars == <<state, bound, should_exit>>
histVars == <<timedOut, together>>
vars == <<foreign, wanted, pc, handleVars, serverVars, alive, restarts, histVars>>

TypeOK ==
    /\ foreign \subseteq Ports /\ wanted \in Ports
    /\ pc \in [Callers -> {"idle", "monitor", "stop", "join", "start", "probe", "done",
                           "quit", "leave", "over"}]
    /\ port \in Ports
    /\ thread \in {0} \cup Servers /\ server \in {0} \cup Servers
    /\ started \in BOOLEAN
    /\ state \in [Servers -> {"none", "spawned", "starting", "listening",
                              "lifespan", "dead"}]
    /\ bound \in [Servers -> Ports]
    /\ should_exit \in [Servers -> BOOLEAN]
    /\ alive \subseteq Services
    /\ restarts \in 0..MaxRestarts
    /\ timedOut \in BOOLEAN /\ together \in BOOLEAN

\* After bootstrap; the monitor runs already if the setup wizard was shown.
Init ==
    /\ foreign \in SUBSET Ports
    /\ wanted \in Ports
    /\ pc = [c \in Callers |-> IF c = "boot" THEN "monitor" ELSE "idle"]
    /\ port = wanted
    /\ thread = 0 /\ server = 0 /\ started = FALSE
    /\ state = [i \in Servers |-> "none"]
    /\ bound = [i \in Servers |-> wanted]
    /\ should_exit = [i \in Servers |-> FALSE]
    /\ alive \in {Services, Services \ {"monitor"}}
    /\ restarts = 0 /\ timedOut = FALSE /\ together = FALSE

Live(i) == state[i] \notin {"none", "dead"}
Serving(p) == \E i \in Servers : state[i] = "listening" /\ bound[i] = p
Listening(p) == p \in foreign \/ Serving(p)
Goto(c, q) == pc' = [pc EXCEPT ![c] = q]
Become(i, s) == state' = [state EXCEPT ![i] = s]

-----------------------------------------------------------------------------
\* _start_server_background: PrinterMonitor.start, then ServerHandle.start.
StartMonitor ==
    /\ pc["boot"] = "monitor"
    /\ alive' = alive \cup {"monitor"}
    /\ Goto("boot", "start")
    /\ UNCHANGED <<foreign, wanted, handleVars, serverVars, restarts, histVars>>

\* _save found a changed setting that needs a restart, and the user agreed.
Restart(p) ==
    /\ pc["page"] = "idle"
    /\ restarts < MaxRestarts
    /\ restarts' = restarts + 1
    /\ wanted' = p
    /\ Goto("page", "stop")
    /\ UNCHANGED <<foreign, handleVars, serverVars, alive, histVars>>

\* The user quits: the GUI has ended and stops the server.
Quit ==
    /\ pc["page"] = "idle"
    /\ Goto("page", "quit")
    /\ UNCHANGED <<foreign, wanted, handleVars, serverVars, alive, restarts, histVars>>

\* stop: a server whose thread has not made it yet is not told.
Stop(c) ==
    /\ pc[c] \in {"stop", "quit"}
    /\ should_exit' = IF server = 0 THEN should_exit
                      ELSE [should_exit EXCEPT ![server] = TRUE]
    /\ Goto(c, IF pc[c] = "stop" THEN "join" ELSE "leave")
    /\ UNCHANGED <<foreign, wanted, handleVars, state, bound, alive, restarts, histVars>>

\* Mutant: the thread is not waited for.
NoJoin(c) ==
    /\ pc[c] = "join"
    /\ started' = FALSE
    /\ Goto(c, "start")
    /\ UNCHANGED <<foreign, wanted, port, thread, server, serverVars, alive, restarts, histVars>>

\* Mutant: the join has no time limit.
JoinForEver(c) ==
    /\ pc[c] = "join"
    /\ thread # 0 => ~Live(thread)
    /\ started' = FALSE
    /\ Goto(c, "start")
    /\ UNCHANGED <<foreign, wanted, port, thread, server, serverVars, alive, restarts, histVars>>

\* The join ends with the thread, or after ten seconds.
Join(c) ==
    /\ pc[c] = "join"
    /\ started' = FALSE
    /\ timedOut' = (timedOut \/ (thread # 0 /\ Live(thread)))
    /\ Goto(c, "start")
    /\ UNCHANGED <<foreign, wanted, port, thread, server, serverVars, alive,
                   restarts, together>>

\* The last join ends too, and with the process all its threads and what they
\* had.
Leave ==
    /\ pc["page"] = "leave"
    /\ thread' = 0 /\ server' = 0 /\ started' = FALSE
    /\ state' = [i \in Servers |-> "dead"]
    /\ should_exit' = [i \in Servers |-> FALSE]
    /\ alive' = {}
    /\ pc' = [pc EXCEPT !["page"] = "over", !["boot"] = "idle"]
    /\ UNCHANGED <<foreign, wanted, port, bound, restarts, histVars>>

\* start: nothing if it is running, else a new thread.
Start(c) ==
    /\ pc[c] = "start"
    /\ IF started
       THEN /\ Goto(c, "done")
            /\ UNCHANGED <<handleVars, state, together>>
       ELSE \E i \in Servers :
            /\ state[i] = "none" /\ \A j \in 1..(i - 1) : state[j] # "none"
            /\ Become(i, "spawned")
            /\ port' = wanted /\ thread' = i
            /\ together' = (together \/ \E d \in Callers \ {c} : pc[d] = "probe")
            /\ Goto(c, "probe")
            /\ UNCHANGED <<server, started>>
    /\ UNCHANGED <<foreign, wanted, bound, should_exit, alive, restarts, timedOut>>

\* The port is tried for thirty seconds; whoever answers will do.
Probe(c) ==
    /\ pc[c] = "probe"
    /\ IF Listening(port)
       THEN started' = TRUE /\ UNCHANGED timedOut
       ELSE timedOut' = TRUE /\ UNCHANGED started
    /\ Goto(c, "done")
    /\ UNCHANGED <<foreign, wanted, port, thread, server, serverVars, alive,
                   restarts, together>>

Return(c) ==
    /\ pc[c] = "done"
    /\ Goto(c, "idle")
    /\ UNCHANGED <<foreign, wanted, handleVars, serverVars, alive, restarts, histVars>>

-----------------------------------------------------------------------------
(* A uvicorn thread. *)

\* _run_uvicorn makes the server with the port of that moment.
Configure(i) ==
    /\ state[i] = "spawned"
    /\ Become(i, "starting")
    /\ bound' = [bound EXCEPT ![i] = port]
    /\ server' = i
    /\ UNCHANGED <<foreign, wanted, pc, port, thread, started, should_exit, alive,
                   restarts, histVars>>

\* The settings of the server, its certificate or its startup raise: the thread
\* ends, and no lifespan has been entered.
Fail(i) ==
    /\ state[i] \in {"spawned", "starting"}
    /\ Become(i, "dead")
    /\ UNCHANGED <<foreign, wanted, pc, handleVars, bound, should_exit, alive,
                   restarts, histVars>>

\* uvicorn's startup (external): a port that is taken ends in the shutdown of
\* the lifespan; a server told to exit by then leaves without it.
Bind(i) ==
    /\ state[i] = "starting"
    /\ Become(i, IF Listening(bound[i]) THEN "lifespan"
                 ELSE IF should_exit[i] THEN "dead" ELSE "listening")
    /\ UNCHANGED <<foreign, wanted, pc, handleVars, bound, should_exit, alive,
                   restarts, histVars>>

Close(i) ==
    /\ state[i] = "listening" /\ should_exit[i]
    /\ Become(i, "lifespan")
    /\ UNCHANGED <<foreign, wanted, pc, handleVars, bound, should_exit, alive,
                   restarts, histVars>>

\* _server_lifespan after yield: every service is told to stop, the client is
\* closed.  The loops see it in their own time; none is told to go on.
Lifespan(i) ==
    /\ state[i] = "lifespan"
    /\ Become(i, "dead")
    /\ alive' = {}
    /\ UNCHANGED <<foreign, wanted, pc, handleVars, bound, should_exit, restarts, histVars>>

CallerStep(c) == Stop(c) \/ Join(c) \/ Start(c) \/ Probe(c) \/ Return(c)
ServerStep(i) == Configure(i) \/ Fail(i) \/ Bind(i) \/ Close(i) \/ Lifespan(i)

Next ==
    \/ StartMonitor \/ Quit \/ Leave
    \/ \E p \in Ports : Restart(p)
    \/ \E c \in Callers : CallerStep(c)
    \/ \E i \in Servers : ServerStep(i)

Spec == Init /\ [][Next]_vars

-----------------------------------------------------------------------------
(* Properties. *)

\* No call is under way and no server is on its way up or down.
Settled ==
    /\ \A c \in Callers : pc[c] \in {"idle", "over"}
    /\ \A i \in Servers :
          \/ state[i] \in {"none", "dead"}
          \/ state[i] = "listening" /\ ~should_exit[i]

\* stop and start leave one server at most, the one the handle knows: an older
\* one can only be left when a wait was given up or two starts overlapped.
OneServer ==
    ~timedOut /\ ~together =>
        \A i \in Servers : Live(i) => i = thread /\ (server = i \/ state[i] = "spawned")

\* Then is_running, which start and the pages go by, says what is the case;
\* only another program on the port is taken for the server.
RunningIsTrue ==
    Settled /\ ~timedOut /\ ~together =>
        /\ Serving(port) => started
        /\ started => Serving(port) \/ port \in foreign

\* Until the first stop nothing takes a service from a server that listens.
\* (Afterwards it is false: the lifespan that ends stops the services for good.)
ServesUntilRestart ==
    restarts = 0 /\ pc["page"] = "idle" /\ Serving(port) => alive = Services

\* Every call of stop or start returns, and what was told to exit is gone in the
\* end.
CallsReturn ==
    []<>(/\ \A c \in Callers : pc[c] \in {"idle", "over"}
         /\ \A i \in Servers : should_exit[i] => state[i] = "dead")
=============================================================================
