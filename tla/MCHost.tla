-------------------------------- MODULE MCHost --------------------------------
(***************************************************************************)
(* Small instances, in one run, of the components of the server that share *)
(* no variable with each other: a behaviour is one component's, the one    *)
(* the variable part names, and the others stay as they are.               *)
(***************************************************************************)
EXTENDS Naturals, FiniteSets, Sequences

CONSTANTS
    Threads, Documents, Parted, OfficeApps, NoThread, NoDoc, MaxStarts,  \* PrintEngine
    Keys, MaxSettings, MaxCrashes,                               \* ConfigFile
    Ports, MaxRestarts,                                          \* ServerLifecycle
    MaxFiles, MaxDiskFaults,                                     \* ImageBatch
    Printers, MaxChanges                                         \* PrinterMonitor

\* The two null values are none of the values; bounds are numbers.
ASSUME HostConstants ==
    /\ NoThread \notin Threads /\ NoDoc \notin Documents /\ Parted \subseteq Documents
    /\ MaxStarts \in Nat /\ MaxSettings \in Nat /\ MaxCrashes \in Nat
    /\ MaxRestarts \in Nat /\ MaxFiles \in Nat /\ MaxDiskFaults \in Nat
    /\ IsFiniteSet(Printers) /\ MaxChanges \in Nat

VARIABLES
    part,
    kind, pc, doc, result, lock, active, tracked, chrome, temps, spool,
    cpc, cdoc, cinfo, starts, sent, doubted, left, cancelled, refused, overlapped,
    env, mem, file, damage, savePc, data, form, wpc, loading, changed, settings,
    crashes, latest, excused, cut,
    foreign, wanted, callPc, port, thread, server, started, state, bound, should_exit,
    alive, restarts, timedOut, together,
    offered, batchPc, i, saved, paths, enhanced, list, pdf, row, answer, diskFaults,
    windows, pollPc, toRead, got, cache, outgoing, listener, changes, deaf, gone

Engine == INSTANCE PrintEngine
Config == INSTANCE ConfigFile WITH
    MaxChanges <- MaxSettings, pc <- savePc, changes <- settings
Server == INSTANCE ServerLifecycle WITH pc <- callPc
Images == INSTANCE ImageBatch WITH pc <- batchPc
Monitor == INSTANCE PrinterMonitor WITH pc <- pollPc

engineVars == <<kind, pc, doc, result, lock, active, tracked, chrome, temps, spool,
                cpc, cdoc, cinfo, starts, sent, doubted, left, cancelled, refused,
                overlapped>>
configVars == <<env, mem, file, damage, savePc, data, form, wpc, loading, changed, settings,
                crashes, latest, excused, cut>>
serverVars == <<foreign, wanted, callPc, port, thread, server, started, state, bound,
                should_exit, alive, restarts, timedOut, together>>
imageVars == <<offered, batchPc, i, saved, paths, enhanced, list, pdf, row, answer,
               diskFaults>>
monitorVars == <<windows, pollPc, toRead, got, cache, outgoing, listener, changes, deaf, gone>>
hostVars == <<part, engineVars, configVars, serverVars, imageVars, monitorVars>>

Parts == {"engine", "config", "server", "images", "monitor"}

\* A component that does not run starts in one state only.  Ports differ in
\* nothing but who listens on them, so the first one is any.
Init ==
    /\ part \in Parts
    /\ Engine!Init /\ Config!Init /\ Server!Init /\ Images!Init /\ Monitor!Init
    /\ part # "engine" => \A d \in Documents : kind[d] = "direct"
    /\ part # "config" => env = {}
    /\ wanted = CHOOSE p \in Ports : TRUE
    /\ part # "server" => foreign = {} /\ alive = Server!Services
    /\ part # "images" => \A f \in DOMAIN offered : offered[f]
    /\ part # "monitor" => \A p \in Printers : windows[p] = Monitor!Absent

Next ==
    \/ /\ part = "engine" /\ Engine!Next
       /\ UNCHANGED <<part, configVars, serverVars, imageVars, monitorVars>>
    \/ /\ part = "config" /\ Config!Next
       /\ UNCHANGED <<part, engineVars, serverVars, imageVars, monitorVars>>
    \/ /\ part = "server" /\ Server!Next
       /\ UNCHANGED <<part, engineVars, configVars, imageVars, monitorVars>>
    \/ /\ part = "images" /\ Images!Next
       /\ UNCHANGED <<part, engineVars, configVars, serverVars, monitorVars>>
    \/ /\ part = "monitor" /\ Monitor!Next
       /\ UNCHANGED <<part, engineVars, configVars, serverVars, imageVars>>

\* A thread goes on with its print, a server thread and its callers with their
\* next step; Office, the spooler, the user and the disk owe nothing.
Fairness ==
    /\ \A t \in Threads : WF_engineVars(part = "engine" /\ Engine!OwnStep(t))
    /\ \A c \in Server!Callers : WF_serverVars(part = "server" /\ Server!CallerStep(c))
    /\ \A n \in Server!Servers : WF_serverVars(part = "server" /\ Server!ServerStep(n))
    /\ WF_serverVars(part = "server" /\ (Server!StartMonitor \/ Server!Leave))

FairSpec == Init /\ [][Next]_hostVars /\ Fairness

-----------------------------------------------------------------------------
(* Properties: those of the components, several together where they are about
   one matter. *)

TypeOK ==
    Engine!TypeOK /\ Config!TypeOK /\ Server!TypeOK /\ Images!TypeOK /\ Monitor!TypeOK

\* The finally clauses of the print engine: what is not printed has left no
\* entry, no browser and no temporary file but those an exception has left.
NothingLeft == Engine!NothingLeft

\* cancel_active_job finds what is printed, and takes back what a killed
\* browser has spooled if the spooler lets it.
CancelEffective == Engine!CancelFindsRun /\ Engine!KilledIsErased

\* Each document the printer got of a run is the one print_file answers for or
\* that of a way which failed after sending.
CopiesExplained == Engine!CopiesExplained

\* Every run of print_file ends, or an Office application never returns.
EveryRunEnds == Engine!EveryRunEnds

\* The settings: the file is whole when no one writes it, memory and file
\* agree when all is quiet and the watcher lives, and what was last set is in
\* both.
SettingsKept == Config!FileWhole /\ Config!MemoryIsFile /\ Config!SettingKept

\* The server that is restarted: one listens at a time and the handle says so,
\* and until then nothing takes the services a request relies on.
OneServer == Server!OneServer /\ Server!RunningIsTrue /\ Server!ServesUntilRestart

\* start and stop return, whatever the server does, and what they stop ends.
CallsReturn == part = "server" => Server!CallsReturn

\* A batch of pictures leaves no file behind and loses no page.
BatchRight == Images!NothingLeftBehind /\ Images!PagesInOrder

\* Who follows the events of the printers knows what the cache knows, and a
\* printer that is said to be gone was gone.
EventsTrue == Monitor!EventsTrue
=============================================================================
