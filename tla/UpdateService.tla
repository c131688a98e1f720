--------------------------- MODULE UpdateService ---------------------------
(***************************************************************************)
(* The update service (service/*.go) and the part of the tray program that *)
(* talks to it (gui/app.py, gui/pipe_client.py).  The service looks for    *)
(* versions and downloads them, and names the one that is ready in         *)
(* pending.json; the program reads that file, and when it is idle asks for *)
(* the update and exits; the service then replaces the program's files.    *)
(*                                                                         *)
(* Files that belong together are one part.  A part on disk is of some     *)
(* version, or missing (version 0), and it is not whole while it is being  *)
(* written.  Installers (.exe packages) are not modelled: the releases     *)
(* always offer a zip, and the zip comes first.                            *)
(***************************************************************************)
EXTENDS Naturals, FiniteSets

CONSTANTS
    Runs,        \* goroutines that may be in runUpdate
    MaxVersion,  \* versions are 1..MaxVersion; 1 is installed first
    CanKill      \* whether the service may be killed (stop, shutdown, power)

ASSUME UpdateAssumption ==
    /\ MaxVersion \in Nat \ {0}
    /\ CanKill \in BOOLEAN

VARIABLES
    place,     \* the parts in the program's directory
    bak,       \* the parts under their .bak names
    cache,     \* the downloaded packages in update_cache
    json,      \* the version pending.json names, 0 if there is no file
    up,        \* whether the service runs
    pending,   \* the service's variable of this name, 0 for nil
    check,     \* the checker goroutine
    latest,    \* the version the manifest names
    request,   \* an APPLY the service has not handled, 0 for none
    run,       \* what each goroutine does
    app,       \* the tray program
    trouble    \* history: what went wrong so far

diskVars == <<place, bak>>
svcVars  == <<up, pending, check>>
notApp   == <<diskVars, cache, json, svcVars, latest, request, run, trouble>>
vars == <<notApp, app>>

-----------------------------------------------------------------------------
(* Parts and versions. *)

Program == {"internal", "exe"}
Package == Program \cup {"res"}          \* what build.py puts into the zip
Saved   == Program \cup {"svc"}          \* what runUpdate backs up
Parts   == Package \cup Saved

\* The order in which runUpdate goes through what it backs up.
Rank == [internal |-> 1, exe |-> 2, svc |-> 3, res |-> 4]
First(todo) == CHOOSE p \in todo : \A r \in todo : Rank[p] <= Rank[r]

Versions == 1..MaxVersion
Copy == [version : 0..MaxVersion, whole : BOOLEAN]
Whole(v) == [version |-> v, whole |-> TRUE]
Torn(v) == [version |-> v, whole |-> FALSE]
Missing == Torn(0)
IsWhole(c) == c.whole /\ c.version > 0

Put(d, p, c) == [d EXCEPT ![p] = c]

\* The executable starts if its file is whole, and stays up if its libraries
\* are of the same build.
Launches == IsWhole(place["exe"])
Works == Launches /\ place["internal"] = place["exe"]

\* A step failed or gave up; a rename failed or files were in use; the service
\* was killed in the middle.
Trouble == {"failed", "disturbed", "killed"}

-----------------------------------------------------------------------------
(* States of the processes. *)

Idle == [pc |-> "idle", v |-> 0, todo |-> {}, open |-> "none", again |-> FALSE]

Run ==
    [pc : {"idle", "wait", "backup", "extract", "start", "verify", "restore",
           "restart", "cleanup"},
     v : 0..MaxVersion,              \* the package
     todo : SUBSET Parts,            \* parts still to be handled
     open : Parts \cup {"none"},     \* the part being written
     again : BOOLEAN]                \* start the program after the rollback

Off == [pc |-> "off", info |-> 0, shots |-> 0, armed |-> FALSE,
        checked |-> FALSE]
Fresh == [Off EXCEPT !.pc = "up"]

App ==
    [pc : {"off", "up", "exiting"},
     info : 0..MaxVersion,           \* _service_pending_update
     shots : 0..2,                   \* timers that run
     armed : BOOLEAN,                \* _idle_timer exists
     checked : BOOLEAN]              \* _check_service_pending was called

NoCheck == [pc |-> "idle", v |-> 0]

TypeOK ==
    /\ place \in [Parts -> Copy]
    /\ bak \in [Saved -> Copy]
    /\ cache \in [Versions -> {"none", "bad", "good"}]
    /\ json \in 0..MaxVersion
    /\ up \in BOOLEAN
    /\ pending \in 0..MaxVersion
    /\ check \in [pc : {"idle", "fetch", "download", "verify", "publish",
                        "save"},
                  v : 0..MaxVersion]
    /\ latest \in Versions
    /\ request \in 0..MaxVersion
    /\ run \in [Runs -> Run]
    /\ app \in App
    /\ trouble \in SUBSET Trouble

Init ==
    /\ place = [p \in Parts |-> Whole(1)]
    /\ bak = [p \in Saved |-> Missing]
    /\ cache = [v \in Versions |-> "none"]
    /\ json = 0
    /\ up = TRUE
    /\ pending = 0
    /\ check = NoCheck
    /\ latest = 1
    /\ request = 0
    /\ run = [r \in Runs |-> Idle]
    /\ app = Fresh
    /\ trouble = {}

Running == app.pc # "off"

-----------------------------------------------------------------------------
(* The checker: checkAndDownload, every six hours or after a failure. *)

Publish(v) ==
    /\ v = latest + 1
    /\ v \in Versions
    /\ latest' = v
    /\ UNCHANGED <<diskVars, cache, json, svcVars, request, run, app, trouble>>

\* The installed version is read from resources (there is no version_info.json
\* in _internal); an unreadable file counts as version 0.
BeginCheck ==
    /\ up
    /\ check.pc = "idle"
    /\ check' = [pc |-> "fetch",
                 v |-> IF place["res"].whole THEN place["res"].version ELSE 0]
    /\ UNCHANGED <<diskVars, cache, json, up, pending, latest, request, run,
                   app, trouble>>

\* The manifest is fetched, or it is not; only a newer version that is not
\* pending is downloaded.
Fetch ==
    /\ check.pc = "fetch"
    /\ check' \in {NoCheck}
                  \cup {[pc |-> "download", v |-> v] :
                          v \in {latest} \ ({pending} \cup 0..check.v)}
    /\ UNCHANGED <<diskVars, cache, json, up, pending, latest, request, run,
                   app, trouble>>

\* The download takes its final name before it is verified.
Download ==
    /\ check.pc = "download"
    /\ \/ \E c \in {"bad", "good"} :
              /\ cache' = [cache EXCEPT ![check.v] = c]
              /\ check' = [check EXCEPT !.pc = "verify"]
       \/ check' = NoCheck /\ UNCHANGED cache
    /\ UNCHANGED <<diskVars, json, up, pending, latest, request, run, app,
                   trouble>>

\* Mutant: a bad package is logged and taken all the same.
VerifyCarriesOn ==
    /\ check.pc = "verify"
    /\ check' = [check EXCEPT !.pc = "publish"]
    /\ UNCHANGED <<diskVars, cache, json, up, pending, latest, request, run,
                   app, trouble>>

Verify ==
    /\ check.pc = "verify"
    /\ IF cache[check.v] = "bad"
       THEN check' = NoCheck /\ cache' = [cache EXCEPT ![check.v] = "none"]
       ELSE check' = [check EXCEPT !.pc = "publish"] /\ UNCHANGED cache
    /\ UNCHANGED <<diskVars, json, up, pending, latest, request, run, app,
                   trouble>>

\* The package of the pending update that is replaced is removed, unless a
\* run has it open.
SetPending ==
    /\ check.pc = "publish"
    /\ cache' = [v \in Versions |->
                   IF v = pending /\ v # check.v
                      /\ ~\E r \in Runs : run[r].pc = "extract" /\ run[r].v = v
                   THEN "none" ELSE cache[v]]
    /\ pending' = check.v
    /\ check' = [check EXCEPT !.pc = "save"]
    /\ UNCHANGED <<diskVars, json, up, latest, request, run, app, trouble>>

WritePendingJSON ==
    /\ check.pc = "save"
    /\ json' = check.v
    /\ check' = NoCheck
    /\ UNCHANGED <<diskVars, cache, up, pending, latest, request, run, app,
                   trouble>>

CheckStep == Fetch \/ Download \/ Verify \/ SetPending \/ WritePendingJSON

-----------------------------------------------------------------------------
(* The service's process. *)

\* Stopped or killed: its goroutines end where they are.
Kill ==
    /\ CanKill
    /\ up
    /\ up' = FALSE
    /\ pending' = 0
    /\ check' = NoCheck
    /\ request' = 0
    /\ run' = [r \in Runs |-> Idle]
    /\ trouble' = IF \E r \in Runs : run[r].pc # "idle"
                  THEN trouble \cup {"killed"} ELSE trouble
    /\ UNCHANGED <<diskVars, cache, json, latest, app>>

\* At the next boot, if its program is there; resumePending.
StartService ==
    /\ ~up
    /\ IsWhole(place["svc"])
    /\ up' = TRUE
    /\ LET found == json # 0 /\ cache[json] # "none"
       IN  /\ pending' = IF found THEN json ELSE 0
           /\ json' = IF found THEN json ELSE 0
    /\ UNCHANGED <<diskVars, cache, check, latest, request, run, app, trouble>>

\* handleApply, once the client has closed the connection.  The package may be
\* gone; otherwise every request gets a goroutine of its own.
HandleApply ==
    /\ up
    /\ request # 0
    /\ request' = 0
    /\ IF cache[request] = "none"
       THEN UNCHANGED run
       ELSE \E r \in Runs :
               /\ run[r].pc = "idle"
               /\ run' = [run EXCEPT ![r] =
                             [Idle EXCEPT !.pc = "wait", !.v = request]]
    /\ UNCHANGED <<diskVars, cache, json, svcVars, latest, app, trouble>>

-----------------------------------------------------------------------------
(* runUpdate. *)

Goto(r, pc, todo) ==
    run' = [run EXCEPT ![r].pc = pc, ![r].todo = todo, ![r].open = "none"]
Finish(r) == run' = [run EXCEPT ![r] = Idle]
RollBack(r, again) ==
    run' = [run EXCEPT ![r].pc = "restore", ![r].todo = Saved,
                       ![r].open = "none", ![r].again = again]
Note(what) == trouble' = trouble \cup {what}

\* The program has exited, or tasklist fails and that is taken for an exit; or
\* it has not within 60 s.
WaitForExit(r) ==
    /\ run[r].pc = "wait"
    /\ \/ ~Running /\ Goto(r, "backup", Saved) /\ UNCHANGED trouble
       \/ Running /\ Goto(r, "backup", Saved) /\ Note("failed")
       \/ Running /\ Finish(r) /\ Note("failed")
    /\ UNCHANGED <<diskVars, cache, json, svcVars, latest, request, app>>

\* Mutant: the new files are written over the old ones.
NoBackup(r) ==
    /\ run[r].pc = "backup"
    /\ Goto(r, "extract", Package)
    /\ UNCHANGED <<diskVars, cache, json, svcVars, latest, request, app,
                   trouble>>

\* backupFile.  What is there is renamed over the last backup.  That fails for
\* libraries in use, and may fail otherwise; the update goes on.
Backup(r) ==
    /\ run[r].pc = "backup"
    /\ LET p == First(run[r].todo)
           rest == run[r].todo \ {p}
           inUse == Running /\ p = "internal"
       IN  /\ IF rest = {} THEN Goto(r, "extract", Package)
                           ELSE Goto(r, "backup", rest)
           /\ \/ /\ place[p].version = 0
                 /\ UNCHANGED <<place, bak, trouble>>
              \/ /\ place[p].version # 0
                 /\ ~inUse
                 /\ bak' = Put(bak, p, place[p])
                 /\ place' = Put(place, p, Missing)
                 /\ UNCHANGED trouble
              \/ /\ place[p].version # 0
                 /\ bak' = Put(bak, p, Missing)
                 /\ Note("disturbed")
                 /\ UNCHANGED place
    /\ UNCHANGED <<cache, json, svcVars, latest, request, app>>

\* extractZip: a file is truncated, then written.  (The zip's order of the
\* parts is not kept.)
OpenPart(r) ==
    /\ run[r].pc = "extract"
    /\ run[r].open = "none"
    /\ cache[run[r].v] = "good"
    /\ \E p \in run[r].todo :
          /\ ~(Running /\ p \in Program)
          /\ place' = Put(place, p, Torn(run[r].v))
          /\ run' = [run EXCEPT ![r].open = p]
    /\ UNCHANGED <<bak, cache, json, svcVars, latest, request, app, trouble>>

WritePart(r) ==
    /\ run[r].pc = "extract"
    /\ run[r].open # "none"
    /\ place' = Put(place, run[r].open, Whole(run[r].v))
    /\ LET rest == run[r].todo \ {run[r].open}
       IN  Goto(r, IF rest = {} THEN "start" ELSE "extract", rest)
    /\ UNCHANGED <<bak, cache, json, svcVars, latest, request, app, trouble>>

\* The package is gone or bad, a file is in use, the disk is full: at any
\* point of the extraction.
ExtractFails(r) ==
    /\ run[r].pc = "extract"
    /\ RollBack(r, FALSE)
    /\ Note("failed")
    /\ UNCHANGED <<diskVars, cache, json, svcVars, latest, request, app>>

Launch == IF Works /\ app.pc = "off" THEN app' = Fresh ELSE UNCHANGED app

\* exec fails without a whole executable, and may fail with one.
StartNew(r) ==
    /\ run[r].pc = "start"
    /\ \/ Launches /\ Launch /\ Goto(r, "verify", {}) /\ UNCHANGED trouble
       \/ RollBack(r, FALSE) /\ Note("failed") /\ UNCHANGED app
    /\ UNCHANGED <<diskVars, cache, json, svcVars, latest, request>>

\* Ten seconds later the new program runs, or does not, or tasklist fails.
VerifyRuns(r) ==
    /\ run[r].pc = "verify"
    /\ \/ Running /\ Goto(r, "cleanup", Saved) /\ UNCHANGED trouble
       \/ ~Running /\ RollBack(r, TRUE) /\ UNCHANGED trouble
       \/ Running /\ RollBack(r, TRUE) /\ Note("failed")
    /\ UNCHANGED <<diskVars, cache, json, svcVars, latest, request, app>>

AfterRestore(r) == IF run[r].again THEN Goto(r, "restart", {}) ELSE Finish(r)

\* Mutant: the backup of the executable is forgotten.
RestoreLibrariesOnly(r) ==
    /\ run[r].pc = "restore"
    /\ place' = Put(place, "internal", bak["internal"])
    /\ bak' = Put(bak, "internal", Missing)
    /\ AfterRestore(r)
    /\ UNCHANGED <<cache, json, svcVars, latest, request, app, trouble>>

\* restoreAll.  _internal is removed in any case, the files only if there is a
\* backup.  Libraries in use are removed in part and cannot be replaced; and a
\* rename may fail when the way is clear, and the backup stays where it is.
Restore(r) ==
    /\ run[r].pc = "restore"
    /\ LET p == First(run[r].todo)
           rest == run[r].todo \ {p}
           saved == bak[p].version # 0
           inUse == Running /\ p = "internal"
       IN  /\ IF rest = {} THEN AfterRestore(r) ELSE Goto(r, "restore", rest)
           /\ \/ /\ ~inUse
                 /\ place' = IF saved \/ p = "internal"
                             THEN Put(place, p, bak[p]) ELSE place
                 /\ bak' = Put(bak, p, Missing)
                 /\ UNCHANGED trouble
              \/ /\ inUse \/ saved
                 /\ place' = Put(place, p, IF inUse THEN Torn(place[p].version) ELSE Missing)
                 /\ Note("disturbed")
                 /\ UNCHANGED bak
    /\ UNCHANGED <<cache, json, svcVars, latest, request, app>>

\* Mutant: the old program is not started again.
LeaveOff(r) ==
    /\ run[r].pc = "restart"
    /\ Finish(r)
    /\ UNCHANGED <<diskVars, cache, json, svcVars, latest, request, app,
                   trouble>>

\* The old program is started again, or cannot be, which nobody looks at.
Restart(r) ==
    /\ run[r].pc = "restart"
    /\ \/ Launch /\ UNCHANGED trouble
       \/ Note("failed") /\ UNCHANGED app
    /\ Finish(r)
    /\ UNCHANGED <<diskVars, cache, json, svcVars, latest, request>>

\* The backups are removed, then the package.
Cleanup(r) ==
    /\ run[r].pc = "cleanup"
    /\ IF run[r].todo = {}
       THEN /\ cache' = [cache EXCEPT ![run[r].v] = "none"]
            /\ Finish(r)
            /\ UNCHANGED bak
       ELSE /\ bak' = Put(bak, First(run[r].todo), Missing)
            /\ Goto(r, "cleanup", run[r].todo \ {First(run[r].todo)})
            /\ UNCHANGED cache
    /\ UNCHANGED <<place, json, svcVars, latest, request, app, trouble>>

RunStep(r) ==
    \/ WaitForExit(r) \/ Backup(r) \/ OpenPart(r) \/ WritePart(r)
    \/ ExtractFails(r) \/ StartNew(r) \/ VerifyRuns(r) \/ Restore(r)
    \/ Restart(r) \/ Cleanup(r)

-----------------------------------------------------------------------------
(* The tray program. *)

UserStart ==
    /\ app.pc = "off"
    /\ Works
    /\ app' = Fresh
    /\ UNCHANGED notApp

\* Logoff, crash, or killed: the menu's exit raises before it quits.
AppStops ==
    /\ app.pc = "up"
    /\ app' = Off
    /\ UNCHANGED notApp

\* Mutant: the check is repeated and arms a timer each time.
CheckServiceAgain ==
    /\ app.pc = "up"
    /\ json # 0
    /\ app.shots <= 2
    /\ app' = [app EXCEPT !.info = json, !.armed = TRUE, !.shots = @ + 1]
    /\ UNCHANGED notApp

\* _check_service_pending, once, arms a timer whether there is one or not.
CheckServicePending ==
    /\ app.pc = "up"
    /\ ~app.checked
    /\ app' = IF json = 0 THEN [app EXCEPT !.checked = TRUE]
              ELSE [app EXCEPT !.checked = TRUE, !.info = json, !.armed = TRUE,
                               !.shots = @ + 1]
    /\ UNCHANGED notApp

\* _on_pending_dir_changed, on any change in update_cache, arms the first only.
PendingDirChanged ==
    /\ app.pc = "up"
    /\ json # 0
    /\ app' = [app EXCEPT !.info = json, !.armed = TRUE,
                          !.shots = IF app.armed THEN @ ELSE @ + 1]
    /\ UNCHANGED notApp

\* A minute later.  An update the program was started in the middle of is over
\* by then: it can only be started before the first rename, in the 60 s the
\* service waits for its exit, or when little more than the 10 s the service
\* watches it is left.
TimerDue ==
    /\ app.pc = "up"
    /\ app.shots > 0
    /\ request = 0
    /\ \A r \in Runs : run[r].pc = "idle"

\* _check_idle_and_apply finds jobs, or an active window: this shot is lost.
TimerBusy ==
    /\ TimerDue
    /\ app' = [app EXCEPT !.shots = @ - 1]
    /\ UNCHANGED notApp

\* _auto_apply_service_update stops the server, sends APPLY, gives up waiting
\* for the answer (the service reads until the connection is closed) and makes
\* the program exit whatever became of the request.
ApplyAndExit ==
    /\ TimerDue
    /\ app' = [app EXCEPT !.pc = "exiting", !.shots = @ - 1]
    /\ request' = IF up THEN app.info ELSE 0
    /\ UNCHANGED <<diskVars, cache, json, svcVars, latest, run, trouble>>

AppExit ==
    /\ app.pc = "exiting"
    /\ app' = Off
    /\ UNCHANGED notApp

AppStep ==
    \/ UserStart \/ AppStops \/ CheckServicePending \/ PendingDirChanged
    \/ TimerBusy \/ ApplyAndExit \/ AppExit

-----------------------------------------------------------------------------
Next ==
    \/ \E v \in Versions : Publish(v)
    \/ BeginCheck \/ CheckStep
    \/ Kill \/ StartService \/ HandleApply
    \/ \E r \in Runs : RunStep(r)
    \/ AppStep

Spec == Init /\ [][Next]_vars

\* The service's goroutines run, and a program that is exiting exits.  Nothing
\* is assumed of the network, of users or of the service being started.
FairSpec ==
    /\ Spec
    /\ WF_vars(HandleApply)
    /\ WF_vars(AppExit)
    /\ \A r \in Runs : WF_vars(RunStep(r))

-----------------------------------------------------------------------------
(* Properties. *)

Busy(r) == run[r].pc # "idle"
Quiet == \A r \in Runs : ~Busy(r)

\* No rename failed and no file was in use: the conditions under which the
\* update is meant to be safe.
Undisturbed == "disturbed" \notin trouble

\* At every moment the whole program of one version is on disk, part by part in
\* place or as a backup, also when the service is killed between two steps.
ProgramKept ==
    Undisturbed =>
        \E v \in Versions : \A p \in Program :
            Whole(v) \in {place[p], bak[p]}

\* When no update is under way a program that works is in place: replaced, or
\* rolled back after a failure at any point; only a kill leaves it in pieces.
NothingHalfDone == Undisturbed /\ Quiet /\ "killed" \notin trouble => Works

\* A package that is announced was verified; it may be gone, never bad.
PendingVerified ==
    \A v \in {pending, json, app.info, request} \ {0} : cache[v] # "bad"

\* An update that was begun brings the program back, the new one or, should that
\* one crash, the old one, unless something else went wrong.
ProgramComesBack ==
    \A r \in Runs :
        Busy(r) /\ run[r].pc # "cleanup" ~> app.pc = "up" \/ trouble # {}

\* While nothing has gone wrong, the program announces an update and a restart,
\* and exits, only if there is a package to install.
NoExitInVain ==
    [][ApplyAndExit /\ trouble = {} => cache[app.info] # "none"]_vars
=============================================================================
