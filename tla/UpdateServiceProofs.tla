------------------------- MODULE UpdateServiceProofs -------------------------
(***************************************************************************)
(* Safety of UpdateService, for any number of versions and of goroutines:  *)
(* what is on disk while an update is under way or was interrupted, and    *)
(* that an announced package was verified.                                 *)
(***************************************************************************)
EXTENDS UpdateService, TLAPS

\* The update is asked for when none is under way, so that there is one run.
OneRun ==
    /\ \A r, s \in Runs : Busy(r) /\ Busy(s) => r = s
    /\ request # 0 => Quiet

\* What is left to do of what runUpdate backs up, in its order.
RestOfSaved == {Saved, {"exe", "svc"}, {"svc"}}

\* Where a run is, and what it has written of the package by then.
RunShape(r) ==
    /\ Busy(r) => run[r].v \in Versions
    /\ run[r].pc \in {"backup", "restore"} => run[r].todo \in RestOfSaved
    /\ run[r].pc = "cleanup" => run[r].todo \in RestOfSaved \cup {{}}
    /\ run[r].pc = "extract" =>
          /\ run[r].todo \subseteq Package
          /\ run[r].open \in run[r].todo \cup {"none"}
          /\ \A p \in Package \ run[r].todo : place[p] = Whole(run[r].v)
    /\ run[r].pc \in {"start", "verify", "cleanup"} =>
          \A p \in Package : place[p] = Whole(run[r].v)

\* Two timers at most: each of the two callers arms one, the second of them
\* only if there is none.
ShotsLeft ==
    /\ ~app.armed => app.shots = 0
    /\ ~app.checked => app.shots <= 1

\* A service that does not run does nothing and knows nothing.
DownIsIdle ==
    ~up => check = NoCheck /\ pending = 0 /\ request = 0 /\ Quiet

TypeInv ==
    /\ TypeOK
    /\ OneRun
    /\ \A r \in Runs : RunShape(r)
    /\ ShotsLeft
    /\ check.pc \notin {"idle", "fetch"} => check.v \in Versions
    /\ DownIsIdle

-----------------------------------------------------------------------------
(* The operators of the model. *)

\* runUpdate goes through what it backs up from the libraries to the service.
LEMMA FirstOfSaved ==
  /\ First(Saved) = "internal" /\ Saved \ {"internal"} = {"exe", "svc"}
  /\ First({"exe", "svc"}) = "exe" /\ {"exe", "svc"} \ {"exe"} = {"svc"}
  /\ First({"svc"}) = "svc" /\ {"svc"} \ {"svc"} = {}
<1>1. Saved = {"internal", "exe", "svc"}
  BY DEF Saved, Program
<1>2. First(Saved) = "internal"
  BY <1>1 DEF First, Rank
<1>3. First({"exe", "svc"}) = "exe"
  BY DEF First, Rank
<1>4. First({"svc"}) = "svc"
  BY DEF First, Rank
<1> QED BY <1>1, <1>2, <1>3, <1>4

\* A step of one run leaves the others alone and keeps the package it installs.
LEMMA GotoRun ==
  ASSUME run \in [Runs -> Run], NEW r \in Runs, NEW todo \in SUBSET Parts,
         NEW pc \in {"backup", "extract", "start", "verify", "restore",
                     "restart", "cleanup"},
         Goto(r, pc, todo)
  PROVE  /\ run'[r].pc = pc /\ run'[r].todo = todo /\ run'[r].open = "none"
         /\ run'[r].v = run[r].v /\ run'[r].again = run[r].again
         /\ \A s \in Runs \ {r} : run'[s] = run[s]
         /\ run' \in [Runs -> Run]
<1> DEFINE new == [run[r] EXCEPT !.pc = pc, !.todo = todo, !.open = "none"]
<1>1. run' = [run EXCEPT ![r] = new]
  BY DEF Goto
<1>2. /\ new \in Run
      /\ new.pc = pc /\ new.todo = todo /\ new.open = "none"
      /\ new.v = run[r].v /\ new.again = run[r].again
  BY DEF Run
<1> QED BY <1>1, <1>2

LEMMA RollBackRun ==
  ASSUME run \in [Runs -> Run], NEW r \in Runs, NEW again \in BOOLEAN,
         RollBack(r, again)
  PROVE  /\ run'[r].pc = "restore" /\ run'[r].todo = Saved
         /\ run'[r].open = "none"
         /\ run'[r].v = run[r].v /\ run'[r].again = again
         /\ \A s \in Runs \ {r} : run'[s] = run[s]
         /\ run' \in [Runs -> Run]
<1> DEFINE new == [run[r] EXCEPT !.pc = "restore", !.todo = Saved,
                                 !.open = "none", !.again = again]
<1>1. run' = [run EXCEPT ![r] = new]
  BY DEF RollBack
<1>2. /\ new \in Run
      /\ new.pc = "restore" /\ new.todo = Saved /\ new.open = "none"
      /\ new.v = run[r].v /\ new.again = again
  BY DEF Run, Parts
<1> QED BY <1>1, <1>2

LEMMA FinishRun ==
  ASSUME run \in [Runs -> Run], NEW r \in Runs, Finish(r)
  PROVE  /\ run'[r] = Idle
         /\ \A s \in Runs \ {r} : run'[s] = run[s]
         /\ run' \in [Runs -> Run]
<1>1. Idle \in Run
  BY UpdateAssumption DEF Idle, Run
<1> QED BY <1>1 DEF Finish

\* A program that has just started knows of no update and has no timer.
LEMMA FreshApp ==
  /\ Off \in App /\ Off.info = 0 /\ Off.pc = "off" /\ Off.shots = 0
  /\ Fresh \in App /\ Fresh.info = 0 /\ Fresh.pc = "up" /\ Fresh.shots = 0
<1>1. /\ Off \in App /\ Off.info = 0 /\ Off.pc = "off" /\ Off.shots = 0
  BY UpdateAssumption DEF Off, App
<1>2. Fresh \in App
  BY <1>1 DEF Fresh, App
<1>3. Fresh.info = 0 /\ Fresh.pc = "up" /\ Fresh.shots = 0
  BY DEF Fresh, Off
<1> QED BY <1>1, <1>2, <1>3

-----------------------------------------------------------------------------
(* Types, and where the run is. *)

\* At the first boot nothing is under way.
LEMMA TypeInvInit == Init => TypeInv
<1> SUFFICES ASSUME Init PROVE TypeInv
  OBVIOUS
<1> USE UpdateAssumption DEF Init
<1>1. /\ Whole(1) \in Copy /\ Missing \in Copy /\ Idle \in Run
      /\ \A r \in Runs : run[r] = Idle
  BY DEF Whole, Missing, Torn, Copy, Idle, Run
<1>2. TypeOK
  BY <1>1, FreshApp DEF TypeOK, Versions, NoCheck
<1>3. Quiet /\ OneRun /\ \A r \in Runs : RunShape(r)
  BY <1>1 DEF Quiet, OneRun, Busy, RunShape, Idle
<1> QED
  BY <1>2, <1>3 DEF TypeInv, ShotsLeft, DownIsIdle, Fresh, Off, NoCheck

\* The checker touches no file of the program and no run.
LEMMA TypeInvCheck ==
  ASSUME TypeInv,
         (\E v \in Versions : Publish(v)) \/ BeginCheck \/ CheckStep
  PROVE  TypeInv'
<1> USE DEF TypeInv, OneRun, ShotsLeft, DownIsIdle, Busy, Quiet, diskVars,
            svcVars
<1>1. UNCHANGED <<place, bak, up, request, run, app, trouble>>
  BY DEF Publish, BeginCheck, CheckStep, Fetch, Download, Verify, SetPending,
     WritePendingJSON
<1>2. \A r \in Runs : RunShape(r)'
  BY <1>1 DEF RunShape
<1>3. TypeOK'
  <2>1. ASSUME NEW v \in Versions, Publish(v) PROVE TypeOK'
    BY <1>1, <2>1 DEF TypeOK, Publish
  <2>2. CASE BeginCheck
    BY <1>1, <2>2, UpdateAssumption DEF TypeOK, BeginCheck, Copy, Parts, Package
  <2>3. CASE Fetch
    BY <1>1, <2>3, UpdateAssumption DEF TypeOK, Fetch, NoCheck, Versions
  <2>4. CASE Download
    <3>1. check' \in {[check EXCEPT !.pc = "verify"], NoCheck}
      BY <2>4 DEF Download
    <3>2. cache' \in [Versions -> {"none", "bad", "good"}]
      BY <2>4 DEF TypeOK, Download
    <3> QED
      BY <1>1, <2>4, <3>1, <3>2, UpdateAssumption
         DEF TypeOK, Download, NoCheck
  <2>5. CASE Verify
    <3>1. check' \in {[check EXCEPT !.pc = "publish"], NoCheck}
      BY <2>5 DEF Verify
    <3>2. cache' \in [Versions -> {"none", "bad", "good"}]
      BY <2>5 DEF TypeOK, Verify
    <3> QED
      BY <1>1, <2>5, <3>1, <3>2, UpdateAssumption DEF TypeOK, Verify, NoCheck
  <2>6. CASE SetPending
    BY <1>1, <2>6 DEF TypeOK, SetPending, Versions
  <2>7. CASE WritePendingJSON
    BY <1>1, <2>7, UpdateAssumption DEF TypeOK, WritePendingJSON, NoCheck
  <2> QED BY <2>1, <2>2, <2>3, <2>4, <2>5, <2>6, <2>7 DEF CheckStep
<1>4. (check.pc \notin {"idle", "fetch"} => check.v \in Versions)'
  BY DEF TypeOK, Publish, BeginCheck, CheckStep, Fetch, Download, Verify,
     SetPending, WritePendingJSON, NoCheck
<1>5. DownIsIdle'
  BY <1>1 DEF TypeOK, Publish, BeginCheck, CheckStep, Fetch, Download, Verify,
     SetPending, WritePendingJSON, NoCheck
<1> QED BY <1>1, <1>2, <1>3, <1>4, <1>5

\* The service stops, starts, or takes a request.
LEMMA TypeInvService ==
  ASSUME TypeInv, Kill \/ StartService \/ HandleApply
  PROVE  TypeInv'
<1> USE UpdateAssumption
    DEF TypeInv, TypeOK, OneRun, ShotsLeft, DownIsIdle, Busy, Quiet, diskVars,
        svcVars
<1>1. CASE Kill
  <2>1. Idle \in Run /\ NoCheck \in [pc : {"idle", "fetch", "download", "verify", "publish",
                        "save"},
                  v : 0..MaxVersion]
    BY DEF Idle, Run, NoCheck
  <2> QED
    BY <1>1, <2>1 DEF Kill, RunShape, Idle, NoCheck, Trouble
<1>2. CASE StartService
  BY <1>2 DEF StartService, RunShape, NoCheck
<1>3. CASE HandleApply
  <2>1. CASE run' = run
    BY <1>3, <2>1 DEF HandleApply, RunShape
  <2>2. ASSUME NEW r \in Runs, run[r].pc = "idle",
               run' = [run EXCEPT ![r] = [Idle EXCEPT !.pc = "wait", !.v = request]]
        PROVE  TypeInv'
    <3> DEFINE new == [Idle EXCEPT !.pc = "wait", !.v = request]
    <3>1. new \in Run /\ new.pc = "wait" /\ new.v = request
      BY DEF Idle, Run
    <3> QED
      BY <1>3, <2>2, <3>1 DEF HandleApply, RunShape, Versions
  <2> QED BY <1>3, <2>1, <2>2 DEF HandleApply
<1> QED BY <1>1, <1>2, <1>3

\* The program's own variables.
LEMMA TypeApp ==
  ASSUME app \in App, ShotsLeft, json \in 0..MaxVersion, AppStep
  PROVE  app' \in App /\ ShotsLeft'
<1>1. CASE UserStart \/ AppStops \/ AppExit
  <2>1. app' \in App
    BY <1>1, FreshApp DEF UserStart, AppStops, AppExit
  <2>2. ShotsLeft'
    BY <1>1, FreshApp DEF ShotsLeft, UserStart, AppStops, AppExit
  <2> QED BY <2>1, <2>2
<1>2. CASE CheckServicePending
  <2>1. CASE json = 0
    BY <1>2, <2>1 DEF App, CheckServicePending, ShotsLeft
  <2>2. CASE json # 0
    <3>1. app.shots + 1 \in 0..2 /\ ~app.checked
      BY <1>2 DEF App, CheckServicePending, ShotsLeft
    <3>2. app' = [app EXCEPT !.checked = TRUE, !.info = json, !.armed = TRUE,
                             !.shots = app.shots + 1]
      BY <1>2, <2>2 DEF CheckServicePending
    <3>3. app' \in App
      BY <3>1, <3>2 DEF App
    <3>4. app'.armed /\ app'.checked
      BY <3>2 DEF App
    <3> QED BY <3>3, <3>4 DEF ShotsLeft
  <2> QED BY <2>1, <2>2
<1>3. CASE PendingDirChanged
  <2> DEFINE shots == IF app.armed THEN app.shots ELSE app.shots + 1
  <2>1. shots \in 0..2 /\ (~app.checked => shots <= 1)
    BY DEF App, ShotsLeft
  <2>2. app' = [app EXCEPT !.info = json, !.armed = TRUE, !.shots = shots]
    BY <1>3 DEF PendingDirChanged
  <2>3. app' \in App
    BY <2>1, <2>2 DEF App
  <2>4. app'.armed /\ app'.checked = app.checked /\ app'.shots = shots
    BY <2>2 DEF App
  <2> QED BY <2>1, <2>3, <2>4 DEF ShotsLeft
<1>4. CASE TimerBusy \/ ApplyAndExit
  <2>1. app.shots - 1 \in 0..2 /\ app.shots # 0
    BY <1>4 DEF App, TimerBusy, ApplyAndExit, TimerDue
  <2>2. \/ app' = [app EXCEPT !.shots = app.shots - 1]
        \/ app' = [app EXCEPT !.pc = "exiting", !.shots = app.shots - 1]
    BY <1>4 DEF TimerBusy, ApplyAndExit
  <2>3. app' \in App
    BY <2>1, <2>2 DEF App
  <2>4. /\ app'.armed = app.armed /\ app'.checked = app.checked
        /\ app'.shots = app.shots - 1
    BY <2>2 DEF App
  <2> QED BY <2>1, <2>3, <2>4 DEF ShotsLeft, App
<1> QED BY <1>1, <1>2, <1>3, <1>4 DEF AppStep

\* The tray program reads, arms its timers, and asks for an update when none is
\* under way.
LEMMA TypeInvApp ==
  ASSUME TypeInv, AppStep
  PROVE  TypeInv'
<1> USE UpdateAssumption
    DEF TypeInv, OneRun, ShotsLeft, DownIsIdle, Busy, Quiet, diskVars, svcVars,
        notApp
<1>1. UNCHANGED <<diskVars, cache, json, svcVars, latest, run, trouble>>
  BY DEF AppStep, UserStart, AppStops, CheckServicePending, PendingDirChanged,
     TimerBusy, ApplyAndExit, AppExit
<1>2. \A r \in Runs : RunShape(r)'
  BY <1>1 DEF RunShape
<1>3. app' \in App /\ ShotsLeft'
  BY TypeApp DEF TypeOK
<1>4. request' = request \/ (ApplyAndExit /\ request' \in {0, app.info})
  BY DEF AppStep, UserStart, AppStops, CheckServicePending, PendingDirChanged,
     TimerBusy, ApplyAndExit, AppExit
<1>5. request' \in 0..MaxVersion
  BY <1>4 DEF TypeOK, App
<1>6. (request # 0 => Quiet)' /\ (~up => request = 0)'
  BY <1>1, <1>4 DEF ApplyAndExit, TimerDue
<1> QED BY <1>1, <1>2, <1>3, <1>5, <1>6 DEF TypeOK

\* A run that is at a step is the only one, and the service is up.
LEMMA OthersIdle ==
  ASSUME TypeInv, NEW r \in Runs, Busy(r)
  PROVE  /\ up /\ request = 0
         /\ \A s \in Runs \ {r} : run[s].pc = "idle"
BY DEF TypeInv, OneRun, DownIsIdle, Quiet, Busy

\* What a step of a run must show: its own variables, and the files' types.
LEMMA TypeInvOfRun ==
  ASSUME TypeInv, NEW r \in Runs, Busy(r),
         UNCHANGED <<json, svcVars, latest, request>>,
         run' \in [Runs -> Run], \A s \in Runs \ {r} : run'[s] = run[s],
         place' \in [Parts -> Copy], bak' \in [Saved -> Copy],
         cache' \in [Versions -> {"none", "bad", "good"}],
         app' = app \/ app' = Fresh, trouble' \in SUBSET Trouble,
         RunShape(r)'
  PROVE  TypeInv'
<1> USE DEF TypeInv, svcVars
<1>1. up /\ request = 0 /\ \A s \in Runs \ {r} : run[s].pc = "idle"
  BY OthersIdle
<1>2. \A s \in Runs \ {r} : ~Busy(s)' /\ RunShape(s)'
  BY <1>1 DEF RunShape, Busy
<1>3. OneRun' /\ DownIsIdle' /\ \A s \in Runs : RunShape(s)'
  BY <1>1, <1>2 DEF OneRun, DownIsIdle
<1>4. app' \in App /\ ShotsLeft'
  BY FreshApp DEF TypeOK, ShotsLeft
<1> QED BY <1>3, <1>4 DEF TypeOK

\* A run goes on, is rolled back, or ends.
LEMMA TypeInvRun ==
  ASSUME TypeInv, NEW r \in Runs, RunStep(r)
  PROVE  TypeInv'
<1>0. Busy(r) /\ RunShape(r) /\ TypeOK
  BY DEF TypeInv, Busy, RunStep, WaitForExit, Backup, OpenPart, WritePart,
     ExtractFails, StartNew, VerifyRuns, Restore, Restart, Cleanup
<1>a. /\ run \in [Runs -> Run] /\ place \in [Parts -> Copy]
      /\ bak \in [Saved -> Copy]
      /\ cache \in [Versions -> {"none", "bad", "good"}]
      /\ trouble \in SUBSET Trouble
      /\ \A what \in Trouble : trouble \cup {what} \in SUBSET Trouble
  BY <1>0 DEF TypeOK
<1>b. /\ Saved = {"internal", "exe", "svc"} /\ Package = {"internal", "exe", "res"}
      /\ Saved \in SUBSET Parts /\ Package \in SUBSET Parts /\ {} \in SUBSET Parts
      /\ "failed" \in Trouble /\ "disturbed" \in Trouble /\ Missing \in Copy
  BY UpdateAssumption DEF Saved, Package, Program, Parts, Trouble, Missing,
     Torn, Copy
<1>c. \A x \in RestOfSaved : /\ x \in SUBSET Parts /\ x # {}
                             /\ First(x) \in x /\ First(x) \in Saved
                             /\ x \ {First(x)} \in RestOfSaved \cup {{}}
                             /\ x \ {First(x)} \in SUBSET Parts
  BY <1>b, FirstOfSaved DEF RestOfSaved
<1>d. ASSUME Finish(r) PROVE /\ run' \in [Runs -> Run] /\ RunShape(r)'
                             /\ \A s \in Runs \ {r} : run'[s] = run[s]
  <2>1. run'[r].pc = "idle"
    BY <1>a, <1>d, FinishRun DEF Idle
  <2> QED BY <1>a, <1>d, <2>1, FinishRun DEF RunShape, Busy
<1>e. ASSUME NEW again \in BOOLEAN, RollBack(r, again)
      PROVE  /\ run' \in [Runs -> Run] /\ RunShape(r)'
             /\ \A s \in Runs \ {r} : run'[s] = run[s]
  <2>1. Saved \in RestOfSaved
    BY DEF RestOfSaved
  <2> QED BY <1>a, <1>e, <1>0, <2>1, RollBackRun DEF RunShape, Busy
<1>1. CASE WaitForExit(r)
  <2>1. CASE Goto(r, "backup", Saved)
    <3>1. Saved \in RestOfSaved
      BY DEF RestOfSaved
    <3>2. RunShape(r)' /\ run' \in [Runs -> Run]
          /\ \A s \in Runs \ {r} : run'[s] = run[s]
      BY <1>0, <1>a, <1>b, <2>1, <3>1, GotoRun DEF RunShape, Busy
    <3> QED
      BY <1>0, <1>1, <1>a, <1>b, <3>2, TypeInvOfRun
         DEF WaitForExit, Note, diskVars
  <2>2. CASE Finish(r)
    BY <1>0, <1>1, <1>a, <1>b, <1>d, <2>2, TypeInvOfRun
       DEF WaitForExit, Note, diskVars
  <2> QED BY <1>1, <2>1, <2>2 DEF WaitForExit
<1>2. CASE Backup(r)
  <2> DEFINE p == First(run[r].todo)
             rest == run[r].todo \ {p}
  <2>1. run[r].todo \in RestOfSaved
    BY <1>0, <1>2 DEF RunShape, Backup
  <2>2. p \in Saved /\ p \in Parts
    BY <1>b, <1>c, <2>1
  <2>3. /\ place' \in [Parts -> Copy] /\ bak' \in [Saved -> Copy]
        /\ trouble' \in SUBSET Trouble
    BY <1>2, <1>a, <1>b, <2>2 DEF Backup, Put, Note
  <2>4. /\ RunShape(r)' /\ run' \in [Runs -> Run]
        /\ \A s \in Runs \ {r} : run'[s] = run[s]
    <3>1. CASE rest = {}
      <4>1. Goto(r, "extract", Package)
        BY <1>2, <3>1 DEF Backup
      <4> QED
        BY <1>0, <1>a, <1>b, <4>1, GotoRun DEF RunShape, Busy
    <3>2. CASE rest # {}
      <4>1. Goto(r, "backup", rest) /\ rest \in RestOfSaved /\ rest \in SUBSET Parts
        BY <1>2, <1>c, <2>1, <3>2 DEF Backup
      <4> QED
        BY <1>0, <1>a, <4>1, GotoRun DEF RunShape, Busy
    <3> QED BY <3>1, <3>2
  <2> QED
    BY <1>0, <1>2, <1>a, <2>3, <2>4, TypeInvOfRun DEF Backup
<1>3. CASE OpenPart(r)
  <2> PICK p \in run[r].todo : /\ place' = Put(place, p, Torn(run[r].v))
                               /\ run' = [run EXCEPT ![r].open = p]
    BY <1>3 DEF OpenPart
  <2>1. /\ run[r].pc = "extract" /\ p \in Package /\ p \in Parts
        /\ run[r].v \in 0..MaxVersion
    BY <1>0, <1>3, <1>a, <1>b DEF OpenPart, RunShape, Run
  <2>2. Torn(run[r].v) \in Copy
    BY <2>1 DEF Torn, Copy
  <2>3. place' \in [Parts -> Copy]
    BY <1>a, <2>1, <2>2 DEF Put
  <2> DEFINE new == [run[r] EXCEPT !.open = p]
  <2>4. /\ new \in Run /\ new.pc = run[r].pc /\ new.todo = run[r].todo
        /\ new.v = run[r].v /\ new.open = p
    BY <1>a, <2>1 DEF Run
  <2>5. run' = [run EXCEPT ![r] = new]
    OBVIOUS
  <2>6. /\ run' \in [Runs -> Run] /\ run'[r] = new
        /\ \A s \in Runs \ {r} : run'[s] = run[s]
    BY <1>a, <2>4, <2>5
  <2>7. RunShape(r)'
    BY <1>0, <1>a, <2>1, <2>4, <2>6 DEF RunShape, Busy, Put
  <2> QED
    BY <1>0, <1>3, <1>a, <2>3, <2>6, <2>7, TypeInvOfRun DEF OpenPart
<1>4. CASE WritePart(r)
  <2> DEFINE p == run[r].open
             rest == run[r].todo \ {p}
  <2>1. /\ run[r].pc = "extract" /\ p \in run[r].todo /\ p \in Package
        /\ p \in Parts /\ run[r].v \in 0..MaxVersion
        /\ rest \in SUBSET Parts /\ rest \subseteq Package
    BY <1>0, <1>4, <1>a, <1>b DEF WritePart, RunShape, Run
  <2>2. Whole(run[r].v) \in Copy
    BY <2>1 DEF Whole, Copy
  <2>3. /\ place' \in [Parts -> Copy]
        /\ \A x \in Package \ rest : place'[x] = Whole(run[r].v)
    BY <1>0, <1>4, <1>a, <1>b, <2>1, <2>2 DEF Put, WritePart, RunShape
  <2>4. /\ RunShape(r)' /\ run' \in [Runs -> Run]
        /\ \A s \in Runs \ {r} : run'[s] = run[s]
    <3>1. CASE rest = {}
      <4>1. Goto(r, "start", rest)
        BY <1>4, <3>1 DEF WritePart
      <4> QED
        BY <1>0, <1>a, <2>1, <2>3, <3>1, <4>1, GotoRun DEF RunShape, Busy
    <3>2. CASE rest # {}
      <4>1. Goto(r, "extract", rest)
        BY <1>4, <3>2 DEF WritePart
      <4> QED
        BY <1>0, <1>a, <2>1, <2>3, <4>1, GotoRun DEF RunShape, Busy
    <3> QED BY <3>1, <3>2
  <2> QED
    BY <1>0, <1>4, <1>a, <2>3, <2>4, TypeInvOfRun DEF WritePart
<1>5. CASE ExtractFails(r)
  BY <1>0, <1>5, <1>a, <1>b, <1>e, TypeInvOfRun
     DEF ExtractFails, Note, diskVars
<1>6. CASE StartNew(r)
  <2>1. CASE RollBack(r, FALSE)
    BY <1>0, <1>6, <1>a, <1>b, <1>e, <2>1, TypeInvOfRun
       DEF StartNew, Note, diskVars, Launch
  <2>2. CASE Goto(r, "verify", {})
    <3>1. /\ run[r].pc = "start" /\ UNCHANGED place
      BY <1>6 DEF StartNew, diskVars
    <3>2. /\ RunShape(r)' /\ run' \in [Runs -> Run]
          /\ \A s \in Runs \ {r} : run'[s] = run[s]
      BY <1>0, <1>a, <1>b, <2>2, <3>1, GotoRun DEF RunShape, Busy
    <3> QED
      BY <1>0, <1>6, <1>a, <1>b, <3>2, TypeInvOfRun
         DEF StartNew, Note, diskVars, Launch
  <2> QED BY <1>6, <2>1, <2>2 DEF StartNew
<1>7. CASE VerifyRuns(r)
  <2>1. CASE RollBack(r, TRUE)
    BY <1>0, <1>7, <1>a, <1>b, <1>e, <2>1, TypeInvOfRun
       DEF VerifyRuns, Note, diskVars
  <2>2. CASE Goto(r, "cleanup", Saved)
    <3>1. /\ run[r].pc = "verify" /\ UNCHANGED place /\ Saved \in RestOfSaved
      BY <1>7 DEF VerifyRuns, diskVars, RestOfSaved
    <3>2. /\ RunShape(r)' /\ run' \in [Runs -> Run]
          /\ \A s \in Runs \ {r} : run'[s] = run[s]
      BY <1>0, <1>a, <1>b, <2>2, <3>1, GotoRun DEF RunShape, Busy
    <3> QED
      BY <1>0, <1>7, <1>a, <1>b, <3>2, TypeInvOfRun
         DEF VerifyRuns, Note, diskVars
  <2> QED BY <1>7, <2>1, <2>2 DEF VerifyRuns
<1>8. CASE Restore(r)
  <2> DEFINE p == First(run[r].todo)
             rest == run[r].todo \ {p}
  <2>1. run[r].todo \in RestOfSaved
    BY <1>0, <1>8 DEF RunShape, Restore
  <2>2. p \in Saved /\ p \in Parts
    BY <1>b, <1>c, <2>1
  <2>3. Torn(place[p].version) \in Copy
    BY <1>a, <2>2 DEF Torn, Copy
  <2>4. /\ place' \in [Parts -> Copy] /\ bak' \in [Saved -> Copy]
        /\ trouble' \in SUBSET Trouble
    BY <1>8, <1>a, <1>b, <2>2, <2>3 DEF Restore, Put, Note
  <2>5. /\ RunShape(r)' /\ run' \in [Runs -> Run]
        /\ \A s \in Runs \ {r} : run'[s] = run[s]
    <3>1. CASE rest = {}
      <4>1. Finish(r) \/ Goto(r, "restart", {})
        BY <1>8, <3>1 DEF Restore, AfterRestore
      <4>2. ASSUME Goto(r, "restart", {})
            PROVE  /\ RunShape(r)' /\ run' \in [Runs -> Run]
                   /\ \A s \in Runs \ {r} : run'[s] = run[s]
        BY <1>0, <1>a, <1>b, <4>2, GotoRun DEF RunShape, Busy
      <4> QED BY <1>d, <4>1, <4>2
    <3>2. CASE rest # {}
      <4>1. Goto(r, "restore", rest) /\ rest \in RestOfSaved /\ rest \in SUBSET Parts
        BY <1>8, <1>c, <2>1, <3>2 DEF Restore
      <4> QED
        BY <1>0, <1>a, <4>1, GotoRun DEF RunShape, Busy
    <3> QED BY <3>1, <3>2
  <2> QED
    BY <1>0, <1>8, <1>a, <2>4, <2>5, TypeInvOfRun DEF Restore
<1>9. CASE Restart(r)
  <2>1. /\ app' = app \/ app' = Fresh
        /\ trouble' \in SUBSET Trouble
    BY <1>9, <1>a, <1>b DEF Restart, Launch, Note
  <2> QED BY <1>0, <1>9, <1>a, <1>d, <2>1, TypeInvOfRun DEF Restart, diskVars
<1>10. CASE Cleanup(r)
  <2> DEFINE p == First(run[r].todo)
  <2>1. CASE run[r].todo = {}
    <3>1. /\ Finish(r) /\ UNCHANGED diskVars
          /\ cache' \in [Versions -> {"none", "bad", "good"}]
      BY <1>10, <1>a, <2>1 DEF Cleanup, diskVars
    <3> QED
      BY <1>0, <1>10, <1>a, <1>d, <3>1, TypeInvOfRun DEF Cleanup, diskVars
  <2>2. CASE run[r].todo # {}
    <3>1. /\ run[r].pc = "cleanup" /\ run[r].todo \in RestOfSaved
          /\ UNCHANGED <<place, cache>>
          /\ bak' = Put(bak, p, Missing)
          /\ Goto(r, "cleanup", run[r].todo \ {p})
      BY <1>0, <1>10, <2>2 DEF Cleanup, RunShape
    <3>2. /\ run[r].todo \ {p} \in RestOfSaved \cup {{}}
          /\ run[r].todo \ {p} \in SUBSET Parts /\ p \in Saved
      BY <1>c, <3>1
    <3>3. bak' \in [Saved -> Copy]
      BY <1>a, <1>b, <3>1, <3>2 DEF Put
    <3>4. /\ RunShape(r)' /\ run' \in [Runs -> Run]
          /\ \A s \in Runs \ {r} : run'[s] = run[s]
      BY <1>0, <1>a, <3>1, <3>2, GotoRun DEF RunShape, Busy
    <3> QED
      BY <1>0, <1>10, <1>a, <3>1, <3>3, <3>4, TypeInvOfRun DEF Cleanup
  <2> QED BY <2>1, <2>2
<1> QED
  BY <1>1, <1>2, <1>3, <1>4, <1>5, <1>6, <1>7, <1>8, <1>9, <1>10 DEF RunStep

LEMMA TypeInvNext == TypeInv /\ [Next]_vars => TypeInv'
<1> SUFFICES ASSUME TypeInv, [Next]_vars PROVE TypeInv'
  OBVIOUS
<1>1. CASE (\E v \in Versions : Publish(v)) \/ BeginCheck \/ CheckStep
  BY <1>1, TypeInvCheck
<1>2. CASE Kill \/ StartService \/ HandleApply
  BY <1>2, TypeInvService
<1>3. ASSUME NEW r \in Runs, RunStep(r) PROVE TypeInv'
  BY <1>3, TypeInvRun
<1>4. CASE AppStep
  BY <1>4, TypeInvApp
<1>5. CASE UNCHANGED vars
  BY <1>5 DEF vars, notApp, diskVars, svcVars, TypeInv, TypeOK, OneRun,
     RunShape, ShotsLeft, DownIsIdle, Busy, Quiet
<1> QED BY <1>1, <1>2, <1>3, <1>4, <1>5 DEF Next

LEMMA TypeInvAlways == Spec => []TypeInv
BY TypeInvInit, TypeInvNext, PTL DEF Spec

\* The service's variables, files and goroutines have their types in every
\* state, for any number of versions and goroutines; that no more than two
\* timers of the program run is part of it (gui/app.py arms one per caller).
THEOREM UpdateTypes == Spec => []TypeOK
<1>1. TypeInv => TypeOK
  BY DEF TypeInv
<1> QED BY <1>1, TypeInvAlways, PTL

-----------------------------------------------------------------------------
(* The program is not lost. *)

\* Both parts of the program are of version v where the parts of d are.
AllOf(d, v) == \A p \in Program : d[p] = Whole(v)

\* What a run leaves of the program at each of its steps, while no rename
\* fails: before and after the renames all of it is in place, in between the
\* parts that are not in place have a backup of the same version.
Halfway(r) ==
    LET todo == run[r].todo
    IN  /\ run[r].pc \in {"wait", "restart"} => Works
        /\ run[r].pc = "backup" =>
              \E v \in Versions : \A p \in Program :
                  IF p \in todo THEN place[p] = Whole(v)
                  ELSE place[p] = Missing /\ bak[p] = Whole(v)
        /\ run[r].pc \in {"extract", "start", "verify"} =>
              \E v \in Versions : AllOf(bak, v)
        /\ run[r].pc = "extract" => \A p \in todo \cap Program : ~place[p].whole
        /\ run[r].pc = "restore" =>
              \E v \in Versions : \A p \in Program :
                  IF p \in todo THEN bak[p] = Whole(v) ELSE place[p] = Whole(v)

\* The program runs, and asks to be replaced, only when all of it is in place.
RunsWhole == Running \/ request # 0 => Works

ProgramInv ==
    /\ ProgramKept
    /\ NothingHalfDone
    /\ Undisturbed => RunsWhole /\ \A r \in Runs : Halfway(r)

\* The program works if both parts are of one version.
LEMMA WorksIs ==
  ASSUME TypeOK
  PROVE  Works <=> \E v \in Versions : AllOf(place, v)
<1>1. /\ place["exe"] \in Copy /\ place["internal"] \in Copy
      /\ Program = {"internal", "exe"}
  BY DEF TypeOK, Parts, Package, Program
<1>2. \A c \in Copy : IsWhole(c) <=> \E v \in Versions : c = Whole(v)
  BY UpdateAssumption DEF IsWhole, Copy, Whole, Versions
<1> QED
  BY <1>1, <1>2 DEF Works, Launches, AllOf

LEMMA WorksKept == TypeOK /\ Works => ProgramKept
BY WorksIs DEF ProgramKept, AllOf

\* Wherever a run is, the whole program of one version is there.
LEMMA HalfwayKept ==
  ASSUME TypeInv, NEW r \in Runs, Busy(r), Halfway(r)
  PROVE  ProgramKept
<1>1. /\ run[r] \in Run /\ RunShape(r) /\ TypeOK
      /\ Program \subseteq Package
  BY DEF TypeInv, TypeOK, Package
<1>2. ASSUME NEW v \in Versions,
             \A p \in Program : Whole(v) \in {place[p], bak[p]}
      PROVE  ProgramKept
  BY <1>2 DEF ProgramKept
<1>3. CASE run[r].pc \in {"wait", "restart"}
  BY <1>1, <1>2, <1>3, WorksIs DEF Halfway, AllOf
<1>4. CASE run[r].pc = "backup"
  BY <1>2, <1>4 DEF Halfway
<1>5. CASE run[r].pc \in {"extract", "start", "verify"}
  BY <1>2, <1>5 DEF Halfway, AllOf
<1>6. CASE run[r].pc = "restore"
  BY <1>2, <1>6 DEF Halfway
<1>7. CASE run[r].pc = "cleanup"
  BY <1>1, <1>2, <1>7 DEF RunShape, Busy
<1> QED
  BY <1>1, <1>3, <1>4, <1>5, <1>6, <1>7 DEF Run, Busy

\* What a step of a run must show.
LEMMA ProgramOfRun ==
  ASSUME TypeInv, TypeInv', ProgramInv, NEW r \in Runs, Busy(r),
         request' = request, \A s \in Runs \ {r} : run'[s] = run[s],
         Undisturbed, Halfway(r)', Busy(r)' \/ Works', Running' => Works'
  PROVE  ProgramInv'
<1>1. request = 0 /\ \A s \in Runs \ {r} : run[s].pc = "idle"
  BY OthersIdle
<1>2. RunsWhole' /\ \A s \in Runs : Halfway(s)'
  BY <1>1 DEF RunsWhole, Halfway
<1>3. NothingHalfDone'
  BY <1>1 DEF NothingHalfDone, Quiet
<1>5. Works' => ProgramKept'
  BY WorksKept, PTL DEF TypeInv
<1>6. Busy(r)' => ProgramKept'
  BY HalfwayKept, PTL
<1> QED
  BY <1>2, <1>3, <1>5, <1>6 DEF ProgramInv

LEMMA ProgramInvInit == Init => ProgramInv
<1> SUFFICES ASSUME Init PROVE ProgramInv
  OBVIOUS
<1>1. TypeOK
  BY TypeInvInit DEF TypeInv
<1>2. Works
  <2>1. 1 \in Versions /\ AllOf(place, 1)
    BY UpdateAssumption DEF Init, Versions, AllOf, Program, Parts, Package
  <2> QED BY <1>1, <2>1, WorksIs
<1>3. \A r \in Runs : Halfway(r)
  BY DEF Init, Halfway, Idle
<1> QED
  BY <1>1, <1>2, <1>3, WorksKept DEF ProgramInv, NothingHalfDone, RunsWhole

\* The checker, the service's process and the program itself touch no file of
\* the program; a kill leaves them as they are.
LEMMA ProgramInvOthers ==
  ASSUME TypeInv, ProgramInv,
         \/ \E v \in Versions : Publish(v)
         \/ BeginCheck \/ CheckStep \/ Kill \/ StartService \/ HandleApply
         \/ AppStep \/ UNCHANGED vars
  PROVE  ProgramInv'
<1> USE DEF ProgramInv, ProgramKept, NothingHalfDone, RunsWhole, Undisturbed,
            Quiet, Busy, Running, Works, Launches, diskVars, svcVars
<1>1. CASE \/ \E v \in Versions : Publish(v)
           \/ BeginCheck \/ CheckStep \/ StartService \/ UNCHANGED vars
  <2>1. UNCHANGED <<place, bak, run, app, request, trouble>>
    BY <1>1 DEF Publish, BeginCheck, CheckStep, Fetch, Download, Verify,
       SetPending, WritePendingJSON, StartService, vars, notApp
  <2> QED BY <2>1 DEF Halfway
<1>2. CASE Kill
  <2>1. \A r \in Runs : run'[r].pc = "idle"
    BY <1>2 DEF Kill, Idle
  <2>2. UNCHANGED <<place, bak, app>> /\ request' = 0
    BY <1>2 DEF Kill
  <2>3. \/ trouble' = trouble /\ Quiet
        \/ trouble' = trouble \cup {"killed"}
    BY <1>2 DEF Kill
  <2> QED BY <2>1, <2>2, <2>3 DEF Halfway
<1>3. CASE HandleApply
  <2>1. UNCHANGED <<place, bak, app, trouble>> /\ request # 0 /\ request' = 0
    BY <1>3 DEF HandleApply
  <2>2. \A r \in Runs : run'[r].pc \in {"idle", "wait"}
    <3>1. run \in [Runs -> Run] /\ \A r \in Runs : run[r].pc = "idle"
      BY <2>1 DEF TypeInv, TypeOK, OneRun
    <3> QED BY <1>3, <3>1 DEF HandleApply, Idle
  <2> QED BY <2>1, <2>2 DEF Halfway
<1>4. CASE AppStep
  <2>1. UNCHANGED <<place, bak, run, trouble>>
    BY <1>4 DEF AppStep, UserStart, AppStops, CheckServicePending,
       PendingDirChanged, TimerBusy, ApplyAndExit, AppExit, notApp
  <2>2. Running' \/ request' # 0 => Running \/ request # 0 \/ Works
    <3>1. CASE UserStart
      BY <3>1 DEF UserStart
    <3>2. CASE ~UserStart
      BY <1>4, <3>2, FreshApp DEF AppStep, AppStops, CheckServicePending,
         PendingDirChanged, TimerBusy, TimerDue, ApplyAndExit, AppExit, notApp
    <3> QED BY <3>1, <3>2
  <2> QED BY <2>1, <2>2 DEF Halfway
<1> QED BY <1>1, <1>2, <1>3, <1>4

\* A step of the run.  It is enough to look at those that fail no rename.
LEMMA ProgramInvRun ==
  ASSUME TypeInv, TypeInv', ProgramInv, NEW r \in Runs, RunStep(r)
  PROVE  ProgramInv'
<1>0. Busy(r) /\ RunShape(r) /\ TypeOK
  BY DEF TypeInv, Busy, RunStep, WaitForExit, Backup, OpenPart, WritePart,
     ExtractFails, StartNew, VerifyRuns, Restore, Restart, Cleanup
<1>a. /\ run \in [Runs -> Run] /\ place \in [Parts -> Copy]
      /\ bak \in [Saved -> Copy]
      /\ Program = {"internal", "exe"} /\ Program \subseteq Parts
      /\ Saved = {"internal", "exe", "svc"} /\ Package = {"internal", "exe", "res"}
      /\ Saved \in SUBSET Parts /\ Package \in SUBSET Parts
      /\ {} \in SUBSET Parts
      /\ \A x \in RestOfSaved : x \in SUBSET Parts
  BY <1>0 DEF TypeOK, Parts, Package, Saved, Program, RestOfSaved
<1>b. \A v \in Versions : Whole(v).version # 0 /\ Whole(v) # Missing
                          /\ Whole(v).whole
  BY UpdateAssumption DEF Versions, Whole, Missing, Torn
<1>c. request' = request
  BY DEF RunStep, WaitForExit, Backup, OpenPart, WritePart, ExtractFails,
     StartNew, VerifyRuns, Restore, Restart, Cleanup
<1>d. trouble \subseteq trouble'
  BY DEF RunStep, WaitForExit, Backup, OpenPart, WritePart, ExtractFails,
     StartNew, VerifyRuns, Restore, Restart, Cleanup, Note
<1>e. CASE ~Undisturbed'
  BY <1>e DEF ProgramInv, ProgramKept, NothingHalfDone
<1> SUFFICES ASSUME Undisturbed' PROVE ProgramInv'
  BY <1>e
<1>f. Undisturbed /\ Halfway(r) /\ (Running => Works)
  BY <1>d DEF Undisturbed, ProgramInv, RunsWhole
<1>h. (UNCHANGED <<place, app>>) => (Works' <=> Works) /\ (Running' <=> Running)
  BY DEF Works, Launches, Running
<1>i. UNCHANGED app => (Running' <=> Running)
  BY DEF Running
<1>j. /\ \A v \in Versions : AllOf(place, v) => Works
      /\ \A v \in Versions : AllOf(place, v)' => Works'
  <2>1. TypeOK'
    BY DEF TypeInv
  <2>2. (\E v \in Versions : AllOf(place, v))' => Works'
    BY <2>1, WorksIs, PTL
  <2> QED BY <1>0, <2>2, WorksIs
<1>1. CASE WaitForExit(r)
  <2>1. Works /\ UNCHANGED <<place, bak, app>>
    BY <1>1, <1>f DEF WaitForExit, Halfway, diskVars
  <2>2. CASE Goto(r, "backup", Saved)
    <3>1. run'[r].pc = "backup" /\ run'[r].todo = Saved
          /\ \A s \in Runs \ {r} : run'[s] = run[s]
      BY <1>a, <2>2, GotoRun
    <3>2. Halfway(r)'
      BY <1>0, <1>a, <2>1, <3>1, WorksIs DEF Halfway, AllOf
    <3> QED
      BY <1>0, <1>c, <1>f, <1>h, <2>1, <3>1, <3>2, ProgramOfRun
  <2>3. CASE Finish(r)
    <3>1. run'[r].pc = "idle" /\ \A s \in Runs \ {r} : run'[s] = run[s]
      BY <1>a, <2>3, FinishRun DEF Idle
    <3>2. Halfway(r)'
      BY <3>1 DEF Halfway
    <3> QED
      BY <1>0, <1>c, <1>f, <1>h, <2>1, <3>1, <3>2, ProgramOfRun
  <2> QED BY <1>1, <2>2, <2>3 DEF WaitForExit
<1>2. CASE Backup(r)
  <2> DEFINE p == First(run[r].todo)
             rest == run[r].todo \ {p}
  <2>1. run[r].todo \in RestOfSaved /\ run[r].pc = "backup" /\ app' = app
    BY <1>0, <1>2 DEF RunShape, Backup
  <2>2. PICK v \in Versions : \A x \in Program :
            IF x \in run[r].todo THEN place[x] = Whole(v)
            ELSE place[x] = Missing /\ bak[x] = Whole(v)
    BY <1>f, <2>1 DEF Halfway
  <2>3. \/ place[p].version = 0 /\ UNCHANGED <<place, bak>>
        \/ /\ ~(Running /\ p = "internal")
           /\ bak' = Put(bak, p, place[p])
           /\ place' = Put(place, p, Missing)
    BY <1>2, <1>f DEF Backup, Note, Undisturbed
  <2>4. CASE run[r].todo \in {Saved, {"exe", "svc"}}
    <3>1. /\ p \in Program /\ rest \in {{"exe", "svc"}, {"svc"}}
          /\ run[r].todo \cap Program = {p} \cup (rest \cap Program)
          /\ p \notin rest
      BY <1>a, <2>4, FirstOfSaved
    <3>2. place[p] = Whole(v)
      BY <2>2, <3>1
    <3>3. ~Running
      BY <1>a, <1>b, <1>f, <2>2, <2>3, <2>4, <3>2, FirstOfSaved
         DEF Works
    <3>4. Goto(r, "backup", rest) /\ rest \in SUBSET Parts
      BY <1>2, <1>a, <3>1 DEF Backup
    <3>5. /\ run'[r].pc = "backup" /\ run'[r].todo = rest
          /\ \A s \in Runs \ {r} : run'[s] = run[s]
      BY <1>a, <3>4, GotoRun
    <3>6. /\ bak' = Put(bak, p, Whole(v)) /\ place' = Put(place, p, Missing)
      BY <1>b, <2>3, <3>2
    <3>7. \A x \in Program : IF x \in rest THEN place'[x] = Whole(v)
                             ELSE place'[x] = Missing /\ bak'[x] = Whole(v)
      BY <1>a, <2>2, <3>1, <3>6 DEF Put
    <3>8. Halfway(r)'
      BY <3>5, <3>7 DEF Halfway
    <3> QED
      BY <1>0, <1>c, <1>f, <1>i, <2>1, <3>3, <3>5, <3>8, ProgramOfRun DEF Busy
  <2>5. CASE run[r].todo = {"svc"}
    <3>1. p = "svc" /\ rest = {}
      BY <2>5, FirstOfSaved
    <3>2. \A x \in Program : /\ place'[x] = Missing /\ bak'[x] = Whole(v)
                             /\ place[x] = Missing
      BY <1>a, <2>2, <2>3, <2>5, <3>1 DEF Put
    <3>3. Goto(r, "extract", Package)
      BY <1>2, <3>1 DEF Backup
    <3>4. /\ run'[r].pc = "extract" /\ run'[r].todo = Package
          /\ \A s \in Runs \ {r} : run'[s] = run[s]
      BY <1>a, <3>3, GotoRun
    <3>5. Halfway(r)'
      BY <3>2, <3>4 DEF Halfway, AllOf, Missing, Torn
    <3>6. ~Running
      BY <1>a, <1>f, <3>2 DEF Works, Launches, IsWhole, Missing, Torn
    <3> QED
      BY <1>0, <1>c, <1>f, <1>i, <2>1, <3>4, <3>5, <3>6, ProgramOfRun DEF Busy
  <2> QED BY <2>1, <2>4, <2>5 DEF RestOfSaved
<1>3. CASE OpenPart(r)
  <2> PICK p \in run[r].todo : /\ ~(Running /\ p \in Program)
                               /\ place' = Put(place, p, Torn(run[r].v))
                               /\ run' = [run EXCEPT ![r].open = p]
    BY <1>3 DEF OpenPart
  <2>1. /\ run[r].pc = "extract" /\ run[r].todo \subseteq Package
        /\ UNCHANGED <<bak, app>>
    BY <1>0, <1>3 DEF OpenPart, RunShape
  <2>2. /\ run'[r].pc = "extract" /\ run'[r].todo = run[r].todo
        /\ \A s \in Runs \ {r} : run'[s] = run[s]
    BY <1>a, <2>1 DEF Run
  <2>3. \A x \in run[r].todo \cap Program : ~place'[x].whole
    BY <1>a, <1>f, <2>1 DEF Halfway, Put, Torn
  <2>4. Halfway(r)'
    BY <1>f, <2>1, <2>2, <2>3 DEF Halfway, AllOf
  <2>5. Running' => Works'
    BY <1>a, <1>f, <1>i, <2>1 DEF Works, Launches, Put
  <2> QED
    BY <1>0, <1>c, <1>f, <2>2, <2>4, <2>5, ProgramOfRun DEF Busy
<1>4. CASE WritePart(r)
  <2> DEFINE p == run[r].open
             rest == run[r].todo \ {p}
  <2>1. /\ run[r].pc = "extract" /\ p \in run[r].todo /\ p \in Package
        /\ rest \in SUBSET Parts /\ rest \subseteq Package
        /\ UNCHANGED <<bak, app>> /\ place' = Put(place, p, Whole(run[r].v))
        /\ Goto(r, IF rest = {} THEN "start" ELSE "extract", rest)
    BY <1>0, <1>4, <1>a DEF WritePart, RunShape
  <2>2. /\ run'[r].pc = IF rest = {} THEN "start" ELSE "extract"
        /\ run'[r].todo = rest
        /\ \A s \in Runs \ {r} : run'[s] = run[s]
    BY <1>a, <2>1, GotoRun
  <2>3. \A x \in rest \cap Program : ~place'[x].whole
    BY <1>a, <1>f, <2>1 DEF Halfway, Put
  <2>4. Halfway(r)'
    BY <1>f, <2>1, <2>2, <2>3 DEF Halfway, AllOf
  <2>5. Running' => Works'
    <3>1. CASE p \in Program
      BY <1>a, <1>f, <1>i, <2>1, <3>1 DEF Works, Launches, IsWhole, Halfway
    <3>2. CASE p \notin Program
      BY <1>a, <1>f, <1>i, <2>1, <3>2 DEF Works, Launches, Put
    <3> QED BY <3>1, <3>2
  <2> QED
    BY <1>0, <1>c, <1>f, <2>2, <2>4, <2>5, ProgramOfRun DEF Busy
<1>5. ASSUME NEW again \in BOOLEAN, RollBack(r, again),
             run[r].pc \in {"extract", "start", "verify"}, UNCHANGED diskVars,
             app' = app
      PROVE  ProgramInv'
  <2>1. /\ run'[r].pc = "restore" /\ run'[r].todo = Saved
        /\ \A s \in Runs \ {r} : run'[s] = run[s]
    BY <1>a, <1>5, RollBackRun
  <2>2. Halfway(r)'
    BY <1>a, <1>f, <1>5, <2>1 DEF Halfway, AllOf, diskVars
  <2> QED
    BY <1>0, <1>c, <1>f, <1>h, <1>5, <2>1, <2>2, ProgramOfRun
       DEF Busy, diskVars
<1>6. CASE StartNew(r)
  <2>1. CASE Goto(r, "verify", {}) /\ Launch
    <3>1. /\ run[r].pc = "start" /\ UNCHANGED <<place, bak>>
      BY <1>6 DEF StartNew, diskVars
    <3>2. /\ run'[r].pc = "verify"
          /\ \A s \in Runs \ {r} : run'[s] = run[s]
      BY <1>a, <2>1, GotoRun
    <3>3. Halfway(r)'
      BY <1>f, <3>1, <3>2 DEF Halfway, AllOf
    <3>4. Running' => Works'
      BY <1>f, <2>1, <3>1 DEF Launch, Running, Works, Launches
    <3> QED
      BY <1>0, <1>c, <1>f, <3>2, <3>3, <3>4, ProgramOfRun DEF Busy
  <2> QED BY <1>5, <1>6, <2>1 DEF StartNew
<1>7. CASE VerifyRuns(r)
  <2>1. CASE Goto(r, "cleanup", Saved)
    <3>1. run'[r].pc = "cleanup" /\ \A s \in Runs \ {r} : run'[s] = run[s]
      BY <1>a, <2>1, GotoRun
    <3>2. Halfway(r)'
      BY <3>1 DEF Halfway
    <3> QED
      BY <1>0, <1>7, <1>c, <1>f, <1>h, <3>1, <3>2, ProgramOfRun
         DEF Busy, VerifyRuns, diskVars
  <2> QED BY <1>5, <1>7, <2>1 DEF VerifyRuns
<1>8. CASE Restore(r)
  <2> DEFINE p == First(run[r].todo)
             rest == run[r].todo \ {p}
  <2>1. run[r].todo \in RestOfSaved /\ run[r].pc = "restore" /\ app' = app
    BY <1>0, <1>8 DEF RunShape, Restore
  <2>2. PICK v \in Versions : \A x \in Program :
            IF x \in run[r].todo THEN bak[x] = Whole(v) ELSE place[x] = Whole(v)
    BY <1>f, <2>1 DEF Halfway
  <2>3. /\ ~(Running /\ p = "internal")
        /\ place' = IF bak[p].version # 0 \/ p = "internal"
                    THEN Put(place, p, bak[p]) ELSE place
        /\ bak' = Put(bak, p, Missing)
    BY <1>8, <1>f DEF Restore, Note, Undisturbed
  <2>4. CASE run[r].todo \in {Saved, {"exe", "svc"}}
    <3>1. /\ p \in Program /\ rest \in {{"exe", "svc"}, {"svc"}}
          /\ run[r].todo \cap Program = {p} \cup (rest \cap Program)
          /\ p \notin rest
      BY <1>a, <2>4, FirstOfSaved
    <3>2. Goto(r, "restore", rest) /\ rest \in SUBSET Parts
      BY <1>8, <1>a, <3>1 DEF Restore
    <3>3. /\ run'[r].pc = "restore" /\ run'[r].todo = rest
          /\ \A s \in Runs \ {r} : run'[s] = run[s]
      BY <1>a, <3>2, GotoRun
    <3>4. place' = Put(place, p, Whole(v))
      BY <1>b, <2>2, <2>3, <3>1
    <3>5. \A x \in Program :
             IF x \in rest THEN bak'[x] = Whole(v) ELSE place'[x] = Whole(v)
      BY <1>a, <2>2, <2>3, <3>1, <3>4 DEF Put
    <3>6. Halfway(r)'
      BY <3>3, <3>5 DEF Halfway
    <3>7. Running' => Works'
      <4>1. CASE p = "internal"
        BY <1>i, <2>1, <2>3, <4>1
      <4>2. CASE p = "exe"
        <5>1. AllOf(place, v)'
          BY <1>a, <2>2, <2>4, <3>4, <4>2, FirstOfSaved DEF AllOf, Put
        <5> QED BY <1>j, <5>1
      <4> QED BY <1>a, <3>1, <4>1, <4>2
    <3> QED
      BY <1>0, <1>c, <1>f, <3>3, <3>6, <3>7, ProgramOfRun DEF Busy
  <2>5. CASE run[r].todo = {"svc"}
    <3>1. p = "svc" /\ rest = {}
      BY <2>5, FirstOfSaved
    <3>2. AllOf(place, v)'
      BY <1>a, <2>2, <2>3, <2>5, <3>1 DEF AllOf, Put
    <3>3. Works'
      BY <1>j, <3>2
    <3>4. Finish(r) \/ Goto(r, "restart", {})
      BY <1>8, <3>1 DEF Restore, AfterRestore
    <3>5. /\ run'[r].pc \in {"idle", "restart"}
          /\ \A s \in Runs \ {r} : run'[s] = run[s]
      BY <1>a, <3>4, GotoRun, FinishRun DEF Idle
    <3>6. Halfway(r)'
      BY <3>3, <3>5 DEF Halfway
    <3> QED
      BY <1>0, <1>c, <1>f, <3>3, <3>5, <3>6, ProgramOfRun
  <2> QED BY <2>1, <2>4, <2>5 DEF RestOfSaved
<1>9. CASE Restart(r)
  <2>1. run'[r].pc = "idle" /\ \A s \in Runs \ {r} : run'[s] = run[s]
    BY <1>9, <1>a, FinishRun DEF Idle, Restart
  <2>2. Works'
    BY <1>9, <1>f DEF Restart, Halfway, diskVars, Works, Launches
  <2>3. Halfway(r)'
    BY <2>1 DEF Halfway
  <2> QED BY <1>0, <1>c, <1>f, <2>1, <2>2, <2>3, ProgramOfRun
<1>10. CASE Cleanup(r)
  <2>1. Works /\ UNCHANGED <<place, app>>
    <3>1. run[r].v \in Versions /\ AllOf(place, run[r].v)
      BY <1>0, <1>10, <1>a DEF Cleanup, RunShape, AllOf
    <3> QED BY <1>10, <1>j, <3>1 DEF Cleanup
  <2>2. CASE run[r].todo = {}
    <3>1. run'[r].pc = "idle" /\ \A s \in Runs \ {r} : run'[s] = run[s]
      BY <1>10, <1>a, <2>2, FinishRun DEF Idle, Cleanup
    <3>2. Halfway(r)'
      BY <3>1 DEF Halfway
    <3> QED BY <1>0, <1>c, <1>f, <1>h, <2>1, <3>1, <3>2, ProgramOfRun
  <2>3. CASE run[r].todo # {}
    <3>1. /\ Goto(r, "cleanup", run[r].todo \ {First(run[r].todo)})
          /\ run[r].todo \ {First(run[r].todo)} \in SUBSET Parts
      BY <1>0, <1>10, <1>a, <2>3 DEF Cleanup, RunShape
    <3>2. run'[r].pc = "cleanup" /\ \A s \in Runs \ {r} : run'[s] = run[s]
      BY <1>a, <3>1, GotoRun
    <3>3. Halfway(r)'
      BY <3>2 DEF Halfway
    <3> QED BY <1>0, <1>c, <1>f, <1>h, <2>1, <3>2, <3>3, ProgramOfRun
  <2> QED BY <2>2, <2>3
<1>11. CASE ExtractFails(r)
  BY <1>5, <1>11 DEF ExtractFails
<1> QED
  BY <1>1, <1>2, <1>3, <1>4, <1>6, <1>7, <1>8, <1>9, <1>10, <1>11 DEF RunStep

LEMMA ProgramInvAlways == Spec => []ProgramInv
<1>1. TypeInv /\ TypeInv' /\ ProgramInv /\ [Next]_vars => ProgramInv'
  BY ProgramInvOthers, ProgramInvRun DEF Next
<1> QED BY <1>1, ProgramInvInit, TypeInvAlways, PTL DEF Spec

\* While no rename fails and no file is in use, the whole program of one
\* version is on disk, part by part in place or as a backup, whatever step
\* runUpdate is at and wherever the service is killed (service/updater.go).
THEOREM ProgramNeverLost == Spec => []ProgramKept
BY ProgramInvAlways, PTL DEF ProgramInv

\* When no update is under way, a program that works is in place, replaced or
\* rolled back after a failure at any point, unless the service was killed in
\* the middle of one.
THEOREM UpdateAllOrNothing == Spec => []NothingHalfDone
BY ProgramInvAlways, PTL DEF ProgramInv

-----------------------------------------------------------------------------
(* What is announced was verified. *)

AtMost(m, n) == m # 0 /\ n # 0 => m <= n

\* The version an update is asked for or under way to.
Installing(x) == x = request \/ \E r \in Runs : Busy(r) /\ x = run[r].v

\* A version that is announced, known to the program, or being installed.
Used(x) == x \in {json, app.info} \/ Installing(x)

\* A package is being downloaded or made known.
Loading == check.pc \in {"download", "verify", "publish", "save"}

Resources == place["res"].version

\* Versions travel one way: from the manifest to the service, pending.json, the
\* program, the request, the run and the resources.  None overtakes another.
Chain ==
    /\ \A x \in Versions : Installing(x) =>
          /\ Resources <= x
          /\ AtMost(x, app.info) /\ AtMost(x, json) /\ AtMost(x, pending)
    /\ \A x \in {app.info, json, pending} : AtMost(Resources, x)
    /\ AtMost(app.info, json) /\ AtMost(app.info, pending)
    /\ AtMost(json, pending)
    /\ Resources <= latest /\ pending <= latest
    /\ \A x \in Versions : Used(x) => x <= latest
    /\ Loading => Resources <= check.v /\ check.v <= latest

\* A package that is loaded is newer than anything in use.
Newer ==
    /\ Loading => \A x \in Versions : Used(x) => x < check.v
    /\ check.pc \in {"download", "verify", "publish"} => pending < check.v
    /\ check.pc = "verify" => cache[check.v] # "none"
    /\ check.pc \in {"publish", "save"} => cache[check.v] = "good"
    /\ check.pc = "save" => pending = check.v

\* The latest version, once in use, is not downloaded again: it is pending with
\* its package, or it was installed and its package removed.
Taken ==
    Used(latest) =>
        \/ json = latest /\ cache[latest] # "none" /\ (up => pending = latest)
        \/ /\ cache[latest] = "none"
           /\ place["res"] = Whole(latest)
           /\ check.pc = "fetch" => check.v = latest \/ pending = latest
           /\ \A r \in Runs : run[r].pc \notin {"wait", "backup", "extract"}

VersionInv == Chain /\ Newer /\ Taken /\ PendingVerified

LEMMA VersionInvInit == Init => VersionInv
BY UpdateAssumption DEF Init, VersionInv, Chain, Newer, Taken, PendingVerified,
   Used, Installing, Busy, Idle, NoCheck, Fresh, Off, Loading, AtMost, Resources,
   Whole, Parts, Package, Versions

\* The latest version is not in use while a package is being loaded.
LEMMA LatestUnused ==
  ASSUME TypeInv, Chain, Newer, Loading
  PROVE  ~Used(latest)
BY DEF TypeInv, TypeOK, Chain, Newer, Loading, Versions

\* The checker's steps.
LEMMA VersionInvCheck ==
  ASSUME TypeInv, VersionInv,
         (\E v \in Versions : Publish(v)) \/ BeginCheck \/ CheckStep
  PROVE  VersionInv'
<1> USE UpdateAssumption DEF VersionInv
<1>1. UNCHANGED <<place, up, request, run, app>>
  BY DEF Publish, BeginCheck, CheckStep, Fetch, Download, Verify, SetPending,
     WritePendingJSON, diskVars, svcVars
<1>2. /\ latest \in 1..MaxVersion /\ check.v \in 0..MaxVersion
      /\ json \in 0..MaxVersion /\ pending \in 0..MaxVersion
      /\ app.info \in 0..MaxVersion /\ request \in 0..MaxVersion
      /\ Resources \in 0..MaxVersion
      /\ cache \in [Versions -> {"none", "bad", "good"}]
      /\ Loading => check.v \in Versions /\ up
      /\ check.pc \in {"idle", "fetch", "download", "verify", "publish", "save"}
  BY DEF TypeInv, TypeOK, App, Versions, Copy, Parts, Package, Resources,
     Loading, DownIsIdle, NoCheck
<1>3. \A x : Installing(x)' <=> Installing(x)
  BY <1>1 DEF Installing, Busy
<1>4. Loading => ~Used(latest)
  BY LatestUnused
<1>5. ASSUME NEW v \in Versions, Publish(v) PROVE VersionInv'
  <2>1. /\ latest' = latest + 1 /\ latest' \in Versions
        /\ UNCHANGED <<cache, json, pending, check>>
    BY <1>5 DEF Publish, svcVars
  <2>2. ~Used(latest)'
    BY <1>1, <1>2, <1>3, <2>1 DEF Chain, Used, Versions
  <2> QED
    BY <1>1, <1>2, <1>3, <2>1, <2>2
       DEF Chain, Newer, Taken, PendingVerified, Used, Loading, AtMost,
           Resources, Versions
<1>6. CASE BeginCheck
  <2>1. /\ UNCHANGED <<cache, json, pending, latest>>
        /\ check' = [pc |-> "fetch", v |-> IF place["res"].whole
                                          THEN place["res"].version ELSE 0]
    BY <1>6 DEF BeginCheck, diskVars
  <2>2. Taken'
    BY <1>1, <1>2, <1>3, <2>1 DEF Taken, Used, Whole
  <2> QED
    BY <1>1, <1>2, <1>3, <2>1, <2>2
       DEF Chain, Newer, PendingVerified, Used, Loading, AtMost, Resources
<1>7. CASE Fetch
  <2>1. UNCHANGED <<cache, json, pending, latest>> /\ check.pc = "fetch"
    BY <1>7 DEF Fetch, diskVars
  <2>2. CASE check' = NoCheck
    BY <1>1, <1>2, <1>3, <2>1, <2>2
       DEF Chain, Newer, Taken, PendingVerified, Used, Loading, AtMost,
           Resources, NoCheck
  <2>3. CASE /\ latest # pending /\ latest > check.v
             /\ check' = [pc |-> "download", v |-> latest]
    <3>1. ~Used(latest)
      BY <1>2, <2>1, <2>3 DEF Taken, TypeInv, DownIsIdle, NoCheck
    <3>2. \A x \in Versions : Used(x) => x < latest
      BY <1>2, <3>1 DEF Chain, Versions
    <3>3. pending < latest
      BY <1>2, <2>3 DEF Chain
    <3> QED
      BY <1>1, <1>2, <1>3, <2>1, <2>3, <3>1, <3>2, <3>3
         DEF Chain, Newer, Taken, PendingVerified, Used, Loading, AtMost,
             Resources
  <2>4. check' = NoCheck \/ (/\ latest # pending /\ latest > check.v
                             /\ check' = [pc |-> "download", v |-> latest])
    BY <1>2, <1>7 DEF Fetch
  <2> QED BY <2>2, <2>3, <2>4
<1>8. CASE Download
  <2>1. /\ UNCHANGED <<json, pending, latest>> /\ check.pc = "download"
        /\ \A x \in Versions \ {check.v} : cache'[x] = cache[x]
        /\ \/ check' = NoCheck /\ cache' = cache
           \/ check'.pc = "verify" /\ check'.v = check.v
              /\ cache'[check.v] # "none"
    BY <1>2, <1>8 DEF Download, Loading, diskVars, TypeInv, TypeOK
  <2>2. Loading /\ ~Used(latest)'
    BY <1>1, <1>3, <1>4, <2>1 DEF Loading, Used
  <2>3. PendingVerified'
    BY <1>1, <1>2, <2>1, <2>2
       DEF Newer, PendingVerified, Used, Installing, Loading, Versions
  <2> QED
    BY <1>1, <1>2, <1>3, <2>1, <2>2, <2>3
       DEF Chain, Newer, Taken, Used, Loading, AtMost, Resources, NoCheck
<1>9. CASE Verify
  <2>1. /\ UNCHANGED <<json, pending, latest>> /\ check.pc = "verify"
        /\ \A x \in Versions \ {check.v} : cache'[x] = cache[x]
        /\ \/ check' = NoCheck /\ cache'[check.v] = "none"
           \/ check'.pc = "publish" /\ check'.v = check.v
              /\ cache' = cache /\ cache[check.v] # "bad"
    BY <1>2, <1>9 DEF Verify, Loading, diskVars, TypeInv, TypeOK
  <2>2. Loading /\ ~Used(latest)'
    BY <1>1, <1>3, <1>4, <2>1 DEF Loading, Used
  <2>3. PendingVerified'
    BY <1>1, <1>2, <2>1, <2>2
       DEF Newer, PendingVerified, Used, Installing, Loading, Versions
  <2> QED
    BY <1>1, <1>2, <1>3, <2>1, <2>2, <2>3
       DEF Chain, Newer, Taken, Used, Loading, AtMost, Resources, NoCheck
<1>10. CASE SetPending
  <2>1. /\ UNCHANGED <<json, latest>> /\ check.pc = "publish"
        /\ \A x \in Versions : cache'[x] \in {cache[x], "none"}
        /\ cache'[check.v] = cache[check.v]
        /\ pending' = check.v /\ check'.pc = "save" /\ check'.v = check.v
    BY <1>2, <1>10 DEF SetPending, Loading, diskVars, TypeInv, TypeOK
  <2>2. Loading /\ ~Used(latest)'
    BY <1>1, <1>3, <1>4, <2>1 DEF Loading, Used
  <2>3. PendingVerified'
    BY <1>1, <1>2, <2>1, <2>2
       DEF Newer, PendingVerified, Used, Installing, Loading, Versions
  <2>4. \A x \in Versions : Used(x)' => Used(x)
    BY <1>1, <1>3, <2>1 DEF Used
  <2>5. AtMost(app.info, check.v) /\ AtMost(json, check.v)
    BY <1>2, <2>2 DEF Newer, AtMost, Used, Versions
  <2>6. Chain'
    <3>1. /\ Resources' = Resources /\ Resources <= check.v
          /\ check.v <= latest /\ app' = app /\ Loading'
      BY <1>1, <2>1, <2>2 DEF Chain, Resources, Loading
    <3>2. \A x \in Versions : Installing(x) => x < check.v
      BY <2>2 DEF Newer, Used
    <3>3. \A x \in Versions : Installing(x)' =>
             /\ Resources' <= x
             /\ AtMost(x, app.info)' /\ AtMost(x, json)' /\ AtMost(x, pending)'
      BY <1>2, <1>3, <2>1, <3>1, <3>2 DEF Chain, AtMost, Versions
    <3> QED
      BY <1>2, <2>1, <2>4, <2>5, <3>1, <3>3 DEF Chain, AtMost
  <2>7. Newer'
    BY <1>2, <2>1, <2>2, <2>4 DEF Newer, Loading
  <2> QED BY <2>2, <2>3, <2>6, <2>7 DEF Taken
<1>11. CASE WritePendingJSON
  <2>1. /\ UNCHANGED <<cache, pending, latest>> /\ check.pc = "save"
        /\ json' = check.v /\ check' = NoCheck
    BY <1>11 DEF WritePendingJSON, diskVars
  <2>2. /\ Loading /\ ~Used(latest) /\ pending = check.v
        /\ cache[check.v] = "good"
    BY <1>4, <2>1 DEF Loading, Newer
  <2>3. \A x \in Versions : Used(x)' => Used(x) \/ x = check.v
    BY <1>1, <1>3, <2>1 DEF Used
  <2>4. AtMost(app.info, check.v)
    BY <1>2, <2>2 DEF Newer, AtMost, Used, Versions
  <2>5. Chain'
    BY <1>1, <1>2, <1>3, <2>1, <2>2, <2>3, <2>4
       DEF Chain, Newer, Used, Loading, AtMost, Resources, NoCheck
  <2>6. Newer'
    BY <2>1 DEF Newer, Loading, NoCheck
  <2>7. Taken'
    BY <1>1, <1>2, <2>1, <2>2, <2>3 DEF Taken, Versions
  <2>8. PendingVerified'
    BY <1>1, <1>2, <2>1, <2>2 DEF PendingVerified
  <2> QED BY <2>5, <2>6, <2>7, <2>8
<1> QED
  BY <1>5, <1>6, <1>7, <1>8, <1>9, <1>10, <1>11 DEF CheckStep

\* The service's process and the tray program: values are only handed on.
LEMMA VersionInvOthers ==
  ASSUME TypeInv, VersionInv,
         Kill \/ StartService \/ HandleApply \/ AppStep \/ UNCHANGED vars
  PROVE  VersionInv'
<1> USE UpdateAssumption DEF VersionInv
<1>1. /\ latest \in 1..MaxVersion /\ check.v \in 0..MaxVersion
      /\ json \in 0..MaxVersion /\ pending \in 0..MaxVersion
      /\ app.info \in 0..MaxVersion /\ request \in 0..MaxVersion
      /\ Resources \in 0..MaxVersion
      /\ cache \in [Versions -> {"none", "bad", "good"}]
      /\ run \in [Runs -> Run]
  BY DEF TypeInv, TypeOK, App, Versions, Copy, Parts, Package, Resources
<1>2. CASE Kill
  <2>1. /\ UNCHANGED <<place, cache, json, latest, app>>
        /\ up' = FALSE /\ pending' = 0 /\ check' = NoCheck /\ request' = 0
        /\ \A r \in Runs : run'[r].pc = "idle"
    BY <1>2 DEF Kill, diskVars, Idle
  <2>2. \A x \in Versions : ~Installing(x)'
    BY <2>1 DEF Installing, Busy, Versions
  <2>3. Chain' /\ Newer'
    BY <1>1, <2>1, <2>2
       DEF Chain, Newer, Used, Loading, AtMost, Resources, NoCheck
  <2>4. Taken'
    BY <1>1, <2>1, <2>2 DEF Taken, Used, NoCheck, Versions
  <2> QED BY <2>1, <2>3, <2>4 DEF PendingVerified
<1>3. CASE StartService
  <2>1. /\ UNCHANGED <<place, cache, latest, app, check, request, run>>
        /\ check = NoCheck /\ pending = 0
        /\ \/ json # 0 /\ cache[json] # "none" /\ json' = json /\ pending' = json
           \/ (json = 0 \/ cache[json] = "none") /\ json' = 0 /\ pending' = 0
    BY <1>3 DEF StartService, diskVars, TypeInv, DownIsIdle
  <2>2. \A x : Installing(x)' <=> Installing(x)
    BY <2>1 DEF Installing, Busy
  <2>3. Chain' /\ Newer'
    BY <1>1, <2>1, <2>2
       DEF Chain, Newer, Used, Loading, AtMost, Resources, NoCheck, Versions
  <2>4. Taken'
    BY <1>1, <2>1, <2>2 DEF Taken, Used, NoCheck, Versions
  <2> QED BY <2>1, <2>3, <2>4 DEF PendingVerified
<1>4. CASE HandleApply
  <2>1. /\ UNCHANGED <<place, cache, json, up, pending, check, latest, app>>
        /\ request # 0 /\ request' = 0
    BY <1>4 DEF HandleApply, diskVars, svcVars
  <2>2. \A r \in Runs : run[r].pc = "idle"
    BY <2>1 DEF TypeInv, OneRun, Quiet, Busy
  <2>3. \A r \in Runs : \/ run'[r].pc = "idle"
                        \/ /\ run'[r].pc = "wait" /\ run'[r].v = request
                           /\ cache[request] # "none"
    <3> DEFINE new == [Idle EXCEPT !.pc = "wait", !.v = request]
    <3>1. new.pc = "wait" /\ new.v = request
      BY DEF Idle
    <3>2. \/ run' = run
          \/ /\ cache[request] # "none"
             /\ \E r \in Runs : run' = [run EXCEPT ![r] = new]
      BY <1>4 DEF HandleApply
    <3> HIDE DEF new
    <3> QED BY <1>1, <2>2, <3>1, <3>2
  <2>4. \A x \in Versions : Installing(x)' => Installing(x)
    BY <2>1, <2>3 DEF Installing, Busy, Versions
  <2>5. Chain' /\ Newer'
    BY <1>1, <2>1, <2>4
       DEF Chain, Newer, Used, Loading, AtMost, Resources
  <2>6. Taken'
    <3>1. SUFFICES ASSUME Used(latest)' PROVE Taken'
      BY DEF Taken
    <3>2. Used(latest)
      BY <1>1, <2>1, <2>4, <3>1 DEF Used, Versions
    <3>3. CASE /\ cache[latest] = "none" /\ place["res"] = Whole(latest)
               /\ check.pc = "fetch" => check.v = latest \/ pending = latest
      <4>1. Installing(request) /\ request \in Versions
        BY <1>1, <2>1 DEF Installing, Versions
      <4>2. latest <= request /\ request <= latest
        BY <1>1, <3>3, <4>1 DEF Chain, Used, Resources, Whole
      <4>3. \A r \in Runs : run'[r].pc = "idle"
        BY <1>1, <2>3, <3>3, <4>2
      <4> QED BY <2>1, <3>3, <4>3 DEF Taken
    <3> QED BY <2>1, <3>2, <3>3 DEF Taken
  <2> QED BY <2>1, <2>5, <2>6 DEF PendingVerified
<1>5. CASE AppStep
  <2>1. UNCHANGED <<place, cache, json, up, pending, check, latest, run>>
    BY <1>5 DEF AppStep, UserStart, AppStops, CheckServicePending,
       PendingDirChanged, TimerBusy, ApplyAndExit, AppExit, notApp, diskVars,
       svcVars
  <2>2. /\ request' = request /\ app'.info \in {0, app.info, json}
        \/ /\ app'.info = app.info /\ request' \in {0, app.info}
           /\ \A x \in Versions : ~Installing(x)
    <3>1. CASE ApplyAndExit
      <4>1. app'.info = app.info /\ request' \in {0, app.info}
        BY <3>1 DEF ApplyAndExit, TypeInv, TypeOK, App
      <4>2. \A x \in Versions : ~Installing(x)
        BY <3>1 DEF ApplyAndExit, TimerDue, Installing, Busy, Versions
      <4> QED BY <4>1, <4>2
    <3>2. CASE UserStart \/ AppStops \/ AppExit
      BY <3>2, FreshApp DEF UserStart, AppStops, AppExit, notApp
    <3>3. CASE CheckServicePending \/ PendingDirChanged \/ TimerBusy
      BY <3>3 DEF CheckServicePending, PendingDirChanged, TimerBusy, notApp,
         TypeInv, TypeOK, App
    <3> QED BY <1>5, <3>1, <3>2, <3>3 DEF AppStep
  <2>3. \A x \in Versions : /\ Installing(x)' => Installing(x) \/ x = app.info
                            /\ Used(x)' => Used(x)
    BY <2>1, <2>2 DEF Installing, Used, Busy, Versions
  <2>4. /\ AtMost(Resources, app'.info) /\ AtMost(app'.info, json)
        /\ AtMost(app'.info, pending)
    BY <1>1, <2>2 DEF Chain, AtMost
  <2>5. ASSUME NEW x \in Versions, Installing(x)'
        PROVE  /\ Resources <= x
               /\ AtMost(x, app'.info) /\ AtMost(x, json) /\ AtMost(x, pending)
    <3>1. CASE Installing(x) /\ app'.info \in {0, app.info, json}
      BY <1>1, <3>1 DEF Chain, AtMost, Versions
    <3>2. CASE ~Installing(x)
      BY <1>1, <2>2, <2>3, <2>5, <3>2 DEF Chain, AtMost, Versions, Installing,
         Busy
    <3> QED BY <2>2, <3>1, <3>2
  <2>6. Chain' /\ Newer'
    BY <1>1, <2>1, <2>3, <2>4, <2>5 DEF Chain, Newer, Loading, Resources
  <2>7. Taken'
    BY <1>1, <2>1, <2>3 DEF Taken, Versions
  <2>8. PendingVerified'
    BY <1>1, <2>1, <2>2 DEF PendingVerified
  <2> QED BY <2>6, <2>7, <2>8
<1>6. CASE UNCHANGED vars
  BY <1>6 DEF vars, notApp, diskVars, svcVars, Chain, Newer, Taken,
     PendingVerified, Used, Installing, Busy, Loading, AtMost, Resources
<1> QED BY <1>2, <1>3, <1>4, <1>5, <1>6

\* The run: it writes its version into the resources and removes its package.
LEMMA VersionInvRun ==
  ASSUME TypeInv, VersionInv, NEW r \in Runs, RunStep(r)
  PROVE  VersionInv'
<1> USE UpdateAssumption DEF VersionInv
<1>1. /\ latest \in 1..MaxVersion /\ check.v \in 0..MaxVersion
      /\ json \in 0..MaxVersion /\ pending \in 0..MaxVersion
      /\ app.info \in 0..MaxVersion /\ request \in 0..MaxVersion
      /\ Resources \in 0..MaxVersion
      /\ cache \in [Versions -> {"none", "bad", "good"}]
      /\ run \in [Runs -> Run] /\ place \in [Parts -> Copy] /\ "res" \in Parts
      /\ Program = {"internal", "exe"} /\ Saved = {"internal", "exe", "svc"}
      /\ Package = {"internal", "exe", "res"}
      /\ Saved \in SUBSET Parts /\ Package \in SUBSET Parts
      /\ {} \in SUBSET Parts
      /\ \A x \in RestOfSaved : x \in SUBSET Parts
  BY DEF TypeInv, TypeOK, App, Versions, Copy, Parts, Package, Resources,
     Saved, Program, RestOfSaved
<1>2. /\ Busy(r) /\ RunShape(r) /\ run[r].v \in Versions /\ up /\ request = 0
      /\ \A s \in Runs \ {r} : run[s].pc = "idle"
  <2>1. Busy(r)
    BY DEF Busy, RunStep, WaitForExit, Backup, OpenPart, WritePart,
       ExtractFails, StartNew, VerifyRuns, Restore, Restart, Cleanup
  <2> QED BY <2>1, OthersIdle DEF TypeInv, RunShape
<1>3. UNCHANGED <<json, up, pending, check, latest, request>>
  BY DEF RunStep, WaitForExit, Backup, OpenPart, WritePart, ExtractFails,
     StartNew, VerifyRuns, Restore, Restart, Cleanup, diskVars, svcVars
<1>4. app'.info \in {app.info, 0}
  <2>1. app' = app \/ app' = Fresh
    BY DEF RunStep, WaitForExit, Backup, OpenPart, WritePart, ExtractFails,
       StartNew, VerifyRuns, Restore, Restart, Cleanup, Launch
  <2> QED BY <2>1, FreshApp
\* What becomes of the run.
<1> DEFINE Early == {"wait", "backup", "extract"}
           Moves == /\ \A s \in Runs \ {r} : run'[s] = run[s]
                    /\ run'[r].pc = "idle" \/ run'[r].v = run[r].v
                    /\ run'[r].pc \in Early => run[r].pc \in Early
<1>5. Moves
  <2>1. ASSUME NEW pc \in {"backup", "extract", "start", "verify", "restore",
                           "restart", "cleanup"},
               NEW todo \in SUBSET Parts, Goto(r, pc, todo),
               pc \in Early => run[r].pc \in Early
        PROVE  Moves
    BY <1>1, <2>1, GotoRun
  <2>2. ASSUME NEW again \in BOOLEAN, RollBack(r, again)
        PROVE  Moves
    BY <1>1, <2>2, RollBackRun
  <2>3. ASSUME Finish(r)
        PROVE  Moves
    BY <1>1, <2>3, FinishRun DEF Idle
  <2>4. CASE WaitForExit(r)
    BY <1>1, <2>1, <2>3, <2>4 DEF WaitForExit
  <2>5. CASE Backup(r)
    <3>1. run[r].todo \ {First(run[r].todo)} \in SUBSET Parts
      BY <1>1, <1>2, <2>5 DEF RunShape, Backup
    <3> QED BY <1>1, <2>1, <2>5, <3>1 DEF Backup
  <2>6. CASE OpenPart(r)
    BY <1>1, <2>6 DEF OpenPart
  <2>7. CASE WritePart(r)
    <3>1. run[r].todo \ {run[r].open} \in SUBSET Parts
      BY <1>1, <1>2, <2>7 DEF RunShape, WritePart
    <3> QED BY <1>1, <2>1, <2>7, <3>1 DEF WritePart
  <2>8. CASE ExtractFails(r)
    BY <2>2, <2>8 DEF ExtractFails
  <2>9. CASE StartNew(r)
    BY <1>1, <2>1, <2>2, <2>9 DEF StartNew
  <2>10. CASE VerifyRuns(r)
    BY <1>1, <2>1, <2>2, <2>10 DEF VerifyRuns
  <2>11. CASE Restore(r)
    <3>1. run[r].todo \ {First(run[r].todo)} \in SUBSET Parts
      BY <1>1, <1>2, <2>11 DEF RunShape, Restore
    <3> QED BY <1>1, <2>1, <2>3, <2>11, <3>1 DEF Restore, AfterRestore
  <2>12. CASE Restart(r)
    BY <2>3, <2>12 DEF Restart
  <2>13. CASE Cleanup(r)
    <3>1. run[r].todo \ {First(run[r].todo)} \in SUBSET Parts
      BY <1>1, <1>2, <2>13 DEF RunShape, Cleanup
    <3> QED BY <1>1, <2>1, <2>3, <2>13, <3>1 DEF Cleanup
  <2> QED
    BY <2>4, <2>5, <2>6, <2>7, <2>8, <2>9, <2>10, <2>11, <2>12, <2>13
       DEF RunStep
\* What becomes of the resources and of the packages.
<1>6. \/ place'["res"] = place["res"]
      \/ run[r].pc = "extract" /\ place'["res"].version = run[r].v
  <2>1. CASE Backup(r) \/ Restore(r)
    <3>1. First(run[r].todo) # "res"
      BY <1>2, <2>1, FirstOfSaved DEF Backup, Restore, RunShape, RestOfSaved
    <3> QED BY <1>1, <2>1, <3>1 DEF Backup, Restore, Put
  <2>2. CASE OpenPart(r) \/ WritePart(r)
    BY <1>1, <2>2 DEF OpenPart, WritePart, Put, Torn, Whole
  <2> QED
    BY <2>1, <2>2 DEF RunStep, WaitForExit, ExtractFails, StartNew, VerifyRuns,
       Restart, Cleanup, diskVars
<1>7. \/ cache' = cache
      \/ /\ run[r].pc = "cleanup" /\ run'[r].pc = "idle"
         /\ cache' = [cache EXCEPT ![run[r].v] = "none"]
  <2>1. CASE Cleanup(r)
    <3>1. Finish(r) => run'[r].pc = "idle"
      BY <1>1, FinishRun DEF Idle
    <3> QED BY <2>1, <3>1 DEF Cleanup
  <2> QED
    BY <2>1 DEF RunStep, WaitForExit, Backup, OpenPart, WritePart, ExtractFails,
       StartNew, VerifyRuns, Restore, Restart
<1>8. \A x \in Versions : /\ Installing(x) <=> x = run[r].v
                          /\ Installing(x)' => x = run[r].v
                          /\ Used(x)' => Used(x)
  BY <1>2, <1>3, <1>4, <1>5 DEF Installing, Used, Busy, Versions
<1>9. Chain'
  <2>1. Resources' = Resources \/ Resources' = run[r].v
    BY <1>6 DEF Resources
  <2>2. /\ Used(run[r].v) /\ run[r].v <= latest
        /\ Resources <= run[r].v /\ Resources <= latest
        /\ \A x \in {app.info, json, pending} : /\ AtMost(run[r].v, x)
                                                /\ AtMost(Resources, x)
        /\ Loading => /\ run[r].v <= check.v /\ Resources <= check.v
                      /\ check.v <= latest
    BY <1>1, <1>2, <1>8 DEF Chain, Newer, Used, Versions
  <2>3. /\ AtMost(app.info, json)' /\ AtMost(app.info, pending)'
        /\ \A x \in {app.info', json', pending'} : AtMost(Resources', x)
        /\ \A x \in {app.info', json', pending'} : AtMost(run[r].v, x)
    BY <1>1, <1>3, <1>4, <2>1, <2>2 DEF Chain, AtMost
  <2>4. /\ Resources' <= run[r].v /\ Resources' <= latest'
        /\ (Loading => Resources <= check.v /\ check.v <= latest)'
    BY <1>1, <1>2, <1>3, <2>1, <2>2 DEF Loading, Versions
  <2> QED
    BY <1>1, <1>3, <1>8, <2>3, <2>4 DEF Chain, AtMost
<1>10. Newer'
  <2>1. Loading => run[r].v < check.v
    BY <1>2, <1>8 DEF Newer, Used
  <2>2. Loading => cache'[check.v] = cache[check.v]
    BY <1>1, <1>2, <1>7, <2>1 DEF Versions
  <2> QED
    BY <1>1, <1>3, <1>8, <2>2 DEF Newer, Loading
<1>11. Taken'
  <2> SUFFICES ASSUME Used(latest)' PROVE Taken'
    BY DEF Taken
  <2>1. Used(latest) /\ latest \in Versions
    BY <1>1, <1>3, <1>8 DEF Versions
  <2>2. CASE json = latest /\ cache[latest] # "none" /\ pending = latest
    <3>1. CASE cache'[latest] = cache[latest]
      BY <1>3, <2>2, <3>1 DEF Taken
    <3>2. CASE cache'[latest] # cache[latest]
      <4>1. /\ run[r].pc = "cleanup" /\ run[r].v = latest
            /\ cache'[latest] = "none" /\ run'[r].pc = "idle"
        BY <1>1, <1>7, <2>1, <3>2
      <4>2. place["res"] = Whole(latest)
        BY <1>1, <1>2, <4>1 DEF RunShape
      <4> QED
        BY <1>2, <1>3, <1>5, <1>6, <2>2, <4>1, <4>2 DEF Taken
    <3> QED BY <3>1, <3>2
  <2>3. CASE /\ cache[latest] = "none" /\ place["res"] = Whole(latest)
             /\ check.pc = "fetch" => check.v = latest \/ pending = latest
             /\ \A s \in Runs : run[s].pc \notin Early
    <3>1. cache'[latest] = "none"
      BY <1>1, <1>7, <2>1, <2>3
    <3>2. \A s \in Runs : run'[s].pc \notin Early
      BY <1>5, <2>3
    <3> QED BY <1>3, <1>6, <2>3, <3>1, <3>2 DEF Taken
  <2> QED BY <1>2, <2>1, <2>2, <2>3 DEF Taken
<1>12. PendingVerified'
  BY <1>1, <1>3, <1>4, <1>7 DEF PendingVerified, Versions
<1> QED BY <1>9, <1>10, <1>11, <1>12

LEMMA VersionInvAlways == Spec => []VersionInv
<1>1. TypeInv /\ VersionInv /\ [Next]_vars => VersionInv'
  BY VersionInvCheck, VersionInvOthers, VersionInvRun DEF Next
<1> QED BY <1>1, VersionInvInit, TypeInvAlways, PTL DEF Spec

\* A package that is announced, to the program, in pending.json or by a
\* request, is never one whose checksum was not right: also not a package of
\* the same version that is downloaded again after the first was removed
\* (service/checker.go, service/updater.go).
THEOREM AnnouncedIsVerified == Spec => []PendingVerified
BY VersionInvAlways, PTL DEF VersionInv
=============================================================================
