------------------------------ MODULE MCClients ------------------------------
(***************************************************************************)
(* Small instances, in one run, of the clients of the server: the phone's  *)
(* script, the desktop program's window and pages, its update button, and  *)
(* the functions that only compute.  They share no variable with each      *)
(* other: a behaviour is one component's, the one the variable part names. *)
(***************************************************************************)
EXTENDS Integers, FiniteSets, Sequences

CONSTANTS
    NumFiles, MaxFollowed, Uploaders, MaxLost, MaxEvalFails,  \* PhoneClient
    NumPictures, MaxWorkers,                                  \* ScanPage
    Jobs, Unlucky, MaxEvents,                                 \* MainWindow
    MaxLines, MaxReceived,                                    \* LogsPage
    MaxJobs, PageSize,                                        \* JobsPage
    MaxParts, MaxDigit, MaxPages                              \* PureFunctions

ASSUME ClientConstants ==
    /\ NumFiles \in Nat /\ MaxFollowed \in Nat /\ MaxLost \in Nat /\ MaxEvalFails \in Nat
    /\ NumPictures \in Nat /\ MaxWorkers \in Nat
    /\ IsFiniteSet(Jobs) /\ MaxEvents \in Nat
    /\ MaxLines \in Nat /\ MaxReceived \in Nat \ {0}
    /\ MaxJobs \in Nat \ {0} /\ PageSize \in Nat
    /\ MaxParts \in Nat /\ MaxDigit \in Nat /\ MaxPages \in Nat

VARIABLES
    part,
    queue, upc, file, answer, seen, cancelled, c_, wvClosed, jobs, phase, statuses,
    ws, inbox, finished, notes, job, lost, evalFails, late, had, startedLate,
    listed, worker, byUser, images, pictures, button, resetTimer, cancelBtn, progress,
    run, asked, at, results, scanSignals,
    text, enabled, handlers, info, installer, package, task, thread, signal,
    handed, exiting, mute, frozen,
    page, visible, timer, files, tracking, label, fresh, repo, owed, signals,
    told, last,
    lines, paused, buffer, filter, search, searchWaits, received, kept,
    status, historyPage, statusFilter, shown, behind, walked, newcomers,
    mem, config, empty, saving, dump, changed, reading, loading, startup, step, fields,
    items, whole, refused, leaked, cut,
    call

Phone == INSTANCE PhoneClient
Scan == INSTANCE ScanPage WITH
    shown <- pictures, timer <- resetTimer, told <- asked, signals <- scanSignals
Update == INSTANCE UpdateClient WITH label <- text, file <- package, job <- task
Window == INSTANCE MainWindow
Logs == INSTANCE LogsPage
History == INSTANCE JobsPage WITH
    page <- historyPage, filter <- statusFilter, seen <- walked
Wizard == INSTANCE SetupWizard WITH file <- config, phase <- startup
Pure == INSTANCE PureFunctions

phoneVars == <<queue, upc, file, answer, seen, cancelled, c_, wvClosed, jobs, phase,
               statuses, ws, inbox, finished, notes, job, lost, evalFails, late, had,
               startedLate>>
scanVars == <<listed, worker, byUser, images, pictures, button, resetTimer, cancelBtn,
              progress, run, asked, at, results, scanSignals>>
updateVars == <<text, enabled, handlers, info, installer, package, task, thread, signal,
                handed, exiting, mute, frozen>>
windowVars == <<page, visible, timer, files, tracking, label, fresh, repo, owed,
                signals, told, last>>
logVars == <<lines, paused, buffer, filter, search, searchWaits, received, kept>>
historyVars == <<status, historyPage, statusFilter, shown, behind, walked, newcomers>>
wizardVars == <<mem, config, empty, saving, dump, changed, reading, loading, startup,
                step, fields, items, whole, refused, leaked, cut>>
clientVars == <<part, phoneVars, scanVars, updateVars, windowVars, logVars, historyVars,
                wizardVars, call>>

Parts == {"phone", "scan", "update", "window", "logs", "history", "wizard", "pure"}

\* A component that does not run starts in one state only.
Init ==
    /\ part \in Parts
    /\ Phone!Init /\ Scan!Init /\ Update!Init /\ Window!Init
    /\ Logs!Init /\ History!Init /\ Wizard!Init /\ Pure!Init
    /\ part # "update" => ~frozen
    /\ part # "logs" => lines = <<>>
    /\ part # "history" => status = [n \in 1..MaxJobs |-> "none"]
    /\ part # "wizard" => mem.form.printer = Wizard!Blank

Next ==
    \/ /\ part = "phone" /\ Phone!Next
       /\ UNCHANGED <<part, scanVars, updateVars, windowVars, logVars, historyVars,
                      wizardVars, call>>
    \/ /\ part = "scan" /\ Scan!Next
       /\ UNCHANGED <<part, phoneVars, updateVars, windowVars, logVars, historyVars,
                      wizardVars, call>>
    \/ /\ part = "update" /\ Update!Next
       /\ UNCHANGED <<part, phoneVars, scanVars, windowVars, logVars, historyVars,
                      wizardVars, call>>
    \/ /\ part = "window" /\ Window!Next
       /\ UNCHANGED <<part, phoneVars, scanVars, updateVars, logVars, historyVars,
                      wizardVars, call>>
    \/ /\ part = "logs" /\ Logs!Next
       /\ UNCHANGED <<part, phoneVars, scanVars, updateVars, windowVars, historyVars,
                      wizardVars, call>>
    \/ /\ part = "history" /\ History!Next
       /\ UNCHANGED <<part, phoneVars, scanVars, updateVars, windowVars, logVars,
                      wizardVars, call>>
    \/ /\ part = "wizard" /\ Wizard!Next
       /\ UNCHANGED <<part, phoneVars, scanVars, updateVars, windowVars, logVars,
                      historyVars, call>>
    \/ /\ part = "pure" /\ Pure!Next
       /\ UNCHANGED <<part, phoneVars, scanVars, updateVars, windowVars, logVars,
                      historyVars, wizardVars>>

\* A started request or wait of the script ends, a worker thread goes on, Qt
\* delivers signals and timeouts; the user and the server owe nothing.
Fairness ==
    /\ \A u \in Uploaders : WF_phoneVars(part = "phone" /\ Phone!UploadStep(u))
    /\ WF_phoneVars(part = "phone" /\ Phone!ScriptStep)
    /\ \A w \in 1..MaxWorkers : WF_scanVars(part = "scan" /\ Scan!ScanStep(w))
    /\ WF_scanVars(part = "scan" /\ Scan!Done)
    /\ WF_updateVars(part = "update" /\ Update!WorkerStep)
    /\ WF_updateVars(part = "update" /\ Update!Deliver)
    /\ \A j \in Jobs : WF_windowVars(part = "window" /\ Window!Publish(j))
    /\ WF_windowVars(part = "window" /\ Window!OnJobStatus)
    /\ WF_windowVars(part = "window" /\ Window!TimerTicks)

FairSpec == Init /\ [][Next]_clientVars /\ Fairness

-----------------------------------------------------------------------------
(* Properties: those of the components, several together where they are about
   one matter. *)

TypeOK ==
    /\ Phone!TypeOK /\ Scan!TypeOK /\ Update!TypeOK /\ Window!TypeOK
    /\ Logs!TypeOK /\ History!TypeOK /\ Wizard!TypeOK

\* The phone's script: a cancel stops the uploads, a result that is notified is
\* one the server had come to, and who waited is told something.
PhoneRight == Phone!CancelBounded /\ Phone!ResultTrue /\ Phone!UserTold

\* The buttons of the scan page and of the update page: they do what they say,
\* and are at rest when nothing runs.
ButtonsRight ==
    /\ Scan!RestsAtTheEnd /\ Scan!KeptIsShown
    /\ Update!ButtonDoesWhatItSays /\ Update!ExitsAfterHandOver

\* Quick print: the label is about the last submission with a job, and files are
\* only kept on the page that is shown.
WindowRight == Window!LabelIsOfLast /\ Window!NothingUnsavedUnseen

\* The log and the history table: no line and no job is missed.
TablesRight ==
    Logs!ShowsTheLast /\ Logs!HiddenForCause /\ History!WalkMissesNothing

\* The setup wizard saves a form as a whole or not at all; a save that is cut off
\* leaves neither.
FormWhole == Wizard!FormWhole

\* The order of versions, page ranges, n pages on a sheet, the printer's status.
FunctionsRight == Pure!FunctionsRight

\* What the clients owe the user does not last: a closed page ends the script but
\* for one that waits for the page, a loading or disabled button comes back, the
\* end of a job is announced unless its event was lost, a dashboard that is shown
\* becomes up to date.
Owed ==
    CASE part = "phone" -> Phone!ClosedButRuns
      [] part = "scan" -> Scan!Loading
      [] part = "update" -> Update!Disabled
      [] part = "window" -> Window!EndUntold \/ Window!DashStale
      [] OTHER -> FALSE

NothingStaysOwed == Owed ~> ~Owed
=============================================================================
