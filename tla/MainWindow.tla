------------------------------ MODULE MainWindow ------------------------------
(***************************************************************************)
(* The window of the desktop program: its pages, the sidebar, the events   *)
(* that come from the event bus through Qt signals (src/gui/app.py,        *)
(* event_bridge.py, components/sidebar.py), and what the pages show of the *)
(* jobs: dashboard.py, quick_print.py, job_manager.py.  The jobs change in *)
(* the threads of the workers and handlers: a row is written, then its     *)
(* event is published, which may fail.                                     *)
(***************************************************************************)
EXTENDS Naturals, Sequences, FiniteSets

CONSTANTS
    Jobs,
    Unlucky,   \* bound: the jobs that can be printed again or cancelled by themselves
    MaxEvents  \* bound: events under way when a worker or a handler writes a row

Pages == {"dash", "quick", "jobs", "about"}
Status == {"none", "queued", "printing", "completed", "failed"}
Final == {"completed", "failed"}
NoLabel == <<>>

VARIABLES
    page,           \* the page of the stack
    visible,        \* the window is shown; the tray icon always is
    timer,          \* the dashboard's timer runs
    files,          \* quick print: the file list is not empty
    tracking,       \* quick print: _tracking_job_ids
    label,          \* quick print: the job and status tracking_label names
    fresh,          \* the dashboard's rows are those of the repository
    repo,           \* the status column
    owed,           \* events whose row is written and that are not published yet
    signals,        \* job_status signals on their way to the GUI thread
    told,           \* history: jobs whose end the tray has announced, or an event of it
                    \* was lost
    last            \* history: the jobs the quick page submitted last

guiVars == <<page, visible, timer, files, tracking, label>>
vars == <<guiVars, fresh, repo, owed, signals, told, last>>

Events == Jobs \X Status
Owed == Jobs \X Status \X {"worker", "handler"}

TypeOK ==
    /\ page \in Pages
    /\ visible \in BOOLEAN /\ timer \in BOOLEAN /\ files \in BOOLEAN
    /\ tracking \subseteq Jobs /\ last \subseteq Jobs
    /\ label \in Events \cup {NoLabel}
    /\ fresh \in BOOLEAN
    /\ repo \in [Jobs -> Status]
    /\ owed \subseteq Owed /\ told \subseteq Jobs
    /\ signals \in Seq(Events)

Init ==
    /\ page = "dash"
    /\ visible = FALSE /\ timer = FALSE  \* --tray: the window is not shown
    /\ files = FALSE /\ tracking = {} /\ label = NoLabel
    /\ fresh = FALSE /\ repo = [j \in Jobs |-> "none"]
    /\ owed = {} /\ signals = <<>> /\ told = {}
    /\ last = {}

-----------------------------------------------------------------------------
(* The jobs, in the threads of the queue. *)

\* update_status: whatever was shown is old now.
Write(j, s) ==
    /\ repo' = [repo EXCEPT ![j] = s]
    /\ fresh' = FALSE

\* Bound: no more events under way.
Few == Cardinality(owed) + Len(signals) < MaxEvents

\* The thread that has written a row owes its event.
Owe(j, s, who) == Few /\ owed' = owed \cup {<<j, s, who>>}

\* A worker, which has published what it wrote before.  A job that has failed is
\* queued again for a retry, without an event, or a worker that has overlooked a
\* cancel prints it.
WorkerWrites(j) ==
    /\ <<j, "printing", "worker">> \notin owed
    /\ \A s \in Final : <<j, s, "worker">> \notin owed
    /\ \/ repo[j] = "queued" /\ Write(j, "printing") /\ Owe(j, "printing", "worker")
       \/ /\ repo[j] = "printing"
          /\ \E s \in Final : Write(j, s) /\ Owe(j, s, "worker")
       \/ /\ repo[j] = "failed" /\ j \in Unlucky
          /\ \/ Write(j, "queued") /\ UNCHANGED owed
             \/ Write(j, "printing") /\ Owe(j, "printing", "worker")
    /\ UNCHANGED <<guiVars, signals, told, last>>

\* cancel_job, of the API or the job page; one at a time here.
CancelJob(j) ==
    /\ j \in Unlucky /\ \A o \in owed : o[3] # "handler"
    /\ repo[j] \in {"queued", "printing"}
    /\ Write(j, "failed") /\ Owe(j, "failed", "handler")
    /\ UNCHANGED <<guiVars, signals, told, last>>

\* publish reaches the listener of the GUI or does not: a queue that is full again
\* raises before, its own lock can stop it, or the thread has failed before.
Publish(j) ==
    /\ \E o \in owed :
          /\ o[1] = j /\ owed' = owed \ {o}
          /\ \/ signals' = Append(signals, <<o[1], o[2]>>) /\ UNCHANGED told
             \/ /\ told' = IF o[2] \in Final THEN told \cup {j} ELSE told
                /\ UNCHANGED signals
    /\ UNCHANGED <<guiVars, fresh, repo, last>>

\* A job from the phone: a row, and no event.
Upload(j) ==
    /\ repo[j] = "none"
    /\ Write(j, "queued")
    /\ UNCHANGED <<guiVars, owed, signals, told, last>>

-----------------------------------------------------------------------------
(* Navigation. *)

\* showEvent and hideEvent of the dashboard, when the window or the stack
\* shows or hides it.
DashSeen(now) ==
    IF now THEN timer' = TRUE /\ fresh' = TRUE
    ELSE timer' = FALSE /\ UNCHANGED fresh

\* _clear_all of the quick print page.
ClearAll == files' = FALSE /\ tracking' = {} /\ label' = NoLabel /\ last' = {}

\* setCurrentRow and _on_nav_changed.  The user is asked when there are files, and
\* after a 'no' only the sidebar's row has changed.  The tray's menu goes to the
\* About page, also of a hidden window.
Navigate(to) ==
    /\ visible \/ to = "about"
    /\ page' = to
    /\ IF page = "quick" /\ files THEN ClearAll ELSE UNCHANGED <<files, tracking, label, last>>
    /\ IF (page = "dash") = (to = "dash") THEN UNCHANGED <<timer, fresh>>
       ELSE DashSeen(to = "dash")
    /\ UNCHANGED <<visible, repo, owed, signals, told>>

\* Mutant: the timer is started once, when the page is made.
ShowWindowOnly ==
    /\ ~visible /\ visible' = TRUE
    /\ UNCHANGED <<timer, fresh, page, files, tracking, label, repo, owed, signals, told, last>>

\* The tray icon's 'show', and closeEvent, which hides.
ShowWindow ==
    /\ ~visible /\ visible' = TRUE
    /\ IF page = "dash" THEN DashSeen(TRUE) ELSE UNCHANGED <<timer, fresh>>
    /\ UNCHANGED <<page, files, tracking, label, repo, owed, signals, told, last>>

HideWindow ==
    /\ visible /\ visible' = FALSE
    /\ IF page = "dash" THEN DashSeen(FALSE) ELSE UNCHANGED <<timer, fresh>>
    /\ UNCHANGED <<page, files, tracking, label, repo, owed, signals, told, last>>

TimerTicks ==
    /\ timer /\ fresh' = TRUE
    /\ UNCHANGED <<guiVars, repo, owed, signals, told, last>>

-----------------------------------------------------------------------------
(* Events, in the GUI thread. *)

\* on_job_status of the quick print page, which ignores what it does not track.
QuickHears(e) ==
    label' = IF e[1] \in tracking /\ e[2] \in Final \cup {"printing"} THEN e ELSE label

\* _on_job_status: the page that is shown, then the tray and the notification.
OnJobStatus ==
    /\ signals # <<>> /\ signals' = Tail(signals)
    /\ fresh' = (fresh \/ page = "dash")
    /\ IF page = "quick" THEN QuickHears(Head(signals)) ELSE UNCHANGED label
    /\ told' = IF Head(signals)[2] \in Final THEN told \cup {Head(signals)[1]} ELSE told
    /\ UNCHANGED <<page, visible, timer, files, tracking, repo, owed, last>>

-----------------------------------------------------------------------------
(* The quick print page. *)

SelectFiles ==
    /\ visible /\ page = "quick" /\ files' = TRUE
    /\ UNCHANGED <<page, visible, timer, tracking, label, fresh, repo, owed, signals,
                   told, last>>

\* The cross of the last file: the list is empty, the page keeps the rest.
RemoveFiles ==
    /\ visible /\ page = "quick" /\ files /\ files' = FALSE
    /\ UNCHANGED <<page, visible, timer, tracking, label, fresh, repo, owed, signals,
                   told, last>>

ConfirmClear ==
    /\ visible /\ page = "quick" /\ ClearAll
    /\ UNCHANGED <<page, visible, timer, fresh, repo, owed, signals, told>>

\* Mutant: the jobs of the submission before are still followed.
SubmitAndKeep ==
    /\ visible /\ page = "quick" /\ files
    /\ \E S \in SUBSET {j \in Jobs : repo[j] = "none"} :
          /\ S # {}
          /\ tracking' = tracking \cup S /\ last' = S /\ label' = NoLabel
          /\ repo' = [j \in Jobs |-> IF j \in S THEN "queued" ELSE repo[j]]
          /\ fresh' = FALSE
    /\ UNCHANGED <<page, visible, timer, files, owed, signals, told>>

\* _submit: each file by itself, some may fail; with none accepted the label of
\* before stays.  The files stay in the list.
Submit ==
    /\ visible /\ page = "quick" /\ files
    /\ \E S \in SUBSET {j \in Jobs : repo[j] = "none"} :
          /\ tracking' = S
          /\ last' = IF S = {} THEN last ELSE S
          /\ label' = IF S = {} THEN label ELSE NoLabel
          /\ repo' = [j \in Jobs |-> IF j \in S THEN "queued" ELSE repo[j]]
          /\ fresh' = (fresh /\ S = {})
    /\ UNCHANGED <<page, visible, timer, files, owed, signals, told>>

-----------------------------------------------------------------------------
(* The job page; what its tables show is left out. *)

\* _batch_cancel, whose events this thread publishes, up to the first that
\* cannot be.
BatchCancel ==
    LET waiting == {j \in Jobs : repo[j] = "queued"} IN
    /\ visible /\ page = "jobs" /\ Few
    /\ \E n \in 0..Cardinality(waiting) : \E order \in [1..n -> waiting] :
          /\ \A i, k \in 1..n : i # k => order[i] # order[k]
          /\ signals' = signals \o [i \in 1..n |-> <<order[i], "failed">>]
          /\ told' = told \cup {j \in waiting : \A i \in 1..n : order[i] # j}
    /\ repo' = [j \in Jobs |-> IF repo[j] = "queued" THEN "failed" ELSE repo[j]]
    /\ fresh' = FALSE
    /\ UNCHANGED <<guiVars, owed, last>>

\* _batch_retry: of the failed jobs it listed, those that are still failed get
\* a new row each.
BatchRetry ==
    /\ visible /\ page = "jobs"
    /\ \E S \in SUBSET {j \in Jobs : repo[j] = "none"} :
          /\ S # {} /\ Cardinality(S) <= Cardinality({j \in Jobs : repo[j] = "failed"})
          /\ repo' = [j \in Jobs |-> IF j \in S THEN "queued" ELSE repo[j]]
    /\ fresh' = FALSE
    /\ UNCHANGED <<guiVars, owed, signals, told, last>>

Next ==
    \/ \E j \in Jobs : WorkerWrites(j) \/ CancelJob(j) \/ Publish(j) \/ Upload(j)
    \/ \E to \in Pages : Navigate(to)
    \/ ShowWindow \/ HideWindow \/ TimerTicks \/ OnJobStatus
    \/ SelectFiles \/ RemoveFiles \/ ConfirmClear \/ Submit
    \/ BatchCancel \/ BatchRetry

Spec == Init /\ [][Next]_vars

-----------------------------------------------------------------------------
(* Properties. *)

\* The label of the quick print page names only jobs of the last submission of
\* which one was accepted, and none after the page was cleared: events of earlier
\* ones still come.
LabelIsOfLast == label # NoLabel => label[1] \in last

\* A page that is not shown has no unsaved files: nobody would be asked.
NothingUnsavedUnseen == files => page = "quick"

\* What must not last: the end of a job the tray has not announced, whatever
\* page is shown and whether the window is, unless its event was lost.
EndUntold == \E j \in Jobs : repo[j] \in Final /\ j \notin told

\* What must not last: a dashboard that is shown and does not show the jobs as
\* they are; most changes come without an event.
DashStale == visible /\ page = "dash" /\ ~fresh
=============================================================================
