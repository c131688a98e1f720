----------------------------- MODULE PhoneClient -----------------------------
(***************************************************************************)
(* The phone's script (scripts/ios_scriptable.js): files shared with it    *)
(* are uploaded by concurrent workers, then a page follows the jobs over a *)
(* WebSocket, and notifications tell what became of them.  The script is   *)
(* one JavaScript thread: an action is what runs between two awaits.       *)
(***************************************************************************)
EXTENDS Naturals, Sequences, FiniteSets

CONSTANTS
    NumFiles,   \* bound: files shared at once
    Uploaders,  \* the MAX_CONCURRENT uploads
    MaxFollowed, \* bound: jobs of a progress page
    MaxLost,    \* bound: answers lost on the way
    MaxEvalFails \* bound: evaluations in the page that fail

Files == 1..NumFiles
NoFile == 0
Terminal == {"completed", "failed"}

VARIABLES
    queue,     \* files nobody has taken
    upc, file, \* where each upload is, with which file
    answer,    \* the answer to its request: TRUE if it holds an id
    seen,      \* c_ as the page returned it
    cancelled, \* the script's own flag
    c_,        \* the page's: the user pressed cancel
    wvClosed,
    jobs,      \* files whose job id the script has
    phase,     \* upload, choose, wait, after, over, or left at the choice
    statuses,  \* what the script believes of its jobs
    ws, inbox, \* WebSocket and the events under way
    finished,  \* allDone was shown
    notes,     \* notifications scheduled
    job,       \* the server's rows
    lost, evalFails,  \* bounds
    late,      \* history: jobs whose final row was written over; also a bound
    had,       \* history: the final rows each job has had
    startedLate \* history: uploads each uploader began after c_ was set

uploadVars == <<queue, upc, file, answer, seen, cancelled, startedLate>>
pageVars == <<c_, wvClosed>>
waitVars == <<statuses, ws, inbox, finished>>
serverVars == <<job, had, late>>
vars == <<uploadVars, pageVars, jobs, phase, waitVars, notes, serverVars, lost, evalFails>>

Rows == {"none", "queued", "printing"} \cup Terminal

TypeOK ==
    /\ queue \in Seq(Files)
    /\ upc \in [Uploaders -> {"start", "sent", "answered", "ask", "asked", "out"}]
    /\ file \in [Uploaders -> Files \cup {NoFile}]
    /\ answer \in [Uploaders -> BOOLEAN] /\ seen \in [Uploaders -> BOOLEAN]
    /\ cancelled \in BOOLEAN /\ c_ \in BOOLEAN /\ wvClosed \in BOOLEAN
    /\ jobs \subseteq Files
    /\ phase \in {"upload", "choose", "wait", "after", "over", "left"}
    /\ statuses \in [Files -> Rows]
    /\ ws \in {"none", "opening", "open"}
    /\ inbox \in Seq(Files \X Rows)
    /\ finished \in BOOLEAN
    /\ notes \in Seq({"uploaded", "waiting", "completed", "partial", "failed"})
    /\ job \in [Files -> Rows] /\ had \subseteq Files \X Rows /\ late \subseteq Files
    /\ startedLate \in [Uploaders -> 0..NumFiles]

Init ==
    /\ queue = [i \in Files |-> i]
    /\ upc = [u \in Uploaders |-> "start"] /\ file = [u \in Uploaders |-> NoFile]
    /\ answer = [u \in Uploaders |-> FALSE] /\ seen = [u \in Uploaders |-> FALSE]
    /\ cancelled = FALSE /\ c_ = FALSE /\ wvClosed = FALSE
    /\ jobs = {} /\ phase = "upload"
    /\ statuses = [f \in Files |-> "none"]
    /\ ws = "none" /\ inbox = <<>> /\ finished = FALSE
    /\ notes = <<>>
    /\ job = [f \in Files |-> "none"] /\ had = {} /\ late = {}
    /\ lost = 0 /\ evalFails = 0
    /\ startedLate = [u \in Uploaders |-> 0]

-----------------------------------------------------------------------------
(* The upload. *)

\* The head of the loop, with the flag as it is now; then uploadOne begins.
LoopHead(u, flag) ==
    IF queue = <<>> \/ flag \/ wvClosed
    THEN /\ upc' = [upc EXCEPT ![u] = "out"]
         /\ file' = [file EXCEPT ![u] = NoFile]
         /\ UNCHANGED <<queue, startedLate>>
    ELSE /\ upc' = [upc EXCEPT ![u] = "sent"]
         /\ file' = [file EXCEPT ![u] = Head(queue)]
         /\ queue' = Tail(queue)
         /\ startedLate' = IF c_ THEN [startedLate EXCEPT ![u] = @ + 1] ELSE startedLate

BeginUploads(u) ==
    /\ upc[u] = "start"
    /\ LoopHead(u, cancelled)
    /\ UNCHANGED <<answer, seen, cancelled, pageVars, jobs, phase, waitVars, notes,
                   serverVars, lost, evalFails>>

\* The server takes the request (handle_file_upload adds a job) or refuses it;
\* the answer, or the request itself, may be lost.
Request(u) ==
    /\ upc[u] = "sent"
    /\ upc' = [upc EXCEPT ![u] = "answered"]
    /\ \/ /\ job' = [job EXCEPT ![file[u]] = "queued"]
          /\ \/ answer' = [answer EXCEPT ![u] = TRUE] /\ UNCHANGED lost
             \/ /\ lost < MaxLost
                /\ lost' = lost + 1
                /\ answer' = [answer EXCEPT ![u] = FALSE]
       \/ /\ answer' = [answer EXCEPT ![u] = FALSE]
          /\ UNCHANGED <<job, lost>>
    /\ UNCHANGED <<queue, file, seen, cancelled, startedLate, pageVars, jobs, phase,
                   waitVars, notes, had, late, evalFails>>

\* No id, no job: a failed upload is shown as such and not tried again.
Answered(u) ==
    /\ upc[u] = "answered"
    /\ upc' = [upc EXCEPT ![u] = "ask"]
    /\ jobs' = IF answer[u] THEN jobs \cup {file[u]} ELSE jobs
    /\ answer' = [answer EXCEPT ![u] = FALSE]
    /\ UNCHANGED <<queue, file, seen, cancelled, startedLate, pageVars, phase,
                   waitVars, notes, serverVars, lost, evalFails>>

\* wvEval('c_') when the page is open; null, which counts as no, if it fails.
Ask(u) ==
    /\ upc[u] = "ask"
    /\ \/ /\ ~wvClosed
          /\ upc' = [upc EXCEPT ![u] = "asked"]
          /\ \/ seen' = [seen EXCEPT ![u] = c_] /\ UNCHANGED evalFails
             \/ /\ evalFails < MaxEvalFails
                /\ evalFails' = evalFails + 1
                /\ seen' = [seen EXCEPT ![u] = FALSE]
          /\ UNCHANGED <<queue, file, startedLate>>
       \/ /\ wvClosed
          /\ LoopHead(u, cancelled)
          /\ UNCHANGED <<seen, evalFails>>
    /\ UNCHANGED <<answer, cancelled, pageVars, jobs, phase, waitVars, notes,
                   serverVars, lost>>

\* Mutant: the page's answer is stored and the loop does not look at it.
AskedAndOn(u) ==
    /\ upc[u] = "asked"
    /\ cancelled' = seen[u] /\ seen' = [seen EXCEPT ![u] = FALSE]
    /\ LoopHead(u, FALSE)
    /\ UNCHANGED <<answer, pageVars, jobs, phase, waitVars, notes, serverVars,
                   lost, evalFails>>

\* cancelled becomes what this worker was told, whatever it was before.
Asked(u) ==
    /\ upc[u] = "asked"
    /\ cancelled' = seen[u] /\ seen' = [seen EXCEPT ![u] = FALSE]
    /\ LoopHead(u, seen[u])
    /\ UNCHANGED <<answer, pageVars, jobs, phase, waitVars, notes, serverVars,
                   lost, evalFails>>

\* After Promise.all: a closed page ends the script with a notification, no job
\* at all ends it without one.  What the upload used is dropped.
UploadsDone ==
    /\ phase = "upload"
    /\ \A u \in Uploaders : upc[u] = "out"
    /\ phase' = IF wvClosed \/ jobs = {} THEN "over" ELSE "choose"
    /\ notes' = IF wvClosed /\ jobs # {} THEN Append(notes, "uploaded") ELSE notes
    /\ queue' = <<>> /\ cancelled' = FALSE
    /\ startedLate' = [u \in Uploaders |-> 0]
    /\ c_' = FALSE /\ lost' = 0 /\ evalFails' = 0
    /\ UNCHANGED <<upc, file, answer, seen, wvClosed, jobs, waitVars, serverVars>>

-----------------------------------------------------------------------------
(* The wait. *)

\* The user asks for the progress page; statuses start as 'queued', whatever
\* has happened meanwhile.
ViewProgress ==
    /\ phase = "choose" /\ ~wvClosed
    /\ Cardinality(jobs) <= MaxFollowed
    /\ phase' = "wait"
    /\ statuses' = [f \in Files |-> IF f \in jobs THEN "queued" ELSE "none"]
    /\ ws' \in {"opening", "none"}
    /\ UNCHANGED <<uploadVars, pageVars, jobs, inbox, finished, notes, serverVars,
                   lost, evalFails>>

\* The page is closed, or an error of its own ends waitForLoad: nothing is told.
LeaveAtChoice ==
    /\ phase = "choose"
    /\ phase' = "left"
    /\ UNCHANGED <<uploadVars, pageVars, jobs, waitVars, notes, serverVars, lost, evalFails>>

\* ws_events: accepted and subscribed; only later events are sent.  What the
\* server has done by then, which nobody could see, is chosen here.
Subscribe ==
    /\ phase = "wait" /\ ws = "opening"
    /\ ws' = "open"
    /\ job' \in [Files -> Rows]
    /\ \A f \in Files : IF f \in jobs THEN job'[f] # "none" ELSE job'[f] = job[f]
    /\ had' = had \cup {<<f, job'[f]>> : f \in {g \in jobs : job'[g] \in Terminal}}
    /\ UNCHANGED <<uploadVars, pageVars, jobs, phase, statuses, inbox, finished, notes,
                   late, lost, evalFails>>

\* The connection breaks; ws.onerror does not open another.
SocketError ==
    /\ phase = "wait" /\ ws # "none"
    /\ ws' = "none" /\ inbox' = <<>>
    /\ UNCHANGED <<uploadVars, pageVars, jobs, phase, statuses, finished, notes,
                   serverVars, lost, evalFails>>

AllTerminal(st) == \A f \in jobs : st[f] \in Terminal

OnMessage ==
    /\ ws = "open" /\ inbox # <<>> /\ phase \in {"wait", "after"}
    /\ LET ev == Head(inbox) IN statuses' = [statuses EXCEPT ![ev[1]] = ev[2]]
    /\ inbox' = Tail(inbox)
    /\ finished' = (finished \/ (AllTerminal(statuses') /\ ~wvClosed))
    /\ UNCHANGED <<uploadVars, pageVars, jobs, phase, ws, notes, serverVars, lost, evalFails>>

\* The kind sendResultNotif chooses.
Result ==
    IF \A f \in jobs : statuses[f] # "failed" THEN "completed"
    ELSE IF \E f \in jobs : statuses[f] = "completed" THEN "partial"
    ELSE "failed"

\* 'cb://done', 'cb://close', or waitForLoad ends with an error.  It need not
\* end when the page is closed: here nothing races it.
LeaveWait ==
    /\ phase = "wait"
    /\ phase' = "after"
    /\ \/ finished /\ ~wvClosed /\ notes' = Append(notes, Result)
       \/ UNCHANGED notes
    /\ UNCHANGED <<uploadVars, pageVars, jobs, waitVars, serverVars, lost, evalFails>>

\* ws.close, and a last notification.
After ==
    /\ phase = "after"
    /\ phase' = "over" /\ ws' = "none" /\ inbox' = <<>>
    /\ notes' = Append(notes, IF AllTerminal(statuses) THEN Result ELSE "waiting")
    /\ UNCHANGED <<uploadVars, pageVars, jobs, statuses, finished, serverVars, lost, evalFails>>

-----------------------------------------------------------------------------
(* The user and the server. *)

PressCancel ==
    /\ phase = "upload" /\ ~wvClosed /\ ~c_
    /\ c_' = TRUE
    /\ UNCHANGED <<uploadVars, wvClosed, jobs, phase, waitVars, notes, serverVars,
                   lost, evalFails>>

ClosePage ==
    /\ ~wvClosed /\ phase # "over"
    /\ wvClosed' = TRUE
    /\ UNCHANGED <<uploadVars, c_, jobs, phase, waitVars, notes, serverVars, lost, evalFails>>

\* A row changes (JobLifecycle) and the event is published.
SetRow(f, row) ==
    /\ job' = [job EXCEPT ![f] = row]
    /\ had' = IF row \in Terminal THEN had \cup {<<f, row>>} ELSE had
    /\ late' = IF job[f] \in Terminal THEN late \cup {f} ELSE late
    /\ inbox' = IF ws = "open" THEN Append(inbox, <<f, row>>) ELSE inbox
    /\ UNCHANGED <<uploadVars, pageVars, jobs, phase, statuses, ws, finished, notes,
                   lost, evalFails>>

\* A print that was cancelled too late may still complete, a late cancel
\* overwrite 'completed', and a job that has failed is printed again: by a retry,
\* whose 'queued' is not published, or by a worker that overlooked the cancel
\* (one of these once here).  The events of other jobs, which the script stores
\* and never looks at, are left out.
ServerWorks(f) ==
    /\ ws = "open" /\ f \in jobs
    /\ \/ job[f] = "queued" /\ SetRow(f, "printing")
       \/ job[f] = "printing" /\ \E row \in Terminal : SetRow(f, row)
       \/ /\ job[f] \in Terminal /\ late = {}
          /\ \/ \E row \in Terminal \ {job[f]} : SetRow(f, row)
             \/ job[f] = "failed" /\ SetRow(f, "printing")

\* The cancel button of a row: POST /api/cancel, whose outcome is not looked at.
ClickCancel(f) ==
    /\ phase = "wait" /\ ~wvClosed /\ f \in jobs /\ ws # "opening"
    /\ job[f] \in {"queued", "printing"}
    /\ SetRow(f, "failed")

UploadStep(u) ==
    BeginUploads(u) \/ Request(u) \/ Answered(u) \/ Ask(u) \/ Asked(u)

\* What the script does without the user.
ScriptStep == UploadsDone \/ (wvClosed /\ LeaveAtChoice) \/ After

Next ==
    \/ \E u \in Uploaders : UploadStep(u)
    \/ ScriptStep \/ LeaveAtChoice \/ LeaveWait
    \/ ViewProgress \/ Subscribe \/ SocketError \/ OnMessage
    \/ PressCancel \/ ClosePage
    \/ \E f \in Files : ServerWorks(f) \/ ClickCancel(f)

Spec == Init /\ [][Next]_vars

-----------------------------------------------------------------------------
(* Properties. *)

\* After the user pressed cancel each of the concurrent uploads begins at most
\* one more file, however their looks at the page's flag and their writes of
\* the shared one interleave, unless the page does not answer.
CancelBounded ==
    evalFails = 0 => \A u \in Uploaders : startedLate[u] <= 1

\* A result is only notified when every job of the page has had a final row,
\* and it is the one the server had come to.  Only a job whose final row was
\* written over may be said to have another than it has: 'completed' looks at
\* the failed ones alone, and is also said of a job that is printed again.
ResultTrue ==
    \A i \in 1..Len(notes) :
        /\ notes[i] \in {"completed", "partial", "failed"} =>
              \A f \in jobs : \E s \in Terminal : <<f, s>> \in had
        /\ notes[i] = "completed" => \A f \in jobs \ late : <<f, "completed">> \in had
        /\ notes[i] = "failed" =>
              /\ \A f \in jobs \ late : <<f, "failed">> \in had
              /\ \E f \in jobs : <<f, "failed">> \in had
        /\ notes[i] = "partial" => \A s \in Terminal : \E f \in jobs : <<f, s>> \in had

\* Whoever has followed the jobs on the page, or closed it before the uploads
\* were done, is told something in the end.  (Only who leaves at the choice in
\* between is told nothing.)
UserTold == phase = "over" /\ jobs # {} => notes # <<>>

\* What must not last: the page is closed and the script still runs, whatever
\* the uploads are doing, unless it waits for the page.
ClosedButRuns == wvClosed /\ phase \notin {"wait", "left", "over"}
=============================================================================
