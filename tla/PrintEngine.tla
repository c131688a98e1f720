----------------------------- MODULE PrintEngine -----------------------------
(***************************************************************************)
(* PrintEngine.print_file and what it calls: the conversion of Office      *)
(* documents under one lock per application, the PDF backend's chain of    *)
(* four ways to print (IPP, RAW, Chromium, GDI), and the cancellation of a *)
(* running print from another thread (src/app/printing/engine.py,          *)
(* backends/pdf.py, backends/office.py, ipp_client.py).                    *)
(*                                                                         *)
(* The queue may call print_file for a job whose earlier attempt is still  *)
(* running in another thread of the pool.                                  *)
(*                                                                         *)
(* Simplified: there is one printer, and a browser that exits with code 0  *)
(* has given its document to the spooler.                                  *)
(***************************************************************************)
EXTENDS Naturals, FiniteSets

CONSTANTS
    Threads,     \* threads of the print pool
    Documents,   \* ids of jobs
    Parted,      \* those that ask for a page range or n pages on a sheet
    OfficeApps,  \* applications with a lock each
    NoThread, NoDoc,
    MaxStarts    \* bound: runs of print_file per job

VARIABLES
    kind,        \* an application, or "direct" for PDF, image and text
    pc, doc,     \* where each thread is, with which job
    result,      \* of the thread's run, from where it is known
    lock,        \* holder of word_lock, excel_lock, ppt_lock
    active,      \* keys of PrintEngine._active_jobs
    tracked,     \* PdfBackend._active_jobs: [by, method] or Untracked
    chrome,      \* the Chromium child of each thread
    temps,       \* temporary files of each thread's run
    left,        \* files of runs that an exception has left on the disk
    spool,       \* jobs that have a document in the Windows spooler
    cpc, cdoc, cinfo,  \* cancel_active_job, one call at a time
    starts,      \* runs so far, bounded by MaxStarts
    sent,        \* history: documents the printer got of a run, counted to 2
    doubted,     \* history: whether the run took one of them for not sent
    cancelled,   \* history: jobs a cancel has found
    refused,     \* history: jobs whose purge the spooler refused
    overlapped   \* history: jobs two threads have printed side by side

threadVars == <<pc, doc, result, chrome, temps, sent, doubted>>
cancelVars == <<cpc, cdoc, cinfo>>
histVars == <<starts, cancelled, refused, overlapped>>
vars == <<kind, threadVars, lock, active, tracked, spool, left, cancelVars, histVars>>

Untracked == [by |-> NoThread, method |-> "none"]
\* A cancel tells apart: an address, a browser with a pid, a printer's name.
Methods == {"ipp", "chromium", "printer"}
Files == {"converted", "part"}
Printing == {"prepare", "ipp", "raw", "chromium", "render", "gdi", "release", "finish"}

TypeOK ==
    /\ kind \in [Documents -> OfficeApps \cup {"direct"}]
    /\ pc \in [Threads -> {"idle", "dispatch", "lock", "convert", "register"} \cup Printing]
    /\ doc \in [Threads -> Documents \cup {NoDoc}]
    /\ result \in [Threads -> {"none", "ok", "error"}]
    /\ lock \in [OfficeApps -> Threads \cup {NoThread}]
    /\ active \subseteq Documents
    /\ tracked \in [Documents -> {Untracked} \cup [by : Threads, method : Methods]]
    /\ chrome \in [Threads -> {"none", "working", "spooled", "killed"}]
    /\ temps \in [Threads -> SUBSET Files] /\ left \subseteq Files
    /\ spool \subseteq Documents
    /\ cpc \in {"idle", "info", "kill", "purge"}
    /\ cdoc \in Documents \cup {NoDoc}
    /\ cinfo \in {Untracked} \cup [by : Threads, method : Methods]
    /\ starts \in [Documents -> 0..MaxStarts]
    /\ sent \in [Threads -> 0..2] /\ doubted \in [Threads -> BOOLEAN]
    /\ cancelled \subseteq Documents /\ refused \subseteq Documents
    /\ overlapped \subseteq Documents

Init ==
    /\ kind \in [Documents -> OfficeApps \cup {"direct"}]
    /\ pc = [t \in Threads |-> "idle"]
    /\ doc = [t \in Threads |-> NoDoc]
    /\ result = [t \in Threads |-> "none"]
    /\ lock = [a \in OfficeApps |-> NoThread]
    /\ active = {}
    /\ tracked = [d \in Documents |-> Untracked]
    /\ chrome = [t \in Threads |-> "none"]
    /\ temps = [t \in Threads |-> {}] /\ left = {}
    /\ spool = {}
    /\ cpc = "idle" /\ cdoc = NoDoc /\ cinfo = Untracked
    /\ starts = [d \in Documents |-> 0]
    /\ sent = [t \in Threads |-> 0] /\ doubted = [t \in Threads |-> FALSE]
    /\ cancelled = {} /\ refused = {} /\ overlapped = {}

-----------------------------------------------------------------------------
(* Steps of a thread.  Step(t, p, q) moves it from p to q. *)

Step(t, p, q) == pc[t] = p /\ pc' = [pc EXCEPT ![t] = q]

Track(t, m) == tracked' = [tracked EXCEPT ![doc[t]] = [by |-> t, method |-> m]]

Untrack(d) == tracked' = [tracked EXCEPT ![d] = Untracked]

\* One document more for the printer, and one the run takes for not sent.
Send(t) == sent' = [sent EXCEPT ![t] = IF @ = 2 THEN 2 ELSE @ + 1]

Doubt(t) == doubted' = [doubted EXCEPT ![t] = TRUE]

\* An exception leaves print_file after a file was made and before the clause
\* that would remove it, or that clause cannot remove it.
Drop(t, f) ==
    /\ f \in temps[t]
    /\ temps' = [temps EXCEPT ![t] = @ \ {f}]
    /\ left' = left \cup {f}

\* The queue submits a run; the job may be in another thread already.
Start(t, d) ==
    /\ starts[d] < MaxStarts
    /\ Step(t, "idle", "dispatch")
    /\ doc' = [doc EXCEPT ![t] = d]
    /\ starts' = [starts EXCEPT ![d] = @ + 1]
    /\ overlapped' = IF \E u \in Threads : doc[u] = d
                     THEN overlapped \cup {d} ELSE overlapped
    /\ cancelled' = cancelled \ {d} /\ refused' = refused \ {d}
    /\ UNCHANGED <<kind, result, chrome, temps, sent, doubted, left, lock, active,
                   tracked, spool, cancelVars>>

\* print_file: an Office document is converted first; every other backend is
\* registered and called with lock=, which none of them accepts.
Dispatch(t) ==
    /\ pc[t] = "dispatch"
    /\ IF kind[doc[t]] = "direct"
       THEN /\ Step(t, "dispatch", "finish")
            /\ active' = active \cup {doc[t]}
            /\ result' = [result EXCEPT ![t] = "error"]
            /\ UNCHANGED temps
       ELSE /\ Step(t, "dispatch", "lock")
            /\ temps' = [temps EXCEPT ![t] = {"converted"}]
            /\ UNCHANGED <<active, result>>
    /\ UNCHANGED <<kind, doc, chrome, sent, doubted, left, lock, tracked, spool,
                   cancelVars, histVars>>

\* _com_context: one conversion at a time per application.
AcquireApp(t) ==
    /\ Step(t, "lock", "convert")
    /\ lock[kind[doc[t]]] = NoThread
    /\ lock' = [lock EXCEPT ![kind[doc[t]]] = t]
    /\ UNCHANGED <<kind, doc, result, chrome, temps, sent, doubted, left, active,
                   tracked, spool, cancelVars, histVars>>

\* Mutant: an exception passes by the release of the lock.
ConvertKeepingLock(t) ==
    /\ Step(t, "convert", "idle")
    /\ doc' = [doc EXCEPT ![t] = NoDoc]
    /\ Drop(t, "converted")
    /\ UNCHANGED <<kind, result, chrome, sent, doubted, lock, active, tracked, spool,
                   cancelVars, histVars>>

\* The application saves the PDF, or raises: the file made for it is removed by
\* the finally clause of print_file only once the conversion has returned.
\* Nothing limits the time it takes.
Convert(t) ==
    /\ pc[t] = "convert"
    /\ lock' = [lock EXCEPT ![kind[doc[t]]] = NoThread]
    /\ \/ /\ Step(t, "convert", "register")
          /\ UNCHANGED <<doc, temps, left>>
       \/ /\ Step(t, "convert", "idle")
          /\ doc' = [doc EXCEPT ![t] = NoDoc]
          /\ Drop(t, "converted")
    /\ UNCHANGED <<kind, result, chrome, sent, doubted, active, tracked, spool,
                   cancelVars, histVars>>

Register(t) ==
    /\ Step(t, "register", "prepare")
    /\ active' = active \cup {doc[t]}
    /\ UNCHANGED <<kind, doc, result, chrome, temps, sent, doubted, left, lock,
                   tracked, spool, cancelVars, histVars>>

\* _prepare_pdf and the first _track_job.  A page range makes a file of its
\* own.  An exception while that file is saved or composed n pages on a sheet
\* leaves it; one before, or in _resolve_printer after, does not.
Prepare(t) ==
    LET parts == IF doc[t] \in Parted THEN {"part"} ELSE {} IN
    /\ \/ /\ Step(t, "prepare", "ipp")
          /\ temps' = [temps EXCEPT ![t] = @ \cup parts]
          /\ Track(t, "printer")
          /\ UNCHANGED <<result, left>>
       \/ /\ Step(t, "prepare", "finish")
          /\ result' = [result EXCEPT ![t] = "error"]
          /\ left' \in {left, left \cup parts}
          /\ UNCHANGED <<temps, tracked>>
    /\ UNCHANGED <<kind, doc, chrome, sent, doubted, lock, active, spool,
                   cancelVars, histVars>>

\* get_printer_ip: no address in the port's name nor in the registry.
SkipIpp(t) ==
    /\ Step(t, "ipp", "raw")
    /\ UNCHANGED <<kind, doc, result, chrome, temps, sent, doubted, left, lock, active,
                   tracked, spool, cancelVars, histVars>>

\* is_mopria_driver: the driver would not pass the PDF through.
SkipRaw(t) ==
    /\ Step(t, "raw", "chromium")
    /\ UNCHANGED <<kind, doc, result, chrome, temps, sent, doubted, left, lock, active,
                   tracked, spool, cancelVars, histVars>>

\* One way of printing: whether or not the printer got the document, the way
\* may be taken for failed, and the next one prints it again.
Attempt(t, here, next, method) ==
    /\ \E got, ok \in BOOLEAN :
          /\ ok => got
          /\ Step(t, here, IF ok THEN "release" ELSE next)
          /\ Track(t, method)
          /\ result' = [result EXCEPT ![t] = IF ok THEN "ok" ELSE @]
          /\ IF got THEN Send(t) ELSE UNCHANGED sent
          /\ IF got /\ ~ok THEN Doubt(t) ELSE UNCHANGED doubted
          /\ spool' = IF got /\ method = "printer" THEN spool \cup {doc[t]} ELSE spool

\* IPP goes to the printer itself; its answer may be lost after 60 seconds, and
\* any status but 0x0000 counts as a failure.
TryIpp(t) ==
    /\ Attempt(t, "ipp", "raw", "ipp")
    /\ UNCHANGED <<kind, doc, chrome, temps, left, lock, active, cancelVars, histVars>>

\* Mutant: _try_raw forgets to return True.
RawAndOn(t) ==
    /\ Step(t, "raw", "chromium")
    /\ Track(t, "printer")
    /\ Send(t)
    /\ spool' = spool \cup {doc[t]}
    /\ UNCHANGED <<kind, doc, result, chrome, temps, doubted, left, lock, active,
                   cancelVars, histVars>>

TryRaw(t) ==
    /\ Attempt(t, "raw", "chromium", "printer")
    /\ UNCHANGED <<kind, doc, chrome, temps, left, lock, active, cancelVars, histVars>>

\* _find_chromium finds no browser.
SkipChromium(t) ==
    /\ Step(t, "chromium", "gdi")
    /\ UNCHANGED <<kind, doc, result, chrome, temps, sent, doubted, left, lock, active,
                   tracked, spool, cancelVars, histVars>>

\* _try_chromium: a child process whose pid is tracked.  If the browser cannot
\* be started the exception ends the run, and GDI is not tried.
StartChromium(t) ==
    /\ \/ /\ Step(t, "chromium", "render")
          /\ chrome' = [chrome EXCEPT ![t] = "working"]
          /\ Track(t, "chromium")
          /\ UNCHANGED result
       \/ /\ Step(t, "chromium", "release")
          /\ result' = [result EXCEPT ![t] = "error"]
          /\ UNCHANGED <<chrome, tracked>>
    /\ UNCHANGED <<kind, doc, temps, sent, doubted, left, lock, active, spool,
                   cancelVars, histVars>>

\* The child gives its document to the spooler (external).
ChromiumSpools(t) ==
    /\ chrome[t] = "working"
    /\ chrome' = [chrome EXCEPT ![t] = "spooled"]
    /\ Send(t)
    /\ spool' = spool \cup {doc[t]}
    /\ UNCHANGED <<kind, pc, doc, result, temps, doubted, left, lock, active, tracked,
                   cancelVars, histVars>>

\* Mutant: a browser that has not exited in time is taken for one that printed.
AwaitInTime(t) ==
    /\ Step(t, "render", "release")
    /\ result' = [result EXCEPT ![t] = "ok"]
    /\ chrome' = [chrome EXCEPT ![t] = "none"]
    /\ UNCHANGED <<kind, doc, temps, sent, doubted, left, lock, active, tracked, spool,
                   cancelVars, histVars>>

\* communicate returns: exit code 0 once it has printed, or another one, or the
\* timeout and kill(); a child killed by a cancel has another one too.  The
\* chain takes all but the first for a failure and goes on.
AwaitChromium(t) ==
    /\ \E ok \in BOOLEAN :
          /\ ok => chrome[t] = "spooled"
          /\ Step(t, "render", IF ok THEN "release" ELSE "gdi")
          /\ result' = [result EXCEPT ![t] = IF ok THEN "ok" ELSE @]
          /\ IF chrome[t] # "working" /\ ~ok THEN Doubt(t) ELSE UNCHANGED doubted
    /\ chrome' = [chrome EXCEPT ![t] = "none"]
    /\ UNCHANGED <<kind, doc, temps, sent, left, lock, active, tracked, spool,
                   cancelVars, histVars>>

\* The last way; if it fails too, PrintError.  A page that raises after StartDoc
\* has left a part of the document with the spooler.
TryGdi(t) ==
    /\ Step(t, "gdi", "release")
    /\ Track(t, "printer")
    /\ \E got, ok \in BOOLEAN :
          /\ ok => got
          /\ result' = [result EXCEPT ![t] = IF ok THEN "ok" ELSE "error"]
          /\ IF got THEN Send(t) ELSE UNCHANGED sent
          /\ IF got /\ ~ok THEN Doubt(t) ELSE UNCHANGED doubted
          /\ spool' = IF got THEN spool \cup {doc[t]} ELSE spool
    /\ UNCHANGED <<kind, doc, chrome, temps, left, lock, active, cancelVars,
                   histVars>>

\* The two finally clauses of the PDF backend.  Windows may refuse to remove a
\* file that is open: unlink raises, and a print that succeeded has failed.
Release(t) ==
    /\ Step(t, "release", "finish")
    /\ Untrack(doc[t])
    /\ \/ /\ temps' = [temps EXCEPT ![t] = @ \ {"part"}]
          /\ UNCHANGED <<result, doubted, left>>
       \/ /\ Drop(t, "part")
          /\ result' = [result EXCEPT ![t] = "error"]
          /\ IF sent[t] > 0 THEN Doubt(t) ELSE UNCHANGED doubted
    /\ UNCHANGED <<kind, doc, chrome, sent, lock, active, spool,
                   cancelVars, histVars>>

\* The account of a run ends with it.
Account(t) ==
    /\ result' = [result EXCEPT ![t] = "none"]
    /\ sent' = [sent EXCEPT ![t] = 0] /\ doubted' = [doubted EXCEPT ![t] = FALSE]

\* Mutant: the finally clause is skipped when the print has failed.
FinishOkOnly(t) ==
    /\ Step(t, "finish", "idle")
    /\ active' = IF result[t] = "ok" THEN active \ {doc[t]} ELSE active
    /\ temps' = [temps EXCEPT ![t] = IF result[t] = "ok" THEN @ \ {"converted"} ELSE @]
    /\ doc' = [doc EXCEPT ![t] = NoDoc]
    /\ Account(t)
    /\ UNCHANGED <<kind, chrome, left, lock, tracked, spool,
                   cancelVars, histVars>>

\* The finally clause of print_file; safe_remove goes on if it cannot remove.
Finish(t) ==
    /\ Step(t, "finish", "idle")
    /\ active' = active \ {doc[t]}
    /\ \/ /\ temps' = [temps EXCEPT ![t] = @ \ {"converted"}]
          /\ UNCHANGED left
       \/ Drop(t, "converted")
    /\ doc' = [doc EXCEPT ![t] = NoDoc]
    /\ Account(t)
    /\ UNCHANGED <<kind, chrome, lock, tracked, spool, cancelVars, histVars>>

-----------------------------------------------------------------------------
(* cancel_active_job, from a handler of the API or the GUI. *)

\* The entry is taken out under the lock; without one the answer is False.
Cancel(d) ==
    /\ cpc = "idle"
    /\ d \in active
    /\ active' = active \ {d}
    /\ cancelled' = cancelled \cup {d}
    /\ IF kind[d] = "direct" THEN UNCHANGED <<cpc, cdoc>> ELSE cpc' = "info" /\ cdoc' = d
    /\ UNCHANGED <<kind, threadVars, lock, tracked, spool, left, cinfo, starts, refused,
                   overlapped>>

\* PdfBackend.cancel looks at how the job is printed at this moment ...
CancelInfo ==
    /\ cpc = "info"
    /\ cinfo' = tracked[cdoc]
    /\ IF cinfo' = Untracked THEN cpc' = "idle" /\ cdoc' = NoDoc
       ELSE /\ cpc' = IF cinfo'.method = "chromium" THEN "kill" ELSE "purge"
            /\ UNCHANGED cdoc
    /\ UNCHANGED <<kind, threadVars, lock, active, tracked, spool, left, histVars>>

\* Mutant: a browser that was killed needs no purge.
KillOnly ==
    /\ cpc = "kill"
    /\ cpc' = "idle"
    /\ chrome' = [chrome EXCEPT ![cinfo.by] =
                     IF doc[cinfo.by] = cdoc /\ @ # "none" THEN "killed" ELSE @]
    /\ UNCHANGED <<kind, pc, doc, result, temps, sent, doubted, left, lock, active,
                   tracked, spool, cdoc, cinfo, histVars>>

\* ... kills the browser if that is still the one; taskkill may fail ...
CancelKill ==
    /\ cpc = "kill"
    /\ cpc' = "purge"
    /\ \/ UNCHANGED chrome
       \/ chrome' = [chrome EXCEPT ![cinfo.by] =
                        IF doc[cinfo.by] = cdoc /\ @ # "none" THEN "killed" ELSE @]
    /\ UNCHANGED <<kind, pc, doc, result, temps, sent, doubted, left, lock, active,
                   tracked, spool, cdoc, cinfo, histVars>>

\* ... and deletes the documents of that printer one by one until an error,
\* which is logged and forgotten.  For IPP the "printer" is an address, which
\* OpenPrinter does not know.
CancelPurge ==
    /\ cpc = "purge"
    /\ \/ /\ cinfo.method # "ipp"
          /\ spool' = {}
          /\ UNCHANGED refused
       \/ /\ spool' \in SUBSET spool
          /\ cinfo.method = "ipp" => spool' = spool
          /\ refused' = refused \cup {cdoc}
    /\ cpc' = "idle" /\ cdoc' = NoDoc /\ cinfo' = Untracked
    /\ UNCHANGED <<kind, threadVars, lock, active, tracked, left, starts, cancelled,
                   overlapped>>

\* The spooler prints (external).
PaperOut(d) ==
    /\ d \in spool
    /\ spool' = spool \ {d}
    /\ UNCHANGED <<kind, threadVars, lock, active, tracked, left, cancelVars, histVars>>

-----------------------------------------------------------------------------
OwnStep(t) ==
    \/ Dispatch(t) \/ AcquireApp(t) \/ Register(t) \/ Prepare(t)
    \/ SkipIpp(t) \/ TryIpp(t) \/ SkipRaw(t) \/ TryRaw(t)
    \/ SkipChromium(t) \/ StartChromium(t) \/ AwaitChromium(t)
    \/ TryGdi(t) \/ Release(t) \/ Finish(t)

CancelStep ==
    \/ \E d \in Documents : Cancel(d)
    \/ CancelInfo \/ CancelKill \/ CancelPurge

Next ==
    \/ \E t \in Threads :
          \/ \E d \in Documents : Start(t, d)
          \/ OwnStep(t) \/ Convert(t) \/ ChromiumSpools(t)
    \/ CancelStep
    \/ \E d \in Documents : PaperOut(d)

Spec == Init /\ [][Next]_vars

-----------------------------------------------------------------------------
(* Properties. *)

\* A job no thread prints has left nothing behind: no entry in either table
\* of active jobs, no browser, and no temporary file but those in left, whose
\* filling or removal has raised an exception (the finally clauses).
NothingLeft ==
    /\ \A t \in Threads :
          doc[t] = NoDoc => temps[t] = {} /\ chrome[t] = "none"
    /\ \A d \in Documents :
          d \in active \/ tracked[d] # Untracked
              => \E t \in Threads : doc[t] = d

\* A job that is printed can be cancelled: it is registered from the end of
\* its conversion on, unless a cancel has found it already or a second run of
\* the same job has removed the entry.
CancelFindsRun ==
    \A t \in Threads :
        pc[t] \in Printing => doc[t] \in active \cup cancelled \cup overlapped

\* A cancel that kills the browser takes the document back as well: once it is
\* over, nothing the browser spooled before it died is left to be printed,
\* unless the spooler refused to delete it.
KilledIsErased ==
    \A t \in Threads :
        chrome[t] = "killed" /\ cpc = "idle"
            => doc[t] \notin spool \cap (Documents \ (overlapped \cup refused))

\* How many documents of a run the printer has got.  A second one is there
\* only if the run took the first for not sent.  When it returns True there is
\* one; when it raises there is none, or one it took for not sent.
CopiesExplained ==
    \A t \in Threads :
        /\ sent[t] = 2 => doubted[t]
        /\ pc[t] = "finish" =>
              IF result[t] = "ok" THEN sent[t] > 0
              ELSE sent[t] = 0 \/ doubted[t]

\* Every run of print_file ends unless an Office application never returns:
\* the lock of the application is not lost, whatever fails and is cancelled.
EveryRunEnds ==
    \A t \in Threads :
        []<>(pc[t] = "idle") \/ <>[](\E u \in Threads : pc[u] = "convert")
=============================================================================
