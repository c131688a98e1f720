----------------------------- MODULE UpdateClient -----------------------------
(***************************************************************************)
(* The manual update on the About page: the section with one button whose  *)
(* label and handler change with the stage (src/gui/pages/update.py), its  *)
(* worker thread, and the functions the worker calls (src/app/updater.py). *)
(* The service that applies incremental updates is only asked here; see    *)
(* UpdateService for what it does.                                         *)
(***************************************************************************)
EXTENDS Naturals, FiniteSets

Kinds == {"incremental", "full"}
Offers == [newer : BOOLEAN, kind : Kinds \cup {"none"}]
NoInfo == [newer |-> FALSE, kind |-> "unknown"]

VARIABLES
    label, enabled,  \* of update_btn
    handlers,        \* what is connected to its clicked signal
    info,            \* _update_info
    installer,       \* what _installer_path names: none, incremental, full
    file,            \* that file: absent, partial, whole, short
    job,             \* the worker thread's call: none, or its mode and whether it began
    thread,          \* _update_thread is not None
    signal,          \* the worker's finished signal on its way to the page
    handed,          \* who was given which kind of package
    exiting,         \* the timer with os._exit runs
    mute,            \* an answer was lost for good (a known way to stay busy)
    frozen           \* the program runs from its installation directory

vars == <<label, enabled, handlers, info, installer, file, job, thread, signal,
          handed, exiting, mute, frozen>>

NoJob == [mode |-> "none", began |-> FALSE]
NoSignal == [of |-> "none", good |-> FALSE, offer |-> NoInfo]
Modes == {"check", "download", "install"}

Says == [check |-> {"check"}, retry |-> {"check", "download", "apply"},
         download |-> {"download"}, page |-> {"page"}]

TypeOK ==
    /\ label \in {"check", "retry", "download", "page",
                  "checking", "preparing", "installing"}
    /\ enabled \in BOOLEAN /\ thread \in BOOLEAN /\ exiting \in BOOLEAN
    /\ mute \in BOOLEAN /\ frozen \in BOOLEAN
    /\ handlers \subseteq {"check", "download", "page", "apply"}
    /\ info \in Offers \cup {NoInfo}
    /\ installer \in Kinds \cup {"none"}
    /\ file \in {"absent", "partial", "whole", "short"}
    /\ job \in [mode : Modes \cup {"none"}, began : BOOLEAN]
    /\ signal \in [of : Modes \cup {"none"}, good : BOOLEAN, offer : Offers \cup {NoInfo}]
    /\ handed \in ({"nsis", "service"} \X Kinds) \cup {<<>>}

Init ==
    /\ label = "check" /\ enabled = TRUE /\ handlers = {"check"}
    /\ info = NoInfo /\ installer = "none" /\ file = "absent"
    /\ job = NoJob /\ thread = FALSE /\ signal = NoSignal
    /\ handed = <<>> /\ exiting = FALSE /\ mute = FALSE
    /\ frozen \in BOOLEAN

-----------------------------------------------------------------------------
(* The button.  Offer enables it with one handler, after _safe_disconnect. *)

Offer(text, handler) ==
    label' = text /\ handlers' = {handler} /\ enabled' = TRUE

Busy(text) == label' = text /\ enabled' = FALSE /\ UNCHANGED handlers

\* _start_worker, which forgets the thread before it.
StartWorker(mode) == job' = [mode |-> mode, began |-> FALSE] /\ thread' = TRUE

\* _check_update.
CheckUpdate ==
    /\ enabled /\ ~exiting /\ "check" \in handlers
    /\ Busy("checking")
    /\ info' = NoInfo /\ installer' = "none"
    /\ StartWorker("check")
    /\ UNCHANGED <<file, signal, handed, exiting, mute, frozen>>

\* _start_download: the file's name goes by the kind and the version.
StartDownload ==
    /\ enabled /\ ~exiting /\ "download" \in handlers
    /\ Busy("preparing")
    /\ installer' = info.kind
    /\ StartWorker("download")
    /\ UNCHANGED <<info, file, signal, handed, exiting, mute, frozen>>

\* The button as it is, but for its text.
Still(text) == label' = text /\ UNCHANGED <<enabled, handlers>>

\* _apply_go_update.  A package the service has downloaded goes first; it may
\* be gone by now.  The service may not run, or stop between the two requests.
Apply(text) ==
    \E pending \in Kinds \cup {"none"}, there \in BOOLEAN,
       runs \in BOOLEAN, answer \in {"none", "error", "ok"} :
        \/ /\ pending = "full"
           /\ handed' = <<"nsis", "full">> /\ exiting' = TRUE
           /\ Still(text) /\ UNCHANGED mute
        \/ /\ pending # "full"
           /\ ~(IF pending = "incremental" THEN there ELSE file # "absent") \/ ~runs
           /\ Offer("page", "page")
           /\ UNCHANGED <<handed, exiting, mute>>
        \/ /\ pending # "full" /\ runs /\ ~frozen
           /\ IF pending = "incremental" THEN there ELSE file # "absent"
           /\ mute' = TRUE
           /\ Still(text) /\ UNCHANGED <<handed, exiting>>
        \/ /\ pending # "full" /\ runs /\ frozen
           /\ IF pending = "incremental" THEN there ELSE file # "absent"
           /\ IF answer = "ok"
              THEN /\ handed' = <<"service", "incremental">> /\ exiting' = TRUE
                   /\ Still(text)
              ELSE Offer("retry", "apply") /\ UNCHANGED <<handed, exiting>>
           /\ UNCHANGED mute

\* The button says 'retry' after the service refused.
ApplyAgain ==
    /\ enabled /\ ~exiting /\ "apply" \in handlers
    /\ Apply(label)
    /\ UNCHANGED <<info, installer, file, job, thread, signal, frozen>>

-----------------------------------------------------------------------------
(* The worker, in its thread. *)

Begin ==
    /\ job.mode # "none" /\ ~job.began
    /\ job' = [job EXCEPT !.began = TRUE]
    /\ file' = IF job.mode = "download" THEN "partial" ELSE file
    /\ UNCHANGED <<label, enabled, handlers, info, installer, thread, signal, handed,
                   exiting, mute, frozen>>

Emit(mode, good, offer) ==
    /\ job' = NoJob
    /\ signal' = [of |-> mode, good |-> good, offer |-> offer]

\* run_check: an answer, or None on the errors check_latest_version expects.
CheckEnds ==
    /\ job = [mode |-> "check", began |-> TRUE]
    /\ \/ \E o \in Offers : Emit("check", TRUE, o)
       \/ Emit("check", FALSE, NoInfo)
    /\ UNCHANGED <<label, enabled, handlers, info, installer, file, thread, handed,
                   exiting, mute, frozen>>

\* run_download: a connection that closes early counts as the end of the file.
DownloadEnds ==
    /\ job = [mode |-> "download", began |-> TRUE]
    /\ \/ file' \in {"whole", "short"} /\ Emit("download", TRUE, NoInfo)
       \/ file' = "absent" /\ Emit("download", FALSE, NoInfo)
    /\ UNCHANGED <<label, enabled, handlers, info, installer, thread, handed, exiting,
                   mute, frozen>>

\* Any other exception (a malformed answer is an HTTPException) ends the call
\* without a signal.
WorkerRaises ==
    /\ job.began /\ job.mode \in {"check", "download"}
    /\ job' = NoJob /\ mute' = TRUE
    /\ UNCHANGED <<label, enabled, handlers, info, installer, file, thread, signal,
                   handed, exiting, frozen>>

\* run_install: install_update starts the installer and then the exit timer.
InstallEnds ==
    /\ job = [mode |-> "install", began |-> TRUE]
    /\ \/ /\ handed' = <<"nsis", installer>> /\ exiting' = TRUE
          /\ Emit("install", TRUE, NoInfo)
       \/ Emit("install", FALSE, NoInfo) /\ UNCHANGED <<handed, exiting>>
    /\ UNCHANGED <<label, enabled, handlers, info, installer, file, thread, mute, frozen>>

WorkerStep == Begin \/ CheckEnds \/ DownloadEnds \/ WorkerRaises \/ InstallEnds

-----------------------------------------------------------------------------
(* The worker's signals, in the GUI thread. *)

\* Mutant: the handlers of before stay connected.
OnCheckFinishedConnects ==
    /\ signal.of = "check"
    /\ signal' = NoSignal /\ thread' = FALSE /\ enabled' = TRUE
    /\ info' = IF signal.good THEN signal.offer ELSE info
    /\ label' = IF ~signal.good THEN "retry" ELSE IF ~signal.offer.newer THEN "check"
                ELSE IF signal.offer.kind # "none" THEN "download" ELSE "page"
    /\ handlers' = handlers \cup (IF label' \in {"retry", "check"} THEN {"check"}
                                  ELSE {label'})
    /\ UNCHANGED <<installer, file, job, handed, exiting, mute, frozen>>

\* _on_check_finished.  'Up to date' leaves the handler, which is the check's.
OnCheckFinished ==
    /\ signal.of = "check"
    /\ signal' = NoSignal /\ thread' = FALSE
    /\ info' = IF signal.good THEN signal.offer ELSE info
    /\ \/ ~signal.good /\ Offer("retry", "check")
       \/ /\ signal.good /\ ~signal.offer.newer
          /\ label' = "check" /\ enabled' = TRUE /\ UNCHANGED handlers
       \/ signal.good /\ signal.offer.newer /\ signal.offer.kind # "none"
          /\ Offer("download", "download")
       \/ signal.good /\ signal.offer.newer /\ signal.offer.kind = "none"
          /\ Offer("page", "page")
    /\ UNCHANGED <<installer, file, job, handed, exiting, mute, frozen>>

\* _on_download_finished.
OnDownloadFinished ==
    /\ signal.of = "download"
    /\ signal' = NoSignal
    /\ \/ /\ ~signal.good
          /\ Offer("retry", "download")
          /\ file' = "absent" /\ thread' = FALSE
          /\ UNCHANGED <<job, handed, exiting, mute>>
       \/ /\ signal.good /\ info.kind = "incremental"
          /\ Apply("installing")
          /\ thread' = FALSE
          /\ UNCHANGED <<file, job>>
       \/ /\ signal.good /\ info.kind # "incremental"
          /\ Busy("installing") /\ StartWorker("install")
          /\ UNCHANGED <<file, handed, exiting, mute>>
    /\ UNCHANGED <<info, installer, frozen>>

\* _on_install_launched; after a success the exit comes.
OnInstallLaunched ==
    /\ signal.of = "install"
    /\ signal' = NoSignal /\ thread' = FALSE
    /\ IF signal.good THEN UNCHANGED <<label, enabled, handlers>> ELSE Offer("page", "page")
    /\ UNCHANGED <<info, installer, file, job, handed, exiting, mute, frozen>>

Deliver == OnCheckFinished \/ OnDownloadFinished \/ OnInstallLaunched

\* cleanup, when the window is closed on the About page: the thread is asked
\* to end and forgotten.  A call that has begun goes on and its signal comes;
\* one that has not never begins.
Cleanup ==
    /\ thread /\ ~exiting
    /\ thread' = FALSE
    /\ job' = IF job.began THEN job ELSE NoJob
    /\ mute' = (mute \/ (job.mode # "none" /\ ~job.began))
    /\ UNCHANGED <<label, enabled, handlers, info, installer, file, signal, handed,
                   exiting, frozen>>

Next ==
    \/ CheckUpdate \/ StartDownload \/ ApplyAgain
    \/ WorkerStep \/ Deliver \/ Cleanup

Spec == Init /\ [][Next]_vars

-----------------------------------------------------------------------------
(* Properties. *)

\* Behind an enabled button nothing runs and no answer is on its way, and it
\* does one thing, the one it says: stages come and go, and a handler left from
\* an earlier stage would check and download at once.
ButtonDoesWhatItSays ==
    enabled => /\ job = NoJob /\ signal = NoSignal
               /\ \E h \in Says[label] : handlers = {h}

\* The program exits for an update only when a package was handed over, and to
\* whom that kind of package is for.
ExitsAfterHandOver ==
    /\ exiting => handed # <<>>
    /\ handed # <<>> => handed \in {<<"nsis", "full">>, <<"service", "incremental">>}

\* What must not last: a button that is disabled in a program that goes on,
\* also when the window was closed in between, unless an answer was lost for
\* good.
Disabled == ~enabled /\ ~exiting /\ ~mute
=============================================================================
