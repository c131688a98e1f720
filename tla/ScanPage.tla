------------------------------- MODULE ScanPage -------------------------------
(***************************************************************************)
(* The scan page (src/gui/pages/scan.py) and its worker threads            *)
(* (scan_worker.py): the pictures are enhanced one after the other in a    *)
(* thread, whose signal 'finished' is delivered to the page some time      *)
(* later.  Cancel forgets the worker; its signal still comes.              *)
(***************************************************************************)
EXTENDS Naturals, Sequences, FiniteSets

CONSTANTS
    NumPictures,  \* bound: pictures of one generation
    MaxWorkers    \* bound: generations

Workers == 1..MaxWorkers
NoWorker == 0
Pictures == 1..NumPictures

VARIABLES
    listed,     \* the page has files
    worker,     \* _worker
    byUser,     \* _cancelled_by_user
    images,     \* _generated_images: <<worker, picture>> in order
    shown,      \* what result_list shows
    button,     \* generate_btn: default, loading, success, or a success that is
                \* enabled ("again")
    timer,      \* its timer, which resets it after 'success', runs
    cancelBtn, progress,  \* visible
    run,        \* of each worker: none, running, ended
    told,       \* its _cancelled
    at, results, \* the picture it is at; what it has so far
    signals     \* 'finished' signals on their way to the page

pageVars == <<listed, worker, byUser, images, shown, button, timer, cancelBtn, progress>>
workerVars == <<run, told, at, results, signals>>
vars == <<pageVars, workerVars>>

Image == Workers \X Pictures

TypeOK ==
    /\ listed \in BOOLEAN /\ worker \in {NoWorker} \cup Workers /\ byUser \in BOOLEAN
    /\ images \in Seq(Image) /\ shown \in Seq(Image)
    /\ button \in {"default", "loading", "success", "again"} /\ timer \in BOOLEAN
    /\ cancelBtn \in BOOLEAN /\ progress \in BOOLEAN
    /\ run \in [Workers -> {"none", "running", "ended"}] /\ told \in [Workers -> BOOLEAN]
    /\ at \in [Workers -> 1..(NumPictures + 1)]
    /\ results \in [Workers -> Seq(Image)]
    /\ signals \in Seq(Workers)

Init ==
    /\ listed = FALSE /\ worker = NoWorker /\ byUser = FALSE
    /\ images = <<>> /\ shown = <<>>
    /\ button = "default" /\ timer = FALSE /\ cancelBtn = FALSE /\ progress = FALSE
    /\ run = [w \in Workers |-> "none"] /\ told = [w \in Workers |-> FALSE]
    /\ at = [w \in Workers |-> 1] /\ results = [w \in Workers |-> <<>>]
    /\ signals = <<>>

-----------------------------------------------------------------------------
(* The page. *)

SelectFiles ==
    /\ ~listed /\ listed' = TRUE
    /\ UNCHANGED <<worker, byUser, images, shown, button, timer, cancelBtn, progress,
                   workerVars>>

\* StatefulButton.reset; its timer goes on.
ResetButton == button' = "default" /\ UNCHANGED timer

\* _clear_all, from the button or when the user leaves the page: a worker that
\* runs is not told, and neither it nor the cancel button is forgotten.
ClearAll ==
    /\ listed
    /\ listed' = FALSE /\ images' = <<>> /\ shown' = <<>> /\ progress' = FALSE
    /\ ResetButton
    /\ UNCHANGED <<worker, byUser, cancelBtn, workerVars>>

\* The states of the button in which it can be clicked: set_loading disables it,
\* reset enables it, and set_success leaves that as it is.
Enabled == {"default", "again"}

\* _generate, possible whenever the button is enabled.
Generate ==
    /\ listed /\ button \in Enabled
    /\ \E w \in Workers :
          /\ run[w] = "none" /\ \A v \in 1..(w - 1) : run[v] # "none"
          /\ worker' = w
          /\ run' = [run EXCEPT ![w] = "running"]
    /\ byUser' = FALSE /\ images' = <<>>
    /\ button' = "loading" /\ cancelBtn' = TRUE /\ progress' = TRUE
    /\ UNCHANGED <<listed, shown, timer, told, at, results, signals>>

\* _cancel_generation.
CancelGeneration ==
    /\ cancelBtn
    /\ IF worker # NoWorker
       THEN byUser' = TRUE /\ told' = [told EXCEPT ![worker] = TRUE]
       ELSE UNCHANGED <<byUser, told>>
    /\ worker' = NoWorker /\ cancelBtn' = FALSE /\ progress' = FALSE
    /\ ResetButton
    /\ UNCHANGED <<listed, images, shown, run, at, results, signals>>

\* _on_generation_done, whichever worker the signal is from.
Done ==
    /\ signals # <<>>
    /\ signals' = Tail(signals)
    /\ worker' = NoWorker /\ cancelBtn' = FALSE /\ progress' = FALSE
    /\ IF byUser THEN UNCHANGED <<images, shown, button, timer>>
       ELSE /\ images' = results[Head(signals)] /\ shown' = images'
            /\ button' = (IF button \in Enabled THEN "again" ELSE "success")
            /\ timer' = TRUE
    /\ UNCHANGED <<listed, byUser, run, told, at, results>>

\* The timer of set_success, which set_loading does not stop.
TimerFires ==
    /\ timer
    /\ timer' = FALSE /\ button' = "default"
    /\ UNCHANGED <<listed, worker, byUser, images, shown, cancelBtn, progress,
                   workerVars>>

-----------------------------------------------------------------------------
(* ScanWorker.run. *)

\* One turn of its loop; a picture that cannot be enhanced is passed over.
EnhanceNext(w) ==
    /\ run[w] = "running" /\ ~told[w] /\ at[w] <= NumPictures
    /\ at' = [at EXCEPT ![w] = @ + 1]
    /\ \/ results' = [results EXCEPT ![w] = Append(@, <<w, at[w]>>)]
       \/ UNCHANGED results
    /\ UNCHANGED <<pageVars, run, told, signals>>

EmitFinished(w) ==
    /\ run[w] = "running" /\ (told[w] \/ at[w] > NumPictures)
    /\ run' = [run EXCEPT ![w] = "ended"]
    /\ signals' = Append(signals, w)
    /\ UNCHANGED <<pageVars, told, at, results>>

ScanStep(w) == EnhanceNext(w) \/ EmitFinished(w)

Next ==
    \/ SelectFiles \/ ClearAll \/ Generate \/ CancelGeneration
    \/ Done \/ TimerFires
    \/ \E w \in Workers : ScanStep(w)

Spec == Init /\ [][Next]_vars

-----------------------------------------------------------------------------
(* Properties. *)

\* Once no worker runs and every signal was delivered the page is at rest, in
\* whatever order cancels, clears and generations came: nothing left to cancel,
\* no progress, a button that is not loading.
RestsAtTheEnd ==
    signals = <<>> /\ (\A w \in Workers : run[w] # "running") =>
        worker = NoWorker /\ ~cancelBtn /\ ~progress /\ button # "loading"

\* What can be printed, copied or exported is what the page shows.
KeptIsShown == images # <<>> => shown = images

\* What must not last: a button that is loading; it comes back from there, if
\* only by a late signal.
Loading == button = "loading"
=============================================================================
