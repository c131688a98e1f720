----------------------------- MODULE SetupWizard -----------------------------
(***************************************************************************)
(* The wizard of the first start (src/gui/components/setup_wizard.py) and  *)
(* what the launcher does with its result: six pages built at once from    *)
(* the settings and the printers known at that moment, left by 'finish' or *)
(* 'skip', and the mark wizard_completed.                                  *)
(***************************************************************************)
EXTENDS Naturals, Sequences, SequencesExt

Steps == 0..5
LastStep == 5
Ports == {"5000", "6000"}
Keys == {"old", "new"}
Printers == {"p1", "p2"}
Blank == "blank"  \* the empty text
Forms == [key : Keys, port : Ports, printer : Printers \cup {Blank}]
Fields == [key : Keys, port : Ports \cup {Blank}, printer : Printers \cup {Blank}]

\* config.json: the three settings of a form, and wizard_completed.
Settings == [form : Forms, done : BOOLEAN]
Defaults == [form |-> [key |-> "old", port |-> "5000", printer |-> Blank], done |-> FALSE]

VARIABLES
    mem, file,           \* the settings, in the program and in the file
    empty,               \* the file is empty, whatever it held before
    saving, dump,        \* a save is under way, and what it will write
    changed,             \* the file has changed since the watcher looked
    reading, loading,    \* the watcher has read the settings, not assigned them yet
    phase,               \* of _gui_main
    step, fields, items, \* the wizard: its page, its fields, printer_combo
    whole,               \* history: the last form finished, or what was before
    refused, leaked,     \* history: a finish broke off; the rest was saved later
    cut                  \* history: the last save was killed or failed

watchVars == <<changed, reading, loading>>
saveVars == <<file, empty, saving, dump, cut>>
wizardVars == <<step, fields, items>>
setupVars == <<mem, saveVars, watchVars, phase, wizardVars, whole, refused, leaked>>

TypeOK ==
    /\ mem \in Settings /\ file \in Settings /\ dump \in Settings /\ loading \in Settings
    /\ empty \in BOOLEAN /\ saving \in BOOLEAN /\ changed \in BOOLEAN /\ reading \in BOOLEAN
    /\ phase \in {"start", "wizard", "finish", "mark", "marked", "markSaved", "window"}
    /\ step \in Steps /\ fields \in Fields
    /\ items \in {<<>>, <<"p1">>, <<"p2">>, <<"p1", "p2">>}
    /\ whole \in Forms
    /\ refused \in BOOLEAN /\ leaked \in BOOLEAN /\ cut \in BOOLEAN

Init ==
    /\ mem \in {[Defaults EXCEPT !.form.printer = p] : p \in {Blank, "p2"}}
    /\ file = mem /\ whole = mem.form
    /\ empty = FALSE /\ saving = FALSE /\ dump = Defaults
    /\ changed = FALSE /\ reading = FALSE /\ loading = Defaults
    /\ phase = "start"
    /\ step = 0 /\ fields = whole /\ items = <<>>
    /\ refused = FALSE /\ leaked = FALSE /\ cut = FALSE

-----------------------------------------------------------------------------
(* Config.save.  Saves that overlap are left to module ConfigFile. *)

\* The settings are dumped and the file is emptied ...
BeginSave(s) ==
    /\ ~saving
    /\ saving' = TRUE /\ dump' = s /\ empty' = TRUE
    /\ UNCHANGED <<file, cut>>

\* ... and written ...
Written ==
    /\ saving
    /\ file' = dump /\ empty' = FALSE
    /\ saving' = FALSE /\ dump' = Defaults /\ cut' = FALSE
    /\ changed' = TRUE

\* ... or not: the disk is full.
NotWritten ==
    /\ saving
    /\ saving' = FALSE /\ dump' = Defaults /\ cut' = TRUE
    /\ UNCHANGED <<file, empty, changed>>

\* The watcher, which runs beside the wizard, reads the file; one that is empty
\* it passes over ...
WatcherReads ==
    /\ changed /\ ~empty /\ ~reading
    /\ changed' = FALSE
    /\ reading' = TRUE /\ loading' = file
    /\ UNCHANGED <<mem, saveVars, phase, wizardVars, whole, refused, leaked>>

\* ... and assigns what it has read, as old as that may be by then.
WatcherAssigns ==
    /\ reading
    /\ mem' = loading
    /\ reading' = FALSE /\ loading' = Defaults
    /\ UNCHANGED <<changed, saveVars, phase, wizardVars, whole, refused, leaked>>

-----------------------------------------------------------------------------
\* The combo stands on the default printer, else on its first item.
Chosen(list) ==
    IF mem.form.printer \in ToSet(list) THEN mem.form.printer
    ELSE IF list = <<>> THEN Blank ELSE list[1]

\* The monitor has just been started: it may know no printer yet.
OpenWizard ==
    /\ phase = "start" /\ ~mem.done
    /\ phase' = "wizard" /\ step' = 0
    /\ items' \in {<<>>, <<"p1">>, <<"p2">>, <<"p1", "p2">>}
    /\ fields' = [mem.form EXCEPT !.printer = Chosen(items')]
    /\ UNCHANGED <<mem, saveVars, watchVars, whole, refused, leaked>>

\* The dialog is gone, with what was in it.
Gone == step' = 0 /\ items' = <<>> /\ fields' = whole

OpenWindow ==
    /\ phase = "start" /\ mem.done
    /\ phase' = "window"
    /\ UNCHANGED <<mem, saveVars, watchVars, wizardVars, whole, refused, leaked>>

\* The list of steps on the left, and the two buttons.
GoTo(n) ==
    /\ phase = "wizard" /\ step' = n
    /\ UNCHANGED <<mem, saveVars, watchVars, phase, fields, items, whole, refused, leaked>>

\* The validator of the port lets an unfinished text stand.
FillIn ==
    /\ phase = "wizard"
    /\ \/ step = 1 /\ \E k \in Keys : fields' = [fields EXCEPT !.key = k]
       \/ step = 2 /\ \E p \in Ports \cup {Blank} : fields' = [fields EXCEPT !.port = p]
       \/ step = 4 /\ \E p \in ToSet(items) : fields' = [fields EXCEPT !.printer = p]
    /\ UNCHANGED <<mem, saveVars, watchVars, phase, step, items, whole, refused, leaked>>

\* Mutant: each setting is saved when it is set.
FinishSavingEach ==
    /\ phase = "wizard" /\ step = LastStep
    /\ IF fields.port = Blank
       THEN /\ mem' = [mem EXCEPT !.form.key = fields.key]
            /\ refused' = TRUE
            /\ file' = mem' /\ empty' = FALSE
            /\ UNCHANGED <<phase, whole, leaked, saving, dump, cut>>
       ELSE /\ mem' = [mem EXCEPT !.form = fields] /\ BeginSave(mem')
            /\ whole' = fields /\ refused' = FALSE /\ leaked' = FALSE
            /\ phase' = "finish"
    /\ UNCHANGED <<watchVars, wizardVars>>

\* _save_config: the key is set first; int('') then raises, the rest is not set,
\* nothing is saved and the wizard stays.
Finish ==
    /\ phase = "wizard" /\ step = LastStep
    /\ IF fields.port = Blank
       THEN /\ mem' = [mem EXCEPT !.form.key = fields.key]
            /\ refused' = TRUE
            /\ UNCHANGED <<saveVars, phase, whole, leaked>>
       ELSE /\ mem' = [mem EXCEPT !.form = fields] /\ BeginSave(mem')
            /\ whole' = fields /\ refused' = FALSE /\ leaked' = FALSE
            /\ phase' = "finish"
    /\ UNCHANGED <<watchVars, wizardVars>>

\* accept; or save has raised, and the wizard stays.
FinishSaved ==
    /\ phase = "finish"
    /\ \/ Written /\ phase' = "mark"
       \/ NotWritten /\ phase' = "wizard"
    /\ UNCHANGED <<mem, reading, loading, wizardVars, whole, refused, leaked>>

\* The launcher: wizard_completed ...
MarkCompleted ==
    /\ phase = "mark" /\ phase' = "marked"
    /\ mem' = [mem EXCEPT !.done = TRUE]
    /\ UNCHANGED <<saveVars, watchVars, wizardVars, whole, refused, leaked>>

\* ... and a save of its own, unless the watcher has overwritten the mark with an
\* older one before.
SaveMark ==
    /\ phase = "marked" /\ phase' = "markSaved"
    /\ BeginSave(mem)
    /\ UNCHANGED <<mem, watchVars, wizardVars, whole, refused, leaked>>

\* The window; a save that raises ends the program, like Restart.
MarkSaved ==
    /\ phase = "markSaved" /\ phase' = "window"
    /\ Written /\ Gone
    /\ UNCHANGED <<mem, reading, loading, whole, refused, leaked>>

\* 'skip', or the window's cross on any page.
Skip ==
    /\ phase = "wizard"
    /\ phase' = "window" /\ Gone
    /\ UNCHANGED <<mem, saveVars, watchVars, whole, refused, leaked>>

\* Later some part of the program changes another setting and saves them all;
\* before the window is open no other part saves.
OtherSave ==
    /\ phase = "window"
    /\ BeginSave(mem)
    /\ leaked' = (leaked \/ refused)
    /\ UNCHANGED <<mem, watchVars, phase, wizardVars, whole, refused>>

OtherSaved ==
    /\ phase = "window"
    /\ Written \/ NotWritten
    /\ UNCHANGED <<mem, reading, loading, phase, wizardVars, whole, refused, leaked>>

\* The program ends, at any moment, and is started again: from the file, or from
\* the defaults when that cannot be parsed.
Restart ==
    /\ phase # "start" /\ phase' = "start"
    /\ mem' = (IF empty THEN Defaults ELSE file)
    /\ whole' = (IF empty THEN Defaults.form ELSE whole)
    /\ leaked' = (leaked /\ ~empty) /\ refused' = FALSE
    /\ step' = 0 /\ items' = <<>> /\ fields' = whole'
    /\ saving' = FALSE /\ dump' = Defaults /\ cut' = (cut \/ saving)
    /\ changed' = FALSE /\ reading' = FALSE /\ loading' = Defaults
    /\ UNCHANGED <<file, empty>>

Next ==
    \/ OpenWizard \/ OpenWindow \/ FillIn \/ Finish \/ FinishSaved
    \/ MarkCompleted \/ SaveMark \/ MarkSaved \/ Skip
    \/ OtherSave \/ OtherSaved \/ WatcherReads \/ WatcherAssigns \/ Restart
    \/ \E n \in Steps : GoTo(n)

Spec == Init /\ [][Next]_setupVars

-----------------------------------------------------------------------------
(* Properties. *)

\* Between saves the file never holds half a form: its settings are those of the
\* form that was last finished, or those from before, whenever the program ends;
\* unless the first half of a refused form, which stays in memory when the wizard
\* is then skipped, is saved by another part later.  Once the file says that the
\* wizard was completed it holds the whole form, whatever the watcher has
\* assigned meanwhile.  Only a save that was killed or failed leaves it empty,
\* and then the defaults are what was before.
FormWhole ==
    IF empty THEN saving \/ cut
    ELSE file.form = whole \/ (leaked /\ ~file.done)
=============================================================================
