----------------------------- MODULE ConfigFile -----------------------------
(***************************************************************************)
(* Config (src/app/core/config.py): the settings in memory and in          *)
(* config.json, changed by a handler of the API, by the settings page and  *)
(* by an editor, with a watcher thread that loads the file again after     *)
(* every change.  set and set_many hold a lock; save, reload and get do    *)
(* not.                                                                    *)
(*                                                                         *)
(* A value is the number of the change it came with, so that an older one  *)
(* can be told from the current one; 0 is the value of the first boot, the *)
(* default or the environment's.                                           *)
(***************************************************************************)
EXTENDS Naturals, FiniteSets

CONSTANTS
    Keys,        \* settings
    MaxChanges,  \* bound: changes by anybody
    MaxCrashes   \* bound: the process dies and boots again

Writers == {"api", "page", "watcher"}
Settings == [Keys -> 0..MaxChanges]

VARIABLES
    env,         \* settings that environment variables give
    mem,         \* the fields of the Config object
    file,        \* the settings in config.json, and whether it can be
    damage,      \* parsed: "none", or "empty", "torn" or "gone"
    pc, data,    \* of each writer: where it is, what it is about to write
    form,        \* the fields of the settings page
    wpc,         \* the watcher, and what it has read and not assigned yet;
    loading,     \* an exception ends it for good
    changed,     \* the directory has changed since the watcher was told
    changes, crashes,
    latest,      \* history: the last accepted value of each setting
    excused,     \* history: settings a race may have cost
    cut          \* history: two saves overlapped or one was killed

watchVars == <<wpc, loading, changed>>
histVars == <<latest, excused, cut>>
vars == <<env, mem, file, damage, pc, data, form, watchVars, changes, crashes, histVars>>

TypeOK ==
    /\ env \subseteq Keys
    /\ mem \in Settings
    /\ file \in Settings /\ damage \in {"none", "empty", "torn", "gone"}
    /\ pc \in [Writers -> {"idle", "dump", "open", "write"}]
    /\ data \in [Writers -> Settings]
    /\ form \in Settings
    /\ wpc \in {"idle", "reload", "dead"} /\ changed \in BOOLEAN
    /\ loading \in UNION {[K -> 0..MaxChanges] : K \in SUBSET Keys}
    /\ changes \in 0..MaxChanges /\ crashes \in 0..MaxCrashes
    /\ latest \in Settings /\ excused \subseteq Keys /\ cut \in BOOLEAN

Default == [k \in Keys |-> 0]

Init ==
    /\ env \in SUBSET Keys
    /\ mem = Default /\ file = Default /\ damage = "none"
    /\ pc = [w \in Writers |-> "idle"]
    /\ data = [w \in Writers |-> Default]
    /\ form = Default
    /\ wpc = "idle" /\ loading = Default /\ changed = FALSE
    /\ changes = 0 /\ crashes = 0
    /\ latest = Default /\ excused = {} /\ cut = FALSE

-----------------------------------------------------------------------------
Whole == damage = "none"
Saving == \E w \in Writers : pc[w] # "idle"
Quiet == ~Saving /\ wpc = "idle" /\ ~changed

\* The change of k is accepted while nothing else goes on, or at its own risk
\* and that of the others.  The settings in lost are overwritten by the way.
Accept(k, lost) ==
    /\ changes < MaxChanges
    /\ changes' = changes + 1
    /\ latest' = [latest EXCEPT ![k] = changes']
    /\ excused' = IF Saving \/ wpc = "reload" THEN Keys
                  ELSE (excused \ {k}) \cup lost

\* What an editor wrote and the watcher has not loaded is lost in the next save,
\* but for the setting that is set.
NotLoaded(k) == IF Whole THEN {j \in Keys \ {k} : file[j] # mem[j]} ELSE {}

\* Mutant: the handler does not save.
SetUnsaved(k) ==
    /\ pc["api"] = "idle"
    /\ Accept(k, NotLoaded(k))
    /\ mem' = [mem EXCEPT ![k] = changes']
    /\ UNCHANGED <<env, file, damage, pc, data, form, watchVars, crashes, cut>>

\* set_default_printer, the theme switch, the end of the wizard: one setting.
SetOne(k) ==
    /\ pc["api"] = "idle"
    /\ Accept(k, NotLoaded(k))
    /\ mem' = [mem EXCEPT ![k] = changes']
    /\ pc' = [pc EXCEPT !["api"] = "dump"]
    /\ UNCHANGED <<env, file, damage, data, form, watchVars, crashes, cut>>

\* The settings page fills its fields when it is built ...
LoadForm ==
    /\ pc["page"] = "idle"
    /\ form' = mem
    /\ UNCHANGED <<env, mem, file, damage, pc, data, watchVars, changes, crashes, histVars>>

\* ... and sets all of them by set_many, those the user has not touched too.
SavePage(k) ==
    /\ pc["page"] = "idle"
    /\ Accept(k, NotLoaded(k) \cup {j \in Keys \ {k} : form[j] # mem[j]})
    /\ form' = [form EXCEPT ![k] = changes']
    /\ mem' = form'
    /\ pc' = [pc EXCEPT !["page"] = "dump"]
    /\ UNCHANGED <<env, file, damage, data, watchVars, crashes, cut>>

\* save: the fields are dumped ...
Dump(w) ==
    /\ pc[w] = "dump"
    /\ data' = [data EXCEPT ![w] = mem]
    /\ pc' = [pc EXCEPT ![w] = "open"]
    /\ UNCHANGED <<env, mem, file, damage, form, watchVars, changes, crashes, histVars>>

\* ... the file is emptied ...
Open(w) ==
    /\ pc[w] = "open"
    /\ damage' = "empty" /\ changed' = TRUE
    /\ cut' = \E v \in Writers : pc[v] = "write"
    /\ pc' = [pc EXCEPT ![w] = "write"]
    /\ UNCHANGED <<env, mem, file, data, form, wpc, loading, changes, crashes, latest,
                   excused>>

\* ... and written; of a longer text written in the meantime the end is left.
Write(w) ==
    /\ pc[w] = "write"
    /\ file' = data[w]
    /\ damage' \in {"none"} \cup
           (IF damage = "empty" \/ (Whole /\ file = data[w]) THEN {} ELSE {"torn"})
    /\ data' = [data EXCEPT ![w] = Default]
    /\ changed' = TRUE
    /\ pc' = [pc EXCEPT ![w] = "idle"]
    /\ UNCHANGED <<env, mem, form, wpc, loading, changes, crashes, histVars>>

\* Somebody edits config.json; what the environment gives it does not change.
Edit(k) ==
    /\ Whole
    /\ Accept(k, {k} \cap env)
    /\ file' = [file EXCEPT ![k] = changes']
    /\ changed' = TRUE
    /\ UNCHANGED <<env, mem, damage, pc, data, form, wpc, loading, crashes, cut>>

\* Somebody removes it, as no program can that has it open on Windows.
Remove ==
    /\ Whole /\ changes < MaxChanges
    /\ \A w \in Writers : pc[w] # "write"
    /\ changes' = changes + 1
    /\ damage' = "gone" /\ changed' = TRUE
    /\ excused' = excused \cup {k \in Keys : file[k] # mem[k]}
    /\ UNCHANGED <<env, mem, file, pc, data, form, wpc, loading, crashes, latest, cut>>

-----------------------------------------------------------------------------
\* The watcher reads the file; one that cannot be parsed leaves the settings
\* as they are, and without one it saves them itself.
Reload ==
    /\ wpc = "idle" /\ pc["watcher"] = "idle" /\ changed
    /\ changed' = FALSE
    /\ IF Whole
       THEN /\ wpc' = "reload"
            /\ loading' = file
       ELSE UNCHANGED <<wpc, loading>>
    /\ excused' = IF Saving /\ damage \in {"none", "gone"} THEN Keys ELSE excused
    /\ pc' = [pc EXCEPT !["watcher"] = IF damage = "gone" THEN "dump" ELSE @]
    /\ UNCHANGED <<env, mem, file, damage, data, form, changes, crashes, latest, cut>>

\* Any other exception, of a file that cannot be opened or decoded or holds no
\* object, ends the watcher.
WatcherDies ==
    /\ wpc = "idle" /\ pc["watcher"] = "idle" /\ changed
    /\ wpc' = "dead"
    /\ UNCHANGED <<env, mem, file, damage, pc, data, form, loading, changed, changes,
                   crashes, histVars>>

\* ... and assigns the fields one after the other, but those of the environment.
LoadKey(k) ==
    /\ wpc = "reload"
    /\ k \in DOMAIN loading
    /\ mem' = IF k \in env THEN mem ELSE [mem EXCEPT ![k] = loading[k]]
    /\ LET rest == DOMAIN loading \ {k} IN
          IF rest = {}
          THEN wpc' = "idle" /\ loading' = Default
          ELSE wpc' = wpc /\ loading' = [j \in rest |-> loading[j]]
    /\ UNCHANGED <<env, file, damage, pc, data, form, changed, changes, crashes, histVars>>

\* The process dies and boots: the environment, then the file, or defaults if
\* that cannot be parsed; defaults are saved if there is none, before any other
\* thread runs.
Crash ==
    /\ crashes < MaxCrashes
    /\ crashes' = crashes + 1
    /\ mem' = [k \in Keys |-> IF Whole /\ k \notin env THEN file[k] ELSE 0]
    /\ form' = mem'
    /\ IF damage = "gone" THEN file' = mem' /\ damage' = "none"
                          ELSE UNCHANGED <<file, damage>>
    /\ pc' = [w \in Writers |-> "idle"] /\ data' = [w \in Writers |-> Default]
    /\ wpc' = "idle" /\ loading' = Default /\ changed' = FALSE
    /\ cut' = (cut \/ Saving)
    /\ excused' = IF Saving \/ ~Whole THEN Keys ELSE excused \cup env
    /\ UNCHANGED <<env, changes, latest>>

WriterStep(w) == Dump(w) \/ Open(w) \/ Write(w)

Next ==
    \/ \E k \in Keys : SetOne(k) \/ SavePage(k) \/ Edit(k) \/ LoadKey(k)
    \/ LoadForm
    \/ \E w \in Writers : WriterStep(w)
    \/ Remove \/ Reload \/ WatcherDies
    \/ Crash

Spec == Init /\ [][Next]_vars

-----------------------------------------------------------------------------
(* Properties. *)

\* When nobody is saving, config.json can be parsed if it is there, unless two
\* saves have overlapped or the process died in one (save empties it first).
FileWhole == ~Saving /\ ~cut => Whole \/ damage = "gone"

\* When everything has settled and the watcher lives, the program works with
\* what is in the file, in whatever order saves, edits, removals and reloads
\* came, but for what the environment gives.
MemoryIsFile == Quiet /\ Whole => \A k \in Keys \ env : mem[k] = file[k]

\* A setting that was accepted is kept, here and in the file, until somebody
\* changes it; only a save or a reload at the same time, a settings page that
\* was filled before, an edit not loaded yet, the environment or a watcher that
\* has died may cost it.
SettingKept == Quiet => \A k \in Keys \ excused : mem[k] = latest[k]
=============================================================================
