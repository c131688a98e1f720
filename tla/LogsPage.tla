------------------------------- MODULE LogsPage -------------------------------
(***************************************************************************)
(* The log page of the desktop program (src/gui/pages/logs.py): the list   *)
(* of lines with its limit, the pause that holds lines back, the clear     *)
(* button, the level and source filters that act at once and the search    *)
(* field that acts 300 ms after the last key.                              *)
(***************************************************************************)
EXTENDS Naturals, Sequences

CONSTANTS
    MaxLines,     \* _max_lines: 1000 in the code
    MaxReceived   \* bound: lines the page is given

Levels == {"ERROR", "INFO"}
All == "all"

VARIABLES
    lines,       \* log_list: the number, the level and the hidden flag of each
    paused, buffer,
    filter,      \* level_filter and source_filter, as one choice
    search,      \* search_input, as the one level it would find
    searchWaits, \* _search_timer runs
    received,    \* lines the page was given
    kept         \* history: what it was given and has not cleared, in order

logVars == <<lines, paused, buffer, filter, search, searchWaits, received, kept>>

Line == [n : 1..MaxReceived, level : Levels]

TypeOK ==
    /\ \A i \in DOMAIN lines :
          lines[i] \in [n : 1..MaxReceived, level : Levels, hidden : BOOLEAN]
    /\ Len(lines) <= MaxLines
    /\ paused \in BOOLEAN /\ searchWaits \in BOOLEAN
    /\ buffer \in Seq(Line) /\ kept \in Seq(Line)
    /\ filter \in Levels \cup {All} /\ search \in Levels \cup {All}
    /\ received \in 0..MaxReceived

Shown(line) == [n |-> line.n, level |-> line.level, hidden |-> FALSE]

Longer(list, entries) == list \o [i \in DOMAIN entries |-> Shown(entries[i])]

\* Mutant: the limit is forgotten.
AppendWithoutLimit(list, entries) == Longer(list, entries)

\* _append_line for one entry after the other: each comes unfiltered; over the
\* limit the oldest line goes.
AppendLines(list, entries) ==
    LET longer == Longer(list, entries)
    IN  IF Len(longer) <= MaxLines THEN longer
        ELSE SubSeq(longer, Len(longer) - MaxLines + 1, Len(longer))

\* _load_history: what the log files hold when the page is made, oldest first;
\* nothing is paused yet.
Init ==
    \E history \in UNION {[1..k -> Levels] : k \in 0..(MaxReceived - 1)} :
        LET entries == [i \in DOMAIN history |-> [n |-> i, level |-> history[i]]]
        IN  /\ received = Len(history)
            /\ lines = AppendLines(<<>>, entries)
            /\ kept = entries
            /\ paused = FALSE /\ buffer = <<>>
            /\ filter = All /\ search = All /\ searchWaits = FALSE

\* on_log
OnLog(level) ==
    /\ received < MaxReceived
    /\ received' = received + 1
    /\ LET line == [n |-> received + 1, level |-> level]
       IN  /\ kept' = Append(kept, line)
           /\ IF paused
              THEN buffer' = Append(buffer, line) /\ UNCHANGED lines
              ELSE lines' = AppendLines(lines, <<line>>) /\ UNCHANGED buffer
    /\ UNCHANGED <<paused, filter, search, searchWaits>>

\* _toggle_pause: on resuming the held lines come, in their order.
TogglePause ==
    /\ paused' = ~paused
    /\ lines' = IF paused THEN AppendLines(lines, buffer) ELSE lines
    /\ buffer' = IF paused THEN <<>> ELSE buffer
    /\ UNCHANGED <<filter, search, searchWaits, received, kept>>

\* clear_btn empties the list alone; what the pause holds back comes later.
Clear ==
    /\ lines' = <<>> /\ kept' = buffer
    /\ UNCHANGED <<paused, buffer, filter, search, searchWaits, received>>

Matches(level, f, s) == (f = All \/ level = f) /\ (s = All \/ level = s)

\* _apply_filters sets the flag of every line.
ApplyFilters(f, s) ==
    lines' = [i \in DOMAIN lines |->
                 [lines[i] EXCEPT !.hidden = ~Matches(lines[i].level, f, s)]]

ChangeFilter(f) ==
    /\ filter' = f /\ ApplyFilters(f, search)
    /\ UNCHANGED <<paused, buffer, search, searchWaits, received, kept>>

TypeSearch(s) ==
    /\ search' = s /\ searchWaits' = TRUE
    /\ UNCHANGED <<lines, paused, buffer, filter, received, kept>>

SearchTimeout ==
    /\ searchWaits /\ searchWaits' = FALSE
    /\ ApplyFilters(filter, search)
    /\ UNCHANGED <<paused, buffer, filter, search, received, kept>>

Next ==
    \/ \E l \in Levels : OnLog(l)
    \/ TogglePause \/ Clear \/ SearchTimeout
    \/ \E f \in Levels \cup {All} : ChangeFilter(f) \/ TypeSearch(f)

Spec == Init /\ [][Next]_logVars

-----------------------------------------------------------------------------
(* Properties. *)

\* Pausing loses nothing and changes no order: the list holds the last lines,
\* up to the limit, of what came since the last clear and is not held back.
ShowsTheLast ==
    LET through == Len(kept) - Len(buffer)
        first == IF through > MaxLines THEN through - MaxLines ELSE 0
    IN  /\ SubSeq(kept, through + 1, Len(kept)) = buffer
        /\ [i \in DOMAIN lines |-> lines[i].n]
              = [i \in 1..(through - first) |-> kept[first + i].n]

\* A line that is hidden does not match what the filters and the field say,
\* once the search timer has fired, whatever was chosen before.  (The other
\* way round it is false: a line that comes later is shown unfiltered.)
HiddenForCause ==
    ~searchWaits =>
        \A i \in DOMAIN lines :
            lines[i].hidden => ~Matches(lines[i].level, filter, search)
=============================================================================
