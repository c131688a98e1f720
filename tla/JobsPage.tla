------------------------------- MODULE JobsPage -------------------------------
(***************************************************************************)
(* The history table of the job page (src/gui/pages/job_manager.py) and    *)
(* GET /api/jobs: pages of a fixed size, newest job first, cut out of a    *)
(* table other threads change between one page and the next.               *)
(***************************************************************************)
EXTENDS Naturals, FiniteSets

CONSTANTS
    MaxJobs,   \* bound: jobs added; the ids are in the order of creation
    PageSize   \* _page_size: 20 in the code

Ids == 1..MaxJobs
Rows == {"queued", "printing", "completed", "failed"}
Filters == {"all", "completed", "failed", "cancelled"}

VARIABLES
    status,   \* the row of each job, or "none"
    page, filter,
    shown,    \* the rows of history_model, which has them newest first
    behind,   \* a job_status event is on its way to the page
    seen,     \* history: shown since the first page was
    newcomers \* history: jobs added since then

tableVars == <<page, filter, shown, behind, seen, newcomers>>
jobsVars == <<status, tableVars>>

TypeOK ==
    /\ status \in [Ids -> Rows \cup {"none", "deleted"}]
    /\ page \in Nat /\ filter \in Filters
    /\ shown \subseteq Ids /\ Cardinality(shown) <= PageSize
    /\ behind \in BOOLEAN
    /\ seen \subseteq Ids /\ newcomers \subseteq Ids

\* get_jobs: WHERE status = ?.  _STATUS_MAP asks for 'cancelled', which is no
\* status of a row.
Listed(f) == {j \in Ids : status[j] \in (IF f = "all" THEN Rows ELSE {f})}

\* Mutant: ORDER BY created_at, the oldest first.
RankOldestFirst(f, j) == Cardinality({i \in Listed(f) : i <= j})

\* ORDER BY created_at DESC: the place of a row.
Rank(f, j) == Cardinality({i \in Listed(f) : i >= j})

\* LIMIT ? OFFSET ?
PageOf(f, p) ==
    {j \in Listed(f) : p * PageSize < Rank(f, j) /\ Rank(f, j) <= (p + 1) * PageSize}

\* _refresh, with the page and the filter as they are now.
Refresh(p, f) ==
    /\ page' = p /\ filter' = f
    /\ shown' = PageOf(f, p)

Look(p, f) == Refresh(p, f) /\ seen' = seen \cup shown'

Init ==
    /\ status \in {[j \in Ids |-> IF j <= n THEN "completed" ELSE "none"] : n \in 0..(MaxJobs - 1)}
    /\ page = 0 /\ filter = "all"
    /\ shown = {} /\ behind = FALSE  \* nothing is listed before the first event
    /\ seen = {} /\ newcomers = Ids  \* no first page yet

\* A filter starts again with the first page.
FilterChanged(f) ==
    /\ Refresh(0, f)
    /\ seen' = shown' /\ newcomers' = {}
    /\ UNCHANGED <<status, behind>>

PrevPage ==
    /\ page > 0 /\ Look(page - 1, filter)
    /\ UNCHANGED <<status, behind, newcomers>>

\* Nothing stops the button at the last page; the bound is one page beyond.
NextPage ==
    /\ page * PageSize <= MaxJobs
    /\ Look(page + 1, filter)
    /\ UNCHANGED <<status, behind, newcomers>>

\* on_job_status, whichever job it is about.
OnJobStatus ==
    /\ behind /\ behind' = FALSE
    /\ Look(page, filter)
    /\ UNCHANGED <<status, newcomers>>

-----------------------------------------------------------------------------
(* The repository, changed by the queue's threads (module JobQueue). *)

\* add_job: no event.
AddJob(j) ==
    /\ status[j] = "none" /\ \A i \in Ids : i < j => status[i] # "none"
    /\ status' = [status EXCEPT ![j] = "queued"]
    /\ newcomers' = newcomers \cup {j}
    /\ UNCHANGED <<page, filter, shown, behind, seen>>

\* A row may come back from 'failed': an automatic retry, or a print that was
\* cancelled too late.
Moves == {<<"queued", "printing">>, <<"queued", "failed">>, <<"printing", "completed">>,
          <<"printing", "failed">>, <<"failed", "completed">>, <<"failed", "queued">>,
          <<"failed", "printing">>, <<"printing", "queued">>}

\* The moves to 'queued', of a retry and of the heartbeat's recovery, publish
\* nothing; an event that is lost leaves the table as it is.
MoveRow(j) ==
    /\ \E s \in Rows :
          /\ <<status[j], s>> \in Moves
          /\ status' = [status EXCEPT ![j] = s]
          /\ behind' \in {behind, behind \/ s # "queued"}
    /\ UNCHANGED <<page, filter, shown, seen, newcomers>>

\* cleanup_old_jobs: every row created before the limit, whatever its status.
CleanupOldJobs(limit) ==
    /\ status' = [j \in Ids |-> IF j < limit /\ j \in Listed("all") THEN "deleted" ELSE status[j]]
    /\ UNCHANGED tableVars

Next ==
    \/ PrevPage \/ NextPage \/ OnJobStatus
    \/ \E f \in Filters : FilterChanged(f)
    \/ \E j \in Ids : AddJob(j) \/ MoveRow(j) \/ CleanupOldJobs(j)

Spec == Init /\ [][Next]_jobsVars

-----------------------------------------------------------------------------
(* Properties. *)

\* Who goes through the pages of all jobs, forward or back, misses none, though
\* jobs come, are retried and are deleted meanwhile: what the pages up to this
\* one hold has been shown, or came since the first page was.  (With a status
\* filter it is false: a row that leaves the list moves those after it up.)
WalkMissesNothing ==
    filter = "all" =>
        \A j \in Listed("all") :
            Rank("all", j) <= (page + 1) * PageSize => j \in seen \cup newcomers
=============================================================================
