---------------------------- MODULE JobLifecycle ----------------------------
(***************************************************************************)
(* What the job queue promises about a job, without threads, queues or     *)
(* marks: the service takes charge of a job when it is added, moves its    *)
(* row forward while in charge, never back to 'queued', and lets go of it  *)
(* only when the row is final.  After that the row does not change.        *)
(***************************************************************************)
CONSTANT Jobs

VARIABLES
    row,     \* the status a client can read
    charge   \* the jobs the service still has to do something about

lifeVars == <<row, charge>>

Final == {"completed", "failed"}

LifeInit ==
    /\ row = [j \in Jobs |-> "none"]
    /\ charge = {}

Accept(j) ==
    /\ row[j] = "none"
    /\ row' = [row EXCEPT ![j] = "queued"]
    /\ charge' = charge \cup {j}

\* A late cancel may turn 'completed' into 'failed', and a print that was
\* cancelled too late may still complete; a job is not queued twice.
Forward == {<<"queued", "printing">>, <<"queued", "failed">>,
            <<"printing", "completed">>, <<"printing", "failed">>,
            <<"failed", "printing">>, <<"failed", "completed">>,
            <<"completed", "failed">>}

Work ==
    /\ charge' \subseteq charge
    /\ row' \in [Jobs -> {"none", "queued", "printing"} \cup Final]
    /\ \A j \in Jobs :
          /\ row'[j] # row[j] => j \in charge /\ <<row[j], row'[j]>> \in Forward
          /\ j \in charge \ charge' => row'[j] \in Final

LifeNext == Work \/ \E j \in Jobs : Accept(j)

LifeSpec == LifeInit /\ [][LifeNext]_lifeVars
=============================================================================
