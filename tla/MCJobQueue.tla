----------------------------- MODULE MCJobQueue -----------------------------
(* Small instances of JobQueue for TLC. *)
EXTENDS JobQueue, TLC

JobsAndWorkers == Permutations(Jobs) \cup Permutations(Workers)

AllSymmetry == JobsAndWorkers \cup Permutations(Clients) \cup Permutations(Slots)

\* The state without its history, for properties that do not speak of it: no
\* guard reads the history.
NoHistory ==
    <<dbVars, age, fileVars, memVars, stop, workerVars, poolVars, clientVars,
      beatVars, budgetVars>>
=============================================================================
