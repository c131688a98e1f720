------------------------------ MODULE ImageBatch ------------------------------
(***************************************************************************)
(* POST /print/images: the pictures of one request are saved, enhanced by  *)
(* a remote service, merged into one PDF, and the PDF becomes one job      *)
(* (src/app/routes/api.py, image_merger.py, image_processing.py).          *)
(***************************************************************************)
EXTENDS Naturals, Sequences

CONSTANTS
    MaxFiles,      \* bound: files of one request
    MaxDiskFaults  \* bound: writes and deletions that fail outside any handler

Files == 1..MaxFiles

VARIABLES
    offered,   \* which files have the extension of a picture, in order
    pc, i,
    saved,     \* uploaded pictures on disk
    paths,     \* saved_paths: what is enhanced, in order
    enhanced,  \* their enhanced copies on disk
    list,      \* enhanced_paths: what the merge reads, in order
    pdf,       \* the temporary PDF: its pages, none before there is one
    row,       \* the job was added
    answer,
    diskFaults

vars == <<offered, pc, i, saved, paths, enhanced, list, pdf, row, answer, diskFaults>>

NoPdf == <<>>
Versions == {"raw", "enhanced"}

TypeOK ==
    /\ offered \in [Files -> BOOLEAN]
    /\ pc \in {"save", "enhance", "merge", "clean", "add", "end"}
    /\ i \in 1..(MaxFiles + 1)
    /\ saved \subseteq Files /\ enhanced \subseteq Files
    /\ paths \in Seq(Files)
    /\ list \in Seq(Files \X Versions) /\ pdf \in Seq(Files \X Versions)
    /\ row \in BOOLEAN
    /\ answer \in {0, 200, 400, 500}
    /\ diskFaults \in 0..MaxDiskFaults

Init ==
    /\ offered \in [Files -> BOOLEAN]
    /\ pc = "save" /\ i = 1
    /\ saved = {} /\ paths = <<>> /\ enhanced = {} /\ list = <<>> /\ pdf = NoPdf
    /\ row = FALSE /\ answer = 0 /\ diskFaults = 0

Reply(code) == pc' = "end" /\ answer' = code

\* An exception no handler expects: status 500, and everything stays.
DiskFault ==
    /\ diskFaults < MaxDiskFaults
    /\ diskFaults' = diskFaults + 1
    /\ Reply(500)

\* One turn of the loop that saves; files of other types are passed over.
Save ==
    /\ pc = "save" /\ i <= MaxFiles
    /\ \/ /\ offered[i]
          /\ saved' = saved \cup {i} /\ paths' = Append(paths, i)
          /\ i' = i + 1 /\ UNCHANGED <<pc, answer, diskFaults>>
       \/ /\ offered[i] /\ DiskFault
          /\ saved' = saved \cup {i}
          /\ UNCHANGED <<i, paths>>
       \/ /\ ~offered[i]
          /\ i' = i + 1 /\ UNCHANGED <<pc, saved, paths, answer, diskFaults>>
    /\ UNCHANGED <<offered, enhanced, list, pdf, row>>

SavesDone ==
    /\ pc = "save" /\ i > MaxFiles
    /\ IF paths = <<>> THEN Reply(400) /\ UNCHANGED i
       ELSE pc' = "enhance" /\ i' = 1 /\ UNCHANGED answer
    /\ UNCHANGED <<offered, saved, paths, enhanced, list, pdf, row, diskFaults>>

\* QuarkEnhancer.enhance returns a picture or, when there is no key, the format
\* or the size is not taken, or the service fails, none.
EnhanceOutcomes == {"picture", "none"}

\* Mutant: the loop takes every second picture.
EnhanceEverySecond ==
    /\ pc = "enhance" /\ i <= Len(paths)
    /\ i' = i + 2
    /\ \/ /\ list' = Append(list, <<paths[i], "enhanced">>)
          /\ enhanced' = enhanced \cup {paths[i]}
       \/ /\ list' = Append(list, <<paths[i], "raw">>)
          /\ UNCHANGED enhanced
    /\ UNCHANGED <<offered, pc, saved, paths, pdf, row, answer, diskFaults>>

\* One turn of the loop that enhances; a copy that cannot be written may be left
\* on disk in part and is not used.
Enhance ==
    /\ pc = "enhance" /\ i <= Len(paths)
    /\ i' = i + 1
    /\ \E outcome \in EnhanceOutcomes :
          IF outcome = "picture"
          THEN \/ /\ list' = Append(list, <<paths[i], "enhanced">>)
                  /\ enhanced' = enhanced \cup {paths[i]}
                  /\ UNCHANGED diskFaults
               \/ /\ diskFaults < MaxDiskFaults /\ diskFaults' = diskFaults + 1
                  /\ list' = Append(list, <<paths[i], "raw">>)
                  /\ enhanced' = enhanced \cup {paths[i]}
          ELSE /\ list' = Append(list, <<paths[i], "raw">>)
               /\ UNCHANGED <<enhanced, diskFaults>>
    /\ UNCHANGED <<offered, pc, saved, paths, pdf, row, answer>>

EnhanceDone ==
    /\ pc = "enhance" /\ i > Len(paths)
    /\ pc' = "merge"
    /\ UNCHANGED <<offered, i, saved, paths, enhanced, list, pdf, row, answer, diskFaults>>

\* What unlinking enhanced_paths and saved_paths leaves of the copies.
Unlisted == enhanced \ {list[n][1] : n \in {m \in 1..Len(list) : list[m][2] = "enhanced"}}

\* merge_images_to_pdf: a page for each picture in order; if it cannot be made,
\* its file is removed.
MergedPages == list

\* Mutant: when the merge fails only the list is cleared.
MergeLeavesSaved ==
    /\ pc = "merge"
    /\ \/ /\ pdf' = MergedPages /\ pc' = "clean"
          /\ UNCHANGED <<saved, enhanced, answer>>
       \/ /\ enhanced' = Unlisted
          /\ Reply(500)
          /\ UNCHANGED <<saved, pdf>>
    /\ UNCHANGED <<offered, i, paths, list, row, diskFaults>>

Merge ==
    /\ pc = "merge"
    /\ \/ /\ pdf' = MergedPages /\ pc' = "clean"
          /\ UNCHANGED <<saved, enhanced, answer>>
       \/ /\ enhanced' = Unlisted /\ saved' = {}
          /\ Reply(500)
          /\ UNCHANGED pdf
    /\ UNCHANGED <<offered, i, paths, list, row, diskFaults>>

\* The deletions after the merge; one that fails leaves the PDF as well.
Clean ==
    /\ pc = "clean"
    /\ \/ /\ enhanced' = Unlisted /\ saved' = {}
          /\ pc' = "add"
          /\ UNCHANGED <<answer, diskFaults>>
       \/ DiskFault /\ UNCHANGED <<enhanced, saved>>
    /\ UNCHANGED <<offered, i, paths, list, pdf, row>>

\* add_job; if it fails the PDF is removed.
Add ==
    /\ pc = "add"
    /\ \/ row' = TRUE /\ Reply(200) /\ UNCHANGED pdf
       \/ pdf' = NoPdf /\ Reply(500) /\ UNCHANGED row
    /\ UNCHANGED <<offered, i, saved, paths, enhanced, list, diskFaults>>

Next == Save \/ SavesDone \/ Enhance \/ EnhanceDone \/ Merge \/ Clean \/ Add

Spec == Init /\ [][Next]_vars

-----------------------------------------------------------------------------
(* Properties. *)

\* Whatever fails of the remote service, the merge or the queue, the request
\* leaves nothing on disk but the PDF of the job it reports.
NothingLeftBehind ==
    pc = "end" /\ diskFaults = 0 =>
        /\ saved = {} /\ enhanced = {}
        /\ (pdf # NoPdf) = row /\ row = (answer = 200)

\* The job prints every picture of the request, once, in the order submitted.
PagesInOrder ==
    row =>
        /\ pdf # <<>>
        /\ \A n \in 1..Len(pdf) : offered[pdf[n][1]]
        /\ \A f \in Files : offered[f] => \E n \in 1..Len(pdf) : pdf[n][1] = f
        /\ \A m, n \in 1..Len(pdf) : m < n => pdf[m][1] < pdf[n][1]
=============================================================================
