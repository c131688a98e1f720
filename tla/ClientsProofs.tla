---------------------------- MODULE ClientsProofs ----------------------------
(***************************************************************************)
(* Safety of the components MCClients puts side by side, for any number of *)
(* files, uploads, pictures, jobs, lines and pages.                        *)
(***************************************************************************)
EXTENDS MCClients, FiniteSetTheorems, SequenceTheorems, WellFoundedInduction, TLAPS

\* A function on 1..n is a sequence of length n.
LEMMA Sequence ==
  ASSUME NEW S, NEW n \in Nat, NEW f \in [1..n -> S]
  PROVE  f \in Seq(S) /\ Len(f) = n
<1>1. f \in UNION {[1..k -> S] : k \in Nat}
  OBVIOUS
<1>2. f \in Seq(S)
  BY <1>1, SeqDef, Zenon
<1>3. DOMAIN f = 1..n /\ DOMAIN f = 1..Len(f) /\ Len(f) \in Nat
  BY <1>2, LenProperties
<1> QED BY <1>2, <1>3

-----------------------------------------------------------------------------
(* The phone's script. *)

\* While it uploads the script has told nothing, and nothing has come of the
\* jobs; afterwards no upload is under way.
Uploading ==
    /\ phase = "upload" =>
          /\ notes = <<>> /\ had = {} /\ ws = "none"
          /\ \A f \in Phone!Files : job[f] \notin Phone!Terminal
    /\ phase # "upload" => \A u \in Uploaders : upc[u] = "out"
    /\ phase \in {"upload", "choose"} =>
          statuses = [f \in Phone!Files |-> "none"] /\ ws = "none" /\ inbox = <<>> /\ ~finished
    /\ ws = "opening" => inbox = <<>> /\ \A f \in jobs : statuses[f] \notin Phone!Terminal

\* Who has a request under way has a file for it, and nobody has begun more
\* uploads after the cancel than there are files left.
Requests ==
    /\ \A u \in Uploaders : upc[u] \in {"sent", "answered"} => file[u] \in Phone!Files
    /\ \A u \in Uploaders : startedLate[u] + Len(queue) <= NumFiles
    /\ lost \in Nat /\ evalFails \in Nat

\* An upload that was begun after the cancel will ask the page and be told.
CancelSeen ==
    /\ ~c_ => \A u \in Uploaders : startedLate[u] = 0
    /\ evalFails = 0 =>
          \A u \in Uploaders :
              \/ startedLate[u] = 0
              \/ /\ startedLate[u] = 1
                 /\ upc[u] \in {"sent", "answered", "ask", "asked", "out"}
                 /\ upc[u] = "asked" => seen[u]

\* The final rows the script knows of, or will hear of, are rows there were.
Heard ==
    /\ \A f \in jobs : job[f] \in Phone!Terminal => <<f, job[f]>> \in had
    /\ \A n \in 1..Len(inbox) : inbox[n][2] \in Phone!Terminal => inbox[n] \in had
    /\ \A f \in jobs : statuses[f] \in Phone!Terminal => <<f, statuses[f]>> \in had

\* After a final row come only final rows: those the script believes, then those
\* of the events under way, then the server's; but for jobs whose final row was
\* written over.  Once all was done, every job has had a final row.
Forward ==
    /\ \A f \in jobs \ late : statuses[f] \in Phone!Terminal => job[f] \in Phone!Terminal
    /\ \A n \in 1..Len(inbox) :
          /\ inbox[n][1] \in jobs
          /\ inbox[n][1] \notin late =>
                /\ statuses[inbox[n][1]] \in Phone!Terminal => inbox[n][2] \in Phone!Terminal
                /\ inbox[n][2] \in Phone!Terminal => job[inbox[n][1]] \in Phone!Terminal
                /\ \A m \in 1..n : inbox[m][1] = inbox[n][1] /\ inbox[m][2] \in Phone!Terminal
                      => inbox[n][2] \in Phone!Terminal
    /\ finished =>
          \A f \in jobs :
              /\ f \in late \/ statuses[f] \in Phone!Terminal
              /\ \E st \in Phone!Terminal : <<f, st>> \in had

\* UserTold.
Told == phase = "over" /\ jobs # {} => notes # <<>>

PhoneInv ==
    /\ Phone!TypeOK
    /\ Uploading /\ Requests /\ CancelSeen /\ Heard /\ Forward /\ Told
    /\ Phone!ResultTrue

\* The script has taken nothing yet.
LEMMA PhoneInit == Phone!Init => PhoneInv
<1> SUFFICES ASSUME Phone!Init PROVE PhoneInv
  OBVIOUS
<1> USE ClientConstants
<1>1. queue \in Seq(Phone!Files) /\ Len(queue) = NumFiles
  BY Sequence DEF Phone!Init, Phone!Files
<1>2. /\ inbox = <<>> /\ notes = <<>> /\ Len(inbox) = 0 /\ Len(notes) = 0
      /\ inbox \in Seq(Phone!Files \X Phone!Rows)
      /\ notes \in Seq({"uploaded", "waiting", "completed", "partial", "failed"})
  BY EmptySeq DEF Phone!Init
<1>3. statuses \in [Phone!Files -> Phone!Rows] /\ job \in [Phone!Files -> Phone!Rows]
  BY DEF Phone!Init, Phone!Rows
<1>4. startedLate \in [Uploaders -> 0..NumFiles] /\ file \in [Uploaders -> Phone!Files \cup {Phone!NoFile}]
  BY DEF Phone!Init
<1>5. Phone!TypeOK
  BY <1>1, <1>2, <1>3, <1>4 DEF Phone!Init, Phone!TypeOK
<1>6. Uploading /\ Told
  BY DEF Phone!Init, Uploading, Told, Phone!Terminal
<1>7. Requests /\ CancelSeen
  BY <1>1 DEF Phone!Init, Requests, CancelSeen
<1>8. Heard /\ Forward /\ Phone!ResultTrue
  BY <1>2 DEF Phone!Init, Heard, Forward, Phone!ResultTrue, Phone!Terminal
<1> QED BY <1>5, <1>6, <1>7, <1>8 DEF PhoneInv

\* The head of the loop takes a file, or the upload is out.
LEMMA Heads ==
  ASSUME Phone!TypeOK, Requests, NEW u \in Uploaders, NEW flag, Phone!LoopHead(u, flag)
  PROVE  /\ queue' \in Seq(Phone!Files) /\ Len(queue') \in Nat
         /\ upc' \in [Uploaders -> {"start", "sent", "answered", "ask", "asked", "out"}]
         /\ file' \in [Uploaders -> Phone!Files \cup {Phone!NoFile}]
         /\ startedLate' \in [Uploaders -> 0..NumFiles]
         /\ \A v \in Uploaders : startedLate'[v] + Len(queue') <= NumFiles
         /\ \A v \in Uploaders \ {u} : /\ upc'[v] = upc[v] /\ file'[v] = file[v]
                                       /\ startedLate'[v] = startedLate[v]
         /\ \/ upc'[u] = "out" /\ UNCHANGED startedLate
            \/ /\ upc'[u] = "sent" /\ file'[u] \in Phone!Files /\ ~flag
               /\ startedLate'[u] = IF c_ THEN startedLate[u] + 1 ELSE startedLate[u]
<1> USE ClientConstants DEF Phone!TypeOK, Requests
<1>0. Len(queue) \in Nat
  BY LenProperties
<1>1. CASE queue = <<>> \/ flag \/ wvClosed
  BY <1>0, <1>1 DEF Phone!LoopHead
<1>2. CASE ~(queue = <<>> \/ flag \/ wvClosed)
  <2>1. /\ upc' = [upc EXCEPT ![u] = "sent"]
        /\ file' = [file EXCEPT ![u] = Head(queue)]
        /\ queue' = Tail(queue)
        /\ startedLate' = IF c_ THEN [startedLate EXCEPT ![u] = startedLate[u] + 1] ELSE startedLate
    BY <1>2 DEF Phone!LoopHead
  <2>2. /\ Head(queue) \in Phone!Files /\ Tail(queue) \in Seq(Phone!Files)
        /\ Len(Tail(queue)) = Len(queue) - 1 /\ Len(queue) >= 1
    BY <1>0, <1>2, HeadTailProperties, EmptySeq
  <2>3. \A v \in Uploaders : startedLate'[v] + Len(queue') <= NumFiles /\ startedLate'[v] \in Nat
    BY <1>0, <2>1, <2>2
  <2>4. startedLate' \in [Uploaders -> 0..NumFiles]
    BY <1>0, <2>1, <2>2, <2>3
  <2> QED BY <1>0, <1>2, <2>1, <2>2, <2>3, <2>4
<1> QED BY <1>1, <1>2

\* While it uploads, what is about the wait holds for want of events.
LEMMA BeforeTheWait ==
  Phone!TypeOK /\ Uploading /\ phase = "upload" => Heard /\ Forward /\ Told /\ Phone!ResultTrue
<1> SUFFICES ASSUME Phone!TypeOK, Uploading, phase = "upload"
             PROVE  Heard /\ Forward /\ Told /\ Phone!ResultTrue
  OBVIOUS
<1>1. Len(inbox) = 0 /\ Len(notes) = 0
  BY EmptySeq DEF Uploading
<1>2. /\ jobs \subseteq Phone!Files /\ ~finished
      /\ \A f \in Phone!Files : job[f] \notin Phone!Terminal /\ statuses[f] \notin Phone!Terminal
  BY DEF Uploading, Phone!TypeOK, Phone!Terminal
<1> QED BY <1>1, <1>2 DEF Heard, Forward, Told, Phone!ResultTrue

\* A step of an upload keeps the invariant.
LEMMA UploadSteps ==
  ASSUME PhoneInv, NEW u \in Uploaders, Phone!UploadStep(u)
  PROVE  PhoneInv'
<1>0. /\ Phone!TypeOK /\ Uploading /\ Requests /\ CancelSeen
      /\ phase = "upload" /\ notes = <<>> /\ had = {} /\ ws = "none" /\ inbox = <<>>
      /\ upc[u] # "out"
  BY DEF PhoneInv, Uploading, Phone!UploadStep, Phone!BeginUploads, Phone!Request,
     Phone!Answered, Phone!Ask, Phone!Asked
<1>1. /\ UNCHANGED <<phase, notes, had, ws, inbox, statuses, finished, late, c_, wvClosed>>
      /\ cancelled' \in BOOLEAN /\ seen' \in [Uploaders -> BOOLEAN]
      /\ answer' \in [Uploaders -> BOOLEAN]
  BY <1>0 DEF Phone!UploadStep, Phone!BeginUploads, Phone!Request, Phone!Answered, Phone!Ask,
     Phone!Asked, Phone!waitVars, Phone!serverVars, Phone!pageVars, Phone!TypeOK
<1>2. /\ job' \in [Phone!Files -> Phone!Rows]
      /\ \A f \in Phone!Files : job'[f] \notin Phone!Terminal
  <2>1. CASE Phone!Request(u)
    BY <1>0, <2>1 DEF Phone!Request, Phone!TypeOK, Phone!Rows, Phone!Terminal, Uploading
  <2>2. CASE UNCHANGED job
    BY <1>0, <2>2 DEF Phone!TypeOK, Uploading
  <2> QED BY <2>1, <2>2 DEF Phone!UploadStep, Phone!BeginUploads, Phone!Answered, Phone!Ask,
     Phone!Asked, Phone!serverVars
<1>3. jobs' \subseteq Phone!Files
  BY <1>0 DEF Phone!UploadStep, Phone!BeginUploads, Phone!Request, Phone!Answered, Phone!Ask,
     Phone!Asked, Phone!TypeOK, Requests
<1>4. lost' \in Nat /\ evalFails' \in Nat /\ (evalFails' = 0 => evalFails = 0)
  BY <1>0 DEF Phone!UploadStep, Phone!BeginUploads, Phone!Request, Phone!Answered, Phone!Ask,
     Phone!Asked, Requests
<1> DEFINE Uploads ==
             /\ queue' \in Seq(Phone!Files) /\ Len(queue') \in Nat
             /\ upc' \in [Uploaders -> {"start", "sent", "answered", "ask", "asked", "out"}]
             /\ file' \in [Uploaders -> Phone!Files \cup {Phone!NoFile}]
             /\ startedLate' \in [Uploaders -> 0..NumFiles]
             /\ \A v \in Uploaders : startedLate'[v] + Len(queue') <= NumFiles
             /\ \A v \in Uploaders : upc'[v] \in {"sent", "answered"} => file'[v] \in Phone!Files
<1>5. Uploads /\ CancelSeen' => PhoneInv'
  <2> SUFFICES ASSUME Uploads, CancelSeen' PROVE PhoneInv'
    OBVIOUS
  <2>1. Phone!TypeOK'
    BY <1>0, <1>1, <1>2, <1>3 DEF Phone!TypeOK
  <2>2. Uploading' /\ Requests'
    BY <1>0, <1>1, <1>2, <1>4 DEF Uploading, Requests
  <2>3. Heard' /\ Forward' /\ Told' /\ Phone!ResultTrue'
    <3>1. (Phone!TypeOK /\ Uploading /\ phase = "upload"
             => Heard /\ Forward /\ Told /\ Phone!ResultTrue)'
      BY BeforeTheWait, PTL
    <3>2. phase' = "upload"
      BY <1>0, <1>1
    <3> QED BY <2>1, <2>2, <3>1, <3>2
  <2> QED BY <2>1, <2>2, <2>3 DEF PhoneInv
<1>6. ASSUME NEW flag, Phone!LoopHead(u, flag), UNCHANGED evalFails, seen' = [seen EXCEPT ![u] = FALSE] \/ seen' = seen,
             \/ upc[u] = "start"
             \/ wvClosed
             \/ upc[u] = "asked" /\ flag = seen[u]
      PROVE  PhoneInv'
  <2>1. Uploads
    BY <1>0, <1>6, Heads DEF Requests
  <2>2. CancelSeen'
    <3>1. \A v \in Uploaders \ {u} : /\ upc'[v] = upc[v] /\ seen'[v] = seen[v]
                                     /\ startedLate'[v] = startedLate[v]
      BY <1>0, <1>6, Heads DEF Phone!TypeOK
    <3>2. \/ upc'[u] = "out" /\ UNCHANGED startedLate
          \/ /\ upc'[u] = "sent" /\ ~flag /\ ~wvClosed
             /\ startedLate'[u] = IF c_ THEN startedLate[u] + 1 ELSE startedLate[u]
      BY <1>0, <1>6, Heads DEF Phone!LoopHead, Phone!TypeOK
    <3>3. ~c_ => startedLate[u] = 0
      BY <1>0 DEF CancelSeen
    <3>4. ~c_' => \A v \in Uploaders : startedLate'[v] = 0
      BY <1>0, <1>1, <3>1, <3>2, <3>3 DEF CancelSeen
    <3>5. ASSUME evalFails' = 0, NEW v \in Uploaders
          PROVE  \/ startedLate'[v] = 0
                 \/ /\ startedLate'[v] = 1
                    /\ upc'[v] \in {"sent", "answered", "ask", "asked", "out"}
                    /\ upc'[v] = "asked" => seen'[v]
      <4>1. CASE v # u
        BY <1>0, <1>6, <3>1, <3>5, <4>1 DEF CancelSeen
      <4>2. CASE v = u
        BY <1>0, <1>6, <3>2, <3>5, <4>2 DEF CancelSeen
      <4> QED BY <4>1, <4>2
    <3> QED BY <3>4, <3>5 DEF CancelSeen
  <2> QED BY <1>5, <2>1, <2>2
<1>7. CASE Phone!BeginUploads(u)
  BY <1>6, <1>7 DEF Phone!BeginUploads
<1>8. CASE Phone!Asked(u)
  BY <1>6, <1>8 DEF Phone!Asked
<1>9. CASE Phone!Ask(u) /\ wvClosed
  BY <1>6, <1>9 DEF Phone!Ask
<1>10. CASE Phone!Request(u)
  <2>1. /\ upc[u] = "sent" /\ upc' = [upc EXCEPT ![u] = "answered"]
        /\ UNCHANGED <<queue, file, startedLate, seen, evalFails>>
    BY <1>10 DEF Phone!Request
  <2>2. Uploads
    BY <1>0, <2>1, LenProperties DEF Phone!TypeOK, Requests
  <2>3. CancelSeen'
    BY <1>0, <1>1, <2>1 DEF Phone!TypeOK, CancelSeen
  <2> QED BY <1>5, <2>2, <2>3
<1>11. CASE Phone!Answered(u)
  <2>1. /\ upc[u] = "answered" /\ upc' = [upc EXCEPT ![u] = "ask"]
        /\ UNCHANGED <<queue, file, startedLate, seen, evalFails>>
    BY <1>11 DEF Phone!Answered
  <2>2. Uploads
    BY <1>0, <2>1, LenProperties DEF Phone!TypeOK, Requests
  <2>3. CancelSeen'
    BY <1>0, <1>1, <2>1 DEF Phone!TypeOK, CancelSeen
  <2> QED BY <1>5, <2>2, <2>3
<1>12. CASE Phone!Ask(u) /\ ~wvClosed
  <2>1. /\ upc[u] = "ask" /\ upc' = [upc EXCEPT ![u] = "asked"]
        /\ \/ seen' = [seen EXCEPT ![u] = c_] /\ UNCHANGED evalFails
           \/ evalFails' = evalFails + 1
        /\ UNCHANGED <<queue, file, startedLate>>
    BY <1>12 DEF Phone!Ask
  <2>2. Uploads
    BY <1>0, <2>1, LenProperties DEF Phone!TypeOK, Requests
  <2>3. CancelSeen'
    BY <1>0, <1>1, <2>1 DEF Phone!TypeOK, CancelSeen, Requests
  <2> QED BY <1>5, <2>2, <2>3
<1> QED
  BY <1>7, <1>8, <1>9, <1>10, <1>11, <1>12 DEF Phone!UploadStep

\* The user cancels: nobody has begun an upload since.
LEMMA Cancels ==
  ASSUME PhoneInv, Phone!PressCancel
  PROVE  PhoneInv'
<1>1. /\ phase = "upload" /\ ~c_ /\ c_' = TRUE
      /\ UNCHANGED <<queue, upc, file, answer, seen, cancelled, startedLate, wvClosed, jobs,
                     phase, statuses, ws, inbox, finished, notes, job, had, late, lost,
                     evalFails>>
  BY DEF Phone!PressCancel, Phone!uploadVars, Phone!waitVars, Phone!serverVars
<1>2. \A v \in Uploaders : startedLate'[v] = 0
  BY <1>1 DEF PhoneInv, CancelSeen
<1>3. CancelSeen'
  BY <1>1, <1>2 DEF CancelSeen
<1> QED
  BY <1>1, <1>3 DEF PhoneInv, Phone!TypeOK, Uploading, Requests, Heard, Forward, Told,
     Phone!ResultTrue, Phone!AllTerminal

\* The uploads are over: the script goes on to the choice, or ends.
LEMMA UploadEnds ==
  ASSUME PhoneInv, Phone!UploadsDone
  PROVE  PhoneInv'
<1>0. /\ Phone!TypeOK /\ Uploading /\ Requests
      /\ phase = "upload" /\ notes = <<>> /\ had = {} /\ ws = "none" /\ inbox = <<>> /\ ~finished
      /\ statuses = [f \in Phone!Files |-> "none"]
      /\ \A f \in Phone!Files : job[f] \notin Phone!Terminal
  BY DEF PhoneInv, Uploading, Phone!UploadsDone
<1>1. /\ \A u \in Uploaders : upc[u] = "out"
      /\ phase' \in {"over", "choose"}
      /\ notes' = <<>> \/ notes' = Append(notes, "uploaded")
      /\ phase' = "over" /\ jobs # {} => notes' = Append(notes, "uploaded")
      /\ queue' = <<>> /\ cancelled' = FALSE /\ c_' = FALSE /\ lost' = 0 /\ evalFails' = 0
      /\ startedLate' = [u \in Uploaders |-> 0]
      /\ UNCHANGED <<upc, file, answer, seen, wvClosed, jobs, statuses, ws, inbox, finished,
                     job, had, late>>
  BY <1>0 DEF Phone!UploadsDone, Phone!waitVars, Phone!serverVars
<1>2. /\ notes' \in Seq({"uploaded", "waiting", "completed", "partial", "failed"})
      /\ \A i \in 1..Len(notes') : notes'[i] = "uploaded"
      /\ notes' = Append(notes, "uploaded") => notes' # <<>>
  <2>1. CASE notes' = <<>>
    BY <1>0, <2>1, EmptySeq
  <2>2. CASE notes' = Append(notes, "uploaded")
    <3>1. notes' = <<"uploaded">>
      BY <1>0, <2>2
    <3> QED BY <3>1
  <2> QED BY <1>1, <2>1, <2>2
<1>3. queue' \in Seq(Phone!Files) /\ Len(queue') = 0
  BY <1>1, EmptySeq
<1>4. startedLate' \in [Uploaders -> 0..NumFiles]
  BY <1>1, ClientConstants
<1>5. Phone!TypeOK'
  BY <1>0, <1>1, <1>2, <1>3, <1>4 DEF Phone!TypeOK
<1>6. Uploading' /\ Requests' /\ CancelSeen'
  BY <1>0, <1>1, <1>3, <1>4, ClientConstants DEF Uploading, Requests, CancelSeen
<1>7. Heard' /\ Forward' /\ Told'
  <2>1. Len(inbox') = 0 /\ jobs' \subseteq Phone!Files
    BY <1>0, <1>1, EmptySeq DEF Phone!TypeOK
  <2> QED BY <1>0, <1>1, <1>2, <2>1 DEF Heard, Forward, Told, Phone!Terminal
<1>8. Phone!ResultTrue'
  BY <1>1, <1>2 DEF Phone!ResultTrue
<1> QED BY <1>5, <1>6, <1>7, <1>8 DEF PhoneInv

\* The part of the invariant that is about the uploads.
UploadPart ==
    /\ Requests /\ CancelSeen
    /\ queue \in Seq(Phone!Files)
    /\ upc \in [Uploaders -> {"start", "sent", "answered", "ask", "asked", "out"}]
    /\ file \in [Uploaders -> Phone!Files \cup {Phone!NoFile}]
    /\ answer \in [Uploaders -> BOOLEAN] /\ seen \in [Uploaders -> BOOLEAN]
    /\ cancelled \in BOOLEAN /\ c_ \in BOOLEAN
    /\ startedLate \in [Uploaders -> 0..NumFiles]

\* After the uploads, what is about them stays.
LEMMA UploadsStay ==
  ASSUME PhoneInv, UNCHANGED <<Phone!uploadVars, c_, lost, evalFails>>
  PROVE  UploadPart' /\ \A u \in Uploaders : upc'[u] = upc[u]
BY DEF PhoneInv, Phone!TypeOK, Phone!uploadVars, Requests, CancelSeen, UploadPart

\* A row changes and its event comes behind those under way.
LEMMA RowChanges ==
  ASSUME PhoneInv, NEW f \in jobs, NEW now \in Phone!Rows, Phone!SetRow(f, now),
         phase \notin {"upload", "choose"}, ws # "opening"
  PROVE  PhoneInv'
<1>0. /\ Phone!TypeOK /\ Uploading /\ Heard /\ Forward /\ Told /\ Phone!ResultTrue
      /\ f \in Phone!Files /\ jobs \subseteq Phone!Files
      /\ inbox \in Seq(Phone!Files \X Phone!Rows) /\ Len(inbox) \in Nat
  BY LenProperties DEF PhoneInv, Phone!TypeOK
<1>1. /\ job' = [job EXCEPT ![f] = now]
      /\ had' = IF now \in Phone!Terminal THEN had \cup {<<f, now>>} ELSE had
      /\ late' = IF job[f] \in Phone!Terminal THEN late \cup {f} ELSE late
      /\ inbox' = IF ws = "open" THEN Append(inbox, <<f, now>>) ELSE inbox
      /\ UNCHANGED <<Phone!uploadVars, c_, wvClosed, jobs, phase, statuses, ws, finished, notes,
                     lost, evalFails>>
  BY DEF Phone!SetRow, Phone!pageVars
<1>2. UploadPart' /\ \A u \in Uploaders : upc'[u] = upc[u]
  BY <1>1, UploadsStay
<1>3. /\ inbox' \in Seq(Phone!Files \X Phone!Rows)
      /\ \/ inbox' = inbox
         \/ /\ ws = "open" /\ Len(inbox') = Len(inbox) + 1
            /\ \A n \in 1..Len(inbox) : inbox'[n] = inbox[n]
            /\ inbox'[Len(inbox) + 1] = <<f, now>>
  <2>1. <<f, now>> \in Phone!Files \X Phone!Rows
    BY <1>0
  <2> QED BY <1>0, <1>1, <2>1, AppendProperties
<1>4. Phone!TypeOK'
  <2>1. had' \subseteq Phone!Files \X Phone!Rows
    BY <1>0, <1>1 DEF Phone!TypeOK
  <2>2. job' \in [Phone!Files -> Phone!Rows] /\ late' \subseteq Phone!Files
    BY <1>0, <1>1 DEF Phone!TypeOK
  <2> QED BY <1>0, <1>1, <1>2, <1>3, <2>1, <2>2 DEF Phone!TypeOK, UploadPart
<1>5. Uploading'
  BY <1>0, <1>1, <1>2 DEF Uploading
<1>6. /\ \A g \in jobs : job'[g] = IF g = f THEN now ELSE job[g]
      /\ had \subseteq had' /\ (now \in Phone!Terminal => <<f, now>> \in had')
  BY <1>0, <1>1 DEF Phone!TypeOK
<1>7. Heard'
  <2>1. \A g \in jobs : job'[g] \in Phone!Terminal => <<g, job'[g]>> \in had'
    BY <1>0, <1>6 DEF Heard
  <2>2. ASSUME NEW n \in 1..Len(inbox'), inbox'[n][2] \in Phone!Terminal PROVE inbox'[n] \in had'
    <3>1. CASE n \in 1..Len(inbox) /\ inbox'[n] = inbox[n]
      BY <1>0, <1>6, <2>2, <3>1 DEF Heard
    <3>2. CASE inbox'[n] = <<f, now>>
      BY <1>6, <2>2, <3>2
    <3> QED BY <1>0, <1>3, <3>1, <3>2
  <2>3. \A g \in jobs : statuses[g] \in Phone!Terminal => <<g, statuses[g]>> \in had'
    BY <1>0, <1>6 DEF Heard
  <2> QED BY <1>1, <2>1, <2>2, <2>3 DEF Heard
<1>8. Forward'
  <2>1. /\ late \subseteq late'
        /\ \A g \in jobs \ late' : job[g] \in Phone!Terminal => job'[g] \in Phone!Terminal
        /\ job[f] \in Phone!Terminal => f \in late'
    BY <1>1, <1>6
  <2>2. \A g \in jobs \ late' : statuses[g] \in Phone!Terminal => job'[g] \in Phone!Terminal
    BY <1>0, <2>1 DEF Forward
  <2>3. ASSUME NEW n \in 1..Len(inbox')
        PROVE  /\ inbox'[n][1] \in jobs
               /\ inbox'[n][1] \notin late' =>
                  /\ statuses[inbox'[n][1]] \in Phone!Terminal => inbox'[n][2] \in Phone!Terminal
                  /\ inbox'[n][2] \in Phone!Terminal => job'[inbox'[n][1]] \in Phone!Terminal
                  /\ \A m \in 1..n : inbox'[m][1] = inbox'[n][1] /\ inbox'[m][2] \in Phone!Terminal
                        => inbox'[n][2] \in Phone!Terminal
    <3>1. CASE n \in 1..Len(inbox) /\ inbox'[n] = inbox[n]
      <4>1. \A m \in 1..n : m \in 1..Len(inbox) /\ inbox'[m] = inbox[m]
        BY <1>0, <1>3, <3>1
      <4> QED BY <1>0, <2>1, <3>1, <4>1 DEF Forward
    <3>2. CASE n = Len(inbox) + 1 /\ inbox'[n] = <<f, now>>
      <4>1. \A m \in 1..Len(inbox) :
              /\ inbox'[m] = inbox[m]
              /\ inbox[m][1] = f /\ f \notin late /\ inbox[m][2] \in Phone!Terminal
                    => job[f] \in Phone!Terminal
        BY <1>0, <1>3, <3>2 DEF Forward
      <4>2. f \notin late' =>
              \A m \in 1..n : inbox'[m][1] = f /\ inbox'[m][2] \in Phone!Terminal => now \in Phone!Terminal
        BY <1>0, <2>1, <3>2, <4>1
      <4>3. f \notin late' => (statuses[f] \in Phone!Terminal => now \in Phone!Terminal)
        BY <1>0, <2>1 DEF Forward
      <4> QED BY <1>6, <3>2, <4>2, <4>3
    <3> QED BY <1>0, <1>3, <3>1, <3>2
  <2>4. ASSUME finished', NEW g \in jobs
        PROVE  /\ g \in late' \/ statuses[g] \in Phone!Terminal
               /\ \E st \in Phone!Terminal : <<g, st>> \in had'
    BY <1>0, <1>1, <1>6, <2>1, <2>4 DEF Forward
  <2> QED BY <1>1, <2>2, <2>3, <2>4 DEF Forward
<1>9. Told' /\ Phone!ResultTrue'
  BY <1>0, <1>1, <1>6 DEF Told, Phone!ResultTrue
<1> QED BY <1>2, <1>4, <1>5, <1>7, <1>8, <1>9 DEF PhoneInv, UploadPart

\* The page hears of the first event under way.
LEMMA Hears ==
  ASSUME PhoneInv, Phone!OnMessage
  PROVE  PhoneInv'
<1> DEFINE ev == Head(inbox)
<1>0. /\ Phone!TypeOK /\ Uploading /\ Heard /\ Forward /\ Told /\ Phone!ResultTrue
      /\ jobs \subseteq Phone!Files /\ ws = "open" /\ phase \in {"wait", "after"}
      /\ inbox \in Seq(Phone!Files \X Phone!Rows) /\ Len(inbox) \in Nat
  BY LenProperties DEF PhoneInv, Phone!TypeOK, Phone!OnMessage
<1>1. /\ statuses' = [statuses EXCEPT ![ev[1]] = ev[2]]
      /\ inbox' = Tail(inbox) /\ inbox # <<>>
      /\ finished' = (finished \/ (Phone!AllTerminal(statuses') /\ ~wvClosed))
      /\ UNCHANGED <<Phone!uploadVars, c_, wvClosed, jobs, phase, ws, notes, job, had, late,
                     lost, evalFails>>
  BY DEF Phone!OnMessage, Phone!pageVars, Phone!serverVars
<1>2. UploadPart' /\ \A u \in Uploaders : upc'[u] = upc[u]
  BY <1>1, UploadsStay
<1>3. /\ ev \in Phone!Files \X Phone!Rows
      /\ inbox' \in Seq(Phone!Files \X Phone!Rows)
      /\ Len(inbox') = Len(inbox) - 1 /\ Len(inbox) >= 1
      /\ \A n \in 1..Len(inbox') : inbox'[n] = inbox[n + 1]
      /\ ev = inbox[1]
  BY <1>0, <1>1, HeadTailProperties, EmptySeq
<1>4. statuses' \in [Phone!Files -> Phone!Rows]
  BY <1>0, <1>1, <1>3 DEF Phone!TypeOK
<1>5. /\ Phone!TypeOK' /\ Uploading'
  BY <1>0, <1>1, <1>2, <1>3, <1>4 DEF Phone!TypeOK, Uploading, UploadPart
<1>6. \A f \in jobs : statuses'[f] = IF f = ev[1] THEN ev[2] ELSE statuses[f]
  BY <1>0, <1>1, <1>3 DEF Phone!TypeOK
<1>7. /\ ev[1] \in jobs
      /\ ev[1] \notin late =>
            /\ statuses[ev[1]] \in Phone!Terminal => ev[2] \in Phone!Terminal
            /\ ev[2] \in Phone!Terminal => job[ev[1]] \in Phone!Terminal
      /\ ev[2] \in Phone!Terminal => ev \in had
      /\ ev = <<ev[1], ev[2]>>
  <2>1. 1 \in 1..Len(inbox)
    BY <1>0, <1>3
  <2> QED BY <1>0, <1>3, <2>1 DEF Forward, Heard
<1> HIDE DEF ev
<1>8. ASSUME NEW n \in 1..Len(inbox')
      PROVE  /\ n + 1 \in 1..Len(inbox) /\ inbox'[n] = inbox[n + 1] /\ n \in Nat
             /\ ev[1] = inbox'[n][1] /\ ev[1] \notin late /\ ev[2] \in Phone!Terminal
                   => inbox'[n][2] \in Phone!Terminal
  <2>1. n + 1 \in 1..Len(inbox) /\ inbox'[n] = inbox[n + 1] /\ n \in Nat /\ 1 \in 1..(n + 1)
    BY <1>0, <1>3
  <2> QED BY <1>0, <1>3, <2>1 DEF Forward
<1>9. Heard'
  <2>1. \A f \in jobs : job[f] \in Phone!Terminal => <<f, job[f]>> \in had
    BY <1>0 DEF Heard
  <2>2. \A n \in 1..Len(inbox') : inbox'[n][2] \in Phone!Terminal => inbox'[n] \in had
    BY <1>0, <1>8 DEF Heard
  <2>3. \A f \in jobs : statuses'[f] \in Phone!Terminal => <<f, statuses'[f]>> \in had
    BY <1>0, <1>6, <1>7 DEF Heard
  <2> QED BY <1>1, <2>1, <2>2, <2>3 DEF Heard
<1>10. Forward'
  <2>1. \A f \in jobs \ late : statuses'[f] \in Phone!Terminal => job[f] \in Phone!Terminal
    BY <1>0, <1>6, <1>7 DEF Forward
  <2>2. ASSUME NEW n \in 1..Len(inbox')
        PROVE  /\ inbox'[n][1] \in jobs
               /\ inbox'[n][1] \notin late =>
                  /\ statuses'[inbox'[n][1]] \in Phone!Terminal => inbox'[n][2] \in Phone!Terminal
                  /\ inbox'[n][2] \in Phone!Terminal => job[inbox'[n][1]] \in Phone!Terminal
    <3>1. /\ inbox'[n][1] \in jobs
          /\ inbox'[n][1] \notin late =>
             /\ statuses[inbox'[n][1]] \in Phone!Terminal => inbox'[n][2] \in Phone!Terminal
             /\ inbox'[n][2] \in Phone!Terminal => job[inbox'[n][1]] \in Phone!Terminal
      BY <1>0, <1>8 DEF Forward
    <3>2. CASE inbox'[n][1] = ev[1]
      BY <1>6, <1>8, <3>1, <3>2
    <3>3. CASE inbox'[n][1] # ev[1]
      BY <1>6, <3>1, <3>3
    <3> QED BY <3>1, <3>2, <3>3
  <2>3. ASSUME NEW n \in 1..Len(inbox'), NEW k \in 1..n, inbox'[n][1] \notin late,
               inbox'[k][1] = inbox'[n][1], inbox'[k][2] \in Phone!Terminal
        PROVE  inbox'[n][2] \in Phone!Terminal
    <3>1. n + 1 \in 1..Len(inbox) /\ inbox'[n] = inbox[n + 1] /\ n \in Nat
      BY <1>8
    <3>2. k \in 1..Len(inbox') /\ k + 1 \in 1..(n + 1)
      BY <1>0, <1>3, <3>1
    <3>3. inbox'[k] = inbox[k + 1]
      BY <1>3, <3>2
    <3> QED BY <1>0, <2>3, <3>1, <3>2, <3>3 DEF Forward
  <2>4. ASSUME finished', NEW f \in jobs
        PROVE  /\ f \in late \/ statuses'[f] \in Phone!Terminal
               /\ \E st \in Phone!Terminal : <<f, st>> \in had
    <3>1. CASE finished
      <4>1. /\ f \in late \/ statuses[f] \in Phone!Terminal
            /\ \E st \in Phone!Terminal : <<f, st>> \in had
        BY <1>0, <3>1 DEF Forward
      <4> QED BY <1>6, <1>7, <4>1
    <3>2. CASE Phone!AllTerminal(statuses')
      <4>1. statuses'[f] \in Phone!Terminal
        BY <3>2 DEF Phone!AllTerminal
      <4>2. <<f, statuses'[f]>> \in had
        BY <1>1, <1>9, <4>1 DEF Heard
      <4> QED BY <4>1, <4>2
    <3> QED BY <1>1, <2>4, <3>1, <3>2
  <2> QED BY <1>1, <2>1, <2>2, <2>3, <2>4 DEF Forward
<1>11. Told' /\ Phone!ResultTrue'
  BY <1>0, <1>1 DEF Told, Phone!ResultTrue
<1> QED BY <1>2, <1>5, <1>9, <1>10, <1>11 DEF PhoneInv, UploadPart

\* What a notification says of the jobs.
Says(note) ==
    /\ note \in {"completed", "partial", "failed"} =>
          \A f \in jobs : \E s \in Phone!Terminal : <<f, s>> \in had
    /\ note = "completed" => \A f \in jobs \ late : <<f, "completed">> \in had
    /\ note = "failed" =>
          /\ \A f \in jobs \ late : <<f, "failed">> \in had
          /\ \E f \in jobs : <<f, "failed">> \in had
    /\ note = "partial" => \A s \in Phone!Terminal : \E f \in jobs : <<f, s>> \in had

\* What is notified is what the script has been told of every job.
LEMMA ResultIs ==
  ASSUME PhoneInv, finished \/ Phone!AllTerminal(statuses)
  PROVE  Phone!Result \in {"completed", "partial", "failed"} /\ Says(Phone!Result)
<1>1. \A f \in jobs : statuses[f] \in {"completed", "failed"} => <<f, statuses[f]>> \in had
  BY DEF PhoneInv, Heard, Phone!Terminal
<1>2. \A f \in jobs \ late : statuses[f] \in {"completed", "failed"}
  BY DEF PhoneInv, Forward, Phone!AllTerminal, Phone!Terminal
<1>3. \A f \in jobs : \E s \in Phone!Terminal : <<f, s>> \in had
  <2>1. CASE finished
    BY <2>1 DEF PhoneInv, Forward
  <2>2. CASE Phone!AllTerminal(statuses)
    BY <1>1, <2>2 DEF Phone!AllTerminal, Phone!Terminal
  <2> QED BY <2>1, <2>2
<1>4. CASE \A f \in jobs : statuses[f] # "failed"
  BY <1>1, <1>2, <1>3, <1>4 DEF Phone!Result, Says
<1>5. CASE (\E f \in jobs : statuses[f] = "failed") /\ \E f \in jobs : statuses[f] = "completed"
  BY <1>1, <1>3, <1>5 DEF Phone!Result, Says, Phone!Terminal
<1>6. CASE (\E f \in jobs : statuses[f] = "failed") /\ \A f \in jobs : statuses[f] # "completed"
  BY <1>1, <1>2, <1>3, <1>6 DEF Phone!Result, Says
<1> QED BY <1>4, <1>5, <1>6

\* One more notification, and which.
LEMMA Notifies ==
  ASSUME PhoneInv, NEW note \in {"waiting", "completed", "partial", "failed"},
         notes' = Append(notes, note), UNCHANGED <<had, jobs, late>>, Says(note)
  PROVE  /\ notes' \in Seq({"uploaded", "waiting", "completed", "partial", "failed"})
         /\ notes' # <<>> /\ Phone!ResultTrue'
<1> DEFINE Kinds == {"uploaded", "waiting", "completed", "partial", "failed"}
<1>1. notes \in Seq(Kinds) /\ note \in Kinds /\ Len(notes) \in Nat
  BY LenProperties DEF PhoneInv, Phone!TypeOK
<1>2. /\ notes' \in Seq(Kinds) /\ notes' # <<>> /\ Len(notes') = Len(notes) + 1
      /\ \A i \in 1..Len(notes) : notes'[i] = notes[i]
      /\ notes'[Len(notes) + 1] = note
  BY <1>1, AppendProperties
<1>3. ASSUME NEW i \in 1..Len(notes') PROVE Says(notes'[i])
  <2>1. CASE i \in 1..Len(notes)
    BY <1>2, <2>1 DEF PhoneInv, Phone!ResultTrue, Says
  <2>2. CASE i = Len(notes) + 1
    BY <1>2, <2>2
  <2> QED BY <1>1, <1>2, <2>1, <2>2
<1> QED BY <1>2, <1>3 DEF Phone!ResultTrue, Says

\* The wait begins: nothing of what the server may have done is believed yet.
LEMMA WaitBegins ==
  ASSUME PhoneInv, Phone!ViewProgress
  PROVE  PhoneInv'
<1>0. /\ Phone!TypeOK /\ Uploading /\ Heard /\ Forward /\ Phone!ResultTrue
      /\ phase = "choose" /\ inbox = <<>> /\ ~finished /\ jobs \subseteq Phone!Files
  BY DEF PhoneInv, Uploading, Phone!ViewProgress, Phone!TypeOK
<1>1. /\ phase' = "wait" /\ ws' \in {"opening", "none"}
      /\ statuses' = [f \in Phone!Files |-> IF f \in jobs THEN "queued" ELSE "none"]
      /\ UNCHANGED <<Phone!uploadVars, c_, wvClosed, jobs, inbox, finished, notes, job, had, late,
                     lost, evalFails>>
  BY DEF Phone!ViewProgress, Phone!pageVars, Phone!serverVars
<1>2. UploadPart' /\ \A u \in Uploaders : upc'[u] = upc[u]
  BY <1>1, UploadsStay
<1>3. /\ statuses' \in [Phone!Files -> Phone!Rows]
      /\ \A f \in jobs : statuses'[f] = "queued" /\ statuses'[f] \notin Phone!Terminal
  BY <1>0, <1>1 DEF Phone!Rows, Phone!Terminal
<1>4. Phone!TypeOK'
  BY <1>0, <1>1, <1>2, <1>3 DEF Phone!TypeOK, UploadPart
<1>5. Uploading'
  BY <1>0, <1>1, <1>2, <1>3 DEF Uploading
<1>6. Len(inbox) = 0
  BY <1>0, EmptySeq
<1>7. Heard' /\ Forward'
  <2>1. \A f \in jobs : statuses'[f] \notin Phone!Terminal
    BY <1>3
  <2>2. \A n \in 1..Len(inbox) : FALSE
    BY <1>6
  <2>3. Heard'
    BY <1>0, <1>1, <2>1, <2>2 DEF Heard
  <2>4. Forward'
    BY <1>0, <1>1, <2>1, <2>2 DEF Forward
  <2> QED BY <2>3, <2>4
<1>8. Told' /\ Phone!ResultTrue'
  BY <1>0, <1>1 DEF Told, Phone!ResultTrue
<1> QED BY <1>2, <1>4, <1>5, <1>7, <1>8 DEF PhoneInv, UploadPart

\* The user leaves without a look at the progress page.
LEMMA Leaves ==
  ASSUME PhoneInv, Phone!LeaveAtChoice
  PROVE  PhoneInv'
<1>0. /\ Phone!TypeOK /\ Uploading /\ Heard /\ Forward /\ Phone!ResultTrue
      /\ phase = "choose" /\ ws = "none"
      /\ statuses = [f \in Phone!Files |-> "none"]
  BY DEF PhoneInv, Uploading, Phone!LeaveAtChoice
<1>1. /\ phase' = "left"
      /\ UNCHANGED <<Phone!uploadVars, c_, wvClosed, jobs, statuses, ws, inbox, finished, notes,
                     job, had, late, lost, evalFails>>
  BY DEF Phone!LeaveAtChoice, Phone!pageVars, Phone!serverVars, Phone!waitVars
<1>2. UploadPart' /\ \A u \in Uploaders : upc'[u] = upc[u]
  BY <1>1, UploadsStay
<1>3. Phone!TypeOK'
  BY <1>0, <1>1, <1>2 DEF Phone!TypeOK, UploadPart
<1>4. Uploading' /\ Told'
  BY <1>0, <1>1, <1>2 DEF Uploading, Told
<1>5. Heard' /\ Forward' /\ Phone!ResultTrue'
  BY <1>0, <1>1 DEF Heard, Forward, Phone!ResultTrue, Phone!AllTerminal
<1> QED BY <1>2, <1>3, <1>4, <1>5 DEF PhoneInv, UploadPart

\* The page is subscribed: what became of the jobs before nobody has told it.
LEMMA Subscribes ==
  ASSUME PhoneInv, Phone!Subscribe
  PROVE  PhoneInv'
<1>0. /\ Phone!TypeOK /\ Uploading /\ Heard /\ Forward /\ Told /\ Phone!ResultTrue
      /\ phase = "wait" /\ inbox = <<>> /\ jobs \subseteq Phone!Files
      /\ \A f \in jobs : statuses[f] \notin Phone!Terminal
  BY DEF PhoneInv, Uploading, Phone!Subscribe, Phone!TypeOK
<1>1. /\ ws' = "open" /\ job' \in [Phone!Files -> Phone!Rows]
      /\ had' = had \cup {<<f, job'[f]>> : f \in {g \in jobs : job'[g] \in Phone!Terminal}}
      /\ UNCHANGED <<Phone!uploadVars, c_, wvClosed, jobs, phase, statuses, inbox, finished,
                     notes, late, lost, evalFails>>
  BY DEF Phone!Subscribe, Phone!pageVars
<1>2. UploadPart' /\ \A u \in Uploaders : upc'[u] = upc[u]
  BY <1>1, UploadsStay
<1>3. /\ had \subseteq had' /\ had' \subseteq Phone!Files \X Phone!Rows
      /\ \A f \in jobs : job'[f] \in Phone!Terminal => <<f, job'[f]>> \in had'
  BY <1>0, <1>1 DEF Phone!TypeOK
<1>4. Phone!TypeOK'
  BY <1>0, <1>1, <1>2, <1>3 DEF Phone!TypeOK, UploadPart
<1>5. Uploading'
  BY <1>0, <1>1, <1>2 DEF Uploading
<1>6. Len(inbox) = 0
  BY <1>0, EmptySeq
<1>7. Heard'
  BY <1>0, <1>1, <1>3, <1>6 DEF Heard
<1>8. Forward'
  <2>1. ASSUME finished', NEW f \in jobs
        PROVE  /\ f \in late \/ statuses[f] \in Phone!Terminal
               /\ \E st \in Phone!Terminal : <<f, st>> \in had'
    BY <1>0, <1>1, <1>3, <2>1 DEF Forward
  <2> QED BY <1>0, <1>1, <1>6, <2>1 DEF Forward
<1>9. Told' /\ Phone!ResultTrue'
  BY <1>0, <1>1, <1>3 DEF Told, Phone!ResultTrue
<1> QED BY <1>2, <1>4, <1>5, <1>7, <1>8, <1>9 DEF PhoneInv, UploadPart

\* The connection breaks: the events under way are lost.
LEMMA Breaks ==
  ASSUME PhoneInv, Phone!SocketError
  PROVE  PhoneInv'
<1>0. /\ Phone!TypeOK /\ Uploading /\ Heard /\ Forward /\ Told /\ Phone!ResultTrue
      /\ phase = "wait"
  BY DEF PhoneInv, Phone!SocketError
<1>1. /\ ws' = "none" /\ inbox' = <<>>
      /\ UNCHANGED <<Phone!uploadVars, c_, wvClosed, jobs, phase, statuses, finished, notes,
                     job, had, late, lost, evalFails>>
  BY DEF Phone!SocketError, Phone!pageVars, Phone!serverVars
<1>2. UploadPart' /\ \A u \in Uploaders : upc'[u] = upc[u]
  BY <1>1, UploadsStay
<1>3. inbox' \in Seq(Phone!Files \X Phone!Rows) /\ Len(inbox') = 0
  BY <1>1, EmptySeq
<1>4. Phone!TypeOK' /\ Uploading'
  BY <1>0, <1>1, <1>2, <1>3 DEF Phone!TypeOK, Uploading, UploadPart
<1>5. Heard'
  BY <1>0, <1>1, <1>3 DEF Heard
<1>6. Forward'
  BY <1>0, <1>1, <1>3 DEF Forward, Phone!AllTerminal
<1>7. Told' /\ Phone!ResultTrue'
  BY <1>0, <1>1 DEF Told, Phone!ResultTrue
<1> QED BY <1>2, <1>4, <1>5, <1>6, <1>7 DEF PhoneInv, UploadPart

\* The page is left: a result is notified when all was done.
LEMMA LeavesWait ==
  ASSUME PhoneInv, Phone!LeaveWait
  PROVE  PhoneInv'
<1>0. /\ Phone!TypeOK /\ Uploading /\ Heard /\ Forward /\ Phone!ResultTrue /\ phase = "wait"
  BY DEF PhoneInv, Phone!LeaveWait
<1>1. /\ phase' = "after"
      /\ UNCHANGED <<Phone!uploadVars, c_, wvClosed, jobs, statuses, ws, inbox, finished,
                     job, had, late, lost, evalFails>>
      /\ \/ finished /\ notes' = Append(notes, Phone!Result)
         \/ notes' = notes
  BY DEF Phone!LeaveWait, Phone!pageVars, Phone!serverVars, Phone!waitVars
<1>2. UploadPart' /\ \A u \in Uploaders : upc'[u] = upc[u]
  BY <1>1, UploadsStay
<1>3. /\ notes' \in Seq({"uploaded", "waiting", "completed", "partial", "failed"})
      /\ Phone!ResultTrue'
  <2>1. CASE notes' = notes
    BY <1>0, <1>1, <2>1 DEF Phone!TypeOK, Phone!ResultTrue
  <2>2. CASE finished /\ notes' = Append(notes, Phone!Result)
    <3>1. Phone!Result \in {"completed", "partial", "failed"} /\ Says(Phone!Result)
      BY <2>2, ResultIs
    <3> QED BY <1>1, <2>2, <3>1, Notifies
  <2> QED BY <1>1, <2>1, <2>2
<1>4. Phone!TypeOK' /\ Uploading' /\ Told'
  BY <1>0, <1>1, <1>2, <1>3 DEF Phone!TypeOK, Uploading, UploadPart, Told
<1>5. Heard' /\ Forward'
  BY <1>0, <1>1 DEF Heard, Forward, Phone!AllTerminal
<1> QED BY <1>2, <1>3, <1>4, <1>5 DEF PhoneInv, UploadPart

\* The last notification.
LEMMA Ends ==
  ASSUME PhoneInv, Phone!After
  PROVE  PhoneInv'
<1> DEFINE note == IF Phone!AllTerminal(statuses) THEN Phone!Result ELSE "waiting"
<1>0. /\ Phone!TypeOK /\ Uploading /\ Heard /\ Forward /\ phase = "after"
  BY DEF PhoneInv, Phone!After
<1>1. /\ phase' = "over" /\ ws' = "none" /\ inbox' = <<>>
      /\ notes' = Append(notes, note)
      /\ UNCHANGED <<Phone!uploadVars, c_, wvClosed, jobs, statuses, finished,
                     job, had, late, lost, evalFails>>
  BY DEF Phone!After, Phone!pageVars, Phone!serverVars
<1>2. UploadPart' /\ \A u \in Uploaders : upc'[u] = upc[u]
  BY <1>1, UploadsStay
<1>3. note \in {"waiting", "completed", "partial", "failed"} /\ Says(note)
  <2>1. CASE Phone!AllTerminal(statuses)
    BY <2>1, ResultIs
  <2>2. CASE ~Phone!AllTerminal(statuses)
    BY <2>2 DEF Phone!AllTerminal, Says
  <2> QED BY <2>1, <2>2
<1> HIDE DEF note
<1>4. /\ notes' \in Seq({"uploaded", "waiting", "completed", "partial", "failed"})
      /\ notes' # <<>> /\ Phone!ResultTrue'
  BY <1>1, <1>3, Notifies
<1>5. inbox' \in Seq(Phone!Files \X Phone!Rows) /\ Len(inbox') = 0
  BY <1>1, EmptySeq
<1>6. Phone!TypeOK' /\ Uploading' /\ Told'
  BY <1>0, <1>1, <1>2, <1>4, <1>5 DEF Phone!TypeOK, Uploading, UploadPart, Told
<1>7. Heard'
  BY <1>0, <1>1, <1>5 DEF Heard
<1>8. Forward'
  <2>1. \A n \in 1..Len(inbox') : FALSE
    BY <1>5
  <2> QED BY <1>0, <1>1, <2>1 DEF Forward
<1> QED BY <1>2, <1>4, <1>6, <1>7, <1>8 DEF PhoneInv, UploadPart

\* Nothing of the invariant is about the page.
LEMMA Unseen ==
  ASSUME PhoneInv, wvClosed' \in BOOLEAN,
         UNCHANGED <<queue, upc, file, answer, seen, cancelled, startedLate, c_, jobs, phase,
                     statuses, ws, inbox, finished, notes, job, had, late, lost, evalFails>>
  PROVE  PhoneInv'
<1>1. Phone!TypeOK'
  BY DEF PhoneInv, Phone!TypeOK
<1>2. Uploading' /\ Requests' /\ CancelSeen'
  BY DEF PhoneInv, Uploading, Requests, CancelSeen
<1>3. Heard' /\ Told' /\ Phone!ResultTrue'
  BY DEF PhoneInv, Heard, Told, Phone!ResultTrue
<1>4. Forward'
  BY DEF PhoneInv, Forward, Phone!AllTerminal
<1> QED BY <1>1, <1>2, <1>3, <1>4 DEF PhoneInv

\* The page is closed.
LEMMA Closes ==
  ASSUME PhoneInv, Phone!ClosePage
  PROVE  PhoneInv'
<1>1. /\ wvClosed' = TRUE
      /\ UNCHANGED <<queue, upc, file, answer, seen, cancelled, startedLate, c_, jobs,
                     phase, statuses, ws, inbox, finished, notes, job, had, late, lost,
                     evalFails>>
  BY DEF Phone!ClosePage, Phone!uploadVars, Phone!waitVars, Phone!serverVars
<1> QED BY <1>1, Unseen

LEMMA PhoneSteps ==
  ASSUME PhoneInv, Phone!Next
  PROVE  PhoneInv'
<1>1. CASE \E u \in Uploaders : Phone!UploadStep(u)
  BY <1>1, UploadSteps
<1>2. CASE Phone!ScriptStep
  BY <1>2, UploadEnds, Leaves, Ends DEF Phone!ScriptStep
<1>3. CASE Phone!ViewProgress \/ Phone!Subscribe \/ Phone!SocketError \/ Phone!OnMessage
  BY <1>3, WaitBegins, Subscribes, Breaks, Hears
<1>4. CASE Phone!PressCancel \/ Phone!ClosePage
  BY <1>4, Cancels, Closes
<1>5. ASSUME NEW f \in Phone!Files, Phone!ServerWorks(f) PROVE PhoneInv'
  <2>1. f \in jobs /\ ws = "open" /\ phase \notin {"upload", "choose"}
    BY <1>5 DEF Phone!ServerWorks, PhoneInv, Uploading
  <2>2. \E now \in Phone!Rows : Phone!SetRow(f, now)
    BY <1>5 DEF Phone!ServerWorks, Phone!Rows, Phone!Terminal
  <2> QED BY <2>1, <2>2, RowChanges
<1>6. ASSUME NEW f \in Phone!Files, Phone!ClickCancel(f) PROVE PhoneInv'
  <2>1. /\ f \in jobs /\ ws # "opening" /\ phase \notin {"upload", "choose"}
        /\ Phone!SetRow(f, "failed") /\ "failed" \in Phone!Rows /\ "failed" \in Phone!Terminal
    BY <1>6 DEF Phone!ClickCancel, Phone!Rows, Phone!Terminal
  <2> QED BY <2>1, RowChanges
<1>7. CASE Phone!LeaveAtChoice \/ Phone!LeaveWait
  BY <1>7, Leaves, LeavesWait
<1> QED BY <1>1, <1>2, <1>3, <1>4, <1>5, <1>6, <1>7 DEF Phone!Next

\* The invariant of the script, whatever component runs.
LEMMA PhoneAlways == FairSpec => []PhoneInv
<1>1. Init => PhoneInv
  BY PhoneInit DEF Init
<1>2. PhoneInv /\ [Phone!Next]_phoneVars => PhoneInv'
  <2> SUFFICES ASSUME PhoneInv, [Phone!Next]_phoneVars PROVE PhoneInv'
    OBVIOUS
  <2>1. CASE Phone!Next
    BY <2>1, PhoneSteps
  <2>2. CASE UNCHANGED phoneVars
    BY <2>2, Unseen DEF phoneVars, PhoneInv, Phone!TypeOK
  <2> QED BY <2>1, <2>2
<1>3. [Next]_clientVars => [Phone!Next]_phoneVars
  BY DEF Next, clientVars
<1> QED BY <1>1, <1>2, <1>3, PTL DEF FairSpec

\* On the phone a cancel stops the uploads, a result that is notified is the
\* server's, and who waited is told something: for any number of files and
\* uploads, and however answers, evaluations and events are lost.
THEOREM PhoneIsRight == FairSpec => []PhoneRight
<1>1. PhoneInv => PhoneRight
  <2> SUFFICES ASSUME PhoneInv PROVE PhoneRight
    OBVIOUS
  <2>1. Phone!CancelBounded
    <3>1. \A u \in Uploaders : startedLate[u] = 0 \/ startedLate[u] = 1 \/ evalFails # 0
      BY DEF PhoneInv, CancelSeen
    <3> QED BY <3>1 DEF Phone!CancelBounded
  <2>2. Phone!ResultTrue
    BY DEF PhoneInv
  <2>3. Phone!UserTold
    BY DEF PhoneInv, Told, Phone!UserTold
  <2> QED BY <2>1, <2>2, <2>3 DEF PhoneRight
<1> QED BY <1>1, PhoneAlways, PTL

-----------------------------------------------------------------------------
(* The buttons. *)

\* A generation that is shown to go on has a worker or a signal that ends it,
\* and a cancel has reset the button of the generation it ended.
ScanInv ==
    /\ Scan!TypeOK
    /\ Scan!RestsAtTheEnd
    /\ byUser => button # "loading"
    /\ Scan!KeptIsShown

\* Before the first generation nothing goes on.
LEMMA ScanInit == Scan!Init => ScanInv
<1> SUFFICES ASSUME Scan!Init PROVE ScanInv
  OBVIOUS
<1> USE ClientConstants DEF Scan!Init
<1>1. Scan!TypeOK
  <2>1. images \in Seq(Scan!Image) /\ pictures \in Seq(Scan!Image)
    OBVIOUS
  <2>2. results \in [Scan!Workers -> Seq(Scan!Image)]
    OBVIOUS
  <2>3. scanSignals \in Seq(Scan!Workers)
    OBVIOUS
  <2>4. at \in [Scan!Workers -> 1..(NumPictures + 1)]
    OBVIOUS
  <2> QED BY <2>1, <2>2, <2>3, <2>4 DEF Scan!TypeOK
<1>2. Scan!RestsAtTheEnd /\ Scan!KeptIsShown
  BY DEF Scan!RestsAtTheEnd, Scan!KeptIsShown
<1> QED BY <1>1, <1>2 DEF ScanInv

\* Every step keeps the types.
LEMMA ScanTypes ==
  ASSUME Scan!TypeOK, Scan!Next
  PROVE  Scan!TypeOK'
<1> USE ClientConstants DEF Scan!TypeOK, Scan!ResetButton, Scan!workerVars, Scan!pageVars
<1>0. <<>> \in Seq(Scan!Image)
  OBVIOUS
<1>1. CASE Scan!SelectFiles
  BY <1>1 DEF Scan!SelectFiles
<1>2. CASE Scan!ClearAll
  BY <1>0, <1>2 DEF Scan!ClearAll
<1>3. CASE Scan!Generate
  BY <1>0, <1>3 DEF Scan!Generate, Scan!Enabled
<1>4. CASE Scan!CancelGeneration
  BY <1>4 DEF Scan!CancelGeneration
<1>5. CASE Scan!Done
  <2>1. /\ Head(scanSignals) \in Scan!Workers
        /\ Tail(scanSignals) \in Seq(Scan!Workers)
    BY <1>5 DEF Scan!Done, Scan!Enabled
  <2> QED BY <1>5, <2>1 DEF Scan!Done, Scan!Enabled
<1>6. CASE Scan!TimerFires
  BY <1>6 DEF Scan!TimerFires
<1>7. ASSUME NEW w \in Scan!Workers, Scan!EnhanceNext(w) PROVE Scan!TypeOK'
  <2>1. <<w, at[w]>> \in Scan!Image
    BY <1>7 DEF Scan!EnhanceNext, Scan!Image, Scan!Pictures
  <2>2. \/ results' = [results EXCEPT ![w] = Append(results[w], <<w, at[w]>>)]
        \/ results' = results
    BY <1>7 DEF Scan!EnhanceNext
  <2>3. Append(results[w], <<w, at[w]>>) \in Seq(Scan!Image)
    BY <1>7, <2>1
  <2>4. results' \in [Scan!Workers -> Seq(Scan!Image)]
    BY <2>2, <2>3
  <2>5. at' \in [Scan!Workers -> 1..(NumPictures + 1)]
    BY <1>7 DEF Scan!EnhanceNext
  <2>6. UNCHANGED <<Scan!pageVars, run, asked, scanSignals>>
    BY <1>7 DEF Scan!EnhanceNext
  <2> QED BY <2>4, <2>5, <2>6
<1>8. ASSUME NEW w \in Scan!Workers, Scan!EmitFinished(w) PROVE Scan!TypeOK'
  BY <1>8 DEF Scan!EmitFinished
<1> QED
  BY <1>1, <1>2, <1>3, <1>4, <1>5, <1>6, <1>7, <1>8 DEF Scan!Next, Scan!ScanStep

\* Every step keeps the rest of the invariant: a generation is no longer shown
\* once its last signal has been seen.
LEMMA ScanSteps ==
  ASSUME ScanInv, Scan!Next
  PROVE  ScanInv'
<1> USE ClientConstants DEF ScanInv, Scan!TypeOK, Scan!ResetButton, Scan!workerVars,
        Scan!pageVars, Scan!RestsAtTheEnd, Scan!KeptIsShown, Scan!NoWorker
<1>0. Scan!TypeOK'
  BY ScanTypes
<1>1. CASE Scan!SelectFiles
  BY <1>0, <1>1 DEF Scan!SelectFiles
<1>2. CASE Scan!ClearAll
  BY <1>0, <1>2 DEF Scan!ClearAll
<1>3. CASE Scan!Generate
  <2>1. PICK w \in Scan!Workers : run' = [run EXCEPT ![w] = "running"]
    BY <1>3 DEF Scan!Generate, Scan!Enabled
  <2>2. run'[w] = "running"
    BY <2>1
  <2> QED BY <1>0, <1>3, <2>2 DEF Scan!Generate, Scan!Enabled
<1>4. CASE Scan!CancelGeneration
  BY <1>0, <1>4 DEF Scan!CancelGeneration
<1>5. CASE Scan!Done
  BY <1>0, <1>5 DEF Scan!Done, Scan!Enabled
<1>6. CASE Scan!TimerFires
  BY <1>0, <1>6 DEF Scan!TimerFires
<1>7. ASSUME NEW w \in Scan!Workers, Scan!EnhanceNext(w) PROVE ScanInv'
  BY <1>0, <1>7 DEF Scan!EnhanceNext
<1>8. ASSUME NEW w \in Scan!Workers, Scan!EmitFinished(w) PROVE ScanInv'
  <2>1. scanSignals' = Append(scanSignals, w)
    BY <1>8 DEF Scan!EmitFinished
  <2>2. Len(scanSignals') = Len(scanSignals) + 1 /\ Len(scanSignals) \in Nat
    BY <2>1
  <2>3. scanSignals' # <<>>
    BY <2>2
  <2> QED BY <1>0, <1>8, <2>3 DEF Scan!EmitFinished
<1> QED
  BY <1>1, <1>2, <1>3, <1>4, <1>5, <1>6, <1>7, <1>8 DEF Scan!Next, Scan!ScanStep

\* The invariant of the scan page, whatever component runs.
LEMMA ScanAlways == FairSpec => []ScanInv
<1>1. Init => ScanInv
  BY ScanInit DEF Init
<1>2. ScanInv /\ [Scan!Next]_scanVars => ScanInv'
  <2> SUFFICES ASSUME ScanInv, [Scan!Next]_scanVars PROVE ScanInv'
    OBVIOUS
  <2>1. CASE Scan!Next
    BY <2>1, ScanSteps
  <2>2. CASE UNCHANGED scanVars
    BY <2>2 DEF scanVars, ScanInv, Scan!TypeOK, Scan!RestsAtTheEnd, Scan!KeptIsShown
  <2> QED BY <2>1, <2>2
<1>3. [Next]_clientVars => [Scan!Next]_scanVars
  BY DEF Next, clientVars
<1> QED BY <1>1, <1>2, <1>3, PTL DEF FairSpec

\* The stage the update page is in, by what is under way.
StageInv ==
    /\ task.mode # "none" => signal = Update!NoSignal
    /\ task.mode = "none" => ~task.began
    /\ "check" \in {task.mode, signal.of} => handlers = {"check"}
    /\ handlers = {"download"} \/ "download" \in {task.mode, signal.of} =>
          info.kind \in Update!Kinds
    /\ "download" \in {task.mode, signal.of} => installer = info.kind
    /\ task.mode = "install" => installer = "full"

UpdateInv ==
    /\ Update!TypeOK
    /\ StageInv
    /\ Update!ButtonDoesWhatItSays
    /\ Update!ExitsAfterHandOver

\* Whatever kind of installation it is, the button says 'check'.
LEMMA UpdateInit == Update!Init => UpdateInv
<1> SUFFICES ASSUME Update!Init PROVE UpdateInv
  OBVIOUS
<1> USE DEF Update!Init, Update!NoJob, Update!NoSignal
<1>1. task \in [mode : Update!Modes \cup {"none"}, began : BOOLEAN]
  OBVIOUS
<1>2. signal \in [of : Update!Modes \cup {"none"}, good : BOOLEAN,
                  offer : Update!Offers \cup {Update!NoInfo}]
  OBVIOUS
<1>3. Update!TypeOK
  BY <1>1, <1>2 DEF Update!TypeOK
<1>4. StageInv
  BY DEF StageInv
<1>5. Update!ButtonDoesWhatItSays /\ Update!ExitsAfterHandOver
  BY DEF Update!ButtonDoesWhatItSays, Update!ExitsAfterHandOver, Update!Says
<1> QED BY <1>3, <1>4, <1>5 DEF UpdateInv

\* A package and to whom it is for; nobody is handed the empty one.
Packages == {<<"nsis", "full">>, <<"service", "incremental">>}
HandedRight == handed \in Packages \cup {<<>>} /\ (exiting => handed \in Packages)

LEMMA NoEmptyPackage == \A h \in Packages : h # <<>> /\ h \in {"nsis", "service"} \X Update!Kinds
BY DEF Packages, Update!Kinds

LEMMA HandedIs == HandedRight <=> Update!ExitsAfterHandOver
BY NoEmptyPackage DEF HandedRight, Update!ExitsAfterHandOver, Packages

\* What _apply_go_update does: the button offers one thing or is left as it is,
\* and a package is handed to whom it is for.
LEMMA Applies ==
  ASSUME NEW say \in {"installing", text}, Update!Apply(say), HandedRight,
         exiting \in BOOLEAN, mute \in BOOLEAN
  PROVE  /\ \/ text' = say /\ UNCHANGED <<enabled, handlers>>
            \/ text' = "page" /\ handlers' = {"page"} /\ enabled' = TRUE
            \/ text' = "retry" /\ handlers' = {"apply"} /\ enabled' = TRUE
         /\ exiting' \in BOOLEAN /\ mute' \in BOOLEAN
         /\ HandedRight'
<1>1. PICK pending \in Update!Kinds \cup {"none"}, there \in BOOLEAN,
           runs \in BOOLEAN, reply \in {"none", "error", "ok"} :
        \/ handed' = <<"nsis", "full">> /\ exiting' = TRUE /\ Update!Still(say) /\ UNCHANGED mute
        \/ Update!Offer("page", "page") /\ UNCHANGED <<handed, exiting, mute>>
        \/ mute' = TRUE /\ Update!Still(say) /\ UNCHANGED <<handed, exiting>>
        \/ /\ \/ /\ handed' = <<"service", "incremental">> /\ exiting' = TRUE
                 /\ Update!Still(say)
              \/ Update!Offer("retry", "apply") /\ UNCHANGED <<handed, exiting>>
           /\ UNCHANGED mute
  BY DEF Update!Apply
<1>2. UNCHANGED mute \/ mute' = TRUE
  BY <1>1
<1>3. \/ UNCHANGED <<handed, exiting>>
      \/ exiting' = TRUE /\ handed' \in Packages
  BY <1>1 DEF Packages
<1>4. \/ Update!Still(say)
      \/ Update!Offer("page", "page")
      \/ Update!Offer("retry", "apply")
  BY <1>1
<1>5. \/ text' = say /\ UNCHANGED <<enabled, handlers>>
      \/ text' = "page" /\ handlers' = {"page"} /\ enabled' = TRUE
      \/ text' = "retry" /\ handlers' = {"apply"} /\ enabled' = TRUE
  BY <1>4 DEF Update!Still, Update!Offer
<1>6. HandedRight'
  BY <1>3 DEF HandedRight
<1> QED BY <1>2, <1>3, <1>5, <1>6

\* Only the right packages are handed over.
LEMMA HandsOver ==
  ASSUME UpdateInv, Update!Next
  PROVE  HandedRight' /\ exiting' \in BOOLEAN /\ mute' \in BOOLEAN
<1>0. HandedRight /\ exiting \in BOOLEAN /\ mute \in BOOLEAN
  BY HandedIs DEF UpdateInv, Update!TypeOK
<1>1. CASE UNCHANGED <<handed, exiting>> /\ (mute' = TRUE \/ mute' = mute)
  BY <1>0, <1>1 DEF HandedRight
<1>2. CASE Update!ApplyAgain
  BY <1>0, <1>2, Applies DEF Update!ApplyAgain
<1>3. CASE Update!InstallEnds
  <2>1. task.mode = "install" /\ installer = "full"
    BY <1>3 DEF Update!InstallEnds, UpdateInv, StageInv
  <2>2. UNCHANGED <<handed, exiting>> \/ (exiting' = TRUE /\ handed' = <<"nsis", installer>>)
    BY <1>3 DEF Update!InstallEnds, Update!Emit
  <2>3. mute' = mute
    BY <1>3 DEF Update!InstallEnds
  <2>4. CASE exiting' = TRUE /\ handed' = <<"nsis", installer>>
    <3>1. handed' \in Packages
      BY <2>1, <2>4 DEF Packages
    <3> QED BY <1>0, <2>3, <2>4, <3>1 DEF HandedRight
  <2>5. CASE UNCHANGED <<handed, exiting>>
    BY <1>0, <2>3, <2>5 DEF HandedRight
  <2> QED BY <2>2, <2>4, <2>5
<1>4. CASE Update!OnDownloadFinished
  BY <1>0, <1>1, <1>4, Applies DEF Update!OnDownloadFinished
<1>5. CASE Update!Cleanup
  BY <1>0, <1>5 DEF Update!Cleanup, HandedRight
<1> QED
  BY <1>1, <1>2, <1>3, <1>4, <1>5
  DEF Update!Next, Update!WorkerStep, Update!Deliver, Update!CheckUpdate,
      Update!StartDownload, Update!Begin, Update!CheckEnds, Update!DownloadEnds,
      Update!WorkerRaises, Update!OnCheckFinished, Update!OnInstallLaunched

\* What the two records are, field by field.
LEMMA Records ==
  ASSUME Update!TypeOK
  PROVE  /\ task.mode \in Update!Modes \cup {"none"} /\ task.began \in BOOLEAN
         /\ task = [mode |-> task.mode, began |-> task.began]
         /\ signal.of \in Update!Modes \cup {"none"} /\ signal.good \in BOOLEAN
         /\ signal.offer \in Update!Offers \cup {Update!NoInfo}
BY DEF Update!TypeOK

\* Every step keeps the types.
LEMMA UpdateTypes ==
  ASSUME UpdateInv, Update!Next
  PROVE  Update!TypeOK'
<1>1. HandedRight' /\ exiting' \in BOOLEAN /\ mute' \in BOOLEAN
  BY HandsOver
<1>2. handed' \in ({"nsis", "service"} \X Update!Kinds) \cup {<<>>}
  BY <1>1, NoEmptyPackage DEF HandedRight
<1>3. Update!TypeOK
  BY DEF UpdateInv
<1>4. task' \in [mode : Update!Modes \cup {"none"}, began : BOOLEAN]
  <2>1. \/ task' = task
        \/ \E m \in Update!Modes \cup {"none"}, b \in BOOLEAN : task' = [mode |-> m, began |-> b]
    BY <1>3, Records DEF Update!Next, Update!CheckUpdate, Update!StartDownload,
       Update!ApplyAgain, Update!WorkerStep, Update!Begin, Update!CheckEnds,
       Update!DownloadEnds, Update!WorkerRaises, Update!InstallEnds, Update!Deliver,
       Update!OnCheckFinished, Update!OnDownloadFinished, Update!OnInstallLaunched,
       Update!Cleanup, Update!StartWorker, Update!Emit, Update!NoJob, Update!Modes
  <2> QED BY <1>3, <2>1 DEF Update!TypeOK
<1>5. signal' \in [of : Update!Modes \cup {"none"}, good : BOOLEAN,
                   offer : Update!Offers \cup {Update!NoInfo}]
  <2>1. \/ signal' = signal
        \/ \E m \in Update!Modes \cup {"none"}, b \in BOOLEAN,
              o \in Update!Offers \cup {Update!NoInfo} :
              signal' = [of |-> m, good |-> b, offer |-> o]
    BY DEF Update!Next, Update!CheckUpdate, Update!StartDownload,
       Update!ApplyAgain, Update!WorkerStep, Update!Begin, Update!CheckEnds,
       Update!DownloadEnds, Update!WorkerRaises, Update!InstallEnds, Update!Deliver,
       Update!OnCheckFinished, Update!OnDownloadFinished, Update!OnInstallLaunched,
       Update!Cleanup, Update!StartWorker, Update!Emit, Update!NoSignal, Update!Modes
  <2> QED BY <1>3, <2>1 DEF Update!TypeOK
<1>6. info' \in Update!Offers \cup {Update!NoInfo}
  BY <1>3, Records DEF Update!TypeOK, Update!Next, Update!CheckUpdate, Update!StartDownload,
     Update!ApplyAgain, Update!WorkerStep, Update!Begin, Update!CheckEnds,
     Update!DownloadEnds, Update!WorkerRaises, Update!InstallEnds, Update!Deliver,
     Update!OnCheckFinished, Update!OnDownloadFinished, Update!OnInstallLaunched,
     Update!Cleanup
<1>7. /\ thread' \in BOOLEAN /\ frozen' \in BOOLEAN
      /\ package' \in {"absent", "partial", "whole", "short"}
  BY <1>3 DEF Update!TypeOK, Update!Next, Update!StartWorker, Update!CheckUpdate, Update!StartDownload,
     Update!ApplyAgain, Update!WorkerStep, Update!Begin, Update!CheckEnds,
     Update!DownloadEnds, Update!WorkerRaises, Update!InstallEnds, Update!Deliver,
     Update!OnCheckFinished, Update!OnDownloadFinished, Update!OnInstallLaunched,
     Update!Cleanup
<1>8. /\ text' \in {"check", "retry", "download", "page",
                    "checking", "preparing", "installing"}
      /\ enabled' \in BOOLEAN
      /\ handlers' \subseteq {"check", "download", "page", "apply"}
  <2>1. CASE Update!ApplyAgain \/ Update!OnDownloadFinished
    BY <1>3, <2>1, Applies, HandedIs DEF UpdateInv, Update!TypeOK, Update!ApplyAgain,
       Update!OnDownloadFinished, Update!Offer, Update!Busy
  <2>2. CASE ~(Update!ApplyAgain \/ Update!OnDownloadFinished)
    BY <1>3, <2>2 DEF Update!TypeOK, Update!Next, Update!Busy, Update!Offer,
     Update!CheckUpdate, Update!StartDownload,
     Update!WorkerStep, Update!Begin, Update!CheckEnds,
     Update!DownloadEnds, Update!WorkerRaises, Update!InstallEnds, Update!Deliver,
     Update!OnCheckFinished, Update!OnInstallLaunched, Update!Cleanup
  <2> QED BY <2>1, <2>2
<1>9. installer' \in Update!Kinds \cup {"none"}
  <2>1. CASE Update!StartDownload
    <3>1. handlers = {"download"} /\ installer' = info.kind
      BY <2>1 DEF Update!StartDownload, UpdateInv, Update!ButtonDoesWhatItSays
    <3> QED BY <3>1 DEF UpdateInv, StageInv
  <2>2. CASE ~Update!StartDownload
    BY <1>3, <2>2 DEF Update!TypeOK, Update!Next, Update!CheckUpdate, Update!ApplyAgain,
       Update!WorkerStep, Update!Begin, Update!CheckEnds, Update!DownloadEnds,
       Update!WorkerRaises, Update!InstallEnds, Update!Deliver, Update!OnCheckFinished,
       Update!OnDownloadFinished, Update!OnInstallLaunched, Update!Cleanup
  <2> QED BY <2>1, <2>2
<1> QED BY <1>1, <1>2, <1>4, <1>5, <1>6, <1>7, <1>8, <1>9 DEF Update!TypeOK

\* What the button does, and that nothing is under way behind it.
Quiet == task.mode = "none" /\ ~task.began /\ signal = Update!NoSignal

LEMMA ButtonIs ==
  ASSUME Update!TypeOK
  PROVE  Update!ButtonDoesWhatItSays <=>
           (enabled => Quiet /\ \E h \in Update!Says[text] : handlers = {h})
BY Records DEF Update!ButtonDoesWhatItSays, Quiet, Update!NoJob

\* Every step keeps the stage and what the button does in it.
LEMMA StageSteps ==
  ASSUME UpdateInv, Update!Next, Update!TypeOK'
  PROVE  StageInv' /\ (enabled' => Quiet' /\ \E h \in Update!Says[text'] : handlers' = {h})
<1>1. Update!TypeOK /\ StageInv /\ (enabled => Quiet /\ \E h \in Update!Says[text] : handlers = {h})
  BY ButtonIs DEF UpdateInv
<1> USE <1>1, Records DEF StageInv, Quiet, Update!NoJob, Update!NoSignal, Update!Says, Update!Modes
<1>2. CASE Update!CheckUpdate
  BY <1>2 DEF Update!CheckUpdate, Update!Busy, Update!StartWorker
<1>3. CASE Update!StartDownload
  BY <1>3 DEF Update!StartDownload, Update!Busy, Update!StartWorker
<1>4. CASE Update!ApplyAgain
  <2>1. Quiet /\ "apply" \in handlers /\ handlers = {"apply"} /\ enabled
    BY <1>4 DEF Update!ApplyAgain
  <2>2. /\ \/ text' = text /\ UNCHANGED <<enabled, handlers>>
           \/ text' = "page" /\ handlers' = {"page"}
           \/ text' = "retry" /\ handlers' = {"apply"}
        /\ UNCHANGED <<info, installer, task, signal>>
    BY <1>4, Applies, HandedIs DEF Update!ApplyAgain, UpdateInv, Update!TypeOK
  <2>3. Quiet' /\ handlers' \in {{"page"}, {"apply"}}
    BY <2>1, <2>2
  <2>4. StageInv'
    BY <2>3
  <2>5. enabled' => \E h \in Update!Says[text'] : handlers' = {h}
    BY <2>1, <2>2
  <2> QED BY <2>3, <2>4, <2>5
<1>5. CASE Update!Begin
  BY <1>5 DEF Update!Begin
<1>6. CASE Update!CheckEnds
  BY <1>6 DEF Update!CheckEnds, Update!Emit
<1>7. CASE Update!DownloadEnds
  BY <1>7 DEF Update!DownloadEnds, Update!Emit
<1>8. CASE Update!WorkerRaises
  BY <1>8 DEF Update!WorkerRaises
<1>9. CASE Update!InstallEnds
  BY <1>9 DEF Update!InstallEnds, Update!Emit
<1>10. CASE Update!OnCheckFinished
  <2>1. /\ handlers = {"check"} /\ task.mode = "none" /\ ~task.began
        /\ UNCHANGED <<task, installer>> /\ signal' = Update!NoSignal
    BY <1>10 DEF Update!OnCheckFinished
  <2>2. signal.offer.newer => signal.offer.kind \in Update!Kinds \cup {"none"}
    BY DEF Update!Offers, Update!NoInfo
  <2>3. \/ text' = "retry" /\ handlers' = {"check"}
        \/ text' = "check" /\ handlers' = {"check"}
        \/ text' = "download" /\ handlers' = {"download"} /\ info'.kind \in Update!Kinds
        \/ text' = "page" /\ handlers' = {"page"}
    BY <1>10, <2>1, <2>2 DEF Update!OnCheckFinished, Update!Offer
  <2> QED BY <2>1, <2>3
<1>11. CASE Update!OnDownloadFinished
  <2>1. /\ info.kind \in Update!Kinds /\ installer = info.kind /\ ~enabled
        /\ task.mode = "none" /\ ~task.began
        /\ UNCHANGED <<info, installer>> /\ signal' = Update!NoSignal
    BY <1>11 DEF Update!OnDownloadFinished
  <2>2. CASE ~signal.good
    BY <1>11, <2>1, <2>2 DEF Update!OnDownloadFinished, Update!Offer
  <2>3. CASE signal.good /\ info.kind = "incremental"
    <3>1. /\ \/ UNCHANGED <<enabled, handlers>>
             \/ text' = "page" /\ handlers' = {"page"}
             \/ text' = "retry" /\ handlers' = {"apply"}
          /\ UNCHANGED task
      BY <1>11, <2>3, Applies, HandedIs DEF Update!OnDownloadFinished, UpdateInv, Update!TypeOK
    <3> QED BY <2>1, <3>1
  <2>4. CASE signal.good /\ info.kind # "incremental"
    BY <1>11, <2>1, <2>4
    DEF Update!OnDownloadFinished, Update!Busy, Update!StartWorker, Update!Kinds
  <2> QED BY <2>2, <2>3, <2>4
<1>12. CASE Update!OnInstallLaunched
  BY <1>12 DEF Update!OnInstallLaunched, Update!Offer
<1>13. CASE Update!Cleanup
  BY <1>13 DEF Update!Cleanup
<1> QED
  BY <1>2, <1>3, <1>4, <1>5, <1>6, <1>7, <1>8, <1>9, <1>10, <1>11, <1>12, <1>13
  DEF Update!Next, Update!WorkerStep, Update!Deliver

\* Every step keeps the invariant.
LEMMA UpdateSteps ==
  ASSUME UpdateInv, Update!Next
  PROVE  UpdateInv'
<1>1. Update!TypeOK' /\ HandedRight'
  BY UpdateTypes, HandsOver
<1>2. Update!ExitsAfterHandOver'
  BY <1>1, NoEmptyPackage DEF HandedRight, Update!ExitsAfterHandOver, Packages
<1>3. StageInv' /\ (enabled' => Quiet' /\ \E h \in Update!Says[text'] : handlers' = {h})
  BY <1>1, StageSteps
<1>4. task' = [mode |-> task'.mode, began |-> task'.began]
  BY <1>1 DEF Update!TypeOK
<1>5. Update!ButtonDoesWhatItSays'
  BY <1>3, <1>4 DEF Update!ButtonDoesWhatItSays, Quiet, Update!NoJob
<1> QED BY <1>1, <1>2, <1>3, <1>5 DEF UpdateInv

\* The invariant of the update page, whatever component runs.
LEMMA UpdateAlways == FairSpec => []UpdateInv
<1>1. Init => UpdateInv
  BY UpdateInit DEF Init
<1>2. UpdateInv /\ [Update!Next]_updateVars => UpdateInv'
  <2> SUFFICES ASSUME UpdateInv, [Update!Next]_updateVars PROVE UpdateInv'
    OBVIOUS
  <2>1. CASE Update!Next
    BY <2>1, UpdateSteps
  <2>2. CASE UNCHANGED updateVars
    BY <2>2 DEF updateVars, UpdateInv, Update!TypeOK, StageInv, Update!ButtonDoesWhatItSays,
       Update!ExitsAfterHandOver
  <2> QED BY <2>1, <2>2
<1>3. [Next]_clientVars => [Update!Next]_updateVars
  BY DEF Next, clientVars
<1> QED BY <1>1, <1>2, <1>3, PTL DEF FairSpec

\* The buttons of the scan page and of the update page do what they say, and
\* are at rest when nothing runs, in whatever order clicks, cancels and late
\* signals come.
THEOREM ButtonsAreRight == FairSpec => []ButtonsRight
<1>1. ScanInv /\ UpdateInv => ButtonsRight
  BY DEF ButtonsRight, ScanInv, UpdateInv
<1> QED BY <1>1, ScanAlways, UpdateAlways, PTL

-----------------------------------------------------------------------------
(* The window. *)

\* What quick print follows is its last submission, or nothing when that had
\* none accepted.
WindowInv ==
    /\ Window!TypeOK
    /\ tracking \subseteq last
    /\ Window!LabelIsOfLast
    /\ Window!NothingUnsavedUnseen

\* The program starts with nothing printed.
LEMMA WindowInit == Window!Init => WindowInv
<1> SUFFICES ASSUME Window!Init PROVE WindowInv
  OBVIOUS
<1> USE DEF Window!Init
<1>1. repo \in [Jobs -> Window!Status] /\ signals \in Seq(Window!Events)
  BY DEF Window!Status
<1>2. Window!TypeOK
  BY <1>1 DEF Window!TypeOK, Window!Pages
<1> QED BY <1>2 DEF WindowInv, Window!LabelIsOfLast, Window!NothingUnsavedUnseen

\* The window's own copy of the library's operator.
LEMMA SameCardinality == \A S : Window!Cardinality(S) = Cardinality(S)
BY DEF Window!Cardinality, Cardinality

\* The events of a batch of cancelled jobs, in whatever order they come.
LEMMA BatchSignals ==
  ASSUME Window!TypeOK, Window!BatchCancel
  PROVE  signals' \in Seq(Window!Events)
<1> DEFINE Q == {j \in Jobs : repo[j] = "queued"}
<1>1. PICK n \in 0..Window!Cardinality(Q) : \E order \in [1..n -> Q] :
         signals' = signals \o [i \in 1..n |-> <<order[i], "failed">>]
  BY DEF Window!BatchCancel
<1>2. Window!Cardinality(Q) \in Nat
  BY ClientConstants, SameCardinality, FS_Subset, FS_CardinalityType
<1>3. PICK order \in [1..n -> Q] :
         signals' = signals \o [i \in 1..n |-> <<order[i], "failed">>]
  BY <1>1
<1> DEFINE batch == [i \in 1..n |-> <<order[i], "failed">>]
<1>4. batch \in [1..n -> Window!Events]
  BY <1>3 DEF Window!Events, Window!Status
<1> HIDE DEF batch
<1>5. batch \in Seq(Window!Events)
  BY <1>2, <1>4, Sequence
<1>6. signals' = signals \o batch
  BY <1>3 DEF batch
<1> QED BY <1>5, <1>6 DEF Window!TypeOK

\* The steps that change what the window shows.
LEMMA WindowMoves ==
  ASSUME Window!Next
  PROVE  \/ UNCHANGED <<Window!guiVars, last>>
         \/ \E to \in Window!Pages : Window!Navigate(to)
         \/ Window!ShowWindow \/ Window!HideWindow \/ Window!OnJobStatus
         \/ Window!SelectFiles \/ Window!RemoveFiles \/ Window!ConfirmClear \/ Window!Submit
BY DEF Window!Next, Window!WorkerWrites, Window!CancelJob, Window!Owe,
     Window!Publish, Window!Upload,
       Window!TimerTicks, Window!BatchCancel, Window!BatchRetry

\* Every step keeps the types.
LEMMA WindowTypes ==
  ASSUME Window!TypeOK, Window!Next
  PROVE  Window!TypeOK'
<1> USE DEF Window!guiVars
<1>1. repo' \in [Jobs -> Window!Status]
  BY DEF Window!TypeOK, Window!Next, Window!Status, Window!Final, Window!Write, Window!WorkerWrites, Window!CancelJob, Window!Owe,
     Window!Publish,
     Window!Upload, Window!Navigate, Window!ShowWindow, Window!HideWindow, Window!TimerTicks,
     Window!OnJobStatus, Window!SelectFiles, Window!RemoveFiles, Window!ConfirmClear,
     Window!Submit, Window!BatchCancel, Window!BatchRetry
<1>2. signals' \in Seq(Window!Events)
  <2>1. CASE Window!BatchCancel
    BY <2>1, BatchSignals
  <2>2. ASSUME NEW j \in Jobs, Window!Publish(j) PROVE signals' \in Seq(Window!Events)
    <3>1. PICK o \in owed : signals' = Append(signals, <<o[1], o[2]>>) \/ signals' = signals
      BY <2>2 DEF Window!Publish
    <3>2. o \in Jobs \X Window!Status \X {"worker", "handler"}
      BY <3>1 DEF Window!TypeOK, Window!Owed
    <3>3. <<o[1], o[2]>> \in Window!Events
      BY <3>2 DEF Window!Events
    <3> QED BY <3>1, <3>3 DEF Window!TypeOK
  <2>3. CASE Window!OnJobStatus
    BY <2>3 DEF Window!TypeOK, Window!OnJobStatus
  <2>4. CASE signals' = signals
    BY <2>4 DEF Window!TypeOK
  <2> QED BY <2>1, <2>2, <2>3, <2>4 DEF Window!Next, Window!WorkerWrites, Window!CancelJob, Window!Owe,
     Window!Publish,
     Window!Upload, Window!Navigate, Window!ShowWindow, Window!HideWindow, Window!TimerTicks,
     Window!OnJobStatus, Window!SelectFiles, Window!RemoveFiles, Window!ConfirmClear,
     Window!Submit, Window!BatchCancel, Window!BatchRetry
<1>3. /\ page' \in Window!Pages
      /\ visible' \in BOOLEAN /\ timer' \in BOOLEAN /\ files' \in BOOLEAN
  BY WindowMoves DEF Window!TypeOK, Window!Pages, Window!DashSeen, Window!ClearAll,
     Window!Navigate, Window!ShowWindow, Window!HideWindow,
     Window!OnJobStatus, Window!SelectFiles, Window!RemoveFiles, Window!ConfirmClear,
     Window!Submit
<1>4. tracking' \subseteq Jobs /\ last' \subseteq Jobs
  BY WindowMoves DEF Window!TypeOK, Window!ClearAll, Window!Navigate, Window!ShowWindow, Window!HideWindow,
     Window!OnJobStatus, Window!SelectFiles, Window!RemoveFiles, Window!ConfirmClear,
     Window!Submit
<1>5. fresh' \in BOOLEAN
  BY DEF Window!TypeOK, Window!Next, Window!DashSeen, Window!Write, Window!WorkerWrites, Window!CancelJob, Window!Owe,
     Window!Publish,
     Window!Upload, Window!Navigate, Window!ShowWindow, Window!HideWindow, Window!TimerTicks,
     Window!OnJobStatus, Window!SelectFiles, Window!RemoveFiles, Window!ConfirmClear,
     Window!Submit, Window!BatchCancel, Window!BatchRetry
<1>6. owed' \subseteq Window!Owed
  <2>1. ASSUME NEW j \in Jobs, Window!WorkerWrites(j) \/ Window!CancelJob(j)
        PROVE  owed' \subseteq Window!Owed
    BY <2>1 DEF Window!TypeOK, Window!WorkerWrites, Window!CancelJob, Window!Owe, Window!Owed,
       Window!Status, Window!Final
  <2>2. CASE owed' \subseteq owed
    BY <2>2 DEF Window!TypeOK
  <2> QED BY <2>1, <2>2 DEF Window!Next, Window!WorkerWrites, Window!CancelJob, Window!Owe,
     Window!Publish,
     Window!Upload, Window!Navigate, Window!ShowWindow, Window!HideWindow, Window!TimerTicks,
     Window!OnJobStatus, Window!SelectFiles, Window!RemoveFiles, Window!ConfirmClear,
     Window!Submit, Window!BatchCancel, Window!BatchRetry
<1>7. signals # <<>> => Head(signals) \in Window!Events
  BY DEF Window!TypeOK
<1>8. told' \subseteq Jobs
  BY <1>7 DEF Window!TypeOK, Window!Next, Window!Events, Window!WorkerWrites, Window!CancelJob, Window!Owe,
     Window!Publish,
     Window!Upload, Window!Navigate, Window!ShowWindow, Window!HideWindow, Window!TimerTicks,
     Window!OnJobStatus, Window!SelectFiles, Window!RemoveFiles, Window!ConfirmClear,
     Window!Submit, Window!BatchCancel, Window!BatchRetry
<1>9. label' \in Window!Events \cup {Window!NoLabel}
  BY <1>7, WindowMoves DEF Window!TypeOK, Window!ClearAll, Window!QuickHears,
     Window!Navigate, Window!ShowWindow, Window!HideWindow,
     Window!OnJobStatus, Window!SelectFiles, Window!RemoveFiles, Window!ConfirmClear,
     Window!Submit
<1> QED BY <1>1, <1>2, <1>3, <1>4, <1>5, <1>6, <1>8, <1>9 DEF Window!TypeOK

\* Every step keeps the invariant: the label is set by events of the jobs that
\* are followed, and those are the last submission's.
LEMMA WindowSteps ==
  ASSUME WindowInv, Window!Next
  PROVE  WindowInv'
<1>1. Window!TypeOK /\ Window!TypeOK'
  BY WindowTypes DEF WindowInv
<1>2. tracking' \subseteq last'
  BY WindowMoves DEF WindowInv, Window!guiVars, Window!ClearAll, Window!Navigate, Window!ShowWindow, Window!HideWindow,
     Window!OnJobStatus, Window!SelectFiles, Window!RemoveFiles, Window!ConfirmClear,
     Window!Submit
<1>3. Window!LabelIsOfLast'
  <2>1. CASE UNCHANGED <<label, last>> \/ label' = Window!NoLabel
    BY <2>1 DEF WindowInv, Window!LabelIsOfLast
  <2>2. CASE Window!OnJobStatus
    <3>1. last' = last /\ tracking \subseteq last
      BY <2>2 DEF WindowInv, Window!OnJobStatus
    <3>2. label' = label \/ (label' = Head(signals) /\ Head(signals)[1] \in tracking)
      BY <2>2 DEF Window!OnJobStatus, Window!QuickHears
    <3> QED BY <3>1, <3>2 DEF WindowInv, Window!LabelIsOfLast
  <2>3. CASE Window!Submit
    <3>1. label' = Window!NoLabel \/ (label' = label /\ last' = last)
      BY <2>3 DEF Window!Submit
    <3> QED BY <3>1 DEF WindowInv, Window!LabelIsOfLast
  <2> QED
    BY <2>1, <2>2, <2>3, WindowMoves
    DEF Window!guiVars, Window!ClearAll, Window!Navigate, Window!ShowWindow,
        Window!HideWindow, Window!SelectFiles, Window!RemoveFiles, Window!ConfirmClear
<1>4. Window!NothingUnsavedUnseen'
  BY WindowMoves DEF WindowInv, Window!NothingUnsavedUnseen, Window!guiVars,
     Window!ClearAll, Window!Navigate, Window!ShowWindow, Window!HideWindow,
     Window!OnJobStatus, Window!SelectFiles, Window!RemoveFiles, Window!ConfirmClear,
     Window!Submit
<1> QED BY <1>1, <1>2, <1>3, <1>4 DEF WindowInv

\* The invariant of the window, whatever component runs.
LEMMA WindowAlways == FairSpec => []WindowInv
<1>1. Init => WindowInv
  BY WindowInit DEF Init
<1>2. WindowInv /\ [Window!Next]_windowVars => WindowInv'
  <2> SUFFICES ASSUME WindowInv, [Window!Next]_windowVars PROVE WindowInv'
    OBVIOUS
  <2>1. CASE Window!Next
    BY <2>1, WindowSteps
  <2>2. CASE UNCHANGED windowVars
    BY <2>2 DEF windowVars, WindowInv, Window!TypeOK, Window!LabelIsOfLast,
       Window!NothingUnsavedUnseen
  <2> QED BY <2>1, <2>2
<1>3. [Next]_clientVars => [Window!Next]_windowVars
  BY DEF Next, clientVars
<1> QED BY <1>1, <1>2, <1>3, PTL DEF FairSpec

\* What quick print says of its jobs is about the last submission, though events
\* of earlier ones still come, and files are only kept on the page that is shown.
THEOREM WindowIsRight == FairSpec => []WindowRight
<1>1. WindowInv => WindowRight
  BY DEF WindowRight, WindowInv
<1> QED BY <1>1, WindowAlways, PTL

-----------------------------------------------------------------------------
(* The tables. *)

LogLine == [n : 1..MaxReceived, level : Logs!Levels, hidden : BOOLEAN]

\* ShowsTheLast, place by place: what came since the last clear, without what
\* the pause holds back, and of that the last.
Through == Len(kept) - Len(buffer)
Over(n) == IF n > MaxLines THEN n - MaxLines ELSE 0

\* The numbers in a list are those of the last of the first t lines of 'all'.
Follows(list, t, all) ==
    /\ Len(list) = t - Over(t)
    /\ \A n \in 1..Len(list) : list[n].n = all[Over(t) + n].n

LinesInv ==
    /\ Len(buffer) <= Len(kept)
    /\ \A n \in 1..Len(buffer) : buffer[n] = kept[Through + n]
    /\ Follows(lines, Through, kept)
    /\ ~paused => buffer = <<>>

LogsInv ==
    /\ Logs!TypeOK /\ lines \in Seq(LogLine)
    /\ LinesInv
    /\ Logs!HiddenForCause

\* The lines that do not fit.
Dropped(list, entries) == Over(Len(list) + Len(entries))

\* _append_line, line by line: what does not fit goes at the front, and a line
\* that comes is not hidden.
LEMMA Appends ==
  ASSUME NEW list \in Seq(LogLine), NEW entries \in Seq(Logs!Line)
  PROVE  /\ Dropped(list, entries) \in Nat
         /\ Logs!AppendLines(list, entries) \in Seq(LogLine)
         /\ Len(Logs!AppendLines(list, entries))
               = Len(list) + Len(entries) - Dropped(list, entries)
         /\ \A n \in 1..Len(Logs!AppendLines(list, entries)) :
               IF Dropped(list, entries) + n <= Len(list)
               THEN Logs!AppendLines(list, entries)[n] = list[Dropped(list, entries) + n]
               ELSE /\ ~Logs!AppendLines(list, entries)[n].hidden
                    /\ Logs!AppendLines(list, entries)[n].n
                         = entries[Dropped(list, entries) + n - Len(list)].n
<1> DEFINE shows == [i \in DOMAIN entries |-> Logs!Shown(entries[i])]
           long == list \o shows
           all == Len(list) + Len(entries)
<1>1. Len(entries) \in Nat /\ DOMAIN entries = 1..Len(entries) /\ Len(list) \in Nat /\ MaxLines \in Nat
  BY LenProperties, ClientConstants
<1>0. all \in Nat /\ Over(all) \in Nat
  BY <1>1 DEF Over
<1>2. \A i \in 1..Len(entries) : /\ Logs!Shown(entries[i]) \in LogLine
                                 /\ Logs!Shown(entries[i]).n = entries[i].n
                                 /\ ~Logs!Shown(entries[i]).hidden
  <2> SUFFICES ASSUME NEW i \in 1..Len(entries)
      PROVE  /\ Logs!Shown(entries[i]) \in LogLine
             /\ Logs!Shown(entries[i]).n = entries[i].n
             /\ ~Logs!Shown(entries[i]).hidden
    OBVIOUS
  <2>1. entries[i] \in Logs!Line
    BY ElementOfSeq
  <2> QED BY <2>1 DEF Logs!Shown, LogLine, Logs!Line
<1>3. shows \in [1..Len(entries) -> LogLine]
  BY <1>1, <1>2
<1>4. shows \in Seq(LogLine) /\ Len(shows) = Len(entries)
  BY <1>1, <1>3, Sequence
<1>5. \A i \in 1..Len(entries) : shows[i] = Logs!Shown(entries[i])
  BY <1>1
<1>6. Logs!AppendLines(list, entries) =
        IF Len(long) <= MaxLines THEN long ELSE SubSeq(long, Len(long) - MaxLines + 1, Len(long))
  BY DEF Logs!AppendLines, Logs!Longer
<1> HIDE DEF shows
<1>7. /\ long \in Seq(LogLine) /\ Len(long) = all
      /\ \A i \in 1..all : long[i] = IF i <= Len(list) THEN list[i] ELSE shows[i - Len(list)]
  <2>1. /\ list \o shows \in Seq(LogLine)
        /\ Len(list \o shows) = Len(list) + Len(shows)
        /\ \A i \in 1..(Len(list) + Len(shows)) :
              (list \o shows)[i] = IF i <= Len(list) THEN list[i] ELSE shows[i - Len(list)]
    BY <1>4, ConcatProperties, Zenon
  <2> QED BY <1>4, <2>1
<1> HIDE DEF long
<1> DEFINE res == Logs!AppendLines(list, entries)
<1>8. /\ res \in Seq(LogLine) /\ Len(res) = all - Over(all)
      /\ \A n \in 1..Len(res) : res[n] = long[Over(all) + n]
  <2>1. CASE Len(long) <= MaxLines
    <3>1. res = long
      BY <1>6, <2>1, Zenon
    <3>2. Over(all) = 0
      <4>1. \A a, b \in Int : a <= b => (IF a > b THEN a - b ELSE 0) = 0
        OBVIOUS
      <4>2. all <= MaxLines /\ all \in Int /\ MaxLines \in Int
        BY <1>0, <1>1, <1>7, <2>1
      <4> QED BY <4>1, <4>2 DEF Over
    <3>3. all - 0 = all /\ \A n \in 1..all : 0 + n = n
      BY <1>0
    <3> QED BY <1>7, <3>1, <3>2, <3>3
  <2>2. CASE Len(long) > MaxLines
    <3> DEFINE m == all - MaxLines + 1
    <3>1. res = SubSeq(long, m, all)
      <4>1. res = SubSeq(long, Len(long) - MaxLines + 1, Len(long))
        <5>1. \A a, b \in Int : a > b => ~(a <= b)
          OBVIOUS
        <5>2. Len(long) \in Int /\ MaxLines \in Int
          BY <1>0, <1>1, <1>7
        <5>3. ~(Len(long) <= MaxLines)
          BY <2>2, <5>1, <5>2
        <5> QED BY <1>6, <5>3, Zenon
      <4> QED BY <1>7, <4>1, Zenon
    <3>2. m \in Int /\ all \in Int /\ m >= 1 /\ m <= all + 1 /\ Over(all) = m - 1
      BY <1>0, <1>1, <1>7, <2>2 DEF Over
    <3>3. \A k \in m..all : long[k] \in LogLine
      BY <1>7, <3>2, ElementOfSeq
    <3> HIDE DEF m
    <3>4. /\ SubSeq(long, m, all) \in Seq(LogLine)
          /\ Len(SubSeq(long, m, all)) = IF m <= all THEN all - m + 1 ELSE 0
          /\ \A n \in 1..(all - m + 1) : SubSeq(long, m, all)[n] = long[m + n - 1]
      BY <3>2, <3>3, SubSeqProperties
    <3>5. Len(res) = all - Over(all)
      <4>1. IF m <= all THEN all - m + 1 = all - Over(all) ELSE all - Over(all) = 0
        BY <1>0, <3>2
      <4> QED BY <3>1, <3>4, <4>1
    <3>6. ASSUME NEW n \in 1..Len(res) PROVE res[n] = long[Over(all) + n]
      <4>1. n \in Nat /\ n >= 1 /\ n <= all - Over(all)
        BY <1>0, <3>5
      <4>2. n \in 1..(all - m + 1) /\ m + n - 1 = Over(all) + n
        <5>1. \A a, o, k, i \in Int : o = i - 1 /\ k >= 1 /\ k <= a - o =>
                 k \in 1..(a - i + 1) /\ i + k - 1 = o + k
          OBVIOUS
        <5>2. all \in Int /\ Over(all) \in Int /\ m \in Int /\ n \in Int
          BY <1>0, <3>2, <4>1
        <5> QED BY <3>2, <4>1, <5>1, <5>2
      <4> QED BY <3>1, <3>4, <4>2
    <3> QED BY <3>1, <3>4, <3>5, <3>6
  <2> QED BY <1>1, <1>7, <2>1, <2>2
<1> HIDE DEF res
<1>9. ASSUME NEW n \in 1..Len(res)
      PROVE  IF Over(all) + n <= Len(list) THEN res[n] = list[Over(all) + n]
             ELSE /\ ~res[n].hidden
                  /\ res[n].n = entries[Over(all) + n - Len(list)].n
  <2>1. Over(all) + n \in 1..all /\ res[n] = long[Over(all) + n]
    BY <1>1, <1>8 DEF Over
  <2>2. Over(all) + n > Len(list) => Over(all) + n - Len(list) \in 1..Len(entries)
    <3>1. n \in Nat /\ n >= 1 /\ n <= all - Over(all)
      BY <1>0, <1>8
    <3>2. Len(entries) \in Nat /\ Len(list) \in Nat
      BY <1>1
    <3> QED BY <1>0, <3>1, <3>2
  <2>3. CASE Over(all) + n <= Len(list)
    BY <1>7, <2>1, <2>3
  <2>4. CASE Over(all) + n > Len(list)
    <3>0. (Over(all) + n) - Len(list) = Over(all) + n - Len(list)
      <4>1. \A o, k, l \in Int : (o + k) - l = o + k - l
        OBVIOUS
      <4> QED BY <1>0, <1>1, <1>8, <4>1
    <3>1. (Over(all) + n) - Len(list) \in 1..Len(entries)
      BY <2>2, <2>4, <3>0
    <3>2. ~(Over(all) + n <= Len(list))
      BY <1>0, <1>1, <1>8, <2>4
    <3>3. res[n] = shows[(Over(all) + n) - Len(list)]
      <4>1. \A i \in 1..all : ~(i <= Len(list)) => long[i] = shows[i - Len(list)]
        BY <1>7
      <4> QED BY <2>1, <3>2, <4>1, Zenon
    <3>4. res[n] = Logs!Shown(entries[(Over(all) + n) - Len(list)])
      BY <1>5, <3>1, <3>3
    <3> QED BY <1>2, <3>0, <3>1, <3>2, <3>4
  <2> QED BY <1>0, <1>1, <2>1, <2>3, <2>4
<1> QED BY <1>0, <1>8, <1>9 DEF res, Dropped

\* The entries are those of 'all' after the first t.
Continues(entries, t, all) == \A m \in 1..Len(entries) : entries[m].n = all[t + m].n

\* What goes at the front, of what was kept and of what comes.
LEMMA OverAgain ==
  ASSUME NEW t \in Nat, NEW e \in Nat
  PROVE  /\ Over(t) \in Nat /\ t - Over(t) \in Nat
         /\ Over(t + e) = Over(t) + Over((t - Over(t)) + e)
BY ClientConstants DEF Over

\* Places in a list that has lost d lines at the front.
LEMMA Places ==
  ASSUME NEW l \in Nat, NEW e \in Nat, NEW d \in Nat, NEW n \in 1..(l + e - d)
  PROVE  /\ n \in Nat
         /\ d + n <= l => d + n \in 1..l
         /\ ~(d + n <= l) => d + n - l \in 1..e
OBVIOUS

\* Lines that come next in 'all' may be appended.
LEMMA Follow ==
  ASSUME NEW list \in Seq(LogLine), NEW entries \in Seq(Logs!Line), NEW t \in Nat, NEW all,
         Follows(list, t, all), Continues(entries, t, all)
  PROVE  Follows(Logs!AppendLines(list, entries), t + Len(entries), all)
<1> DEFINE res == Logs!AppendLines(list, entries)
           d == Dropped(list, entries)
<1>1. Len(entries) \in Nat /\ Len(list) \in Nat
  BY LenProperties
<1>2. d \in Nat /\ Len(res) = Len(list) + Len(entries) - d
  BY Appends
<1>3. Len(list) = t - Over(t)
  BY DEF Follows
<1>4. Over(t) \in Nat /\ Over(t + Len(entries)) = Over(t) + d
  BY <1>1, <1>3, OverAgain DEF Dropped
<1> HIDE DEF d, res
<1>5. Len(res) = (t + Len(entries)) - Over(t + Len(entries))
  <2>1. \A l, k, o, g \in Int : l = t - o => l + k - g = (t + k) - (o + g)
    OBVIOUS
  <2> QED BY <1>1, <1>2, <1>3, <1>4, <2>1
<1>6. ASSUME NEW n \in 1..Len(res) PROVE res[n].n = all[Over(t + Len(entries)) + n].n
  <2>1. /\ n \in Nat
        /\ d + n <= Len(list) => d + n \in 1..Len(list)
        /\ ~(d + n <= Len(list)) => d + n - Len(list) \in 1..Len(entries)
    BY <1>1, <1>2, Places
  <2>2. CASE d + n <= Len(list)
    <3>1. Over(t) + (d + n) = Over(t + Len(entries)) + n
      <4>1. \A o, g, k \in Int : o + (g + k) = (o + g) + k
        OBVIOUS
      <4> QED BY <1>2, <1>4, <2>1, <4>1
    <3>2. res[n] = list[d + n]
      BY <2>2, Appends DEF d, res
    <3>3. list[d + n].n = all[Over(t) + (d + n)].n
      BY <2>1, <2>2 DEF Follows
    <3> QED BY <3>1, <3>2, <3>3
  <2>3. CASE ~(d + n <= Len(list))
    <3>1. t + (d + n - Len(list)) = Over(t + Len(entries)) + n
      <4>1. \A l, k, o, g \in Int : l = t - o => t + (g + k - l) = (o + g) + k
        OBVIOUS
      <4>2. Len(list) \in Int /\ n \in Int /\ Over(t) \in Int /\ d \in Int
        BY <1>1, <1>2, <1>4, <2>1
      <4>3. t + (d + n - Len(list)) = (Over(t) + d) + n
        BY <1>3, <4>1, <4>2
      <4> QED BY <1>4, <4>3
    <3>2. res[n].n = entries[d + n - Len(list)].n
      BY <2>3, Appends DEF d, res
    <3>3. entries[d + n - Len(list)].n = all[t + (d + n - Len(list))].n
      BY <2>1, <2>3 DEF Continues
    <3> QED BY <3>1, <3>2, <3>3
  <2> QED BY <2>2, <2>3
<1> QED BY <1>5, <1>6 DEF Follows, res

\* No line is hidden but for its level.
Cause(list) ==
    \A i \in 1..Len(list) : list[i].hidden => ~Logs!Matches(list[i].level, filter, search)

LEMMA CauseGrows ==
  ASSUME NEW list \in Seq(LogLine), NEW entries \in Seq(Logs!Line), Cause(list)
  PROVE  Cause(Logs!AppendLines(list, entries))
<1> DEFINE res == Logs!AppendLines(list, entries)
           d == Dropped(list, entries)
<1>1. Len(entries) \in Nat /\ Len(list) \in Nat
  BY LenProperties
<1>2. d \in Nat /\ Len(res) = Len(list) + Len(entries) - d
  BY Appends
<1> HIDE DEF d, res
<1>3. ASSUME NEW i \in 1..Len(res), res[i].hidden
      PROVE  ~Logs!Matches(res[i].level, filter, search)
  <2>1. d + i <= Len(list) => d + i \in 1..Len(list)
    BY <1>1, <1>2, Places
  <2>2. d + i <= Len(list) /\ res[i] = list[d + i]
    BY <1>3, Appends DEF d, res
  <2> QED BY <1>3, <2>1, <2>2 DEF Cause
<1> QED BY <1>3 DEF Cause, res

\* What is shown, once the types of the parts are known.
LEMMA LogsMeans ==
  ASSUME lines \in Seq(LogLine), buffer \in Seq(Logs!Line), kept \in Seq(Logs!Line)
  PROVE  /\ Logs!HiddenForCause <=> (~searchWaits => Cause(lines))
         /\ Len(buffer) \in Nat /\ Len(kept) \in Nat
         /\ LinesInv => Through \in Nat /\ Len(lines) <= MaxLines
<1>1. Len(lines) \in Nat /\ Len(buffer) \in Nat /\ Len(kept) \in Nat /\ DOMAIN lines = 1..Len(lines)
  BY LenProperties
<1>2. Logs!HiddenForCause <=> (~searchWaits => Cause(lines))
  BY <1>1 DEF Logs!HiddenForCause, Cause
<1>3. LinesInv => Through \in Nat /\ Len(lines) <= MaxLines
  <2>1. LinesInv => Through \in Nat /\ Len(lines) = Through - Over(Through)
    BY <1>1 DEF LinesInv, Follows, Through
  <2>2. \A t \in Nat : t - Over(t) <= MaxLines
    BY ClientConstants DEF Over
  <2> QED BY <2>1, <2>2
<1> QED BY <1>1, <1>2, <1>3

LogsParts ==
    /\ lines \in Seq(LogLine) /\ buffer \in Seq(Logs!Line) /\ kept \in Seq(Logs!Line)
    /\ paused \in BOOLEAN /\ searchWaits \in BOOLEAN /\ received \in 0..MaxReceived
    /\ filter \in Logs!Levels \cup {Logs!All} /\ search \in Logs!Levels \cup {Logs!All}
    /\ LinesInv
    /\ ~searchWaits => Cause(lines)

LEMMA LogsWhole == LogsParts => LogsInv
<1> SUFFICES ASSUME LogsParts PROVE LogsInv
  OBVIOUS
<1>1. \A i \in DOMAIN lines : lines[i] \in LogLine
  BY LenProperties DEF LogsParts
<1>2. Len(lines) <= MaxLines /\ Logs!HiddenForCause
  BY LogsMeans DEF LogsParts
<1>3. Logs!TypeOK
  BY <1>1, <1>2 DEF Logs!TypeOK, LogLine, LogsParts
<1> QED BY <1>2, <1>3 DEF LogsInv, LogsParts

LEMMA LogsApart == LogsInv => LogsParts
BY LogsMeans DEF LogsInv, Logs!TypeOK, LogsParts

\* What the log files hold is listed, up to the limit.
LEMMA LogsInit == Logs!Init => LogsInv
<1> SUFFICES ASSUME Logs!Init PROVE LogsInv
  OBVIOUS
<1>1. PICK history \in UNION {[1..k -> Logs!Levels] : k \in 0..(MaxReceived - 1)} :
         LET entries == [i \in DOMAIN history |-> [n |-> i, level |-> history[i]]]
         IN  /\ received = Len(history)
             /\ lines = Logs!AppendLines(<<>>, entries)
             /\ kept = entries
             /\ paused = FALSE /\ buffer = <<>>
             /\ filter = Logs!All /\ search = Logs!All /\ searchWaits = FALSE
  BY DEF Logs!Init
<1>2. PICK k \in 0..(MaxReceived - 1) : history \in [1..k -> Logs!Levels]
  OBVIOUS
<1>3. k \in Nat /\ k \in 0..MaxReceived /\ MaxReceived \in Nat
  BY ClientConstants
<1>4. Len(history) = k
  BY <1>2, <1>3, Sequence
<1>5. kept \in [1..k -> Logs!Line]
  BY <1>1, <1>2, <1>3, ClientConstants DEF Logs!Line
<1>6. kept \in Seq(Logs!Line) /\ Len(kept) = k
  BY <1>3, <1>5, Sequence
<1>7. <<>> \in Seq(LogLine) /\ buffer \in Seq(Logs!Line) /\ Len(buffer) = 0 /\ Len(<<>>) = 0
  BY <1>1, EmptySeq
<1>8. lines = Logs!AppendLines(<<>>, kept)
  BY <1>1
<1>9. Follows(lines, Through, kept)
  <2>1. Over(0) = 0
    BY ClientConstants DEF Over
  <2>2. Follows(<<>>, 0, kept)
    BY <1>7, <2>1 DEF Follows
  <2>3. Continues(kept, 0, kept)
    BY <1>3, <1>6 DEF Continues
  <2>4. Follows(lines, 0 + k, kept)
    BY <1>6, <1>7, <1>8, <2>2, <2>3, Follow
  <2>5. Through = k /\ 0 + k = k
    BY <1>3, <1>6, <1>7 DEF Through
  <2> QED BY <2>4, <2>5
<1>10. lines \in Seq(LogLine) /\ Cause(lines)
  <2>1. Cause(<<>>)
    BY <1>7 DEF Cause
  <2> QED BY <1>6, <1>7, <1>8, <2>1, Appends, CauseGrows
<1>11. LinesInv
  <2>1. \A n \in 1..Len(buffer) : buffer[n] = kept[Through + n]
    BY <1>7
  <2>2. Len(buffer) <= Len(kept)
    BY <1>3, <1>6, <1>7
  <2> QED BY <1>1, <1>9, <2>1, <2>2 DEF LinesInv
<1>12. received \in 0..MaxReceived
  BY <1>1, <1>3, <1>4
<1>13. /\ paused \in BOOLEAN /\ searchWaits \in BOOLEAN
       /\ filter \in Logs!Levels \cup {Logs!All} /\ search \in Logs!Levels \cup {Logs!All}
  BY <1>1
<1> QED BY <1>6, <1>7, <1>10, <1>11, <1>12, <1>13, LogsWhole DEF LogsParts

\* Only the first t lines matter.
LEMMA FollowsSame ==
  ASSUME NEW list \in Seq(LogLine), NEW t \in Nat, NEW all, NEW all2,
         Follows(list, t, all), \A i \in 1..t : all2[i] = all[i]
  PROVE  Follows(list, t, all2)
<1>1. Over(t) \in Nat
  BY OverAgain
<1>2. ASSUME NEW n \in 1..Len(list) PROVE Over(t) + n \in 1..t
  <2>1. Len(list) = t - Over(t)
    BY DEF Follows
  <2> QED BY <1>1, <2>1
<1> QED BY <1>2 DEF Follows

\* A line comes.
LEMMA LogsHear ==
  ASSUME LogsParts, NEW level \in Logs!Levels, Logs!OnLog(level)
  PROVE  LogsParts'
<1> DEFINE line == [n |-> received + 1, level |-> level]
<1>0. /\ lines \in Seq(LogLine) /\ buffer \in Seq(Logs!Line) /\ kept \in Seq(Logs!Line)
      /\ LinesInv /\ (~searchWaits => Cause(lines)) /\ Through \in Nat
      /\ Len(buffer) \in Nat /\ Len(kept) \in Nat
  BY LogsMeans DEF LogsParts
<1>1. line \in Logs!Line /\ received' \in 0..MaxReceived
  BY ClientConstants DEF Logs!OnLog, LogsParts, Logs!Line
<1>2. /\ kept' = Append(kept, line)
      /\ UNCHANGED <<paused, filter, search, searchWaits>>
  BY DEF Logs!OnLog
<1> HIDE DEF line
<1>3. /\ kept' \in Seq(Logs!Line) /\ Len(kept') = Len(kept) + 1
      /\ \A i \in 1..Len(kept) : kept'[i] = kept[i]
      /\ kept'[Len(kept) + 1] = line
  BY <1>0, <1>1, <1>2, AppendProperties
<1>4. Follows(lines, Through, kept')
  <2>1. \A i \in 1..Through : kept'[i] = kept[i]
    BY <1>0, <1>3 DEF Through
  <2> QED BY <1>0, <2>1, FollowsSame DEF LinesInv
<1>5. CASE paused
  <2>1. buffer' = Append(buffer, line) /\ lines' = lines
    BY <1>5 DEF Logs!OnLog, line
  <2>2. /\ buffer' \in Seq(Logs!Line) /\ Len(buffer') = Len(buffer) + 1
        /\ \A i \in 1..Len(buffer) : buffer'[i] = buffer[i]
        /\ buffer'[Len(buffer) + 1] = line
    BY <1>0, <1>1, <2>1, AppendProperties
  <2>3. Through' = Through /\ Through + (Len(buffer) + 1) = Len(kept) + 1
    BY <1>0, <1>3, <2>2 DEF Through
  <2>4. ASSUME NEW n \in 1..Len(buffer') PROVE buffer'[n] = kept'[Through' + n]
    <3>1. CASE n = Len(buffer) + 1
      BY <1>3, <2>2, <2>3, <3>1
    <3>2. CASE n # Len(buffer) + 1
      <4>1. n \in 1..Len(buffer)
        BY <1>0, <2>2, <3>2
      <4>2. buffer[n] = kept[Through + n] /\ Through + n \in 1..Len(kept)
        BY <1>0, <4>1 DEF LinesInv, Through
      <4> QED BY <1>3, <2>2, <2>3, <4>1, <4>2
    <3> QED BY <3>1, <3>2
  <2>5. LinesInv'
    <3>1. Len(buffer') <= Len(kept')
      BY <1>0, <1>3, <2>2 DEF LinesInv
    <3> QED BY <1>2, <1>4, <1>5, <2>1, <2>3, <2>4, <3>1 DEF LinesInv
  <2>6. ~searchWaits' => Cause(lines)'
    BY <1>0, <1>2, <2>1 DEF Cause
  <2> QED BY <1>1, <1>2, <1>3, <2>1, <2>2, <2>5, <2>6 DEF LogsParts
<1>6. CASE ~paused
  <2>1. buffer' = buffer /\ lines' = Logs!AppendLines(lines, <<line>>)
    BY <1>6 DEF Logs!OnLog, line
  <2>2. buffer = <<>> /\ Len(buffer) = 0 /\ Through = Len(kept) /\ Through' = Len(kept) + 1
    BY <1>0, <1>3, <1>6, <2>1, EmptySeq DEF LinesInv, Through
  <2>3. <<line>> \in Seq(Logs!Line) /\ Len(<<line>>) = 1 /\ <<line>>[1] = line
    BY <1>1
  <2>4. Continues(<<line>>, Through, kept')
    BY <1>0, <1>3, <2>2, <2>3 DEF Continues
  <2>5. lines' \in Seq(LogLine)
    BY <1>0, <2>1, <2>3, Appends
  <2>6. Follows(lines', Through', kept')
    BY <1>0, <1>4, <2>1, <2>2, <2>3, <2>4, Follow
  <2>7. LinesInv'
    BY <1>0, <1>2, <1>3, <2>1, <2>2, <2>6 DEF LinesInv
  <2>8. Cause(lines) => Cause(lines')
    BY <1>0, <2>1, <2>3, CauseGrows
  <2>9. ~searchWaits' => Cause(lines)'
    BY <1>0, <1>2, <2>8 DEF Cause
  <2> QED BY <1>0, <1>1, <1>2, <1>3, <2>1, <2>5, <2>7, <2>9 DEF LogsParts
<1> QED BY <1>5, <1>6

\* The pause button.
LEMMA LogsPause ==
  ASSUME LogsParts, Logs!TogglePause
  PROVE  LogsParts'
<1>0. /\ lines \in Seq(LogLine) /\ buffer \in Seq(Logs!Line) /\ kept \in Seq(Logs!Line)
      /\ LinesInv /\ (~searchWaits => Cause(lines)) /\ Through \in Nat
      /\ Len(buffer) \in Nat /\ Len(kept) \in Nat
  BY LogsMeans DEF LogsParts
<1>1. UNCHANGED <<filter, search, searchWaits, received, kept>> /\ paused' \in BOOLEAN
  BY DEF Logs!TogglePause
<1>2. CASE paused
  <2>1. /\ buffer' = <<>> /\ lines' = Logs!AppendLines(lines, buffer)
        /\ kept' = kept /\ Len(buffer') = 0
    BY <1>2, EmptySeq DEF Logs!TogglePause
  <2>2. Through' = Through + Len(buffer) /\ Through' = Len(kept)
    BY <1>0, <2>1 DEF Through
  <2>3. Continues(buffer, Through, kept)
    BY <1>0 DEF LinesInv, Continues
  <2>4. Follows(lines', Through', kept')
    BY <1>0, <2>1, <2>2, <2>3, Follow DEF LinesInv
  <2>5. LinesInv'
    BY <1>0, <2>1, <2>2, <2>4 DEF LinesInv
  <2>6. lines' \in Seq(LogLine) /\ buffer' \in Seq(Logs!Line)
    BY <1>0, <2>1, Appends, EmptySeq
  <2>7. Cause(lines) => Cause(lines')
    BY <1>0, <2>1, CauseGrows
  <2>8. ~searchWaits' => Cause(lines)'
    BY <1>0, <1>1, <2>7 DEF Cause
  <2> QED BY <1>0, <1>1, <2>5, <2>6, <2>8 DEF LogsParts
<1>3. CASE ~paused
  <2>1. paused' = TRUE /\ UNCHANGED <<lines, buffer, kept>>
    BY <1>3 DEF Logs!TogglePause, LogsParts
  <2>2. LinesInv'
    BY <1>0, <2>1 DEF LinesInv, Through
  <2>3. ~searchWaits' => Cause(lines)'
    BY <1>0, <1>1, <2>1 DEF Cause
  <2> QED BY <1>0, <1>1, <2>1, <2>2, <2>3 DEF LogsParts
<1> QED BY <1>2, <1>3

\* The flags are set again, for the filters as they are then.
LEMMA LogsFilter ==
  ASSUME LogsParts, filter' \in Logs!Levels \cup {Logs!All},
         Logs!ApplyFilters(filter', search'), searchWaits' \in BOOLEAN,
         UNCHANGED <<paused, buffer, search, received, kept>>
  PROVE  LogsParts'
<1>0. /\ lines \in Seq(LogLine) /\ LinesInv
      /\ DOMAIN lines = 1..Len(lines) /\ Len(lines) \in Nat
  BY LenProperties DEF LogsParts
<1> DEFINE marked(i) == [lines[i] EXCEPT !.hidden =
                            ~Logs!Matches(lines[i].level, filter', search')]
<1>1. lines' = [i \in 1..Len(lines) |-> marked(i)]
  BY <1>0 DEF Logs!ApplyFilters
<1>2. ASSUME NEW i \in 1..Len(lines)
      PROVE  /\ marked(i) \in LogLine
             /\ marked(i).n = lines[i].n
             /\ marked(i).level = lines[i].level
             /\ marked(i).hidden => ~Logs!Matches(marked(i).level, filter', search')
  <2>1. lines[i] \in LogLine
    BY <1>0, ElementOfSeq
  <2>2. Logs!Matches(lines[i].level, filter', search') \in BOOLEAN
    BY DEF Logs!Matches
  <2> QED BY <2>1, <2>2 DEF LogLine
<1> HIDE DEF marked
<1>3. lines' \in [1..Len(lines) -> LogLine]
  BY <1>1, <1>2
<1>4. lines' \in Seq(LogLine) /\ Len(lines') = Len(lines)
  BY <1>0, <1>3, Sequence
<1>5. \A i \in 1..Len(lines) : lines'[i] = marked(i)
  BY <1>1
<1>6. Cause(lines)'
  BY <1>2, <1>4, <1>5 DEF Cause
<1>7. Follows(lines', Through, kept)
  BY <1>0, <1>2, <1>4, <1>5 DEF LinesInv, Follows
<1>8. LinesInv'
  BY <1>0, <1>7 DEF LinesInv, Through
<1> QED BY <1>4, <1>6, <1>8 DEF LogsParts

\* Every step keeps the invariant.
LEMMA LogsSteps ==
  ASSUME LogsParts, Logs!Next
  PROVE  LogsParts'
<1>1. ASSUME NEW l \in Logs!Levels, Logs!OnLog(l) PROVE LogsParts'
  BY <1>1, LogsHear
<1>2. CASE Logs!TogglePause
  BY <1>2, LogsPause
<1>3. CASE Logs!Clear
  <2>1. /\ lines' = <<>> /\ kept' = buffer
        /\ UNCHANGED <<paused, buffer, filter, search, searchWaits, received>>
    BY <1>3 DEF Logs!Clear
  <2>2. lines' \in Seq(LogLine) /\ Len(lines') = 0
    BY <2>1, EmptySeq
  <2>3. /\ kept' \in Seq(Logs!Line) /\ Len(buffer) \in Nat
        /\ \A n \in 1..Len(buffer) : 0 + n = n
    BY <2>1, LogsMeans DEF LogsParts
  <2>4. Through' = 0 /\ Over(0) = 0
    BY <2>1, <2>3, ClientConstants DEF Through, Over
  <2>5. LinesInv'
    BY <2>1, <2>2, <2>3, <2>4 DEF LinesInv, Follows, LogsParts
  <2>6. Cause(lines)'
    BY <2>2 DEF Cause
  <2> QED BY <2>1, <2>2, <2>3, <2>5, <2>6 DEF LogsParts
<1>4. CASE Logs!SearchTimeout
  BY <1>4, LogsFilter DEF Logs!SearchTimeout, LogsParts
<1>5. ASSUME NEW f \in Logs!Levels \cup {Logs!All}, Logs!ChangeFilter(f) PROVE LogsParts'
  BY <1>5, LogsFilter DEF Logs!ChangeFilter, LogsParts
<1>6. ASSUME NEW f \in Logs!Levels \cup {Logs!All}, Logs!TypeSearch(f) PROVE LogsParts'
  BY <1>6 DEF Logs!TypeSearch, LogsParts, LinesInv, Follows, Through
<1> QED BY <1>1, <1>2, <1>3, <1>4, <1>5, <1>6 DEF Logs!Next

\* The invariant of the log page, whatever component runs.
LEMMA LogsAlways == FairSpec => []LogsInv
<1>1. Init => LogsParts
  BY LogsInit, LogsApart DEF Init
<1>2. LogsParts /\ [Logs!Next]_logVars => LogsParts'
  <2> SUFFICES ASSUME LogsParts, [Logs!Next]_logVars PROVE LogsParts'
    OBVIOUS
  <2>1. CASE Logs!Next
    BY <2>1, LogsSteps
  <2>2. CASE UNCHANGED logVars
    BY <2>2 DEF logVars, LogsParts, LinesInv, Follows, Through, Cause
  <2> QED BY <2>1, <2>2
<1>3. [Next]_clientVars => [Logs!Next]_logVars
  BY DEF Next, clientVars
<1> QED BY <1>1, <1>2, <1>3, LogsWhole, PTL DEF FairSpec

\* What the list shows is what the history says.
LEMMA LogsShow == LogsParts => Logs!ShowsTheLast
<1> SUFFICES ASSUME LogsParts PROVE Logs!ShowsTheLast
  OBVIOUS
<1> DEFINE o == Over(Through)
<1>0. /\ lines \in Seq(LogLine) /\ buffer \in Seq(Logs!Line) /\ kept \in Seq(Logs!Line)
      /\ LinesInv /\ Through \in Nat /\ o \in Nat
      /\ Len(buffer) \in Nat /\ Len(kept) \in Nat /\ DOMAIN lines = 1..Len(lines)
  BY LogsMeans, LenProperties, OverAgain DEF LogsParts
<1> HIDE DEF o
<1>1. SubSeq(kept, Through + 1, Len(kept)) = buffer
  <2>1. \A i \in (Through + 1)..Len(kept) : kept[i] \in Logs!Line
    BY <1>0, ElementOfSeq
  <2>2. /\ SubSeq(kept, Through + 1, Len(kept)) \in Seq(Logs!Line)
        /\ Len(SubSeq(kept, Through + 1, Len(kept)))
              = IF Through + 1 <= Len(kept) THEN Len(kept) - (Through + 1) + 1 ELSE 0
        /\ \A i \in 1..(Len(kept) - (Through + 1) + 1) :
              SubSeq(kept, Through + 1, Len(kept))[i] = kept[(Through + 1) + i - 1]
    BY <1>0, <2>1, SubSeqProperties
  <2> DEFINE rest == SubSeq(kept, Through + 1, Len(kept))
  <2>3. /\ Len(kept) - (Through + 1) + 1 = Len(buffer)
        /\ IF Through + 1 <= Len(kept) THEN Len(buffer) > 0 ELSE Len(buffer) = 0
        /\ \A i \in 1..Len(buffer) : (Through + 1) + i - 1 = Through + i
    BY <1>0 DEF LinesInv, Through
  <2>4. Len(rest) = Len(buffer)
    BY <2>2, <2>3
  <2>5. \A i \in 1..Len(buffer) : rest[i] = buffer[i]
    BY <1>0, <2>2, <2>3 DEF LinesInv
  <2>6. rest \in [1..Len(buffer) -> Logs!Line] /\ buffer \in [1..Len(buffer) -> Logs!Line]
    BY <1>0, <2>2, <2>4, LenProperties
  <2> HIDE DEF rest
  <2>7. rest = buffer
    BY <2>5, <2>6
  <2> QED BY <2>7 DEF rest
<1>2. [i \in DOMAIN lines |-> lines[i].n] = [i \in 1..(Through - o) |-> kept[o + i].n]
  BY <1>0 DEF LinesInv, Follows, o
<1> QED BY <1>1, <1>2 DEF Logs!ShowsTheLast, o, Over, Through

HistoryInv == History!TypeOK /\ History!WalkMissesNothing

\* The place of a number in a finite set of numbers, the greatest first.
Place(S, j) == Cardinality({i \in S : i >= j})

\* The pages are cut one after the other.
LEMMA PageEnds ==
  ASSUME NEW p \in Nat
  PROVE  /\ p * PageSize \in Nat /\ (p + 1) * PageSize \in Nat
         /\ (p + 1) * PageSize = p * PageSize + PageSize
BY ClientConstants

\* A place is at least the first, no two are the same, and a larger set does
\* not move anybody forward.
LEMMA PlaceFirst ==
  ASSUME NEW S \in SUBSET Nat, IsFiniteSet(S), NEW j \in S
  PROVE  Place(S, j) \in Nat \ {0}
<1>1. {i \in S : i >= j} \in SUBSET S /\ j \in {i \in S : i >= j}
  OBVIOUS
<1>2. IsFiniteSet({i \in S : i >= j}) /\ {i \in S : i >= j} # {}
  BY <1>1, FS_Subset
<1> QED BY <1>2, FS_CardinalityType, FS_EmptySet DEF Place

LEMMA PlaceGrows ==
  ASSUME NEW S \in SUBSET Nat, IsFiniteSet(S), NEW T \in SUBSET S, NEW j \in Nat
  PROVE  Place(T, j) <= Place(S, j)
<1>1. {i \in S : i >= j} \in SUBSET S
  OBVIOUS
<1>2. {i \in T : i >= j} \in SUBSET {i \in S : i >= j}
  OBVIOUS
<1>3. IsFiniteSet({i \in S : i >= j})
  BY <1>1, FS_Subset
<1> QED BY <1>2, <1>3, FS_Subset DEF Place

LEMMA PlaceOwn ==
  ASSUME NEW S \in SUBSET Nat, IsFiniteSet(S), NEW i \in S, NEW j \in S, i < j
  PROVE  Place(S, i) # Place(S, j)
<1>1. {k \in S : k >= i} \in SUBSET S
  OBVIOUS
<1>2. {k \in S : k >= j} \in SUBSET {k \in S : k >= i}
  <2>1. \A k \in S : k \in Nat /\ i \in Nat /\ j \in Nat
    OBVIOUS
  <2>2. \A k \in S : k >= j => k >= i
    BY <2>1
  <2> QED BY <2>2
<1>3. i \in {k \in S : k >= i} /\ i \notin {k \in S : k >= j}
  OBVIOUS
<1>4. IsFiniteSet({k \in S : k >= i})
  BY <1>1, FS_Subset
<1>5. {k \in S : k >= i} # {k \in S : k >= j}
  BY <1>3
<1> QED BY <1>2, <1>4, <1>5, FS_Subset DEF Place

\* What the operators of the page are.
LEMMA ListedIs ==
  /\ \A f \in History!Filters : History!Listed(f) \in SUBSET Nat /\ IsFiniteSet(History!Listed(f))
                               /\ History!Listed(f) \in SUBSET History!Ids
  /\ \A f, j : History!Rank(f, j) = Place(History!Listed(f), j)
<1>1. IsFiniteSet(History!Ids) /\ History!Ids \in SUBSET Nat
  BY ClientConstants, FS_Interval DEF History!Ids
<1>2. \A f : History!Listed(f) \in SUBSET History!Ids
  BY DEF History!Listed
<1>3. \A f : IsFiniteSet(History!Listed(f)) /\ History!Listed(f) \in SUBSET Nat
  BY <1>1, <1>2, FS_Subset
<1>4. \A S : History!Cardinality(S) = Cardinality(S)
  BY DEF History!Cardinality, Cardinality
<1> QED BY <1>2, <1>3, <1>4 DEF History!Rank, Place

\* A page holds no more rows than its size.
LEMMA PageFits ==
  ASSUME NEW S \in SUBSET Nat, IsFiniteSet(S), NEW p \in Nat,
         NEW P \in SUBSET S, \A j \in P : p * PageSize < Place(S, j) /\ Place(S, j) <= (p + 1) * PageSize
  PROVE  Cardinality(P) <= PageSize
<1> DEFINE a == p * PageSize + 1
           b == (p + 1) * PageSize
           f == [j \in P |-> Place(S, j)]
<1>1. /\ a \in Int /\ b \in Int /\ PageSize \in Nat
      /\ IF a > b THEN 0 = PageSize ELSE b - a + 1 = PageSize
  BY PageEnds, ClientConstants
<1>2. IsFiniteSet(a..b) /\ Cardinality(a..b) = PageSize
  BY <1>1, FS_Interval
<1>3. IsFiniteSet(P) /\ Cardinality(P) \in Nat
  BY FS_Subset, FS_CardinalityType
<1>4. f \in [P -> a..b]
  <2>1. ASSUME NEW j \in P PROVE Place(S, j) \in a..b
    BY PlaceFirst, PageEnds
  <2> QED BY <2>1
<1>5. ASSUME NEW x \in P, NEW y \in P, x # y PROVE f[x] # f[y]
  <2>1. x < y \/ y < x
    BY <1>5
  <2> QED BY <2>1, PlaceOwn
<1> HIDE DEF f, a, b
<1>6. CASE Cardinality(P) > PageSize
  <2>1. \E x, y \in P : x # y /\ f[x] = f[y]
    BY <1>1, <1>2, <1>3, <1>4, <1>6, FS_PigeonHole
  <2> QED BY <1>5, <2>1
<1> QED BY <1>1, <1>3, <1>6

\* The page that is cut out, for one filter.
LEMMA PageTypes ==
  ASSUME NEW p \in Nat, NEW f \in History!Filters
  PROVE  /\ History!PageOf(f, p) \subseteq History!Ids
         /\ Cardinality(History!PageOf(f, p)) <= PageSize
         /\ \A j \in History!Listed(f) :
               History!Rank(f, j) <= (p + 1) * PageSize /\ ~(History!Rank(f, j) <= p * PageSize)
                  => j \in History!PageOf(f, p)
<1> DEFINE S == History!Listed(f)
           P == History!PageOf(f, p)
<1>1. S \in SUBSET Nat /\ IsFiniteSet(S) /\ S \in SUBSET History!Ids
  BY ListedIs
<1>2. \A j : History!Rank(f, j) = Place(S, j)
  BY ListedIs
<1>3. P = {j \in S : p * PageSize < Place(S, j) /\ Place(S, j) <= (p + 1) * PageSize}
  BY <1>2 DEF History!PageOf
<1> HIDE DEF P, S
<1>4. P \in SUBSET S
     /\ \A j \in P : p * PageSize < Place(S, j) /\ Place(S, j) <= (p + 1) * PageSize
  BY <1>3
<1>5. Cardinality(P) <= PageSize
  BY <1>1, <1>4, PageFits
<1>6. \A j \in S : Place(S, j) \in Nat
  BY <1>1, PlaceFirst
<1>7. \A j \in S : Place(S, j) <= (p + 1) * PageSize /\ ~(Place(S, j) <= p * PageSize) => j \in P
  BY <1>3, <1>6, PageEnds
<1> QED BY <1>1, <1>2, <1>4, <1>5, <1>7 DEF S, P

\* Nothing is listed before the first event.
LEMMA HistoryInit == History!Init => HistoryInv
<1> SUFFICES ASSUME History!Init PROVE HistoryInv
  OBVIOUS
<1>1. History!Cardinality(shown) <= PageSize
  BY FS_EmptySet, ClientConstants DEF History!Init, History!Cardinality, Cardinality
<1>2. status \in [History!Ids -> History!Rows \cup {"none", "deleted"}]
  BY DEF History!Init, History!Rows
<1>3. History!TypeOK
  BY <1>1, <1>2 DEF History!Init, History!TypeOK, History!Filters
<1>4. History!WalkMissesNothing
  BY DEF History!Init, History!WalkMissesNothing, History!Listed
<1> QED BY <1>3, <1>4 DEF HistoryInv

\* The table is filled again, with page p of filter f.
LEMMA Refreshes ==
  ASSUME NEW p \in Nat, NEW f \in History!Filters, History!Refresh(p, f), HistoryInv,
         UNCHANGED status, behind' \in BOOLEAN, newcomers' \subseteq History!Ids,
         walked' = shown' \/ walked' = walked \cup shown'
  PROVE  History!TypeOK'
<1>1. historyPage' = p /\ statusFilter' = f /\ shown' = History!PageOf(f, p)
  BY DEF History!Refresh
<1>2. shown' \subseteq History!Ids /\ History!Cardinality(shown') <= PageSize
  BY <1>1, PageTypes DEF History!Cardinality, Cardinality
<1> QED BY <1>1, <1>2 DEF HistoryInv, History!TypeOK

\* Who sees the page at p, and has seen those before it, has seen all up to it.
LEMMA Walks ==
  ASSUME NEW p \in Nat, History!Refresh(p, "all"), UNCHANGED status,
         shown' \subseteq walked',
         \A j \in History!Listed("all") :
            History!Rank("all", j) <= p * PageSize => j \in walked' \cup newcomers'
  PROVE  History!WalkMissesNothing'
<1>1. "all" \in History!Filters
  BY DEF History!Filters
<1>2. \A j \in History!Listed("all") :
         History!Rank("all", j) <= (p + 1) * PageSize => j \in walked' \cup newcomers'
  BY <1>1, PageTypes DEF History!Refresh
<1>3. historyPage' = p
  BY DEF History!Refresh
<1>4. /\ History!Listed("all")' = History!Listed("all")
      /\ \A j : History!Rank("all", j)' = History!Rank("all", j)
  BY DEF History!Listed, History!Rank
<1> QED BY <1>2, <1>3, <1>4 DEF History!WalkMissesNothing

\* The table changes, what was shown does not: no row that stays comes forward,
\* and who is new is a newcomer.
LEMMA TableChanges ==
  ASSUME HistoryInv, History!TypeOK', UNCHANGED <<historyPage, statusFilter, walked>>,
         newcomers \subseteq newcomers',
         \A j \in History!Listed("all")' : \/ j \in newcomers'
                                           \/ /\ j \in History!Listed("all")
                                              /\ \A i \in History!Listed("all") :
                                                    i >= j => i \in History!Listed("all")'
  PROVE  HistoryInv'
<1>1. "all" \in History!Filters /\ historyPage \in Nat
  BY DEF History!Filters, HistoryInv, History!TypeOK
<1>2. \A j \in History!Listed("all") : History!Rank("all", j) \in Nat
  BY <1>1, ListedIs, PlaceFirst
<1>4. History!Listed("all")' \in SUBSET Nat /\ IsFiniteSet(History!Listed("all")')
  <2>1. IsFiniteSet(History!Ids) /\ History!Ids \in SUBSET Nat
    BY ClientConstants, FS_Interval DEF History!Ids
  <2>2. History!Listed("all")' \in SUBSET History!Ids
    BY DEF History!Listed
  <2> QED BY <2>1, <2>2, FS_Subset
<1>5. \A j : History!Rank("all", j)' = Place(History!Listed("all")', j)
  BY DEF History!Rank, Place, History!Cardinality, Cardinality
<1>3. ASSUME statusFilter' = "all", NEW j \in History!Listed("all")',
             History!Rank("all", j)' <= (historyPage' + 1) * PageSize
      PROVE  j \in walked' \cup newcomers'
  <2>1. CASE j \in newcomers'
    BY <2>1
  <2>2. CASE /\ j \in History!Listed("all")
             /\ \A i \in History!Listed("all") : i >= j => i \in History!Listed("all")'
    <3>1. /\ History!Rank("all", j)' \in Nat /\ History!Rank("all", j) \in Nat
          /\ (historyPage + 1) * PageSize \in Nat
      BY <1>1, <1>2, <1>4, <1>5, <2>2, PageEnds, PlaceFirst
    <3>2. History!Rank("all", j) <= History!Rank("all", j)'
      <4> DEFINE A == {i \in History!Listed("all") : i >= j}
                 B == {i \in History!Listed("all")' : i >= j}
      <4>1. A \in SUBSET B /\ B \in SUBSET History!Listed("all")'
        BY <2>2
      <4>2. IsFiniteSet(B)
        BY <1>4, <4>1, FS_Subset
      <4>3. Cardinality(A) <= Cardinality(B)
        BY <4>1, <4>2, FS_Subset
      <4> QED BY <1>5, <4>3, ListedIs DEF Place
    <3>3. History!Rank("all", j) <= (historyPage + 1) * PageSize
      BY <1>3, <3>1, <3>2
    <3> QED BY <1>3, <2>2, <3>3 DEF HistoryInv, History!WalkMissesNothing
  <2> QED BY <1>3, <2>1, <2>2
<1> QED BY <1>3 DEF HistoryInv, History!WalkMissesNothing

\* Every step keeps the invariant.
LEMMA HistorySteps ==
  ASSUME HistoryInv, History!Next
  PROVE  HistoryInv'
<1>0. /\ historyPage \in Nat /\ statusFilter \in History!Filters /\ "all" \in History!Filters
      /\ \A p \in Nat : p * PageSize \in Nat /\ (p + 1) * PageSize = p * PageSize + PageSize
      /\ PageSize \in Nat /\ behind \in BOOLEAN /\ newcomers \subseteq History!Ids
      /\ \A j \in History!Listed("all") : History!Rank("all", j) \in Nat \ {0}
  BY ListedIs, PlaceFirst, PageEnds, ClientConstants
  DEF HistoryInv, History!TypeOK, History!Filters
<1>1. CASE History!PrevPage
  <2>1. /\ historyPage - 1 \in Nat /\ (historyPage - 1) + 1 = historyPage
        /\ History!Refresh(historyPage - 1, statusFilter)
        /\ walked' = walked \cup shown' /\ UNCHANGED <<status, behind, newcomers, statusFilter>>
    BY <1>0, <1>1 DEF History!PrevPage, History!Look, History!Refresh
  <2>2. History!TypeOK'
    BY <1>0, <2>1, Refreshes
  <2>3. CASE statusFilter = "all"
    <3>1. (historyPage - 1) * PageSize <= (historyPage + 1) * PageSize
      <4>1. /\ (historyPage - 1) * PageSize \in Nat
            /\ ((historyPage - 1) + 1) * PageSize = (historyPage - 1) * PageSize + PageSize
            /\ (historyPage + 1) * PageSize = historyPage * PageSize + PageSize
        BY <1>0, <2>1
      <4> QED BY <1>0, <2>1, <4>1
    <3>2. ASSUME NEW j \in History!Listed("all"),
                 History!Rank("all", j) <= (historyPage - 1) * PageSize
          PROVE  j \in walked' \cup newcomers'
      <4>1. (historyPage - 1) * PageSize \in Nat /\ (historyPage + 1) * PageSize \in Nat
        BY <1>0, <2>1, PageEnds
      <4>2. History!Rank("all", j) <= (historyPage + 1) * PageSize
        BY <1>0, <3>1, <3>2, <4>1
      <4> QED BY <2>1, <2>3, <4>2 DEF HistoryInv, History!WalkMissesNothing
    <3> QED BY <2>1, <2>2, <2>3, <3>2, Walks DEF HistoryInv
  <2> QED BY <2>1, <2>2, <2>3 DEF HistoryInv, History!WalkMissesNothing
<1>2. CASE History!NextPage
  <2>1. /\ historyPage + 1 \in Nat
        /\ History!Refresh(historyPage + 1, statusFilter)
        /\ walked' = walked \cup shown' /\ UNCHANGED <<status, behind, newcomers, statusFilter>>
    BY <1>0, <1>2 DEF History!NextPage, History!Look, History!Refresh
  <2>2. History!TypeOK'
    BY <1>0, <2>1, Refreshes
  <2>3. CASE statusFilter = "all"
    <3>1. \A j \in History!Listed("all") :
            History!Rank("all", j) <= (historyPage + 1) * PageSize => j \in walked' \cup newcomers'
      BY <2>1, <2>3 DEF HistoryInv, History!WalkMissesNothing
    <3> QED BY <2>1, <2>2, <2>3, <3>1, Walks DEF HistoryInv
  <2> QED BY <2>1, <2>2, <2>3 DEF HistoryInv, History!WalkMissesNothing
<1>3. CASE History!OnJobStatus
  <2>1. /\ History!Refresh(historyPage, statusFilter) /\ behind' = FALSE
        /\ walked' = walked \cup shown' /\ UNCHANGED <<status, newcomers, statusFilter>>
    BY <1>0, <1>3 DEF History!OnJobStatus, History!Look, History!Refresh
  <2>2. History!TypeOK'
    BY <1>0, <2>1, Refreshes
  <2>3. CASE statusFilter = "all"
    <3>1. ASSUME NEW j \in History!Listed("all"),
                 History!Rank("all", j) <= historyPage * PageSize
          PROVE  j \in walked' \cup newcomers'
      <4>1. historyPage * PageSize \in Nat
            /\ (historyPage + 1) * PageSize = historyPage * PageSize + PageSize
        BY <1>0
      <4>2. History!Rank("all", j) <= (historyPage + 1) * PageSize
        BY <1>0, <3>1, <4>1
      <4> QED BY <2>1, <2>3, <4>2 DEF HistoryInv, History!WalkMissesNothing
    <3> QED BY <1>0, <2>1, <2>2, <2>3, <3>1, Walks DEF HistoryInv
  <2> QED BY <2>1, <2>2, <2>3 DEF HistoryInv, History!WalkMissesNothing
<1>4. ASSUME NEW f \in History!Filters, History!FilterChanged(f) PROVE HistoryInv'
  <2>1. /\ History!Refresh(0, f) /\ statusFilter' = f
        /\ walked' = shown' /\ newcomers' = {} /\ UNCHANGED <<status, behind>>
    BY <1>4 DEF History!FilterChanged, History!Refresh
  <2>2. History!TypeOK'
    BY <1>0, <2>1, Refreshes
  <2>3. CASE f = "all"
    <3>1. \A j \in History!Listed("all") : ~(History!Rank("all", j) <= 0 * PageSize)
      BY <1>0
    <3> QED BY <1>0, <2>1, <2>2, <2>3, <3>1, Walks DEF HistoryInv
  <2> QED BY <2>1, <2>2, <2>3 DEF HistoryInv, History!WalkMissesNothing
<1> DEFINE L == History!Listed("all")
<1>5. ASSUME NEW j \in History!Ids, History!AddJob(j) PROVE HistoryInv'
  <2>1. /\ status' = [status EXCEPT ![j] = "queued"] /\ newcomers' = newcomers \cup {j}
        /\ UNCHANGED <<historyPage, statusFilter, shown, behind, walked>> /\ status[j] = "none"
    BY <1>5 DEF History!AddJob
  <2>2. History!TypeOK'
    BY <2>1 DEF HistoryInv, History!TypeOK, History!Rows
  <2>3. L' \subseteq L \cup {j} /\ L \in SUBSET L'
    BY <2>1 DEF History!Listed, History!Rows, HistoryInv, History!TypeOK
  <2> QED BY <2>1, <2>2, <2>3, TableChanges
<1>6. ASSUME NEW j \in History!Ids, History!MoveRow(j) PROVE HistoryInv'
  <2>1. PICK s \in History!Rows :
          /\ <<status[j], s>> \in History!Moves
          /\ status' = [status EXCEPT ![j] = s]
          /\ behind' \in {behind, behind \/ s # "queued"}
    BY <1>6 DEF History!MoveRow
  <2>2. UNCHANGED <<historyPage, statusFilter, shown, walked, newcomers>>
    BY <1>6 DEF History!MoveRow
  <2>3. status[j] \in History!Rows
    BY <2>1 DEF History!Moves, History!Rows
  <2>4. History!TypeOK'
    BY <2>1, <2>2 DEF HistoryInv, History!TypeOK, History!Rows
  <2>5. L' = L
    BY <2>1, <2>3 DEF History!Listed, HistoryInv, History!TypeOK
  <2> QED BY <2>2, <2>4, <2>5, TableChanges
<1>7. ASSUME NEW limit \in History!Ids, History!CleanupOldJobs(limit) PROVE HistoryInv'
  <2>1. /\ status' = [j \in History!Ids |->
                        IF j < limit /\ j \in L THEN "deleted" ELSE status[j]]
        /\ UNCHANGED <<historyPage, statusFilter, shown, behind, walked, newcomers>>
    BY <1>7 DEF History!CleanupOldJobs, History!tableVars
  <2>2. History!TypeOK'
    BY <2>1 DEF HistoryInv, History!TypeOK, History!Rows
  <2>3. L' = {j \in L : ~(j < limit)}
    BY <2>1 DEF History!Listed, History!Rows
  <2>4. \A j \in L', i \in L : i >= j => i \in L'
    <3>1. L \in SUBSET Nat /\ limit \in Nat
      BY <1>0, ListedIs, ClientConstants DEF History!Ids
    <3> HIDE DEF L
    <3> QED BY <2>3, <3>1
  <2>5. L' \subseteq L
    BY <2>3
  <2> QED BY <2>1, <2>2, <2>4, <2>5, TableChanges
<1> QED BY <1>1, <1>2, <1>3, <1>4, <1>5, <1>6, <1>7 DEF History!Next

\* The invariant of the history table, whatever component runs.
LEMMA HistoryAlways == FairSpec => []HistoryInv
<1>1. Init => HistoryInv
  BY HistoryInit DEF Init
<1>2. HistoryInv /\ [History!Next]_historyVars => HistoryInv'
  <2> SUFFICES ASSUME HistoryInv, [History!Next]_historyVars PROVE HistoryInv'
    OBVIOUS
  <2>1. CASE History!Next
    BY <2>1, HistorySteps
  <2>2. CASE UNCHANGED historyVars
    BY <2>2 DEF historyVars, HistoryInv, History!TypeOK, History!WalkMissesNothing,
       History!Listed, History!Rank
  <2> QED BY <2>1, <2>2
<1>3. [Next]_clientVars => [History!Next]_historyVars
  BY DEF Next, clientVars
<1> QED BY <1>1, <1>2, <1>3, PTL DEF FairSpec

\* No line of the log is lost or out of order, however often it was paused,
\* filtered and cleared, and who walks through the history, page by page, misses
\* no job, though jobs come, move and are deleted meanwhile.
THEOREM TablesAreRight == FairSpec => []TablesRight
<1>1. LogsInv /\ HistoryInv => TablesRight
  BY LogsApart, LogsShow DEF TablesRight, LogsInv, HistoryInv
<1> QED BY <1>1, LogsAlways, HistoryAlways, PTL

-----------------------------------------------------------------------------
(* The setup wizard. *)

\* Once the wizard has been left, the form in memory does not change any more.
FormStands == {"mark", "marked", "markSaved", "window"}

\* What the program has of the last whole form.
InMemory ==
    /\ leaked \/ refused \/ mem.form = whole
    /\ mem.done => mem.form = whole /\ ~refused /\ ~leaked
    /\ startup \in {"finish", "mark", "marked", "markSaved"} =>
          mem.form = whole /\ ~refused /\ ~leaked
    /\ startup = "start" => ~refused
    /\ startup \in {"wizard", "finish"} => ~mem.done

\* What the file has of it, and what the save under way will write.
InTheFile ==
    /\ empty => saving \/ cut
    /\ saving => empty /\ startup \in {"finish", "markSaved", "window"}
    /\ ~empty => leaked \/ config.form = whole
    /\ ~empty /\ config.done => ~leaked
    /\ saving => /\ dump.form = mem.form
                 /\ leaked \/ dump.form = whole
                 /\ dump.done => ~leaked /\ ~refused

\* What the watcher has of it: the same form, if an older mark.
InTheWatcher ==
    /\ changed /\ ~empty =>
          /\ startup \in FormStands
          /\ config.form = mem.form
          /\ config.done => ~refused
    /\ reading =>
          /\ startup \in FormStands
          /\ loading.form = mem.form
          /\ loading.done => loading.form = whole /\ ~refused /\ ~leaked

WizardInv == Wizard!TypeOK /\ InMemory /\ InTheFile /\ InTheWatcher

LEMMA DefaultsAreSettings ==
  Wizard!Defaults \in Wizard!Settings /\ Wizard!Defaults.form \in Wizard!Forms /\ ~Wizard!Defaults.done
BY DEF Wizard!Defaults, Wizard!Settings, Wizard!Forms, Wizard!Keys, Wizard!Ports

\* The first start.
LEMMA WizardInit == Wizard!Init => WizardInv
<1> SUFFICES ASSUME Wizard!Init PROVE WizardInv
  OBVIOUS
<1>1. PICK p \in {Wizard!Blank, "p2"} : mem = [Wizard!Defaults EXCEPT !.form.printer = p]
  BY DEF Wizard!Init
<1>2. mem = [form |-> [key |-> "old", port |-> "5000", printer |-> p], done |-> FALSE]
  BY <1>1 DEF Wizard!Defaults
<1>3. mem \in Wizard!Settings /\ mem.form \in Wizard!Forms /\ mem.form \in Wizard!Fields
      /\ ~mem.done
  BY <1>2 DEF Wizard!Settings, Wizard!Forms, Wizard!Fields, Wizard!Keys, Wizard!Ports,
     Wizard!Printers
<1>4. /\ config = mem /\ whole = mem.form /\ fields = whole /\ step = 0 /\ items = <<>>
      /\ startup = "start" /\ dump = Wizard!Defaults /\ loading = Wizard!Defaults
      /\ ~empty /\ ~saving /\ ~changed /\ ~reading /\ ~refused /\ ~leaked /\ ~cut
      /\ {empty, saving, changed, reading, refused, leaked, cut} = {FALSE}
  BY DEF Wizard!Init
<1>5. step \in Wizard!Steps
  BY <1>4 DEF Wizard!Steps
<1>6. Wizard!TypeOK
  BY <1>3, <1>4, <1>5, DefaultsAreSettings DEF Wizard!TypeOK
<1> QED BY <1>3, <1>4, <1>6 DEF WizardInv, InMemory, InTheFile, InTheWatcher

\* The form is a part of the settings.
LEMMA FormsAndFields ==
  /\ Wizard!Forms \subseteq Wizard!Fields
  /\ \A f \in Wizard!Fields : f.port # Wizard!Blank => f \in Wizard!Forms
  /\ \A m \in Wizard!Settings : m.form \in Wizard!Forms /\ m.done \in BOOLEAN
BY DEF Wizard!Settings, Wizard!Forms, Wizard!Fields

\* What becomes of the settings in memory.
LEMMA FormIsSet ==
  ASSUME NEW m \in Wizard!Settings, NEW f \in Wizard!Forms
  PROVE  LET n == [m EXCEPT !.form = f] IN
         n \in Wizard!Settings /\ n.form = f /\ n.done = m.done
BY DEF Wizard!Settings

LEMMA KeyIsSet ==
  ASSUME NEW m \in Wizard!Settings, NEW f \in Wizard!Fields
  PROVE  LET n == [m EXCEPT !.form.key = f.key] IN
         n \in Wizard!Settings /\ n.done = m.done
BY DEF Wizard!Settings, Wizard!Forms, Wizard!Fields

LEMMA DoneIsSet ==
  ASSUME NEW m \in Wizard!Settings
  PROVE  LET n == [m EXCEPT !.done = TRUE] IN
         n \in Wizard!Settings /\ n.form = m.form /\ n.done
BY DEF Wizard!Settings

\* What the combo stands on.
LEMMA ChosenIs ==
  ASSUME Wizard!TypeOK, NEW list \in {<<>>, <<"p1">>, <<"p2">>, <<"p1", "p2">>}
  PROVE  Wizard!Chosen(list) \in Wizard!Printers \cup {Wizard!Blank}
<1>1. mem.form.printer \in Wizard!Printers \cup {Wizard!Blank}
  BY DEF Wizard!TypeOK, Wizard!Settings, Wizard!Forms
<1>2. list # <<>> => list[1] \in Wizard!Printers
  BY DEF Wizard!Printers
<1> QED BY <1>1, <1>2 DEF Wizard!Chosen

LEMMA ItemsAre ==
  ASSUME NEW list \in {<<>>, <<"p1">>, <<"p2">>, <<"p1", "p2">>}, NEW p \in Wizard!ToSet(list)
  PROVE  p \in Wizard!Printers
BY DEF Wizard!ToSet, Wizard!Printers

\* A save as a whole: what is written is what was dumped, or nothing is.
LEMMA SaveSteps ==
  ASSUME Wizard!TypeOK
  PROVE  /\ \A s \in Wizard!Settings : Wizard!BeginSave(s) =>
               /\ saving' /\ dump' = s /\ empty' /\ config' = config /\ cut' = cut
         /\ Wizard!Written \/ Wizard!NotWritten =>
               /\ config' \in Wizard!Settings /\ dump' = Wizard!Defaults
               /\ empty' \in BOOLEAN /\ ~saving' /\ saving' \in BOOLEAN
               /\ cut' \in BOOLEAN /\ changed' \in BOOLEAN
BY DEF Wizard!TypeOK, Wizard!BeginSave, Wizard!Written, Wizard!NotWritten

\* Every step keeps the types.
LEMMA WizardTypes ==
  ASSUME Wizard!TypeOK, Wizard!Next
  PROVE  Wizard!TypeOK'
<1> USE FormsAndFields, DefaultsAreSettings
    DEF Wizard!wizardVars, Wizard!saveVars, Wizard!watchVars
<1>1. CASE Wizard!OpenWizard
  <2>1. fields' \in Wizard!Fields
    BY <1>1, ChosenIs DEF Wizard!TypeOK, Wizard!OpenWizard, Wizard!Settings, Wizard!Forms,
       Wizard!Fields
  <2> QED BY <1>1, <2>1 DEF Wizard!TypeOK, Wizard!OpenWizard, Wizard!Steps
<1>2. CASE Wizard!FillIn
  <2>1. fields' \in Wizard!Fields
    BY <1>2, ItemsAre DEF Wizard!TypeOK, Wizard!FillIn, Wizard!Fields
  <2> QED BY <1>2, <2>1 DEF Wizard!TypeOK, Wizard!FillIn
<1>3. CASE Wizard!Finish
  <2>1. mem' \in Wizard!Settings
    BY <1>3, FormIsSet, KeyIsSet DEF Wizard!TypeOK, Wizard!Finish
  <2> QED BY <1>3, <2>1, SaveSteps DEF Wizard!TypeOK, Wizard!Finish
<1>4. CASE Wizard!FinishSaved
  BY <1>4, SaveSteps DEF Wizard!TypeOK, Wizard!FinishSaved
<1>5. CASE Wizard!MarkCompleted
  BY <1>5, DoneIsSet DEF Wizard!TypeOK, Wizard!MarkCompleted
<1>6. CASE Wizard!SaveMark
  BY <1>6, SaveSteps DEF Wizard!TypeOK, Wizard!SaveMark
<1>7. CASE Wizard!MarkSaved
  BY <1>7, SaveSteps DEF Wizard!TypeOK, Wizard!MarkSaved, Wizard!Gone, Wizard!Steps
<1>8. CASE Wizard!Skip
  BY <1>8 DEF Wizard!TypeOK, Wizard!Skip, Wizard!Gone, Wizard!Steps
<1>9. CASE Wizard!OtherSave
  BY <1>9, SaveSteps DEF Wizard!TypeOK, Wizard!OtherSave
<1>10. CASE Wizard!OtherSaved
  BY <1>10, SaveSteps DEF Wizard!TypeOK, Wizard!OtherSaved
<1>11. CASE Wizard!WatcherReads \/ Wizard!WatcherAssigns
  <2>1. CASE Wizard!WatcherReads
    BY <2>1 DEF Wizard!TypeOK, Wizard!WatcherReads
  <2>2. CASE Wizard!WatcherAssigns
    BY <2>2 DEF Wizard!TypeOK, Wizard!WatcherAssigns
  <2> QED BY <1>11, <2>1, <2>2
<1>12. CASE Wizard!Restart
  <2>1. mem' \in Wizard!Settings /\ whole' \in Wizard!Forms
    BY <1>12 DEF Wizard!TypeOK, Wizard!Restart
  <2>2. fields' \in Wizard!Fields /\ step' \in Wizard!Steps
    BY <1>12, <2>1 DEF Wizard!Restart, Wizard!Steps
  <2>3. leaked' \in BOOLEAN /\ cut' \in BOOLEAN
    BY <1>12 DEF Wizard!TypeOK, Wizard!Restart
  <2> QED BY <1>12, <2>1, <2>2, <2>3 DEF Wizard!TypeOK, Wizard!Restart
<1>13. CASE Wizard!OpenWindow \/ \E n \in Wizard!Steps : Wizard!GoTo(n)
  BY <1>13 DEF Wizard!TypeOK, Wizard!OpenWindow, Wizard!GoTo
<1> QED
  BY <1>1, <1>2, <1>3, <1>4, <1>5, <1>6, <1>7, <1>8, <1>9, <1>10, <1>11, <1>12, <1>13
  DEF Wizard!Next

\* Every step keeps the invariant: only a form that is finished is saved by the
\* wizard, and only a refused one's first half is saved later.
LEMMA WizardSteps ==
  ASSUME WizardInv, Wizard!Next
  PROVE  WizardInv'
<1>1. Wizard!TypeOK /\ Wizard!TypeOK'
  BY WizardTypes DEF WizardInv
<1> USE <1>1, FormsAndFields, DefaultsAreSettings
    DEF WizardInv, InMemory, InTheFile, InTheWatcher, FormStands,
        Wizard!wizardVars, Wizard!saveVars, Wizard!watchVars
<1>2. CASE Wizard!OpenWizard \/ Wizard!OpenWindow
  BY <1>2 DEF Wizard!OpenWizard, Wizard!OpenWindow
<1>3. CASE Wizard!FillIn \/ \E n \in Wizard!Steps : Wizard!GoTo(n)
  BY <1>3 DEF Wizard!FillIn, Wizard!GoTo
<1>4. CASE Wizard!Finish
  <2>0. mem \in Wizard!Settings /\ fields \in Wizard!Fields
    BY DEF Wizard!TypeOK
  <2>1. CASE fields.port = Wizard!Blank
    <3>0. [mem EXCEPT !.form.key = fields.key].done = mem.done
      BY <2>0, KeyIsSet
    <3>1. mem'.done = mem.done
      BY <1>4, <2>1, <3>0 DEF Wizard!Finish
    <3> QED BY <1>4, <2>1, <3>1 DEF Wizard!Finish
  <2>2. CASE fields.port # Wizard!Blank
    <3>0. [mem EXCEPT !.form = fields].done = mem.done /\ [mem EXCEPT !.form = fields].form = fields
      BY <2>0, <2>2, FormIsSet
    <3>1. mem'.done = mem.done /\ mem'.form = fields
      BY <1>4, <2>2, <3>0 DEF Wizard!Finish
    <3> QED BY <1>4, <2>2, <3>1 DEF Wizard!Finish, Wizard!BeginSave
  <2> QED BY <2>1, <2>2
<1>5. CASE Wizard!FinishSaved
  BY <1>5 DEF Wizard!FinishSaved, Wizard!Written, Wizard!NotWritten
<1>6. CASE Wizard!MarkCompleted
  <2>1. mem'.form = mem.form
    BY <1>6, DoneIsSet DEF Wizard!MarkCompleted, Wizard!TypeOK
  <2> QED BY <1>6, <2>1 DEF Wizard!MarkCompleted
<1>7. CASE Wizard!SaveMark
  BY <1>7 DEF Wizard!SaveMark, Wizard!BeginSave
<1>8. CASE Wizard!MarkSaved
  BY <1>8 DEF Wizard!MarkSaved, Wizard!Written, Wizard!Gone
<1>9. CASE Wizard!Skip
  BY <1>9 DEF Wizard!Skip, Wizard!Gone
<1>10. CASE Wizard!OtherSave
  BY <1>10 DEF Wizard!OtherSave, Wizard!BeginSave
<1>11. CASE Wizard!OtherSaved
  BY <1>11 DEF Wizard!OtherSaved, Wizard!Written, Wizard!NotWritten
<1>12. CASE Wizard!WatcherReads
  BY <1>12 DEF Wizard!WatcherReads
<1>13. CASE Wizard!WatcherAssigns
  BY <1>13 DEF Wizard!WatcherAssigns
<1>14. CASE Wizard!Restart
  BY <1>14 DEF Wizard!Restart
<1> QED
  BY <1>2, <1>3, <1>4, <1>5, <1>6, <1>7, <1>8, <1>9, <1>10, <1>11, <1>12, <1>13, <1>14
  DEF Wizard!Next

\* The invariant of the wizard, whatever component runs.
LEMMA WizardAlways == FairSpec => []WizardInv
<1>1. Init => WizardInv
  BY WizardInit DEF Init
<1>2. WizardInv /\ [Wizard!Next]_wizardVars => WizardInv'
  <2> SUFFICES ASSUME WizardInv, [Wizard!Next]_wizardVars PROVE WizardInv'
    OBVIOUS
  <2>1. CASE Wizard!Next
    BY <2>1, WizardSteps
  <2>2. CASE UNCHANGED wizardVars
    BY <2>2 DEF wizardVars, WizardInv, InMemory, InTheFile, InTheWatcher, Wizard!TypeOK
  <2> QED BY <2>1, <2>2
<1>3. [Next]_clientVars => [Wizard!Next]_wizardVars
  BY DEF Next, clientVars
<1> QED BY <1>1, <1>2, <1>3, PTL DEF FairSpec

\* Between saves the file holds the last form as a whole, whenever the program
\* ends; only a save that is cut leaves it empty.
THEOREM FormStaysWhole == FairSpec => []FormWhole
<1>1. WizardInv => FormWhole
  BY DEF WizardInv, InTheFile, FormWhole, Wizard!FormWhole
<1> QED BY <1>1, WizardAlways, PTL

-----------------------------------------------------------------------------
(* The functions that only compute, and the types. *)

\* The function that was called, and what it gives.
PureInv ==
    \/ call = Pure!NotCalled
    \/ \E a \in Pure!Versions, b \in Pure!Versions :
          call = [fn |-> "version", a |-> a, b |-> b,
                  client |-> Pure!ClientGreater(a, b), service |-> Pure!ServiceGreater(a, b)]
    \/ \E spec \in Pure!AtMost(Pure!Parts, 2), total \in 1..MaxPages :
          call = [fn |-> "pages", spec |-> spec, total |-> total,
                  named |-> Pure!ParsePageRange(spec, total),
                  printed |-> Pure!PreparedPages(spec, total)]
    \/ \E n \in Pure!Documented, total \in 2..(2 * MaxPages * MaxPages) :
          call = [fn |-> "nup", n |-> n, total |-> total,
                  places |-> [k \in 0..(total - 1) |-> Pure!Place(n, k)]]
    \/ \E word \in SUBSET Pure!Bits :
          call = [fn |-> "status", word |-> word, overall |-> Pure!ParseStatus(word)]

\* A set of naturals has a least element.
LEMMA Least ==
  ASSUME NEW T \in SUBSET Nat, T # {}
  PROVE  \E x \in T : \A y \in T : x <= y
<1>1. IsWellFoundedOn(OpToRel(<, Nat), Nat)
  BY NatLessThanWellFounded, Zenon
<1>2. PICK x \in T : \A y \in T : ~ (<<y, x>> \in OpToRel(<, Nat))
  BY <1>1, WFMin, Zenon
<1>3. \A y \in T : ~(y < x)
  BY <1>2, Zenon DEF OpToRel
<1>4. \A y \in T : x <= y
  BY <1>3
<1> QED BY <1>4

\* Induction, for a set.
LEMMA AllNaturals ==
  ASSUME NEW T \in SUBSET Nat, 0 \in T, \A n \in T : n + 1 \in T
  PROVE  T = Nat
<1> SUFFICES ASSUME Nat \ T # {} PROVE FALSE
  OBVIOUS
<1>1. PICK x \in Nat \ T : \A y \in Nat \ T : x <= y
  BY Least
<1>2. x # 0
  OBVIOUS
<1>3. x - 1 \in Nat /\ ~(x <= x - 1) /\ x - 1 + 1 = x
  BY <1>2
<1>4. x - 1 \in T
  BY <1>1, <1>3
<1> QED BY <1>3, <1>4

\* The weights of the beginnings of a sequence of digits, by the recursion.
Weighs(f, m, base, d) ==
    f = [i \in 0..m |-> IF i = 0 THEN 0 ELSE f[i - 1] * base + d[i]]

\* There are such weights.
LEMMA WeightsExist ==
  ASSUME NEW m \in Nat, NEW base, NEW d
  PROVE  \E f : Weighs(f, m, base, d)
<1> DEFINE T == {n \in Nat : \E f : Weighs(f, n, base, d)}
<1>1. 0 \in T
  <2> DEFINE f == [i \in 0..0 |-> 0]
  <2>1. Weighs(f, 0, base, d)
    BY DEF Weighs
  <2> QED BY <2>1
<1>2. ASSUME NEW n \in T PROVE n + 1 \in T
  <2>1. PICK f : Weighs(f, n, base, d)
    OBVIOUS
  <2> DEFINE g == [i \in 0..(n + 1) |-> IF i <= n THEN f[i] ELSE f[n] * base + d[n + 1]]
  <2>2. ASSUME NEW i \in 0..(n + 1)
        PROVE  g[i] = IF i = 0 THEN 0 ELSE g[i - 1] * base + d[i]
    <3>1. CASE i = 0
      <4>1. g[i] = f[0] /\ 0 \in 0..n
        BY <3>1
      <4> QED BY <2>1, <3>1, <4>1 DEF Weighs
    <3>2. CASE i # 0 /\ i <= n
      <4>1. i \in 0..n /\ i - 1 \in 0..(n + 1) /\ i - 1 <= n
        BY <3>2
      <4>2. f[i] = f[i - 1] * base + d[i]
        BY <2>1, <3>2, <4>1 DEF Weighs
      <4>3. g[i] = f[i] /\ g[i - 1] = f[i - 1]
        BY <4>1
      <4> QED BY <3>2, <4>2, <4>3
    <3>3. CASE i = n + 1
      <4>1. i # 0 /\ ~(i <= n) /\ i - 1 = n /\ n \in 0..(n + 1) /\ n <= n
        BY <3>3
      <4>2. g[i] = f[n] * base + d[i] /\ g[n] = f[n]
        BY <3>3, <4>1
      <4> QED BY <4>1, <4>2
    <3>4. i = 0 \/ (i # 0 /\ i <= n) \/ i = n + 1
      OBVIOUS
    <3> QED BY <3>1, <3>2, <3>3, <3>4
  <2>3. g = [i \in 0..(n + 1) |-> g[i]]
    OBVIOUS
  <2> HIDE DEF g
  <2>4. Weighs(g, n + 1, base, d)
    BY <2>2, <2>3 DEF Weighs
  <2> QED BY <2>4
<1>3. T \in SUBSET Nat
  OBVIOUS
<1> HIDE DEF T
<1>4. T = Nat
  BY <1>1, <1>2, <1>3, AllNaturals
<1> QED BY <1>4 DEF T

\* The first digits that differ, up to the n-th, decide for x.
Decides(x, y, n) ==
    \E i \in 1..n : x[i] > y[i] /\ \A k \in 1..(i - 1) : x[k] = y[k]

Alike(x, y, n) == \A k \in 1..n : x[k] = y[k]

\* The weights of digits below the base are naturals.
LEMMA WeightsAre ==
  ASSUME NEW m \in Nat, NEW top \in Nat, NEW d \in [1..m -> 0..top], NEW f,
         Weighs(f, m, top + 1, d)
  PROVE  \A n \in 0..m : f[n] \in Nat
<1> DEFINE T == {n \in Nat : n <= m => f[n] \in Nat}
<1>1. 0 \in T
  BY DEF Weighs
<1>2. ASSUME NEW n \in T PROVE n + 1 \in T
  <2> SUFFICES ASSUME n + 1 <= m PROVE f[n + 1] \in Nat
    OBVIOUS
  <2>1. n + 1 \in 0..m /\ n + 1 # 0 /\ n + 1 - 1 = n /\ n + 1 \in 1..m /\ n <= m /\ n \in Nat
    OBVIOUS
  <2>2. f[n + 1] = f[n] * (top + 1) + d[n + 1]
    BY <2>1 DEF Weighs
  <2>3. f[n] \in Nat /\ d[n + 1] \in Nat
    BY <2>1
  <2>4. \A u, p \in Nat : u * (top + 1) + p \in Nat
    OBVIOUS
  <2> QED BY <2>2, <2>3, <2>4
<1>3. T \in SUBSET Nat
  OBVIOUS
<1> HIDE DEF T
<1>4. T = Nat
  BY <1>1, <1>2, <1>3, AllNaturals
<1> QED BY <1>4 DEF T

\* A greater beginning stays greater, whatever digits follow.
LEMMA CarriesOver ==
  ASSUME NEW top \in Nat, NEW u \in Nat, NEW v \in Nat, u > v,
         NEW p \in 0..top, NEW q \in 0..top
  PROVE  u * (top + 1) + p > v * (top + 1) + q
<1>1. PICK w \in Nat : u = v + 1 + w
  <2>1. u - v - 1 \in Nat /\ u = v + 1 + (u - v - 1)
    OBVIOUS
  <2> QED BY <2>1
<1>2. u * (top + 1) = v * (top + 1) + (top + 1) + w * (top + 1)
  BY <1>1
<1>3. w * (top + 1) \in Nat /\ v * (top + 1) \in Nat
  BY <1>1
<1> QED BY <1>2, <1>3

\* Digits that are alike weigh the same, and those that decide weigh more.
LEMMA DecidesWeight ==
  ASSUME NEW m \in Nat, NEW top \in Nat,
         NEW x \in [1..m -> 0..top], NEW y \in [1..m -> 0..top],
         NEW f, Weighs(f, m, top + 1, x), NEW g, Weighs(g, m, top + 1, y)
  PROVE  \A n \in 0..m : /\ Alike(x, y, n) => f[n] = g[n]
                         /\ Decides(x, y, n) => f[n] > g[n]
<1> DEFINE Right(n) == /\ Alike(x, y, n) => f[n] = g[n]
                       /\ Decides(x, y, n) => f[n] > g[n]
           T == {n \in Nat : n <= m => Right(n)}
<1>0. \A n \in 0..m : f[n] \in Nat /\ g[n] \in Nat
  BY WeightsAre
<1>1. 0 \in T
  <2>1. f[0] = 0 /\ g[0] = 0
    BY DEF Weighs
  <2>2. ~Decides(x, y, 0)
    BY DEF Decides
  <2> QED BY <2>1, <2>2
<1>2. ASSUME NEW n \in T PROVE n + 1 \in T
  <2> SUFFICES ASSUME n + 1 <= m PROVE Right(n + 1)
    OBVIOUS
  <2>1. n + 1 \in 0..m /\ n + 1 # 0 /\ n + 1 - 1 = n /\ n + 1 \in 1..m /\ n <= m /\ n \in Nat /\ n \in 0..m
    OBVIOUS
  <2>2. /\ f[n + 1] = f[n] * (top + 1) + x[n + 1]
        /\ g[n + 1] = g[n] * (top + 1) + y[n + 1]
    BY <2>1 DEF Weighs
  <2>3. f[n] \in Nat /\ g[n] \in Nat /\ x[n + 1] \in 0..top /\ y[n + 1] \in 0..top
    BY <1>0, <2>1
  <2>4. Right(n)
    BY <2>1
  <2>5. ASSUME Alike(x, y, n + 1) PROVE f[n + 1] = g[n + 1]
    <3>1. Alike(x, y, n) /\ x[n + 1] = y[n + 1]
      BY <2>1, <2>5 DEF Alike
    <3> QED BY <2>2, <2>4, <3>1
  <2>6. ASSUME Decides(x, y, n + 1) PROVE f[n + 1] > g[n + 1]
    <3>1. PICK i \in 1..(n + 1) : x[i] > y[i] /\ \A k \in 1..(i - 1) : x[k] = y[k]
      BY <2>6 DEF Decides
    <3>2. CASE i \in 1..n
      <4>1. f[n] > g[n]
        BY <2>4, <3>1, <3>2 DEF Decides
      <4> QED BY <2>2, <2>3, <4>1, CarriesOver
    <3>3. CASE i = n + 1
      <4>1. Alike(x, y, n) /\ x[n + 1] > y[n + 1]
        BY <2>1, <3>1, <3>3 DEF Alike
      <4>2. f[n] = g[n]
        BY <2>4, <4>1
      <4>3. f[n] * (top + 1) \in Int /\ x[n + 1] \in Int /\ y[n + 1] \in Int
        BY <2>3
      <4> QED BY <2>2, <4>1, <4>2, <4>3
    <3> QED BY <2>1, <3>2, <3>3
  <2> QED BY <2>5, <2>6
<1>3. T \in SUBSET Nat
  OBVIOUS
<1> HIDE DEF T
<1>4. T = Nat
  BY <1>1, <1>2, <1>3, AllNaturals
<1>5. ASSUME NEW n \in 0..m PROVE Right(n)
  <2>1. n \in Nat /\ n <= m
    OBVIOUS
  <2>2. n \in T
    BY <1>4, <2>1
  <2> QED BY <2>1, <2>2 DEF T
<1> QED BY <1>5

\* Digits are alike, or the first that differ decide.
LEMMA OneDecides ==
  ASSUME NEW n \in Nat, NEW x, NEW y,
         \A k \in 1..n : x[k] \in Int /\ y[k] \in Int
  PROVE  Alike(x, y, n) \/ Decides(x, y, n) \/ Decides(y, x, n)
<1> SUFFICES ASSUME ~Alike(x, y, n) PROVE Decides(x, y, n) \/ Decides(y, x, n)
  OBVIOUS
<1> DEFINE T == {k \in 1..n : x[k] # y[k]}
<1>1. T \in SUBSET Nat /\ T # {}
  BY DEF Alike
<1>2. PICK i \in T : \A k \in T : i <= k
  BY <1>1, Least
<1>3. i \in 1..n /\ x[i] # y[i] /\ i \in Int
  OBVIOUS
<1>4. ASSUME NEW k \in 1..(i - 1) PROVE x[k] = y[k]
  <2>1. k \in 1..n /\ ~(i <= k)
    BY <1>3
  <2> QED BY <1>2, <2>1
<1>5. x[i] > y[i] \/ y[i] > x[i]
  BY <1>3
<1> QED BY <1>3, <1>4, <1>5 DEF Decides

\* The greater weight is the one the first digits that differ decide for.
LEMMA WeightDecides ==
  ASSUME NEW m \in Nat, NEW top \in Nat,
         NEW x \in [1..m -> 0..top], NEW y \in [1..m -> 0..top],
         NEW f, Weighs(f, m, top + 1, x), NEW g, Weighs(g, m, top + 1, y)
  PROVE  f[m] > g[m] <=> Decides(x, y, m)
<1>1. m \in 0..m
  OBVIOUS
<1>2. f[m] \in Nat /\ g[m] \in Nat
  BY <1>1, WeightsAre
<1>3. /\ Alike(x, y, m) => f[m] = g[m]
      /\ Decides(x, y, m) => f[m] > g[m]
  BY <1>1, DecidesWeight
<1>4. Decides(y, x, m) => g[m] > f[m]
  BY <1>1, DecidesWeight
<1>5. Alike(x, y, m) \/ Decides(x, y, m) \/ Decides(y, x, m)
  BY OneDecides
<1> QED BY <1>2, <1>3, <1>4, <1>5

\* The digits of a version, with zeros up to the longest.
Digits(v) == [i \in 1..MaxParts |-> Pure!Component(v, i)]

\* A version's weight is that of its digits.
LEMMA WeightIs ==
  ASSUME NEW v
  PROVE  \E f : Weighs(f, MaxParts, MaxDigit + 1, Digits(v)) /\ Pure!Weight(v) = f[MaxParts]
<1> DEFINE w[i \in 0..MaxParts] ==
             IF i = 0 THEN 0 ELSE w[i - 1] * (MaxDigit + 1) + Pure!Component(v, i)
<1>1. \A f : Weighs(f, MaxParts, MaxDigit + 1, Digits(v))
        <=> f = [i \in 0..MaxParts |->
                   IF i = 0 THEN 0 ELSE f[i - 1] * (MaxDigit + 1) + Pure!Component(v, i)]
  <2>1. \A i \in 0..MaxParts : i # 0 => Digits(v)[i] = Pure!Component(v, i)
    BY ClientConstants DEF Digits
  <2> QED BY <2>1 DEF Weighs
<1>2. \E f : f = [i \in 0..MaxParts |->
                    IF i = 0 THEN 0 ELSE f[i - 1] * (MaxDigit + 1) + Pure!Component(v, i)]
  BY <1>1, WeightsExist, ClientConstants
<1>3. w = [i \in 0..MaxParts |->
             IF i = 0 THEN 0 ELSE w[i - 1] * (MaxDigit + 1) + Pure!Component(v, i)]
  BY <1>2
<1>4. Pure!Weight(v) = w[MaxParts]
  BY DEF Pure!Weight
<1> HIDE DEF w
<1> QED BY <1>1, <1>3, <1>4

\* A version of numbers and its digits.
LEMMA VersionIs ==
  ASSUME NEW v \in Pure!Versions, Pure!ToSet(v) \cap Pure!NotNumbers = {}
  PROVE  /\ Len(v) \in 0..MaxParts /\ DOMAIN v = 1..Len(v)
         /\ Digits(v) \in [1..MaxParts -> 0..MaxDigit]
         /\ \A i \in DOMAIN v : v[i] \notin Pure!NotNumbers
         /\ v = [i \in DOMAIN v |-> v[i]]
<1>1. PICK k \in 0..MaxParts : v \in [1..k -> (0..MaxDigit) \cup Pure!NotNumbers]
  BY DEF Pure!Versions, Pure!AtMost
<1>2. k \in Nat /\ Len(v) = k
  BY <1>1, Sequence
<1>3. \A i \in 1..k : v[i] \notin Pure!NotNumbers /\ v[i] \in 0..MaxDigit
  BY <1>1 DEF Pure!ToSet
<1>4. \A i \in 1..MaxParts : Pure!Component(v, i) \in 0..MaxDigit
  BY <1>1, <1>3, ClientConstants DEF Pure!Component
<1> QED BY <1>1, <1>2, <1>3, <1>4 DEF Digits

\* The loop over two versions decides as their digits do.
LEMMA LoopDecides ==
  ASSUME NEW a \in Pure!Versions, Pure!ToSet(a) \cap Pure!NotNumbers = {},
         NEW b \in Pure!Versions, Pure!ToSet(b) \cap Pure!NotNumbers = {}
  PROVE  Pure!FirstDifferenceGreater(a, b) <=> Decides(Digits(a), Digits(b), MaxParts)
<1> DEFINE longest == Pure!Greater(Len(a), Len(b))
<1>1. /\ Len(a) \in Nat /\ Len(b) \in Nat /\ MaxParts \in Nat
      /\ Len(a) <= MaxParts /\ Len(b) <= MaxParts
      /\ DOMAIN a = 1..Len(a) /\ DOMAIN b = 1..Len(b)
  BY VersionIs, ClientConstants
<1>2. longest \in Nat /\ longest <= MaxParts /\ Len(a) <= longest /\ Len(b) <= longest
  BY <1>1 DEF Pure!Greater
<1>3. Pure!FirstDifferenceGreater(a, b) <=>
        \E i \in 1..longest :
           /\ Pure!Component(a, i) > Pure!Component(b, i)
           /\ \A k \in 1..(i - 1) : Pure!Component(a, k) = Pure!Component(b, k)
  BY DEF Pure!FirstDifferenceGreater
<1> HIDE DEF longest
<1>4. \A i \in 1..MaxParts : /\ Digits(a)[i] = Pure!Component(a, i)
                             /\ Digits(b)[i] = Pure!Component(b, i)
  BY DEF Digits
<1>5. \A i \in 1..MaxParts : Pure!Component(a, i) > Pure!Component(b, i) => i \in 1..longest
  <2> SUFFICES ASSUME NEW i \in 1..MaxParts, i \notin 1..longest
      PROVE  ~(Pure!Component(a, i) > Pure!Component(b, i))
    OBVIOUS
  <2>1. i \notin DOMAIN a /\ i \notin DOMAIN b
    BY <1>1, <1>2
  <2> QED BY <2>1 DEF Pure!Component
<1>6. \A i \in 1..longest : i \in 1..MaxParts /\ \A k \in 1..(i - 1) : k \in 1..MaxParts
  BY <1>1, <1>2
<1>7. \A i \in 1..MaxParts : \A k \in 1..(i - 1) : k \in 1..MaxParts
  BY <1>1
<1> QED BY <1>3, <1>4, <1>5, <1>6, <1>7 DEF Decides

\* The client and the service order versions by their weight.
LEMMA VersionsAreRight == PureInv => Pure!VersionsRight
<1> SUFFICES ASSUME PureInv, call.fn = "version" PROVE Pure!VersionsRight
  BY DEF Pure!VersionsRight
<1>1. PICK a \in Pure!Versions, b \in Pure!Versions :
        call = [fn |-> "version", a |-> a, b |-> b,
                client |-> Pure!ClientGreater(a, b), service |-> Pure!ServiceGreater(a, b)]
  BY DEF PureInv, Pure!NotCalled
<1>2. /\ call.a = a /\ call.b = b /\ call.client = Pure!ClientGreater(a, b)
      /\ call.service = Pure!ServiceGreater(a, b)
  BY <1>1
<1>3. CASE (Pure!ToSet(a) \cup Pure!ToSet(b)) \cap Pure!NotNumbers # {}
  BY <1>2, <1>3 DEF Pure!VersionsRight, Pure!ClientGreater
<1>4. CASE /\ Pure!ToSet(a) \cap Pure!NotNumbers = {}
          /\ Pure!ToSet(b) \cap Pure!NotNumbers = {}
  <2>1. PICK f : Weighs(f, MaxParts, MaxDigit + 1, Digits(a)) /\ Pure!Weight(a) = f[MaxParts]
    BY WeightIs
  <2>2. PICK g : Weighs(g, MaxParts, MaxDigit + 1, Digits(b)) /\ Pure!Weight(b) = g[MaxParts]
    BY WeightIs
  <2>3. /\ Digits(a) \in [1..MaxParts -> 0..MaxDigit]
        /\ Digits(b) \in [1..MaxParts -> 0..MaxDigit]
    BY <1>4, VersionIs
  <2>4. f[MaxParts] > g[MaxParts] <=> Decides(Digits(a), Digits(b), MaxParts)
    BY <2>1, <2>2, <2>3, WeightDecides, ClientConstants
  <2>5. Pure!FirstDifferenceGreater(a, b) <=> Pure!Weight(a) > Pure!Weight(b)
    BY <1>4, <2>1, <2>2, <2>4, LoopDecides
  <2>6. /\ Pure!ClientGreater(a, b) <=> Pure!FirstDifferenceGreater(a, b)
        /\ Pure!ClientGreater(a, b) \in BOOLEAN
    BY <1>4 DEF Pure!ClientGreater, Pure!FirstDifferenceGreater
  <2>7. Pure!ServiceGreater(a, b) = Pure!FirstDifferenceGreater(a, b)
    <3>1. /\ a = [i \in DOMAIN a |-> Pure!Sscanf(a[i])]
          /\ b = [i \in DOMAIN b |-> Pure!Sscanf(b[i])]
      BY <1>4, VersionIs DEF Pure!Sscanf, Pure!NotNumbers
    <3> QED BY <3>1 DEF Pure!ServiceGreater
  <2>8. Pure!FirstDifferenceGreater(a, b) \in BOOLEAN
    BY DEF Pure!FirstDifferenceGreater
  <2>9. /\ call.client = (Pure!Weight(a) > Pure!Weight(b))
        /\ call.service = call.client
    BY <1>2, <2>5, <2>6, <2>7, <2>8
  <2> QED BY <1>2, <1>4, <2>9 DEF Pure!VersionsRight
<1> QED BY <1>3, <1>4

\* What a part of a page range names, as a reader of the range would say it.
Covers(span, p) ==
    \/ Len(span) = 1 /\ span[1] = p
    \/ /\ Len(span) = 2
       /\ Pure!Lesser(span[1], span[2]) <= p /\ p <= Pure!Greater(span[1], span[2])

\* A part of the range is empty, a page or a span.
LEMMA PartIs ==
  ASSUME NEW span \in Pure!Parts
  PROVE  /\ Len(span) \in 0..2 /\ DOMAIN span = 1..Len(span)
         /\ \A i \in 1..Len(span) : span[i] \in Nat
<1>1. PICK k \in 0..2 : span \in [1..k -> 0..(MaxPages + 1)]
  BY DEF Pure!Parts, Pure!AtMost
<1>2. k \in Nat /\ Len(span) = k
  BY <1>1, Sequence
<1>3. MaxPages + 1 \in Nat
  BY ClientConstants
<1>4. \A i \in 1..k : span[i] \in 0..(MaxPages + 1)
  BY <1>1
<1> QED BY <1>1, <1>2, <1>3, <1>4

\* A part selects the pages of the document it names.
LEMMA PartSelects ==
  ASSUME NEW span \in Pure!Parts, NEW total \in Nat, NEW p \in 1..total
  PROVE  p \in Pure!PagesOf(span, total) <=> Covers(span, p)
<1>0. p \in Nat /\ 1 <= p /\ p <= total
  OBVIOUS
<1>1. CASE Len(span) = 0
  <2>1. Pure!ToSet(span) = {}
    BY <1>1, PartIs DEF Pure!ToSet
  <2> QED BY <1>1, <2>1 DEF Pure!PagesOf, Covers
<1>2. CASE Len(span) = 1
  <2>1. Pure!ToSet(span) = {span[1]}
    BY <1>2, PartIs DEF Pure!ToSet
  <2> QED BY <1>2, <2>1 DEF Pure!PagesOf, Covers
<1>3. CASE Len(span) = 2
  <2>1. span[1] \in Nat /\ span[2] \in Nat
    BY <1>3, PartIs
  <2> DEFINE lo == Pure!Lesser(span[1], span[2])
             hi == Pure!Greater(span[1], span[2])
  <2>2. lo \in Nat /\ hi \in Nat
    BY <2>1 DEF Pure!Lesser, Pure!Greater
  <2>3. Pure!PagesOf(span, total) = Pure!Greater(1, lo)..Pure!Lesser(hi, total)
    BY <1>3 DEF Pure!PagesOf
  <2>4. Covers(span, p) <=> lo <= p /\ p <= hi
    BY <1>3 DEF Covers
  <2> HIDE DEF lo, hi
  <2>5. p \in Pure!Greater(1, lo)..Pure!Lesser(hi, total) <=> lo <= p /\ p <= hi
    BY <1>0, <2>2 DEF Pure!Lesser, Pure!Greater
  <2> QED BY <2>3, <2>4, <2>5
<1> QED BY <1>1, <1>2, <1>3, PartIs

\* A range selects the pages of the document some part names.
LEMMA RangeSelects ==
  ASSUME NEW spec \in Pure!AtMost(Pure!Parts, 2), NEW total \in Nat
  PROVE  /\ spec = <<>> => DOMAIN spec = {}
         /\ spec # <<>> => Pure!ParsePageRange(spec, total)
                           = {p \in 1..total : \E i \in DOMAIN spec : Covers(spec[i], p)}
<1>1. PICK k \in 0..2 : spec \in [1..k -> Pure!Parts]
  BY DEF Pure!AtMost
<1>2. k \in Nat /\ Len(spec) = k /\ DOMAIN spec = 1..k /\ \A i \in DOMAIN spec : spec[i] \in Pure!Parts
  BY <1>1, Sequence
<1>3. spec = <<>> => DOMAIN spec = {}
  BY <1>2, EmptySeq
<1>4. \A p \in 1..total, i \in DOMAIN spec : p \in Pure!PagesOf(spec[i], total) <=> Covers(spec[i], p)
  BY <1>2, PartSelects
<1>5. spec # <<>> => Pure!ParsePageRange(spec, total)
                     = (UNION {Pure!PagesOf(spec[i], total) : i \in DOMAIN spec}) \cap 1..total
  BY DEF Pure!ParsePageRange
<1>6. (UNION {Pure!PagesOf(spec[i], total) : i \in DOMAIN spec}) \cap 1..total
      = {p \in 1..total : \E i \in DOMAIN spec : Covers(spec[i], p)}
  <2>1. ASSUME NEW p \in 1..total
        PROVE  p \in UNION {Pure!PagesOf(spec[i], total) : i \in DOMAIN spec}
               <=> \E i \in DOMAIN spec : Covers(spec[i], p)
    <3>1. \A i \in DOMAIN spec : p \in Pure!PagesOf(spec[i], total) <=> Covers(spec[i], p)
      BY <1>4
    <3>2. p \in UNION {Pure!PagesOf(spec[i], total) : i \in DOMAIN spec}
          <=> \E i \in DOMAIN spec : p \in Pure!PagesOf(spec[i], total)
      <4> DEFINE of(i) == Pure!PagesOf(spec[i], total)
      <4> HIDE DEF of
      <4>1. p \in UNION {of(i) : i \in DOMAIN spec} <=> \E i \in DOMAIN spec : p \in of(i)
        OBVIOUS
      <4> QED BY <4>1 DEF of
    <3> QED BY <3>1, <3>2
  <2> QED BY <2>1
<1> QED BY <1>3, <1>5, <1>6

\* As many pages of the document as it has are all its pages.
LEMMA AllPages ==
  ASSUME NEW total \in Nat, NEW pages \in SUBSET (1..total), ~(Pure!Cardinality(pages) < total)
  PROVE  pages = 1..total
<1>1. IsFiniteSet(1..total) /\ Cardinality(1..total) = total
  BY FS_Interval
<1>2. Pure!Cardinality(pages) = Cardinality(pages)
  BY DEF Pure!Cardinality, Cardinality
<1>3. /\ Cardinality(pages) \in Nat /\ Cardinality(pages) <= total
      /\ Cardinality(pages) = total => pages = 1..total
  BY <1>1, FS_Subset, FS_CardinalityType
<1> QED BY <1>2, <1>3

\* What is printed of a document.
LEMMA PagesAreRight == PureInv => Pure!PagesRight
<1> SUFFICES ASSUME PureInv, call.fn = "pages" PROVE Pure!PagesRight
  BY DEF Pure!PagesRight
<1>1. PICK spec \in Pure!AtMost(Pure!Parts, 2), total \in 1..MaxPages :
        call = [fn |-> "pages", spec |-> spec, total |-> total,
                named |-> Pure!ParsePageRange(spec, total),
                printed |-> Pure!PreparedPages(spec, total)]
  BY DEF PureInv, Pure!NotCalled
<1>2. total \in Nat
  BY ClientConstants
<1> DEFINE named == {p \in 1..total : \E i \in DOMAIN spec : Covers(spec[i], p)}
<1>3. /\ spec = <<>> => named = {} /\ Pure!ParsePageRange(spec, total) = 1..total
      /\ spec # <<>> => Pure!ParsePageRange(spec, total) = named
  BY <1>2, RangeSelects DEF Pure!ParsePageRange
<1>4. Pure!PreparedPages(spec, total) = IF named = {} THEN 1..total ELSE named
  <2> DEFINE pages == Pure!ParsePageRange(spec, total)
  <2>1. pages \subseteq 1..total
    BY <1>3
  <2>2. ~(Pure!Cardinality(pages) < total) => pages = 1..total
    BY <1>2, <2>1, AllPages
  <2>3. Pure!PreparedPages(spec, total)
        = IF pages # {} /\ Pure!Cardinality(pages) < total THEN pages ELSE 1..total
    BY DEF Pure!PreparedPages
  <2> HIDE DEF pages, named
  <2>4. CASE spec = <<>>
    BY <1>3, <2>3, <2>4 DEF pages
  <2>5. CASE spec # <<>>
    BY <1>3, <2>2, <2>3, <2>5 DEF pages
  <2> QED BY <2>4, <2>5
<1>5. /\ call.spec = spec /\ call.total = total
      /\ call.named = Pure!ParsePageRange(spec, total)
      /\ call.printed = Pure!PreparedPages(spec, total)
  BY <1>1
<1> QED BY <1>3, <1>4, <1>5 DEF Pure!PagesRight, Covers

\* A page's place on its sheet, for each of the documented numbers.
LEMMA PlaceOnSheet ==
  ASSUME NEW n \in Pure!Documented, NEW k \in Nat
  PROVE  /\ Pure!Place(n, k)[2] < Pure!Grid(n)[1] /\ Pure!Place(n, k)[3] < Pure!Grid(n)[2]
         /\ (Pure!Place(n, k)[1] * Pure!Grid(n)[2] + Pure!Place(n, k)[3]) * Pure!Grid(n)[1]
               + Pure!Place(n, k)[2] = k
<1>1. CASE n = 2
  <2>1. Pure!Grid(n)[1] = 1 /\ Pure!Grid(n)[2] = 2
    BY <1>1 DEF Pure!Grid
  <2>2. PICK r \in 0..1 : k % 2 = r /\ k = 2 * (k \div 2) + r /\ k \div 2 \in Nat
    OBVIOUS
  <2>3. /\ Pure!Place(n, k)[1] = k \div 2
        /\ Pure!Place(n, k)[2] = r % 1 /\ Pure!Place(n, k)[3] = r \div 1
    BY <1>1, <2>1, <2>2 DEF Pure!Place
  <2>4. /\ r % 1 < 1 /\ r \div 1 < 2 /\ r = 1 * (r \div 1) + (r % 1)
        /\ r \div 1 \in Nat /\ r % 1 \in Nat
    BY <2>2
  <2> QED BY <2>1, <2>2, <2>3, <2>4
<1>2. CASE n = 4
  <2>1. Pure!Grid(n)[1] = 2 /\ Pure!Grid(n)[2] = 2
    BY <1>2 DEF Pure!Grid
  <2>2. PICK r \in 0..3 : k % 4 = r /\ k = 4 * (k \div 4) + r /\ k \div 4 \in Nat
    OBVIOUS
  <2>3. /\ Pure!Place(n, k)[1] = k \div 4
        /\ Pure!Place(n, k)[2] = r % 2 /\ Pure!Place(n, k)[3] = r \div 2
    BY <1>2, <2>1, <2>2 DEF Pure!Place
  <2>4. /\ r % 2 < 2 /\ r \div 2 < 2 /\ r = 2 * (r \div 2) + (r % 2)
        /\ r \div 2 \in Nat /\ r % 2 \in Nat
    BY <2>2
  <2> QED BY <2>1, <2>2, <2>3, <2>4
<1>3. CASE n = 6
  <2>1. Pure!Grid(n)[1] = 2 /\ Pure!Grid(n)[2] = 3
    BY <1>3 DEF Pure!Grid
  <2>2. PICK r \in 0..5 : k % 6 = r /\ k = 6 * (k \div 6) + r /\ k \div 6 \in Nat
    OBVIOUS
  <2>3. /\ Pure!Place(n, k)[1] = k \div 6
        /\ Pure!Place(n, k)[2] = r % 2 /\ Pure!Place(n, k)[3] = r \div 2
    BY <1>3, <2>1, <2>2 DEF Pure!Place
  <2>4. /\ r % 2 < 2 /\ r \div 2 < 3 /\ r = 2 * (r \div 2) + (r % 2)
        /\ r \div 2 \in Nat /\ r % 2 \in Nat
    BY <2>2
  <2> QED BY <2>1, <2>2, <2>3, <2>4
<1>4. CASE n = 8
  <2>1. Pure!Grid(n)[1] = 2 /\ Pure!Grid(n)[2] = 4
    BY <1>4 DEF Pure!Grid
  <2>2. PICK r \in 0..7 : k % 8 = r /\ k = 8 * (k \div 8) + r /\ k \div 8 \in Nat
    OBVIOUS
  <2>3. /\ Pure!Place(n, k)[1] = k \div 8
        /\ Pure!Place(n, k)[2] = r % 2 /\ Pure!Place(n, k)[3] = r \div 2
    BY <1>4, <2>1, <2>2 DEF Pure!Place
  <2>4. /\ r % 2 < 2 /\ r \div 2 < 4 /\ r = 2 * (r \div 2) + (r % 2)
        /\ r \div 2 \in Nat /\ r % 2 \in Nat
    BY <2>2
  <2> QED BY <2>1, <2>2, <2>3, <2>4
<1>5. CASE n = 16
  <2>1. Pure!Grid(n)[1] = 4 /\ Pure!Grid(n)[2] = 4
    BY <1>5 DEF Pure!Grid
  <2>2. PICK r \in 0..15 : k % 16 = r /\ k = 16 * (k \div 16) + r /\ k \div 16 \in Nat
    OBVIOUS
  <2>3. /\ Pure!Place(n, k)[1] = k \div 16
        /\ Pure!Place(n, k)[2] = r % 4 /\ Pure!Place(n, k)[3] = r \div 4
    BY <1>5, <2>1, <2>2 DEF Pure!Place
  <2>4. /\ r % 4 < 4 /\ r \div 4 < 4 /\ r = 4 * (r \div 4) + (r % 4)
        /\ r \div 4 \in Nat /\ r % 4 \in Nat
    BY <2>2
  <2> QED BY <2>1, <2>2, <2>3, <2>4
<1> QED BY <1>1, <1>2, <1>3, <1>4, <1>5 DEF Pure!Documented

LEMMA SheetsAreRight == PureInv => Pure!SheetsRight
<1> SUFFICES ASSUME PureInv, call.fn = "nup" PROVE Pure!SheetsRight
  BY DEF Pure!SheetsRight
<1>1. PICK n \in Pure!Documented, total \in 2..(2 * MaxPages * MaxPages) :
        call = [fn |-> "nup", n |-> n, total |-> total,
                places |-> [k \in 0..(total - 1) |-> Pure!Place(n, k)]]
  BY DEF PureInv, Pure!NotCalled
<1>2. /\ call.n = n /\ DOMAIN call.places = 0..(total - 1)
      /\ \A k \in DOMAIN call.places : call.places[k] = Pure!Place(n, k) /\ k \in Nat
  BY <1>1
<1>3. \A k \in DOMAIN call.places :
        /\ call.places[k][2] < Pure!Grid(n)[1] /\ call.places[k][3] < Pure!Grid(n)[2]
        /\ (call.places[k][1] * Pure!Grid(n)[2] + call.places[k][3]) * Pure!Grid(n)[1]
              + call.places[k][2] = k
  BY <1>2, PlaceOnSheet
<1> QED BY <1>2, <1>3 DEF Pure!SheetsRight

\* The order of what the printer may report.
Worse == <<"ready", "busy", "warning", "error">>
HowBad(b) == CHOOSE i \in 1..4 : Worse[i] = (IF b \in {"neutral", "unknown"} THEN "ready" ELSE b)

LEMMA HowBadIs ==
  /\ HowBad("ready") = 1 /\ HowBad("neutral") = 1 /\ HowBad("unknown") = 1
  /\ HowBad("busy") = 2 /\ HowBad("warning") = 3 /\ HowBad("error") = 4
<1>1. /\ 1 \in 1..4 /\ 2 \in 1..4 /\ 3 \in 1..4 /\ 4 \in 1..4
      /\ Worse[1] = "ready" /\ Worse[2] = "busy" /\ Worse[3] = "warning" /\ Worse[4] = "error"
  BY DEF Worse
<1>2. \A i \in 1..4 : i = 1 \/ i = 2 \/ i = 3 \/ i = 4
  OBVIOUS
<1>3. ASSUME NEW n \in 1..4, NEW b,
             (IF b \in {"neutral", "unknown"} THEN "ready" ELSE b) = Worse[n]
      PROVE  HowBad(b) = n
  <2> DEFINE name == IF b \in {"neutral", "unknown"} THEN "ready" ELSE b
  <2>1. \E i \in 1..4 : Worse[i] = name
    BY <1>3
  <2>2. HowBad(b) = CHOOSE i \in 1..4 : Worse[i] = name
    BY DEF HowBad
  <2> HIDE DEF name
  <2>3. HowBad(b) \in 1..4 /\ Worse[HowBad(b)] = name
    BY <2>1, <2>2
  <2>4. Worse[HowBad(b)] = Worse[n]
    BY <1>3, <2>3 DEF name
  <2> QED BY <1>1, <1>2, <2>3, <2>4
<1> QED BY <1>1, <1>3

LEMMA StatusIsRight == PureInv => Pure!StatusRight
<1> SUFFICES ASSUME PureInv, call.fn = "status" PROVE Pure!StatusRight
  BY DEF Pure!StatusRight
<1>1. PICK word \in SUBSET Pure!Bits :
        call = [fn |-> "status", word |-> word, overall |-> Pure!ParseStatus(word)]
  BY DEF PureInv, Pure!NotCalled
<1> DEFINE overall == Pure!ParseStatus(word)
<1>2. /\ overall \in {"ready", "error", "warning", "busy"}
      /\ overall = "ready" \/ overall \in word
      /\ "error" \in word => overall = "error"
      /\ "warning" \in word => overall \in {"error", "warning"}
      /\ "busy" \in word => overall \in {"error", "warning", "busy"}
  BY DEF Pure!ParseStatus, Pure!Bits
<1> HIDE DEF overall
<1>3. \A b \in word : HowBad(b) <= HowBad(overall)
  BY <1>2, HowBadIs DEF Pure!Bits
<1>4. call.word = word /\ call.overall = overall
  BY <1>1 DEF overall
<1> QED BY <1>2, <1>3, <1>4 DEF Pure!StatusRight, HowBad, Worse

\* One function is called, once.
LEMMA PureAlways == FairSpec => []PureInv
<1>1. Init => PureInv
  BY DEF Init, Pure!Init, PureInv
<1>2. PureInv /\ [Pure!Next]_call => PureInv'
  <2> SUFFICES ASSUME PureInv, [Pure!Next]_call PROVE PureInv'
    OBVIOUS
  <2>1. CASE Pure!CompareVersions
    BY <2>1 DEF Pure!CompareVersions, PureInv
  <2>2. CASE Pure!SelectPages
    BY <2>2 DEF Pure!SelectPages, PureInv
  <2>3. CASE Pure!ComposeSheets
    BY <2>3 DEF Pure!ComposeSheets, PureInv
  <2>4. CASE Pure!ReadStatus
    BY <2>4 DEF Pure!ReadStatus, PureInv
  <2>5. CASE UNCHANGED call
    BY <2>5 DEF PureInv
  <2> QED BY <2>1, <2>2, <2>3, <2>4, <2>5 DEF Pure!Next
<1>3. [Next]_clientVars => [Pure!Next]_call
  BY DEF Next, clientVars
<1> QED BY <1>1, <1>2, <1>3, PTL DEF FairSpec

\* Client and service order versions by their numbers, a page range selects what
\* it names, n pages come on a sheet in reading order and without a gap, and the
\* worst of the printer's states wins: for versions and documents of any length.
THEOREM FunctionsAreRight == FairSpec => []FunctionsRight
<1>1. PureInv => FunctionsRight
  BY VersionsAreRight, PagesAreRight, SheetsAreRight, StatusIsRight DEF FunctionsRight,
     Pure!FunctionsRight
<1> QED BY <1>1, PureAlways, PTL

\* Every variable of every client keeps its type.
THEOREM TypesAreRight == FairSpec => []TypeOK
<1>1. /\ PhoneInv => Phone!TypeOK
      /\ ScanInv => Scan!TypeOK
      /\ UpdateInv => Update!TypeOK
      /\ WindowInv => Window!TypeOK
      /\ LogsInv => Logs!TypeOK
      /\ HistoryInv => History!TypeOK
      /\ WizardInv => Wizard!TypeOK
  BY DEF PhoneInv, ScanInv, UpdateInv, WindowInv, LogsInv, HistoryInv, WizardInv
<1>2. /\ PhoneInv /\ ScanInv /\ UpdateInv /\ WindowInv /\ LogsInv /\ HistoryInv /\ WizardInv
      => TypeOK
  BY <1>1 DEF TypeOK
<1> QED
  BY <1>2, PhoneAlways, ScanAlways, UpdateAlways, WindowAlways, LogsAlways, HistoryAlways,
     WizardAlways, PTL

=============================================================================
