------------------------------ MODULE HostProofs ------------------------------
(***************************************************************************)
(* Safety of the components MCHost puts side by side, for any number of    *)
(* threads, documents, settings, restarts, pictures and printers.          *)
(***************************************************************************)
EXTENDS MCHost, FiniteSetTheorems, TLAPS

-----------------------------------------------------------------------------
(* The print engine. *)

\* Where a thread that prints is while PdfBackend._active_jobs may name it.
Tracking == {"ipp", "raw", "chromium", "render", "gdi", "release"}

\* What the printer has of the run of a thread, by where the thread is: until a
\* way has succeeded, every document it got is one the run takes for not sent.
SentSoFar(t) ==
    /\ pc[t] \in {"release", "finish"} <=> result[t] # "none"
    /\ sent[t] = 2 => doubted[t]
    /\ pc[t] \notin {"render", "release", "finish"} \/ chrome[t] = "working"
          \/ result[t] = "error" => sent[t] = 0 \/ doubted[t]
    /\ chrome[t] = "spooled" \/ result[t] = "ok" => sent[t] > 0

\* The files a run may have where it is.
FilesAt(t) ==
    IF pc[t] \in {"idle", "dispatch"} THEN {}
    ELSE IF pc[t] \in {"lock", "convert", "register", "prepare", "finish"} THEN {"converted"}
    ELSE {"converted", "part"}

\* Every entry has a run that will remove it, a browser lives while its thread
\* waits for it, and two threads on one document are in the history.
RunsInv ==
    /\ \A t \in Threads :
          /\ doc[t] = NoDoc <=> pc[t] = "idle"
          /\ temps[t] \subseteq FilesAt(t)
          /\ chrome[t] = "none" <=> pc[t] # "render"
    /\ \A d \in active : \E t \in Threads : doc[t] = d /\ pc[t] \in Engine!Printing
    /\ \A d \in Documents : tracked[d] # Engine!Untracked =>
          \E t \in Threads : doc[t] = d /\ pc[t] \in Tracking
    /\ \A t, u \in Threads :
          doc[t] = doc[u] => t = u \/ doc[t] = NoDoc \/ doc[t] \in overlapped

\* A cancel that has killed a browser is about to purge the printer, or has.
KilledInv ==
    /\ cpc # "idle" => cdoc \in Documents
    /\ cpc = "kill" => cinfo.method = "chromium"
    /\ \A t \in Threads : chrome[t] = "killed" =>
          \/ cpc = "purge" /\ cinfo.method = "chromium" /\ cdoc = doc[t]
          \/ doc[t] \notin spool
          \/ doc[t] \in overlapped \cup refused

EngineInv ==
    /\ Engine!TypeOK
    /\ RunsInv
    /\ Engine!CancelFindsRun
    /\ KilledInv
    /\ \A t \in Threads : SentSoFar(t)

\* At boot no thread prints.
LEMMA EngineInit == Init => EngineInv
<1> SUFFICES ASSUME Init PROVE EngineInv
  OBVIOUS
<1> USE HostConstants DEF Init, Engine!Init
<1>1. Engine!TypeOK
  BY DEF Engine!TypeOK, Engine!Printing, Engine!Untracked, Engine!Methods, Engine!Files
<1>2. RunsInv
  BY DEF RunsInv, FilesAt, Engine!Untracked
<1>3. Engine!CancelFindsRun /\ KilledInv
  BY DEF Engine!CancelFindsRun, Engine!Printing, KilledInv
<1>4. \A t \in Threads : SentSoFar(t)
  BY DEF SentSoFar
<1> QED BY <1>1, <1>2, <1>3, <1>4 DEF EngineInv

\* A doubt is a truth value.
LEMMA DoubtTypes ==
  ASSUME EngineInv, NEW t \in Threads,
         doubted' \in {doubted, [doubted EXCEPT ![t] = TRUE]}
  PROVE  doubted' \in [Threads -> BOOLEAN]
<1>1. doubted \in [Threads -> BOOLEAN]
  BY DEF EngineInv, Engine!TypeOK
<1>2. CASE doubted' = doubted
  BY <1>1, <1>2
<1>3. CASE doubted' = [doubted EXCEPT ![t] = TRUE]
  BY <1>1, <1>3
<1> QED BY <1>2, <1>3

\* Every step of the engine keeps the types.
LEMMA EngineTypes ==
  ASSUME EngineInv,
         Engine!Next
  PROVE  Engine!TypeOK'
<1> USE HostConstants DEF EngineInv, Engine!TypeOK, Engine!Printing,
       Engine!Untracked, Engine!Methods, Engine!Files, Engine!threadVars, Engine!cancelVars,
       Engine!histVars
<1>0. /\ \A t \in Threads : pc[t] # "idle" => doc[t] \in Documents
      /\ \A t \in Threads : chrome[t] = "working" => doc[t] \in Documents
      /\ cpc # "idle" => cdoc \in Documents
  BY DEF RunsInv, KilledInv, SentSoFar
<1>1. ASSUME NEW t \in Threads, NEW d \in Documents, Engine!Start(t, d)
      PROVE  Engine!TypeOK'
  BY <1>0, <1>1 DEF Engine!Start, Engine!Step
<1>2. ASSUME NEW t \in Threads, Engine!Dispatch(t) PROVE Engine!TypeOK'
  BY <1>0, <1>2 DEF Engine!Dispatch, Engine!Step
<1>3. ASSUME NEW t \in Threads, Engine!AcquireApp(t) PROVE Engine!TypeOK'
  BY <1>0, <1>3 DEF Engine!AcquireApp, Engine!Step
<1>4. ASSUME NEW t \in Threads, Engine!Register(t) PROVE Engine!TypeOK'
  BY <1>0, <1>4 DEF Engine!Register, Engine!Step
<1>5. ASSUME NEW t \in Threads, Engine!Prepare(t) PROVE Engine!TypeOK'
  <2>1. doc[t] \in Documents /\ {"part"} \subseteq Engine!Files
    BY <1>0, <1>5 DEF Engine!Prepare, Engine!Step
  <2>2. /\ pc' \in {[pc EXCEPT ![t] = "ipp"], [pc EXCEPT ![t] = "finish"]}
        /\ result' \in {result, [result EXCEPT ![t] = "error"]}
        /\ tracked' \in {tracked,
              [tracked EXCEPT ![doc[t]] = [by |-> t, method |-> "printer"]]}
    BY <1>5 DEF Engine!Prepare, Engine!Step, Engine!Track
  <2>3. tracked' \in [Documents -> {Engine!Untracked} \cup
                         [by : Threads, method : Engine!Methods]]
    BY <2>1, <2>2
  <2>4. /\ pc' \in [Threads -> {"idle", "dispatch", "lock", "convert", "register"}
                                \cup Engine!Printing]
        /\ result' \in [Threads -> {"none", "ok", "error"}]
    BY <2>2
  <2>5. temps' \in [Threads -> SUBSET Engine!Files] /\ left' \subseteq Engine!Files
    <3>1. CASE doc[t] \in Parted
      <4>1. /\ temps' \in {temps, [temps EXCEPT ![t] = @ \cup {"part"}]}
            /\ left' \in {left, left \cup {"part"}}
        BY <1>5, <3>1 DEF Engine!Prepare
      <4>2. temps[t] \cup {"part"} \in SUBSET Engine!Files
        BY <2>1
      <4> QED BY <2>1, <4>1, <4>2
    <3>2. CASE doc[t] \notin Parted
      <4>1. temps' \in {temps, [temps EXCEPT ![t] = @ \cup {}]} /\ left' \in {left, left \cup {}}
        BY <1>5, <3>2 DEF Engine!Prepare
      <4> QED BY <4>1
    <3> QED BY <3>1, <3>2
  <2> QED BY <1>5, <2>3, <2>4, <2>5 DEF Engine!Prepare
<1>6. ASSUME NEW t \in Threads, Engine!SkipIpp(t) PROVE Engine!TypeOK'
  BY <1>0, <1>6 DEF Engine!SkipIpp, Engine!Step
<1>7. ASSUME NEW t \in Threads, Engine!TryIpp(t) PROVE Engine!TypeOK'
  <2>1. PICK printed \in BOOLEAN, ok \in BOOLEAN :
           /\ pc' = [pc EXCEPT ![t] = IF ok THEN "release" ELSE "raw"]
           /\ result' = [result EXCEPT ![t] = IF ok THEN "ok" ELSE @]
           /\ \/ UNCHANGED sent
              \/ sent' = [sent EXCEPT ![t] = IF @ = 2 THEN 2 ELSE @ + 1]
           /\ doubted' \in {doubted, [doubted EXCEPT ![t] = TRUE]}
           /\ spool' \in {spool, spool \cup {doc[t]}}
    BY <1>7 DEF Engine!TryIpp, Engine!Step, Engine!Attempt, Engine!Send, Engine!Doubt
  <2>2. doc[t] \in Documents
    BY <1>0, <1>7 DEF Engine!TryIpp, Engine!Step, Engine!Attempt
  <2>3. tracked' = [tracked EXCEPT ![doc[t]] = [by |-> t, method |-> "ipp"]]
    BY <1>7 DEF Engine!TryIpp, Engine!Track, Engine!Attempt
  <2>4. tracked' \in [Documents -> {Engine!Untracked} \cup
                         [by : Threads, method : Engine!Methods]]
    BY <2>2, <2>3
  <2>5. /\ pc' \in [Threads -> {"idle", "dispatch", "lock", "convert", "register"}
                                \cup Engine!Printing]
        /\ result' \in [Threads -> {"none", "ok", "error"}]
    BY <2>1
  <2>6. sent' \in [Threads -> 0..2]
    BY <2>1
  <2>7. doubted' \in [Threads -> BOOLEAN]
    BY <2>1, DoubtTypes
  <2>8. spool' \subseteq Documents
    BY <2>1, <2>2
  <2> QED BY <1>7, <2>4, <2>5, <2>6, <2>7, <2>8 DEF Engine!TryIpp
<1>8. ASSUME NEW t \in Threads, Engine!SkipRaw(t) PROVE Engine!TypeOK'
  BY <1>0, <1>8 DEF Engine!SkipRaw, Engine!Step
<1>9. ASSUME NEW t \in Threads, Engine!TryRaw(t) PROVE Engine!TypeOK'
  <2>1. PICK printed \in BOOLEAN, ok \in BOOLEAN :
           /\ pc' = [pc EXCEPT ![t] = IF ok THEN "release" ELSE "chromium"]
           /\ result' = [result EXCEPT ![t] = IF ok THEN "ok" ELSE @]
           /\ \/ UNCHANGED sent
              \/ sent' = [sent EXCEPT ![t] = IF @ = 2 THEN 2 ELSE @ + 1]
           /\ doubted' \in {doubted, [doubted EXCEPT ![t] = TRUE]}
           /\ spool' \in {spool, spool \cup {doc[t]}}
    BY <1>9 DEF Engine!TryRaw, Engine!Step, Engine!Attempt, Engine!Send, Engine!Doubt
  <2>2. doc[t] \in Documents
    BY <1>0, <1>9 DEF Engine!TryRaw, Engine!Step, Engine!Attempt
  <2>3. tracked' = [tracked EXCEPT ![doc[t]] = [by |-> t, method |-> "printer"]]
    BY <1>9 DEF Engine!TryRaw, Engine!Track, Engine!Attempt
  <2>4. tracked' \in [Documents -> {Engine!Untracked} \cup
                         [by : Threads, method : Engine!Methods]]
    BY <2>2, <2>3
  <2>5. /\ pc' \in [Threads -> {"idle", "dispatch", "lock", "convert", "register"}
                                \cup Engine!Printing]
        /\ result' \in [Threads -> {"none", "ok", "error"}]
    BY <2>1
  <2>6. sent' \in [Threads -> 0..2]
    BY <2>1
  <2>7. doubted' \in [Threads -> BOOLEAN]
    BY <2>1, DoubtTypes
  <2>8. spool' \subseteq Documents
    BY <2>1, <2>2
  <2> QED BY <1>9, <2>4, <2>5, <2>6, <2>7, <2>8 DEF Engine!TryRaw
<1>10. ASSUME NEW t \in Threads, Engine!SkipChromium(t) PROVE Engine!TypeOK'
  BY <1>0, <1>10 DEF Engine!SkipChromium, Engine!Step
<1>11. ASSUME NEW t \in Threads, Engine!StartChromium(t) PROVE Engine!TypeOK'
  BY <1>0, <1>11 DEF Engine!StartChromium, Engine!Step, Engine!Track
<1>12. ASSUME NEW t \in Threads, Engine!AwaitChromium(t) PROVE Engine!TypeOK'
  <2>1. PICK ok \in BOOLEAN :
           /\ pc' = [pc EXCEPT ![t] = IF ok THEN "release" ELSE "gdi"]
           /\ result' = [result EXCEPT ![t] = IF ok THEN "ok" ELSE @]
           /\ doubted' \in {doubted, [doubted EXCEPT ![t] = TRUE]}
    BY <1>12 DEF Engine!AwaitChromium, Engine!Step, Engine!Doubt
  <2>2. /\ pc' \in [Threads -> {"idle", "dispatch", "lock", "convert", "register"}
                                \cup Engine!Printing]
        /\ result' \in [Threads -> {"none", "ok", "error"}]
    BY <2>1
  <2>3. doubted' \in [Threads -> BOOLEAN]
    BY <2>1, DoubtTypes
  <2>4. chrome' \in [Threads -> {"none", "working", "spooled", "killed"}]
    BY <1>12 DEF Engine!AwaitChromium
  <2> QED BY <1>12, <2>2, <2>3, <2>4 DEF Engine!AwaitChromium
<1>13. ASSUME NEW t \in Threads, Engine!TryGdi(t) PROVE Engine!TypeOK'
  <2>1. PICK printed \in BOOLEAN, ok \in BOOLEAN :
           /\ pc' = [pc EXCEPT ![t] = "release"]
           /\ result' = [result EXCEPT ![t] = IF ok THEN "ok" ELSE "error"]
           /\ \/ UNCHANGED sent
              \/ sent' = [sent EXCEPT ![t] = IF @ = 2 THEN 2 ELSE @ + 1]
           /\ doubted' \in {doubted, [doubted EXCEPT ![t] = TRUE]}
           /\ spool' \in {spool, spool \cup {doc[t]}}
    BY <1>13 DEF Engine!TryGdi, Engine!Step, Engine!Send, Engine!Doubt
  <2>2. doc[t] \in Documents
    BY <1>0, <1>13 DEF Engine!TryGdi, Engine!Step
  <2>3. tracked' = [tracked EXCEPT ![doc[t]] = [by |-> t, method |-> "printer"]]
    BY <1>13 DEF Engine!TryGdi, Engine!Track
  <2>4. tracked' \in [Documents -> {Engine!Untracked} \cup
                         [by : Threads, method : Engine!Methods]]
    BY <2>2, <2>3
  <2>5. /\ pc' \in [Threads -> {"idle", "dispatch", "lock", "convert", "register"}
                                \cup Engine!Printing]
        /\ result' \in [Threads -> {"none", "ok", "error"}]
    BY <2>1
  <2>6. sent' \in [Threads -> 0..2]
    BY <2>1
  <2>7. doubted' \in [Threads -> BOOLEAN]
    BY <2>1, DoubtTypes
  <2>8. spool' \subseteq Documents
    BY <2>1, <2>2
  <2> QED BY <1>13, <2>4, <2>5, <2>6, <2>7, <2>8 DEF Engine!TryGdi
<1>14. ASSUME NEW t \in Threads, Engine!Release(t) PROVE Engine!TypeOK'
  <2>1. /\ pc' = [pc EXCEPT ![t] = "finish"]
        /\ tracked' = [tracked EXCEPT ![doc[t]] = Engine!Untracked]
        /\ temps' = [temps EXCEPT ![t] = @ \ {"part"}]
        /\ left' \in {left, left \cup {"part"}}
        /\ result' \in {result, [result EXCEPT ![t] = "error"]}
        /\ doubted' \in {doubted, [doubted EXCEPT ![t] = TRUE]}
    BY <1>14 DEF Engine!Release, Engine!Step, Engine!Untrack, Engine!Drop, Engine!Doubt
  <2>2. doc[t] \in Documents
    BY <1>0, <1>14 DEF Engine!Release, Engine!Step
  <2>3. tracked' \in [Documents -> {Engine!Untracked} \cup
                         [by : Threads, method : Engine!Methods]]
    BY <2>1, <2>2
  <2>4. /\ pc' \in [Threads -> {"idle", "dispatch", "lock", "convert", "register"}
                                \cup Engine!Printing]
        /\ result' \in [Threads -> {"none", "ok", "error"}]
    BY <2>1
  <2>5. doubted' \in [Threads -> BOOLEAN]
    BY <2>1, DoubtTypes
  <2>6. temps' \in [Threads -> SUBSET Engine!Files] /\ left' \subseteq Engine!Files
    BY <2>1
  <2> QED BY <1>14, <2>3, <2>4, <2>5, <2>6 DEF Engine!Release
<1>15. ASSUME NEW t \in Threads, Engine!Finish(t) PROVE Engine!TypeOK'
  <2>1. /\ pc' = [pc EXCEPT ![t] = "idle"] /\ doc' = [doc EXCEPT ![t] = NoDoc]
        /\ temps' = [temps EXCEPT ![t] = @ \ {"converted"}]
        /\ left' \in {left, left \cup {"converted"}}
        /\ result' = [result EXCEPT ![t] = "none"]
        /\ sent' = [sent EXCEPT ![t] = 0] /\ doubted' = [doubted EXCEPT ![t] = FALSE]
    BY <1>15 DEF Engine!Finish, Engine!Step, Engine!Drop, Engine!Account
  <2>2. /\ pc' \in [Threads -> {"idle", "dispatch", "lock", "convert", "register"}
                                \cup Engine!Printing]
        /\ doc' \in [Threads -> Documents \cup {NoDoc}]
        /\ result' \in [Threads -> {"none", "ok", "error"}]
        /\ sent' \in [Threads -> 0..2] /\ doubted' \in [Threads -> BOOLEAN]
    BY <2>1
  <2>3. temps' \in [Threads -> SUBSET Engine!Files] /\ left' \subseteq Engine!Files
    BY <2>1
  <2>4. active' \subseteq Documents
    BY <1>15 DEF Engine!Finish
  <2> QED BY <1>15, <2>2, <2>3, <2>4 DEF Engine!Finish
<1>16. ASSUME NEW t \in Threads, Engine!Convert(t) PROVE Engine!TypeOK'
  <2>1. /\ pc' \in {[pc EXCEPT ![t] = "register"], [pc EXCEPT ![t] = "idle"]}
        /\ doc' \in {doc, [doc EXCEPT ![t] = NoDoc]}
        /\ temps' \in {temps, [temps EXCEPT ![t] = @ \ {"converted"}]}
        /\ left' \in {left, left \cup {"converted"}}
        /\ lock' = [lock EXCEPT ![kind[doc[t]]] = NoThread]
        /\ UNCHANGED <<kind, result, chrome, sent, doubted, active, tracked, spool, cpc,
                       cdoc, cinfo, starts, cancelled, refused, overlapped>>
    BY <1>0, <1>16 DEF Engine!Convert, Engine!Step, Engine!Drop
  <2>2. temps' \in [Threads -> SUBSET Engine!Files] /\ left' \subseteq Engine!Files
    BY <2>1
  <2>3. doc' \in [Threads -> Documents \cup {NoDoc}]
    BY <2>1
  <2>4. pc' \in [Threads -> {"idle", "dispatch", "lock", "convert", "register"}
                              \cup Engine!Printing]
    BY <2>1
  <2>5. lock' \in [OfficeApps -> Threads \cup {NoThread}]
    BY <2>1
  <2> QED BY <2>1, <2>2, <2>3, <2>4, <2>5
<1>17. ASSUME NEW t \in Threads, Engine!ChromiumSpools(t) PROVE Engine!TypeOK'
  <2>1. chrome' \in [Threads -> {"none", "working", "spooled", "killed"}]
    BY <1>17 DEF Engine!ChromiumSpools
  <2>2. sent' = [sent EXCEPT ![t] = IF @ = 2 THEN 2 ELSE @ + 1]
    BY <1>17 DEF Engine!ChromiumSpools, Engine!Send
  <2>3. sent' \in [Threads -> 0..2]
    BY <2>2
  <2>4. spool' \subseteq Documents
    BY <1>0, <1>17 DEF Engine!ChromiumSpools
  <2> QED BY <1>17, <2>1, <2>3, <2>4 DEF Engine!ChromiumSpools
<1>18. ASSUME NEW d \in Documents, Engine!Cancel(d) PROVE Engine!TypeOK'
  BY <1>0, <1>18 DEF Engine!Cancel
<1>19. ASSUME NEW d \in Documents, Engine!PaperOut(d) PROVE Engine!TypeOK'
  BY <1>0, <1>19 DEF Engine!PaperOut
<1>20. CASE Engine!CancelInfo
  BY <1>0, <1>20 DEF Engine!CancelInfo
<1>21. CASE Engine!CancelKill
  BY <1>0, <1>21 DEF Engine!CancelKill
<1>22. CASE Engine!CancelPurge
  BY <1>0, <1>22 DEF Engine!CancelPurge
<1> QED
  BY <1>1, <1>2, <1>3, <1>4, <1>5, <1>6, <1>7, <1>8, <1>9, <1>10, <1>11, <1>12, <1>13,
     <1>14, <1>15, <1>16, <1>17, <1>18, <1>19, <1>20, <1>21, <1>22
     DEF Engine!Next, Engine!OwnStep, Engine!CancelStep

\* A thread that goes on with its run keeps what leads to the run.
LEMMA RunGoesOn ==
  ASSUME EngineInv, NEW t \in Threads, NEW q,
         pc[t] \notin {"idle", "render"}, q \notin {"idle", "render"},
         pc' = [pc EXCEPT ![t] = q],
         pc[t] \in Engine!Printing => q \in Engine!Printing,
         pc[t] \in Tracking => q \in Tracking,
         UNCHANGED <<doc, chrome, temps, active, overlapped>>,
         FilesAt(t) \subseteq FilesAt(t)',
         \/ UNCHANGED tracked
         \/ /\ q \in Tracking
            /\ \E e : tracked' = [tracked EXCEPT ![doc[t]] = e]
  PROVE  RunsInv'
<1> USE DEF EngineInv, RunsInv, Engine!TypeOK
<1>1. \A u \in Threads :
         /\ doc'[u] = NoDoc <=> pc'[u] = "idle"
         /\ temps'[u] \subseteq FilesAt(u)'
         /\ chrome'[u] = "none" <=> pc'[u] # "render"
  <2> TAKE u \in Threads
  <2>1. CASE u = t
    BY <2>1
  <2>2. CASE u # t
    BY <2>2 DEF FilesAt
  <2> QED BY <2>1, <2>2
<1>2. \A d \in active' : \E u \in Threads : doc'[u] = d /\ pc'[u] \in Engine!Printing
  OBVIOUS
<1>3. \A d \in Documents : tracked'[d] # Engine!Untracked =>
         \E u \in Threads : doc'[u] = d /\ pc'[u] \in Tracking
  OBVIOUS
<1> QED BY <1>1, <1>2, <1>3

\* Every step keeps entries, browsers and documents with their runs.
LEMMA EngineRuns ==
  ASSUME EngineInv,
         Engine!Next
  PROVE  RunsInv'
<1> USE HostConstants DEF EngineInv, RunsInv, Engine!TypeOK, Engine!Printing,
       Engine!Untracked, Engine!Methods, Engine!Files, Engine!threadVars, Engine!cancelVars,
       Engine!histVars, Tracking, FilesAt
<1>1. ASSUME NEW t \in Threads, NEW d \in Documents, Engine!Start(t, d)
      PROVE  RunsInv'
  BY <1>1 DEF Engine!Start, Engine!Step
<1>2. ASSUME NEW t \in Threads, Engine!Dispatch(t) PROVE RunsInv'
  BY <1>2 DEF Engine!Dispatch, Engine!Step
<1>3. ASSUME NEW t \in Threads, Engine!AcquireApp(t) PROVE RunsInv'
  <2>1. /\ pc[t] = "lock"
        /\ UNCHANGED <<doc, chrome, temps, active, overlapped>>
        /\ UNCHANGED tracked
    BY <1>3 DEF Engine!AcquireApp, Engine!Step
  <2>2. PICK q : q = "convert" /\ pc' = [pc EXCEPT ![t] = q]
    BY <1>3 DEF Engine!AcquireApp, Engine!Step
  <2> QED BY <2>1, <2>2, RunGoesOn
<1>4. ASSUME NEW t \in Threads, Engine!Register(t) PROVE RunsInv'
  BY <1>4 DEF Engine!Register, Engine!Step
<1>5. ASSUME NEW t \in Threads, Engine!Prepare(t) PROVE RunsInv'
  <2>1. pc[t] = "prepare" /\ UNCHANGED <<doc, chrome, active, overlapped>>
    BY <1>5 DEF Engine!Prepare, Engine!Step
  <2>2. temps[t] \subseteq {"converted"} /\ doc[t] # NoDoc
    BY <2>1
  <2>3. CASE /\ pc' = [pc EXCEPT ![t] = "ipp"]
             /\ \E e : tracked' = [tracked EXCEPT ![doc[t]] = e]
             /\ \E f \in {{}, {"part"}} : temps' = [temps EXCEPT ![t] = @ \cup f]
    <3>1. \A u \in Threads : temps'[u] \subseteq FilesAt(u)'
      BY <2>1, <2>2, <2>3
    <3>2. \A u \in Threads : /\ doc'[u] = NoDoc <=> pc'[u] = "idle"
                             /\ chrome'[u] = "none" <=> pc'[u] # "render"
      BY <2>1, <2>2, <2>3
    <3>3. \A d \in active' : \E u \in Threads : doc'[u] = d /\ pc'[u] \in Engine!Printing
      BY <2>1, <2>3
    <3>4. \A d \in Documents : tracked'[d] # Engine!Untracked =>
             \E u \in Threads : doc'[u] = d /\ pc'[u] \in Tracking
      BY <2>1, <2>3
    <3> QED BY <2>1, <3>1, <3>2, <3>3, <3>4
  <2>4. CASE pc' = [pc EXCEPT ![t] = "finish"] /\ UNCHANGED <<temps, tracked>>
    BY <2>1, <2>2, <2>4
  <2> QED BY <1>5, <2>3, <2>4 DEF Engine!Prepare, Engine!Step, Engine!Track
<1>6. ASSUME NEW t \in Threads, Engine!SkipIpp(t) PROVE RunsInv'
  BY <1>6 DEF Engine!SkipIpp, Engine!Step
<1>7. ASSUME NEW t \in Threads, Engine!TryIpp(t) PROVE RunsInv'
  <2>1. /\ pc[t] = "ipp"
        /\ UNCHANGED <<doc, chrome, temps, active, overlapped>>
        /\ \E e : tracked' = [tracked EXCEPT ![doc[t]] = e]
    BY <1>7 DEF Engine!TryIpp, Engine!Step, Engine!Track, Engine!Attempt, Engine!Send,
     Engine!Doubt
  <2>2. PICK q : q \in {"raw", "release"} /\ pc' = [pc EXCEPT ![t] = q]
    BY <1>7 DEF Engine!TryIpp, Engine!Step, Engine!Track, Engine!Attempt, Engine!Send,
     Engine!Doubt
  <2> QED BY <2>1, <2>2, RunGoesOn
<1>8. ASSUME NEW t \in Threads, Engine!SkipRaw(t) PROVE RunsInv'
  BY <1>8 DEF Engine!SkipRaw, Engine!Step
<1>9. ASSUME NEW t \in Threads, Engine!TryRaw(t) PROVE RunsInv'
  <2>1. /\ pc[t] = "raw"
        /\ UNCHANGED <<doc, chrome, temps, active, overlapped>>
        /\ \E e : tracked' = [tracked EXCEPT ![doc[t]] = e]
    BY <1>9 DEF Engine!TryRaw, Engine!Step, Engine!Track, Engine!Attempt, Engine!Send,
     Engine!Doubt
  <2>2. PICK q : q \in {"chromium", "release"} /\ pc' = [pc EXCEPT ![t] = q]
    BY <1>9 DEF Engine!TryRaw, Engine!Step, Engine!Track, Engine!Attempt, Engine!Send,
     Engine!Doubt
  <2> QED BY <2>1, <2>2, RunGoesOn
<1>10. ASSUME NEW t \in Threads, Engine!SkipChromium(t) PROVE RunsInv'
  BY <1>10 DEF Engine!SkipChromium, Engine!Step
<1>11. ASSUME NEW t \in Threads, Engine!StartChromium(t) PROVE RunsInv'
  <2>1. pc[t] = "chromium" /\ UNCHANGED <<doc, temps, active, overlapped>>
    BY <1>11 DEF Engine!StartChromium, Engine!Step
  <2>2. CASE /\ pc' = [pc EXCEPT ![t] = "render"]
             /\ chrome' = [chrome EXCEPT ![t] = "working"]
             /\ tracked' = [tracked EXCEPT ![doc[t]] = [by |-> t, method |-> "chromium"]]
    BY <2>1, <2>2
  <2>3. CASE pc' = [pc EXCEPT ![t] = "release"] /\ UNCHANGED <<chrome, tracked>>
    BY <2>1, <2>3
  <2> QED BY <1>11, <2>2, <2>3 DEF Engine!StartChromium, Engine!Step, Engine!Track
<1>12. ASSUME NEW t \in Threads, Engine!AwaitChromium(t) PROVE RunsInv'
  BY <1>12 DEF Engine!AwaitChromium, Engine!Step, Engine!Doubt
<1>13. ASSUME NEW t \in Threads, Engine!TryGdi(t) PROVE RunsInv'
  BY <1>13 DEF Engine!TryGdi, Engine!Step, Engine!Track, Engine!Send, Engine!Doubt
<1>14. ASSUME NEW t \in Threads, Engine!Release(t) PROVE RunsInv'
  BY <1>14 DEF Engine!Release, Engine!Step, Engine!Untrack, Engine!Drop, Engine!Doubt
<1>15. ASSUME NEW t \in Threads, Engine!Finish(t) PROVE RunsInv'
  BY <1>15 DEF Engine!Finish, Engine!Step, Engine!Drop, Engine!Account
<1>16. ASSUME NEW t \in Threads, Engine!Convert(t) PROVE RunsInv'
  <2>1. pc[t] = "convert" /\ UNCHANGED <<chrome, active, tracked, overlapped>>
    BY <1>16 DEF Engine!Convert
  <2>2. CASE pc' = [pc EXCEPT ![t] = "register"] /\ UNCHANGED <<doc, temps>>
    <3>1. FilesAt(t) \subseteq FilesAt(t)'
      BY <2>1, <2>2
    <3> QED BY <2>1, <2>2, <3>1, RunGoesOn
  <2>3. CASE /\ pc' = [pc EXCEPT ![t] = "idle"]
             /\ doc' = [doc EXCEPT ![t] = NoDoc]
             /\ temps' = [temps EXCEPT ![t] = @ \ {"converted"}]
    <3>1. \A u \in Threads : u # t =>
             doc'[u] = doc[u] /\ pc'[u] = pc[u] /\ temps'[u] = temps[u]
      BY <2>3
    <3>2. doc'[t] = NoDoc /\ pc'[t] = "idle" /\ temps'[t] = {}
      BY <2>1, <2>3
    <3> QED BY <2>1, <3>1, <3>2
  <2> QED BY <1>16, <2>2, <2>3 DEF Engine!Convert, Engine!Step, Engine!Drop
<1>17. ASSUME NEW t \in Threads, Engine!ChromiumSpools(t) PROVE RunsInv'
  BY <1>17 DEF Engine!ChromiumSpools, Engine!Step, Engine!Send
<1>18. ASSUME NEW d \in Documents, Engine!Cancel(d) PROVE RunsInv'
  BY <1>18 DEF Engine!Cancel
<1>19. ASSUME NEW d \in Documents, Engine!PaperOut(d) PROVE RunsInv'
  BY <1>19 DEF Engine!PaperOut
<1>20. CASE Engine!CancelInfo
  BY <1>20 DEF Engine!CancelInfo
<1>21. CASE Engine!CancelKill
  BY <1>21 DEF Engine!CancelKill
<1>22. CASE Engine!CancelPurge
  BY <1>22 DEF Engine!CancelPurge
<1> QED
  BY <1>1, <1>2, <1>3, <1>4, <1>5, <1>6, <1>7, <1>8, <1>9, <1>10, <1>11, <1>12, <1>13,
     <1>14, <1>15, <1>16, <1>17, <1>18, <1>19, <1>20, <1>21, <1>22
     DEF Engine!Next, Engine!OwnStep, Engine!CancelStep

\* Every step leaves a run that prints where a cancel finds it.
LEMMA EngineFinds ==
  ASSUME EngineInv,
         Engine!Next
  PROVE  Engine!CancelFindsRun'
<1> USE HostConstants DEF EngineInv, RunsInv, Engine!TypeOK, Engine!Printing,
       Engine!Untracked, Engine!Methods, Engine!Files, Engine!threadVars, Engine!cancelVars,
       Engine!histVars, Engine!CancelFindsRun
<1>1. ASSUME NEW t \in Threads, NEW d \in Documents, Engine!Start(t, d)
      PROVE  Engine!CancelFindsRun'
  BY <1>1 DEF Engine!Start, Engine!Step
<1>2. ASSUME NEW t \in Threads, Engine!Dispatch(t) PROVE Engine!CancelFindsRun'
  BY <1>2 DEF Engine!Dispatch, Engine!Step
<1>3. ASSUME NEW t \in Threads, Engine!AcquireApp(t) PROVE Engine!CancelFindsRun'
  BY <1>3 DEF Engine!AcquireApp, Engine!Step
<1>4. ASSUME NEW t \in Threads, Engine!Register(t) PROVE Engine!CancelFindsRun'
  BY <1>4 DEF Engine!Register, Engine!Step
<1>5. ASSUME NEW t \in Threads, Engine!Prepare(t) PROVE Engine!CancelFindsRun'
  BY <1>5 DEF Engine!Prepare, Engine!Step, Engine!Track
<1>6. ASSUME NEW t \in Threads, Engine!SkipIpp(t) PROVE Engine!CancelFindsRun'
  BY <1>6 DEF Engine!SkipIpp, Engine!Step
<1>7. ASSUME NEW t \in Threads, Engine!TryIpp(t) PROVE Engine!CancelFindsRun'
  BY <1>7 DEF Engine!TryIpp, Engine!Step, Engine!Track, Engine!Attempt, Engine!Send,
     Engine!Doubt
<1>8. ASSUME NEW t \in Threads, Engine!SkipRaw(t) PROVE Engine!CancelFindsRun'
  BY <1>8 DEF Engine!SkipRaw, Engine!Step
<1>9. ASSUME NEW t \in Threads, Engine!TryRaw(t) PROVE Engine!CancelFindsRun'
  BY <1>9 DEF Engine!TryRaw, Engine!Step, Engine!Track, Engine!Attempt, Engine!Send,
     Engine!Doubt
<1>10. ASSUME NEW t \in Threads, Engine!SkipChromium(t) PROVE Engine!CancelFindsRun'
  BY <1>10 DEF Engine!SkipChromium, Engine!Step
<1>11. ASSUME NEW t \in Threads, Engine!StartChromium(t) PROVE Engine!CancelFindsRun'
  BY <1>11 DEF Engine!StartChromium, Engine!Step, Engine!Track
<1>12. ASSUME NEW t \in Threads, Engine!AwaitChromium(t) PROVE Engine!CancelFindsRun'
  BY <1>12 DEF Engine!AwaitChromium, Engine!Step, Engine!Doubt
<1>13. ASSUME NEW t \in Threads, Engine!TryGdi(t) PROVE Engine!CancelFindsRun'
  BY <1>13 DEF Engine!TryGdi, Engine!Step, Engine!Track, Engine!Send, Engine!Doubt
<1>14. ASSUME NEW t \in Threads, Engine!Release(t) PROVE Engine!CancelFindsRun'
  BY <1>14 DEF Engine!Release, Engine!Step, Engine!Untrack, Engine!Drop, Engine!Doubt
<1>15. ASSUME NEW t \in Threads, Engine!Finish(t) PROVE Engine!CancelFindsRun'
  BY <1>15 DEF Engine!Finish, Engine!Step, Engine!Drop, Engine!Account
<1>16. ASSUME NEW t \in Threads, Engine!Convert(t) PROVE Engine!CancelFindsRun'
  BY <1>16 DEF Engine!Convert, Engine!Step, Engine!Drop
<1>17. ASSUME NEW t \in Threads, Engine!ChromiumSpools(t) PROVE Engine!CancelFindsRun'
  BY <1>17 DEF Engine!ChromiumSpools, Engine!Step, Engine!Send
<1>18. ASSUME NEW d \in Documents, Engine!Cancel(d) PROVE Engine!CancelFindsRun'
  BY <1>18 DEF Engine!Cancel
<1>19. ASSUME NEW d \in Documents, Engine!PaperOut(d) PROVE Engine!CancelFindsRun'
  BY <1>19 DEF Engine!PaperOut
<1>20. CASE Engine!CancelInfo
  BY <1>20 DEF Engine!CancelInfo
<1>21. CASE Engine!CancelKill
  BY <1>21 DEF Engine!CancelKill
<1>22. CASE Engine!CancelPurge
  BY <1>22 DEF Engine!CancelPurge
<1> QED
  BY <1>1, <1>2, <1>3, <1>4, <1>5, <1>6, <1>7, <1>8, <1>9, <1>10, <1>11, <1>12, <1>13,
     <1>14, <1>15, <1>16, <1>17, <1>18, <1>19, <1>20, <1>21, <1>22
     DEF Engine!Next, Engine!OwnStep, Engine!CancelStep

\* No step gives the document of a killed browser to the spooler.
LEMMA EngineKilled ==
  ASSUME EngineInv,
         Engine!Next
  PROVE  KilledInv'
<1> USE HostConstants DEF EngineInv, RunsInv, Engine!TypeOK, Engine!Printing,
       Engine!Untracked, Engine!Methods, Engine!Files, Engine!threadVars, Engine!cancelVars,
       Engine!histVars, KilledInv
<1>1. ASSUME NEW t \in Threads, NEW d \in Documents, Engine!Start(t, d)
      PROVE  KilledInv'
  BY <1>1 DEF Engine!Start, Engine!Step
<1>2. ASSUME NEW t \in Threads, Engine!Dispatch(t) PROVE KilledInv'
  BY <1>2 DEF Engine!Dispatch, Engine!Step
<1>3. ASSUME NEW t \in Threads, Engine!AcquireApp(t) PROVE KilledInv'
  BY <1>3 DEF Engine!AcquireApp, Engine!Step
<1>4. ASSUME NEW t \in Threads, Engine!Register(t) PROVE KilledInv'
  BY <1>4 DEF Engine!Register, Engine!Step
<1>5. ASSUME NEW t \in Threads, Engine!Prepare(t) PROVE KilledInv'
  BY <1>5 DEF Engine!Prepare, Engine!Step, Engine!Track
<1>6. ASSUME NEW t \in Threads, Engine!SkipIpp(t) PROVE KilledInv'
  BY <1>6 DEF Engine!SkipIpp, Engine!Step
<1>7. ASSUME NEW t \in Threads, Engine!TryIpp(t) PROVE KilledInv'
  BY <1>7 DEF Engine!TryIpp, Engine!Step, Engine!Track, Engine!Attempt, Engine!Send,
     Engine!Doubt
<1>8. ASSUME NEW t \in Threads, Engine!SkipRaw(t) PROVE KilledInv'
  BY <1>8 DEF Engine!SkipRaw, Engine!Step
<1>9. ASSUME NEW t \in Threads, Engine!TryRaw(t) PROVE KilledInv'
  BY <1>9 DEF Engine!TryRaw, Engine!Step, Engine!Track, Engine!Attempt, Engine!Send,
     Engine!Doubt
<1>10. ASSUME NEW t \in Threads, Engine!SkipChromium(t) PROVE KilledInv'
  BY <1>10 DEF Engine!SkipChromium, Engine!Step
<1>11. ASSUME NEW t \in Threads, Engine!StartChromium(t) PROVE KilledInv'
  BY <1>11 DEF Engine!StartChromium, Engine!Step, Engine!Track
<1>12. ASSUME NEW t \in Threads, Engine!AwaitChromium(t) PROVE KilledInv'
  BY <1>12 DEF Engine!AwaitChromium, Engine!Step, Engine!Doubt
<1>13. ASSUME NEW t \in Threads, Engine!TryGdi(t) PROVE KilledInv'
  BY <1>13 DEF Engine!TryGdi, Engine!Step, Engine!Track, Engine!Send, Engine!Doubt
<1>14. ASSUME NEW t \in Threads, Engine!Release(t) PROVE KilledInv'
  BY <1>14 DEF Engine!Release, Engine!Step, Engine!Untrack, Engine!Drop, Engine!Doubt
<1>15. ASSUME NEW t \in Threads, Engine!Finish(t) PROVE KilledInv'
  BY <1>15 DEF Engine!Finish, Engine!Step, Engine!Drop, Engine!Account
<1>16. ASSUME NEW t \in Threads, Engine!Convert(t) PROVE KilledInv'
  BY <1>16 DEF Engine!Convert, Engine!Step, Engine!Drop
<1>17. ASSUME NEW t \in Threads, Engine!ChromiumSpools(t) PROVE KilledInv'
  BY <1>17 DEF Engine!ChromiumSpools, Engine!Step, Engine!Send
<1>18. ASSUME NEW d \in Documents, Engine!Cancel(d) PROVE KilledInv'
  BY <1>18 DEF Engine!Cancel
<1>19. ASSUME NEW d \in Documents, Engine!PaperOut(d) PROVE KilledInv'
  BY <1>19 DEF Engine!PaperOut
<1>20. CASE Engine!CancelInfo
  BY <1>20 DEF Engine!CancelInfo
<1>21. CASE Engine!CancelKill
  BY <1>21 DEF Engine!CancelKill
<1>22. CASE Engine!CancelPurge
  BY <1>22 DEF Engine!CancelPurge
<1> QED
  BY <1>1, <1>2, <1>3, <1>4, <1>5, <1>6, <1>7, <1>8, <1>9, <1>10, <1>11, <1>12, <1>13,
     <1>14, <1>15, <1>16, <1>17, <1>18, <1>19, <1>20, <1>21, <1>22
     DEF Engine!Next, Engine!OwnStep, Engine!CancelStep

\* Every step keeps the account of what the printer got.
LEMMA EngineSent ==
  ASSUME EngineInv,
         Engine!Next
  PROVE  \A u \in Threads : SentSoFar(u)'
<1> USE HostConstants DEF EngineInv, RunsInv, Engine!TypeOK, Engine!Printing,
       Engine!Untracked, Engine!Methods, Engine!Files, Engine!threadVars, Engine!cancelVars,
       Engine!histVars, SentSoFar
<1>1. ASSUME NEW t \in Threads, NEW d \in Documents, Engine!Start(t, d)
      PROVE  \A u \in Threads : SentSoFar(u)'
  BY <1>1 DEF Engine!Start, Engine!Step
<1>2. ASSUME NEW t \in Threads, Engine!Dispatch(t) PROVE \A u \in Threads : SentSoFar(u)'
  BY <1>2 DEF Engine!Dispatch, Engine!Step
<1>3. ASSUME NEW t \in Threads, Engine!AcquireApp(t) PROVE \A u \in Threads : SentSoFar(u)'
  BY <1>3 DEF Engine!AcquireApp, Engine!Step
<1>4. ASSUME NEW t \in Threads, Engine!Register(t) PROVE \A u \in Threads : SentSoFar(u)'
  BY <1>4 DEF Engine!Register, Engine!Step
<1>5. ASSUME NEW t \in Threads, Engine!Prepare(t) PROVE \A u \in Threads : SentSoFar(u)'
  BY <1>5 DEF Engine!Prepare, Engine!Step, Engine!Track
<1>6. ASSUME NEW t \in Threads, Engine!SkipIpp(t) PROVE \A u \in Threads : SentSoFar(u)'
  BY <1>6 DEF Engine!SkipIpp, Engine!Step
<1>7. ASSUME NEW t \in Threads, Engine!TryIpp(t) PROVE \A u \in Threads : SentSoFar(u)'
  BY <1>7 DEF Engine!TryIpp, Engine!Step, Engine!Track, Engine!Attempt, Engine!Send,
     Engine!Doubt
<1>8. ASSUME NEW t \in Threads, Engine!SkipRaw(t) PROVE \A u \in Threads : SentSoFar(u)'
  BY <1>8 DEF Engine!SkipRaw, Engine!Step
<1>9. ASSUME NEW t \in Threads, Engine!TryRaw(t) PROVE \A u \in Threads : SentSoFar(u)'
  BY <1>9 DEF Engine!TryRaw, Engine!Step, Engine!Track, Engine!Attempt, Engine!Send,
     Engine!Doubt
<1>10. ASSUME NEW t \in Threads, Engine!SkipChromium(t) PROVE \A u \in Threads : SentSoFar(u)'
  BY <1>10 DEF Engine!SkipChromium, Engine!Step
<1>11. ASSUME NEW t \in Threads, Engine!StartChromium(t) PROVE \A u \in Threads : SentSoFar(u)'
  BY <1>11 DEF Engine!StartChromium, Engine!Step, Engine!Track
<1>12. ASSUME NEW t \in Threads, Engine!AwaitChromium(t) PROVE \A u \in Threads : SentSoFar(u)'
  BY <1>12 DEF Engine!AwaitChromium, Engine!Step, Engine!Doubt
<1>13. ASSUME NEW t \in Threads, Engine!TryGdi(t) PROVE \A u \in Threads : SentSoFar(u)'
  BY <1>13 DEF Engine!TryGdi, Engine!Step, Engine!Track, Engine!Send, Engine!Doubt
<1>14. ASSUME NEW t \in Threads, Engine!Release(t) PROVE \A u \in Threads : SentSoFar(u)'
  BY <1>14 DEF Engine!Release, Engine!Step, Engine!Untrack, Engine!Drop, Engine!Doubt
<1>15. ASSUME NEW t \in Threads, Engine!Finish(t) PROVE \A u \in Threads : SentSoFar(u)'
  BY <1>15 DEF Engine!Finish, Engine!Step, Engine!Drop, Engine!Account
<1>16. ASSUME NEW t \in Threads, Engine!Convert(t) PROVE \A u \in Threads : SentSoFar(u)'
  BY <1>16 DEF Engine!Convert, Engine!Step, Engine!Drop
<1>17. ASSUME NEW t \in Threads, Engine!ChromiumSpools(t) PROVE \A u \in Threads : SentSoFar(u)'
  BY <1>17 DEF Engine!ChromiumSpools, Engine!Step, Engine!Send
<1>18. ASSUME NEW d \in Documents, Engine!Cancel(d) PROVE \A u \in Threads : SentSoFar(u)'
  BY <1>18 DEF Engine!Cancel
<1>19. ASSUME NEW d \in Documents, Engine!PaperOut(d) PROVE \A u \in Threads : SentSoFar(u)'
  BY <1>19 DEF Engine!PaperOut
<1>20. CASE Engine!CancelInfo
  BY <1>20 DEF Engine!CancelInfo
<1>21. CASE Engine!CancelKill
  BY <1>21 DEF Engine!CancelKill
<1>22. CASE Engine!CancelPurge
  BY <1>22 DEF Engine!CancelPurge
<1> QED
  BY <1>1, <1>2, <1>3, <1>4, <1>5, <1>6, <1>7, <1>8, <1>9, <1>10, <1>11, <1>12, <1>13,
     <1>14, <1>15, <1>16, <1>17, <1>18, <1>19, <1>20, <1>21, <1>22
     DEF Engine!Next, Engine!OwnStep, Engine!CancelStep

\* The invariant is inductive.
LEMMA EngineNext == EngineInv /\ [Engine!Next]_engineVars => EngineInv'
<1> SUFFICES ASSUME EngineInv, [Engine!Next]_engineVars PROVE EngineInv'
  OBVIOUS
<1>1. CASE Engine!Next
  BY <1>1, EngineTypes, EngineRuns, EngineFinds, EngineKilled, EngineSent
     DEF EngineInv
<1>2. CASE UNCHANGED engineVars
  BY <1>2 DEF engineVars, EngineInv, RunsInv, FilesAt, KilledInv, SentSoFar, Engine!TypeOK,
     Engine!CancelFindsRun
<1> QED BY <1>1, <1>2

\* The engine's invariant holds of every behaviour.
LEMMA EngineAlways == FairSpec => []EngineInv
<1>1. [Next]_hostVars => [Engine!Next]_engineVars
  BY DEF Next, hostVars
<1> QED BY <1>1, EngineInit, EngineNext, PTL DEF FairSpec

\* Once a thread has returned from print_file, by whichever of the backend's
\* exits, exceptions and cancels, neither table has an entry nobody will
\* remove, no browser is left, and no temporary file but those whose filling or
\* removal raised an exception.
THEOREM EngineLeavesNothing == FairSpec => []NothingLeft
<1>1. EngineInv => NothingLeft
  BY DEF EngineInv, RunsInv, FilesAt, NothingLeft, Engine!NothingLeft, Engine!TypeOK
<1> QED BY <1>1, EngineAlways, PTL

\* A job that is printed can be cancelled at every step of its way through the
\* four methods, and a cancel that killed the browser takes back what that had
\* spooled, unless two threads print the document or the spooler refuses.
THEOREM CancelsReachThePrinter == FairSpec => []CancelEffective
<1>1. EngineInv => CancelEffective
  BY DEF EngineInv, KilledInv, CancelEffective, Engine!CancelFindsRun,
     Engine!KilledIsErased
<1> QED BY <1>1, EngineAlways, PTL

\* A second document of one run, or one of a run that raised, comes from a way
\* that failed after sending, whichever of the four methods printed or failed;
\* True stands for a document.
THEOREM CopiesAreExplained == FairSpec => []CopiesExplained
<1>1. EngineInv => CopiesExplained
  BY DEF EngineInv, SentSoFar, CopiesExplained, Engine!CopiesExplained, Engine!TypeOK
<1> QED BY <1>1, EngineAlways, PTL

-----------------------------------------------------------------------------
(* The server that is restarted. *)

\* Only the GUI's thread stops a server, a new server thread has not been told
\* to exit, and a caller that waits for a server has started one.
CallInv ==
    /\ Server!TypeOK
    /\ callPc["boot"] \notin {"stop", "join", "quit", "leave", "over"}
    /\ \A c \in Server!Callers : callPc[c] = "probe" => thread # 0
    /\ server # 0 => state[server] # "none"
    /\ \A n \in Server!Servers : state[n] = "none" => ~should_exit[n]

\* As long as nobody gave up waiting and no two starts overlapped, one server
\* lives at most, the one the handle knows; while it is up and not stopped,
\* started says so, and says nothing wrong but with another program on the
\* port; a server told to exit is waited for.
HandleInv ==
    ~timedOut /\ ~together =>
        /\ \A n \in Server!Servers : Server!Live(n) =>
              n = thread /\ (server = n \/ state[n] = "spawned")
        /\ \A n \in Server!Servers : Server!Live(n) =>
              /\ started \/ \E c \in Server!Callers : callPc[c] = "probe"
              /\ should_exit[n] => callPc["page"] \in {"join", "leave"}
        /\ started /\ callPc["page"] \notin {"join", "leave"} =>
              /\ thread # 0
              /\ port \in foreign \/ (state[thread] = "listening" /\ bound[thread] = port)
        /\ \A c, d \in Server!Callers :
              callPc[c] = "probe" /\ callPc[d] = "probe" => c = d

\* Until the first stop there is one server thread and nobody tells it to exit;
\* until its end no service has been stopped.
FirstServer ==
    restarts = 0 /\ callPc["page"] = "idle" =>
        /\ \A n \in Server!Servers :
              /\ ~should_exit[n]
              /\ state[n] # "none" => callPc["boot"] \notin {"monitor", "start"}
        /\ \A m, n \in Server!Servers :
              state[m] # "none" /\ state[n] # "none" => m = n
        /\ (\A n \in Server!Servers : state[n] # "dead") =>
              /\ alive \cup {"monitor"} = Server!Services
              /\ callPc["boot"] # "monitor" => alive = Server!Services

\* The settings page restarts the server from idle and is idle again.
PageInv == restarts = 0 => callPc["page"] \in {"idle", "quit", "leave", "over"}

ServerInv == CallInv /\ HandleInv /\ FirstServer /\ PageInv

\* After bootstrap there is no server yet.
LEMMA ServerInit == Init => ServerInv
<1> SUFFICES ASSUME Init PROVE ServerInv
  OBVIOUS
<1> USE HostConstants DEF Init, Server!Init
<1>0. 0 \in 0..MaxRestarts /\ 1 \in Server!Servers
  BY DEF Server!Servers
<1>1. CallInv
  BY <1>0 DEF CallInv, Server!TypeOK, Server!Callers, Server!Services
<1>2. HandleInv
  BY DEF HandleInv, Server!Live
<1>3. FirstServer
  BY DEF FirstServer, Server!Callers, Server!Services
<1>4. PageInv
  BY DEF PageInv, Server!Callers
<1> QED BY <1>1, <1>2, <1>3, <1>4 DEF ServerInv

\* Every step keeps the types and the order of the calls.
LEMMA ServerCalls ==
  ASSUME ServerInv, Server!Next
  PROVE  CallInv'
<1> USE HostConstants DEF ServerInv, CallInv, Server!TypeOK, Server!Callers, Server!handleVars,
       Server!serverVars, Server!histVars, Server!Services
<1>1. CASE Server!StartMonitor
  BY <1>1 DEF Server!StartMonitor, Server!Goto, Server!Become
<1>2. ASSUME NEW p \in Ports, Server!Restart(p) PROVE CallInv'
  BY <1>2 DEF Server!Restart, Server!Goto, Server!Become
<1>3. ASSUME NEW c \in Server!Callers, Server!Stop(c) PROVE CallInv'
  BY <1>3 DEF Server!Stop, Server!Goto, Server!Become
<1>4. ASSUME NEW c \in Server!Callers, Server!Join(c) PROVE CallInv'
  BY <1>4 DEF Server!Join, Server!Goto, Server!Become
<1>5. ASSUME NEW c \in Server!Callers, Server!Start(c) PROVE CallInv'
  <2>1. callPc[c] = "start" /\ \E q \in {"done", "probe"} : callPc' = [callPc EXCEPT ![c] = q]
    BY <1>5 DEF Server!Start, Server!Goto
  <2>2. /\ state' = state /\ thread' = thread /\ port' = port /\ together' = together
        \/ \E n \in Server!Servers :
              /\ state' = [state EXCEPT ![n] = "spawned"] /\ thread' = n
              /\ port' = wanted /\ together' \in BOOLEAN
    BY <1>5 DEF Server!Start, Server!Become
  <2>3. UNCHANGED <<foreign, wanted, server, started, bound, should_exit, alive, restarts, timedOut>>
    BY <1>5 DEF Server!Start
  <2>4. Server!TypeOK'
    BY <2>1, <2>2, <2>3
  <2>5. callPc'["boot"] \notin {"stop", "join", "quit", "leave", "over"}
    BY <2>1
  <2>6. server' # 0 => state'[server'] # "none"
    BY <2>2, <2>3
  <2>7. \A n \in Server!Servers : state'[n] = "none" => ~should_exit'[n]
    BY <2>2, <2>3
  <2>8. \A d \in Server!Callers : callPc'[d] = "probe" => thread' # 0
    BY <1>5, <2>1, <2>2 DEF Server!Start, Server!Goto, Server!Servers
  <2> QED BY <2>4, <2>5, <2>6, <2>7, <2>8
<1>6. ASSUME NEW c \in Server!Callers, Server!Probe(c) PROVE CallInv'
  BY <1>6 DEF Server!Probe, Server!Goto, Server!Become
<1>7. ASSUME NEW c \in Server!Callers, Server!Return(c) PROVE CallInv'
  BY <1>7 DEF Server!Return, Server!Goto, Server!Become
<1>8. ASSUME NEW n \in Server!Servers, Server!Configure(n) PROVE CallInv'
  BY <1>8 DEF Server!Configure, Server!Goto, Server!Become
<1>9. ASSUME NEW n \in Server!Servers, Server!Bind(n) PROVE CallInv'
  BY <1>9 DEF Server!Bind, Server!Goto, Server!Become
<1>10. ASSUME NEW n \in Server!Servers, Server!Close(n) PROVE CallInv'
  BY <1>10 DEF Server!Close, Server!Goto, Server!Become
<1>11. ASSUME NEW n \in Server!Servers, Server!Lifespan(n) PROVE CallInv'
  BY <1>11 DEF Server!Lifespan, Server!Goto, Server!Become
<1>12. CASE Server!Quit
  BY <1>12 DEF Server!Quit, Server!Goto, Server!Become
<1>13. CASE Server!Leave
  BY <1>13 DEF Server!Leave, Server!Live
<1>14. ASSUME NEW n \in Server!Servers, Server!Fail(n) PROVE CallInv'
  BY <1>14 DEF Server!Fail, Server!Goto, Server!Become
<1> QED
  BY <1>1, <1>2, <1>3, <1>4, <1>5, <1>6, <1>7, <1>8, <1>9, <1>10, <1>11, <1>12, <1>13, <1>14
     DEF Server!Next, Server!CallerStep, Server!ServerStep

\* Every step keeps what the handle knows.
LEMMA ServerHandle ==
  ASSUME ServerInv, Server!Next
  PROVE  HandleInv'
<1> USE HostConstants DEF ServerInv, CallInv, Server!TypeOK, Server!Callers, Server!handleVars,
       Server!serverVars, Server!histVars, HandleInv, Server!Live, Server!Listening, Server!Serving
<1>1. CASE Server!StartMonitor
  BY <1>1 DEF Server!StartMonitor, Server!Goto, Server!Become
<1>2. ASSUME NEW p \in Ports, Server!Restart(p) PROVE HandleInv'
  BY <1>2 DEF Server!Restart, Server!Goto, Server!Become
<1>3. ASSUME NEW c \in Server!Callers, Server!Stop(c) PROVE HandleInv'
  BY <1>3 DEF Server!Stop, Server!Goto, Server!Become
<1>4. ASSUME NEW c \in Server!Callers, Server!Join(c), ~timedOut', ~together'
      PROVE  HandleInv'
  <2>1. /\ c = "page" /\ ~timedOut /\ ~together /\ ~started'
        /\ callPc' = [callPc EXCEPT !["page"] = "start"]
        /\ UNCHANGED <<foreign, state, thread, server, should_exit>>
    BY <1>4 DEF Server!Join, Server!Goto
  <2>2. thread = 0 \/ ~Server!Live(thread)
    BY <1>4 DEF Server!Join
  <2>3. \A n \in Server!Servers : ~Server!Live(n)
    BY <2>1, <2>2 DEF Server!Servers
  <2>4. \A n \in Server!Servers : ~Server!Live(n)'
    BY <2>1, <2>3
  <2>5. \A d \in Server!Callers : callPc'[d] = "probe" => callPc[d] = "probe"
    BY <2>1
  <2> QED BY <2>1, <2>4, <2>5
<1>5. ASSUME NEW c \in Server!Callers, Server!Start(c), ~timedOut', ~together'
      PROVE  HandleInv'
  <2>1. callPc[c] = "start" /\ ~timedOut /\ ~together
    BY <1>5 DEF Server!Start
  <2>2. UNCHANGED <<foreign, wanted, bound, server, started, should_exit>>
    BY <1>5 DEF Server!Start
  <2>3. CASE started
    <3>1. callPc' = [callPc EXCEPT ![c] = "done"] /\ UNCHANGED <<state, thread, port>>
      BY <1>5, <2>3 DEF Server!Start, Server!Goto
    <3>2. \A d \in Server!Callers : callPc'[d] \in {"probe", "join"} => callPc'[d] = callPc[d]
      BY <3>1
    <3>3. callPc'["page"] # "join" => callPc["page"] # "join"
      BY <2>1, <3>1
    <3> QED BY <2>1, <2>2, <2>3, <3>1, <3>2, <3>3
  <2>4. CASE ~started
    <3>1. PICK i0 \in Server!Servers :
             state[i0] = "none" /\ state' = [state EXCEPT ![i0] = "spawned"] /\ thread' = i0
      BY <1>5, <2>4 DEF Server!Start, Server!Become
    <3>2. callPc' = [callPc EXCEPT ![c] = "probe"]
      BY <1>5, <2>4 DEF Server!Start, Server!Goto
    <3>3. \A d \in Server!Callers \ {c} : callPc[d] # "probe"
      BY <1>5, <2>4 DEF Server!Start
    <3>4. \A n \in Server!Servers : ~Server!Live(n)
      BY <2>1, <2>4, <3>3
    <3>5. \A n \in Server!Servers : Server!Live(n)' => n = i0
      BY <3>1, <3>4
    <3>6. state'[i0] = "spawned" /\ ~should_exit'[i0] /\ callPc'[c] = "probe"
      BY <2>2, <3>1, <3>2
    <3>7. \A d \in Server!Callers : callPc'[d] = "probe" => d = c
      BY <3>2, <3>3
    <3> QED BY <2>2, <2>4, <3>1, <3>5, <3>6, <3>7
  <2> QED BY <2>3, <2>4
<1>6. ASSUME NEW c \in Server!Callers, Server!Probe(c), ~timedOut', ~together'
      PROVE  HandleInv'
  <2>1. /\ callPc[c] = "probe" /\ ~timedOut /\ ~together /\ started'
        /\ Server!Listening(port) /\ callPc' = [callPc EXCEPT ![c] = "done"]
        /\ UNCHANGED <<foreign, state, bound, port, thread, server, should_exit>>
    BY <1>6 DEF Server!Probe, Server!Goto
  <2>2. thread # 0
    BY <2>1
  <2>3. port \in foreign \/ (state[thread] = "listening" /\ bound[thread] = port)
    <3>1. CASE port \in foreign
      BY <3>1
    <3>2. CASE port \notin foreign
      <4>1. PICK i0 \in Server!Servers : state[i0] = "listening" /\ bound[i0] = port
        BY <2>1, <3>2
      <4>2. i0 = thread
        BY <2>1, <4>1
      <4> QED BY <4>1, <4>2
    <3> QED BY <3>1, <3>2
  <2>4. \A d \in Server!Callers : callPc'[d] \in {"probe", "join"} => callPc'[d] = callPc[d]
    BY <2>1
  <2>5. callPc["page"] = "join" => callPc'["page"] = "join"
    BY <2>1
  <2> QED BY <2>1, <2>2, <2>3, <2>4, <2>5
<1>7. ASSUME NEW c \in Server!Callers, Server!Return(c) PROVE HandleInv'
  BY <1>7 DEF Server!Return, Server!Goto, Server!Become
<1>8. ASSUME NEW n \in Server!Servers, Server!Configure(n) PROVE HandleInv'
  BY <1>8 DEF Server!Configure, Server!Goto, Server!Become
<1>9. ASSUME NEW n \in Server!Servers, Server!Bind(n) PROVE HandleInv'
  BY <1>9 DEF Server!Bind, Server!Goto, Server!Become
<1>10. ASSUME NEW n \in Server!Servers, Server!Close(n) PROVE HandleInv'
  BY <1>10 DEF Server!Close, Server!Goto, Server!Become
<1>11. ASSUME NEW n \in Server!Servers, Server!Lifespan(n) PROVE HandleInv'
  BY <1>11 DEF Server!Lifespan, Server!Goto, Server!Become
<1>12. CASE Server!Quit
  BY <1>12 DEF Server!Quit, Server!Goto, Server!Become
<1>13. CASE Server!Leave
  BY <1>13 DEF Server!Leave, Server!Live
<1>14. ASSUME NEW n \in Server!Servers, Server!Fail(n) PROVE HandleInv'
  BY <1>14 DEF Server!Fail, Server!Goto, Server!Become
<1> QED
  BY <1>1, <1>2, <1>3, <1>4, <1>5, <1>6, <1>7, <1>8, <1>9, <1>10, <1>11, <1>12, <1>13, <1>14
     DEF Server!Next, Server!CallerStep, Server!ServerStep

\* Every step before the first restart keeps the one server.
LEMMA ServerFirst ==
  ASSUME ServerInv, Server!Next
  PROVE  FirstServer'
<1> USE HostConstants DEF ServerInv, CallInv, Server!TypeOK, Server!Callers, Server!handleVars,
       Server!serverVars, Server!histVars, FirstServer, Server!Listening, Server!Serving, Server!Services
<1>1. CASE Server!StartMonitor
  BY <1>1 DEF Server!StartMonitor, Server!Goto, Server!Become
<1>2. ASSUME NEW p \in Ports, Server!Restart(p) PROVE FirstServer'
  BY <1>2 DEF Server!Restart, Server!Goto, Server!Become
<1>3. ASSUME NEW c \in Server!Callers, Server!Stop(c) PROVE FirstServer'
  BY <1>3 DEF Server!Stop, Server!Goto, Server!Become
<1>4. ASSUME NEW c \in Server!Callers, Server!Join(c) PROVE FirstServer'
  BY <1>4 DEF Server!Join, Server!Goto, Server!Become
<1>5. ASSUME NEW c \in Server!Callers, Server!Start(c) PROVE FirstServer'
  BY <1>5 DEF Server!Start, Server!Goto, Server!Become
<1>6. ASSUME NEW c \in Server!Callers, Server!Probe(c) PROVE FirstServer'
  BY <1>6 DEF Server!Probe, Server!Goto, Server!Become
<1>7. ASSUME NEW c \in Server!Callers, Server!Return(c) PROVE FirstServer'
  BY <1>7 DEF PageInv, Server!Return, Server!Goto, Server!Become
<1>8. ASSUME NEW n \in Server!Servers, Server!Configure(n) PROVE FirstServer'
  BY <1>8 DEF Server!Configure, Server!Goto, Server!Become
<1>9. ASSUME NEW n \in Server!Servers, Server!Bind(n) PROVE FirstServer'
  BY <1>9 DEF Server!Bind, Server!Goto, Server!Become
<1>10. ASSUME NEW n \in Server!Servers, Server!Close(n) PROVE FirstServer'
  BY <1>10 DEF Server!Close, Server!Goto, Server!Become
<1>11. ASSUME NEW n \in Server!Servers, Server!Lifespan(n) PROVE FirstServer'
  BY <1>11 DEF Server!Lifespan, Server!Goto, Server!Become
<1>12. CASE Server!Quit
  BY <1>12 DEF Server!Quit, Server!Goto, Server!Become
<1>13. CASE Server!Leave
  BY <1>13 DEF Server!Leave, Server!Live
<1>14. ASSUME NEW n \in Server!Servers, Server!Fail(n) PROVE FirstServer'
  BY <1>14 DEF Server!Fail, Server!Goto, Server!Become
<1> QED
  BY <1>1, <1>2, <1>3, <1>4, <1>5, <1>6, <1>7, <1>8, <1>9, <1>10, <1>11, <1>12, <1>13, <1>14
     DEF Server!Next, Server!CallerStep, Server!ServerStep

\* Every step keeps the way of the settings page.
LEMMA ServerPage ==
  ASSUME ServerInv, Server!Next
  PROVE  PageInv'
<1> USE HostConstants DEF ServerInv, CallInv, PageInv, Server!TypeOK, Server!Callers
<1>1. CASE Server!StartMonitor \/ Server!Quit \/ Server!Leave
  BY <1>1 DEF Server!StartMonitor, Server!Quit, Server!Leave, Server!Goto
<1>2. ASSUME NEW p \in Ports, Server!Restart(p) PROVE PageInv'
  BY <1>2 DEF Server!Restart
<1>3. ASSUME NEW c \in Server!Callers, Server!CallerStep(c) PROVE PageInv'
  BY <1>3 DEF Server!CallerStep, Server!Stop, Server!Join, Server!Start, Server!Probe,
     Server!Return, Server!Goto
<1>4. ASSUME NEW n \in Server!Servers, Server!ServerStep(n) PROVE PageInv'
  BY <1>4 DEF Server!ServerStep, Server!Configure, Server!Fail, Server!Bind, Server!Close,
     Server!Lifespan
<1> QED BY <1>1, <1>2, <1>3, <1>4 DEF Server!Next

\* The invariant holds of every behaviour.
LEMMA ServerAlways == FairSpec => []ServerInv
<1>1. [Next]_hostVars => Server!Next \/ UNCHANGED serverVars
  BY DEF Next, hostVars
<1>2. ServerInv /\ Server!Next => ServerInv'
  BY ServerCalls, ServerHandle, ServerFirst, ServerPage DEF ServerInv
<1>3. ServerInv /\ UNCHANGED serverVars => ServerInv'
  BY DEF serverVars, ServerInv, CallInv, HandleInv, FirstServer, PageInv, Server!TypeOK,
     Server!Live
<1> QED BY <1>1, <1>2, <1>3, ServerInit, PTL DEF FairSpec

\* Stop, join, start and probe of two callers, in any order, with servers that
\* fail or come up and go down in their own time, with other programs on any
\* port and until the process ends, leave one server at most and a handle that
\* says whether one runs, unless a wait was given up or two starts overlapped;
\* and until the first stop no service is taken from a server that listens.
THEOREM ServerIsOne == FairSpec => []OneServer
<1>1. ServerInv => Server!OneServer
  BY DEF ServerInv, HandleInv, Server!OneServer
<1>2. ServerInv => Server!RunningIsTrue
  BY DEF ServerInv, CallInv, HandleInv, Server!RunningIsTrue, Server!Settled,
     Server!Serving, Server!Live, Server!TypeOK, Server!Callers
<1>3. ServerInv => Server!ServesUntilRestart
  BY DEF ServerInv, CallInv, FirstServer, Server!ServesUntilRestart, Server!Serving
<1> QED BY <1>1, <1>2, <1>3, ServerAlways, PTL DEF OneServer

-----------------------------------------------------------------------------
(* The settings. *)

\* While no two saves have overlapped and none was killed, one writer at most
\* has emptied the file, and nothing else is wrong with it than that somebody
\* has removed it.
FileInv ==
    ~cut =>
        /\ \/ damage \in {"none", "gone"}
           \/ damage = "empty" /\ \E w \in Config!Writers : savePc[w] = "write"
        /\ \A w \in Config!Writers : savePc[w] = "write" => damage = "empty"
        /\ \A v, w \in Config!Writers : savePc[v] = "write" /\ savePc[w] = "write" => v = w

\* If nothing has changed in the directory since the watcher read the file, it
\* has read what is there, and with no save under way the fields that it has
\* assigned have it, but those of the environment.
MemoryInv ==
    Config!Whole /\ ~changed =>
        /\ wpc = "reload" => \A k \in DOMAIN loading : loading[k] = file[k]
        /\ ~Config!Saving =>
              \A k \in Keys \ env :
                 wpc = "idle" \/ k \notin DOMAIN loading => mem[k] = file[k]

\* Where the last accepted value of the setting k is.  During a save in memory
\* and in what the writer has dumped, and the watcher keeps away; after it in
\* the file, and in memory or on the way there; without a file in memory.
ValueOf(k) ==
    /\ Config!Saving =>
          /\ wpc # "reload" /\ mem[k] = latest[k]
          /\ \A v, w \in Config!Writers : savePc[v] # "idle" /\ savePc[w] # "idle" => v = w
          /\ \A w \in Config!Writers :
                /\ savePc[w] \in {"open", "write"} => data[w][k] = latest[k]
                /\ savePc[w] = "write" => damage = "empty"
    /\ ~Config!Saving =>
          /\ \/ Config!Whole /\ file[k] = latest[k]
             \/ damage = "gone" /\ changed /\ mem[k] = latest[k]
          /\ wpc = "idle" => mem[k] = latest[k] \/ changed
          /\ wpc = "reload" =>
                IF k \in DOMAIN loading THEN loading[k] = latest[k] ELSE mem[k] = latest[k]
    /\ k \in env => mem[k] = latest[k]

KeptInv == \A k \in Keys \ excused : ValueOf(k)

ConfigInv == Config!TypeOK /\ FileInv /\ MemoryInv /\ KeptInv

\* At first all have the defaults.
LEMMA ConfigInit == Init => ConfigInv
<1> SUFFICES ASSUME Init PROVE ConfigInv
  OBVIOUS
<1> USE HostConstants DEF Init, Config!Init, Config!Default
<1>1. 0 \in 0..MaxSettings /\ 0 \in 0..MaxCrashes
  OBVIOUS
<1>2. [k \in Keys |-> 0] \in UNION {[K -> 0..MaxSettings] : K \in SUBSET Keys}
  BY <1>1
<1>3. Config!TypeOK
  BY <1>1, <1>2 DEF Config!TypeOK, Config!Settings, Config!Writers
<1>4. FileInv /\ MemoryInv /\ KeptInv
  BY DEF FileInv, MemoryInv, KeptInv, ValueOf, Config!Saving, Config!Whole, Config!Writers
<1> QED BY <1>3, <1>4 DEF ConfigInv

\* Every step keeps the types.
LEMMA ConfigTypes ==
  ASSUME ConfigInv, Config!Next
  PROVE  Config!TypeOK'
<1> USE HostConstants DEF ConfigInv, Config!TypeOK, Config!Settings,
       Config!Writers, Config!Default, Config!watchVars, Config!histVars
<1>1. ASSUME NEW k \in Keys, Config!SetOne(k) PROVE Config!TypeOK'
  BY <1>1 DEF Config!SetOne, Config!Accept, Config!NotLoaded
<1>2. ASSUME NEW k \in Keys, Config!SavePage(k) PROVE Config!TypeOK'
  BY <1>2 DEF Config!SavePage, Config!Accept, Config!NotLoaded
<1>3. ASSUME NEW k \in Keys, Config!Edit(k) PROVE Config!TypeOK'
  BY <1>3 DEF Config!Edit, Config!Accept
<1>4. ASSUME NEW k \in Keys, Config!LoadKey(k) PROVE Config!TypeOK'
  BY <1>4 DEF Config!LoadKey
<1>5. CASE Config!LoadForm
  BY <1>5 DEF Config!LoadForm
<1>6. ASSUME NEW w \in Config!Writers, Config!Dump(w) PROVE Config!TypeOK'
  BY <1>6 DEF Config!Dump
<1>7. ASSUME NEW w \in Config!Writers, Config!Open(w) PROVE Config!TypeOK'
  BY <1>7 DEF Config!Open
<1>8. ASSUME NEW w \in Config!Writers, Config!Write(w) PROVE Config!TypeOK'
  BY <1>8 DEF Config!Write
<1>9. CASE Config!Reload
  <2>1. wpc' \in {"idle", "reload"} /\ changed' = FALSE /\ (loading' = file \/ loading' = loading)
    BY <1>9 DEF Config!Reload
  <2>2. excused' = Keys \/ excused' = excused
    BY <1>9 DEF Config!Reload
  <2>3. UNCHANGED <<env, mem, file, damage, data, form, settings, crashes, latest, cut>>
    BY <1>9 DEF Config!Reload
  <2>4. loading' \in UNION {[K -> 0..MaxSettings] : K \in SUBSET Keys}
    BY <2>1
  <2>5. savePc' \in [Config!Writers -> {"idle", "dump", "open", "write"}]
    BY <1>9 DEF Config!Reload
  <2> QED BY <2>1, <2>2, <2>3, <2>4, <2>5
<1>10. CASE Config!Crash
  <2>1. 0 \in 0..MaxSettings /\ [k \in Keys |-> 0] \in Config!Settings
    OBVIOUS
  <2>2. mem' \in Config!Settings /\ form' \in Config!Settings
    BY <1>10, <2>1 DEF Config!Crash
  <2>3. crashes' \in 0..MaxCrashes
    BY <1>10 DEF Config!Crash
  <2>4. /\ savePc' = [w \in Config!Writers |-> "idle"]
        /\ data' = [w \in Config!Writers |-> [k \in Keys |-> 0]]
        /\ wpc' = "idle" /\ changed' = FALSE /\ loading' = [k \in Keys |-> 0]
        /\ UNCHANGED <<env, settings, latest>>
    BY <1>10 DEF Config!Crash
  <2>5. excused' \subseteq Keys /\ cut' \in BOOLEAN
    BY <1>10 DEF Config!Crash
  <2>6. loading' \in UNION {[K -> 0..MaxSettings] : K \in SUBSET Keys}
    BY <2>1, <2>4
  <2>7. file' \in Config!Settings /\ damage' \in {"none", "empty", "torn", "gone"}
    BY <1>10, <2>2 DEF Config!Crash
  <2> QED BY <2>1, <2>2, <2>3, <2>4, <2>5, <2>6, <2>7
<1>11. CASE Config!Remove
  BY <1>11 DEF Config!Remove
<1>12. CASE Config!WatcherDies
  BY <1>12 DEF Config!WatcherDies
<1> QED
  BY <1>1, <1>2, <1>3, <1>4, <1>5, <1>6, <1>7, <1>8, <1>9, <1>10, <1>11, <1>12
  DEF Config!Next, Config!WriterStep

\* Every step keeps the account of what may be wrong with the file.
LEMMA ConfigFiles ==
  ASSUME ConfigInv, Config!Next
  PROVE  FileInv'
<1> USE DEF ConfigInv, FileInv, Config!TypeOK,
       Config!Writers, Config!Saving, Config!Whole, Config!watchVars, Config!histVars
<1>1. ASSUME NEW k \in Keys, Config!SetOne(k) PROVE FileInv'
  BY <1>1 DEF Config!SetOne, Config!Accept, Config!NotLoaded
<1>2. ASSUME NEW k \in Keys, Config!SavePage(k) PROVE FileInv'
  BY <1>2 DEF Config!SavePage, Config!Accept, Config!NotLoaded
<1>3. ASSUME NEW k \in Keys, Config!Edit(k) PROVE FileInv'
  BY <1>3 DEF Config!Edit, Config!Accept
<1>4. ASSUME NEW k \in Keys, Config!LoadKey(k) PROVE FileInv'
  BY <1>4 DEF Config!LoadKey
<1>5. CASE Config!LoadForm
  BY <1>5 DEF Config!LoadForm
<1>6. ASSUME NEW w \in Config!Writers, Config!Dump(w) PROVE FileInv'
  BY <1>6 DEF Config!Dump
<1>7. ASSUME NEW w \in Config!Writers, Config!Open(w) PROVE FileInv'
  BY <1>7 DEF Config!Open
<1>8. ASSUME NEW w \in Config!Writers, Config!Write(w) PROVE FileInv'
  BY <1>8 DEF Config!Write
<1>9. CASE Config!Reload
  BY <1>9 DEF Config!Reload
<1>10. CASE Config!Crash
  BY <1>10 DEF Config!Crash, Config!Default
<1>11. CASE Config!Remove
  BY <1>11 DEF Config!Remove
<1>12. CASE Config!WatcherDies
  BY <1>12 DEF Config!WatcherDies
<1> QED
  BY <1>1, <1>2, <1>3, <1>4, <1>5, <1>6, <1>7, <1>8, <1>9, <1>10, <1>11, <1>12
  DEF Config!Next, Config!WriterStep

\* Every step keeps memory and file together.
LEMMA ConfigMemory ==
  ASSUME ConfigInv, Config!Next
  PROVE  MemoryInv'
<1> USE DEF ConfigInv, MemoryInv, Config!TypeOK, Config!Settings,
       Config!Writers, Config!Saving, Config!Whole, Config!watchVars, Config!histVars
<1>1. ASSUME NEW k \in Keys, Config!SetOne(k) PROVE MemoryInv'
  BY <1>1 DEF Config!SetOne, Config!Accept, Config!NotLoaded
<1>2. ASSUME NEW k \in Keys, Config!SavePage(k) PROVE MemoryInv'
  BY <1>2 DEF Config!SavePage, Config!Accept, Config!NotLoaded
<1>3. ASSUME NEW k \in Keys, Config!Edit(k) PROVE MemoryInv'
  BY <1>3 DEF Config!Edit, Config!Accept
<1>4. ASSUME NEW k \in Keys, Config!LoadKey(k) PROVE MemoryInv'
  BY <1>4 DEF Config!LoadKey
<1>5. CASE Config!LoadForm
  BY <1>5 DEF Config!LoadForm
<1>6. ASSUME NEW w \in Config!Writers, Config!Dump(w) PROVE MemoryInv'
  BY <1>6 DEF Config!Dump
<1>7. ASSUME NEW w \in Config!Writers, Config!Open(w) PROVE MemoryInv'
  BY <1>7 DEF Config!Open
<1>8. ASSUME NEW w \in Config!Writers, Config!Write(w) PROVE MemoryInv'
  BY <1>8 DEF Config!Write
<1>9. CASE Config!Reload
  BY <1>9 DEF Config!Reload
<1>10. CASE Config!Crash
  BY <1>10 DEF Config!Crash, Config!Default
<1>11. CASE Config!Remove
  BY <1>11 DEF Config!Remove
<1>12. CASE Config!WatcherDies
  BY <1>12 DEF Config!WatcherDies
<1> QED
  BY <1>1, <1>2, <1>3, <1>4, <1>5, <1>6, <1>7, <1>8, <1>9, <1>10, <1>11, <1>12
  DEF Config!Next, Config!WriterStep

\* Every step keeps the last accepted values.
LEMMA ConfigValues ==
  ASSUME ConfigInv, Config!Next
  PROVE  KeptInv'
<1> USE DEF ConfigInv, KeptInv, ValueOf, Config!TypeOK, Config!Settings,
       Config!Writers, Config!Saving, Config!Whole, Config!watchVars, Config!histVars
<1>1. ASSUME NEW k \in Keys, Config!SetOne(k) PROVE KeptInv'
  BY <1>1 DEF Config!SetOne, Config!Accept, Config!NotLoaded
<1>2. ASSUME NEW k \in Keys, Config!SavePage(k) PROVE KeptInv'
  BY <1>2 DEF Config!SavePage, Config!Accept, Config!NotLoaded
<1>3. ASSUME NEW k \in Keys, Config!Edit(k) PROVE KeptInv'
  BY <1>3 DEF Config!Edit, Config!Accept
<1>4. ASSUME NEW k \in Keys, Config!LoadKey(k) PROVE KeptInv'
  BY <1>4 DEF Config!LoadKey
<1>5. CASE Config!LoadForm
  BY <1>5 DEF Config!LoadForm
<1>6. ASSUME NEW w \in Config!Writers, Config!Dump(w) PROVE KeptInv'
  BY <1>6 DEF Config!Dump
<1>7. ASSUME NEW w \in Config!Writers, Config!Open(w) PROVE KeptInv'
  BY <1>7 DEF Config!Open
<1>8. ASSUME NEW w \in Config!Writers, Config!Write(w) PROVE KeptInv'
  BY <1>8 DEF Config!Write
<1>9. CASE Config!Reload
  BY <1>9 DEF Config!Reload
<1>10. CASE Config!Crash
  BY <1>10 DEF Config!Crash, Config!Default
<1>11. CASE Config!Remove
  BY <1>11 DEF Config!Remove
<1>12. CASE Config!WatcherDies
  BY <1>12 DEF Config!WatcherDies
<1> QED
  BY <1>1, <1>2, <1>3, <1>4, <1>5, <1>6, <1>7, <1>8, <1>9, <1>10, <1>11, <1>12
  DEF Config!Next, Config!WriterStep

\* The invariant holds of every behaviour.
LEMMA ConfigAlways == FairSpec => []ConfigInv
<1>1. [Next]_hostVars => Config!Next \/ UNCHANGED configVars
  BY DEF Next, hostVars
<1>2. ConfigInv /\ Config!Next => ConfigInv'
  BY ConfigTypes, ConfigFiles, ConfigMemory, ConfigValues DEF ConfigInv
<1>3. ConfigInv /\ UNCHANGED configVars => ConfigInv'
  BY DEF configVars, ConfigInv, FileInv, MemoryInv, KeptInv, ValueOf, Config!TypeOK,
     Config!Saving, Config!Whole
<1> QED BY <1>1, <1>2, <1>3, ConfigInit, PTL DEF FairSpec

\* However saves of three writers, edits, removals, reloads field by field and
\* crashes follow each other, whatever the environment gives and whenever the
\* watcher dies: config.json can be parsed when nobody saves and no saves have
\* overlapped; when all is quiet memory and file agree; and a setting that no
\* race has cost is the one last accepted.
THEOREM SettingsAreKept == FairSpec => []SettingsKept
<1>1. ConfigInv => Config!FileWhole
  BY DEF ConfigInv, FileInv, Config!TypeOK, Config!FileWhole, Config!Saving, Config!Whole
<1>2. ConfigInv => Config!MemoryIsFile
  BY DEF ConfigInv, MemoryInv, Config!TypeOK, Config!Settings, Config!MemoryIsFile,
     Config!Quiet
<1>3. ConfigInv => Config!SettingKept
  BY DEF ConfigInv, KeptInv, ValueOf, Config!SettingKept, Config!Quiet
<1> QED BY <1>1, <1>2, <1>3, ConfigAlways, PTL DEF SettingsKept

-----------------------------------------------------------------------------
(* The printer monitor. *)

\* An event that is still to be published is about a printer no other one is
\* about and says what the cache says; of the other printers the listener
\* knows it, if it has heard the last event.
OutgoingInv ==
    /\ pollPc # "publish" => outgoing = <<>>
    /\ \A n \in DOMAIN outgoing : outgoing[n][2] = cache[outgoing[n][1]]
    /\ \A m, n \in DOMAIN outgoing : outgoing[m][1] = outgoing[n][1] => m = n
    /\ \A p \in Printers \ deaf :
          (\A n \in DOMAIN outgoing : outgoing[n][1] # p) => listener[p] = cache[p]

\* A printer that was there all through the poll has been read or will be.
ReadInv ==
    /\ pollPc \in {"read", "diff"} =>
          \A p \in Printers \ gone : p \in toRead \/ got[p] # Monitor!Absent
    /\ pollPc = "diff" => toRead = {}

MonitorInv == Monitor!TypeOK /\ OutgoingInv /\ ReadInv

\* Before the first poll the cache is empty.
LEMMA MonitorInit == Init => MonitorInv
<1> SUFFICES ASSUME Init PROVE MonitorInv
  OBVIOUS
<1> USE HostConstants DEF Init, Monitor!Init, Monitor!Nothing
<1>1. Monitor!TypeOK
  BY DEF Monitor!TypeOK, Monitor!Reading, Monitor!Absent
<1>2. OutgoingInv /\ ReadInv
  BY DEF OutgoingInv, ReadInv
<1> QED BY <1>1, <1>2 DEF MonitorInv

\* The first event of a queue and the queue without it.
LEMMA TailOfEvents ==
  ASSUME NEW s \in Seq(Printers \X Monitor!Reading), s # <<>>
  PROVE  /\ Tail(s) \in Seq(Printers \X Monitor!Reading)
         /\ 1 \in DOMAIN s /\ Head(s) = s[1]
         /\ Head(s)[1] \in Printers /\ Head(s)[2] \in Monitor!Reading
         /\ \A n \in DOMAIN Tail(s) : n \in Nat /\ n + 1 \in DOMAIN s /\ Tail(s)[n] = s[n + 1]
         /\ \A n \in DOMAIN s : n = 1 \/ n - 1 \in DOMAIN Tail(s)
         /\ DOMAIN s \subseteq Nat
<1>1. Len(s) \in Nat /\ Len(s) >= 1 /\ DOMAIN s = 1..Len(s)
  OBVIOUS
<1>2. Tail(s) \in Seq(Printers \X Monitor!Reading) /\ Len(Tail(s)) = Len(s) - 1
  OBVIOUS
<1>3. DOMAIN Tail(s) = 1..(Len(s) - 1)
  BY <1>2
<1>4. s[1] \in Printers \X Monitor!Reading
  BY <1>1
<1>5. \A n \in 1..(Len(s) - 1) : Tail(s)[n] = s[n + 1]
  BY <1>1
<1>6. \A n \in 1..(Len(s) - 1) : n \in Nat /\ n + 1 \in 1..Len(s)
  BY <1>1
<1>7. \A n \in 1..Len(s) : n = 1 \/ n - 1 \in 1..(Len(s) - 1)
  BY <1>1
<1> QED BY <1>1, <1>2, <1>3, <1>4, <1>5, <1>6, <1>7

\* One that is told apart at every place names all of a finite set when it has
\* as many places.
LEMMA AllInOrder ==
  ASSUME NEW S, IsFiniteSet(S), NEW order \in [1..Cardinality(S) -> S],
         \A m, n \in DOMAIN order : m # n => order[m] # order[n]
  PROVE  \A x \in S : \E n \in 1..Cardinality(S) : order[n] = x
<1>1. Cardinality(S) \in Nat
  BY FS_CardinalityType
<1>2. order \in Injection(1..Cardinality(S), S)
  <2>1. DOMAIN order = 1..Cardinality(S)
    OBVIOUS
  <2>2. \A m, n \in 1..Cardinality(S) : order[m] = order[n] => m = n
    BY <2>1
  <2> QED BY <2>1, <2>2 DEF Injection, IsInjective
<1>3. Cardinality(1..Cardinality(S)) = Cardinality(S)
  <2>1. Cardinality(1..Cardinality(S)) =
           IF 1 > Cardinality(S) THEN 0 ELSE Cardinality(S) - 1 + 1
    BY <1>1, FS_Interval
  <2> QED BY <1>1, <2>1
<1>4. order \in Surjection(1..Cardinality(S), S)
  BY <1>2, <1>3, FS_Injection
<1> QED BY <1>4 DEF Surjection

\* What _poll keeps for after the lock: one event of each printer that differs.
LEMMA DiffEvents ==
  ASSUME MonitorInv, Monitor!Diff
  PROVE  /\ outgoing' \in Seq(Printers \X Monitor!Reading)
         /\ \A n \in DOMAIN outgoing' :
               outgoing'[n][1] \in Printers /\ outgoing'[n][2] = got[outgoing'[n][1]]
         /\ \A m, n \in DOMAIN outgoing' : outgoing'[m][1] = outgoing'[n][1] => m = n
         /\ \A p \in Printers : got[p] # cache[p] => \E n \in DOMAIN outgoing' : outgoing'[n][1] = p
<1> DEFINE differ == {p \in Printers : got[p] # cache[p]}
<1>0. Monitor!Cardinality(differ) = Cardinality(differ)
  BY DEF Monitor!Cardinality, Cardinality
<1>1. PICK order \in [1..Cardinality(differ) -> differ] :
         /\ \A m, n \in DOMAIN order : m # n => order[m] # order[n]
         /\ outgoing' = [n \in DOMAIN order |-> <<order[n], got[order[n]]>>]
  BY <1>0 DEF Monitor!Diff
<1>2. IsFiniteSet(differ)
  BY HostConstants, FS_Subset
<1>3. Cardinality(differ) \in Nat
  BY <1>2, FS_CardinalityType
<1> HIDE DEF differ
<1>4. \A x \in differ : \E n \in 1..Cardinality(differ) : order[n] = x
  BY <1>1, <1>2, AllInOrder
<1>5. DOMAIN outgoing' = 1..Cardinality(differ)
  BY <1>1
<1>6. \A n \in 1..Cardinality(differ) :
         order[n] \in differ /\ outgoing'[n] = <<order[n], got[order[n]]>>
  BY <1>1
<1>7. differ \subseteq Printers /\ \A p \in differ : got[p] \in Monitor!Reading
  BY DEF differ, MonitorInv, Monitor!TypeOK
<1>8. outgoing' \in [1..Cardinality(differ) -> Printers \X Monitor!Reading]
  BY <1>1, <1>6, <1>7
<1>9. outgoing' \in Seq(Printers \X Monitor!Reading)
  BY <1>3, <1>8
<1>10. \A m, n \in DOMAIN outgoing' : outgoing'[m][1] = outgoing'[n][1] => m = n
  BY <1>1, <1>5, <1>6
<1>11. \A p \in Printers : got[p] # cache[p] => \E n \in DOMAIN outgoing' : outgoing'[n][1] = p
  BY <1>4, <1>5, <1>6 DEF differ
<1> QED BY <1>5, <1>6, <1>7, <1>9, <1>10, <1>11

\* Every step keeps the types.
LEMMA MonitorTypes ==
  ASSUME MonitorInv, Monitor!Next
  PROVE  Monitor!TypeOK'
<1> USE HostConstants DEF MonitorInv, Monitor!TypeOK, Monitor!Reading, Monitor!Nothing
<1>1. CASE Monitor!Enumerate
  BY <1>1 DEF Monitor!Enumerate
<1>2. ASSUME NEW p \in Printers, Monitor!ReadPrinter(p) PROVE Monitor!TypeOK'
  BY <1>2 DEF Monitor!ReadPrinter
<1>3. CASE Monitor!ReadAll
  BY <1>3 DEF Monitor!ReadAll
<1>4. CASE Monitor!Diff
  <2>1. outgoing' \in Seq(Printers \X Monitor!Reading)
    BY <1>4, DiffEvents
  <2>2. pollPc' = "publish" /\ cache' = got /\ got' = [p \in Printers |-> Monitor!Absent]
    BY <1>4 DEF Monitor!Diff
  <2>3. UNCHANGED <<windows, toRead, listener, changes, deaf, gone>>
    BY <1>4 DEF Monitor!Diff
  <2> QED BY <2>1, <2>2, <2>3
<1>5. CASE Monitor!Publish
  <2>1. outgoing # <<>> /\ outgoing' = Tail(outgoing)
    BY <1>5 DEF Monitor!Publish
  <2>2. UNCHANGED <<windows, pollPc, toRead, got, cache, changes, gone>>
    BY <1>5 DEF Monitor!Publish
  <2>3. outgoing' \in Seq(Printers \X Monitor!Reading)
    BY <2>1, TailOfEvents
  <2>4. Head(outgoing)[1] \in Printers /\ Head(outgoing)[2] \in Monitor!Reading
    BY <2>1, TailOfEvents
  <2>5. \/ listener' = [listener EXCEPT ![Head(outgoing)[1]] = Head(outgoing)[2]]
        \/ listener' = listener
    BY <1>5 DEF Monitor!Publish, Monitor!Heard, Monitor!Unheard
  <2>6. deaf' = deaf \ {Head(outgoing)[1]} \/ deaf' = deaf \cup {Head(outgoing)[1]}
    BY <1>5 DEF Monitor!Publish, Monitor!Heard, Monitor!Unheard
  <2>7. listener' \in [Printers -> Monitor!Reading]
    BY <2>4, <2>5
  <2>8. deaf' \subseteq Printers
    BY <2>4, <2>6
  <2> QED BY <2>2, <2>3, <2>7, <2>8
<1>6. CASE Monitor!Rest
  BY <1>6 DEF Monitor!Rest
<1>7. ASSUME NEW p \in Printers, NEW s \in Monitor!Reading, Monitor!WindowsChanges(p, s)
      PROVE  Monitor!TypeOK'
  BY <1>7 DEF Monitor!WindowsChanges
<1> QED
  BY <1>1, <1>2, <1>3, <1>4, <1>5, <1>6, <1>7 DEF Monitor!Next, Monitor!MonitorStep

\* Every step keeps what the events say.
LEMMA MonitorOutgoing ==
  ASSUME MonitorInv, Monitor!Next
  PROVE  OutgoingInv'
<1> USE DEF MonitorInv, OutgoingInv
<1>1. CASE Monitor!Enumerate
  BY <1>1 DEF Monitor!Enumerate
<1>2. ASSUME NEW p \in Printers, Monitor!ReadPrinter(p) PROVE OutgoingInv'
  BY <1>2 DEF Monitor!ReadPrinter
<1>3. CASE Monitor!ReadAll
  BY <1>3 DEF Monitor!ReadAll
<1>4. CASE Monitor!Diff
  <2>1. pollPc = "diff" /\ pollPc' = "publish" /\ cache' = got /\ UNCHANGED <<listener, deaf>>
    BY <1>4 DEF Monitor!Diff
  <2>2. \A p \in Printers \ deaf : listener[p] = cache[p]
    BY <2>1
  <2>3. \A p \in Printers : got[p] # cache[p] => \E n \in DOMAIN outgoing' : outgoing'[n][1] = p
    BY <1>4, DiffEvents
  <2>4. \A n \in DOMAIN outgoing' : outgoing'[n][2] = got[outgoing'[n][1]]
    BY <1>4, DiffEvents
  <2>5. \A m, n \in DOMAIN outgoing' : outgoing'[m][1] = outgoing'[n][1] => m = n
    BY <1>4, DiffEvents
  <2> QED BY <2>1, <2>2, <2>3, <2>4, <2>5
<1>5. CASE Monitor!Publish
  <2>1. /\ pollPc = "publish" /\ outgoing # <<>> /\ outgoing' = Tail(outgoing)
        /\ UNCHANGED <<pollPc, cache>>
    BY <1>5 DEF Monitor!Publish
  <2>2. outgoing \in Seq(Printers \X Monitor!Reading)
    BY DEF Monitor!TypeOK
  <2> DEFINE h == Head(outgoing)
  <2>3. h = outgoing[1] /\ 1 \in DOMAIN outgoing /\ h[1] \in Printers
    BY <2>1, <2>2, TailOfEvents
  <2>4. \A n \in DOMAIN outgoing' : n + 1 \in DOMAIN outgoing /\ outgoing'[n] = outgoing[n + 1]
    BY <2>1, <2>2, TailOfEvents
  <2>5. \A n \in DOMAIN outgoing' : n \in Nat
    BY <2>1, <2>2, TailOfEvents
  <2>6. \A n \in DOMAIN outgoing : n = 1 \/ n - 1 \in DOMAIN outgoing'
    BY <2>1, <2>2, TailOfEvents
  <2>7. \A n \in DOMAIN outgoing : n \in Nat
    BY <2>1, <2>2, TailOfEvents
  <2>8. \/ listener' = [listener EXCEPT ![h[1]] = h[2]] /\ deaf' = deaf \ {h[1]}
        \/ listener' = listener /\ deaf' = deaf \cup {h[1]}
    BY <1>5 DEF Monitor!Publish, Monitor!Heard, Monitor!Unheard
  <2>9. h[2] = cache[h[1]]
    BY <2>3
  <2> HIDE DEF h
  <2>10. \A n \in DOMAIN outgoing' : outgoing'[n][2] = cache'[outgoing'[n][1]]
    BY <2>1, <2>4
  <2>11. \A m, n \in DOMAIN outgoing' : outgoing'[m][1] = outgoing'[n][1] => m = n
    BY <2>4, <2>5
  <2>12. ASSUME NEW p \in Printers, p \notin deaf',
                \A n \in DOMAIN outgoing' : outgoing'[n][1] # p
         PROVE  listener'[p] = cache'[p]
    <3>1. CASE p = h[1]
      <4>1. listener' = [listener EXCEPT ![h[1]] = h[2]]
        BY <2>8, <2>12, <3>1
      <4>2. listener'[p] = h[2]
        BY <3>1, <4>1 DEF Monitor!TypeOK
      <4> QED BY <2>1, <2>9, <3>1, <4>2
    <3>2. CASE p # h[1]
      <4>1. \A n \in DOMAIN outgoing : outgoing[n][1] # p
        <5> SUFFICES ASSUME NEW n \in DOMAIN outgoing PROVE outgoing[n][1] # p
          OBVIOUS
        <5>1. CASE n = 1
          BY <2>3, <3>2, <5>1
        <5>2. CASE n # 1
          <6>1. n - 1 \in DOMAIN outgoing' /\ (n - 1) + 1 = n
            BY <2>6, <2>7, <5>2
          <6>2. outgoing'[n - 1] = outgoing[n]
            BY <2>4, <6>1
          <6> QED BY <2>12, <6>1, <6>2
        <5> QED BY <5>1, <5>2
      <4>2. p \notin deaf
        BY <2>8, <2>12, <3>2
      <4>3. listener'[p] = listener[p]
        BY <2>8, <3>2 DEF Monitor!TypeOK
      <4> QED BY <2>1, <4>1, <4>2, <4>3
    <3> QED BY <3>1, <3>2
  <2> QED BY <2>1, <2>10, <2>11, <2>12
<1>6. CASE Monitor!Rest
  BY <1>6 DEF Monitor!Rest
<1>7. ASSUME NEW p \in Printers, NEW s \in Monitor!Reading, Monitor!WindowsChanges(p, s)
      PROVE  OutgoingInv'
  BY <1>7 DEF Monitor!WindowsChanges
<1> QED
  BY <1>1, <1>2, <1>3, <1>4, <1>5, <1>6, <1>7 DEF Monitor!Next, Monitor!MonitorStep

\* Every step keeps the account of the poll.
LEMMA MonitorRead ==
  ASSUME MonitorInv, Monitor!Next
  PROVE  ReadInv'
<1> USE DEF MonitorInv, ReadInv, Monitor!TypeOK
<1>1. CASE Monitor!Enumerate
  BY <1>1 DEF Monitor!Enumerate
<1>2. ASSUME NEW p \in Printers, Monitor!ReadPrinter(p) PROVE ReadInv'
  BY <1>2 DEF Monitor!ReadPrinter
<1>3. CASE Monitor!ReadAll
  BY <1>3 DEF Monitor!ReadAll
<1>4. CASE Monitor!Diff
  BY <1>4 DEF Monitor!Diff
<1>5. CASE Monitor!Publish
  BY <1>5 DEF Monitor!Publish
<1>6. CASE Monitor!Rest
  BY <1>6 DEF Monitor!Rest
<1>7. ASSUME NEW p \in Printers, NEW s \in Monitor!Reading, Monitor!WindowsChanges(p, s)
      PROVE  ReadInv'
  BY <1>7 DEF Monitor!WindowsChanges
<1> QED
  BY <1>1, <1>2, <1>3, <1>4, <1>5, <1>6, <1>7 DEF Monitor!Next, Monitor!MonitorStep

\* The invariant holds of every behaviour.
LEMMA MonitorAlways == FairSpec => []MonitorInv
<1>1. [Next]_hostVars => Monitor!Next \/ UNCHANGED monitorVars
  BY DEF Next, hostVars
<1>2. MonitorInv /\ Monitor!Next => MonitorInv'
  BY MonitorTypes, MonitorOutgoing, MonitorRead DEF MonitorInv
<1>3. MonitorInv /\ UNCHANGED monitorVars => MonitorInv'
  BY DEF monitorVars, MonitorInv, OutgoingInv, ReadInv, Monitor!TypeOK
<1> QED BY <1>1, <1>2, <1>3, MonitorInit, PTL DEF FairSpec

\* Only the comparison after a complete poll takes a printer from the cache.
LEMMA RemovalsAreTrue ==
  ASSUME MonitorInv, Monitor!Next
  PROVE  Monitor!RemovedWereGone
<1> USE DEF Monitor!RemovedWereGone
<1>1. CASE Monitor!Diff
  BY <1>1 DEF MonitorInv, ReadInv, Monitor!Diff, Monitor!TypeOK
<1>2. CASE ~Monitor!Diff
  <2>1. cache' = cache
    BY <1>2 DEF Monitor!Next, Monitor!MonitorStep, Monitor!Enumerate, Monitor!ReadPrinter,
       Monitor!ReadAll, Monitor!Publish, Monitor!Rest, Monitor!WindowsChanges
  <2> QED BY <2>1
<1> QED BY <1>1, <1>2

\* Between two polls a listener that has heard the last event of a printer
\* believes what the cache says of it, although events are published after the
\* lock was given back and each may fail on its own; and a printer that leaves
\* the cache was missing in Windows during the poll that removed it.
THEOREM EventsAreTrue == FairSpec => EventsTrue
<1>1. MonitorInv => Monitor!EventsMakeTheCache
  BY DEF MonitorInv, OutgoingInv, Monitor!EventsMakeTheCache
<1>2. MonitorInv /\ MonitorInv' /\ [Next]_hostVars =>
         [Monitor!EventsMakeTheCache' /\ Monitor!RemovedWereGone]_(Monitor!vars)
  <2> SUFFICES ASSUME MonitorInv, MonitorInv', [Next]_hostVars
               PROVE  [Monitor!EventsMakeTheCache' /\ Monitor!RemovedWereGone]_(Monitor!vars)
    OBVIOUS
  <2>1. Monitor!Next \/ UNCHANGED monitorVars
    BY DEF Next, hostVars
  <2>2. CASE Monitor!Next
    <3>1. Monitor!EventsMakeTheCache'
      BY DEF MonitorInv, OutgoingInv, Monitor!EventsMakeTheCache
    <3> QED BY <2>2, <3>1, RemovalsAreTrue
  <2>3. CASE UNCHANGED monitorVars
    BY <2>3 DEF monitorVars, Monitor!vars
  <2> QED BY <2>1, <2>2, <2>3
<1> QED BY <1>2, MonitorAlways, PTL DEF FairSpec, EventsTrue, Monitor!EventsTrue

-----------------------------------------------------------------------------
(* A batch of pictures. *)

\* saved_paths has the pictures met so far, in their order; once the loop is
\* over it has all and is not empty.
PathsInv ==
    /\ Len(paths) <= MaxFiles
    /\ \A n \in 1..Len(paths) : offered[paths[n]]
    /\ \A m, n \in 1..Len(paths) : m < n => paths[m] < paths[n]
    /\ batchPc = "save" =>
          /\ Len(paths) < i
          /\ \A n \in 1..Len(paths) : paths[n] < i
          /\ \A f \in Images!Files : f < i /\ offered[f] => \E n \in 1..Len(paths) : paths[n] = f
          /\ paths = <<>> => saved = {}
    /\ batchPc \notin {"save", "end"} =>
          /\ paths # <<>> /\ i <= Len(paths) + 1
          /\ \A f \in Images!Files : offered[f] => \E n \in 1..Len(paths) : paths[n] = f

\* enhanced_paths has a picture or its copy for each path so far, and every copy
\* on disk, if the disk did not fail; the merge makes its pages of all of them.
ListInv ==
    /\ batchPc = "save" => list = <<>> /\ enhanced = {}
    /\ batchPc \notin {"save", "end"} =>
          Len(list) = i - 1 /\ \A n \in 1..Len(list) : list[n][1] = paths[n]
    /\ batchPc \in {"merge", "clean", "add"} => i = Len(paths) + 1
    /\ batchPc \in {"save", "enhance", "merge"} => pdf = <<>>
    /\ batchPc \in {"clean", "add"} => pdf = list
    /\ batchPc # "end" => ~row /\ answer = 0
    /\ diskFaults = 0 =>
          /\ batchPc \in {"enhance", "merge", "clean"} =>
                \A f \in enhanced : \E n \in 1..Len(list) : list[n] = <<f, "enhanced">>
          /\ batchPc = "add" => saved = {} /\ enhanced = {}

BatchInv == Images!TypeOK /\ PathsInv /\ ListInv /\ BatchRight

\* At first nothing is on disk.
LEMMA BatchInit == Init => BatchInv
<1> SUFFICES ASSUME Init PROVE BatchInv
  OBVIOUS
<1> USE HostConstants DEF Init, Images!Init, Images!NoPdf
<1>1. Images!TypeOK
  <2>1. <<>> \in Seq(Images!Files) /\ <<>> \in Seq(Images!Files \X Images!Versions)
    OBVIOUS
  <2>2. 1 \in 1..(MaxFiles + 1) /\ 0 \in 0..MaxDiskFaults
    OBVIOUS
  <2> QED BY <2>1, <2>2 DEF Images!TypeOK
<1>2. PathsInv
  BY DEF PathsInv, Images!Files
<1>3. ListInv
  BY DEF ListInv
<1>4. BatchRight
  BY DEF BatchRight, Images!NothingLeftBehind, Images!PagesInOrder
<1> QED BY <1>1, <1>2, <1>3, <1>4 DEF BatchInv

\* A list with one more at its end.
LEMMA OneMore ==
  ASSUME NEW S, NEW s \in Seq(S), NEW e \in S
  PROVE  /\ Append(s, e) \in Seq(S) /\ Len(s) \in Nat /\ Len(Append(s, e)) = Len(s) + 1
         /\ Append(s, e)[Len(s) + 1] = e /\ Append(s, e) # <<>>
         /\ \A n \in 1..Len(s) : Append(s, e)[n] = s[n]
OBVIOUS

\* When the disk did not fail the two lists name every copy there is.
LEMMA NoneUnlisted ==
  ASSUME BatchInv, batchPc \in {"merge", "clean"}, diskFaults = 0
  PROVE  Images!Unlisted = {}
<1>1. ASSUME NEW f \in enhanced
      PROVE  f \in {list[n][1] : n \in {m \in 1..Len(list) : list[m][2] = "enhanced"}}
  <2>1. PICK n \in 1..Len(list) : list[n] = <<f, "enhanced">>
    BY DEF BatchInv, ListInv
  <2> QED BY <2>1
<1> QED BY <1>1 DEF Images!Unlisted

\* Every step keeps the types.
LEMMA BatchTypes ==
  ASSUME BatchInv, Images!Next
  PROVE  Images!TypeOK'
<1>n. MaxFiles \in Nat /\ MaxDiskFaults \in Nat
  BY HostConstants
<1>d. /\ saved \subseteq Images!Files /\ enhanced \subseteq Images!Files
      /\ {} \subseteq Images!Files /\ Images!Unlisted \subseteq Images!Files
  BY DEF BatchInv, Images!TypeOK, Images!Unlisted
<1> USE <1>n DEF BatchInv, Images!TypeOK, Images!NoPdf
<1>1. CASE Images!Save
  <2>1. i \in Images!Files /\ i + 1 \in 1..(MaxFiles + 1)
    BY <1>1 DEF Images!Save, Images!Files
  <2>2. paths' = paths \/ paths' = Append(paths, i)
    BY <1>1 DEF Images!Save
  <2>3. paths' \in Seq(Images!Files)
    <3>1. paths \in Seq(Images!Files)
      OBVIOUS
    <3>2. Append(paths, i) \in Seq(Images!Files)
      BY ONLY <2>1, <3>1, OneMore
    <3>3. CASE paths' = paths
      BY <3>1, <3>3
    <3>4. CASE paths' = Append(paths, i)
      BY <3>4, <3>2
    <3> QED BY <2>2, <3>3, <3>4
  <2>4. (saved' = saved \/ saved' = saved \cup {i}) /\ (i' = i \/ i' = i + 1)
    BY <1>1 DEF Images!Save
  <2>5. saved' \subseteq Images!Files
    BY ONLY <1>d, <2>1, <2>4
  <2>6. i' \in 1..(MaxFiles + 1)
    BY <2>1, <2>4
  <2>7. /\ batchPc' \in {"save", "end"} /\ answer' \in {0, 200, 400, 500}
        /\ diskFaults' \in 0..MaxDiskFaults
    BY <1>1 DEF Images!Save, Images!DiskFault, Images!Reply
  <2>8. UNCHANGED <<offered, enhanced, list, pdf, row>>
    BY <1>1 DEF Images!Save
  <2> QED BY <2>3, <2>7, <2>8, <2>5, <2>6
<1>2. CASE Images!SavesDone
  BY <1>2 DEF Images!SavesDone, Images!Reply
<1>3. CASE Images!Enhance
  <2>1. /\ batchPc = "enhance" /\ i \in 1..Len(paths) /\ Len(paths) <= MaxFiles
        /\ i' = i + 1
    BY <1>3 DEF Images!Enhance, PathsInv
  <2>2. paths[i] \in Images!Files
    BY <2>1
  <2>3. /\ \E v \in Images!Versions : list' = Append(list, <<paths[i], v>>)
        /\ enhanced' = enhanced \/ enhanced' = enhanced \cup {paths[i]}
    BY <1>3 DEF Images!Enhance, Images!Versions
  <2>4. \/ diskFaults' = diskFaults
        \/ diskFaults < MaxDiskFaults /\ diskFaults' = diskFaults + 1
    BY <1>3 DEF Images!Enhance
  <2>5. diskFaults' \in 0..MaxDiskFaults
    BY <2>4
  <2>6. UNCHANGED <<offered, batchPc, saved, paths, pdf, row, answer>>
    BY <1>3 DEF Images!Enhance
  <2>7. list' \in Seq(Images!Files \X Images!Versions)
    BY <2>2, <2>3, OneMore
  <2>8. i' \in 1..(MaxFiles + 1)
    BY <2>1
  <2>9. enhanced' \subseteq Images!Files
    <3>1. enhanced' \subseteq enhanced \cup {paths[i]}
      BY <2>3
    <3> QED BY <2>2, <3>1
  <2> QED BY <2>6, <2>7, <2>8, <2>9, <2>5
<1>4. CASE Images!EnhanceDone
  BY <1>4 DEF Images!EnhanceDone
<1>5. CASE Images!Merge
  <2>1. pdf' \in {pdf, list} /\ saved' \in {saved, {}} /\ enhanced' \in {enhanced, Images!Unlisted}
    BY <1>5 DEF Images!Merge, Images!MergedPages
  <2>2. batchPc' \in {"clean", "end"} /\ answer' \in {answer, 500}
    BY <1>5 DEF Images!Merge, Images!Reply
  <2>3. UNCHANGED <<offered, i, paths, list, row, diskFaults>>
    BY <1>5 DEF Images!Merge
  <2>4. saved' \subseteq Images!Files /\ enhanced' \subseteq Images!Files
    BY ONLY <1>d, <2>1
  <2> QED BY <2>1, <2>2, <2>3, <2>4
<1>6. CASE Images!Clean
  <2>1. saved' \in {saved, {}} /\ enhanced' \in {enhanced, Images!Unlisted}
    BY <1>6 DEF Images!Clean
  <2>2. /\ batchPc' \in {"add", "end"} /\ answer' \in {answer, 500}
        /\ diskFaults' \in 0..MaxDiskFaults
    BY <1>6 DEF Images!Clean, Images!DiskFault, Images!Reply
  <2>3. UNCHANGED <<offered, i, paths, list, pdf, row>>
    BY <1>6 DEF Images!Clean
  <2>4. saved' \subseteq Images!Files /\ enhanced' \subseteq Images!Files
    BY ONLY <1>d, <2>1
  <2> QED BY <2>1, <2>2, <2>3, <2>4
<1>7. CASE Images!Add
  <2>1. pdf' \in {pdf, <<>>} /\ row' \in {row, TRUE} /\ answer' \in {200, 500} /\ batchPc' = "end"
    BY <1>7 DEF Images!Add, Images!Reply
  <2>2. UNCHANGED <<offered, i, saved, paths, enhanced, list, diskFaults>>
    BY <1>7 DEF Images!Add
  <2>3. pdf' \in Seq(Images!Files \X Images!Versions)
    <3>1. CASE pdf' = pdf
      BY <3>1
    <3>2. CASE pdf' = <<>>
      BY <3>2
    <3> QED BY <2>1, <3>1, <3>2
  <2>4. row' \in BOOLEAN
    BY <2>1
  <2> QED BY <2>1, <2>2, <2>3, <2>4
<1> QED BY <1>1, <1>2, <1>3, <1>4, <1>5, <1>6, <1>7 DEF Images!Next

\* Every step keeps saved_paths in order.
LEMMA BatchPaths ==
  ASSUME BatchInv, Images!Next
  PROVE  PathsInv'
<1>n. MaxFiles \in Nat /\ MaxDiskFaults \in Nat
  BY HostConstants
<1> USE <1>n DEF BatchInv, PathsInv, Images!TypeOK, Images!Files
<1>1. CASE Images!Save
  <2>1. batchPc = "save" /\ i \in 1..MaxFiles /\ UNCHANGED offered
    BY <1>1 DEF Images!Save
  <2>2. ASSUME offered[i], batchPc' = "save", saved' = saved \cup {i},
               paths' = Append(paths, i), i' = i + 1
        PROVE  PathsInv'
    <3> DEFINE longer == Append(paths, i)
    <3>1. /\ Len(paths) \in Nat /\ Len(longer) = Len(paths) + 1
          /\ longer[Len(paths) + 1] = i /\ longer # <<>>
          /\ \A n \in 1..Len(paths) : longer[n] = paths[n]
      BY <2>1, OneMore
    <3>2. paths' = longer
      BY <2>2
    <3> HIDE DEF longer
    <3>3. Len(paths)' <= MaxFiles /\ Len(paths)' < i'
      BY <2>1, <2>2, <3>1, <3>2
    <3>4. \A n \in 1..Len(longer) : n \in 1..Len(paths) \/ n = Len(paths) + 1
      BY <3>1
    <3>5. \A n \in 1..Len(paths) : paths[n] \in 1..MaxFiles /\ paths[n] < i /\ offered[paths[n]]
      BY <2>1
    <3>6. \A n \in 1..Len(longer) : offered[longer[n]] /\ longer[n] < i + 1
      <4> SUFFICES ASSUME NEW n \in 1..Len(longer)
                   PROVE  offered[longer[n]] /\ longer[n] < i + 1
        OBVIOUS
      <4>1. CASE n \in 1..Len(paths)
        <5>1. longer[n] = paths[n] /\ paths[n] \in 1..MaxFiles /\ paths[n] < i /\ offered[paths[n]]
          BY <3>1, <3>5, <4>1
        <5>2. \A a \in 1..MaxFiles : a < i => a < i + 1
          BY <2>1
        <5> QED BY <5>1, <5>2
      <4>2. CASE n = Len(paths) + 1
        BY <2>1, <2>2, <3>1, <4>2
      <4> QED BY <3>4, <4>1, <4>2
    <3>7. \A m, n \in 1..Len(longer) : m < n => longer[m] < longer[n]
      <4> SUFFICES ASSUME NEW m \in 1..Len(longer), NEW n \in 1..Len(longer), m < n
                   PROVE  longer[m] < longer[n]
        OBVIOUS
      <4>1. m \in 1..Len(paths)
        BY <3>1
      <4>2. CASE n \in 1..Len(paths)
        BY <3>1, <4>1, <4>2
      <4>3. CASE n = Len(paths) + 1
        <5>1. longer[n] = i /\ longer[m] = paths[m] /\ paths[m] < i
          BY <3>1, <3>5, <4>1, <4>3
        <5> QED BY <5>1
      <4> QED BY <3>4, <4>2, <4>3
    <3>8. \A f \in 1..MaxFiles :
             f < i + 1 /\ offered[f] => \E n \in 1..Len(longer) : longer[n] = f
      <4> SUFFICES ASSUME NEW f \in 1..MaxFiles, f < i + 1, offered[f]
                   PROVE  \E n \in 1..Len(longer) : longer[n] = f
        OBVIOUS
      <4>1. CASE f = i
        <5>1. Len(paths) + 1 \in 1..Len(longer)
          BY <3>1
        <5> QED BY <3>1, <4>1, <5>1
      <4>2. CASE f < i
        <5>1. PICK n \in 1..Len(paths) : paths[n] = f
          BY <2>1, <4>2
        <5>2. n \in 1..Len(longer) /\ longer[n] = f
          BY <3>1, <5>1
        <5> QED BY <5>2
      <4> QED BY <2>1, <4>1, <4>2
    <3>9. longer # <<>>
      BY <3>1
    <3> QED BY <2>1, <2>2, <3>2, <3>3, <3>7, <3>8, <3>6, <3>9
  <2>3. ASSUME batchPc' = "end", UNCHANGED paths PROVE PathsInv'
    BY <2>1, <2>3
  <2>4. ASSUME ~offered[i], i' = i + 1, UNCHANGED <<batchPc, saved, paths>> PROVE PathsInv'
    <3>1. \A f \in 1..MaxFiles : f < i + 1 /\ offered[f] => f < i
      BY <2>1, <2>4
    <3>2. \A f \in 1..MaxFiles :
             f < i + 1 /\ offered[f] => \E n \in 1..Len(paths) : paths[n] = f
      BY <2>1, <3>1
    <3>3. \A n \in 1..Len(paths) : paths[n] < i + 1
      BY <2>1
    <3>4. Len(paths) < i + 1
      BY <2>1
    <3> QED BY <2>1, <2>4, <3>2, <3>3, <3>4
  <2> QED BY <1>1, <2>1, <2>2, <2>3, <2>4 DEF Images!Save, Images!DiskFault, Images!Reply
<1>2. CASE Images!SavesDone
  <2>1. batchPc = "save" /\ i > MaxFiles /\ UNCHANGED <<offered, saved, paths>>
    BY <1>2 DEF Images!SavesDone
  <2>2. \A f \in 1..MaxFiles : offered[f] => \E n \in 1..Len(paths) : paths[n] = f
    BY <2>1
  <2>3. batchPc' = "end" \/ (batchPc' = "enhance" /\ paths # <<>> /\ i' = 1)
    BY <1>2 DEF Images!SavesDone, Images!Reply
  <2>4. 1 <= Len(paths) + 1
    OBVIOUS
  <2> QED BY <2>1, <2>2, <2>3, <2>4
<1>3. CASE Images!Enhance
  BY <1>3 DEF Images!Enhance
<1>4. CASE Images!EnhanceDone
  BY <1>4 DEF Images!EnhanceDone
<1>5. CASE Images!Merge
  BY <1>5 DEF Images!Merge, Images!Reply
<1>6. CASE Images!Clean
  BY <1>6 DEF Images!Clean, Images!DiskFault, Images!Reply
<1>7. CASE Images!Add
  BY <1>7 DEF Images!Add, Images!Reply
<1> QED BY <1>1, <1>2, <1>3, <1>4, <1>5, <1>6, <1>7 DEF Images!Next

\* Every step keeps enhanced_paths along saved_paths.
LEMMA BatchList ==
  ASSUME BatchInv, Images!Next
  PROVE  ListInv'
<1>n. MaxFiles \in Nat /\ MaxDiskFaults \in Nat
  BY HostConstants
<1>d. diskFaults \in Nat
  BY <1>n DEF BatchInv, Images!TypeOK
<1> USE <1>n DEF BatchInv, ListInv, Images!TypeOK, Images!NoPdf
<1>1. CASE Images!Save
  BY <1>1 DEF Images!Save, Images!DiskFault, Images!Reply
<1>2. CASE Images!SavesDone
  BY <1>2 DEF Images!SavesDone, Images!Reply
<1>3. CASE Images!Enhance
  <2>1. /\ batchPc = "enhance" /\ batchPc' = "enhance" /\ i \in 1..Len(paths) /\ i' = i + 1
        /\ UNCHANGED <<paths, pdf, row, answer>>
    BY <1>3 DEF Images!Enhance
  <2>2. paths[i] \in Images!Files
    BY <2>1
  <2>3. PICK v \in Images!Versions : list' = Append(list, <<paths[i], v>>)
    BY <1>3 DEF Images!Enhance, Images!Versions
  <2> DEFINE e == <<paths[i], v>>
             longer == Append(list, e)
  <2>4. e \in Images!Files \X Images!Versions /\ e[1] = paths[i]
    BY <2>2
  <2>5. /\ Len(list) \in Nat /\ Len(longer) = Len(list) + 1 /\ longer[Len(list) + 1] = e
        /\ \A n \in 1..Len(list) : longer[n] = list[n]
    BY <2>4, OneMore
  <2>6. list' = longer
    BY <2>3
  <2>7. \/ /\ list' = Append(list, <<paths[i], "enhanced">>)
           /\ enhanced' = enhanced \cup {paths[i]} /\ diskFaults' = diskFaults
        \/ diskFaults' = diskFaults + 1
        \/ enhanced' = enhanced /\ diskFaults' = diskFaults
    BY <1>3 DEF Images!Enhance
  <2>8. diskFaults + 1 # 0
    BY ONLY <1>d
  <2>9. diskFaults' = 0 =>
           /\ diskFaults = 0
           /\ \/ enhanced' = enhanced
              \/ /\ enhanced' = enhanced \cup {paths[i]}
                 /\ list' = Append(list, <<paths[i], "enhanced">>)
    BY <2>7, <2>8
  <2>10. diskFaults' = 0 =>
           \/ enhanced' = enhanced
           \/ enhanced' = enhanced \cup {paths[i]} /\ e = <<paths[i], "enhanced">>
    <3>1. ASSUME list' = Append(list, <<paths[i], "enhanced">>) PROVE e = <<paths[i], "enhanced">>
      <4>1. <<paths[i], "enhanced">> \in Images!Files \X Images!Versions
        BY <2>2 DEF Images!Versions
      <4>2. list'[Len(list) + 1] = <<paths[i], "enhanced">>
        BY <3>1, <4>1, OneMore
      <4> QED BY <2>5, <2>6, <4>2
    <3>2. ASSUME diskFaults' = 0, enhanced' # enhanced
          PROVE  enhanced' = enhanced \cup {paths[i]} /\ e = <<paths[i], "enhanced">>
      BY <2>9, <3>1, <3>2
    <3> QED BY <3>2
  <2> HIDE DEF longer, e
  <2>11. Len(list)' = i' - 1
    BY <2>1, <2>5, <2>6
  <2>12. \A n \in 1..Len(longer) : n \in 1..Len(list) \/ n = Len(list) + 1
    BY <2>5
  <2>13. Len(list) + 1 = i
    BY <2>1, <2>5
  <2>14. \A n \in 1..Len(longer) : longer[n][1] = paths[n]
    BY <2>1, <2>4, <2>5, <2>12, <2>13
  <2>15. \A n \in 1..Len(list) : n \in 1..Len(longer)
    BY <2>5
  <2>16. Len(list) + 1 \in 1..Len(longer)
    BY <2>5
  <2>17. ASSUME diskFaults' = 0, NEW f \in enhanced'
         PROVE  \E n \in 1..Len(list') : list'[n] = <<f, "enhanced">>
    <3>1. CASE f \in enhanced
      <4>0. diskFaults = 0
        BY <2>9, <2>17
      <4>1. PICK n \in 1..Len(list) : list[n] = <<f, "enhanced">>
        BY <2>1, <3>1, <4>0
      <4>2. n \in 1..Len(longer) /\ longer[n] = <<f, "enhanced">>
        BY <2>5, <2>15, <4>1
      <4> QED BY <2>6, <4>2
    <3>2. CASE f \notin enhanced
      <4>1. f = paths[i] /\ e = <<paths[i], "enhanced">>
        BY <2>10, <2>17, <3>2
      <4>2. Len(list) + 1 \in 1..Len(list') /\ list'[Len(list) + 1] = <<f, "enhanced">>
        BY <2>5, <2>6, <2>16, <4>1
      <4> QED BY <4>2
    <3> QED BY <3>1, <3>2
  <2>18. pdf' = <<>> /\ ~row' /\ answer' = 0
    BY <2>1
  <2>19. \A n \in 1..Len(list') : list'[n][1] = paths'[n]
    BY <2>1, <2>6, <2>14
  <2>20. diskFaults' = 0 =>
            \A f \in enhanced' : \E n \in 1..Len(list') : list'[n] = <<f, "enhanced">>
    BY <2>17
  <2>21. batchPc' = "enhance"
    BY <2>1
  <2> HIDE DEF BatchInv, ListInv, Images!TypeOK
  <2> QED BY <2>11, <2>18, <2>19, <2>20, <2>21 DEF ListInv
<1>4. CASE Images!EnhanceDone
  BY <1>4 DEF Images!EnhanceDone, PathsInv
<1>5. CASE Images!Merge
  BY <1>5 DEF Images!Merge, Images!MergedPages, Images!Reply
<1>6. CASE Images!Clean
  BY <1>6, NoneUnlisted DEF Images!Clean, Images!DiskFault, Images!Reply
<1>7. CASE Images!Add
  BY <1>7 DEF Images!Add, Images!Reply
<1> QED BY <1>1, <1>2, <1>3, <1>4, <1>5, <1>6, <1>7 DEF Images!Next

\* Every step keeps the property.
LEMMA BatchEnds ==
  ASSUME BatchInv, Images!Next
  PROVE  BatchRight'
<1>n. MaxFiles \in Nat /\ MaxDiskFaults \in Nat
  BY HostConstants
<1> USE <1>n DEF BatchInv, BatchRight, Images!NothingLeftBehind, Images!PagesInOrder,
       Images!TypeOK, ListInv, Images!NoPdf
<1>1. CASE Images!Save
  BY <1>1 DEF Images!Save, Images!DiskFault, Images!Reply
<1>2. CASE Images!SavesDone
  BY <1>2 DEF Images!SavesDone, Images!Reply, PathsInv
<1>3. CASE Images!Enhance
  BY <1>3 DEF Images!Enhance
<1>4. CASE Images!EnhanceDone
  BY <1>4 DEF Images!EnhanceDone
<1>5. CASE Images!Merge
  <2>1. batchPc = "merge" /\ pdf = <<>> /\ ~row /\ UNCHANGED <<row, diskFaults>>
    BY <1>5 DEF Images!Merge
  <2>2. CASE batchPc' = "clean"
    BY <2>1, <2>2
  <2>3. CASE /\ enhanced' = Images!Unlisted /\ saved' = {} /\ batchPc' = "end" /\ answer' = 500
             /\ pdf' = pdf
    <3>1. diskFaults = 0 => enhanced' = {}
      BY <2>1, <2>3, NoneUnlisted
    <3> QED BY <2>1, <2>3, <3>1
  <2> QED BY <1>5, <2>2, <2>3 DEF Images!Merge, Images!Reply
<1>6. CASE Images!Clean
  BY <1>6 DEF Images!Clean, Images!DiskFault, Images!Reply
<1>7. CASE Images!Add
  <2>1. /\ batchPc = "add" /\ batchPc' = "end"
        /\ UNCHANGED <<offered, i, saved, paths, enhanced, list, diskFaults>>
    BY <1>7 DEF Images!Add, Images!Reply
  <2>2. CASE row' = TRUE /\ answer' = 200 /\ pdf' = pdf
    <3>1. pdf = list /\ Len(list) = Len(paths) /\ Len(paths) \in Nat /\ paths # <<>>
      BY <2>1 DEF PathsInv
    <3>2. \A n \in 1..Len(paths) : pdf[n][1] = paths[n]
      BY <2>1, <3>1
    <3>3. pdf # <<>>
      BY <3>1
    <3>4. UNCHANGED <<offered, diskFaults>> /\ batchPc' = "end" /\ pdf' = pdf
      BY <2>1, <2>2
    <3>5. (diskFaults' = 0 => saved' = {} /\ enhanced' = {}) /\ row' /\ answer' = 200
      BY <2>1, <2>2
    <3>6. Images!NothingLeftBehind'
      BY <2>2, <3>3, <3>4, <3>5
    <3>7. \A n \in 1..Len(pdf) : offered[pdf[n][1]]
      BY <3>1, <3>2 DEF PathsInv
    <3>8. \A f \in Images!Files : offered[f] => \E n \in 1..Len(pdf) : pdf[n][1] = f
      <4> SUFFICES ASSUME NEW f \in Images!Files, offered[f]
                   PROVE  \E n \in 1..Len(pdf) : pdf[n][1] = f
        OBVIOUS
      <4>1. PICK n \in 1..Len(paths) : paths[n] = f
        BY <2>1 DEF PathsInv
      <4> QED BY <3>1, <3>2, <4>1
    <3>9. \A m, n \in 1..Len(pdf) : m < n => pdf[m][1] < pdf[n][1]
      BY <3>1, <3>2 DEF PathsInv
    <3>10. Images!PagesInOrder'
      BY <3>3, <3>4, <3>7, <3>8, <3>9
    <3> QED BY <3>6, <3>10
  <2>3. CASE row' = row /\ answer' = 500 /\ pdf' = <<>>
    BY <2>1, <2>3
  <2> QED BY <1>7, <2>2, <2>3 DEF Images!Add, Images!Reply
<1> QED BY <1>1, <1>2, <1>3, <1>4, <1>5, <1>6, <1>7 DEF Images!Next

\* The invariant holds of every behaviour.
LEMMA BatchAlways == FairSpec => []BatchInv
<1>1. [Next]_hostVars => Images!Next \/ UNCHANGED imageVars
  BY DEF Next, hostVars
<1>2. BatchInv /\ Images!Next => BatchInv'
  BY BatchTypes, BatchPaths, BatchList, BatchEnds DEF BatchInv
<1>3. BatchInv /\ UNCHANGED imageVars => BatchInv'
  BY DEF imageVars, BatchInv, PathsInv, ListInv, BatchRight, Images!TypeOK,
     Images!NothingLeftBehind, Images!PagesInOrder
<1> QED BY <1>1, <1>2, <1>3, BatchInit, PTL DEF FairSpec

\* Whatever fails of the enhancing service, the merge or the queue, a request
\* leaves nothing on disk but the PDF of the job it reports, unless the disk
\* fails; and the job has a page for every picture, once, in their order.
THEOREM BatchesAreRight == FairSpec => []BatchRight
<1>1. BatchInv => BatchRight
  BY DEF BatchInv
<1> QED BY <1>1, BatchAlways, PTL

-----------------------------------------------------------------------------
(* The types of all five. *)

\* Every variable of the five components keeps to its values.
THEOREM HostTypes == FairSpec => []TypeOK
<1>1. EngineInv /\ ConfigInv /\ ServerInv /\ BatchInv /\ MonitorInv => TypeOK
  BY DEF TypeOK, EngineInv, ConfigInv, ServerInv, CallInv, BatchInv, MonitorInv
<1> QED BY <1>1, EngineAlways, ConfigAlways, ServerAlways, BatchAlways, MonitorAlways, PTL
=============================================================================
