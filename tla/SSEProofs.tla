------------------------------ MODULE SSEProofs ------------------------------
(***************************************************************************)
(* Safety of SSEBroadcaster, for any number of threads and subscribers:    *)
(* the order in which a client gets the events, and why a subscriber is    *)
(* evicted.                                                                *)
(***************************************************************************)
EXTENDS SSEBroadcaster, FiniteSetTheorems, TLAPS

\* The points of publish at which a full queue was met and is not yet counted.
AtFull == {"drop", "reput", "warn", "count"}

\* The stack fs of a thread t that has made n calls, while k holds the sink:
\* the outer call is its latest, the inner one, a log record of publish itself,
\* comes back through the sink, and the outer did not.
StackOK(t, fs, n, k) ==
    /\ Len(fs) > 0 => fs[1].ev = <<t, n>> /\ n > 0
    /\ Len(fs) = 2 => fs[2].ev = <<t, 0>> /\ fs[2].log /\ ~fs[1].log
    /\ Len(fs) <= 2
    /\ k = t <=> \E i \in 1..Len(fs) : fs[i].log
    /\ \A i \in 1..Len(fs) :
          fs[i].pc \in AtFull \cup {"reset"} => fs[i].sub \in Subs

StackInv(t) == StackOK(t, frames[t], calls[t], sink)

TypeInv == TypeOK /\ \A t \in Threads : StackInv(t)

FramesOK == frames \in [Threads -> Seq(Frame)]

-----------------------------------------------------------------------------
(* Frames. *)

\* A step inside a call replaces the innermost frame.
LEMMA BecomeFrame ==
  ASSUME FramesOK, NEW t \in Threads, Depth(t) > 0, NEW f \in Frame,
         Become(t, f)
  PROVE  /\ FramesOK'
         /\ \A u \in Threads \ {t} : frames'[u] = frames[u]
         /\ Len(frames'[t]) = Len(frames[t])
         /\ frames'[t][Depth(t)] = f
         /\ \A i \in 1..(Depth(t) - 1) : frames'[t][i] = frames[t][i]
<1> DEFINE s == [frames[t] EXCEPT ![Depth(t)] = f]
<1>1. frames[t] \in Seq(Frame) /\ Depth(t) \in 1..Len(frames[t])
  BY DEF FramesOK, Depth
<1>2. frames' = [frames EXCEPT ![t] = s]
  BY DEF Become
<1>3. /\ s \in Seq(Frame) /\ Len(s) = Len(frames[t]) /\ s[Depth(t)] = f
      /\ \A i \in 1..(Depth(t) - 1) : s[i] = frames[t][i]
  BY <1>1
<1> QED BY <1>2, <1>3 DEF FramesOK

\* A return takes the innermost frame away.
LEMMA ReturnFrame ==
  ASSUME FramesOK, NEW t \in Threads, Depth(t) > 0, Return(t)
  PROVE  /\ FramesOK'
         /\ \A u \in Threads \ {t} : frames'[u] = frames[u]
         /\ Len(frames'[t]) = Len(frames[t]) - 1
         /\ \A i \in 1..(Depth(t) - 1) : frames'[t][i] = frames[t][i]
<1> DEFINE s == SubSeq(frames[t], 1, Depth(t) - 1)
<1>1. frames[t] \in Seq(Frame) /\ Len(frames[t]) \in Nat \ {0}
  BY DEF FramesOK, Depth
<1>2. frames' = [frames EXCEPT ![t] = s]
  BY DEF Return
<1>3. /\ s \in Seq(Frame) /\ Len(s) = Len(frames[t]) - 1
      /\ \A i \in 1..(Depth(t) - 1) : s[i] = frames[t][i]
  BY <1>1 DEF Depth
<1> QED BY <1>2, <1>3 DEF FramesOK

\* A call that logs becomes f and gets g on top.
Push(t, f, g) ==
    frames' = [frames EXCEPT ![t] =
                  Append([frames[t] EXCEPT ![Depth(t)] = f], g)]

LEMMA PushFrame ==
  ASSUME FramesOK, NEW t \in Threads, Depth(t) > 0, NEW f \in Frame,
         NEW g \in Frame,
         Push(t, f, g)
  PROVE  /\ FramesOK'
         /\ \A u \in Threads \ {t} : frames'[u] = frames[u]
         /\ Len(frames'[t]) = Len(frames[t]) + 1
         /\ frames'[t][Depth(t)] = f /\ frames'[t][Depth(t) + 1] = g
         /\ \A i \in 1..(Depth(t) - 1) : frames'[t][i] = frames[t][i]
<1> DEFINE s == [frames[t] EXCEPT ![Depth(t)] = f]
<1>1. frames[t] \in Seq(Frame) /\ Depth(t) \in 1..Len(frames[t])
  BY DEF FramesOK, Depth
<1>2. /\ s \in Seq(Frame) /\ Len(s) = Len(frames[t]) /\ s[Depth(t)] = f
      /\ \A i \in 1..(Depth(t) - 1) : s[i] = frames[t][i]
  BY <1>1
<1>3. /\ Append(s, g) \in Seq(Frame) /\ Len(Append(s, g)) = Len(s) + 1
      /\ Append(s, g)[Len(s) + 1] = g
      /\ \A i \in 1..Len(s) : Append(s, g)[i] = s[i]
  BY <1>2
<1> HIDE DEF s
<1>4. frames' = [frames EXCEPT ![t] = Append(s, g)]
  BY DEF s, Push
<1> DEFINE w == Append(s, g)
<1>5. /\ w \in Seq(Frame) /\ Len(w) = Len(frames[t]) + 1
      /\ w[Depth(t)] = f /\ w[Depth(t) + 1] = g
      /\ \A i \in 1..(Depth(t) - 1) : w[i] = frames[t][i]
  BY <1>1, <1>2, <1>3 DEF Depth
<1> HIDE DEF w
<1>6. frames' = [frames EXCEPT ![t] = w] /\ frames \in [Threads -> Seq(Frame)]
  BY <1>4 DEF w, FramesOK
<1>7. frames' \in [Threads -> Seq(Frame)] /\ frames'[t] = w
      /\ \A u \in Threads \ {t} : frames'[u] = frames[u]
  BY <1>5, <1>6
<1> QED BY <1>5, <1>7 DEF FramesOK

\* Where a thread is in its calls.
LEMMA TopFrame ==
  ASSUME TypeInv, NEW t \in Threads, Depth(t) > 0
  PROVE  /\ FramesOK /\ frames[t] \in Seq(Frame) /\ Depth(t) \in {1, 2}
         /\ Depth(t) = Len(frames[t])
         /\ Top(t) = frames[t][Depth(t)] /\ Top(t) \in Frame
         /\ Top(t).pc \in AtFull \cup {"reset"} => Top(t).sub \in Subs
<1>1. /\ FramesOK /\ frames[t] \in Seq(Frame) /\ Len(frames[t]) <= 2
      /\ StackInv(t)
  BY DEF TypeInv, TypeOK, FramesOK
<1>2. Depth(t) = Len(frames[t]) /\ Depth(t) \in {1, 2}
  <2>1. Len(frames[t]) \in Nat
    BY <1>1
  <2>2. \A n \in Nat : n > 0 /\ n <= 2 => n \in {1, 2}
    OBVIOUS
  <2> QED BY <1>1, <2>1, <2>2 DEF Depth
<1>3. Top(t) = frames[t][Depth(t)] /\ Top(t) \in Frame
  BY <1>1, <1>2 DEF Top
<1> QED BY <1>1, <1>2, <1>3 DEF StackInv, StackOK

\* The innermost frame of t is replaced by f.
Replaced(t, f) ==
    /\ Len(frames'[t]) = Len(frames[t])
    /\ frames'[t][Depth(t)] = f
    /\ \A i \in 1..(Depth(t) - 1) : frames'[t][i] = frames[t][i]
    /\ sink' = sink

\* The innermost call of t returns.
Returned(t) ==
    /\ Len(frames'[t]) = Len(frames[t]) - 1
    /\ \A i \in 1..(Depth(t) - 1) : frames'[t][i] = frames[t][i]
    /\ sink' = IF Top(t).log THEN NoThread ELSE sink

\* The outer call of t logs and is called back through the sink.
Pushed(t, pc) ==
    /\ Depth(t) = 1 /\ Len(frames'[t]) = 2
    /\ frames'[t][1] = [Top(t) EXCEPT !.pc = pc]
    /\ frames'[t][2] = Call(<<t, 0>>, TRUE)
    /\ sink = NoThread /\ sink' = t

\* Logging from inside publish.
LEMMA LogFrames ==
  ASSUME TypeInv, NEW t \in Threads, Depth(t) > 0,
         NEW pc \in {"count", "evict"}, LogThenGoto(t, pc)
  PROVE  /\ FramesOK' /\ \A u \in Threads \ {t} : frames'[u] = frames[u]
         /\ Replaced(t, [Top(t) EXCEPT !.pc = pc]) \/ Pushed(t, pc)
<1> DEFINE f == [Top(t) EXCEPT !.pc = pc]
           g == Call(<<t, 0>>, TRUE)
<1>1. f \in Frame
  BY TopFrame DEF Frame
<1>2. g \in Frame
  BY BusAssumption DEF Call, Frame, Events
<1>3. CASE sink = t
  <2>1. Become(t, f) /\ sink' = sink
    BY <1>3 DEF LogThenGoto, Goto
  <2> HIDE DEF f
  <2>2. FramesOK
    BY TopFrame
  <2>3. /\ FramesOK' /\ \A u \in Threads \ {t} : frames'[u] = frames[u]
        /\ Replaced(t, f)
    BY <1>1, <2>1, <2>2, BecomeFrame DEF Replaced
  <2> QED BY <2>3 DEF f
<1>4. CASE sink # t
  <2>1. sink = NoThread /\ sink' = t /\ Push(t, f, g)
    BY <1>4, TopFrame DEF LogThenGoto, FramesOK, Push
  <2>2. Depth(t) = 1
    <3>1. StackOK(t, frames[t], calls[t], sink)
      BY DEF TypeInv, StackInv
    <3>2. Depth(t) = Len(frames[t]) /\ Depth(t) \in {1, 2}
      BY TopFrame
    <3>3. ASSUME Depth(t) = 2 PROVE sink = t
      <4>1. Len(frames[t]) = 2 /\ 2 \in 1..Len(frames[t])
        BY <3>2, <3>3
      <4> QED BY <3>1, <4>1 DEF StackOK
    <3> QED BY <1>4, <3>2, <3>3
  <2>3. FramesOK /\ Len(frames[t]) = 1
    BY <2>2, TopFrame
  <2> HIDE DEF f, g
  <2>4. /\ FramesOK' /\ \A u \in Threads \ {t} : frames'[u] = frames[u]
        /\ Len(frames'[t]) = Len(frames[t]) + 1
        /\ frames'[t][Depth(t)] = f /\ frames'[t][Depth(t) + 1] = g
    BY <1>1, <1>2, <2>1, <2>3, PushFrame
  <2>5. /\ Len(frames'[t]) = 2 /\ frames'[t][1] = f /\ frames'[t][2] = g
    BY <2>2, <2>3, <2>4
  <2> QED BY <2>1, <2>2, <2>4, <2>5 DEF Pushed, f, g
<1> QED BY <1>3, <1>4

\* A step that replaces the innermost frame and logs nothing.
LEMMA ReplaceFrames ==
  ASSUME TypeInv, NEW t \in Threads, Depth(t) > 0, NEW f \in Frame,
         Become(t, f), UNCHANGED sink
  PROVE  /\ FramesOK' /\ \A u \in Threads \ {t} : frames'[u] = frames[u]
         /\ Replaced(t, f)
BY TopFrame, BecomeFrame DEF Replaced

\* A return.
LEMMA ReturnFrames ==
  ASSUME TypeInv, NEW t \in Threads, Depth(t) > 0, Return(t)
  PROVE  /\ FramesOK' /\ \A u \in Threads \ {t} : frames'[u] = frames[u]
         /\ Returned(t)
<1>1. sink' = IF Top(t).log THEN NoThread ELSE sink
  BY DEF Return
<1> QED BY <1>1, TopFrame, ReturnFrame DEF Returned

-----------------------------------------------------------------------------
(* Types. *)

\* The calls' part of the type invariant.
FrameInv ==
    /\ FramesOK
    /\ sink \in Threads \cup {NoThread}
    /\ calls \in [Threads -> 0..MaxCalls]
    /\ \A t \in Threads : StackInv(t)

\* The part of the queues and of the connections.
QueueInv ==
    /\ live \in SUBSET Subs
    /\ stale \in [Subs -> 0..(StaleLimit - 1)]
    /\ q \in [Subs -> Seq(Events)]
    /\ \A s \in Subs : Len(q[s]) <= MaxSize
    /\ lock \in Threads \cup {NoThread}
    /\ conn \in [Subs -> {"none", "open", "leaving", "closed"}]
    /\ since \in [Subs -> BOOLEAN]
    /\ seen \in [Subs -> [Threads -> 0..MaxCalls]]
    /\ fulls \in [Subs -> 0..StaleLimit]

LEMMA TypeInvParts == TypeInv <=> FrameInv /\ QueueInv
BY DEF TypeInv, TypeOK, FrameInv, StackInv, StackOK, QueueInv, FramesOK

LEMMA TypeInvNext == FrameInv' /\ QueueInv' => TypeInv'
BY TypeInvParts, PTL

\* A frame that deals with a subscriber has one.
HasSub(f) == f.pc \in AtFull \cup {"reset"} => f.sub \in Subs

\* What a thread in a call has on its stack.
LEMMA TopOfStack ==
  ASSUME TypeInv, NEW t \in Threads, Depth(t) > 0
  PROVE  /\ Depth(t) = 1 => Top(t).ev = <<t, calls[t]>>
         /\ Depth(t) = 2 => /\ Top(t).ev = <<t, 0>> /\ Top(t).log
                            /\ frames[t][1].ev = <<t, calls[t]>>
                            /\ ~frames[t][1].log /\ HasSub(frames[t][1])
         /\ calls[t] > 0 /\ HasSub(Top(t)) /\ (sink = t <=> Top(t).log)
<1>1. StackOK(t, frames[t], calls[t], sink)
  BY DEF TypeInv, StackInv
<1>2. /\ frames[t] \in Seq(Frame) /\ Len(frames[t]) = Depth(t)
      /\ Top(t) = frames[t][Depth(t)] /\ Depth(t) \in {1, 2}
  BY TopFrame
<1>3. CASE Depth(t) = 1
  BY <1>1, <1>2, <1>3 DEF StackOK, HasSub
<1>4. CASE Depth(t) = 2
  BY <1>1, <1>2, <1>4 DEF StackOK, HasSub
<1> QED BY <1>2, <1>3, <1>4

\* The stack of a thread that does nothing.
LEMMA OtherStacks ==
  ASSUME FrameInv, NEW t \in Threads,
         \A u \in Threads \ {t} : /\ frames'[u] = frames[u]
                                  /\ calls'[u] = calls[u]
                                  /\ sink' = u <=> sink = u
  PROVE  \A u \in Threads \ {t} : StackInv(u)'
<1> TAKE u \in Threads \ {t}
<1>1. StackOK(u, frames[u], calls[u], sink)
  BY DEF FrameInv, StackInv
<1>2. frames'[u] = frames[u] /\ calls'[u] = calls[u] /\ (sink' = u <=> sink = u)
  OBVIOUS
<1>3. StackOK(u, frames[u], calls[u], sink')
  BY <1>1, <1>2 DEF StackOK
<1> QED BY <1>2, <1>3 DEF StackInv

\* What a step inside a call must show of its frame.
LEMMA TypeOfReplaced ==
  ASSUME TypeInv, NEW t \in Threads, Depth(t) > 0, NEW f \in Frame, FramesOK',
         \A u \in Threads \ {t} : frames'[u] = frames[u], Replaced(t, f),
         f.ev = Top(t).ev, f.log = Top(t).log, calls' = calls, HasSub(f)
  PROVE  FrameInv'
<1>0. FrameInv
  BY TypeInvParts
<1>1. /\ Depth(t) \in {1, 2} /\ frames'[t] \in Seq(Frame)
      /\ Len(frames'[t]) = Depth(t) /\ frames'[t][Depth(t)] = f
      /\ Depth(t) = 2 => frames'[t][1] = frames[t][1]
      /\ sink' = sink
  BY TopFrame DEF Replaced, FramesOK
<1>2. StackOK(t, frames'[t], calls[t], sink)
  <2>1. CASE Depth(t) = 1
    BY <1>1, <2>1, TopOfStack DEF StackOK, HasSub
  <2>2. CASE Depth(t) = 2
    BY <1>1, <2>2, TopOfStack DEF StackOK, HasSub
  <2> QED BY <1>1, <2>1, <2>2
<1> QED
  BY <1>0, <1>1, <1>2, OtherStacks DEF FrameInv, StackInv

LEMMA TypeOfReturned ==
  ASSUME TypeInv, NEW t \in Threads, Depth(t) > 0, FramesOK',
         \A u \in Threads \ {t} : frames'[u] = frames[u], Returned(t),
         calls' = calls
  PROVE  FrameInv'
<1>0. FrameInv
  BY TypeInvParts
<1>1. /\ Depth(t) \in {1, 2} /\ frames'[t] \in Seq(Frame)
      /\ Len(frames'[t]) = Depth(t) - 1
      /\ Depth(t) = 2 => frames'[t][1] = frames[t][1]
      /\ sink' = IF Top(t).log THEN NoThread ELSE sink
  BY TopFrame DEF Returned, FramesOK
<1>2. sink' # t /\ \A u \in Threads \ {t} : sink' = u <=> sink = u
  BY <1>1, TopOfStack, BusAssumption
<1>3. StackOK(t, frames'[t], calls[t], sink')
  <2>1. CASE Depth(t) = 1
    BY <1>1, <1>2, <2>1 DEF StackOK
  <2>2. CASE Depth(t) = 2
    BY <1>1, <1>2, <2>2, TopOfStack DEF StackOK, HasSub
  <2> QED BY <1>1, <2>1, <2>2
<1> QED
  BY <1>0, <1>1, <1>2, <1>3, OtherStacks DEF FrameInv, StackInv

LEMMA TwoFrames ==
  ASSUME NEW t, NEW fs \in Seq(Frame), NEW n \in Nat, n > 0, Len(fs) = 2,
         fs[1].ev = <<t, n>>, fs[1].log = FALSE, HasSub(fs[1]),
         fs[2].ev = <<t, 0>>, fs[2].log = TRUE, HasSub(fs[2])
  PROVE  StackOK(t, fs, n, t)
<1>1. \A i \in 1..Len(fs) : i = 1 \/ i = 2
  OBVIOUS
<1>2. 2 \in 1..Len(fs)
  OBVIOUS
<1>3. \E i \in 1..Len(fs) : fs[i].log
  BY <1>2
<1>4. \A i \in 1..Len(fs) :
         fs[i].pc \in AtFull \cup {"reset"} => fs[i].sub \in Subs
  BY <1>1 DEF HasSub
<1> QED BY <1>3, <1>4 DEF StackOK

LEMMA TypeOfPushed ==
  ASSUME TypeInv, NEW t \in Threads, Depth(t) > 0, FramesOK',
         \A u \in Threads \ {t} : frames'[u] = frames[u],
         NEW pc \in {"count", "evict"}, Pushed(t, pc),
         pc = "count" => Top(t).sub \in Subs, calls' = calls
  PROVE  FrameInv'
<1>0. FrameInv
  BY TypeInvParts
<1>1. /\ frames'[t] \in Seq(Frame) /\ Len(frames'[t]) = 2
      /\ frames'[t][1] = [Top(t) EXCEPT !.pc = pc]
      /\ frames'[t][2] = Call(<<t, 0>>, TRUE)
      /\ sink = NoThread /\ sink' = t /\ Depth(t) = 1
  BY DEF Pushed, FramesOK
<1>2. /\ frames'[t][1].ev = Top(t).ev /\ frames'[t][1].log = Top(t).log
      /\ HasSub(frames'[t][1])
  BY <1>1, TopFrame DEF Frame, HasSub, AtFull
<1>3. /\ frames'[t][2].ev = <<t, 0>> /\ frames'[t][2].log
      /\ HasSub(frames'[t][2])
  BY <1>1 DEF Call, HasSub, AtFull
<1>4. StackOK(t, frames'[t], calls[t], t)
  <2>1. ~Top(t).log /\ Top(t).ev = <<t, calls[t]>> /\ calls[t] > 0
    BY <1>1, TopOfStack, BusAssumption
  <2>2. Top(t).log \in BOOLEAN /\ calls[t] \in Nat
    <3>1. Top(t).log \in BOOLEAN
      BY TopFrame DEF Frame
    <3>2. calls \in [Threads -> 0..MaxCalls]
      BY <1>0 DEF FrameInv
    <3> QED BY <3>1, <3>2, BusAssumption
  <2>3. frames'[t][1].ev = <<t, calls[t]>> /\ frames'[t][1].log = FALSE
    BY <1>2, <2>1, <2>2
  <2>4. frames'[t][2].log = TRUE
    BY <1>1 DEF Call
  <2> QED BY <1>1, <1>2, <1>3, <2>1, <2>2, <2>3, <2>4, TwoFrames
<1> QED
  BY <1>0, <1>1, <1>4, OtherStacks, BusAssumption DEF FrameInv, StackInv

\* A call begins.
LEMMA TypeOfBegin ==
  ASSUME TypeInv, NEW t \in Threads, NEW log \in BOOLEAN, Begin(t, log),
         IF log THEN sink = NoThread /\ sink' = t ELSE UNCHANGED sink
  PROVE  TypeInv'
<1> DEFINE n == calls[t] + 1
           f == Call(<<t, n>>, log)
<1>1. FrameInv /\ QueueInv
  BY TypeInvParts
<1>2. /\ Depth(t) = 0 /\ calls' = [calls EXCEPT ![t] = n]
      /\ calls[t] \in Nat /\ n \in 0..MaxCalls /\ calls[t] < MaxCalls
      /\ calls'[t] = n /\ calls \in [Threads -> 0..MaxCalls]
  BY <1>1, BusAssumption DEF Begin, FrameInv
<1>3. frames' = [frames EXCEPT ![t] = <<f>>]
  BY <1>2 DEF Begin
<1>4. f \in Frame
  BY <1>2 DEF Call, Frame, Events
<1>5. f.ev = <<t, n>> /\ f.log = log /\ f.pc = "snapshot"
  BY DEF Call
<1>6. n > 0
  BY <1>2
<1> HIDE DEF f, n
<1>7. /\ <<f>> \in Seq(Frame) /\ Len(<<f>>) = 1 /\ <<f>>[1] = f
  BY <1>4
<1>8. /\ FramesOK' /\ frames'[t] = <<f>>
      /\ \A u \in Threads \ {t} : frames'[u] = frames[u]
  BY <1>1, <1>3, <1>7 DEF FrameInv, FramesOK
<1>9. calls' \in [Threads -> 0..MaxCalls]
      /\ \A u \in Threads \ {t} : calls'[u] = calls[u]
  BY <1>2
<1>10. sink # t
  <2>1. StackOK(t, frames[t], calls[t], sink) /\ frames[t] \in Seq(Frame)
    BY <1>1 DEF FrameInv, StackInv, FramesOK
  <2> QED BY <1>2, <2>1 DEF StackOK, Depth
<1>11. /\ sink' \in Threads \cup {NoThread} /\ (sink' = t <=> log)
       /\ \A u \in Threads \ {t} : sink' = u <=> sink = u
  BY <1>1, <1>10, BusAssumption DEF FrameInv
<1>12. StackOK(t, <<f>>, n, sink')
  BY <1>5, <1>6, <1>7, <1>11 DEF StackOK, AtFull
<1>13. FrameInv'
  BY <1>1, <1>2, <1>8, <1>9, <1>11, <1>12, OtherStacks DEF FrameInv, StackInv
<1>14. QueueInv'
  BY <1>1 DEF QueueInv, Begin, histVars
<1> QED BY <1>13, <1>14, TypeInvNext

\* A step that changes no call.
LEMMA TypeOfQuiet ==
  ASSUME TypeInv, QueueInv', UNCHANGED <<frames, calls, sink>>
  PROVE  TypeInv'
<1>1. FrameInv
  BY TypeInvParts
<1>2. FrameInv'
  BY <1>1 DEF FrameInv, FramesOK, StackInv
<1> QED BY <1>2, TypeInvNext

\* A step inside a call that logs nothing and does not end it.
LEMMA TypeOfStep ==
  ASSUME TypeInv, NEW t \in Threads, Depth(t) > 0, NEW f \in Frame,
         Become(t, f), UNCHANGED <<sink, calls>>,
         f.ev = Top(t).ev, f.log = Top(t).log, HasSub(f), QueueInv'
  PROVE  TypeInv'
BY ReplaceFrames, TypeOfReplaced, TypeInvNext

LEMMA TypeOfLog ==
  ASSUME TypeInv, NEW t \in Threads, Depth(t) > 0,
         NEW pc \in {"count", "evict"}, LogThenGoto(t, pc),
         pc = "count" => Top(t).sub \in Subs, UNCHANGED calls, QueueInv'
  PROVE  TypeInv'
<1>1. /\ FramesOK' /\ \A u \in Threads \ {t} : frames'[u] = frames[u]
      /\ Replaced(t, [Top(t) EXCEPT !.pc = pc]) \/ Pushed(t, pc)
  BY LogFrames
<1>2. CASE Replaced(t, [Top(t) EXCEPT !.pc = pc])
  <2> DEFINE f == [Top(t) EXCEPT !.pc = pc]
  <2>1. Top(t) \in Frame
    BY TopFrame
  <2>2. f \in Frame /\ f.ev = Top(t).ev /\ f.log = Top(t).log /\ HasSub(f)
    BY <2>1 DEF Frame, HasSub, AtFull
  <2> HIDE DEF f
  <2>3. Replaced(t, f)
    BY <1>2 DEF f
  <2> QED BY <1>1, <2>2, <2>3, TypeOfReplaced, TypeInvNext
<1>3. CASE Pushed(t, pc)
  BY <1>1, <1>3, TypeOfPushed, TypeInvNext
<1> QED BY <1>1, <1>2, <1>3

LEMMA TypeOfEnd ==
  ASSUME TypeInv, NEW t \in Threads, Depth(t) > 0, Return(t),
         UNCHANGED calls, QueueInv'
  PROVE  TypeInv'
BY ReturnFrames, TypeOfReturned, TypeInvNext

\* What a step inside a call may count on.
LEMMA InCall ==
  ASSUME TypeInv, NEW t \in Threads, NEW pc, At(t, pc)
  PROVE  /\ Depth(t) > 0 /\ Top(t) \in Frame /\ Top(t).pc = pc /\ QueueInv
         /\ Top(t).todo \in SUBSET Subs /\ Top(t).gone \in SUBSET Subs
         /\ Top(t).ev \in Events
         /\ pc \in AtFull \cup {"reset"} => Top(t).sub \in Subs
BY TopFrame, TypeInvParts DEF At, Frame

LEMMA TypeSnapshot ==
  ASSUME TypeInv, NEW t \in Threads, Snapshot(t)
  PROVE  TypeInv'
<1> DEFINE f == [Top(t) EXCEPT !.pc = "put", !.todo = live]
<1>1. Depth(t) > 0 /\ Top(t) \in Frame /\ QueueInv
  BY InCall DEF Snapshot
<1>2. f \in Frame /\ f.ev = Top(t).ev /\ f.log = Top(t).log /\ HasSub(f)
  BY <1>1 DEF Frame, HasSub, AtFull, QueueInv
<1>3. Become(t, f) /\ UNCHANGED <<sink, calls>>
  BY DEF Snapshot
<1>4. QueueInv'
  BY <1>1 DEF QueueInv, Snapshot, histVars
<1> HIDE DEF f
<1> QED BY <1>1, <1>2, <1>3, <1>4, TypeOfStep

LEMMA TypePut ==
  ASSUME TypeInv, NEW t \in Threads, NEW s \in Subs, Put(t, s)
  PROVE  TypeInv'
<1> DEFINE full == Len(q[s]) = MaxSize
           f == [Top(t) EXCEPT !.pc = IF full THEN "drop" ELSE "reset",
                               !.todo = Top(t).todo \ {s}, !.sub = s]
<1>1. /\ Depth(t) > 0 /\ Top(t) \in Frame /\ QueueInv /\ Top(t).ev \in Events
      /\ Top(t).todo \in SUBSET Subs
  BY InCall DEF Put
<1>2. f \in Frame /\ f.ev = Top(t).ev /\ f.log = Top(t).log /\ HasSub(f)
  BY <1>1 DEF Frame, HasSub
<1>3. Become(t, f) /\ UNCHANGED <<sink, calls>>
  BY DEF Put
<1>4. QueueInv'
  <2>1. fulls' \in [Subs -> 0..StaleLimit]
    BY <1>1, BusAssumption DEF QueueInv, Put, Saturate
  <2>2. q' \in [Subs -> Seq(Events)] /\ \A x \in Subs : Len(q'[x]) <= MaxSize
    <3>1. q[s] \in Seq(Events) /\ Len(q[s]) <= MaxSize /\ Len(q[s]) \in Nat
      BY <1>1 DEF QueueInv
    <3>2. CASE full
      BY <1>1, <3>2 DEF QueueInv, Put
    <3>3. CASE ~full
      <4>1. q' = [q EXCEPT ![s] = Append(q[s], Top(t).ev)]
        BY <3>3 DEF Put
      <4>2. /\ Append(q[s], Top(t).ev) \in Seq(Events)
            /\ Len(Append(q[s], Top(t).ev)) <= MaxSize
        BY <1>1, <3>1, <3>3, BusAssumption
      <4> QED BY <1>1, <4>1, <4>2 DEF QueueInv
    <3> QED BY <3>2, <3>3
  <2> QED BY <1>1, <2>1, <2>2 DEF QueueInv, Put
<1> HIDE DEF f
<1> QED BY <1>1, <1>2, <1>3, <1>4, TypeOfStep

\* The step to the label pc in the same call.
LEMMA GotoFrame ==
  ASSUME NEW f \in Frame, HasSub(f), f.pc \in AtFull \cup {"reset"},
         NEW pc \in {"snapshot", "put", "drop", "reput", "warn", "count",
                     "reset", "evict", "evicted", "listeners"}
  PROVE  LET g == [f EXCEPT !.pc = pc]
         IN  g \in Frame /\ g.ev = f.ev /\ g.log = f.log /\ HasSub(g)
BY DEF Frame, HasSub

LEMMA GotoPlain ==
  ASSUME NEW f \in Frame, NEW pc \in {"put", "evict", "listeners"}
  PROVE  LET g == [f EXCEPT !.pc = pc]
         IN  g \in Frame /\ g.ev = f.ev /\ g.log = f.log /\ HasSub(g)
BY DEF Frame, HasSub, AtFull

LEMMA TypeOfGoto ==
  ASSUME TypeInv, NEW t \in Threads, Depth(t) > 0, QueueInv',
         NEW pc \in {"snapshot", "put", "drop", "reput", "warn", "count",
                     "reset", "evict", "evicted", "listeners"},
         Goto(t, pc), UNCHANGED <<sink, calls>>,
         \/ Top(t).pc \in AtFull \cup {"reset"}
         \/ pc \in {"put", "evict", "listeners"}
  PROVE  TypeInv'
<1> DEFINE f == [Top(t) EXCEPT !.pc = pc]
<1>1. Top(t) \in Frame /\ HasSub(Top(t))
  BY TopFrame DEF HasSub
<1>2. f \in Frame /\ f.ev = Top(t).ev /\ f.log = Top(t).log /\ HasSub(f)
  BY <1>1, GotoFrame, GotoPlain
<1>3. Become(t, f)
  BY DEF Goto
<1> HIDE DEF f
<1> QED BY <1>2, <1>3, TypeOfStep

LEMMA TypeDrop ==
  ASSUME TypeInv, NEW t \in Threads, Drop(t)
  PROVE  TypeInv'
<1> DEFINE s == Top(t).sub
<1>1. /\ Depth(t) > 0 /\ Top(t).pc = "drop" /\ s \in Subs /\ QueueInv
      /\ UNCHANGED <<sink, calls>>
  BY InCall DEF Drop, AtFull
<1>2. q[s] \in Seq(Events) /\ Len(q[s]) <= MaxSize
  BY <1>1 DEF QueueInv
<1>3. CASE q[s] = <<>>
  <2>1. Goto(t, "count") /\ UNCHANGED q
    BY <1>3 DEF Drop
  <2>2. QueueInv'
    BY <1>1, <2>1 DEF QueueInv, Drop, histVars
  <2> QED BY <1>1, <2>1, <2>2, TypeOfGoto DEF AtFull
<1>4. CASE q[s] # <<>>
  <2>1. Goto(t, "reput") /\ q' = [q EXCEPT ![s] = Tail(q[s])]
    BY <1>4 DEF Drop
  <2>2. Tail(q[s]) \in Seq(Events) /\ Len(Tail(q[s])) <= MaxSize
    BY <1>2, <1>4, BusAssumption
  <2> HIDE DEF s
  <2>3. QueueInv'
    BY <1>1, <2>1, <2>2 DEF QueueInv, Drop, histVars
  <2> QED BY <1>1, <2>1, <2>3, TypeOfGoto DEF AtFull
<1> QED BY <1>3, <1>4

LEMMA TypeReput ==
  ASSUME TypeInv, NEW t \in Threads, Reput(t)
  PROVE  TypeInv'
<1> DEFINE s == Top(t).sub
<1>1. /\ Depth(t) > 0 /\ Top(t).pc = "reput" /\ s \in Subs /\ QueueInv
      /\ Top(t).ev \in Events /\ UNCHANGED calls
  BY InCall DEF Reput, AtFull
<1>2. q[s] \in Seq(Events) /\ Len(q[s]) <= MaxSize
  BY <1>1 DEF QueueInv
<1>3. CASE Len(q[s]) < MaxSize
  <2>1. /\ Goto(t, "warn") /\ q' = [q EXCEPT ![s] = Append(q[s], Top(t).ev)]
        /\ UNCHANGED sink
    BY <1>3 DEF Reput
  <2>2. /\ Append(q[s], Top(t).ev) \in Seq(Events)
        /\ Len(Append(q[s], Top(t).ev)) <= MaxSize
    BY <1>1, <1>2, <1>3, BusAssumption
  <2> HIDE DEF s
  <2>3. QueueInv'
    BY <1>1, <2>1, <2>2 DEF QueueInv, Reput, histVars
  <2> QED BY <1>1, <2>1, <2>3, TypeOfGoto DEF AtFull
<1>4. CASE ~(Len(q[s]) < MaxSize)
  <2>1. Return(t) /\ UNCHANGED q
    BY <1>4 DEF Reput
  <2>2. QueueInv'
    BY <1>1, <2>1 DEF QueueInv, Reput, histVars
  <2> QED BY <1>1, <2>1, <2>2, TypeOfEnd
<1> QED BY <1>3, <1>4

LEMMA TypeWarn ==
  ASSUME TypeInv, NEW t \in Threads, Warn(t) \/ LogEviction(t)
  PROVE  TypeInv'
<1>1. CASE Warn(t)
  <2>1. Depth(t) > 0 /\ Top(t).sub \in Subs /\ QueueInv
    BY <1>1, InCall DEF Warn, AtFull
  <2>2. QueueInv' /\ LogThenGoto(t, "count") /\ UNCHANGED calls
    BY <1>1, <2>1 DEF QueueInv, Warn, histVars
  <2> QED BY <2>1, <2>2, TypeOfLog
<1>2. CASE LogEviction(t)
  <2>1. Depth(t) > 0 /\ QueueInv
    BY <1>2, InCall DEF LogEviction
  <2>2. QueueInv' /\ LogThenGoto(t, "evict") /\ UNCHANGED calls
    BY <1>2, <2>1 DEF QueueInv, LogEviction, histVars
  <2> QED BY <2>1, <2>2, TypeOfLog
<1> QED BY <1>1, <1>2

LEMMA TypeCount ==
  ASSUME TypeInv, NEW t \in Threads, Count(t)
  PROVE  TypeInv'
<1> DEFINE s == Top(t).sub
<1>1. /\ Depth(t) > 0 /\ Top(t).pc = "count" /\ s \in Subs /\ QueueInv
      /\ Top(t).gone \in SUBSET Subs /\ UNCHANGED <<sink, calls>>
  BY InCall DEF Count, AtFull
<1>2. CASE stale[s] + 1 >= StaleLimit
  <2> DEFINE f == [Top(t) EXCEPT !.pc = "put", !.gone = Top(t).gone \cup {s}]
  <2>1. Top(t) \in Frame
    BY <1>1, InCall DEF Count
  <2>2. f \in Frame /\ f.ev = Top(t).ev /\ f.log = Top(t).log /\ HasSub(f)
    BY <1>1, <2>1 DEF Frame, HasSub, AtFull
  <2>3. Become(t, f) /\ UNCHANGED stale
    BY <1>2 DEF Count
  <2>4. QueueInv'
    BY <1>1, <2>3 DEF QueueInv, Count, histVars
  <2> HIDE DEF f, s
  <2> QED BY <1>1, <2>2, <2>3, <2>4, TypeOfStep
<1>3. CASE ~(stale[s] + 1 >= StaleLimit)
  <2>1. Goto(t, "put") /\ stale' = [stale EXCEPT ![s] = stale[s] + 1]
    BY <1>3 DEF Count
  <2> HIDE DEF s
  <2>2. stale' \in [Subs -> 0..(StaleLimit - 1)]
    BY <1>1, <1>3, <2>1, BusAssumption DEF QueueInv
  <2>3. QueueInv'
    BY <1>1, <2>1, <2>2 DEF QueueInv, Count, histVars
  <2> QED BY <1>1, <2>1, <2>3, TypeOfGoto
<1> QED BY <1>2, <1>3

LEMMA TypeReset ==
  ASSUME TypeInv, NEW t \in Threads, Reset(t)
  PROVE  TypeInv'
<1>1. /\ Depth(t) > 0 /\ QueueInv /\ Goto(t, "put")
      /\ UNCHANGED <<sink, calls>>
  BY InCall DEF Reset
<1>2. QueueInv'
  <2>1. stale' = [stale EXCEPT ![Top(t).sub] = 0] /\ 0 \in 0..(StaleLimit - 1)
    BY BusAssumption DEF Reset
  <2>2. stale' \in [Subs -> 0..(StaleLimit - 1)]
    BY <1>1, <2>1 DEF QueueInv
  <2> QED BY <1>1, <2>2 DEF QueueInv, Reset, histVars
<1> QED BY <1>1, <1>2, TypeOfGoto

LEMMA TypeEndLoop ==
  ASSUME TypeInv, NEW t \in Threads, EndLoop(t)
  PROVE  TypeInv'
<1>1. Depth(t) > 0 /\ QueueInv /\ UNCHANGED <<sink, calls>>
  BY InCall DEF EndLoop
<1>2. QueueInv'
  BY <1>1 DEF QueueInv, EndLoop, histVars
<1>3. Goto(t, "listeners") \/ Goto(t, "evict")
  BY DEF EndLoop
<1> QED BY <1>1, <1>2, <1>3, TypeOfGoto

LEMMA TypeEvict ==
  ASSUME TypeInv, NEW t \in Threads, NEW s \in Subs, Evict(t, s)
  PROVE  TypeInv'
<1> DEFINE f == [Top(t) EXCEPT !.pc = "evicted", !.gone = Top(t).gone \ {s}]
<1>1. /\ Depth(t) > 0 /\ Top(t) \in Frame /\ QueueInv
      /\ Top(t).gone \in SUBSET Subs
  BY InCall DEF Evict
<1>2. f \in Frame /\ f.ev = Top(t).ev /\ f.log = Top(t).log /\ HasSub(f)
  BY <1>1 DEF Frame, HasSub, AtFull
<1>3. Become(t, f) /\ UNCHANGED <<sink, calls>>
  BY DEF Evict
<1>4. QueueInv'
  BY <1>1, BusAssumption DEF QueueInv, Evict, histVars
<1> HIDE DEF f
<1> QED BY <1>1, <1>2, <1>3, <1>4, TypeOfStep

LEMMA TypeRelease ==
  ASSUME TypeInv, NEW t \in Threads, ReleaseLock(t)
  PROVE  TypeInv'
<1>1. /\ Depth(t) > 0 /\ QueueInv /\ Goto(t, "listeners")
      /\ UNCHANGED <<sink, calls>>
  BY InCall DEF ReleaseLock
<1>2. QueueInv'
  BY <1>1 DEF QueueInv, ReleaseLock, histVars
<1> QED BY <1>1, <1>2, TypeOfGoto

LEMMA TypeListeners ==
  ASSUME TypeInv, NEW t \in Threads, CallListeners(t)
  PROVE  TypeInv'
<1>1. Depth(t) > 0 /\ QueueInv /\ Return(t) /\ UNCHANGED calls
  BY InCall DEF CallListeners
<1>2. QueueInv'
  BY <1>1 DEF QueueInv, CallListeners, histVars
<1> QED BY <1>1, <1>2, TypeOfEnd

LEMMA TypeCall ==
  ASSUME TypeInv, NEW t \in Threads, CallStep(t)
  PROVE  TypeInv'
BY TypeSnapshot, TypePut, TypeDrop, TypeReput, TypeWarn, TypeCount, TypeReset,
   TypeEndLoop, TypeEvict, TypeRelease, TypeListeners DEF CallStep

LEMMA TypeSubscriber ==
  ASSUME TypeInv, NEW s \in Subs, SubscriberStep(s) \/ TimePasses(s)
  PROVE  TypeInv'
<1>1. QueueInv /\ UNCHANGED <<frames, calls, sink>>
  BY TypeInvParts
     DEF SubscriberStep, Subscribe, Receive, Leave, Unsubscribe, TimePasses
<1>2. CASE Receive(s)
  <2> DEFINE e == Head(q[s])
  <2>1. q[s] \in Seq(Events) /\ q[s] # <<>> /\ Len(q[s]) <= MaxSize
    BY <1>1, <1>2 DEF QueueInv, Receive
  <2>2. /\ Tail(q[s]) \in Seq(Events) /\ Len(Tail(q[s])) <= MaxSize
        /\ e \in Events
    BY <2>1, BusAssumption
  <2>3. e[1] \in Threads /\ e[2] \in 0..MaxCalls
    BY <2>2 DEF Events
  <2>4. /\ q' = [q EXCEPT ![s] = Tail(q[s])]
        /\ seen' = IF e[2] = 0 THEN seen ELSE [seen EXCEPT ![s][e[1]] = e[2]]
    BY <1>2 DEF Receive
  <2> HIDE DEF e
  <2>5. seen' \in [Subs -> [Threads -> 0..MaxCalls]]
    BY <1>1, <2>3, <2>4 DEF QueueInv
  <2>6. q' \in [Subs -> Seq(Events)] /\ \A x \in Subs : Len(q'[x]) <= MaxSize
    BY <1>1, <2>2, <2>4 DEF QueueInv
  <2>7. QueueInv'
    BY <1>1, <1>2, <2>5, <2>6 DEF QueueInv, Receive
  <2> QED BY <1>1, <2>7, TypeOfQuiet
<1>3. CASE Subscribe(s) \/ Leave(s) \/ TimePasses(s)
  <2>1. QueueInv'
    BY <1>1, <1>3
       DEF QueueInv, Subscribe, Leave, TimePasses, histVars
  <2> QED BY <1>1, <2>1, TypeOfQuiet
<1>4. CASE Unsubscribe(s)
  <2>1. stale' = [stale EXCEPT ![s] = 0] /\ 0 \in 0..(StaleLimit - 1)
    BY <1>4, BusAssumption DEF Unsubscribe
  <2>2. stale' \in [Subs -> 0..(StaleLimit - 1)]
    BY <1>1, <2>1 DEF QueueInv
  <2>3. QueueInv'
    BY <1>1, <1>4, <2>2 DEF QueueInv, Unsubscribe, histVars
  <2> QED BY <1>1, <2>3, TypeOfQuiet
<1> QED BY <1>2, <1>3, <1>4 DEF SubscriberStep

LEMMA TypeCleanup ==
  ASSUME TypeInv, CleanupIdle
  PROVE  TypeInv'
<1>1. QueueInv /\ UNCHANGED <<frames, calls, sink>>
  BY TypeInvParts DEF CleanupIdle
<1>2. QueueInv'
  BY <1>1, BusAssumption DEF QueueInv, CleanupIdle, histVars
<1> QED BY <1>1, <1>2, TypeOfQuiet

LEMMA TypeInvInit == Init => TypeInv
<1> SUFFICES ASSUME Init PROVE TypeInv
  OBVIOUS
<1>1. FrameInv
  BY BusAssumption
     DEF Init, FrameInv, FramesOK, StackInv, StackOK
<1>2. QueueInv
  BY BusAssumption DEF Init, QueueInv
<1> QED BY <1>1, <1>2, TypeInvParts

LEMMA TypeInvNextStep == TypeInv /\ [Next]_vars => TypeInv'
<1> SUFFICES ASSUME TypeInv, [Next]_vars PROVE TypeInv'
  OBVIOUS
<1>1. CASE UNCHANGED vars
  <2>1. FrameInv /\ QueueInv
    BY TypeInvParts
  <2>2. FrameInv' /\ QueueInv'
    BY <1>1, <2>1
       DEF vars, histVars, FrameInv, FramesOK, StackInv, QueueInv
  <2> QED BY <2>2, TypeInvNext
<1>2. ASSUME NEW t \in Threads, Publish(t) PROVE TypeInv'
  BY <1>2, TypeOfBegin DEF Publish
<1>3. ASSUME NEW t \in Threads, WriteLog(t) PROVE TypeInv'
  BY <1>3, TypeOfBegin DEF WriteLog
<1> QED
  BY <1>1, <1>2, <1>3, TypeCall, TypeSubscriber, TypeCleanup DEF Next

LEMMA TypeInvAlways == Spec => []TypeInv
BY TypeInvInit, TypeInvNextStep, PTL DEF Spec

\* The fields of the bus and of the calls of publish keep their types; a queue
\* never exceeds its bound; a record logged inside publish comes back through
\* the sink at most once (the sink's lock belongs to the thread exactly while
\* one of its calls came from the sink), so no call is nested deeper than two.
THEOREM BusTypes == Spec => []TypeOK
<1>1. TypeInv => TypeOK
  BY DEF TypeInv
<1> QED BY <1>1, TypeInvAlways, PTL

-----------------------------------------------------------------------------
(* Why a subscriber is evicted.  The count of full queues is behind the truth *)
(* by the calls that have met a full queue and not counted it yet.            *)

Flying(f, s) == f.pc \in AtFull /\ f.sub = s

InFlight(s) ==
    {x \in Threads \X {1, 2} :
        x[2] <= Len(frames[x[1]]) /\ Flying(frames[x[1]][x[2]], s)}

Counted ==
    \A s \in Subs :
        /\ IsFiniteSet(InFlight(s))
        /\ \/ fulls[s] = StaleLimit
           \/ stale[s] + Cardinality(InFlight(s)) <= fulls[s]

\* The subscribers that some call is about to evict.
Doomed ==
    {s \in Subs : \E t \in Threads : \E i \in 1..Len(frames[t]) :
                      s \in frames[t][i].gone}

DoomedForCause == \A s \in Doomed : fulls[s] = StaleLimit

\* Steps that meet no full queue and condemn nobody.
Quiet == Doomed' \subseteq Doomed
         /\ \A s \in Subs : InFlight(s)' \subseteq InFlight(s)

LEMMA CountTypes ==
  ASSUME TypeInv
  PROVE  stale \in [Subs -> Nat] /\ fulls \in [Subs -> 0..StaleLimit]
<1>1. stale \in [Subs -> 0..(StaleLimit - 1)] /\ fulls \in [Subs -> 0..StaleLimit]
  BY DEF TypeInv, TypeOK
<1>2. 0..(StaleLimit - 1) \subseteq Nat
  BY BusAssumption
<1> QED BY <1>1, <1>2

LEMMA QuietSame == UNCHANGED frames => Quiet
BY DEF Quiet, Doomed, InFlight

LEMMA QuietReplaced ==
  ASSUME TypeInv, NEW t \in Threads, Depth(t) > 0, NEW f \in Frame, FramesOK',
         \A u \in Threads \ {t} : frames'[u] = frames[u], Replaced(t, f),
         f.gone \subseteq Top(t).gone,
         f.pc \in AtFull => Top(t).pc \in AtFull /\ f.sub = Top(t).sub
  PROVE  Quiet
<1>1. /\ Depth(t) \in {1, 2} /\ Len(frames'[t]) = Len(frames[t])
      /\ Depth(t) = Len(frames[t]) /\ frames'[t][Depth(t)] = f
      /\ Top(t) = frames[t][Depth(t)]
      /\ \A i \in 1..(Depth(t) - 1) : frames'[t][i] = frames[t][i]
  BY TopFrame DEF Replaced
<1>2. \A i \in 1..Len(frames'[t]) :
         /\ frames'[t][i].gone \subseteq frames[t][i].gone
         /\ \A s \in Subs :
               Flying(frames'[t][i], s) => Flying(frames[t][i], s)
  <2> TAKE i \in 1..Len(frames'[t])
  <2>1. i = Depth(t) \/ i \in 1..(Depth(t) - 1)
    BY <1>1
  <2> QED BY <1>1, <2>1 DEF Flying
<1>3. Doomed' \subseteq Doomed
  BY <1>1, <1>2 DEF Doomed
<1>4. ASSUME NEW s \in Subs PROVE InFlight(s)' \subseteq InFlight(s)
  <2> SUFFICES ASSUME NEW u \in Threads, NEW i \in {1, 2},
                      i <= Len(frames'[u]), Flying(frames'[u][i], s)
               PROVE  i <= Len(frames[u]) /\ Flying(frames[u][i], s)
    BY DEF InFlight
  <2>1. CASE u = t
    BY <1>1, <1>2, <2>1
  <2>2. CASE u # t
    BY <2>2
  <2> QED BY <2>1, <2>2
<1> QED BY <1>3, <1>4 DEF Quiet

LEMMA QuietReturned ==
  ASSUME TypeInv, NEW t \in Threads, Depth(t) > 0, FramesOK',
         \A u \in Threads \ {t} : frames'[u] = frames[u], Returned(t)
  PROVE  Quiet
<1>1. /\ Depth(t) \in {1, 2} /\ Len(frames'[t]) = Len(frames[t]) - 1
      /\ Depth(t) = Len(frames[t])
      /\ \A i \in 1..(Depth(t) - 1) : frames'[t][i] = frames[t][i]
  BY TopFrame DEF Returned
<1>2. Doomed' \subseteq Doomed
  BY <1>1 DEF Doomed
<1>3. ASSUME NEW s \in Subs PROVE InFlight(s)' \subseteq InFlight(s)
  BY <1>1 DEF InFlight
<1> QED BY <1>2, <1>3 DEF Quiet

LEMMA QuietPushed ==
  ASSUME TypeInv, NEW t \in Threads, Depth(t) > 0, FramesOK',
         \A u \in Threads \ {t} : frames'[u] = frames[u],
         NEW pc \in {"count", "evict"}, Pushed(t, pc),
         pc = "count" => Top(t).pc = "warn"
  PROVE  Quiet
<1>1. /\ Depth(t) = 1 /\ Len(frames'[t]) = 2 /\ Len(frames[t]) = 1
      /\ Top(t) = frames[t][1] /\ Top(t) \in Frame
      /\ frames'[t][1] = [Top(t) EXCEPT !.pc = pc]
      /\ frames'[t][2] = Call(<<t, 0>>, TRUE)
  BY TopFrame DEF Pushed
<1>2. /\ frames'[t][1].gone = frames[t][1].gone
      /\ \A s \in Subs : Flying(frames'[t][1], s) => Flying(frames[t][1], s)
  BY <1>1 DEF Frame, Flying, AtFull
<1>3. /\ frames'[t][2].gone = {}
      /\ \A s \in Subs : ~Flying(frames'[t][2], s)
  BY <1>1 DEF Call, Flying, AtFull
<1>4. Doomed' \subseteq Doomed
  <2> SUFFICES ASSUME NEW s \in Subs, NEW u \in Threads,
                      NEW i \in 1..Len(frames'[u]), s \in frames'[u][i].gone
               PROVE  s \in Doomed
    BY DEF Doomed
  <2>1. CASE u = t
    <3>1. i \in 1..2 /\ s \in frames'[t][i].gone
      BY <1>1, <2>1
    <3>2. i = 1 \/ i = 2
      BY <3>1
    <3>3. i = 1
      BY <1>3, <3>1, <3>2
    <3>4. s \in frames[t][1].gone
      BY <1>2, <3>1, <3>3
    <3>5. 1 \in 1..Len(frames[t])
      BY <1>1
    <3> QED BY <3>4, <3>5 DEF Doomed
  <2>2. CASE u # t
    BY <2>2 DEF Doomed
  <2> QED BY <2>1, <2>2
<1>5. ASSUME NEW s \in Subs PROVE InFlight(s)' \subseteq InFlight(s)
  <2> SUFFICES ASSUME NEW u \in Threads, NEW i \in {1, 2},
                      i <= Len(frames'[u]), Flying(frames'[u][i], s)
               PROVE  i <= Len(frames[u]) /\ Flying(frames[u][i], s)
    BY DEF InFlight
  <2>1. CASE u = t
    <3>1. i = 1 \/ i = 2
      OBVIOUS
    <3>2. Flying(frames'[t][i], s)
      BY <2>1
    <3>3. i = 1
      BY <1>3, <3>1, <3>2
    <3> QED BY <1>1, <1>2, <2>1, <3>2, <3>3
  <2>2. CASE u # t
    BY <2>2
  <2> QED BY <2>1, <2>2
<1> QED BY <1>4, <1>5 DEF Quiet

LEMMA QuietBegin ==
  ASSUME TypeInv, NEW t \in Threads, NEW log \in BOOLEAN, Begin(t, log)
  PROVE  Quiet
<1> DEFINE f == Call(<<t, calls[t] + 1>>, log)
<1>1. frames \in [Threads -> Seq(Frame)] /\ calls \in [Threads -> 0..MaxCalls]
  BY DEF TypeInv, TypeOK
<1>2. frames' = [frames EXCEPT ![t] = <<f>>]
  BY <1>1 DEF Begin
<1>3. f.gone = {} /\ \A s \in Subs : ~Flying(f, s)
  BY DEF Call, Flying, AtFull
<1> HIDE DEF f
<1>4. /\ frames'[t] = <<f>> /\ Len(frames'[t]) = 1 /\ frames'[t][1] = f
      /\ \A u \in Threads \ {t} : frames'[u] = frames[u]
  BY <1>1, <1>2
<1>5. Doomed' \subseteq Doomed
  <2> SUFFICES ASSUME NEW s \in Subs, NEW u \in Threads,
                      NEW i \in 1..Len(frames'[u]), s \in frames'[u][i].gone
               PROVE  s \in Doomed
    BY DEF Doomed
  <2> QED BY <1>3, <1>4 DEF Doomed
<1>6. ASSUME NEW s \in Subs PROVE InFlight(s)' \subseteq InFlight(s)
  <2> SUFFICES ASSUME NEW u \in Threads, NEW i \in {1, 2},
                      i <= Len(frames'[u]), Flying(frames'[u][i], s)
               PROVE  i <= Len(frames[u]) /\ Flying(frames[u][i], s)
    BY DEF InFlight
  <2> QED BY <1>3, <1>4
<1> QED BY <1>5, <1>6 DEF Quiet

LEMMA CauseOfQuiet ==
  ASSUME TypeInv, Counted, DoomedForCause, Quiet,
         stale' \in [Subs -> Nat], \A s \in Subs : stale'[s] <= stale[s],
         UNCHANGED fulls
  PROVE  Counted' /\ DoomedForCause'
<1>1. ASSUME NEW s \in Subs
      PROVE  /\ IsFiniteSet(InFlight(s)')
             /\ \/ fulls'[s] = StaleLimit
                \/ stale'[s] + Cardinality(InFlight(s)') <= fulls'[s]
  <2>1. InFlight(s)' \subseteq InFlight(s) /\ IsFiniteSet(InFlight(s))
    BY DEF Quiet, Counted
  <2>2. /\ IsFiniteSet(InFlight(s)')
        /\ Cardinality(InFlight(s)') <= Cardinality(InFlight(s))
        /\ Cardinality(InFlight(s)) \in Nat /\ Cardinality(InFlight(s)') \in Nat
    BY <2>1, FS_Subset, FS_CardinalityType
  <2>3. stale[s] \in Nat /\ stale'[s] \in Nat /\ fulls[s] \in Nat
    BY BusAssumption DEF TypeInv, TypeOK
  <2> QED BY <2>2, <2>3 DEF Counted
<1>2. DoomedForCause'
  BY DEF DoomedForCause, Quiet
<1> QED BY <1>1, <1>2 DEF Counted
LEMMA QuietPlain ==
  ASSUME TypeInv, NEW t \in Threads, Depth(t) > 0,
         NEW pc \in {"put", "evict", "listeners"}, Goto(t, pc), UNCHANGED sink
  PROVE  Quiet
<1> DEFINE f == [Top(t) EXCEPT !.pc = pc]
<1>1. Top(t) \in Frame
  BY TopFrame
<1>2. f \in Frame /\ f.gone = Top(t).gone /\ f.pc \notin AtFull
  BY <1>1 DEF Frame, AtFull
<1>3. Become(t, f)
  BY DEF Goto
<1> HIDE DEF f
<1> QED BY <1>2, <1>3, ReplaceFrames, QuietReplaced

\* The steps between meeting a full queue and counting it.
LEMMA QuietAtFull ==
  ASSUME TypeInv, NEW t \in Threads, Depth(t) > 0, Top(t).pc \in AtFull,
         NEW pc \in AtFull, Goto(t, pc), UNCHANGED sink
  PROVE  Quiet
<1> DEFINE f == [Top(t) EXCEPT !.pc = pc]
<1>1. Top(t) \in Frame
  BY TopFrame
<1>2. f \in Frame /\ f.gone = Top(t).gone /\ f.sub = Top(t).sub
  BY <1>1 DEF Frame, AtFull
<1>3. Become(t, f)
  BY DEF Goto
<1> HIDE DEF f
<1> QED BY <1>2, <1>3, ReplaceFrames, QuietReplaced

LEMMA QuietLog ==
  ASSUME TypeInv, NEW t \in Threads, Depth(t) > 0,
         NEW pc \in {"count", "evict"}, LogThenGoto(t, pc),
         pc = "count" => Top(t).pc = "warn"
  PROVE  Quiet
<1>1. /\ FramesOK' /\ \A u \in Threads \ {t} : frames'[u] = frames[u]
      /\ Replaced(t, [Top(t) EXCEPT !.pc = pc]) \/ Pushed(t, pc)
  BY LogFrames
<1>2. CASE Replaced(t, [Top(t) EXCEPT !.pc = pc])
  <2> DEFINE f == [Top(t) EXCEPT !.pc = pc]
  <2>1. Top(t) \in Frame
    BY TopFrame
  <2>2. /\ f \in Frame /\ f.gone = Top(t).gone /\ f.sub = Top(t).sub
        /\ f.pc \in AtFull => Top(t).pc \in AtFull
    BY <2>1 DEF Frame, AtFull
  <2>3. Replaced(t, f)
    BY <1>2
  <2> HIDE DEF f
  <2> QED BY <1>1, <2>2, <2>3, QuietReplaced
<1>3. CASE Pushed(t, pc)
  BY <1>1, <1>3, QuietPushed
<1> QED BY <1>1, <1>2, <1>3

CauseInv == Counted /\ DoomedForCause

\* The quiet steps.
LEMMA CauseCalm ==
  ASSUME TypeInv, CauseInv, NEW t \in Threads,
         \/ Snapshot(t) \/ Drop(t) \/ Reput(t) \/ Warn(t) \/ EndLoop(t)
         \/ LogEviction(t) \/ ReleaseLock(t) \/ CallListeners(t)
  PROVE  CauseInv'
<1>1. UNCHANGED <<stale, fulls>>
  BY DEF Snapshot, Drop, Reput, Warn, EndLoop, LogEviction, ReleaseLock,
         CallListeners, histVars
<1>2. stale \in [Subs -> Nat]
  BY CountTypes
<1>3. \A s \in Subs : stale'[s] <= stale[s]
  BY <1>1, <1>2
<1>4. Quiet
  <2>1. CASE Snapshot(t)
    <3> DEFINE f == [Top(t) EXCEPT !.pc = "put", !.todo = live]
    <3>1. Depth(t) > 0 /\ Top(t) \in Frame /\ QueueInv
      BY <2>1, InCall DEF Snapshot
    <3>2. f \in Frame /\ f.gone = Top(t).gone /\ f.pc \notin AtFull
      BY <3>1 DEF Frame, AtFull, QueueInv
    <3>3. Become(t, f) /\ UNCHANGED sink
      BY <2>1 DEF Snapshot
    <3> HIDE DEF f
    <3> QED BY <3>1, <3>2, <3>3, ReplaceFrames, QuietReplaced
  <2>2. CASE Drop(t)
    BY <2>2, InCall, QuietAtFull DEF Drop, AtFull
  <2>3. CASE Reput(t)
    <3>1. Depth(t) > 0 /\ Top(t).pc = "reput"
      BY <2>3, InCall DEF Reput
    <3>2. (Goto(t, "warn") /\ UNCHANGED sink) \/ Return(t)
      BY <2>3 DEF Reput
    <3> QED BY <3>1, <3>2, QuietAtFull, ReturnFrames, QuietReturned DEF AtFull
  <2>4. CASE Warn(t)
    BY <2>4, InCall, QuietLog DEF Warn
  <2>5. CASE EndLoop(t)
    BY <2>5, InCall, QuietPlain DEF EndLoop
  <2>6. CASE LogEviction(t)
    BY <2>6, InCall, QuietLog DEF LogEviction
  <2>7. CASE ReleaseLock(t)
    BY <2>7, InCall, QuietPlain DEF ReleaseLock
  <2>8. CASE CallListeners(t)
    BY <2>8, InCall, ReturnFrames, QuietReturned DEF CallListeners
  <2> QED BY <2>1, <2>2, <2>3, <2>4, <2>5, <2>6, <2>7, <2>8
<1> QED BY <1>1, <1>2, <1>3, <1>4, CauseOfQuiet DEF CauseInv

LEMMA CauseReset ==
  ASSUME TypeInv, CauseInv, NEW t \in Threads, Reset(t)
  PROVE  CauseInv'
<1>1. /\ Depth(t) > 0 /\ Top(t).sub \in Subs /\ Goto(t, "put")
      /\ UNCHANGED <<sink, fulls>> /\ stale' = [stale EXCEPT ![Top(t).sub] = 0]
  BY InCall DEF Reset, histVars
<1>2. stale \in [Subs -> Nat]
  BY CountTypes
<1>3. stale' \in [Subs -> Nat] /\ \A s \in Subs : stale'[s] <= stale[s]
  BY <1>1, <1>2
<1>4. Quiet
  BY <1>1, QuietPlain
<1> QED BY <1>1, <1>3, <1>4, CauseOfQuiet DEF CauseInv

LEMMA CauseEvict ==
  ASSUME TypeInv, CauseInv, NEW t \in Threads, NEW s \in Subs, Evict(t, s)
  PROVE  CauseInv'
<1> DEFINE f == [Top(t) EXCEPT !.pc = "evicted", !.gone = Top(t).gone \ {s}]
<1>1. Depth(t) > 0 /\ Top(t) \in Frame /\ Top(t).gone \in SUBSET Subs
  BY InCall DEF Evict
<1>2. /\ Become(t, f) /\ UNCHANGED <<sink, fulls>>
      /\ stale' = [stale EXCEPT ![s] = 0]
  BY DEF Evict, histVars
<1>3. stale \in [Subs -> Nat]
  BY CountTypes
<1>4. stale' \in [Subs -> Nat] /\ \A x \in Subs : stale'[x] <= stale[x]
  BY <1>2, <1>3
<1>5. f \in Frame /\ f.gone \subseteq Top(t).gone /\ f.pc \notin AtFull
  BY <1>1 DEF Frame, AtFull
<1> HIDE DEF f
<1>6. Quiet
  BY <1>1, <1>2, <1>5, ReplaceFrames, QuietReplaced
<1> QED BY <1>2, <1>4, <1>6, CauseOfQuiet DEF CauseInv

LEMMA OneMore ==
  ASSUME NEW S, NEW x, NEW T, IsFiniteSet(S), T \subseteq S \cup {x}
  PROVE  /\ IsFiniteSet(T) /\ Cardinality(T) \in Nat
         /\ Cardinality(T) <= Cardinality(S) + 1
<1>1. /\ IsFiniteSet(S \cup {x})
      /\ Cardinality(S \cup {x}) =
            IF x \in S THEN Cardinality(S) ELSE Cardinality(S) + 1
  BY FS_AddElement
<1>2. IsFiniteSet(T) /\ Cardinality(T) <= Cardinality(S \cup {x})
  BY <1>1, FS_Subset
<1>3. Cardinality(S) \in Nat /\ Cardinality(T) \in Nat
      /\ Cardinality(S \cup {x}) \in Nat
  BY <1>1, <1>2, FS_CardinalityType
<1> QED BY <1>1, <1>2, <1>3

LEMMA OneLess ==
  ASSUME NEW S, NEW x \in S, NEW T, IsFiniteSet(S), T \subseteq S \ {x}
  PROVE  /\ IsFiniteSet(T) /\ Cardinality(T) \in Nat
         /\ Cardinality(S) \in Nat /\ Cardinality(T) + 1 <= Cardinality(S)
<1>1. IsFiniteSet(S \ {x}) /\ Cardinality(S \ {x}) = Cardinality(S) - 1
  BY FS_RemoveElement
<1>2. IsFiniteSet(T) /\ Cardinality(T) <= Cardinality(S \ {x})
  BY <1>1, FS_Subset
<1>3. Cardinality(S) \in Nat /\ Cardinality(T) \in Nat
  BY <1>2, FS_CardinalityType
<1> QED BY <1>1, <1>2, <1>3

LEMMA InFlightNext ==
  \A s \in Subs : \A z \in InFlight(s)' :
     \E u \in Threads, i \in {1, 2} :
        /\ z = <<u, i>> /\ i <= Len(frames'[u])
        /\ Flying(frames'[u][i], s)
BY DEF InFlight

\* A full queue: the truth advances, and one more call has to count it.
LEMMA CausePut ==
  ASSUME TypeInv, CauseInv, NEW t \in Threads, NEW s \in Subs, Put(t, s)
  PROVE  CauseInv'
<1> DEFINE full == Len(q[s]) = MaxSize
           f == [Top(t) EXCEPT !.pc = IF full THEN "drop" ELSE "reset",
                               !.todo = Top(t).todo \ {s}, !.sub = s]
<1>1. /\ Depth(t) > 0 /\ Top(t) \in Frame /\ Top(t).todo \in SUBSET Subs
      /\ Top(t).pc = "put"
  BY InCall DEF Put
<1>2. Become(t, f) /\ UNCHANGED <<sink, stale>>
  BY DEF Put
<1>3. f \in Frame /\ f.gone = Top(t).gone /\ f.sub = s
  BY <1>1 DEF Frame
<1>4. stale \in [Subs -> Nat] /\ fulls \in [Subs -> 0..StaleLimit]
  BY CountTypes
<1>5. CASE ~full
  <2>1. f.pc = "reset" /\ UNCHANGED fulls
    BY <1>1, <1>5 DEF Put, Frame
  <2> HIDE DEF f
  <2>2. Quiet
    BY <1>1, <1>2, <1>3, <2>1, ReplaceFrames, QuietReplaced DEF AtFull
  <2>3. \A x \in Subs : stale'[x] <= stale[x]
    BY <1>2, <1>4
  <2> QED BY <1>2, <1>4, <2>1, <2>2, <2>3, CauseOfQuiet DEF CauseInv
<1>6. CASE full
  <2>1. fulls' = [fulls EXCEPT ![s] = Saturate(fulls[s])]
    BY <1>6 DEF Put
  <2> HIDE DEF f, full
  <2>2. /\ FramesOK' /\ \A u \in Threads \ {t} : frames'[u] = frames[u]
        /\ Replaced(t, f)
    BY <1>1, <1>2, <1>3, ReplaceFrames
  <2>3. /\ Depth(t) \in {1, 2} /\ Len(frames'[t]) = Len(frames[t])
        /\ Depth(t) = Len(frames[t]) /\ frames'[t][Depth(t)] = f
        /\ Top(t) = frames[t][Depth(t)]
        /\ \A i \in 1..(Depth(t) - 1) : frames'[t][i] = frames[t][i]
    BY <1>1, <2>2, TopFrame DEF Replaced
  <2> DEFINE x == <<t, Depth(t)>>
  <2>4. ASSUME NEW y \in Subs
        PROVE  \A z \in InFlight(y)' : z \in InFlight(y) \/ (y = s /\ z = x)
    <3> HIDE DEF x
    <3> TAKE z \in InFlight(y)'
    <3>0. PICK u \in Threads, i \in {1, 2} :
             /\ z = <<u, i>> /\ i <= Len(frames'[u])
             /\ Flying(frames'[u][i], y)
      BY InFlightNext
    <3>1. CASE u = t /\ i = Depth(t)
      BY <1>3, <2>3, <3>0, <3>1 DEF Flying, x
    <3>2. CASE u = t /\ i # Depth(t)
      <4>1. i \in 1..(Depth(t) - 1)
        BY <2>3, <3>0, <3>2
      <4> QED BY <2>3, <3>0, <3>2, <4>1 DEF InFlight
    <3>3. CASE u # t
      BY <2>2, <3>0, <3>3 DEF InFlight
    <3> QED BY <3>1, <3>2, <3>3
  <2>5. ASSUME NEW y \in Subs
        PROVE  /\ IsFiniteSet(InFlight(y)')
               /\ \/ fulls'[y] = StaleLimit
                  \/ stale'[y] + Cardinality(InFlight(y)') <= fulls'[y]
    <3>1. IsFiniteSet(InFlight(y)) /\ Cardinality(InFlight(y)) \in Nat
      BY FS_CardinalityType DEF CauseInv, Counted
    <3>2. CASE y # s
      <4>1. InFlight(y)' \subseteq InFlight(y)
        BY <2>4, <3>2
      <4>2. /\ IsFiniteSet(InFlight(y)') /\ Cardinality(InFlight(y)') \in Nat
            /\ Cardinality(InFlight(y)') <= Cardinality(InFlight(y))
        BY <3>1, <4>1, FS_Subset, FS_CardinalityType
      <4>3. fulls'[y] = fulls[y] /\ stale'[y] = stale[y]
        BY <1>2, <1>4, <2>1, <3>2
      <4>4. \/ fulls[y] = StaleLimit
            \/ stale[y] + Cardinality(InFlight(y)) <= fulls[y]
        BY DEF CauseInv, Counted
      <4> QED BY <1>4, <3>1, <4>2, <4>3, <4>4, BusAssumption
    <3>3. CASE y = s
      <4>1. InFlight(y)' \subseteq InFlight(y) \cup {x}
        BY <2>4, <3>3
      <4>2. /\ IsFiniteSet(InFlight(y)') /\ Cardinality(InFlight(y)') \in Nat
            /\ Cardinality(InFlight(y)') <= Cardinality(InFlight(y)) + 1
        BY <3>1, <4>1, OneMore
      <4>4. fulls'[y] = Saturate(fulls[y]) /\ stale'[y] = stale[y]
        BY <1>2, <1>4, <2>1, <3>3
      <4>5. \/ fulls[y] = StaleLimit
            \/ stale[y] + Cardinality(InFlight(y)) <= fulls[y]
        BY DEF CauseInv, Counted
      <4> QED
        BY <1>4, <3>1, <4>2, <4>4, <4>5, BusAssumption DEF Saturate
    <3> QED BY <3>2, <3>3
  <2>6. Doomed' \subseteq Doomed
    <3> SUFFICES ASSUME NEW y \in Subs, NEW u \in Threads,
                        NEW i \in 1..Len(frames'[u]), y \in frames'[u][i].gone
                 PROVE  y \in Doomed
      BY DEF Doomed
    <3>1. CASE u = t /\ i = Depth(t)
      BY <1>3, <2>3, <3>1 DEF Doomed
    <3>2. CASE u = t /\ i # Depth(t)
      <4>1. i \in 1..(Depth(t) - 1)
        BY <2>3, <3>2
      <4> QED BY <2>3, <3>2, <4>1 DEF Doomed
    <3>3. CASE u # t
      BY <2>2, <3>3 DEF Doomed
    <3> QED BY <3>1, <3>2, <3>3
  <2>7. DoomedForCause'
    <3>1. ASSUME NEW y \in Subs, fulls[y] = StaleLimit
          PROVE  fulls'[y] = StaleLimit
      BY <1>4, <2>1, <3>1, BusAssumption DEF Saturate
    <3>2. Doomed \subseteq Subs
      BY DEF Doomed
    <3> QED BY <2>6, <3>1, <3>2 DEF CauseInv, DoomedForCause
  <2> QED BY <2>5, <2>7 DEF CauseInv, Counted
<1> QED BY <1>5, <1>6

\* Counting: the count catches up by one, or the subscriber is condemned with
\* as many full queues as it takes.
LEMMA CauseCount ==
  ASSUME TypeInv, CauseInv, NEW t \in Threads, Count(t)
  PROVE  CauseInv'
<1> DEFINE s == Top(t).sub
           out == stale[s] + 1 >= StaleLimit
           f == IF out
                THEN [Top(t) EXCEPT !.pc = "put", !.gone = Top(t).gone \cup {s}]
                ELSE [Top(t) EXCEPT !.pc = "put"]
           x == <<t, Depth(t)>>
<1>1. /\ Depth(t) > 0 /\ Top(t) \in Frame /\ Top(t).gone \in SUBSET Subs
      /\ Top(t).pc = "count" /\ s \in Subs
  BY InCall DEF Count, AtFull
<1>2. /\ Become(t, f) /\ UNCHANGED <<sink, fulls>>
      /\ stale' = IF out THEN stale ELSE [stale EXCEPT ![s] = stale[s] + 1]
  BY DEF Count, Goto, histVars
<1>3. /\ f \in Frame /\ f.pc = "put"
      /\ f.gone = IF out THEN Top(t).gone \cup {s} ELSE Top(t).gone
  BY <1>1 DEF Frame
<1>4. stale \in [Subs -> Nat] /\ fulls \in [Subs -> 0..StaleLimit]
  BY CountTypes
<1>5. \A y \in Subs : /\ IsFiniteSet(InFlight(y))
                      /\ \/ fulls[y] = StaleLimit
                         \/ stale[y] + Cardinality(InFlight(y)) <= fulls[y]
  BY DEF CauseInv, Counted
<1> HIDE DEF f
<1>6. /\ FramesOK' /\ \A u \in Threads \ {t} : frames'[u] = frames[u]
      /\ Replaced(t, f)
  BY <1>1, <1>2, <1>3, ReplaceFrames
<1>7. /\ Depth(t) \in {1, 2} /\ Len(frames'[t]) = Len(frames[t])
      /\ Depth(t) = Len(frames[t]) /\ frames'[t][Depth(t)] = f
      /\ Top(t) = frames[t][Depth(t)]
      /\ \A i \in 1..(Depth(t) - 1) : frames'[t][i] = frames[t][i]
  BY <1>1, <1>6, TopFrame DEF Replaced
<1>8. x \in InFlight(s)
  BY <1>1, <1>7 DEF InFlight, Flying, AtFull
<1> HIDE DEF x
<1>9. ASSUME NEW y \in Subs
      PROVE  \A z \in InFlight(y)' : z \in InFlight(y) /\ z # x
  <2> TAKE z \in InFlight(y)'
  <2>0. PICK u \in Threads, i \in {1, 2} :
           /\ z = <<u, i>> /\ i <= Len(frames'[u])
           /\ Flying(frames'[u][i], y)
    BY InFlightNext
  <2>1. CASE u = t /\ i = Depth(t)
    BY <1>3, <1>7, <2>0, <2>1 DEF Flying, AtFull
  <2>2. CASE u = t /\ i # Depth(t)
    <3>1. i \in 1..(Depth(t) - 1)
      BY <1>7, <2>0, <2>2
    <3> QED BY <1>7, <2>0, <2>2, <3>1 DEF InFlight, x
  <2>3. CASE u # t
    BY <1>6, <2>0, <2>3 DEF InFlight, x
  <2> QED BY <2>1, <2>2, <2>3
<1>10. Cardinality(InFlight(s)) \in Nat /\ Cardinality(InFlight(s)) >= 1
  <2>1. InFlight(s) # {} /\ IsFiniteSet(InFlight(s))
    BY <1>1, <1>5, <1>8
  <2>2. Cardinality(InFlight(s)) \in Nat /\ Cardinality(InFlight(s)) # 0
    BY <2>1, FS_EmptySet, FS_CardinalityType
  <2> QED BY <2>2
<1>11. ASSUME NEW y \in Subs
       PROVE  /\ IsFiniteSet(InFlight(y)')
              /\ \/ fulls'[y] = StaleLimit
                 \/ stale'[y] + Cardinality(InFlight(y)') <= fulls'[y]
  <2>1. /\ IsFiniteSet(InFlight(y)')
        /\ Cardinality(InFlight(y)') \in Nat /\ Cardinality(InFlight(y)) \in Nat
        /\ Cardinality(InFlight(y)') <= Cardinality(InFlight(y))
    <3>1. InFlight(y)' \subseteq InFlight(y)
      BY <1>9
    <3> QED BY <1>5, <3>1, FS_Subset, FS_CardinalityType
  <2>2. y = s => Cardinality(InFlight(y)') + 1 <= Cardinality(InFlight(y))
    <3> SUFFICES ASSUME y = s
                 PROVE  Cardinality(InFlight(y)') + 1 <= Cardinality(InFlight(y))
      OBVIOUS
    <3>1. InFlight(y)' \subseteq InFlight(y) \ {x} /\ x \in InFlight(y)
      BY <1>8, <1>9
    <3> QED BY <1>5, <3>1, OneLess
  <2>3. /\ fulls'[y] = fulls[y]
        /\ y # s => stale'[y] = stale[y]
        /\ y = s => stale'[y] <= stale[y] + 1
        /\ stale'[y] \in Nat
    BY <1>1, <1>2, <1>4
  <2> HIDE DEF s, out
  <2> QED BY <1>4, <1>5, <2>1, <2>2, <2>3, BusAssumption
<1>12. out => fulls[s] = StaleLimit
  <2>1. \/ fulls[s] = StaleLimit
        \/ stale[s] + Cardinality(InFlight(s)) <= fulls[s]
    BY <1>1, <1>5
  <2> HIDE DEF s
  <2> QED BY <1>1, <1>4, <1>10, <2>1, BusAssumption
<1>13. Doomed' \subseteq IF out THEN Doomed \cup {s} ELSE Doomed
  <2> HIDE DEF s, out
  <2> SUFFICES ASSUME NEW y \in Subs, NEW u \in Threads,
                      NEW i \in 1..Len(frames'[u]), y \in frames'[u][i].gone
               PROVE  y \in Doomed \/ (out /\ y = s)
    BY DEF Doomed
  <2>1. CASE u = t /\ i = Depth(t)
    BY <1>3, <1>7, <2>1 DEF Doomed
  <2>2. CASE u = t /\ i # Depth(t)
    <3>1. i \in 1..(Depth(t) - 1)
      BY <1>7, <2>2
    <3> QED BY <1>7, <2>2, <3>1 DEF Doomed
  <2>3. CASE u # t
    BY <1>6, <2>3 DEF Doomed
  <2> QED BY <2>1, <2>2, <2>3
<1>14. DoomedForCause'
  <2> HIDE DEF s, out
  <2> QED BY <1>2, <1>12, <1>13 DEF CauseInv, DoomedForCause
<1> QED BY <1>11, <1>14 DEF CauseInv, Counted

LEMMA CauseOthers ==
  ASSUME TypeInv, CauseInv,
         \/ \E t \in Threads : Publish(t) \/ WriteLog(t)
         \/ \E s \in Subs : SubscriberStep(s) \/ TimePasses(s)
         \/ CleanupIdle
         \/ UNCHANGED vars
  PROVE  CauseInv'
<1>1. stale \in [Subs -> Nat]
  BY CountTypes
<1>2. CASE \E t \in Threads : Publish(t) \/ WriteLog(t)
  <2>1. Quiet
    BY <1>2, QuietBegin DEF Publish, WriteLog
  <2>2. UNCHANGED <<stale, fulls>>
    BY <1>2 DEF Publish, WriteLog, Begin, histVars
  <2>3. \A s \in Subs : stale'[s] <= stale[s]
    BY <1>1, <2>2
  <2> QED BY <1>1, <2>1, <2>2, <2>3, CauseOfQuiet DEF CauseInv
<1>3. CASE \/ \E s \in Subs : SubscriberStep(s) \/ TimePasses(s)
           \/ CleanupIdle
           \/ UNCHANGED vars
  <2>1. UNCHANGED <<frames, fulls>>
    BY <1>3 DEF SubscriberStep, Subscribe, Receive, Leave, Unsubscribe,
                TimePasses, CleanupIdle, vars, histVars
  <2>2. \/ UNCHANGED stale
        \/ \E s \in Subs : stale' = [stale EXCEPT ![s] = 0]
        \/ stale' = [s \in Subs |-> IF s \in live \ live' THEN 0 ELSE stale[s]]
    BY <1>3 DEF SubscriberStep, Subscribe, Receive, Leave, Unsubscribe,
                TimePasses, CleanupIdle, vars, histVars
  <2>3. stale' \in [Subs -> Nat] /\ \A s \in Subs : stale'[s] <= stale[s]
    BY <1>1, <2>2
  <2> QED BY <2>1, <2>3, QuietSame, CauseOfQuiet DEF CauseInv
<1> QED BY <1>2, <1>3

LEMMA CauseInvInit == Init => CauseInv
<1> SUFFICES ASSUME Init PROVE CauseInv
  OBVIOUS
<1>1. ASSUME NEW s \in Subs PROVE InFlight(s) = {}
  BY DEF Init, InFlight
<1>2. Counted
  BY <1>1, FS_EmptySet DEF Init, Counted
<1>3. DoomedForCause
  BY DEF Init, DoomedForCause, Doomed
<1> QED BY <1>2, <1>3 DEF CauseInv

LEMMA CauseInvNext == TypeInv /\ CauseInv /\ [Next]_vars => CauseInv'
<1> SUFFICES ASSUME TypeInv, CauseInv, [Next]_vars PROVE CauseInv'
  OBVIOUS
<1>1. ASSUME NEW t \in Threads, CallStep(t) PROVE CauseInv'
  BY <1>1, CauseCalm, CausePut, CauseCount, CauseReset, CauseEvict DEF CallStep
<1> QED BY <1>1, CauseOthers DEF Next

\* A queue that was found full often enough stays that.
LEMMA FullForEver ==
  ASSUME TypeInv, [Next]_vars, NEW s \in Subs, fulls[s] = StaleLimit
  PROVE  fulls'[s] = StaleLimit
<1>1. \/ UNCHANGED fulls
      \/ \E x \in Subs : fulls' = [fulls EXCEPT ![x] = Saturate(fulls[x])]
  <2>1. ASSUME NEW t \in Threads, CallStep(t)
        PROVE  \/ UNCHANGED fulls
               \/ \E x \in Subs :
                     fulls' = [fulls EXCEPT ![x] = Saturate(fulls[x])]
    BY <2>1 DEF CallStep, Snapshot, Put, Evict, Drop, Reput, Warn, Count, Reset,
                EndLoop, LogEviction, ReleaseLock, CallListeners, histVars
  <2> QED
    BY <2>1 DEF Next, vars, histVars, Publish, WriteLog, Begin, SubscriberStep,
                Subscribe, Receive, Leave, Unsubscribe, TimePasses, CleanupIdle
<1>2. fulls \in [Subs -> 0..StaleLimit]
  BY DEF TypeInv, TypeOK
<1> QED BY <1>1, <1>2, BusAssumption DEF Saturate

LEMMA EvictedNext ==
  TypeInv /\ CauseInv /\ EvictedForCause /\ [Next]_vars => EvictedForCause'
<1> SUFFICES ASSUME TypeInv, CauseInv, EvictedForCause, [Next]_vars,
                    NEW s \in Subs, conn'[s] = "open", s \notin live'
             PROVE  fulls'[s] = StaleLimit \/ since'[s]
  BY DEF EvictedForCause
<1>0. /\ conn \in [Subs -> {"none", "open", "leaving", "closed"}]
      /\ since \in [Subs -> BOOLEAN]
  BY DEF TypeInv, TypeOK
<1>1. CASE UNCHANGED <<live, conn>>
  <2>1. fulls[s] = StaleLimit \/ since[s]
    BY <1>1 DEF EvictedForCause
  <2>2. since[s] => since'[s]
    <3>1. ASSUME NEW t \in Threads, CallStep(t) PROVE UNCHANGED since
      BY <3>1 DEF CallStep, Snapshot, Put, Evict, Drop, Reput, Warn, Count,
                  Reset, EndLoop, LogEviction, ReleaseLock, CallListeners
    <3>2. \/ UNCHANGED since
          \/ \E x \in Subs : since' = [since EXCEPT ![x] = TRUE]
      BY <3>1
         DEF Next, vars, Publish, WriteLog, Begin, SubscriberStep, Subscribe,
             Receive, Leave, Unsubscribe, TimePasses, CleanupIdle
    <3> QED BY <1>0, <3>2
  <2> QED BY <2>1, <2>2, FullForEver
<1>2. ASSUME NEW t \in Threads, NEW x \in Subs, Evict(t, x)
      PROVE  fulls'[s] = StaleLimit \/ since'[s]
  <2>1. live' = live \ {x} /\ UNCHANGED <<conn, since, fulls>>
    BY <1>2 DEF Evict, histVars
  <2>2. CASE s \notin live
    BY <2>1, <2>2 DEF EvictedForCause
  <2>3. CASE s \in live
    <3>1. x = s /\ s \in Top(t).gone /\ Depth(t) > 0
      BY <1>2, <2>1, <2>3 DEF Evict, At
    <3>2. Depth(t) \in 1..Len(frames[t]) /\ Top(t) = frames[t][Depth(t)]
      BY <3>1, TopFrame
    <3>3. s \in Doomed
      BY <3>1, <3>2 DEF Doomed
    <3> QED BY <2>1, <3>3 DEF CauseInv, DoomedForCause
  <2> QED BY <2>2, <2>3
<1>3. ASSUME NEW x \in Subs, Subscribe(x) \/ Leave(x) \/ Unsubscribe(x)
      PROVE  fulls'[s] = StaleLimit \/ since'[s]
  <2>1. UNCHANGED <<since, fulls>>
    BY <1>3 DEF Subscribe, Leave, Unsubscribe, histVars
  <2>2. conn[s] = "open" /\ s \notin live
    BY <1>0, <1>3 DEF Subscribe, Leave, Unsubscribe
  <2> QED BY <2>1, <2>2 DEF EvictedForCause
<1>4. ASSUME CleanupIdle
      PROVE  fulls'[s] = StaleLimit \/ since'[s]
  BY <1>4 DEF CleanupIdle, EvictedForCause, histVars
<1>5. ASSUME NEW t \in Threads, CallStep(t), ~UNCHANGED <<live, conn>>
      PROVE  \E x \in Subs : Evict(t, x)
  BY <1>5 DEF CallStep, Snapshot, Put, Drop, Reput, Warn, Count, Reset, EndLoop,
              LogEviction, ReleaseLock, CallListeners
<1>6. CASE ~UNCHANGED <<live, conn>>
  <2>1. ASSUME NEW t \in Threads, Publish(t) \/ WriteLog(t)
        PROVE  UNCHANGED <<live, conn>>
    BY <2>1 DEF Publish, WriteLog, Begin
  <2>2. ASSUME NEW x \in Subs, Receive(x) \/ TimePasses(x)
        PROVE  UNCHANGED <<live, conn>>
    BY <2>2 DEF Receive, TimePasses
  <2>3. ~UNCHANGED vars
    BY <1>6 DEF vars
  <2> QED
    BY <1>2, <1>3, <1>4, <1>5, <1>6, <2>1, <2>2, <2>3 DEF Next, SubscriberStep
<1> QED BY <1>1, <1>6

\* A client that stays is never dropped by mistake: the count _STALE_LIMIT is
\* compared with is kept outside the queue and under another lock, several
\* threads may have met the same full queue and not counted it yet, and one may
\* reset it in between; still it never exceeds the full queues there really
\* were, and only who had _STALE_LIMIT of them is removed by publish.
THEOREM EvictionJustified == Spec => []EvictedForCause
<1>1. Init => EvictedForCause
  BY DEF Init, EvictedForCause
<1> QED BY <1>1, TypeInvAlways, CauseInvInit, CauseInvNext, EvictedNext, PTL
        DEF Spec

-----------------------------------------------------------------------------
(* The order of the events in a queue w, of which a client has seen v.       *)

Sorted(w, v) ==
    \A i \in 1..Len(w) :
        w[i][2] > 0 =>
           /\ w[i][2] > v[w[i][1]]
           /\ \A k \in 1..(i - 1) : w[k][1] = w[i][1] => w[k][2] < w[i][2]

\* All events of thread t in w are older than its call n.
Below(w, t, n) == \A i \in 1..Len(w) : w[i][1] = t => w[i][2] < n

\* No event in w is younger than the last call c[t] of its thread t.
Made(w, c) == \A i \in 1..Len(w) : w[i][2] <= c[w[i][1]]

LEMMA TailItems ==
  ASSUME NEW w \in Seq(Events), w # <<>>
  PROVE  /\ Len(w) \in Nat /\ Len(w) >= 1 /\ Tail(w) \in Seq(Events)
         /\ Len(Tail(w)) = Len(w) - 1 /\ Head(w) = w[1]
         /\ \A i \in 1..Len(Tail(w)) :
               i + 1 \in 1..Len(w) /\ Tail(w)[i] = w[i + 1]
OBVIOUS

LEMMA AppendItems ==
  ASSUME NEW w \in Seq(Events), NEW e \in Events
  PROVE  /\ Len(w) \in Nat /\ Append(w, e) \in Seq(Events)
         /\ Len(Append(w, e)) = Len(w) + 1
         /\ Append(w, e)[Len(w) + 1] = e
         /\ \A i \in 1..Len(w) : Append(w, e)[i] = w[i]
OBVIOUS

LEMMA EventIs ==
  ASSUME NEW e \in Events
  PROVE  e[1] \in Threads /\ e[2] \in Nat /\ e = <<e[1], e[2]>>
BY BusAssumption DEF Events

LEMMA SortedAppend ==
  ASSUME NEW w \in Seq(Events), NEW v \in [Threads -> Nat], NEW e \in Events,
         Sorted(w, v),
         e[2] = 0 \/ (v[e[1]] < e[2] /\ Below(w, e[1], e[2]))
  PROVE  Sorted(Append(w, e), v)
<1> DEFINE x == Append(w, e)
<1>1. /\ Len(w) \in Nat /\ Len(x) = Len(w) + 1 /\ x[Len(w) + 1] = e
      /\ \A i \in 1..Len(w) : x[i] = w[i]
  BY AppendItems
<1> HIDE DEF x
<1>2. ASSUME NEW i \in 1..Len(x), x[i][2] > 0
      PROVE  /\ x[i][2] > v[x[i][1]]
             /\ \A k \in 1..(i - 1) : x[k][1] = x[i][1] => x[k][2] < x[i][2]
  <2>1. CASE i = Len(w) + 1
    <3>1. x[i] = e /\ v[e[1]] < e[2] /\ Below(w, e[1], e[2])
      BY <1>1, <1>2, <2>1
    <3>2. \A k \in 1..(i - 1) : k \in 1..Len(w) /\ x[k] = w[k]
      BY <1>1, <2>1
    <3>3. e[2] \in Nat /\ v[e[1]] \in Nat
      BY EventIs
    <3> QED BY <3>1, <3>2, <3>3 DEF Below
  <2>2. CASE i # Len(w) + 1
    <3>1. i \in 1..Len(w)
      BY <1>1, <2>2
    <3>2. \A k \in 1..(i - 1) : k \in 1..Len(w) /\ x[k] = w[k]
      BY <1>1, <3>1
    <3>3. x[i] = w[i]
      BY <1>1, <3>1
    <3> QED BY <1>2, <3>1, <3>2, <3>3 DEF Sorted
  <2> QED BY <2>1, <2>2
<1> QED BY <1>2 DEF Sorted, x

LEMMA SortedTail ==
  ASSUME NEW w \in Seq(Events), NEW v \in [Threads -> Nat], w # <<>>,
         Sorted(w, v)
  PROVE  /\ Sorted(Tail(w), v)
         /\ Sorted(Tail(w), [v EXCEPT ![Head(w)[1]] = Head(w)[2]])
<1> DEFINE x == Tail(w)
           u == [v EXCEPT ![Head(w)[1]] = Head(w)[2]]
<1>1. /\ Len(w) \in Nat /\ Len(x) = Len(w) - 1 /\ Len(w) >= 1
      /\ \A i \in 1..Len(x) : i + 1 \in 1..Len(w) /\ x[i] = w[i + 1]
  BY TailItems
<1>2. /\ Head(w) = w[1] /\ w[1][1] \in Threads /\ 1 \in 1..Len(w)
  BY TailItems, EventIs
<1>3. u = [v EXCEPT ![w[1][1]] = w[1][2]]
  BY <1>2
<1> HIDE DEF x, u
<1>4. ASSUME NEW i \in 1..Len(x), x[i][2] > 0
      PROVE  /\ x[i][2] > v[x[i][1]] /\ x[i][2] > u[x[i][1]]
             /\ \A k \in 1..(i - 1) : x[k][1] = x[i][1] => x[k][2] < x[i][2]
  <2>1. i + 1 \in 1..Len(w) /\ x[i] = w[i + 1] /\ i \in Nat /\ i >= 1
    BY <1>1
  <2>2. /\ w[i + 1][2] > v[w[i + 1][1]]
        /\ \A k \in 1..((i + 1) - 1) :
              w[k][1] = w[i + 1][1] => w[k][2] < w[i + 1][2]
    BY <1>4, <2>1 DEF Sorted
  <2>3. w[i + 1][1] \in Threads /\ w[i + 1][2] \in Nat /\ w[1][2] \in Nat
    <3>1. w[i + 1] \in Events /\ w[1] \in Events
      BY <1>2, <2>1
    <3> QED BY <3>1, EventIs
  <2>4. w[i + 1][2] > u[w[i + 1][1]]
    <3>1. 1 \in 1..((i + 1) - 1)
      BY <2>1
    <3>2. w[1][1] = w[i + 1][1] => w[1][2] < w[i + 1][2]
      BY <2>2, <3>1
    <3> QED BY <1>2, <1>3, <2>2, <2>3, <3>2
  <2>5. \A k \in 1..(i - 1) :
           k + 1 \in 1..((i + 1) - 1) /\ x[k] = w[k + 1]
    BY <1>1, <2>1
  <2> QED BY <2>1, <2>2, <2>4, <2>5
<1> QED BY <1>4 DEF Sorted, x, u

LEMMA TailKeeps ==
  ASSUME NEW w \in Seq(Events), w # <<>>
  PROVE  /\ \A t, n : Below(w, t, n) => Below(Tail(w), t, n)
         /\ \A c : Made(w, c) => Made(Tail(w), c)
BY TailItems DEF Below, Made

LEMMA BelowAppend ==
  ASSUME NEW w \in Seq(Events), NEW e \in Events, NEW t, NEW n,
         Below(w, t, n), e[1] = t => e[2] < n
  PROVE  Below(Append(w, e), t, n)
<1>1. /\ Len(w) \in Nat /\ Len(Append(w, e)) = Len(w) + 1
      /\ Append(w, e)[Len(w) + 1] = e
      /\ \A i \in 1..Len(w) : Append(w, e)[i] = w[i]
  BY AppendItems
<1>2. \A i \in 1..(Len(w) + 1) : i \in 1..Len(w) \/ i = Len(w) + 1
  BY <1>1
<1> QED BY <1>1, <1>2 DEF Below

LEMMA MadeAppend ==
  ASSUME NEW w \in Seq(Events), NEW e \in Events, NEW c, Made(w, c),
         e[2] <= c[e[1]]
  PROVE  Made(Append(w, e), c)
<1>1. /\ Len(w) \in Nat /\ Len(Append(w, e)) = Len(w) + 1
      /\ Append(w, e)[Len(w) + 1] = e
      /\ \A i \in 1..Len(w) : Append(w, e)[i] = w[i]
  BY AppendItems
<1>2. \A i \in 1..(Len(w) + 1) : i \in 1..Len(w) \/ i = Len(w) + 1
  BY <1>1
<1> QED BY <1>1, <1>2 DEF Made

\* Whether the call in frame f has still to put its event into the queue of s.
Pend(f, s) ==
    \/ f.pc = "snapshot"
    \/ s \in f.todo
    \/ f.pc \in {"drop", "reput"} /\ f.sub = s

Pending(t, s) == Depth(t) > 0 /\ Pend(frames[t][1], s)

\* The subscriber being served is not served again.
Aside ==
    \A t \in Threads :
        Depth(t) > 0 /\ frames[t][1].pc \in {"drop", "reput"}
            => frames[t][1].sub \notin frames[t][1].todo

\* An event that is still to be put into a queue is younger than all that are
\* in it, or were.
NotYet ==
    \A t \in Threads, s \in Subs :
        Pending(t, s) => seen[s][t] < calls[t] /\ Below(q[s], t, calls[t])

Ordered ==
    \A s \in Subs :
        /\ Sorted(q[s], seen[s])
        /\ Made(q[s], calls)
        /\ \A t \in Threads : seen[s][t] <= calls[t]

OrderInv == Aside /\ NotYet /\ Ordered

LEMMA OrderTypes ==
  ASSUME TypeInv
  PROVE  /\ \A s \in Subs : q[s] \in Seq(Events) /\ seen[s] \in [Threads -> Nat]
         /\ \A t \in Threads : calls[t] \in Nat /\ Depth(t) \in Nat
         /\ seen \in [Subs -> [Threads -> Nat]] /\ q \in [Subs -> Seq(Events)]
<1>1. /\ q \in [Subs -> Seq(Events)] /\ seen \in [Subs -> [Threads -> 0..MaxCalls]]
      /\ calls \in [Threads -> 0..MaxCalls] /\ frames \in [Threads -> Seq(Frame)]
  BY DEF TypeInv, TypeOK
<1>2. 0..MaxCalls \subseteq Nat
  BY BusAssumption
<1>3. \A t \in Threads : Depth(t) \in Nat
  BY <1>1 DEF Depth
<1> QED BY <1>1, <1>2, <1>3

\* What a step may do to the calls: none gets a new event to put.
Calls == \A t \in Threads, s \in Subs : Pending(t, s)' => Pending(t, s)

LEMMA OrderSame ==
  ASSUME OrderInv, Calls, Aside', UNCHANGED <<q, seen, calls>>
  PROVE  OrderInv'
<1>1. NotYet'
  BY DEF OrderInv, NotYet, Calls
<1>2. Ordered'
  BY DEF OrderInv, Ordered
<1> QED BY <1>1, <1>2 DEF OrderInv

\* The first event of the queue of s is taken out.
LEMMA OrderTail ==
  ASSUME TypeInv, OrderInv, Calls, Aside', UNCHANGED <<seen, calls>>,
         NEW s \in Subs, q[s] # <<>>, q' = [q EXCEPT ![s] = Tail(q[s])]
  PROVE  OrderInv'
<1>1. /\ q \in [Subs -> Seq(Events)] /\ q[s] \in Seq(Events)
      /\ \A x \in Subs : seen[x] \in [Threads -> Nat]
  BY OrderTypes
<1>2. q'[s] = Tail(q[s]) /\ \A x \in Subs \ {s} : q'[x] = q[x]
  BY <1>1
<1>3. \A t, n : Below(q[s], t, n) => Below(q'[s], t, n)
  BY <1>1, <1>2, TailKeeps
<1>4. Made(q'[s], calls) /\ Sorted(q'[s], seen[s])
  BY <1>1, <1>2, TailKeeps, SortedTail DEF OrderInv, Ordered
<1>5. ASSUME NEW t \in Threads, NEW x \in Subs, Pending(t, x)'
      PROVE  seen'[x][t] < calls'[t] /\ Below(q'[x], t, calls'[t])
  <2>1. seen[x][t] < calls[t] /\ Below(q[x], t, calls[t])
    BY <1>5 DEF Calls, OrderInv, NotYet
  <2> QED BY <1>2, <1>3, <2>1
<1>6. NotYet'
  BY <1>5 DEF NotYet
<1>7. Ordered'
  BY <1>2, <1>4 DEF OrderInv, Ordered
<1> QED BY <1>6, <1>7 DEF OrderInv

\* The event of the innermost call of t goes into the queue of s.
LEMMA OrderAppend ==
  ASSUME TypeInv, OrderInv, Calls, Aside', UNCHANGED <<seen, calls>>,
         NEW t \in Threads, Depth(t) > 0, NEW s \in Subs,
         q' = [q EXCEPT ![s] = Append(q[s], Top(t).ev)],
         Depth(t) = 1 => Pending(t, s) /\ ~Pending(t, s)'
  PROVE  OrderInv'
<1> DEFINE e == Top(t).ev
<1>1. /\ q \in [Subs -> Seq(Events)] /\ q[s] \in Seq(Events)
      /\ \A x \in Subs : seen[x] \in [Threads -> Nat]
      /\ \A u \in Threads : calls[u] \in Nat
  BY OrderTypes
<1>2. /\ Depth(t) \in {1, 2} /\ e \in Events /\ calls[t] > 0
      /\ Depth(t) = 1 => e = <<t, calls[t]>>
      /\ Depth(t) = 2 => e = <<t, 0>>
  BY TopFrame, TopOfStack DEF Frame
<1>3. e[1] = t /\ e[2] \in Nat /\ e[2] <= calls[t]
  BY <1>1, <1>2
<1> HIDE DEF e
<1>4. q'[s] = Append(q[s], e) /\ \A x \in Subs \ {s} : q'[x] = q[x]
  BY <1>1 DEF e
<1>5. Made(q'[s], calls)
  BY <1>1, <1>2, <1>3, <1>4, MadeAppend DEF OrderInv, Ordered
<1>6. Sorted(q'[s], seen[s])
  <2>1. Sorted(q[s], seen[s])
    BY DEF OrderInv, Ordered
  <2>2. e[2] = 0 \/ (seen[s][e[1]] < e[2] /\ Below(q[s], e[1], e[2]))
    <3>1. CASE Depth(t) = 1
      <4>1. seen[s][t] < calls[t] /\ Below(q[s], t, calls[t])
        BY <3>1 DEF OrderInv, NotYet
      <4> QED BY <1>2, <3>1, <4>1
    <3>2. CASE Depth(t) = 2
      BY <1>2, <3>2
    <3> QED BY <1>2, <3>1, <3>2
  <2> QED BY <1>1, <1>2, <1>4, <2>1, <2>2, SortedAppend
<1>7. ASSUME NEW u \in Threads, NEW x \in Subs, Pending(u, x)'
      PROVE  seen'[x][u] < calls'[u] /\ Below(q'[x], u, calls'[u])
  <2>1. seen[x][u] < calls[u] /\ Below(q[x], u, calls[u])
    BY <1>7 DEF Calls, OrderInv, NotYet
  <2>2. CASE x = s
    <3>1. u = t => e[2] < calls[u]
      BY <1>1, <1>2, <1>7, <2>2
    <3>2. Below(Append(q[s], e), u, calls[u])
      BY <1>1, <1>2, <1>3, <2>1, <2>2, <3>1, BelowAppend
    <3> QED BY <1>4, <2>1, <2>2, <3>2
  <2>3. CASE x # s
    BY <1>4, <2>1, <2>3
  <2> QED BY <2>2, <2>3
<1>8. NotYet'
  BY <1>7 DEF NotYet
<1>9. Ordered'
  BY <1>4, <1>5, <1>6 DEF OrderInv, Ordered
<1> QED BY <1>8, <1>9 DEF OrderInv

LEMMA OrderReceive ==
  ASSUME TypeInv, OrderInv, NEW s \in Subs, Receive(s)
  PROVE  OrderInv'
<1> DEFINE w == q[s]
           e == Head(w)
<1>1. /\ q \in [Subs -> Seq(Events)] /\ w \in Seq(Events) /\ w # <<>>
      /\ seen \in [Subs -> [Threads -> Nat]] /\ seen[s] \in [Threads -> Nat]
      /\ \A u \in Threads : calls[u] \in Nat
  BY OrderTypes DEF Receive
<1>2. /\ e \in Events /\ e = w[1] /\ e[1] \in Threads /\ e[2] \in Nat
      /\ 1 \in 1..Len(w)
  BY <1>1, TailItems, EventIs
<1>3. /\ q' = [q EXCEPT ![s] = Tail(w)] /\ UNCHANGED <<frames, calls>>
      /\ seen' = IF e[2] = 0 THEN seen ELSE [seen EXCEPT ![s][e[1]] = e[2]]
  BY DEF Receive
<1>4. Sorted(w, seen[s]) /\ Made(w, calls)
  BY DEF OrderInv, Ordered
<1> HIDE DEF w, e
<1>5. /\ q'[s] = Tail(w) /\ \A x \in Subs \ {s} : q'[x] = q[x]
      /\ \A x \in Subs \ {s} : seen'[x] = seen[x]
      /\ seen'[s] = IF e[2] = 0 THEN seen[s]
                    ELSE [seen[s] EXCEPT ![e[1]] = e[2]]
  BY <1>1, <1>3
<1>6. Sorted(q'[s], seen'[s]) /\ Made(q'[s], calls)
  <2>1. Made(Tail(w), calls)
    BY <1>1, <1>4, TailKeeps
  <2>2. /\ Sorted(Tail(w), seen[s])
        /\ Sorted(Tail(w), [seen[s] EXCEPT ![e[1]] = e[2]])
    BY <1>1, <1>4, SortedTail DEF e
  <2> QED BY <1>5, <2>1, <2>2
<1>7. \A t \in Threads : seen'[s][t] <= calls[t]
  <2>1. \A t \in Threads : seen[s][t] <= calls[t]
    BY DEF OrderInv, Ordered
  <2>2. e[2] <= calls[e[1]]
    BY <1>2, <1>4 DEF Made
  <2> QED BY <1>1, <1>2, <1>5, <2>1, <2>2
<1>8. Aside'
  BY <1>3 DEF OrderInv, Aside, Depth
<1>9. ASSUME NEW t \in Threads, NEW x \in Subs, Pending(t, x)'
      PROVE  seen'[x][t] < calls'[t] /\ Below(q'[x], t, calls'[t])
  <2>1. seen[x][t] < calls[t] /\ Below(q[x], t, calls[t])
    BY <1>3, <1>9 DEF OrderInv, NotYet, Pending, Depth
  <2>2. CASE x = s
    <3>1. Below(q'[s], t, calls[t])
      BY <1>1, <1>5, <2>1, <2>2, TailKeeps DEF w
    <3>2. e[1] = t => e[2] < calls[t]
      BY <1>2, <2>1, <2>2 DEF Below, w
    <3>3. seen'[s][t] < calls[t]
      BY <1>1, <1>2, <1>5, <2>1, <2>2, <3>2
    <3> QED BY <1>3, <2>2, <3>1, <3>3
  <2>3. CASE x # s
    BY <1>3, <1>5, <2>1, <2>3
  <2> QED BY <2>2, <2>3
<1>10. NotYet'
  BY <1>9 DEF NotYet
<1>11. Ordered'
  BY <1>3, <1>5, <1>6, <1>7 DEF OrderInv, Ordered
<1> QED BY <1>8, <1>10, <1>11 DEF OrderInv

\* The effect on the calls of a step that replaces a frame ...
LEMMA CallsReplaced ==
  ASSUME TypeInv, Aside, NEW t \in Threads, Depth(t) > 0, NEW f \in Frame,
         FramesOK', \A u \in Threads \ {t} : frames'[u] = frames[u],
         Replaced(t, f),
         \A s \in Subs : Pend(f, s) => Pend(Top(t), s),
         f.pc \in {"drop", "reput"} => f.sub \notin f.todo
  PROVE  /\ Calls /\ Aside'
         /\ Depth(t) = 1 => \A s \in Subs :
                               /\ Pending(t, s) <=> Pend(Top(t), s)
                               /\ Pending(t, s)' <=> Pend(f, s)
<1>1. /\ Depth(t) \in {1, 2} /\ Len(frames'[t]) = Depth(t)
      /\ frames'[t][Depth(t)] = f /\ Top(t) = frames[t][Depth(t)]
      /\ Depth(t) = 2 => frames'[t][1] = frames[t][1]
  BY TopFrame DEF Replaced
<1>2. \A u \in Threads \ {t} : frames'[u] = frames[u]
  OBVIOUS
<1>3. Calls
  BY <1>1, <1>2 DEF Calls, Pending, Depth
<1>4. Aside'
  BY <1>1, <1>2 DEF Aside, Depth
<1>5. Depth(t) = 1 => \A s \in Subs : /\ Pending(t, s) <=> Pend(Top(t), s)
                                      /\ Pending(t, s)' <=> Pend(f, s)
  BY <1>1 DEF Pending, Depth
<1> QED BY <1>3, <1>4, <1>5

\* ... that returns ...
LEMMA CallsReturned ==
  ASSUME TypeInv, Aside, NEW t \in Threads, Depth(t) > 0,
         FramesOK', \A u \in Threads \ {t} : frames'[u] = frames[u],
         Returned(t)
  PROVE  Calls /\ Aside'
<1>1. Len(frames'[t]) > 0 => frames'[t][1] = frames[t][1]
  BY TopFrame DEF Returned
<1>2. \A u \in Threads \ {t} : frames'[u] = frames[u]
  OBVIOUS
<1>3. Calls
  BY <1>1, <1>2 DEF Calls, Pending, Depth
<1>4. Aside'
  BY <1>1, <1>2 DEF Aside, Depth
<1> QED BY <1>3, <1>4

\* ... and that logs.
LEMMA CallsLog ==
  ASSUME TypeInv, Aside, NEW t \in Threads, Depth(t) > 0,
         NEW pc \in {"count", "evict"}, LogThenGoto(t, pc)
  PROVE  Calls /\ Aside'
<1> DEFINE f == [Top(t) EXCEPT !.pc = pc]
<1>1. /\ FramesOK' /\ \A u \in Threads \ {t} : frames'[u] = frames[u]
      /\ Replaced(t, f) \/ Pushed(t, pc)
  BY LogFrames
<1>2. Top(t) \in Frame
  BY TopFrame
<1>3. f \in Frame /\ f.todo = Top(t).todo /\ f.pc \in {"count", "evict"}
  BY <1>2 DEF Frame
<1> HIDE DEF f
<1>4. \A s \in Subs : Pend(f, s) => Pend(Top(t), s)
  BY <1>3 DEF Pend
<1>5. CASE Replaced(t, f)
  BY <1>1, <1>3, <1>4, <1>5, CallsReplaced
<1>6. CASE Pushed(t, pc)
  <2>1. /\ Depth(t) = 1 /\ Top(t) = frames[t][1]
        /\ frames'[t][1] = f
    BY <1>6, TopFrame DEF Pushed, f
  <2>2. \A u \in Threads \ {t} : frames'[u] = frames[u]
    BY <1>1
  <2>3. Calls
    BY <1>4, <2>1, <2>2 DEF Calls, Pending, Depth
  <2>4. Aside'
    BY <1>3, <2>1, <2>2 DEF Aside, Depth
  <2> QED BY <2>3, <2>4
<1> QED BY <1>1, <1>5, <1>6

\* A step to a label that has nothing to put.
LEMMA CallsPlain ==
  ASSUME TypeInv, Aside, NEW t \in Threads, Depth(t) > 0,
         NEW pc \in {"put", "evict", "listeners", "count"}, Goto(t, pc),
         UNCHANGED sink
  PROVE  Calls /\ Aside'
<1> DEFINE f == [Top(t) EXCEPT !.pc = pc]
<1>1. Top(t) \in Frame
  BY TopFrame
<1>2. f \in Frame /\ f.todo = Top(t).todo /\ f.pc = pc
  BY <1>1 DEF Frame
<1>3. Become(t, f)
  BY DEF Goto
<1> HIDE DEF f
<1>4. \A s \in Subs : Pend(f, s) => Pend(Top(t), s)
  BY <1>2 DEF Pend
<1> QED BY <1>2, <1>3, <1>4, ReplaceFrames, CallsReplaced

LEMMA OrderSnapshot ==
  ASSUME TypeInv, OrderInv, NEW t \in Threads, Snapshot(t)
  PROVE  OrderInv'
<1> DEFINE f == [Top(t) EXCEPT !.pc = "put", !.todo = live]
<1>1. /\ Depth(t) > 0 /\ Top(t) \in Frame /\ Top(t).pc = "snapshot"
      /\ live \in SUBSET Subs
  BY InCall DEF Snapshot, QueueInv
<1>2. f \in Frame /\ f.pc = "put"
  BY <1>1 DEF Frame
<1>3. Become(t, f) /\ UNCHANGED <<sink, q, seen, calls>>
  BY DEF Snapshot, histVars
<1> HIDE DEF f
<1>4. \A s \in Subs : Pend(f, s) => Pend(Top(t), s)
  BY <1>1 DEF Pend
<1>5. Aside
  BY DEF OrderInv
<1> QED BY <1>1, <1>2, <1>3, <1>4, <1>5, ReplaceFrames, CallsReplaced, OrderSame

LEMMA OrderPut ==
  ASSUME TypeInv, OrderInv, NEW t \in Threads, NEW s \in Subs, Put(t, s)
  PROVE  OrderInv'
<1> DEFINE full == Len(q[s]) = MaxSize
           f == [Top(t) EXCEPT !.pc = IF full THEN "drop" ELSE "reset",
                               !.todo = Top(t).todo \ {s}, !.sub = s]
<1>1. /\ Depth(t) > 0 /\ Top(t) \in Frame /\ Top(t).todo \in SUBSET Subs
      /\ Top(t).pc = "put" /\ s \in Top(t).todo
  BY InCall DEF Put
<1>2. /\ Become(t, f) /\ UNCHANGED <<sink, seen, calls>>
      /\ q' = IF full THEN q ELSE [q EXCEPT ![s] = Append(q[s], Top(t).ev)]
  BY DEF Put
<1>3. /\ f \in Frame /\ f.todo = Top(t).todo \ {s} /\ f.sub = s
      /\ f.pc = IF full THEN "drop" ELSE "reset"
  BY <1>1 DEF Frame
<1>4. Aside
  BY DEF OrderInv
<1> HIDE DEF f
<1>5. /\ \A x \in Subs : Pend(f, x) => Pend(Top(t), x)
      /\ Pend(Top(t), s)
      /\ ~full => ~Pend(f, s)
  BY <1>1, <1>3 DEF Pend
<1> HIDE DEF full
<1>6. /\ Calls /\ Aside'
      /\ Depth(t) = 1 => \A x \in Subs : /\ Pending(t, x) <=> Pend(Top(t), x)
                                         /\ Pending(t, x)' <=> Pend(f, x)
  BY <1>1, <1>2, <1>3, <1>4, <1>5, ReplaceFrames, CallsReplaced
<1>7. CASE full
  BY <1>2, <1>6, <1>7, OrderSame
<1>8. CASE ~full
  BY <1>1, <1>2, <1>5, <1>6, <1>8, OrderAppend
<1> QED BY <1>7, <1>8

LEMMA OrderDrop ==
  ASSUME TypeInv, OrderInv, NEW t \in Threads, Drop(t)
  PROVE  OrderInv'
<1> DEFINE s == Top(t).sub
           f == [Top(t) EXCEPT !.pc = "reput"]
<1>1. /\ Depth(t) > 0 /\ Top(t).pc = "drop" /\ s \in Subs /\ Top(t) \in Frame
      /\ UNCHANGED <<sink, seen, calls>>
  BY InCall DEF Drop, AtFull, histVars
<1>2. Aside
  BY DEF OrderInv
<1>3. CASE q[s] = <<>>
  <2>1. Goto(t, "count") /\ UNCHANGED q
    BY <1>3 DEF Drop
  <2> QED BY <1>1, <1>2, <2>1, CallsPlain, OrderSame
<1>4. CASE q[s] # <<>>
  <2>1. Become(t, f) /\ q' = [q EXCEPT ![s] = Tail(q[s])]
    BY <1>4 DEF Drop, Goto
  <2>2. /\ f \in Frame /\ f.todo = Top(t).todo /\ f.pc = "reput"
        /\ f.sub = Top(t).sub
    BY <1>1 DEF Frame
  <2> HIDE DEF f
  <2>3. \A x \in Subs : Pend(f, x) => Pend(Top(t), x)
    BY <1>1, <2>2 DEF Pend
  <2>4. Depth(t) = 1 => Top(t).sub \notin Top(t).todo
    BY <1>1, <1>2, TopFrame DEF Aside
  <2>5. Calls /\ Aside'
    <3>1. CASE Depth(t) = 1
      BY <1>1, <1>2, <2>1, <2>2, <2>3, <2>4, <3>1, ReplaceFrames, CallsReplaced
    <3>2. CASE Depth(t) = 2
      <4>1. /\ Len(frames'[t]) = 2 /\ frames'[t][1] = frames[t][1]
            /\ \A u \in Threads \ {t} : frames'[u] = frames[u]
        <5>1. /\ Replaced(t, f) /\ Depth(t) = Len(frames[t])
              /\ \A u \in Threads \ {t} : frames'[u] = frames[u]
          BY <1>1, <2>1, <2>2, TopFrame, ReplaceFrames
        <5>2. 1 \in 1..(Depth(t) - 1)
          BY <3>2
        <5> QED BY <3>2, <5>1, <5>2 DEF Replaced
      <4>2. Calls
        BY <3>2, <4>1 DEF Calls, Pending, Depth
      <4>3. Aside'
        BY <1>2, <3>2, <4>1 DEF Aside, Depth
      <4> QED BY <4>2, <4>3
    <3> QED BY <1>1, <3>1, <3>2, TopFrame
  <2> HIDE DEF s
  <2> QED BY <1>1, <1>4, <2>1, <2>5, OrderTail
<1> QED BY <1>3, <1>4

LEMMA OrderReput ==
  ASSUME TypeInv, OrderInv, NEW t \in Threads, Reput(t)
  PROVE  OrderInv'
<1> DEFINE s == Top(t).sub
           f == [Top(t) EXCEPT !.pc = "warn"]
<1>1. /\ Depth(t) > 0 /\ Top(t).pc = "reput" /\ s \in Subs /\ Top(t) \in Frame
      /\ UNCHANGED <<seen, calls>>
  BY InCall DEF Reput, AtFull, histVars
<1>2. Aside
  BY DEF OrderInv
<1>3. CASE Len(q[s]) < MaxSize
  <2>1. /\ Become(t, f) /\ UNCHANGED sink
        /\ q' = [q EXCEPT ![s] = Append(q[s], Top(t).ev)]
    BY <1>3 DEF Reput, Goto
  <2>2. /\ f \in Frame /\ f.todo = Top(t).todo /\ f.pc = "warn"
    BY <1>1 DEF Frame
  <2> HIDE DEF f
  <2>3. \A x \in Subs : Pend(f, x) => Pend(Top(t), x)
    BY <2>2 DEF Pend
  <2>4. /\ Calls /\ Aside'
        /\ Depth(t) = 1 => \A x \in Subs :
                              /\ Pending(t, x) <=> Pend(Top(t), x)
                              /\ Pending(t, x)' <=> Pend(f, x)
    BY <1>1, <1>2, <2>1, <2>2, <2>3, ReplaceFrames, CallsReplaced
  <2>5. Depth(t) = 1 => Pend(Top(t), s) /\ ~Pend(f, s)
    BY <1>1, <1>2, <2>2, TopFrame DEF Aside, Pend
  <2> HIDE DEF s
  <2> QED BY <1>1, <2>1, <2>4, <2>5, OrderAppend DEF s
<1>4. CASE ~(Len(q[s]) < MaxSize)
  <2>1. Return(t) /\ UNCHANGED q
    BY <1>4 DEF Reput
  <2> QED BY <1>1, <1>2, <2>1, ReturnFrames, CallsReturned, OrderSame
<1> QED BY <1>3, <1>4

\* The steps of a call that leave the queues alone.
LEMMA OrderCalm ==
  ASSUME TypeInv, OrderInv, NEW t \in Threads,
         \/ Warn(t) \/ Count(t) \/ Reset(t) \/ EndLoop(t)
         \/ LogEviction(t) \/ ReleaseLock(t) \/ CallListeners(t)
  PROVE  OrderInv'
<1>1. UNCHANGED <<q, seen, calls>>
  BY DEF Warn, Count, Reset, EndLoop, LogEviction, ReleaseLock, CallListeners,
         histVars
<1>2. Aside
  BY DEF OrderInv
<1>3. Calls /\ Aside'
  <2>1. CASE Warn(t)
    BY <1>2, <2>1, InCall, CallsLog DEF Warn
  <2>2. CASE LogEviction(t)
    BY <1>2, <2>2, InCall, CallsLog DEF LogEviction
  <2>3. CASE CallListeners(t)
    BY <1>2, <2>3, InCall, ReturnFrames, CallsReturned DEF CallListeners
  <2>4. CASE Reset(t) \/ EndLoop(t) \/ ReleaseLock(t)
    <3>1. /\ Depth(t) > 0 /\ UNCHANGED sink
          /\ \E pc \in {"put", "evict", "listeners", "count"} : Goto(t, pc)
      BY <2>4, InCall DEF Reset, EndLoop, ReleaseLock
    <3> QED BY <1>2, <3>1, CallsPlain
  <2>5. CASE Count(t)
    <3> DEFINE f == [Top(t) EXCEPT !.pc = "put",
                                   !.gone = Top(t).gone \cup {Top(t).sub}]
    <3>1. /\ Depth(t) > 0 /\ Top(t) \in Frame /\ Top(t).sub \in Subs
          /\ Top(t).gone \in SUBSET Subs
      BY <2>5, InCall DEF Count, AtFull
    <3>2. UNCHANGED sink /\ (Goto(t, "put") \/ Become(t, f))
      BY <2>5 DEF Count
    <3>3. f \in Frame /\ f.todo = Top(t).todo /\ f.pc = "put"
      BY <3>1 DEF Frame
    <3> HIDE DEF f
    <3>4. \A x \in Subs : Pend(f, x) => Pend(Top(t), x)
      BY <3>3 DEF Pend
    <3> QED BY <1>2, <3>1, <3>2, <3>3, <3>4, CallsPlain, ReplaceFrames,
               CallsReplaced
  <2> QED BY <2>1, <2>2, <2>3, <2>4, <2>5
<1> QED BY <1>1, <1>3, OrderSame

LEMMA OrderEvict ==
  ASSUME TypeInv, OrderInv, NEW t \in Threads, NEW s \in Subs, Evict(t, s)
  PROVE  OrderInv'
<1> DEFINE f == [Top(t) EXCEPT !.pc = "evicted", !.gone = Top(t).gone \ {s}]
<1>1. Depth(t) > 0 /\ Top(t) \in Frame /\ Top(t).gone \in SUBSET Subs
  BY InCall DEF Evict
<1>2. Become(t, f) /\ UNCHANGED <<sink, q, seen, calls>>
  BY DEF Evict, histVars
<1>3. f \in Frame /\ f.todo = Top(t).todo /\ f.pc = "evicted"
  BY <1>1 DEF Frame
<1> HIDE DEF f
<1>4. \A x \in Subs : Pend(f, x) => Pend(Top(t), x)
  BY <1>3 DEF Pend
<1>5. Aside
  BY DEF OrderInv
<1> QED BY <1>1, <1>2, <1>3, <1>4, <1>5, ReplaceFrames, CallsReplaced, OrderSame

\* A new call is younger than everything the thread published.
LEMMA OrderBegin ==
  ASSUME TypeInv, OrderInv, NEW t \in Threads, NEW log \in BOOLEAN,
         Begin(t, log)
  PROVE  OrderInv'
<1> DEFINE n == calls[t] + 1
           f == Call(<<t, n>>, log)
<1>1. /\ calls \in [Threads -> 0..MaxCalls] /\ frames \in [Threads -> Seq(Frame)]
      /\ \A u \in Threads : calls[u] \in Nat
      /\ \A s \in Subs : q[s] \in Seq(Events) /\ seen[s] \in [Threads -> Nat]
  BY OrderTypes DEF TypeInv, TypeOK
<1>2. /\ UNCHANGED <<q, seen>> /\ calls' = [calls EXCEPT ![t] = n]
      /\ frames' = [frames EXCEPT ![t] = <<f>>]
  BY <1>1 DEF Begin, histVars
<1>3. /\ calls'[t] = calls[t] + 1
      /\ \A u \in Threads \ {t} : calls'[u] = calls[u]
  BY <1>1, <1>2
<1>4. f.pc = "snapshot"
  BY DEF Call
<1> HIDE DEF f, n
<1>5. /\ frames'[t] = <<f>>
      /\ \A u \in Threads \ {t} : frames'[u] = frames[u]
  BY <1>1, <1>2
<1>6. Aside'
  BY <1>4, <1>5 DEF OrderInv, Aside, Depth
<1>7. ASSUME NEW s \in Subs
      PROVE  /\ Sorted(q[s], seen[s]) /\ Made(q[s], calls) /\ Made(q[s], calls')
             /\ \A u \in Threads : /\ seen[s][u] <= calls[u]
                                   /\ seen[s][u] <= calls'[u]
  <2>1. /\ Sorted(q[s], seen[s]) /\ Made(q[s], calls)
        /\ \A u \in Threads : seen[s][u] <= calls[u]
    BY DEF OrderInv, Ordered
  <2>2. \A u \in Threads : calls[u] <= calls'[u] /\ calls'[u] \in Nat
    <3> TAKE u \in Threads
    <3>1. calls[u] \in Nat /\ calls[t] \in Nat
      BY <1>1
    <3>2. calls'[u] = calls[u] \/ calls'[u] = calls[u] + 1
      BY <1>3
    <3> QED BY <3>1, <3>2
  <2>3. Made(q[s], calls')
    <3> SUFFICES ASSUME NEW i \in 1..Len(q[s])
                 PROVE  q[s][i][2] <= calls'[q[s][i][1]]
      BY DEF Made
    <3>1. /\ q[s][i] \in Events /\ q[s][i][2] <= calls[q[s][i][1]]
      BY <1>1, <2>1 DEF Made
    <3>2. q[s][i][1] \in Threads /\ q[s][i][2] \in Nat
      BY <3>1, EventIs
    <3> QED BY <1>1, <2>2, <3>1, <3>2
  <2>4. \A u \in Threads : seen[s][u] <= calls'[u]
    BY <1>1, <2>1, <2>2
  <2> QED BY <2>1, <2>3, <2>4
<1>8. Ordered'
  BY <1>2, <1>7 DEF Ordered
<1>9. ASSUME NEW u \in Threads, NEW s \in Subs, Pending(u, s)'
      PROVE  seen'[s][u] < calls'[u] /\ Below(q'[s], u, calls'[u])
  <2>1. CASE u = t
    <3>1. seen[s][t] < calls'[t]
      BY <1>1, <1>3, <1>7
    <3>2. Below(q[s], t, calls'[t])
      <4> SUFFICES ASSUME NEW i \in 1..Len(q[s]), q[s][i][1] = t
                   PROVE  q[s][i][2] < calls'[t]
        BY DEF Below
      <4>1. q[s][i] \in Events /\ q[s][i][2] <= calls[t]
        BY <1>1, <1>7 DEF Made
      <4>2. q[s][i][2] \in Nat
        BY <4>1, EventIs
      <4> QED BY <1>1, <1>3, <4>1, <4>2
    <3> QED BY <1>2, <2>1, <3>1, <3>2
  <2>2. CASE u # t
    <3>1. Pending(u, s)
      BY <1>5, <1>9, <2>2 DEF Pending, Depth
    <3> QED BY <1>2, <1>3, <2>2, <3>1 DEF OrderInv, NotYet
  <2> QED BY <2>1, <2>2
<1>10. NotYet'
  BY <1>9 DEF NotYet
<1> QED BY <1>6, <1>8, <1>10 DEF OrderInv

LEMMA OrderInvInit == Init => OrderInv
<1> SUFFICES ASSUME Init PROVE OrderInv
  OBVIOUS
<1>1. /\ \A t \in Threads : Depth(t) = 0 /\ calls[t] = 0
      /\ \A s \in Subs : /\ Len(q[s]) = 0
                         /\ \A t \in Threads : seen[s][t] = 0
  BY DEF Init, Depth
<1>2. Aside /\ NotYet
  BY <1>1 DEF Aside, NotYet, Pending
<1>3. Ordered
  BY <1>1 DEF Ordered, Sorted, Made
<1> QED BY <1>2, <1>3 DEF OrderInv

LEMMA OrderInvNext == TypeInv /\ OrderInv /\ [Next]_vars => OrderInv'
<1> SUFFICES ASSUME TypeInv, OrderInv, [Next]_vars PROVE OrderInv'
  OBVIOUS
<1>1. ASSUME NEW t \in Threads, CallStep(t) PROVE OrderInv'
  BY <1>1, OrderSnapshot, OrderPut, OrderDrop, OrderReput, OrderCalm,
     OrderEvict DEF CallStep
<1>2. ASSUME NEW t \in Threads, Publish(t) \/ WriteLog(t) PROVE OrderInv'
  BY <1>2, OrderBegin DEF Publish, WriteLog
<1>3. CASE UNCHANGED <<frames, q, seen, calls>>
  <2>1. Calls
    BY <1>3 DEF Calls, Pending, Depth
  <2>2. Aside'
    BY <1>3 DEF OrderInv, Aside, Depth
  <2> QED BY <1>3, <2>1, <2>2, OrderSame
<1>4. ASSUME NEW s \in Subs,
             Subscribe(s) \/ Leave(s) \/ Unsubscribe(s) \/ TimePasses(s)
      PROVE  UNCHANGED <<frames, q, seen, calls>>
  BY <1>4 DEF Subscribe, Leave, Unsubscribe, TimePasses, histVars
<1>5. CleanupIdle \/ UNCHANGED vars => UNCHANGED <<frames, q, seen, calls>>
  BY DEF CleanupIdle, vars, histVars
<1> QED
  BY <1>1, <1>2, <1>3, <1>4, <1>5, OrderReceive DEF Next, SubscriberStep

\* The events of one thread reach a client in the order in which the thread
\* published them: though each call of publish works on its own snapshot of the
\* subscribers, takes old events out of a full queue and puts its own in without
\* a lock over the two, and though the log records of publish itself are put
\* from inside another call of the same thread, no event is overtaken by a
\* later one of its thread, and none comes after the client took a later one.
THEOREM EventsInOrder == Spec => []InOrder
<1>1. OrderInv => InOrder
  BY DEF OrderInv, Ordered, Sorted, InOrder
<1> QED BY <1>1, TypeInvAlways, OrderInvInit, OrderInvNext, PTL DEF Spec
=============================================================================
