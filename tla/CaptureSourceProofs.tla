------------------------ MODULE CaptureSourceProofs ------------------------
(***************************************************************************)
(* What the capture sources guarantee for every set of sources, channel    *)
(* capacity and number of frames. One inductive invariant, SourceInv,      *)
(* carries the counters, the order of the channel and the refinement of    *)
(* the feed promised by the Source interface.                              *)
(***************************************************************************)
EXTENDS CaptureSource, SequenceTheorems, TLAPS

(* The invariants of one source, with what they need to be inductive: the  *)
(* frame in the goroutine's hand is newer than all it has handed over, a   *)
(* replay discards nothing, and a channel seen closed is empty.            *)
Accounted(s) ==
  IF phase[s] = "exited"
    THEN FrameCount(s) <= ordinal[s] /\ ordinal[s] <= FrameCount(s) + 1
    ELSE ordinal[s] = FrameCount(s)

InOrder(s) ==
  /\ Len(queue[s]) <= ChanCap
  /\ given[s] + InHand(s) <= ordinal[s]
  /\ \A i \in 1 .. Len(queue[s]) :
       given[s] < queue[s][i] /\ queue[s][i] + InHand(s) <= ordinal[s]
  /\ \A i, j \in 1 .. Len(queue[s]) : i < j => queue[s][i] < queue[s][j]

NoGaps(s) ==
  s \notin LiveSources =>
    /\ lost[s] = 0
    /\ given[s] = received[s]
    /\ \A i \in 1 .. Len(queue[s]) : queue[s][i] = given[s] + i

OverIsEmpty(s) == over[s] => phase[s] = "exited" /\ queue[s] = <<>>

SourceOK(s) == Accounted(s) /\ InOrder(s) /\ NoGaps(s) /\ OverIsEmpty(s)

SourceInv == SourceTypeOK /\ \A s \in Sources : SourceOK(s)

LEMMA SourceInvImplies ==
  SourceInv => FramesAccounted /\ QueueInOrder /\ ReplayHasNoGaps
<1> SUFFICES ASSUME SourceInv PROVE FramesAccounted /\ QueueInOrder /\ ReplayHasNoGaps
  OBVIOUS
<1>1. FramesAccounted
  BY DEF SourceInv, SourceOK, Accounted, FramesAccounted
<1>2. ReplayHasNoGaps
  BY DEF SourceInv, SourceOK, NoGaps, ReplayHasNoGaps
<1>3. QueueInOrder
  <2> SUFFICES ASSUME NEW s \in Sources
               PROVE  /\ Len(queue[s]) <= ChanCap
                      /\ \A i \in 1 .. Len(queue[s]) :
                           given[s] < queue[s][i] /\ queue[s][i] <= ordinal[s]
                      /\ \A i, j \in 1 .. Len(queue[s]) : i < j => queue[s][i] < queue[s][j]
    BY DEF QueueInOrder
  <2>1. InOrder(s)
    BY DEF SourceInv, SourceOK
  <2>2. queue[s] \in Seq(Nat) /\ ordinal[s] \in Nat /\ InHand(s) \in Nat
    BY DEF SourceInv, SourceTypeOK, InHand
  <2>3. \A i \in 1 .. Len(queue[s]) : queue[s][i] \in Nat
    BY <2>2, ElementOfSeq
  <2> QED
    BY <2>1, <2>2, <2>3 DEF InOrder
<1> QED
  BY <1>1, <1>2, <1>3

LEMMA SourceInitInv == SourceInit => SourceInv
<1> SUFFICES ASSUME SourceInit PROVE SourceInv
  OBVIOUS
<1> USE SourceAssumption DEF SourceInit
<1>1. SourceTypeOK
  BY DEF SourceTypeOK, Phases
<1>2. ASSUME NEW s \in Sources PROVE SourceOK(s)
  <2>1. Len(queue[s]) = 0 /\ InHand(s) = 0
    BY DEF InHand
  <2>2. FrameCount(s) = 0
    BY <2>1 DEF FrameCount
  <2>3. Accounted(s)
    BY <2>2 DEF Accounted
  <2>4. InOrder(s) /\ NoGaps(s) /\ OverIsEmpty(s)
    BY <2>1 DEF InOrder, NoGaps, OverIsEmpty
  <2> QED
    BY <2>3, <2>4 DEF SourceOK
<1> QED
  BY <1>1, <1>2 DEF SourceInv

(* A step of source s leaves every other source as it was, so only the     *)
(* invariant of s has to be shown again.                                   *)
LEMMA OneSourceAtATime ==
  ASSUME SourceInv, NEW s \in Sources, SourceTypeOK', SourceOK(s)',
         \A r \in Sources \ {s} :
           /\ phase'[r] = phase[r] /\ ordinal'[r] = ordinal[r] /\ queue'[r] = queue[r]
           /\ lost'[r] = lost[r] /\ received'[r] = received[r] /\ given'[r] = given[r]
           /\ over'[r] = over[r]
  PROVE  SourceInv'
<1>1. ASSUME NEW r \in Sources \ {s} PROVE SourceOK(r)'
  <2>1. SourceOK(r)
    BY DEF SourceInv
  <2> QED
    BY <2>1 DEF SourceOK, Accounted, FrameCount, InHand, InOrder, NoGaps, OverIsEmpty
<1> QED
  BY <1>1 DEF SourceInv

(* Closing sources changes only their done channels. *)
LEMMA CloseInv ==
  ASSUME SourceInv, NEW S, CloseSources(S) PROVE SourceInv'
<1>1. SourceTypeOK'
  BY DEF SourceInv, SourceTypeOK, CloseSources
<1>2. ASSUME NEW r \in Sources PROVE SourceOK(r)'
  <2>1. SourceOK(r)
    BY DEF SourceInv
  <2> QED
    BY <2>1 DEF SourceOK, Accounted, FrameCount, InHand, InOrder, NoGaps, OverIsEmpty,
                CloseSources
<1> QED
  BY <1>1, <1>2 DEF SourceInv

(* The steps of the goroutine of s, and of its reader. *)
LEMMA StepInv ==
  ASSUME SourceInv, NEW s \in Sources,
         OpenSource(s) \/ SourceLoop(s) \/ ReaderStep(s)
  PROVE  SourceInv'
<1> USE SourceAssumption
<1>0. /\ SourceTypeOK /\ SourceOK(s)
      /\ phase[s] \in Phases /\ ordinal[s] \in Nat /\ queue[s] \in Seq(Nat)
      /\ lost[s] \in Nat /\ received[s] \in Nat /\ given[s] \in Nat
      /\ Len(queue[s]) \in Nat
      /\ \A i \in 1 .. Len(queue[s]) : queue[s][i] \in Nat
  BY ElementOfSeq, LenProperties DEF SourceInv, SourceTypeOK
<1>n. lost[s] \in Nat /\ received[s] \in Nat /\ Len(queue[s]) \in Nat
  BY <1>0
<1>1. ASSUME OpenSource(s) \/ CheckDone(s) \/ ReadNothing(s) PROVE SourceInv'
  <2>1. SourceTypeOK'
    BY <1>0, <1>1 DEF SourceTypeOK, OpenSource, CheckDone, ReadNothing, Goto, LoopTop, Phases
  <2>2. /\ phase[s] \notin {"exited", "send"} /\ phase'[s] # "send"
        /\ UNCHANGED <<ordinal, queue, lost, received, given, over>>
    BY <1>0, <1>1 DEF SourceTypeOK, OpenSource, CheckDone, ReadNothing, Goto, LoopTop
  <2>3. InHand(s) = 0 /\ InHand(s)' = 0
    BY <2>2 DEF InHand
  <2>4. /\ FrameCount(s) = received[s] + Len(queue[s]) + lost[s] + InHand(s)
        /\ FrameCount(s)' = received[s] + Len(queue[s]) + lost[s] + InHand(s)'
    BY <2>2 DEF FrameCount
  <2>5. Accounted(s)'
    BY <1>0, <2>2, <2>3, <2>4 DEF SourceOK, Accounted
  <2>6. InOrder(s)' /\ NoGaps(s)' /\ OverIsEmpty(s)'
    BY <1>0, <2>2, <2>3 DEF SourceOK, InOrder, NoGaps, OverIsEmpty
  <2>7. SourceOK(s)'
    BY <2>5, <2>6 DEF SourceOK
  <2> QED
    BY <1>0, <1>1, <2>1, <2>7, OneSourceAtATime
       DEF SourceTypeOK, OpenSource, CheckDone, ReadNothing, Goto
<1>2. ASSUME ReadFrame(s) PROVE SourceInv'
  <2>1. SourceTypeOK'
    BY <1>0, <1>2 DEF SourceTypeOK, ReadFrame, Goto, Phases
  <2>2. /\ phase[s] = "read" /\ phase'[s] = "send" /\ ordinal'[s] = ordinal[s] + 1
        /\ UNCHANGED <<queue, lost, received, given, over>>
    BY <1>0, <1>2 DEF SourceTypeOK, ReadFrame, Goto
  <2>3. InHand(s) = 0 /\ InHand(s)' = 1
    BY <2>2 DEF InHand
  <2>4. /\ FrameCount(s) = received[s] + Len(queue[s]) + lost[s] + InHand(s)
        /\ FrameCount(s)' = received[s] + Len(queue[s]) + lost[s] + InHand(s)'
    BY <2>2 DEF FrameCount
  <2>5. Accounted(s)'
    BY <1>0, <2>2, <2>3, <2>4 DEF SourceOK, Accounted
  <2>6. InOrder(s)' /\ NoGaps(s)' /\ OverIsEmpty(s)'
    BY <1>0, <2>2, <2>3 DEF SourceOK, InOrder, NoGaps, OverIsEmpty
  <2>7. SourceOK(s)'
    BY <2>5, <2>6 DEF SourceOK
  <2> QED
    BY <1>0, <1>2, <2>1, <2>7, OneSourceAtATime DEF SourceTypeOK, ReadFrame, Goto
<1>3. ASSUME ReadFails(s) \/ AbandonFrame(s) PROVE SourceInv'
  <2>1. SourceTypeOK'
    BY <1>0, <1>3 DEF SourceTypeOK, ReadFails, AbandonFrame, Goto, Phases
  <2>2. /\ phase[s] \in {"read", "send"} /\ phase'[s] = "exited"
        /\ UNCHANGED <<ordinal, queue, lost, received, given, over>>
    BY <1>0, <1>3 DEF SourceTypeOK, ReadFails, AbandonFrame, Goto
  <2>3. InHand(s) \in {0, 1} /\ InHand(s)' = 0
    BY <2>2 DEF InHand
  <2>4. /\ FrameCount(s) = received[s] + Len(queue[s]) + lost[s] + InHand(s)
        /\ FrameCount(s)' = received[s] + Len(queue[s]) + lost[s] + InHand(s)'
    BY <2>2 DEF FrameCount
  <2>5. Accounted(s)'
    BY <1>0, <2>2, <2>3, <2>4 DEF SourceOK, Accounted
  <2>6. InOrder(s)' /\ NoGaps(s)' /\ OverIsEmpty(s)'
    BY <1>0, <2>2, <2>3 DEF SourceOK, InOrder, NoGaps, OverIsEmpty
  <2>7. SourceOK(s)'
    BY <2>5, <2>6 DEF SourceOK
  <2> QED
    BY <1>0, <1>3, <2>1, <2>7, OneSourceAtATime DEF SourceTypeOK, ReadFails, AbandonFrame, Goto
<1>4. ASSUME DropFrame(s) PROVE SourceInv'
  <2>1. SourceTypeOK'
    BY <1>0, <1>4 DEF SourceTypeOK, DropFrame, Goto, LoopTop, Phases
  <2>2. /\ phase[s] = "send" /\ phase'[s] = "check" /\ lost'[s] = lost[s] + 1
        /\ s \in LiveSources
        /\ UNCHANGED <<ordinal, queue, received, given, over>>
    BY <1>0, <1>4 DEF SourceTypeOK, DropFrame, Goto, LoopTop, Live
  <2>3. InHand(s) = 1 /\ InHand(s)' = 0
    BY <2>2 DEF InHand
  <2>4. /\ FrameCount(s) = received[s] + Len(queue[s]) + lost[s] + InHand(s)
        /\ FrameCount(s)' = received[s] + Len(queue[s]) + (lost[s] + 1) + InHand(s)'
    BY <2>2 DEF FrameCount
  <2>5. Accounted(s)'
    BY <1>0, <2>2, <2>3, <2>4 DEF SourceOK, Accounted
  <2>6. InOrder(s)' /\ NoGaps(s)' /\ OverIsEmpty(s)'
    BY <1>0, <2>2, <2>3 DEF SourceOK, InOrder, NoGaps, OverIsEmpty
  <2>7. SourceOK(s)'
    BY <2>5, <2>6 DEF SourceOK
  <2> QED
    BY <1>0, <1>4, <2>1, <2>7, OneSourceAtATime DEF SourceTypeOK, DropFrame, Goto
<1>5. ASSUME SendFrame(s) PROVE SourceInv'
  <2> DEFINE q == queue[s]
  <2>1. SourceTypeOK'
    BY <1>0, <1>5, AppendProperties DEF SourceTypeOK, SendFrame, Goto, LoopTop, Phases
  <2>2. /\ phase[s] = "send" /\ phase'[s] \in {"check", "read"}
        /\ Len(q) < ChanCap /\ queue'[s] = Append(q, ordinal[s])
        /\ UNCHANGED <<ordinal, lost, received, given, over>>
    BY <1>0, <1>5 DEF SourceTypeOK, SendFrame, Goto, LoopTop, HasRoom
  <2>3. /\ Len(queue'[s]) = Len(q) + 1
        /\ queue'[s][Len(q) + 1] = ordinal[s]
        /\ \A i \in 1 .. Len(q) : queue'[s][i] = q[i]
    BY <1>0, <2>2, AppendProperties
  <2>4. InHand(s) = 1 /\ InHand(s)' = 0
    BY <2>2 DEF InHand
  <2>5. Accounted(s)'
    <3>1. FrameCount(s)' = FrameCount(s)
      BY <1>n, <2>2, <2>3, <2>4 DEF FrameCount
    <3> QED
      BY <1>0, <2>2, <3>1 DEF SourceOK, Accounted
  <2>6. InOrder(s)'
    <3>1. \A i \in 1 .. Len(q) : given[s] < q[i] /\ q[i] < ordinal[s]
      BY <1>0, <2>4 DEF SourceOK, InOrder
    <3>2. given[s] < ordinal[s]
      BY <1>0, <2>4 DEF SourceOK, InOrder
    <3>3. \A i \in 1 .. Len(q) + 1 : given[s] < queue'[s][i] /\ queue'[s][i] <= ordinal[s]
      <4> SUFFICES ASSUME NEW i \in 1 .. Len(q) + 1
                   PROVE  given[s] < queue'[s][i] /\ queue'[s][i] <= ordinal[s]
        OBVIOUS
      <4>1. CASE i = Len(q) + 1
        BY <1>0, <2>3, <3>2, <4>1
      <4>2. CASE i \in 1 .. Len(q)
        BY <1>0, <2>3, <3>1, <4>2
      <4> QED
        BY <1>0, <4>1, <4>2
    <3>4. \A i, j \in 1 .. Len(q) + 1 : i < j => queue'[s][i] < queue'[s][j]
      <4> SUFFICES ASSUME NEW i \in 1 .. Len(q) + 1, NEW j \in 1 .. Len(q) + 1, i < j
                   PROVE  queue'[s][i] < queue'[s][j]
        OBVIOUS
      <4>1. CASE j = Len(q) + 1
        <5>1. i \in 1 .. Len(q)
          BY <1>0, <4>1
        <5> QED
          BY <1>0, <2>3, <3>1, <4>1, <5>1
      <4>2. CASE j # Len(q) + 1
        <5>1. i \in 1 .. Len(q) /\ j \in 1 .. Len(q)
          BY <1>0, <4>2
        <5> QED
          BY <1>0, <2>3, <5>1 DEF SourceOK, InOrder
      <4> QED
        BY <4>1, <4>2
    <3> QED
      BY <1>0, <2>2, <2>3, <2>4, <3>2, <3>3, <3>4 DEF InOrder
  <2>7. NoGaps(s)'
    <3> SUFFICES ASSUME s \notin LiveSources PROVE NoGaps(s)'
      BY DEF NoGaps
    <3>1. /\ lost[s] = 0 /\ given[s] = received[s]
          /\ \A i \in 1 .. Len(q) : q[i] = given[s] + i
      BY <1>0 DEF SourceOK, NoGaps
    <3>2. ordinal[s] = given[s] + Len(q) + 1
      BY <1>0, <2>2, <2>4, <3>1 DEF SourceOK, Accounted, FrameCount
    <3>3. \A i \in 1 .. Len(q) + 1 : queue'[s][i] = given[s] + i
      <4> SUFFICES ASSUME NEW i \in 1 .. Len(q) + 1 PROVE queue'[s][i] = given[s] + i
        OBVIOUS
      <4>1. CASE i = Len(q) + 1
        BY <1>0, <2>3, <3>2, <4>1
      <4>2. CASE i \in 1 .. Len(q)
        BY <1>0, <2>3, <3>1, <4>2
      <4> QED
        BY <1>0, <4>1, <4>2
    <3> QED
      BY <2>2, <2>3, <3>1, <3>3 DEF NoGaps
  <2>8. OverIsEmpty(s)'
    BY <1>0, <2>2 DEF SourceOK, OverIsEmpty
  <2> QED
    BY <1>0, <1>5, <2>1, <2>5, <2>6, <2>7, <2>8, OneSourceAtATime
       DEF SourceTypeOK, SourceOK, SendFrame, Goto
<1>6. ASSUME ReceiveFrame(s) PROVE SourceInv'
  <2> DEFINE q == queue[s]
  <2>0. /\ q # <<>> /\ q \in Seq(Nat)
        /\ Head(q) = q[1] /\ Tail(q) \in Seq(Nat) /\ Len(Tail(q)) = Len(q) - 1
        /\ \A i \in 1 .. Len(q) - 1 : Tail(q)[i] = q[i + 1]
        /\ Len(q) >= 1
    BY <1>0, <1>6, HeadTailProperties, EmptySeq DEF ReceiveFrame
  <2>1. SourceTypeOK'
    BY <1>0, <1>6, <2>0 DEF SourceTypeOK, ReceiveFrame
  <2>2. /\ queue'[s] = Tail(q) /\ given'[s] = q[1] /\ received'[s] = received[s] + 1
        /\ UNCHANGED <<phase, ordinal, lost, over>>
    BY <1>0, <1>6, <2>0 DEF SourceTypeOK, ReceiveFrame
  <2>3. InHand(s)' = InHand(s) /\ InHand(s) \in Nat
    BY <2>2 DEF InHand
  <2>4. Accounted(s)'
    <3>1. FrameCount(s)' = FrameCount(s)
      BY <1>n, <2>0, <2>2, <2>3 DEF FrameCount
    <3> QED
      BY <1>0, <2>2, <3>1 DEF SourceOK, Accounted
  <2>5. InOrder(s)'
    <3>1. \A i \in 1 .. Len(q) - 1 : i + 1 \in 1 .. Len(q)
      BY <1>0
    <3>2. \A i \in 1 .. Len(q) - 1 :
            q[1] < Tail(q)[i] /\ Tail(q)[i] + InHand(s) <= ordinal[s]
      BY <1>0, <2>0, <3>1 DEF SourceOK, InOrder
    <3>3. \A i, j \in 1 .. Len(q) - 1 : i < j => Tail(q)[i] < Tail(q)[j]
      BY <1>0, <2>0, <3>1 DEF SourceOK, InOrder
    <3>4. q[1] + InHand(s) <= ordinal[s] /\ Len(q) - 1 <= ChanCap
      BY <1>0, <2>0 DEF SourceOK, InOrder
    <3> QED
      BY <2>0, <2>2, <2>3, <3>2, <3>3, <3>4 DEF InOrder
  <2>6. NoGaps(s)'
    <3> SUFFICES ASSUME s \notin LiveSources PROVE NoGaps(s)'
      BY DEF NoGaps
    <3>1. /\ lost[s] = 0 /\ given[s] = received[s]
          /\ \A i \in 1 .. Len(q) : q[i] = given[s] + i
      BY <1>0 DEF SourceOK, NoGaps
    <3>2. q[1] = given[s] + 1
      BY <1>0, <2>0, <3>1
    <3>3. ASSUME NEW i \in 1 .. Len(q) - 1 PROVE Tail(q)[i] = q[1] + i
      <4>1. i + 1 \in 1 .. Len(q) /\ i \in Nat
        BY <1>n
      <4>2. Tail(q)[i] = given[s] + (i + 1)
        BY <2>0, <3>1, <4>1
      <4>3. given[s] \in Nat /\ i \in Int
        BY <1>0, <4>1
      <4>4. given[s] + (i + 1) = (given[s] + 1) + i
        BY <4>3
      <4> QED
        BY <3>2, <4>2, <4>4
    <3> QED
      BY <1>0, <2>0, <2>2, <3>1, <3>2, <3>3 DEF NoGaps
  <2>7. OverIsEmpty(s)'
    BY <1>0, <2>0, <2>2 DEF SourceOK, OverIsEmpty
  <2> QED
    BY <1>0, <1>6, <2>1, <2>4, <2>5, <2>6, <2>7, OneSourceAtATime
       DEF SourceTypeOK, SourceOK, ReceiveFrame
<1>7. ASSUME ReceiveEnd(s) PROVE SourceInv'
  <2>1. SourceTypeOK'
    BY <1>0, <1>7 DEF SourceTypeOK, ReceiveEnd
  <2>2. SourceOK(s)'
    BY <1>0, <1>7 DEF SourceTypeOK, ReceiveEnd, SourceOK, Accounted, FrameCount, InHand,
                      InOrder, NoGaps, OverIsEmpty
  <2> QED
    BY <1>0, <1>7, <2>1, <2>2, OneSourceAtATime DEF SourceTypeOK, ReceiveEnd
<1> QED
  BY <1>1, <1>2, <1>3, <1>4, <1>5, <1>6, <1>7 DEF SourceLoop, ReaderStep

(* The invariant is inductive. *)
LEMMA SourceNextInv == SourceInv /\ [SourceNext]_sourceVars => SourceInv'
<1> SUFFICES ASSUME SourceInv, [SourceNext]_sourceVars PROVE SourceInv'
  OBVIOUS
<1>1. CASE SourceNext
  BY <1>1, StepInv, CloseInv DEF SourceNext
<1>2. CASE UNCHANGED sourceVars
  BY <1>2 DEF sourceVars, SourceInv, SourceTypeOK, SourceOK, Accounted, FrameCount, InHand,
              InOrder, NoGaps, OverIsEmpty
<1> QED
  BY <1>1, <1>2

LEMMA SourceAlways == SourceSpec => []SourceInv
  BY SourceInitInv, SourceNextInv, PTL DEF SourceSpec

(* Every frame a source reports as captured was received, waits in the     *)
(* channel, is being handed over or is reported as dropped.                *)
THEOREM CountersHonest == SourceSpec => []FramesAccounted
  BY SourceAlways, SourceInvImplies, PTL

(* The channel respects its capacity and the order of capture. *)
THEOREM ChannelInOrder == SourceSpec => []QueueInOrder
  BY SourceAlways, SourceInvImplies, PTL

(* A replayed file reaches its reader without a gap. *)
THEOREM ReplayComplete == SourceSpec => []ReplayHasNoGaps
  BY SourceAlways, SourceInvImplies, PTL

(* The two real sources implement the feed of the Source interface. *)
THEOREM SourcesImplementFeed == SourceSpec => ImplementsFeed
<1>1. SourceInit => Promised!FeedInit
  BY DEF SourceInit, Promised!FeedInit
<1>2. SourceInv /\ [SourceNext]_sourceVars => [Promised!FeedNext]_(Promised!feedVars)
  <2> SUFFICES ASSUME SourceInv, [SourceNext]_sourceVars
               PROVE  [Promised!FeedNext]_(Promised!feedVars)
    OBVIOUS
  <2>1. ASSUME NEW s \in Sources, ReceiveFrame(s) PROVE Promised!Deliver(s)
    <3>1. /\ queue[s] \in Seq(Nat) /\ queue[s] # <<>> /\ SourceOK(s)
          /\ given \in [Sources -> Nat]
      BY <2>1 DEF ReceiveFrame, SourceInv, SourceTypeOK
    <3>2. Head(queue[s]) = queue[s][1] /\ Len(queue[s]) >= 1 /\ queue[s][1] \in Nat
      BY <3>1, HeadTailProperties, EmptySeq, ElementOfSeq
    <3>3. given'[s] = queue[s][1] /\ given' = [given EXCEPT ![s] = given'[s]] /\ over' = over
      BY <2>1, <3>1, <3>2 DEF ReceiveFrame
    <3>4. given[s] < queue[s][1] /\ (s \notin LiveSources => queue[s][1] = given[s] + 1)
      BY <3>1, <3>2 DEF SourceOK, InOrder, NoGaps
    <3>5. ~over[s]
      BY <3>1 DEF SourceOK, OverIsEmpty
    <3> QED
      BY <3>1, <3>2, <3>3, <3>4, <3>5 DEF Promised!Deliver
  <2>2. ASSUME NEW s \in Sources, ReceiveEnd(s) PROVE Promised!Finish(s)
    BY <2>2 DEF ReceiveEnd, Promised!Finish
  <2>3. ASSUME NEW s \in Sources, NEW S,
               OpenSource(s) \/ SourceLoop(s) \/ CloseSources(S)
        PROVE  UNCHANGED Promised!feedVars
    BY <2>3 DEF OpenSource, SourceLoop, CloseSources, CheckDone, ReadFrame,
                ReadNothing, ReadFails, SendFrame, AbandonFrame, DropFrame, Promised!feedVars
  <2>4. CASE UNCHANGED sourceVars
    BY <2>4 DEF sourceVars, Promised!feedVars
  <2>5. CASE SourceNext
    <3>1. ASSUME NEW s \in Sources, OpenSource(s) \/ SourceLoop(s) \/ ReaderStep(s)
          PROVE  [Promised!FeedNext]_(Promised!feedVars)
      BY <2>1, <2>2, <2>3, <3>1 DEF ReaderStep, Promised!FeedNext
    <3>2. ASSUME NEW S \in SUBSET Sources, CloseSources(S)
          PROVE  UNCHANGED Promised!feedVars
      BY <3>2 DEF CloseSources, Promised!feedVars
    <3> QED
      BY <2>5, <3>1, <3>2 DEF SourceNext
  <2> QED
    BY <2>4, <2>5
<1> QED
  BY <1>1, <1>2, SourceAlways, PTL DEF SourceSpec, ImplementsFeed, Promised!FeedSpec
=============================================================================
