----------------------- MODULE AnalyzerSessionProofs -----------------------
(***************************************************************************)
(* What the analyzer's session guarantees for every set of requests,       *)
(* captures, subscribers and viewers and every size of its buffers.        *)
(***************************************************************************)
EXTENDS AnalyzerSession, CaptureSourceProofs, FiniteSetTheorems

LEMMA ClosingIsASourceStep == ASSUME NEW S, CloseSources(S) PROVE SourceNext
<1>1. CloseSources(S \cap Sources)
  BY DEF CloseSources
<1> QED
  BY <1>1 DEF SourceNext

(* Whatever the session does to its sources is what they allow. *)
LEMMA NextIsSourceStep == ASSUME [Next]_vars PROVE [SourceNext]_sourceVars
<1>1. ASSUME NEW t \in Starters, NEW c \in Sources, OpenNew(t, c) PROVE SourceNext
  BY <1>1 DEF OpenNew, SourceNext
<1>2. ASSUME NEW t \in Requests, RequestStep(t) PROVE [SourceNext]_sourceVars
  BY <1>2, ClosingIsASourceStep
     DEF RequestStep, RejectFilter, StopTakesSource, StopClosesSink, StopClosesSource,
         StopFails, ReadConsumeDone, Install, PublishReport
<1>3. ASSUME NEW c \in Sources, ConsumerStep(c) PROVE [SourceNext]_sourceVars
  BY <1>3 DEF ConsumerStep, TakeNames, TakeFrame, Record, Persist, FanOut, EndRange,
              FinishConsume, SourceNext, ReaderStep
<1>4. ASSUME NEW c \in Sources, SourceLoop(c) PROVE SourceNext
  BY <1>4 DEF SourceNext
<1>5. ASSUME NEW u \in Subscribers, SubscriberStep(u) PROVE UNCHANGED sourceVars
  BY <1>5 DEF SubscriberStep, Subscribe, ReadFeed, Unsubscribe, CloseFeed
<1>6. ASSUME NEW v \in Viewers, ViewerStep(v) PROVE UNCHANGED sourceVars
  BY <1>6 DEF ViewerStep, FetchPacket, Attribute
<1>7. CASE UNCHANGED vars
  BY <1>7 DEF vars
<1>8. ASSUME NEW s \in Sources, NEW n \in 0 .. MaxFrames, DiskFault(s, n) PROVE UNCHANGED sourceVars
  BY <1>8 DEF DiskFault
<1> QED
  BY <1>1, <1>2, <1>3, <1>4, <1>5, <1>6, <1>7, <1>8 DEF Next

(* The session drives its sources as CaptureSource specifies, so all that  *)
(* is proved of them holds of the captures of a session.                   *)
THEOREM SessionDrivesSources == Spec => SourceSpec
<1>1. Init => SourceInit
  BY DEF Init
<1>2. [Next]_vars => [SourceNext]_sourceVars
  BY NextIsSourceStep
<1> QED
  BY <1>1, <1>2, PTL DEF Spec, SourceSpec

-----------------------------------------------------------------------------
(* Type correctness: one lemma for each kind of step. *)
GroupTypes == ControlTypeOK /\ RetainedTypeOK /\ SinkTypeOK /\ FeedTypeOK
              /\ ConsumerTypeOK /\ RequestTypeOK /\ ViewerTypeOK

LEMMA InitTypes == Init => TypeOK
<1> SUFFICES ASSUME Init PROVE TypeOK
  OBVIOUS
<1> USE SessionAssumption DEF Init
<1>1. SourceTypeOK
  BY SourceInitInv DEF SourceInv
<1>2. ControlTypeOK /\ SinkTypeOK /\ FeedTypeOK
  BY EmptySeq DEF ControlTypeOK, SinkTypeOK, FeedTypeOK, SourceOrNone, NothingSaved
<1>3. RetainedTypeOK
  BY EmptySeq DEF RetainedTypeOK
<1>4. ConsumerTypeOK
  BY DEF ConsumerTypeOK, ConsumerSteps, SourceOrNone
<1>5. RequestTypeOK /\ ViewerTypeOK
  BY DEF RequestTypeOK, ViewerTypeOK, RequestSteps, SourceOrNone
<1> QED
  BY <1>1, <1>2, <1>3, <1>4, <1>5 DEF TypeOK

(* What a sink holds, and what it has been offered.                        *)
Contents == [current : SUBSET Frame, previous : SUBSET Frame,
             removed : SUBSET Frame, lost : SUBSET Frame]
FramesOf(w) == w.current \cup w.previous \cup w.removed \cup w.lost

(* A file is older than the next one, and a file removed than both kept.   *)
Aged(w) ==
  /\ \A f \in w.removed, g \in w.current \cup w.previous : f.no < g.no
  /\ \A f \in w.previous, g \in w.current : f.no < g.no

(* The four things a sink that is not closed may make of a frame.          *)
Outcomes(w, f) == {Appended(w, f), Missed(w, f), Appended(Rotated(w), f), Missed(Rotated(w), f)}

LEMMA OutcomeOf ==
  ASSUME NEW w \in Contents, NEW f \in Frame, NEW v \in Outcomes(w, f)
  PROVE  /\ v \in Contents
         /\ FramesOf(v) \subseteq FramesOf(w) \cup {f}
         /\ Aged(w) /\ (\A g \in FramesOf(w) : g.no < f.no)
              => Aged(v) /\ FramesOf(v) = FramesOf(w) \cup {f}
<1>1. Rotated(w) \in Contents /\ FramesOf(Rotated(w)) = FramesOf(w) /\ (Aged(w) => Aged(Rotated(w)))
  BY DEF Rotated, Contents, FramesOf, Aged
<1>2. ASSUME NEW x \in Contents, v = Appended(x, f) \/ v = Missed(x, f)
      PROVE  v \in Contents /\ FramesOf(v) \subseteq FramesOf(x) \cup {f}
  BY <1>2 DEF Appended, Missed, Contents, FramesOf
<1>3. ASSUME NEW x \in Contents, v = Appended(x, f) \/ v = Missed(x, f),
             Aged(x), \A g \in FramesOf(x) : g.no < f.no
      PROVE  Aged(v) /\ FramesOf(v) = FramesOf(x) \cup {f}
  <2>1. \A g \in FramesOf(x) : g \in Frame /\ g.no \in Nat /\ f.no \in Nat /\ g.no # f.no
    BY <1>3 DEF Contents, FramesOf, Frame
  <2>2. CASE v = Appended(x, f)
    <3>1. {g \in x.current : g.no # f.no} = x.current
      BY <2>1 DEF FramesOf
    <3>2. v = [x EXCEPT !.current = x.current \cup {f}]
      BY <2>2, <3>1 DEF Appended
    <3>3. /\ v.current = x.current \cup {f} /\ v.previous = x.previous
          /\ v.removed = x.removed /\ v.lost = x.lost
      BY <3>2 DEF Contents
    <3> QED
      BY <1>3, <3>3 DEF Aged, FramesOf
  <2>3. CASE v = Missed(x, f)
    <3>1. /\ v.current = x.current /\ v.previous = x.previous
          /\ v.removed = x.removed /\ v.lost = x.lost \cup {f}
      BY <2>3 DEF Missed, Contents
    <3> QED
      BY <1>3, <3>1 DEF Aged, FramesOf
  <2> QED
    BY <1>3, <2>2, <2>3
<1> QED
  BY <1>1, <1>2, <1>3 DEF Outcomes

LEMMA SinkWrites ==
  ASSUME SinkTypeOK, NEW f \in Frame, SinkWrite(f), sink' = sink
  PROVE  /\ SinkTypeOK'
         /\ \A c \in Sources : c # sink => saved'[c] = saved[c]
         /\ \A c \in Sources : c = sink => FramesOf(saved'[c]) \subseteq FramesOf(saved[c]) \cup {f}
         /\ sink \in Sources /\ sinkState[sink] # "closed" =>
              saved'[sink] \in Outcomes(saved[sink], f) /\ sinkState'[sink] # "closed"
<1>1. sinkState \in [Sources -> {"none", "open", "jammed", "stopped", "closed"}]
      /\ saved \in [Sources -> Contents] /\ sink \in SourceOrNone
  BY DEF SinkTypeOK, Contents
<1>2. CASE SinkNow = "closed"
  <2>1. UNCHANGED <<sinkState, saved>>
    BY <1>2 DEF SinkWrite
  <2>2. sink \in Sources => sinkState[sink] = "closed"
    BY <1>2, SessionAssumption DEF SinkNow
  <2> QED
    BY <2>1, <2>2 DEF SinkTypeOK
<1>3. CASE SinkNow # "closed"
  <2>1. sink \in Sources
    BY <1>1, <1>3 DEF SinkNow, SourceOrNone
  <2>2. PICK state \in {"open", "stopped"}, v \in Outcomes(saved[sink], f) : SinkBecomes(state, v)
    BY <1>3 DEF SinkWrite, Outcomes
  <2>3. saved[sink] \in Contents
    BY <1>1, <2>1
  <2>4. v \in Contents /\ FramesOf(v) \subseteq FramesOf(saved[sink]) \cup {f}
    BY <2>3, OutcomeOf
  <2>5. /\ saved'[sink] = v /\ sinkState'[sink] = state
        /\ saved' \in [Sources -> Contents]
        /\ sinkState' \in [Sources -> {"none", "open", "jammed", "stopped", "closed"}]
        /\ \A c \in Sources : c # sink => saved'[c] = saved[c]
    BY <1>1, <2>1, <2>2, <2>4 DEF SinkBecomes
  <2>6. SinkTypeOK'
    BY <1>1, <2>5 DEF SinkTypeOK, Contents, SourceOrNone
  <2> QED
    BY <2>2, <2>4, <2>5, <2>6
<1> QED
  BY <1>2, <1>3

(* A fault moves frames from the current file to those lost.               *)
LEMMA SinkFaults ==
  ASSUME SinkTypeOK, NEW s \in Sources, NEW n \in 0 .. MaxFrames, DiskFault(s, n)
  PROVE  /\ SinkTypeOK' /\ sink' = sink
         /\ \A c \in Sources : /\ FramesOf(saved'[c]) = FramesOf(saved[c])
                               /\ saved[c] = NothingSaved => saved'[c] = NothingSaved
                               /\ Aged(saved[c]) => Aged(saved'[c])
                               /\ sinkState[c] # "closed" => sinkState'[c] # "closed"
<1> DEFINE w == saved[s]
           v == [w EXCEPT !.current = {f \in w.current : f.no <= n},
                          !.lost = w.lost \cup {f \in w.current : f.no > n}]
<1>1. sinkState \in [Sources -> {"none", "open", "jammed", "stopped", "closed"}]
      /\ saved \in [Sources -> Contents] /\ sink \in SourceOrNone
  BY DEF SinkTypeOK, Contents
<1>2. w \in Contents /\ n \in Nat
  BY <1>1, SourceAssumption
<1>3. /\ saved' = [saved EXCEPT ![s] = v]
      /\ sinkState' = [sinkState EXCEPT ![s] = "jammed"] /\ sink' = sink /\ sinkState[s] = "open"
  BY <1>1 DEF DiskFault
<1>4. /\ v.current = {f \in w.current : f.no <= n} /\ v.previous = w.previous
      /\ v.removed = w.removed /\ v.lost = w.lost \cup {f \in w.current : f.no > n}
      /\ v \in Contents
  BY <1>2 DEF Contents
<1> HIDE DEF v
<1>5. v = [current |-> v.current, previous |-> v.previous, removed |-> v.removed, lost |-> v.lost]
  BY <1>4 DEF Contents
<1>6. saved'[s] = v /\ \A c \in Sources : c # s => saved'[c] = saved[c]
  BY <1>1, <1>3
<1>7. SinkTypeOK'
  BY <1>1, <1>3, <1>4 DEF SinkTypeOK, Contents
<1>8. FramesOf(v) = FramesOf(w)
  <2>1. \A f \in w.current : f.no <= n \/ f.no > n
    BY <1>2 DEF Contents, Frame
  <2> QED
    BY <1>4, <2>1 DEF FramesOf
<1>9. Aged(w) => Aged(v)
  BY <1>4 DEF Aged
<1>10. w = NothingSaved => v = NothingSaved
  <2> SUFFICES ASSUME w = NothingSaved PROVE v = NothingSaved
    OBVIOUS
  <2>1. w.current = {} /\ w.previous = {} /\ w.removed = {} /\ w.lost = {}
    BY DEF NothingSaved
  <2>2. v.current = {} /\ v.previous = {} /\ v.removed = {} /\ v.lost = {}
    BY <1>4, <2>1
  <2> QED
    BY <1>5, <2>2 DEF NothingSaved
<1>11. \A c \in Sources : sinkState[c] # "closed" => sinkState'[c] # "closed"
  BY <1>1, <1>3
<1> QED
  BY <1>3, <1>6, <1>7, <1>8, <1>9, <1>10, <1>11

(* The rest of the session does not see a fault.                           *)
LEMMA FaultIsQuiet ==
  ASSUME NEW s, NEW n, DiskFault(s, n)
  PROVE  UNCHANGED <<sink, sourceVars, controlVars, retainedVars, feedVars, consumerVars,
                     requestVars, viewerVars>>
  BY DEF DiskFault

LEMMA RequestTypes ==
  ASSUME TypeOK, NEW t \in Requests, RequestStep(t) PROVE GroupTypes'
<1>1. ASSUME RejectFilter(t) \/ StopTakesSource(t) \/ StopClosesSink(t)
             \/ StopClosesSource(t) \/ StopFails(t) \/ ReadConsumeDone(t)
      PROVE  GroupTypes'
  <2>1. ControlTypeOK' /\ RetainedTypeOK' /\ FeedTypeOK' /\ ConsumerTypeOK' /\ ViewerTypeOK'
    BY <1>1 DEF TypeOK, ControlTypeOK, RetainedTypeOK, FeedTypeOK, ConsumerTypeOK,
         ViewerTypeOK, RejectFilter, StopTakesSource, StopClosesSink, StopClosesSource,
         StopFails, ReadConsumeDone, controlVars, retainedVars, feedVars, consumerVars,
         viewerVars, SourceOrNone
  <2>2. SinkTypeOK'
    BY <1>1 DEF TypeOK, SinkTypeOK, SinkClosed, RejectFilter, StopTakesSource,
         StopClosesSink, StopClosesSource, StopFails, ReadConsumeDone, sinkVars, SourceOrNone
  <2>3. RequestTypeOK'
    BY <1>1 DEF TypeOK, RequestTypeOK, ControlTypeOK, Step, RequestSteps, RejectFilter,
         StopTakesSource, StopClosesSink, StopClosesSource, StopFails, ReadConsumeDone
  <2> QED
    BY <2>1, <2>2, <2>3 DEF GroupTypes
<1>2. ASSUME NEW persisted \in BOOLEAN, Install(t, persisted) PROVE GroupTypes'
  <2>1. ControlTypeOK' /\ FeedTypeOK' /\ ConsumerTypeOK' /\ ViewerTypeOK'
    BY <1>2 DEF TypeOK, ControlTypeOK, FeedTypeOK, ConsumerTypeOK, RequestTypeOK,
         ConsumerSteps, ViewerTypeOK, Install, feedVars, viewerVars, SourceOrNone
  <2>2. RetainedTypeOK'
    BY <1>2, EmptySeq DEF RetainedTypeOK, Install
  <2>3. SinkTypeOK'
    BY <1>2 DEF TypeOK, SinkTypeOK, RequestTypeOK, SinkClosed, Install, SourceOrNone
  <2>4. RequestTypeOK'
    BY <1>2 DEF TypeOK, RequestTypeOK, Step, RequestSteps, Install
  <2> QED
    BY <2>1, <2>2, <2>3, <2>4 DEF GroupTypes
<1>3. ASSUME NEW analyzed \in BOOLEAN, PublishReport(t, analyzed) PROVE GroupTypes'
  BY <1>3 DEF TypeOK, GroupTypes, ControlTypeOK, RetainedTypeOK, SinkTypeOK, FeedTypeOK,
       ConsumerTypeOK, ViewerTypeOK, RequestTypeOK, Step, RequestSteps, PublishReport,
       retainedVars, sinkVars, feedVars, consumerVars, viewerVars, SourceOrNone
<1> QED
  BY <1>1, <1>2, <1>3 DEF RequestStep

(* A frame entering the ring keeps it a sequence of frames no longer than  *)
(* RingSize, of which the new frame is the last.                           *)
LEMMA KeptProperties ==
  ASSUME NEW f \in Frame, ring \in Seq(Frame), Len(ring) <= RingSize
  PROVE  /\ Kept(f) \in Seq(Frame)
         /\ Excess(f) \in {0, 1}
         /\ Len(Kept(f)) = Len(ring) + 1 - Excess(f)
         /\ Len(Kept(f)) <= RingSize
         /\ \A i \in 1 .. Len(Kept(f)) : Kept(f)[i] = Append(ring, f)[i + Excess(f)]
<1> USE SessionAssumption
<1> DEFINE pushed == Append(ring, f)
<1>1. pushed \in Seq(Frame) /\ Len(pushed) = Len(ring) + 1 /\ Len(ring) \in Nat
  BY AppendProperties, LenProperties
<1>2. Excess(f) \in {0, 1} /\ Len(ring) + 1 - Excess(f) <= RingSize
  BY <1>1 DEF Excess
<1>3. Excess(f) + 1 \in 1 .. Len(pushed) + 1 /\ Len(pushed) \in 0 .. Len(pushed)
  BY <1>1, <1>2
<1>4. Kept(f) = SubSeq(pushed, Excess(f) + 1, Len(pushed))
  BY <1>1 DEF Kept
<1> HIDE DEF pushed
<1>5. /\ Kept(f) \in Seq(Frame)
      /\ Len(Kept(f)) = Len(pushed) - Excess(f)
      /\ \A i \in 1 .. Len(pushed) - Excess(f) : Kept(f)[i] = pushed[i + Excess(f)]
  BY <1>1, <1>2, <1>3, <1>4, SubSeqProperties
<1> QED
  BY <1>1, <1>2, <1>5 DEF pushed

LEMMA ConsumerTypes ==
  ASSUME TypeOK, Len(ring) <= RingSize, NEW c \in Sources, ConsumerStep(c)
  PROVE  GroupTypes'
<1>1. ASSUME TakeNames(c) \/ EndRange(c) \/ FinishConsume(c) PROVE GroupTypes'
  <2>1. ConsumerTypeOK'
    BY <1>1 DEF TypeOK, ControlTypeOK, ConsumerTypeOK, ConsumerSteps, TakeNames, EndRange,
         FinishConsume, CGoto
  <2>2. ControlTypeOK'
    BY <1>1 DEF TypeOK, ControlTypeOK, TakeNames, EndRange, FinishConsume, controlVars
  <2> QED
    BY <1>1, <2>1, <2>2 DEF TypeOK, GroupTypes, RetainedTypeOK, SinkTypeOK, FeedTypeOK,
         ViewerTypeOK, RequestTypeOK, TakeNames, EndRange, FinishConsume, retainedVars,
         sinkVars, feedVars, requestVars, viewerVars
<1>2. ASSUME TakeFrame(c) PROVE GroupTypes'
  <2>1. [cap |-> c, no |-> Head(queue[c])] \in Frame
    BY <1>2, HeadTailProperties, EmptySeq
       DEF TypeOK, SourceTypeOK, TakeFrame, ReceiveFrame, Frame
  <2>2. ConsumerTypeOK'
    BY <1>2, <2>1 DEF TypeOK, ConsumerTypeOK, ConsumerSteps, TakeFrame, CGoto
  <2> QED
    BY <1>2, <2>2 DEF TypeOK, GroupTypes, ControlTypeOK, RetainedTypeOK, SinkTypeOK,
         FeedTypeOK, ViewerTypeOK, RequestTypeOK, TakeFrame, controlVars, retainedVars,
         sinkVars, feedVars, requestVars, viewerVars
<1>3. ASSUME NEW matches \in BOOLEAN, Record(c, matches) PROVE GroupTypes'
  <2>1. cframe[c] \in Frame /\ cframe[c].no \in Nat
    BY <1>3 DEF TypeOK, ConsumerTypeOK, Record, Frame
  <2>2. RetainedTypeOK'
    <3>1. ring' \in Seq(Frame) /\ dropped' \in Nat /\ tally' \in Nat
      <4>1. ring \in Seq(Frame) /\ dropped \in Nat /\ tally \in Nat
        BY DEF TypeOK, RetainedTypeOK
      <4>2. Kept(cframe[c]) \in Seq(Frame) /\ Excess(cframe[c]) \in {0, 1}
        BY <2>1, <4>1, KeptProperties
      <4>3. ring' = Kept(cframe[c]) /\ tally' = tally + 1
            /\ dropped' = dropped + Excess(cframe[c])
        BY <1>3 DEF Record
      <4> QED
        BY <4>1, <4>2, <4>3
    <3>2. /\ DOMAIN procCache' \subseteq Nat
          /\ \A n \in DOMAIN procCache' : procCache'[n] \in Sources
      BY <1>3, <2>1 DEF TypeOK, RetainedTypeOK, Record
    <3> QED
      BY <3>1, <3>2 DEF RetainedTypeOK
  <2>3. ConsumerTypeOK'
    BY <1>3 DEF TypeOK, ConsumerTypeOK, FeedTypeOK, ConsumerSteps, Record, CGoto
  <2> QED
    BY <1>3, <2>2, <2>3 DEF TypeOK, GroupTypes, ControlTypeOK, SinkTypeOK, FeedTypeOK,
         ViewerTypeOK, RequestTypeOK, Record, controlVars, sinkVars, feedVars,
         requestVars, viewerVars
<1>4. ASSUME Persist(c) PROVE GroupTypes'
  <2>1. cframe[c] \in Frame
    BY <1>4 DEF TypeOK, ConsumerTypeOK, Persist
  <2>2. SinkTypeOK'
    BY <1>4, <2>1, SinkWrites DEF TypeOK, Persist
  <2>3. ConsumerTypeOK'
    BY <1>4 DEF TypeOK, ConsumerTypeOK, ConsumerSteps, Persist, CGoto
  <2> QED
    BY <1>4, <2>2, <2>3 DEF TypeOK, GroupTypes, ControlTypeOK, RetainedTypeOK, FeedTypeOK,
         ViewerTypeOK, RequestTypeOK, Persist, controlVars, retainedVars, feedVars,
         requestVars, viewerVars
<1>5. ASSUME NEW u \in Subscribers, FanOut(c, u) PROVE GroupTypes'
  <2>1. cframe[c] \in Frame
    BY <1>5 DEF TypeOK, ConsumerTypeOK, FanOut
  <2>2. FeedTypeOK'
    BY <1>5, <2>1, AppendProperties DEF TypeOK, FeedTypeOK, FanOut
  <2>3. ConsumerTypeOK' /\ ControlTypeOK'
    BY <1>5 DEF TypeOK, ConsumerTypeOK, ControlTypeOK, ConsumerSteps, FanOut, CGoto
  <2> QED
    BY <1>5, <2>2, <2>3 DEF TypeOK, GroupTypes, RetainedTypeOK, SinkTypeOK,
         ViewerTypeOK, RequestTypeOK, FanOut, retainedVars, sinkVars, requestVars, viewerVars
<1> QED
  BY <1>1, <1>2, <1>3, <1>4, <1>5 DEF ConsumerStep

LEMMA SubscriberTypes ==
  ASSUME TypeOK, NEW u \in Subscribers, SubscriberStep(u) PROVE GroupTypes'
<1>1. FeedTypeOK'
  <2>1. ASSUME ReadFeed(u) PROVE Tail(feed[u]) \in Seq(Frame)
    BY <2>1, HeadTailProperties, EmptySeq DEF TypeOK, FeedTypeOK, ReadFeed
  <2> QED
    BY <2>1 DEF TypeOK, FeedTypeOK, SubscriberStep, Subscribe, ReadFeed, Unsubscribe, CloseFeed
<1> QED
  BY <1>1 DEF TypeOK, GroupTypes, ControlTypeOK, RetainedTypeOK, SinkTypeOK, ConsumerTypeOK,
       ViewerTypeOK, RequestTypeOK, SubscriberStep, Subscribe, ReadFeed, Unsubscribe,
       CloseFeed, controlVars, retainedVars, sinkVars, consumerVars, requestVars, viewerVars

LEMMA ViewerTypes ==
  ASSUME TypeOK, NEW v \in Viewers, ViewerStep(v) PROVE GroupTypes'
<1>1. ViewerTypeOK'
  <2>1. ASSUME Attribute(v) PROVE ViewerTypeOK'
    BY <2>1 DEF TypeOK, ViewerTypeOK, RetainedTypeOK, Attribute, SourceOrNone
  <2>2. ASSUME NEW no \in 1 .. MaxFrames, FetchPacket(v, no) PROVE ViewerTypeOK'
    <3>1. no \in Nat
      BY SourceAssumption
    <3>2. PacketAnswers(no) \subseteq Frame
      <4>1. ASSUME InRing(no) PROVE ring[RingIndex(no)] \in Frame
        <5>1. ring \in Seq(Frame) /\ ring # <<>> /\ Len(ring) \in Nat
          BY <4>1, LenProperties DEF InRing, TypeOK, RetainedTypeOK
        <5>2. ring[1] \in Frame
          BY <5>1, ElementOfSeq, EmptySeq
        <5>3. ring[1].no \in Nat
          BY <5>2 DEF Frame
        <5>4. RingIndex(no) \in 1 .. Len(ring)
          BY <3>1, <4>1, <5>1, <5>3 DEF InRing, RingIndex
        <5> QED
          BY <5>1, <5>4, ElementOfSeq
      <4>2. ReadBack(no) \subseteq Frame
        <5>1. CASE SinkNow = "closed"
          BY <5>1 DEF ReadBack
        <5>2. CASE SinkNow # "closed"
          <6>1. sink \in Sources
            BY <5>2 DEF SinkNow, TypeOK, SinkTypeOK, SourceOrNone
          <6>2. saved[sink].current \subseteq Frame /\ saved[sink].previous \subseteq Frame
            BY <6>1 DEF TypeOK, SinkTypeOK
          <6> QED
            BY <6>2 DEF ReadBack
        <5> QED
          BY <5>1, <5>2
      <4> QED
        BY <4>1, <4>2 DEF PacketAnswers
    <3> QED
      BY <2>2, <3>1, <3>2 DEF TypeOK, ViewerTypeOK, FetchPacket, SourceOrNone
  <2> QED
    BY <2>1, <2>2 DEF ViewerStep
<1> QED
  BY <1>1 DEF TypeOK, GroupTypes, ControlTypeOK, RetainedTypeOK, SinkTypeOK, FeedTypeOK,
       ConsumerTypeOK, RequestTypeOK, ViewerStep, FetchPacket, Attribute,
       controlVars, retainedVars, sinkVars, feedVars, consumerVars, requestVars

-----------------------------------------------------------------------------
(* Bounded retention, for any number of requests. The two invariants and   *)
(* the types are inductive together.                                       *)
RetentionInv == TypeOK /\ SourceInv /\ RingAccounted /\ CacheCannotOutgrowRing

(* Recording a frame moves one frame from the ring to the evicted ones, or *)
(* none, and forgets the attribution of exactly the one that leaves.       *)
LEMMA RecordRetains ==
  ASSUME TypeOK, RingAccounted, CacheCannotOutgrowRing,
         NEW c \in Sources, NEW matches \in BOOLEAN, Record(c, matches)
  PROVE  RingAccounted' /\ CacheCannotOutgrowRing'
<1> DEFINE f == cframe[c]
<1>1. /\ f \in Frame /\ ring \in Seq(Frame) /\ Len(ring) \in Nat /\ RingSize \in Nat \ {0}
      /\ dropped \in Nat /\ tally \in Nat
  BY SessionAssumption, LenProperties DEF Record, TypeOK, ConsumerTypeOK, RetainedTypeOK
<1>2. /\ ring' = Kept(f) /\ tally' = tally + 1 /\ dropped' = dropped + Excess(f)
      /\ DOMAIN procCache' = (DOMAIN procCache \ Evicted(f)) \cup {f.no}
  BY DEF Record
<1>3. /\ Excess(f) \in {0, 1}
      /\ Len(Kept(f)) = Len(ring) + 1 - Excess(f)
      /\ Len(Kept(f)) <= RingSize
      /\ \A i \in 1 .. Len(Kept(f)) : Kept(f)[i] = Append(ring, f)[i + Excess(f)]
  BY <1>1, KeptProperties DEF RingAccounted
<1>4. RingAccounted'
  <2>1. tally = dropped + Len(ring)
    BY DEF RingAccounted
  <2> QED
    BY <1>1, <1>2, <1>3, <2>1 DEF RingAccounted
<1>5. /\ Append(ring, f)[Len(ring) + 1] = f
      /\ \A i \in 1 .. Len(ring) : Append(ring, f)[i] = ring[i]
  BY <1>1, AppendProperties
<1>6. CacheCannotOutgrowRing'
  <2> SUFFICES ASSUME NEW n \in DOMAIN procCache'
               PROVE  \E i \in 1 .. Len(Kept(f)) : Kept(f)[i].no = n
    BY <1>2 DEF CacheCannotOutgrowRing
  <2>1. CASE n = f.no
    <3>1. Excess(f) = 1 => Len(ring) + 1 > RingSize
      BY DEF Excess
    <3>2. Len(Kept(f)) \in 1 .. Len(Kept(f)) /\ Len(Kept(f)) + Excess(f) = Len(ring) + 1
      <4> DEFINE e == Excess(f)  k == Len(Kept(f))  n0 == Len(ring)
      <4>1. n0 \in Nat /\ RingSize \in Nat \ {0} /\ e \in {0, 1} /\ k = n0 + 1 - e
        BY <1>1, <1>3
      <4>2. e = 1 => n0 + 1 > RingSize
        BY <3>1
      <4> HIDE DEF e, k, n0
      <4>3. k \in 1 .. k /\ k + e = n0 + 1
        BY <4>1, <4>2
      <4> QED
        BY <4>3 DEF e, k, n0
    <3> QED
      BY <1>3, <1>5, <2>1, <3>2
  <2>2. CASE n \in DOMAIN procCache /\ n \notin Evicted(f)
    <3>1. PICK j \in 1 .. Len(ring) : ring[j].no = n
      BY <2>2 DEF CacheCannotOutgrowRing
    <3>2. Append(ring, f)[j].no = n
      BY <1>5, <3>1
    <3>3. j \notin 1 .. Excess(f)
      BY <2>2, <3>2 DEF Evicted
    <3>4. j - Excess(f) \in 1 .. Len(Kept(f)) /\ (j - Excess(f)) + Excess(f) = j
      BY <1>1, <1>3, <3>3
    <3> QED
      BY <1>3, <3>2, <3>4
  <2> QED
    BY <1>2, <2>1, <2>2
<1> QED
  BY <1>4, <1>6

LEMMA RetentionStep == RetentionInv /\ [Next]_vars => RetentionInv'
<1> SUFFICES ASSUME RetentionInv, [Next]_vars PROVE RetentionInv'
  OBVIOUS
<1>1. TypeOK /\ RingAccounted /\ CacheCannotOutgrowRing /\ Len(ring) <= RingSize
  BY DEF RetentionInv, RingAccounted
<1>2. SourceInv'
  BY NextIsSourceStep, SourceNextInv DEF RetentionInv
<1>3. TypeOK'
  <2>1. SourceTypeOK'
    BY <1>2 DEF SourceInv
  <2>2. ASSUME UNCHANGED vars PROVE GroupTypes'
    BY <1>1, <2>2 DEF TypeOK, GroupTypes, ControlTypeOK, RetainedTypeOK, SinkTypeOK,
         FeedTypeOK, ConsumerTypeOK, RequestTypeOK, ViewerTypeOK, vars, controlVars,
         retainedVars, sinkVars, feedVars, consumerVars, requestVars, viewerVars
  <2>3. ASSUME NEW t \in Starters, NEW c \in Sources, OpenNew(t, c) PROVE GroupTypes'
    BY <1>1, <2>3 DEF TypeOK, GroupTypes, ControlTypeOK, RetainedTypeOK, SinkTypeOK,
         FeedTypeOK, ConsumerTypeOK, RequestTypeOK, ViewerTypeOK, RequestSteps, OpenNew,
         Step, controlVars, retainedVars, sinkVars, feedVars, consumerVars, viewerVars,
         SourceOrNone, Requests
  <2>4. ASSUME OthersUnchanged PROVE GroupTypes'
    BY <1>1, <2>4 DEF TypeOK, GroupTypes, ControlTypeOK, RetainedTypeOK, SinkTypeOK,
         FeedTypeOK, ConsumerTypeOK, RequestTypeOK, ViewerTypeOK, OthersUnchanged,
         controlVars, retainedVars, sinkVars, feedVars, consumerVars, requestVars, viewerVars
  <2>5. ASSUME NEW s \in Sources, NEW n \in 0 .. MaxFrames, DiskFault(s, n) PROVE GroupTypes'
    <3>1. SinkTypeOK'
      BY <1>1, <2>5, SinkFaults DEF TypeOK
    <3> QED
      BY <1>1, <2>5, <3>1, FaultIsQuiet DEF TypeOK, GroupTypes, ControlTypeOK, RetainedTypeOK,
         FeedTypeOK, ConsumerTypeOK, RequestTypeOK, ViewerTypeOK, controlVars, retainedVars,
         feedVars, consumerVars, requestVars, viewerVars
  <2>6. ASSUME Next PROVE GroupTypes'
    BY <1>1, <2>3, <2>4, <2>5, <2>6, RequestTypes, ConsumerTypes, SubscriberTypes, ViewerTypes
       DEF Next
  <2>7. GroupTypes'
    BY <2>2, <2>6
  <2> QED
    BY <2>1, <2>7 DEF TypeOK, GroupTypes
<1>4. RingAccounted' /\ CacheCannotOutgrowRing'
  <2>1. ASSUME UNCHANGED retainedVars PROVE RingAccounted' /\ CacheCannotOutgrowRing'
    BY <1>1, <2>1 DEF retainedVars, RingAccounted, CacheCannotOutgrowRing
  <2>2. ASSUME NEW t \in Requests, NEW persisted \in BOOLEAN, Install(t, persisted)
        PROVE  RingAccounted' /\ CacheCannotOutgrowRing'
    <3>1. ring' = <<>> /\ dropped' = 0 /\ tally' = 0 /\ procCache' = <<>>
      BY <2>2 DEF Install
    <3> QED
      BY <3>1, SessionAssumption, EmptySeq DEF RingAccounted, CacheCannotOutgrowRing
  <2>3. ASSUME NEW t \in Requests, RequestStep(t)
        PROVE  RingAccounted' /\ CacheCannotOutgrowRing'
    BY <2>1, <2>2, <2>3 DEF RequestStep, RejectFilter, StopTakesSource, StopClosesSink,
         StopClosesSource, StopFails, ReadConsumeDone, PublishReport
  <2>4. ASSUME NEW c \in Sources, ConsumerStep(c)
        PROVE  RingAccounted' /\ CacheCannotOutgrowRing'
    BY <1>1, <2>1, <2>4, RecordRetains
       DEF ConsumerStep, TakeNames, TakeFrame, Persist, FanOut, EndRange, FinishConsume
  <2>5. ASSUME NEW u \in Subscribers, SubscriberStep(u) PROVE UNCHANGED retainedVars
    BY <2>5 DEF SubscriberStep, Subscribe, ReadFeed, Unsubscribe, CloseFeed
  <2>6. ASSUME NEW v \in Viewers, ViewerStep(v) PROVE UNCHANGED retainedVars
    BY <2>6 DEF ViewerStep, Attribute, FetchPacket
  <2>7. CASE UNCHANGED vars
    BY <2>1, <2>7 DEF vars
  <2>8. ASSUME NEW s \in Sources, NEW n \in 0 .. MaxFrames, DiskFault(s, n) PROVE UNCHANGED retainedVars
    BY <2>8 DEF DiskFault
  <2>9. CASE Next
    BY <2>1, <2>3, <2>4, <2>5, <2>6, <2>8, <2>9 DEF Next, OpenNew, OthersUnchanged
  <2> QED
    BY <2>7, <2>9
<1> QED
  BY <1>1, <1>2, <1>3, <1>4 DEF RetentionInv

LEMMA RetentionAlways == Spec => []RetentionInv
<1>1. Init => RetentionInv
  <2> SUFFICES ASSUME Init PROVE RetentionInv
    OBVIOUS
  <2>1. TypeOK /\ SourceInv
    BY InitTypes, SourceInitInv DEF Init
  <2>2. RingAccounted /\ CacheCannotOutgrowRing
    BY SessionAssumption, EmptySeq DEF Init, RingAccounted, CacheCannotOutgrowRing
  <2> QED
    BY <2>1, <2>2 DEF RetentionInv
<1> QED
  BY <1>1, RetentionStep, PTL DEF Spec

(* Every variable of the session keeps its type. *)
THEOREM TypeCorrect == Spec => []TypeOK
  BY RetentionAlways, PTL DEF RetentionInv

(* However many captures are started at once, the ring keeps its bound and *)
(* every frame counted is retained or reported evicted, and the attribution *)
(* cache never outgrows the ring.                                          *)
THEOREM RetentionAccounted == Spec => []RetentionBounded
  BY RetentionAlways, PTL DEF RetentionInv, RetentionBounded

-----------------------------------------------------------------------------
(* What overlapping requests would break, proved where they do not overlap: *)
(* at most one request at a time starts a capture or opens a file, while   *)
(* any number of others stop one.                                          *)
OneStarter == \A t1, t2 \in Starters : t1 = t2

(* The sink is the current capture's, a starter about to install waits for *)
(* the current capture's consumer, and one that analyses a file analyses   *)
(* the current capture.                                                    *)
Sequenced ==
  /\ sink \in {None, gen}
  /\ \A t \in Requests : tpc[t] \in {"readDone", "install", "analyze"} => t \in Starters
  /\ \A t \in Starters : tpc[t] = "install" => twait[t] = gen
  /\ \A t \in Starters : tpc[t] = "analyze" => tnew[t] = gen

ExclusiveInv ==
  Sequenced /\ NoStackedReaders /\ NoLeak /\ NoOrphanSource /\ ReportFitsCapture

LEMMA ExclusiveInit == Init => ExclusiveInv
<1> SUFFICES ASSUME Init PROVE ExclusiveInv
  OBVIOUS
<1>1. Sequenced /\ NoStackedReaders /\ NoOrphanSource /\ ReportFitsCapture
  BY DEF Init, Requests, Sequenced, NoStackedReaders, NoOrphanSource, ReportFitsCapture, Consuming
<1>2. NoLeak
  BY EmptySeq DEF Init, NoLeak, Offered, Readable, NothingSaved
<1> QED
  BY <1>1, <1>2 DEF ExclusiveInv

(* The wait for the previous consumer: when a starter installs, no         *)
(* goroutine is left at work.                                              *)
LEMMA InstallFindsNoConsumer ==
  ASSUME TypeOK, Sequenced, NoStackedReaders,
         NEW t \in Requests, NEW persisted \in BOOLEAN, Install(t, persisted)
  PROVE  t \in Starters /\ \A c \in Sources : ~Consuming(c)
<1>1. t \in Starters /\ twait[t] = gen
  BY DEF Install, Step, Sequenced
<1>2. gen # None => cpc[gen] = "done"
  BY <1>1 DEF Install, PreviousDone
<1> QED
  BY <1>1, <1>2, SessionAssumption DEF NoStackedReaders, Consuming

LEMMA ExclusiveInstall ==
  ASSUME OneStarter, TypeOK, ExclusiveInv,
         NEW t \in Requests, NEW persisted \in BOOLEAN, Install(t, persisted)
  PROVE  ExclusiveInv'
<1>1. t \in Starters /\ \A c \in Sources : ~Consuming(c)
  BY InstallFindsNoConsumer DEF ExclusiveInv
<1>2. \A c \in Sources : Consuming(c)' => c = tnew[t] /\ cpc'[c] = "spawned"
  BY <1>1 DEF TypeOK, ConsumerTypeOK, Install, Consuming
<1>3. NoStackedReaders' /\ NoOrphanSource' /\ ReportFitsCapture'
  BY <1>2 DEF Install, NoStackedReaders, NoOrphanSource, ReportFitsCapture
<1>4. NoLeak'
  BY EmptySeq DEF ExclusiveInv, Install, NoLeak, Offered, Readable
<1>5. Sequenced'
  BY <1>1 DEF OneStarter, TypeOK, RequestTypeOK, ExclusiveInv, Sequenced, Install, Step
<1> QED
  BY <1>3, <1>4, <1>5 DEF ExclusiveInv

(* The other steps of a request, which leave consumers and frames alone.   *)
LEMMA ExclusiveRequest ==
  ASSUME TypeOK, ExclusiveInv, NEW t \in Requests,
         \/ RejectFilter(t) \/ StopTakesSource(t) \/ StopClosesSink(t)
         \/ StopClosesSource(t) \/ StopFails(t) \/ ReadConsumeDone(t)
         \/ \E analyzed \in BOOLEAN : PublishReport(t, analyzed)
  PROVE  ExclusiveInv'
<1> USE DEF RejectFilter, StopTakesSource, StopClosesSink, StopClosesSource, StopFails,
            ReadConsumeDone, PublishReport
<1>1. UNCHANGED <<gen, retainedVars, saved, consumerVars>>
  BY DEF controlVars, sinkVars
<1>2. NoStackedReaders' /\ NoLeak'
  BY <1>1 DEF ExclusiveInv, NoStackedReaders, NoLeak, Offered, Readable, Consuming, consumerVars, retainedVars
<1>3. Sequenced'
  BY <1>1 DEF TypeOK, RequestTypeOK, Requests, ExclusiveInv, Sequenced, Step, sinkVars
<1>4. NoOrphanSource'
  <2> SUFFICES ASSUME NEW c \in Sources, Consuming(c)'
               PROVE  \/ src' = c \/ asked'[c]
                      \/ \E r \in Requests : told'[r] = c /\ tpc'[r] \in {"closeSink", "closeOld"}
    BY DEF NoOrphanSource
  <2>1. src = c \/ asked[c]
        \/ \E r \in Requests : told[r] = c /\ tpc[r] \in {"closeSink", "closeOld"}
    BY <1>1 DEF ExclusiveInv, NoOrphanSource, Consuming, consumerVars
  <2>2. c # None /\ (asked[c] => asked'[c])
    BY SessionAssumption DEF CloseSources, controlVars, sourceVars
  <2>3. CASE asked[c]
    BY <2>2, <2>3
  <2>4. CASE src = c
    <3>1. CASE StopTakesSource(t)
      BY <2>4, <3>1 DEF TypeOK, RequestTypeOK, Step
    <3>2. CASE ~StopTakesSource(t)
      BY <2>4, <3>2 DEF controlVars
    <3> QED
      BY <3>1, <3>2
  <2>5. ASSUME NEW r \in Requests, told[r] = c, tpc[r] \in {"closeSink", "closeOld"}
        PROVE  asked'[c] \/ (told'[r] = c /\ tpc'[r] \in {"closeSink", "closeOld"})
    <3>1. CASE r # t
      BY <2>5, <3>1 DEF TypeOK, RequestTypeOK, Step
    <3>2. CASE r = t
      <4>1. CASE StopClosesSource(t) \/ StopFails(t)
        BY <2>2, <2>5, <3>2, <4>1 DEF CloseSources
      <4>2. CASE ~(StopClosesSource(t) \/ StopFails(t))
        BY <2>5, <3>2, <4>2 DEF TypeOK, RequestTypeOK, Step
      <4> QED
        BY <4>1, <4>2
    <3> QED
      BY <3>1, <3>2
  <2> QED
    BY <2>1, <2>3, <2>4, <2>5
<1>5. ReportFitsCapture'
  BY <1>1, SessionAssumption DEF ExclusiveInv, Sequenced, ReportFitsCapture, Step, controlVars
<1> QED
  BY <1>2, <1>3, <1>4, <1>5 DEF ExclusiveInv

(* A consumer writes only frames of its own capture, which is the current  *)
(* one, and to the sink of the current one.                                *)
LEMMA ExclusiveConsumer ==
  ASSUME TypeOK, ExclusiveInv, Len(ring) <= RingSize, NEW c \in Sources, ConsumerStep(c)
  PROVE  ExclusiveInv'
<1> USE DEF ExclusiveInv
<1>1. gen = c /\ Consuming(c)
  BY DEF NoStackedReaders, Consuming, ConsumerStep, TakeNames, TakeFrame, Record, Persist,
         FanOut, EndRange, FinishConsume
<1>2. UNCHANGED <<src, gen, report, sink, asked, requestVars>>
  BY DEF ConsumerStep, TakeNames, TakeFrame, Record, Persist, FanOut, EndRange,
         FinishConsume, controlVars, sinkVars, sourceVars, ReceiveFrame, ReceiveEnd
<1>3. Sequenced' /\ ReportFitsCapture'
  BY <1>2 DEF Sequenced, ReportFitsCapture, requestVars
<1>4. \A d \in Sources : Consuming(d)' => Consuming(d)
  BY DEF TypeOK, ConsumerTypeOK, Consuming, ConsumerStep, TakeNames, TakeFrame, Record,
         Persist, FanOut, EndRange, FinishConsume, CGoto
<1>5. NoOrphanSource'
  BY <1>2, <1>4 DEF NoOrphanSource, requestVars
<1>6. NoStackedReaders'
  <2>1. ASSUME NEW d \in Sources, Consuming(d)' PROVE d = c
    BY <1>1, <1>4, <2>1 DEF NoStackedReaders
  <2>2. Consuming(c)' => (cpc'[c] # "spawned" => cnames'[c] = c)
    BY <1>1 DEF TypeOK, ConsumerTypeOK, NoStackedReaders, Consuming, ConsumerStep,
         TakeNames, TakeFrame, Record, Persist, FanOut, EndRange, FinishConsume, CGoto
  <2> QED
    BY <1>1, <1>2, <2>1, <2>2 DEF NoStackedReaders
<1>7. NoLeak'
  <2>1. ASSUME UNCHANGED <<retainedVars, sinkVars>> PROVE NoLeak'
    BY <1>2, <2>1 DEF NoLeak, Offered, Readable, retainedVars, sinkVars
  <2>2. ASSUME NEW matches \in BOOLEAN, Record(c, matches) PROVE NoLeak'
    <3> DEFINE f == cframe[c]
    <3>1. f \in Frame /\ f.cap = c /\ ring \in Seq(Frame)
      BY <2>2 DEF TypeOK, ConsumerTypeOK, RetainedTypeOK, Record
    <3>2. ASSUME NEW i \in 1 .. Len(Kept(f)) PROVE Kept(f)[i].cap = c
      <4>1. Kept(f)[i] = Append(ring, f)[i + Excess(f)] /\ i + Excess(f) \in 1 .. Len(ring) + 1
        <5> DEFINE e == Excess(f)  k == Len(Kept(f))  n0 == Len(ring)
        <5>1. /\ e \in {0, 1} /\ k = n0 + 1 - e /\ n0 \in Nat /\ i \in 1 .. k
              /\ Kept(f)[i] = Append(ring, f)[i + e]
          BY <3>1, KeptProperties, LenProperties
        <5> HIDE DEF e, k, n0
        <5>2. i + e \in 1 .. n0 + 1
          BY <5>1
        <5> QED
          BY <5>1, <5>2 DEF e, n0
      <4>2. \A j \in 1 .. Len(ring) : Append(ring, f)[j] = ring[j]
        BY <3>1, AppendProperties
      <4>3. Append(ring, f)[Len(ring) + 1] = f /\ Len(ring) \in Nat
        BY <3>1, AppendProperties, LenProperties
      <4>4. \A j \in 1 .. Len(ring) : ring[j].cap = c
        BY <1>1 DEF NoLeak
      <4>5. CASE i + Excess(f) = Len(ring) + 1
        BY <3>1, <4>1, <4>3, <4>5
      <4>6. CASE i + Excess(f) # Len(ring) + 1
        <5>1. i + Excess(f) \in 1 .. Len(ring)
          BY <4>1, <4>3, <4>6
        <5> QED
          BY <4>1, <4>2, <4>4, <5>1
      <4> QED
        BY <4>5, <4>6
    <3>3. \A n \in DOMAIN procCache' : procCache'[n] = c
      BY <1>1, <2>2 DEF NoLeak, Record
    <3>4. ring' = Kept(f) /\ UNCHANGED saved
      BY <2>2 DEF Record, sinkVars
    <3> QED
      BY <1>1, <1>2, <3>2, <3>3, <3>4 DEF NoLeak, Offered, Readable
  <2>3. ASSUME Persist(c) PROVE NoLeak'
    <3>1. cframe[c].cap = c /\ cframe[c] \in Frame
      BY <2>3 DEF TypeOK, ConsumerTypeOK, Persist
    <3>2. \A d \in Sources : d = sink => d = c
      BY <1>1, SessionAssumption DEF Sequenced
    <3>3. \A d \in Sources : \A f \in FramesOf(saved[d]) : f.cap = d
      BY DEF NoLeak, Offered, Readable, FramesOf
    <3>4. \A d \in Sources : /\ d # sink => saved'[d] = saved[d]
                             /\ d = sink => FramesOf(saved'[d]) \subseteq FramesOf(saved[d]) \cup {cframe[c]}
      BY <1>2, <2>3, <3>1, SinkWrites DEF Persist, TypeOK
    <3>5. \A d \in Sources : \A f \in FramesOf(saved'[d]) : f.cap = d
      BY <3>1, <3>2, <3>3, <3>4
    <3>6. \A d \in Sources : \A f \in Offered(d)' : f.cap = d
      BY <3>5 DEF Offered, Readable, FramesOf
    <3> QED
      BY <1>2, <2>3, <3>6 DEF NoLeak, Persist, retainedVars
  <2> QED
    BY <2>1, <2>2, <2>3
       DEF ConsumerStep, TakeNames, TakeFrame, FanOut, EndRange, FinishConsume, sinkVars
<1> QED
  BY <1>3, <1>5, <1>6, <1>7

LEMMA ExclusiveStep ==
  ASSUME OneStarter, RetentionInv, ExclusiveInv, [Next]_vars PROVE ExclusiveInv'
<1>1. TypeOK /\ Len(ring) <= RingSize
  BY DEF RetentionInv, RingAccounted
<1>2. ASSUME UNCHANGED <<src, gen, report, asked, retainedVars, sinkVars, consumerVars,
                         requestVars>>
      PROVE  ExclusiveInv'
  BY <1>2 DEF ExclusiveInv, Sequenced, NoStackedReaders, NoLeak, Offered, Readable,
       NoOrphanSource, ReportFitsCapture, Consuming, retainedVars, sinkVars, consumerVars, requestVars
<1>3. ASSUME NEW t \in Starters, NEW c \in Sources, OpenNew(t, c) PROVE ExclusiveInv'
  <2>1. UNCHANGED <<src, gen, report, asked, retainedVars, sinkVars, consumerVars, told, twait>>
    BY <1>3 DEF OpenNew, OpenSource, controlVars
  <2>2. Sequenced'
    BY <1>1, <1>3, <2>1 DEF TypeOK, RequestTypeOK, Requests, ExclusiveInv, Sequenced,
         OpenNew, Step, sinkVars
  <2>3. NoStackedReaders' /\ NoLeak' /\ ReportFitsCapture'
    BY <2>1 DEF ExclusiveInv, NoStackedReaders, NoLeak, Offered, Readable, ReportFitsCapture, Consuming,
         retainedVars, sinkVars, consumerVars
  <2>4. NoOrphanSource'
    BY <1>1, <1>3, <2>1 DEF TypeOK, RequestTypeOK, Requests, ExclusiveInv, NoOrphanSource,
         Consuming, OpenNew, Step, consumerVars
  <2> QED
    BY <2>2, <2>3, <2>4 DEF ExclusiveInv
<1>4. ASSUME NEW t \in Requests, RequestStep(t) PROVE ExclusiveInv'
  BY <1>1, <1>4, ExclusiveInstall, ExclusiveRequest DEF RequestStep
<1>5. ASSUME NEW c \in Sources, ConsumerStep(c) PROVE ExclusiveInv'
  BY <1>1, <1>5, ExclusiveConsumer
<1>6. ASSUME NEW c \in Sources, SourceLoop(c), OthersUnchanged PROVE ExclusiveInv'
  BY <1>2, <1>6 DEF OthersUnchanged, controlVars, SourceLoop, CheckDone, ReadFrame,
       ReadNothing, ReadFails, SendFrame, AbandonFrame, DropFrame
<1>7. ASSUME NEW u \in Subscribers, SubscriberStep(u) PROVE ExclusiveInv'
  BY <1>2, <1>7 DEF SubscriberStep, Subscribe, ReadFeed, Unsubscribe, CloseFeed,
       sourceVars, controlVars
<1>8. ASSUME NEW v \in Viewers, ViewerStep(v) PROVE ExclusiveInv'
  BY <1>2, <1>8 DEF ViewerStep, Attribute, FetchPacket, sourceVars, controlVars
<1>9. CASE UNCHANGED vars
  BY <1>2, <1>9 DEF vars, sourceVars, controlVars
<1>10. ASSUME NEW s \in Sources, NEW n \in 0 .. MaxFrames, DiskFault(s, n) PROVE ExclusiveInv'
  <2>1. UNCHANGED <<src, gen, report, sink, asked, retainedVars, consumerVars, requestVars>>
    BY <1>10, FaultIsQuiet DEF controlVars, sourceVars
  <2>2. Sequenced' /\ NoStackedReaders' /\ NoOrphanSource' /\ ReportFitsCapture'
    BY <2>1 DEF ExclusiveInv, Sequenced, NoStackedReaders, NoOrphanSource, ReportFitsCapture,
         Consuming, consumerVars, requestVars
  <2>3. \A c \in Sources : FramesOf(saved'[c]) = FramesOf(saved[c])
    BY <1>1, <1>10, SinkFaults DEF TypeOK
  <2>4. \A c \in Sources : Offered(c)' = FramesOf(saved'[c]) /\ Offered(c) = FramesOf(saved[c])
    BY DEF Offered, Readable, FramesOf
  <2>5. \A c \in Sources : \A f \in Offered(c)' : f.cap = c
    BY <2>3, <2>4 DEF ExclusiveInv, NoLeak
  <2>6. NoLeak'
    BY <2>1, <2>5 DEF ExclusiveInv, NoLeak, retainedVars
  <2> QED
    BY <2>2, <2>6 DEF ExclusiveInv
<1> QED
  BY <1>3, <1>4, <1>5, <1>6, <1>7, <1>8, <1>9, <1>10 DEF Next

LEMMA ExclusiveAlways == ASSUME OneStarter PROVE Spec => []ExclusiveInv
<1>1. RetentionInv /\ ExclusiveInv /\ [Next]_vars => ExclusiveInv'
  BY ExclusiveStep
<1> QED
  BY <1>1, ExclusiveInit, RetentionAlways, PTL DEF Spec

(* "Starting while already running restarts cleanly": with one starter, a  *)
(* consumer at work is always that of the capture the session shows.       *)
THEOREM RestartsCleanly == ASSUME OneStarter PROVE Spec => []NoStackedReaders
  BY ExclusiveAlways, PTL DEF ExclusiveInv

(* With one starter, nothing of a stopped capture reaches the next one's   *)
(* ring, attributions or capture file.                                     *)
THEOREM NothingLeaks == ASSUME OneStarter PROVE Spec => []NoLeak
  BY ExclusiveAlways, PTL DEF ExclusiveInv

(* With one starter, every capture being consumed can still be stopped.    *)
THEOREM NoneOrphaned == ASSUME OneStarter PROVE Spec => []NoOrphanSource
  BY ExclusiveAlways, PTL DEF ExclusiveInv

(* With one starter, a file report describes the capture being shown.      *)
THEOREM ReportsFit == ASSUME OneStarter PROVE Spec => []ReportFitsCapture
  BY ExclusiveAlways, PTL DEF ExclusiveInv

(* With one starter, nothing of a stopped capture stays behind.            *)
THEOREM RestartsEmpty == ASSUME OneStarter PROVE Spec => []NothingStale
  BY NothingLeaks, ReportsFit, PTL DEF NothingStale

-----------------------------------------------------------------------------
(* The order of what one starter's captures leave in the ring, in the file *)
(* and in the subscribers' channels.                                       *)
(* A capture is opened once and consumed once: until then nothing of it is *)
(* in a file or a channel, and a starter at work holds one of those.       *)
OpenedOnce ==
  /\ \A c \in Sources : phase[c] = "unopened" => cpc[c] = "none"
  /\ \A c \in Sources : cpc[c] = "none" => saved[c] = NothingSaved
  /\ \A u \in Subscribers : \A i \in 1 .. Len(feed[u]) : cpc[feed[u][i].cap] # "none"
  /\ \A t \in Starters :
       tpc[t] \notin {"idle", "analyze"} =>
         tnew[t] \in Sources /\ cpc[tnew[t]] = "none" /\ phase[tnew[t]] # "unopened"

(* A consumer works on the last frame it was given.                        *)
OnLastFrame ==
  \A c \in Sources :
    cpc[c] \in {"record", "persist", "fanout"} => cframe[c].no = given[c]

(* The ring grows by the frame at hand; from a file, it has no gap.        *)
AtHand == IF cpc[gen] = "record" THEN 1 ELSE 0

RingInOrder ==
  gen # None =>
    /\ \A i, j \in 1 .. Len(ring) : i < j => ring[i].no < ring[j].no
    /\ \A i \in 1 .. Len(ring) : ring[i].no + AtHand <= given[gen]
    /\ cpc[gen] = "persist" => ring # <<>> /\ ring[Len(ring)] = cframe[gen]
    /\ gen \notin LiveSources =>
         \A i \in 1 .. Len(ring) : ring[i].no + Len(ring) + AtHand = given[gen] + i

(* The sink of the capture has been offered what the ring has evicted, and *)
(* of the ring all but a frame about to be written; and its files age.     *)
Older == {f \in FramesOf(saved[sink]) : f.no < ring[1].no}
Persisted == IF cpc[sink] = "persist" THEN Len(ring) - 1 ELSE Len(ring)

SavedInOrder ==
  sink # None =>
    /\ sinkState[sink] # "closed" /\ Aged(saved[sink]) /\ IsFiniteSet(FramesOf(saved[sink]))
    /\ ring = <<>> => FramesOf(saved[sink]) = {} /\ dropped = 0
    /\ ring # <<>> => Cardinality(Older) = dropped
    /\ \A f \in FramesOf(saved[sink]) : f \in Older \/ \E i \in 1 .. Persisted : f = ring[i]
    /\ \A i \in 1 .. Persisted : ring[i] \in FramesOf(saved[sink])

(* What has been sent to a subscriber is behind the consumer, and strictly *)
(* so while the frame at hand has still to be sent to it.                  *)
Owed(u) == cpc[gen] \in {"record", "persist"} \/ u \in csnap[gen]

FeedsBehind ==
  \A u \in Subscribers : \A i \in 1 .. Len(feed[u]) :
    feed[u][i].cap = gen =>
      feed[u][i].no <= given[gen] /\ (Owed(u) => feed[u][i].no < given[gen])

(* A viewer that got a packet of a file has the one it asked for.          *)
FilePacketsRight ==
  \A v \in Viewers :
    vpc[v] # "idle" /\ vframe[v].cap \notin LiveSources => vframe[v].no = vno[v]

OrderInv ==
  /\ OpenedOnce /\ OnLastFrame /\ RingInOrder /\ SavedInOrder
  /\ FeedsBehind /\ FeedInOrder /\ FilePacketsRight

LEMMA OrderInit == Init => OrderInv
<1> SUFFICES ASSUME Init PROVE OrderInv
  OBVIOUS
<1> USE DEF Init
<1>1. ring = <<>> /\ Len(ring) = 0 /\ gen = None /\ sink = None
  BY EmptySeq
<1>2. \A u \in Subscribers : 1 .. Len(feed[u]) = {}
  BY EmptySeq
<1>3. OpenedOnce /\ OnLastFrame
  BY <1>2 DEF OpenedOnce, OnLastFrame, Requests
<1>4. FeedsBehind /\ FeedInOrder /\ FilePacketsRight
  BY <1>2 DEF FeedsBehind, FeedInOrder, FilePacketsRight
<1> QED
  BY <1>1, <1>3, <1>4 DEF OrderInv, RingInOrder, SavedInOrder

(* A source once opened stays opened.                                      *)
LEMMA OpenedStays ==
  ASSUME SourceTypeOK, [SourceNext]_sourceVars
  PROVE  \A c \in Sources : phase'[c] = "unopened" => phase[c] = "unopened"
<1> SUFFICES ASSUME NEW c \in Sources, phase'[c] = "unopened" PROVE phase[c] = "unopened"
  OBVIOUS
<1>1. phase \in [Sources -> Phases]
  BY DEF SourceTypeOK
<1>2. ASSUME NEW s \in Sources, OpenSource(s) PROVE phase[c] = "unopened"
  BY <1>1, <1>2 DEF OpenSource, Goto, LoopTop, Live
<1>3. ASSUME NEW s \in Sources, SourceLoop(s) PROVE phase[c] = "unopened"
  BY <1>1, <1>3 DEF SourceLoop, CheckDone, ReadFrame, ReadNothing, ReadFails, SendFrame,
       AbandonFrame, DropFrame, Goto, LoopTop, Live
<1>4. ASSUME NEW s \in Sources, ReaderStep(s) PROVE phase[c] = "unopened"
  BY <1>4 DEF ReaderStep, ReceiveFrame, ReceiveEnd
<1>5. ASSUME NEW S, CloseSources(S) PROVE phase[c] = "unopened"
  BY <1>5 DEF CloseSources
<1>6. CASE UNCHANGED sourceVars
  BY <1>6 DEF sourceVars
<1> QED
  BY <1>2, <1>3, <1>4, <1>5, <1>6 DEF SourceNext

(* A frame that is received is later than the one before, and in a replay  *)
(* the next.                                                               *)
LEMMA ReceivedIsLater ==
  ASSUME SourceInv, NEW c \in Sources, ReceiveFrame(c)
  PROVE  /\ given[c] \in Nat /\ given'[c] \in Nat /\ given'[c] = Head(queue[c])
         /\ given[c] < given'[c]
         /\ c \notin LiveSources => given'[c] = given[c] + 1
         /\ \A d \in Sources : d # c => given'[d] = given[d]
<1>1. queue[c] \in Seq(Nat) /\ queue[c] # <<>> /\ given \in [Sources -> Nat]
  BY DEF SourceInv, SourceTypeOK, ReceiveFrame
<1>2. Head(queue[c]) \in Nat /\ Head(queue[c]) = queue[c][1] /\ 1 \in 1 .. Len(queue[c])
  BY <1>1, HeadTailProperties, EmptySeq, LenProperties
<1>3. given' = [given EXCEPT ![c] = Head(queue[c])]
  BY DEF ReceiveFrame
<1>4. given[c] < queue[c][1]
  BY <1>2 DEF SourceInv, SourceOK, InOrder
<1>5. c \notin LiveSources => queue[c][1] = given[c] + 1
  BY <1>2 DEF SourceInv, SourceOK, NoGaps
<1> QED
  BY <1>1, <1>2, <1>3, <1>4, <1>5

(* Frames in channels and in the ring are frames.                          *)
LEMMA FramesEverywhere ==
  ASSUME TypeOK
  PROVE  /\ \A u \in Subscribers : \A i \in 1 .. Len(feed[u]) :
              feed[u][i] \in Frame /\ feed[u][i].cap \in Sources /\ feed[u][i].no \in Nat
         /\ \A i \in 1 .. Len(ring) : ring[i] \in Frame /\ ring[i].cap \in Sources /\ ring[i].no \in Nat
<1>1. \A f \in Frame : f.cap \in Sources /\ f.no \in Nat
  BY DEF Frame
<1>2. ring \in Seq(Frame) /\ \A u \in Subscribers : feed[u] \in Seq(Frame)
  BY DEF TypeOK, RetainedTypeOK, FeedTypeOK
<1>3. \A i \in 1 .. Len(ring) : ring[i] \in Frame
  BY <1>2, ElementOfSeq
<1>4. ASSUME NEW u \in Subscribers, NEW i \in 1 .. Len(feed[u]) PROVE feed[u][i] \in Frame
  BY <1>2, ElementOfSeq
<1> QED
  BY <1>1, <1>3, <1>4

(* Steps that touch none of it: consumers may only move between places     *)
(* where they hold no frame.                                               *)
Holding == {"none", "record", "persist", "fanout"}

LEMMA OrderQuiet ==
  ASSUME OrderInv, TypeOK,
         UNCHANGED <<gen, ring, dropped, sinkVars, feed, cframe, csnap, given, vpc, vno, vframe>>,
         \A c \in Sources : cpc'[c] = cpc[c] \/ (cpc[c] \notin Holding /\ cpc'[c] \notin Holding),
         \A c \in Sources : phase'[c] = "unopened" => phase[c] = "unopened",
         \A t \in Starters :
           tpc'[t] \notin {"idle", "analyze"} =>
             tnew'[t] \in Sources /\ cpc[tnew'[t]] = "none" /\ phase'[tnew'[t]] # "unopened"
  PROVE  OrderInv'
<1> USE DEF OrderInv, Holding
<1>1. \A c \in Sources : cpc'[c] = "none" <=> cpc[c] = "none"
  OBVIOUS
<1>2. UNCHANGED <<sink, sinkState, saved>> /\ gen \in SourceOrNone /\ sink \in SourceOrNone
  BY DEF sinkVars, TypeOK, ControlTypeOK, SinkTypeOK
<1>3. OpenedOnce'
  <2>1. \A u \in Subscribers : \A i \in 1 .. Len(feed[u]) : feed[u][i].cap \in Sources
    BY FramesEverywhere
  <2> QED
    BY <1>1, <1>2, <2>1 DEF OpenedOnce
<1>4. OnLastFrame'
  BY DEF OnLastFrame
<1>5. RingInOrder'
  <2>1. gen \in Sources => AtHand' = AtHand /\ (cpc'[gen] = "persist" => cpc[gen] = "persist")
    BY DEF AtHand
  <2> QED
    BY <1>2, <2>1 DEF RingInOrder, SourceOrNone
<1>6. SavedInOrder'
  <2>1. sink \in Sources => Persisted' = Persisted
    BY <1>2 DEF Persisted
  <2>2. Older' = Older
    BY <1>2 DEF Older
  <2> QED
    BY <1>2, <2>1, <2>2 DEF SavedInOrder, SourceOrNone
<1>7. FeedsBehind' /\ FeedInOrder' /\ FilePacketsRight'
  <2>1. \A u \in Subscribers : \A i \in 1 .. Len(feed[u]) : feed[u][i].cap \in Sources
    BY FramesEverywhere
  <2>2. gen \in Sources => \A u : Owed(u)' => Owed(u)
    BY DEF Owed
  <2> QED
    BY <2>1, <2>2 DEF FeedsBehind, FeedInOrder, FilePacketsRight
<1> QED
  BY <1>3, <1>4, <1>5, <1>6, <1>7

(* A capture that is installed is new to the ring, its file and the        *)
(* channels.                                                               *)
LEMMA OrderInstall ==
  ASSUME OneStarter, TypeOK, Sequenced, NoStackedReaders, OrderInv,
         NEW t \in Requests, NEW persisted \in BOOLEAN, Install(t, persisted)
  PROVE  OrderInv'
<1> DEFINE c == tnew[t]
<1>1. t \in Starters
  BY InstallFindsNoConsumer
<1>2. c \in Sources /\ cpc[c] = "none" /\ phase[c] # "unopened"
  BY <1>1 DEF Install, Step, OrderInv, OpenedOnce
<1>3. saved[c] = NothingSaved /\ c # None
  BY <1>2, SessionAssumption DEF OrderInv, OpenedOnce
<1>4. /\ gen' = c /\ ring' = <<>> /\ dropped' = 0
      /\ sink' = IF persisted THEN c ELSE None
      /\ sinkState' = [SinkClosed EXCEPT ![c] = IF persisted THEN "open" ELSE @]
      /\ cpc' = [cpc EXCEPT ![c] = "spawned"]
      /\ UNCHANGED <<tnew, saved, cframe, csnap, phase, given, feed, vpc, vno, vframe>>
  BY DEF Install, sourceVars, feedVars, viewerVars
<1>5. \A s \in Starters : tpc'[s] \in {"idle", "analyze"}
  BY <1>1 DEF OneStarter, Install, Step, TypeOK, RequestTypeOK
<1>6. cpc'[c] = "spawned" /\ \A d \in Sources : d # c => cpc'[d] = cpc[d]
  BY <1>2, <1>4 DEF TypeOK, ConsumerTypeOK
<1> HIDE DEF c
<1>7. OpenedOnce'
  BY <1>2, <1>4, <1>5, <1>6, FramesEverywhere DEF OrderInv, OpenedOnce
<1>8. OnLastFrame'
  BY <1>4, <1>6 DEF OrderInv, OnLastFrame
<1>9. Len(ring') = 0 /\ 1 .. Len(ring') = {}
  BY <1>4, EmptySeq
<1>10. RingInOrder'
  BY <1>4, <1>6, <1>9 DEF RingInOrder
<1>11. SavedInOrder'
  <2>1. CASE persisted
    <3>1. sinkState'[c] = "open" /\ sink' = c
      BY <1>2, <1>4, <2>1 DEF SinkClosed
    <3>2. IsFiniteSet({})
      BY FS_EmptySet
    <3>3. FramesOf(saved'[sink']) = {} /\ Aged(saved'[sink'])
      BY <1>3, <1>4, <3>1 DEF FramesOf, Aged, NothingSaved
    <3>4. Persisted' = 0 /\ 1 .. Persisted' = {}
      BY <1>3, <1>4, <1>6, <1>9, <3>1 DEF Persisted
    <3>5. ring' = <<>> /\ dropped' = 0 /\ sinkState'[sink'] = "open"
      BY <1>4, <3>1
    <3> QED
      BY <3>2, <3>3, <3>4, <3>5 DEF SavedInOrder
  <2>2. CASE ~persisted
    BY <1>4, <2>2 DEF SavedInOrder
  <2> QED
    BY <2>1, <2>2
<1>12. \A u \in Subscribers : \A i \in 1 .. Len(feed[u]) : feed[u][i].cap # c
  BY <1>2 DEF OrderInv, OpenedOnce
<1>13. FeedsBehind' /\ FeedInOrder' /\ FilePacketsRight'
  BY <1>4, <1>12 DEF OrderInv, FeedsBehind, FeedInOrder, FilePacketsRight
<1> QED
  BY <1>7, <1>8, <1>10, <1>11, <1>13 DEF OrderInv

(* The other steps of a request.                                           *)
LEMMA OrderRequest ==
  ASSUME TypeOK, SourceInv, OrderInv, [SourceNext]_sourceVars, NEW t \in Requests,
         \/ RejectFilter(t) \/ StopTakesSource(t) \/ StopClosesSink(t)
         \/ StopClosesSource(t) \/ StopFails(t) \/ ReadConsumeDone(t)
         \/ \E analyzed \in BOOLEAN : PublishReport(t, analyzed)
  PROVE  OrderInv'
<1> USE DEF RejectFilter, StopTakesSource, StopClosesSink, StopClosesSource, StopFails,
            ReadConsumeDone, PublishReport
<1>1. UNCHANGED <<gen, retainedVars, saved, feedVars, consumerVars, tnew, viewerVars>>
  BY DEF controlVars, sinkVars
<1>2. UNCHANGED <<phase, given>>
  BY DEF CloseSources, sourceVars
<1>3. UNCHANGED <<gen, ring, dropped, saved, feed, cpc, cframe, csnap, given, vpc, vno, vframe>>
  BY <1>1, <1>2 DEF retainedVars, feedVars, consumerVars, viewerVars
<1>4. ASSUME NEW s \in Starters, tpc'[s] \notin {"idle", "analyze"}
      PROVE  tnew'[s] \in Sources /\ cpc[tnew'[s]] = "none" /\ phase'[tnew'[s]] # "unopened"
  <2>1. tpc[s] \notin {"idle", "analyze"}
    BY <1>4 DEF Step, TypeOK, RequestTypeOK, Requests
  <2> QED
    BY <1>1, <1>2, <2>1 DEF OrderInv, OpenedOnce
<1>5. CASE UNCHANGED sinkVars
  <2>1. UNCHANGED <<gen, ring, dropped, sinkVars, feed, cframe, csnap, given, vpc, vno, vframe>>
    BY <1>3, <1>5
  <2>2. \A d \in Sources : cpc'[d] = cpc[d]
    BY <1>3
  <2>3. \A d \in Sources : phase'[d] = "unopened" => phase[d] = "unopened"
    BY <1>2
  <2> QED
    BY <1>4, <2>1, <2>2, <2>3, OrderQuiet
<1>6. CASE StopClosesSink(t)
  <2>1. sink' = None
    BY <1>6
  <2>2. OpenedOnce' /\ OnLastFrame' /\ RingInOrder'
    BY <1>2, <1>3, <1>4 DEF OrderInv, OpenedOnce, OnLastFrame, RingInOrder, AtHand
  <2>3. FeedsBehind' /\ FeedInOrder' /\ FilePacketsRight'
    BY <1>3 DEF OrderInv, FeedsBehind, FeedInOrder, FilePacketsRight, Owed
  <2> QED
    BY <2>1, <2>2, <2>3 DEF OrderInv, SavedInOrder
<1> QED
  BY <1>5, <1>6

(* A consumer that takes no frame, ...                                     *)
LEMMA OrderConsumerIdle ==
  ASSUME TypeOK, OrderInv, NEW c \in Sources, TakeNames(c) \/ EndRange(c) \/ FinishConsume(c)
  PROVE  OrderInv'
<1> USE DEF TakeNames, EndRange, FinishConsume, ReceiveEnd
<1>1. UNCHANGED <<gen, ring, dropped, sinkVars, feed, cframe, csnap, given, vpc, vno, vframe>>
  BY DEF controlVars, retainedVars, feedVars, viewerVars, sourceVars
<1>2. \A d \in Sources : cpc'[d] = cpc[d] \/ (cpc[d] \notin Holding /\ cpc'[d] \notin Holding)
  BY DEF TypeOK, ConsumerTypeOK, CGoto, Holding
<1>3. UNCHANGED <<phase, tpc, tnew>>
  BY DEF requestVars, sourceVars
<1> QED
  BY <1>1, <1>2, <1>3, OrderQuiet DEF OrderInv, OpenedOnce

(* ... one that takes the next, ...                                        *)
LEMMA OrderTakeFrame ==
  ASSUME TypeOK, SourceInv, NoStackedReaders, NoLeak, OrderInv, NEW c \in Sources, TakeFrame(c)
  PROVE  OrderInv'
<1>1. gen = c /\ cpc[c] = "range" /\ c # None
  BY SessionAssumption DEF TakeFrame, NoStackedReaders, Consuming
<1>2. ReceiveFrame(c)
  BY DEF TakeFrame
<1>3. /\ given[c] \in Nat /\ given'[c] \in Nat /\ given'[c] = Head(queue[c])
      /\ given[c] < given'[c] /\ (c \notin LiveSources => given'[c] = given[c] + 1)
      /\ \A d \in Sources : d # c => given'[d] = given[d]
  BY <1>2, ReceivedIsLater
<1>4. /\ UNCHANGED <<gen, ring, dropped, sink, sinkState, saved, feed, csnap, vpc, vno, vframe>>
      /\ UNCHANGED <<phase, tpc, tnew>>
  BY <1>2 DEF TakeFrame, ReceiveFrame, controlVars, retainedVars, sinkVars, feedVars, viewerVars,
              requestVars
<1>5. /\ cpc'[c] = "record" /\ cframe'[c].no = given'[c]
      /\ \A d \in Sources : d # c => cpc'[d] = cpc[d] /\ cframe'[d] = cframe[d]
  BY <1>3 DEF TakeFrame, CGoto, TypeOK, ConsumerTypeOK
<1>6. OpenedOnce'
  BY <1>1, <1>4, <1>5, FramesEverywhere DEF OrderInv, OpenedOnce
<1>7. OnLastFrame'
  BY <1>3, <1>5 DEF OrderInv, OnLastFrame
<1>8. AtHand = 0 /\ AtHand' = 1
  BY <1>1, <1>4, <1>5 DEF AtHand
<1>9. RingInOrder'
  <2>1. \A i \in 1 .. Len(ring) : ring[i].no \in Nat /\ ring[i].no <= given[c]
    BY <1>1, <1>8, FramesEverywhere DEF OrderInv, RingInOrder
  <2>2. \A i \in 1 .. Len(ring) : ring[i].no + 1 <= given'[c]
    BY <1>3, <2>1
  <2>3. ASSUME c \notin LiveSources, NEW i \in 1 .. Len(ring)
        PROVE  ring[i].no + Len(ring) + 1 = given'[c] + i
    <3>1. ring[i].no + Len(ring) = given[c] + i
      BY <1>1, <1>8, <2>1, <2>3 DEF OrderInv, RingInOrder
    <3>2. Len(ring) \in Nat /\ i \in Nat /\ ring[i].no \in Nat
      BY <2>1, <2>3, LenProperties DEF TypeOK, RetainedTypeOK
    <3>3. given'[c] = given[c] + 1 /\ given[c] \in Nat
      BY <1>3, <2>3
    <3> DEFINE a == ring[i].no  b == Len(ring)  g == given[c]  h == given'[c]
    <3>4. a \in Nat /\ b \in Nat /\ g \in Nat /\ i \in Nat /\ h = g + 1 /\ a + b = g + i
      BY <3>1, <3>2, <3>3
    <3> HIDE DEF a, b, g, h
    <3>5. a + b + 1 = h + i
      BY <3>4
    <3> QED
      BY <3>5 DEF a, b, g, h
  <2> QED
    BY <1>1, <1>4, <1>5, <1>8, <2>2, <2>3 DEF OrderInv, RingInOrder
<1>10. SavedInOrder'
  <2>1. sink \in Sources => Persisted' = Persisted
    BY <1>1, <1>4, <1>5 DEF Persisted
  <2>2. Older' = Older /\ sink \in SourceOrNone
    BY <1>4 DEF Older, TypeOK, SinkTypeOK
  <2> QED
    BY <1>4, <2>1, <2>2 DEF OrderInv, SavedInOrder, SourceOrNone
<1>11. FeedsBehind'
  <2> SUFFICES ASSUME NEW u \in Subscribers, NEW i \in 1 .. Len(feed[u]), feed[u][i].cap = c
               PROVE  feed[u][i].no <= given'[c] /\ feed[u][i].no < given'[c]
    BY <1>1, <1>4 DEF FeedsBehind
  <2>1. feed[u][i].no \in Nat /\ feed[u][i].no <= given[c]
    BY <1>1, FramesEverywhere DEF OrderInv, FeedsBehind
  <2> QED
    BY <1>3, <2>1
<1>12. FeedInOrder' /\ FilePacketsRight'
  BY <1>4 DEF OrderInv, FeedInOrder, FilePacketsRight
<1> QED
  BY <1>6, <1>7, <1>9, <1>10, <1>11, <1>12 DEF OrderInv

(* ... one that records it, ...                                            *)
LEMMA OrderRecord ==
  ASSUME TypeOK, Len(ring) <= RingSize, NoStackedReaders, Sequenced, NoLeak, OrderInv,
         SourceTypeOK, NEW c \in Sources, NEW matches \in BOOLEAN, Record(c, matches)
  PROVE  OrderInv'
<1> DEFINE f == cframe[c]
           A == Append(ring, f)
           n == Len(ring)
           e == Excess(f)
           k == Len(ring')
           g == given[c]
<1>1. gen = c /\ cpc[c] = "record" /\ c # None
  BY SessionAssumption DEF Record, NoStackedReaders, Consuming
<1>2. f \in Frame /\ f.no = g /\ g \in Nat
  BY <1>1 DEF TypeOK, ConsumerTypeOK, OrderInv, OnLastFrame, SourceTypeOK
<1>3. /\ UNCHANGED <<gen, sink, sinkState, saved, feed, given, cframe, vpc, vno, vframe>>
      /\ UNCHANGED <<phase, tpc, tnew>>
  BY DEF Record, controlVars, sinkVars, feedVars, viewerVars, requestVars, sourceVars
<1>4. /\ cpc'[c] = "persist" /\ \A d \in Sources : d # c => cpc'[d] = cpc[d]
      /\ \A d \in Sources : d # c => csnap'[d] = csnap[d]
  BY DEF Record, CGoto, TypeOK, ConsumerTypeOK
<1>5. ring' = Kept(f) /\ dropped' = dropped + e
  BY DEF Record
<1>6. AtHand = 1 /\ AtHand' = 0
  BY <1>1, <1>3, <1>4 DEF AtHand
<1>7. ring \in Seq(Frame) /\ n \in Nat /\ RingSize \in Nat \ {0}
  BY SessionAssumption, LenProperties DEF TypeOK, RetainedTypeOK
<1>8. A[n + 1] = f /\ \A i \in 1 .. n : A[i] = ring[i]
  BY <1>2, <1>7, AppendProperties
<1>9. e \in {0, 1} /\ k = n + 1 - e /\ \A i \in 1 .. k : ring'[i] = A[i + e]
  BY <1>2, <1>5, <1>7, KeptProperties
<1>10. e = 1 => n >= 1
  BY <1>7 DEF Excess
<1>11. /\ \A i \in 1 .. n : ring[i].no \in Nat /\ ring[i].no + 1 <= g
       /\ \A i, j \in 1 .. n : i < j => ring[i].no < ring[j].no
       /\ c \notin LiveSources => \A i \in 1 .. n : ring[i].no + n + 1 = g + i
  BY <1>1, <1>6, FramesEverywhere DEF OrderInv, RingInOrder
<1> HIDE DEF f, A, n, e, k, g
<1>12. \A i \in 1 .. n + 1 : i \in 1 .. n \/ i = n + 1
  BY <1>7
<1>13. \A i \in 1 .. n + 1 : A[i].no \in Nat /\ A[i].no <= g
  <2> SUFFICES ASSUME NEW i \in 1 .. n + 1 PROVE A[i].no \in Nat /\ A[i].no <= g
    OBVIOUS
  <2>1. CASE i \in 1 .. n
    <3>1. A[i].no = ring[i].no
      BY <1>8, <2>1
    <3> QED
      BY <1>2, <1>11, <2>1, <3>1
  <2>2. CASE i = n + 1
    BY <1>2, <1>8, <2>2
  <2> QED
    BY <1>12, <2>1, <2>2
<1>14. \A i, j \in 1 .. n + 1 : i < j => A[i].no < A[j].no
  <2> SUFFICES ASSUME NEW i \in 1 .. n + 1, NEW j \in 1 .. n + 1, i < j PROVE A[i].no < A[j].no
    OBVIOUS
  <2>1. i \in 1 .. n /\ A[i].no = ring[i].no
    BY <1>7, <1>8
  <2>2. CASE j \in 1 .. n
    BY <1>8, <1>11, <2>1, <2>2
  <2>3. CASE j = n + 1
    <3>1. A[j].no = g /\ ring[i].no + 1 <= g /\ ring[i].no \in Nat
      BY <1>2, <1>8, <1>11, <2>1, <2>3
    <3> QED
      BY <1>2, <2>1, <3>1
  <2> QED
    BY <1>12, <2>2, <2>3
<1>15. c \notin LiveSources => \A i \in 1 .. n + 1 : A[i].no + n + 1 = g + i
  <2> SUFFICES ASSUME c \notin LiveSources, NEW i \in 1 .. n + 1 PROVE A[i].no + n + 1 = g + i
    OBVIOUS
  <2>1. CASE i \in 1 .. n
    BY <1>8, <1>11, <2>1
  <2>2. CASE i = n + 1
    <3>1. A[i].no = g
      BY <1>2, <1>8, <2>2
    <3> QED
      BY <1>2, <1>7, <2>2, <3>1
  <2> QED
    BY <1>12, <2>1, <2>2
<1>16. k \in Nat \ {0} /\ k \in 1 .. k /\ k + e = n + 1 /\ \A i \in 1 .. k : i + e \in 1 .. n + 1
  BY <1>7, <1>9, <1>10
<1>17. OpenedOnce'
  BY <1>1, <1>3, <1>4, FramesEverywhere DEF OrderInv, OpenedOnce
<1>18. OnLastFrame'
  BY <1>1, <1>3, <1>4 DEF OrderInv, OnLastFrame
<1>19. RingInOrder'
  <2>1. ASSUME NEW i \in 1 .. k, NEW j \in 1 .. k, i < j PROVE ring'[i].no < ring'[j].no
    <3>1. i + e < j + e
      BY <1>9, <1>16, <2>1
    <3> QED
      BY <1>9, <1>14, <1>16, <2>1, <3>1
  <2>2. \A i \in 1 .. k : ring'[i].no + AtHand' <= given'[gen']
    <3> SUFFICES ASSUME NEW i \in 1 .. k PROVE ring'[i].no + 0 <= g
      BY <1>1, <1>3, <1>6 DEF g
    <3>1. ring'[i].no \in Nat /\ ring'[i].no <= g
      BY <1>9, <1>13, <1>16
    <3> QED
      BY <1>2, <3>1
  <2>3. ring' # <<>> /\ ring'[Len(ring')] = cframe'[gen']
    <3>1. ring'[k] = f
      BY <1>8, <1>9, <1>16
    <3>2. ring' # <<>>
      BY <1>16, EmptySeq DEF k
    <3> QED
      BY <1>1, <1>3, <3>1, <3>2 DEF k, f
  <2>4. ASSUME c \notin LiveSources, NEW i \in 1 .. k
        PROVE  ring'[i].no + Len(ring') + AtHand' = given'[gen'] + i
    <3>1. ring'[i].no = A[i + e].no /\ A[i + e].no \in Nat /\ A[i + e].no + n + 1 = g + (i + e)
      BY <1>9, <1>13, <1>15, <1>16, <2>4
    <3> DEFINE a == ring'[i].no
    <3>2. a \in Nat /\ a + n + 1 = g + (i + e)
      BY <3>1
    <3> HIDE DEF a
    <3>3. a + k + 0 = g + i
      BY <1>2, <1>7, <1>9, <1>16, <2>4, <3>2
    <3> QED
      BY <1>1, <1>3, <1>6, <3>3 DEF a, k, g
  <2> QED
    BY <1>1, <1>3, <2>1, <2>2, <2>3, <2>4 DEF RingInOrder, k
<1>20. SavedInOrder'
  <2> SUFFICES ASSUME sink # None PROVE SavedInOrder'
    BY <1>3 DEF SavedInOrder
  <2> DEFINE P == FramesOf(saved[c])
  <2>1. sink = c /\ sink' = c
    BY <1>1, <1>3 DEF Sequenced
  <2>2. Persisted = n /\ Persisted' = k - 1
    BY <1>1, <1>4, <2>1 DEF Persisted, n, k
  <2>3. /\ sinkState[c] # "closed" /\ Aged(saved[c]) /\ IsFiniteSet(P)
        /\ ring = <<>> => P = {} /\ dropped = 0
        /\ ring # <<>> => Cardinality(Older) = dropped
        /\ \A h \in P : h \in Older \/ \E i \in 1 .. n : h = ring[i]
        /\ \A i \in 1 .. n : ring[i] \in P
    BY <2>1, <2>2 DEF OrderInv, SavedInOrder
  <2>4. Older = {h \in P : h.no < ring[1].no} /\ Older' = {h \in P : h.no < ring'[1].no}
    BY <1>3, <2>1 DEF Older
  <2>5. ring' # <<>> /\ 1 \in 1 .. k /\ ring'[1] = A[1 + e]
    BY <1>9, <1>16, EmptySeq DEF k
  <2>6. \A h \in P : h.no \in Nat
    BY DEF TypeOK, SinkTypeOK, FramesOf, Frame
  <2> HIDE DEF P
  <2>7. /\ Cardinality(Older') = dropped'
        /\ \A h \in P : h \in Older' \/ \E i \in 1 .. k - 1 : h = ring'[i]
        /\ \A i \in 1 .. k - 1 : ring'[i] \in P
    <3>1. CASE ring = <<>>
      <4>1. n = 0 /\ e = 0 /\ P = {} /\ dropped = 0
        BY <1>7, <1>9, <1>10, <2>3, <3>1, EmptySeq DEF n
      <4>2. Older' = {} /\ 1 .. k - 1 = {} /\ dropped' = 0
        BY <1>5, <1>9, <2>4, <4>1
      <4>3. Cardinality({}) = 0
        BY FS_EmptySet
      <4> QED
        BY <4>1, <4>2, <4>3
    <3>2. CASE ring # <<>> /\ e = 0
      <4>1. n >= 1
        BY <1>7, <3>2, EmptySeq DEF n
      <4>2. k - 1 = n /\ dropped' = dropped
        <5>1. dropped \in Nat
          BY DEF TypeOK, RetainedTypeOK
        <5> QED
          BY <1>5, <1>7, <1>9, <3>2, <5>1
      <4>3. \A i \in 1 .. n : ring'[i] = ring[i]
        <5> SUFFICES ASSUME NEW i \in 1 .. n PROVE ring'[i] = ring[i]
          OBVIOUS
        <5>1. i \in 1 .. k /\ i + e = i
          BY <1>7, <1>9, <3>2
        <5> QED
          BY <1>8, <1>9, <5>1
      <4>4. Older' = Older
        BY <1>7, <2>4, <4>1, <4>3
      <4> QED
        BY <2>3, <3>2, <4>2, <4>3, <4>4
    <3>3. CASE ring # <<>> /\ e = 1
      <4>1. n >= 1 /\ 1 \in 1 .. n /\ k = n
        BY <1>7, <1>9, <1>10, <3>3
      <4>2. ring[1] = A[1] /\ ring'[1] = A[2] /\ A[1].no < A[2].no /\ A[1].no \in Nat /\ A[2].no \in Nat
        BY <1>7, <1>8, <1>13, <1>14, <2>5, <3>3, <4>1
      <4>3. \A i \in 2 .. n : ring[i] = ring'[i - 1] /\ A[2].no <= ring[i].no
        <5> SUFFICES ASSUME NEW i \in 2 .. n PROVE ring[i] = ring'[i - 1] /\ A[2].no <= ring[i].no
          OBVIOUS
        <5>1. i - 1 \in 1 .. k /\ (i - 1) + e = i /\ i \in 1 .. n /\ i \in 1 .. n + 1 /\ 2 \in 1 .. n + 1
          BY <1>7, <3>3, <4>1
        <5>2. ring[i] = A[i] /\ ring'[i - 1] = A[i]
          BY <1>8, <1>9, <5>1
        <5>3. i = 2 \/ 2 < i
          OBVIOUS
        <5>4. A[2].no <= A[i].no
          BY <1>13, <1>14, <5>1, <5>3
        <5> QED
          BY <5>2, <5>4
      <4>4. \A i \in 1 .. n : i = 1 \/ i \in 2 .. n
        BY <1>7
      <4>5. Older' = Older \cup {ring[1]}
        <5>1. \A h \in Older : h \in Older'
          <6> SUFFICES ASSUME NEW h \in P, h.no < A[1].no PROVE h.no < A[2].no
            BY <2>4, <4>2
          <6> QED
            BY <2>6, <4>2
        <5>2. ring[1] \in Older'
          BY <2>3, <2>4, <4>1, <4>2
        <5>3. ASSUME NEW h \in Older' PROVE h \in Older \cup {ring[1]}
          <6>1. h \in P /\ h.no < A[2].no /\ h.no \in Nat
            BY <2>4, <2>6, <4>2, <5>3
          <6>2. \A i \in 2 .. n : h # ring[i]
            BY <4>2, <4>3, <6>1
          <6> QED
            BY <2>3, <4>4, <6>1, <6>2
        <5> QED
          BY <5>1, <5>2, <5>3
      <4>6. Cardinality(Older') = dropped'
        <5>1. IsFiniteSet(Older)
          BY <2>3, <2>4, FS_Subset
        <5>2. ring[1] \notin Older
          BY <2>4, <4>2
        <5>3. Cardinality(Older \cup {ring[1]}) = Cardinality(Older) + 1
          BY <5>1, <5>2, FS_AddElement
        <5> QED
          BY <1>5, <2>3, <3>3, <4>5, <5>3
      <4>7. \A h \in P : h \in Older' \/ \E i \in 1 .. k - 1 : h = ring'[i]
        <5> SUFFICES ASSUME NEW h \in P, h \notin Older' PROVE \E i \in 1 .. k - 1 : h = ring'[i]
          OBVIOUS
        <5>1. PICK i \in 1 .. n : h = ring[i]
          BY <2>3, <4>5
        <5>2. i \in 2 .. n
          BY <4>4, <4>5, <5>1
        <5>3. i - 1 \in 1 .. k - 1
          BY <1>7, <4>1, <5>2
        <5> QED
          BY <4>3, <5>1, <5>2, <5>3
      <4>8. \A i \in 1 .. k - 1 : ring'[i] \in P
        <5> SUFFICES ASSUME NEW i \in 1 .. k - 1 PROVE ring'[i] \in P
          OBVIOUS
        <5>1. i + 1 \in 2 .. n /\ (i + 1) - 1 = i /\ i + 1 \in 1 .. n
          BY <1>7, <4>1
        <5>2. ring'[i] = ring[i + 1]
          BY <4>3, <5>1
        <5> QED
          BY <2>3, <5>1, <5>2
      <4> QED
        BY <4>6, <4>7, <4>8
    <3> QED
      BY <1>9, <3>1, <3>2, <3>3
  <2> QED
    BY <1>3, <2>1, <2>2, <2>3, <2>5, <2>7 DEF SavedInOrder, P
<1>21. FeedsBehind'
  <2> SUFFICES ASSUME NEW u \in Subscribers, NEW i \in 1 .. Len(feed[u]), feed[u][i].cap = c
               PROVE  feed[u][i].no <= given[c] /\ feed[u][i].no < given[c]
    BY <1>1, <1>3 DEF FeedsBehind
  <2> QED
    BY <1>1 DEF OrderInv, FeedsBehind, Owed
<1>22. FeedInOrder' /\ FilePacketsRight'
  BY <1>3 DEF OrderInv, FeedInOrder, FilePacketsRight
<1> QED
  BY <1>17, <1>18, <1>19, <1>20, <1>21, <1>22 DEF OrderInv

(* ... one that writes it, ...                                             *)
LEMMA OrderPersist ==
  ASSUME TypeOK, NoStackedReaders, Sequenced, OrderInv, NEW c \in Sources, Persist(c)
  PROVE  OrderInv'
<1> DEFINE f == cframe[c]
           n == Len(ring)
           P == FramesOf(saved[c])
<1>1. gen = c /\ cpc[c] = "persist" /\ c # None
  BY SessionAssumption DEF Persist, NoStackedReaders, Consuming
<1>2. /\ UNCHANGED <<gen, ring, dropped, sink, feed, given, cframe, csnap, vpc, vno, vframe>>
      /\ UNCHANGED <<phase, tpc, tnew>>
  BY DEF Persist, controlVars, retainedVars, feedVars, viewerVars, requestVars, sourceVars
<1>3. /\ cpc'[c] \in {"range", "fanout"} /\ \A d \in Sources : d # c => cpc'[d] = cpc[d]
  BY DEF Persist, CGoto, TypeOK, ConsumerTypeOK
<1>4. sink \in {None, c} /\ SinkTypeOK
  BY <1>1 DEF Sequenced, TypeOK
<1>5. f \in Frame /\ f.no \in Nat
  BY <1>1 DEF TypeOK, ConsumerTypeOK, Frame
<1>14. /\ \A d \in Sources : d # sink => saved'[d] = saved[d]
       /\ sink \in Sources /\ sinkState[sink] # "closed" =>
            saved'[sink] \in Outcomes(saved[sink], f) /\ sinkState'[sink] # "closed"
  BY <1>2, <1>4, <1>5, SinkWrites DEF Persist
<1>6. ring # <<>> /\ ring[n] = f /\ n \in Nat /\ n >= 1
  <2>1. ring # <<>> /\ ring[n] = f
    BY <1>1 DEF OrderInv, RingInOrder
  <2>2. ring \in Seq(Frame)
    BY DEF TypeOK, RetainedTypeOK
  <2> QED
    BY <2>1, <2>2, LenProperties, EmptySeq
<1> HIDE DEF f, n
<1>7. AtHand = 0 /\ AtHand' = 0
  BY <1>1, <1>2, <1>3 DEF AtHand
<1>8. OpenedOnce'
  <2>1. \A d \in Sources : cpc'[d] = "none" <=> cpc[d] = "none"
    BY <1>1, <1>3
  <2>2. \A d \in Sources : cpc'[d] = "none" => saved'[d] = NothingSaved
    <3> SUFFICES ASSUME NEW d \in Sources, cpc'[d] = "none" PROVE saved'[d] = NothingSaved
      OBVIOUS
    <3>1. d # sink
      BY <1>3, <1>4, SessionAssumption
    <3>2. cpc[d] = "none" /\ saved'[d] = saved[d]
      BY <1>14, <2>1, <3>1
    <3> QED
      BY <3>2 DEF OrderInv, OpenedOnce
  <2> QED
    BY <1>2, <2>1, <2>2, FramesEverywhere DEF OrderInv, OpenedOnce
<1>9. OnLastFrame'
  BY <1>1, <1>2, <1>3 DEF OrderInv, OnLastFrame
<1>10. RingInOrder'
  BY <1>1, <1>2, <1>3, <1>7 DEF OrderInv, RingInOrder
<1>11. SavedInOrder'
  <2> SUFFICES ASSUME sink # None PROVE SavedInOrder'
    BY <1>2 DEF SavedInOrder
  <2>1. sink = c /\ sink' = c
    BY <1>2, <1>4
  <2>2. Persisted = n - 1 /\ Persisted' = n
    BY <1>1, <1>2, <1>3, <2>1 DEF Persisted, n
  <2>3. /\ sinkState[c] # "closed" /\ Aged(saved[c]) /\ IsFiniteSet(P)
        /\ Cardinality(Older) = dropped
        /\ \A h \in P : h \in Older \/ \E i \in 1 .. n - 1 : h = ring[i]
        /\ \A i \in 1 .. n - 1 : ring[i] \in P
    BY <1>6, <2>1, <2>2 DEF OrderInv, SavedInOrder
  <2> DEFINE Q == FramesOf(saved'[c])
  <2>4. saved[c] \in Contents /\ saved'[c] \in Outcomes(saved[c], f) /\ sinkState'[c] # "closed"
    BY <1>4, <1>14, <2>1, <2>3 DEF SinkTypeOK, Contents
  <2>5. Older = {h \in P : h.no < ring[1].no} /\ Older' = {h \in Q : h.no < ring[1].no}
    BY <1>2, <2>1 DEF Older
  <2>6. \A h \in P : h.no \in Nat
    BY DEF TypeOK, SinkTypeOK, FramesOf, Frame
  <2> HIDE DEF P
  <2>7. /\ \A i \in 1 .. n : ring[i].no \in Nat
        /\ \A i, j \in 1 .. n : i < j => ring[i].no < ring[j].no
        /\ 1 \in 1 .. n /\ n \in 1 .. n
    BY <1>1, <1>6, FramesEverywhere DEF OrderInv, RingInOrder, n
  <2>8. ring[1].no <= f.no
    <3>1. CASE n = 1
      BY <1>5, <1>6, <3>1
    <3>2. CASE n # 1
      <4>1. 1 < n
        BY <1>6, <3>2
      <4> QED
        BY <1>5, <1>6, <2>7, <4>1
    <3> QED
      BY <3>1, <3>2
  <2>9. ASSUME NEW h \in P PROVE h.no < f.no
    <3>1. CASE h \in Older
      BY <1>5, <2>5, <2>6, <2>7, <2>8, <3>1
    <3>2. CASE \E i \in 1 .. n - 1 : h = ring[i]
      <4>1. PICK i \in 1 .. n - 1 : h = ring[i]
        BY <3>2
      <4>2. i \in 1 .. n /\ i < n
        BY <1>6, <4>1
      <4> QED
        BY <1>6, <2>7, <4>1, <4>2
    <3> QED
      BY <2>3, <3>1, <3>2
  <2>10. Q = P \cup {f} /\ Aged(saved'[c])
    BY <1>5, <2>3, <2>4, <2>9, OutcomeOf DEF P
  <2>11. Older' = Older
    <3>1. ~(f.no < ring[1].no)
      BY <1>5, <2>7, <2>8
    <3> QED
      BY <2>5, <2>10, <3>1
  <2> HIDE DEF Q
  <2>12. IsFiniteSet(Q)
    BY <2>3, <2>10, FS_AddElement
  <2>13. \A i \in 1 .. n : i \in 1 .. n - 1 \/ i = n
    BY <1>6
  <2>14. /\ \A h \in Q : h \in Older' \/ \E i \in 1 .. n : h = ring[i]
         /\ \A i \in 1 .. n : ring[i] \in Q
    <3>1. \A i \in 1 .. n - 1 : i \in 1 .. n
      BY <1>6
    <3> QED
      BY <1>6, <2>3, <2>7, <2>10, <2>11, <2>13, <3>1
  <2> QED
    BY <1>2, <1>6, <2>1, <2>2, <2>3, <2>4, <2>10, <2>11, <2>12, <2>14 DEF SavedInOrder, Q
<1>12. FeedsBehind'
  <2>1. \A u : Owed(u)
    BY <1>1 DEF Owed
  <2> QED
    BY <1>2, <2>1 DEF OrderInv, FeedsBehind
<1>13. FeedInOrder' /\ FilePacketsRight'
  BY <1>2 DEF OrderInv, FeedInOrder, FilePacketsRight
<1> QED
  BY <1>8, <1>9, <1>10, <1>11, <1>12, <1>13 DEF OrderInv

(* ... and one that sends it to a subscriber.                              *)
LEMMA OrderFanOut ==
  ASSUME TypeOK, SourceTypeOK, NoStackedReaders, OrderInv,
         NEW c \in Sources, NEW u \in Subscribers, FanOut(c, u)
  PROVE  OrderInv'
<1> DEFINE f == cframe[c]
           n == Len(feed[u])
<1>1. gen = c /\ cpc[c] = "fanout" /\ u \in csnap[c]
  BY DEF FanOut, NoStackedReaders, Consuming
<1>2. /\ UNCHANGED <<gen, ring, dropped, sink, sinkState, saved, given, cframe, vpc, vno, vframe>>
      /\ UNCHANGED <<phase, tpc, tnew>>
  BY DEF FanOut, retainedVars, sinkVars, viewerVars, requestVars, sourceVars
<1>3. /\ cpc'[c] \in {"range", "fanout"} /\ \A d \in Sources : d # c => cpc'[d] = cpc[d]
      /\ csnap'[c] = csnap[c] \ {u}
  BY DEF FanOut, CGoto, TypeOK, ConsumerTypeOK
<1>4. /\ \A w \in Subscribers : w # u => feed'[w] = feed[w]
      /\ feed'[u] = feed[u] \/ feed'[u] = Append(feed[u], f)
  BY DEF FanOut, TypeOK, FeedTypeOK
<1>5. f \in Frame /\ f.cap = c /\ f.no = given[c] /\ given[c] \in Nat
  BY <1>1 DEF TypeOK, ConsumerTypeOK, OrderInv, OnLastFrame, SourceTypeOK
<1>6. feed[u] \in Seq(Frame) /\ n \in Nat
  BY LenProperties DEF TypeOK, FeedTypeOK
<1>7. feed'[u] = Append(feed[u], f) =>
        /\ Len(feed'[u]) = n + 1 /\ feed'[u][n + 1] = f
        /\ \A i \in 1 .. n : feed'[u][i] = feed[u][i]
  BY <1>5, <1>6, AppendProperties
<1> HIDE DEF f, n
(* What is in a channel was there, or is the frame at hand, and last.      *)
<1>8. ASSUME NEW w \in Subscribers, NEW i \in 1 .. Len(feed'[w])
      PROVE  \/ i \in 1 .. Len(feed[w]) /\ feed'[w][i] = feed[w][i]
             \/ w = u /\ feed'[w][i] = f /\ i = n + 1 /\ Len(feed'[w]) = n + 1
  <2>1. CASE feed'[w] = feed[w]
    BY <1>8, <2>1
  <2>2. CASE w = u /\ feed'[u] = Append(feed[u], f)
    <3>1. i \in 1 .. n + 1
      BY <1>7, <1>8, <2>2
    <3>2. i \in 1 .. n \/ i = n + 1
      BY <1>6, <3>1
    <3> QED
      BY <1>7, <2>2, <3>2 DEF n
  <2> QED
    BY <1>4, <2>1, <2>2
<1>9. OpenedOnce'
  <2>1. \A d \in Sources : cpc'[d] = "none" <=> cpc[d] = "none"
    BY <1>1, <1>3
  <2>2. ASSUME NEW w \in Subscribers, NEW i \in 1 .. Len(feed'[w])
        PROVE  cpc'[feed'[w][i].cap] # "none"
    <3>1. CASE i \in 1 .. Len(feed[w]) /\ feed'[w][i] = feed[w][i]
      BY <2>1, <3>1, FramesEverywhere DEF OrderInv, OpenedOnce
    <3>2. CASE feed'[w][i] = f
      BY <1>1, <1>5, <2>1, <3>2
    <3> QED
      BY <1>8, <2>2, <3>1, <3>2
  <2> QED
    BY <1>2, <2>1, <2>2 DEF OrderInv, OpenedOnce
<1>10. OnLastFrame'
  BY <1>1, <1>2, <1>3 DEF OrderInv, OnLastFrame
<1>11. RingInOrder'
  <2>1. AtHand = 0 /\ AtHand' = 0
    BY <1>1, <1>2, <1>3 DEF AtHand
  <2> QED
    BY <1>1, <1>2, <1>3, <2>1 DEF OrderInv, RingInOrder
<1>12. SavedInOrder'
  <2>1. sink \in Sources => Persisted' = Persisted
    BY <1>1, <1>2, <1>3 DEF Persisted
  <2>2. Older' = Older /\ sink \in SourceOrNone
    BY <1>2 DEF Older, TypeOK, SinkTypeOK
  <2> QED
    BY <1>2, <2>1, <2>2 DEF OrderInv, SavedInOrder, SourceOrNone
<1>13. FeedsBehind'
  <2> SUFFICES ASSUME NEW w \in Subscribers, NEW i \in 1 .. Len(feed'[w]), feed'[w][i].cap = c
               PROVE  /\ feed'[w][i].no <= given[c]
                      /\ Owed(w)' => feed'[w][i].no < given[c]
    BY <1>1, <1>2 DEF FeedsBehind
  <2>1. Owed(w)' => Owed(w) /\ w # u
    BY <1>1, <1>2, <1>3 DEF Owed
  <2>2. CASE i \in 1 .. Len(feed[w]) /\ feed'[w][i] = feed[w][i]
    BY <1>1, <2>1, <2>2 DEF OrderInv, FeedsBehind
  <2>3. CASE w = u /\ feed'[w][i] = f
    BY <1>5, <2>1, <2>3
  <2> QED
    BY <1>8, <2>2, <2>3
<1>14. FeedInOrder'
  <2> SUFFICES ASSUME NEW w \in Subscribers, NEW i \in 1 .. Len(feed'[w]),
                      NEW j \in 1 .. Len(feed'[w]), i < j, feed'[w][i].cap = c
               PROVE  feed'[w][j].cap = c /\ feed'[w][i].no < feed'[w][j].no
    BY <1>1, <1>2 DEF FeedInOrder
  <2>1. i \in 1 .. Len(feed[w]) /\ feed'[w][i] = feed[w][i]
    <3>1. ~(i = n + 1 /\ Len(feed'[w]) = n + 1)
      BY <1>6
    <3> QED
      BY <1>8, <3>1
  <2>2. CASE j \in 1 .. Len(feed[w]) /\ feed'[w][j] = feed[w][j]
    BY <1>1, <2>1, <2>2 DEF OrderInv, FeedInOrder
  <2>3. CASE w = u /\ feed'[w][j] = f
    <3>1. Owed(u)
      BY <1>1 DEF Owed
    <3>2. feed[u][i].no < given[c]
      BY <1>1, <2>1, <2>3, <3>1 DEF OrderInv, FeedsBehind
    <3> QED
      BY <1>5, <2>1, <2>3, <3>2
  <2> QED
    BY <1>8, <2>2, <2>3
<1>15. FilePacketsRight'
  BY <1>2 DEF OrderInv, FilePacketsRight
<1> QED
  BY <1>9, <1>10, <1>11, <1>12, <1>13, <1>14, <1>15 DEF OrderInv

(* A subscriber that reads leaves the rest as it was.                      *)
LEMMA OrderReadFeed ==
  ASSUME TypeOK, OrderInv, NEW u \in Subscribers, ReadFeed(u)
  PROVE  OrderInv'
<1> DEFINE n == Len(feed[u])
<1>1. /\ UNCHANGED <<gen, ring, dropped, sink, sinkState, saved, given, cpc, cframe, csnap, vpc, vno, vframe>>
      /\ UNCHANGED <<phase, tpc, tnew>>
  BY DEF ReadFeed, controlVars, retainedVars, sinkVars, consumerVars, viewerVars, requestVars, sourceVars
<1>2. /\ \A w \in Subscribers : w # u => feed'[w] = feed[w]
      /\ feed'[u] = Tail(feed[u]) /\ feed[u] # <<>> /\ feed[u] \in Seq(Frame)
  BY DEF ReadFeed, TypeOK, FeedTypeOK
<1>3. n \in Nat /\ Len(feed'[u]) = n - 1 /\ \A i \in 1 .. Len(feed'[u]) : feed'[u][i] = feed[u][i + 1]
  BY <1>2, HeadTailProperties, LenProperties
<1> HIDE DEF n
<1> DEFINE before(w, i) == IF w = u THEN i + 1 ELSE i
<1>4. ASSUME NEW w \in Subscribers, NEW i \in 1 .. Len(feed'[w])
      PROVE  before(w, i) \in 1 .. Len(feed[w]) /\ feed'[w][i] = feed[w][before(w, i)]
  <2>1. CASE w = u
    <3>1. i \in 1 .. n - 1
      BY <1>3, <1>4, <2>1
    <3>2. i + 1 \in 1 .. n
      BY <1>3, <3>1
    <3> QED
      BY <1>3, <1>4, <2>1, <3>2 DEF n
  <2>2. CASE w # u
    BY <1>2, <1>4, <2>2
  <2> QED
    BY <2>1, <2>2
<1>5. \A w \in Subscribers : \A i, j \in 1 .. Len(feed'[w]) : i < j => before(w, i) < before(w, j)
  OBVIOUS
<1> HIDE DEF before
<1>6. OpenedOnce' /\ OnLastFrame' /\ RingInOrder'
  BY <1>1, <1>4 DEF OrderInv, OpenedOnce, OnLastFrame, RingInOrder, AtHand
<1>7. SavedInOrder' /\ FilePacketsRight'
  BY <1>1 DEF OrderInv, SavedInOrder, Persisted, Older, FilePacketsRight
<1>8. FeedsBehind'
  BY <1>1, <1>4 DEF OrderInv, FeedsBehind, Owed
<1>9. FeedInOrder'
  <2> SUFFICES ASSUME NEW w \in Subscribers, NEW i \in 1 .. Len(feed'[w]),
                      NEW j \in 1 .. Len(feed'[w]), i < j, feed'[w][i].cap = gen
               PROVE  feed'[w][j].cap = gen /\ feed'[w][i].no < feed'[w][j].no
    BY <1>1 DEF FeedInOrder
  <2> DEFINE p == before(w, i)  q == before(w, j)
  <2>1. p \in 1 .. Len(feed[w]) /\ q \in 1 .. Len(feed[w]) /\ p < q
    BY <1>4, <1>5
  <2>2. feed'[w][i] = feed[w][p] /\ feed'[w][j] = feed[w][q]
    BY <1>4
  <2> HIDE DEF p, q
  <2> QED
    BY <2>1, <2>2 DEF OrderInv, FeedInOrder
<1> QED
  BY <1>6, <1>7, <1>8, <1>9 DEF OrderInv

(* A viewer finds the packet it asks for in the ring, by its distance from *)
(* the first one where none is missing, or in the file.                    *)
LEMMA OrderFetch ==
  ASSUME TypeOK, SourceTypeOK, NoLeak, OrderInv, NEW v \in Viewers, NEW no \in 1 .. MaxFrames, FetchPacket(v, no)
  PROVE  OrderInv'
<1>1. /\ UNCHANGED <<gen, ring, dropped, sinkVars, feed, given, consumerVars>>
      /\ UNCHANGED <<phase, tpc, tnew>>
  BY DEF FetchPacket, controlVars, retainedVars, feedVars, requestVars, sourceVars
<1>2. PICK f \in PacketAnswers(no) : vframe' = [vframe EXCEPT ![v] = f]
  BY DEF FetchPacket
<1>3. vno'[v] = no /\ vframe'[v] = f /\ vpc'[v] = "got"
      /\ \A w \in Viewers : w # v => vpc'[w] = vpc[w] /\ vno'[w] = vno[w] /\ vframe'[w] = vframe[w]
  BY <1>2 DEF FetchPacket, TypeOK, ViewerTypeOK
<1>4. f.cap \notin LiveSources => f.no = no
  <2> SUFFICES ASSUME f.cap \notin LiveSources PROVE f.no = no
    OBVIOUS
  <2>1. CASE InRing(no)
    <3>1. f = ring[RingIndex(no)]
      BY <1>2, <2>1 DEF PacketAnswers
    <3>2. no \in Nat /\ ring # <<>> /\ ring \in Seq(Frame)
      BY <2>1, SourceAssumption DEF InRing, TypeOK, RetainedTypeOK
    <3>3. Len(ring) \in Nat /\ 1 \in 1 .. Len(ring)
      BY <3>2, LenProperties, EmptySeq
    <3>4. ring[1].no \in Nat
      BY <3>3, FramesEverywhere
    <3>5. RingIndex(no) \in 1 .. Len(ring) /\ RingIndex(no) + ring[1].no = no + 1
      BY <2>1, <3>2, <3>3, <3>4 DEF InRing, RingIndex
    <3>6. f.cap = gen /\ gen \in Sources /\ gen # None /\ f.no \in Nat
      BY <3>1, <3>5, FramesEverywhere, SessionAssumption DEF NoLeak
    <3>7. /\ ring[1].no + Len(ring) + AtHand = given[gen] + 1
          /\ f.no + Len(ring) + AtHand = given[gen] + RingIndex(no)
      BY <3>1, <3>3, <3>5, <3>6 DEF OrderInv, RingInOrder
    <3>8. AtHand \in Nat /\ given[gen] \in Nat
      BY <3>6 DEF AtHand, SourceTypeOK
    <3> DEFINE a == ring[1].no  b == Len(ring)  k == RingIndex(no)  m == f.no  g == given[gen]
    <3>9. /\ a \in Nat /\ b \in Nat /\ k \in Nat /\ m \in Nat /\ g \in Nat /\ AtHand \in Nat /\ no \in Nat
          /\ k + a = no + 1 /\ a + b + AtHand = g + 1 /\ m + b + AtHand = g + k
      BY <3>2, <3>3, <3>4, <3>5, <3>6, <3>7, <3>8
    <3> HIDE DEF a, b, k, m, g
    <3>10. m = no
      BY <3>9
    <3> QED
      BY <3>10 DEF m
  <2>2. CASE ~InRing(no)
    BY <1>2, <2>2 DEF PacketAnswers, ReadBack
  <2> QED
    BY <2>1, <2>2
<1>5. FilePacketsRight'
  BY <1>3, <1>4 DEF OrderInv, FilePacketsRight
<1>6. OpenedOnce' /\ OnLastFrame' /\ RingInOrder'
  BY <1>1 DEF OrderInv, OpenedOnce, OnLastFrame, RingInOrder, AtHand, sinkVars, consumerVars
<1>7. SavedInOrder' /\ FeedsBehind' /\ FeedInOrder'
  BY <1>1 DEF OrderInv, SavedInOrder, Persisted, Older, FeedsBehind, FeedInOrder, Owed, sinkVars, consumerVars
<1> QED
  BY <1>5, <1>6, <1>7 DEF OrderInv

(* Every step of one starter's session keeps the order.                    *)
LEMMA OrderStep ==
  ASSUME OneStarter, RetentionInv, ExclusiveInv, OrderInv, [Next]_vars PROVE OrderInv'
<1>1. TypeOK /\ SourceInv /\ SourceTypeOK /\ Len(ring) <= RingSize
  BY DEF RetentionInv, RingAccounted, SourceInv
<1>2. Sequenced /\ NoStackedReaders /\ NoLeak
  BY DEF ExclusiveInv
<1>3. \A c \in Sources : phase'[c] = "unopened" => phase[c] = "unopened"
  BY <1>1, NextIsSourceStep, OpenedStays
<1>4. ASSUME UNCHANGED <<gen, ring, dropped, sinkVars, feed, consumerVars, given, vpc, vno, vframe>>,
             UNCHANGED <<tpc, tnew>>, \A c \in Sources : phase[c] # "unopened" => phase'[c] # "unopened"
      PROVE  OrderInv'
  <2>1. \A c \in Sources : cpc'[c] = cpc[c]
    BY <1>4 DEF consumerVars
  <2>2. UNCHANGED <<gen, ring, dropped, sinkVars, feed, cframe, csnap, given, vpc, vno, vframe>>
    BY <1>4 DEF consumerVars
  <2>3. \A t \in Starters :
          tpc'[t] \notin {"idle", "analyze"} =>
            tnew'[t] \in Sources /\ cpc[tnew'[t]] = "none" /\ phase'[tnew'[t]] # "unopened"
    BY <1>4 DEF OrderInv, OpenedOnce
  <2> QED
    BY <1>1, <1>3, <2>1, <2>2, <2>3, OrderQuiet
<1>5. ASSUME NEW t \in Starters, NEW c \in Sources, OpenNew(t, c) PROVE OrderInv'
  <2>1. UNCHANGED <<gen, ring, dropped, sinkVars, feed, consumerVars, given, vpc, vno, vframe>>
    BY <1>5 DEF OpenNew, OpenSource, controlVars, retainedVars, feedVars, viewerVars
  <2>2. cpc[c] = "none"
    BY <1>5 DEF OpenNew, OpenSource, OrderInv, OpenedOnce
  <2>3. phase'[c] # "unopened"
    BY <1>1, <1>5 DEF OpenNew, OpenSource, Goto, LoopTop, SourceTypeOK
  <2>4. ASSUME NEW s \in Starters, tpc'[s] \notin {"idle", "analyze"}
        PROVE  tnew'[s] \in Sources /\ cpc[tnew'[s]] = "none" /\ phase'[tnew'[s]] # "unopened"
    <3>1. s = t
      BY DEF OneStarter
    <3>2. tnew'[t] = c
      BY <1>1, <1>5 DEF OpenNew, TypeOK, RequestTypeOK, Requests
    <3> QED
      BY <2>2, <2>3, <3>1, <3>2
  <2>5. \A d \in Sources : cpc'[d] = cpc[d]
    BY <2>1 DEF consumerVars
  <2>6. UNCHANGED <<gen, ring, dropped, sinkVars, feed, cframe, csnap, given, vpc, vno, vframe>>
    BY <2>1 DEF consumerVars
  <2> QED
    BY <1>1, <1>3, <2>4, <2>5, <2>6, OrderQuiet
<1>6. ASSUME NEW t \in Requests, RequestStep(t) PROVE OrderInv'
  <2>1. ASSUME NEW persisted \in BOOLEAN, Install(t, persisted) PROVE OrderInv'
    BY <1>1, <1>2, <2>1, OrderInstall
  <2> QED
    BY <1>1, <1>6, <2>1, NextIsSourceStep, OrderRequest DEF RequestStep
<1>7. ASSUME NEW c \in Sources, ConsumerStep(c) PROVE OrderInv'
  BY <1>1, <1>2, <1>7, OrderConsumerIdle, OrderTakeFrame, OrderRecord, OrderPersist, OrderFanOut
     DEF ConsumerStep
<1>8. ASSUME NEW c \in Sources, SourceLoop(c), OthersUnchanged PROVE OrderInv'
  <2>1. UNCHANGED given
    BY <1>8 DEF SourceLoop, CheckDone, ReadFrame, ReadNothing, ReadFails, SendFrame,
         AbandonFrame, DropFrame
  <2>2. UNCHANGED <<gen, ring, dropped, sinkVars, feed, consumerVars, vpc, vno, vframe, tpc, tnew>>
    BY <1>8 DEF OthersUnchanged, controlVars, retainedVars, feedVars, viewerVars, requestVars
  <2> QED
    BY <1>3, <1>4, <2>1, <2>2
<1>9. ASSUME NEW u \in Subscribers, SubscriberStep(u) PROVE OrderInv'
  <2>1. CASE ReadFeed(u)
    BY <1>1, <2>1, OrderReadFeed
  <2>2. CASE Subscribe(u) \/ Unsubscribe(u) \/ CloseFeed(u)
    BY <1>4, <2>2 DEF Subscribe, Unsubscribe, CloseFeed, controlVars, retainedVars, viewerVars,
         requestVars, sourceVars
  <2> QED
    BY <1>9, <2>1, <2>2 DEF SubscriberStep
<1>10. ASSUME NEW v \in Viewers, ViewerStep(v) PROVE OrderInv'
  <2>1. ASSUME NEW no \in 1 .. MaxFrames, FetchPacket(v, no) PROVE OrderInv'
    BY <1>1, <1>2, <2>1, OrderFetch
  <2>2. CASE Attribute(v)
    <3>1. OpenedOnce' /\ OnLastFrame' /\ RingInOrder'
      BY <2>2 DEF Attribute, OrderInv, OpenedOnce, OnLastFrame, RingInOrder, AtHand, controlVars,
           retainedVars, sinkVars, feedVars, consumerVars, requestVars, sourceVars
    <3>2. SavedInOrder' /\ FeedsBehind' /\ FeedInOrder'
      BY <2>2 DEF Attribute, OrderInv, SavedInOrder, Persisted, Older, FeedsBehind, FeedInOrder, Owed,
           controlVars, retainedVars, sinkVars, feedVars, consumerVars, sourceVars
    <3>3. FilePacketsRight'
      BY <1>1, <2>2 DEF Attribute, OrderInv, FilePacketsRight, TypeOK, ViewerTypeOK
    <3> QED
      BY <3>1, <3>2, <3>3 DEF OrderInv
  <2> QED
    BY <1>10, <2>1, <2>2 DEF ViewerStep
<1>11. CASE UNCHANGED vars
  BY <1>4, <1>11 DEF vars, sourceVars, controlVars, retainedVars, feedVars, viewerVars, requestVars
<1>12. ASSUME NEW s \in Sources, NEW n \in 0 .. MaxFrames, DiskFault(s, n) PROVE OrderInv'
  <2>1. UNCHANGED <<gen, sink, ring, dropped, feed, given, cpc, cframe, csnap, vpc, vno, vframe,
                    phase, tpc, tnew>>
    BY <1>12, FaultIsQuiet DEF sourceVars, controlVars, retainedVars, feedVars, consumerVars,
       requestVars, viewerVars
  <2>2. \A c \in Sources : /\ FramesOf(saved'[c]) = FramesOf(saved[c])
                           /\ saved[c] = NothingSaved => saved'[c] = NothingSaved
                           /\ Aged(saved[c]) => Aged(saved'[c])
                           /\ sinkState[c] # "closed" => sinkState'[c] # "closed"
    BY <1>1, <1>12, SinkFaults DEF TypeOK
  <2>3. OpenedOnce' /\ OnLastFrame' /\ RingInOrder'
    BY <2>1, <2>2 DEF OrderInv, OpenedOnce, OnLastFrame, RingInOrder, AtHand
  <2>4. FeedsBehind' /\ FeedInOrder' /\ FilePacketsRight'
    BY <2>1 DEF OrderInv, FeedsBehind, FeedInOrder, Owed, FilePacketsRight
  <2>5. SavedInOrder'
    <3> SUFFICES ASSUME sink # None PROVE SavedInOrder'
      BY <2>1 DEF SavedInOrder
    <3>1. sink \in Sources
      BY <1>1 DEF TypeOK, SinkTypeOK, SourceOrNone
    <3>2. FramesOf(saved'[sink]) = FramesOf(saved[sink])
      BY <2>2, <3>1
    <3>3. Older' = Older /\ Persisted' = Persisted
      BY <2>1, <3>2 DEF Older, Persisted
    <3> QED
      BY <2>1, <2>2, <3>1, <3>2, <3>3 DEF OrderInv, SavedInOrder
  <2> QED
    BY <2>3, <2>4, <2>5 DEF OrderInv
<1> QED
  BY <1>5, <1>6, <1>7, <1>8, <1>9, <1>10, <1>11, <1>12 DEF Next

LEMMA OrderAlways == ASSUME OneStarter PROVE Spec => []OrderInv
<1>1. RetentionInv /\ ExclusiveInv /\ OrderInv /\ [Next]_vars => OrderInv'
  BY OrderStep
<1> QED
  BY <1>1, OrderInit, RetentionAlways, ExclusiveAlways, PTL DEF Spec

(* With one starter, what a subscriber reads of the capture being shown    *)
(* comes in the order of capture (session.go consume, Subscribe).          *)
THEOREM FeedsInOrder == ASSUME OneStarter PROVE Spec => []FeedInOrder
  BY OrderAlways, PTL DEF OrderInv

(* With one starter, whatever the disk does and however files fill, every  *)
(* frame the ring has evicted is in one of the two files kept, unless its  *)
(* file was removed by a rotation, then being older than all that can be   *)
(* read, or a fault kept it from disk (session.go consume, Packet;         *)
(* pcapsink.go Write, rotate).                                             *)
THEOREM EvictedStayReadable == ASSUME OneStarter PROVE Spec => []EvictedCanBeReadBack
<1>1. FramesOf(saved[sink]) = Offered(sink)
  BY DEF FramesOf, Offered, Readable
<1>2. OrderInv => EvictedCanBeReadBack
  BY <1>1 DEF OrderInv, SavedInOrder, Older, Aged, Readable, EvictedCanBeReadBack
<1> QED
  BY <1>2, OrderAlways, PTL

(* With one starter, a packet of a replayed file is the one asked for; and *)
(* where only files are opened, every packet is. A live capture may lose a *)
(* frame after numbering it, and then the ring's index is off.             *)
THEOREM PacketsOfFilesRight == ASSUME OneStarter PROVE Spec => []FilePacketsRight
  BY OrderAlways, PTL DEF OrderInv

THEOREM FilesAnswerRight ==
  ASSUME OneStarter, LiveSources = {} PROVE Spec => []PacketHasOrdinal
<1>1. FilePacketsRight => PacketHasOrdinal
  BY DEF FilePacketsRight, PacketHasOrdinal
<1> QED
  BY <1>1, PacketsOfFilesRight, PTL

-----------------------------------------------------------------------------
(* Running, for any number of requests: what is installed is a source that *)
(* somebody has opened, and only the end of a consumer ends it.            *)
InstallsOpened ==
  \A t \in Requests :
    /\ tpc[t] \in {"readDone", "install", "analyze"} => t \in Starters
    /\ t \in Starters /\ tpc[t] # "idle" => tnew[t] \in Sources

RunningInv == InstallsOpened /\ RunningMeansConsuming

LEMMA RunningInit == Init => RunningInv
  BY DEF Init, RunningInv, InstallsOpened, RunningMeansConsuming

LEMMA RunningStep == ASSUME TypeOK, RunningInv, [Next]_vars PROVE RunningInv'
<1> USE DEF RunningInv
<1>1. ASSUME UNCHANGED <<tpc, tnew>> PROVE InstallsOpened'
  BY <1>1 DEF InstallsOpened
<1>2. ASSUME UNCHANGED <<gen, running, cpc>> PROVE RunningMeansConsuming'
  BY <1>2 DEF RunningMeansConsuming, Consuming
<1>3. ASSUME NEW t \in Starters, NEW c \in Sources, OpenNew(t, c) PROVE RunningInv'
  <2>1. InstallsOpened'
    BY <1>3 DEF OpenNew, Step, InstallsOpened, TypeOK, RequestTypeOK, Requests
  <2> QED
    BY <1>2, <1>3, <2>1 DEF OpenNew, controlVars, consumerVars
<1>4. ASSUME NEW t \in Requests, RequestStep(t) PROVE RunningInv'
  <2>1. ASSUME NEW persisted \in BOOLEAN, Install(t, persisted) PROVE RunningInv'
    <3>1. tnew[t] \in Sources /\ tnew[t] # None
      BY <2>1, SessionAssumption DEF Install, Step, InstallsOpened
    <3>2. gen' = tnew[t] /\ cpc'[tnew[t]] = "spawned"
      BY <2>1, <3>1 DEF Install, TypeOK, ConsumerTypeOK
    <3>3. RunningMeansConsuming'
      BY <3>1, <3>2 DEF RunningMeansConsuming, Consuming
    <3>4. InstallsOpened'
      BY <2>1 DEF Install, Step, InstallsOpened, TypeOK, RequestTypeOK
    <3> QED
      BY <3>3, <3>4
  <2>2. ASSUME \/ RejectFilter(t) \/ StopTakesSource(t) \/ StopClosesSink(t)
               \/ StopClosesSource(t) \/ StopFails(t) \/ ReadConsumeDone(t)
               \/ \E analyzed \in BOOLEAN : PublishReport(t, analyzed)
        PROVE  RunningInv'
    <3> USE DEF RejectFilter, StopTakesSource, StopClosesSink, StopClosesSource, StopFails,
                ReadConsumeDone, PublishReport
    <3>1. InstallsOpened'
      BY <2>2 DEF Step, InstallsOpened, TypeOK, RequestTypeOK
    <3>2. (UNCHANGED running \/ running' = FALSE) /\ UNCHANGED <<gen, cpc>>
      BY <2>2 DEF controlVars, consumerVars
    <3> QED
      BY <3>1, <3>2 DEF RunningMeansConsuming, Consuming
  <2> QED
    BY <1>4, <2>1, <2>2 DEF RequestStep
<1>5. ASSUME NEW c \in Sources, ConsumerStep(c) PROVE RunningInv'
  <2>1. UNCHANGED <<tpc, tnew>>
    BY <1>5 DEF ConsumerStep, TakeNames, TakeFrame, Record, Persist, FanOut, EndRange,
         FinishConsume, requestVars
  <2>2. CASE FinishConsume(c)
    BY <1>1, <2>1, <2>2 DEF FinishConsume, RunningMeansConsuming
  <2>3. CASE ~FinishConsume(c)
    <3>1. UNCHANGED <<gen, running>>
      BY <1>5, <2>3 DEF ConsumerStep, TakeNames, TakeFrame, Record, Persist, FanOut, EndRange, controlVars
    <3>2. \A d \in Sources : Consuming(d) => Consuming(d)'
      BY <1>5, <2>3 DEF ConsumerStep, TakeNames, TakeFrame, Record, Persist, FanOut, EndRange,
           CGoto, Consuming, TypeOK, ConsumerTypeOK
    <3>3. gen \in SourceOrNone
      BY DEF TypeOK, ControlTypeOK
    <3> QED
      BY <1>1, <2>1, <3>1, <3>2, <3>3 DEF RunningMeansConsuming, SourceOrNone
  <2> QED
    BY <2>2, <2>3
<1>6. ASSUME NEW c \in Sources, SourceLoop(c), OthersUnchanged PROVE RunningInv'
  BY <1>1, <1>2, <1>6 DEF OthersUnchanged, controlVars, consumerVars, requestVars
<1>7. ASSUME NEW u \in Subscribers, SubscriberStep(u) PROVE RunningInv'
  BY <1>1, <1>2, <1>7 DEF SubscriberStep, Subscribe, ReadFeed, Unsubscribe, CloseFeed,
       controlVars, consumerVars, requestVars
<1>8. ASSUME NEW v \in Viewers, ViewerStep(v) PROVE RunningInv'
  BY <1>1, <1>2, <1>8 DEF ViewerStep, Attribute, FetchPacket, controlVars, consumerVars, requestVars
<1>9. CASE UNCHANGED vars
  BY <1>1, <1>2, <1>9 DEF vars, controlVars, consumerVars, requestVars
<1>10. ASSUME NEW s \in Sources, NEW n \in 0 .. MaxFrames, DiskFault(s, n) PROVE RunningInv'
  BY <1>1, <1>2, <1>10 DEF DiskFault, controlVars, consumerVars, requestVars
<1> QED
  BY <1>3, <1>4, <1>5, <1>6, <1>7, <1>8, <1>9, <1>10 DEF Next

(* However many requests overlap, a session that says it is running has a  *)
(* capture, and the consumer of that capture has not ended (session.go     *)
(* startWith, Stop, consume).                                              *)
THEOREM RunningIsTrue == Spec => []RunningMeansConsuming
<1>1. TypeOK /\ RunningInv /\ [Next]_vars => RunningInv'
  BY RunningStep
<1>2. RunningInv => RunningMeansConsuming
  BY DEF RunningInv
<1> QED
  BY <1>1, <1>2, RunningInit, TypeCorrect, PTL DEF Spec
=============================================================================
