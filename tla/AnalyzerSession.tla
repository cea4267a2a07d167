-------------------------- MODULE AnalyzerSession --------------------------
(***************************************************************************)
(* gui.Session, the analyzer's one capture (internal/gui/session.go), with *)
(* everything that runs against it at once:                                *)
(*                                                                         *)
(*   starters     HTTP requests to /api/start and /api/open                *)
(*   stoppers     HTTP requests to /api/stop                               *)
(*   consumers    the consume goroutine each started capture gets          *)
(*   subscribers  SSE connections fed through Subscribe                    *)
(*   viewers      requests for one packet's detail                         *)
(*   sources      the capture goroutines of CaptureSource                  *)
(*                                                                         *)
(* Every section the code holds Session.mu for is one action, and so is    *)
(* every step it takes outside the lock. A frame is the record of the      *)
(* capture it was read by and its ordinal there.                           *)
(***************************************************************************)
EXTENDS CaptureSource, FiniteSets

CONSTANTS
  Starters,     \* requests that start a capture or open a file
  Stoppers,     \* requests that stop the capture
  Subscribers,  \* SSE connections
  Viewers,      \* packet-detail requests
  RingSize,     \* Session.size
  FeedCap,      \* buffer of a subscriber's channel (2048)
  None          \* nil

Requests == Starters \cup Stoppers

ASSUME SessionAssumption ==
  /\ Starters \cap Stoppers = {}
  /\ RingSize \in Nat \ {0}
  /\ FeedCap \in Nat \ {0}
  /\ None \notin Sources

VARIABLES
  src,          \* Session.src
  gen,          \* the capture last installed: owner of dis, names, iface,
                \* offline, channelBytes and consumeDone, all set together
  running,      \* Session.running
  ring,         \* Session.ring
  dropped,      \* Session.dropped
  tally,        \* Session.channelBytes summed, each frame weighing one
  procCache,    \* Session.procCache: ordinal to the capture it was made for
  report,       \* Session.report: the file it summarises
  sink,         \* Session.sink: the capture it was opened for
  sinkState,    \* of each capture's pcapSink: "none"; "open"; "jammed" once a
                \* flush has failed; "stopped", writing no more; or "closed"
  saved,        \* of each capture's pcapSink: the frames in its two files, and,
                \* as a history, those rotation removed or a fault lost
  subs,         \* Session.subs
  feedState,    \* of each subscriber: "off", "on", "leaving" or "closed"
  feed,         \* of each subscriber: the frames in its channel
  crashed,      \* a send on a closed channel has panicked
  cpc,          \* of each capture: where its consume goroutine is
  cnames,       \* ... the capture whose name map it teaches
  cframe,       \* ... the frame it is working on
  csnap,        \* ... the subscribers it has still to send it to
  tpc,          \* of each request: where it is
  tnew,         \* ... the source it has opened
  told,         \* ... the source its Stop took out of the session
  twait,        \* ... the capture whose consumeDone it waits for
  vpc,          \* of each viewer: "idle", "got" or "shown"
  vno,          \* ... the ordinal asked for
  vframe,       \* ... the frame Packet returned
  vattr         \* ... whose process attribution is shown, None if looked up live

controlVars  == <<src, gen, running, report, crashed>>
retainedVars == <<ring, dropped, tally, procCache>>
sinkVars     == <<sink, sinkState, saved>>
feedVars     == <<subs, feedState, feed>>
consumerVars == <<cpc, cnames, cframe, csnap>>
requestVars  == <<tpc, tnew, told, twait>>
viewerVars   == <<vpc, vno, vframe, vattr>>

vars == <<sourceVars, controlVars, retainedVars, sinkVars, feedVars,
          consumerVars, requestVars, viewerVars>>

Frame == [cap : Sources, no : Nat]
NoFrame == [cap |-> None, no |-> 0]

NothingSaved == [current |-> {}, previous |-> {}, removed |-> {}, lost |-> {}]

RequestSteps == {"idle", "opened", "closeSink", "closeOld", "readDone",
                 "install", "analyze"}
ConsumerSteps == {"none", "spawned", "range", "record", "persist", "fanout",
                  "ending", "done"}

Init ==
  /\ SourceInit
  /\ src = None /\ gen = None /\ running = FALSE /\ report = None /\ crashed = FALSE
  /\ ring = <<>> /\ dropped = 0 /\ tally = 0 /\ procCache = <<>>
  /\ sink = None
  /\ sinkState = [c \in Sources |-> "none"]
  /\ saved = [c \in Sources |-> NothingSaved]
  /\ subs = {}
  /\ feedState = [u \in Subscribers |-> "off"]
  /\ feed = [u \in Subscribers |-> <<>>]
  /\ cpc = [c \in Sources |-> "none"]
  /\ cnames = [c \in Sources |-> None]
  /\ cframe = [c \in Sources |-> NoFrame]
  /\ csnap = [c \in Sources |-> {}]
  /\ tpc = [t \in Requests |-> "idle"]
  /\ tnew = [t \in Requests |-> None]
  /\ told = [t \in Requests |-> None]
  /\ twait = [t \in Requests |-> None]
  /\ vpc = [v \in Viewers |-> "idle"]
  /\ vno = [v \in Viewers |-> 0]
  /\ vframe = [v \in Viewers |-> NoFrame]
  /\ vattr = [v \in Viewers |-> None]

Step(t, from, to) == tpc[t] = from /\ tpc' = [tpc EXCEPT ![t] = to]

-----------------------------------------------------------------------------
(* Start and OpenFile. The new source is opened before anything is torn    *)
(* down; an error opening it changes nothing.                              *)
OpenNew(t, c) ==
  /\ Step(t, "idle", "opened")
  /\ OpenSource(c)
  /\ tnew' = [tnew EXCEPT ![t] = c]
  /\ UNCHANGED <<told, twait, controlVars, retainedVars, sinkVars, feedVars,
                 consumerVars, viewerVars>>

(* dfilter.Compile fails: the new source is closed, the capture under way  *)
(* is left alone. OpenFile always compiles the empty filter.               *)
RejectFilter(t) ==
  /\ Live(tnew[t])
  /\ Step(t, "opened", "idle")
  /\ CloseSources({tnew[t]})
  /\ UNCHANGED <<tnew, told, twait, controlVars, retainedVars, sinkVars,
                 feedVars, consumerVars, viewerVars>>

(* Mutant: Stop forgets the source it takes. *)
StopLosesSource(t) ==
  /\ Step(t, IF t \in Starters THEN "opened" ELSE "idle", "closeSink")
  /\ src' = None
  /\ running' = FALSE
  /\ UNCHANGED <<tnew, told, twait, gen, report, crashed, sourceVars, retainedVars,
                 sinkVars, feedVars, consumerVars, viewerVars>>

(* Stop, called by a starter or on its own, is three steps: take the       *)
(* source, take and close the sink, close the source. Taking the sink and  *)
(* closing it are one action because a consumer that read it in between    *)
(* writes either before or after the close, as in the merged step.         *)
StopTakesSource(t) ==
  /\ Step(t, IF t \in Starters THEN "opened" ELSE "idle", "closeSink")
  /\ told' = [told EXCEPT ![t] = src]
  /\ src' = None
  /\ running' = FALSE
  /\ UNCHANGED <<tnew, twait, gen, report, crashed, sourceVars, retainedVars,
                 sinkVars, feedVars, consumerVars, viewerVars>>

(* Session.sink is nil for the value None, which is nobody's sink. *)
SinkClosed == [c \in Sources |-> IF c = sink THEN "closed" ELSE sinkState[c]]

StopClosesSink(t) ==
  /\ Step(t, "closeSink", "closeOld")
  /\ sink' = None
  /\ sinkState' = SinkClosed
  /\ UNCHANGED <<tnew, told, twait, saved, sourceVars, controlVars,
                 retainedVars, feedVars, consumerVars, viewerVars>>

(* Mutant: the source is taken and never closed. *)
StopSkipsClose(t) ==
  /\ Step(t, "closeOld", IF t \in Starters THEN "readDone" ELSE "idle")
  /\ UNCHANGED <<tnew, told, twait, sourceVars, controlVars, retainedVars, sinkVars,
                 feedVars, consumerVars, viewerVars>>

StopClosesSource(t) ==
  /\ Step(t, "closeOld", IF t \in Starters THEN "readDone" ELSE "idle")
  /\ CloseSources({told[t]} \ {None})
  /\ UNCHANGED <<tnew, told, twait, controlVars, retainedVars, sinkVars,
                 feedVars, consumerVars, viewerVars>>

(* Closing the socket reports an error, which only the first Close of a    *)
(* live source can: startWith gives up and closes the new source as well.  *)
StopFails(t) ==
  /\ told[t] \in LiveSources /\ ~asked[told[t]]
  /\ Step(t, "closeOld", "idle")
  /\ CloseSources({told[t]} \cup (IF t \in Starters THEN {tnew[t]} ELSE {}))
  /\ UNCHANGED <<tnew, told, twait, controlVars, retainedVars, sinkVars,
                 feedVars, consumerVars, viewerVars>>

(* startWith reads consumeDone in a lock section of its own ... *)
ReadConsumeDone(t) ==
  /\ Step(t, "readDone", "install")
  /\ twait' = [twait EXCEPT ![t] = gen]
  /\ UNCHANGED <<tnew, told, sourceVars, controlVars, retainedVars, sinkVars,
                 feedVars, consumerVars, viewerVars>>

(* Mutant: the new capture does not wait for the old consumer. *)
NoWait(t) == TRUE

PreviousDone(t) == twait[t] # None => cpc[twait[t]] = "done"

(* Mutants: the reset misses the ring, or the report. *)
InstallOver(t, persisted, ring0, report0) ==
  LET c == tnew[t] IN
    /\ PreviousDone(t)
    /\ persisted => Live(c)
    /\ Step(t, "install", IF Live(c) THEN "idle" ELSE "analyze")
    /\ src' = c /\ gen' = c /\ running' = TRUE /\ report' = report0
    /\ ring' = ring0 /\ dropped' = 0 /\ tally' = 0 /\ procCache' = <<>>
    /\ sink' = IF persisted THEN c ELSE None
    /\ sinkState' = [SinkClosed EXCEPT ![c] = IF persisted THEN "open" ELSE @]
    /\ cpc' = [cpc EXCEPT ![c] = "spawned"]
    /\ UNCHANGED <<tnew, told, twait, crashed, saved, cnames, cframe, csnap,
                   sourceVars, feedVars, viewerVars>>

InstallKeepsRing(t, persisted) == InstallOver(t, persisted, ring, None)

(* ... waits for it, resets everything in another one, and spawns consume. *)
(* persisted says whether newPcapSink succeeded: only a live capture with  *)
(* a capture directory tries.                                              *)
Install(t, persisted) ==
  LET c == tnew[t] IN
    /\ PreviousDone(t)
    /\ persisted => Live(c)
    /\ Step(t, "install", IF Live(c) THEN "idle" ELSE "analyze")
    /\ src' = c /\ gen' = c /\ running' = TRUE /\ report' = None
    /\ ring' = <<>> /\ dropped' = 0 /\ tally' = 0 /\ procCache' = <<>>
    /\ sink' = IF persisted THEN c ELSE None
    /\ sinkState' = [SinkClosed EXCEPT ![c] = IF persisted THEN "open" ELSE @]
    /\ cpc' = [cpc EXCEPT ![c] = "spawned"]
    /\ UNCHANGED <<tnew, told, twait, crashed, saved, cnames, cframe, csnap,
                   sourceVars, feedVars, viewerVars>>

(* Server.openFile, after OpenFile has returned, analyses the upload and   *)
(* stores the report, nil when the analysis fails.                         *)
PublishReport(t, analyzed) ==
  /\ Step(t, "analyze", "idle")
  /\ report' = IF analyzed THEN tnew[t] ELSE None
  /\ UNCHANGED <<tnew, told, twait, src, gen, running, crashed, sourceVars,
                 retainedVars, sinkVars, feedVars, consumerVars, viewerVars>>

RequestStep(t) ==
  \/ t \in Starters /\ RejectFilter(t)
  \/ StopTakesSource(t)
  \/ StopClosesSink(t)
  \/ StopClosesSource(t)
  \/ StopFails(t)
  \/ ReadConsumeDone(t)
  \/ \E persisted \in BOOLEAN : Install(t, persisted)
  \/ \E analyzed \in BOOLEAN : PublishReport(t, analyzed)

-----------------------------------------------------------------------------
(* The consume goroutine of capture c. *)
CGoto(c, p) == cpc' = [cpc EXCEPT ![c] = p]

(* names := s.Names(), before the first frame. *)
TakeNames(c) ==
  /\ cpc[c] = "spawned"
  /\ CGoto(c, "range")
  /\ cnames' = [cnames EXCEPT ![c] = gen]
  /\ UNCHANGED <<cframe, csnap, sourceVars, controlVars, retainedVars,
                 sinkVars, feedVars, requestVars, viewerVars>>

(* Mutant: the consumer keeps working on the previous frame. *)
TakeFrameStale(c) ==
  /\ cpc[c] = "range"
  /\ ReceiveFrame(c)
  /\ CGoto(c, "record")
  /\ UNCHANGED <<cnames, cframe, csnap, controlVars, retainedVars, sinkVars, feedVars,
                 requestVars, viewerVars>>

(* A frame is received, dissected and attributed, all outside the lock. *)
TakeFrame(c) ==
  /\ cpc[c] = "range"
  /\ ReceiveFrame(c)
  /\ cframe' = [cframe EXCEPT ![c] = [cap |-> c, no |-> Head(queue[c])]]
  /\ CGoto(c, "record")
  /\ UNCHANGED <<cnames, csnap, controlVars, retainedVars, sinkVars, feedVars,
                 requestVars, viewerVars>>

(* Mutant: eviction forgets the attributions. *)
NothingEvicted(f) == {}

(* The frames a ring keeps and the ones it evicts when f is appended. *)
Excess(f) == IF Len(ring) + 1 > RingSize THEN Len(ring) + 1 - RingSize ELSE 0
Kept(f) == SubSeq(Append(ring, f), Excess(f) + 1, Len(ring) + 1)
Evicted(f) == {Append(ring, f)[i].no : i \in 1 .. Excess(f)}

(* The lock section: ring, eviction, attribution, and the snapshot of the  *)
(* subscribers, taken only when the frame matches the display filter.      *)
Record(c, matches) ==
  LET f == cframe[c] IN
    /\ cpc[c] = "record"
    /\ tally' = tally + 1
    /\ ring' = Kept(f)
    /\ dropped' = dropped + Excess(f)
    /\ procCache' = [n \in (DOMAIN procCache \ Evicted(f)) \cup {f.no} |->
                       IF n = f.no THEN c ELSE procCache[n]]
    /\ csnap' = [csnap EXCEPT ![c] = IF matches THEN subs ELSE {}]
    /\ CGoto(c, "persist")
    /\ UNCHANGED <<cnames, cframe, sourceVars, controlVars, sinkVars, feedVars,
                   requestVars, viewerVars>>

(* pcapSink.Write. Frames differ in size, so that where a file is full is  *)
(* open; what a file holds is the frames that can be read back from it. A  *)
(* frame here has bytes, and no more than a record read back may (2^20).   *)
Appended(w, f) == [w EXCEPT !.current = {g \in @ : g.no # f.no} \cup {f}]
Missed(w, f) == [w EXCEPT !.lost = @ \cup {f}]

(* rotate: the file before the previous one is deleted. *)
Rotated(w) ==
  [w EXCEPT !.current = {}, !.previous = w.current, !.removed = @ \cup w.previous]

SinkBecomes(state, w) ==
  /\ sinkState' = [sinkState EXCEPT ![sink] = state]
  /\ saved' = [saved EXCEPT ![sink] = w]

SinkNow == IF sink = None THEN "closed" ELSE sinkState[sink]

(* A closed sink, or none, ignores the frame. Otherwise it is appended, to *)
(* the current file or to the one a rotation opens; or the rotation cannot *)
(* open a file, or the buffer takes no more, and saving has stopped.       *)
SinkWrite(f) ==
  \/ /\ SinkNow = "closed"
     /\ UNCHANGED <<sinkState, saved>>
  \/ /\ SinkNow = "open"
     /\ SinkBecomes("open", Appended(saved[sink], f))
  \/ /\ SinkNow \in {"open", "jammed"}
     /\ \/ SinkBecomes("open", Appended(Rotated(saved[sink]), f))
        \/ SinkBecomes("stopped", Missed(Rotated(saved[sink]), f))
  \/ /\ SinkNow \in {"jammed", "stopped"}
     /\ SinkBecomes("stopped", Missed(saved[sink], f))

(* Mutant: only frames that are fanned out are persisted. *)
PersistDisplayed(c) ==
  /\ cpc[c] = "persist"
  /\ IF csnap[c] # {} THEN SinkWrite(cframe[c]) ELSE UNCHANGED <<sinkState, saved>>
  /\ CGoto(c, IF csnap[c] = {} THEN "range" ELSE "fanout")
  /\ UNCHANGED <<cnames, cframe, csnap, sink, sourceVars, controlVars,
                 retainedVars, feedVars, requestVars, viewerVars>>

(* Teaching the name map and writing the frame to whatever s.sink is now,  *)
(* which this goroutine reads without the lock.                            *)
Persist(c) ==
  /\ cpc[c] = "persist"
  /\ SinkWrite(cframe[c])
  /\ CGoto(c, IF csnap[c] = {} THEN "range" ELSE "fanout")
  /\ UNCHANGED <<cnames, cframe, csnap, sink, sourceVars, controlVars,
                 retainedVars, feedVars, requestVars, viewerVars>>

(* One non-blocking send of the fan-out. A subscriber that is behind is    *)
(* skipped; one that has cancelled since the snapshot has a closed channel, *)
(* and sending on it panics.                                               *)
FanOut(c, u) ==
  /\ cpc[c] = "fanout"
  /\ u \in csnap[c]
  /\ csnap' = [csnap EXCEPT ![c] = @ \ {u}]
  /\ CGoto(c, IF csnap[c] = {u} THEN "range" ELSE "fanout")
  /\ crashed' = (feedState[u] = "closed")
  /\ feed' = [feed EXCEPT ![u] = IF feedState[u] # "closed" /\ Len(@) < FeedCap
                                   THEN Append(@, cframe[c]) ELSE @]
  /\ UNCHANGED <<cnames, cframe, subs, feedState, src, gen, running, report,
                 sourceVars, retainedVars, sinkVars, requestVars, viewerVars>>

EndRange(c) ==
  /\ cpc[c] = "range"
  /\ ReceiveEnd(c)
  /\ CGoto(c, "ending")
  /\ UNCHANGED <<cnames, cframe, csnap, controlVars, retainedVars, sinkVars,
                 feedVars, requestVars, viewerVars>>

(* Mutant: a capture that ends by itself leaves running set. *)
FinishStillRunning(c) ==
  /\ cpc[c] = "ending"
  /\ CGoto(c, "done")
  /\ UNCHANGED <<cnames, cframe, csnap, controlVars, sourceVars, retainedVars,
                 sinkVars, feedVars, requestVars, viewerVars>>

(* The last lock section, and the deferred close(done). *)
FinishConsume(c) ==
  /\ cpc[c] = "ending"
  /\ CGoto(c, "done")
  /\ running' = FALSE
  /\ UNCHANGED <<cnames, cframe, csnap, src, gen, report, crashed, sourceVars,
                 retainedVars, sinkVars, feedVars, requestVars, viewerVars>>

ConsumerStep(c) ==
  \/ TakeNames(c)
  \/ TakeFrame(c)
  \/ \E matches \in BOOLEAN : Record(c, matches)
  \/ Persist(c)
  \/ \E u \in Subscribers : FanOut(c, u)
  \/ EndRange(c)
  \/ FinishConsume(c)

-----------------------------------------------------------------------------
(* Subscribe, the SSE handler's loop, and the cancel it defers: the        *)
(* channel leaves the map under the lock and is closed after it.           *)
Subscribe(u) ==
  /\ feedState[u] = "off"
  /\ feedState' = [feedState EXCEPT ![u] = "on"]
  /\ subs' = subs \cup {u}
  /\ UNCHANGED <<feed, sourceVars, controlVars, retainedVars, sinkVars,
                 consumerVars, requestVars, viewerVars>>

ReadFeed(u) ==
  /\ feedState[u] = "on"
  /\ feed[u] # <<>>
  /\ feed' = [feed EXCEPT ![u] = Tail(@)]
  /\ UNCHANGED <<subs, feedState, sourceVars, controlVars, retainedVars,
                 sinkVars, consumerVars, requestVars, viewerVars>>

Unsubscribe(u) ==
  /\ feedState[u] = "on"
  /\ feedState' = [feedState EXCEPT ![u] = "leaving"]
  /\ subs' = subs \ {u}
  /\ UNCHANGED <<feed, sourceVars, controlVars, retainedVars, sinkVars,
                 consumerVars, requestVars, viewerVars>>

CloseFeed(u) ==
  /\ feedState[u] = "leaving"
  /\ feedState' = [feedState EXCEPT ![u] = "closed"]
  /\ UNCHANGED <<subs, feed, sourceVars, controlVars, retainedVars, sinkVars,
                 consumerVars, requestVars, viewerVars>>

SubscriberStep(u) == Subscribe(u) \/ ReadFeed(u) \/ Unsubscribe(u) \/ CloseFeed(u)

(* Mutant: the ring is indexed as if nothing had been evicted. *)
IndexFromOne(no) == no

(* Packet(no): the ring is indexed by the distance from its first ordinal; *)
(* a packet no longer there is read back from the sink.                    *)
RingIndex(no) == no - ring[1].no + 1
InRing(no) == ring # <<>> /\ no >= ring[1].no /\ RingIndex(no) <= Len(ring)
ReadBack(no) ==
  IF SinkNow # "closed"
    THEN LET inFile(file) == {f \in file : f.no = no} IN
           IF inFile(saved[sink].current) # {} THEN inFile(saved[sink].current)
                                               ELSE inFile(saved[sink].previous)
    ELSE {}
PacketAnswers(no) == IF InRing(no) THEN {ring[RingIndex(no)]} ELSE ReadBack(no)

FetchPacket(v, no) ==
  /\ vpc[v] \in {"idle", "shown"}
  /\ \E f \in PacketAnswers(no) : vframe' = [vframe EXCEPT ![v] = f]
  /\ vpc' = [vpc EXCEPT ![v] = "got"]
  /\ vno' = [vno EXCEPT ![v] = no]
  /\ vattr' = [vattr EXCEPT ![v] = None]
  /\ UNCHANGED <<sourceVars, controlVars, retainedVars, sinkVars, feedVars,
                 consumerVars, requestVars>>

(* LookupProcess, in a later lock section of its own. *)
Attribute(v) ==
  /\ vpc[v] = "got"
  /\ vpc' = [vpc EXCEPT ![v] = "shown"]
  /\ vattr' = [vattr EXCEPT ![v] = IF vframe[v].no \in DOMAIN procCache
                                     THEN procCache[vframe[v].no] ELSE None]
  /\ UNCHANGED <<vno, vframe, sourceVars, controlVars, retainedVars, sinkVars,
                 feedVars, consumerVars, requestVars>>

(* The disk refuses a flush of the current file, which the write, read or  *)
(* rotation that makes it ignores: the frames still buffered, the latest,  *)
(* are lost, and the buffer takes no more.                                 *)
DiskFault(s, n) ==
  /\ sinkState[s] = "open"
  /\ sinkState' = [sinkState EXCEPT ![s] = "jammed"]
  /\ saved' = [saved EXCEPT ![s].current = {f \in @ : f.no <= n},
                            ![s].lost = @ \cup {f \in saved[s].current : f.no > n}]
  /\ UNCHANGED <<sink, sourceVars, controlVars, retainedVars, feedVars,
                 consumerVars, requestVars, viewerVars>>

ViewerStep(v) == Attribute(v) \/ \E no \in 1 .. MaxFrames : FetchPacket(v, no)

-----------------------------------------------------------------------------
OthersUnchanged == UNCHANGED <<controlVars, retainedVars, sinkVars, feedVars,
                               consumerVars, requestVars, viewerVars>>

(* A panic ends the process. *)
Next ==
  /\ ~crashed
  /\ \/ \E t \in Starters, c \in Sources : OpenNew(t, c)
     \/ \E t \in Requests : RequestStep(t)
     \/ \E c \in Sources : ConsumerStep(c)
     \/ \E c \in Sources : SourceLoop(c) /\ OthersUnchanged
     \/ \E u \in Subscribers : SubscriberStep(u)
     \/ \E v \in Viewers : ViewerStep(v)
     \/ \E c \in Sources, n \in 0 .. MaxFrames : DiskFault(c, n)

Spec == Init /\ [][Next]_vars

(* What a starter that has begun does next; a stopper begins with its     *)
(* first step, which nobody owes.                                          *)
InFlight(t) == tpc[t] # "idle" /\ RequestStep(t)

(* Goroutines are scheduled fairly by the Go runtime, and the mutex is     *)
(* fair: every enabled step of a request under way, a consumer or a source *)
(* is eventually taken.                                                    *)
Fairness ==
  /\ \A t \in Requests : WF_vars(~crashed /\ InFlight(t))
  /\ \A c \in Sources : /\ WF_vars(~crashed /\ ConsumerStep(c))
                        /\ WF_vars(~crashed /\ SourceLoop(c) /\ OthersUnchanged)

FairSpec == Spec /\ Fairness
-----------------------------------------------------------------------------
SourceOrNone == Sources \cup {None}

ControlTypeOK ==
  /\ src \in SourceOrNone /\ gen \in SourceOrNone /\ report \in SourceOrNone
  /\ running \in BOOLEAN /\ crashed \in BOOLEAN

RetainedTypeOK ==
  /\ ring \in Seq(Frame) /\ dropped \in Nat /\ tally \in Nat
  /\ DOMAIN procCache \subseteq Nat
  /\ \A n \in DOMAIN procCache : procCache[n] \in Sources

SinkTypeOK ==
  /\ sink \in SourceOrNone
  /\ sinkState \in [Sources -> {"none", "open", "jammed", "stopped", "closed"}]
  /\ saved \in [Sources -> [current : SUBSET Frame, previous : SUBSET Frame,
                            removed : SUBSET Frame, lost : SUBSET Frame]]

FeedTypeOK ==
  /\ subs \subseteq Subscribers
  /\ feedState \in [Subscribers -> {"off", "on", "leaving", "closed"}]
  /\ feed \in [Subscribers -> Seq(Frame)]

(* A goroutine past its receive holds a frame of its own capture. *)
ConsumerTypeOK ==
  /\ cpc \in [Sources -> ConsumerSteps]
  /\ cnames \in [Sources -> SourceOrNone]
  /\ cframe \in [Sources -> Frame \cup {NoFrame}]
  /\ csnap \in [Sources -> SUBSET Subscribers]
  /\ \A c \in Sources :
       cpc[c] \in {"record", "persist", "fanout"} => cframe[c] \in Frame /\ cframe[c].cap = c

RequestTypeOK ==
  /\ tpc \in [Requests -> RequestSteps]
  /\ tnew \in [Requests -> SourceOrNone]
  /\ told \in [Requests -> SourceOrNone]
  /\ twait \in [Requests -> SourceOrNone]

ViewerTypeOK ==
  /\ vpc \in [Viewers -> {"idle", "got", "shown"}]
  /\ vno \in [Viewers -> Nat]
  /\ vframe \in [Viewers -> Frame \cup {NoFrame}]
  /\ vattr \in [Viewers -> SourceOrNone]

TypeOK ==
  /\ SourceTypeOK
  /\ ControlTypeOK
  /\ RetainedTypeOK
  /\ SinkTypeOK
  /\ FeedTypeOK
  /\ ConsumerTypeOK
  /\ RequestTypeOK
  /\ ViewerTypeOK

-----------------------------------------------------------------------------
(* Invariants that hold however many requests start captures at once.      *)

(* Retention is bounded and accounted for: the ring never exceeds its      *)
(* size, and the frames channelBytes has counted for this capture are      *)
(* exactly those in the ring and those reported as evicted.                *)
RingAccounted == Len(ring) <= RingSize /\ tally = dropped + Len(ring)

(* "Evicted alongside the ring entry it belongs to, so this cannot outgrow *)
(* it": every cached attribution belongs to a retained ordinal.            *)
CacheCannotOutgrowRing ==
  DOMAIN procCache \subseteq {ring[i].no : i \in 1 .. Len(ring)}

(* Ring, counters and attribution cache move together at the limit. *)
RetentionBounded == RingAccounted /\ CacheCannotOutgrowRing

-----------------------------------------------------------------------------
(* Invariants that need the requests that start captures not to overlap.   *)

Consuming(c) == cpc[c] \notin {"none", "done"}

(* Starting while already running restarts cleanly: the only consumer at   *)
(* work is that of the capture the session shows, so its dissector, ring   *)
(* and name map are touched by no other goroutine.                         *)
NoStackedReaders ==
  \A c \in Sources :
    Consuming(c) => /\ gen = c
                    /\ cpc[c] # "spawned" => cnames[c] = c

Readable(s) == saved[s].current \cup saved[s].previous
Offered(s) == Readable(s) \cup saved[s].removed \cup saved[s].lost

(* No frame of the capture that was stopped leaks into the one begun: not  *)
(* into its ring, its attributions or its capture file.                    *)
NoLeak ==
  /\ \A i \in 1 .. Len(ring) : ring[i].cap = gen
  /\ \A n \in DOMAIN procCache : procCache[n] = gen
  /\ \A c \in Sources : \A f \in Offered(c) : f.cap = c

(* A capture with a consumer at work is one somebody can still stop: its   *)
(* source is the session's, or was handed to a Stop, or has been closed.   *)
NoOrphanSource ==
  \A c \in Sources :
    Consuming(c) => src = c \/ asked[c] \/ \E t \in Requests :
                      told[t] = c /\ tpc[t] \in {"closeSink", "closeOld"}

(* Every frame evicted from the ring of a capture being saved can be read  *)
(* back, unless a rotation removed its file or a fault kept it from disk:   *)
(* the order of recording and persisting never leaves one in neither, and  *)
(* "anything older than the previous file is genuinely gone", only that.   *)
EvictedCanBeReadBack ==
  sink # None =>
    /\ ring # <<>> => Cardinality({f \in Offered(sink) : f.no < ring[1].no}) = dropped
    /\ \A f \in saved[sink].removed, g \in Readable(sink) : f.no < g.no

(* "nil for a live capture": a report describes the file being shown. *)
ReportFitsCapture == report # None => report = gen

(* What a subscriber reads next never goes back: once a frame of the       *)
(* present capture is in its channel, only later ones of it follow.        *)
FeedInOrder ==
  \A u \in Subscribers : \A i, j \in 1 .. Len(feed[u]) :
    i < j /\ feed[u][i].cap = gen =>
      feed[u][j].cap = gen /\ feed[u][i].no < feed[u][j].no

(* Packet(no) answers with packet no. *)
PacketHasOrdinal == \A v \in Viewers : vpc[v] # "idle" => vframe[v].no = vno[v]

(* The server survives a browser tab that goes away. *)
NeverSendsOnClosed == ~crashed

(* Every request to start, open or stop returns. *)
RequestsReturn == \A t \in Requests : (tpc[t] # "idle") ~> (tpc[t] = "idle")

(* Stopping works: once a capture's source is closed its consumer ends.    *)
StoppedConsumersEnd == \A c \in Sources : (asked[c] /\ Consuming(c)) ~> (cpc[c] = "done")

(* Running never sticks: a consumer that has ended leaves the session not  *)
(* running unless a newer capture has been installed.                      *)
RunningMeansConsuming == running => gen # None /\ Consuming(gen)

(* Nothing of an earlier capture stays behind: not a frame in the ring,    *)
(* the attributions or the capture file, and not its report.               *)
NothingStale == NoLeak /\ ReportFitsCapture

(* Whatever is asked to end, ends: requests and stopped consumers.         *)
EverythingEnds == RequestsReturn /\ StoppedConsumersEnd
=============================================================================
