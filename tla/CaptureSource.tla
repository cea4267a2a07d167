--------------------------- MODULE CaptureSource ---------------------------
(***************************************************************************)
(* The two capture sources of the analyzer, as the goroutine that reads    *)
(* frames, the bounded channel it fills and the Close call that stops it:  *)
(*                                                                         *)
(*   live/afpacket.go       a raw socket; a full channel loses the newest  *)
(*                          frame, after its ordinal has been assigned     *)
(*   livefile/livefile.go   a replayed file; a full channel blocks replay  *)
(*                                                                         *)
(* Sources are opened, read and closed independently, so every variable is *)
(* a function of the source. A frame is its capture ordinal (Packet.Index).*)
(***************************************************************************)
EXTENDS Naturals, Sequences

CONSTANTS
  Sources,      \* the sources ever opened
  LiveSources,  \* those backed by an AF_PACKET socket; the others replay files
  ChanCap,      \* capacity of the channel (4096 live, 256 file)
  MaxFrames     \* bound: frames one source can ever read

ASSUME SourceAssumption ==
  /\ LiveSources \subseteq Sources
  /\ ChanCap \in Nat \ {0}
  /\ MaxFrames \in Nat

VARIABLES
  phase,        \* where the source's goroutine is
  ordinal,      \* idx in loop, Captured in Stats: frames read so far
  queue,        \* the frames in the channel, oldest first
  asked,        \* the done channel is closed
  lost,         \* p.dropped: frames read and discarded on a full channel
  received,     \* how many frames the reader has taken out of the channel
  given,        \* the last of them
  over          \* the reader's range loop has seen the channel closed

sourceVars == <<phase, ordinal, queue, asked, lost, received, given, over>>

(* "check" is the top of the AF_PACKET loop, where done is tested; "read"  *)
(* is the read itself; "send" is the select that hands the frame over;     *)
(* "exited" is past the deferred close(ch).                                *)
Phases == {"unopened", "check", "read", "send", "exited"}

SourceInit ==
  /\ phase    = [s \in Sources |-> "unopened"]
  /\ ordinal  = [s \in Sources |-> 0]
  /\ queue    = [s \in Sources |-> <<>>]
  /\ asked    = [s \in Sources |-> FALSE]
  /\ lost     = [s \in Sources |-> 0]
  /\ received = [s \in Sources |-> 0]
  /\ given    = [s \in Sources |-> 0]
  /\ over     = [s \in Sources |-> FALSE]

Live(s) == s \in LiveSources

(* The start of the goroutine's next iteration. *)
LoopTop(s) == IF Live(s) THEN "check" ELSE "read"

HasRoom(s) == Len(queue[s]) < ChanCap

Goto(s, p) == phase' = [phase EXCEPT ![s] = p]

-----------------------------------------------------------------------------
(* OpenAFPacket and livefile.Open: everything is allocated, then the       *)
(* goroutine starts.                                                       *)
OpenSource(s) ==
  /\ phase[s] = "unopened"
  /\ Goto(s, LoopTop(s))
  /\ UNCHANGED <<ordinal, queue, asked, lost, received, given, over>>

(* Mutant: the loop never looks at done. *)
CheckIgnoresDone(s) ==
  /\ phase[s] = "check"
  /\ Goto(s, "read")
  /\ UNCHANGED <<ordinal, queue, asked, lost, received, given, over>>

(* The first select of the AF_PACKET loop. *)
CheckDone(s) ==
  /\ phase[s] = "check"
  /\ Goto(s, IF asked[s] THEN "exited" ELSE "read")
  /\ UNCHANGED <<ordinal, queue, asked, lost, received, given, over>>

(* A frame is read: it gets its ordinal here, before it is known whether   *)
(* the channel has room for it.                                            *)
ReadFrame(s) ==
  /\ phase[s] = "read"
  /\ ordinal[s] < MaxFrames
  /\ ordinal' = [ordinal EXCEPT ![s] = @ + 1]
  /\ Goto(s, "send")
  /\ UNCHANGED <<queue, asked, lost, received, given, over>>

(* EAGAIN or EINTR after the 200ms receive timeout, an empty read, or a    *)
(* link type that is not Ethernet: nothing is counted, back to the top.    *)
ReadNothing(s) ==
  /\ Live(s)
  /\ phase[s] = "read"
  /\ Goto(s, "check")
  /\ UNCHANGED <<ordinal, queue, asked, lost, received, given, over>>

(* Any other read error: the socket was closed under the read or its       *)
(* interface went down; end of file or a damaged record in a replay.       *)
ReadFails(s) ==
  /\ phase[s] = "read"
  /\ Goto(s, "exited")
  /\ UNCHANGED <<ordinal, queue, asked, lost, received, given, over>>

(* The select that hands the frame over. With room and with done closed,   *)
(* either case may be taken.                                               *)
SendFrame(s) ==
  /\ phase[s] = "send"
  /\ HasRoom(s)
  /\ queue' = [queue EXCEPT ![s] = Append(@, ordinal[s])]
  /\ Goto(s, LoopTop(s))
  /\ UNCHANGED <<ordinal, asked, lost, received, given, over>>

AbandonFrame(s) ==
  /\ phase[s] = "send"
  /\ asked[s]
  /\ Goto(s, "exited")
  /\ UNCHANGED <<ordinal, queue, asked, lost, received, given, over>>

(* Mutant: a drop that is not counted. *)
DropUncounted(s) ==
  /\ Live(s) /\ phase[s] = "send" /\ ~HasRoom(s) /\ ~asked[s]
  /\ Goto(s, LoopTop(s))
  /\ UNCHANGED <<ordinal, queue, asked, lost, received, given, over>>

(* The default case, which only the AF_PACKET loop has: a replay waits. *)
DropFrame(s) ==
  /\ Live(s)
  /\ phase[s] = "send"
  /\ ~HasRoom(s)
  /\ ~asked[s]
  /\ lost' = [lost EXCEPT ![s] = @ + 1]
  /\ Goto(s, LoopTop(s))
  /\ UNCHANGED <<ordinal, queue, asked, received, given, over>>

SourceLoop(s) ==
  \/ CheckDone(s)
  \/ ReadFrame(s)
  \/ ReadNothing(s)
  \/ ReadFails(s)
  \/ SendFrame(s)
  \/ AbandonFrame(s)
  \/ DropFrame(s)

(* Close: idempotent through closeOnce, and it does not wait for the       *)
(* goroutine. Closing the descriptor only makes the pending read fail,     *)
(* which ReadFails already allows. Callers close none, one or two sources. *)
CloseSources(S) ==
  /\ \A s \in S : phase[s] # "unopened"
  /\ asked' = [s \in Sources |-> asked[s] \/ s \in S]
  /\ UNCHANGED <<phase, ordinal, queue, lost, received, given, over>>

-----------------------------------------------------------------------------
(* The reader's side of Packets(). *)
ReceiveFrame(s) ==
  /\ queue[s] # <<>>
  /\ queue'    = [queue EXCEPT ![s] = Tail(@)]
  /\ given'    = [given EXCEPT ![s] = Head(queue[s])]
  /\ received' = [received EXCEPT ![s] = @ + 1]
  /\ UNCHANGED <<phase, ordinal, asked, lost, over>>

(* Mutant: the end is seen before the channel is drained. *)
EndBeforeDrained(s) ==
  /\ phase[s] = "exited"
  /\ ~over[s]
  /\ over' = [over EXCEPT ![s] = TRUE]
  /\ UNCHANGED <<phase, ordinal, queue, asked, lost, received, given>>

ReceiveEnd(s) ==
  /\ phase[s] = "exited"
  /\ queue[s] = <<>>
  /\ ~over[s]
  /\ over' = [over EXCEPT ![s] = TRUE]
  /\ UNCHANGED <<phase, ordinal, queue, asked, lost, received, given>>

ReaderStep(s) == ReceiveFrame(s) \/ ReceiveEnd(s)

SourceNext ==
  \/ \E s \in Sources : OpenSource(s) \/ SourceLoop(s) \/ ReaderStep(s)
  \/ \E S \in SUBSET Sources : CloseSources(S)

SourceSpec == SourceInit /\ [][SourceNext]_sourceVars

(* The goroutine is scheduled by the Go runtime and its reads return within *)
(* the receive timeout. Whether anybody opens, closes or reads a source is *)
(* up to the callers.                                                      *)
FairSourceSpec == SourceSpec /\ \A s \in Sources : WF_sourceVars(SourceLoop(s))

(* The reader of s keeps ranging over the channel. *)
KeepsReading(s) == WF_sourceVars(ReaderStep(s))
-----------------------------------------------------------------------------
SourceTypeOK ==
  /\ phase    \in [Sources -> Phases]
  /\ ordinal  \in [Sources -> Nat]
  /\ queue    \in [Sources -> Seq(Nat)]
  /\ asked    \in [Sources -> BOOLEAN]
  /\ lost     \in [Sources -> Nat]
  /\ received \in [Sources -> Nat]
  /\ given    \in [Sources -> Nat]
  /\ over     \in [Sources -> BOOLEAN]

(* A frame the goroutine has read and not yet handed over or given up. *)
InHand(s) == IF phase[s] = "send" THEN 1 ELSE 0

(* The counters are honest: while the goroutine runs, every frame Captured *)
(* counts was received, is still in the channel, is in the goroutine's     *)
(* hand or is counted as dropped; stopping may forget the one in hand.     *)
FrameCount(s) == received[s] + Len(queue[s]) + lost[s] + InHand(s)

FramesAccounted ==
  \A s \in Sources :
    IF phase[s] = "exited"
      THEN FrameCount(s) <= ordinal[s] /\ ordinal[s] <= FrameCount(s) + 1
      ELSE ordinal[s] = FrameCount(s)

(* The channel never exceeds its capacity, and holds frames in capture     *)
(* order, all later than what the reader already has.                      *)
QueueInOrder ==
  \A s \in Sources :
    /\ Len(queue[s]) <= ChanCap
    /\ \A i \in 1 .. Len(queue[s]) : given[s] < queue[s][i] /\ queue[s][i] <= ordinal[s]
    /\ \A i, j \in 1 .. Len(queue[s]) : i < j => queue[s][i] < queue[s][j]

(* A replayed file arrives whole: no gap between the last frame received,  *)
(* the ones waiting and the one being sent.                                *)
ReplayHasNoGaps ==
  \A s \in Sources \ LiveSources :
    /\ given[s] = received[s]
    /\ \A i \in 1 .. Len(queue[s]) : queue[s][i] = given[s] + i

(* The sources implement the feed promised by the Source interface. *)
Promised == INSTANCE OrderedFeed WITH
  Sources <- Sources, LiveSources <- LiveSources, given <- given, over <- over
ImplementsFeed == Promised!FeedSpec

(* Close is heard: once a source is asked to stop, a reader that keeps     *)
(* ranging gets to the end of the channel.                                 *)
CloseEndsFeed ==
  \A s \in Sources : KeepsReading(s) => (asked[s] ~> over[s])

(* "This still unblocks run() if it is mid-send on a full channel with      *)
(* nobody draining it": Close releases the goroutine even without a reader. *)
CloseReleasesGoroutine ==
  \A s \in Sources : asked[s] ~> phase[s] = "exited"

(* Close is heard on both sides of the channel. *)
CloseHeard == CloseEndsFeed /\ CloseReleasesGoroutine
=============================================================================
