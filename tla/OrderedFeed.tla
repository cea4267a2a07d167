---------------------------- MODULE OrderedFeed ----------------------------
(***************************************************************************)
(* What live.Source promises to the code that ranges over its Packets()    *)
(* channel (internal/live/live.go): the frames of one capture arrive with  *)
(* strictly increasing ordinals, a replayed file loses none of them, and   *)
(* nothing arrives once the channel has been seen closed.                  *)
(*                                                                         *)
(* CaptureSource, the two real sources with their goroutine and bounded    *)
(* channel, implements this specification.                                 *)
(***************************************************************************)
EXTENDS Naturals

CONSTANTS
  Sources,      \* the sources ever opened
  LiveSources   \* those reading a network interface, which may lose frames

VARIABLES
  given,        \* given[s]: ordinal of the last frame the reader received
  over          \* over[s]: the reader has seen the channel closed

feedVars == <<given, over>>

FeedInit ==
  /\ given = [s \in Sources |-> 0]
  /\ over  = [s \in Sources |-> FALSE]

(* The reader receives one more frame: a later one, and in a replayed file *)
(* the very next one.                                                      *)
Deliver(s) ==
  /\ ~over[s]
  /\ given'[s] > given[s]
  /\ s \notin LiveSources => given'[s] = given[s] + 1
  /\ given' = [given EXCEPT ![s] = given'[s]]
  /\ over' = over

(* The reader sees the end of the feed, once. *)
Finish(s) ==
  /\ ~over[s]
  /\ over' = [over EXCEPT ![s] = TRUE]
  /\ given' = given

FeedNext == \E s \in Sources : Deliver(s) \/ Finish(s)

FeedSpec == FeedInit /\ [][FeedNext]_feedVars
=============================================================================
