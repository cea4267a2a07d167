------------------------------ MODULE ThreatFeeds ------------------------------
(***************************************************************************)
(* The feeds behind the threat intelligence (internal/threatintel): every  *)
(* round each of them is fetched and its list saved, and what was fetched  *)
(* replaces what was known; a process that starts reads the saved lists.   *)
(* The process may end at any point, and any fetch or write may fail.      *)
(*                                                                         *)
(* A list is a sequence of entries, an address or a network each. Supervisor *)
(* has the callback that hands the result on.                              *)
(***************************************************************************)
EXTENDS Integers, Sequences, SequencesExt

CONSTANTS
  Feeds,     \* names, in the order they are configured
  Answers,   \* lists a feed may return, <<>> if nothing in it can be used
  CutReads,  \* what an entry reads as when its line is cut: "" if nothing
  Base,      \* entries that are always there
  MaxFetches \* bound: fetches and starts

ASSUME FeedsAssumption ==
  Feeds \in Seq(STRING) /\ Answers \subseteq Seq(STRING) /\ MaxFetches \in Nat

VARIABLES
  saved,     \* the file of each feed, as the list it holds
  known,     \* Store.cidrs and Store.ips
  round,     \* refreshOnce: [pc, at, all, ok]
  fetches,   \* fetches and starts so far
  said,      \* history: the last usable list of each feed
  unsaved,   \* history: feeds whose last list is not saved whole
  refreshed  \* history: a round of this process has brought something

feedVars == <<saved, known, round, fetches, said, unsaved, refreshed>>

Names == ToSet(Feeds)
Off == [pc |-> "off", at |-> 1, all |-> {}, ok |-> FALSE]

FeedsInit ==
  /\ saved = [f \in Names |-> <<>>] /\ said = saved
  /\ known = {} /\ round = Off /\ fetches = 0
  /\ unsaved = {} /\ refreshed = FALSE

Due == Feeds[round.at]
(* refreshOnce goes on to the next feed, or to the end of the round.       *)
NextFeed(r) == [r EXCEPT !.at = @ + 1, !.pc = IF r.at < Len(Feeds) THEN "fetch" ELSE "merge"]
-----------------------------------------------------------------------------
(* Start: the saved lists are read before the first round begins.          *)
LoadCache ==
  /\ round.pc = "off" /\ fetches < MaxFetches
  /\ known' = UNION {ToSet(saved[f]) : f \in Names}
  /\ round' = [Off EXCEPT !.pc = IF Feeds = <<>> THEN "wait" ELSE "fetch"]
  /\ fetches' = fetches + 1
  /\ UNCHANGED <<saved, said, unsaved, refreshed>>

(* A ticker begins the next round.                                         *)
FeedTick ==
  /\ round.pc = "wait" /\ Feeds # <<>>
  /\ round' = [Off EXCEPT !.pc = "fetch"]
  /\ UNCHANGED <<saved, known, fetches, said, unsaved, refreshed>>

(* A list with nothing in it is an error, like no answer at all.           *)
Fetch ==
  /\ round.pc = "fetch" /\ fetches < MaxFetches
  /\ fetches' = fetches + 1
  /\ \E list \in Answers :
       IF list = <<>>
       THEN round' = NextFeed(round) /\ UNCHANGED <<said, unsaved>>
       ELSE /\ round' = [round EXCEPT !.pc = "save", !.all = @ \cup ToSet(list), !.ok = TRUE]
            /\ said' = [said EXCEPT ![Due] = list]
            /\ unsaved' = unsaved \cup {Due}
  /\ UNCHANGED <<saved, known, refreshed>>

(* saveCache: the file is emptied, then written; either may fail.          *)
EmptyFile ==
  /\ round.pc = "save"
  /\ \/ round' = [round EXCEPT !.pc = "fill"] /\ saved' = [saved EXCEPT ![Due] = <<>>]
     \/ round' = NextFeed(round) /\ UNCHANGED saved
  /\ UNCHANGED <<known, fetches, said, unsaved, refreshed>>

(* What a write that is cut leaves: entries, and perhaps part of the next. *)
CutAfter(list, n) ==
  {SubSeq(list, 1, n)} \cup
    {Append(SubSeq(list, 1, n), half) : half \in {CutReads[list[n + 1]]} \ {""}}

FillFile ==
  /\ round.pc = "fill"
  /\ \/ saved' = [saved EXCEPT ![Due] = said[Due]] /\ unsaved' = unsaved \ {Due}
     \/ /\ \E n \in 0 .. Len(said[Due]) - 1 : \E left \in CutAfter(said[Due], n) :
              saved' = [saved EXCEPT ![Due] = left]
        /\ UNCHANGED unsaved
  /\ round' = NextFeed(round)
  /\ UNCHANGED <<known, fetches, said, refreshed>>

(* Mutant: a round without an answer replaces what is known, too.          *)
MergeAnyway ==
  /\ round.pc = "merge"
  /\ known' = round.all
  /\ refreshed' = (refreshed \/ round.ok)
  /\ round' = [round EXCEPT !.pc = "wait"]
  /\ UNCHANGED <<saved, fetches, said, unsaved>>

(* The end of a round: if any feed answered, what it fetched is all that   *)
(* is known from now on.                                                   *)
Merge ==
  /\ round.pc = "merge"
  /\ IF round.ok THEN known' = round.all /\ refreshed' = TRUE ELSE UNCHANGED <<known, refreshed>>
  /\ round' = [round EXCEPT !.pc = "wait"]
  /\ UNCHANGED <<saved, fetches, said, unsaved>>

CrashFeeds ==
  /\ round.pc # "off"
  /\ round' = Off /\ known' = {} /\ refreshed' = FALSE
  /\ UNCHANGED <<saved, fetches, said, unsaved>>

FeedsNext == LoadCache \/ FeedTick \/ Fetch \/ EmptyFile \/ FillFile \/ Merge \/ CrashFeeds

FeedsSpec == FeedsInit /\ [][FeedsNext]_feedVars
-----------------------------------------------------------------------------
Snapshot == Base \cup known

FeedsTypeOK ==
  /\ DOMAIN saved = Names /\ DOMAIN said = Names /\ unsaved \subseteq Names
  /\ round.pc \in {"off", "fetch", "save", "fill", "merge", "wait"}
  /\ fetches \in 0 .. MaxFetches /\ Base \subseteq Snapshot

(* "A restart with no network still has yesterday's list" (threatintel.go  *)
(* NewStore): from start to the first answer, what is known is what each   *)
(* feed last said, as far as that was saved whole, however the process and *)
(* the rounds before it ended; and once a feed has answered, rounds that   *)
(* fail never leave the agent without a list (refreshOnce).                *)
ListsKept ==
  round.pc # "off" =>
    /\ ~refreshed /\ ~round.ok =>
         /\ \A f \in Names \ unsaved : ToSet(said[f]) \subseteq Snapshot
         /\ unsaved = {} => known = UNION {ToSet(said[f]) : f \in Names}
    /\ refreshed => known # {}
=============================================================================
