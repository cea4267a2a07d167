----------------------------- MODULE VerdictProofs -----------------------------
(***************************************************************************)
(* What is said of an address and of a device rests on evidence: for any   *)
(* number of sockets, names, feeds and failures of fetching, and for any   *)
(* connections and names stored, whatever the order.                       *)
(***************************************************************************)
EXTENDS Attribution, Detection, SequenceTheorems, FiniteSetTheorems, WellFoundedInduction, TLAPS

-----------------------------------------------------------------------------
(* The threat lists.  A file holds what its feed last said, unless its     *)
(* last list was not saved whole; ...                                      *)
FilesTrue ==
  /\ saved = [f \in Names |-> saved[f]] /\ said = [f \in Names |-> said[f]]
  /\ \A f \in Names \ unsaved : saved[f] = said[f]

(* ... a round is at one of the feeds, whose list is not saved yet; ...    *)
RoundOK ==
  /\ round = [pc |-> round.pc, at |-> round.at, all |-> round.all, ok |-> round.ok]
  /\ round.pc \in {"fetch", "save", "fill"} => round.at \in DOMAIN Feeds
  /\ round.pc \in {"save", "fill"} => round.ok /\ Due \in unsaved
  /\ round.ok => round.all # {}

(* ... and until one answers, what is known is what the files hold.        *)
KnownOK ==
  /\ round.pc = "off" => ~refreshed
  /\ round.pc = "wait" /\ round.ok => refreshed
  /\ round.pc # "off" =>
       /\ ~refreshed /\ ~round.ok => known = UNION {ToSet(saved[f]) : f \in Names}
       /\ refreshed => known # {}

FeedsInv == FeedsTypeOK /\ FilesTrue /\ RoundOK /\ KnownOK

LEMMA FeedsInitInv == FeedsInit => FeedsInv
  BY FeedsAssumption DEF FeedsInit, FeedsInv, FeedsTypeOK, FilesTrue, RoundOK, KnownOK, Off, Snapshot

(* After a feed comes the next one, or the end of the round.               *)
LEMMA NextFeedOK ==
  ASSUME RoundOK, round.pc \in {"fetch", "save", "fill"}
  PROVE  LET r == NextFeed(round)
         IN /\ r = [pc |-> r.pc, at |-> r.at, all |-> round.all, ok |-> round.ok]
            /\ r.pc \in {"fetch", "merge"} /\ r.at = round.at + 1
            /\ r.pc = "fetch" => r.at \in DOMAIN Feeds
<1> DEFINE r == NextFeed(round)
<1>1. round = [pc |-> round.pc, at |-> round.at, all |-> round.all, ok |-> round.ok]
  BY DEF RoundOK
<1>2. r = [pc |-> IF round.at < Len(Feeds) THEN "fetch" ELSE "merge",
           at |-> round.at + 1, all |-> round.all, ok |-> round.ok]
  <2>1. \A p, a : [round EXCEPT !.at = a, !.pc = p] =
                    [pc |-> p, at |-> a, all |-> round.all, ok |-> round.ok]
    <3> SUFFICES ASSUME NEW p, NEW a
                 PROVE  [round EXCEPT !.at = a, !.pc = p] =
                          [pc |-> p, at |-> a, all |-> round.all, ok |-> round.ok]
      OBVIOUS
    <3> HIDE DEF r
    <3> DEFINE s == [round EXCEPT !.at = a]
    <3>1. s = [pc |-> round.pc, at |-> a, all |-> round.all, ok |-> round.ok]
      BY <1>1
    <3>2. [round EXCEPT !.at = a, !.pc = p] = [s EXCEPT !.pc = p]
      OBVIOUS
    <3> HIDE DEF s
    <3> QED
      BY <3>1, <3>2
  <2> DEFINE p == IF round.at < Len(Feeds) THEN "fetch" ELSE "merge"
             a == round.at + 1
  <2>2. r = [round EXCEPT !.at = a, !.pc = p]
    BY DEF NextFeed
  <2> HIDE DEF p, a, r
  <2>3. r = [pc |-> p, at |-> a, all |-> round.all, ok |-> round.ok]
    BY <2>1, <2>2
  <2> QED
    BY <2>3 DEF p, a
<1>3. round.at \in 1 .. Len(Feeds) /\ Len(Feeds) \in Nat /\ DOMAIN Feeds = 1 .. Len(Feeds)
  BY FeedsAssumption, LenProperties DEF RoundOK
<1> QED
  BY <1>2, <1>3

(* A list that was fetched is not empty.                                   *)
LEMMA ListNotEmpty == ASSUME NEW list \in Answers, list # <<>> PROVE ToSet(list) # {}
<1>1. list \in Seq(STRING) /\ Len(list) \in Nat /\ Len(list) # 0
  BY FeedsAssumption, EmptySeq, LenProperties
<1>2. 1 \in DOMAIN list
  BY <1>1, LenProperties
<1> QED
  BY <1>2 DEF ToSet

LEMMA FeedsStep == FeedsInv /\ [FeedsNext]_feedVars => FeedsInv'
<1> SUFFICES ASSUME FeedsInv, [FeedsNext]_feedVars PROVE FeedsInv'
  OBVIOUS
<1> USE FeedsAssumption DEF FeedsInv
<1>1. /\ round = [pc |-> round.pc, at |-> round.at, all |-> round.all, ok |-> round.ok]
      /\ DOMAIN saved = Names /\ DOMAIN said = Names
      /\ fetches \in Nat /\ MaxFetches \in Nat
  BY DEF FeedsTypeOK, RoundOK
<1>2. CASE LoadCache
  <2>1. round' = [pc |-> IF Feeds = <<>> THEN "wait" ELSE "fetch", at |-> 1, all |-> {}, ok |-> FALSE]
    BY <1>2 DEF LoadCache, Off
  <2>2. Feeds # <<>> => 1 \in DOMAIN Feeds
    <3>1. Len(Feeds) \in Nat /\ DOMAIN Feeds = 1 .. Len(Feeds) /\ (Feeds # <<>> => Len(Feeds) # 0)
      BY LenProperties, EmptySeq
    <3> QED
      BY <3>1
  <2>3. /\ UNCHANGED <<saved, said, unsaved, refreshed>>
        /\ known' = UNION {ToSet(saved[f]) : f \in Names}
        /\ fetches' \in 0 .. MaxFetches
    BY <1>1, <1>2 DEF LoadCache, FeedsTypeOK
  <2>4. refreshed = FALSE
    BY <1>2 DEF LoadCache, KnownOK
  <2> QED
    BY <1>1, <2>1, <2>2, <2>3, <2>4 DEF FeedsTypeOK, FilesTrue, RoundOK, KnownOK, Snapshot
<1>3. CASE FeedTick
  <2>1. round' = [pc |-> "fetch", at |-> 1, all |-> {}, ok |-> FALSE]
    BY <1>3 DEF FeedTick, Off
  <2>2. 1 \in DOMAIN Feeds
    <3>1. Len(Feeds) \in Nat /\ DOMAIN Feeds = 1 .. Len(Feeds) /\ Len(Feeds) # 0
      BY <1>3, LenProperties, EmptySeq DEF FeedTick
    <3> QED
      BY <3>1
  <2>3. UNCHANGED <<saved, known, fetches, said, unsaved, refreshed>> /\ round.pc = "wait"
    BY <1>3 DEF FeedTick
  <2> QED
    BY <1>1, <2>1, <2>2, <2>3 DEF FeedsTypeOK, FilesTrue, RoundOK, KnownOK, Snapshot
<1>4. CASE Fetch
  <2>1. PICK list \in Answers :
          IF list = <<>>
          THEN round' = NextFeed(round) /\ UNCHANGED <<said, unsaved>>
          ELSE /\ round' = [round EXCEPT !.pc = "save", !.all = @ \cup ToSet(list), !.ok = TRUE]
               /\ said' = [said EXCEPT ![Due] = list]
               /\ unsaved' = unsaved \cup {Due}
    BY <1>4 DEF Fetch
  <2>2. UNCHANGED <<saved, known, refreshed>> /\ fetches' \in 0 .. MaxFetches /\ round.pc = "fetch"
    BY <1>1, <1>4 DEF Fetch
  <2>3. CASE list = <<>>
    <3>1. /\ round' = [pc |-> round'.pc, at |-> round'.at, all |-> round.all, ok |-> round.ok]
          /\ round'.pc \in {"fetch", "merge"} /\ (round'.pc = "fetch" => round'.at \in DOMAIN Feeds)
      BY <2>1, <2>2, <2>3, NextFeedOK
    <3> QED
      BY <1>1, <2>1, <2>2, <2>3, <3>1 DEF FeedsTypeOK, FilesTrue, RoundOK, KnownOK, Snapshot
  <2>4. CASE list # <<>>
    <3>1. Due \in Names /\ round.at \in DOMAIN Feeds
      BY <2>2 DEF RoundOK, Due, Names, ToSet
    <3>2. /\ round'.pc = "save" /\ round'.at = round.at /\ round'.ok = TRUE
          /\ round'.all = round.all \cup ToSet(list)
          /\ round' = [pc |-> round'.pc, at |-> round'.at, all |-> round'.all, ok |-> round'.ok]
      BY <1>1, <2>1, <2>4
    <3>3. Due' = Due
      BY <3>2 DEF Due
    <3>4. round'.all # {}
      BY <2>4, <3>2, ListNotEmpty
    <3>5. FilesTrue'
      BY <1>1, <2>1, <2>2, <2>4, <3>1 DEF FilesTrue
    <3>6. DOMAIN said' = Names /\ unsaved' \subseteq Names /\ Due' \in unsaved'
      BY <1>1, <2>1, <2>4, <3>1, <3>3 DEF FeedsTypeOK
    <3>7. KnownOK'
      BY <2>2, <3>2 DEF KnownOK
    <3> QED
      BY <1>1, <2>2, <3>1, <3>2, <3>4, <3>5, <3>6, <3>7 DEF FeedsTypeOK, RoundOK, Snapshot
  <2> QED
    BY <2>3, <2>4
<1>5. CASE EmptyFile
  <2>1. Due \in unsaved /\ Due \in Names /\ round.ok /\ round.at \in DOMAIN Feeds /\ round.pc = "save"
    BY <1>5 DEF EmptyFile, RoundOK, FeedsTypeOK
  <2>2. UNCHANGED <<known, fetches, said, unsaved, refreshed>>
    BY <1>5 DEF EmptyFile
  <2>3. FilesTrue' /\ DOMAIN saved' = Names
    BY <1>1, <1>5, <2>1, <2>2 DEF EmptyFile, FilesTrue
  <2>4. CASE round' = [round EXCEPT !.pc = "fill"]
    <3>1. round' = [pc |-> "fill", at |-> round.at, all |-> round.all, ok |-> round.ok]
      BY <1>1, <2>4
    <3>2. Due' = Due
      BY <3>1 DEF Due
    <3> QED
      BY <1>1, <2>1, <2>2, <2>3, <3>1, <3>2 DEF FeedsTypeOK, RoundOK, KnownOK, Snapshot
  <2>5. CASE round' = NextFeed(round)
    <3>1. /\ round' = [pc |-> round'.pc, at |-> round'.at, all |-> round.all, ok |-> round.ok]
          /\ round'.pc \in {"fetch", "merge"} /\ (round'.pc = "fetch" => round'.at \in DOMAIN Feeds)
      BY <2>1, <2>5, NextFeedOK
    <3> QED
      BY <1>1, <2>1, <2>2, <2>3, <3>1 DEF FeedsTypeOK, RoundOK, KnownOK, Snapshot
  <2> QED
    BY <1>5, <2>4, <2>5 DEF EmptyFile
<1>6. CASE FillFile
  <2>1. Due \in unsaved /\ Due \in Names /\ round.ok /\ round.at \in DOMAIN Feeds /\ round.pc = "fill"
    BY <1>6 DEF FillFile, RoundOK, FeedsTypeOK
  <2>2. UNCHANGED <<known, fetches, said, refreshed>> /\ round' = NextFeed(round)
    BY <1>6 DEF FillFile
  <2>3. PICK left : /\ saved' = [saved EXCEPT ![Due] = left]
                    /\ \/ left = said[Due] /\ unsaved' = unsaved \ {Due}
                       \/ UNCHANGED unsaved
    BY <1>6 DEF FillFile
  <2>4. FilesTrue' /\ DOMAIN saved' = Names /\ unsaved' \subseteq Names
    BY <1>1, <2>1, <2>2, <2>3 DEF FilesTrue, FeedsTypeOK
  <2>5. /\ round' = [pc |-> round'.pc, at |-> round'.at, all |-> round.all, ok |-> round.ok]
        /\ round'.pc \in {"fetch", "merge"} /\ (round'.pc = "fetch" => round'.at \in DOMAIN Feeds)
    BY <2>1, <2>2, NextFeedOK
  <2> QED
    BY <1>1, <2>1, <2>2, <2>4, <2>5 DEF FeedsTypeOK, RoundOK, KnownOK, Snapshot
<1>7. CASE Merge
  <2>1. round' = [pc |-> "wait", at |-> round.at, all |-> round.all, ok |-> round.ok]
    BY <1>1, <1>7 DEF Merge
  <2>2. UNCHANGED <<saved, fetches, said, unsaved>> /\ round.pc = "merge"
    BY <1>7 DEF Merge
  <2>3. CASE round.ok
    <3>1. known' = round.all /\ refreshed' = TRUE
      BY <1>7, <2>3 DEF Merge
    <3> QED
      BY <1>1, <2>1, <2>2, <2>3, <3>1 DEF FeedsTypeOK, FilesTrue, RoundOK, KnownOK, Snapshot
  <2>4. CASE ~round.ok
    <3>1. UNCHANGED <<known, refreshed>>
      BY <1>7, <2>4 DEF Merge
    <3> QED
      BY <1>1, <2>1, <2>2, <2>4, <3>1 DEF FeedsTypeOK, FilesTrue, RoundOK, KnownOK, Snapshot
  <2> QED
    BY <2>3, <2>4
<1>8. CASE CrashFeeds
  BY <1>1, <1>8 DEF CrashFeeds, Off, FeedsTypeOK, FilesTrue, RoundOK, KnownOK, Snapshot
<1>9. CASE UNCHANGED feedVars
  BY <1>9 DEF feedVars, Due, FeedsTypeOK, FilesTrue, RoundOK, KnownOK, Snapshot
<1> QED
  BY <1>2, <1>3, <1>4, <1>5, <1>6, <1>7, <1>8, <1>9 DEF FeedsNext

(* Whatever ends the process or fails, the lists last said are known from  *)
(* the start until a feed answers, and later rounds that fail lose nothing *)
(* (threatintel.go NewStore, refreshOnce, saveCache).                      *)
THEOREM ListsStay == FeedsSpec => []ListsKept
<1>1. FeedsInv => ListsKept
  <2> SUFFICES ASSUME FeedsInv, round.pc # "off" PROVE ListsKept
    BY DEF ListsKept
  <2>1. ASSUME ~refreshed, ~round.ok
        PROVE  /\ \A f \in Names \ unsaved : ToSet(said[f]) \subseteq Snapshot
               /\ unsaved = {} => known = UNION {ToSet(said[f]) : f \in Names}
    <3>1. known = UNION {ToSet(saved[f]) : f \in Names} /\ \A f \in Names \ unsaved : saved[f] = said[f]
      BY <2>1 DEF FeedsInv, KnownOK, FilesTrue
    <3>2. \A f \in Names \ unsaved : ToSet(said[f]) \subseteq known
      BY <3>1
    <3>3. ASSUME unsaved = {} PROVE known = UNION {ToSet(said[f]) : f \in Names}
      BY <3>1, <3>3
    <3> QED
      BY <3>2, <3>3 DEF Snapshot
  <2> QED
    BY <2>1 DEF FeedsInv, KnownOK, ListsKept
<1> QED
  BY <1>1, FeedsInitInv, FeedsStep, PTL DEF FeedsSpec
-----------------------------------------------------------------------------
(* Processes.  Every socket has an inode of its own; ...                   *)
SocketsOK ==
  /\ now \in 0 .. MaxNow
  /\ sockets \subseteq [addr : Bound, inode : Nat, pid : Processes, from : Nat, to : 0 .. Open]
  /\ IsFiniteSet(sockets)
  /\ \A s \in sockets : s.inode <= Cardinality(sockets)
  /\ \A s, t \in sockets : s.inode = t.inode => s = t

(* ... what a scan found was so when it was made; ...                      *)
CachesTrue ==
  /\ {table.at, owners.at} \subseteq {Never} \cup 0 .. now
  /\ \A e \in table.map : \E s \in sockets : s.addr = e[1] /\ s.inode = e[2] /\ s.to >= table.at
  /\ \A e \in owners.map : \E s \in sockets :
       s.inode = e[1] /\ s.pid = e[2] /\ s.pid \notin Hidden /\ s.to >= owners.at

(* ... and a lookup that has an inode has it of a socket that was open     *)
(* within the last ttl.                                                    *)
LookupOK ==
  /\ DOMAIN lookup = {"pc", "addr", "inode", "ends"}
  /\ lookup.pc \in {"inodes", "inodes again"} =>
       \E s \in sockets : /\ s.inode = lookup.inode /\ s.addr \in {lookup.addr, "any"}
                          /\ s.to > now - Ttl
  /\ answer.at \in 0 .. now

ProcInv == SocketsOK /\ CachesTrue /\ LookupOK /\ AnswerFresh

LEMMA NowOK == now \in 0 .. MaxNow => now \in Nat /\ now \in 0 .. now /\ now <= MaxNow + 1
<1> SUFFICES ASSUME NEW n \in 0 .. MaxNow PROVE n \in Nat /\ n \in 0 .. n /\ n <= MaxNow + 1
  OBVIOUS
<1>1. MaxNow \in Nat
  BY ProcAssumption
<1> QED
  BY <1>1

LEMMA ProcInitInv == ProcInit => ProcInv
<1>1. IsFiniteSet({})
  BY FS_EmptySet
<1> QED
  BY <1>1, ProcAssumption DEF ProcInit, ProcInv, SocketsOK, CachesTrue, LookupOK, AnswerFresh, NotAsked,
     NoAnswer, Never, Open, Bound

(* Whatever socket there is stays one of the same inode, address and       *)
(* process, and if it ends it ends now.                                    *)
SocketsStay ==
  \A s \in sockets : \E t \in sockets' :
    /\ t.inode = s.inode /\ t.addr = s.addr /\ t.pid = s.pid
    /\ t.to = s.to \/ t.to = now

(* What was true of the caches, the lookup and the answer stays true.      *)
LEMMA StillTrue ==
  ASSUME ProcInv, SocketsStay, SocketsOK', UNCHANGED <<now, table, owners, lookup, answer>>
  PROVE  ProcInv'
<1> USE ProcAssumption DEF ProcInv
<1>1. \A s \in sockets : s.to \in Int
  BY DEF SocketsOK, Open
<1>2. now \in Nat /\ now \in 0 .. MaxNow
  BY DEF SocketsOK
<1>3. CachesTrue'
  <2>1. table.at \in Int /\ table.at <= now /\ owners.at \in Int /\ owners.at <= now
    BY <1>2 DEF CachesTrue, Never
  <2>2. ASSUME NEW e \in table.map
        PROVE  \E s \in sockets' : s.addr = e[1] /\ s.inode = e[2] /\ s.to >= table.at
    <3>1. PICK s \in sockets : s.addr = e[1] /\ s.inode = e[2] /\ s.to >= table.at
      BY DEF CachesTrue
    <3> QED
      BY <1>2, <2>1, <3>1 DEF SocketsStay
  <2>3. ASSUME NEW e \in owners.map
        PROVE  \E s \in sockets' :
                 s.inode = e[1] /\ s.pid = e[2] /\ s.pid \notin Hidden /\ s.to >= owners.at
    <3>1. PICK s \in sockets : s.inode = e[1] /\ s.pid = e[2] /\ s.pid \notin Hidden /\ s.to >= owners.at
      BY DEF CachesTrue
    <3> QED
      BY <1>2, <2>1, <3>1 DEF SocketsStay
  <2> QED
    BY <2>2, <2>3 DEF CachesTrue
<1>4. LookupOK'
  <2>1. ASSUME lookup.pc \in {"inodes", "inodes again"}
        PROVE  \E s \in sockets' : /\ s.inode = lookup.inode /\ s.addr \in {lookup.addr, "any"}
                                   /\ s.to > now - Ttl
    <3>1. PICK s \in sockets : /\ s.inode = lookup.inode /\ s.addr \in {lookup.addr, "any"}
                               /\ s.to > now - Ttl
      BY <2>1 DEF LookupOK
    <3> QED
      BY <1>2, <3>1 DEF SocketsStay
  <2> QED
    BY <2>1 DEF LookupOK
<1>5. AnswerFresh'
  <2>1. ASSUME answer.pid # Nobody
        PROVE  /\ answer.pid \notin Hidden
               /\ \E s \in sockets' : /\ s.pid = answer.pid /\ s.addr \in {answer.addr, "any"}
                                      /\ s.to > answer.at - Ttl
    <3>1. PICK s \in sockets : /\ s.pid = answer.pid /\ s.addr \in {answer.addr, "any"}
                               /\ s.to > answer.at - Ttl
      BY <2>1 DEF AnswerFresh
    <3>2. answer.at \in 0 .. now
      BY Zenon DEF LookupOK, ProcInv
    <3>3. answer.pid \notin Hidden
      BY <2>1 DEF AnswerFresh
    <3> QED
      BY <1>2, <3>1, <3>2, <3>3 DEF SocketsStay
  <2> QED
    BY <2>1 DEF AnswerFresh
<1> QED
  BY <1>3, <1>4, <1>5

LEMMA OpenKeeps == ProcInv /\ OpenSocket => ProcInv'
<1> SUFFICES ASSUME ProcInv, OpenSocket PROVE ProcInv'
  OBVIOUS
<1>1. PICK a \in Bound, p \in Processes :
        sockets' = sockets \cup {[addr |-> a, inode |-> Cardinality(sockets) + 1,
                                  pid |-> p, from |-> now, to |-> Open]}
  BY DEF OpenSocket
<1>2. UNCHANGED <<now, table, owners, lookup, answer>>
  BY DEF OpenSocket
<1> DEFINE n == Cardinality(sockets)
           new == [addr |-> a, inode |-> n + 1, pid |-> p, from |-> now, to |-> Open]
<1>3. IsFiniteSet(sockets) /\ n \in Nat /\ now \in Nat /\ Open \in 0 .. Open
  BY ProcAssumption, FS_CardinalityType DEF ProcInv, SocketsOK, Open
<1>4. new \in [addr : Bound, inode : Nat, pid : Processes, from : Nat, to : 0 .. Open] /\ new.inode = n + 1
  BY <1>3
<1>5. \A s \in sockets : s.inode \in Nat /\ s.inode <= n
  BY DEF ProcInv, SocketsOK
<1>6. new \notin sockets
  BY <1>3, <1>4, <1>5
<1>7. IsFiniteSet(sockets') /\ Cardinality(sockets') = n + 1
  BY <1>1, <1>3, <1>6, FS_AddElement
<1> HIDE DEF n, new
<1>8. sockets' = sockets \cup {new}
  BY <1>1 DEF new, n
<1>9. SocketsOK'
  BY <1>2, <1>3, <1>4, <1>5, <1>7, <1>8 DEF ProcInv, SocketsOK, Open
<1>10. SocketsStay
  BY <1>8 DEF SocketsStay
<1> QED
  BY <1>2, <1>9, <1>10, StillTrue

LEMMA CloseSocketKeeps == ProcInv /\ CloseSocket => ProcInv'
<1> SUFFICES ASSUME ProcInv, CloseSocket PROVE ProcInv'
  OBVIOUS
<1>1. PICK s \in OpenSockets : sockets' = (sockets \ {s}) \cup {[s EXCEPT !.to = now]}
  BY DEF CloseSocket
<1>2. UNCHANGED <<now, table, owners, lookup, answer>>
  BY DEF CloseSocket
<1> DEFINE n == Cardinality(sockets)
           closed == [s EXCEPT !.to = now]
           rest == sockets \ {s}
<1>3. /\ s \in sockets /\ IsFiniteSet(sockets) /\ n \in Nat /\ now \in 0 .. MaxNow
      /\ s \in [addr : Bound, inode : Nat, pid : Processes, from : Nat, to : 0 .. Open]
      /\ now \in 0 .. Open
  BY ProcAssumption, FS_CardinalityType DEF ProcInv, SocketsOK, OpenSockets, Open
<1>4. /\ closed \in [addr : Bound, inode : Nat, pid : Processes, from : Nat, to : 0 .. Open]
      /\ closed.inode = s.inode /\ closed.addr = s.addr /\ closed.pid = s.pid /\ closed.to = now
  BY <1>3
<1>5. IsFiniteSet(rest) /\ Cardinality(rest) = n - 1
  BY <1>3, FS_RemoveElement
<1>6. closed \notin rest
  <2> HIDE DEF closed
  <2> QED
    BY <1>3, <1>4 DEF ProcInv, SocketsOK
<1>7. IsFiniteSet(rest \cup {closed}) /\ Cardinality(rest \cup {closed}) = n
  <2> HIDE DEF closed, rest
  <2>1. IsFiniteSet(rest \cup {closed}) /\ Cardinality(rest \cup {closed}) = Cardinality(rest) + 1
    BY <1>5, <1>6, FS_AddElement
  <2> QED
    BY <1>3, <1>5, <2>1
<1>8. sockets' = rest \cup {closed}
  BY <1>1
<1> HIDE DEF n, closed
<1>9. SocketsOK'
  <2>1. \A t \in sockets : t.inode <= n
    BY DEF ProcInv, SocketsOK, n
  <2> QED
    BY <1>2, <1>3, <1>4, <1>7, <1>8, <2>1 DEF ProcInv, SocketsOK, Open
<1>10. SocketsStay
  BY <1>4, <1>8 DEF SocketsStay
<1> QED
  BY <1>2, <1>9, <1>10, StillTrue

(* Time passes between lookups only.                                       *)
LEMMA ProcTickKeeps == ProcInv /\ ProcTick => ProcInv'
<1> SUFFICES ASSUME ProcInv, ProcTick PROVE ProcInv'
  OBVIOUS
<1>1. /\ now \in Nat /\ now < MaxNow /\ now' = now + 1 /\ lookup' = lookup /\ lookup.pc = "idle"
      /\ UNCHANGED <<sockets, table, owners, answer>>
  BY ProcAssumption DEF ProcTick, ProcInv, SocketsOK, NotAsked
<1>2. SocketsOK'
  BY <1>1, ProcAssumption DEF ProcInv, SocketsOK, Open
<1>3. CachesTrue'
  BY <1>1 DEF ProcInv, CachesTrue
<1>4. LookupOK'
  BY <1>1 DEF ProcInv, LookupOK
<1>5. AnswerFresh'
  BY <1>1 DEF ProcInv, AnswerFresh
<1> QED
  BY <1>2, <1>3, <1>4, <1>5 DEF ProcInv

(* A lookup that goes on, or ends without an answer, claims nothing.       *)
LEMMA NothingClaimed ==
  ASSUME ProcInv, CachesTrue', UNCHANGED <<sockets, now>>,
         lookup'.pc \notin {"inodes", "inodes again"},
         DOMAIN lookup' = {"pc", "addr", "inode", "ends"},
         UNCHANGED answer \/ (answer'.pid = Nobody /\ answer'.at = now)
  PROVE  ProcInv'
<1>1. SocketsOK' /\ now \in 0 .. now
  BY NowOK DEF ProcInv, SocketsOK
<1>2. LookupOK'
  BY <1>1 DEF ProcInv, LookupOK
<1>3. AnswerFresh'
  BY DEF ProcInv, AnswerFresh
<1> QED
  BY <1>1, <1>2, <1>3 DEF ProcInv

LEMMA LookupFlowKeeps == ProcInv /\ LookupFlow => ProcInv'
<1> SUFFICES ASSUME ProcInv, LookupFlow PROVE ProcInv'
  OBVIOUS
<1>1. UNCHANGED <<sockets, now, table, owners>>
  BY DEF LookupFlow
<1>2. CachesTrue'
  BY <1>1 DEF ProcInv, CachesTrue
<1>3. PICK src, ends :
        IF ends = <<>>
        THEN answer' = [addr |-> src, pid |-> Nobody, at |-> now] /\ UNCHANGED lookup
        ELSE /\ lookup' = [pc |-> "sockets", addr |-> Head(ends), inode |-> 0, ends |-> Tail(ends)]
             /\ UNCHANGED answer
  BY DEF LookupFlow
<1>4. lookup.pc = "idle"
  BY DEF LookupFlow, NotAsked
<1>5. lookup'.pc \notin {"inodes", "inodes again"} /\ DOMAIN lookup' = {"pc", "addr", "inode", "ends"}
  <2>1. CASE ends = <<>>
    BY <1>3, <1>4, <2>1 DEF ProcInv, LookupOK
  <2>2. CASE ends # <<>>
    <3>1. lookup' = [pc |-> "sockets", addr |-> Head(ends), inode |-> 0, ends |-> Tail(ends)]
      BY <1>3, <2>2
    <3> QED
      BY <3>1
  <2> QED
    BY <2>1, <2>2
<1>6. UNCHANGED answer \/ (answer'.pid = Nobody /\ answer'.at = now)
  BY <1>3
<1> QED
  BY <1>1, <1>2, <1>5, <1>6, NothingClaimed

LEMMA NoOwnerClaims ==
  ASSUME NoOwner
  PROVE  /\ lookup'.pc \notin {"inodes", "inodes again"}
         /\ DOMAIN lookup' = {"pc", "addr", "inode", "ends"}
         /\ UNCHANGED answer \/ (answer'.pid = Nobody /\ answer'.at = now)
<1>1. CASE lookup.ends = <<>>
  <2>1. /\ lookup' = [pc |-> "idle", addr |-> "any", inode |-> 0, ends |-> <<>>]
        /\ answer' = [addr |-> lookup.addr, pid |-> Nobody, at |-> now]
    BY <1>1 DEF NoOwner, NotAsked
  <2> QED
    BY <2>1
<1>2. CASE lookup.ends # <<>>
  <2>1. /\ lookup' = [pc |-> "sockets", addr |-> Head(lookup.ends), inode |-> 0, ends |-> Tail(lookup.ends)]
        /\ UNCHANGED answer
    BY <1>2 DEF NoOwner
  <2> QED
    BY <2>1
<1> QED
  BY <1>1, <1>2

(* A table that is used is at most ttl old.                                *)
LEMMA TableOK ==
  ASSUME ProcInv, NEW force \in BOOLEAN, RefreshSockets(force), UNCHANGED <<sockets, now, owners>>
  PROVE  CachesTrue' /\ table'.at > now - Ttl
<1> USE ProcAssumption
<1>1. now \in Nat /\ now <= MaxNow
  BY DEF ProcInv, SocketsOK
<1>2. CASE UNCHANGED table /\ Fresh(table)
  <2>1. table.at \in 0 .. now /\ now - table.at < Ttl
    BY <1>1, <1>2 DEF ProcInv, CachesTrue, Fresh
  <2>2. table'.at > now - Ttl
    BY <1>1, <1>2, <2>1
  <2> QED
    BY <1>2, <2>2 DEF ProcInv, CachesTrue
<1>3. CASE \E m \in SocketTables : table' = [map |-> m, at |-> now]
  <2>1. PICK m \in SocketTables : table' = [map |-> m, at |-> now]
    BY <1>3
  <2>2. ASSUME NEW e \in m
        PROVE  \E s \in sockets : s.addr = e[1] /\ s.inode = e[2] /\ s.to >= now
    <3>1. PICK s \in OpenSockets : e = <<s.addr, s.inode>>
      BY DEF SocketTables
    <3>2. s \in sockets /\ s.to = MaxNow + 1
      BY DEF OpenSockets, Open
    <3> QED
      BY <1>1, <3>1, <3>2
  <2>3. table'.map = m /\ table'.at = now
    BY <2>1
  <2>4. now > now - Ttl /\ now \in 0 .. now
    BY <1>1
  <2> QED
    BY <2>2, <2>3, <2>4 DEF ProcInv, CachesTrue
<1> QED
  BY <1>2, <1>3 DEF RefreshSockets

LEMMA FindSocketKeeps ==
  ASSUME ProcInv, NEW pc, NEW force \in BOOLEAN, FindSocket(pc, force)
  PROVE  ProcInv'
<1>1. UNCHANGED <<sockets, now, owners>> /\ RefreshSockets(force)
  BY DEF FindSocket
<1>2. CachesTrue' /\ table'.at > now - Ttl
  BY <1>1, TableOK
<1> DEFINE inodes == Found(table'.map, lookup.addr)
<1>3. CASE inodes # {}
  <2>1. PICK i \in inodes : lookup' = [lookup EXCEPT !.pc = "inodes", !.inode = i]
    BY <1>3 DEF FindSocket
  <2>2. UNCHANGED answer
    BY <1>3 DEF FindSocket
  <2>3. PICK e \in table'.map : e[2] = i /\ e[1] \in {lookup.addr, "any"}
    BY DEF Found
  <2>4. PICK s \in sockets : s.addr = e[1] /\ s.inode = e[2] /\ s.to >= table'.at
    BY <1>1, <1>2 DEF CachesTrue
  <2>5. s.to > now - Ttl
    <3>1. s.to \in Int /\ table'.at \in Int /\ now \in Int /\ Ttl \in Int
      BY <1>1, <1>2, ProcAssumption DEF ProcInv, SocketsOK, CachesTrue, Never, Open
    <3> QED
      BY <1>2, <2>4, <3>1
  <2>6. /\ lookup'.inode = i /\ lookup'.addr = lookup.addr
        /\ DOMAIN lookup' = {"pc", "addr", "inode", "ends"}
    BY <2>1 DEF ProcInv, LookupOK
  <2>7. LookupOK'
    BY <1>1, <2>2, <2>3, <2>4, <2>5, <2>6 DEF ProcInv, LookupOK
  <2> QED
    BY <1>1, <1>2, <2>2, <2>7 DEF ProcInv, SocketsOK, AnswerFresh
<1>4. CASE inodes = {} /\ ~force
  <2>1. lookup' = [lookup EXCEPT !.pc = "sockets again"] /\ UNCHANGED answer
    BY <1>4 DEF FindSocket
  <2>2. lookup'.pc = "sockets again" /\ DOMAIN lookup' = {"pc", "addr", "inode", "ends"}
    BY <2>1 DEF ProcInv, LookupOK
  <2> QED
    BY <1>1, <1>2, <2>1, <2>2, NothingClaimed
<1>5. CASE inodes = {} /\ force
  <2>1. NoOwner
    BY <1>5 DEF FindSocket
  <2> QED
    BY <1>1, <1>2, <2>1, NoOwnerClaims, NothingClaimed
<1> QED
  BY <1>3, <1>4, <1>5

LEMMA FindOwnerKeeps ==
  ASSUME ProcInv, NEW pc \in {"inodes", "inodes again"}, NEW force \in BOOLEAN, FindOwner(pc, force)
  PROVE  ProcInv'
<1>1. UNCHANGED <<sockets, now, table>> /\ lookup.pc = pc /\ now \in 0 .. MaxNow
  BY DEF FindOwner, ProcInv, SocketsOK
<1>2. CachesTrue'
  <2>1. CASE UNCHANGED owners
    BY <1>1, <2>1 DEF ProcInv, CachesTrue
  <2>2. CASE owners' = [map |-> Owners, at |-> now]
    <3>1. \A e \in Owners : \E s \in sockets :
            s.inode = e[1] /\ s.pid = e[2] /\ s.pid \notin Hidden /\ s.to = MaxNow + 1
      <4> SUFFICES ASSUME NEW e \in Owners
                   PROVE  \E s \in sockets :
                            s.inode = e[1] /\ s.pid = e[2] /\ s.pid \notin Hidden /\ s.to = MaxNow + 1
        OBVIOUS
      <4>1. PICK s \in OpenSockets : s.pid \notin Hidden /\ e = <<s.inode, s.pid>>
        BY DEF Owners
      <4> QED
        BY <4>1 DEF OpenSockets, Open
    <3>2. now \in 0 .. now /\ now <= MaxNow + 1
      BY <1>1, NowOK
    <3>3. owners'.map = Owners /\ owners'.at = now
      BY <2>2
    <3>4. \A e \in owners'.map : \E s \in sockets' :
            s.inode = e[1] /\ s.pid = e[2] /\ s.pid \notin Hidden /\ s.to >= owners'.at
      BY <1>1, <3>1, <3>2, <3>3
    <3> QED
      BY <1>1, <3>2, <3>3, <3>4 DEF ProcInv, CachesTrue
  <2> QED
    BY <2>1, <2>2 DEF FindOwner, RefreshInodes
<1> DEFINE pids == {e[2] : e \in {x \in owners'.map : x[1] = lookup.inode}}
<1>3. CASE pids # {}
  <2>1. PICK p \in pids : answer' = [addr |-> lookup.addr, pid |-> p, at |-> now]
    BY <1>3 DEF FindOwner
  <2>2. lookup' = NotAsked
    BY <1>3 DEF FindOwner
  <2>3. PICK e \in owners'.map : e[1] = lookup.inode /\ e[2] = p
    OBVIOUS
  <2>4. PICK s \in sockets : s.inode = lookup.inode /\ s.pid = p /\ p \notin Hidden
    BY <1>1, <1>2, <2>3 DEF CachesTrue
  <2>5. PICK t \in sockets : /\ t.inode = lookup.inode /\ t.addr \in {lookup.addr, "any"}
                             /\ t.to > now - Ttl
    BY <1>1 DEF ProcInv, LookupOK
  <2>6. s = t
    BY <2>4, <2>5 DEF ProcInv, SocketsOK
  <2>7. AnswerFresh'
    <3>1. answer'.pid = p /\ answer'.addr = lookup.addr /\ answer'.at = now
      BY <2>1
    <3>2. t \in sockets' /\ t.pid = p
      BY <1>1, <2>4, <2>5, <2>6
    <3> QED
      BY <2>4, <2>5, <3>1, <3>2 DEF AnswerFresh
  <2>8. LookupOK'
    <3>1. answer'.at = now /\ now' = now
      BY <1>1, <2>1
    <3>2. lookup'.pc = "idle" /\ DOMAIN lookup' = {"pc", "addr", "inode", "ends"}
      BY <2>2 DEF NotAsked
    <3> QED
      BY <1>1, <3>1, <3>2, NowOK DEF LookupOK
  <2> QED
    BY <1>1, <1>2, <2>7, <2>8 DEF ProcInv, SocketsOK
<1>4. CASE pids = {} /\ ~force
  <2>1. lookup' = [lookup EXCEPT !.pc = "inodes again"] /\ UNCHANGED answer
    BY <1>4 DEF FindOwner
  <2>2. /\ lookup'.inode = lookup.inode /\ lookup'.addr = lookup.addr
        /\ DOMAIN lookup' = {"pc", "addr", "inode", "ends"}
    BY <2>1 DEF ProcInv, LookupOK
  <2>3. LookupOK'
    BY <1>1, <2>1, <2>2 DEF ProcInv, LookupOK
  <2> QED
    BY <1>1, <1>2, <2>1, <2>3 DEF ProcInv, SocketsOK, AnswerFresh
<1>5. CASE pids = {} /\ force
  <2>1. NoOwner
    BY <1>5 DEF FindOwner
  <2> QED
    BY <1>1, <1>2, <2>1, NoOwnerClaims, NothingClaimed
<1> QED
  BY <1>3, <1>4, <1>5

(* A process that is named owned a socket on that address within the last  *)
(* ttl, and its descriptors may be read (procmap.go New, Lookup).          *)
THEOREM AnswersStayFresh == ProcSpec => []AnswerFresh
<1>1. ProcInv /\ [ProcNext]_procVars => ProcInv'
  <2> SUFFICES ASSUME ProcInv, [ProcNext]_procVars PROVE ProcInv'
    OBVIOUS
  <2>1. CASE OpenSocket
    BY <2>1, OpenKeeps
  <2>2. CASE CloseSocket
    BY <2>2, CloseSocketKeeps
  <2>3. CASE ProcTick
    BY <2>3, ProcTickKeeps
  <2>4. CASE LookupFlow
    BY <2>4, LookupFlowKeeps
  <2>5. CASE FindSocket("sockets", FALSE) \/ FindSocket("sockets again", TRUE)
    BY <2>5, FindSocketKeeps
  <2>6. CASE FindOwner("inodes", FALSE) \/ FindOwner("inodes again", TRUE)
    BY <2>6, FindOwnerKeeps
  <2>7. CASE UNCHANGED procVars
    BY <2>7 DEF procVars, ProcInv, SocketsOK, CachesTrue, LookupOK, AnswerFresh
  <2> QED
    BY <2>1, <2>2, <2>3, <2>4, <2>5, <2>6, <2>7 DEF ProcNext
<1>2. ProcInv => AnswerFresh
  BY DEF ProcInv
<1> QED
  BY <1>1, <1>2, ProcInitInv, PTL DEF ProcSpec
-----------------------------------------------------------------------------
(* Names.  Where in l an address is given a name, ...                      *)
Said(l, ip, n) == {i \in DOMAIN l : l[i].ip = ip /\ l[i].name = n}

(* ... and what a record of that name must then be.                        *)
Stands(l, ip, n, r) ==
  /\ r \in [source : HowLearnt, count : Nat \ {0}, seen : Nat]
  /\ r.count = Cardinality(Said(l, ip, n))
  /\ \E i \in Said(l, ip, n) : l[i].source = r.source
  /\ \A i \in Said(l, ip, n) : SourceRank(r.source) >= SourceRank(l[i].source)

NamesInv ==
  /\ NameTypeOK
  /\ \A ip \in DOMAIN byIP :
       /\ \E i \in DOMAIN learnt : learnt[i].ip = ip
       /\ \A i \in DOMAIN learnt : learnt[i].ip = ip => learnt[i].name \in DOMAIN byIP[ip]
       /\ \A n \in DOMAIN byIP[ip] : Stands(learnt, ip, n, byIP[ip][n])
  /\ \A i \in DOMAIN learnt : learnt[i].ip \in DOMAIN byIP \/ Cardinality(DOMAIN byIP) = NameLimit

LEMMA RankType == \A s : SourceRank(s) \in 0 .. 4
  BY DEF SourceRank

(* Of the naturals in a set there is a least.                              *)
LEMMA LeastNat ==
  ASSUME NEW T \in SUBSET Nat, T # {}
  PROVE  \E x \in T : \A y \in T : x <= y
<1> DEFINE R == OpToRel(<, Nat)
<1>1. IsWellFoundedOn(R, Nat)
  BY NatLessThanWellFounded
<1>2. \A x, y \in Nat : y < x => <<y, x>> \in R
  BY DEF OpToRel
<1> HIDE DEF R
<1>3. PICK x \in T : \A y \in T : ~ (<<y, x>> \in R)
  BY <1>1, WFMin
<1>4. \A y \in T : y \in Nat /\ x \in Nat /\ ~(y < x)
  BY <1>2, <1>3
<1>5. \A y \in T : x <= y
  BY <1>4
<1> QED
  BY <1>5

(* What has been said is a finite set of places.                           *)
LEMMA SaidFinite ==
  ASSUME NEW l \in Seq(Namings), NEW ip, NEW n
  PROVE  /\ IsFiniteSet(Said(l, ip, n)) /\ Cardinality(Said(l, ip, n)) \in Nat
         /\ Cardinality(Said(l, ip, n)) <= Len(l)
<1>1. Len(l) \in Nat /\ DOMAIN l = 1 .. Len(l)
  BY LenProperties
<1>2. IsFiniteSet(1 .. Len(l)) /\ Cardinality(1 .. Len(l)) = Len(l)
  BY <1>1, FS_Interval
<1>3. Said(l, ip, n) \in SUBSET (1 .. Len(l))
  BY <1>1 DEF Said
<1> QED
  BY <1>2, <1>3, FS_Subset, FS_CardinalityType

(* One more thing said.                                                    *)
LEMMA SaidMore ==
  ASSUME NEW l \in Seq(Namings), NEW e \in Namings
  PROVE  LET k == Append(l, e)
         IN /\ k \in Seq(Namings) /\ DOMAIN k = DOMAIN l \cup {Len(l) + 1}
            /\ Len(l) + 1 \notin DOMAIN l
            /\ \A i \in DOMAIN l : k[i] = l[i]
            /\ k[Len(l) + 1] = e
            /\ Said(k, e.ip, e.name) = Said(l, e.ip, e.name) \cup {Len(l) + 1}
            /\ \A ip, n : ip # e.ip \/ n # e.name => Said(k, ip, n) = Said(l, ip, n)
<1> DEFINE k == Append(l, e)
<1>1. Len(l) \in Nat /\ DOMAIN l = 1 .. Len(l)
  BY LenProperties
<1>2. k \in Seq(Namings) /\ Len(k) = Len(l) + 1 /\ k[Len(l) + 1] = e /\ \A i \in 1 .. Len(l) : k[i] = l[i]
  BY AppendProperties
<1> HIDE DEF k
<1>3. DOMAIN k = DOMAIN l \cup {Len(l) + 1} /\ Len(l) + 1 \notin DOMAIN l
  BY <1>1, <1>2, LenProperties
<1>4. Said(k, e.ip, e.name) = Said(l, e.ip, e.name) \cup {Len(l) + 1}
  BY <1>1, <1>2, <1>3 DEF Said
<1>5. \A ip, n : ip # e.ip \/ n # e.name => Said(k, ip, n) = Said(l, ip, n)
  BY <1>1, <1>2, <1>3 DEF Said
<1> QED
  BY <1>1, <1>2, <1>3, <1>4, <1>5 DEF k

(* A record stands when something else is said.                            *)
LEMMA StandsOther ==
  ASSUME NEW l \in Seq(Namings), NEW e \in Namings, NEW ip, NEW n, ip # e.ip \/ n # e.name,
         NEW r, Stands(l, ip, n, r)
  PROVE  Stands(Append(l, e), ip, n, r)
<1> DEFINE k == Append(l, e)
<1>1. Said(k, ip, n) = Said(l, ip, n) /\ \A i \in DOMAIN l : k[i] = l[i]
  BY SaidMore
<1>2. \A i \in Said(l, ip, n) : i \in DOMAIN l
  BY DEF Said
<1> HIDE DEF k
<1>3. \A i \in Said(k, ip, n) : k[i] = l[i]
  BY <1>1, <1>2
<1>4. Stands(k, ip, n, r)
  BY <1>1, <1>3 DEF Stands
<1> QED
  BY <1>4 DEF k

(* A first record, and a record counted on, stand on one thing more.       *)
LEMMA StandsFirst ==
  ASSUME NEW l \in Seq(Namings), NEW e \in Namings, Said(l, e.ip, e.name) = {}
  PROVE  Stands(Append(l, e), e.ip, e.name, [source |-> e.source, count |-> 1, seen |-> e.ts])
<1> DEFINE k == Append(l, e)
           r == [source |-> e.source, count |-> 1, seen |-> e.ts]
<1>0. Said(k, e.ip, e.name) = Said(l, e.ip, e.name) \cup {Len(l) + 1} /\ k[Len(l) + 1] = e
  BY SaidMore
<1>1. Said(k, e.ip, e.name) = {Len(l) + 1}
  BY <1>0
<1>2. Cardinality({Len(l) + 1}) = 1
  BY FS_Singleton
<1>3. r.source = e.source /\ r.count = 1 /\ r \in [source : HowLearnt, count : Nat \ {0}, seen : Nat]
  BY DEF Namings
<1>4. SourceRank(e.source) >= SourceRank(e.source)
  BY RankType
<1> HIDE DEF k, r
<1>5. Stands(k, e.ip, e.name, r)
  BY <1>0, <1>1, <1>2, <1>3, <1>4 DEF Stands
<1> QED
  BY <1>5 DEF k, r

LEMMA StandsAgain ==
  ASSUME NEW l \in Seq(Namings), NEW e \in Namings, NEW old, Stands(l, e.ip, e.name, old)
  PROVE  Stands(Append(l, e), e.ip, e.name, Counted(old, e))
<1> DEFINE k == Append(l, e)
           r == Counted(old, e)
           before == Said(l, e.ip, e.name)
<1>1. /\ Said(k, e.ip, e.name) = before \cup {Len(l) + 1} /\ k[Len(l) + 1] = e
      /\ \A i \in DOMAIN l : k[i] = l[i]
      /\ Len(l) + 1 \notin DOMAIN l
  <2>1. Said(k, e.ip, e.name) = before \cup {Len(l) + 1} /\ k[Len(l) + 1] = e
    BY SaidMore
  <2>2. Len(l) + 1 \notin DOMAIN l /\ \A i \in DOMAIN l : k[i] = l[i]
    BY SaidMore
  <2> QED
    BY <2>1, <2>2
<1>2. before \subseteq DOMAIN l /\ IsFiniteSet(before) /\ Cardinality(before) \in Nat
  <2>1. before \subseteq DOMAIN l
    BY DEF Said
  <2>2. IsFiniteSet(before) /\ Cardinality(before) \in Nat
    BY SaidFinite
  <2> QED
    BY <2>1, <2>2
<1>3. Cardinality(before \cup {Len(l) + 1}) = Cardinality(before) + 1
  BY <1>1, <1>2, FS_AddElement
<1>4. old \in [source : HowLearnt, count : Nat \ {0}, seen : Nat] /\ old.count = Cardinality(before)
      /\ (\E i \in before : l[i].source = old.source)
      /\ \A i \in before : SourceRank(old.source) >= SourceRank(l[i].source)
  BY DEF Stands
<1>5. /\ r.source \in {old.source, e.source}
      /\ SourceRank(r.source) >= SourceRank(old.source) /\ SourceRank(r.source) >= SourceRank(e.source)
      /\ r.count = old.count + 1
  BY RankType DEF Counted, BetterSource
<1>6. r \in [source : HowLearnt, count : Nat \ {0}, seen : Nat]
  BY <1>4 DEF Counted, BetterSource, Namings
<1> HIDE DEF k, r, before
<1>7. \E i \in Said(k, e.ip, e.name) : k[i].source = r.source
  BY <1>1, <1>2, <1>4, <1>5
<1>8. ASSUME NEW i \in Said(k, e.ip, e.name) PROVE SourceRank(r.source) >= SourceRank(k[i].source)
  <2>1. CASE i \in before
    <3>1. k[i] = l[i] /\ SourceRank(old.source) >= SourceRank(l[i].source)
      BY <1>1, <1>2, <1>4, <2>1
    <3> QED
      BY <1>5, <3>1, RankType
  <2>2. CASE i = Len(l) + 1
    BY <1>1, <1>5, <2>2
  <2> QED
    BY <1>1, <1>8, <2>1, <2>2
<1>9. r.count = Cardinality(Said(k, e.ip, e.name))
  BY <1>1, <1>3, <1>4, <1>5
<1>10. Stands(k, e.ip, e.name, r)
  BY <1>6, <1>7, <1>8, <1>9 DEF Stands
<1> QED
  BY <1>10 DEF k, r

(* Nothing learnt yet, a packet to learn from, ...                         *)
LEMMA NameInitInv == NameInit => NamesInv
<1> SUFFICES ASSUME NameInit PROVE NamesInv
  OBVIOUS
<1>1. DOMAIN byIP = {} /\ DOMAIN learnt = {} /\ learnt \in Seq(Namings) /\ todo \in Seq(Namings)
  BY DEF NameInit
<1>2. IsFiniteSet(DOMAIN byIP) /\ Cardinality(DOMAIN byIP) <= NameLimit
  BY <1>1, FS_EmptySet, NameAssumption
<1> QED
  BY <1>1, <1>2 DEF NamesInv, NameTypeOK

LEMMA LearnKeeps == NamesInv /\ Learn => NamesInv'
<1> SUFFICES ASSUME NamesInv, Learn PROVE NamesInv'
  OBVIOUS
<1>1. todo' \in Seq(Namings) /\ byIP' = byIP /\ learnt' = learnt
  BY NameAssumption DEF Learn
<1> QED
  BY <1>1 DEF NamesInv, NameTypeOK

(* ... a name for which there is no room, ...                              *)
LEMMA NoRoomKeeps ==
  ASSUME NamesInv, NEW e \in Namings, todo' \in Seq(Namings),
         e.ip \notin DOMAIN byIP, Cardinality(DOMAIN byIP) >= NameLimit,
         byIP' = byIP, learnt' = Append(learnt, e)
  PROVE  NamesInv'
<1> DEFINE k == Append(learnt, e)
<1>1. learnt \in Seq(Namings) /\ IsFiniteSet(DOMAIN byIP) /\ Cardinality(DOMAIN byIP) <= NameLimit
  BY DEF NamesInv, NameTypeOK
<1>2. k \in Seq(Namings) /\ DOMAIN k = DOMAIN learnt \cup {Len(learnt) + 1}
  BY <1>1, SaidMore
<1>3. \A i \in DOMAIN learnt : k[i] = learnt[i]
  BY <1>1, SaidMore
<1>4. k[Len(learnt) + 1] = e
  BY <1>1, SaidMore
<1>5. Cardinality(DOMAIN byIP) = NameLimit
  BY <1>1, NameAssumption, FS_CardinalityType
<1>6. ASSUME NEW ip \in DOMAIN byIP, NEW n \in DOMAIN byIP[ip] PROVE Stands(k, ip, n, byIP[ip][n])
  BY <1>1, <1>6, StandsOther DEF NamesInv
<1> HIDE DEF k
<1>7. learnt' = k
  BY DEF k
<1>8. ASSUME NEW ip \in DOMAIN byIP
      PROVE  /\ \E i \in DOMAIN k : k[i].ip = ip
             /\ \A i \in DOMAIN k : k[i].ip = ip => k[i].name \in DOMAIN byIP[ip]
  BY <1>2, <1>3, <1>4 DEF NamesInv
<1>9. NameTypeOK'
  BY <1>1, <1>2, <1>7 DEF NamesInv, NameTypeOK
<1> QED
  BY <1>5, <1>6, <1>7, <1>8, <1>9 DEF NamesInv

(* ... and a name that is recorded, under an address that had some or is   *)
(* new, keep it.                                                           *)
LEMMA RecordedKeeps ==
  ASSUME NamesInv, NEW e \in Namings, todo' \in Seq(Namings),
         e.ip \in DOMAIN byIP \/ Cardinality(DOMAIN byIP) < NameLimit,
         byIP' = AddName(byIP, e), learnt' = Append(learnt, e)
  PROVE  NamesInv'
<1> DEFINE k == Append(learnt, e)
           names == IF e.ip \in DOMAIN byIP THEN byIP[e.ip] ELSE <<>>
           r == IF e.name \in DOMAIN names THEN Counted(names[e.name], e)
                ELSE [source |-> e.source, count |-> 1, seen |-> e.ts]
           credited == WithKey(names, e.name, r)
           f == WithKey(byIP, e.ip, credited)
<1>1. learnt \in Seq(Namings) /\ IsFiniteSet(DOMAIN byIP) /\ Cardinality(DOMAIN byIP) <= NameLimit
  BY DEF NamesInv, NameTypeOK
<1>2. k \in Seq(Namings) /\ DOMAIN k = DOMAIN learnt \cup {Len(learnt) + 1}
  BY <1>1, SaidMore
<1>3. \A i \in DOMAIN learnt : k[i] = learnt[i]
  BY <1>1, SaidMore
<1>4. k[Len(learnt) + 1] = e
  BY <1>1, SaidMore
<1>5. Cardinality(DOMAIN byIP) \in Nat /\ NameLimit \in Nat
  BY <1>1, FS_CardinalityType, NameAssumption
<1>6. ~(e.ip \notin DOMAIN byIP /\ Cardinality(DOMAIN byIP) >= NameLimit)
  BY <1>5
<1>7. byIP' = f /\ learnt' = k
  BY <1>6 DEF AddName
<1>8. /\ \A n \in DOMAIN names : Stands(learnt, e.ip, n, names[n])
      /\ \A i \in DOMAIN learnt : learnt[i].ip = e.ip => learnt[i].name \in DOMAIN names
  <2>1. CASE e.ip \in DOMAIN byIP
    BY <2>1 DEF NamesInv
  <2>2. CASE e.ip \notin DOMAIN byIP
    <3>1. \A i \in DOMAIN learnt : learnt[i].ip # e.ip
      BY <1>5, <2>2 DEF NamesInv
    <3>2. DOMAIN names = {}
      BY <2>2
    <3> HIDE DEF names
    <3> QED
      BY <3>1, <3>2
  <2> QED
    BY <2>1, <2>2
<1>9. Stands(k, e.ip, e.name, r)
  <2>1. CASE e.name \in DOMAIN names
    <3>1. Stands(learnt, e.ip, e.name, names[e.name])
      BY <1>8, <2>1
    <3>2. r = Counted(names[e.name], e)
      BY <2>1
    <3> HIDE DEF r, names
    <3> QED
      BY <1>1, <3>1, <3>2, StandsAgain
  <2>2. CASE e.name \notin DOMAIN names
    <3> HIDE DEF names
    <3>1. Said(learnt, e.ip, e.name) = {}
      BY <1>8, <2>2 DEF Said
    <3>2. r = [source |-> e.source, count |-> 1, seen |-> e.ts]
      BY <2>2
    <3> HIDE DEF r
    <3> QED
      BY <1>1, <3>1, <3>2, StandsFirst
  <2> QED
    BY <2>1, <2>2
<1> HIDE DEF r, names
<1>10. /\ DOMAIN credited = DOMAIN names \cup {e.name}
       /\ credited[e.name] = r /\ \A n \in DOMAIN names : n # e.name => credited[n] = names[n]
  BY DEF WithKey
<1> HIDE DEF credited
<1>11. /\ DOMAIN f = DOMAIN byIP \cup {e.ip}
       /\ f[e.ip] = credited /\ \A ip \in DOMAIN byIP : ip # e.ip => f[ip] = byIP[ip]
  BY DEF WithKey
<1> HIDE DEF f
<1>12. ASSUME NEW ip \in DOMAIN f, NEW n \in DOMAIN f[ip] PROVE Stands(k, ip, n, f[ip][n])
  <2>1. CASE ip # e.ip
    <3>1. ip \in DOMAIN byIP /\ f[ip] = byIP[ip]
      BY <1>11, <1>12, <2>1
    <3>2. Stands(learnt, ip, n, f[ip][n])
      BY <1>12, <3>1 DEF NamesInv
    <3> QED
      BY <1>1, <2>1, <3>2, StandsOther
  <2>2. CASE ip = e.ip /\ n # e.name
    <3>1. n \in DOMAIN names /\ f[ip][n] = names[n]
      BY <1>10, <1>11, <1>12, <2>2
    <3>2. Stands(learnt, ip, n, f[ip][n])
      BY <1>8, <2>2, <3>1
    <3> QED
      BY <1>1, <2>2, <3>2, StandsOther
  <2>3. CASE ip = e.ip /\ n = e.name
    <3>1. f[ip][n] = r
      BY <1>10, <1>11, <2>3
    <3> HIDE DEF k
    <3> QED
      BY <1>9, <2>3, <3>1
  <2> QED
    BY <2>1, <2>2, <2>3
<1> HIDE DEF k
<1>13. ASSUME NEW ip \in DOMAIN f
       PROVE  /\ \E i \in DOMAIN k : k[i].ip = ip
              /\ \A i \in DOMAIN k : k[i].ip = ip => k[i].name \in DOMAIN f[ip]
  <2>1. CASE ip # e.ip
    <3>1. ip \in DOMAIN byIP /\ f[ip] = byIP[ip]
      BY <1>11, <1>13, <2>1
    <3>2. /\ \E i \in DOMAIN learnt : learnt[i].ip = ip
          /\ \A i \in DOMAIN learnt : learnt[i].ip = ip => learnt[i].name \in DOMAIN f[ip]
      BY <3>1 DEF NamesInv
    <3> QED
      BY <1>2, <1>3, <1>4, <2>1, <3>2
  <2>2. CASE ip = e.ip
    <3>1. DOMAIN f[ip] = DOMAIN names \cup {e.name}
      BY <1>10, <1>11, <2>2
    <3> QED
      BY <1>2, <1>3, <1>4, <1>8, <2>2, <3>1
  <2> QED
    BY <2>1, <2>2
<1>14. IsFiniteSet(DOMAIN f) /\ Cardinality(DOMAIN f) <= NameLimit
  <2>1. CASE e.ip \in DOMAIN byIP
    BY <1>1, <1>11, <2>1
  <2>2. CASE e.ip \notin DOMAIN byIP
    <3>1. IsFiniteSet(DOMAIN byIP \cup {e.ip})
      BY <1>1, FS_AddElement
    <3>2. Cardinality(DOMAIN byIP \cup {e.ip}) = Cardinality(DOMAIN byIP) + 1
      BY <1>1, <2>2, FS_AddElement
    <3> QED
      BY <1>5, <1>11, <2>2, <3>1, <3>2
  <2> QED
    BY <2>1, <2>2
<1>15. \A i \in DOMAIN k : k[i].ip \in DOMAIN f \/ Cardinality(DOMAIN f) = NameLimit
  <2> SUFFICES ASSUME NEW i \in DOMAIN k, k[i].ip \notin DOMAIN f
               PROVE  Cardinality(DOMAIN f) = NameLimit
    OBVIOUS
  <2>1. i \in DOMAIN learnt /\ learnt[i].ip \notin DOMAIN byIP
    BY <1>2, <1>3, <1>4, <1>11
  <2>2. Cardinality(DOMAIN byIP) = NameLimit
    BY <2>1 DEF NamesInv
  <2>3. e.ip \in DOMAIN byIP
    BY <1>5, <1>6, <2>2
  <2>4. DOMAIN f = DOMAIN byIP
    BY <1>11, <2>3
  <2> QED
    BY <2>2, <2>4
<1>16. \A ip \in DOMAIN f : \A n \in DOMAIN f[ip] : f[ip][n] \in [source : HowLearnt, count : Nat \ {0}, seen : Nat]
  BY <1>12 DEF Stands
<1>17. NameTypeOK'
  BY <1>2, <1>7, <1>14, <1>16 DEF NameTypeOK
<1> QED
  BY <1>7, <1>12, <1>13, <1>15, <1>17 DEF NamesInv

LEMMA AddKeeps == NamesInv /\ Add => NamesInv'
<1> SUFFICES ASSUME NamesInv, Add PROVE NamesInv'
  OBVIOUS
<1> DEFINE e == Head(todo)
<1>1. todo \in Seq(Namings) /\ todo # <<>> /\ todo' = Tail(todo)
  BY DEF Add, NamesInv, NameTypeOK
<1>2. e \in Namings /\ todo' \in Seq(Namings)
  BY <1>1, HeadTailProperties
<1>3. CASE byIP' = byIP /\ learnt' = learnt
  BY <1>2, <1>3 DEF NamesInv, NameTypeOK
<1>4. CASE byIP' = AddName(byIP, e) /\ learnt' = Append(learnt, e)
  <2> HIDE DEF e
  <2>1. CASE e.ip \notin DOMAIN byIP /\ Cardinality(DOMAIN byIP) >= NameLimit
    <3>1. byIP' = byIP
      BY <1>4, <2>1 DEF AddName
    <3> QED
      BY <1>2, <1>4, <2>1, <3>1, NoRoomKeeps
  <2>2. CASE e.ip \in DOMAIN byIP \/ ~(Cardinality(DOMAIN byIP) >= NameLimit)
    <3>1. Cardinality(DOMAIN byIP) \in Nat /\ NameLimit \in Nat
      BY FS_CardinalityType, NameAssumption DEF NamesInv, NameTypeOK
    <3>2. e.ip \in DOMAIN byIP \/ Cardinality(DOMAIN byIP) < NameLimit
      BY <2>2, <3>1
    <3> QED
      BY <1>2, <1>4, <3>2, RecordedKeeps
  <2> QED
    BY <2>1, <2>2
<1> QED
  BY <1>3, <1>4 DEF Add

(* A named address has a name that none is better than: of the names of    *)
(* the best rank, one of the highest count, and counts are bounded by what *)
(* has been learnt.                                                        *)
LEMMA SomeNameIsBest ==
  ASSUME NamesInv, NEW ip \in DOMAIN byIP
  PROVE  BestNames(ip) # {}
<1> DEFINE D == DOMAIN byIP[ip]
           rank(n) == SourceRank(byIP[ip][n].source)
           count(n) == byIP[ip][n].count
           Worse == {4 - rank(n) : n \in D}
<1>1. PICK n0 : n0 \in D
  BY DEF NamesInv
<1>2. Len(learnt) \in Nat /\ \A n \in D : count(n) \in Nat /\ count(n) <= Len(learnt)
  <2>1. learnt \in Seq(Namings)
    BY DEF NamesInv, NameTypeOK
  <2>2. ASSUME NEW n \in D PROVE count(n) \in Nat /\ count(n) <= Len(learnt)
    <3>1. count(n) = Cardinality(Said(learnt, ip, n))
      BY <2>2 DEF NamesInv, Stands
    <3> HIDE DEF count
    <3> QED
      BY <2>1, <3>1, SaidFinite
  <2> QED
    BY <2>1, <2>2, LenProperties
<1>3. \A n \in D : rank(n) \in 0 .. 4
  BY RankType
<1> HIDE DEF rank, count, D
<1>4. Worse \in SUBSET Nat /\ Worse # {}
  BY <1>1, <1>3
<1>5. PICK best \in D : \A n \in D : rank(n) <= rank(best)
  <2>1. PICK x \in Worse : \A y \in Worse : x <= y
    BY <1>4, LeastNat
  <2>2. PICK n \in D : x = 4 - rank(n)
    BY <2>1
  <2>3. ASSUME NEW m \in D PROVE rank(m) <= rank(n)
    <3>1. 4 - rank(n) <= 4 - rank(m)
      BY <2>1, <2>2
    <3> QED
      BY <1>3, <3>1
  <2> QED
    BY <2>2, <2>3
<1> DEFINE Top == {n \in D : rank(n) = rank(best)}
           Fewer == {Len(learnt) - count(n) : n \in Top}
<1>6. Fewer \in SUBSET Nat /\ Fewer # {}
  BY <1>2, <1>5
<1>7. PICK most \in Top : \A n \in Top : count(n) <= count(most)
  <2>1. PICK x \in Fewer : \A y \in Fewer : x <= y
    BY <1>6, LeastNat
  <2>2. PICK n \in Top : x = Len(learnt) - count(n)
    BY <2>1
  <2>3. ASSUME NEW m \in Top PROVE count(m) <= count(n)
    <3>1. Len(learnt) - count(n) <= Len(learnt) - count(m)
      BY <2>1, <2>2
    <3> QED
      BY <1>2, <3>1
  <2> QED
    BY <2>2, <2>3
<1>8. ASSUME NEW m \in D
      PROVE  ~(rank(m) > rank(most)) /\ ~(rank(m) = rank(most) /\ count(m) > count(most))
  <2>1. rank(most) = rank(best) /\ rank(m) <= rank(best) /\ rank(m) \in 0 .. 4 /\ rank(best) \in 0 .. 4
    BY <1>3, <1>5, <1>7
  <2>2. rank(m) = rank(most) => count(m) <= count(most)
    BY <1>7, <2>1
  <2>3. count(m) \in Nat /\ count(most) \in Nat
    BY <1>2, <1>7
  <2> QED
    BY <2>1, <2>2, <2>3
<1>9. \A m \in D : ~Better(byIP[ip][m], byIP[ip][most])
  BY <1>8 DEF Better, rank, count
<1>10. most \in BestNames(ip)
  BY <1>7, <1>9 DEF BestNames, D
<1> QED
  BY <1>10

LEMMA NamesInvEvidence == NamesInv => NamesAreEvidence
<1> SUFFICES ASSUME NamesInv PROVE NamesAreEvidence
  OBVIOUS
<1>1. \A ip, n : EvidenceFor(ip, n) = Said(learnt, ip, n)
  BY DEF EvidenceFor, Evidence, Said
<1>2. ASSUME NEW ip \in DOMAIN byIP
      PROVE  /\ DOMAIN byIP[ip] = {learnt[i].name : i \in Evidence(ip)}
             /\ \A n \in DOMAIN byIP[ip] : byIP[ip][n].count = Cardinality(EvidenceFor(ip, n))
             /\ \A n \in BestNames(ip), i \in Evidence(ip) :
                  SourceRank(byIP[ip][n].source) >= SourceRank(learnt[i].source)
             /\ \A n \in BestNames(ip) :
                  \E i \in EvidenceFor(ip, n) : learnt[i].source = byIP[ip][n].source
  <2>1. \A n \in DOMAIN byIP[ip] : Stands(learnt, ip, n, byIP[ip][n])
    BY <1>2 DEF NamesInv
  <2>2. \A i \in Evidence(ip) : learnt[i].name \in DOMAIN byIP[ip]
    BY <1>2 DEF NamesInv, Evidence
  <2>3. \A n \in DOMAIN byIP[ip] : \E i \in Evidence(ip) : learnt[i].name = n
    BY <2>1 DEF Stands, Said, Evidence
  <2>4. \A n \in BestNames(ip) :
          n \in DOMAIN byIP[ip] /\ \A m \in DOMAIN byIP[ip] : ~Better(byIP[ip][m], byIP[ip][n])
    BY <1>2 DEF BestNames
  <2>5. ASSUME NEW n \in BestNames(ip), NEW i \in Evidence(ip)
        PROVE  SourceRank(byIP[ip][n].source) >= SourceRank(learnt[i].source)
    <3> DEFINE m == learnt[i].name
    <3>1. m \in DOMAIN byIP[ip] /\ i \in Said(learnt, ip, m)
      BY <2>2, <2>5 DEF Evidence, Said
    <3> HIDE DEF m
    <3>2. SourceRank(byIP[ip][m].source) >= SourceRank(learnt[i].source)
      BY <2>1, <3>1 DEF Stands
    <3>3. ~(SourceRank(byIP[ip][m].source) > SourceRank(byIP[ip][n].source))
      BY <2>4, <3>1 DEF Better
    <3> QED
      BY <3>2, <3>3, RankType
  <2>6. \A n \in DOMAIN byIP[ip] : byIP[ip][n].count = Cardinality(EvidenceFor(ip, n))
    BY <1>1, <2>1 DEF Stands
  <2>7. \A n \in BestNames(ip) :
          \E i \in EvidenceFor(ip, n) : learnt[i].source = byIP[ip][n].source
    BY <1>1, <2>1, <2>4 DEF Stands
  <2>8. DOMAIN byIP[ip] = {learnt[i].name : i \in Evidence(ip)}
    BY <2>2, <2>3
  <2> QED
    BY <2>5, <2>6, <2>7, <2>8
<1>3. \A ip \in DOMAIN byIP : BestNames(ip) # {}
  BY SomeNameIsBest
<1> QED
  BY <1>2, <1>3 DEF NamesAreEvidence, NamesInv

(* A named address has every name it was given, each with its count and    *)
(* its best source, and Lookup's is of the best; an address without a name *)
(* was never seen, or when the map was full (namemap.go Learn, add,        *)
(* Lookup).                                                                *)
THEOREM NamesStandOnEvidence == NameSpec => []NamesAreEvidence
<1>1. NamesInv /\ [NameNext]_nameVars => NamesInv'
  <2> SUFFICES ASSUME NamesInv, [NameNext]_nameVars PROVE NamesInv'
    OBVIOUS
  <2>1. CASE Learn
    BY <2>1, LearnKeeps
  <2>2. CASE Add
    BY <2>2, AddKeeps
  <2>3. CASE UNCHANGED nameVars
    BY <2>3 DEF nameVars, NamesInv, NameTypeOK
  <2> QED
    BY <2>1, <2>2, <2>3 DEF NameNext
<1> QED
  BY <1>1, NameInitInv, NamesInvEvidence, PTL DEF NameSpec

(* What the views say of who is behind a connection rests on the last      *)
(* lists that were read, on what was seen and is still fresh, and on what  *)
(* packets said.                                                           *)
THEOREM AttributionIsFounded ==
  ProcSpec /\ NameSpec /\ FeedsSpec => []AttributionHolds
<1>1. AnswerFresh /\ NamesAreEvidence /\ ListsKept => AttributionHolds
  BY DEF AttributionHolds
<1> QED
  BY <1>1, AnswersStayFresh, NamesStandOnEvidence, ListsStay, PTL

-----------------------------------------------------------------------------
(* The detectors.                                                          *)
(* The sums of the beginnings of a sequence of numbers, up to the n-th.    *)
Sums(f, s, n) ==
  /\ f \in [0 .. n -> Int]
  /\ f[0] = 0 /\ \A i \in 1 .. n : f[i] = f[i - 1] + s[i]

LEMMA SumsExist == ASSUME NEW s \in Seq(Int) PROVE \E f : Sums(f, s, Len(s))
<1> DEFINE n == Len(s)
           Up(m) == \E f : Sums(f, s, m)
           T == {m \in 0 .. n : ~Up(m)}
<1>1. n \in Nat /\ \A i \in 1 .. n : s[i] \in Int
  OBVIOUS
<1>2. Up(0)
  <2>1. [i \in 0 .. 0 |-> 0] \in [0 .. 0 -> Int] /\ [i \in 0 .. 0 |-> 0][0] = 0 /\ 1 .. 0 = {}
    OBVIOUS
  <2> QED
    BY <2>1 DEF Sums
<1>3. ASSUME NEW m \in 1 .. n, Up(m - 1) PROVE Up(m)
  <2>1. PICK f : Sums(f, s, m - 1)
    BY <1>3
  <2>2. f \in [0 .. m - 1 -> Int] /\ f[0] = 0 /\ \A i \in 1 .. m - 1 : f[i] = f[i - 1] + s[i]
    BY <2>1 DEF Sums
  <2> DEFINE h == [i \in 0 .. m |-> IF i = m THEN f[m - 1] + s[m] ELSE f[i]]
  <2>3. f[m - 1] + s[m] \in Int
    BY <1>1, <2>2
  <2>4. h \in [0 .. m -> Int] /\ h[0] = 0
    BY <1>1, <2>2, <2>3
  <2>5. \A i \in 1 .. m : h[i] = h[i - 1] + s[i]
    BY <1>1, <2>2
  <2> QED
    BY <2>4, <2>5 DEF Sums
<1> HIDE DEF Up
<1>4. T \in SUBSET Nat
  BY <1>1
<1>5. T = {}
  <2>1. SUFFICES ASSUME T # {} PROVE FALSE
    BY <2>1
  <2>2. PICK m \in T : \A k \in T : m <= k
    <3> HIDE DEF T
    <3> QED
      BY <1>4, <2>1, LeastNat
  <2>3. m \in 1 .. n /\ m - 1 \in 0 .. n /\ m - 1 \notin T
    BY <1>1, <1>2, <2>2
  <2> QED
    BY <1>3, <2>2, <2>3
<1>6. n \in 0 .. n
  BY <1>1
<1> QED
  BY <1>5, <1>6 DEF Up

LEMMA TotalIs ==
  ASSUME NEW s \in Seq(Int)
  PROVE  \E f : Sums(f, s, Len(s)) /\ Total(s) = f[Len(s)]
<1> DEFINE n == Len(s)
           IsTable(f) == f = [i \in 0 .. n |-> IF i = 0 THEN 0 ELSE f[i - 1] + s[i]]
<1>1. n \in Nat /\ \A i \in 1 .. n : s[i] \in Int
  OBVIOUS
<1>2. Total(s) = (CHOOSE f : IsTable(f))[n]
  BY DEF Total
<1>3. PICK f : Sums(f, s, n)
  BY SumsExist
<1> HIDE DEF n
<1>4. f \in [0 .. n -> Int] /\ f[0] = 0 /\ \A i \in 1 .. n : f[i] = f[i - 1] + s[i]
  BY <1>3 DEF Sums
<1>5. IsTable(f)
  BY <1>1, <1>4
<1>6. PICK unfolded : IsTable(unfolded) /\ Total(s) = unfolded[n]
  BY <1>2, <1>5
<1>7. unfolded[0] = 0 /\ \A i \in 1 .. n : unfolded[i] = unfolded[i - 1] + s[i]
  BY <1>1, <1>6
<1> DEFINE T == {i \in 0 .. n : unfolded[i] \notin Int}
<1>8. T = {}
  <2>1. SUFFICES ASSUME T # {} PROVE FALSE
    BY <2>1
  <2>2. T \in SUBSET Nat
    BY <1>1
  <2>3. PICK i \in T : \A k \in T : i <= k
    <3> HIDE DEF T
    <3> QED
      BY <2>1, <2>2, LeastNat
  <2>4. i # 0 /\ i \in 1 .. n /\ i - 1 \in 0 .. n /\ i - 1 \notin T
    BY <1>1, <1>7, <2>3
  <2>5. unfolded[i] = unfolded[i - 1] + s[i] /\ s[i] \in Int
    BY <1>1, <1>7, <2>4
  <2> QED
    BY <2>3, <2>4, <2>5
<1>9. unfolded \in [0 .. n -> Int]
  BY <1>6, <1>8
<1> QED
  BY <1>6, <1>7, <1>9 DEF Sums, n

(* A sum of larger numbers is larger.                                      *)
LEMMA TotalMonotone ==
  ASSUME NEW s \in Seq(Int), NEW t \in Seq(Int), Len(s) = Len(t),
         \A i \in 1 .. Len(s) : s[i] <= t[i]
  PROVE  Total(s) \in Int /\ Total(t) \in Int /\ Total(s) <= Total(t)
<1> DEFINE n == Len(s)
<1>1. n \in Nat /\ \A i \in 1 .. n : s[i] \in Int /\ t[i] \in Int
  OBVIOUS
<1>2. PICK f : Sums(f, s, n) /\ Total(s) = f[n]
  BY TotalIs
<1>3. PICK g : Sums(g, t, n) /\ Total(t) = g[n]
  BY TotalIs
<1> HIDE DEF n
<1>4. /\ f \in [0 .. n -> Int] /\ f[0] = 0 /\ \A i \in 1 .. n : f[i] = f[i - 1] + s[i]
      /\ g \in [0 .. n -> Int] /\ g[0] = 0 /\ \A i \in 1 .. n : g[i] = g[i - 1] + t[i]
  BY <1>2, <1>3 DEF Sums
<1> DEFINE T == {i \in 0 .. n : ~(f[i] <= g[i])}
<1>5. T = {}
  <2>1. SUFFICES ASSUME T # {} PROVE FALSE
    BY <2>1
  <2>2. T \in SUBSET Nat
    BY <1>1
  <2>3. PICK i \in T : \A k \in T : i <= k
    <3> HIDE DEF T
    <3> QED
      BY <2>1, <2>2, LeastNat
  <2>4. i # 0 /\ i \in 1 .. n /\ i - 1 \in 0 .. n /\ i - 1 \notin T
    BY <1>1, <1>4, <2>3
  <2>5. f[i - 1] <= g[i - 1] /\ s[i] <= t[i]
    BY <2>4 DEF n
  <2>6. f[i - 1] \in Int /\ g[i - 1] \in Int /\ f[i] = f[i - 1] + s[i] /\ g[i] = g[i - 1] + t[i]
    BY <1>4, <2>4
  <2> QED
    BY <1>1, <2>3, <2>4, <2>5, <2>6
<1>6. n \in 0 .. n
  BY <1>1
<1> QED
  BY <1>2, <1>3, <1>4, <1>5, <1>6

(* The sum of equal numbers is a product.                                  *)
LEMMA TotalOfEqual ==
  ASSUME NEW s \in Seq(Int), NEW x \in Int, \A i \in 1 .. Len(s) : s[i] = x
  PROVE  Total(s) = Len(s) * x
<1> DEFINE n == Len(s)
<1>1. n \in Nat /\ \A i \in 1 .. n : s[i] = x
  OBVIOUS
<1>2. PICK f : Sums(f, s, n) /\ Total(s) = f[n]
  BY TotalIs
<1> HIDE DEF n
<1>4. f \in [0 .. n -> Int] /\ f[0] = 0 /\ \A i \in 1 .. n : f[i] = f[i - 1] + x
  BY <1>1, <1>2 DEF Sums
<1> DEFINE T == {i \in 0 .. n : f[i] # i * x}
<1>5. T = {}
  <2>1. SUFFICES ASSUME T # {} PROVE FALSE
    BY <2>1
  <2>2. T \in SUBSET Nat
    BY <1>1
  <2>3. PICK i \in T : \A k \in T : i <= k
    <3> HIDE DEF T
    <3> QED
      BY <2>1, <2>2, LeastNat
  <2>4. i # 0 /\ i \in 1 .. n /\ i - 1 \in 0 .. n /\ i - 1 \notin T
    BY <1>1, <1>4, <2>3
  <2>5. f[i - 1] = (i - 1) * x /\ f[i] = f[i - 1] + x
    BY <1>4, <2>4
  <2>6. (i - 1) * x + x = i * x
    BY <2>4
  <2> QED
    BY <2>3, <2>5, <2>6
<1>6. n \in 0 .. n
  BY <1>1
<1> QED
  BY <1>2, <1>5, <1>6 DEF n

-----------------------------------------------------------------------------
(* The image of a finite set.                                              *)
LEMMA ImageFinite ==
  ASSUME NEW S, IsFiniteSet(S), NEW f
  PROVE  LET T == {f[x] : x \in S}
         IN IsFiniteSet(T) /\ Cardinality(T) \in Nat /\ Cardinality(T) <= Cardinality(S)
<1> DEFINE T == {f[x] : x \in S}
           g == [x \in S |-> f[x]]
<1>1. g \in Surjection(S, T)
  BY DEF Surjection
<1> HIDE DEF g, T
<1>2. IsFiniteSet(T) /\ Cardinality(T) <= Cardinality(S)
  BY <1>1, FS_Surjection
<1>3. Cardinality(T) \in Nat
  BY <1>2, FS_CardinalityType
<1> QED
  BY <1>2, <1>3 DEF T

LEMMA RowsFinite ==
  ASSUME NEW rows \in Seq(Flows)
  PROVE  /\ IsFiniteSet(Elements(rows)) /\ Elements(rows) \subseteq Flows
         /\ DOMAIN rows = 1 .. Len(rows) /\ Len(rows) \in Nat
<1>1. DOMAIN rows = 1 .. Len(rows) /\ Len(rows) \in Nat
  OBVIOUS
<1>2. IsFiniteSet(1 .. Len(rows))
  BY <1>1, FS_Interval
<1>3. IsFiniteSet({rows[i] : i \in 1 .. Len(rows)})
  BY <1>2, ImageFinite
<1>4. Elements(rows) \subseteq Flows
  BY DEF Elements
<1> QED
  BY <1>1, <1>3, <1>4 DEF Elements

(* What a device reached in a set of its connections is more than it may.  *)
Reaches(m, w) ==
  \/ Cardinality(Addresses(w)) > IPLimit[m]
  \/ \E ip \in Addresses(w) : Cardinality(PortsOf(w, ip)) > PortLimit[m]

LEMMA ReachedFinite ==
  ASSUME NEW w, IsFiniteSet(w), NEW ip
  PROVE  /\ IsFiniteSet(Addresses(w)) /\ Cardinality(Addresses(w)) \in Nat
         /\ IsFiniteSet(PortsOf(w, ip)) /\ Cardinality(PortsOf(w, ip)) \in Nat
<1> DEFINE f == [c \in w |-> c.dst]
           v == {d \in w : d.dst = ip}
           g == [c \in v |-> c.port]
<1>1. {f[c] : c \in w} = Addresses(w)
  BY DEF Addresses
<1>2. {g[c] : c \in v} = PortsOf(w, ip)
  BY DEF PortsOf
<1>3. IsFiniteSet(v)
  BY FS_Subset
<1> HIDE DEF f, g, v
<1>4. IsFiniteSet({f[c] : c \in w}) /\ Cardinality({f[c] : c \in w}) \in Nat
  BY ImageFinite
<1>5. IsFiniteSet({g[c] : c \in v}) /\ Cardinality({g[c] : c \in v}) \in Nat
  BY <1>3, ImageFinite
<1> QED
  BY <1>1, <1>2, <1>4, <1>5

(* It is in every larger set.                                              *)
LEMMA ReachesMore ==
  ASSUME NEW w, IsFiniteSet(w), NEW v \in SUBSET w, NEW m,
         IPLimit[m] \in Nat, PortLimit[m] \in Nat, Reaches(m, v)
  PROVE  Reaches(m, w)
<1>1. IsFiniteSet(v)
  BY FS_Subset
<1>2. Addresses(v) \subseteq Addresses(w)
  BY DEF Addresses
<1>3. \A ip : PortsOf(v, ip) \subseteq PortsOf(w, ip)
  BY DEF PortsOf
<1>4. /\ IsFiniteSet(Addresses(w)) /\ Cardinality(Addresses(w)) \in Nat
      /\ Cardinality(Addresses(v)) \in Nat /\ Cardinality(Addresses(v)) <= Cardinality(Addresses(w))
  BY <1>1, <1>2, ReachedFinite, FS_Subset
<1>5. ASSUME NEW ip
      PROVE  /\ Cardinality(PortsOf(w, ip)) \in Nat /\ Cardinality(PortsOf(v, ip)) \in Nat
             /\ Cardinality(PortsOf(v, ip)) <= Cardinality(PortsOf(w, ip))
  BY <1>1, <1>3, ReachedFinite, FS_Subset
<1>6. CASE Cardinality(Addresses(v)) > IPLimit[m]
  BY <1>4, <1>6 DEF Reaches
<1>7. CASE \E ip \in Addresses(v) : Cardinality(PortsOf(v, ip)) > PortLimit[m]
  <2>1. PICK ip \in Addresses(v) : Cardinality(PortsOf(v, ip)) > PortLimit[m]
    BY <1>7
  <2>2. Cardinality(PortsOf(w, ip)) > PortLimit[m] /\ ip \in Addresses(w)
    BY <1>2, <1>5, <2>1
  <2> QED
    BY <2>2 DEF Reaches
<1> QED
  BY <1>6, <1>7 DEF Reaches

LEMMA ReachesNothing ==
  ASSUME NEW m, IPLimit[m] \in Nat
  PROVE  ~Reaches(m, {})
<1>1. Addresses({}) = {}
  BY DEF Addresses
<1>2. Cardinality(Addresses({})) = 0
  BY <1>1, FS_EmptySet
<1> QED
  BY <1>1, <1>2 DEF Reaches

LEMMA ScansReach == \A m, t, cs : Scans(m, t, cs) <=> Reaches(m, Span(m, t, cs))
  BY DEF Scans, Reaches, Addresses, PortsOf

(* The window of a connection is part of a span; ...                       *)
WindowOf(m, rows, i) ==
  {rows[j] : j \in {k \in Of(m, rows) : ~Earlier(rows, k, i) /\ rows[k].at - rows[i].at <= Window}}

LEMMA WindowSpanned ==
  ASSUME NEW rows \in Seq(Flows), NEW m, NEW i \in Of(m, rows)
  PROVE  WindowOf(m, rows, i) \subseteq Span(m, rows[i].at, Elements(rows))
<1> SUFFICES ASSUME NEW k \in Of(m, rows), ~Earlier(rows, k, i), rows[k].at - rows[i].at <= Window
             PROVE  rows[k] \in Span(m, rows[i].at, Elements(rows))
  BY DEF WindowOf
<1>1. k \in 1 .. Len(rows) /\ i \in 1 .. Len(rows) /\ rows[k].mac = m
  BY RowsFinite DEF Of
<1>2. rows[k] \in Elements(rows)
  BY <1>1 DEF Elements
<1>3. rows[k].at \in Nat /\ rows[i].at \in Nat /\ Window \in Nat
  BY <1>1, DetAssumption
<1>4. rows[k].at >= rows[i].at
  BY <1>3 DEF Earlier
<1>5. rows[k].at \in rows[i].at .. rows[i].at + Window
  BY <1>3, <1>4
<1> QED
  BY <1>1, <1>2, <1>5 DEF Span

(* ... and a span is covered by the window of its first connection.        *)
LEMMA SpanInWindow ==
  ASSUME NEW rows \in Seq(Flows), NEW m, NEW t \in Int, Span(m, t, Elements(rows)) # {}
  PROVE  \E i \in Of(m, rows) : Span(m, t, Elements(rows)) \subseteq WindowOf(m, rows, i)
<1> DEFINE I == {i \in Of(m, rows) : rows[i].at \in t .. t + Window}
           Ats == {rows[i].at : i \in I}
<1>1. I \subseteq 1 .. Len(rows) /\ Len(rows) \in Nat
  BY RowsFinite DEF Of
<1>2. \A i \in I : rows[i].at \in Nat /\ rows[i].at \in t .. t + Window
  BY <1>1, DetAssumption
<1>3. Span(m, t, Elements(rows)) = {rows[i] : i \in I}
  BY RowsFinite DEF Span, Elements, Of
<1>4. I # {}
  BY <1>3
<1>5. PICK first \in Ats : \A at \in Ats : first <= at
  <2>1. Ats \in SUBSET Nat /\ Ats # {}
    BY <1>2, <1>4
  <2> HIDE DEF Ats
  <2> QED
    BY <2>1, LeastNat
<1> DEFINE F == {i \in I : rows[i].at = first}
<1>6. PICK i \in F : \A j \in F : i <= j
  <2>1. F \in SUBSET Nat /\ F # {}
    BY <1>1, <1>5
  <2> HIDE DEF F
  <2> QED
    BY <2>1, LeastNat
<1>7. i \in I /\ rows[i].at = first
  BY <1>6
<1>8. ASSUME NEW k \in I PROVE ~Earlier(rows, k, i) /\ rows[k].at - rows[i].at <= Window
  <2>1. first <= rows[k].at /\ rows[k].at \in Int /\ first \in Int /\ k \in Int /\ i \in Int
    BY <1>1, <1>2, <1>5, <1>7, <1>8
  <2>2. rows[k].at = first => i <= k
    BY <1>6, <1>8
  <2>3. ~Earlier(rows, k, i)
    BY <1>7, <2>1, <2>2 DEF Earlier
  <2>4. rows[k].at - rows[i].at <= Window
    BY <1>2, <1>7, <1>8, DetAssumption
  <2> QED
    BY <2>3, <2>4
<1>9. {rows[k] : k \in I} \subseteq WindowOf(m, rows, i)
  BY <1>8 DEF WindowOf
<1> QED
  BY <1>3, <1>7, <1>9

(* So the sliding windows miss nothing.                                    *)
Times(rows) == UNION {(c.at - Window) .. c.at : c \in Elements(rows)}

LEMMA FanoutsAre ==
  ASSUME NEW rows \in Seq(Flows)
  PROVE  Fanouts(rows) = {m \in Macs(rows) : \E t \in Times(rows) : Scans(m, t, Elements(rows))}
<1> SUFFICES ASSUME NEW m \in Macs(rows)
             PROVE  FansOut(m, Windows(m, rows)) <=>
                      \E t \in Times(rows) : Scans(m, t, Elements(rows))
  BY DEF Fanouts
<1>1. IPLimit[m] \in Nat /\ PortLimit[m] \in Nat
  BY RowsFinite, DetAssumption DEF Macs
<1>2. FansOut(m, Windows(m, rows)) <=> \E i \in Of(m, rows) : Reaches(m, WindowOf(m, rows, i))
  BY DEF FansOut, Windows, WindowOf, Reaches
<1>3. IsFiniteSet(Elements(rows))
  BY RowsFinite
<1>4. ASSUME NEW i \in Of(m, rows), Reaches(m, WindowOf(m, rows, i))
      PROVE  \E t \in Times(rows) : Scans(m, t, Elements(rows))
  <2> DEFINE S == Span(m, rows[i].at, Elements(rows))
  <2>1. IsFiniteSet(S)
    BY <1>3, FS_Subset DEF Span
  <2>2. Reaches(m, S)
    BY <1>1, <1>4, <2>1, WindowSpanned, ReachesMore
  <2>3. rows[i] \in Elements(rows) /\ rows[i].at \in Nat /\ Window \in Nat
    BY RowsFinite, DetAssumption DEF Of, Elements
  <2>4. rows[i].at \in (rows[i].at - Window) .. rows[i].at
    BY <2>3
  <2>5. rows[i].at \in Times(rows)
    BY <2>3, <2>4 DEF Times
  <2> QED
    BY <2>2, <2>5, ScansReach
<1>5. ASSUME NEW t \in Times(rows), Scans(m, t, Elements(rows))
      PROVE  \E i \in Of(m, rows) : Reaches(m, WindowOf(m, rows, i))
  <2>1. t \in Int
    BY RowsFinite, DetAssumption DEF Times
  <2>2. Reaches(m, Span(m, t, Elements(rows)))
    BY <1>5, ScansReach
  <2>3. Span(m, t, Elements(rows)) # {}
    BY <1>1, <2>2, ReachesNothing
  <2>4. PICK i \in Of(m, rows) : Span(m, t, Elements(rows)) \subseteq WindowOf(m, rows, i)
    BY <2>1, <2>3, SpanInWindow
  <2>5. WindowOf(m, rows, i) \subseteq Elements(rows)
    BY RowsFinite DEF WindowOf, Of, Elements
  <2>6. IsFiniteSet(WindowOf(m, rows, i))
    BY <1>3, <2>5, FS_Subset
  <2>7. Reaches(m, WindowOf(m, rows, i))
    BY <1>1, <2>2, <2>4, <2>6, ReachesMore
  <2> QED
    BY <2>7
<1> QED
  BY <1>2, <1>4, <1>5

-----------------------------------------------------------------------------
(* The rows stored.  One more leaves those there were.                     *)
LEMMA InsertedIs ==
  ASSUME NEW S, NEW s \in Seq(S), NEW r \in S, NEW i \in 0 .. Len(s)
  PROVE  /\ Inserted(s, r, i) \in Seq(S) /\ Len(Inserted(s, r, i)) = Len(s) + 1
         /\ Elements(s) \subseteq Elements(Inserted(s, r, i))
<1> DEFINE n == Len(s)
           a == SubSeq(s, 1, i)
           b == <<r>>
           c == SubSeq(s, i + 1, n)
           ab == a \o b
           abc == ab \o c
<1>1. n \in Nat /\ i \in Nat /\ i <= n
  OBVIOUS
<1>2. a \in Seq(S) /\ Len(a) = i /\ \A j \in 1 .. i : a[j] = s[j]
  BY <1>1, SubSeqProperties
<1>3. b \in Seq(S) /\ Len(b) = 1
  OBVIOUS
<1>4. c \in Seq(S) /\ Len(c) = n - i /\ \A j \in 1 .. n - i : c[j] = s[i + j]
  <2>1. CASE i = n
    BY <1>1, <2>1, SubSeqProperties
  <2>2. CASE i # n
    <3>1. i + 1 \in 1 .. n + 1 /\ n \in i + 1 - 1 .. n
      BY <1>1
    <3> QED
      BY <1>1, <2>2, <3>1, SubSeqProperties
  <2> QED
    BY <2>1, <2>2
<1> HIDE DEF a, b, c, n
<1>5. ab \in Seq(S) /\ Len(ab) = i + 1 /\ \A j \in 1 .. i : ab[j] = a[j]
  <2>1. /\ ab \in Seq(S) /\ Len(ab) = Len(a) + Len(b)
        /\ \A j \in 1 .. Len(a) + Len(b) : ab[j] = IF j <= Len(a) THEN a[j] ELSE b[j - Len(a)]
    BY ONLY <1>2, <1>3, ConcatProperties
  <2> HIDE DEF ab
  <2> QED
    BY <1>1, <1>2, <1>3, <2>1
<1> HIDE DEF ab
<1>6. /\ abc \in Seq(S) /\ Len(abc) = n + 1
      /\ \A j \in 1 .. i : abc[j] = ab[j]
      /\ \A j \in i + 2 .. n + 1 : abc[j] = c[j - (i + 1)]
  <2>1. /\ abc \in Seq(S) /\ Len(abc) = Len(ab) + Len(c)
        /\ \A j \in 1 .. Len(ab) + Len(c) : abc[j] = IF j <= Len(ab) THEN ab[j] ELSE c[j - Len(ab)]
    BY ONLY <1>4, <1>5, ConcatProperties
  <2> HIDE DEF abc
  <2> QED
    BY <1>1, <1>4, <1>5, <2>1
<1>7. abc = Inserted(s, r, i)
  BY DEF Inserted, ab, a, b, c, n
<1> HIDE DEF abc
<1>8. ASSUME NEW j \in 1 .. n PROVE \E k \in 1 .. n + 1 : abc[k] = s[j]
  <2>1. CASE j <= i
    <3>1. j \in 1 .. i /\ j \in 1 .. n + 1
      BY <1>1, <2>1
    <3> QED
      BY <1>2, <1>5, <1>6, <3>1
  <2>2. CASE j > i
    <3>1. j + 1 \in i + 2 .. n + 1 /\ j - i \in 1 .. n - i /\ j + 1 - (i + 1) = j - i /\ i + (j - i) = j
      BY <1>1, <2>2
    <3>2. abc[j + 1] = c[j - i] /\ c[j - i] = s[i + (j - i)]
      BY <1>4, <1>6, <3>1
    <3>3. j + 1 \in 1 .. n + 1
      BY <1>1
    <3> QED
      BY <3>1, <3>2, <3>3
  <2> QED
    BY <1>1, <2>1, <2>2
<1> QED
  BY <1>6, <1>7, <1>8 DEF Elements, n

LEMMA DetStep ==
  ASSUME DetTypeOK, [DetNext]_detVars
  PROVE  /\ DetTypeOK'
         /\ Elements(conns) \subseteq Elements(conns') /\ Elements(queries) \subseteq Elements(queries')
         /\ Len(conns) <= Len(conns') /\ Len(queries) <= Len(queries')
<1>1. conns \in Seq(Flows) /\ queries \in Seq(Queries) /\ Len(conns) \in Nat /\ Len(queries) \in Nat
  BY DEF DetTypeOK
<1>2. ASSUME NEW c \in Flows, Connect(c)
      PROVE  DetTypeOK' /\ Elements(conns) \subseteq Elements(conns') /\ Len(conns) <= Len(conns')
  <2>1. PICK i \in 0 .. Len(conns) : conns' = Inserted(conns, c, i)
    BY <1>2 DEF Connect
  <2>2. conns' \in Seq(Flows) /\ Len(conns') = Len(conns) + 1 /\ Elements(conns) \subseteq Elements(conns')
    BY <1>1, <2>1, InsertedIs
  <2> QED
    BY <1>1, <1>2, <2>2, DetAssumption DEF Connect, DetTypeOK
<1>3. ASSUME NEW q \in Queries, Query(q)
      PROVE  DetTypeOK' /\ Elements(queries) \subseteq Elements(queries') /\ Len(queries) <= Len(queries')
  <2>1. queries' = <<q>> \o queries
    BY <1>3 DEF Query
  <2>2. queries' \in Seq(Queries) /\ Len(queries') = Len(queries) + 1
    BY <1>1, <2>1
  <2>3. \A j \in 1 .. Len(queries) : queries'[j + 1] = queries[j] /\ j + 1 \in 1 .. Len(queries')
    BY <1>1, <2>1, <2>2
  <2>4. Elements(queries) \subseteq Elements(queries')
    BY <2>3 DEF Elements
  <2> QED
    BY <1>1, <1>3, <2>2, <2>4, DetAssumption DEF Query, DetTypeOK
<1>4. CASE UNCHANGED detVars
  BY <1>1, <1>4 DEF detVars, DetTypeOK
<1>5. ASSUME NEW c \in Flows, Connect(c) PROVE queries' = queries
  BY <1>5 DEF Connect
<1>6. ASSUME NEW q \in Queries, Query(q) PROVE conns' = conns
  BY <1>6 DEF Query
<1>7. Len(conns) <= Len(conns) /\ Len(queries) <= Len(queries)
  BY <1>1
<1> QED
  BY <1>2, <1>3, <1>4, <1>5, <1>6, <1>7 DEF DetNext

LEMMA DetInitOK == DetInit => DetTypeOK
  BY DetAssumption DEF DetInit, DetTypeOK

(* Rows are stored within the bound.                                       *)
THEOREM DetectionTypes == DetSpec => []DetTypeOK
  BY DetInitOK, DetStep, PTL DEF DetSpec

-----------------------------------------------------------------------------
LEMMA FanoutsMore ==
  ASSUME NEW rows \in Seq(Flows), NEW more \in Seq(Flows), Elements(rows) \subseteq Elements(more)
  PROVE  Fanouts(rows) \subseteq Fanouts(more)
<1> SUFFICES ASSUME NEW m \in Fanouts(rows)
             PROVE  m \in Macs(more) /\ \E t \in Times(more) : Scans(m, t, Elements(more))
  BY FanoutsAre
<1>1. PICK t \in Times(rows) : Scans(m, t, Elements(rows))
  BY FanoutsAre
<1>2. m \in Macs(rows)
  BY DEF Fanouts
<1>3. m \in Macs(more) /\ t \in Times(more)
  BY <1>2 DEF Macs, Times
<1>4. IPLimit[m] \in Nat /\ PortLimit[m] \in Nat
  BY <1>2, RowsFinite, DetAssumption DEF Macs
<1>5. Span(m, t, Elements(rows)) \subseteq Span(m, t, Elements(more))
  BY DEF Span
<1>6. IsFiniteSet(Elements(more))
  BY RowsFinite
<1>7. IsFiniteSet(Span(m, t, Elements(more)))
  BY <1>6, FS_Subset DEF Span
<1>8. Reaches(m, Span(m, t, Elements(more)))
  BY <1>1, <1>4, <1>5, <1>7, ReachesMore, ScansReach
<1> QED
  BY <1>3, <1>8, ScansReach

(* What rests on a connection or a name that was seen is signalled again.  *)
LEMMA LastingMore ==
  ASSUME NEW cs \in Seq(Flows), NEW more \in Seq(Flows), Elements(cs) \subseteq Elements(more),
         NEW ds, NEW asked, Elements(ds) \subseteq Elements(asked), NEW k \in Lasting
  PROVE  Signals(cs, ds)[k] \subseteq Signals(more, asked)[k]
<1>1. k = "threat_intel" => Signals(cs, ds)[k] \subseteq Signals(more, asked)[k]
  BY DEF Signals
<1>2. k = "fanout" => Signals(cs, ds)[k] \subseteq Signals(more, asked)[k]
  BY FanoutsMore DEF Signals
<1>3. k = "lateral" => Signals(cs, ds)[k] \subseteq Signals(more, asked)[k]
  BY DEF Signals, Laterals
<1>4. k = "first_target" => Signals(cs, ds)[k] \subseteq Signals(more, asked)[k]
  BY DEF Signals
<1>5. k = "geo_anomaly" => Signals(cs, ds)[k] \subseteq Signals(more, asked)[k]
  BY DEF Signals
<1>6. k = "offhours" => Signals(cs, ds)[k] \subseteq Signals(more, asked)[k]
  BY DEF Signals
<1> QED
  BY <1>1, <1>2, <1>3, <1>4, <1>5, <1>6 DEF Lasting

KindNames == {"threat_intel", "ja3_mismatch", "beacon", "baseline_deviation", "fanout", "lateral",
              "dns_anomaly", "dns_tunnel", "first_target", "geo_anomaly", "offhours"}

LEMMA KindsAre ==
  /\ Len(Kinds) = 11 /\ \A i \in 1 .. 11 : Kinds[i] \in KindNames
  /\ \A k \in KindNames : Weight[k] \in Nat
  /\ \A cs, ds : DOMAIN Signals(cs, ds) = KindNames
<1>1. Len(Kinds) = 11 /\ \A i \in 1 .. 11 : Kinds[i] \in KindNames
  BY DEF Kinds, KindNames
<1>2. \A k \in KindNames : Weight[k] \in Nat
  BY DEF Weight, KindNames
<1>3. \A cs, ds : DOMAIN Signals(cs, ds) = KindNames
  BY DEF Signals, KindNames
<1> QED
  BY <1>1, <1>2, <1>3

(* More signals, a higher score.                                           *)
LEMMA ScoreMore ==
  ASSUME NEW sig, NEW more, NEW s, DOMAIN sig = KindNames, \A k \in KeysOf(sig, s) : s \in more[k]
  PROVE  Score(sig, s) \in Int /\ Score(more, s) \in Int /\ Score(sig, s) <= Score(more, s)
<1> DEFINE a == [i \in 1 .. 11 |-> IF s \in sig[Kinds[i]] THEN Weight[Kinds[i]] ELSE 0]
           b == [i \in 1 .. 11 |-> IF s \in more[Kinds[i]] THEN Weight[Kinds[i]] ELSE 0]
<1>1. Score(sig, s) = Total(a) /\ Score(more, s) = Total(b)
  BY KindsAre DEF Score, Column
<1>2. \A i \in 1 .. 11 : Weight[Kinds[i]] \in Nat
  BY KindsAre
<1>3. a \in Seq(Int) /\ b \in Seq(Int) /\ Len(a) = 11 /\ Len(b) = 11
  BY <1>2
<1>4. ASSUME NEW i \in 1 .. 11 PROVE a[i] <= b[i]
  <2>1. s \in sig[Kinds[i]] => s \in more[Kinds[i]]
    BY KindsAre DEF KeysOf
  <2> QED
    BY <1>2, <2>1
<1> HIDE DEF a, b
<1> QED
  BY <1>1, <1>3, <1>4, TotalMonotone

LEMMA AlertStays ==
  ASSUME NEW cs \in Seq(Flows), NEW more \in Seq(Flows), Elements(cs) \subseteq Elements(more),
         NEW ds, NEW asked, Elements(ds) \subseteq Elements(asked),
         NEW e \in Analyze(cs, ds), e.keys \subseteq Lasting
  PROVE  \E f \in Analyze(more, asked) : f.subject = e.subject /\ Rank[f.severity] >= Rank[e.severity]
<1> DEFINE sig == Signals(cs, ds)
           new == Signals(more, asked)
           alert(g, s) == [subject |-> s, severity |-> Level(Score(g, s)), keys |-> KeysOf(g, s),
                           types |-> Headlines(g, s)]
<1>1. PICK s \in Subjects(sig) : Level(Score(sig, s)) # "none" /\ e = alert(sig, s)
  BY DEF Analyze
<1>2. DOMAIN sig = KindNames /\ DOMAIN new = KindNames
  BY KindsAre
<1>3. KeysOf(sig, s) \subseteq Lasting
  BY <1>1
<1>4. \A k \in KeysOf(sig, s) : s \in new[k]
  BY <1>3, LastingMore DEF KeysOf
<1> HIDE DEF sig, new
<1>5. Score(sig, s) \in Int /\ Score(new, s) \in Int /\ Score(sig, s) <= Score(new, s)
  BY <1>2, <1>4, ScoreMore
<1>6. Level(Score(new, s)) # "none" /\ Rank[Level(Score(new, s))] >= Rank[Level(Score(sig, s))]
  BY <1>1, <1>5 DEF Level, Rank
<1>7. s \in Subjects(new)
  <2>1. PICK k \in DOMAIN sig : s \in sig[k]
    BY <1>1 DEF Subjects
  <2>2. k \in KeysOf(sig, s)
    BY <2>1 DEF KeysOf
  <2> QED
    BY <1>2, <1>4, <2>1, <2>2 DEF Subjects
<1>8. alert(new, s) \in Analyze(more, asked)
  BY <1>6, <1>7 DEF Analyze, new
<1> QED
  BY <1>1, <1>6, <1>8

(* Rows within the limit are all read.                                     *)
LEMMA AllRead ==
  ASSUME NEW S, NEW s \in Seq(S), Len(s) <= RowLimit PROVE Read(s) = s
<1>1. SubSeq(s, 1, Len(s)) = s
  OBVIOUS
<1>2. Len(s) \in Nat /\ RowLimit \in Nat /\ Len(s) <= RowLimit
  BY DetAssumption
<1>3. Len(s) < RowLimit \/ RowLimit = Len(s)
  BY ONLY <1>2
<1> QED
  BY <1>1, <1>3 DEF Read

(* An alert outlives what is stored after its evidence, as long as all of  *)
(* it is read.                                                             *)
THEOREM AlertsStay == DetSpec => AlertsLast
<1>1. DetTypeOK /\ [DetNext]_detVars =>
        [Len(conns') <= RowLimit /\ Len(queries') <= RowLimit =>
           \A e \in Analyze(Read(conns), Read(queries)) : e.keys \subseteq Lasting =>
             \E f \in Analyze(Read(conns'), Read(queries')) :
               f.subject = e.subject /\ Rank[f.severity] >= Rank[e.severity]]_detVars
  <2> SUFFICES ASSUME DetTypeOK, [DetNext]_detVars, Len(conns') <= RowLimit, Len(queries') <= RowLimit,
                      NEW e \in Analyze(Read(conns), Read(queries)), e.keys \subseteq Lasting
               PROVE  \E f \in Analyze(Read(conns'), Read(queries')) :
                        f.subject = e.subject /\ Rank[f.severity] >= Rank[e.severity]
    OBVIOUS
  <2>1. /\ conns \in Seq(Flows) /\ conns' \in Seq(Flows)
        /\ queries \in Seq(Queries) /\ queries' \in Seq(Queries)
    BY DetStep DEF DetTypeOK
  <2>2. Len(conns) <= RowLimit /\ Len(queries) <= RowLimit
    BY <2>1, DetStep, DetAssumption
  <2>3. Read(conns) = conns /\ Read(conns') = conns' /\ Read(queries) = queries /\ Read(queries') = queries'
    BY <2>1, <2>2, AllRead
  <2>4. e \in Analyze(conns, queries)
    BY <2>3
  <2>5. \E f \in Analyze(conns', queries') : f.subject = e.subject /\ Rank[f.severity] >= Rank[e.severity]
    BY <2>1, <2>4, DetStep, AlertStays
  <2> QED
    BY <2>3, <2>5
<1> QED
  BY <1>1, DetectionTypes, PTL DEF DetSpec, AlertsLast

-----------------------------------------------------------------------------
(* Calls at one period.  Equal intervals deviate from their mean by        *)
(* nothing; ...                                                            *)
LEMMA Products ==
  ASSUME NEW n \in Nat \ {0}, NEW x \in Nat \ {0}
  PROVE  /\ n * x \in Nat \ {0} /\ 0 < 9 * n * (n * x) * (n * x)
         /\ \A l \in Nat : l <= x => l * n <= n * x
         /\ \A l \in Nat : x <= l => n * x <= l * n
<1>1. \A a, b \in Nat \ {0} : a * b \in Nat \ {0}
  OBVIOUS
<1>2. n * x \in Nat \ {0}
  BY <1>1
<1>3. 9 * n \in Nat \ {0}
  OBVIOUS
<1>4. 9 * n * (n * x) \in Nat \ {0}
  BY <1>1, <1>2, <1>3
<1>5. 9 * n * (n * x) * (n * x) \in Nat \ {0}
  BY <1>1, <1>2, <1>4
<1>6. \A l \in Nat : l <= x => l * n <= n * x
  OBVIOUS
<1>7. \A l \in Nat : x <= l => n * x <= l * n
  OBVIOUS
<1> QED
  BY <1>2, <1>5, <1>6, <1>7

LEMMA EqualIsRegular ==
  ASSUME NEW d \in Seq(Int), Len(d) # 0, NEW x \in MinInterval .. MaxInterval,
         \A i \in 1 .. Len(d) : d[i] = x
  PROVE  Regular(d)
<1> DEFINE n == Len(d)
           sum == Total(d)
           off == [i \in 1 .. n |-> (n * d[i] - sum) * (n * d[i] - sum)]
<1>1. n \in Nat \ {0} /\ x \in Nat \ {0} /\ MinInterval \in Nat /\ MaxInterval \in Nat
      /\ MinInterval <= x /\ x <= MaxInterval
  BY DetAssumption
<1>2. sum = n * x /\ n * x \in Int
  BY <1>1, TotalOfEqual
<1>3. \A i \in 1 .. n : n * d[i] - sum = 0
  BY <1>2
<1>4. off = [i \in 1 .. n |-> 0]
  BY <1>3
<1>5. off \in Seq(Int) /\ Len(off) = n /\ \A i \in 1 .. n : off[i] = 0
  BY <1>1, <1>4
<1>6. Total(off) = 0
  <2> HIDE DEF off
  <2>1. Total(off) = n * 0
    BY <1>5, TotalOfEqual
  <2> QED
    BY <1>1, <2>1
<1>7. Regular(d) <=> /\ n > 0
                     /\ sum >= MinInterval * n /\ sum <= MaxInterval * n
                     /\ 400 * Total(off) < 9 * n * sum * sum
  BY DEF Regular, Column
<1> HIDE DEF n, sum, off
<1>8. n * x >= MinInterval * n /\ n * x <= MaxInterval * n /\ 0 < 9 * n * (n * x) * (n * x)
  BY <1>1, Products
<1> QED
  BY <1>1, <1>2, <1>6, <1>7, <1>8

(* ... connections at the times of a grid, one at each, are sorted by      *)
(* their places on it.                                                     *)
LEMMA GridPlaces ==
  ASSUME NEW D, NEW n \in Nat, IsFiniteSet(D), Cardinality(D) = n, NEW rows,
         NEW x \in Nat \ {0}, NEW t \in Int, TimesOf(D, rows) = Grid(t, x, n)
  PROVE  \E place \in Bijection(D, 0 .. n - 1) :
           /\ \A i \in D : rows[i].at = t + place[i] * x
           /\ \A i, j \in D : rows[i].at < rows[j].at <=> place[i] < place[j]
<1> DEFINE place == [i \in D |-> CHOOSE k \in 0 .. n - 1 : rows[i].at = t + k * x]
<1>1. n \in Nat /\ 0 \in Int /\ n - 1 \in Int
  OBVIOUS
<1>2. \A k, l \in Nat : t + k * x = t + l * x => k = l
  OBVIOUS
<1>3. ASSUME NEW i \in D PROVE place[i] \in 0 .. n - 1 /\ rows[i].at = t + place[i] * x
  <2>1. \E k \in 0 .. n - 1 : rows[i].at = t + k * x
    BY DEF Grid, TimesOf
  <2> QED
    BY <2>1
<1> HIDE DEF place
<1>4. ASSUME NEW k \in 0 .. n - 1 PROVE \E i \in D : place[i] = k
  <2>1. PICK i \in D : rows[i].at = t + k * x
    BY DEF Grid, TimesOf
  <2> QED
    BY <1>1, <1>2, <1>3, <2>1
<1>5. place \in [D -> 0 .. n - 1]
  BY <1>3 DEF place
<1>6. place \in Surjection(D, 0 .. n - 1)
  BY <1>4, <1>5 DEF Surjection
<1>7. IsFiniteSet(0 .. n - 1) /\ Cardinality(0 .. n - 1) = n
  <2>1. IsFiniteSet(0 .. n - 1) /\ Cardinality(0 .. n - 1) = IF 0 > n - 1 THEN 0 ELSE n - 1 - 0 + 1
    BY ONLY <1>1, FS_Interval
  <2> QED
    BY <1>1, <2>1
<1>8. place \in Injection(D, 0 .. n - 1)
  BY <1>6, <1>7, FS_SurjSameCardinalityImpliesInj
<1>9. \A k, l \in Nat : t + k * x < t + l * x <=> k < l
  OBVIOUS
<1>10. ASSUME NEW i \in D, NEW j \in D PROVE rows[i].at < rows[j].at <=> place[i] < place[j]
  BY <1>1, <1>3, <1>9
<1> QED
  BY <1>3, <1>6, <1>8, <1>10 DEF Bijection

LEMMA GridOrder ==
  ASSUME NEW rows \in Seq(Flows), NEW D \in SUBSET (1 .. Len(rows)), NEW n \in Nat,
         NEW place \in Bijection(D, 0 .. n - 1),
         \A i, j \in D : rows[i].at < rows[j].at <=> place[i] < place[j],
         NEW i \in D
  PROVE  Cardinality({j \in D : Earlier(rows, j, i)}) = place[i]
<1> DEFINE m == place[i]
           E == {j \in D : Earlier(rows, j, i)}
           f == [j \in E |-> place[j]]
<1>1. /\ place \in [D -> 0 .. n - 1] /\ \A k, l \in D : place[k] = place[l] => k = l
      /\ \A k \in 0 .. n - 1 : \E j \in D : place[j] = k
  BY DEF Bijection, Injection, Surjection, IsInjective
<1>2. m \in 0 .. n - 1
  BY <1>1
<1>3. ASSUME NEW j \in D PROVE j \in E <=> place[j] < m
  <2>1. place[j] \in Int /\ m \in Int /\ rows[j].at \in Int /\ rows[i].at \in Int
    BY <1>1, DetAssumption
  <2>2. /\ rows[j].at < rows[i].at <=> place[j] < m
        /\ rows[i].at < rows[j].at <=> m < place[j]
    OBVIOUS
  <2>3. rows[j].at = rows[i].at => j = i
    BY <1>1, <2>1, <2>2
  <2>4. ~(j < j)
    BY <2>1
  <2> QED
    BY <2>2, <2>3, <2>4 DEF Earlier
<1> HIDE DEF m, E
<1>4. E \subseteq D
  BY DEF E
<1>5. f \in [E -> 0 .. m - 1]
  BY <1>1, <1>2, <1>3, <1>4
<1>6. f \in Bijection(E, 0 .. m - 1)
  <2>1. \A k, l \in E : f[k] = f[l] => k = l
    BY <1>1, <1>4
  <2>2. ASSUME NEW k \in 0 .. m - 1 PROVE \E j \in E : f[j] = k
    <3>1. k \in 0 .. n - 1 /\ k < m
      BY <1>2
    <3>2. PICK j \in D : place[j] = k
      BY <1>1, <3>1
    <3> QED
      BY <1>3, <3>1, <3>2
  <2> HIDE DEF f
  <2> QED
    BY <1>5, <2>1, <2>2 DEF Bijection, Injection, Surjection, IsInjective
<1>7. IsFiniteSet(0 .. m - 1) /\ Cardinality(0 .. m - 1) = m
  <2>1. m \in Nat /\ 0 \in Int /\ m - 1 \in Int
    BY <1>2
  <2>2. IsFiniteSet(0 .. m - 1) /\ Cardinality(0 .. m - 1) = IF 0 > m - 1 THEN 0 ELSE m - 1 - 0 + 1
    BY ONLY <2>1, FS_Interval
  <2> QED
    BY <2>1, <2>2
<1>8. ExistsBijection(E, 0 .. m - 1)
  BY <1>6 DEF ExistsBijection
<1>9. IsFiniteSet(E)
  <2>1. IsFiniteSet(1 .. Len(rows))
    BY RowsFinite, FS_Interval
  <2> QED
    BY <1>4, <2>1, FS_Subset
<1>10. Cardinality(E) = Cardinality(0 .. m - 1)
  BY <1>7, <1>8, <1>9, FS_Bijection
<1> QED
  BY <1>7, <1>10 DEF E, m

(* So calls at one period are a beacon.                                    *)
LEMMA BeaconFound ==
  ASSUME NEW rows \in Seq(Flows), NEW D \in SUBSET (1 .. Len(rows)), Cardinality(D) >= MinSamples,
         NEW x \in MinInterval .. MaxInterval, NEW t \in Int,
         TimesOf(D, rows) = Grid(t, x, Cardinality(D))
  PROVE  LET at == SortedTimes(rows, D)
         IN Regular([i \in 1 .. Len(at) - 1 |-> at[i + 1] - at[i]])
<1> DEFINE n == Cardinality(D)
           at == SortedTimes(rows, D)
           d == [i \in 1 .. n - 1 |-> at[i + 1] - at[i]]
<1>1. IsFiniteSet(D) /\ n \in Nat
  <2>1. IsFiniteSet(1 .. Len(rows))
    BY RowsFinite, FS_Interval
  <2> QED
    BY <2>1, FS_Subset, FS_CardinalityType
<1>2. n >= 2 /\ MinSamples \in Nat /\ x \in Nat \ {0}
  BY <1>1, DetAssumption
<1>3. TimesOf(D, rows) = Grid(t, x, n) /\ Cardinality(D) = n /\ t \in Int
  OBVIOUS
<1>4. PICK place \in Bijection(D, 0 .. n - 1) :
        /\ \A i \in D : rows[i].at = t + place[i] * x
        /\ \A i, j \in D : rows[i].at < rows[j].at <=> place[i] < place[j]
  <2> HIDE DEF n
  <2> QED
    BY ONLY <1>1, <1>2, <1>3, GridPlaces
<1>5. \A i \in D : Cardinality({j \in D : Earlier(rows, j, i)}) = place[i]
  <2> HIDE DEF n
  <2>1. rows \in Seq(Flows) /\ D \in SUBSET (1 .. Len(rows)) /\ n \in Nat
    BY <1>1
  <2> QED
    BY ONLY <1>4, <2>1, GridOrder
<1>6. ASSUME NEW k \in 1 .. n PROVE at[k] = t + (k - 1) * x
  <2> DEFINE Kth(i) == Cardinality({j \in D : Earlier(rows, j, i)}) = k - 1
  <2>1. k - 1 \in 0 .. n - 1
    BY <1>1
  <2>2. \E i \in D : Kth(i)
    BY <1>4, <1>5, <2>1 DEF Bijection, Surjection
  <2> DEFINE i == CHOOSE i \in D : Kth(i)
  <2>3. i \in D /\ Kth(i)
    BY <2>2
  <2>4. at[k] = rows[i].at
    BY DEF SortedTimes
  <2> HIDE DEF i
  <2>5. place[i] = k - 1
    BY <1>5, <2>3
  <2> QED
    BY <1>4, <2>3, <2>4, <2>5
<1>7. at \in Seq(Int) /\ Len(at) = n
  <2>1. DOMAIN at = 1 .. n /\ at = [k \in 1 .. n |-> at[k]]
    BY DEF SortedTimes
  <2> HIDE DEF at
  <2>2. \A k \in 1 .. n : at[k] \in Int
    BY <1>1, <1>2, <1>6
  <2> QED
    BY <1>1, <2>1, <2>2
<1>8. ASSUME NEW k \in 1 .. n - 1 PROVE d[k] = x
  <2>1. k \in 1 .. n /\ k + 1 \in 1 .. n
    BY <1>1
  <2>2. at[k] = t + (k - 1) * x /\ at[k + 1] = t + (k + 1 - 1) * x
    BY <1>6, <2>1
  <2>3. t + (k + 1 - 1) * x - (t + (k - 1) * x) = x
    BY <1>1, <1>2
  <2> QED
    BY <2>2, <2>3
<1>9. d = [i \in 1 .. Len(at) - 1 |-> at[i + 1] - at[i]]
  BY <1>7
<1> HIDE DEF n, at
<1>10. d = [k \in 1 .. n - 1 |-> x]
  BY <1>8
<1>11. d \in Seq(Int) /\ Len(d) = n - 1 /\ \A k \in 1 .. Len(d) : d[k] = x
  BY <1>1, <1>2, <1>10
<1> HIDE DEF d
<1>12. Regular(d)
  <2>1. Len(d) # 0 /\ x \in MinInterval .. MaxInterval
    BY <1>1, <1>2, <1>11
  <2> QED
    BY ONLY <1>11, <2>1, EqualIsRegular
<1> QED
  BY <1>9, <1>12 DEF at

LEMMA BeaconsAreSeen == ASSUME conns \in Seq(Flows) PROVE BeaconsSeen
<1> SUFFICES ASSUME NEW p \in {<<c.mac, c.dst>> : c \in Elements(conns)},
                    p[2] \notin Private, Cardinality(CallsOf(p, conns)) >= MinSamples,
                    \A i \in CallsOf(p, conns) : ~ IsNTP(conns[i]),
                    NEW x \in MinInterval .. MaxInterval, NEW t \in TimesOf(CallsOf(p, conns), conns),
                    TimesOf(CallsOf(p, conns), conns) = Grid(t, x, Cardinality(CallsOf(p, conns)))
             PROVE  p \in Beacons(conns)
  BY DEF BeaconsSeen
<1> DEFINE D == CallsOf(p, conns)
           mine == {i \in DOMAIN conns : /\ <<conns[i].mac, conns[i].dst>> = p
                                         /\ ~ IsNTP(conns[i]) /\ conns[i].dst \notin Private}
           Steady(rows) == LET at == SortedTimes(conns, rows)
                           IN Regular([i \in 1 .. Len(at) - 1 |-> at[i + 1] - at[i]])
<1>1. D \in SUBSET (1 .. Len(conns)) /\ \A i \in D : <<conns[i].mac, conns[i].dst>> = p
  BY RowsFinite DEF CallsOf
<1>2. mine = D
  <2>1. \A i \in D : conns[i].dst = p[2]
    BY <1>1
  <2> QED
    BY <1>1, <2>1, RowsFinite DEF CallsOf
<1>3. t \in Int
  <2>1. PICK i \in D : t = conns[i].at
    BY DEF TimesOf
  <2> QED
    BY <1>1, <2>1, DetAssumption
<1>4. p \in Beacons(conns) <=> Cardinality(mine) >= MinSamples /\ Steady(mine)
  BY DEF Beacons
<1>5. Steady(D)
  BY <1>1, <1>3, BeaconFound
<1> HIDE DEF mine, Steady
<1> QED
  BY <1>2, <1>4, <1>5

(* A scan is seen wherever it begins, and a period whatever is in between. *)
THEOREM VerdictsAreExact == DetSpec => []VerdictsExact
<1>1. DetTypeOK => VerdictsExact
  <2> SUFFICES ASSUME conns \in Seq(Flows) PROVE ScansSeen
    BY BeaconsAreSeen DEF DetTypeOK, VerdictsExact
  <2> QED
    BY FanoutsAre DEF ScansSeen, Times
<1> QED
  BY <1>1, DetectionTypes, PTL
=============================================================================
