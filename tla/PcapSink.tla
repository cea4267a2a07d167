------------------------------ MODULE PcapSink ------------------------------
(***************************************************************************)
(* pcapSink (internal/gui/pcapsink.go): the frames of one live capture on  *)
(* disk, so that a packet evicted from the ring can still be shown. Two    *)
(* files are kept, the one being written and the one before it. A file is  *)
(* named for the millisecond it was created in; records are appended       *)
(* through a buffer, and an index maps a packet's ordinal to its record.   *)
(*                                                                         *)
(* Every method holds the sink's mutex, so each is one action. Frames      *)
(* weigh one record each, and an offset is a number of records.            *)
(***************************************************************************)
EXTENDS Naturals, Sequences, FiniteSets

CONSTANTS
  MaxRecords,   \* records that fit in a file of maxBytes
  MaxOffered,    \* bound: frames offered to the sink
  MaxMillis     \* bound: the clock

ASSUME SinkAssumption ==
  /\ MaxRecords \in Nat \ {0}
  /\ MaxOffered \in Nat
  /\ MaxMillis \in Nat \ {0}

VARIABLES
  faults,   \* what the file system will refuse, decided at the start
  millis,      \* time.Now in milliseconds; 0 is no time and no file
  sink,     \* the pcapSink and its files, a record
  offered,  \* frames offered to Write so far: ordinals 1 .. offered
  served    \* what the last Read was asked and returned, 0 for nothing

sinkVars == <<faults, millis, sink, offered, served>>

Paths == 1 .. MaxMillis
NoPath == 0
NoIndex == <<>>
FaultKinds == {"create", "write"}

(* disk        what is in each existing file                               *)
(* unflushed   the records in the buffer of the current file               *)
(* writer      "ok"; "broken" once the buffer has met a write error, which *)
(*             it then returns for ever; "nil" once Write has seen it      *)
(* The other fields are the source's.                                      *)

(* openNew: the file is created, or truncated when it exists already. *)
Opened(s) ==
  [disk |-> [p \in DOMAIN s.disk \cup {millis} |-> IF p = millis THEN <<>> ELSE s.disk[p]],
   cur |-> millis, curIndex |-> NoIndex, curOff |-> 0, unflushed |-> <<>>, writer |-> "ok",
   prev |-> s.prev, prevIndex |-> s.prevIndex, closed |-> s.closed]

(* The environment's part: a file of maxBytes takes longer than a          *)
(* millisecond to fill, so that a new file's name is not an existing one's. *)
NameIsFree(s) == millis \notin {s.cur, s.prev}

Unopened ==
  [disk |-> <<>>, cur |-> NoPath, curIndex |-> NoIndex, curOff |-> 0,
   unflushed |-> <<>>, writer |-> "nil", prev |-> NoPath, prevIndex |-> NoIndex,
   closed |-> FALSE]

(* newPcapSink; when it fails the session goes on without a sink. *)
SinkInit ==
  /\ faults \in SUBSET FaultKinds
  /\ millis = 1
  /\ sink = Opened(Unopened)
  /\ offered = 0
  /\ served = [no |-> 0, got |-> 0]

-----------------------------------------------------------------------------
(* The buffer reaching the disk: wholly, or, when a write fails, a prefix. *)
WithPrefix(s, n) ==
  [s EXCEPT !.disk[s.cur] = @ \o SubSeq(s.unflushed, 1, n),
            !.unflushed = SubSeq(@, n + 1, Len(@))]

WholeBuffer(s) == WithPrefix(s, Len(s.unflushed))

BrokenWrites(s, writer) ==
  IF "write" \in faults /\ s.unflushed # <<>>
    THEN {[WithPrefix(s, n) EXCEPT !.writer = writer] : n \in 0 .. Len(s.unflushed) - 1}
    ELSE {}

(* Flush, whose error every caller ignores. *)
Flushes(s) ==
  IF s.writer = "ok" THEN {WholeBuffer(s)} \cup BrokenWrites(s, "broken") ELSE {s}

(* Mutant: the index of the previous file is forgotten. *)
ForgetsIndex(s) ==
  [s EXCEPT !.disk = [p \in DOMAIN s.disk \ {s.prev} |-> s.disk[p]],
            !.prev = s.cur, !.prevIndex = NoIndex]

(* rotate, after the flush: the file before the previous one is removed,   *)
(* and the current one becomes the previous one.                           *)
Aged(s) ==
  [s EXCEPT !.disk = [p \in DOMAIN s.disk \ {s.prev} |-> s.disk[p]],
            !.prev = s.cur, !.prevIndex = s.curIndex]

(* ... and a new one is opened. When that fails the sink stops writing.    *)
Rotations(s) ==
  UNION {{Opened(Aged(f))} \cup (IF "create" \in faults
                                   THEN {[Aged(f) EXCEPT !.writer = "nil"]} ELSE {})
         : f \in Flushes(s)}

(* Mutant: the index is off by one record. *)
IndexedLate(s, no) ==
  [s EXCEPT !.unflushed = Append(@, no), !.curOff = @ + 1,
            !.curIndex = [n \in DOMAIN @ \cup {no} |-> IF n = no THEN s.curOff + 1 ELSE @[n]]]

(* A record in the buffer, and its place in the index. *)
Indexed(s, no) ==
  [s EXCEPT !.unflushed = Append(@, no), !.curOff = @ + 1,
            !.curIndex = [n \in DOMAIN @ \cup {no} |-> IF n = no THEN s.curOff ELSE @[n]]]

(* Appending a record: it stays in the buffer, or pushes out what was      *)
(* there. An error, old or new, ends all writing.                          *)
Appends(s, no) ==
  CASE s.writer = "nil"    -> {s}
    [] s.writer = "broken" -> {[s EXCEPT !.writer = "nil"]}
    [] OTHER -> {Indexed(s, no), Indexed(WholeBuffer(s), no)} \cup BrokenWrites(s, "nil")

(* Mutant: the record that does not fit is written all the same. *)
FullTooLate(s) == s.curOff > MaxRecords

(* The next record would take the file beyond maxBytes. *)
Full(s) == s.curOff + 1 > MaxRecords

WritePacket ==
  /\ offered < MaxOffered
  /\ offered' = offered + 1
  /\ LET writing == ~sink.closed /\ sink.writer # "nil"
         before == IF writing /\ Full(sink) THEN Rotations(sink) ELSE {sink}
     IN /\ writing /\ Full(sink) => NameIsFree(sink)
        /\ IF writing THEN \E s \in before : sink' \in Appends(s, offered + 1)
                      ELSE sink' = sink
  /\ UNCHANGED <<faults, millis, served>>

(* readRecord: whatever the file holds at that offset, if it exists and is *)
(* long enough.                                                            *)
RecordAt(s, path, off) ==
  IF path \in DOMAIN s.disk /\ off < Len(s.disk[path]) THEN s.disk[path][off + 1] ELSE 0

Answer(s, no) ==
  IF s.closed THEN 0
  ELSE IF no \in DOMAIN s.curIndex THEN RecordAt(s, s.cur, s.curIndex[no])
  ELSE IF no \in DOMAIN s.prevIndex THEN RecordAt(s, s.prev, s.prevIndex[no])
  ELSE 0

(* Read: a packet of the current file is flushed first. *)
ReadPacket(no) ==
  /\ \E s \in IF ~sink.closed /\ no \in DOMAIN sink.curIndex THEN Flushes(sink) ELSE {sink} :
       sink' = s /\ served' = [no |-> no, got |-> Answer(s, no)]
  /\ UNCHANGED <<faults, millis, offered>>

CloseSink ==
  /\ ~sink.closed
  /\ \E s \in Flushes(sink) : sink' = [s EXCEPT !.closed = TRUE]
  /\ UNCHANGED <<faults, millis, offered, served>>

TickMillis ==
  /\ millis < MaxMillis
  /\ millis' = millis + 1
  /\ UNCHANGED <<faults, sink, offered, served>>

SinkNext == WritePacket \/ (\E no \in 1 .. offered : ReadPacket(no)) \/ CloseSink \/ TickMillis

SinkSpec == SinkInit /\ [][SinkNext]_sinkVars
-----------------------------------------------------------------------------
(* A pcapSink; its maps take ordinals to offsets within a file.            *)
IsSink(s) ==
  /\ s = [disk |-> s.disk, cur |-> s.cur, curIndex |-> s.curIndex, curOff |-> s.curOff,
          unflushed |-> s.unflushed, writer |-> s.writer, prev |-> s.prev,
          prevIndex |-> s.prevIndex, closed |-> s.closed]
  /\ s.disk \in [DOMAIN s.disk -> Seq(Nat)] /\ DOMAIN s.disk \subseteq Paths
  /\ s.cur \in Paths /\ s.prev \in Paths \cup {NoPath}
  /\ \A index \in {s.curIndex, s.prevIndex} :
       index \in [DOMAIN index -> Nat] /\ DOMAIN index \subseteq Nat
  /\ s.curOff \in 0 .. MaxRecords /\ s.unflushed \in Seq(Nat)
  /\ s.writer \in {"ok", "broken", "nil"} /\ s.closed \in BOOLEAN

SinkTypeOK ==
  /\ faults \subseteq FaultKinds
  /\ millis \in Paths
  /\ offered \in 0 .. MaxOffered
  /\ IsSink(sink)
  /\ served \in [no : 0 .. offered, got : Nat]

(* "Readable back byte-for-byte by its packet number": whatever the file   *)
(* system refuses, Read answers with the packet asked for or with none.    *)
RightPacketOrNone == served.got \in {0, served.no}

(* What a Read would answer if its flush succeeds. *)
StillReadable(s, no) ==
  Answer(IF s.writer = "ok" THEN WholeBuffer(s) ELSE s, no) = no

(* "A rotation does not create a cliff where the packets just before it    *)
(* lose their detail": on a disk that refuses nothing, all the frames of    *)
(* the current file and of a whole file before it can be read.             *)
NoCliff ==
  faults = {} /\ ~sink.closed =>
    \A no \in 1 .. offered : offered - no < MaxRecords + sink.curOff => StillReadable(sink, no)

(* "Bounded by maxBytes so /tmp cannot fill without limit": a sink has at  *)
(* most two files, none of them beyond the limit.                          *)
DiskBounded ==
  /\ Cardinality(DOMAIN sink.disk) <= 2
  /\ \A p \in DOMAIN sink.disk : Len(sink.disk[p]) <= MaxRecords

(* Evicted packets stay readable for as long as the disk's share allows    *)
(* (pcapsink.go Write, Read).                                              *)
SinkKeepsLatest == NoCliff /\ DiskBounded
=============================================================================
