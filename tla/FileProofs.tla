------------------------------ MODULE FileProofs ------------------------------
(***************************************************************************)
(* What the files of captures hold. Of the two files a live capture keeps, *)
(* what can be read back, for files of every size and every mixture of     *)
(* frames, reads, faults and rotations; and of capture files as they are   *)
(* exchanged, that what is read is what was meant, for any blocks and      *)
(* wherever a file ends, and that a merge copies every packet.             *)
(***************************************************************************)
EXTENDS PcapSink, PcapMerge, SequenceTheorems, FiniteSetTheorems, NaturalsInduction,
        WellFoundedInduction, TLAPS

-----------------------------------------------------------------------------
(* The files of a live capture.                                            *)

(* What was appended to the current file, wherever it is by now.           *)
Content(s) == s.disk[s.cur] \o s.unflushed

(* The current index describes the current file followed by the buffer,    *)
(* whatever part of it has reached the disk; ...                           *)
CurSound(s) ==
  /\ s.cur \in DOMAIN s.disk
  /\ Len(Content(s)) = s.curOff
  /\ \A no \in DOMAIN s.curIndex :
       s.curIndex[no] < s.curOff /\ Content(s)[s.curIndex[no] + 1] = no

(* ... the previous one the file before it, of which the end may be lost.  *)
PrevSound(s) ==
  \A no \in DOMAIN s.prevIndex :
    s.prev \in DOMAIN s.disk /\ s.prevIndex[no] < Len(s.disk[s.prev]) =>
      s.disk[s.prev][s.prevIndex[no] + 1] = no

(* There are only these files, and no more is written to the previous one. *)
FilesBounded(s) ==
  /\ DOMAIN s.disk \subseteq {s.cur, s.prev}
  /\ \A p \in DOMAIN s.disk : Len(s.disk[p]) <= MaxRecords
  /\ s.writer # "nil" => s.prev # s.cur

Sound(s) == IsSink(s) /\ CurSound(s) /\ PrevSound(s) /\ FilesBounded(s)

(* The last frames of n are in the current file, the MaxRecords before     *)
(* them in the previous one, which is whole.                               *)
Unbroken(s, n) ==
  /\ s.writer = "ok"
  /\ \A no \in 1 .. n :
       /\ n - no < s.curOff => no \in DOMAIN s.curIndex
       /\ s.curOff <= n - no /\ n - no < s.curOff + MaxRecords =>
            /\ no \in DOMAIN s.prevIndex /\ s.prev \in DOMAIN s.disk
            /\ s.prevIndex[no] < Len(s.disk[s.prev])

(* f is s with its buffer, or part of it, on disk.                         *)
Flushed(f, s) ==
  /\ f.cur = s.cur /\ f.prev = s.prev /\ f.curIndex = s.curIndex /\ f.curOff = s.curOff
  /\ f.prevIndex = s.prevIndex /\ f.closed = s.closed
  /\ f.writer = "nil" <=> s.writer = "nil"
  /\ Content(f) = Content(s)
  /\ DOMAIN f.disk = DOMAIN s.disk
  /\ \A p \in DOMAIN s.disk \ {s.cur} : f.disk[p] = s.disk[p]

SinkInv ==
  /\ SinkTypeOK /\ Sound(sink) /\ RightPacketOrNone
  /\ faults = {} /\ ~sink.closed => Unbroken(sink, offered)
-----------------------------------------------------------------------------
LEMMA Associative == \A a, b, c \in Seq(Nat) : (a \o b) \o c = a \o (b \o c)
  BY ConcatAssociative

(* A buffer is what has been written of it followed by what has not.       *)
LEMMA SplitSeq ==
  ASSUME NEW u \in Seq(Nat), NEW n \in 0 .. Len(u)
  PROVE  /\ SubSeq(u, 1, n) \in Seq(Nat)
         /\ SubSeq(u, n + 1, Len(u)) \in Seq(Nat)
         /\ SubSeq(u, 1, n) \o SubSeq(u, n + 1, Len(u)) = u
<1>1. Len(u) \in Nat /\ n \in Nat /\ \A i \in 1 .. Len(u) : u[i] \in Nat
  BY LenProperties, ElementOfSeq
<1>2. SubSeq(u, 1, n) \in Seq(Nat)
  <2>1. \A i \in 1 .. n : u[i] \in Nat
    BY <1>1
  <2> QED
    BY <1>1, <2>1, SubSeqProperties
<1>3. SubSeq(u, n + 1, Len(u)) \in Seq(Nat)
  <2>1. \A i \in n + 1 .. Len(u) : u[i] \in Nat
    BY <1>1
  <2> QED
    BY <1>1, <2>1, SubSeqProperties
<1>4. SubSeq(u, 1, n) \o SubSeq(u, n + 1, Len(u)) = SubSeq(u, 1, Len(u))
  <2>1. 1 \in 1 .. Len(u) + 1 /\ n \in 1 - 1 .. Len(u) /\ Len(u) \in n .. Len(u)
    BY <1>1
  <2> QED
    BY <2>1, ConcatAdjacentSubSeq
<1> QED
  BY <1>2, <1>3, <1>4, SubSeqFull

(* A buffer that reaches the disk in part leaves the content alone, and    *)
(* touches no other file.                                                  *)
LEMMA PrefixSound ==
  ASSUME NEW s, Sound(s), s.writer = "ok", NEW n \in 0 .. Len(s.unflushed)
  PROVE  /\ Sound(WithPrefix(s, n))
         /\ Content(WithPrefix(s, n)) = Content(s)
         /\ \A p \in DOMAIN s.disk \ {s.cur} : WithPrefix(s, n).disk[p] = s.disk[p]
         /\ DOMAIN WithPrefix(s, n).disk = DOMAIN s.disk
         /\ WithPrefix(s, n) = [s EXCEPT !.disk = WithPrefix(s, n).disk,
                                         !.unflushed = WithPrefix(s, n).unflushed]
         /\ n = Len(s.unflushed) => /\ WithPrefix(s, n).disk[s.cur] = Content(s)
                                    /\ WithPrefix(s, n).unflushed = <<>>
<1> DEFINE t == WithPrefix(s, n)
           u == s.unflushed
           d == s.disk[s.cur]
           head == SubSeq(u, 1, n)
           rest == SubSeq(u, n + 1, Len(u))
<1>1. /\ IsSink(s) /\ s.cur \in DOMAIN s.disk /\ s.prev # s.cur
      /\ u \in Seq(Nat) /\ d \in Seq(Nat) /\ Len(u) \in Nat /\ n \in Nat
  BY LenProperties DEF Sound, CurSound, FilesBounded, IsSink
<1>2. t = [s EXCEPT !.disk = [s.disk EXCEPT ![s.cur] = d \o head], !.unflushed = rest]
  BY <1>1 DEF WithPrefix, IsSink
<1>3. head \in Seq(Nat) /\ rest \in Seq(Nat) /\ head \o rest = u
  BY <1>1, SplitSeq
<1>4. n = Len(u) => d \o head = Content(s) /\ rest = <<>>
  <2>1. n = Len(u) => head = u
    BY <1>1, SubSeqFull
  <2>2. n = Len(u) => rest = <<>>
    BY <1>1, SubSeqEmpty
  <2> QED
    BY <2>1, <2>2 DEF Content
<1>5. Content(s) = d \o u
  BY DEF Content
<1> HIDE DEF head, rest, d, u
<1>6. /\ t.disk = [s.disk EXCEPT ![s.cur] = d \o head] /\ t.unflushed = rest
      /\ t.cur = s.cur /\ t.prev = s.prev /\ t.curIndex = s.curIndex /\ t.curOff = s.curOff
      /\ t.prevIndex = s.prevIndex /\ t.writer = s.writer /\ t.closed = s.closed
  BY <1>1, <1>2 DEF IsSink
<1>7. d \o head \in Seq(Nat) /\ (d \o head) \o rest = d \o u
  <2>1. d \o head \in Seq(Nat)
    BY <1>1, <1>3, ConcatProperties
  <2>2. (d \o head) \o rest = d \o (head \o rest)
    BY <1>1, <1>3, Associative, Zenon
  <2> QED
    BY <1>3, <2>1, <2>2
<1>8. t.disk[s.cur] = d \o head /\ \A p \in DOMAIN s.disk \ {s.cur} : t.disk[p] = s.disk[p]
  BY <1>1, <1>6 DEF IsSink
<1>9. Content(t) = Content(s)
  BY <1>6, <1>7, <1>8, <1>5 DEF Content
<1>10. IsSink(t)
  <2>1. t.disk \in [DOMAIN t.disk -> Seq(Nat)] /\ DOMAIN t.disk = DOMAIN s.disk
    BY <1>1, <1>6, <1>7 DEF IsSink
  <2>2. t = [disk |-> t.disk, cur |-> t.cur, curIndex |-> t.curIndex, curOff |-> t.curOff,
             unflushed |-> t.unflushed, writer |-> t.writer, prev |-> t.prev,
             prevIndex |-> t.prevIndex, closed |-> t.closed]
    BY <1>1, <1>2 DEF IsSink
  <2> QED
    BY <1>1, <1>3, <1>6, <2>1, <2>2 DEF IsSink
<1>11. Len(d \o head) <= s.curOff
  <2>1. Len(d \o head) + Len(rest) = Len(Content(s))
    BY <1>3, <1>7, <1>5, ConcatProperties
  <2>2. Len(rest) \in Nat /\ Len(d \o head) \in Nat /\ Len(Content(s)) = s.curOff
    BY <1>3, <1>7, LenProperties DEF Sound, CurSound
  <2> QED
    BY <2>1, <2>2
<1>12. CurSound(t) /\ PrevSound(t) /\ FilesBounded(t)
  <2>1. s.curOff <= MaxRecords /\ Len(d \o head) <= MaxRecords
    BY <1>1, <1>7, <1>11, LenProperties, SinkAssumption DEF IsSink
  <2> QED
    BY <1>1, <1>6, <1>8, <1>9, <2>1 DEF Sound, CurSound, PrevSound, FilesBounded, IsSink
<1>13. t = [s EXCEPT !.disk = t.disk, !.unflushed = t.unflushed]
  BY <1>1, <1>2, <1>6
<1>14. DOMAIN t.disk = DOMAIN s.disk
  BY <1>1, <1>6 DEF IsSink
<1> HIDE DEF t
<1> QED
  BY <1>6, <1>8, <1>9, <1>10, <1>12, <1>4, <1>13, <1>14 DEF Sound, t, u

(* What the writer is does not matter to what the files hold, unless it    *)
(* may write again.                                                        *)
LEMMA WriterSound ==
  ASSUME NEW s, Sound(s), NEW w \in {"ok", "broken", "nil"}, w # "nil" => s.writer # "nil"
  PROVE  /\ Sound([s EXCEPT !.writer = w])
         /\ [s EXCEPT !.writer = w].disk = s.disk
         /\ Content([s EXCEPT !.writer = w]) = Content(s)
<1> DEFINE t == [s EXCEPT !.writer = w]
<1>1. /\ t.disk = s.disk /\ t.unflushed = s.unflushed /\ t.writer = w
      /\ t.cur = s.cur /\ t.prev = s.prev /\ t.curIndex = s.curIndex /\ t.curOff = s.curOff
      /\ t.prevIndex = s.prevIndex /\ t.closed = s.closed
  BY DEF Sound, IsSink
<1>2. IsSink(t)
  <2>1. t = [disk |-> t.disk, cur |-> t.cur, curIndex |-> t.curIndex, curOff |-> t.curOff,
             unflushed |-> t.unflushed, writer |-> t.writer, prev |-> t.prev,
             prevIndex |-> t.prevIndex, closed |-> t.closed]
    <3>1. s = [disk |-> s.disk, cur |-> s.cur, curIndex |-> s.curIndex, curOff |-> s.curOff,
               unflushed |-> s.unflushed, writer |-> s.writer, prev |-> s.prev,
               prevIndex |-> s.prevIndex, closed |-> s.closed]
      BY DEF Sound, IsSink
    <3>2. t = [disk |-> s.disk, cur |-> s.cur, curIndex |-> s.curIndex, curOff |-> s.curOff,
               unflushed |-> s.unflushed, writer |-> w, prev |-> s.prev,
               prevIndex |-> s.prevIndex, closed |-> s.closed]
      BY <3>1
    <3> HIDE DEF t
    <3> QED
      BY <3>2
  <2> HIDE DEF t
  <2> QED
    BY <1>1, <2>1 DEF Sound, IsSink
<1> HIDE DEF t
<1>3. CurSound(t) /\ PrevSound(t) /\ FilesBounded(t) /\ Content(t) = Content(s)
  BY <1>1 DEF Sound, CurSound, PrevSound, FilesBounded, Content
<1> QED
  BY <1>1, <1>2, <1>3 DEF Sound, t

(* A write that fails leaves a prefix of the buffer, and the sink sound.   *)
LEMMA BrokenSound ==
  ASSUME NEW s, Sound(s), s.writer = "ok", NEW w \in {"broken", "nil"},
         NEW f \in BrokenWrites(s, w)
  PROVE  /\ Sound(f) /\ f.writer = w /\ faults # {} /\ f.closed = s.closed
         /\ w = "broken" => Flushed(f, s)
<1>1. faults # {}
  BY DEF BrokenWrites
<1>2. PICK n \in 0 .. Len(s.unflushed) - 1 : f = [WithPrefix(s, n) EXCEPT !.writer = w]
  BY DEF BrokenWrites
<1>3. Len(s.unflushed) \in Nat
  BY LenProperties DEF Sound, IsSink
<1>4. n \in 0 .. Len(s.unflushed)
  BY <1>2, <1>3
<1> DEFINE t == WithPrefix(s, n)
<1>5. /\ Sound(t) /\ Content(t) = Content(s) /\ DOMAIN t.disk = DOMAIN s.disk
      /\ \A p \in DOMAIN s.disk \ {s.cur} : t.disk[p] = s.disk[p]
      /\ t = [s EXCEPT !.disk = t.disk, !.unflushed = t.unflushed]
  BY <1>4, PrefixSound
<1> HIDE DEF t
<1>6. /\ t.cur = s.cur /\ t.prev = s.prev /\ t.curIndex = s.curIndex /\ t.curOff = s.curOff
      /\ t.prevIndex = s.prevIndex /\ t.closed = s.closed /\ t.writer = "ok"
  BY <1>5 DEF Sound, IsSink
<1>7. f = [t EXCEPT !.writer = w]
  BY <1>2 DEF t
<1>8. Sound(f) /\ f.disk = t.disk /\ Content(f) = Content(t)
  BY <1>5, <1>6, <1>7, WriterSound, ZenonT(40)
<1>9. /\ f.cur = t.cur /\ f.prev = t.prev /\ f.curIndex = t.curIndex /\ f.curOff = t.curOff
      /\ f.prevIndex = t.prevIndex /\ f.closed = t.closed /\ f.writer = w
  BY <1>5, <1>7 DEF Sound, IsSink
<1> QED
  BY <1>1, <1>5, <1>6, <1>8, <1>9 DEF Flushed

LEMMA FlushesSound ==
  ASSUME NEW s, Sound(s), NEW f \in Flushes(s)
  PROVE  /\ Sound(f) /\ Flushed(f, s)
         /\ faults = {} => f.writer = s.writer
         /\ faults = {} /\ s.writer = "ok" => f.disk[s.cur] = Content(s)
<1>1. CASE s.writer # "ok"
  BY <1>1 DEF Flushes, Flushed
<1>2. CASE s.writer = "ok" /\ f = WholeBuffer(s)
  <2>1. Len(s.unflushed) \in 0 .. Len(s.unflushed)
    BY LenProperties DEF Sound, IsSink
  <2> DEFINE t == WithPrefix(s, Len(s.unflushed))
  <2>2. /\ Sound(t) /\ Content(t) = Content(s) /\ DOMAIN t.disk = DOMAIN s.disk
        /\ \A p \in DOMAIN s.disk \ {s.cur} : t.disk[p] = s.disk[p]
        /\ t = [s EXCEPT !.disk = t.disk, !.unflushed = t.unflushed]
        /\ t.disk[s.cur] = Content(s)
    BY <1>2, <2>1, PrefixSound
  <2> HIDE DEF t
  <2>3. /\ t.cur = s.cur /\ t.prev = s.prev /\ t.curIndex = s.curIndex /\ t.curOff = s.curOff
        /\ t.prevIndex = s.prevIndex /\ t.closed = s.closed /\ t.writer = s.writer
    BY <2>2 DEF Sound, IsSink
  <2>4. f = t
    BY <1>2 DEF t, WholeBuffer
  <2> QED
    BY <2>2, <2>3, <2>4 DEF Flushed
<1>3. CASE s.writer = "ok" /\ f \in BrokenWrites(s, "broken")
  BY <1>3, BrokenSound
<1> QED
  BY <1>1, <1>2, <1>3 DEF Flushes

(* What lies in the file of the current index: a record of the content is  *)
(* in the file when it is within its length.                               *)
LEMMA CurOnDisk ==
  ASSUME NEW s, Sound(s), NEW no \in DOMAIN s.curIndex,
         s.curIndex[no] < Len(s.disk[s.cur])
  PROVE  s.disk[s.cur][s.curIndex[no] + 1] = no
<1> DEFINE d == s.disk[s.cur]
           k == s.curIndex[no]
<1>1. d \in Seq(Nat) /\ s.unflushed \in Seq(Nat) /\ k \in Nat /\ Len(d) \in Nat
  BY LenProperties DEF Sound, CurSound, IsSink
<1>2. (d \o s.unflushed)[k + 1] = no /\ k < Len(d)
  BY DEF Sound, CurSound, Content
<1> HIDE DEF d, k
<1>3. k + 1 \in 1 .. Len(d) + Len(s.unflushed) /\ k + 1 <= Len(d)
  BY <1>1, <1>2, LenProperties
<1>4. (d \o s.unflushed)[k + 1] = d[k + 1]
  BY <1>1, <1>3, ConcatProperties
<1> QED
  BY <1>2, <1>4 DEF d, k

(* The current file becomes the previous one, of which what reached the    *)
(* disk is kept.                                                           *)
LEMMA AgedSound ==
  ASSUME NEW f, Sound(f), f.writer # "nil"
  PROVE  /\ Sound([Aged(f) EXCEPT !.writer = "nil"])
         /\ [Aged(f) EXCEPT !.writer = "nil"].closed = f.closed
         /\ [Aged(f) EXCEPT !.writer = "nil"].writer = "nil"
         /\ Aged(f) = [f EXCEPT !.disk = Aged(f).disk, !.prev = f.cur, !.prevIndex = f.curIndex]
         /\ DOMAIN Aged(f).disk = {f.cur} /\ Aged(f).disk[f.cur] = f.disk[f.cur]
<1> DEFINE a == Aged(f)
           g == [a EXCEPT !.writer = "nil"]
           disk == [p \in DOMAIN f.disk \ {f.prev} |-> f.disk[p]]
<1>1. IsSink(f) /\ f.cur \in DOMAIN f.disk /\ f.prev # f.cur /\ DOMAIN f.disk \subseteq {f.cur, f.prev}
  BY DEF Sound, CurSound, FilesBounded
<1>2. DOMAIN disk = {f.cur} /\ disk[f.cur] = f.disk[f.cur]
  BY <1>1
<1>3. disk \in [DOMAIN disk -> Seq(Nat)] /\ f.cur \in Paths
  BY <1>1, <1>2 DEF IsSink
<1>4. a = [f EXCEPT !.disk = disk, !.prev = f.cur, !.prevIndex = f.curIndex]
  BY DEF Aged
<1>5. f = [disk |-> f.disk, cur |-> f.cur, curIndex |-> f.curIndex, curOff |-> f.curOff,
           unflushed |-> f.unflushed, writer |-> f.writer, prev |-> f.prev,
           prevIndex |-> f.prevIndex, closed |-> f.closed]
  BY <1>1 DEF IsSink
<1> HIDE DEF a, disk
<1>6. a = [disk |-> disk, cur |-> f.cur, curIndex |-> f.curIndex, curOff |-> f.curOff,
            unflushed |-> f.unflushed, writer |-> f.writer, prev |-> f.cur,
            prevIndex |-> f.curIndex, closed |-> f.closed]
  BY <1>4, <1>5
<1>7. g = [disk |-> disk, cur |-> f.cur, curIndex |-> f.curIndex, curOff |-> f.curOff,
           unflushed |-> f.unflushed, writer |-> "nil", prev |-> f.cur,
           prevIndex |-> f.curIndex, closed |-> f.closed]
  BY <1>6
<1>8. a.disk = disk
  BY <1>6
<1> HIDE DEF g
<1>9. IsSink(g)
  <2>1. /\ f.curIndex \in [DOMAIN f.curIndex -> Nat] /\ DOMAIN f.curIndex \subseteq Nat
        /\ f.curOff \in 0 .. MaxRecords /\ f.unflushed \in Seq(Nat) /\ f.closed \in BOOLEAN
    BY <1>1 DEF IsSink
  <2>2. DOMAIN disk \subseteq Paths
    BY <1>2, <1>3
  <2> QED
    BY <1>3, <1>7, <2>1, <2>2 DEF IsSink
<1>10. CurSound(g)
  BY <1>2, <1>7 DEF Sound, CurSound, Content
<1>11. PrevSound(g)
  BY <1>2, <1>7, CurOnDisk DEF PrevSound
<1>12. FilesBounded(g)
  BY <1>1, <1>2, <1>7 DEF Sound, FilesBounded
<1> QED
  BY <1>2, <1>4, <1>7, <1>8, <1>9, <1>10, <1>11, <1>12 DEF Sound, a, g

(* A file with a name of its own opens empty beside the previous one.      *)
LEMMA OpenedSound ==
  ASSUME NEW f, Sound(f), f.writer # "nil", millis \in Paths, millis # f.cur
  PROVE  LET g == Opened(Aged(f))
         IN /\ Sound(g) /\ g.writer = "ok" /\ g.closed = f.closed /\ g.curOff = 0
            /\ g.prev = f.cur /\ g.prevIndex = f.curIndex
            /\ g.prev \in DOMAIN g.disk /\ g.disk[g.prev] = f.disk[f.cur]
<1> DEFINE a == Aged(f)
           g == Opened(a)
           disk == [p \in DOMAIN a.disk \cup {millis} |-> IF p = millis THEN <<>> ELSE a.disk[p]]
<1>1. IsSink(f)
  BY DEF Sound
<1>2. /\ a = [f EXCEPT !.disk = a.disk, !.prev = f.cur, !.prevIndex = f.curIndex]
      /\ DOMAIN a.disk = {f.cur} /\ a.disk[f.cur] = f.disk[f.cur]
  BY AgedSound
<1>3. f = [disk |-> f.disk, cur |-> f.cur, curIndex |-> f.curIndex, curOff |-> f.curOff,
           unflushed |-> f.unflushed, writer |-> f.writer, prev |-> f.prev,
           prevIndex |-> f.prevIndex, closed |-> f.closed]
  BY <1>1 DEF IsSink
<1> HIDE DEF a
<1>4. /\ DOMAIN disk = {f.cur, millis} /\ disk[millis] = <<>>
      /\ disk[f.cur] = f.disk[f.cur]
  BY <1>2
<1>5. a.prev = f.cur /\ a.prevIndex = f.curIndex /\ a.closed = f.closed
  BY <1>2, <1>3
<1>6. g = [disk |-> disk, cur |-> millis, curIndex |-> NoIndex, curOff |-> 0,
           unflushed |-> <<>>, writer |-> "ok", prev |-> f.cur,
           prevIndex |-> f.curIndex, closed |-> f.closed]
  BY <1>5 DEF Opened
<1> HIDE DEF disk, g
<1>7. /\ disk \in [DOMAIN disk -> Seq(Nat)] /\ DOMAIN disk \subseteq Paths
      /\ f.cur \in DOMAIN f.disk /\ f.cur \in Paths
  <2>1. f.cur \in DOMAIN f.disk /\ f.cur \in Paths /\ f.disk[f.cur] \in Seq(Nat)
    BY <1>1 DEF Sound, CurSound, IsSink
  <2>2. <<>> \in Seq(Nat)
    BY EmptySeq
  <2>3. disk = [p \in DOMAIN disk |-> disk[p]]
    BY DEF disk
  <2> QED
    BY <1>4, <2>1, <2>2, <2>3
<1>8. IsSink(g)
  <2>1. DOMAIN NoIndex = {} /\ NoIndex \in [DOMAIN NoIndex -> Nat]
    BY DEF NoIndex
  <2>2. 0 \in 0 .. MaxRecords /\ <<>> \in Seq(Nat)
    BY EmptySeq, SinkAssumption
  <2> QED
    BY <1>1, <1>6, <1>7, <2>1, <2>2 DEF IsSink
<1>9. CurSound(g)
  <2>1. <<>> \o <<>> = <<>> /\ Len(<<>>) = 0
    BY EmptySeq, ConcatEmptySeq
  <2> QED
    BY <1>4, <1>6, <2>1 DEF CurSound, Content, NoIndex
<1>10. PrevSound(g)
  BY <1>4, <1>6, CurOnDisk DEF PrevSound
<1>11. FilesBounded(g)
  <2>1. Len(f.disk[f.cur]) <= MaxRecords /\ Len(<<>>) <= MaxRecords
    BY <1>7, EmptySeq, SinkAssumption DEF Sound, FilesBounded
  <2> QED
    BY <1>4, <1>6, <2>1 DEF FilesBounded
<1> QED
  BY <1>4, <1>6, <1>8, <1>9, <1>10, <1>11 DEF Sound, g, a

(* One element more leaves the others where they were.                     *)
LEMMA OneMore ==
  ASSUME NEW c \in Seq(Nat), NEW no \in Nat
  PROVE  /\ Len(c \o <<no>>) = Len(c) + 1 /\ (c \o <<no>>)[Len(c) + 1] = no
         /\ \A k \in Nat : k < Len(c) => (c \o <<no>>)[k + 1] = c[k + 1]
<1>1. c \o <<no>> = Append(c, no) /\ Len(c) \in Nat
  BY AppendIsConcat, LenProperties
<1>2. \A k \in Nat : k < Len(c) => k + 1 \in 1 .. Len(c)
  BY <1>1
<1> QED
  BY <1>1, <1>2, AppendProperties

(* A record joins the content where the index says.                        *)
LEMMA IndexedSound ==
  ASSUME NEW s, Sound(s), s.curOff < MaxRecords, NEW no \in Nat
  PROVE  LET g == Indexed(s, no)
         IN /\ Sound(g) /\ g.writer = s.writer /\ g.closed = s.closed
            /\ g.curOff = s.curOff + 1 /\ DOMAIN g.curIndex = DOMAIN s.curIndex \cup {no}
            /\ g.prev = s.prev /\ g.prevIndex = s.prevIndex /\ g.disk = s.disk
<1> DEFINE index == [n \in DOMAIN s.curIndex \cup {no} |-> IF n = no THEN s.curOff ELSE s.curIndex[n]]
           longer == Append(s.unflushed, no)
           g == Indexed(s, no)
           d == s.disk[s.cur]
<1>1. s = [disk |-> s.disk, cur |-> s.cur, curIndex |-> s.curIndex, curOff |-> s.curOff,
           unflushed |-> s.unflushed, writer |-> s.writer, prev |-> s.prev,
           prevIndex |-> s.prevIndex, closed |-> s.closed]
  BY DEF Sound, IsSink
<1>2. g = [s EXCEPT !.unflushed = longer, !.curOff = s.curOff + 1, !.curIndex = index]
  BY <1>1 DEF Indexed
<1>3. /\ s.curIndex \in [DOMAIN s.curIndex -> Nat] /\ DOMAIN s.curIndex \subseteq Nat
      /\ s.curOff \in Nat /\ s.unflushed \in Seq(Nat) /\ d \in Seq(Nat) /\ MaxRecords \in Nat
  BY SinkAssumption DEF Sound, IsSink, CurSound
<1>4. /\ DOMAIN index = DOMAIN s.curIndex \cup {no}
      /\ index \in [DOMAIN index -> Nat] /\ DOMAIN index \subseteq Nat
      /\ \A n \in DOMAIN index : index[n] = IF n = no THEN s.curOff ELSE s.curIndex[n]
  BY <1>3
<1>5. longer = s.unflushed \o <<no>> /\ longer \in Seq(Nat) /\ <<no>> \in Seq(Nat) /\ Len(<<no>>) = 1 /\ <<no>>[1] = no
  BY <1>3, AppendIsConcat, AppendProperties
<1> HIDE DEF index, longer, g
<1>6. g = [disk |-> s.disk, cur |-> s.cur, curIndex |-> index, curOff |-> s.curOff + 1,
           unflushed |-> longer, writer |-> s.writer, prev |-> s.prev,
           prevIndex |-> s.prevIndex, closed |-> s.closed]
  BY <1>1, <1>2
<1>7. IsSink(g)
  <2>1. s.curOff + 1 \in 0 .. MaxRecords
    BY <1>3
  <2> QED
    BY <1>4, <1>5, <1>6, <2>1 DEF Sound, IsSink
<1> DEFINE c == Content(s)
<1>8. /\ c = d \o s.unflushed /\ c \in Seq(Nat) /\ Len(c) = s.curOff
      /\ \A n \in DOMAIN s.curIndex : s.curIndex[n] < Len(c) /\ c[s.curIndex[n] + 1] = n
  BY <1>3, ConcatProperties DEF Sound, CurSound, Content
<1>9. Content(g) = c \o <<no>>
  <2>1. Content(g) = d \o longer
    BY <1>6 DEF Content
  <2> HIDE DEF c, d
  <2>2. d \o (s.unflushed \o <<no>>) = (d \o s.unflushed) \o <<no>>
    BY <1>3, <1>5, Associative, Zenon
  <2> QED
    BY <1>5, <1>8, <2>1, <2>2
<1> HIDE DEF c
<1>10. /\ Len(c \o <<no>>) = Len(c) + 1 /\ (c \o <<no>>)[Len(c) + 1] = no
       /\ \A k \in Nat : k < Len(c) => (c \o <<no>>)[k + 1] = c[k + 1]
  BY <1>8, OneMore
<1>11. CurSound(g)
  <2>1. g.cur \in DOMAIN g.disk /\ Len(Content(g)) = g.curOff
    BY <1>6, <1>8, <1>9, <1>10 DEF Sound, CurSound
  <2>2. ASSUME NEW n \in DOMAIN g.curIndex
        PROVE  g.curIndex[n] < g.curOff /\ Content(g)[g.curIndex[n] + 1] = n
    <3>1. /\ n \in DOMAIN index /\ g.curIndex[n] = index[n] /\ g.curOff = Len(c) + 1
          /\ Len(c) \in Nat /\ Content(g)[index[n] + 1] = (c \o <<no>>)[index[n] + 1]
      BY <1>3, <1>6, <1>8, <1>9
    <3>2. CASE n = no
      <4>1. index[n] = Len(c)
        BY <1>4, <1>8, <3>1, <3>2
      <4> QED
        BY <1>10, <3>1, <3>2, <4>1
    <3>3. CASE n # no
      <4>1. n \in DOMAIN s.curIndex /\ index[n] = s.curIndex[n] /\ s.curIndex[n] \in Nat
        BY <1>3, <1>4, <3>1, <3>3
      <4>2. index[n] < Len(c) /\ c[index[n] + 1] = n
        BY <1>8, <4>1
      <4> QED
        BY <1>10, <3>1, <4>1, <4>2
    <3> QED
      BY <3>2, <3>3
  <2> QED
    BY <2>1, <2>2 DEF CurSound
<1>12. PrevSound(g) /\ FilesBounded(g)
  BY <1>6 DEF Sound, PrevSound, FilesBounded
<1> QED
  BY <1>4, <1>6, <1>7, <1>11, <1>12 DEF Sound, g

(* A frame more is appended, and the last frames stay where they were.     *)
LEMMA AppendsSound ==
  ASSUME NEW s, Sound(s), NEW n \in Nat, s.writer # "nil" => s.curOff < MaxRecords,
         NEW g \in Appends(s, n + 1)
  PROVE  /\ Sound(g) /\ g.closed = s.closed
         /\ faults = {} /\ Unbroken(s, n) => Unbroken(g, n + 1)
<1>1. CASE s.writer = "nil"
  BY <1>1 DEF Appends, Unbroken
<1>2. CASE s.writer = "broken"
  <2>1. g = [s EXCEPT !.writer = "nil"]
    BY <1>2 DEF Appends
  <2>2. g.closed = s.closed
    BY <2>1 DEF Sound, IsSink
  <2> QED
    BY <1>2, <2>1, <2>2, WriterSound DEF Unbroken
<1>3. CASE s.writer = "ok" /\ g \in BrokenWrites(s, "nil")
  BY <1>3, BrokenSound
<1>4. CASE s.writer = "ok" /\ g \in {Indexed(s, n + 1), Indexed(WholeBuffer(s), n + 1)}
  <2>1. WholeBuffer(s) \in Flushes(s)
    BY <1>4 DEF Flushes
  <2>2. PICK f \in {s, WholeBuffer(s)} : g = Indexed(f, n + 1)
    BY <1>4
  <2>3. /\ Sound(f) /\ f.curOff = s.curOff /\ f.curIndex = s.curIndex /\ f.prevIndex = s.prevIndex
        /\ f.prev = s.prev /\ f.closed = s.closed
        /\ DOMAIN f.disk = DOMAIN s.disk /\ \A p \in DOMAIN s.disk \ {s.cur} : f.disk[p] = s.disk[p]
    BY <2>1, <2>2, FlushesSound DEF Flushed
  <2>4. f.writer = "ok"
    BY <1>4, <2>2 DEF WholeBuffer, WithPrefix, Sound, IsSink
  <2>5. /\ Sound(g) /\ g.writer = "ok" /\ g.closed = s.closed
        /\ g.curOff = s.curOff + 1 /\ DOMAIN g.curIndex = DOMAIN s.curIndex \cup {n + 1}
        /\ g.prev = s.prev /\ g.prevIndex = s.prevIndex /\ g.disk = f.disk
    BY <1>4, <2>2, <2>3, <2>4, IndexedSound
  <2>6. s.prev # s.cur /\ s.curOff \in Nat
    BY <1>4 DEF Sound, FilesBounded, IsSink
  <2>7. ASSUME Unbroken(s, n) PROVE Unbroken(g, n + 1)
    <3>1. ASSUME NEW no \in 1 .. n + 1, n + 1 - no < g.curOff PROVE no \in DOMAIN g.curIndex
      BY <2>5, <2>6, <2>7, <3>1, SinkAssumption DEF Unbroken
    <3>2. ASSUME NEW no \in 1 .. n + 1, g.curOff <= n + 1 - no, n + 1 - no < g.curOff + MaxRecords
          PROVE  /\ no \in DOMAIN g.prevIndex /\ g.prev \in DOMAIN g.disk
                 /\ g.prevIndex[no] < Len(g.disk[g.prev])
      <4>1. no \in 1 .. n /\ s.curOff <= n - no /\ n - no < s.curOff + MaxRecords
        BY <2>5, <2>6, <3>2, SinkAssumption
      <4> QED
        BY <2>3, <2>5, <2>6, <2>7, <4>1 DEF Unbroken
    <3> QED
      BY <2>5, <3>1, <3>2 DEF Unbroken
  <2> QED
    BY <2>5, <2>7
<1> QED
  BY <1>1, <1>2, <1>3, <1>4 DEF Appends, Sound, IsSink

(* A rotation makes room; the frames of the file that filled up are the    *)
(* previous file's, and those before them are gone.                        *)
LEMMA RotationsSound ==
  ASSUME NEW s, Sound(s), s.writer # "nil", Full(s), millis \in Paths, NameIsFree(s),
         NEW g \in Rotations(s), NEW n \in Nat
  PROVE  /\ Sound(g) /\ g.closed = s.closed
         /\ g.writer # "nil" => g.curOff < MaxRecords
         /\ faults = {} /\ Unbroken(s, n) => Unbroken(g, n)
<1>1. PICK f \in Flushes(s) :
        g = Opened(Aged(f)) \/ ("create" \in faults /\ g = [Aged(f) EXCEPT !.writer = "nil"])
  BY DEF Rotations
<1>2. /\ Sound(f) /\ Flushed(f, s)
      /\ faults = {} /\ s.writer = "ok" => f.disk[s.cur] = Content(s)
  BY FlushesSound
<1>3. f.writer # "nil" /\ f.closed = s.closed /\ f.cur = s.cur
  BY <1>2 DEF Flushed
<1>4. CASE "create" \in faults /\ g = [Aged(f) EXCEPT !.writer = "nil"]
  <2>1. Sound(g) /\ g.closed = s.closed
    BY <1>2, <1>3, <1>4, AgedSound
  <2>2. g.writer = "nil"
    BY <1>2, <1>3, <1>4, AgedSound
  <2> QED
    BY <1>4, <2>1, <2>2
<1>5. CASE g = Opened(Aged(f))
  <2>1. /\ Sound(g) /\ g.writer = "ok" /\ g.closed = f.closed /\ g.curOff = 0
        /\ g.prev = f.cur /\ g.prevIndex = f.curIndex
        /\ g.prev \in DOMAIN g.disk /\ g.disk[g.prev] = f.disk[f.cur]
    BY <1>2, <1>3, <1>5, OpenedSound DEF NameIsFree
  <2>2. 0 < MaxRecords /\ MaxRecords \in Nat /\ s.curOff = MaxRecords
    BY SinkAssumption DEF Full, Sound, IsSink
  <2>3. ASSUME faults = {}, Unbroken(s, n) PROVE Unbroken(g, n)
    <3>1. f.disk[s.cur] = Content(s) /\ Len(f.disk[s.cur]) = s.curOff
      BY <1>2, <2>3 DEF Unbroken, Sound, CurSound
    <3>2. ASSUME NEW no \in 1 .. n, n - no < MaxRecords
          PROVE  no \in DOMAIN g.prevIndex /\ g.prevIndex[no] < Len(g.disk[g.prev])
      <4>1. no \in DOMAIN s.curIndex
        BY <2>2, <2>3, <3>2 DEF Unbroken
      <4>2. s.curIndex[no] < s.curOff
        BY <4>1 DEF Sound, CurSound
      <4> QED
        BY <1>2, <1>3, <2>1, <3>1, <4>1, <4>2 DEF Flushed
    <3>3. \A no \in 1 .. n : ~(n - no < g.curOff) /\ g.curOff + MaxRecords = MaxRecords
      BY <2>1, <2>2
    <3> QED
      BY <2>1, <3>2, <3>3 DEF Unbroken
  <2> QED
    BY <1>3, <2>1, <2>2, <2>3
<1> QED
  BY <1>1, <1>4, <1>5

(* An index leads to the packet itself or to nothing.                      *)
LEMMA AnswerSound ==
  ASSUME NEW s, Sound(s), NEW no \in Nat
  PROVE  Answer(s, no) \in {0, no}
<1>1. ASSUME no \in DOMAIN s.curIndex PROVE RecordAt(s, s.cur, s.curIndex[no]) \in {0, no}
  BY <1>1, CurOnDisk DEF RecordAt
<1>2. ASSUME no \in DOMAIN s.prevIndex PROVE RecordAt(s, s.prev, s.prevIndex[no]) \in {0, no}
  BY <1>2 DEF RecordAt, Sound, PrevSound
<1> QED
  BY <1>1, <1>2 DEF Answer

(* A flush leaves the last frames where they were.                         *)
LEMMA FlushedUnbroken ==
  ASSUME NEW s, Sound(s), NEW f \in Flushes(s), NEW n, faults = {}, Unbroken(s, n)
  PROVE  Unbroken(f, n)
<1>1. Flushed(f, s) /\ f.writer = "ok" /\ s.prev # s.cur
  BY FlushesSound DEF Unbroken, Sound, FilesBounded
<1> QED
  BY <1>1 DEF Unbroken, Flushed

(* The first file opens empty, with nothing offered yet.                   *)
LEMMA InitInv == SinkInit => SinkInv
<1> SUFFICES ASSUME SinkInit PROVE SinkInv
  OBVIOUS
<1> DEFINE disk == [p \in DOMAIN (<<>>) \cup {1} |-> IF p = 1 THEN <<>> ELSE (<<>>)[p]]
<1>1. sink = [disk |-> disk, cur |-> 1, curIndex |-> NoIndex, curOff |-> 0,
              unflushed |-> <<>>, writer |-> "ok", prev |-> NoPath,
              prevIndex |-> NoIndex, closed |-> FALSE]
  BY DEF SinkInit, Opened, Unopened
<1>2. DOMAIN disk = {1} /\ disk[1] = <<>> /\ <<>> \in Seq(Nat) /\ Len(<<>>) = 0
      /\ <<>> \o <<>> = <<>>
  BY EmptySeq, ConcatEmptySeq
<1>3. disk = [p \in DOMAIN disk |-> disk[p]]
  OBVIOUS
<1> HIDE DEF disk
<1>4. disk \in [DOMAIN disk -> Seq(Nat)]
  BY <1>2, <1>3
<1>5. /\ 1 \in Paths /\ 1 # NoPath /\ 0 \in 0 .. MaxRecords /\ 0 \in 0 .. MaxOffered
      /\ MaxRecords \in Nat /\ DOMAIN NoIndex = {} /\ NoIndex \in [DOMAIN NoIndex -> Nat]
  BY SinkAssumption DEF Paths, NoPath, NoIndex
<1>6. IsSink(sink)
  BY <1>1, <1>2, <1>4, <1>5 DEF IsSink
<1>7. CurSound(sink) /\ PrevSound(sink) /\ FilesBounded(sink)
  BY <1>1, <1>2, <1>5 DEF CurSound, PrevSound, FilesBounded, Content
<1>8. Unbroken(sink, 0)
  BY <1>1 DEF Unbroken
<1>9. served \in [no : 0 .. 0, got : Nat] /\ served.got = 0
  BY DEF SinkInit
<1> QED
  BY <1>5, <1>6, <1>7, <1>8, <1>9 DEF SinkInit, SinkInv, SinkTypeOK, Sound, RightPacketOrNone, Paths

LEMMA WriteKeeps == SinkInv /\ WritePacket => SinkInv'
<1> SUFFICES ASSUME SinkInv, WritePacket PROVE SinkInv'
  OBVIOUS
<1>1. /\ faults \subseteq FaultKinds /\ millis \in Paths /\ offered \in Nat /\ offered' = offered + 1
      /\ offered' \in 0 .. MaxOffered /\ served \in [no : 0 .. offered', got : Nat]
      /\ Sound(sink) /\ RightPacketOrNone
      /\ UNCHANGED <<faults, millis, served>>
  BY SinkAssumption DEF SinkInv, SinkTypeOK, WritePacket
<1> DEFINE writing == ~sink.closed /\ sink.writer # "nil"
           Kept(s) == /\ Sound(s) /\ s.closed = sink.closed
                      /\ faults = {} /\ Unbroken(sink, offered) => Unbroken(s, offered)
<1>2. CASE ~writing
  <2>1. sink' = sink
    BY <1>2 DEF WritePacket
  <2>2. faults = {} /\ ~sink.closed => FALSE
    BY <1>2 DEF SinkInv, Unbroken
  <2> QED
    BY <1>1, <2>1, <2>2 DEF SinkInv, SinkTypeOK, RightPacketOrNone, Sound
<1>3. CASE writing
  <2>1. PICK s \in IF Full(sink) THEN Rotations(sink) ELSE {sink} : sink' \in Appends(s, offered + 1)
    BY <1>3 DEF WritePacket
  <2>2. Kept(s) /\ (s.writer # "nil" => s.curOff < MaxRecords)
    <3>1. CASE Full(sink)
      <4>1. NameIsFree(sink) /\ s \in Rotations(sink)
        BY <1>3, <2>1, <3>1 DEF WritePacket
      <4> QED
        BY <1>1, <1>3, <3>1, <4>1, RotationsSound
    <3>2. CASE ~Full(sink)
      <4>1. s = sink /\ sink.curOff < MaxRecords
        BY <1>1, <2>1, <3>2, SinkAssumption DEF Full, Sound, IsSink
      <4> QED
        BY <1>1, <4>1
    <3> QED
      BY <3>1, <3>2
  <2>3. /\ Sound(sink') /\ sink'.closed = sink.closed
        /\ faults = {} /\ Unbroken(sink, offered) => Unbroken(sink', offered')
    BY <1>1, <2>1, <2>2, AppendsSound
  <2> HIDE DEF Kept, writing
  <2>4. IsSink(sink')
    BY <2>3 DEF Sound
  <2>5. SinkTypeOK' /\ RightPacketOrNone'
    BY <1>1, <2>4 DEF SinkTypeOK, IsSink, RightPacketOrNone, Paths, NoPath
  <2>6. (faults = {} /\ ~sink.closed => Unbroken(sink, offered))'
    BY <1>1, <2>3 DEF SinkInv, Unbroken
  <2>7. Sound(sink)'
    BY <2>3 DEF Sound, IsSink, CurSound, PrevSound, FilesBounded, Content, Paths, NoPath
  <2> QED
    BY <2>5, <2>6, <2>7 DEF SinkInv
<1> QED
  BY <1>2, <1>3

LEMMA ReadKeeps == ASSUME SinkInv, NEW no \in 1 .. offered, ReadPacket(no) PROVE SinkInv'
<1>1. PICK s \in {sink} \cup Flushes(sink) : sink' = s /\ served' = [no |-> no, got |-> Answer(s, no)]
  BY DEF ReadPacket
<1>2. UNCHANGED <<faults, millis, offered>>
  BY DEF ReadPacket
<1>3. Sound(sink) /\ offered \in Nat /\ no \in Nat /\ no \in 0 .. offered
  BY SinkAssumption DEF SinkInv, SinkTypeOK
<1>4. Sound(s) /\ s.closed = sink.closed /\ (faults = {} /\ Unbroken(sink, offered) => Unbroken(s, offered))
  BY <1>1, <1>3, FlushesSound, FlushedUnbroken DEF Flushed
<1>5. Answer(s, no) \in {0, no}
  BY <1>3, <1>4, AnswerSound
<1>6. SinkTypeOK' /\ RightPacketOrNone'
  BY <1>1, <1>2, <1>3, <1>4, <1>5, SMTT(30) DEF SinkInv, SinkTypeOK, RightPacketOrNone, Sound, IsSink, Paths, NoPath
<1>7. Sound(sink)' /\ (faults = {} /\ ~sink.closed => Unbroken(sink, offered))'
  BY <1>1, <1>2, <1>4 DEF SinkInv, Unbroken, Sound, IsSink, CurSound, PrevSound, FilesBounded, Content, Paths, NoPath
<1> QED
  BY <1>6, <1>7 DEF SinkInv

LEMMA CloseKeeps == SinkInv /\ CloseSink => SinkInv'
<1> SUFFICES ASSUME SinkInv, CloseSink PROVE SinkInv'
  OBVIOUS
<1>1. PICK s \in Flushes(sink) : sink' = [s EXCEPT !.closed = TRUE]
  BY DEF CloseSink
<1>2. UNCHANGED <<faults, millis, offered, served>>
  BY DEF CloseSink
<1>3. Sound(s)
  BY FlushesSound DEF SinkInv
<1> DEFINE g == [s EXCEPT !.closed = TRUE]
<1>4. s = [disk |-> s.disk, cur |-> s.cur, curIndex |-> s.curIndex, curOff |-> s.curOff,
           unflushed |-> s.unflushed, writer |-> s.writer, prev |-> s.prev,
           prevIndex |-> s.prevIndex, closed |-> s.closed]
  BY <1>3 DEF Sound, IsSink
<1>5. g = [disk |-> s.disk, cur |-> s.cur, curIndex |-> s.curIndex, curOff |-> s.curOff,
           unflushed |-> s.unflushed, writer |-> s.writer, prev |-> s.prev,
           prevIndex |-> s.prevIndex, closed |-> TRUE]
  <2> SUFFICES ASSUME NEW v
               PROVE  [s EXCEPT !.closed = v] =
                        [disk |-> s.disk, cur |-> s.cur, curIndex |-> s.curIndex,
                         curOff |-> s.curOff, unflushed |-> s.unflushed, writer |-> s.writer,
                         prev |-> s.prev, prevIndex |-> s.prevIndex, closed |-> v]
    OBVIOUS
  <2> QED
    BY <1>4
<1> HIDE DEF g
<1>6. IsSink(g)
  BY <1>3, <1>5 DEF Sound, IsSink
<1>7. CurSound(g) /\ PrevSound(g) /\ FilesBounded(g)
  BY <1>3, <1>5 DEF Sound, CurSound, PrevSound, FilesBounded, Content
<1>8. sink' = g /\ g.closed
  BY <1>1, <1>5 DEF g
<1>9. SinkTypeOK' /\ RightPacketOrNone'
  BY <1>2, <1>6, <1>8 DEF SinkInv, SinkTypeOK, RightPacketOrNone, IsSink, Paths, NoPath
<1>10. Sound(sink') /\ sink'.closed
  BY <1>6, <1>7, <1>8 DEF Sound
<1> HIDE DEF g
<1>11. Sound(sink)'
  BY <1>10 DEF Sound, IsSink, CurSound, PrevSound, FilesBounded, Content, Paths, NoPath
<1> QED
  BY <1>9, <1>10, <1>11 DEF SinkInv

LEMMA TickKeeps == SinkInv /\ TickMillis => SinkInv'
<1> SUFFICES ASSUME SinkInv, TickMillis PROVE SinkInv'
  OBVIOUS
<1>1. millis' \in Paths /\ UNCHANGED <<faults, sink, offered, served>>
  BY SinkAssumption DEF SinkInv, SinkTypeOK, TickMillis, Paths
<1> QED
  BY <1>1 DEF SinkInv, SinkTypeOK, RightPacketOrNone, Sound, IsSink, CurSound, PrevSound, FilesBounded,
              Content, Unbroken, Paths, NoPath

(* The two files at every moment: the indexes describe them, and on a disk *)
(* that refuses nothing the last frames are in them.                       *)
THEOREM SinkInvHolds == SinkSpec => []SinkInv
<1>1. SinkInit => SinkInv
  BY InitInv
<1>2. SinkInv /\ [SinkNext]_sinkVars => SinkInv'
  <2> SUFFICES ASSUME SinkInv, [SinkNext]_sinkVars PROVE SinkInv'
    OBVIOUS
  <2>1. CASE WritePacket
    BY <2>1, WriteKeeps
  <2>2. CASE \E no \in 1 .. offered : ReadPacket(no)
    BY <2>2, ReadKeeps
  <2>3. CASE CloseSink
    BY <2>3, CloseKeeps
  <2>4. CASE TickMillis
    BY <2>4, TickKeeps
  <2>5. CASE UNCHANGED sinkVars
    BY <2>5 DEF sinkVars, SinkInv, SinkTypeOK, RightPacketOrNone, Sound, IsSink, CurSound, PrevSound,
                FilesBounded, Content, Unbroken, Paths, NoPath
  <2> QED
    BY <2>1, <2>2, <2>3, <2>4, <2>5 DEF SinkNext
<1> QED
  BY <1>1, <1>2, PTL DEF SinkSpec
-----------------------------------------------------------------------------
(* The sink stays a sink (pcapsink.go, the pcapSink struct).               *)
THEOREM SinkTypes == SinkSpec => []SinkTypeOK
<1>1. SinkInv => SinkTypeOK
  BY DEF SinkInv
<1> QED
  BY <1>1, SinkInvHolds, PTL

(* Read answers with the packet asked for or with none (pcapsink.go Read,  *)
(* readRecord), whatever the file system refused before.                   *)
THEOREM SinkReadsRight == SinkSpec => []RightPacketOrNone
<1>1. SinkInv => RightPacketOrNone
  BY DEF SinkInv
<1> QED
  BY <1>1, SinkInvHolds, PTL

LEMMA LastFramesReadable == SinkInv => NoCliff
<1> SUFFICES ASSUME SinkInv, faults = {}, ~sink.closed, NEW no \in 1 .. offered,
                    offered - no < MaxRecords + sink.curOff
             PROVE  StillReadable(sink, no)
  BY DEF NoCliff
<1> DEFINE t == WholeBuffer(sink)
<1>1. Sound(sink) /\ Unbroken(sink, offered) /\ sink.writer = "ok" /\ offered \in Nat /\ sink.curOff \in Nat
  BY SinkAssumption DEF SinkInv, SinkTypeOK, Unbroken, IsSink
<1>2. t \in Flushes(sink)
  BY <1>1 DEF Flushes
<1> HIDE DEF t
<1>3. Sound(t) /\ Flushed(t, sink) /\ t.disk[sink.cur] = Content(sink) /\ Unbroken(t, offered)
  BY <1>1, <1>2, FlushesSound, FlushedUnbroken
<1>4. ~t.closed /\ t.cur = sink.cur /\ t.curIndex = sink.curIndex /\ t.curOff = sink.curOff
  BY <1>3 DEF Flushed
<1>5. Answer(t, no) = no
  <2>1. CASE no \in DOMAIN t.curIndex
    <3>1. t.curIndex[no] < Len(t.disk[t.cur]) /\ t.cur \in DOMAIN t.disk
      BY <1>1, <1>3, <1>4, <2>1 DEF Sound, CurSound
    <3>2. t.disk[t.cur][t.curIndex[no] + 1] = no
      BY <1>3, <2>1, <3>1, CurOnDisk
    <3> QED
      BY <1>4, <2>1, <3>1, <3>2 DEF Answer, RecordAt
  <2>2. CASE no \notin DOMAIN t.curIndex
    <3>1. sink.curOff <= offered - no
      BY <1>1, <1>4, <2>2 DEF Unbroken
    <3>2. /\ no \in DOMAIN t.prevIndex /\ t.prev \in DOMAIN t.disk
          /\ t.prevIndex[no] < Len(t.disk[t.prev])
      BY <1>1, <1>3, <1>4, <3>1, SinkAssumption DEF Unbroken
    <3>3. t.disk[t.prev][t.prevIndex[no] + 1] = no
      BY <1>3, <3>2 DEF Sound, PrevSound
    <3> QED
      BY <1>4, <2>2, <3>2, <3>3 DEF Answer, RecordAt
  <2> QED
    BY <2>1, <2>2
<1> QED
  BY <1>1, <1>5 DEF StillReadable, t

LEMMA TwoFiles == SinkInv => DiskBounded
<1> SUFFICES ASSUME SinkInv PROVE DiskBounded
  OBVIOUS
<1>1. DOMAIN sink.disk \in SUBSET {sink.cur, sink.prev} /\ \A p \in DOMAIN sink.disk : Len(sink.disk[p]) <= MaxRecords
  BY DEF SinkInv, Sound, FilesBounded
<1>2. IsFiniteSet({sink.cur}) /\ Cardinality({sink.cur}) = 1
  BY FS_Singleton
<1>3. {sink.cur, sink.prev} = {sink.cur} \cup {sink.prev}
  OBVIOUS
<1>4. IsFiniteSet({sink.cur, sink.prev}) /\ Cardinality({sink.cur, sink.prev}) \in {1, 2}
  BY <1>2, <1>3, FS_AddElement
<1>5. Cardinality(DOMAIN sink.disk) <= Cardinality({sink.cur, sink.prev})
  BY <1>1, <1>4, FS_Subset
<1>6. Cardinality(DOMAIN sink.disk) \in Nat
  BY <1>1, <1>4, FS_Subset, FS_CardinalityType
<1> QED
  BY <1>1, <1>4, <1>5, <1>6 DEF DiskBounded

(* On a disk that refuses nothing the frames of the current file and of    *)
(* the whole file before it can be read back across every rotation, and    *)
(* the disk holds no more than these two (pcapsink.go Write, rotate).      *)
THEOREM SinkKeeps == SinkSpec => []SinkKeepsLatest
<1>1. SinkInv => SinkKeepsLatest
  BY LastFramesReadable, TwoFiles DEF SinkKeepsLatest
<1> QED
  BY <1>1, SinkInvHolds, PTL

-----------------------------------------------------------------------------
(* Capture files and their merging.                                        *)

(* What holds of the first number and is passed on holds of all.           *)
LEMMA PassedOn ==
  ASSUME NEW lo \in Nat, NEW hi \in Nat, NEW T, lo \in T,
         \A m \in lo .. hi - 1 : m \in T => m + 1 \in T
  PROVE  \A m \in lo .. hi : m \in T
<1> DEFINE R == OpToRel(<, Nat)
           Out == {m \in lo .. hi : m \notin T}
<1>1. IsWellFoundedOn(R, Nat)
  BY NatLessThanWellFounded
<1>2. \A x, y \in Nat : y < x => <<y, x>> \in R
  BY DEF OpToRel
<1> HIDE DEF R
<1>3. SUFFICES ASSUME Out # {} PROVE FALSE
  BY <1>3
<1>4. Out \subseteq Nat
  OBVIOUS
<1>5. PICK x \in Out : \A y \in Out : <<y, x>> \notin R
  <2> HIDE DEF Out
  <2> QED
    BY <1>1, <1>3, <1>4, WFMin
<1>6. x \in lo .. hi /\ x \notin T /\ x # lo /\ x - 1 \in lo .. hi - 1
  BY <1>5
<1>7. x - 1 \notin T
  BY <1>6
<1>8. x - 1 \in Out /\ x - 1 < x /\ x \in Nat /\ x - 1 \in Nat
  BY <1>6, <1>7
<1> QED
  BY <1>2, <1>5, <1>8

-----------------------------------------------------------------------------
(* Sequences put one after another.                                        *)
Joins(f, ss) == f = [i \in 1 .. Len(ss) |-> IF i = 1 THEN ss[i] ELSE f[i - 1] \o ss[i]]

LEMMA JoinedOnce ==
  ASSUME NEW ss, Len(ss) \in Nat, NEW f, NEW g, Joins(f, ss), Joins(g, ss)
  PROVE  f = g
<1> DEFINE n == Len(ss)
           T == {m \in 0 .. n : m = 0 \/ f[m] = g[m]}
<1>0. \A i \in 1 .. n : /\ f[i] = IF i = 1 THEN ss[i] ELSE f[i - 1] \o ss[i]
                       /\ g[i] = IF i = 1 THEN ss[i] ELSE g[i - 1] \o ss[i]
  <2>1. f = [i \in 1 .. n |-> IF i = 1 THEN ss[i] ELSE f[i - 1] \o ss[i]]
    BY DEF Joins
  <2>2. g = [i \in 1 .. n |-> IF i = 1 THEN ss[i] ELSE g[i - 1] \o ss[i]]
    BY DEF Joins
  <2>3. ASSUME NEW i \in 1 .. n PROVE f[i] = IF i = 1 THEN ss[i] ELSE f[i - 1] \o ss[i]
    BY <2>1
  <2>4. ASSUME NEW i \in 1 .. n PROVE g[i] = IF i = 1 THEN ss[i] ELSE g[i - 1] \o ss[i]
    BY <2>2
  <2> QED
    BY <2>3, <2>4
<1>1. \A m \in 0 .. n - 1 : m \in T => m + 1 \in T
  <2>1. ASSUME NEW m \in 0 .. n - 1, m \in T PROVE f[m + 1] = g[m + 1]
    <3>1. m + 1 \in 1 .. n /\ (m + 1 # 1 => f[m] = g[m]) /\ (m + 1) - 1 = m
      BY <2>1
    <3> QED
      BY <3>1, <1>0
  <2> QED
    BY <2>1
<1>2. \A m \in 0 .. n : m \in T
  <2>1. 0 \in T
    OBVIOUS
  <2> HIDE DEF T
  <2> QED
    BY <1>1, <2>1, PassedOn
<1>3. \A m \in 1 .. n : f[m] = g[m]
  BY <1>2
<1> QED
  BY <1>3 DEF Joins

LEMMA JoinsExist ==
  ASSUME NEW S, NEW ss \in Seq(Seq(S))
  PROVE  \E f : Joins(f, ss) /\ f \in [1 .. Len(ss) -> Seq(S)]
<1> DEFINE n == Len(ss)
           Up(f, m) == f \in [1 .. m -> Seq(S)]
                         /\ \A i \in 1 .. m : f[i] = IF i = 1 THEN ss[i] ELSE f[i - 1] \o ss[i]
           T == {m \in 0 .. n : \E f : Up(f, m)}
<1>1. 0 \in T
  <2>1. Up([i \in 1 .. 0 |-> <<>>], 0)
    OBVIOUS
  <2>2. \E f : Up(f, 0)
    <3> HIDE DEF Up
    <3> QED
      BY <2>1
  <2>3. 0 \in 0 .. n
    OBVIOUS
  <2> HIDE DEF Up
  <2> QED
    BY <2>2, <2>3
<1>2. ASSUME NEW m \in 0 .. n - 1, m \in T PROVE m + 1 \in T
  <2>1. PICK f : Up(f, m)
    BY <1>2
  <2> DEFINE h == [i \in 1 .. m + 1 |-> IF i <= m THEN f[i] ELSE IF i = 1 THEN ss[i] ELSE f[m] \o ss[i]]
  <2>2. h \in [1 .. m + 1 -> Seq(S)]
    <3>1. ASSUME NEW i \in 1 .. m + 1
          PROVE (IF i <= m THEN f[i] ELSE IF i = 1 THEN ss[i] ELSE f[m] \o ss[i]) \in Seq(S)
      <4>1. ss[i] \in Seq(S)
        BY <3>1, <1>2
      <4>2. CASE i <= m
        BY <4>2, <2>1, <3>1
      <4>3. CASE i > m
        <5>1. i = m + 1 /\ (i # 1 => f[m] \in Seq(S))
          BY <4>3, <3>1, <2>1
        <5> QED
          BY <5>1, <4>1, <4>3
      <4> QED
        BY <4>2, <4>3
    <3> QED
      BY <3>1
  <2>3. ASSUME NEW i \in 1 .. m + 1
        PROVE  h[i] = IF i = 1 THEN ss[i] ELSE h[i - 1] \o ss[i]
    <3>1. CASE i <= m
      <4>1. h[i] = f[i] /\ i \in 1 .. m /\ (i # 1 => h[i - 1] = f[i - 1])
        BY <3>1
      <4> QED
        BY <4>1, <2>1
    <3>2. CASE i > m
      <4>1. i = m + 1 /\ (i # 1 => i - 1 \in 1 .. m + 1 /\ i - 1 <= m /\ i - 1 = m)
        BY <3>2
      <4>2. h[m + 1] = IF m + 1 = 1 THEN ss[m + 1] ELSE f[m] \o ss[m + 1]
        BY <3>2, <4>1
      <4>3. i # 1 => h[i - 1] = f[i - 1]
        BY <4>1
      <4> QED
        BY <4>1, <4>2, <4>3
    <3> QED
      BY <3>1, <3>2
  <2>4. Up(h, m + 1)
    BY <2>2, <2>3
  <2> HIDE DEF h, Up
  <2> QED
    BY <2>4
<1>3. n \in Nat
  OBVIOUS
<1>4. n \in T
  <2> HIDE DEF T
  <2>1. \A m \in 0 .. n : m \in T
    BY <1>1, <1>2, <1>3, PassedOn
  <2> QED
    BY <2>1, <1>3
<1>5. PICK f : Up(f, n)
  BY <1>4
<1>6. Joins(f, ss)
  BY <1>5 DEF Joins
<1> QED
  BY <1>5, <1>6

LEMMA FlattenIs ==
  ASSUME NEW S, NEW ss \in Seq(Seq(S)), NEW f, Joins(f, ss), ss # <<>>
  PROVE  FlattenSeq(ss) = f[Len(ss)]
<1> DEFINE g == CHOOSE h : h = [i \in 1 .. Len(ss) |-> IF i = 1 THEN ss[i] ELSE h[i - 1] \o ss[i]]
<1>1. Joins(g, ss)
  <2>1. f = [i \in 1 .. Len(ss) |-> IF i = 1 THEN ss[i] ELSE f[i - 1] \o ss[i]]
    BY DEF Joins
  <2>2. g = [i \in 1 .. Len(ss) |-> IF i = 1 THEN ss[i] ELSE g[i - 1] \o ss[i]]
    BY <2>1
  <2> HIDE DEF g
  <2> QED
    BY <2>2 DEF Joins
<1>2. FlattenSeq(ss) = g[Len(ss)]
  <2>1. Len(ss) # 0
    OBVIOUS
  <2> QED
    BY <2>1 DEF FlattenSeq
<1> HIDE DEF g
<1>3. Len(ss) \in Nat
  OBVIOUS
<1>4. f = g
  BY <1>1, <1>3, JoinedOnce
<1> QED
  BY <1>2, <1>4

LEMMA FlattenNone == FlattenSeq(<<>>) = <<>>
  BY DEF FlattenSeq

LEMMA FlattenTyped ==
  ASSUME NEW S, NEW ss \in Seq(Seq(S))
  PROVE  FlattenSeq(ss) \in Seq(S)
<1>1. CASE ss = <<>>
  <2>1. <<>> \in Seq(S)
    OBVIOUS
  <2> QED
    BY <1>1, <2>1, FlattenNone
<1>2. CASE ss # <<>>
  <2>1. PICK f : Joins(f, ss) /\ f \in [1 .. Len(ss) -> Seq(S)]
    BY JoinsExist
  <2>2. Len(ss) \in 1 .. Len(ss)
    BY <1>2
  <2> QED
    BY <1>2, <2>1, <2>2, FlattenIs, SMTT(30)
<1> QED
  BY <1>1, <1>2

LEMMA FlattenNext ==
  ASSUME NEW S, NEW n \in Nat, NEW ss \in [1 .. n + 1 -> Seq(S)], NEW tt, tt = [i \in 1 .. n |-> ss[i]]
  PROVE  FlattenSeq(ss) = FlattenSeq(tt) \o ss[n + 1]
<1>1. ss \in Seq(Seq(S)) /\ Len(ss) = n + 1 /\ tt \in Seq(Seq(S)) /\ Len(tt) = n /\ ss # <<>>
  OBVIOUS
<1>2. PICK f : Joins(f, ss) /\ f \in [1 .. Len(ss) -> Seq(S)]
  BY <1>1, JoinsExist
<1>3. FlattenSeq(ss) = f[n + 1]
  BY <1>1, <1>2, FlattenIs
<1>4. CASE n = 0
  <2>1. f[n + 1] = ss[n + 1]
    BY <1>1, <1>2, <1>4 DEF Joins
  <2>2. tt = <<>>
    BY <1>1, <1>4
  <2>3. ss[n + 1] \in Seq(S)
    OBVIOUS
  <2>4. <<>> \o ss[n + 1] = ss[n + 1]
    BY <2>3
  <2> QED
    BY <1>3, <2>1, <2>2, <2>4, FlattenNone
<1>5. CASE n # 0
  <2> DEFINE g == [i \in 1 .. n |-> f[i]]
  <2>0. \A i \in 1 .. n + 1 : f[i] = IF i = 1 THEN ss[i] ELSE f[i - 1] \o ss[i]
    <3>1. f = [i \in 1 .. n + 1 |-> IF i = 1 THEN ss[i] ELSE f[i - 1] \o ss[i]]
      BY <1>1, <1>2 DEF Joins
    <3>2. ASSUME NEW i \in 1 .. n + 1 PROVE f[i] = IF i = 1 THEN ss[i] ELSE f[i - 1] \o ss[i]
      BY <3>1
    <3> QED
      BY <3>2
  <2>1. Joins(g, tt)
    <3>1. ASSUME NEW i \in 1 .. n PROVE g[i] = IF i = 1 THEN tt[i] ELSE g[i - 1] \o tt[i]
      <4>1. g[i] = f[i] /\ tt[i] = ss[i] /\ (i # 1 => g[i - 1] = f[i - 1])
        OBVIOUS
      <4>2. f[i] = IF i = 1 THEN ss[i] ELSE f[i - 1] \o ss[i]
        BY <2>0
      <4> QED
        BY <4>1, <4>2
    <3> QED
      BY <1>1, <3>1 DEF Joins
  <2>2. FlattenSeq(tt) = g[n]
    <3>1. tt # <<>>
      BY <1>1, <1>5
    <3> HIDE DEF g
    <3> QED
      BY <1>1, <2>1, <3>1, FlattenIs
  <2>3. f[n + 1] = f[n] \o ss[n + 1] /\ g[n] = f[n]
    <3>1. n + 1 \in 1 .. n + 1 /\ n + 1 # 1 /\ (n + 1) - 1 = n /\ n \in 1 .. n
      BY <1>5
    <3> QED
      BY <2>0, <3>1
  <2> HIDE DEF g
  <2> QED
    BY <1>3, <2>2, <2>3
<1> QED
  BY <1>4, <1>5
-----------------------------------------------------------------------------
(* Files as they are meant to be: a header and blocks of its format.       *)
WellFormed(bs) ==
  /\ bs \in Seq(SectionHeader \cup ClassicHeader \cup Carried) /\ bs # <<>>
  /\ bs[1] \in SectionHeader \cup ClassicHeader
  /\ \A i \in 2 .. Len(bs) :
       /\ bs[i] \in SectionHeader \cup Carried /\ Sized(bs[i])
       /\ bs[i].type = "record" <=> bs[1].type = "classic"

Kind == DOMAIN TypeOf

LEMMA Kinds ==
  ASSUME NEW bs, WellFormed(bs), NEW i \in 1 .. Len(bs)
  PROVE  /\ bs[i].type \in Kind \cup {"classic", "record"}
         /\ bs[i].type \in {"section", "classic"} => bs[i].order \in Orders
         /\ bs[i].type = "classic" <=> i = 1 /\ bs[1].type = "classic"
         /\ bs[i].type = "record" <=> i # 1 /\ bs[1].type = "classic"
         /\ i = 1 => bs[1].type \in {"section", "classic"}
<1>1. CASE i = 1
  <2>1. bs[1] \in SectionHeader \cup ClassicHeader
    BY DEF WellFormed
  <2>2. CASE bs[1] \in SectionHeader
    BY <1>1, <2>2 DEF SectionHeader, Kind, TypeOf
  <2>3. CASE bs[1] \in ClassicHeader
    BY <1>1, <2>3 DEF ClassicHeader, Kind, TypeOf
  <2> QED
    BY <2>1, <2>2, <2>3
<1>2. CASE i # 1
  <2>1. i \in 2 .. Len(bs)
    BY <1>2
  <2>2. bs[i] \in SectionHeader \cup Carried /\ (bs[i].type = "record" <=> bs[1].type = "classic")
    BY <2>1 DEF WellFormed
  <2>3. CASE bs[i] \in SectionHeader
    BY <1>2, <2>2, <2>3 DEF SectionHeader, Kind, TypeOf
  <2>4. CASE bs[i] \in Carried
    BY <1>2, <2>2, <2>4 DEF Carried, Kind, TypeOf
  <2> QED
    BY <2>2, <2>3, <2>4
<1> QED
  BY <1>1, <1>2

LEMMA LengthIs == \A bs : WellFormed(bs) => Len(bs) \in Nat /\ Len(bs) >= 1 /\ 1 \in 1 .. Len(bs)
  BY DEF WellFormed

Heads(bs, i, j) ==
  /\ j \in 1 .. i /\ bs[j].type \in {"section", "classic"}
  /\ \A k \in j + 1 .. i : bs[k].type # "section"

LEMMA SectionIs ==
  ASSUME NEW bs, WellFormed(bs), NEW i \in 1 .. Len(bs), NEW j, Heads(bs, i, j)
  PROVE  SectionOf(bs, i) = j
<1>1. Len(bs) \in Nat
  BY LengthIs
<1>2. ASSUME NEW k, Heads(bs, i, k) PROVE k = j
  <2>1. ASSUME NEW a \in 1 .. i, NEW b \in 1 .. i, a < b, Heads(bs, i, a), Heads(bs, i, b) PROVE FALSE
    <3>1. b \in a + 1 .. i /\ b \in 1 .. Len(bs) /\ b # 1
      BY <1>1, <2>1
    <3>2. bs[b].type = "classic"
      BY <2>1, <3>1 DEF Heads
    <3> QED
      BY <3>1, <3>2, Kinds
  <2>2. j \in 1 .. i /\ k \in 1 .. i /\ Heads(bs, i, j)
    BY <1>2 DEF Heads
  <2> QED
    BY <1>1, <1>2, <2>1, <2>2
<1>3. SectionOf(bs, i) = CHOOSE k \in 1 .. i : Heads(bs, i, k)
  BY DEF SectionOf, Heads
<1>4. j \in 1 .. i
  BY DEF Heads
<1> QED
  BY <1>2, <1>3, <1>4

LEMMA SectionFound ==
  ASSUME NEW bs, WellFormed(bs), NEW i \in 1 .. Len(bs)
  PROVE  Heads(bs, i, SectionOf(bs, i))
<1> DEFINE T == {m \in 1 .. Len(bs) : \E j : Heads(bs, m, j)}
<1>1. Len(bs) \in Nat /\ Len(bs) >= 1
  BY LengthIs
<1>2. 1 \in T
  <2>1. Heads(bs, 1, 1)
    BY <1>1, Kinds DEF Heads
  <2> QED
    BY <1>1, <2>1
<1>3. ASSUME NEW m \in 1 .. Len(bs) - 1, m \in T PROVE m + 1 \in T
  <2>1. PICK j : Heads(bs, m, j)
    BY <1>3
  <2>2. CASE bs[m + 1].type = "section"
    <3>1. Heads(bs, m + 1, m + 1)
      BY <1>1, <2>2 DEF Heads
    <3> QED
      BY <1>1, <3>1
  <2>3. CASE bs[m + 1].type # "section"
    <3>1. Heads(bs, m + 1, j)
      BY <1>1, <2>1, <2>3 DEF Heads
    <3> QED
      BY <1>1, <3>1
  <2> QED
    BY <2>2, <2>3
<1>4. i \in T
  <2> HIDE DEF T
  <2>1. \A m \in 1 .. Len(bs) : m \in T
    BY <1>1, <1>2, <1>3, PassedOn
  <2> QED
    BY <2>1
<1>5. PICK j : Heads(bs, i, j)
  BY <1>4
<1> QED
  BY <1>5, SectionIs

LEMMA SectionNext ==
  ASSUME NEW bs, WellFormed(bs), NEW i \in 1 .. Len(bs)
  PROVE  /\ bs[i].type \in {"section", "classic"} => SectionOf(bs, i) = i
         /\ bs[i].type \notin {"section", "classic"} => i # 1 /\ SectionOf(bs, i) = SectionOf(bs, i - 1)
<1>1. Len(bs) \in Nat
  BY LengthIs
<1>2. ASSUME bs[i].type \in {"section", "classic"} PROVE SectionOf(bs, i) = i
  <2>1. Heads(bs, i, i)
    BY <1>1, <1>2 DEF Heads
  <2> QED
    BY <2>1, SectionIs
<1>3. ASSUME bs[i].type \notin {"section", "classic"} PROVE i # 1 /\ SectionOf(bs, i) = SectionOf(bs, i - 1)
  <2>1. i # 1 /\ i - 1 \in 1 .. Len(bs)
    BY <1>1, <1>3, Kinds
  <2>2. Heads(bs, i - 1, SectionOf(bs, i - 1))
    BY <2>1, SectionFound
  <2>3. Heads(bs, i, SectionOf(bs, i - 1))
    BY <1>1, <1>3, <2>1, <2>2 DEF Heads
  <2> QED
    BY <2>1, <2>3, SectionIs
<1> QED
  BY <1>2, <1>3

(* What comes later changes nothing of a section.                          *)
LEMMA SectionOfPrefix ==
  ASSUME NEW bs, WellFormed(bs), NEW k \in 1 .. Len(bs), NEW i \in 1 .. k
  PROVE  /\ WellFormed(SubSeq(bs, 1, k)) /\ Len(SubSeq(bs, 1, k)) = k
         /\ \A j \in 1 .. k : SubSeq(bs, 1, k)[j] = bs[j]
         /\ SectionOf(SubSeq(bs, 1, k), i) = SectionOf(bs, i)
<1> DEFINE cs == SubSeq(bs, 1, k)
           B == SectionHeader \cup ClassicHeader \cup Carried
<1>1. Len(bs) \in Nat /\ bs \in Seq(B)
  BY LengthIs DEF WellFormed
<1>2. cs \in Seq(B) /\ Len(cs) = k /\ \A j \in 1 .. k : cs[j] = bs[j]
  <2> HIDE DEF B
  <2> QED
    BY <1>1
<1> HIDE DEF cs
<1>3. WellFormed(cs)
  <2>1. cs # <<>>
    BY <1>2
  <2>2. cs[1] = bs[1] /\ 2 .. k \subseteq 2 .. Len(bs) /\ \A j \in 2 .. k : cs[j] = bs[j]
    BY <1>1, <1>2
  <2> QED
    BY <1>2, <2>1, <2>2 DEF WellFormed
<1>4. Heads(cs, i, SectionOf(bs, i))
  <2>1. i \in 1 .. Len(bs)
    BY <1>1
  <2>2. Heads(bs, i, SectionOf(bs, i))
    BY <2>1, SectionFound
  <2>3. \A j \in 1 .. i : cs[j] = bs[j]
    BY <1>2
  <2> QED
    BY <2>2, <2>3 DEF Heads
<1>5. SectionOf(cs, i) = SectionOf(bs, i)
  BY <1>2, <1>3, <1>4, SectionIs
<1> QED
  BY <1>2, <1>3, <1>5 DEF cs
-----------------------------------------------------------------------------
(* The cells of one block.                                                 *)
Cell == [v : Nat, order : Orders]

LEMMA CellsAre ==
  ASSUME NEW s \in Seq(Nat), NEW o \in Orders
  PROVE  /\ Cells(s, o) \in Seq(Cell) /\ Len(Cells(s, o)) = Len(s)
         /\ \A i \in 1 .. Len(s) : Cells(s, o)[i] = [v |-> s[i], order |-> o]
<1>1. \A i \in 1 .. Len(s) : s[i] \in Nat
  OBVIOUS
<1>2. \A i \in 1 .. Len(s) : [v |-> s[i], order |-> o] \in Cell
  BY <1>1 DEF Cell
<1>3. Len(s) \in Nat
  OBVIOUS
<1> QED
  BY <1>2, <1>3 DEF Cells

Odd(n) == n % 2 = 1

LEMMA Parity == \A n \in Nat : Odd(n + 1) <=> ~ Odd(n)
  BY DEF Odd

LEMMA PadIs ==
  ASSUME NEW s \in Seq(Nat)
  PROVE  /\ AppendPad(s) \in Seq(Nat)
         /\ Len(AppendPad(s)) = IF Odd(Len(s)) THEN Len(s) + 1 ELSE Len(s)
         /\ \A i \in 1 .. Len(s) : AppendPad(s)[i] = s[i]
<1>1. AppendPad(s) = IF Odd(Len(s)) THEN Append(s, 0) ELSE s
  BY DEF AppendPad, Odd
<1>2. CASE Odd(Len(s))
  BY <1>1, <1>2
<1>3. CASE ~ Odd(Len(s))
  BY <1>1, <1>3
<1> QED
  BY <1>2, <1>3

LEMMA FramedIs ==
  ASSUME NEW type \in Kind, NEW body \in Seq(Nat), NEW o \in Orders
  PROVE  /\ Framed(type, body, o) \in Seq(Cell) /\ Len(Framed(type, body, o)) = Len(body) + 3
         /\ Framed(type, body, o)[1] = [v |-> TypeOf[type], order |-> o]
         /\ Framed(type, body, o)[2] = [v |-> Len(body) + 3, order |-> o]
         /\ \A i \in 1 .. Len(body) : Framed(type, body, o)[i + 2] = [v |-> body[i], order |-> o]
<1> DEFINE n == Len(body)
           s == <<TypeOf[type], n + 3>> \o body \o <<n + 3>>
<1>1. n \in Nat /\ TypeOf[type] \in Nat
  BY DEF Kind, TypeOf
<1>2. /\ s \in Seq(Nat) /\ Len(s) = n + 3 /\ s[1] = TypeOf[type] /\ s[2] = n + 3
      /\ \A i \in 1 .. n : s[i + 2] = body[i]
  <2>1. <<TypeOf[type], n + 3>> \in Seq(Nat) /\ <<n + 3>> \in Seq(Nat)
    BY <1>1
  <2> QED
    BY <1>1, <2>1
<1>3. 1 \in 1 .. n + 3 /\ 2 \in 1 .. n + 3 /\ \A i \in 1 .. n : i + 2 \in 1 .. n + 3
  BY <1>1
<1>4. Framed(type, body, o) = Cells(s, o)
  BY DEF Framed
<1> HIDE DEF s
<1> QED
  BY <1>2, <1>3, <1>4, CellsAre, SMTT(30)

Unpadded(b) == b.orig = Len(b.data) \/ (Odd(Len(b.data)) /\ b.orig > Len(b.data))

(* Bodies, by type of block. *)
LEMMA BlocksHold ==
  ASSUME NEW bs, WellFormed(bs), NEW i \in 1 .. Len(bs)
  PROVE  /\ bs[i].type = "interface" =>
              bs[i].link \in Nat /\ bs[i].resol \in Seq(Nat) /\ Len(bs[i].resol) <= 1
         /\ bs[i].type = "enhanced" => bs[i].iface \in Nat /\ bs[i].ticks \in Nat
         /\ bs[i].type \in {"enhanced", "simple", "record"} => bs[i].orig \in Nat
         /\ bs[i].type \in {"enhanced", "simple", "secrets", "record"} =>
              bs[i].data \in Seq(Nat) /\ Len(bs[i].data) + 9 <= MaxBlock
         /\ bs[i].type = "simple" => Unpadded(bs[i])
         /\ bs[i].type = "record" => bs[i].sec \in Nat /\ bs[i].frac \in Nat
         /\ bs[i].type = "classic" => bs[i].snap \in Nat /\ bs[i].link \in Nat /\ bs[i].unit \in {"micro", "nano"}
<1>1. CASE i = 1
  <2>1. bs[1] \in SectionHeader \cup ClassicHeader
    BY DEF WellFormed
  <2>2. CASE bs[1] \in SectionHeader
    BY <1>1, <2>2 DEF SectionHeader
  <2>3. CASE bs[1] \in ClassicHeader
    BY <1>1, <2>3 DEF ClassicHeader
  <2> QED
    BY <2>1, <2>2, <2>3
<1>2. CASE i # 1
  <2>1. i \in 2 .. Len(bs)
    BY <1>2
  <2>2. bs[i] \in SectionHeader \cup Carried /\ Sized(bs[i])
    BY <2>1 DEF WellFormed
  <2>3. CASE bs[i] \in SectionHeader
    BY <2>3 DEF SectionHeader
  <2>4. CASE bs[i] \in Carried
    BY <2>2, <2>4 DEF Carried, Sized, Unpadded, Odd
  <2> QED
    BY <2>2, <2>3, <2>4
<1> QED
  BY <1>1, <1>2

LEMMA SectionBody ==
  \A b : b.type = "section" => BlockBody(b) = <<Magic, 1, 0>> /\ BlockBody(b) \in Seq(Nat) /\ Len(BlockBody(b)) = 3
  BY DEF BlockBody, Magic

LEMMA InterfaceBody ==
  ASSUME NEW b, b.type = "interface", b.link \in Nat, b.resol \in Seq(Nat), Len(b.resol) <= 1
  PROVE  /\ BlockBody(b) \in Seq(Nat) /\ Len(BlockBody(b)) = 2 + Len(b.resol)
         /\ BlockBody(b)[1] = b.link
         /\ b.resol # <<>> => Len(BlockBody(b)) = 3 /\ BlockBody(b)[3] = b.resol[1]
<1>1. BlockBody(b) = <<b.link, 0>> \o b.resol
  BY SMT DEF BlockBody
<1> DEFINE n == Len(b.resol)
<1>2. <<b.link, 0>> \in Seq(Nat) /\ n \in Nat /\ n <= 1 /\ (b.resol # <<>> => n # 0)
  OBVIOUS
<1> HIDE DEF n
<1>3. n = 0 \/ n = 1
  BY <1>2
<1> QED
  BY <1>1, <1>2, <1>3 DEF n

LEMMA EnhancedBody ==
  ASSUME NEW b, b.type = "enhanced", b.iface \in Nat, b.ticks \in Nat, b.orig \in Nat, b.data \in Seq(Nat)
  PROVE  /\ BlockBody(b) \in Seq(Nat)
         /\ Len(BlockBody(b)) \in Len(b.data) + 5 .. Len(b.data) + 6
         /\ BlockBody(b)[1] = b.iface /\ BlockBody(b)[4] = Len(b.data) /\ BlockBody(b)[5] = b.orig
         /\ BlockBody(b)[2] * TickBase + BlockBody(b)[3] = b.ticks
         /\ BlockBody(b)[2] \in Nat /\ BlockBody(b)[3] \in Nat
         /\ \A i \in 1 .. Len(b.data) : BlockBody(b)[5 + i] = b.data[i]
<1> DEFINE hi == b.ticks \div TickBase
           lo == b.ticks % TickBase
           n == Len(b.data)
           s == <<b.iface, hi, lo, n, b.orig>> \o b.data
<1>1. hi \in Nat /\ lo \in Nat /\ n \in Nat /\ hi * TickBase + lo = b.ticks
  BY SMTT(30) DEF TickBase
<1>2. BlockBody(b) = AppendPad(s)
  BY DEF BlockBody
<1> HIDE DEF hi, lo
<1>3. /\ s \in Seq(Nat) /\ Len(s) = n + 5
      /\ s[1] = b.iface /\ s[2] = hi /\ s[3] = lo /\ s[4] = n /\ s[5] = b.orig
      /\ \A i \in 1 .. n : s[5 + i] = b.data[i]
  <2>1. <<b.iface, hi, lo, n, b.orig>> \in Seq(Nat)
    BY <1>1
  <2> QED
    BY <1>1, <2>1
<1>4. \A j \in 1 .. 5 : j \in 1 .. n + 5
  BY <1>1
<1>5. \A i \in 1 .. n : 5 + i \in 1 .. n + 5
  BY <1>1
<1> HIDE DEF s
<1>6. /\ AppendPad(s) \in Seq(Nat) /\ Len(AppendPad(s)) \in n + 5 .. n + 6
      /\ \A j \in 1 .. n + 5 : AppendPad(s)[j] = s[j]
  <2>1. /\ AppendPad(s) \in Seq(Nat)
        /\ Len(AppendPad(s)) = IF Odd(Len(s)) THEN Len(s) + 1 ELSE Len(s)
        /\ \A i \in 1 .. Len(s) : AppendPad(s)[i] = s[i]
    BY <1>3, PadIs
  <2>2. Len(s) = n + 5
    BY <1>3
  <2> HIDE DEF n
  <2>3. CASE Odd(Len(s))
    BY <1>1, <2>1, <2>2, <2>3
  <2>4. CASE ~ Odd(Len(s))
    BY <1>1, <2>1, <2>2, <2>4
  <2> QED
    BY <2>3, <2>4
<1> HIDE DEF n
<1>7. 1 \in 1 .. n + 5 /\ 2 \in 1 .. n + 5 /\ 3 \in 1 .. n + 5 /\ 4 \in 1 .. n + 5 /\ 5 \in 1 .. n + 5
  BY <1>1
<1>8. /\ BlockBody(b)[1] = b.iface /\ BlockBody(b)[2] = hi /\ BlockBody(b)[3] = lo
      /\ BlockBody(b)[4] = n /\ BlockBody(b)[5] = b.orig
  <2>1. \A j \in 1 .. n + 5 : BlockBody(b)[j] = s[j]
    BY <1>2, <1>6
  <2>2. s[1] = b.iface /\ s[2] = hi /\ s[3] = lo /\ s[4] = n /\ s[5] = b.orig
    BY <1>3
  <2>3. /\ BlockBody(b)[1] = s[1] /\ BlockBody(b)[2] = s[2] /\ BlockBody(b)[3] = s[3]
        /\ BlockBody(b)[4] = s[4] /\ BlockBody(b)[5] = s[5]
    BY <1>7, <2>1
  <2> QED
    BY <2>2, <2>3
<1>9. \A i \in 1 .. n : BlockBody(b)[5 + i] = b.data[i]
  BY <1>2, <1>3, <1>5, <1>6
<1>10. BlockBody(b)[2] * TickBase + BlockBody(b)[3] = b.ticks /\ BlockBody(b)[2] \in Nat /\ BlockBody(b)[3] \in Nat
  BY <1>1, <1>8
<1>11. BlockBody(b) \in Seq(Nat) /\ Len(BlockBody(b)) \in n + 5 .. n + 6
  BY <1>2, <1>6
<1> QED
  BY <1>8, <1>9, <1>10, <1>11 DEF n

LEMMA SimpleBody ==
  ASSUME NEW b, b.type = "simple", b.orig \in Nat, b.data \in Seq(Nat)
  PROVE  /\ BlockBody(b) \in Seq(Nat)
         /\ Len(BlockBody(b)) = IF Odd(Len(b.data)) THEN Len(b.data) + 1 ELSE Len(b.data) + 2
         /\ BlockBody(b)[1] = b.orig
         /\ \A i \in 1 .. Len(b.data) : BlockBody(b)[1 + i] = b.data[i]
<1> DEFINE n == Len(b.data)
           s == <<b.orig>> \o b.data
<1>1. BlockBody(b) = AppendPad(s)
  BY DEF BlockBody
<1>2. n \in Nat /\ s \in Seq(Nat) /\ Len(s) = n + 1 /\ s[1] = b.orig /\ \A i \in 1 .. n : s[1 + i] = b.data[i]
  OBVIOUS
<1>3. 1 \in 1 .. n + 1 /\ \A i \in 1 .. n : 1 + i \in 1 .. n + 1
  BY <1>2
<1>4. Odd(n + 1) <=> ~ Odd(n)
  BY <1>2, Parity
<1>5. s \in Seq(Nat)
  BY <1>2
<1> HIDE DEF s
<1>6. /\ AppendPad(s) \in Seq(Nat)
      /\ Len(AppendPad(s)) = IF Odd(Len(s)) THEN Len(s) + 1 ELSE Len(s)
      /\ \A i \in 1 .. Len(s) : AppendPad(s)[i] = s[i]
  BY <1>5, PadIs
<1> QED
  BY <1>1, <1>2, <1>3, <1>4, <1>6

LEMMA SecretsBody ==
  ASSUME NEW b, b.type = "secrets", b.data \in Seq(Nat)
  PROVE  BlockBody(b) \in Seq(Nat) /\ Len(BlockBody(b)) \in 0 .. Len(b.data) + 3
<1> DEFINE s == <<5, Len(b.data)>> \o b.data
<1>1. BlockBody(b) = AppendPad(s)
  BY DEF BlockBody
<1>2. s \in Seq(Nat) /\ Len(s) = Len(b.data) + 2 /\ Len(b.data) \in Nat
  OBVIOUS
<1> HIDE DEF s
<1>0. s \in Seq(Nat)
  BY <1>2
<1>3. AppendPad(s) \in Seq(Nat) /\ Len(AppendPad(s)) \in Len(s) .. Len(s) + 1
  BY <1>0, PadIs, SMTT(30)
<1> QED
  BY <1>1, <1>2, <1>3

LEMMA BodyTyped ==
  ASSUME NEW bs, WellFormed(bs), NEW i \in 1 .. Len(bs), bs[i].type \in Kind
  PROVE  /\ BlockBody(bs[i]) \in Seq(Nat) /\ Len(BlockBody(bs[i])) + 3 <= MaxBlock
         /\ Encoded(bs, i) = Framed(bs[i].type, BlockBody(bs[i]), OrderAt(bs, i))
<1> DEFINE b == bs[i]
<1>1. Encoded(bs, i) = Framed(b.type, BlockBody(b), OrderAt(bs, i))
  BY DEF Encoded, Kind, TypeOf
<1>2. MaxBlock \in Nat /\ 9 <= MaxBlock
  BY FilesAssumption DEF Garbled
<1>3. b.type \in {"section", "interface", "enhanced", "simple", "secrets"}
  BY DEF Kind, TypeOf
<1> SUFFICES BlockBody(b) \in Seq(Nat) /\ Len(BlockBody(b)) + 3 <= MaxBlock
  BY <1>1
<1> HIDE DEF b
<1>0. b = bs[i]
  BY DEF b
<1>4. CASE b.type = "section"
  <2>1. BlockBody(b) \in Seq(Nat) /\ Len(BlockBody(b)) = 3
    BY <1>4, SectionBody
  <2> QED
    BY <1>2, <2>1
<1>5. CASE b.type = "interface"
  <2>1. b.link \in Nat /\ b.resol \in Seq(Nat) /\ Len(b.resol) <= 1
    BY <1>0, <1>5, BlocksHold
  <2>2. BlockBody(b) \in Seq(Nat) /\ Len(BlockBody(b)) = 2 + Len(b.resol)
    BY <1>5, <2>1, InterfaceBody
  <2> QED
    BY <1>2, <2>1, <2>2
<1>6. CASE b.type = "enhanced"
  <2>0. b.data \in Seq(Nat) /\ Len(b.data) + 9 <= MaxBlock
    BY <1>0, <1>6, BlocksHold
  <2>1. Len(b.data) \in Nat /\ Len(b.data) + 9 <= MaxBlock
    BY <2>0
  <2>2. b.iface \in Nat /\ b.ticks \in Nat /\ b.orig \in Nat
    BY <1>0, <1>6, BlocksHold
  <2>3. BlockBody(b) \in Seq(Nat) /\ Len(BlockBody(b)) \in Len(b.data) + 5 .. Len(b.data) + 6
    BY <1>6, <2>0, <2>2, EnhancedBody
  <2> QED
    BY <1>2, <2>1, <2>3
<1>7. CASE b.type = "simple"
  <2>0. b.data \in Seq(Nat) /\ Len(b.data) + 9 <= MaxBlock
    BY <1>0, <1>7, BlocksHold
  <2>1. Len(b.data) \in Nat /\ Len(b.data) + 9 <= MaxBlock
    BY <2>0
  <2>2. b.orig \in Nat
    BY <1>0, <1>7, BlocksHold
  <2>3. /\ BlockBody(b) \in Seq(Nat)
        /\ Len(BlockBody(b)) = IF Odd(Len(b.data)) THEN Len(b.data) + 1 ELSE Len(b.data) + 2
    BY <1>7, <2>0, <2>2, SimpleBody
  <2> QED
    BY <1>2, <2>1, <2>3
<1>8. CASE b.type = "secrets"
  <2>0. b.data \in Seq(Nat) /\ Len(b.data) + 9 <= MaxBlock
    BY <1>0, <1>8, BlocksHold
  <2>1. Len(b.data) \in Nat /\ Len(b.data) + 9 <= MaxBlock
    BY <2>0
  <2>2. BlockBody(b) \in Seq(Nat) /\ Len(BlockBody(b)) \in 0 .. Len(b.data) + 3
    BY <1>8, <2>0, SecretsBody
  <2> QED
    BY <1>2, <2>1, <2>2
<1> QED
  BY <1>1, <1>3, <1>4, <1>5, <1>6, <1>7, <1>8

LEMMA OrderFound ==
  ASSUME NEW bs, WellFormed(bs), NEW i \in 1 .. Len(bs)
  PROVE  OrderAt(bs, i) \in Orders
<1>1. Heads(bs, i, SectionOf(bs, i))
  BY SectionFound
<1>2. SectionOf(bs, i) \in 1 .. Len(bs) /\ bs[SectionOf(bs, i)].type \in {"section", "classic"}
  BY <1>1, LengthIs DEF Heads
<1> QED
  BY <1>2, Kinds DEF OrderAt

(* The cells of a classic header and of a classic record.                  *)
LEMMA ClassicIs ==
  ASSUME NEW bs, WellFormed(bs), bs[1].type = "classic"
  PROVE  /\ Encoded(bs, 1) \in Seq(Cell) /\ Len(Encoded(bs, 1)) = 3
         /\ Encoded(bs, 1)[1] = [v |-> ClassicMagic[bs[1].unit], order |-> bs[1].order]
         /\ Encoded(bs, 1)[3] = [v |-> bs[1].link, order |-> bs[1].order]
<1> DEFINE s == <<ClassicMagic[bs[1].unit], bs[1].snap, bs[1].link>>
<1>1. /\ 1 \in 1 .. Len(bs) /\ bs[1].order \in Orders /\ bs[1].unit \in {"micro", "nano"}
      /\ bs[1].snap \in Nat /\ bs[1].link \in Nat
  BY LengthIs, BlocksHold, Kinds
<1>2. Encoded(bs, 1) = Cells(s, bs[1].order)
  BY DEF Encoded
<1>3. s \in Seq(Nat) /\ Len(s) = 3 /\ s[1] = ClassicMagic[bs[1].unit] /\ s[3] = bs[1].link
  BY <1>1 DEF ClassicMagic
<1> HIDE DEF s
<1> QED
  BY <1>1, <1>2, <1>3, CellsAre

LEMMA RecordIs ==
  ASSUME NEW bs, WellFormed(bs), NEW i \in 1 .. Len(bs), bs[i].type = "record"
  PROVE  LET n == Len(bs[i].data) IN
         /\ Encoded(bs, i) \in Seq(Cell) /\ Len(Encoded(bs, i)) = n + 4
         /\ Encoded(bs, i)[1] = [v |-> bs[i].sec, order |-> OrderAt(bs, i)]
         /\ Encoded(bs, i)[2] = [v |-> bs[i].frac, order |-> OrderAt(bs, i)]
         /\ Encoded(bs, i)[3] = [v |-> n, order |-> OrderAt(bs, i)]
         /\ Encoded(bs, i)[4] = [v |-> bs[i].orig, order |-> OrderAt(bs, i)]
         /\ \A j \in 1 .. n : Encoded(bs, i)[4 + j] = [v |-> bs[i].data[j], order |-> OrderAt(bs, i)]
<1> DEFINE n == Len(bs[i].data)
           s == <<bs[i].sec, bs[i].frac, n, bs[i].orig>> \o bs[i].data
<1>1. /\ bs[i].sec \in Nat /\ bs[i].frac \in Nat /\ bs[i].orig \in Nat /\ bs[i].data \in Seq(Nat) /\ n \in Nat
      /\ OrderAt(bs, i) \in Orders
  BY BlocksHold, OrderFound
<1>2. Encoded(bs, i) = Cells(s, OrderAt(bs, i))
  BY DEF Encoded
<1>3. /\ s \in Seq(Nat) /\ Len(s) = n + 4 /\ s[1] = bs[i].sec /\ s[2] = bs[i].frac /\ s[3] = n
      /\ s[4] = bs[i].orig /\ \A j \in 1 .. n : s[4 + j] = bs[i].data[j]
  <2>1. <<bs[i].sec, bs[i].frac, n, bs[i].orig>> \in Seq(Nat)
    BY <1>1
  <2> QED
    BY <1>1, <2>1
<1>4. (\A j \in 1 .. 4 : j \in 1 .. n + 4) /\ (\A j \in 1 .. n : 4 + j \in 1 .. n + 4)
  BY <1>1
<1> HIDE DEF s
<1>5. /\ Encoded(bs, i) \in Seq(Cell) /\ Len(Encoded(bs, i)) = Len(s)
      /\ \A j \in 1 .. Len(s) : Encoded(bs, i)[j] = [v |-> s[j], order |-> OrderAt(bs, i)]
  <2>1. s \in Seq(Nat)
    BY <1>3
  <2> QED
    BY <1>1, <1>2, <2>1, CellsAre
<1>6. \A j \in 1 .. n + 4 : Encoded(bs, i)[j] = [v |-> s[j], order |-> OrderAt(bs, i)]
  BY <1>3, <1>5
<1>7. 1 \in 1 .. n + 4 /\ 2 \in 1 .. n + 4 /\ 3 \in 1 .. n + 4 /\ 4 \in 1 .. n + 4
  BY <1>1
<1>8. \A j \in 1 .. n : Encoded(bs, i)[4 + j] = [v |-> bs[i].data[j], order |-> OrderAt(bs, i)]
  BY <1>3, <1>4, <1>6
<1>9. Encoded(bs, i) \in Seq(Cell) /\ Len(Encoded(bs, i)) = n + 4
  BY <1>3, <1>5
<1> HIDE DEF n
<1>10. /\ Encoded(bs, i)[1] = [v |-> bs[i].sec, order |-> OrderAt(bs, i)]
       /\ Encoded(bs, i)[2] = [v |-> bs[i].frac, order |-> OrderAt(bs, i)]
       /\ Encoded(bs, i)[3] = [v |-> n, order |-> OrderAt(bs, i)]
       /\ Encoded(bs, i)[4] = [v |-> bs[i].orig, order |-> OrderAt(bs, i)]
  BY <1>3, <1>6, <1>7
<1> QED
  BY <1>8, <1>9, <1>10 DEF n

LEMMA EncodedTyped ==
  ASSUME NEW bs, WellFormed(bs), NEW i \in 1 .. Len(bs)
  PROVE  Encoded(bs, i) \in Seq(Cell) /\ Len(Encoded(bs, i)) \in Nat /\ Len(Encoded(bs, i)) >= 3
<1>1. CASE bs[i].type = "classic"
  <2>1. i = 1 /\ Encoded(bs, 1) \in Seq(Cell) /\ Len(Encoded(bs, 1)) = 3
    BY <1>1, ClassicIs, Kinds
  <2> QED
    BY <2>1
<1>2. CASE bs[i].type = "record"
  <2>1. Encoded(bs, i) \in Seq(Cell) /\ Len(Encoded(bs, i)) = Len(bs[i].data) + 4 /\ bs[i].data \in Seq(Nat)
    BY <1>2, RecordIs, BlocksHold
  <2> QED
    BY <2>1
<1>3. CASE bs[i].type \in Kind
  <2>1. BlockBody(bs[i]) \in Seq(Nat) /\ Encoded(bs, i) = Framed(bs[i].type, BlockBody(bs[i]), OrderAt(bs, i))
    BY <1>3, BodyTyped
  <2>2. Encoded(bs, i) \in Seq(Cell) /\ Len(Encoded(bs, i)) = Len(BlockBody(bs[i])) + 3
    <3>1. OrderAt(bs, i) \in Orders
      BY OrderFound
    <3> DEFINE f == Framed(bs[i].type, BlockBody(bs[i]), OrderAt(bs, i))
    <3>2. f \in Seq(Cell) /\ Len(f) = Len(BlockBody(bs[i])) + 3
      BY <1>3, <2>1, <3>1, FramedIs
    <3> HIDE DEF f
    <3>3. Encoded(bs, i) = f
      BY <2>1 DEF f
    <3> QED
      BY <3>2, <3>3
  <2> QED
    BY <2>1, <2>2
<1> QED
  BY <1>1, <1>2, <1>3, Kinds
-----------------------------------------------------------------------------
(* The first k blocks of a file, and where they end.                       *)
Begun(bs, k) == FlattenSeq([i \in 1 .. k |-> Encoded(bs, i)])
End(bs, k) == Len(Begun(bs, k))

LEMMA BegunIs ==
  ASSUME NEW bs, WellFormed(bs)
  PROVE  /\ Begun(bs, 0) = <<>>
         /\ \A k \in 0 .. Len(bs) : Begun(bs, k) \in Seq(Cell)
         /\ \A k \in 0 .. Len(bs) - 1 : Begun(bs, k + 1) = Begun(bs, k) \o Encoded(bs, k + 1)
<1>1. Len(bs) \in Nat /\ \A i \in 1 .. Len(bs) : Encoded(bs, i) \in Seq(Cell)
  BY LengthIs, EncodedTyped
<1>2. Begun(bs, 0) = <<>>
  <2>1. [i \in 1 .. 0 |-> Encoded(bs, i)] = <<>>
    OBVIOUS
  <2> QED
    BY <2>1, FlattenNone DEF Begun
<1>3. ASSUME NEW k \in 0 .. Len(bs) PROVE Begun(bs, k) \in Seq(Cell)
  <2> DEFINE ss == [i \in 1 .. k |-> Encoded(bs, i)]
  <2>1. k \in Nat /\ \A i \in 1 .. k : Encoded(bs, i) \in Seq(Cell)
    BY <1>1
  <2>2. ss \in Seq(Seq(Cell))
    BY <2>1
  <2> HIDE DEF ss
  <2>3. FlattenSeq(ss) \in Seq(Cell)
    BY <2>2, FlattenTyped
  <2> QED
    BY <2>3 DEF Begun, ss
<1>4. ASSUME NEW k \in 0 .. Len(bs) - 1 PROVE Begun(bs, k + 1) = Begun(bs, k) \o Encoded(bs, k + 1)
  <2> DEFINE ss == [i \in 1 .. k + 1 |-> Encoded(bs, i)]
             tt == [i \in 1 .. k |-> Encoded(bs, i)]
  <2>1. k \in Nat /\ \A i \in 1 .. k + 1 : Encoded(bs, i) \in Seq(Cell)
    BY <1>1
  <2>2. ss \in [1 .. k + 1 -> Seq(Cell)] /\ ss[k + 1] = Encoded(bs, k + 1)
    BY <2>1
  <2>3. tt = [i \in 1 .. k |-> ss[i]]
    BY <2>1
  <2> HIDE DEF ss, tt
  <2>4. FlattenSeq(ss) = FlattenSeq(tt) \o ss[k + 1]
    BY <2>1, <2>2, <2>3, FlattenNext
  <2> QED
    BY <2>2, <2>4 DEF Begun, ss, tt
<1> QED
  BY <1>2, <1>3, <1>4

LEMMA EncodedOfPrefix ==
  ASSUME NEW bs, WellFormed(bs), NEW k \in 1 .. Len(bs), NEW i \in 1 .. k
  PROVE  /\ Encoded(SubSeq(bs, 1, k), i) = Encoded(bs, i)
         /\ OrderAt(SubSeq(bs, 1, k), i) = OrderAt(bs, i)
<1> DEFINE cs == SubSeq(bs, 1, k)
<1>1. /\ \A j \in 1 .. k : cs[j] = bs[j]
      /\ SectionOf(cs, i) = SectionOf(bs, i)
  BY SectionOfPrefix
<1>2. SectionOf(bs, i) \in 1 .. k /\ i \in 1 .. k
  <2>1. Len(bs) \in Nat
    BY LengthIs
  <2>2. i \in 1 .. Len(bs)
    BY <2>1
  <2> QED
    BY <2>1, <2>2, SectionFound DEF Heads
<1> HIDE DEF cs
<1>3. OrderAt(cs, i) = OrderAt(bs, i) /\ cs[i] = bs[i]
  BY <1>1, <1>2 DEF OrderAt
<1>4. Encoded(cs, i) = Encoded(bs, i)
  BY <1>3 DEF Encoded
<1> QED
  BY <1>3, <1>4 DEF cs

LEMMA EncodeIs ==
  ASSUME NEW bs, WellFormed(bs)
  PROVE  /\ Encode(bs) = Begun(bs, Len(bs))
         /\ \A k \in 0 .. Len(bs) : Encode(SubSeq(bs, 1, k)) = Begun(bs, k)
<1>1. Encode(bs) = Begun(bs, Len(bs))
  BY DEF Encode, Begun
<1>2. ASSUME NEW k \in 0 .. Len(bs) PROVE Encode(SubSeq(bs, 1, k)) = Begun(bs, k)
  <2> DEFINE cs == SubSeq(bs, 1, k)
  <2>1. Len(bs) \in Nat /\ k \in 0 .. Len(bs)
    BY LengthIs
  <2>2. CASE k = 0
    <3>1. cs = <<>>
      BY <2>1, <2>2
    <3>2. [i \in 1 .. Len(cs) |-> Encoded(cs, i)] = <<>>
      BY <3>1
    <3>3. Encode(cs) = <<>>
      BY <3>2, FlattenNone DEF Encode
    <3> QED
      BY <2>2, <3>3, BegunIs
  <2>3. CASE k # 0
    <3>1. k \in 1 .. Len(bs) /\ k \in 1 .. k
      BY <2>1, <2>3
    <3>2. Len(cs) = k
      BY <3>1, SectionOfPrefix
    <3>3. \A i \in 1 .. k : Encoded(cs, i) = Encoded(bs, i)
      BY <3>1, EncodedOfPrefix
    <3> HIDE DEF cs
    <3>4. [i \in 1 .. Len(cs) |-> Encoded(cs, i)] = [i \in 1 .. k |-> Encoded(bs, i)]
      BY <3>2, <3>3
    <3> QED
      BY <3>4 DEF Encode, Begun, cs
  <2> QED
    BY <2>2, <2>3
<1> QED
  BY <1>1, <1>2

LEMMA EndIs ==
  ASSUME NEW bs, WellFormed(bs)
  PROVE  /\ End(bs, 0) = 0
         /\ \A k \in 0 .. Len(bs) : End(bs, k) \in Nat
         /\ \A k \in 0 .. Len(bs) - 1 :
              /\ End(bs, k + 1) = End(bs, k) + Len(Encoded(bs, k + 1))
              /\ Len(Encoded(bs, k + 1)) \in Nat /\ Len(Encoded(bs, k + 1)) >= 3
<1>1. Len(bs) \in Nat
  BY LengthIs
<1>2. End(bs, 0) = 0
  BY BegunIs DEF End
<1>3. \A k \in 0 .. Len(bs) : End(bs, k) \in Nat
  BY BegunIs DEF End
<1>4. ASSUME NEW k \in 0 .. Len(bs) - 1
      PROVE  /\ End(bs, k + 1) = End(bs, k) + Len(Encoded(bs, k + 1))
             /\ Len(Encoded(bs, k + 1)) \in Nat /\ Len(Encoded(bs, k + 1)) >= 3
  <2>1. k \in 0 .. Len(bs) /\ k + 1 \in 1 .. Len(bs)
    BY <1>1
  <2>2. Encoded(bs, k + 1) \in Seq(Cell) /\ Len(Encoded(bs, k + 1)) \in Nat /\ Len(Encoded(bs, k + 1)) >= 3
    BY <2>1, EncodedTyped
  <2>3. Begun(bs, k + 1) = Begun(bs, k) \o Encoded(bs, k + 1) /\ Begun(bs, k) \in Seq(Cell)
    BY <2>1, BegunIs
  <2> QED
    BY <2>2, <2>3 DEF End
<1> QED
  BY <1>2, <1>3, <1>4

LEMMA EndsGrow ==
  ASSUME NEW bs, WellFormed(bs), NEW k \in 0 .. Len(bs), NEW l \in k .. Len(bs)
  PROVE  End(bs, k) + 3 * (l - k) <= End(bs, l)
<1> DEFINE T == {m \in k .. Len(bs) : End(bs, k) + 3 * (m - k) <= End(bs, m)}
<1>1. Len(bs) \in Nat /\ k \in Nat
  BY LengthIs
<1>2. End(bs, k) \in Nat
  BY EndIs
<1>3. k \in T
  BY <1>1, <1>2
<1>4. ASSUME NEW m \in k .. Len(bs) - 1, m \in T PROVE m + 1 \in T
  <2>1. m \in 0 .. Len(bs) - 1 /\ m \in 0 .. Len(bs)
    BY <1>1
  <2>2. /\ End(bs, m + 1) = End(bs, m) + Len(Encoded(bs, m + 1)) /\ End(bs, m) \in Nat
        /\ Len(Encoded(bs, m + 1)) \in Nat /\ Len(Encoded(bs, m + 1)) >= 3
    BY <2>1, EndIs
  <2>3. End(bs, k) + 3 * (m - k) <= End(bs, m) /\ m \in Nat
    BY <1>1, <1>4
  <2> QED
    BY <1>1, <1>2, <2>2, <2>3
<1> HIDE DEF T
<1>5. \A m \in k .. Len(bs) : m \in T
  BY <1>1, <1>3, <1>4, PassedOn
<1> QED
  BY <1>5 DEF T

LEMMA BlockHeld ==
  ASSUME NEW bs, WellFormed(bs), NEW k \in 0 .. Len(bs) - 1, NEW l \in k + 1 .. Len(bs)
  PROVE  \A j \in 1 .. Len(Encoded(bs, k + 1)) : Begun(bs, l)[End(bs, k) + j] = Encoded(bs, k + 1)[j]
<1> DEFINE e == Encoded(bs, k + 1)
           T == {m \in k + 1 .. Len(bs) : \A j \in 1 .. Len(e) : Begun(bs, m)[End(bs, k) + j] = e[j]}
<1>1. Len(bs) \in Nat /\ k \in Nat /\ k + 1 \in Nat
  BY LengthIs
<1>2. /\ e \in Seq(Cell) /\ Begun(bs, k) \in Seq(Cell) /\ Begun(bs, k + 1) = Begun(bs, k) \o e
      /\ k + 1 \in 1 .. Len(bs)
  <2>1. k \in 0 .. Len(bs) /\ k + 1 \in 1 .. Len(bs)
    BY <1>1
  <2> QED
    BY <2>1, BegunIs, EncodedTyped
<1> HIDE DEF e
<1>3. k + 1 \in T
  <2>1. \A j \in 1 .. Len(e) : Begun(bs, k + 1)[End(bs, k) + j] = e[j]
    BY <1>2 DEF End
  <2> QED
    BY <1>1, <1>2, <2>1
<1>4. ASSUME NEW m \in k + 1 .. Len(bs) - 1, m \in T PROVE m + 1 \in T
  <2>1. m \in 0 .. Len(bs) /\ m + 1 \in 1 .. Len(bs) /\ m \in 0 .. Len(bs) - 1 /\ k \in 0 .. Len(bs) /\ m \in k + 1 .. Len(bs)
        /\ m + 1 \in k + 1 .. Len(bs) /\ m \in Nat /\ k + 1 \in 0 .. Len(bs)
    BY <1>1
  <2>2. Begun(bs, m + 1) = Begun(bs, m) \o Encoded(bs, m + 1) /\ Begun(bs, m) \in Seq(Cell) /\ Encoded(bs, m + 1) \in Seq(Cell)
    BY <2>1, BegunIs, EncodedTyped
  <2>3. End(bs, k) \in Nat /\ End(bs, k + 1) = End(bs, k) + Len(e) /\ End(bs, m) \in Nat /\ Len(e) \in Nat
    BY <2>1, EndIs DEF e
  <2>4. End(bs, k + 1) <= End(bs, m)
    <3>1. End(bs, k + 1) + 3 * (m - (k + 1)) <= End(bs, m)
      BY <2>1, EndsGrow
    <3>2. End(bs, k + 1) \in Nat /\ m - (k + 1) \in Nat
      BY <1>1, <2>1, <2>3
    <3> QED
      BY <2>3, <3>1, <3>2
  <2>5. ASSUME NEW j \in 1 .. Len(e) PROVE Begun(bs, m + 1)[End(bs, k) + j] = e[j]
    <3>1. End(bs, k) + j \in 1 .. Len(Begun(bs, m))
      BY <2>3, <2>4 DEF End
    <3>2. Begun(bs, m + 1)[End(bs, k) + j] = Begun(bs, m)[End(bs, k) + j]
      BY <2>2, <3>1
    <3> QED
      BY <1>4, <3>2
  <2> QED
    BY <2>1, <2>5
<1> HIDE DEF T
<1>5. \A m \in k + 1 .. Len(bs) : m \in T
  BY <1>1, <1>3, <1>4, PassedOn
<1> QED
  BY <1>5 DEF T, e

(* A file that was cut short has the cells it has.                         *)
Cut(bs, n) == SubSeq(Encode(bs), 1, n)

LEMMA CutHolds ==
  ASSUME NEW bs, WellFormed(bs), NEW n \in 0 .. End(bs, Len(bs))
  PROVE  /\ Cut(bs, n) \in Seq(Cell) /\ Len(Cut(bs, n)) = n
         /\ \A k \in 0 .. Len(bs) - 1 : \A j \in 1 .. Len(Encoded(bs, k + 1)) :
              End(bs, k) + j <= n => Cut(bs, n)[End(bs, k) + j] = Encoded(bs, k + 1)[j]
<1> DEFINE f == Encode(bs)
<1>1. Len(bs) \in Nat /\ Len(bs) \in 0 .. Len(bs)
  BY LengthIs
<1>2. f = Begun(bs, Len(bs)) /\ f \in Seq(Cell) /\ Len(f) = End(bs, Len(bs))
  BY <1>1, EncodeIs, BegunIs DEF End
<1> HIDE DEF f
<1>3. n \in Nat /\ n <= Len(f) /\ Len(f) \in Nat
  BY <1>2
<1>4. SubSeq(f, 1, n) \in Seq(Cell) /\ Len(SubSeq(f, 1, n)) = n /\ \A i \in 1 .. n : SubSeq(f, 1, n)[i] = f[i]
  BY <1>2, <1>3
<1>5. ASSUME NEW k \in 0 .. Len(bs) - 1, NEW j \in 1 .. Len(Encoded(bs, k + 1)), End(bs, k) + j <= n
      PROVE  Cut(bs, n)[End(bs, k) + j] = Encoded(bs, k + 1)[j]
  <2>1. k \in 0 .. Len(bs) /\ Len(bs) \in k + 1 .. Len(bs)
    BY <1>1
  <2>2. End(bs, k) \in Nat /\ Len(Encoded(bs, k + 1)) \in Nat
    BY <2>1, EndIs
  <2>3. End(bs, k) + j \in 1 .. n
    BY <1>3, <1>5, <2>2
  <2>4. f[End(bs, k) + j] = Encoded(bs, k + 1)[j]
    BY <1>2, <2>1, BlockHeld
  <2> QED
    BY <1>4, <2>3, <2>4 DEF Cut, f
<1> QED
  BY <1>4, <1>5 DEF Cut, f
-----------------------------------------------------------------------------
(* Interfaces are numbered by how many come before them.                   *)
Before(S, j) == {k \in S : k < j}
Nth(S, n) == CHOOSE j \in S : Cardinality(Before(S, j)) = n
Counted(S) == \A n \in 0 .. Cardinality(S) - 1 : \E j \in S : Cardinality(Before(S, j)) = n

LEMMA NthIs ==
  ASSUME NEW S \in SUBSET Nat, IsFiniteSet(S), NEW j \in S
  PROVE  Nth(S, Cardinality(Before(S, j))) = j
<1>1. ASSUME NEW a \in S, NEW b \in S, a < b PROVE Cardinality(Before(S, a)) # Cardinality(Before(S, b))
  <2> DEFINE A == Before(S, a)
             B == Before(S, b)
  <2>0. ASSUME NEW x \in S, x < a PROVE x < b
    <3>1. x \in Nat /\ a \in Nat /\ b \in Nat
      OBVIOUS
    <3> QED
      BY <1>1, <2>0, <3>1
  <2>1. A \cup {a} \subseteq B /\ a \notin A /\ A \subseteq S /\ B \subseteq S
    <3>1. a \in Nat /\ ~ (a < a)
      OBVIOUS
    <3> QED
      BY <1>1, <2>0, <3>1 DEF Before
  <2> HIDE DEF A, B
  <2>2. IsFiniteSet(A) /\ IsFiniteSet(B)
    BY <2>1, FS_Subset
  <2>3. Cardinality(A \cup {a}) = Cardinality(A) + 1 /\ IsFiniteSet(A \cup {a})
    BY <2>1, <2>2, FS_AddElement
  <2>4. Cardinality(A \cup {a}) <= Cardinality(B) /\ Cardinality(A) \in Nat /\ Cardinality(B) \in Nat
    BY <2>1, <2>2, <2>3, FS_Subset, FS_CardinalityType
  <2>5. Cardinality(A) # Cardinality(B)
    BY <2>3, <2>4
  <2> QED
    BY <2>5 DEF A, B
<1>2. \A k \in S : Cardinality(Before(S, k)) = Cardinality(Before(S, j)) => k = j
  <2>1. ASSUME NEW k \in S PROVE k < j \/ j < k \/ k = j
    <3>1. k \in Nat /\ j \in Nat
      OBVIOUS
    <3> QED
      BY <3>1
  <2> QED
    BY <1>1, <2>1
<1> QED
  BY <1>2 DEF Nth

LEMMA CountedMore ==
  ASSUME NEW S \in SUBSET Nat, IsFiniteSet(S), Counted(S), NEW k \in Nat, \A x \in S : x < k
  PROVE  /\ IsFiniteSet(S \cup {k}) /\ Cardinality(S \cup {k}) = Cardinality(S) + 1
         /\ Counted(S \cup {k})
         /\ Nth(S \cup {k}, Cardinality(S)) = k
         /\ \A n \in 0 .. Cardinality(S) - 1 : Nth(S \cup {k}, n) = Nth(S, n) /\ Nth(S, n) \in S
<1> DEFINE J == S \cup {k}
<1>1. k \notin S /\ J \in SUBSET Nat
  OBVIOUS
<1>2. IsFiniteSet(J) /\ Cardinality(J) = Cardinality(S) + 1 /\ Cardinality(S) \in Nat
  BY <1>1, FS_AddElement, FS_CardinalityType
<1>3. Before(J, k) = S
  <2>1. \A x \in J : x < k <=> x \in S
    BY <1>1
  <2> HIDE DEF J
  <2>2. S \subseteq J
    BY DEF J
  <2> QED
    BY <2>1, <2>2 DEF Before
<1>4. \A j \in S : Before(J, j) = Before(S, j)
  BY DEF Before
<1>5. k \in J /\ S \subseteq J
  OBVIOUS
<1> HIDE DEF J
<1>6. Nth(J, Cardinality(S)) = k
  BY <1>1, <1>2, <1>3, <1>5, NthIs
<1>7. ASSUME NEW n \in 0 .. Cardinality(S) - 1
      PROVE  Nth(J, n) = Nth(S, n) /\ Nth(S, n) \in S /\ \E j \in J : Cardinality(Before(J, j)) = n
  <2>1. PICK j \in S : Cardinality(Before(S, j)) = n
    BY DEF Counted
  <2>2. Nth(S, n) = j
    BY <2>1, NthIs
  <2>3. j \in J /\ Cardinality(Before(J, j)) = n
    BY <1>4, <1>5, <2>1
  <2>4. Nth(J, n) = j
    BY <1>1, <1>2, <2>3, NthIs
  <2> QED
    BY <2>2, <2>3, <2>4
<1>8. Counted(J)
  <2>1. ASSUME NEW n \in 0 .. Cardinality(J) - 1 PROVE \E j \in J : Cardinality(Before(J, j)) = n
    <3>1. n \in 0 .. Cardinality(S) - 1 \/ n = Cardinality(S)
      BY <1>2
    <3> QED
      BY <1>3, <1>5, <1>7, <3>1
  <2> QED
    BY <2>1 DEF Counted
<1> QED
  BY <1>2, <1>6, <1>7, <1>8 DEF J

LEMMA InterfacesNext ==
  ASSUME NEW bs, WellFormed(bs), NEW k \in 1 .. Len(bs)
  PROVE  /\ bs[k].type \in {"section", "classic"} => Interfaces(bs, k) = {}
         /\ bs[k].type = "interface" => Interfaces(bs, k) = Interfaces(bs, k - 1) \cup {k}
         /\ bs[k].type \notin {"section", "classic", "interface"} => Interfaces(bs, k) = Interfaces(bs, k - 1)
         /\ Interfaces(bs, k) \in SUBSET (1 .. k)
<1>1. Len(bs) \in Nat /\ SectionOf(bs, k) \in 1 .. k
  BY LengthIs, SectionFound DEF Heads
<1>2. CASE bs[k].type \in {"section", "classic"}
  <2>1. SectionOf(bs, k) = k
    BY <1>2, SectionNext
  <2> QED
    BY <1>1, <1>2, <2>1 DEF Interfaces
<1>3. CASE bs[k].type \notin {"section", "classic"}
  <2>1. k # 1 /\ SectionOf(bs, k) = SectionOf(bs, k - 1)
    BY <1>3, SectionNext
  <2>2. k - 1 \in 1 .. Len(bs)
    BY <1>1, <2>1
  <2>3. SectionOf(bs, k - 1) \in 1 .. k - 1
    BY <2>2, SectionFound DEF Heads
  <2> QED
    BY <1>1, <1>3, <2>1, <2>3 DEF Interfaces
<1> QED
  BY <1>2, <1>3

LEMMA InterfacesCounted ==
  ASSUME NEW bs, WellFormed(bs), NEW k \in 1 .. Len(bs)
  PROVE  IsFiniteSet(Interfaces(bs, k)) /\ Counted(Interfaces(bs, k)) /\ Interfaces(bs, k) \in SUBSET (1 .. k)
<1> DEFINE T == {m \in 1 .. Len(bs) : IsFiniteSet(Interfaces(bs, m)) /\ Counted(Interfaces(bs, m))}
<1>1. Len(bs) \in Nat /\ 1 \in 1 .. Len(bs)
  BY LengthIs
<1>2. IsFiniteSet({}) /\ Counted({})
  BY FS_EmptySet DEF Counted
<1>3. 1 \in T
  BY <1>1, <1>2, InterfacesNext, Kinds
<1>4. ASSUME NEW m \in 1 .. Len(bs) - 1, m \in T PROVE m + 1 \in T
  <2>1. m \in 1 .. Len(bs) /\ m + 1 \in 1 .. Len(bs) /\ (m + 1) - 1 = m
    BY <1>1
  <2>2. CASE bs[m + 1].type \in {"section", "classic"}
    BY <1>2, <2>1, <2>2, InterfacesNext
  <2>3. CASE bs[m + 1].type = "interface"
    <3> DEFINE S == Interfaces(bs, m)
    <3>1. Interfaces(bs, m + 1) = S \cup {m + 1} /\ S \in SUBSET (1 .. m)
      BY <2>1, <2>3, InterfacesNext
    <3>2. S \in SUBSET Nat /\ (\A x \in S : x < m + 1) /\ m + 1 \in Nat
      BY <1>1, <3>1
    <3>3. IsFiniteSet(S) /\ Counted(S)
      BY <1>4
    <3> HIDE DEF S
    <3>4. IsFiniteSet(S \cup {m + 1}) /\ Counted(S \cup {m + 1})
      BY <3>2, <3>3, CountedMore
    <3> QED
      BY <2>1, <3>1, <3>4
  <2>4. CASE bs[m + 1].type \notin {"section", "classic", "interface"}
    BY <1>4, <2>1, <2>4, InterfacesNext
  <2> QED
    BY <2>2, <2>3, <2>4
<1> HIDE DEF T
<1>5. \A m \in 1 .. Len(bs) : m \in T
  BY <1>1, <1>3, <1>4, PassedOn
<1> QED
  BY <1>5, InterfacesNext DEF T

(* What a reader has to know of the interfaces of a section.               *)
Known(b) == [link |-> b.link, resol |-> IF b.resol = <<>> THEN Micro ELSE b.resol[1]]
Ifaces(bs, k) ==
  [n \in 1 .. Cardinality(Interfaces(bs, k)) |-> Known(bs[Nth(Interfaces(bs, k), n - 1)])]

LEMMA IfacesNext ==
  ASSUME NEW bs, WellFormed(bs), NEW k \in 1 .. Len(bs)
  PROVE  /\ bs[k].type \in {"section", "classic"} => Ifaces(bs, k) = <<>>
         /\ bs[k].type = "interface" => Ifaces(bs, k) = Append(Ifaces(bs, k - 1), Known(bs[k]))
         /\ bs[k].type \notin {"section", "classic", "interface"} => Ifaces(bs, k) = Ifaces(bs, k - 1)
<1>1. CASE bs[k].type \in {"section", "classic"}
  <2>1. Interfaces(bs, k) = {} /\ Cardinality({}) = 0
    BY <1>1, InterfacesNext, FS_EmptySet
  <2>2. Ifaces(bs, k) = [n \in 1 .. 0 |-> Known(bs[Nth({}, n - 1)])]
    BY <2>1 DEF Ifaces
  <2>3. Ifaces(bs, k) = <<>>
    BY <2>2
  <2> QED
    BY <1>1, <2>3
<1>2. CASE bs[k].type = "interface"
  <2> DEFINE S == Interfaces(bs, k - 1)
             c == Cardinality(S)
  <2>1. Len(bs) \in Nat /\ k - 1 \in 1 .. Len(bs)
    BY <1>2, LengthIs, Kinds
  <2>7. Ifaces(bs, k - 1) = [n \in 1 .. c |-> Known(bs[Nth(S, n - 1)])]
    BY DEF Ifaces
  <2>2. Interfaces(bs, k) = S \cup {k}
    BY <1>2, InterfacesNext
  <2>3. IsFiniteSet(S) /\ Counted(S) /\ S \in SUBSET (1 .. k - 1)
    BY <2>1, InterfacesCounted
  <2>4. S \in SUBSET Nat /\ (\A x \in S : x < k) /\ k \in Nat
    BY <2>1, <2>3
  <2> HIDE DEF S
  <2>5. /\ Cardinality(S \cup {k}) = c + 1 /\ Nth(S \cup {k}, c) = k /\ c \in Nat
        /\ \A n \in 0 .. c - 1 : Nth(S \cup {k}, n) = Nth(S, n)
    BY <2>3, <2>4, CountedMore, FS_CardinalityType
  <2> HIDE DEF c
  <2>6. Ifaces(bs, k) = [n \in 1 .. c + 1 |-> Known(bs[Nth(S \cup {k}, n - 1)])]
    BY <2>2, <2>5 DEF Ifaces
  <2>8. ASSUME NEW n \in 1 .. c PROVE Nth(S \cup {k}, n - 1) = Nth(S, n - 1)
    <3>1. n - 1 \in 0 .. c - 1
      BY <2>5
    <3> QED
      BY <2>5, <3>1
  <2>9. (c + 1) - 1 = c
    BY <2>5
  <2>10. Append(Ifaces(bs, k - 1), Known(bs[k])) = [n \in 1 .. c + 1 |-> IF n = c + 1 THEN Known(bs[k]) ELSE Known(bs[Nth(S, n - 1)])]
    BY <2>5, <2>7
  <2>11. \A n \in 1 .. c + 1 : Known(bs[Nth(S \cup {k}, n - 1)]) = IF n = c + 1 THEN Known(bs[k]) ELSE Known(bs[Nth(S, n - 1)])
    <3>1. ASSUME NEW n \in 1 .. c + 1
          PROVE  Known(bs[Nth(S \cup {k}, n - 1)]) = IF n = c + 1 THEN Known(bs[k]) ELSE Known(bs[Nth(S, n - 1)])
      <4>1. n = c + 1 \/ n \in 1 .. c
        BY <2>5
      <4>2. CASE n = c + 1
        BY <2>5, <2>9, <4>2
      <4>3. CASE n \in 1 .. c
        <5>1. n # c + 1
          BY <2>5, <4>3
        <5> QED
          BY <2>8, <4>3, <5>1
      <4> QED
        BY <4>1, <4>2, <4>3
    <3> QED
      BY <3>1
  <2>12. Ifaces(bs, k) = Append(Ifaces(bs, k - 1), Known(bs[k]))
    BY <2>6, <2>10, <2>11
  <2> QED
    BY <1>2, <2>12
<1>3. CASE bs[k].type \notin {"section", "classic", "interface"}
  BY <1>3, InterfacesNext DEF Ifaces
<1> QED
  BY <1>1, <1>2, <1>3

LEMMA IfacesAnswer ==
  ASSUME NEW bs, WellFormed(bs), NEW k \in 1 .. Len(bs), NEW n \in Nat
  PROVE  /\ Ifaces(bs, k) \in Seq([link : Nat, resol : Nat])
         /\ LinkOf(bs, k, n) = IF n + 1 \in DOMAIN Ifaces(bs, k) THEN Ifaces(bs, k)[n + 1].link ELSE Ethernet
         /\ TickOf(bs, k, n) = IF n + 1 \in DOMAIN Ifaces(bs, k) THEN Ifaces(bs, k)[n + 1].resol ELSE Micro
<1> DEFINE S == Interfaces(bs, k)
           c == Cardinality(S)
<1>1. IsFiniteSet(S) /\ Counted(S) /\ S \in SUBSET (1 .. k) /\ c \in Nat
  BY InterfacesCounted, FS_CardinalityType
<1>2. DOMAIN Ifaces(bs, k) = 1 .. c
  BY DEF Ifaces
<1>3. n < c <=> n + 1 \in 1 .. c
  BY <1>1
<1>4. Interface(bs, k, n) = bs[Nth(S, n)]
  BY DEF Interface, Nth, Before
<1>5. n + 1 \in 1 .. c => Ifaces(bs, k)[n + 1] = Known(bs[Nth(S, n)])
  <2>1. (n + 1) - 1 = n
    OBVIOUS
  <2> QED
    BY <2>1 DEF Ifaces
<1>6. \A m \in 1 .. c : Known(bs[Nth(S, m - 1)]) \in [link : Nat, resol : Nat]
  <2>1. ASSUME NEW m \in 1 .. c PROVE Known(bs[Nth(S, m - 1)]) \in [link : Nat, resol : Nat]
    <3>1. m - 1 \in 0 .. c - 1
      BY <1>1
    <3>2. PICK j \in S : Cardinality(Before(S, j)) = m - 1
      BY <1>1, <3>1 DEF Counted
    <3>3. j \in 1 .. Len(bs) /\ S \in SUBSET Nat
      BY <1>1, LengthIs
    <3>4. Nth(S, m - 1) = j
      BY <1>1, <3>2, <3>3, NthIs
    <3>5. bs[j].type = "interface"
      BY DEF Interfaces
    <3>6. bs[j].link \in Nat /\ bs[j].resol \in Seq(Nat)
      BY <3>3, <3>5, BlocksHold
    <3>7. (IF bs[j].resol = <<>> THEN Micro ELSE bs[j].resol[1]) \in Nat
      <4>1. bs[j].resol # <<>> => 1 \in 1 .. Len(bs[j].resol)
        BY <3>6
      <4> QED
        BY <3>6, <4>1 DEF Micro
    <3> QED
      BY <3>4, <3>6, <3>7 DEF Known
  <2> QED
    BY <2>1
<1>7. Ifaces(bs, k) \in Seq([link : Nat, resol : Nat])
  <2>1. Ifaces(bs, k) = [m \in 1 .. c |-> Known(bs[Nth(S, m - 1)])]
    BY DEF Ifaces
  <2> HIDE DEF S, c
  <2> QED
    BY <1>1, <1>6, <2>1
<1>8. LinkOf(bs, k, n) = IF n < c THEN bs[Nth(S, n)].link ELSE Ethernet
  BY <1>4 DEF LinkOf, Declares
<1>9. TickOf(bs, k, n) = IF n < c THEN Known(bs[Nth(S, n)]).resol ELSE Micro
  BY <1>4 DEF TickOf, Declares, Known
<1> HIDE DEF S, c
<1>10. Known(bs[Nth(S, n)]).link = bs[Nth(S, n)].link
  BY DEF Known
<1> QED
  BY <1>2, <1>3, <1>5, <1>7, <1>8, <1>9, <1>10
-----------------------------------------------------------------------------
(* The packets of the first k blocks, and the reader that has read them.   *)
Packet == [data : {d \in Seq(Nat) : Len(d) + 9 <= MaxBlock}, ts : Nat \cup {NoTime}, link : Nat, orig : Nat]
Packets(bs, k) == FlattenSeq([i \in 1 .. k |-> Meant(bs, i)])

LEMMA TimesIs == \A a, b \in Nat : a * b \in Nat
  OBVIOUS

LEMMA ElementsIn ==
  ASSUME NEW S, NEW f \in Seq(S)
  PROVE  \A x \in DOMAIN f : f[x] \in S
  OBVIOUS

LEMMA MeantTyped ==
  ASSUME NEW bs, WellFormed(bs), NEW k \in 1 .. Len(bs)
  PROVE  Meant(bs, k) \in Seq(Packet)
<1> DEFINE b == bs[k]
<1>1. CASE b.type = "record"
  <2> DEFINE ts == b.sec * Second + b.frac * (IF bs[1].unit = "nano" THEN 1 ELSE Micro)
  <2>1. bs[1].type = "classic" /\ 1 \in 1 .. Len(bs)
    BY <1>1, Kinds, LengthIs
  <2>2. b.sec \in Nat /\ b.frac \in Nat /\ b.data \in Seq(Nat) /\ b.orig \in Nat /\ Len(b.data) + 9 <= MaxBlock /\ bs[1].link \in Nat
    BY <1>1, <2>1, BlocksHold
  <2>3. ts \in Nat
    <3>1. b.sec \in Nat /\ b.frac \in Nat
      BY <2>2
    <3> HIDE DEF b
    <3> QED
      BY <3>1 DEF Second, Micro
  <2>4. Meant(bs, k) = <<[data |-> b.data, ts |-> ts, link |-> bs[1].link, orig |-> b.orig]>>
    BY <1>1 DEF Meant
  <2> HIDE DEF b, ts
  <2> QED
    BY <2>2, <2>3, <2>4 DEF Packet
<1>2. CASE b.type = "enhanced"
  <2>1. b.iface \in Nat /\ b.ticks \in Nat /\ b.data \in Seq(Nat) /\ b.orig \in Nat /\ Len(b.data) + 9 <= MaxBlock
    BY <1>2, BlocksHold
  <2> DEFINE t == TickOf(bs, k, b.iface)
             l == LinkOf(bs, k, b.iface)
             f == Ifaces(bs, k)
  <2>2. /\ f \in Seq([link : Nat, resol : Nat])
        /\ l = (IF b.iface + 1 \in DOMAIN f THEN f[b.iface + 1].link ELSE Ethernet)
        /\ t = (IF b.iface + 1 \in DOMAIN f THEN f[b.iface + 1].resol ELSE Micro)
    BY <2>1, IfacesAnswer
  <2>3. Meant(bs, k) = <<[data |-> b.data, ts |-> b.ticks * t, link |-> l, orig |-> b.orig]>>
    BY <1>2 DEF Meant
  <2> HIDE DEF b, t, l, f
  <2>4. t \in Nat /\ l \in Nat
    <3>0. \A x \in DOMAIN f : f[x] \in [link : Nat, resol : Nat]
      BY <2>2, ElementsIn
    <3>1. \A x \in DOMAIN f : f[x].link \in Nat /\ f[x].resol \in Nat
      BY <3>0
    <3> QED
      BY <2>2, <3>1 DEF Ethernet, Micro
  <2>5. b.ticks * t \in Nat
    BY <2>1, <2>4, TimesIs
  <2> QED
    BY <2>1, <2>3, <2>4, <2>5 DEF Packet
<1>3. CASE b.type = "simple"
  <2>1. b.data \in Seq(Nat) /\ b.orig \in Nat /\ Len(b.data) + 9 <= MaxBlock
    BY <1>3, BlocksHold
  <2> DEFINE l == LinkOf(bs, k, 0)
             f == Ifaces(bs, k)
  <2>2. f \in Seq([link : Nat, resol : Nat]) /\ l = IF 0 + 1 \in DOMAIN f THEN f[0 + 1].link ELSE Ethernet
    BY IfacesAnswer
  <2>3. Meant(bs, k) = <<[data |-> b.data, ts |-> NoTime, link |-> l, orig |-> b.orig]>>
    BY <1>3 DEF Meant
  <2> HIDE DEF b, l, f
  <2>4. l \in Nat
    <3>0. \A x \in DOMAIN f : f[x] \in [link : Nat, resol : Nat]
      BY <2>2, ElementsIn
    <3>1. \A x \in DOMAIN f : f[x].link \in Nat
      BY <3>0
    <3> QED
      BY <2>2, <3>1 DEF Ethernet
  <2> QED
    BY <2>1, <2>3, <2>4 DEF Packet
<1>4. CASE b.type \notin {"record", "enhanced", "simple"}
  <2>1. Meant(bs, k) = <<>>
    BY <1>4 DEF Meant
  <2> QED
    BY <2>1
<1> QED
  BY <1>1, <1>2, <1>3, <1>4

LEMMA PacketsNext ==
  ASSUME NEW bs, WellFormed(bs)
  PROVE  /\ Packets(bs, 1) = <<>>
         /\ \A k \in 1 .. Len(bs) : Packets(bs, k) \in Seq(Packet)
         /\ \A k \in 1 .. Len(bs) - 1 : Packets(bs, k + 1) = Packets(bs, k) \o Meant(bs, k + 1)
<1>1. Len(bs) \in Nat /\ \A i \in 1 .. Len(bs) : Meant(bs, i) \in Seq(Packet)
  BY LengthIs, MeantTyped
<1>2. ASSUME NEW k \in 1 .. Len(bs) PROVE Packets(bs, k) \in Seq(Packet)
  <2> DEFINE ss == [i \in 1 .. k |-> Meant(bs, i)]
  <2>1. k \in Nat /\ \A i \in 1 .. k : Meant(bs, i) \in Seq(Packet)
    BY <1>1
  <2>2. ss \in Seq(Seq(Packet))
    BY <2>1
  <2> HIDE DEF ss
  <2>3. FlattenSeq(ss) \in Seq(Packet)
    BY <2>2, FlattenTyped
  <2> QED
    BY <2>3 DEF Packets, ss
<1>3. ASSUME NEW k \in 0 .. Len(bs) - 1 PROVE Packets(bs, k + 1) = Packets(bs, k) \o Meant(bs, k + 1)
  <2> DEFINE ss == [i \in 1 .. k + 1 |-> Meant(bs, i)]
             tt == [i \in 1 .. k |-> Meant(bs, i)]
  <2>1. k \in Nat /\ \A i \in 1 .. k + 1 : Meant(bs, i) \in Seq(Packet)
    BY <1>1
  <2>2. ss \in [1 .. k + 1 -> Seq(Packet)] /\ ss[k + 1] = Meant(bs, k + 1)
    BY <2>1
  <2>3. tt = [i \in 1 .. k |-> ss[i]]
    BY <2>1
  <2> HIDE DEF ss, tt
  <2>4. FlattenSeq(ss) = FlattenSeq(tt) \o ss[k + 1]
    BY <2>1, <2>2, <2>3, FlattenNext
  <2> QED
    BY <2>2, <2>4 DEF Packets, ss, tt
<1>4. Packets(bs, 1) = <<>>
  <2>1. bs[1].type \in {"section", "classic"}
    BY LengthIs, Kinds
  <2>2. Meant(bs, 1) = <<>>
    BY <2>1 DEF Meant
  <2>3. Packets(bs, 0) = <<>>
    <3>1. [i \in 1 .. 0 |-> Meant(bs, i)] = <<>>
      OBVIOUS
    <3> QED
      BY <3>1, FlattenNone DEF Packets
  <2>4. 0 \in 0 .. Len(bs) - 1 /\ 0 + 1 = 1
    BY LengthIs
  <2>5. Packets(bs, 0 + 1) = Packets(bs, 0) \o Meant(bs, 0 + 1)
    BY <1>3, <2>4
  <2>6. Packets(bs, 1) = <<>> \o <<>>
    BY <2>2, <2>3, <2>4, <2>5
  <2> QED
    BY <2>6
<1> QED
  BY <1>2, <1>3, <1>4

At(bs, pos, ifaces, out) ==
  [format |-> IF bs[1].type = "classic" THEN "classic" ELSE "ng", order |-> bs[1].order, pos |-> pos,
   ifaces |-> ifaces, link |-> IF bs[1].type = "classic" THEN bs[1].link ELSE Ethernet,
   unit |-> IF bs[1].type = "classic" THEN bs[1].unit ELSE "micro", out |-> out, end |-> "no"]
StateAt(bs, k) == At(bs, End(bs, k), Ifaces(bs, k), Packets(bs, k))

(* The cells of block k + 1 in a file that was cut after n of them.        *)
LEMMA CellsThere ==
  ASSUME NEW bs, WellFormed(bs), NEW k \in 0 .. Len(bs) - 1, NEW n \in 0 .. End(bs, Len(bs)), bs[k + 1].type \in Kind
  PROVE  LET b == bs[k + 1]
             o == OrderAt(bs, k + 1)
             m == Len(BlockBody(b)) IN
         /\ m \in Nat /\ m + 3 <= MaxBlock /\ End(bs, k + 1) = End(bs, k) + (m + 3) /\ End(bs, k) \in Nat
         /\ End(bs, k) + 1 <= n => Cut(bs, n)[End(bs, k) + 1] = [v |-> TypeOf[b.type], order |-> o]
         /\ End(bs, k) + 2 <= n => Cut(bs, n)[End(bs, k) + 2] = [v |-> m + 3, order |-> o]
         /\ \A i \in 1 .. m : End(bs, k) + i + 2 <= n =>
              Cut(bs, n)[End(bs, k) + i + 2] = [v |-> BlockBody(b)[i], order |-> o]
<1> DEFINE b == bs[k + 1]
           o == OrderAt(bs, k + 1)
           body == BlockBody(b)
           e == Encoded(bs, k + 1)
           m == Len(body)
           p == End(bs, k)
           f == Cut(bs, n)
<1>1. k + 1 \in 1 .. Len(bs) /\ Len(bs) \in Nat /\ k \in 0 .. Len(bs)
  BY LengthIs
<1>2. body \in Seq(Nat) /\ m + 3 <= MaxBlock /\ e = Framed(b.type, body, o) /\ o \in Orders
  BY <1>1, BodyTyped, OrderFound
<1>3. p \in Nat /\ End(bs, k + 1) = p + Len(e)
  BY <1>1, EndIs
<1>4. \A j \in 1 .. Len(e) : p + j <= n => f[p + j] = e[j]
  BY CutHolds
<1> HIDE DEF e, body, b, o, p, f
<1>5. /\ Len(e) = m + 3 /\ e[1] = [v |-> TypeOf[b.type], order |-> o] /\ e[2] = [v |-> m + 3, order |-> o]
      /\ \A i \in 1 .. m : e[i + 2] = [v |-> body[i], order |-> o]
  BY <1>2, FramedIs DEF b
<1>6. m \in Nat
  BY <1>2
<1> HIDE DEF m
<1>7. 1 \in 1 .. Len(e) /\ 2 \in 1 .. Len(e) /\ \A i \in 1 .. m : i + 2 \in 1 .. Len(e) /\ p + i + 2 = p + (i + 2)
  BY <1>3, <1>5, <1>6
<1>8. End(bs, k + 1) = p + (m + 3)
  BY <1>3, <1>5
<1>9. \A i \in 1 .. m : p + i + 2 <= n => f[p + i + 2] = [v |-> body[i], order |-> o]
  BY <1>4, <1>5, <1>7
<1>10. /\ p + 1 <= n => f[p + 1] = [v |-> TypeOf[b.type], order |-> o]
       /\ p + 2 <= n => f[p + 2] = [v |-> m + 3, order |-> o]
  BY <1>4, <1>5, <1>7
<1> QED
  BY <1>2, <1>3, <1>6, <1>8, <1>9, <1>10 DEF m, e, body, b, o, p, f

LEMMA ReaderOpens ==
  ASSUME NEW bs, WellFormed(bs), NEW n \in 0 .. End(bs, Len(bs)), End(bs, 1) <= n
  PROVE  OpenFile(Cut(bs, n)) = StateAt(bs, 1)
<1> DEFINE f == Cut(bs, n)
<1>1. /\ Len(bs) \in Nat /\ 1 \in 1 .. Len(bs) /\ 0 \in 0 .. Len(bs) - 1 /\ 0 + 1 = 1
      /\ bs[1].type \in {"section", "classic"}
  BY LengthIs, Kinds
<1>2. f \in Seq(Cell) /\ Len(f) = n /\ n \in Nat
  <2>1. End(bs, Len(bs)) \in Nat
    BY <1>1, EndIs
  <2> QED
    BY <2>1, CutHolds
<1>3. Ifaces(bs, 1) = <<>> /\ Packets(bs, 1) = <<>> /\ OrderAt(bs, 1) = bs[1].order
  BY <1>1, IfacesNext, PacketsNext, SectionNext DEF OrderAt
<1>4. End(bs, 0) = 0
  BY EndIs
<1>5. CASE bs[1].type = "section"
  <2> DEFINE b == bs[0 + 1]
             m == Len(BlockBody(b))
             o == OrderAt(bs, 0 + 1)
  <2>1. m = 3 /\ BlockBody(b)[1] = Magic /\ BlockBody(b) = <<Magic, 1, 0>> /\ b.type \in Kind /\ TypeOf[b.type] = 90
    BY <1>1, <1>5, SectionBody DEF Kind, TypeOf
  <2>2. /\ m + 3 <= MaxBlock /\ End(bs, 0 + 1) = End(bs, 0) + (m + 3)
        /\ End(bs, 0) + 1 <= n => f[End(bs, 0) + 1] = [v |-> TypeOf[b.type], order |-> o]
        /\ End(bs, 0) + 2 <= n => f[End(bs, 0) + 2] = [v |-> m + 3, order |-> o]
        /\ \A i \in 1 .. m : End(bs, 0) + i + 2 <= n => f[End(bs, 0) + i + 2] = [v |-> BlockBody(b)[i], order |-> o]
    BY <1>1, <2>1, CellsThere, ZenonT(40)
  <2>9. o = bs[1].order
    BY <1>1, <1>3
  <2> HIDE DEF f, m, b, o
  <2>3. n >= 6 /\ End(bs, 1) = 6 /\ 6 <= MaxBlock
    BY <1>1, <1>2, <1>4, <2>1, <2>2
  <2>4. f[1] = [v |-> 90, order |-> o] /\ f[2] = [v |-> 6, order |-> o]
    BY <1>2, <1>4, <2>1, <2>2, <2>3
  <2>5. f[3] = [v |-> Magic, order |-> o]
    <3>1. 1 \in 1 .. m /\ End(bs, 0) + 1 + 2 <= n /\ End(bs, 0) + 1 + 2 = 3
      BY <1>2, <1>4, <2>1, <2>3
    <3>2. f[End(bs, 0) + 1 + 2] = [v |-> BlockBody(b)[1], order |-> o]
      BY <2>2, <3>1
    <3> QED
      BY <2>1, <3>1, <3>2
  <2>6. f # <<>>
    BY <1>2, <2>3
  <2>7. MaxBlock \in Nat
    BY FilesAssumption DEF Garbled
  <2>8. OpenFile(f) = Reader("ng", o, 6)
    <3>1. OpenFile(f) = OpenNg(f)
      BY <2>4, <2>6 DEF OpenFile, TypeOf
    <3>2. Number(f[2], o) = 6
      BY <2>4 DEF Number
    <3>3. ~ (Len(f) < 3) /\ ~ (6 < 3 \/ 6 > MaxBlock \/ Len(f) < 6)
      BY <1>2, <2>3, <2>7
    <3>4. f[3].v = Magic /\ f[3].order = o
      BY <2>5
    <3> HIDE DEF Number
    <3> QED
      BY <3>1, <3>2, <3>3, <3>4 DEF OpenNg
  <2> QED
    BY <1>3, <1>5, <2>3, <2>8, <2>9 DEF Reader, StateAt, At, f
<1>6. CASE bs[1].type = "classic"
  <2> DEFINE e == Encoded(bs, 1)
             o == bs[1].order
  <2>1. e \in Seq(Cell) /\ Len(e) = 3 /\ e[1] = [v |-> ClassicMagic[bs[1].unit], order |-> o]
        /\ e[3] = [v |-> bs[1].link, order |-> o]
    BY <1>6, ClassicIs
  <2>2. End(bs, 0 + 1) = End(bs, 0) + Len(e) /\ \A j \in 1 .. Len(e) : End(bs, 0) + j <= n => f[End(bs, 0) + j] = e[j]
    BY <1>1, EndIs, CutHolds
  <2>3. bs[1].unit \in {"micro", "nano"}
    BY <1>1, <1>6, BlocksHold
  <2> HIDE DEF f, e
  <2>4. n >= 3 /\ End(bs, 1) = 3
    BY <1>1, <1>2, <1>4, <2>1, <2>2
  <2>5. f[1] = e[1] /\ f[3] = e[3]
    <3>1. 1 \in 1 .. Len(e) /\ 3 \in 1 .. Len(e) /\ End(bs, 0) + 1 = 1 /\ End(bs, 0) + 3 = 3 /\ 1 <= n
      BY <1>2, <1>4, <2>1, <2>4
    <3> QED
      BY <1>2, <2>2, <2>4, <3>1
  <2> HIDE DEF o
  <2>6. f # <<>> /\ ~ (Len(f) < 3)
    BY <1>2, <2>4
  <2>7. /\ f[1].v = ClassicMagic[bs[1].unit] /\ f[1].order = o /\ Number(f[3], o) = bs[1].link
    BY <2>1, <2>5 DEF Number
  <2>8. /\ f[1].v # TypeOf.section /\ f[1].v \in {ClassicMagic.micro, ClassicMagic.nano}
        /\ (IF f[1].v = ClassicMagic.nano THEN "nano" ELSE "micro") = bs[1].unit
    BY <2>3, <2>7 DEF ClassicMagic, TypeOf
  <2>9. OpenFile(f) = [Reader("classic", o, 3) EXCEPT !.link = bs[1].link, !.unit = bs[1].unit]
    <3>1. OpenFile(f) = OpenClassic(f)
      BY <2>6, <2>8 DEF OpenFile
    <3> HIDE DEF Number
    <3> QED
      BY <2>6, <2>7, <2>8, <3>1 DEF OpenClassic
  <2> QED
    BY <1>3, <1>6, <2>4, <2>9 DEF Reader, StateAt, At, o, f
<1> QED
  BY <1>1, <1>5, <1>6
-----------------------------------------------------------------------------
(* Reading one block. No section of the other byte order is among the      *)
(* first k.                                                                *)
Straight(bs, k) == \A j \in 2 .. k : bs[j].type = "section" => bs[j].order = bs[1].order

LEMMA OrderStays ==
  ASSUME NEW bs, WellFormed(bs), NEW k \in 1 .. Len(bs), Straight(bs, k)
  PROVE  OrderAt(bs, k) = bs[1].order
<1> DEFINE j == SectionOf(bs, k)
<1>1. Len(bs) \in Nat /\ j \in 1 .. k /\ bs[j].type \in {"section", "classic"}
  BY LengthIs, SectionFound DEF Heads
<1> HIDE DEF j
<1>2. j = 1 \/ j \in 2 .. k
  BY <1>1
<1>3. j \in 1 .. Len(bs)
  BY <1>1
<1>4. CASE j = 1
  BY <1>4 DEF OrderAt, j
<1>5. CASE j \in 2 .. k
  <2>1. bs[j].type = "section"
    BY <1>1, <1>3, <1>5, Kinds
  <2> QED
    BY <1>5, <2>1 DEF Straight, OrderAt, j
<1> QED
  BY <1>2, <1>4, <1>5

Handled(st, type, body, pos) ==
  CASE type = "section" -> NewSection(st, body, pos)
    [] type = "interface" -> NewInterface(st, body, pos)
    [] type = "enhanced" -> EnhancedPacket(st, body, pos)
    [] type = "simple" -> SimplePacket(st, body, pos)
    [] OTHER -> [st EXCEPT !.pos = pos]

LEMMA BodyTaken ==
  ASSUME NEW f \in Seq(Cell), NEW p \in Nat, NEW body \in Seq(Nat), NEW o,
         p + Len(body) + 2 <= Len(f), \A i \in 1 .. Len(body) : f[p + i + 2] = [v |-> body[i], order |-> o]
  PROVE  SubSeq(f, p + 3, p + (Len(body) + 3) - 1) = Cells(body, o)
<1> DEFINE m == Len(body)
<1>1. m \in Nat
  OBVIOUS
<1>2. SubSeq(f, p + 3, p + (m + 3) - 1) = [i \in 1 .. m |-> f[p + i + 2]]
  <2> DEFINE a == p + 3
             z == p + (m + 3) - 1
  <2>1. a \in 1 .. Len(f) + 1 /\ z \in 0 .. Len(f) /\ z - a + 1 = m /\ \A i \in 1 .. m : a + i - 1 = p + i + 2
    BY <1>1
  <2> HIDE DEF a, z, m
  <2>2. /\ SubSeq(f, a, z) \in Seq(Cell) /\ Len(SubSeq(f, a, z)) = m
        /\ \A i \in 1 .. m : SubSeq(f, a, z)[i] = f[a + i - 1]
    BY <1>1, <2>1, SubSeqProperties
  <2>3. SubSeq(f, a, z) = [i \in 1 .. m |-> f[p + i + 2]]
    <3> DEFINE t == SubSeq(f, a, z)
    <3>1. t \in Seq(Cell) /\ Len(t) = m /\ \A i \in 1 .. m : t[i] = f[p + i + 2]
      BY <2>1, <2>2
    <3> HIDE DEF t
    <3>2. t = [i \in 1 .. m |-> t[i]]
      BY <3>1
    <3> QED
      BY <3>1, <3>2 DEF t
  <2> QED
    BY <2>3 DEF a, z
<1> QED
  BY <1>2 DEF Cells

LEMMA NgStep ==
  ASSUME NEW bs, WellFormed(bs), NEW k \in 1 .. Len(bs) - 1, NEW n \in 0 .. End(bs, Len(bs)),
         bs[k + 1].type \in Kind, End(bs, k + 1) <= n, Straight(bs, k + 1),
         NEW st, st.pos = End(bs, k), st.order = bs[1].order
  PROVE  NextNg(Cut(bs, n), st) = Handled(st, bs[k + 1].type, Cells(BlockBody(bs[k + 1]), bs[1].order), End(bs, k + 1))
<1> DEFINE f == Cut(bs, n)
           b == bs[k + 1]
           o == bs[1].order
           body == BlockBody(b)
           m == Len(body)
           p == End(bs, k)
<1>1. k \in 0 .. Len(bs) - 1 /\ k + 1 \in 1 .. Len(bs) /\ Len(bs) \in Nat
  BY LengthIs
<1>2. OrderAt(bs, k + 1) = o /\ body \in Seq(Nat)
  BY <1>1, OrderStays, BodyTyped
<1>3. /\ m \in Nat /\ m + 3 <= MaxBlock /\ End(bs, k + 1) = p + (m + 3) /\ p \in Nat
      /\ p + 1 <= n => f[p + 1] = [v |-> TypeOf[b.type], order |-> o]
      /\ p + 2 <= n => f[p + 2] = [v |-> m + 3, order |-> o]
      /\ \A i \in 1 .. m : p + i + 2 <= n => f[p + i + 2] = [v |-> body[i], order |-> o]
  BY <1>1, <1>2, CellsThere
<1>4. f \in Seq(Cell) /\ Len(f) = n /\ n \in Nat /\ MaxBlock \in Nat
  <2>1. Len(bs) \in 0 .. Len(bs)
    BY <1>1
  <2>2. End(bs, Len(bs)) \in Nat
    BY <2>1, EndIs
  <2>3. MaxBlock \in Nat
    BY FilesAssumption DEF Garbled
  <2> QED
    BY <2>2, <2>3, CutHolds
<1>5. b.type \in Kind
  OBVIOUS
<1> HIDE DEF f, b, o, body, p
<1>6. p + (m + 3) <= n
  BY <1>3 DEF p
<1> HIDE DEF m
<1>7. p + 1 <= n /\ p + 2 <= n /\ p + m + 2 <= n /\ \A i \in 1 .. m : p + i + 2 <= n
  BY <1>3, <1>4, <1>6
<1>8. f[p + 1] = [v |-> TypeOf[b.type], order |-> o] /\ f[p + 2] = [v |-> m + 3, order |-> o]
  BY <1>3, <1>7
<1>9. SubSeq(f, p + 3, p + (m + 3) - 1) = Cells(body, o)
  <2>1. \A i \in 1 .. m : f[p + i + 2] = [v |-> body[i], order |-> o]
    BY <1>3, <1>7
  <2> QED
    BY <1>2, <1>3, <1>4, <1>7, <2>1, BodyTaken, ZenonT(40) DEF m
<1>10. st.pos = p /\ st.order = o
  BY DEF p, o
<1>11. BlockType(f[p + 1], o) = TypeOf[b.type] /\ Number(f[p + 2], o) = m + 3
  BY <1>8 DEF BlockType, Number
<1>12. Len(f) - p # 0 /\ Len(f) - p # 1 /\ ~ (m + 3 < 3 \/ m + 3 > MaxBlock) /\ ~ (Len(f) - p < m + 3)
  BY <1>3, <1>4, <1>6
<1> DEFINE type == TypeOf[b.type]
           handled == CASE type = TypeOf.section -> NewSection(st, Cells(body, o), p + (m + 3))
                        [] type = TypeOf.interface -> NewInterface(st, Cells(body, o), p + (m + 3))
                        [] type = TypeOf.enhanced -> EnhancedPacket(st, Cells(body, o), p + (m + 3))
                        [] type = TypeOf.simple -> SimplePacket(st, Cells(body, o), p + (m + 3))
                        [] OTHER -> [st EXCEPT !.pos = p + (m + 3)]
<1>13. NextNg(f, st) = handled
  BY <1>9, <1>10, <1>11, <1>12 DEF NextNg
<1>14. handled = Handled(st, b.type, Cells(body, o), p + (m + 3))
  <2>1. b.type \in {"section", "interface", "enhanced", "simple", "secrets"}
    BY <1>5 DEF Kind, TypeOf
  <2>2. CASE b.type = "section"
    BY <2>2 DEF Handled, TypeOf
  <2>3. CASE b.type = "interface"
    BY <2>3 DEF Handled, TypeOf
  <2>4. CASE b.type = "enhanced"
    BY <2>4 DEF Handled, TypeOf
  <2>5. CASE b.type = "simple"
    BY <2>5 DEF Handled, TypeOf
  <2>6. CASE b.type = "secrets"
    BY <2>6 DEF Handled, TypeOf
  <2> QED
    BY <2>1, <2>2, <2>3, <2>4, <2>5, <2>6
<1> QED
  BY <1>3, <1>13, <1>14 DEF f, b, o, body, p, m

Moved(st, pos) == [st EXCEPT !.pos = pos]
Numbered(st, pos, ifaces) == [st EXCEPT !.pos = pos, !.ifaces = ifaces]
Received(st, pos, out) == [st EXCEPT !.pos = pos, !.out = out]
Anew(st, order, pos) == [st EXCEPT !.order = order, !.ifaces = <<>>, !.pos = pos]

LEMMA Moves ==
  /\ \A bs, p, i, t, q : Moved(At(bs, p, i, t), q) = At(bs, q, i, t)
  /\ \A bs, p, i, t, q, j : Numbered(At(bs, p, i, t), q, j) = At(bs, q, j, t)
  /\ \A bs, p, i, t, q, u : Received(At(bs, p, i, t), q, u) = At(bs, q, i, u)
  /\ \A bs, p, i, t, q : Anew(At(bs, p, i, t), bs[1].order, q) = At(bs, q, <<>>, t)
<1>5. \A bs, p, i, t, q : Moved(At(bs, p, i, t), q) = At(bs, q, i, t)
  BY DEF At, Moved
<1>6. ASSUME NEW bs, NEW p, NEW i, NEW t, NEW q, NEW j PROVE Numbered(At(bs, p, i, t), q, j) = At(bs, q, j, t)
  <2>1. [At(bs, p, i, t) EXCEPT !.pos = q] = At(bs, q, i, t)
    BY DEF At
  <2>2. [At(bs, q, i, t) EXCEPT !.ifaces = j] = At(bs, q, j, t)
    BY DEF At
  <2> QED
    BY <2>1, <2>2 DEF Numbered
<1>7. ASSUME NEW bs, NEW p, NEW i, NEW t, NEW q, NEW u PROVE Received(At(bs, p, i, t), q, u) = At(bs, q, i, u)
  <2>1. [At(bs, p, i, t) EXCEPT !.pos = q] = At(bs, q, i, t)
    BY DEF At
  <2>2. [At(bs, q, i, t) EXCEPT !.out = u] = At(bs, q, i, u)
    BY DEF At
  <2> QED
    BY <2>1, <2>2 DEF Received
<1>8. ASSUME NEW bs, NEW p, NEW i, NEW t, NEW q PROVE Anew(At(bs, p, i, t), bs[1].order, q) = At(bs, q, <<>>, t)
  <2>1. [At(bs, p, i, t) EXCEPT !.order = bs[1].order] = At(bs, p, i, t)
    BY DEF At
  <2>2. [At(bs, p, i, t) EXCEPT !.ifaces = <<>>] = At(bs, p, <<>>, t)
    BY DEF At
  <2>3. [At(bs, p, <<>>, t) EXCEPT !.pos = q] = At(bs, q, <<>>, t)
    BY DEF At
  <2> QED
    BY <2>1, <2>2, <2>3 DEF Anew
<1> QED
  BY <1>5, <1>6, <1>7, <1>8

LEMMA StateNext ==
  ASSUME NEW bs, WellFormed(bs), NEW k \in 1 .. Len(bs) - 1
  PROVE  /\ StateAt(bs, k + 1) = At(bs, End(bs, k + 1), Ifaces(bs, k + 1), Packets(bs, k) \o Meant(bs, k + 1))
         /\ Packets(bs, k) \in Seq(Packet)
<1>1. Packets(bs, k + 1) = Packets(bs, k) \o Meant(bs, k + 1) /\ Packets(bs, k) \in Seq(Packet)
  <2>1. k \in 1 .. Len(bs)
    BY LengthIs
  <2> QED
    BY <2>1, PacketsNext
<1> QED
  BY <1>1 DEF StateAt

LEMMA NothingMore == \A S : \A s \in Seq(S) : s \o <<>> = s
  OBVIOUS

LEMMA AppendIs == \A S : \A s \in Seq(S) : \A x : Append(s, x) = s \o <<x>>
  OBVIOUS

LEMMA Elements ==
  ASSUME NEW S, NEW s \in Seq(S)
  PROVE  s = [i \in 1 .. Len(s) |-> s[i]]
  OBVIOUS

LEMMA SectionRead ==
  ASSUME NEW bs, WellFormed(bs), NEW k \in 1 .. Len(bs) - 1,
         bs[k + 1].type = "section", bs[k + 1].order = bs[1].order
  PROVE  Handled(StateAt(bs, k), "section", Cells(BlockBody(bs[k + 1]), bs[1].order), End(bs, k + 1)) = StateAt(bs, k + 1)
<1> DEFINE o == bs[1].order
           body == Cells(BlockBody(bs[k + 1]), o)
<1>1. k + 1 \in 1 .. Len(bs) /\ 1 \in 1 .. Len(bs)
  BY LengthIs
<1>2. o \in Orders
  BY <1>1, Kinds
<1>3. BlockBody(bs[k + 1]) = <<Magic, 1, 0>> /\ BlockBody(bs[k + 1]) \in Seq(Nat) /\ Len(BlockBody(bs[k + 1])) = 3
  BY SectionBody
<1>4. Len(body) = 3 /\ body[1] = [v |-> Magic, order |-> o] /\ body # <<>>
  <2> DEFINE s == BlockBody(bs[k + 1])
  <2>1. s \in Seq(Nat) /\ Len(s) = 3 /\ s[1] = Magic
    BY <1>3
  <2> HIDE DEF s
  <2>2. Cells(s, o) \in Seq(Cell) /\ Len(Cells(s, o)) = Len(s) /\ \A i \in 1 .. Len(s) : Cells(s, o)[i] = [v |-> s[i], order |-> o]
    BY <1>2, <2>1, CellsAre
  <2>3. 1 \in 1 .. Len(s)
    BY <2>1
  <2>4. Cells(s, o)[1] = [v |-> s[1], order |-> o]
    BY <2>2, <2>3
  <2> QED
    BY <2>1, <2>2, <2>4 DEF s
<1>5. Ifaces(bs, k + 1) = <<>> /\ Meant(bs, k + 1) = <<>>
  BY <1>1, IfacesNext DEF Meant
<1> HIDE DEF body, o
<1>6. Handled(StateAt(bs, k), "section", body, End(bs, k + 1))
        = Anew(StateAt(bs, k), bs[1].order, End(bs, k + 1))
  BY <1>4 DEF Handled, NewSection, Anew, o
<1>7. Packets(bs, k) \o <<>> = Packets(bs, k)
  BY StateNext, NothingMore
<1>8. Anew(StateAt(bs, k), bs[1].order, End(bs, k + 1)) = At(bs, End(bs, k + 1), <<>>, Packets(bs, k))
  BY Moves DEF StateAt
<1> QED
  BY <1>5, <1>6, <1>7, <1>8, StateNext DEF body, o

LEMMA InterfaceRead ==
  ASSUME NEW bs, WellFormed(bs), NEW k \in 1 .. Len(bs) - 1, bs[k + 1].type = "interface"
  PROVE  Handled(StateAt(bs, k), "interface", Cells(BlockBody(bs[k + 1]), bs[1].order), End(bs, k + 1)) = StateAt(bs, k + 1)
<1> DEFINE o == bs[1].order
           b == bs[k + 1]
           s == BlockBody(b)
           body == Cells(s, o)
<1>1. k + 1 \in 1 .. Len(bs) /\ 1 \in 1 .. Len(bs) /\ (k + 1) - 1 = k
  BY LengthIs
<1>2. o \in Orders
  <2>1. bs[1].type \in {"section", "classic"}
    BY <1>1, Kinds
  <2> QED
    BY <1>1, <2>1, Kinds
<1>3. b.link \in Nat /\ b.resol \in Seq(Nat) /\ Len(b.resol) <= 1
  BY <1>1, BlocksHold
<1>4. s \in Seq(Nat) /\ Len(s) = 2 + Len(b.resol) /\ s[1] = b.link /\ (b.resol # <<>> => Len(s) = 3 /\ s[3] = b.resol[1])
  BY <1>3, InterfaceBody
<1>5. Ifaces(bs, k + 1) = Append(Ifaces(bs, k), Known(b)) /\ Meant(bs, k + 1) = <<>>
  BY <1>1, IfacesNext DEF Meant
<1> HIDE DEF s
<1>6. Len(body) = Len(s) /\ \A i \in 1 .. Len(s) : body[i] = [v |-> s[i], order |-> o]
  BY <1>2, <1>4, CellsAre
<1> HIDE DEF o, body
<1>7. /\ body # <<>> /\ body[1] = [v |-> b.link, order |-> o]
      /\ Len(body) < 3 <=> b.resol = <<>>
      /\ b.resol # <<>> => body[3] = [v |-> b.resol[1], order |-> o]
  <2> DEFINE n == Len(b.resol)
  <2>1. n \in Nat /\ n <= 1 /\ (b.resol = <<>> <=> n = 0)
    BY <1>3
  <2> HIDE DEF n
  <2>2. Len(s) = 2 + n
    BY <1>4 DEF n
  <2>3. Len(body) < 3 <=> b.resol = <<>>
    BY <1>6, <2>1, <2>2
  <2>4. 1 \in 1 .. Len(s) /\ (b.resol # <<>> => 3 \in 1 .. Len(s))
    BY <2>1, <2>2
  <2>5. body # <<>>
    BY <1>6, <2>1, <2>2
  <2> QED
    BY <1>4, <1>6, <2>3, <2>4, <2>5
<1>8. Handled(StateAt(bs, k), "interface", body, End(bs, k + 1))
        = Numbered(StateAt(bs, k), End(bs, k + 1), Append(Ifaces(bs, k), Known(b)))
  <2>1. StateAt(bs, k).order = o /\ StateAt(bs, k).ifaces = Ifaces(bs, k)
    BY DEF StateAt, At, o
  <2>2. [link |-> IF body = <<>> THEN Ethernet ELSE Number(body[1], o),
         resol |-> IF Len(body) < 3 THEN Micro ELSE Number(body[3], o)] = Known(b)
    BY <1>7 DEF Known, Number
  <2> HIDE DEF b
  <2>3. NewInterface(StateAt(bs, k), body, End(bs, k + 1))
          = Numbered(StateAt(bs, k), End(bs, k + 1), Append(Ifaces(bs, k), Known(b)))
    BY <2>1, <2>2 DEF NewInterface, Numbered
  <2> QED
    BY <2>1, <2>3 DEF Handled
<1>9. Packets(bs, k) \o <<>> = Packets(bs, k)
  BY StateNext, NothingMore
<1>10. Numbered(StateAt(bs, k), End(bs, k + 1), Append(Ifaces(bs, k), Known(b)))
         = At(bs, End(bs, k + 1), Append(Ifaces(bs, k), Known(b)), Packets(bs, k))
  BY Moves DEF StateAt
<1> QED
  BY <1>5, <1>8, <1>9, <1>10, StateNext DEF body, o, s

LEMMA SecretsRead ==
  ASSUME NEW bs, WellFormed(bs), NEW k \in 1 .. Len(bs) - 1, bs[k + 1].type = "secrets", NEW body
  PROVE  Handled(StateAt(bs, k), "secrets", body, End(bs, k + 1)) = StateAt(bs, k + 1)
<1>1. k + 1 \in 1 .. Len(bs) /\ (k + 1) - 1 = k
  BY LengthIs
<1>2. Ifaces(bs, k + 1) = Ifaces(bs, k) /\ Meant(bs, k + 1) = <<>>
  BY <1>1, IfacesNext DEF Meant
<1>3. Packets(bs, k) \o <<>> = Packets(bs, k)
  BY StateNext, NothingMore
<1>4. Handled(StateAt(bs, k), "secrets", body, End(bs, k + 1)) = Moved(StateAt(bs, k), End(bs, k + 1))
  BY DEF Handled, Moved
<1>5. Moved(StateAt(bs, k), End(bs, k + 1)) = At(bs, End(bs, k + 1), Ifaces(bs, k), Packets(bs, k))
  BY Moves DEF StateAt
<1> QED
  BY <1>2, <1>3, <1>4, <1>5, StateNext

LEMMA EnhancedRead ==
  ASSUME NEW bs, WellFormed(bs), NEW k \in 1 .. Len(bs) - 1, bs[k + 1].type = "enhanced"
  PROVE  Handled(StateAt(bs, k), "enhanced", Cells(BlockBody(bs[k + 1]), bs[1].order), End(bs, k + 1)) = StateAt(bs, k + 1)
<1> DEFINE o == bs[1].order
           b == bs[k + 1]
           s == BlockBody(b)
           body == Cells(s, o)
           n == Len(b.data)
           g == Ifaces(bs, k)
<1>1. k + 1 \in 1 .. Len(bs) /\ 1 \in 1 .. Len(bs) /\ (k + 1) - 1 = k /\ k \in 1 .. Len(bs)
  BY LengthIs
<1>2. o \in Orders
  <2>1. bs[1].type \in {"section", "classic"}
    BY <1>1, Kinds
  <2> QED
    BY <1>1, <2>1, Kinds
<1>3. b.iface \in Nat /\ b.ticks \in Nat /\ b.orig \in Nat /\ b.data \in Seq(Nat)
  BY <1>1, BlocksHold
<1>4. /\ s \in Seq(Nat) /\ Len(s) \in n + 5 .. n + 6
      /\ s[1] = b.iface /\ s[4] = n /\ s[5] = b.orig /\ s[2] * TickBase + s[3] = b.ticks
      /\ \A i \in 1 .. n : s[5 + i] = b.data[i]
  BY <1>3, EnhancedBody
<1>5. Ifaces(bs, k + 1) = g
  BY <1>1, IfacesNext
<1>6. /\ LinkOf(bs, k + 1, b.iface) = (IF b.iface + 1 \in DOMAIN g THEN g[b.iface + 1].link ELSE Ethernet)
      /\ TickOf(bs, k + 1, b.iface) = (IF b.iface + 1 \in DOMAIN g THEN g[b.iface + 1].resol ELSE Micro)
  <2>1. /\ LinkOf(bs, k + 1, b.iface) = (IF b.iface + 1 \in DOMAIN Ifaces(bs, k + 1) THEN Ifaces(bs, k + 1)[b.iface + 1].link ELSE Ethernet)
        /\ TickOf(bs, k + 1, b.iface) = (IF b.iface + 1 \in DOMAIN Ifaces(bs, k + 1) THEN Ifaces(bs, k + 1)[b.iface + 1].resol ELSE Micro)
    BY <1>1, <1>3, IfacesAnswer
  <2> HIDE DEF b, g
  <2> QED
    BY <1>5, <2>1
<1> DEFINE l == LinkOf(bs, k + 1, b.iface)
           t == TickOf(bs, k + 1, b.iface)
<1>7. Meant(bs, k + 1) = <<[data |-> b.data, ts |-> b.ticks * t, link |-> l, orig |-> b.orig]>>
  <2> HIDE DEF b, l, t
  <2>1. bs[k + 1] = b /\ b.type = "enhanced" /\ TickOf(bs, k + 1, b.iface) = t /\ LinkOf(bs, k + 1, b.iface) = l
    BY DEF b, l, t
  <2> QED
    BY <2>1 DEF Meant
<1>8. b.data = [i \in 1 .. n |-> b.data[i]] /\ n \in Nat
  <2> DEFINE d == b.data
  <2>1. d \in Seq(Nat)
    BY <1>3
  <2> HIDE DEF d
  <2>2. d = [i \in 1 .. Len(d) |-> d[i]] /\ Len(d) \in Nat
    BY <2>1, Elements
  <2> QED
    BY <2>2 DEF d
<1>9. StateAt(bs, k).order = o /\ StateAt(bs, k).ifaces = g /\ StateAt(bs, k).out = Packets(bs, k)
  BY DEF StateAt, At
<1> HIDE DEF s, g, n, l, t
<1>10. Len(body) = Len(s) /\ \A i \in 1 .. Len(s) : body[i] = [v |-> s[i], order |-> o]
  BY <1>2, <1>4, CellsAre
<1> HIDE DEF o, body
<1>11. Len(s) \in Nat /\ n + 5 <= Len(s)
  BY <1>4, <1>8
<1>12. \A i \in 1 .. n : 5 + i \in 1 .. Len(s)
  BY <1>8, <1>11
<1>13. \A i \in 1 .. Len(s) : Number(body[i], o) = s[i] /\ body[i].v = s[i]
  <2> HIDE DEF b
  <2>1. ASSUME NEW i \in 1 .. Len(s) PROVE body[i].v = s[i] /\ body[i].order = o
    <3>1. body[i] = [v |-> s[i], order |-> o]
      BY <1>10
    <3> QED
      BY <3>1
  <2> QED
    BY <2>1 DEF Number
<1>14. /\ Number(body[1], o) = b.iface /\ Number(body[4], o) = n /\ Number(body[5], o) = b.orig
       /\ Number(body[2], o) * TickBase + Number(body[3], o) = b.ticks
  <2> HIDE DEF Number
  <2>1. 1 \in 1 .. Len(s) /\ 2 \in 1 .. Len(s) /\ 3 \in 1 .. Len(s) /\ 4 \in 1 .. Len(s) /\ 5 \in 1 .. Len(s)
    BY <1>8, <1>11
  <2>2. /\ Number(body[1], o) = s[1] /\ Number(body[2], o) = s[2] /\ Number(body[3], o) = s[3]
        /\ Number(body[4], o) = s[4] /\ Number(body[5], o) = s[5]
    BY <1>13, <2>1
  <2> HIDE DEF b
  <2>3. s[1] = b.iface /\ s[4] = n /\ s[5] = b.orig /\ s[2] * TickBase + s[3] = b.ticks
    BY <1>4
  <2> QED
    BY <2>2, <2>3
<1>15. [i \in 1 .. n |-> body[5 + i].v] = b.data
  <2>1. \A i \in 1 .. n : body[5 + i].v = b.data[i]
    <3> HIDE DEF b
    <3>1. \A i \in 1 .. n : s[5 + i] = b.data[i]
      BY <1>4
    <3> QED
      BY <1>12, <1>13, <3>1
  <2> HIDE DEF b
  <2> QED
    BY <1>8, <2>1
<1>16. ~ (Len(body) < 5) /\ ~ (5 + n > Len(body))
  BY <1>8, <1>10, <1>11
<1> HIDE DEF b
<1>17. EnhancedPacket(StateAt(bs, k), body, End(bs, k + 1))
         = Returns(StateAt(bs, k), b.data, b.ticks * t, l, b.orig, End(bs, k + 1))
  <2> HIDE DEF Number, Returns, TickBase
  <2> QED
    BY <1>6, <1>9, <1>14, <1>15, <1>16 DEF EnhancedPacket, l, t
<1>18. Append(Packets(bs, k), [data |-> b.data, ts |-> b.ticks * t, link |-> l, orig |-> b.orig]) = Packets(bs, k) \o Meant(bs, k + 1)
  <2>1. Packets(bs, k) \in Seq(Packet)
    BY StateNext
  <2> QED
    BY <1>7, <2>1, AppendIs
<1>19. Handled(StateAt(bs, k), "enhanced", body, End(bs, k + 1)) = EnhancedPacket(StateAt(bs, k), body, End(bs, k + 1))
  BY DEF Handled
<1>20. Returns(StateAt(bs, k), b.data, b.ticks * t, l, b.orig, End(bs, k + 1))
         = Received(StateAt(bs, k), End(bs, k + 1), Packets(bs, k) \o Meant(bs, k + 1))
  BY <1>9, <1>18 DEF Returns, Received
<1>21. Received(StateAt(bs, k), End(bs, k + 1), Packets(bs, k) \o Meant(bs, k + 1))
         = At(bs, End(bs, k + 1), g, Packets(bs, k) \o Meant(bs, k + 1))
  BY Moves DEF StateAt, g
<1> QED
  BY <1>5, <1>17, <1>19, <1>20, <1>21, StateNext DEF body, s, b, o

LEMMA SimpleRead ==
  ASSUME NEW bs, WellFormed(bs), NEW k \in 1 .. Len(bs) - 1, bs[k + 1].type = "simple"
  PROVE  Handled(StateAt(bs, k), "simple", Cells(BlockBody(bs[k + 1]), bs[1].order), End(bs, k + 1)) = StateAt(bs, k + 1)
<1> DEFINE o == bs[1].order
           b == bs[k + 1]
           s == BlockBody(b)
           body == Cells(s, o)
           n == Len(b.data)
           g == Ifaces(bs, k)
           l == LinkOf(bs, k + 1, 0)
<1>1. k + 1 \in 1 .. Len(bs) /\ 1 \in 1 .. Len(bs) /\ (k + 1) - 1 = k /\ k \in 1 .. Len(bs)
  BY LengthIs
<1>2. o \in Orders
  <2>1. bs[1].type \in {"section", "classic"}
    BY <1>1, Kinds
  <2> QED
    BY <1>1, <2>1, Kinds
<1>3. b.orig \in Nat /\ b.data \in Seq(Nat) /\ (b.orig = n \/ (Odd(n) /\ b.orig > n))
  <2>1. b.orig \in Nat /\ b.data \in Seq(Nat) /\ Unpadded(b)
    BY <1>1, BlocksHold
  <2> QED
    BY <2>1 DEF Unpadded
<1>4. /\ s \in Seq(Nat) /\ Len(s) = (IF Odd(n) THEN n + 1 ELSE n + 2) /\ s[1] = b.orig
      /\ \A i \in 1 .. n : s[1 + i] = b.data[i]
  BY <1>3, SimpleBody
<1>5. Ifaces(bs, k + 1) = g /\ g \in Seq([link : Nat, resol : Nat])
  <2>1. Ifaces(bs, k + 1) = g
    BY <1>1, IfacesNext
  <2>2. g \in Seq([link : Nat, resol : Nat])
    BY <1>1, IfacesAnswer
  <2> QED
    BY <2>1, <2>2
<1>6. l = IF g = <<>> THEN Ethernet ELSE g[1].link
  <2>1. l = (IF 0 + 1 \in DOMAIN Ifaces(bs, k + 1) THEN Ifaces(bs, k + 1)[0 + 1].link ELSE Ethernet)
    BY <1>1, IfacesAnswer
  <2> HIDE DEF g, l
  <2>2. 0 + 1 = 1 /\ (1 \in DOMAIN g <=> g # <<>>)
    BY <1>5
  <2> QED
    BY <1>5, <2>1, <2>2
<1>7. Meant(bs, k + 1) = <<[data |-> b.data, ts |-> NoTime, link |-> l, orig |-> b.orig]>>
  <2> HIDE DEF b, l
  <2>1. bs[k + 1] = b /\ b.type = "simple" /\ LinkOf(bs, k + 1, 0) = l
    BY DEF b, l
  <2> QED
    BY <2>1 DEF Meant
<1>8. b.data = [i \in 1 .. n |-> b.data[i]] /\ n \in Nat
  <2> DEFINE d == b.data
  <2>1. d \in Seq(Nat)
    BY <1>3
  <2> HIDE DEF d
  <2>2. d = [i \in 1 .. Len(d) |-> d[i]] /\ Len(d) \in Nat
    BY <2>1, Elements
  <2> QED
    BY <2>2 DEF d
<1>9. StateAt(bs, k).order = o /\ StateAt(bs, k).ifaces = g /\ StateAt(bs, k).out = Packets(bs, k)
  BY DEF StateAt, At
<1> HIDE DEF s, g, n, l
<1>10. Len(body) = Len(s) /\ \A i \in 1 .. Len(s) : body[i] = [v |-> s[i], order |-> o]
  BY <1>2, <1>4, CellsAre
<1> HIDE DEF o, body
<1>11. Len(s) \in Nat /\ n + 1 <= Len(s) /\ Len(s) <= n + 2 /\ (Odd(n) => Len(s) = n + 1)
  BY <1>4, <1>8
<1>12. 1 \in 1 .. Len(s) /\ \A i \in 1 .. n : 1 + i \in 1 .. Len(s)
  BY <1>8, <1>11
<1>13. \A i \in 1 .. Len(s) : Number(body[i], o) = s[i] /\ body[i].v = s[i]
  <2> HIDE DEF b
  <2>1. ASSUME NEW i \in 1 .. Len(s) PROVE body[i].v = s[i] /\ body[i].order = o
    <3>1. body[i] = [v |-> s[i], order |-> o]
      BY <1>10
    <3> QED
      BY <3>1
  <2> QED
    BY <2>1 DEF Number
<1> HIDE DEF b
<1>14. Number(body[1], o) = b.orig
  BY <1>4, <1>12, <1>13
<1>15. [i \in 1 .. n |-> body[1 + i].v] = b.data
  <2>1. \A i \in 1 .. n : body[1 + i].v = b.data[i]
    <3>1. \A i \in 1 .. n : s[1 + i] = b.data[i]
      BY <1>4
    <3> QED
      BY <1>12, <1>13, <3>1
  <2> QED
    BY <1>8, <2>1
<1>16. body # <<>> /\ (IF Len(body) - 1 > b.orig THEN b.orig ELSE Len(body) - 1) = n
  <2>1. Len(body) = Len(s)
    BY <1>10
  <2>2. body # <<>>
    BY <1>8, <1>11, <2>1
  <2>3. CASE b.orig = n
    BY <1>8, <1>11, <2>1, <2>2, <2>3
  <2>4. CASE Odd(n) /\ b.orig > n
    BY <1>3, <1>8, <1>11, <2>1, <2>2, <2>4
  <2> QED
    BY <1>3, <2>3, <2>4
<1>17. SimplePacket(StateAt(bs, k), body, End(bs, k + 1))
         = Returns(StateAt(bs, k), b.data, NoTime, l, b.orig, End(bs, k + 1))
  <2> DEFINE m == IF Len(body) - 1 > b.orig THEN b.orig ELSE Len(body) - 1
             w == IF g = <<>> THEN Ethernet ELSE g[1].link
  <2>1. m = n /\ w = l
    BY <1>6, <1>16
  <2>2. SimplePacket(StateAt(bs, k), body, End(bs, k + 1))
          = Returns(StateAt(bs, k), [i \in 1 .. m |-> body[1 + i].v], NoTime, w, b.orig, End(bs, k + 1))
    <3> HIDE DEF Number, Returns
    <3> QED
      BY <1>9, <1>14, <1>16 DEF SimplePacket
  <2> HIDE DEF m, w
  <2> QED
    BY <1>15, <2>1, <2>2
<1>18. Append(Packets(bs, k), [data |-> b.data, ts |-> NoTime, link |-> l, orig |-> b.orig]) = Packets(bs, k) \o Meant(bs, k + 1)
  <2>1. Packets(bs, k) \in Seq(Packet)
    BY StateNext
  <2> QED
    BY <1>7, <2>1, AppendIs
<1>19. Handled(StateAt(bs, k), "simple", body, End(bs, k + 1)) = SimplePacket(StateAt(bs, k), body, End(bs, k + 1))
  BY DEF Handled
<1>20. Returns(StateAt(bs, k), b.data, NoTime, l, b.orig, End(bs, k + 1))
         = Received(StateAt(bs, k), End(bs, k + 1), Packets(bs, k) \o Meant(bs, k + 1))
  BY <1>9, <1>18 DEF Returns, Received
<1>21. Received(StateAt(bs, k), End(bs, k + 1), Packets(bs, k) \o Meant(bs, k + 1))
         = At(bs, End(bs, k + 1), g, Packets(bs, k) \o Meant(bs, k + 1))
  BY Moves DEF StateAt, g
<1> QED
  BY <1>5, <1>17, <1>19, <1>20, <1>21, StateNext DEF body, s, b, o

(* A record's cells, in a classic file that was cut after n of them.       *)
LEMMA RecordThere ==
  ASSUME NEW bs, WellFormed(bs), NEW k \in 1 .. Len(bs) - 1, NEW n \in 0 .. End(bs, Len(bs)), bs[k + 1].type = "record"
  PROVE  LET b == bs[k + 1]
             o == bs[1].order
             m == Len(b.data) IN
         /\ m \in Nat /\ m + 4 <= MaxBlock /\ End(bs, k + 1) = End(bs, k) + (m + 4) /\ End(bs, k) \in Nat
         /\ End(bs, k) + 4 <= n =>
              /\ Number(Cut(bs, n)[End(bs, k) + 1], o) = b.sec /\ Number(Cut(bs, n)[End(bs, k) + 2], o) = b.frac
              /\ Number(Cut(bs, n)[End(bs, k) + 3], o) = m /\ Number(Cut(bs, n)[End(bs, k) + 4], o) = b.orig
         /\ \A i \in 1 .. m : End(bs, k) + 4 + i <= n => Cut(bs, n)[End(bs, k) + 4 + i].v = b.data[i]
<1> DEFINE b == bs[k + 1]
           o == bs[1].order
           e == Encoded(bs, k + 1)
           m == Len(b.data)
           p == End(bs, k)
           f == Cut(bs, n)
<1>1. k + 1 \in 1 .. Len(bs) /\ Len(bs) \in Nat /\ k \in 0 .. Len(bs) /\ k \in 0 .. Len(bs) - 1
  BY LengthIs
<1>2. OrderAt(bs, k + 1) = o
  <2>1. bs[1].type = "classic"
    BY <1>1, Kinds
  <2>2. Straight(bs, k + 1)
    <3>1. ASSUME NEW j \in 2 .. k + 1 PROVE bs[j].type # "section"
      <4>1. j \in 2 .. Len(bs)
        BY <1>1
      <4> QED
        BY <2>1, <4>1 DEF WellFormed
    <3> QED
      BY <3>1 DEF Straight
  <2> QED
    BY <1>1, <2>2, OrderStays
<1>3. b.data \in Seq(Nat) /\ m + 9 <= MaxBlock /\ MaxBlock \in Nat
  BY <1>1, BlocksHold, FilesAssumption DEF Garbled
<1>4. /\ Len(e) = m + 4
      /\ e[1] = [v |-> b.sec, order |-> o] /\ e[2] = [v |-> b.frac, order |-> o]
      /\ e[3] = [v |-> m, order |-> o] /\ e[4] = [v |-> b.orig, order |-> o]
      /\ \A i \in 1 .. m : e[4 + i] = [v |-> b.data[i], order |-> o]
  BY <1>1, <1>2, RecordIs
<1>5. p \in Nat /\ End(bs, k + 1) = p + Len(e)
  BY <1>1, EndIs
<1>6. \A j \in 1 .. Len(e) : p + j <= n => f[p + j] = e[j]
  BY <1>1, CutHolds
<1>7. n \in Nat
  <2>1. Len(bs) \in 0 .. Len(bs)
    BY <1>1
  <2>2. End(bs, Len(bs)) \in Nat
    BY <2>1, EndIs
  <2> QED
    BY <2>2
<1>8. m \in Nat
  BY <1>3
<1> HIDE DEF e, b, o, p, f, m
<1>9. m + 4 <= MaxBlock /\ End(bs, k + 1) = p + (m + 4)
  BY <1>3, <1>4, <1>5, <1>8
<1>10. ASSUME p + 4 <= n
       PROVE  Number(f[p + 1], o) = b.sec /\ Number(f[p + 2], o) = b.frac /\ Number(f[p + 3], o) = m /\ Number(f[p + 4], o) = b.orig
  <2>1. 1 \in 1 .. Len(e) /\ 2 \in 1 .. Len(e) /\ 3 \in 1 .. Len(e) /\ 4 \in 1 .. Len(e)
    BY <1>4, <1>8
  <2>2. p + 1 <= n /\ p + 2 <= n /\ p + 3 <= n
    BY <1>5, <1>7, <1>10
  <2>3. f[p + 1] = e[1] /\ f[p + 2] = e[2] /\ f[p + 3] = e[3] /\ f[p + 4] = e[4]
    BY <1>6, <1>10, <2>1, <2>2
  <2> QED
    BY <1>4, <2>3 DEF Number
<1>11. ASSUME NEW i \in 1 .. m, p + 4 + i <= n PROVE f[p + 4 + i].v = b.data[i]
  <2>1. 4 + i \in 1 .. Len(e) /\ p + 4 + i = p + (4 + i)
    BY <1>4, <1>5, <1>8
  <2>2. f[p + 4 + i] = e[4 + i]
    BY <1>6, <1>11, <2>1
  <2>3. e[4 + i] = [v |-> b.data[i], order |-> o]
    BY <1>4
  <2> QED
    BY <2>2, <2>3
<1> QED
  BY <1>5, <1>8, <1>9, <1>10, <1>11 DEF e, b, o, p, f, m

LEMMA RecordRead ==
  ASSUME NEW bs, WellFormed(bs), NEW k \in 1 .. Len(bs) - 1, NEW n \in 0 .. End(bs, Len(bs)),
         bs[k + 1].type = "record", End(bs, k + 1) <= n
  PROVE  NextClassic(Cut(bs, n), StateAt(bs, k)) = StateAt(bs, k + 1)
<1> DEFINE b == bs[k + 1]
           o == bs[1].order
           m == Len(b.data)
           p == End(bs, k)
           f == Cut(bs, n)
           g == Ifaces(bs, k)
           ts == b.sec * Second + b.frac * (IF bs[1].unit = "nano" THEN 1 ELSE Micro)
<1>1. k + 1 \in 1 .. Len(bs) /\ 1 \in 1 .. Len(bs) /\ (k + 1) - 1 = k /\ Len(bs) \in Nat /\ Len(bs) \in 0 .. Len(bs)
  BY LengthIs
<1>2. bs[1].type = "classic"
  BY <1>1, Kinds
<1>3. n \in Nat /\ Len(f) = n /\ MaxBlock \in Nat
  <2>1. End(bs, Len(bs)) \in Nat
    BY <1>1, EndIs
  <2>2. MaxBlock \in Nat
    BY FilesAssumption DEF Garbled
  <2> QED
    BY <2>1, <2>2, CutHolds
<1>4. /\ m \in Nat /\ m + 4 <= MaxBlock /\ End(bs, k + 1) = p + (m + 4) /\ p \in Nat
      /\ p + 4 <= n => /\ Number(f[p + 1], o) = b.sec /\ Number(f[p + 2], o) = b.frac
                       /\ Number(f[p + 3], o) = m /\ Number(f[p + 4], o) = b.orig
      /\ \A i \in 1 .. m : p + 4 + i <= n => f[p + 4 + i].v = b.data[i]
  BY RecordThere
<1>5. Ifaces(bs, k + 1) = g
  BY <1>1, IfacesNext
<1>6. Meant(bs, k + 1) = <<[data |-> b.data, ts |-> ts, link |-> bs[1].link, orig |-> b.orig]>>
  BY DEF Meant
<1>7. b.data = [i \in 1 .. m |-> b.data[i]]
  <2> DEFINE d == b.data
  <2>1. d \in Seq(Nat)
    BY <1>1, BlocksHold
  <2> HIDE DEF d
  <2>2. d = [i \in 1 .. Len(d) |-> d[i]]
    BY <2>1, Elements
  <2> QED
    BY <2>2 DEF d
<1>8. /\ StateAt(bs, k).order = o /\ StateAt(bs, k).pos = p /\ StateAt(bs, k).out = Packets(bs, k)
      /\ StateAt(bs, k).unit = bs[1].unit /\ StateAt(bs, k).link = bs[1].link
  BY <1>2 DEF StateAt, At
<1> HIDE DEF b, o, m, p, f, g
<1>9. p + (m + 4) <= n
  BY <1>4 DEF p
<1>10. p + 4 <= n /\ \A i \in 1 .. m : p + 4 + i <= n
  BY <1>3, <1>4, <1>9
<1>11. Number(f[p + 1], o) = b.sec /\ Number(f[p + 2], o) = b.frac /\ Number(f[p + 3], o) = m /\ Number(f[p + 4], o) = b.orig
  BY <1>4, <1>10
<1>12. [i \in 1 .. m |-> f[p + 4 + i].v] = b.data
  BY <1>4, <1>7, <1>10
<1>13. Len(f) - p # 0 /\ Len(f) - p \notin 1 .. 3 /\ ~ (m > MaxBlock) /\ ~ (Len(f) - p < 4 + m) /\ p + 4 + m = p + (m + 4)
  BY <1>3, <1>4, <1>9
<1>14. NextClassic(f, StateAt(bs, k)) = Returns(StateAt(bs, k), b.data, ts, bs[1].link, b.orig, p + (m + 4))
  <2> HIDE DEF Number, Returns, Second, Micro
  <2> QED
    BY <1>8, <1>11, <1>12, <1>13 DEF NextClassic
<1> HIDE DEF ts
<1>15. Append(Packets(bs, k), [data |-> b.data, ts |-> ts, link |-> bs[1].link, orig |-> b.orig]) = Packets(bs, k) \o Meant(bs, k + 1)
  <2>1. Packets(bs, k) \in Seq(Packet)
    BY StateNext
  <2> QED
    BY <1>6, <2>1, AppendIs
<1>16. Returns(StateAt(bs, k), b.data, ts, bs[1].link, b.orig, End(bs, k + 1))
         = Received(StateAt(bs, k), End(bs, k + 1), Packets(bs, k) \o Meant(bs, k + 1))
  BY <1>8, <1>15 DEF Returns, Received
<1>17. Received(StateAt(bs, k), End(bs, k + 1), Packets(bs, k) \o Meant(bs, k + 1))
         = At(bs, End(bs, k + 1), g, Packets(bs, k) \o Meant(bs, k + 1))
  BY Moves DEF StateAt, g
<1> QED
  BY <1>4, <1>5, <1>14, <1>16, <1>17, StateNext DEF f

(* A block that is there whole is read, and no more than it.               *)
LEMMA BlockRead ==
  ASSUME NEW bs, WellFormed(bs), NEW k \in 1 .. Len(bs) - 1, NEW n \in 0 .. End(bs, Len(bs)),
         End(bs, k + 1) <= n, Straight(bs, k + 1)
  PROVE  NextPacket(Cut(bs, n), StateAt(bs, k)) = StateAt(bs, k + 1)
<1> DEFINE b == bs[k + 1]
<1>1. k + 1 \in 1 .. Len(bs) /\ k + 1 \in 2 .. k + 1 /\ k + 1 # 1
  BY LengthIs
<1>2. b.type \in Kind \/ b.type = "record"
  BY <1>1, Kinds
<1>3. CASE b.type = "record"
  <2>1. bs[1].type = "classic"
    BY <1>1, <1>3, Kinds
  <2>2. StateAt(bs, k).format = "classic"
    BY <2>1 DEF StateAt, At
  <2> QED
    BY <1>3, <2>2, RecordRead DEF NextPacket
<1>4. CASE b.type \in Kind
  <2>1. bs[1].type # "classic" /\ b.type # "record"
    BY <1>1, <1>4, Kinds DEF Kind, TypeOf
  <2>2. StateAt(bs, k).format = "ng" /\ StateAt(bs, k).pos = End(bs, k) /\ StateAt(bs, k).order = bs[1].order
    BY <2>1 DEF StateAt, At
  <2>3. NextPacket(Cut(bs, n), StateAt(bs, k)) = Handled(StateAt(bs, k), b.type, Cells(BlockBody(b), bs[1].order), End(bs, k + 1))
    BY <1>4, <2>2, NgStep DEF NextPacket
  <2>4. b.type \in {"section", "interface", "enhanced", "simple", "secrets"}
    BY <1>4 DEF Kind, TypeOf
  <2>5. CASE b.type = "section"
    <3>1. b.order = bs[1].order
      BY <1>1, <2>5 DEF Straight
    <3> QED
      BY <2>3, <2>5, <3>1, SectionRead
  <2>6. CASE b.type = "interface"
    BY <2>3, <2>6, InterfaceRead
  <2>7. CASE b.type = "enhanced"
    BY <2>3, <2>7, EnhancedRead
  <2>8. CASE b.type = "simple"
    BY <2>3, <2>8, SimpleRead
  <2>9. CASE b.type = "secrets"
    BY <2>3, <2>9, SecretsRead
  <2> QED
    BY <2>4, <2>5, <2>6, <2>7, <2>8, <2>9
<1> QED
  BY <1>2, <1>3, <1>4

Rest(bs, k, n, why) == NextPacket(Cut(bs, n), StateAt(bs, k)) = Stops(StateAt(bs, k), why)

(* Of a block that is cut short, nothing.                                  *)
LEMMA FileEnds ==
  ASSUME NEW bs, WellFormed(bs), NEW k \in 1 .. Len(bs), End(bs, k) \in 0 .. End(bs, Len(bs))
  PROVE  Rest(bs, k, End(bs, k), "eof")
<1> DEFINE n == End(bs, k)
<1>1. Len(Cut(bs, n)) = n /\ n \in Nat
  <2>1. k \in 0 .. Len(bs)
    BY LengthIs
  <2> QED
    BY <2>1, CutHolds, EndIs
<1>2. Len(Cut(bs, n)) - StateAt(bs, k).pos = 0
  <2>1. StateAt(bs, k).pos = n
    BY DEF StateAt, At
  <2> HIDE DEF n
  <2> QED
    BY <1>1, <2>1
<1> HIDE DEF n
<1>3. NextNg(Cut(bs, n), StateAt(bs, k)) = Stops(StateAt(bs, k), "eof")
  BY <1>2 DEF NextNg
<1>4. NextClassic(Cut(bs, n), StateAt(bs, k)) = Stops(StateAt(bs, k), "eof")
  BY <1>2 DEF NextClassic
<1> QED
  BY <1>3, <1>4 DEF NextPacket, Rest, n

LEMMA BlockCut ==
  ASSUME NEW bs, WellFormed(bs), NEW k \in 1 .. Len(bs) - 1, NEW n \in 0 .. End(bs, Len(bs)),
         End(bs, k) < n, n < End(bs, k + 1), Straight(bs, k + 1)
  PROVE  Rest(bs, k, n, "truncated")
<1> DEFINE b == bs[k + 1]
           o == bs[1].order
           p == End(bs, k)
           f == Cut(bs, n)
           st == StateAt(bs, k)
<1>1. k + 1 \in 1 .. Len(bs) /\ k + 1 # 1 /\ Len(bs) \in Nat /\ k \in 0 .. Len(bs) - 1 /\ Len(bs) \in 0 .. Len(bs)
  BY LengthIs
<1>2. b.type \in Kind \/ b.type = "record"
  BY <1>1, Kinds
<1>3. n \in Nat /\ Len(f) = n /\ MaxBlock \in Nat
  <2>1. End(bs, Len(bs)) \in Nat
    BY <1>1, EndIs
  <2>2. MaxBlock \in Nat
    BY FilesAssumption DEF Garbled
  <2> QED
    BY <2>1, <2>2, CutHolds
<1>4. st.pos = p /\ st.order = o
  BY DEF StateAt, At
<1>5. CASE b.type = "record"
  <2> DEFINE m == Len(b.data)
  <2>1. bs[1].type = "classic"
    BY <1>1, <1>5, Kinds
  <2>2. st.format = "classic"
    BY <2>1 DEF StateAt, At
  <2>3. /\ m \in Nat /\ m + 4 <= MaxBlock /\ End(bs, k + 1) = p + (m + 4) /\ p \in Nat
        /\ p + 4 <= n => Number(f[p + 3], o) = m
    BY <1>5, RecordThere
  <2>4. p < n /\ n < End(bs, k + 1)
    OBVIOUS
  <2> HIDE DEF b, o, p, f, st, m
  <2>5. Len(f) - p # 0
    BY <1>3, <2>3, <2>4
  <2>6. CASE Len(f) - p \in 1 .. 3
    <3>1. NextClassic(f, st) = Stops(st, "truncated")
      BY <1>4, <2>5, <2>6 DEF NextClassic
    <3> QED
      BY <2>2, <3>1 DEF NextPacket, Rest, f, st
  <2>7. CASE Len(f) - p \notin 1 .. 3
    <3>1. p + 4 <= n /\ ~ (m > MaxBlock) /\ Len(f) - p < 4 + m
      BY <1>3, <2>3, <2>4, <2>5, <2>7
    <3>2. Number(f[p + 3], o) = m
      BY <2>3, <3>1
    <3>3. NextClassic(f, st) = Stops(st, "truncated")
      <4> HIDE DEF Number, Returns, Second, Micro
      <4> QED
        BY <1>4, <2>5, <2>7, <3>1, <3>2 DEF NextClassic
    <3> QED
      BY <2>2, <3>3 DEF NextPacket, Rest, f, st
  <2> QED
    BY <2>6, <2>7
<1>6. CASE b.type \in Kind
  <2> DEFINE m == Len(BlockBody(b))
  <2>1. bs[1].type # "classic"
    BY <1>1, <1>6, Kinds DEF Kind, TypeOf
  <2>2. st.format = "ng"
    BY <2>1 DEF StateAt, At
  <2>3. OrderAt(bs, k + 1) = o
    BY <1>1, OrderStays
  <2>4. /\ m \in Nat /\ m + 3 <= MaxBlock /\ End(bs, k + 1) = p + (m + 3) /\ p \in Nat
        /\ p + 2 <= n => f[p + 2] = [v |-> m + 3, order |-> OrderAt(bs, k + 1)]
    BY <1>1, <1>6, CellsThere
  <2>5. p < n /\ n < End(bs, k + 1)
    OBVIOUS
  <2> HIDE DEF b, o, p, f, st, m
  <2>6. Len(f) - p # 0
    BY <1>3, <2>4, <2>5
  <2>7. CASE Len(f) - p = 1
    <3>1. NextNg(f, st) = Stops(st, "truncated")
      BY <1>4, <2>6, <2>7 DEF NextNg
    <3> QED
      BY <2>2, <3>1 DEF NextPacket, Rest, f, st
  <2>8. CASE Len(f) - p # 1
    <3>1. p + 2 <= n /\ ~ (m + 3 < 3 \/ m + 3 > MaxBlock) /\ Len(f) - p < m + 3
      BY <1>3, <2>4, <2>5, <2>6, <2>8
    <3>2. Number(f[p + 2], o) = m + 3
      BY <2>3, <2>4, <3>1 DEF Number
    <3>3. NextNg(f, st) = Stops(st, "truncated")
      <4> HIDE DEF Number
      <4> QED
        BY <1>4, <2>6, <2>8, <3>1, <3>2 DEF NextNg
    <3> QED
      BY <2>2, <3>3 DEF NextPacket, Rest, f, st
  <2> QED
    BY <2>7, <2>8
<1> QED
  BY <1>2, <1>5, <1>6

LEMMA SectionSwapped ==
  ASSUME NEW bs, WellFormed(bs), NEW k \in 1 .. Len(bs) - 1, NEW n \in 0 .. End(bs, Len(bs)),
         End(bs, k) < n, bs[k + 1].type = "section", bs[k + 1].order # bs[1].order
  PROVE  Rest(bs, k, n, IF n >= End(bs, k) + 2 THEN "corrupt" ELSE "truncated")
<1> DEFINE b == bs[k + 1]
           o == bs[1].order
           p == End(bs, k)
           f == Cut(bs, n)
           st == StateAt(bs, k)
           m == Len(BlockBody(b))
<1>1. k + 1 \in 1 .. Len(bs) /\ k + 1 # 1 /\ Len(bs) \in Nat /\ k \in 0 .. Len(bs) - 1 /\ Len(bs) \in 0 .. Len(bs)
  BY LengthIs
<1>2. bs[1].type # "classic" /\ b.type \in Kind
  BY <1>1, Kinds DEF Kind, TypeOf
<1>3. n \in Nat /\ Len(f) = n /\ MaxBlock \in Nat /\ MaxBlock < Garbled
  <2>1. End(bs, Len(bs)) \in Nat
    BY <1>1, EndIs
  <2>2. MaxBlock \in Nat /\ MaxBlock < Garbled
    BY FilesAssumption DEF Garbled
  <2> QED
    BY <2>1, <2>2, CutHolds
<1>4. st.pos = p /\ st.order = o /\ st.format = "ng"
  BY <1>2 DEF StateAt, At
<1>5. OrderAt(bs, k + 1) = b.order
  BY <1>1, SectionNext DEF OrderAt
<1>6. p \in Nat /\ (p + 2 <= n => f[p + 2] = [v |-> m + 3, order |-> OrderAt(bs, k + 1)])
  BY <1>1, <1>2, CellsThere
<1>7. p < n /\ b.order # o
  OBVIOUS
<1> HIDE DEF b, o, p, f, st, m
<1>8. Len(f) - p # 0
  BY <1>3, <1>6, <1>7
<1>9. CASE Len(f) - p = 1
  <2>1. ~ (n >= p + 2)
    BY <1>3, <1>6, <1>9
  <2>2. NextNg(f, st) = Stops(st, "truncated")
    BY <1>4, <1>8, <1>9 DEF NextNg
  <2> QED
    BY <1>4, <2>1, <2>2 DEF NextPacket, Rest, f, st, p
<1>10. CASE Len(f) - p # 1
  <2>1. p + 2 <= n /\ n >= p + 2
    BY <1>3, <1>6, <1>7, <1>10
  <2>2. Number(f[p + 2], o) = Garbled
    BY <1>5, <1>6, <1>7, <2>1 DEF Number
  <2>3. Garbled < 3 \/ Garbled > MaxBlock
    BY <1>3 DEF Garbled
  <2>4. NextNg(f, st) = Stops(st, "corrupt")
    <3> HIDE DEF Number
    <3> QED
      BY <1>4, <1>8, <1>10, <2>2, <2>3 DEF NextNg
  <2> QED
    BY <1>4, <2>1, <2>4 DEF NextPacket, Rest, f, st, p
<1> QED
  BY <1>9, <1>10
-----------------------------------------------------------------------------
(* Reading a whole file. *)
Step(file, st) == IF st.end = "no" THEN NextPacket(file, st) ELSE st

LEMMA ReadIs ==
  ASSUME NEW file, Len(file) \in Nat, NEW f, f = [n \in Nat |-> IF n = 0 THEN OpenFile(file) ELSE Step(file, f[n - 1])]
  PROVE  ReadAll(file) = f[Len(file) + 1]
<1> DEFINE Reads(g) == g = [n \in Nat |-> IF n = 0 THEN OpenFile(file) ELSE Step(file, g[n - 1])]
           g == CHOOSE h : Reads(h)
           l == Len(file) + 1
           T == {m \in 0 .. l : g[m] = f[m]}
<1>1. ReadAll(file) = g[l]
  BY DEF ReadAll, Step
<1>2. Reads(g)
  <2>1. Reads(f)
    OBVIOUS
  <2> HIDE DEF Reads
  <2> QED
    BY <2>1
<1> HIDE DEF g
<1>3. \A h : Reads(h) => h[0] = OpenFile(file) /\ \A n \in Nat : h[n + 1] = Step(file, h[n])
  <2>1. ASSUME NEW h, Reads(h) PROVE h[0] = OpenFile(file) /\ \A n \in Nat : h[n + 1] = Step(file, h[n])
    <3>1. \A n \in Nat : h[n] = IF n = 0 THEN OpenFile(file) ELSE Step(file, h[n - 1])
      BY <2>1
    <3>2. ASSUME NEW n \in Nat PROVE h[n + 1] = Step(file, h[n])
      <4>1. n + 1 \in Nat /\ n + 1 # 0 /\ (n + 1) - 1 = n
        OBVIOUS
      <4> QED
        BY <3>1, <4>1
    <3> QED
      BY <3>1, <3>2
  <2> QED
    BY <2>1
<1>4. Reads(f)
  OBVIOUS
<1> HIDE DEF Reads
<1>5. l \in Nat /\ 0 \in Nat
  OBVIOUS
<1>6. 0 \in T
  BY <1>2, <1>3, <1>4, <1>5
<1>7. ASSUME NEW m \in 0 .. l - 1, m \in T PROVE m + 1 \in T
  <2>1. m \in Nat /\ m + 1 \in 0 .. l
    BY <1>5
  <2>2. g[m + 1] = Step(file, g[m]) /\ f[m + 1] = Step(file, f[m])
    BY <1>2, <1>3, <1>4, <2>1
  <2> QED
    BY <1>7, <2>1, <2>2
<1>8. l \in T
  <2> HIDE DEF T, l
  <2>1. \A m \in 0 .. l : m \in T
    BY <1>5, <1>6, <1>7, PassedOn
  <2>2. l \in 0 .. l
    BY <1>5
  <2> QED
    BY <2>1, <2>2
<1> QED
  BY <1>1, <1>8

LEMMA ReadTo ==
  ASSUME NEW bs, WellFormed(bs), NEW k \in 1 .. Len(bs), NEW n \in 0 .. End(bs, Len(bs)), NEW why,
         End(bs, k) <= n, Straight(bs, k), Rest(bs, k, n, why), why # "no"
  PROVE  ReadAll(Cut(bs, n)) = Stops(StateAt(bs, k), why)
<1> DEFINE file == Cut(bs, n)
           last == Stops(StateAt(bs, k), why)
           f == [m \in Nat |-> IF m < k THEN StateAt(bs, m + 1) ELSE last]
<1>1. Len(bs) \in Nat /\ Len(bs) \in 0 .. Len(bs) /\ k \in Nat /\ k \in 0 .. Len(bs) /\ 1 \in 0 .. Len(bs)
  BY LengthIs
<1>2. n \in Nat /\ Len(file) = n
  <2>1. End(bs, Len(bs)) \in Nat
    BY <1>1, EndIs
  <2> QED
    BY <2>1, CutHolds
<1>3. \A m \in 0 .. k : End(bs, m) <= n
  <2> TAKE m \in 0 .. k
  <2>1. m \in 0 .. Len(bs) /\ k \in m .. Len(bs) /\ m \in Nat
    BY <1>1
  <2>2. End(bs, m) + 3 * (k - m) <= End(bs, k) /\ End(bs, m) \in Nat /\ End(bs, k) \in Nat
    BY <1>1, <2>1, EndsGrow, EndIs
  <2> QED
    BY <1>1, <1>2, <2>1, <2>2
<1>4. k < n + 1
  <2>1. 0 \in 0 .. Len(bs) /\ k \in 0 .. Len(bs)
    BY <1>1
  <2>2. End(bs, 0) + 3 * (k - 0) <= End(bs, k) /\ End(bs, 0) = 0 /\ End(bs, k) \in Nat
    BY <1>1, <2>1, EndsGrow, EndIs
  <2> QED
    BY <1>1, <1>2, <2>2
<1>5. f[0] = OpenFile(file)
  <2>1. f[0] = StateAt(bs, 1)
    BY <1>1
  <2>2. End(bs, 1) <= n
    BY <1>1, <1>3
  <2> QED
    BY <2>1, <2>2, ReaderOpens
<1>6. \A m : StateAt(bs, m).end = "no"
  BY DEF StateAt, At
<1>7. last.end = why
  BY DEF Stops, StateAt, At
<1> HIDE DEF last
<1>8. ASSUME NEW m \in Nat PROVE f[m + 1] = Step(file, f[m])
  <2>1. CASE m + 1 < k
    <3>1. f[m + 1] = StateAt(bs, (m + 1) + 1) /\ f[m] = StateAt(bs, m + 1)
      BY <1>1, <2>1
    <3>2. m + 1 \in 1 .. Len(bs) - 1 /\ (m + 1) + 1 \in 0 .. k /\ (m + 1) + 1 \in 1 .. k
      BY <1>1, <2>1
    <3>3. Straight(bs, (m + 1) + 1) /\ End(bs, (m + 1) + 1) <= n
      BY <1>1, <1>3, <3>2 DEF Straight
    <3>4. NextPacket(file, StateAt(bs, m + 1)) = StateAt(bs, (m + 1) + 1)
      BY <3>2, <3>3, BlockRead
    <3> HIDE DEF f, file
    <3> QED
      BY <1>6, <3>1, <3>4 DEF Step
  <2>2. CASE m + 1 = k
    <3>1. f[m + 1] = last /\ f[m] = StateAt(bs, k)
      BY <1>1, <2>2
    <3>2. NextPacket(file, StateAt(bs, k)) = last
      BY DEF Rest, last
    <3> HIDE DEF f, file
    <3> QED
      BY <1>6, <3>1, <3>2 DEF Step
  <2>3. CASE m + 1 > k
    <3>1. f[m + 1] = last /\ f[m] = last
      BY <1>1, <2>3
    <3> HIDE DEF f, file
    <3> QED
      BY <1>7, <3>1 DEF Step
  <2> QED
    BY <1>1, <2>1, <2>2, <2>3
<1>9. f = [m \in Nat |-> IF m = 0 THEN OpenFile(file) ELSE Step(file, f[m - 1])]
  <2>1. \A m \in Nat : f[m] = IF m = 0 THEN OpenFile(file) ELSE Step(file, f[m - 1])
    <3> TAKE m \in Nat
    <3>1. CASE m = 0
      BY <1>5, <3>1
    <3>2. CASE m # 0
      <4>1. m - 1 \in Nat /\ (m - 1) + 1 = m
        BY <3>2
      <4>2. f[(m - 1) + 1] = Step(file, f[m - 1])
        BY <1>8, <4>1
      <4> HIDE DEF f
      <4> QED
        BY <3>2, <4>1, <4>2
    <3> HIDE DEF f
    <3> QED
      BY <3>1, <3>2
  <2>2. f = [m \in Nat |-> f[m]]
    OBVIOUS
  <2> HIDE DEF f
  <2> QED
    BY <2>1, <2>2
<1>10. f[n + 1] = last
  BY <1>1, <1>2, <1>4
<1> HIDE DEF f
<1>11. ReadAll(file) = f[Len(file) + 1]
  BY <1>2, <1>9, ReadIs
<1> QED
  BY <1>2, <1>10, <1>11 DEF last

(* As far as the first section of the other byte order.                    *)
Stopping(bs, stop) ==
  /\ stop \in 1 .. Len(bs) /\ Straight(bs, stop)
  /\ stop < Len(bs) => bs[stop + 1].type = "section" /\ bs[stop + 1].order # bs[1].order

LEMMA CutReads ==
  ASSUME NEW bs, WellFormed(bs), NEW n \in 0 .. End(bs, Len(bs)), NEW stop, Stopping(bs, stop),
         NEW whole \in 1 .. Len(bs), End(bs, whole) <= n, whole = Len(bs) \/ End(bs, whole + 1) > n,
         NEW upTo, upTo = IF whole < stop THEN whole ELSE stop
  PROVE  ReadAll(Cut(bs, n)) =
           Stops(StateAt(bs, upTo),
                 IF n = End(bs, upTo) THEN "eof"
                 ELSE IF upTo = stop /\ stop < Len(bs) /\ n >= End(bs, stop) + 2 THEN "corrupt" ELSE "truncated")
<1>1. Len(bs) \in Nat /\ Len(bs) \in 0 .. Len(bs) /\ stop \in 1 .. Len(bs) /\ upTo \in 1 .. Len(bs) /\ upTo <= stop /\ upTo <= whole
  BY LengthIs DEF Stopping
<1>2. n \in Nat /\ n <= End(bs, Len(bs)) /\ End(bs, upTo) \in Nat /\ End(bs, whole) \in Nat
  <2>1. \A k \in 0 .. Len(bs) : End(bs, k) \in Nat
    BY EndIs
  <2> QED
    BY <1>1, <2>1
<1>3. End(bs, upTo) <= n
  <2>1. End(bs, upTo) + 3 * (whole - upTo) <= End(bs, whole)
    <3>1. upTo \in 0 .. Len(bs) /\ whole \in upTo .. Len(bs)
      BY <1>1
    <3> QED
      BY <3>1, EndsGrow
  <2> QED
    BY <1>1, <1>2, <2>1
<1>4. Straight(bs, upTo)
  BY <1>1 DEF Stopping, Straight
<1>5. CASE n = End(bs, upTo)
  <2>1. Rest(bs, upTo, n, "eof")
    BY <1>1, <1>5, FileEnds
  <2> QED
    BY <1>1, <1>3, <1>4, <1>5, <2>1, ReadTo
<1>6. CASE n # End(bs, upTo) /\ upTo < stop
  <2>1. upTo = whole /\ whole # Len(bs) /\ upTo \in 1 .. Len(bs) - 1 /\ End(bs, upTo) < n
    BY <1>1, <1>2, <1>3, <1>6
  <2>2. End(bs, upTo + 1) \in Nat
    <3>1. upTo + 1 \in 0 .. Len(bs)
      BY <1>1, <2>1
    <3> QED
      BY <3>1, EndIs
  <2>3. n < End(bs, upTo + 1)
    BY <1>2, <2>1, <2>2
  <2>4. Straight(bs, upTo + 1)
    BY <1>1, <1>6 DEF Stopping, Straight
  <2>5. Rest(bs, upTo, n, "truncated")
    BY <2>1, <2>3, <2>4, BlockCut
  <2>6. ReadAll(Cut(bs, n)) = Stops(StateAt(bs, upTo), "truncated")
    BY <1>1, <1>3, <1>4, <2>5, ReadTo
  <2>7. upTo # stop
    BY <1>1, <1>6
  <2> QED
    BY <1>6, <2>6, <2>7
<1>7. CASE n # End(bs, upTo) /\ ~ (upTo < stop)
  <2>1. upTo = stop
    BY <1>1, <1>7
  <2>2. stop # Len(bs)
    BY <1>2, <1>3, <1>7, <2>1
  <2>3. stop \in 1 .. Len(bs) - 1 /\ stop < Len(bs) /\ End(bs, stop) < n
    BY <1>1, <1>2, <1>3, <1>7, <2>1, <2>2
  <2> DEFINE why == IF n >= End(bs, stop) + 2 THEN "corrupt" ELSE "truncated"
  <2>4. Rest(bs, stop, n, why)
    BY <2>3, SectionSwapped DEF Stopping
  <2>5. why # "no"
    OBVIOUS
  <2>6. why = IF n = End(bs, upTo) THEN "eof"
              ELSE IF upTo = stop /\ stop < Len(bs) /\ n >= End(bs, stop) + 2 THEN "corrupt" ELSE "truncated"
    BY <1>7, <2>1, <2>3
  <2> HIDE DEF why
  <2>7. ReadAll(Cut(bs, n)) = Stops(StateAt(bs, upTo), why)
    BY <1>1, <1>3, <1>4, <2>1, <2>4, <2>5, ReadTo
  <2> QED
    BY <2>6, <2>7
<1> QED
  BY <1>5, <1>6, <1>7

LEMMA LeastOf ==
  ASSUME NEW S \in SUBSET Nat, S # {}
  PROVE  \E k \in S : \A j \in S : k <= j
<1> DEFINE R == OpToRel(<, Nat)
<1>1. IsWellFoundedOn(R, Nat)
  BY NatLessThanWellFounded
<1>2. \A x, y \in Nat : y < x => <<y, x>> \in R
  BY DEF OpToRel
<1> HIDE DEF R
<1>3. PICK k \in S : \A j \in S : <<j, k>> \notin R
  BY <1>1, WFMin
<1>4. ASSUME NEW j \in S PROVE k <= j
  <2>1. j \in Nat /\ k \in Nat
    OBVIOUS
  <2>2. ~ (j < k)
    BY <1>2, <1>3, <2>1
  <2> QED
    BY <2>1, <2>2
<1> QED
  BY <1>4

LEMMA WholeFound ==
  ASSUME NEW bs, WellFormed(bs), NEW n, n \in End(bs, 1) .. End(bs, Len(bs))
  PROVE  \E k \in 1 .. Len(bs) : End(bs, k) <= n /\ (k = Len(bs) \/ End(bs, k + 1) > n)
<1> DEFINE T == {k \in 2 .. Len(bs) : End(bs, k) > n}
<1>1. Len(bs) \in Nat /\ Len(bs) >= 1 /\ \A k \in 1 .. Len(bs) : End(bs, k) \in Nat
  <2>1. \A k \in 0 .. Len(bs) : End(bs, k) \in Nat
    BY EndIs
  <2> QED
    BY <2>1, LengthIs
<1>2. n \in Nat /\ End(bs, 1) <= n /\ n <= End(bs, Len(bs))
  BY <1>1
<1>3. CASE T = {}
  <2>1. Len(bs) \in 1 .. Len(bs) /\ End(bs, Len(bs)) \in Nat
    BY <1>1
  <2>2. End(bs, Len(bs)) <= n
    <3>1. CASE Len(bs) = 1
      BY <1>2, <3>1
    <3>2. CASE Len(bs) # 1
      <4> DEFINE l == Len(bs)
      <4>0. l \in Nat /\ l >= 1 /\ l # 1
        BY <1>1, <3>2
      <4> HIDE DEF l
      <4>3. l \in 2 .. l
        BY <4>0
      <4>1. Len(bs) \in 2 .. Len(bs)
        BY <4>3 DEF l
      <4>2. ~ (End(bs, Len(bs)) > n)
        BY <1>3, <4>1
      <4> QED
        BY <1>2, <2>1, <4>2
    <3> QED
      BY <3>1, <3>2
  <2> QED
    BY <2>1, <2>2
<1>4. CASE T # {}
  <2>1. T \in SUBSET Nat
    OBVIOUS
  <2>2. PICK k \in T : \A j \in T : k <= j
    <3> HIDE DEF T
    <3> QED
      BY <1>4, <2>1, LeastOf
  <2>3. k \in 2 .. Len(bs) /\ End(bs, k) > n /\ k - 1 \in 1 .. Len(bs) /\ (k - 1) + 1 = k /\ k \in Nat
    BY <1>1
  <2>4. k - 1 \notin T
    <3>1. ~ (k <= k - 1)
      BY <2>3
    <3> QED
      BY <2>2, <3>1
  <2>5. End(bs, k - 1) <= n
    <3>1. CASE k - 1 = 1
      BY <1>2, <3>1
    <3>2. CASE k - 1 # 1
      <4>1. k - 1 \in 2 .. Len(bs)
        BY <2>3, <3>2
      <4>2. ~ (End(bs, k - 1) > n)
        BY <2>4, <4>1
      <4>3. End(bs, k - 1) \in Nat
        BY <1>1, <2>3
      <4> QED
        BY <1>2, <4>2, <4>3
    <3> QED
      BY <3>1, <3>2
  <2> QED
    BY <2>3, <2>5
<1> QED
  BY <1>3, <1>4

Swapped(bs) == {k \in 2 .. Len(bs) : bs[k].type = "section" /\ bs[k].order # bs[1].order}
Stop(bs) ==
  IF Swapped(bs) = {} THEN Len(bs) ELSE (CHOOSE k \in Swapped(bs) : \A j \in Swapped(bs) : k <= j) - 1

LEMMA StopIs ==
  ASSUME NEW bs, WellFormed(bs)
  PROVE  Stopping(bs, Stop(bs))
<1>1. Len(bs) \in Nat /\ Len(bs) >= 1
  BY LengthIs
<1>2. CASE Swapped(bs) = {}
  <2>1. Stop(bs) = Len(bs)
    BY <1>2 DEF Stop
  <2> QED
    BY <1>1, <1>2, <2>1 DEF Stopping, Straight, Swapped
<1>3. CASE Swapped(bs) # {}
  <2> DEFINE k == CHOOSE k \in Swapped(bs) : \A j \in Swapped(bs) : k <= j
  <2>1. Swapped(bs) \in SUBSET Nat
    BY DEF Swapped
  <2>2. k \in Swapped(bs) /\ \A j \in Swapped(bs) : k <= j
    BY <1>3, <2>1, LeastOf
  <2>3. Stop(bs) = k - 1
    BY <1>3 DEF Stop
  <2> HIDE DEF k
  <2>4. k \in 2 .. Len(bs) /\ bs[k].type = "section" /\ bs[k].order # bs[1].order
    BY <2>2 DEF Swapped
  <2>5. k - 1 \in 1 .. Len(bs) /\ (k - 1) + 1 = k
    BY <1>1, <2>4
  <2>6. Straight(bs, k - 1)
    <3>1. ASSUME NEW j \in 2 .. k - 1 PROVE bs[j].type = "section" => bs[j].order = bs[1].order
      <4>1. j \in 2 .. Len(bs) /\ ~ (k <= j)
        BY <1>1, <2>4
      <4>2. j \notin Swapped(bs)
        BY <2>2, <4>1
      <4> QED
        BY <4>1, <4>2 DEF Swapped
    <3> QED
      BY <3>1 DEF Straight
  <2> QED
    BY <2>3, <2>4, <2>5, <2>6 DEF Stopping
<1> QED
  BY <1>2, <1>3

LEMMA ReadBack == WellFormed(blocks) => FilesReadBack
<1> SUFFICES ASSUME WellFormed(blocks) PROVE FilesReadBack
  OBVIOUS
<1> DEFINE ends == [k \in 0 .. Len(blocks) |-> Len(Encode(SubSeq(blocks, 1, k)))]
           stop == Stop(blocks)
           file == Encode(blocks)
           whole(n) == CHOOSE k \in 1 .. Len(blocks) : ends[k] <= n /\ (k = Len(blocks) \/ ends[k + 1] > n)
           upTo(n) == IF whole(n) < stop THEN whole(n) ELSE stop
           read(n) == ReadAll(SubSeq(file, 1, n))
<1>1. Len(blocks) \in Nat /\ Len(blocks) >= 1
  BY LengthIs
<1>2. \A k \in 0 .. Len(blocks) : ends[k] = End(blocks, k)
  BY EncodeIs DEF End
<1>3. Len(file) = End(blocks, Len(blocks))
  BY EncodeIs DEF End
<1> HIDE DEF ends, file
<1>4. ASSUME NEW n \in ends[1] .. Len(file)
      PROVE  /\ read(n).out = FlattenSeq([i \in 1 .. upTo(n) |-> Meant(blocks, i)])
             /\ read(n).end = IF n = ends[upTo(n)] THEN "eof"
                              ELSE IF upTo(n) = stop /\ stop < Len(blocks) /\ n >= ends[stop] + 2 THEN "corrupt"
                              ELSE "truncated"
  <2> DEFINE w == whole(n)
             u == upTo(n)
  <2>1. n \in End(blocks, 1) .. End(blocks, Len(blocks))
    BY <1>1, <1>2, <1>3
  <2>2. \E k \in 1 .. Len(blocks) : ends[k] <= n /\ (k = Len(blocks) \/ ends[k + 1] > n)
    <3>1. PICK k \in 1 .. Len(blocks) : End(blocks, k) <= n /\ (k = Len(blocks) \/ End(blocks, k + 1) > n)
      BY <2>1, WholeFound
    <3>2. k \in 0 .. Len(blocks) /\ (k # Len(blocks) => k + 1 \in 0 .. Len(blocks))
      BY <1>1
    <3> QED
      BY <1>2, <3>1, <3>2
  <2>3. w \in 1 .. Len(blocks) /\ ends[w] <= n /\ (w = Len(blocks) \/ ends[w + 1] > n)
    BY <2>2
  <2> HIDE DEF w
  <2>4. w \in 0 .. Len(blocks) /\ (w # Len(blocks) => w + 1 \in 0 .. Len(blocks))
    BY <1>1, <2>3
  <2>5. End(blocks, w) <= n /\ (w = Len(blocks) \/ End(blocks, w + 1) > n)
    BY <1>2, <2>3, <2>4
  <2>6. Stopping(blocks, stop)
    BY StopIs
  <2>7. stop \in 1 .. Len(blocks) /\ u = (IF w < stop THEN w ELSE stop)
    BY <2>6 DEF Stopping, w
  <2> HIDE DEF u, stop
  <2>8. n \in 0 .. End(blocks, Len(blocks))
    <3>1. 1 \in 0 .. Len(blocks)
      BY <1>1
    <3>2. End(blocks, 1) \in Nat
      BY <3>1, EndIs
    <3> QED
      BY <2>1, <3>2
  <2> DEFINE why == IF n = End(blocks, u) THEN "eof"
                    ELSE IF u = stop /\ stop < Len(blocks) /\ n >= End(blocks, stop) + 2 THEN "corrupt" ELSE "truncated"
  <2>9. ReadAll(Cut(blocks, n)) = Stops(StateAt(blocks, u), why)
    BY <2>3, <2>5, <2>6, <2>7, <2>8, CutReads
  <2>10. read(n) = ReadAll(Cut(blocks, n))
    BY DEF Cut, file
  <2>11. u \in 0 .. Len(blocks) /\ stop \in 0 .. Len(blocks)
    BY <1>1, <2>3, <2>7
  <2>12. End(blocks, u) = ends[u] /\ End(blocks, stop) = ends[stop]
    BY <1>2, <2>11
  <2> HIDE DEF why, read
  <2>13. read(n).out = Packets(blocks, u) /\ read(n).end = why
    BY <2>9, <2>10 DEF Stops, StateAt, At
  <2> QED
    BY <2>12, <2>13 DEF why, u, Packets
<1> HIDE DEF whole, upTo, read
<1> QED
  BY <1>4 DEF FilesReadBack, ends, stop, file, whole, upTo, read, Stop, Swapped
-----------------------------------------------------------------------------
(* What a merge writes: three blocks, and one for each packet.             *)
Merged(link, ps) ==
  [i \in 1 .. Len(ps) + 3 |->
     IF i = 1 THEN [type |-> "section", order |-> "le"]
     ELSE IF i = 2 THEN [type |-> "interface", link |-> link, resol |-> <<>>]
     ELSE IF i = 3 THEN [type |-> "secrets", data |-> <<1, 2>>]
     ELSE [type |-> "enhanced", iface |-> 0, ticks |-> TicksOf(ps[i - 3].ts), data |-> ps[i - 3].data, orig |-> ps[i - 3].orig]]

LEMMA MergedWell ==
  ASSUME NEW link \in Nat, NEW ps \in Seq(Packet)
  PROVE  LET ms == Merged(link, ps) IN
         /\ WellFormed(ms) /\ Len(ms) = Len(ps) + 3
         /\ \A k \in 1 .. Len(ms) : Straight(ms, k)
         /\ ms[1] = [type |-> "section", order |-> "le"]
         /\ ms[2] = [type |-> "interface", link |-> link, resol |-> <<>>]
         /\ ms[3] = [type |-> "secrets", data |-> <<1, 2>>]
         /\ \A i \in 1 .. Len(ps) :
              ms[i + 3] = [type |-> "enhanced", iface |-> 0, ticks |-> TicksOf(ps[i].ts), data |-> ps[i].data, orig |-> ps[i].orig]
<1> DEFINE ms == Merged(link, ps)
           l == Len(ps)
           C == SectionHeader \cup ClassicHeader \cup Carried
           E(p) == [type |-> "enhanced", iface |-> 0, ticks |-> TicksOf(p.ts), data |-> p.data, orig |-> p.orig]
           F(i) == IF i = 1 THEN [type |-> "section", order |-> "le"]
                   ELSE IF i = 2 THEN [type |-> "interface", link |-> link, resol |-> <<>>]
                   ELSE IF i = 3 THEN [type |-> "secrets", data |-> <<1, 2>>]
                   ELSE E(ps[i - 3])
<1>1. l \in Nat /\ MaxBlock \in Nat /\ 11 <= MaxBlock
  BY FilesAssumption DEF Garbled
<1>2. ASSUME NEW i \in 4 .. l + 3 PROVE E(ps[i - 3]) \in Carried /\ Sized(E(ps[i - 3])) /\ E(ps[i - 3]).type = "enhanced"
  <2> DEFINE p == ps[i - 3]
  <2>1. i - 3 \in 1 .. Len(ps)
    BY <1>1
  <2>2. p \in Packet
    <3>1. i - 3 \in DOMAIN ps
      BY <2>1
    <3> QED
      BY <3>1, ElementsIn
  <2> HIDE DEF p
  <2>3. p.data \in Seq(Nat) /\ p.ts \in Nat \cup {NoTime} /\ p.orig \in Nat /\ Len(p.data) + 9 <= MaxBlock
    BY <2>2 DEF Packet
  <2>4. TicksOf(p.ts) \in Nat
    BY <2>3 DEF TicksOf, NoTime, Garbled, Micro
  <2>5. E(p) \in Carried /\ E(p).type = "enhanced" /\ E(p).data = p.data
    BY <2>3, <2>4 DEF Carried
  <2> HIDE DEF E
  <2>6. Sized(E(p))
    BY <2>3, <2>5 DEF Sized
  <2> QED
    BY <2>5, <2>6 DEF p
<1>3. F(2) \in Carried /\ F(3) \in Carried
  <2>1. <<>> \in Seq(Nat) /\ <<1, 2>> \in Seq(Nat)
    OBVIOUS
  <2> QED
    BY <2>1 DEF Carried
<1>4. Sized(F(2)) /\ Sized(F(3))
  BY <1>1 DEF Sized
<1>5. F(1) \in SectionHeader /\ F(1).type = "section" /\ F(2).type = "interface" /\ F(3).type = "secrets"
  BY DEF SectionHeader, Orders
<1>6. ms = [i \in 1 .. l + 3 |-> F(i)]
  BY DEF Merged
<1>7. \A i \in 1 .. l + 3 : i = 1 \/ i = 2 \/ i = 3 \/ i \in 4 .. l + 3
  BY <1>1
<1>8. \A i \in 4 .. l + 3 : F(i) \in Carried /\ Sized(F(i)) /\ F(i).type = "enhanced"
  <2> TAKE i \in 4 .. l + 3
  <2>1. F(i) = E(ps[i - 3])
    <3> HIDE DEF E
    <3>1. i # 1 /\ i # 2 /\ i # 3
      BY <1>1
    <3> QED
      BY <3>1
  <2> HIDE DEF E, F
  <2> QED
    BY <1>2, <2>1
<1>9. F(1) = [type |-> "section", order |-> "le"] /\ F(2) = [type |-> "interface", link |-> link, resol |-> <<>>]
      /\ F(3) = [type |-> "secrets", data |-> <<1, 2>>]
  OBVIOUS
<1>10. \A i \in 1 .. l : F(i + 3) = E(ps[i])
  <2> TAKE i \in 1 .. l
  <2> HIDE DEF E
  <2>1. i + 3 # 1 /\ i + 3 # 2 /\ i + 3 # 3 /\ (i + 3) - 3 = i
    BY <1>1
  <2> QED
    BY <2>1
<1> HIDE DEF F, ms
<1>11. \A i \in 1 .. l + 3 : F(i) \in C
  BY <1>3, <1>5, <1>7, <1>8
<1>12. ms \in Seq(C) /\ Len(ms) = l + 3 /\ \A i \in 1 .. l + 3 : ms[i] = F(i)
  <2> HIDE DEF C
  <2> QED
    BY <1>1, <1>6, <1>11
<1>13. ms # <<>> /\ 1 \in 1 .. l + 3 /\ 2 \in 1 .. l + 3 /\ 3 \in 1 .. l + 3
  BY <1>1, <1>12
<1>14. \A i \in 2 .. l + 3 : F(i) \in SectionHeader \cup Carried /\ Sized(F(i)) /\ F(i).type \notin {"record", "section"}
  <2> TAKE i \in 2 .. l + 3
  <2>1. i = 2 \/ i = 3 \/ i \in 4 .. l + 3
    BY <1>1
  <2> QED
    BY <1>3, <1>4, <1>5, <1>8, <2>1
<1>15. \A i \in 2 .. l + 3 : ms[i] = F(i)
  BY <1>1, <1>12
<1>16. WellFormed(ms)
  <2>1. ms[1] \in SectionHeader \cup ClassicHeader /\ ms[1].type # "classic"
    BY <1>5, <1>12, <1>13
  <2>2. \A i \in 2 .. Len(ms) : ms[i] \in SectionHeader \cup Carried /\ Sized(ms[i]) /\ ms[i].type # "record"
    BY <1>12, <1>14, <1>15
  <2> QED
    BY <1>12, <1>13, <2>1, <2>2 DEF WellFormed
<1>17. \A k \in 1 .. Len(ms) : Straight(ms, k)
  <2>1. ASSUME NEW k \in 1 .. Len(ms), NEW j \in 2 .. k PROVE ms[j].type # "section"
    <3>1. j \in 2 .. l + 3
      BY <1>1, <1>12
    <3> QED
      BY <1>14, <1>15, <3>1
  <2> QED
    BY <2>1 DEF Straight
<1>18. ms[1] = F(1) /\ ms[2] = F(2) /\ ms[3] = F(3) /\ \A i \in 1 .. l : ms[i + 3] = F(i + 3)
  <2>1. \A i \in 1 .. l : i + 3 \in 1 .. l + 3
    BY <1>1
  <2> QED
    BY <1>12, <1>13, <2>1
<1> QED
  BY <1>9, <1>10, <1>12, <1>16, <1>17, <1>18 DEF ms

LEMMA MergedNone ==
  ASSUME NEW link \in Nat
  PROVE  Merged(link, <<>>) = <<[type |-> "section", order |-> "le"],
                                [type |-> "interface", link |-> link, resol |-> <<>>],
                                [type |-> "secrets", data |-> <<1, 2>>]>>
<1> DEFINE ms == Merged(link, <<>>)
           a == [type |-> "section", order |-> "le"]
           b == [type |-> "interface", link |-> link, resol |-> <<>>]
           c == [type |-> "secrets", data |-> <<1, 2>>]
<1>1. <<>> \in Seq(Packet) /\ Len(<<>>) = 0
  OBVIOUS
<1>2. WellFormed(ms) /\ Len(ms) = 3 /\ ms[1] = a /\ ms[2] = b /\ ms[3] = c
  <2>1. /\ WellFormed(ms) /\ Len(ms) = Len(<<>>) + 3 /\ ms[1] = a /\ ms[2] = b /\ ms[3] = c
    BY <1>1, MergedWell
  <2> QED
    BY <1>1, <2>1
<1> HIDE DEF ms, a, b, c
<1>3. ms = [i \in 1 .. 3 |-> ms[i]]
  BY <1>2, Elements DEF WellFormed
<1>4. ms = <<ms[1], ms[2], ms[3]>>
  BY <1>3
<1> QED
  BY <1>2, <1>4 DEF ms, a, b, c

(* One packet more, one block more.                                        *)
LEMMA MergedMore ==
  ASSUME NEW link \in Nat, NEW ps \in Seq(Packet), NEW p \in Packet
  PROVE  Encode(Merged(link, Append(ps, p))) = Encode(Merged(link, ps)) \o PacketBlock(p)
<1> DEFINE qs == Append(ps, p)
           ns == Merged(link, qs)
           ms == Merged(link, ps)
           l == Len(ps) + 3
           C == SectionHeader \cup ClassicHeader \cup Carried
<1>1. qs \in Seq(Packet) /\ Len(qs) = Len(ps) + 1 /\ qs[Len(qs)] = p /\ (\A i \in 1 .. Len(ps) : qs[i] = ps[i]) /\ Len(ps) \in Nat
  OBVIOUS
<1> HIDE DEF qs
<1>2. WellFormed(ns) /\ Len(ns) = Len(qs) + 3 /\ \A k \in 1 .. Len(ns) : Straight(ns, k)
  BY <1>1, MergedWell
<1>3. WellFormed(ms) /\ Len(ms) = l
  BY MergedWell
<1>4. ms = [i \in 1 .. l |-> ns[i]]
  <2> DEFINE F(xs, i) ==
               IF i = 1 THEN [type |-> "section", order |-> "le"]
               ELSE IF i = 2 THEN [type |-> "interface", link |-> link, resol |-> <<>>]
               ELSE IF i = 3 THEN [type |-> "secrets", data |-> <<1, 2>>]
               ELSE [type |-> "enhanced", iface |-> 0, ticks |-> TicksOf(xs[i - 3].ts), data |-> xs[i - 3].data, orig |-> xs[i - 3].orig]
  <2>1. ms = [i \in 1 .. l |-> F(ps, i)] /\ ns = [i \in 1 .. Len(qs) + 3 |-> F(qs, i)]
    BY DEF Merged
  <2>2. ASSUME NEW i \in 1 .. l PROVE F(ps, i) = F(qs, i) /\ i \in 1 .. Len(qs) + 3
    <3>1. i \in 1 .. Len(qs) + 3
      BY <1>1
    <3>2. i = 1 \/ i = 2 \/ i = 3 \/ i - 3 \in 1 .. Len(ps)
      BY <1>1
    <3>3. i - 3 \in 1 .. Len(ps) => qs[i - 3] = ps[i - 3]
      BY <1>1
    <3>4. F(ps, i) = F(qs, i)
      BY <3>2, <3>3
    <3> QED
      BY <3>1, <3>4
  <2> HIDE DEF F, ms, ns, l
  <2>3. \A i \in 1 .. l : ns[i] = F(ps, i)
    BY <2>1, <2>2
  <2> QED
    BY <2>1, <2>3
<1> HIDE DEF ms, ns
<1>5. l \in 0 .. Len(ns) /\ l + 1 = Len(ns) /\ l \in 0 .. Len(ns) - 1 /\ l \in Nat /\ Len(ns) \in 1 .. Len(ns)
  BY <1>1, <1>2
<1>6. ms = SubSeq(ns, 1, l)
  <2>1. ns \in Seq(C)
    BY <1>2 DEF WellFormed
  <2> HIDE DEF C, l
  <2>2. SubSeq(ns, 1, l) \in Seq(C) /\ Len(SubSeq(ns, 1, l)) = l /\ \A i \in 1 .. l : SubSeq(ns, 1, l)[i] = ns[i]
    BY <1>5, <2>1
  <2>3. SubSeq(ns, 1, l) = [i \in 1 .. l |-> SubSeq(ns, 1, l)[i]]
    BY <2>2, Elements
  <2> QED
    BY <1>4, <2>2, <2>3
<1>7. Encode(ms) = Begun(ns, l) /\ Encode(ns) = Begun(ns, l + 1)
  BY <1>2, <1>5, <1>6, EncodeIs
<1>8. Begun(ns, l + 1) = Begun(ns, l) \o Encoded(ns, l + 1)
  BY <1>2, <1>5, BegunIs
<1>9. Encoded(ns, l + 1) = PacketBlock(p)
  <2> DEFINE e == [type |-> "enhanced", iface |-> 0, ticks |-> TicksOf(p.ts), data |-> p.data, orig |-> p.orig]
  <2>1. ns[l + 1] = e /\ ns[1].order = "le"
    <3>1. Len(qs) \in 1 .. Len(qs) /\ Len(qs) + 3 = l + 1
      BY <1>1
    <3>2. /\ ns[1] = [type |-> "section", order |-> "le"]
          /\ \A i \in 1 .. Len(qs) : ns[i + 3] = [type |-> "enhanced", iface |-> 0, ticks |-> TicksOf(qs[i].ts), data |-> qs[i].data, orig |-> qs[i].orig]
      BY <1>1, MergedWell DEF ns
    <3> QED
      BY <1>1, <3>1, <3>2
  <2>2. OrderAt(ns, l + 1) = "le"
    BY <1>2, <1>5, <2>1, OrderStays
  <2>3. e.type = "enhanced"
    OBVIOUS
  <2>4. PacketBlock(p) = Framed("enhanced", BlockBody(e), "le")
    BY DEF PacketBlock
  <2> HIDE DEF e
  <2> QED
    BY <2>1, <2>2, <2>3, <2>4 DEF Encoded
<1> QED
  BY <1>5, <1>7, <1>8, <1>9 DEF ms, ns, qs
-----------------------------------------------------------------------------
(* What is read of a merge: each packet with its microsecond.              *)
Copied(link, p) == [data |-> p.data, ts |-> TicksOf(p.ts) * Micro, link |-> link, orig |-> p.orig]

LEMMA MergedHolds ==
  ASSUME NEW link \in Nat, NEW ps \in Seq(Packet), NEW j \in 0 .. Len(ps)
  PROVE  /\ Ifaces(Merged(link, ps), j + 3) = <<[link |-> link, resol |-> Micro]>>
         /\ j # 0 => Meant(Merged(link, ps), j + 3) = <<Copied(link, ps[j])>>
<1> DEFINE ms == Merged(link, ps)
           g == <<[link |-> link, resol |-> Micro]>>
           l == Len(ps)
           T == {i \in 0 .. l : Ifaces(ms, i + 3) = g}
<1>1. /\ WellFormed(ms) /\ Len(ms) = l + 3 /\ ms[1].type = "section"
      /\ ms[2].type = "interface" /\ ms[2].link = link /\ ms[2].resol = <<>> /\ ms[3].type = "secrets"
      /\ \A i \in 1 .. l :
           ms[i + 3] = [type |-> "enhanced", iface |-> 0, ticks |-> TicksOf(ps[i].ts), data |-> ps[i].data, orig |-> ps[i].orig]
  <2>1. /\ WellFormed(ms) /\ Len(ms) = l + 3
        /\ ms[1] = [type |-> "section", order |-> "le"]
        /\ ms[2] = [type |-> "interface", link |-> link, resol |-> <<>>]
        /\ ms[3] = [type |-> "secrets", data |-> <<1, 2>>]
        /\ \A i \in 1 .. Len(ps) :
             ms[i + 3] = [type |-> "enhanced", iface |-> 0, ticks |-> TicksOf(ps[i].ts), data |-> ps[i].data, orig |-> ps[i].orig]
    BY MergedWell
  <2> HIDE DEF ms
  <2> QED
    BY <2>1
<1> HIDE DEF ms
<1>2. l \in Nat
  OBVIOUS
<1> HIDE DEF l
<1>3. 1 \in 1 .. Len(ms) /\ 2 \in 1 .. Len(ms) /\ 3 \in 1 .. Len(ms) /\ \A i \in 1 .. l : i + 3 \in 1 .. Len(ms)
  BY <1>1, <1>2
<1>4. Ifaces(ms, 1) = <<>>
  BY <1>1, <1>3, IfacesNext
<1>5. Ifaces(ms, 2) = g
  <2>1. Ifaces(ms, 2) = Append(Ifaces(ms, 2 - 1), Known(ms[2]))
    BY <1>1, <1>3, IfacesNext
  <2>2. Known(ms[2]) = [link |-> link, resol |-> Micro]
    BY <1>1 DEF Known
  <2>3. 2 - 1 = 1 /\ \A x : Append(<<>>, x) = <<x>>
    OBVIOUS
  <2>4. Ifaces(ms, 2) = Append(<<>>, [link |-> link, resol |-> Micro])
    BY <1>4, <2>1, <2>2, <2>3
  <2> QED
    BY <2>3, <2>4
<1>6. Ifaces(ms, 3) = g
  <2>1. Ifaces(ms, 3) = Ifaces(ms, 3 - 1)
    BY <1>1, <1>3, IfacesNext
  <2> QED
    BY <1>5, <2>1
<1> HIDE DEF g
<1>7. 0 \in T
  BY <1>2, <1>6
<1>8. ASSUME NEW i \in 0 .. l - 1, i \in T PROVE i + 1 \in T
  <2>1. i + 1 \in 1 .. l /\ (i + 1) + 3 \in 1 .. Len(ms) /\ ((i + 1) + 3) - 1 = i + 3
    BY <1>1, <1>2
  <2>2. ms[(i + 1) + 3].type = "enhanced"
    <3>1. ms[(i + 1) + 3] = [type |-> "enhanced", iface |-> 0, ticks |-> TicksOf(ps[i + 1].ts), data |-> ps[i + 1].data, orig |-> ps[i + 1].orig]
      BY <1>1, <2>1
    <3> QED
      BY <3>1
  <2>3. Ifaces(ms, (i + 1) + 3) = Ifaces(ms, i + 3)
    BY <1>1, <2>1, <2>2, IfacesNext
  <2> QED
    BY <1>2, <1>8, <2>1, <2>3
<1>9. \A i \in 0 .. l : Ifaces(ms, i + 3) = g
  <2> HIDE DEF T
  <2>1. \A i \in 0 .. l : i \in T
    BY <1>2, <1>7, <1>8, PassedOn
  <2> QED
    BY <2>1 DEF T
<1>10. j \in 0 .. l
  BY DEF l
<1>11. ASSUME j # 0 PROVE Meant(ms, j + 3) = <<Copied(link, ps[j])>>
  <2>1. j \in 1 .. l /\ j + 3 \in 1 .. Len(ms) /\ 0 \in Nat
    BY <1>1, <1>2, <1>10, <1>11
  <2>2. ms[j + 3] = [type |-> "enhanced", iface |-> 0, ticks |-> TicksOf(ps[j].ts), data |-> ps[j].data, orig |-> ps[j].orig]
    BY <1>1, <2>1
  <2> DEFINE h == Ifaces(ms, j + 3)
  <2>3. /\ LinkOf(ms, j + 3, 0) = (IF 0 + 1 \in DOMAIN h THEN h[0 + 1].link ELSE Ethernet)
        /\ TickOf(ms, j + 3, 0) = (IF 0 + 1 \in DOMAIN h THEN h[0 + 1].resol ELSE Micro)
    BY <1>1, <2>1, IfacesAnswer
  <2>4. h = g
    BY <1>9, <1>10
  <2> HIDE DEF h
  <2>5. 0 + 1 \in DOMAIN g /\ g[0 + 1] = [link |-> link, resol |-> Micro]
    BY DEF g
  <2>6. LinkOf(ms, j + 3, 0) = link /\ TickOf(ms, j + 3, 0) = Micro
    BY <2>3, <2>4, <2>5
  <2>7. Meant(ms, j + 3) = <<[data |-> ms[j + 3].data, ts |-> ms[j + 3].ticks * TickOf(ms, j + 3, ms[j + 3].iface),
                             link |-> LinkOf(ms, j + 3, ms[j + 3].iface), orig |-> ms[j + 3].orig]>>
    <3>1. ms[j + 3].type = "enhanced"
      BY <2>2
    <3> QED
      BY <3>1 DEF Meant
  <2>8. ms[j + 3].data = ps[j].data /\ ms[j + 3].ticks = TicksOf(ps[j].ts) /\ ms[j + 3].iface = 0 /\ ms[j + 3].orig = ps[j].orig
    BY <2>2
  <2> QED
    BY <2>6, <2>7, <2>8 DEF Copied
<1> QED
  BY <1>9, <1>10, <1>11 DEF ms, g

LEMMA MergedRead ==
  ASSUME NEW link \in Nat, NEW ps \in Seq(Packet)
  PROVE  /\ Len(Packets(Merged(link, ps), Len(ps) + 3)) = Len(ps)
         /\ \A i \in 1 .. Len(ps) : Packets(Merged(link, ps), Len(ps) + 3)[i] = Copied(link, ps[i])
<1> DEFINE ms == Merged(link, ps)
           l == Len(ps)
           P(j) == Packets(ms, j + 3)
           T == {j \in 0 .. l : Len(P(j)) = j /\ \A i \in 1 .. j : P(j)[i] = Copied(link, ps[i])}
<1>1. WellFormed(ms) /\ Len(ms) = l + 3 /\ l \in Nat
  <2>1. WellFormed(ms) /\ Len(ms) = l + 3
    BY MergedWell
  <2>2. l \in Nat
    OBVIOUS
  <2> QED
    BY <2>1, <2>2
<1>2. ms[2].type = "interface" /\ ms[3].type = "secrets"
  <2>1. ms[2] = [type |-> "interface", link |-> link, resol |-> <<>>] /\ ms[3] = [type |-> "secrets", data |-> <<1, 2>>]
    BY MergedWell
  <2> HIDE DEF ms
  <2> QED
    BY <2>1
<1>3. \A j \in 1 .. l : Meant(ms, j + 3) = <<Copied(link, ps[j])>>
  <2> TAKE j \in 1 .. l
  <2>1. j \in 0 .. Len(ps) /\ j # 0
    BY <1>1
  <2> QED
    BY <2>1, MergedHolds
<1> HIDE DEF ms, l
<1>4. P(0) = <<>>
  <2>1. Packets(ms, 1) = <<>>
    BY <1>1, PacketsNext
  <2>2. Packets(ms, 2) = <<>>
    <3>1. 1 \in 1 .. Len(ms) - 1 /\ 1 + 1 = 2
      BY <1>1
    <3>2. Packets(ms, 1 + 1) = Packets(ms, 1) \o Meant(ms, 1 + 1)
      BY <1>1, <3>1, PacketsNext
    <3>3. Meant(ms, 2) = <<>>
      BY <1>2 DEF Meant
    <3>4. Packets(ms, 2) = <<>> \o <<>>
      BY <2>1, <3>1, <3>2, <3>3
    <3> QED
      BY <3>4
  <2>3. Packets(ms, 3) = <<>>
    <3>1. 2 \in 1 .. Len(ms) - 1 /\ 2 + 1 = 3
      BY <1>1
    <3>2. Packets(ms, 2 + 1) = Packets(ms, 2) \o Meant(ms, 2 + 1)
      BY <1>1, <3>1, PacketsNext
    <3>3. Meant(ms, 3) = <<>>
      BY <1>2 DEF Meant
    <3>4. Packets(ms, 3) = <<>> \o <<>>
      BY <2>2, <3>1, <3>2, <3>3
    <3> QED
      BY <3>4
  <2>4. 0 + 3 = 3
    OBVIOUS
  <2> QED
    BY <2>3, <2>4
<1>5. \A j \in 0 .. l : P(j) \in Seq(Packet)
  <2> TAKE j \in 0 .. l
  <2>1. j + 3 \in 1 .. Len(ms)
    BY <1>1
  <2> QED
    BY <1>1, <2>1, PacketsNext
<1>6. \A j \in 0 .. l - 1 : P(j + 1) = P(j) \o <<Copied(link, ps[j + 1])>>
  <2> TAKE j \in 0 .. l - 1
  <2>1. j + 3 \in 1 .. Len(ms) - 1 /\ j + 1 \in 1 .. l /\ (j + 3) + 1 = (j + 1) + 3
    BY <1>1
  <2>2. Packets(ms, (j + 3) + 1) = Packets(ms, j + 3) \o Meant(ms, (j + 3) + 1)
    BY <1>1, <2>1, PacketsNext
  <2> QED
    BY <1>3, <2>1, <2>2
<1> HIDE DEF P
<1>7. 0 \in T
  <2>1. Len(P(0)) = 0
    BY <1>4
  <2> QED
    BY <1>1, <2>1
<1>8. ASSUME NEW j \in 0 .. l - 1, j \in T PROVE j + 1 \in T
  <2>1. j \in 0 .. l /\ j + 1 \in 0 .. l /\ j \in Nat
    BY <1>1
  <2> DEFINE s == P(j)
             x == Copied(link, ps[j + 1])
             t == P(j + 1)
  <2>2. t = s \o <<x>> /\ s \in Seq(Packet) /\ Len(s) = j /\ \A i \in 1 .. j : s[i] = Copied(link, ps[i])
    BY <1>5, <1>6, <1>8, <2>1
  <2> HIDE DEF s, t, x
  <2>3. Len(t) = j + 1 /\ t[j + 1] = x /\ \A i \in 1 .. j : t[i] = s[i]
    BY <2>1, <2>2
  <2>4. \A i \in 1 .. j + 1 : t[i] = Copied(link, ps[i])
    <3> TAKE i \in 1 .. j + 1
    <3>1. i \in 1 .. j \/ i = j + 1
      BY <2>1
    <3>2. x = Copied(link, ps[j + 1])
      BY DEF x
    <3> QED
      BY <2>2, <2>3, <3>1, <3>2
  <2> QED
    BY <2>1, <2>3, <2>4 DEF t
<1>9. l \in T
  <2> HIDE DEF T
  <2>1. \A j \in 0 .. l : j \in T
    BY <1>1, <1>7, <1>8, PassedOn
  <2>2. l \in 0 .. l
    BY <1>1
  <2> QED
    BY <2>1, <2>2
<1> QED
  BY <1>9 DEF P, ms, l

(* A microsecond is kept.                                                  *)
LEMMA CopiedSame ==
  ASSUME NEW link, NEW p \in Packet
  PROVE  SamePacket(p, Copied(link, p))
<1>1. p.ts \in Nat \cup {NoTime}
  BY DEF Packet
<1>2. CASE p.ts = NoTime
  BY <1>2 DEF SamePacket, Copied
<1>3. CASE p.ts # NoTime
  <2> DEFINE t == p.ts
             q == t \div Micro
  <2>1. t \in Nat /\ q \in Nat
    BY <1>1, <1>3 DEF Micro
  <2>2. Copied(link, p).ts = q * Micro
    BY <1>3 DEF Copied, TicksOf
  <2> HIDE DEF q
  <2>3. (q * Micro) \div Micro = q
    BY <2>1 DEF Micro
  <2> QED
    BY <2>2, <2>3 DEF SamePacket, Copied, q
<1> QED
  BY <1>2, <1>3

(* A file that is there whole. *)
LEMMA WholeCut ==
  ASSUME NEW bs, WellFormed(bs)
  PROVE  /\ Encode(bs) \in Seq(Cell) /\ Len(Encode(bs)) = End(bs, Len(bs)) /\ End(bs, Len(bs)) \in Nat
         /\ Cut(bs, End(bs, Len(bs))) = Encode(bs)
         /\ \A k \in 0 .. Len(bs) : End(bs, k) \in Nat /\ End(bs, k) <= End(bs, Len(bs))
<1> DEFINE f == Encode(bs)
           e == End(bs, Len(bs))
<1>1. Len(bs) \in Nat /\ Len(bs) \in 0 .. Len(bs)
  BY LengthIs
<1>2. f \in Seq(Cell) /\ Len(f) = e /\ e \in Nat
  <2>1. f = Begun(bs, Len(bs)) /\ f \in Seq(Cell) /\ e \in Nat
    BY <1>1, EncodeIs, BegunIs, EndIs
  <2>2. Len(f) = e
    BY <2>1 DEF End
  <2> QED
    BY <2>1, <2>2
<1> HIDE DEF f, e
<1>3. SubSeq(f, 1, e) = f
  <2>1. SubSeq(f, 1, e) \in Seq(Cell) /\ Len(SubSeq(f, 1, e)) = e /\ \A i \in 1 .. e : SubSeq(f, 1, e)[i] = f[i]
    BY <1>2
  <2>2. SubSeq(f, 1, e) = [i \in 1 .. e |-> SubSeq(f, 1, e)[i]] /\ f = [i \in 1 .. e |-> f[i]]
    BY <1>2, <2>1, Elements
  <2> QED
    BY <2>1, <2>2
<1>4. ASSUME NEW k \in 0 .. Len(bs) PROVE End(bs, k) \in Nat /\ End(bs, k) <= e
  <2>1. End(bs, k) \in Nat /\ Len(bs) \in k .. Len(bs) /\ k \in Nat
    BY <1>1, EndIs
  <2>2. End(bs, k) + 3 * (Len(bs) - k) <= e
    BY <2>1, EndsGrow DEF e
  <2> QED
    BY <1>1, <1>2, <2>1, <2>2
<1> QED
  BY <1>2, <1>3, <1>4 DEF f, e, Cut

LEMMA AllRead ==
  ASSUME NEW bs, WellFormed(bs)
  PROVE  /\ ReadAll(Encode(bs)).out = Packets(bs, Stop(bs))
         /\ ReadAll(Encode(bs)).end = "eof" <=> Stop(bs) = Len(bs)
<1> DEFINE n == End(bs, Len(bs))
           stop == Stop(bs)
           w == Len(bs)
<1>1. Len(bs) \in Nat /\ Len(bs) \in 1 .. Len(bs) /\ Len(bs) \in 0 .. Len(bs)
  BY LengthIs
<1>2. n \in 0 .. n /\ n \in Nat /\ Cut(bs, n) = Encode(bs)
  BY WholeCut
<1>3. Stopping(bs, stop) /\ stop \in 1 .. Len(bs)
  BY StopIs DEF Stopping
<1>4. stop = IF w < stop THEN w ELSE stop
  BY <1>1, <1>3
<1> DEFINE why == IF n = End(bs, stop) THEN "eof"
                  ELSE IF stop = stop /\ stop < Len(bs) /\ n >= End(bs, stop) + 2 THEN "corrupt" ELSE "truncated"
<1>5. ReadAll(Cut(bs, n)) = Stops(StateAt(bs, stop), why)
  <2>1. w \in 1 .. Len(bs) /\ End(bs, w) <= n /\ (w = Len(bs) \/ End(bs, w + 1) > n)
    BY <1>1, <1>2
  <2> HIDE DEF stop
  <2>2. ReadAll(Cut(bs, n)) =
           Stops(StateAt(bs, stop),
                 IF n = End(bs, stop) THEN "eof"
                 ELSE IF stop = stop /\ stop < Len(bs) /\ n >= End(bs, stop) + 2 THEN "corrupt" ELSE "truncated")
    BY <1>2, <1>3, <1>4, <2>1, CutReads
  <2> QED
    BY <2>2
<1>6. why = "eof" <=> stop = Len(bs)
  <2>1. stop # Len(bs) => End(bs, stop) # n
    <3>1. stop \in 0 .. Len(bs) /\ Len(bs) \in stop .. Len(bs) /\ stop \in Nat
      BY <1>1, <1>3
    <3>2. End(bs, stop) + 3 * (Len(bs) - stop) <= n /\ End(bs, stop) \in Nat
      BY <3>1, EndsGrow, EndIs
    <3> HIDE DEF stop, n
    <3> QED
      BY <1>1, <1>2, <3>1, <3>2
  <2> HIDE DEF stop
  <2> QED
    BY <2>1
<1> HIDE DEF why, n
<1>7. ReadAll(Encode(bs)).out = Packets(bs, stop) /\ ReadAll(Encode(bs)).end = why
  BY <1>2, <1>5 DEF Stops, StateAt, At
<1> QED
  BY <1>6, <1>7
-----------------------------------------------------------------------------
(* What asking for a packet may give, of a file that was cut.              *)
LEMMA NextIs ==
  ASSUME NEW bs, WellFormed(bs), NEW n \in 0 .. End(bs, Len(bs)), NEW k \in 1 .. Stop(bs), End(bs, k) <= n
  PROVE  \/ k < Stop(bs) /\ End(bs, k + 1) <= n /\ NextPacket(Cut(bs, n), StateAt(bs, k)) = StateAt(bs, k + 1)
         \/ n = End(bs, k) /\ Rest(bs, k, n, "eof")
         \/ k < Len(bs) /\ n < End(bs, k + 1) /\ Rest(bs, k, n, "truncated")
         \/ k = Stop(bs) /\ k < Len(bs) /\ Rest(bs, k, n, "corrupt")
<1> DEFINE stop == Stop(bs)
<1>1. Len(bs) \in Nat /\ stop \in 1 .. Len(bs) /\ Straight(bs, stop) /\ (stop < Len(bs) => bs[stop + 1].type = "section" /\ bs[stop + 1].order # bs[1].order)
  BY LengthIs, StopIs DEF Stopping
<1>2. k \in 1 .. stop
  OBVIOUS
<1> HIDE DEF stop
<1>3. k \in 1 .. Len(bs) /\ k \in 0 .. Len(bs)
  BY <1>1, <1>2
<1>4. n \in Nat /\ End(bs, k) \in Nat /\ n <= End(bs, Len(bs))
  BY <1>3, WholeCut
<1>5. CASE n = End(bs, k)
  <2>1. Rest(bs, k, End(bs, k), "eof")
    BY <1>3, <1>5, FileEnds
  <2> QED
    BY <1>5, <2>1
<1>6. CASE n # End(bs, k)
  <2>1. End(bs, k) < n
    BY <1>4, <1>6
  <2>2. k # Len(bs)
    BY <1>4, <2>1
  <2>3. k \in 1 .. Len(bs) - 1 /\ k + 1 \in 0 .. Len(bs) /\ k < Len(bs)
    BY <1>1, <1>3, <2>2
  <2>4. End(bs, k + 1) \in Nat
    BY <2>3, EndIs
  <2>5. CASE k < stop
    <3>1. Straight(bs, k + 1)
      BY <1>1, <1>2, <2>5, SMTT(30) DEF Straight
    <3>2. CASE End(bs, k + 1) <= n
      <4>1. NextPacket(Cut(bs, n), StateAt(bs, k)) = StateAt(bs, k + 1)
        BY <2>3, <3>1, <3>2, BlockRead
      <4> QED
        BY <2>5, <3>2, <4>1 DEF stop
    <3>3. CASE ~ (End(bs, k + 1) <= n)
      <4>1. n < End(bs, k + 1)
        BY <1>4, <2>4, <3>3
      <4>2. Rest(bs, k, n, "truncated")
        BY <2>1, <2>3, <3>1, <4>1, BlockCut
      <4> QED
        BY <2>3, <4>1, <4>2
    <3> QED
      BY <3>2, <3>3
  <2>6. CASE ~ (k < stop)
    <3>1. k = stop
      BY <1>1, <1>2, <2>6
    <3>2. bs[k + 1].type = "section" /\ bs[k + 1].order # bs[1].order
      BY <1>1, <2>3, <3>1
    <3>3. Rest(bs, k, n, IF n >= End(bs, k) + 2 THEN "corrupt" ELSE "truncated")
      BY <2>1, <2>3, <3>2, SectionSwapped
    <3>4. CASE n >= End(bs, k) + 2
      BY <2>3, <3>1, <3>3, <3>4 DEF stop
    <3>5. CASE ~ (n >= End(bs, k) + 2)
      <4>1. Rest(bs, k, n, "truncated")
        BY <3>3, <3>5
      <4>2. k \in 0 .. Len(bs) - 1
        BY <2>3
      <4>3. End(bs, k + 1) = End(bs, k) + Len(Encoded(bs, k + 1)) /\ Len(Encoded(bs, k + 1)) >= 3 /\ Len(Encoded(bs, k + 1)) \in Nat
        BY <4>2, EndIs
      <4>4. n < End(bs, k + 1)
        BY <1>4, <3>5, <4>3
      <4> QED
        BY <2>3, <4>1, <4>4
    <3> QED
      BY <3>4, <3>5
  <2> QED
    BY <2>5, <2>6
<1> QED
  BY <1>5, <1>6

LinkAt(bs) == IF bs[1].type = "classic" THEN bs[1].link ELSE Ethernet
Written(bs, k) == Encode(Merged(LinkAt(bs), Packets(bs, k)))

(* The output and what waits in its buffer are the packets read so far.    *)
Copying(k, n) ==
  /\ End(blocks, k) <= n /\ taken = Cut(blocks, n)
  /\ mpc \in {"opened", "copying"} => reader = StateAt(blocks, k)
  /\ mpc = "opened" => k = 1
  /\ mpc = "copying" => output \in Seq(Cell) /\ unflushed \in Seq(Cell) /\ output \o unflushed = Written(blocks, k)
  /\ mpc = "done" => output = Written(blocks, k) /\ k = Len(blocks) /\ Packets(blocks, k) # <<>>
  /\ mpc = "failed" => Stop(blocks) # Len(blocks) \/ Packets(blocks, Len(blocks)) = <<>>

MergeInv ==
  /\ WellFormed(blocks)
  /\ mpc \in {"off", "opened", "copying", "done", "failed"} /\ inPlace \in BOOLEAN
  /\ mpc # "off" /\ ~ inPlace =>
       /\ source = Encode(blocks)
       /\ \E k \in 1 .. Stop(blocks), n \in 0 .. End(blocks, Len(blocks)) : Copying(k, n)

LEMMA LinkTyped ==
  ASSUME NEW bs, WellFormed(bs)
  PROVE  LinkAt(bs) \in Nat
<1>1. 1 \in 1 .. Len(bs)
  BY LengthIs
<1> QED
  BY <1>1, BlocksHold DEF LinkAt, Ethernet

LEMMA WrittenMore ==
  ASSUME NEW bs, WellFormed(bs), NEW k \in 1 .. Len(bs) - 1
  PROVE  \/ /\ Packets(bs, k + 1) = Packets(bs, k) /\ Written(bs, k + 1) = Written(bs, k)
            /\ ~ (Len(Packets(bs, k + 1)) > Len(Packets(bs, k)))
         \/ /\ Len(Packets(bs, k + 1)) > Len(Packets(bs, k))
            /\ Written(bs, k + 1) = Written(bs, k) \o PacketBlock(Last(Packets(bs, k + 1)))
            /\ Last(Packets(bs, k + 1)) \in Packet
<1> DEFINE ps == Packets(bs, k)
           qs == Packets(bs, k + 1)
           m == Meant(bs, k + 1)
<1>1. k \in 1 .. Len(bs) /\ k + 1 \in 1 .. Len(bs)
  BY LengthIs
<1>2. ps \in Seq(Packet) /\ qs = ps \o m /\ m \in Seq(Packet)
  BY <1>1, PacketsNext, MeantTyped
<1>3. m = <<>> \/ \E p : m = <<p>>
  <2>1. CASE bs[k + 1].type \notin {"record", "enhanced", "simple"}
    BY <2>1 DEF Meant
  <2>2. CASE bs[k + 1].type \in {"record", "enhanced", "simple"}
    BY <2>2 DEF Meant
  <2> QED
    BY <2>1, <2>2
<1> HIDE DEF m, ps
<1>4. CASE m = <<>>
  <2>1. qs = ps
    BY <1>2, <1>4, NothingMore
  <2>2. ~ (Len(ps) > Len(ps))
    BY <1>2
  <2> QED
    BY <2>1, <2>2 DEF Written, ps
<1>5. ASSUME NEW p, m = <<p>>
      PROVE  /\ Len(qs) > Len(ps) /\ Last(qs) \in Packet
             /\ Written(bs, k + 1) = Written(bs, k) \o PacketBlock(Last(qs))
  <2> HIDE DEF qs
  <2>1. p \in Packet
    <3>1. 1 \in DOMAIN m /\ m[1] = p
      BY <1>5
    <3>2. m[1] \in Packet
      BY <1>2, <3>1, ElementsIn
    <3> QED
      BY <3>1, <3>2
  <2>2. qs = Append(ps, p)
    BY <1>2, <1>5, AppendIs
  <2>3. Len(qs) = Len(ps) + 1 /\ Last(qs) = p /\ Len(ps) \in Nat
    BY <1>2, <2>2 DEF Last
  <2>4. Encode(Merged(LinkAt(bs), Append(ps, p))) = Encode(Merged(LinkAt(bs), ps)) \o PacketBlock(p)
    BY <1>2, <2>1, LinkTyped, MergedMore
  <2>5. Written(bs, k + 1) = Written(bs, k) \o PacketBlock(p)
    BY <2>2, <2>4 DEF Written, ps, qs
  <2> QED
    BY <2>1, <2>3, <2>5
<1> QED
  BY <1>3, <1>4, <1>5 DEF ps

LEMMA BlockTyped ==
  ASSUME NEW p \in Packet
  PROVE  PacketBlock(p) \in Seq(Cell)
<1> DEFINE e == [type |-> "enhanced", iface |-> 0, ticks |-> TicksOf(p.ts), data |-> p.data, orig |-> p.orig]
<1>1. p.data \in Seq(Nat) /\ p.ts \in Nat \cup {NoTime} /\ p.orig \in Nat
  BY DEF Packet
<1>2. TicksOf(p.ts) \in Nat
  BY <1>1 DEF TicksOf, NoTime, Garbled, Micro
<1>3. e.type = "enhanced" /\ e.iface \in Nat /\ e.ticks \in Nat /\ e.orig \in Nat /\ e.data \in Seq(Nat)
  BY <1>1, <1>2
<1>4. PacketBlock(p) = Framed("enhanced", BlockBody(e), "le")
  BY DEF PacketBlock
<1> HIDE DEF e
<1>5. BlockBody(e) \in Seq(Nat)
  BY <1>3, EnhancedBody
<1>6. "enhanced" \in Kind /\ "le" \in Orders
  BY DEF Kind, TypeOf, Orders
<1> QED
  BY <1>4, <1>5, <1>6, FramedIs

(* What is read of the input next.                                         *)
LEMMA FilledIs ==
  ASSUME WellFormed(blocks), source = Encode(blocks), NEW n \in 0 .. End(blocks, Len(blocks)), taken = Cut(blocks, n)
  PROVE  /\ \E m \in n .. End(blocks, Len(blocks)) : Filled = Cut(blocks, m)
         /\ Filled = taken => n = End(blocks, Len(blocks))
<1> DEFINE f == Encode(blocks)
           l == End(blocks, Len(blocks))
           m == IF l < n + Buffer THEN l ELSE n + Buffer
<1>1. f \in Seq(Cell) /\ Len(f) = l /\ l \in Nat
  BY WholeCut
<1>2. n \in Nat /\ n <= l /\ Buffer \in Nat /\ Buffer >= 18 /\ n \in 0 .. l
  BY <1>1, MergeAssumption
<1>3. m \in n .. l /\ m \in Nat /\ (m = n => n = l)
  BY <1>1, <1>2
<1>4. taken = SubSeq(f, 1, n) /\ Len(taken) = n
  BY CutHolds DEF Cut
<1>5. Filled = SubSeq(f, 1, n) \o SubSeq(f, n + 1, m)
  BY <1>1, <1>4 DEF Filled, Chunk
<1> HIDE DEF f, l, m
<1>6. /\ SubSeq(f, 1, n) \in Seq(Cell) /\ Len(SubSeq(f, 1, n)) = n /\ \A i \in 1 .. n : SubSeq(f, 1, n)[i] = f[i]
      /\ SubSeq(f, 1, m) \in Seq(Cell) /\ Len(SubSeq(f, 1, m)) = m /\ \A i \in 1 .. m : SubSeq(f, 1, m)[i] = f[i]
  BY <1>1, <1>2, <1>3
<1>7. SubSeq(f, n + 1, m) \in Seq(Cell) /\ Len(SubSeq(f, n + 1, m)) = m - n /\ \A i \in 1 .. m - n : SubSeq(f, n + 1, m)[i] = f[n + i]
  <2>1. n + 1 \in Int /\ m \in Int /\ \A i \in n + 1 .. m : f[i] \in Cell
    BY <1>1, <1>2, <1>3
  <2>2. /\ SubSeq(f, n + 1, m) \in Seq(Cell)
        /\ Len(SubSeq(f, n + 1, m)) = IF n + 1 <= m THEN m - (n + 1) + 1 ELSE 0
        /\ \A i \in 1 .. m - (n + 1) + 1 : SubSeq(f, n + 1, m)[i] = f[n + 1 + i - 1]
    BY <2>1, SubSeqProperties
  <2>3. m - (n + 1) + 1 = m - n /\ \A i \in 1 .. m - n : n + 1 + i - 1 = n + i
    BY <1>2, <1>3
  <2>4. (IF n + 1 <= m THEN m - (n + 1) + 1 ELSE 0) = m - n
    BY <1>2, <1>3
  <2> QED
    BY <2>2, <2>3, <2>4
<1> DEFINE a == SubSeq(f, 1, n)
           b == SubSeq(f, n + 1, m)
           c == SubSeq(f, 1, m)
<1>8. a \o b = c
  <2> HIDE DEF a, b, c
  <2>1. a \in Seq(Cell) /\ Len(a) = n /\ b \in Seq(Cell) /\ Len(b) = m - n /\ c \in Seq(Cell) /\ Len(c) = m
    BY <1>6, <1>7 DEF a, b, c
  <2>2. a \o b \in Seq(Cell) /\ Len(a \o b) = m
    BY <1>2, <1>3, <2>1
  <2>3. \A i \in 1 .. m : (a \o b)[i] = c[i]
    <3> TAKE i \in 1 .. m
    <3>1. CASE i \in 1 .. n
      <4>1. (a \o b)[i] = a[i]
        BY <1>2, <2>1, <3>1
      <4> QED
        BY <1>6, <3>1, <4>1 DEF a, c
    <3>2. CASE i \notin 1 .. n
      <4>1. i - n \in 1 .. m - n /\ n + (i - n) = i
        BY <1>2, <1>3, <3>2
      <4>2. (a \o b)[i] = b[i - n]
        BY <1>2, <1>3, <2>1, <3>2
      <4>3. b[i - n] = f[n + (i - n)]
        BY <1>7, <4>1 DEF b
      <4> QED
        BY <1>6, <4>1, <4>2, <4>3 DEF c
    <3> QED
      BY <3>1, <3>2
  <2> DEFINE d == a \o b
  <2> HIDE DEF d
  <2>4. d \in Seq(Cell) /\ Len(d) = m /\ \A i \in 1 .. m : d[i] = c[i]
    BY <2>2, <2>3 DEF d
  <2>5. d = [i \in 1 .. m |-> d[i]] /\ c = [i \in 1 .. m |-> c[i]]
    BY <2>1, <2>4, Elements
  <2> QED
    BY <2>4, <2>5 DEF d
<1>9. Filled = Cut(blocks, m)
  BY <1>5, <1>8 DEF Cut, f
<1>10. Filled = taken => m = n
  BY <1>4, <1>5, <1>6, <1>8
<1> QED
  BY <1>3, <1>9, <1>10 DEF l
-----------------------------------------------------------------------------
(* The steps of a merge.                                                   *)
LEMMA WriteIs ==
  ASSUME output \in Seq(Cell), unflushed \in Seq(Cell), NEW cells \in Seq(Cell), Write(cells)
  PROVE  /\ output' \in Seq(Cell) /\ unflushed' \in Seq(Cell)
         /\ output' \o unflushed' = (output \o unflushed) \o cells
         /\ ~ inPlace => source' = source
<1> DEFINE all == unflushed \o cells
           l == Len(all)
           n == Spilled(all)
           a == SubSeq(all, 1, n)
           b == SubSeq(all, n + 1, l)
<1>1. output' = output \o a /\ unflushed' = b /\ (~ inPlace => source' = source)
  BY DEF Write
<1>2. all \in Seq(Cell) /\ l \in Nat
  OBVIOUS
<1>3. n \in 0 .. l
  <2>1. Buffer \in Nat /\ Buffer > 0
    BY MergeAssumption
  <2>2. n = IF l <= Buffer THEN 0 ELSE l - (l % Buffer)
    BY DEF Spilled
  <2> HIDE DEF l, n
  <2>3. l % Buffer \in 0 .. Buffer - 1
    BY <1>2, <2>1
  <2> DEFINE r == l % Buffer
  <2> HIDE DEF r
  <2>4. r \in 0 .. Buffer - 1 /\ n = IF l <= Buffer THEN 0 ELSE l - r
    BY <2>2, <2>3 DEF r
  <2> QED
    BY <1>2, <2>1, <2>4
<1> HIDE DEF n, all
<1>4. a \in Seq(Cell) /\ Len(a) = n /\ \A i \in 1 .. n : a[i] = all[i]
  BY <1>2, <1>3
<1>5. b \in Seq(Cell) /\ Len(b) = l - n /\ \A i \in 1 .. l - n : b[i] = all[n + i]
  <2>1. n + 1 \in Int /\ l \in Int /\ \A i \in n + 1 .. l : all[i] \in Cell
    BY <1>2, <1>3
  <2>2. /\ SubSeq(all, n + 1, l) \in Seq(Cell)
        /\ Len(SubSeq(all, n + 1, l)) = IF n + 1 <= l THEN l - (n + 1) + 1 ELSE 0
        /\ \A i \in 1 .. l - (n + 1) + 1 : SubSeq(all, n + 1, l)[i] = all[n + 1 + i - 1]
    BY <2>1, SubSeqProperties
  <2>3. l - (n + 1) + 1 = l - n /\ \A i \in 1 .. l - n : n + 1 + i - 1 = n + i
    BY <1>2, <1>3
  <2>4. (IF n + 1 <= l THEN l - (n + 1) + 1 ELSE 0) = l - n
    BY <1>2, <1>3
  <2> QED
    BY <2>2, <2>3, <2>4
<1> HIDE DEF a, b
<1>6. a \o b = all
  <2> DEFINE c == a \o b
  <2>1. c \in Seq(Cell) /\ Len(c) = l
    BY <1>2, <1>3, <1>4, <1>5
  <2>2. \A i \in 1 .. l : c[i] = all[i]
    <3> TAKE i \in 1 .. l
    <3>1. CASE i \in 1 .. n
      BY <1>2, <1>3, <1>4, <1>5, <3>1
    <3>2. CASE i \notin 1 .. n
      <4>1. i - n \in 1 .. l - n /\ n + (i - n) = i
        BY <1>2, <1>3, <3>2
      <4>2. c[i] = b[i - n]
        BY <1>2, <1>3, <1>4, <1>5, <3>2
      <4> QED
        BY <1>5, <4>1, <4>2
    <3> QED
      BY <3>1, <3>2
  <2> HIDE DEF c
  <2>3. c = [i \in 1 .. l |-> c[i]] /\ all = [i \in 1 .. l |-> all[i]]
    BY <1>2, <2>1, Elements
  <2>4. c = all
    BY <2>2, <2>3
  <2> QED
    BY <2>4 DEF c
<1>7. (output \o a) \o b = output \o (a \o b)
  BY <1>4, <1>5, SMTT(30)
<1>8. (output \o unflushed) \o cells = output \o all
  BY DEF all
<1> QED
  BY <1>1, <1>4, <1>5, <1>6, <1>7, <1>8

(* A file begins with six cells at most.                                   *)
LEMMA FirstEnd ==
  ASSUME NEW bs, WellFormed(bs)
  PROVE  End(bs, 1) \in Nat /\ End(bs, 1) <= 18 /\ End(bs, 1) <= End(bs, Len(bs))
<1>1. 1 \in 1 .. Len(bs) /\ Len(bs) \in Nat /\ bs[1] \in SectionHeader \cup ClassicHeader
  BY LengthIs DEF WellFormed
<1>2. End(bs, 1) \in Nat /\ End(bs, 1) <= End(bs, Len(bs))
  <2>1. 1 \in 0 .. Len(bs)
    BY <1>1
  <2> QED
    BY <2>1, WholeCut
<1>3. End(bs, 1) = Len(Encoded(bs, 1))
  <2>1. 0 \in 0 .. Len(bs) - 1 /\ 0 + 1 = 1
    BY <1>1
  <2>2. End(bs, 0) = 0 /\ End(bs, 0 + 1) = End(bs, 0) + Len(Encoded(bs, 0 + 1)) /\ Len(Encoded(bs, 0 + 1)) \in Nat
    BY <2>1, EndIs
  <2> QED
    BY <2>1, <2>2
<1>4. CASE bs[1] \in SectionHeader
  <2>1. bs[1].type = "section"
    BY <1>4 DEF SectionHeader
  <2>2. BlockBody(bs[1]) = <<Magic, 1, 0>>
    BY <2>1, SectionBody
  <2>3. Encoded(bs, 1) = Framed("section", <<Magic, 1, 0>>, OrderAt(bs, 1))
    BY <2>1, <2>2 DEF Encoded
  <2> DEFINE s == <<TypeOf["section"], Len(<<Magic, 1, 0>>) + 3>> \o <<Magic, 1, 0>> \o <<Len(<<Magic, 1, 0>>) + 3>>
  <2>4. Len(s) = 6
    OBVIOUS
  <2>5. Encoded(bs, 1) = [i \in 1 .. Len(s) |-> [v |-> s[i], order |-> OrderAt(bs, 1)]]
    BY <2>3 DEF Framed, Cells
  <2> HIDE DEF s
  <2>6. Len(Encoded(bs, 1)) = 6
    BY <2>4, <2>5
  <2>7. End(bs, 1) = 6
    BY <1>3, <2>6
  <2>8. \A x : x = 6 => x <= 18
    OBVIOUS
  <2> QED
    BY <1>2, <2>7, <2>8
<1>5. CASE bs[1] \in ClassicHeader
  <2>1. bs[1].type = "classic"
    BY <1>5 DEF ClassicHeader
  <2> DEFINE s == <<ClassicMagic[bs[1].unit], bs[1].snap, bs[1].link>>
  <2>2. Encoded(bs, 1) = [i \in 1 .. Len(s) |-> [v |-> s[i], order |-> bs[1].order]]
    BY <2>1 DEF Encoded, Cells
  <2>3. Len(s) = 3
    OBVIOUS
  <2> HIDE DEF s
  <2>4. Len(Encoded(bs, 1)) = 3
    BY <2>2, <2>3
  <2>7. End(bs, 1) = 3
    BY <1>3, <2>4
  <2>8. \A x : x = 3 => x <= 18
    OBVIOUS
  <2> QED
    BY <1>2, <2>7, <2>8
<1> QED
  BY <1>1, <1>4, <1>5

LEMMA MergeInvInit == FilesInit /\ MergeInit => MergeInv
<1>1. ASSUME NEW b \in SectionHeader \cup ClassicHeader, blocks = <<b>>
      PROVE  WellFormed(blocks)
  <2>1. blocks \in Seq(SectionHeader \cup ClassicHeader \cup Carried) /\ Len(blocks) = 1 /\ blocks[1] = b /\ blocks # <<>>
    BY <1>1
  <2>2. 2 .. Len(blocks) = {}
    BY <2>1
  <2> QED
    BY <2>1, <2>2 DEF WellFormed
<1> QED
  BY <1>1, FilesAssumption DEF FilesInit, MergeInit, MergeInv

LEMMA AddBlockWell ==
  ASSUME WellFormed(blocks), NEW b \in Blocks, AddBlock(b)
  PROVE  WellFormed(blocks')
<1> DEFINE B == SectionHeader \cup ClassicHeader \cup Carried
           n == Len(blocks)
<1>1. b \in SectionHeader \cup Carried /\ Sized(b) /\ b \in B
  BY FilesAssumption
<1>2. blocks' = Append(blocks, b) /\ ((b.type = "record") = (blocks[1].type = "classic"))
  BY DEF AddBlock, FitsFormat
<1>3. /\ blocks \in Seq(B) /\ n \in Nat /\ n >= 1 /\ blocks[1] \in SectionHeader \cup ClassicHeader
      /\ \A i \in 2 .. n : /\ blocks[i] \in SectionHeader \cup Carried /\ Sized(blocks[i])
                           /\ blocks[i].type = "record" <=> blocks[1].type = "classic"
  BY LengthIs DEF WellFormed
<1> HIDE DEF B
<1>4. /\ blocks' \in Seq(B) /\ Len(blocks') = n + 1 /\ blocks'[n + 1] = b
      /\ \A i \in 1 .. n : blocks'[i] = blocks[i]
  BY <1>1, <1>2, <1>3
<1> HIDE DEF n
<1>5. blocks'[1] = blocks[1] /\ blocks' # <<>>
  <2>1. 1 \in 1 .. n /\ Len(blocks') # 0
    BY <1>3, <1>4
  <2> QED
    BY <1>4, <2>1
<1>6. ASSUME NEW i \in 2 .. Len(blocks')
      PROVE  /\ blocks'[i] \in SectionHeader \cup Carried /\ Sized(blocks'[i])
             /\ blocks'[i].type = "record" <=> blocks'[1].type = "classic"
  <2>1. (i \in 2 .. n /\ i \in 1 .. n) \/ i = n + 1
    BY <1>3, <1>4
  <2>2. CASE i \in 2 .. n /\ i \in 1 .. n
    <3>1. blocks'[i] = blocks[i]
      BY <1>4, <2>2
    <3> QED
      BY <1>3, <1>5, <2>2, <3>1
  <2>3. CASE i = n + 1
    <3>1. blocks'[i] = b
      BY <1>4, <2>3
    <3> QED
      BY <1>1, <1>2, <1>5, <3>1
  <2> QED
    BY <2>1, <2>2, <2>3
<1> QED
  BY <1>3, <1>4, <1>5, <1>6 DEF WellFormed, B

LEMMA OpenInv ==
  ASSUME MergeInv, NEW same \in InPlace, OpenCapture(same)
  PROVE  MergeInv'
<1> DEFINE f == Encode(blocks)
           l == End(blocks, Len(blocks))
           m == IF l < 0 + Buffer THEN l ELSE 0 + Buffer
<1>1. /\ WellFormed(blocks) /\ blocks' = blocks /\ inPlace' = same /\ same \in BOOLEAN
      /\ source' = f /\ taken' = Chunk(f, 0) /\ reader' = OpenFile(taken')
      /\ mpc' = IF reader'.end = "no" THEN "opened" ELSE "failed"
  BY MergeAssumption DEF MergeInv, OpenCapture
<1>2. CASE same
  BY <1>1, <1>2 DEF MergeInv
<1>3. CASE ~ same
  <2>1. Len(f) = l /\ l \in Nat
    BY <1>1, WholeCut
  <2>2. taken' = Cut(blocks, m)
    <3>1. Chunk(f, 0) = SubSeq(f, 1, m)
      BY <2>1 DEF Chunk
    <3> QED
      BY <1>1, <3>1 DEF Cut
  <2>3. m \in 0 .. l /\ End(blocks, 1) <= m /\ 1 \in 1 .. Stop(blocks)
    <3>1. End(blocks, 1) \in Nat /\ End(blocks, 1) <= 18 /\ End(blocks, 1) <= l
      BY <1>1, FirstEnd
    <3>2. Buffer \in Nat /\ 18 <= Buffer
      BY MergeAssumption
    <3>3. Stop(blocks) \in 1 .. Len(blocks) /\ Len(blocks) \in Nat
      BY <1>1, StopIs, LengthIs DEF Stopping
    <3> QED
      BY <2>1, <3>1, <3>2, <3>3
  <2> HIDE DEF m, l, f
  <2>4. reader' = StateAt(blocks, 1)
    BY <1>1, <2>2, <2>3, ReaderOpens DEF l
  <2>5. mpc' = "opened"
    <3>1. reader'.end = "no"
      BY <2>4 DEF StateAt, At
    <3> QED
      BY <1>1, <3>1
  <2>6. PICK n : n = m
    OBVIOUS
  <2>7. Copying(1, n)'
    BY <1>1, <2>2, <2>3, <2>4, <2>5, <2>6 DEF Copying
  <2>8. \E k \in 1 .. Stop(blocks'), j \in 0 .. End(blocks', Len(blocks')) : Copying(k, j)'
    BY <1>1, <2>3, <2>6, <2>7 DEF l
  <2> QED
    BY <1>1, <2>5, <2>8 DEF MergeInv, f
<1> QED
  BY <1>2, <1>3

LEMMA CreateInv ==
  ASSUME MergeInv, CreateOutput
  PROVE  MergeInv'
<1>1. /\ WellFormed(blocks) /\ mpc = "opened" /\ mpc' = "copying" /\ blocks' = blocks
      /\ inPlace' = inPlace /\ inPlace \in BOOLEAN /\ taken' = taken /\ reader' = reader
      /\ output' = <<>>
  BY DEF MergeInv, CreateOutput
<1>2. CASE inPlace
  BY <1>1, <1>2 DEF MergeInv
<1>3. CASE ~ inPlace
  <2>1. source' = source /\ source = Encode(blocks)
    BY <1>1, <1>3 DEF MergeInv, CreateOutput
  <2>2. PICK k \in 1 .. Stop(blocks), n \in 0 .. End(blocks, Len(blocks)) : Copying(k, n)
    BY <1>1, <1>3 DEF MergeInv
  <2>3. k = 1 /\ reader = StateAt(blocks, 1) /\ End(blocks, k) <= n /\ taken = Cut(blocks, n)
    BY <1>1, <2>2 DEF Copying
  <2> DEFINE link == LinkAt(blocks)
             none == <<>>
  <2>4. HeaderLink = link
    <3>1. /\ reader.format = IF blocks[1].type = "classic" THEN "classic" ELSE "ng"
          /\ reader.link = IF blocks[1].type = "classic" THEN blocks[1].link ELSE Ethernet
      BY <2>3 DEF StateAt, At
    <3>2. CASE blocks[1].type = "classic"
      BY <3>1, <3>2 DEF HeaderLink, LinkAt
    <3>3. CASE blocks[1].type # "classic"
      BY <3>1, <3>3 DEF HeaderLink, LinkAt
    <3> QED
      BY <3>2, <3>3
  <2>5. link \in Nat
    BY <1>1, LinkTyped
  <2>6. unflushed' = Encode(Merged(link, <<>>))
    <3>1. Merged(link, <<>>) = <<[type |-> "section", order |-> "le"],
                                 [type |-> "interface", link |-> link, resol |-> <<>>],
                                 [type |-> "secrets", data |-> <<1, 2>>]>>
      BY <2>5, MergedNone
    <3> HIDE DEF link
    <3> QED
      BY <2>4, <3>1 DEF CreateOutput
  <2>7. unflushed' = Written(blocks, 1)
    <3>1. Packets(blocks, 1) = <<>>
      BY <1>1, PacketsNext
    <3> QED
      BY <2>6, <3>1 DEF Written
  <2>8. unflushed' \in Seq(Cell) /\ <<>> \o unflushed' = unflushed'
    <3>1. none \in Seq(Packet)
      OBVIOUS
    <3>2. WellFormed(Merged(link, none))
      BY <2>5, <3>1, MergedWell
    <3>3. Encode(Merged(link, none)) \in Seq(Cell)
      BY <3>2, WholeCut
    <3>4. unflushed' \in Seq(Cell)
      BY <2>6, <3>3
    <3> QED
      BY <3>4
  <2>9. Copying(k, n)'
    <3>1. output' \in Seq(Cell) /\ output' \o unflushed' = Written(blocks, 1)
      BY <1>1, <2>7, <2>8
    <3> QED
      BY <1>1, <2>3, <2>8, <3>1 DEF Copying
  <2>10. \E i \in 1 .. Stop(blocks'), j \in 0 .. End(blocks', Len(blocks')) : Copying(i, j)'
    BY <1>1, <2>2, <2>9
  <2> QED
    BY <1>1, <2>1, <2>10 DEF MergeInv
<1> QED
  BY <1>1, <1>2, <1>3

LEMMA FillInv ==
  ASSUME MergeInv, FillInput
  PROVE  MergeInv'
<1>1. /\ WellFormed(blocks) /\ mpc = "copying" /\ mpc' = mpc /\ blocks' = blocks /\ source' = source
      /\ inPlace' = inPlace /\ inPlace \in BOOLEAN /\ taken' = Filled /\ reader' = reader
      /\ output' = output /\ unflushed' = unflushed
  BY DEF MergeInv, FillInput
<1>2. CASE inPlace
  BY <1>1, <1>2 DEF MergeInv
<1>3. CASE ~ inPlace
  <2>1. source = Encode(blocks)
    BY <1>1, <1>3 DEF MergeInv
  <2>2. PICK k \in 1 .. Stop(blocks), n \in 0 .. End(blocks, Len(blocks)) : Copying(k, n)
    BY <1>1, <1>3 DEF MergeInv
  <2>3. taken = Cut(blocks, n) /\ End(blocks, k) <= n
    BY <2>2 DEF Copying
  <2>4. PICK m \in n .. End(blocks, Len(blocks)) : Filled = Cut(blocks, m)
    BY <1>1, <2>1, <2>3, FilledIs
  <2>5. m \in 0 .. End(blocks, Len(blocks)) /\ End(blocks, k) <= m
    <3>1. k \in 0 .. Len(blocks)
      BY <1>1, StopIs, LengthIs DEF Stopping
    <3>2. End(blocks, k) \in Nat /\ End(blocks, Len(blocks)) \in Nat
      BY <1>1, <3>1, WholeCut
    <3> QED
      BY <2>3, <3>2
  <2>6. Copying(k, m)'
    BY <1>1, <2>2, <2>4, <2>5 DEF Copying
  <2>7. \E i \in 1 .. Stop(blocks'), j \in 0 .. End(blocks', Len(blocks')) : Copying(i, j)'
    BY <1>1, <2>5, <2>6
  <2> QED
    BY <1>1, <2>1, <2>7 DEF MergeInv
<1> QED
  BY <1>2, <1>3

(* A block is passed, or the file has ended for the reader.                *)
LEMMA CopyInv ==
  ASSUME MergeInv, CopyPacket
  PROVE  MergeInv'
<1> DEFINE next == NextPacket(taken, reader)
<1>1. /\ WellFormed(blocks) /\ mpc = "copying" /\ blocks' = blocks
      /\ inPlace' = inPlace /\ inPlace \in BOOLEAN /\ taken' = taken /\ reader' = next
      /\ Short(next) => Filled = taken
  BY DEF MergeInv, CopyPacket
<1>2. next.end = "no" => mpc' = mpc /\ IF Len(next.out) > Len(reader.out) THEN Write(PacketBlock(Last(next.out)))
                                       ELSE UNCHANGED <<source, output, unflushed>>
  BY DEF CopyPacket
<1>3. next.end = "eof" => /\ output' = output \o unflushed /\ (~ inPlace => source' = source)
                          /\ mpc' = IF next.out = <<>> THEN "failed" ELSE "done"
  BY DEF CopyPacket
<1>4. next.end \notin {"no", "eof"} => mpc' = "failed" /\ source' = source
  BY DEF CopyPacket
<1> HIDE DEF next
<1>5. mpc' \in {"copying", "done", "failed"}
  BY <1>1, <1>2, <1>3, <1>4
<1>6. CASE inPlace
  BY <1>1, <1>5, <1>6 DEF MergeInv
<1>7. CASE ~ inPlace
  <2>1. source = Encode(blocks)
    BY <1>1, <1>7 DEF MergeInv
  <2>2. PICK k \in 1 .. Stop(blocks), n \in 0 .. End(blocks, Len(blocks)) : Copying(k, n)
    BY <1>1, <1>7 DEF MergeInv
  <2>3. /\ taken = Cut(blocks, n) /\ End(blocks, k) <= n /\ reader = StateAt(blocks, k)
        /\ output \in Seq(Cell) /\ unflushed \in Seq(Cell) /\ output \o unflushed = Written(blocks, k)
    BY <1>1, <2>2 DEF Copying
  <2>4. Stop(blocks) \in 1 .. Len(blocks) /\ Len(blocks) \in Nat /\ k \in 1 .. Len(blocks)
    <3>1. Stop(blocks) \in 1 .. Len(blocks) /\ Len(blocks) \in Nat
      BY <1>1, StopIs, LengthIs DEF Stopping
    <3> QED
      BY <3>1
  <2>5. next = NextPacket(Cut(blocks, n), StateAt(blocks, k))
    BY <2>3 DEF next
  <2>6. Filled = taken => n = End(blocks, Len(blocks))
    BY <1>1, <2>1, <2>3, FilledIs
  <2>7. \A i : StateAt(blocks, i).out = Packets(blocks, i) /\ StateAt(blocks, i).end = "no"
    BY DEF StateAt, At
  <2>8. \A why : Stops(StateAt(blocks, k), why).out = Packets(blocks, k) /\ Stops(StateAt(blocks, k), why).end = why
    BY DEF StateAt, At, Stops
  <2>9. source' = source /\ \E i \in 1 .. Stop(blocks) : Copying(i, n)'
    <3>1. CASE k < Stop(blocks) /\ End(blocks, k + 1) <= n /\ next = StateAt(blocks, k + 1)
      <4>1. k \in 1 .. Len(blocks) - 1 /\ k + 1 \in 1 .. Stop(blocks)
        BY <2>4, <3>1
      <4>2. next.end = "no" /\ next.out = Packets(blocks, k + 1) /\ reader.out = Packets(blocks, k)
        BY <2>3, <2>7, <3>1
      <4> DEFINE more == Len(Packets(blocks, k + 1)) > Len(Packets(blocks, k))
                 last == Last(Packets(blocks, k + 1))
      <4>3. mpc' = "copying" /\ (more => Write(PacketBlock(last))) /\ (~ more => UNCHANGED <<source, output, unflushed>>)
        BY <1>1, <1>2, <4>2
      <4>4. \/ ~ more /\ Written(blocks, k + 1) = Written(blocks, k)
            \/ more /\ Written(blocks, k + 1) = Written(blocks, k) \o PacketBlock(last) /\ last \in Packet
        BY <1>1, <4>1, WrittenMore
      <4> HIDE DEF more, last
      <4>5. /\ source' = source /\ output' \in Seq(Cell) /\ unflushed' \in Seq(Cell)
            /\ output' \o unflushed' = Written(blocks, k + 1)
        <5>1. CASE more
          <6>1. Written(blocks, k + 1) = Written(blocks, k) \o PacketBlock(last) /\ PacketBlock(last) \in Seq(Cell)
            BY <4>4, <5>1, BlockTyped
          <6>2. Write(PacketBlock(last))
            BY <4>3, <5>1
          <6>3. /\ source' = source /\ output' \in Seq(Cell) /\ unflushed' \in Seq(Cell)
                /\ output' \o unflushed' = (output \o unflushed) \o PacketBlock(last)
            BY <1>7, <2>3, <6>1, <6>2, WriteIs
          <6> QED
            BY <2>3, <6>1, <6>3
        <5>2. CASE ~ more
          BY <2>3, <4>3, <4>4, <5>2
        <5> QED
          BY <5>1, <5>2
      <4>6. Copying(k + 1, n)'
        BY <1>1, <2>3, <3>1, <4>3, <4>5 DEF Copying
      <4> QED
        BY <4>1, <4>5, <4>6
    <3>2. CASE n = End(blocks, k) /\ next = Stops(StateAt(blocks, k), "eof")
      <4>1. next.end = "eof" /\ next.out = Packets(blocks, k)
        BY <2>8, <3>2
      <4>2. n = End(blocks, Len(blocks))
        BY <1>1, <2>6, <4>1 DEF Short
      <4>3. k = Len(blocks)
        <5>1. k \in 0 .. Len(blocks) /\ Len(blocks) \in k .. Len(blocks)
          BY <2>4
        <5>2. End(blocks, k) + 3 * (Len(blocks) - k) <= End(blocks, Len(blocks)) /\ End(blocks, k) \in Nat
          BY <1>1, <5>1, EndsGrow, EndIs
        <5> QED
          BY <2>4, <3>2, <4>2, <5>2
      <4>4. /\ source' = source /\ output' = Written(blocks, k)
            /\ mpc' = IF Packets(blocks, k) = <<>> THEN "failed" ELSE "done"
        BY <1>3, <1>7, <2>3, <4>1
      <4>5. Copying(k, n)'
        BY <1>1, <2>3, <4>3, <4>4 DEF Copying
      <4> QED
        BY <2>2, <4>4, <4>5
    <3>3. CASE k < Len(blocks) /\ n < End(blocks, k + 1) /\ next = Stops(StateAt(blocks, k), "truncated")
      <4>1. next.end = "truncated"
        BY <2>8, <3>3
      <4>2. n = End(blocks, Len(blocks))
        BY <1>1, <2>6, <4>1 DEF Short
      <4>3. k + 1 \in 0 .. Len(blocks)
        BY <2>4, <3>3
      <4>4. End(blocks, k + 1) <= End(blocks, Len(blocks)) /\ End(blocks, k + 1) \in Nat /\ End(blocks, Len(blocks)) \in Nat
        BY <1>1, <4>3, WholeCut
      <4> QED
        BY <3>3, <4>2, <4>4
    <3>4. CASE k = Stop(blocks) /\ k < Len(blocks) /\ next = Stops(StateAt(blocks, k), "corrupt")
      <4>1. mpc' = "failed" /\ source' = source
        <5>1. next.end = "corrupt"
          BY <2>8, <3>4
        <5> QED
          BY <1>4, <5>1
      <4>2. Stop(blocks) # Len(blocks)
        BY <2>4, <3>4
      <4>3. Copying(k, n)'
        BY <1>1, <2>3, <4>1, <4>2 DEF Copying
      <4> QED
        BY <2>2, <4>1, <4>3
    <3> QED
      BY <1>1, <2>2, <2>3, <2>5, <3>1, <3>2, <3>3, <3>4, NextIs DEF Rest
  <2>10. \E i \in 1 .. Stop(blocks'), j \in 0 .. End(blocks', Len(blocks')) : Copying(i, j)'
    BY <1>1, <2>9
  <2> QED
    BY <1>1, <1>5, <2>1, <2>9, <2>10 DEF MergeInv
<1> QED
  BY <1>1, <1>6, <1>7

LEMMA MergeInvStep == MergeInv /\ [MergeNext]_mergeVars => MergeInv'
<1> SUFFICES ASSUME MergeInv, [MergeNext]_mergeVars PROVE MergeInv'
  OBVIOUS
<1>1. CASE FilesNext /\ mpc = "off" /\ UNCHANGED <<mpc, inPlace, source, output, taken, reader, unflushed>>
  <2>1. PICK b \in Blocks : AddBlock(b)
    BY <1>1 DEF FilesNext
  <2>2. WellFormed(blocks')
    BY <2>1, AddBlockWell DEF MergeInv
  <2> QED
    BY <1>1, <2>2 DEF MergeInv
<1>2. ASSUME NEW same \in InPlace, OpenCapture(same) PROVE MergeInv'
  BY <1>2, OpenInv
<1>3. CASE CreateOutput
  BY <1>3, CreateInv
<1>4. CASE FillInput
  BY <1>4, FillInv
<1>5. CASE CopyPacket
  BY <1>5, CopyInv
<1>6. CASE UNCHANGED mergeVars
  BY <1>6 DEF mergeVars, MergeInv, Copying
<1> QED
  BY <1>1, <1>2, <1>3, <1>4, <1>5, <1>6 DEF MergeNext

LEMMA MergeRight == MergeInv => FilesFaithful
<1> SUFFICES ASSUME MergeInv PROVE FilesFaithful
  OBVIOUS
<1>1. WellFormed(blocks)
  BY DEF MergeInv
<1>2. FilesReadBack
  BY <1>1, ReadBack
<1>3. ASSUME mpc \in {"done", "failed"}, ~ inPlace
      PROVE  /\ (mpc = "done") = (Original.end = "eof" /\ Original.out # <<>>)
             /\ mpc = "done" => /\ Produced.end = "eof"
                                /\ Len(Produced.out) = Len(Original.out)
                                /\ \A i \in 1 .. Len(Original.out) : SamePacket(Original.out[i], Produced.out[i])
             /\ source = Encode(blocks)
  <2>1. source = Encode(blocks)
    BY <1>3 DEF MergeInv
  <2>2. PICK k \in 1 .. Stop(blocks), n \in 0 .. End(blocks, Len(blocks)) : Copying(k, n)
    BY <1>3 DEF MergeInv
  <2>3. Stop(blocks) \in 1 .. Len(blocks) /\ Len(blocks) \in Nat
    BY <1>1, StopIs, LengthIs DEF Stopping
  <2>4. Original.out = Packets(blocks, Stop(blocks)) /\ (Original.end = "eof" <=> Stop(blocks) = Len(blocks))
    BY <1>1, AllRead DEF Original
  <2>5. CASE mpc = "done"
    <3> DEFINE ps == Packets(blocks, Len(blocks))
               link == LinkAt(blocks)
               ms == Merged(link, ps)
    <3>1. output = Encode(ms) /\ k = Len(blocks) /\ ps # <<>>
      BY <2>2, <2>5 DEF Copying, Written
    <3>2. Stop(blocks) = Len(blocks)
      BY <2>3, <3>1
    <3>3. Original.out = ps /\ Original.end = "eof"
      BY <2>4, <3>2
    <3>4. ps \in Seq(Packet) /\ link \in Nat
      <4>1. Len(blocks) \in 1 .. Len(blocks)
        BY <2>3
      <4> QED
        BY <1>1, <4>1, PacketsNext, LinkTyped
    <3> HIDE DEF ps, link
    <3>5. WellFormed(ms) /\ Len(ms) = Len(ps) + 3 /\ \A i \in 1 .. Len(ms) : Straight(ms, i)
      BY <3>4, MergedWell
    <3>6. Stop(ms) = Len(ms)
      <4> HIDE DEF ms
      <4>1. Swapped(ms) = {}
        <5>1. Len(ms) \in 1 .. Len(ms)
          BY <3>5, LengthIs
        <5>2. Straight(ms, Len(ms))
          BY <3>5, <5>1
        <5> QED
          BY <5>2 DEF Straight, Swapped
      <4> QED
        BY <4>1 DEF Stop
    <3>7. Produced.out = Packets(ms, Len(ps) + 3) /\ Produced.end = "eof"
      BY <3>1, <3>5, <3>6, AllRead DEF Produced
    <3>8. /\ Len(Packets(ms, Len(ps) + 3)) = Len(ps)
          /\ \A i \in 1 .. Len(ps) : Packets(ms, Len(ps) + 3)[i] = Copied(link, ps[i])
      BY <3>4, MergedRead
    <3> HIDE DEF ms
    <3>9. ASSUME NEW i \in 1 .. Len(ps) PROVE SamePacket(Original.out[i], Produced.out[i])
      <4>1. ps[i] \in Packet
        BY <3>4
      <4>2. SamePacket(ps[i], Copied(link, ps[i]))
        BY <4>1, CopiedSame
      <4> QED
        BY <3>3, <3>7, <3>8, <4>2
    <3>10. Len(Produced.out) = Len(Original.out)
      BY <3>3, <3>7, <3>8
    <3> QED
      BY <2>1, <2>5, <3>1, <3>3, <3>7, <3>9, <3>10
  <2>6. CASE mpc = "failed"
    <3>1. Stop(blocks) # Len(blocks) \/ Packets(blocks, Len(blocks)) = <<>>
      BY <2>2, <2>6 DEF Copying
    <3>2. ~ (Original.end = "eof" /\ Original.out # <<>>)
      BY <2>4, <3>1
    <3> QED
      BY <2>1, <2>6, <3>2
  <2> QED
    BY <1>3, <2>5, <2>6
<1> QED
  BY <1>2, <1>3 DEF FilesFaithful, MergeFaithful

(* Wherever a capture is cut short, what is read of it is what was meant;  *)
(* and a merge into another file that reports success has copied every     *)
(* packet, and reports it exactly for a capture that reads to its end and  *)
(* has one: pcapfile's readers and writer and BeeEye-pcapmerge's loop, for *)
(* any blocks and for buffers of any size that holds a file's header.      *)
THEOREM FilesAreFaithful == MergeSpec => []FilesFaithful
<1>1. MergeSpec => []MergeInv
  BY MergeInvInit, MergeInvStep, PTL DEF MergeSpec
<1> QED
  BY <1>1, MergeRight, PTL
=============================================================================
