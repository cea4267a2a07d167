------------------------------ MODULE PcapMerge ------------------------------
(***************************************************************************)
(* BeeEye-pcapmerge (cmd/BeeEye-pcapmerge/main.go): copies the packets of  *)
(* a capture, with a log of TLS keys, into a new pcapng file. Both files   *)
(* are read and written through buffers, and the output may be the input:  *)
(* that is the default for a capture named *.pcapng.                       *)
(***************************************************************************)
EXTENDS CaptureFiles

CONSTANTS
  Buffer,      \* cells of the buffers (64 KiB)
  InPlace,     \* may the output be the input: a set of BOOLEAN
  MaxMerged    \* bound: blocks of a capture that is merged

VARIABLES
  mpc,       \* "off", "opened", "copying", "done" or "failed"
  inPlace,   \* the output path is the input's
  source,    \* the file at the input path
  output,    \* the file at the output path
  taken,     \* cells read from the input so far
  reader,    \* the pcapfile reader over them
  unflushed  \* cells in the output's buffer

ASSUME MergeAssumption == Buffer \in Nat /\ 18 <= Buffer /\ InPlace \subseteq BOOLEAN

mergeVars == <<blocks, mpc, inPlace, source, output, taken, reader, unflushed>>

(* A read of the file returns what it holds now, from where the last ended. *)
Chunk(file, n) == SubSeq(file, n + 1, IF Len(file) < n + Buffer THEN Len(file) ELSE n + Buffer)
Filled == taken \o Chunk(source, Len(taken))

(* What does not fit in the buffer goes to the file. *)
Spilled(cells) == IF Len(cells) <= Buffer THEN 0 ELSE Len(cells) - (Len(cells) % Buffer)

Write(cells) ==
  LET all == unflushed \o cells
      n == Spilled(all)
  IN /\ unflushed' = SubSeq(all, n + 1, Len(all))
     /\ output' = output \o SubSeq(all, 1, n)
     /\ source' = IF inPlace THEN output' ELSE source

MergeInit ==
  /\ mpc = "off" /\ inPlace = FALSE
  /\ source = <<>> /\ output = <<>> /\ taken = <<>> /\ unflushed = <<>>
  /\ reader = Fails("off")

(* The input is opened, and its first bytes are read to tell its format.   *)
OpenCapture(same) ==
  /\ mpc = "off" /\ Len(blocks) <= MaxMerged
  /\ inPlace' = same
  /\ source' = Encode(blocks)
  /\ taken' = Chunk(source', 0)
  /\ reader' = OpenFile(taken')
  /\ mpc' = IF reader'.end = "no" THEN "opened" ELSE "failed"
  /\ UNCHANGED <<blocks, output, unflushed>>

(* os.Create empties the output; the headers and the keys go first.        *)
HeaderLink == IF reader.format = "classic" THEN reader.link ELSE Ethernet

CreateOutput ==
  /\ mpc = "opened"
  /\ output' = <<>>
  /\ source' = IF inPlace THEN <<>> ELSE source
  /\ unflushed' = Encode(<<[type |-> "section", order |-> "le"],
                           [type |-> "interface", link |-> HeaderLink, resol |-> <<>>],
                           [type |-> "secrets", data |-> <<1, 2>>]>>)
  /\ mpc' = "copying"
  /\ UNCHANGED <<blocks, inPlace, taken, reader>>

Short(st) == st.end \in {"eof", "truncated"}

FillInput ==
  /\ mpc = "copying" /\ Short(NextPacket(taken, reader)) /\ Filled # taken
  /\ taken' = Filled
  /\ UNCHANGED <<blocks, mpc, inPlace, source, output, reader, unflushed>>

(* An Enhanced Packet Block on interface 0, in microseconds. No time is    *)
(* written as the count of a time long before 1970, without its sign.      *)
TicksOf(ts) == IF ts = NoTime THEN Garbled ELSE ts \div Micro

PacketBlock(p) ==
  Framed("enhanced", BlockBody([type |-> "enhanced", iface |-> 0, ticks |-> TicksOf(p.ts), data |-> p.data, orig |-> p.orig]), "le")

CopyPacket ==
  LET next == NextPacket(taken, reader)
  IN /\ mpc = "copying" /\ (Short(next) => Filled = taken)
     /\ reader' = next
     /\ CASE next.end = "no" ->
               /\ IF Len(next.out) > Len(reader.out) THEN Write(PacketBlock(Last(next.out)))
                  ELSE UNCHANGED <<source, output, unflushed>>
               /\ UNCHANGED mpc
          [] next.end = "eof" ->    \* flushed, then found to be empty or not
               /\ output' = output \o unflushed /\ unflushed' = <<>>
               /\ source' = IF inPlace THEN output' ELSE source
               /\ mpc' = IF next.out = <<>> THEN "failed" ELSE "done"
          [] OTHER -> mpc' = "failed" /\ UNCHANGED <<source, output, unflushed>>
     /\ UNCHANGED <<blocks, inPlace, taken>>

MergeNext ==
  \/ FilesNext /\ mpc = "off" /\ UNCHANGED <<mpc, inPlace, source, output, taken, reader, unflushed>>
  \/ \E same \in InPlace : OpenCapture(same)
  \/ CreateOutput \/ FillInput \/ CopyPacket

MergeSpec == FilesInit /\ MergeInit /\ [][MergeNext]_mergeVars
-----------------------------------------------------------------------------
Original == ReadAll(Encode(blocks))
Produced == ReadAll(output)

MergeTypeOK ==
  /\ mpc \in {"off", "opened", "copying", "done", "failed"} /\ inPlace \in BOOLEAN
  /\ Len(unflushed) <= Buffer + MaxBlock
  /\ Len(taken) <= Len(Encode(blocks)) \/ inPlace

(* A merge that reports success has written every packet of the capture,   *)
(* with its data, its length on the wire and its microsecond, and reports  *)
(* it exactly for a capture that can be read to its end and has a packet;  *)
(* as long as it writes to another file, leaving the capture alone.        *)
SamePacket(a, b) ==
  a.data = b.data /\ a.orig = b.orig /\ (a.ts # NoTime => a.ts \div Micro = b.ts \div Micro)

MergeFaithful ==
  mpc \in {"done", "failed"} /\ ~ inPlace =>
    /\ (mpc = "done") = (Original.end = "eof" /\ Original.out # <<>>)
    /\ mpc = "done" => /\ Produced.end = "eof"
                       /\ Len(Produced.out) = Len(Original.out)
                       /\ \A i \in 1 .. Len(Original.out) : SamePacket(Original.out[i], Produced.out[i])
    /\ source = Encode(blocks)

(* main.go:62 says merge reads every packet "unmodified, and writes them"  *)
(* to "a new pcapng file": the packets of a sound capture are in one of    *)
(* the two files whatever happens.                                         *)
CaptureSurvives ==
  mpc \in {"done", "failed"} /\ Original.end = "eof" =>
    \/ source = Encode(blocks)
    \/ Produced.end = "eof" /\ Len(Produced.out) = Len(Original.out)

(* What is written is read back, of a capture as of a merge of it (the     *)
(* capture is complete when a merge begins).                               *)
FilesFaithful == (mpc = "off" => FilesReadBack) /\ MergeFaithful
=============================================================================
