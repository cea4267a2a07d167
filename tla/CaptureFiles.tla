----------------------------- MODULE CaptureFiles -----------------------------
(***************************************************************************)
(* Capture files (internal/pcapfile): classic pcap and pcapng, written     *)
(* block by block and read back packet by packet, from a file that may end *)
(* anywhere.                                                               *)
(*                                                                         *)
(* A file is a sequence of cells, each a number in one of two byte orders; *)
(* a field is one cell, as is a unit of packet data, and bodies are padded *)
(* to an even number of cells, as theirs are to a multiple of four bytes.  *)
(* What was meant to be written is a sequence of blocks.                   *)
(***************************************************************************)
EXTENDS Integers, Sequences, FiniteSets, SequencesExt

CONSTANTS
  FirstBlocks,  \* how a file may begin: a section or a classic header
  Blocks,       \* what may follow: blocks of pcapng, or classic records
  MaxBlock,     \* MaxPacketBytes, in cells
  MaxBlocks     \* bound: blocks of one file

VARIABLE blocks

Orders == {"le", "be"}
SectionHeader == [type : {"section"}, order : Orders]
ClassicHeader == [type : {"classic"}, order : Orders, unit : {"micro", "nano"}, snap : Nat, link : Nat]
Carried ==
  [type : {"interface"}, link : Nat, resol : Seq(Nat)]
    \cup [type : {"enhanced"}, iface : Nat, ticks : Nat, data : Seq(Nat), orig : Nat]
    \cup [type : {"simple"}, data : Seq(Nat), orig : Nat]
    \cup [type : {"secrets"}, data : Seq(Nat)]
    \cup [type : {"record"}, sec : Nat, frac : Nat, data : Seq(Nat), orig : Nat]

(* No block is larger than a reader takes, nor is the block its packet     *)
(* would be copied to. A simple block holds the whole packet, or ends with *)
(* it: what pads one that was cut is read as data.                         *)
Sized(b) ==
  /\ b.type = "interface" => Len(b.resol) <= 1
  /\ b.type \in {"enhanced", "simple", "secrets", "record"} => Len(b.data) + 9 <= MaxBlock
  /\ b.type = "simple" => b.orig = Len(b.data) \/ (Len(b.data) % 2 = 1 /\ b.orig > Len(b.data))

(* Block types and magic numbers, all different. *)
TypeOf == [section |-> 90, interface |-> 1, simple |-> 3, enhanced |-> 6, secrets |-> 9]
Magic == 77
ClassicMagic == [micro |-> 78, nano |-> 79]
Garbled == 10000   \* what a number reads as in the other byte order
(* Times are in nanoseconds, of which there are ten to the microsecond and *)
(* a hundred to the second; NoTime is time.Time{}. A count of ticks is     *)
(* split over two cells.                                                   *)
Micro == 10
Second == 100
NoTime == -1
TickBase == 4
Ethernet == 1

ASSUME FilesAssumption ==
  /\ MaxBlock \in 11 .. Garbled - 1 /\ MaxBlocks \in Nat
  /\ FirstBlocks \subseteq SectionHeader \cup ClassicHeader
  /\ \A b \in Blocks : b \in SectionHeader \cup Carried /\ Sized(b)
-----------------------------------------------------------------------------
(* Writing. A block states its length before and after its body.           *)
Cells(numbers, order) == [i \in 1 .. Len(numbers) |-> [v |-> numbers[i], order |-> order]]

AppendPad(body) == IF Len(body) % 2 = 1 THEN Append(body, 0) ELSE body

Framed(type, body, order) ==
  Cells(<<TypeOf[type], Len(body) + 3>> \o body \o <<Len(body) + 3>>, order)

BlockBody(b) ==
  CASE b.type = "section" -> <<Magic, 1, 0>>
    [] b.type = "interface" -> <<b.link, 0>> \o b.resol
    [] b.type = "enhanced" -> AppendPad(<<b.iface, b.ticks \div TickBase, b.ticks % TickBase, Len(b.data), b.orig>> \o b.data)
    [] b.type = "simple" -> AppendPad(<<b.orig>> \o b.data)
    [] OTHER -> AppendPad(<<5, Len(b.data)>> \o b.data)

(* The order of a block is that of the section it is in. *)
SectionOf(bs, i) == CHOOSE j \in 1 .. i : /\ bs[j].type \in {"section", "classic"}
                                         /\ \A k \in j + 1 .. i : bs[k].type # "section"
OrderAt(bs, i) == bs[SectionOf(bs, i)].order

Encoded(bs, i) ==
  LET b == bs[i]
  IN CASE b.type = "classic" -> Cells(<<ClassicMagic[b.unit], b.snap, b.link>>, b.order)
       [] b.type = "record" -> Cells(<<b.sec, b.frac, Len(b.data), b.orig>> \o b.data, OrderAt(bs, i))
       [] OTHER -> Framed(b.type, BlockBody(b), OrderAt(bs, i))

Encode(bs) == FlattenSeq([i \in 1 .. Len(bs) |-> Encoded(bs, i)])

-----------------------------------------------------------------------------
(* Reading. The state of a reader: its format, the byte order, the         *)
(* interfaces of the section, the cells consumed, the packets returned and *)
(* how it ended. A block that is not a packet's returns nothing and the    *)
(* reader goes on.                                                         *)
Number(cell, order) == IF cell.order = order THEN cell.v ELSE Garbled

(* The type of a section header reads the same in both orders. *)
BlockType(cell, order) == IF cell.v = TypeOf.section THEN cell.v ELSE Number(cell, order)

Reader(format, order, pos) ==
  [format |-> format, order |-> order, pos |-> pos, ifaces |-> <<>>, link |-> Ethernet, unit |-> "micro",
   out |-> <<>>, end |-> "no"]
Fails(why) == [Reader("none", "le", 0) EXCEPT !.end = why]
Stops(st, why) == [st EXCEPT !.end = why]

OpenNg(file) ==
  IF Len(file) < 3 THEN Fails("not a capture")
  ELSE IF file[3].v # Magic THEN Fails("corrupt")
  ELSE LET order == file[3].order
           n == Number(file[2], order)
       IN IF n < 3 \/ n > MaxBlock \/ Len(file) < n THEN Fails("truncated") ELSE Reader("ng", order, n)

OpenClassic(file) ==
  IF file[1].v \notin {ClassicMagic.micro, ClassicMagic.nano} THEN Fails("not a capture")
  ELSE IF Len(file) < 3 THEN Fails("truncated")
  ELSE [Reader("classic", file[1].order, 3) EXCEPT
          !.link = Number(file[3], file[1].order),
          !.unit = IF file[1].v = ClassicMagic.nano THEN "nano" ELSE "micro"]

OpenFile(file) ==
  IF file = <<>> THEN Fails("not a capture")
  ELSE IF file[1].v = TypeOf.section THEN OpenNg(file) ELSE OpenClassic(file)

Returns(st, data, ts, link, orig, pos) ==
  [st EXCEPT !.pos = pos, !.out = Append(@, [data |-> data, ts |-> ts, link |-> link, orig |-> orig])]

NextClassic(file, st) ==
  LET field(i) == Number(file[st.pos + i], st.order)
      left == Len(file) - st.pos
  IN CASE left = 0 -> Stops(st, "eof")
       [] left \in 1 .. 3 -> Stops(st, "truncated")
       [] OTHER ->
            IF field(3) > MaxBlock THEN Stops(st, "corrupt")
            ELSE IF left < 4 + field(3) THEN Stops(st, "truncated")
            ELSE Returns(st, [i \in 1 .. field(3) |-> file[st.pos + 4 + i].v],
                         field(1) * Second + field(2) * (IF st.unit = "nano" THEN 1 ELSE Micro),
                         st.link, field(4), st.pos + 4 + field(3))

(* Mutant: the interfaces of the section before are kept. *)
KeepsInterfaces(st, body, pos) ==
  IF body = <<>> THEN Stops(st, "truncated")
  ELSE IF body[1].v # Magic THEN Stops(st, "corrupt")
  ELSE [st EXCEPT !.order = body[1].order, !.pos = pos]

(* Interfaces are numbered anew in each section. *)
NewSection(st, body, pos) ==
  IF body = <<>> THEN Stops(st, "truncated")
  ELSE IF body[1].v # Magic THEN Stops(st, "corrupt")
  ELSE [st EXCEPT !.order = body[1].order, !.ifaces = <<>>, !.pos = pos]

NewInterface(st, body, pos) ==
  [st EXCEPT !.pos = pos,
             !.ifaces = Append(@, [link |-> IF body = <<>> THEN Ethernet ELSE Number(body[1], st.order),
                                   resol |-> IF Len(body) < 3 THEN Micro ELSE Number(body[3], st.order)])]

EnhancedPacket(st, body, pos) ==
  LET field(i) == Number(body[i], st.order)
      known == field(1) + 1 \in DOMAIN st.ifaces
  IN IF Len(body) < 5 THEN Stops(st, "truncated")
     ELSE IF 5 + field(4) > Len(body) THEN Stops(st, "truncated")
     ELSE Returns(st, [i \in 1 .. field(4) |-> body[5 + i].v],
                  (field(2) * TickBase + field(3)) * (IF known THEN st.ifaces[field(1) + 1].resol ELSE Micro),
                  IF known THEN st.ifaces[field(1) + 1].link ELSE Ethernet, field(5), pos)

(* A simple packet is the first interface's, has no time, and its length   *)
(* is the body's or, if less, the original one.                            *)
SimplePacket(st, body, pos) ==
  IF body = <<>> THEN Stops(st, "truncated")
  ELSE LET orig == Number(body[1], st.order)
           n == IF Len(body) - 1 > orig THEN orig ELSE Len(body) - 1
       IN Returns(st, [i \in 1 .. n |-> body[1 + i].v], NoTime,
                  IF st.ifaces = <<>> THEN Ethernet ELSE st.ifaces[1].link, orig, pos)

NextNg(file, st) ==
  LET left == Len(file) - st.pos
      type == BlockType(file[st.pos + 1], st.order)
      n == Number(file[st.pos + 2], st.order)
      body == SubSeq(file, st.pos + 3, st.pos + n - 1)
      pos == st.pos + n
  IN CASE left = 0 -> Stops(st, "eof")
       [] left = 1 -> Stops(st, "truncated")
       [] OTHER ->
            IF n < 3 \/ n > MaxBlock THEN Stops(st, "corrupt")
            ELSE IF left < n THEN Stops(st, "truncated")
            ELSE CASE type = TypeOf.section -> NewSection(st, body, pos)
                   [] type = TypeOf.interface -> NewInterface(st, body, pos)
                   [] type = TypeOf.enhanced -> EnhancedPacket(st, body, pos)
                   [] type = TypeOf.simple -> SimplePacket(st, body, pos)
                   [] OTHER -> [st EXCEPT !.pos = pos]

NextPacket(file, st) == IF st.format = "ng" THEN NextNg(file, st) ELSE NextClassic(file, st)

(* Every packet is asked for until the end; each takes cells of the file.  *)
ReadAll(file) ==
  LET after[n \in Nat] ==
        IF n = 0 THEN OpenFile(file)
        ELSE LET st == after[n - 1] IN IF st.end = "no" THEN NextPacket(file, st) ELSE st
  IN after[Len(file) + 1]

-----------------------------------------------------------------------------
FilesInit == \E b \in FirstBlocks : blocks = <<b>>

FitsFormat(b) == (b.type = "record") = (blocks[1].type = "classic")

AddBlock(b) ==
  /\ Len(blocks) < MaxBlocks /\ FitsFormat(b)
  /\ blocks' = Append(blocks, b)

FilesNext == \E b \in Blocks : AddBlock(b)

FilesSpec == FilesInit /\ [][FilesNext]_blocks
-----------------------------------------------------------------------------
(* What was meant: the packet of a block, with the link and the resolution *)
(* its own section declares for its interface. Interface n is the one with *)
(* n before it in its section.                                             *)
Interfaces(bs, i) == {j \in SectionOf(bs, i) + 1 .. i : bs[j].type = "interface"}
Declares(bs, i, n) == n < Cardinality(Interfaces(bs, i))
Interface(bs, i, n) ==
  bs[CHOOSE j \in Interfaces(bs, i) : Cardinality({k \in Interfaces(bs, i) : k < j}) = n]
LinkOf(bs, i, n) == IF Declares(bs, i, n) THEN Interface(bs, i, n).link ELSE Ethernet
TickOf(bs, i, n) ==
  IF Declares(bs, i, n) /\ Interface(bs, i, n).resol # <<>> THEN Interface(bs, i, n).resol[1] ELSE Micro

Meant(bs, i) ==
  LET b == bs[i]
      packet(ts, link) == <<[data |-> b.data, ts |-> ts, link |-> link, orig |-> b.orig]>>
  IN CASE b.type = "record" ->
            packet(b.sec * Second + b.frac * (IF bs[1].unit = "nano" THEN 1 ELSE Micro), bs[1].link)
       [] b.type = "enhanced" -> packet(b.ticks * TickOf(bs, i, b.iface), LinkOf(bs, i, b.iface))
       [] b.type = "simple" -> packet(NoTime, LinkOf(bs, i, 0))
       [] OTHER -> <<>>

FilesTypeOK == Len(blocks) \in 1 .. MaxBlocks /\ OrderAt(blocks, Len(blocks)) \in Orders

(* Wherever a file is cut short, reading it returns exactly the packets of *)
(* the blocks that are there whole, as they were meant, and tells a file   *)
(* that ends between two blocks from one that ends inside one; as far as   *)
(* the first section of the other byte order, which reads as corrupt.      *)
FilesReadBack ==
  LET ends == [k \in 0 .. Len(blocks) |-> Len(Encode(SubSeq(blocks, 1, k)))]
      swapped == {k \in 2 .. Len(blocks) : blocks[k].type = "section" /\ blocks[k].order # blocks[1].order}
      stop == IF swapped = {} THEN Len(blocks) ELSE (CHOOSE k \in swapped : \A j \in swapped : k <= j) - 1
      file == Encode(blocks)
  IN \A n \in ends[1] .. Len(file) :
       LET whole == CHOOSE k \in 1 .. Len(blocks) : ends[k] <= n /\ (k = Len(blocks) \/ ends[k + 1] > n)
           read == ReadAll(SubSeq(file, 1, n))
           upTo == IF whole < stop THEN whole ELSE stop
       IN /\ read.out = FlattenSeq([i \in 1 .. upTo |-> Meant(blocks, i)])
          /\ read.end = IF n = ends[upTo] THEN "eof"
                        ELSE IF upTo = stop /\ stop < Len(blocks) /\ n >= ends[stop] + 2 THEN "corrupt"
                        ELSE "truncated"

=============================================================================
