# BeeEye verification

TLA+ specifications of BeeEye, the network monitor in `src/BeeEye-agent` (Go,
with an eBPF program and a web interface), the TLC configurations that check
them and the proofs TLAPS checks about them. This file is the map: what the
system consists of, which module stands for which code, what each run and each
theorem shows, and what is left.

Paths below are relative to `src/BeeEye-agent/internal/` unless they begin
with `src/`.

## 1. The system

BeeEye is two programs over a common set of packages.

* The **analyzer** (`gui/`) is a packet analyzer behind a local HTTP server: one
  capture at a time, live or from a file, shown in the browser through REST and
  a stream of server-sent events.
* The **agent** (`src/BeeEye-agent/main.go`, `livesource/`) watches a network
  permanently, aggregates packets into devices and connections, stores them in
  SQLite and raises alerts.

### 1.1 Components

| component | state it keeps | operations | talks to |
|---|---|---|---|
| **Capture sources** `live/afpacket.go`, `livefile/livefile.go` | a goroutine, a bounded channel, the ordinal counter, the drop counter, the `done` channel | open, read loop, `Packets`, `Stats`, `Close` | the reader ranging over `Packets()` |
| **Analyzer session** `gui/session.go`, handlers in `gui/server.go` | source, ring of packets, eviction counter, channel byte counts, process cache, names, report, filter, subscribers, `running`, `consumeDone` | `Start`, `OpenFile`, `Stop`, `consume`, `Subscribe`, `Packet`, `LookupProcess`, `SetReport` | sources, the sink, SSE handlers, `procmap` |
| **pcapSink** `gui/pcapsink.go` | two files, two indexes, a write buffer | `Write` with rotation, `Read`, `Close` | the session's consumer and its packet-detail requests |
| **Agent pipeline** `livesource/pipeline.go` | flows, devices, sensitive devices, queued events, alerts seen | packet intake, `flush`, detectors, `Close`, `Wait` | source, store, detection, threat intelligence, targeted capture |
| **Store** `store/store.go` | SQLite tables behind one mutex | inserts and upserts, overview queries, purge | pipelines, the REST API |
| **Supervisor** `src/BeeEye-agent/main.go`, `live/hotplug.go` | the current pipeline, the start-up intelligence | choose an interface, swap captures on a link notification, import a file, register for intelligence updates | pipelines, threat intelligence, API |
| **Threat intelligence** `threatintel/` | feeds, the merged snapshot, a disk cache, listeners | refresh loop, snapshot, `OnUpdate` | supervisor |
| **Targeted capture** `tcapture/` | table of sessions, each with a byte budget, a timer and a file | `Start`, `Feed`, the timer's callback, `Get`, `List` | pipeline hot path, API |
| **TLS peeking** `gui/decrypt.go`, `tlspeek/` | attached processes, key log, the ring reader | `Enable`, `Disable`, scan, drain | kernel uprobes, session |
| **MITM proxy** `mitm/` | listener, exchange ring, leaf cache | start, stop, proxy, record | browser and upstream |
| **eBPF capture** `ebpf/`, `src/BeeEye-agent/bpf/` | kernel flow table, perf reader | load, attach, read, close | agent |
| **Process and name maps** `procmap/`, `namemap/` | caches with expiry and eviction | `Lookup`, `Observe` | session, pipeline |
| **Rendering** `render/` | ring of intensities, smoothed curves | push, render | web interface |
| **Detection** `detect/` | none: pure functions over connections and DNS rows | score, beacon, fan-out, lateral movement, DNS anomaly and tunnel | pipeline's flush |
| **Display filter** `dfilter/` | none: a compiled expression | compile, match | session |
| **Capture files** `pcapfile/` | sections, interfaces, name blocks of a file | read, write, merge | replay, sink, export |
| **Offline analysis** `analyze/` | report store | analyse, keep, look up | `openFile` |
| **Dissectors** `dissect/` | first time stamp | parse one frame | session, pipeline |
| **REST API** `api/` | none | reads and two writes | store |
| **Tables** `identity/`, `geoip/`, `config/` | loaded once | lookup | pipeline, API |
| **Command-line tools**, **user interfaces** | flags, presentation | | |

`PROJECT.json` lists every one of them with its status.

### 1.2 How they interact, and what is hard about it

* **Goroutines over a channel.** A source fills a bounded channel that a
  consumer ranges over. A live source must never block the kernel, so it drops;
  a replay must never drop, so it blocks. Both must be stoppable from outside
  while they are doing so.
* **One session, many requests.** HTTP handlers run concurrently. The session's
  mutex covers single sections, and `startWith` is six of them with file system
  and socket operations, and a wait, in between. The consumer runs against all
  of them, and half of what it does is outside the lock.
* **Snapshots taken under the lock and used after it.** The subscribers to send
  a row to; the sink to write to; the packet whose process is looked up next.
* **Limits.** The ring, the attribution cache, the subscribers' channels and the
  sink's files all overflow in normal operation.
* **Partial failure.** Writes to SQLite and to the capture directory may be
  refused at any time, and the code goes on.
* **Shared rows.** A live pipeline, an import and the administrator write the
  same device row.
* **Ends.** Stop, Close, the end of a file and an interface going away each have
  to end a goroutine that may be blocked in a send, a read, a select or a write.

### 1.3 What makes each component correct

* *Sources*: counters are honest, order is kept, a replay is complete, Close is
  heard.
* *Session*: one consumer, no data of one capture in the next, no capture that
  nobody can stop, bounded and accounted retention, an ordered feed, the packet
  asked for, requests that return.
* *Sink*: the packet asked for or none, no loss of history at a rotation, bounded
  disk.
* *Pipeline and store*: every byte reaches the store once, no device is
  forgotten, alerts are not repeated, what the administrator decided stays, and
  Close returns with everything written.
* *Supervisor*: the best interface is captured, by one pipeline at a time, each is
  closed once, and the one at work has the current intelligence.
* *Targeted capture*: the budget holds, the file is what the device sent without
  a gap, a session ends, once, and is whole when it says it is done.
* *TLS peeking*: probes belong to the peeker in use, nothing is kept while it is off.
* *MITM*: certificate and key belong together through crashes, what is recorded is
  what was relayed, a tunnel is reused only when nothing of a response is owed.
* *Caches* (`procmap`, `namemap`): an answer rests on something seen, and not too
  long ago; bounds.
* *Overview*: all views account for the same rows; an import stays in sight.
* *Pure algorithms* (detection, report, filter, file formats): agreement with a plain
  definition, whatever the order of the input and wherever it ends.

## 2. The modules

| module | stands for |
|---|---|
| `OrderedFeed` | what the `live.Source` interface promises the code that ranges over its channel |
| `CaptureSource` | `afPacket` and `livefile.File`, and the reader's side of the channel |
| `CaptureSourceProofs` | theorems about it |
| `AnalyzerSession` (EXTENDS `CaptureSource`) | `gui.Session`, its HTTP callers, consumers, subscribers and viewers |
| `AnalyzerSessionProofs` | theorems about it |
| `PcapSink` | `pcapSink` in detail, on a file system that may refuse |
| `Pipeline` | `livesource.Pipeline` and the writes of `store.Store` |
| `PipelineProofs` | theorems about it |
| `Supervisor` | `main`'s start-up and `hotplugSupervisor`, with the part of `threatintel.Store` that calls back into a pipeline |
| `TargetedCapture` | `tcapture.Manager` and `Session`, and the pipelines feeding them |
| `Detection` | the detectors and the score of `detect.go` |
| `CaptureReport` | `analyze.Collector`: the aggregator, the stream table and the report drawn from them |
| `DisplayFilter` | `dfilter`: the parser and the evaluation of what it yields |
| `CaptureFiles` | `pcapfile`: pcap and pcapng, written and read back |
| `PcapMerge` (EXTENDS `CaptureFiles`) | `cmd/BeeEye-pcapmerge` |
| `FileProofs` | theorems about `PcapSink`, `CaptureFiles` and `PcapMerge` |
| `KeyCapture` | `gui.Decryptor` on top of `tlspeek.Peeker` |
| `Mitm` | the decrypting proxy: root pair, leaves, tunnels, exchanges |
| `InterceptionProofs` | theorems about `KeyCapture` and `Mitm` |
| `ProcMap`, `NameMap` | `procmap.Resolver`, `namemap.Map` |
| `Overview` | the aggregating views of `api.go` over the queries of `store.go`, and the import of a file |
| `Tables` | Go maps as functions, and the sum of a map's numbers; used by `CaptureReport` and `Overview` |
| `SummaryProofs` | theorems about `CaptureReport`, `Overview` and `DisplayFilter` |
| `ThreatFeeds` | the feeds behind `threatintel.Store` and the lists it saves |
| `Attribution` (EXTENDS `ProcMap`, `NameMap`, `ThreatFeeds`) | what the three together say about an address: its process, its names, whether it is on a list |
| `VerdictProofs` | theorems about `Attribution`, with the modules it extends, and about `Detection` |
| `MCAnalyzerSession`, `MCPipeline`, `MCPcapMerge` | the small sets TLC uses |
| `MCSession` (EXTENDS `MCAnalyzerSession`) | restarts without clients, and clients without stops, as one graph |
| `MCAgent` (EXTENDS `Supervisor`, `TargetedCapture`) | the two parts of the agent that share nothing, as one graph |
| `AgentProofs` | theorems about `Supervisor`, `TargetedCapture` and `MCAgent` |
| `MCParts` (EXTENDS the modules from `Detection` to `Attribution` except the proofs, `CaptureSource` and `PcapSink`) | every other part that shares nothing with the rest, as one graph |

Definitions whose comment begins with "Mutant:" describe a plausible mistake in
the definition that follows them. They are part of no behaviour; each was put in
the place of the real one to see that a property notices.

### 2.1 CaptureSource

Every variable is a function of the source, since several exist at once while
one capture replaces another. `phase` is the goroutine's program counter:
`check` is the test of `done` at the top of the AF_PACKET loop, `read` the read,
`send` the select that hands the frame over, `exited` is past the deferred
`close(ch)`. A frame is its capture ordinal, which is assigned at the read,
before it is known whether the channel has room. Live and replayed sources
differ exactly where the code does: only a live source tests `done` at the top,
reads nothing on a receive timeout and drops; a replay waits in its send. Both
selects that contain `<-done` may choose it or the send when both are ready.
`CloseSources` is idempotent, as `closeOnce` makes it, and does not wait.

Closing a descriptor under a read makes the read fail, which may happen
for other reasons at any time, so `ReadFails` has no guard of its own.

### 2.2 AnalyzerSession

One action per section under `Session.mu` and one per step outside it.

| code | actions |
|---|---|
| `Start`, `OpenFile`, `startWith` | `OpenNew`, `RejectFilter`, then the three steps of `Stop`, `ReadConsumeDone`, `Install` (which waits for the previous `consumeDone`) |
| `Stop` | `StopTakesSource`, `StopClosesSink`, `StopClosesSource` or `StopFails` |
| `Server.openFile` after `OpenFile` | `PublishReport` |
| `consume` | `TakeNames`, `TakeFrame`, `Record`, `Persist`, `FanOut` for each subscriber of the snapshot, `EndRange`, `FinishConsume` |
| `Subscribe` and the SSE handler | `Subscribe`, `ReadFeed`, `Unsubscribe`, `CloseFeed` |
| `handlePacket` | `FetchPacket`, then `Attribute` |
| the sources' goroutines | `SourceLoop` of `CaptureSource` |

A frame is the record of the capture that read it and its ordinal, which is all
the properties tell apart. `gen` is the capture last installed; the fields
`dis`, `names`, `iface`, `offline`, `channelBytes` and `consumeDone`, which are
set together in one section, belong to it. The display filter is a choice made
for each frame. A send on a closed channel panics and ends the process: that is
`crashed`, and nothing happens after it.

The sink is here what the session sees of it: two files, each the set of frames
that can be read back from it. A write (`SinkWrite`) appends to the current file or,
at any time because frames differ in size, rotates first (`Rotated`): the current
file becomes the previous one and the previous one is removed. The disk fails too
(`DiskFault`): a flush that is refused loses the frames still in the buffer, which
are the latest, at any time while the file takes records, whoever caused the flush,
because its callers ignore the error; the buffer then takes no more, and saving stops
at the next write unless that write rotates to a new file. A rotation that cannot
open a file stops saving as well. `saved` remembers besides which frames a rotation
removed and which a fault lost: no step reads that, it is there for the properties.
`PcapSink` is the detailed model, with offsets, a buffer and file names; the two are
not connected by a refinement mapping. A frame has bytes, and no more than the 2^20
`readRecord` accepts.

### 2.3 PcapSink

The sink's mutex is held by every method, so each method is one action, and
`Write` includes the rotation it triggers. A file holds a sequence of ordinals;
what has not left `bufio.Writer` is `unflushed`. `faults` is chosen at the
start: a file system that refuses nothing, creations, writes, or both. A refused
write may leave any prefix of the buffer on disk and breaks the writer for good
(`bufio` returns its first error for ever), which `Write` notices at the next
record and `Flush`'s callers do not.

`NameIsFree` is an assumption about the environment: names carry milliseconds,
and a file of `maxBytes` takes longer than that to fill. With two rotations in
one millisecond the second would truncate the first.

### 2.4 Pipeline

`run()` is a select between packets, the ticker and `stop`; `pc` says where it
is between two store calls. `Ingest` and `Discover` are `ingest` with all it
does; `DrainEvent` writes one queued event; `Flush` takes flows and dirty
devices; `UpsertDevice`, `WriteFlow`, `Analyze`, `Raise` and `FinishFlush` are
the rest of `flush` in the order of the code, one store call each. Every write
takes an `accepted` that is FALSE when the store refuses it. What the detectors
find is any set of alerts about what the store holds.

A row of the store is kept only as far as two writers can disagree about it:
whether it exists, whether its category is one of the sensitive ones, whether it
is new. The ledger variables (`ingested`, `written`, `refused`, `fired`,
`alerted`, `unsaved`) are the properties' own and no guard reads them. `assigned`
remembers what the administrator last decided, for one property.

### 2.5 Supervisor

Two goroutines: that of `main`, which becomes the supervisor's (`pc`), and the
intelligence store's refresh loop (`tpc`). Pipelines are numbered in the order
they are opened; of what `Pipeline` says about one only its start and end matter,
and that one that is closed ends (`PipelinesEnd` there) is the fairness of
`PipelineEnds` here.

| code | actions |
|---|---|
| `captureIface`, `resolveExplicitInterface`, `autoDiscoverIface` | `Best`, the set of interfaces it may return |
| start-up in `main` | `BootSnapshot`, `BootChoose`, `BootOpen`, `Register`, `BootPublish` |
| `live.WatchLinks`, `watch` | `Subscribe`, `TakeEvent` |
| `swapTo` | `SwapOpen`, `Install`, `CloseOld`, `WaitForOld`, `Register`, `Publish` |
| `refreshOnce`, `OnUpdate` | `Refresh`, `ReadCallback`, `CallBack` |
| the host | `LinkChanges`, `RouteMoves` |

`intel` and `startIntel` are the number of the refresh a snapshot is from. Refresh 1
stands for the disk cache, or for an empty store when there is none. A
notification carries nothing that is used: `watch` looks at all interfaces anew. Its
channel has room for more notifications than `MaxChanges` allows. `missed`
records that something changed since the last look and will not be notified of, because
the socket was not yet subscribed to or because only the default route moved.

### 2.6 TargetedCapture

`Start` is three actions, because its timer runs before the session knows it and the
session knows it before the table does: `Arm`, `AssignTimer`, `List`. `TimerExpires`
starts the callback's goroutine, `OnDeadline` is the callback once it has the
mutex, `Feed` copies the table for one frame, and `FeedSession` is
`Session.feed` for one session of that copy. The file is a sequence of records in
two parts, on disk and in the writer's buffer, and every way a write, the last
flush included, may be cut short is a choice. A frame is numbered among the frames of
its pipeline that concern the session. Two pipelines feed at the same time
while one replaces the other or a file is imported.

### 2.7 Detection

The engine keeps nothing between calls, so the state is what it is called with:
the connections and DNS rows stored so far, a new row inserted anywhere, because
the store promises the detectors no order (`Connect`, `Query`). Both detectors that
sort do so by time (`Earlier`); rows of one time the model leaves in the store's order and
`sort.Slice` in any. `Beacons`,
`Fanouts`, `Laterals`, `Baselines`, `Anomalies` and `DNSTunnels` are the detectors,
`Signals` the map from kind to subjects, `Score`, `Level`, `Headlines` and
`Analyze` what is made of it. Means and deviations are compared as fractions.
`Headlines` is a set: among kinds of equal weight the code takes whichever the Go
map yields first. The code's comparison with connections known from earlier
calls is made with none known, as the pipeline calls it after a start. `Read` is the
query's `LIMIT`: only the newest `RowLimit` rows of a table reach the engine. Whether
a row is internal is a field of it, set when the packet was seen, and not the same
question as whether its address is private to `geoip`.

### 2.8 CaptureReport

`FeedPacket` is `Collector.Add`: the aggregator's counters (`AggAdd`), its
conversations keyed by the order of addresses (`ConvKey`), and the stream table
keyed by the order of ports (`StreamKey`), each with the head of what either side
sent (`Kept`). `EndFile` is the end or a read error; `Sessions`, `BruteForce`,
`PortsTouched`, `TalkerLists` and their like are what the report draws from the
tables. A payload is a sequence of lines of the kinds the patterns tell apart.

The two tables name the ends of one conversation by different rules. `ConvKey`
compares addresses as strings and ports only between equal ones. `StreamKey` takes the end
with the lower port for the server and, between equal ports, compares the texts
"address:port", in which a colon follows the address: "10.0.0.1:80" comes after "10.0.0.11:80" although "10.0.0.1"
comes before "10.0.0.11". So there are two orders of addresses, `AddressOrder` and
`EndOrder`, and nothing relates them. `RepAssumption` asks of each that no two
addresses have one rank, and of a packet what the dissector guarantees: numbers are
natural and a transport is reached through IP only.

### 2.9 DisplayFilter

The recursive-descent parser, function by function (`ParseOr` down to
`ParseField`), over tokens: `Parser` of a text is one function from calls (which
function, at which index; for a loop also the node to the left) to what the call
yields, and each definition is given it as `run`. A node is what its `eval` says of
each sample packet, with the comparison rules of `MatchOne`: networks, then numbers,
then text, and "any value" for every relation including `!=`. The actions are the
filter box: a chunk is typed, or the box is emptied. `Grammar` is the reference: for
each stretch of the text, all that it can be derived to say, with no left to right
and no greed in it.

### 2.10 CaptureFiles, PcapMerge

A file is a sequence of cells, each a number in one of two byte orders; a number
read in the other order is `Garbled`. `Encode` writes blocks, `ReadAll` opens the
file and applies `NextPacket` until it stops, with the reader's state as a record:
format, order, interfaces, position. Sections reset interfaces, interface blocks
carry an optional resolution, records carry seconds and a fraction. Truncation is
not an action: the property looks at every prefix.

What a capture holds is assumed where the constants are declared (`FilesAssumption`):
any links, counts, lengths and data, in blocks no larger than `MaxBlock`, which is what
a reader takes, less the nine cells by which the block a merge copies a packet to may be
larger; and a resolution of at most one cell. `MaxBlock` is at least the eleven cells a
block of keys could have by that count, and less than `Garbled`, so that a length in the wrong
byte order is refused. One more thing is asked, of simple packets: the block does not say how
much of the packet it holds, and `NgReader.Next` takes what the body and the original length
allow. So the padding of a packet that was cut is returned as data, and a simple block is assumed to
hold its packet whole or to end with it.

`PcapMerge` adds two file paths that may be the same, buffered reading
(`FillInput` reads a buffer's worth of what the file holds *now*) and buffered
writing (`Write`, which reaches the input when the paths are the same).
`OpenCapture`, `CreateOutput` and `CopyPacket` are the steps of `merge`. The buffers are of
any size that holds the eighteen cells a merge begins with (`MergeAssumption`); theirs have 64 KiB.

### 2.11 KeyCapture

A peeker and the stop channel made with it are one generation. `Enable`,
`Load` or `LoadFails`, `FindLibraries`, `Install`, `SpawnReaders` are `Enable`
and `start` between their lock sections, `Disable` and `ClosePeeker` the other
direction. `AttachLib` attaches a library's three probes under the peeker's lock,
or nothing when the peeker was closed; `CountTargets` and `PublishTargets` read
and write back the number of targets in two sections. `Rescan`, `PathScan`,
`ReadRing` and `Drain` are the goroutines of a generation; `Recorded` keeps a
chunk only while decryption is on.

### 2.12 Mitm

`LoadOrCreate` reads the two halves of the root pair; `EmptyFirst`, `FillFirst`,
`EmptySecond`, `FillSecond` write a new pair as `os.WriteFile` does, which
truncates before it writes, and `CrashMitm` may come between any two of these.
Key first: that a certificate whose key cannot be read is never kept is what
`PairBelongs` is about. `Handshake` issues a leaf or takes the cached one while
it is valid, `ReadRequest`, `ForwardFails` and `Relay` are the loop of
`serveDecrypted`; `Put` appends to the ring. A client accepts a response only if
the tunnel owes it nothing of an earlier one (`owed`). That the key was spoilt
by somebody else while its certificate is sound is excluded by an assumption on the
directory found (`MitmAssumption`): there a crash between the two writes does mix two
pairs.

### 2.13 ProcMap, NameMap

`ProcMap` is one resolver and a host on which sockets are opened, closed and
their addresses bound again, by processes some of which hide their descriptors.
`LookupFlow` starts a lookup, `FindSocket` and `FindOwner` are its two joins, each
first with the cached scan and then, after a miss, with a forced one. Sockets move
between the steps. In `NameMap`, `Learn` takes what one packet names, in the order in
which the code adds it, and `Add` is one call of `add`: it skips an empty name or
address, counts a known name and keeps its better source, and turns a new address away
when `NameLimit` are known. `BestNames` is what `Lookup` may return. What was added or
turned away is kept as a sequence (`learnt`), which only the properties and the bound
read.

### 2.14 Overview

Rows of connections and DNS records with the interface or file they came from.
Live rows arrive (`InsertConnection`, `InsertDNS`) between the rows of an import
(`PcapImport`, then `ReplayRow` for each; the same file may be imported again, while
it is being replayed or later, and then has its rows as often), and the supervisor reports a new source
(`SetSource`). The views are operators over the rows: `Connections` with its
filter, order and limit, `ConnectionTotals`, `ImportBatches`, `IpView`,
`ProtocolView`, `TopN`, `TimeSeries`, `GeoPairs`. A result is the set of the rows' ids: an
`ORDER BY ts DESC LIMIT n` is `Newest`, the rows that fewer than `n` others precede
(`Newer`), so the order is part of the definition and needs no sorting. What the
handlers add up in a Go map is `Grouped`. `TopN` is the set of the lists the sort may yield, because
equal entries come in any order; `TimeSeries` has the points in between, where nothing
was sent. `BatchLimit` is the LIMIT of `ImportBatches` in the store, 50. The ranking by country is
left out.

### 2.15 ThreatFeeds

What `Refresh` of `Supervisor` abstracts from, one feed after the other. `LoadCache`
is `Start`, `Fetch`, `EmptyFile` and `FillFile` are the body of `refreshOnce`'s loop,
`Merge` its end and `FeedTick` the ticker. `os.WriteFile` truncates before it writes;
either may fail, a write may leave any number of entries and part of the next, and
`CrashFeeds` ends the process between any two steps. A list is a sequence of
entries, and `CutReads` says what part of an entry's line reads as: an address cut
short may be another address. The names of the feeds are taken to be different.

### 2.16 MCAgent, MCSession, MCParts

A behaviour of these is one of a single part, and the variable `part` says of
which: the graph is the sum of the parts, not their product, and shows what
separate ones would. `MCSession` divides by who takes part, with the same session
and the same next-state relation.

## 3. The runs

### 3.1 Runs in which everything holds

**session** (`MCSession`). In one part, one client that starts captures and opens
files and one that stops, at every interleaving with goroutines and consumers; in
the other, two replays, a subscriber that comes and goes with a channel of two,
and a viewer. Ring of two, three frames per capture. Shows what a restart must
not do: two consumers (`NoStackedReaders`); a frame, attribution, saved record or
report of the stopped capture in the next (`NothingStale`, which is `NoLeak` and
`ReportFitsCapture`); a capture that is consumed and that nobody can stop
(`NoOrphanSource`); an evicted frame that was never offered to the sink, or that
cannot be read back although neither a rotation removed its file nor a fault lost it,
or a rotation that removes something newer than what is left
(`EvictedCanBeReadBack`); `running` without a consumer (`RunningMeansConsuming`);
a ring or cache beyond its size or an eviction that is not counted
(`RetentionBounded`). What the subscriber reads never goes back to an earlier
packet or capture (`FeedInOrder`), and in a replay `Packet(no)` answers with
packet `no` (`PacketHasOrdinal`). Three frames through a ring of two evict; two
captures are the one replaced and the one replacing. The files rotate, and the disk
fails, at any of the writes, so that frames are current, previous, removed and lost.

**session_live** (`MCAnalyzerSession`). Fair scheduling, one starter and one
stopper, live and file: every request returns and every stopped capture's consumer
ends (`EverythingEnds`, which is `RequestsReturn` and `StoppedConsumersEnd`).
Liveness needs the whole graph, so the data is minimal: one frame, ring and
channel of one.

**pipeline.** One capture with a camera that talks and a laptop that is only
seen, two packets, the ticker, the administrator, refused writes, the end of the
packets and Close in every order. Every byte is somewhere, and in one place only
(`BytesConserved`); a pipeline that returned owes nothing and forgot no device
(`CloseIsWhole`, which is `NothingLeftBehind` and `DevicesAccounted`); no alert is
written twice, and a known camera's new flow is offered to the store before the
next packet is looked at (`AlertsInTime`, which is `AlertsOnce` and
`ReportedAtOnce`); an acknowledged device does not become new again (`AckSticks`);
a pipeline that is closed or out of packets ends (`PipelinesEnd`). Two packets are
enough for one to be logged as an event and one to be folded, and for a flush in
between, which has to come first for the camera to be known. The theorems cover
any number of pipelines and packets.

**agent** (`MCAgent`). *Supervisor*: two interfaces, in either mode, up to three
pipelines, two changes and a refresh, at every interleaving of the swap with
notifications, the refresh loop and pipelines that die. One capture at a time,
each closed once (`HandedOver`, which is `OneCapture` and `ClosedOnce`), on the
interface the code would choose now when nothing is pending (`OnBestWhenQuiet`),
with the latest intelligence when nothing is under way (`CurrentHasLatest`). The
chain boot, swap, swap back needs two changes and three pipelines. *Targeted
captures*: one session, two pipelines of three frames each, frames of size 1 and 2,
budget 3 or less. The budget and a whole file when done (`FileKept`, which is
`BudgetKept` and `DoneIsReadable`), an unbroken file (`UnbrokenRun`), nothing after
the end (`FinishedStays`). Of both, that notifications are handled and sessions end
(`AgentSettles`, which is `EventsHandled` and `CapturesEnd`). Sessions do not touch
one another, so one of them shows all there is; six units offered against a budget
of at most three exceed it in both ways, exactly and by a frame.

**parts** (`MCParts`). The rest, one part per behaviour:

* *Sources.* An AF_PACKET source and a replay side by side, a channel of two, up
  to four frames each, any pattern of reading and closing. Counters add up
  (`FramesAccounted`), both sources implement `OrderedFeed` (`ImplementsFeed`: in
  order, and without a gap from a replay), and Close is heard (`CloseHeard`): a
  reader that keeps ranging sees the end (`CloseEndsFeed`) and the goroutine is
  freed even when nobody reads (`CloseReleasesGoroutine`). Four frames through a
  channel of two fill it, drop, drain and drop again.
* *Sink.* Seven frames through files of two records: three rotations, so that a
  file is current, then previous, then removed, under every mixture of flushes,
  reads, faults and a close. A read answers with the packet asked for or with none
  (`RightPacketOrNone`); with no faults a whole file of history before the current
  one is readable and at most two files within their limit exist
  (`SinkKeepsLatest`, which is `NoCliff` and `DiskBounded`).
* *Detection.* Up to four rows out of nine connections and five queries, in every
  order. A scan is signalled exactly when some span of the window's length, placed
  anywhere, holds it, and calls at an exact period are a beacon (`VerdictsExact`);
  an alert that rests on what was seen is never taken back by later evidence, as
  long as all rows are read (`AlertsLast`; an analysis reads the latest 100000 of
  either table, and evidence beyond them is forgotten). Four rows are a beacon of three and one call in between, or a
  scan over the boundary of two windows.
* *Report.* Up to four packets out of nine. The tables agree with each other and
  with the file, each conversation is one session whichever direction is met first,
  and what is kept of a direction is its beginning without a hole
  (`ReportFaithful`).
* *Filter.* Every text of up to seven tokens typed from ten chunks. The parser
  accepts what the grammar derives and evaluates to the one meaning the grammar
  allows (`FilterMeaning`), against a reference that derives every reading. Seven
  tokens are a negated group with a connective inside and one outside.
* *Files.* Up to four blocks of both formats and byte orders, cut anywhere; and a
  merge of any of them to another file (`FilesFaithful`). A section, an interface, a
  second section and a packet are four blocks.
* *Keys.* One client that switches decryption on and off, two libraries, scans,
  reader and drain. A library is probed at all its functions or none, only by the
  peeker in use (`ProbesOwned`); nothing is held while decryption is off, and rings
  are within bounds (`KeptOnlyWhileOn`). One generation, so that an event of one
  enabling does not meet the next.
* *Proxy.* Crashes at any point of writing the root pair, one tunnel with several
  requests, responses that are cut, leaves that expire (`ProxyTrue`, which is
  `PairBelongs` and `ExchangesTrue`). A ring of one and two exchanges evict.
* *Attribution.* Two sockets on one port, of which one or none is hidden or on the
  wildcard, and four packets that name three addresses with room for two: an
  answer is no older than its cache allows, and names are those heard
  (`AnswerFresh` and `NamesAreEvidence`). Two threat feeds over six fetches or
  starts, with answers, failures, cut writes and crashes in any order: a restart
  without a network has every list that was saved whole, and a round in which
  every feed fails takes nothing away (`ListsKept`). The three are one property,
  `AttributionHolds`; six fetches are a start, two rounds and a restart.
* *Overview.* Live traffic against a file of two rows, four rows in all, and views
  that read three. All views account for the same bytes, and an imported file stays
  in sight (`OverviewTrue`, which is `ViewsAgree` and `ImportStaysVisible`). A file's
  rows with a live row in between and one after reach every limit, and two imports
  of it, one after the other or at once, fill the store. A file stays in
  sight if it held a connection, is not named like an interface (it is then that
  interface to every query, and not offered while it is captured), and if no
  more than `BatchLimit` names are stored; without the last it is the 51st list
  entry the code cuts off.

### 3.2 Runs that show a disagreement

Each checks one statement the repository makes, and TLC finds a behaviour of the
code that breaks it.

| run | the statement | what happens |
|---|---|---|
| session_stacked | `gui/session.go:292` "Starting while already running restarts cleanly rather than stacking two readers" | `startWith` reads `consumeDone` in one section and installs in a later one. Two overlapping `/api/start` wait for the same previous consumer and both install: two consumers, the first one's source out of reach of `Stop`. |
| session_tab_closes | `gui/server.go:463`, the browser "reconnects on its own"; `gui/session.go:547`, cancel must be called | `consume` sends to a snapshot of the subscribers after it released the lock; `cancel` closes the channel in between; the send panics and the process ends. |
| session_gap | `gui/session.go:680` "the ring is exactly a contiguous window" | a live source numbers a frame before it drops it, so ordinals skip and `Packet(no)` returns another packet. |
| pipeline_category | `store/store.go:198` "SetCategory writes back an admin-assigned category" | `UpsertDevice` writes the guessed category over the assigned one with the device's next flush. |
| agent_dead_source | `src/BeeEye-agent/main.go:362` the overview runs without live data "until real capture becomes possible" | a capture whose interface went away has ended, but remains the current pipeline and keeps its name; when the interface comes back, `watch` finds the wanted name already captured and opens nothing. |
| key_capture_race | `gui/decrypt.go:141` "Disable detaches the uprobes and drops the kept plaintext" | `start` stores the peeker it loaded without asking whether decryption is still on. A `Disable` between loading and storing finds nothing to close; probes are then attached and readers started with decryption off. |
| merge_overwrites | `src/BeeEye-agent/cmd/BeeEye-pcapmerge/main.go:62` "merge reads every packet out of pcapPath, unmodified, and writes them" to "a new pcapng file" | for X.pcapng the default output is X.pcapng: creating it truncates the capture being read, and what was not buffered yet is lost. |

Other things met on the way, described here because no run is spent on them.

* *Session*: with two starters a request may also wait for a consumer that nobody
  stops, so `EverythingEnds` too needs starts not to overlap; a packet's detail and
  its process are read in two sections, keyed by an ordinal that the next capture
  reuses.
* *Sink*: `rotate` removes the older file and forgets its index before it tries to
  create the new one, so a rotation that fails loses packets that could be read,
  against `gui/pcapsink.go:110` "keep serving reads from the two we have but stop
  writing".
* *Pipeline*: an alert is marked as seen before it is inserted and is lost for that
  pipeline when the insert fails; a camera's flows before its first flush are not
  reported at once; `flush` replaces the flow map, so a camera's long conversation
  is reported anew in every interval, against `livesource/pipeline.go:378` "Fire
  once per flow, on the packet that opened it"; a second `Close` closes a closed
  channel.
* *Intelligence*: a feed that fails loses its entries when another one succeeds,
  since a refresh replaces all that was in memory, against
  `threatintel/threatintel.go:152` "keeping last cached copy"; a swapped-in
  pipeline starts with the intelligence of start-up, which may be empty, until the
  next refresh, hours later.
* *Files*: after a second section of the other byte order the first block's length
  is still read in the old order, so the file reads as corrupt from there;
  `FilesReadBack` is stated up to that point. `merge` asks a pcapng input for its
  link type before the first packet, when it has none, and writes all packets as
  Ethernet (`src/BeeEye-agent/cmd/BeeEye-pcapmerge/main.go:88`).
* *Key capture*: with decryption switched off and on again a record read for the
  old enabling is kept in the new one; that is why `KeptOnlyWhileOn` speaks of
  decryption being off.
* *Filter*: of a packet without the field `a != b` is false and `!(a == b)` true,
  against `dfilter/dfilter.go:19` "`!(a == b)` means the same thing"; `FilterMeaning`
  is about what the parser makes of a text and says nothing of it.
* *Detection*: the headline among kinds of equal weight is the Go map's choice, so
  the pipeline may write one alert twice under two names.

### 3.3 Bounds

`MaxFrames` (frames a source ever reads), `MaxPackets` (packets of a pipeline or a
file), `MaxOffered` and `MaxMillis` (records offered to the sink, its clock),
`MaxPipes`, `MaxChanges`, `MaxRounds` (pipelines opened, changes of the host,
refreshes), `MaxFeeds` (frames a pipeline offers), `MaxEvidence`, `MaxTokens`,
`MaxBlocks`, `MaxMerged`, `MaxLoads`, `MaxPairs`, `MaxClock`, `MaxExchanges`,
`MaxSockets`, `MaxNow`, `MaxLearnt`, `MaxFetches`, `MaxRows`, `MaxNames`, `MaxImports`, `MaxTime` are bounds of the
models and appear in guards. `ChanCap`, `RingSize`, `FeedCap`, `MaxRecords`,
`MaxBudget`, `MaxStream`, `MaxTalkers`, `MaxBlock`, `Buffer`, `RingCap`, `KeylogCap`,
`QueueCap`, `BodyCap`, `Limit`, `NameLimit`, `ViewRows`, `PairLimit`, `DomainRows`, `RowLimit` and
the detectors' thresholds are parameters of the program made small. A source is
opened once: two captures in a row are two sources. Deadlock is not checked,
because all of these systems may come to rest: nobody has to start, read or stop
anything.

### 3.4 Fairness

* `FairSpec` of `MCParts` has the fairness of `FairSourceSpec`: weak fairness of
  each source's goroutine. The Go runtime schedules it, and a read returns within
  its 200 ms receive timeout or a file's end. Nothing is assumed of whoever closes;
  a reader is assumed to keep ranging only in `KeepsReading(s)`, the hypothesis of
  `CloseEndsFeed`. The other parts get none: nothing temporal is said of them.
* `FairSpec` of the session: weak fairness of each source's goroutine, each
  consumer and each request that has begun. Go's mutex hands itself to a waiter
  that has starved for a millisecond, so a section that may be entered is. No one
  is obliged to begin a request, read a feed or close a tab. A consumer never
  waits for a subscriber.
* `FairSpec` of the pipeline: weak fairness of `run()`, and strong fairness of
  the case of its select that ends it. A Go select chooses among the ready cases
  uniformly at random, so a case that is ready again and again is chosen, however
  often packets or the ticker are ready too. No fairness of packets, of the
  ticker by itself or of the administrator.
* `FairSpec` of the agent (`MCAgent`): weak fairness of the goroutine of `main`, of
  the refresh loop once it has a result, of a closed pipeline's end, and of timers
  and their callbacks, which the runtime fires. None of the host, of opening a
  session or of frames.

## 4. What is proved

TLAPS checks every step of the theorems below, for all values of the constants that
satisfy the named assumptions. Each component with a state follows the same plan: an invariant
strong enough to be inductive, a lemma that the initial states have it, one lemma
per part and action that may disturb it, and the theorem.

**CaptureSourceProofs** (`SourceAssumption`: the channel has room for at least one
frame). The inductive invariant adds to the type invariant that the channel is in
order and bounded, that the frame in hand is the newest one, later than all that is
queued, that counters add up by phase, and that a reader saw the end only after
the goroutine exited and the channel was drained. From it:
`CountersHonest`, `ChannelInOrder`, `ReplayComplete`, and `SourcesImplementFeed`,
the refinement of `OrderedFeed`: a receive is a `Deliver`, the end is a `Finish`,
everything else a stutter. `Finish` and `Deliver` are possible only before the end
was seen, which is where the drained channel is needed.

**AnalyzerSessionProofs** (`SessionAssumption`). `SessionDrivesSources` first: every
step of the session is a step `CaptureSource` allows, so its invariant comes for
free. `TypeCorrect` and `RetentionAccounted` hold however many requests start
captures at once. The others, `RestartsCleanly`, `NothingLeaks`, `NoneOrphaned`,
`ReportsFit` and `RestartsEmpty`, which puts the second and the fourth together, are stated with the hypothesis that there is at
most one starter, which session_stacked shows to be necessary. Their
invariant (`ExclusiveInv`) adds to the four what makes them inductive
(`Sequenced`): the sink is the current capture's or nobody's, the consumer a
starter waits for is that of the capture now installed, and the file a starter
analyses is the capture now shown. From that, when `PreviousDone` lets an
installation pass, no consumer at all is at work (`InstallFindsNoConsumer`), and
the reset cannot meet one. With two starters the second conjunct fails first:
one of them installs while the other still waits for an older consumer.
Four more rest on an invariant of the order of frames (`OrderInv`): a sink is opened once per
capture (`OpenedOnce`), what a consumer has in hand is the last frame it was given
(`OnLastFrame`), the ring ascends up to that one, without a gap when the capture is a file
(`RingInOrder`), the sink was offered what left the ring and what of the ring was persisted,
`dropped` counts the former, and what it wrote later stands in a later file
(`SavedInOrder`, `Aged`), and a feed is behind the consumer
(`FeedsBehind`). `FeedsInOrder`, `EvictedStayReadable` (`EvictedCanBeReadBack`) and
`PacketsOfFilesRight` follow with one starter, the last for the packets of files.
`FilesAnswerRight` is `PacketHasOrdinal` itself, for which no source may be live: a
live source drops frames, and session_gap shows the ordinals to disagree then.
`RunningIsTrue` (`RunningMeansConsuming`) needs neither hypothesis: its invariant
(`RunningInv`) has that what a starter is about to install was opened, by it alone.

**PipelineProofs** (`PipelineAssumption`). Pipelines touch only their own part of
each variable and share the store, so the invariant is quantified over pipelines
and a step has to be looked at for its own. `PipelineTypes`; `NoByteLost`, for
which a flow not in the map holds nothing and one not in the batch has nothing
taken (`Emptied`); `NoDeviceForgotten`; `CloseIsComplete`, which needs in addition
what each place of the program counter has already emptied; `EachAlertOnce`, from
"an alert written is an alert marked" (`Marked`); `SensitiveFlowsReported`
(`Reporting`); and the action property `AcknowledgedStays`. `ClosingIsWhole` and
`AlertsOnTime` combine these in pairs, as the runs check them.

**AgentProofs**, the supervisor (`SupAssumption`). `NeverTwoCaptures` and `NoDoubleClose` and, together, `HandoverIsClean` follow from
`SwapOK`, which says for each place of the program counter which pipelines
exist, which one is opened, old and current, that these are different, and that
only one that was current has been closed. `IntelligenceArrives` needs where the callback
points: outside a swap it is registered for the current pipeline, and a refresh that
ended after the registration has either called it or is about to
(`RegisteredOK`). `BestIsCaptured` needs that what was chosen stays a best choice until
something changes, and that each change leaves a notification or `missed` behind
(`BestOK`).

**AgentProofs**, targeted captures (`TcapAssumption`). First what the record-level operators do:
a drained buffer leaves the content as a whole alone (`DrainedRecord`), closing
changes nothing that was captured and empties the buffer or leaves the file torn
(`ClosedRecord`), a record is appended (`RecordedRecord`) or refused
(`RefusedRecord`). The invariant (`TcapInv`) has, for each session, budget, count and
flush (`Sound`), that one outside the table is empty, and that an open one ends, for each
pipeline, with the last frame handed to it (`UpToDate`): the next one
handed over then continues the run (`RunExtended`). That a frame is on its way only to
sessions in the table is the reason why a listing in between cannot leave a hole.
`WithinBudget`, `NothingMissing`, `DoneIsWhole`, `FilesKept` (budget and whole file)
and the action property `DoneIsFinal` follow. `AgentIsItsParts` shows that the composition the run
`agent` explores adds nothing: each of its behaviours satisfies `SupSpec` and `TcapSpec`,
the part not chosen by stuttering, so all of these hold of it too; its type invariant is `AgentTypes`.

**InterceptionProofs** (`KeyAssumption`, `MitmAssumption`). The invariant of key capture
(`KeyInv`) has the types of the
decryptor, the peekers and the goroutines, that a goroutine at work belongs to a
generation that was loaded (`BusyWithLoaded`), and so does the peeker the decryptor
holds (`HeldLoaded`). `KeyCaptureTypes` and `NothingKeptWhenOff` hold for any number of
tabs that switch at the same time. `ProbesAreOwned` has the hypothesis that there is
at most one (`OneToggler`), which key_capture_race shows to be necessary; its
invariant (`Owned`) says of each step of `Enable` and `Disable` who may close the
peeker then, so that a scan still attaching finds it either in use or closed.
For the proxy, `PairStaysTogether` needs what lies on disk (`RootTogether`): a
certificate that can be read lies beside its own key, while a pair is being written
there is none, and from the moment the key is complete it is the key of that pair;
so whatever a crash leaves is either a whole pair or one that is written anew.
`ProxyVouches` adds the ring, whose entries are numbered without a gap up to the last
one recorded, that a tunnel in use owes nothing because it is only kept when the whole
response of a known length was passed on (`NothingOwed`), and that what a capture keeps
of a body is right for every number of pieces (`CapturedRight`). The last is an induction over the
pieces, done with the least-number principle (`LeastNat`): the table of partial results
exists (`Iterated`), and the first wrong entry would have a right one before it.

**FileProofs**, the sink (`SinkAssumption`). The invariant (`SinkInv`) describes each file by
what the index says of it: the content on disk followed by the buffer is what was written
to the current file, at the offsets and with the ordinals the index has; the previous
file is complete and is never the current one; and where nothing is refused, every
ordinal of the current file and of the one before it can be found (`Unbroken`). `SinkReadsRight`
(`RightPacketOrNone`) holds with every refusal the file system may make; `SinkKeeps`
(`SinkKeepsLatest`) is about the runs without one, and about the disk's bound. `SinkTypes`
is the type invariant.

**FileProofs**, capture files and their merging (`FilesAssumption`, `MergeAssumption`). Reading back
(`ReadBack`) is a statement about any blocks that begin with a header and follow one format
(`WellFormed`), and does not depend on how they were added. A file is what its first `k`
blocks come to, followed by the next one (`BegunIs`, `EndIs`), so each cell of a block is
where the blocks before it end (`CutHolds`). The reader after `k` blocks is written down outright
(`StateAt`): the interfaces of the section so far, which counting them numbers as the reader
does (`IfacesAnswer`, from `CountedMore`), and the packets meant so far. `BlockRead` shows, for each
type of block, that asking once more at `StateAt(k)` gives `StateAt(k + 1)` if the file
holds the block, and `BlockCut`, `FileEnds` and `SectionSwapped` what it gives if not; `ReadTo` joins
them. The merge's invariant (`MergeInv`) says that there are a `k` and an `n` such that the first
`n` cells were taken, the reader is at `StateAt(k)`, and the output followed by its buffer
is the file of a section, an interface, the keys, and one block for each packet meant so
far (`Written`, `Copying`). It speaks only of merges into another file: in place, what is taken is no
longer the capture, as merge_overwrites shows. What the reader may say next (`NextIs`) then is
the four cases of the step (`CopyInv`): a block, the end, an end inside a block, which
only sends the loop to fill its buffer (`FilledIs`), and the other byte order. At the end the output
is itself a file of blocks, so what it is read back as is the same theorem again (`AllRead`,
`MergedRead`), and a packet of whole microseconds is the same packet (`CopiedSame`).
`FilesAreFaithful` is the property. The inductions are over the number of blocks, each done with the
least-number principle (`PassedOn`).

**VerdictProofs** (`ProcAssumption`, `NameAssumption`, `FeedsAssumption`, `DetAssumption`). Of the process map,
`AnswersStayFresh` (`AnswerFresh`): each row of the two cached scans is of a socket that
still existed when the scan was made, and what a lookup has in hand between its two joins is
of one that existed within `Ttl` (`ProcInv`). Of the name map, `NamesStandOnEvidence`: the map
has every naming of the addresses it knows, each with its count and best source, and
an address it does not know came when it was full (`NamesInv`); that `BestNames` of a known
address is not empty takes the least-number principle twice, for the rank and for the count. Of
the feeds, `ListsStay`: until a feed answers what is known is what the files hold, and a file holds the
list last said unless its writing failed or is under way (`FeedsInv`).
`AttributionIsFounded` combines the three as the run checks them.
Of the detectors nothing has to be inductive beyond the type of the rows: the properties are about
what is computed of any rows. A window that begins at a connection lies in a span of
its length (`WindowSpanned`), and a span that holds a connection lies in the window of its
first one (`SpanInWindow`); more connections reach no fewer addresses and ports
(`ReachesMore`), so `FanoutsAre` what the spans say. Calls at one period have each its place on a
grid (`GridPlaces`), the place is the number of calls before it (`GridOrder`), so the intervals are
equal (`BeaconFound`) and their spread, a sum of zeros, is below any tolerance
(`EqualIsRegular`): with `FanoutsAre` this is `VerdictsAreExact`. `AlertsStay` needs that every kind of
lasting evidence is signalled again (`LastingMore`) and that more signals sum to no lower score
(`ScoreMore`), of rows that are all read (`AllRead`). Sums are tables of partial sums (`TotalIs`), compared by the least-number principle. The
assumption asks for at least two samples and for a positive shortest interval; the defaults are 6 and 10.

**SummaryProofs**, the report (`RepAssumption`). `ReportFaithful` speaks of what the tables
add up to, so the invariant (`RepInv`) carries the sums along the packets fed: the tables are
maps of counts (`TypedTables`), each total is that of the packets which count for it (`Sums`),
the keys of both tables are those met in the file (`KeysMet`), and each head is
the beginning of what was sent in its direction (`HeadsKept`). `TotalOf` is a sum in an
order CHOOSE picks; that it does not depend on the order and grows by what one entry
grows (`TotalWith`) is an induction over sets, done with the least-number principle
(`LeastNat`, `SmallestWrong`). That every conversation is one session needs that both ways of
naming its ends tell conversations apart alike: two packets have one `ConvKey` exactly if they
have one `StreamKey` (`KeysAgree`). `ReportIsFaithful` is the property, `ReportTypes` the type invariant.

**SummaryProofs**, the overview (`OverAssumption`). The invariant (`OverInv`) adds to the types
that a file's rows in the store are as many as its replays have read, and as many of them have a
place on the map (`FilesStored`): two sums over the replays, of which a step moves one entry (`TotalMoved`). The views hold of any rows: the total of a table grouped by
a key is the total of the rows, because the groups are a partition of them (`Partition`,
`GroupedTotal`, and `TrendTotal` for the points of the trend, some of which are empty); a
`LIMIT` no smaller than the rows leaves all of them (`NewestAll`); each name has exactly one latest row
(`OneNewest`), so `ImportBatches` has as many entries as there are names and, within
`BatchLimit`, each of them (`BatchesAll`). `StaysOffered` and `StaysOnMap` are the two
halves of `ImportStaysVisible`, `OverviewIsTrue` is all of it, `OverviewTypes` the type invariant.

**SummaryProofs**, the filter (`FilterAssumption`: chunks are sequences of tokens). The property is about
what is computed of any text, so nothing has to be inductive but its type (`FilterTypes`); the
work is in the recursion. That the parser's function exists, with the equations of `Run`, is shown by the
least-number principle on a depth that each call lowers (`RunIsLocal`,
`SolutionYields`, `SolutionExists`, `ParserRuns`), and likewise for the grammar on the length of a
stretch (`DeriveIsLocal`, `CoverExists`, `GrammarDerives`). Then the two directions. What the parser
takes is a reading (`TakenRightEverywhere`): a call that succeeds stops at an index up to which the
grammar derives what it yields. And every reading is taken whole (`TakenWholeEverywhere`): where
the grammar derives something of a stretch that no further connective of the same level
follows, the call ends at its end, with that meaning. The latter is where precedence and the greed of
the two loops are needed, and why a text has no second reading. It holds of texts in which a
field is named like a connective, which the lexer does not tell apart.
`FiltersMeanOneThing` puts the two together.

`TypeOK` of each module is a conjunction of named groups so that an action's
proof has to open only the ones it disturbs.

### What is only model-checked

* Everything temporal beyond safety: `CloseHeard`, `EverythingEnds`, `PipelinesEnd`,
  `AgentSettles`. The prover does not reason about ENABLED, on which fairness rests.
* `PartsTypeOK` of `MCParts`, which only puts the types of twelve parts together. Most are
  proved in the modules of their own: sources, sink, detection, report, filter, keys,
  proxy, attribution and overview have each their type invariant as a theorem or as
  a conjunct of a proved invariant.

## 5. What is not modelled, and the plan

Not modelled, and why:

* *Dissectors* (`dissect/`): parsing of bytes; their only state is a first time stamp.
* *eBPF capture and loader*: C code for the kernel, and a source of the shape
  `CaptureSource` already has.
* *Rendering, GPU kernels, user interfaces, desktop shell*: presentation.
* *Identity, GeoIP, protocol tables, configuration*: loaded once and looked up.

Left out of modelled parts: the session's read-only views and the compilation of a
filter before it is set; cutting a filter's text into tokens; regular expressions,
previews and digests of a report, and the store of uploaded reports; options of
pcapng blocks other than the resolution; master-key offsets and the parsing of `/proc`
in key capture; headers and the configuration profile of the proxy; a database's purge,
migration and event list; the parsing of a feed's lines; imports as seen by the supervisor. Descriptor numbers, and their reuse between `done`
being tested and `Recvfrom`, are not represented: sources own their descriptors.
File names of the sink are assumed different (2.3). `Overview` takes the later of two
rows of one second first, where SQLite may take either.

In the order in which it matters, what is left:

1. **The kernel's flow table** and the eBPF source's shutdown.
2. **A merge in place**: what the loop reads of a file that it is writing over, which
   merge_overwrites only shows to lose packets.
