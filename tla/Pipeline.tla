------------------------------ MODULE Pipeline ------------------------------
(***************************************************************************)
(* The agent's capture pipelines (internal/livesource/pipeline.go) and the *)
(* store they share (internal/store/store.go). A pipeline is one goroutine *)
(* that selects between its packets, a ticker and a request to stop; it    *)
(* folds packets into flows and devices, and every tick writes them to the *)
(* store and runs the detectors over it. Live captures and file imports    *)
(* run side by side, and an administrator edits the same device rows.      *)
(*                                                                         *)
(* The mutex of a pipeline protects state that only its goroutine touches, *)
(* so a step is one section of that goroutine between two store calls. The *)
(* store's own mutex makes each of its methods one step. Any write may be  *)
(* refused. Each packet weighs one byte.                                   *)
(***************************************************************************)
EXTENDS Naturals, FiniteSets

CONSTANTS
  Pipelines,    \* live captures and imports
  Devices,      \* MAC addresses
  Flows,        \* 5-tuple keys
  Owner,        \* the device a flow belongs to: its local end
  Cameras,      \* devices identified as camera or lock once fingerprinted
  MaxPackets    \* bound: packets of one pipeline

ASSUME PipelineAssumption ==
  /\ Owner \in [Flows -> Devices]
  /\ Cameras \subseteq Devices
  /\ MaxPackets \in Nat
  /\ Flows \cap Devices = {}

VARIABLES
  \* the store
  registered,   \* rows of device_registry
  sensitive,    \* of those, the ones whose category is camera or lock
  fresh,        \* of those, the ones with is_new = 1
  assigned,     \* devices whose category the administrator set, as [d |-> was it camera]
  rows,         \* flows with a row in connections
  dnsRows,      \* devices with a row in dns_records
  \* a pipeline
  pc,           \* where run() is
  last,         \* the flush under way is the one before returning
  asked,        \* p.stop is closed
  dry,          \* the packet channel is closed and drained
  packets,      \* packets ingested
  open,         \* keys of p.flows
  held,         \* ... and their bytes
  pending,      \* p.pendingEvents
  devices,      \* keys of p.devices
  printed,      \* ... those with a passive fingerprint
  dirty,        \* ... those marked dirty
  cats,         \* p.cats: devices of sensitivity 3
  batch,        \* flush's flows not yet written
  taken,        \* ... and their bytes
  upserts,      \* flush's devices not yet written
  todo,         \* flush's alerts not yet looked at
  seenEvents,   \* p.seenEvents
  \* what has become of everything, for the properties
  ingested,     \* bytes of each flow
  written,      \* ... in rows of the store
  refused,      \* ... in rows the store refused
  fired,        \* connection-opened rows attempted for each flow
  alerted,      \* event rows written for each alert
  unsaved       \* devices whose last write was refused

storeVars   == <<registered, sensitive, fresh, assigned, rows, dnsRows>>
flowVars    == <<open, held, pending, batch, taken>>
deviceVars  == <<devices, printed, dirty, cats, upserts>>
alertVars   == <<todo, seenEvents, alerted>>
ledgerVars  == <<ingested, written, refused, fired, unsaved>>
controlVars == <<pc, last, asked, dry, packets>>
vars == <<storeVars, flowVars, deviceVars, alertVars, ledgerVars, controlVars>>

(* An alert is about a connection or about a device's DNS. *)
Alerts == Flows \cup Devices

Zero == [f \in Flows |-> 0]

Init ==
  /\ registered = {} /\ sensitive = {} /\ fresh = {} /\ rows = {} /\ dnsRows = {}
  /\ assigned = <<>>
  /\ pc = [p \in Pipelines |-> "select"]
  /\ last = [p \in Pipelines |-> FALSE]
  /\ asked = [p \in Pipelines |-> FALSE]
  /\ dry = [p \in Pipelines |-> FALSE]
  /\ packets = [p \in Pipelines |-> 0]
  /\ open = [p \in Pipelines |-> {}]
  /\ held = [p \in Pipelines |-> Zero]
  /\ pending = [p \in Pipelines |-> {}]
  /\ devices = [p \in Pipelines |-> {}]
  /\ printed = [p \in Pipelines |-> {}]
  /\ dirty = [p \in Pipelines |-> {}]
  /\ cats = [p \in Pipelines |-> {}]
  /\ batch = [p \in Pipelines |-> {}]
  /\ taken = [p \in Pipelines |-> Zero]
  /\ upserts = [p \in Pipelines |-> {}]
  /\ todo = [p \in Pipelines |-> {}]
  /\ seenEvents = [p \in Pipelines |-> {}]
  /\ ingested = [p \in Pipelines |-> Zero]
  /\ written = [p \in Pipelines |-> Zero]
  /\ refused = [p \in Pipelines |-> Zero]
  /\ fired = [p \in Pipelines |-> Zero]
  /\ alerted = [p \in Pipelines |-> [a \in Alerts |-> 0]]
  /\ unsaved = [p \in Pipelines |-> {}]

Goto(p, to) == pc' = [pc EXCEPT ![p] = to]

-----------------------------------------------------------------------------
(* A packet is received: its device is seen, whatever fingerprint it       *)
(* carries is recorded.                                                    *)
Receive(p) ==
  /\ pc[p] = "select"
  /\ ~dry[p]
  /\ packets[p] < MaxPackets
  /\ packets' = [packets EXCEPT ![p] = @ + 1]
  /\ Goto(p, "drain")
  /\ UNCHANGED <<last, asked, dry>>

SeeDevice(p, d, fingerprint) ==
  /\ devices' = [devices EXCEPT ![p] = @ \cup {d}]
  /\ dirty' = [dirty EXCEPT ![p] = @ \cup {d}]
  /\ printed' = [printed EXCEPT ![p] = IF fingerprint THEN @ \cup {d} ELSE @]
  /\ UNCHANGED <<cats, upserts>>

(* Mutant: the running totals keep the packet that was logged on its own. *)
FoldTwice(p, f) ==
  /\ open' = [open EXCEPT ![p] = @ \cup {f}]
  /\ held' = [held EXCEPT ![p][f] = @ + 1]
  /\ pending' = [pending EXCEPT ![p] = IF f \notin open[p] /\ Owner[f] \in cats[p]
                                         THEN @ \cup {f} ELSE @]
  /\ UNCHANGED <<batch, taken>>

(* Mutant: only the aggregated row is kept. *)
FoldSilently(p, f) ==
  /\ open' = [open EXCEPT ![p] = @ \cup {f}]
  /\ held' = [held EXCEPT ![p][f] = @ + 1]
  /\ UNCHANGED <<pending, batch, taken>>

(* The packet goes into its flow, except the first one of a flow of a lock *)
(* or camera, which becomes an event of its own.                           *)
Fold(p, f) ==
  LET event == f \notin open[p] /\ Owner[f] \in cats[p] IN
    /\ open' = [open EXCEPT ![p] = @ \cup {f}]
    /\ held' = [held EXCEPT ![p][f] = IF event THEN @ ELSE @ + 1]
    /\ pending' = [pending EXCEPT ![p] = IF event THEN @ \cup {f} ELSE @]
    /\ UNCHANGED <<batch, taken>>

(* ingest of a packet of a flow. A DNS answer goes to the store at once.   *)
Ingest(p, f, fingerprint, resolved) ==
  /\ Receive(p)
  /\ SeeDevice(p, Owner[f], fingerprint)
  /\ Fold(p, f)
  /\ dnsRows' = dnsRows \cup resolved
  /\ ingested' = [ingested EXCEPT ![p][f] = @ + 1]
  /\ UNCHANGED <<registered, sensitive, fresh, assigned, rows, alertVars,
                 written, refused, fired, unsaved>>

(* ingest of a packet that belongs to no flow: ARP and the like. *)
Discover(p, d) ==
  /\ Receive(p)
  /\ SeeDevice(p, d, FALSE)
  /\ UNCHANGED <<storeVars, flowVars, alertVars, ledgerVars>>

(* What becomes of b bytes of flow f: a row, or an error that is logged.   *)
InsertConnection(p, f, b, accepted) ==
  /\ rows' = IF accepted THEN rows \cup {f} ELSE rows
  /\ written' = [written EXCEPT ![p][f] = IF accepted THEN @ + b ELSE @]
  /\ refused' = [refused EXCEPT ![p][f] = IF accepted THEN @ ELSE @ + b]
  /\ UNCHANGED <<registered, sensitive, fresh, assigned, dnsRows, ingested, unsaved>>

(* The events ingest queued are written before the next select.            *)
DrainEvent(p, f, accepted) ==
  /\ pc[p] = "drain"
  /\ f \in pending[p]
  /\ pending' = [pending EXCEPT ![p] = @ \ {f}]
  /\ fired' = [fired EXCEPT ![p][f] = @ + 1]
  /\ InsertConnection(p, f, 1, accepted)
  /\ UNCHANGED <<open, held, batch, taken, deviceVars, alertVars, controlVars>>

Drained(p) ==
  /\ pc[p] = "drain"
  /\ pending[p] = {}
  /\ Goto(p, "select")
  /\ UNCHANGED <<last, asked, dry, packets, storeVars, flowVars, deviceVars,
                 alertVars, ledgerVars>>

-----------------------------------------------------------------------------
(* flush begins by taking the flows and the dirty devices, identifying the *)
(* devices as it goes.                                                     *)
Flush(p, final) ==
  /\ pc[p] = "select"
  /\ last' = [last EXCEPT ![p] = final]
  /\ Goto(p, "devices")
  /\ batch' = [batch EXCEPT ![p] = open[p]]
  /\ taken' = [taken EXCEPT ![p] = held[p]]
  /\ open' = [open EXCEPT ![p] = {}]
  /\ held' = [held EXCEPT ![p] = Zero]
  /\ upserts' = [upserts EXCEPT ![p] = dirty[p]]
  /\ dirty' = [dirty EXCEPT ![p] = {}]
  /\ cats' = [cats EXCEPT ![p] = (@ \ dirty[p]) \cup (dirty[p] \cap printed[p] \cap Cameras)]
  /\ UNCHANGED <<asked, dry, packets, pending, devices, printed, storeVars,
                 alertVars, ledgerVars>>

TickFlush(p) == Flush(p, FALSE)

(* Mutants: the final flush is skipped, or taken only for a stop. *)
LeaveWithoutFlush(p) ==
  /\ pc[p] = "select"
  /\ asked[p] \/ dry[p]
  /\ Goto(p, "done")
  /\ UNCHANGED <<last, asked, dry, packets, storeVars, flowVars, deviceVars,
                 alertVars, ledgerVars>>

FlushOnStop(p) == asked[p] /\ Flush(p, TRUE)

(* p.stop is closed, or the packets have ended. *)
FinalFlush(p) == (asked[p] \/ dry[p]) /\ Flush(p, TRUE)

(* Mutant: an update marks the device new again. *)
RegisterAnew(p, d) ==
  /\ registered' = registered \cup {d}
  /\ sensitive' = IF d \in cats[p] THEN sensitive \cup {d} ELSE sensitive \ {d}
  /\ fresh' = fresh \cup {d}

(* UpsertDevice: is_new only for a new row, the category always.           *)
Register(p, d) ==
  /\ registered' = registered \cup {d}
  /\ sensitive' = IF d \in cats[p] THEN sensitive \cup {d} ELSE sensitive \ {d}
  /\ fresh' = IF d \in registered THEN fresh ELSE fresh \cup {d}

UpsertDevice(p, d, accepted) ==
  /\ pc[p] = "devices"
  /\ d \in upserts[p]
  /\ upserts' = [upserts EXCEPT ![p] = @ \ {d}]
  /\ IF accepted THEN Register(p, d) ELSE UNCHANGED <<registered, sensitive, fresh>>
  /\ unsaved' = [unsaved EXCEPT ![p] = IF accepted THEN @ \ {d} ELSE @ \cup {d}]
  /\ UNCHANGED <<devices, printed, dirty, cats, assigned, rows, dnsRows, flowVars,
                 alertVars, ingested, written, refused, fired, controlVars>>

WriteFlow(p, f, accepted) ==
  /\ pc[p] = "devices"
  /\ upserts[p] = {}
  /\ f \in batch[p]
  /\ batch' = [batch EXCEPT ![p] = @ \ {f}]
  /\ taken' = [taken EXCEPT ![p][f] = 0]
  /\ InsertConnection(p, f, taken[p][f], accepted)
  /\ UNCHANGED <<open, held, pending, fired, deviceVars, alertVars, controlVars>>

(* The detectors read the store and report alerts about what it holds;     *)
(* which ones depends on thresholds, windows and threat intelligence. When *)
(* the connections cannot be read there are none.                          *)
Analyze(p, found) ==
  /\ pc[p] = "devices"
  /\ upserts[p] = {} /\ batch[p] = {}
  /\ Goto(p, "alerts")
  /\ todo' = [todo EXCEPT ![p] = found]
  /\ UNCHANGED <<last, asked, dry, packets, seenEvents, alerted, storeVars,
                 flowVars, deviceVars, ledgerVars>>

(* An alert is marked as seen and, unless it was already, inserted; an     *)
(* error is ignored.                                                       *)
Raise(p, a, accepted) ==
  /\ pc[p] = "alerts"
  /\ a \in todo[p]
  /\ todo' = [todo EXCEPT ![p] = @ \ {a}]
  /\ seenEvents' = [seenEvents EXCEPT ![p] = @ \cup {a}]
  /\ alerted' = [alerted EXCEPT ![p][a] = IF accepted /\ a \notin seenEvents[p]
                                            THEN @ + 1 ELSE @]
  /\ UNCHANGED <<storeVars, flowVars, deviceVars, ledgerVars, controlVars>>

FinishFlush(p) ==
  /\ pc[p] = "alerts"
  /\ todo[p] = {}
  /\ Goto(p, IF last[p] THEN "done" ELSE "select")
  /\ UNCHANGED <<last, asked, dry, packets, storeVars, flowVars, deviceVars,
                 alertVars, ledgerVars>>

RunStep(p) ==
  \/ Drained(p)
  \/ TickFlush(p)
  \/ FinalFlush(p)
  \/ \E f \in Flows, accepted \in BOOLEAN : DrainEvent(p, f, accepted)
  \/ \E d \in Devices, accepted \in BOOLEAN : UpsertDevice(p, d, accepted)
  \/ \E f \in Flows, accepted \in BOOLEAN : WriteFlow(p, f, accepted)
  \/ \E found \in SUBSET (rows \cup dnsRows) : Analyze(p, found)
  \/ \E a \in Alerts, accepted \in BOOLEAN : Raise(p, a, accepted)
  \/ FinishFlush(p)

PacketStep(p) ==
  \/ \E f \in Flows : \E fingerprint \in BOOLEAN, resolved \in {{}, {Owner[f]}} :
       Ingest(p, f, fingerprint, resolved)
  \/ \E d \in Devices : Discover(p, d)

-----------------------------------------------------------------------------
OnlyStore == UNCHANGED <<flowVars, deviceVars, alertVars, ledgerVars, controlVars>>
OnlyControl == UNCHANGED <<storeVars, flowVars, deviceVars, alertVars, ledgerVars>>

(* The source's channel ends: at the end of a file, when the interface     *)
(* goes away, or after Close.                                              *)
PacketsEnd(p) ==
  /\ ~dry[p]
  /\ dry' = [dry EXCEPT ![p] = TRUE]
  /\ UNCHANGED <<pc, last, asked, packets>>
  /\ OnlyControl

(* Close: its caller then waits for run() to return. *)
Close(p) ==
  /\ ~asked[p]
  /\ asked' = [asked EXCEPT ![p] = TRUE]
  /\ UNCHANGED <<pc, last, dry, packets>>
  /\ OnlyControl

(* Mutant: a category can be set for a device that has no row. *)
SetCategoryOfAny(d, camera) ==
  /\ sensitive' = IF camera THEN sensitive \cup {d} ELSE sensitive \ {d}
  /\ assigned' = [e \in DOMAIN assigned \cup {d} |-> IF e = d THEN camera ELSE assigned[e]]
  /\ UNCHANGED <<registered, fresh, rows, dnsRows>>
  /\ OnlyStore

(* The administrator's two writes, which touch only an existing row. *)
SetCategory(d, camera) ==
  /\ d \in registered
  /\ sensitive' = IF camera THEN sensitive \cup {d} ELSE sensitive \ {d}
  /\ assigned' = [e \in DOMAIN assigned \cup {d} |-> IF e = d THEN camera ELSE assigned[e]]
  /\ UNCHANGED <<registered, fresh, rows, dnsRows>>
  /\ OnlyStore

AckDevice(d) ==
  /\ d \in fresh
  /\ fresh' = fresh \ {d}
  /\ UNCHANGED <<registered, sensitive, assigned, rows, dnsRows>>
  /\ OnlyStore

Next ==
  \/ \E p \in Pipelines : RunStep(p) \/ PacketStep(p) \/ PacketsEnd(p) \/ Close(p)
  \/ \E d \in Devices : AckDevice(d) \/ \E camera \in BOOLEAN : SetCategory(d, camera)

Spec == Init /\ [][Next]_vars

(* The goroutine runs, and a select with several ready cases picks one     *)
(* uniformly at random, so that neither the ticker nor the packets can     *)
(* keep it from the case that ends it.                                     *)
FairSpec == Spec /\ \A p \in Pipelines : WF_vars(RunStep(p)) /\ SF_vars(FinalFlush(p))
-----------------------------------------------------------------------------
StoreTypeOK ==
  /\ registered \subseteq Devices /\ sensitive \subseteq registered /\ fresh \subseteq registered
  /\ rows \subseteq Flows /\ dnsRows \subseteq Devices
  /\ DOMAIN assigned \subseteq registered

ControlTypeOK ==
  /\ pc \in [Pipelines -> {"select", "drain", "devices", "alerts", "done"}]
  /\ last \in [Pipelines -> BOOLEAN]
  /\ asked \in [Pipelines -> BOOLEAN]
  /\ dry \in [Pipelines -> BOOLEAN]
  /\ packets \in [Pipelines -> 0 .. MaxPackets]

FlowTypeOK ==
  /\ open \in [Pipelines -> SUBSET Flows]
  /\ pending \in [Pipelines -> SUBSET Flows]
  /\ batch \in [Pipelines -> SUBSET Flows]
  /\ held \in [Pipelines -> [Flows -> Nat]]
  /\ taken \in [Pipelines -> [Flows -> Nat]]

DeviceTypeOK ==
  /\ devices \in [Pipelines -> SUBSET Devices]
  /\ printed \in [Pipelines -> SUBSET Devices]
  /\ dirty \in [Pipelines -> SUBSET Devices]
  /\ cats \in [Pipelines -> SUBSET Devices]
  /\ upserts \in [Pipelines -> SUBSET Devices]

AlertTypeOK ==
  /\ todo \in [Pipelines -> SUBSET Alerts]
  /\ seenEvents \in [Pipelines -> SUBSET Alerts]
  /\ alerted \in [Pipelines -> [Alerts -> Nat]]

LedgerTypeOK ==
  /\ ingested \in [Pipelines -> [Flows -> Nat]]
  /\ written \in [Pipelines -> [Flows -> Nat]]
  /\ refused \in [Pipelines -> [Flows -> Nat]]
  /\ fired \in [Pipelines -> [Flows -> Nat]]
  /\ unsaved \in [Pipelines -> SUBSET Devices]

TypeOK ==
  /\ StoreTypeOK
  /\ ControlTypeOK
  /\ FlowTypeOK
  /\ DeviceTypeOK
  /\ AlertTypeOK
  /\ LedgerTypeOK

(* No byte is lost or counted twice on its way from the packets to the     *)
(* rows, whichever of the two ways it takes: every byte ingested is in a   *)
(* row, in the running totals, in the batch being written, in a queued     *)
(* event, or in a row the store refused.                                   *)
InEvent(p, f) == IF f \in pending[p] THEN 1 ELSE 0

BytesConserved ==
  \A p \in Pipelines, f \in Flows :
    ingested[p][f] = written[p][f] + refused[p][f] + held[p][f] + taken[p][f] + InEvent(p, f)

(* "Close stops the capture and waits for the final flush", and an import  *)
(* is over when it "has been fully read and its final flush written": a    *)
(* pipeline that has returned owes the store nothing.                      *)
NothingLeftBehind ==
  \A p \in Pipelines :
    pc[p] = "done" =>
      /\ \A f \in Flows : ingested[p][f] = written[p][f] + refused[p][f]
      /\ \A d \in devices[p] : d \in registered \cup unsaved[p]
      /\ todo[p] = {}

(* A device once seen is in the registry, or due to be written, or its     *)
(* last write was refused.                                                 *)
DevicesAccounted ==
  \A p \in Pipelines : \A d \in devices[p] :
    d \in registered \cup dirty[p] \cup upserts[p] \cup unsaved[p]

(* "Without this the alert list would be nothing but duplicates": however  *)
(* many flushes find it, a pipeline writes an alert at most once.          *)
AlertsOnce == \A p \in Pipelines, a \in Alerts : alerted[p][a] <= 1

(* "A lock/camera's new connection shows up within one packet rather than  *)
(* waiting up to FlushInterval": before the next packet is looked at, a    *)
(* flow opened by a device known to be one has been offered to the store.  *)
ReportedAtOnce ==
  \A p \in Pipelines :
    pc[p] = "select" =>
      pending[p] = {} /\ \A f \in open[p] : Owner[f] \in cats[p] => fired[p][f] > 0

(* An acknowledged device is not announced as new again, whichever         *)
(* pipeline sees it next.                                                  *)
AckSticks == [][\A d \in registered \ fresh : d \notin fresh']_vars

(* Close returns, and so does Wait after an import. *)
PipelinesEnd == \A p \in Pipelines : (asked[p] \/ dry[p]) ~> pc[p] = "done"

(* "SetCategory writes back an admin-assigned category": the store keeps   *)
(* what the administrator last assigned.                                   *)
AdminCategoryKept == \A d \in DOMAIN assigned : assigned[d] = (d \in sensitive)

(* Closing loses nothing: what was ingested has been offered to the store, *)
(* and every device seen is registered, due, or refused (pipeline.go run,  *)
(* flush).                                                                 *)
CloseIsWhole == NothingLeftBehind /\ DevicesAccounted

(* Alerts come when they should: each once, and a sensitive flow before    *)
(* the next packet (pipeline.go score, ingest).                            *)
AlertsInTime == AlertsOnce /\ ReportedAtOnce
=============================================================================
