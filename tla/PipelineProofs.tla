--------------------------- MODULE PipelineProofs ---------------------------
(***************************************************************************)
(* What the capture pipelines guarantee for any number of them sharing one *)
(* store, of devices, flows and packets, whatever writes are refused.      *)
(***************************************************************************)
EXTENDS Pipeline, TLAPS

(* The kinds of step Next is made of. *)
LEMMA StepKinds ==
  ASSUME Next
  PROVE  \/ \E p \in Pipelines, f \in Flows : \E fingerprint \in BOOLEAN :
              \E resolved \in {{}, {Owner[f]}} : Ingest(p, f, fingerprint, resolved)
         \/ \E p \in Pipelines, d \in Devices : Discover(p, d)
         \/ \E p \in Pipelines, f \in Flows, accepted \in BOOLEAN : DrainEvent(p, f, accepted)
         \/ \E p \in Pipelines : Drained(p)
         \/ \E p \in Pipelines, final \in BOOLEAN : Flush(p, final) /\ (final => asked[p] \/ dry[p])
         \/ \E p \in Pipelines, d \in Devices, accepted \in BOOLEAN : UpsertDevice(p, d, accepted)
         \/ \E p \in Pipelines, f \in Flows, accepted \in BOOLEAN : WriteFlow(p, f, accepted)
         \/ \E p \in Pipelines, found \in SUBSET (rows \cup dnsRows) : Analyze(p, found)
         \/ \E p \in Pipelines, a \in Alerts, accepted \in BOOLEAN : Raise(p, a, accepted)
         \/ \E p \in Pipelines : FinishFlush(p)
         \/ \E p \in Pipelines : PacketsEnd(p) \/ Close(p)
         \/ \E d \in Devices : AckDevice(d)
         \/ \E d \in Devices, camera \in BOOLEAN : SetCategory(d, camera)
BY DEF Next, RunStep, PacketStep, TickFlush, FinalFlush

-----------------------------------------------------------------------------
(* Type correctness, one group of variables at a time. *)
LEMMA InitTypes == Init => TypeOK
BY PipelineAssumption
   DEF Init, Zero, TypeOK, StoreTypeOK, ControlTypeOK, FlowTypeOK, DeviceTypeOK,
       AlertTypeOK, LedgerTypeOK

LEMMA StoreTypes == ASSUME TypeOK, [Next]_vars PROVE StoreTypeOK'
<1>1. ASSUME NEW p \in Pipelines, NEW f \in Flows, NEW fingerprint \in BOOLEAN,
             NEW resolved \in {{}, {Owner[f]}}, Ingest(p, f, fingerprint, resolved)
      PROVE  StoreTypeOK'
  BY <1>1, PipelineAssumption DEF TypeOK, StoreTypeOK, Ingest
<1>2. ASSUME NEW p \in Pipelines, NEW f \in Flows, NEW accepted \in BOOLEAN,
             DrainEvent(p, f, accepted) \/ WriteFlow(p, f, accepted)
      PROVE  StoreTypeOK'
  BY <1>2, PipelineAssumption DEF TypeOK, StoreTypeOK, DrainEvent, WriteFlow, InsertConnection
<1>3. ASSUME NEW p \in Pipelines, NEW d \in Devices, NEW accepted \in BOOLEAN,
             UpsertDevice(p, d, accepted)
      PROVE  StoreTypeOK'
  BY <1>3, PipelineAssumption DEF TypeOK, StoreTypeOK, UpsertDevice, Register
<1>4. ASSUME NEW d \in Devices, AckDevice(d) PROVE StoreTypeOK'
  BY <1>4, PipelineAssumption DEF TypeOK, StoreTypeOK, AckDevice
<1>5. ASSUME NEW d \in Devices, NEW camera \in BOOLEAN, SetCategory(d, camera)
      PROVE StoreTypeOK'
  BY <1>5, PipelineAssumption DEF TypeOK, StoreTypeOK, SetCategory
<1>6. ASSUME UNCHANGED storeVars PROVE StoreTypeOK'
  BY <1>6, PipelineAssumption DEF TypeOK, StoreTypeOK, storeVars
<1> QED
  BY <1>1, <1>2, <1>3, <1>4, <1>5, <1>6, StepKinds
     DEF vars, Discover, Drained, Flush, Analyze, Raise, FinishFlush, PacketsEnd, Close,
         OnlyControl

LEMMA ControlTypes == ASSUME TypeOK, [Next]_vars PROVE ControlTypeOK'
<1>1. ASSUME NEW p \in Pipelines, Receive(p) PROVE ControlTypeOK'
  BY <1>1, PipelineAssumption DEF TypeOK, ControlTypeOK, Receive, Goto
<1>2. ASSUME NEW p \in Pipelines, NEW final \in BOOLEAN, Flush(p, final) PROVE ControlTypeOK'
  BY <1>2, PipelineAssumption DEF TypeOK, ControlTypeOK, Flush, Goto
<1>3. ASSUME NEW p \in Pipelines,
             \/ Drained(p) \/ FinishFlush(p) \/ PacketsEnd(p) \/ Close(p)
             \/ \E found : Analyze(p, found)
      PROVE  ControlTypeOK'
  BY <1>3, PipelineAssumption DEF TypeOK, ControlTypeOK, Drained, FinishFlush, PacketsEnd, Close, Analyze, Goto
<1>4. ASSUME UNCHANGED controlVars PROVE ControlTypeOK'
  BY <1>4, PipelineAssumption DEF TypeOK, ControlTypeOK, controlVars
<1> QED
  BY <1>1, <1>2, <1>3, <1>4, StepKinds
     DEF vars, Ingest, Discover, DrainEvent, WriteFlow, UpsertDevice, Raise, AckDevice,
         SetCategory, OnlyStore

LEMMA FlowTypes == ASSUME TypeOK, [Next]_vars PROVE FlowTypeOK'
<1>1. ASSUME NEW p \in Pipelines, NEW f \in Flows, Fold(p, f) PROVE FlowTypeOK'
  BY <1>1, PipelineAssumption DEF TypeOK, FlowTypeOK, Fold
<1>2. ASSUME NEW p \in Pipelines, NEW final \in BOOLEAN, Flush(p, final) PROVE FlowTypeOK'
  BY <1>2, PipelineAssumption DEF TypeOK, FlowTypeOK, Flush, Zero
<1>3. ASSUME NEW p \in Pipelines, NEW f \in Flows, NEW accepted \in BOOLEAN,
             DrainEvent(p, f, accepted) \/ WriteFlow(p, f, accepted)
      PROVE  FlowTypeOK'
  <2>1. CASE DrainEvent(p, f, accepted)
    BY <2>1 DEF TypeOK, FlowTypeOK, DrainEvent
  <2>2. CASE WriteFlow(p, f, accepted)
    BY <2>2 DEF TypeOK, FlowTypeOK, WriteFlow
  <2> QED
    BY <1>3, <2>1, <2>2
<1>4. ASSUME UNCHANGED flowVars PROVE FlowTypeOK'
  BY <1>4, PipelineAssumption DEF TypeOK, FlowTypeOK, flowVars
<1> QED
  BY <1>1, <1>2, <1>3, <1>4, StepKinds
     DEF vars, Ingest, Discover, Drained, UpsertDevice, Analyze, Raise, FinishFlush,
         PacketsEnd, Close, OnlyControl, AckDevice, SetCategory, OnlyStore

LEMMA DeviceTypes == ASSUME TypeOK, [Next]_vars PROVE DeviceTypeOK'
<1>1. ASSUME NEW p \in Pipelines, NEW d \in Devices, NEW fingerprint \in BOOLEAN,
             SeeDevice(p, d, fingerprint)
      PROVE  DeviceTypeOK'
  BY <1>1, PipelineAssumption DEF TypeOK, DeviceTypeOK, SeeDevice
<1>2. ASSUME NEW p \in Pipelines, NEW final \in BOOLEAN, Flush(p, final) PROVE DeviceTypeOK'
  BY <1>2, PipelineAssumption DEF TypeOK, DeviceTypeOK, Flush
<1>3. ASSUME NEW p \in Pipelines, NEW d \in Devices, NEW accepted \in BOOLEAN,
             UpsertDevice(p, d, accepted)
      PROVE  DeviceTypeOK'
  BY <1>3, PipelineAssumption DEF TypeOK, DeviceTypeOK, UpsertDevice
<1>4. ASSUME UNCHANGED deviceVars PROVE DeviceTypeOK'
  BY <1>4, PipelineAssumption DEF TypeOK, DeviceTypeOK, deviceVars
<1> QED
  BY <1>1, <1>2, <1>3, <1>4, StepKinds, PipelineAssumption
     DEF vars, Ingest, Discover, DrainEvent, WriteFlow, Drained, Analyze, Raise,
         FinishFlush, PacketsEnd, Close, OnlyControl, AckDevice, SetCategory, OnlyStore

LEMMA AlertTypes == ASSUME TypeOK, [Next]_vars PROVE AlertTypeOK'
<1>1. ASSUME NEW p \in Pipelines, NEW found \in SUBSET (rows \cup dnsRows), Analyze(p, found)
      PROVE  AlertTypeOK'
  BY <1>1, PipelineAssumption DEF TypeOK, AlertTypeOK, Analyze, StoreTypeOK, Alerts
<1>2. ASSUME NEW p \in Pipelines, NEW a \in Alerts, NEW accepted \in BOOLEAN,
             Raise(p, a, accepted)
      PROVE  AlertTypeOK'
  BY <1>2, PipelineAssumption DEF TypeOK, AlertTypeOK, Raise
<1>3. ASSUME UNCHANGED alertVars PROVE AlertTypeOK'
  BY <1>3, PipelineAssumption DEF TypeOK, AlertTypeOK, alertVars
<1> QED
  BY <1>1, <1>2, <1>3, StepKinds
     DEF vars, Ingest, Discover, DrainEvent, WriteFlow, Drained, Flush, UpsertDevice,
         FinishFlush, PacketsEnd, Close, OnlyControl, AckDevice, SetCategory, OnlyStore

LEMMA LedgerTypes == ASSUME TypeOK, [Next]_vars PROVE LedgerTypeOK'
<1>1. ASSUME NEW p \in Pipelines, NEW f \in Flows, NEW fingerprint \in BOOLEAN,
             NEW resolved, Ingest(p, f, fingerprint, resolved)
      PROVE  LedgerTypeOK'
  BY <1>1, PipelineAssumption DEF TypeOK, LedgerTypeOK, Ingest
<1>2. ASSUME NEW p \in Pipelines, NEW f \in Flows, NEW accepted \in BOOLEAN,
             DrainEvent(p, f, accepted) \/ WriteFlow(p, f, accepted)
      PROVE  LedgerTypeOK'
  <2>1. ASSUME NEW b \in Nat, InsertConnection(p, f, b, accepted)
        PROVE  /\ ingested' = ingested /\ unsaved' = unsaved
               /\ written' \in [Pipelines -> [Flows -> Nat]]
               /\ refused' \in [Pipelines -> [Flows -> Nat]]
    BY <2>1 DEF TypeOK, LedgerTypeOK, InsertConnection
  <2>2. CASE DrainEvent(p, f, accepted)
    BY <2>1, <2>2 DEF TypeOK, LedgerTypeOK, DrainEvent
  <2>3. CASE WriteFlow(p, f, accepted)
    BY <2>1, <2>3 DEF TypeOK, LedgerTypeOK, FlowTypeOK, WriteFlow
  <2> QED
    BY <1>2, <2>2, <2>3
<1>3. ASSUME NEW p \in Pipelines, NEW d \in Devices, NEW accepted \in BOOLEAN,
             UpsertDevice(p, d, accepted)
      PROVE  LedgerTypeOK'
  BY <1>3, PipelineAssumption DEF TypeOK, LedgerTypeOK, UpsertDevice
<1>4. ASSUME UNCHANGED ledgerVars PROVE LedgerTypeOK'
  BY <1>4, PipelineAssumption DEF TypeOK, LedgerTypeOK, ledgerVars
<1> QED
  BY <1>1, <1>2, <1>3, <1>4, StepKinds
     DEF vars, Discover, Drained, Flush, Analyze, Raise, FinishFlush, PacketsEnd, Close,
         OnlyControl, AckDevice, SetCategory, OnlyStore

LEMMA TypesKept == ASSUME TypeOK, [Next]_vars PROVE TypeOK'
BY StoreTypes, ControlTypes, FlowTypes, DeviceTypes, AlertTypes, LedgerTypes DEF TypeOK

(* Every variable of the pipelines and of their store keeps its type; no   *)
(* category, novelty mark or assignment is kept for a device without a row. *)
THEOREM PipelineTypes == Spec => []TypeOK
BY InitTypes, TypesKept, PTL DEF Spec

-----------------------------------------------------------------------------
(* What each part of the loop has emptied by the time it moves on: the     *)
(* events before the next select, everything a flush takes before it       *)
(* starts, and the batches before it ends.                                 *)
Emptied ==
  \A p \in Pipelines :
    /\ pc[p] # "drain" => pending[p] = {}
    /\ pc[p] \in {"devices", "alerts", "done"} =>
         open[p] = {} /\ dirty[p] = {}
    /\ \A f \in Flows \ open[p] : held[p][f] = 0
    /\ pc[p] # "devices" => batch[p] = {} /\ upserts[p] = {}
    /\ pc[p] # "alerts" => todo[p] = {}
    /\ \A f \in Flows \ batch[p] : taken[p][f] = 0

LEMMA EmptiedInit == Init => Emptied
BY DEF Init, Zero, Emptied

LEMMA EmptiedKept == ASSUME TypeOK, Emptied, [Next]_vars PROVE Emptied'
<1> DEFINE Quiet == UNCHANGED <<flowVars, deviceVars, todo, pc>>
<1>1. ASSUME NEW p \in Pipelines, NEW f \in Flows, NEW fingerprint, NEW resolved,
             Ingest(p, f, fingerprint, resolved)
      PROVE  Emptied'
  BY <1>1, TypesKept
     DEF TypeOK, ControlTypeOK, FlowTypeOK, DeviceTypeOK, Emptied, Ingest, Receive, Goto,
         SeeDevice, Fold, alertVars
<1>2. ASSUME NEW p \in Pipelines, NEW d \in Devices, Discover(p, d) PROVE Emptied'
  BY <1>2 DEF TypeOK, ControlTypeOK, FlowTypeOK, DeviceTypeOK, Emptied, Discover, Receive,
              Goto, SeeDevice, flowVars, alertVars
<1>3. ASSUME NEW p \in Pipelines, NEW f \in Flows, NEW accepted, DrainEvent(p, f, accepted)
      PROVE  Emptied'
  BY <1>3 DEF TypeOK, FlowTypeOK, Emptied, DrainEvent, deviceVars, alertVars, controlVars
<1>4. ASSUME NEW p \in Pipelines, Drained(p) PROVE Emptied'
  BY <1>4 DEF TypeOK, ControlTypeOK, Emptied, Drained, Goto, flowVars, deviceVars, alertVars
<1>5. ASSUME NEW p \in Pipelines, NEW final \in BOOLEAN, Flush(p, final) PROVE Emptied'
  <2>1. /\ pc' = [pc EXCEPT ![p] = "devices"] /\ pc[p] = "select"
        /\ batch' = [batch EXCEPT ![p] = open[p]]
        /\ taken' = [taken EXCEPT ![p] = held[p]]
        /\ open' = [open EXCEPT ![p] = {}] /\ held' = [held EXCEPT ![p] = Zero]
        /\ upserts' = [upserts EXCEPT ![p] = dirty[p]] /\ dirty' = [dirty EXCEPT ![p] = {}]
        /\ pending' = pending /\ todo' = todo
    BY <1>5 DEF Flush, Goto, alertVars
  <2>2. \A f \in Flows \ open[p] : held[p][f] = 0
    BY DEF Emptied
  <2>3. ASSUME NEW q \in Pipelines, q # p
        PROVE  /\ pc'[q] = pc[q] /\ batch'[q] = batch[q] /\ taken'[q] = taken[q]
               /\ open'[q] = open[q] /\ held'[q] = held[q]
               /\ upserts'[q] = upserts[q] /\ dirty'[q] = dirty[q]
    BY <2>1, <2>3 DEF TypeOK, ControlTypeOK, FlowTypeOK, DeviceTypeOK
  <2>4. /\ pc'[p] = "devices" /\ batch'[p] = open[p] /\ taken'[p] = held[p]
        /\ open'[p] = {} /\ dirty'[p] = {} /\ \A f \in Flows : held'[p][f] = 0
    BY <2>1 DEF TypeOK, ControlTypeOK, FlowTypeOK, DeviceTypeOK, Zero
  <2> QED
    BY <2>1, <2>2, <2>3, <2>4 DEF Emptied
<1>6. ASSUME NEW p \in Pipelines, NEW d \in Devices, NEW accepted, UpsertDevice(p, d, accepted)
      PROVE  Emptied'
  BY <1>6 DEF TypeOK, DeviceTypeOK, Emptied, UpsertDevice, flowVars, alertVars, controlVars
<1>7. ASSUME NEW p \in Pipelines, NEW f \in Flows, NEW accepted, WriteFlow(p, f, accepted)
      PROVE  Emptied'
  BY <1>7 DEF TypeOK, FlowTypeOK, Emptied, WriteFlow, deviceVars, alertVars, controlVars
<1>8. ASSUME NEW p \in Pipelines, NEW found, Analyze(p, found) PROVE Emptied'
  BY <1>8 DEF TypeOK, ControlTypeOK, AlertTypeOK, Emptied, Analyze, Goto, flowVars, deviceVars
<1>9. ASSUME NEW p \in Pipelines, NEW a, NEW accepted, Raise(p, a, accepted) PROVE Emptied'
  BY <1>9 DEF TypeOK, AlertTypeOK, Emptied, Raise, flowVars, deviceVars, controlVars
<1>10. ASSUME NEW p \in Pipelines, FinishFlush(p) PROVE Emptied'
  BY <1>10 DEF TypeOK, ControlTypeOK, Emptied, FinishFlush, Goto, flowVars, deviceVars, alertVars
<1>11. ASSUME Quiet PROVE Emptied'
  BY <1>11 DEF Emptied, flowVars, deviceVars
<1>12. ASSUME \/ \E p \in Pipelines : PacketsEnd(p) \/ Close(p)
              \/ \E d \in Devices : AckDevice(d)
              \/ \E d \in Devices, camera \in BOOLEAN : SetCategory(d, camera)
              \/ UNCHANGED vars
       PROVE  Quiet
  BY <1>12 DEF PacketsEnd, Close, AckDevice, SetCategory, OnlyControl, OnlyStore, vars,
               alertVars, controlVars
<1> HIDE DEF Quiet
<1> QED
  BY <1>1, <1>2, <1>3, <1>4, <1>5, <1>6, <1>7, <1>8, <1>9, <1>10, <1>11, <1>12, StepKinds

-----------------------------------------------------------------------------
(* Every byte of a flow is in exactly one place. *)
BytesOf(p, f) ==
  ingested[p][f] = written[p][f] + refused[p][f] + held[p][f] + taken[p][f] + InEvent(p, f)

LEMMA BytesInit == Init => BytesConserved
BY DEF Init, Zero, BytesConserved, InEvent

LEMMA BytesKept ==
  ASSUME TypeOK, Emptied, BytesConserved, [Next]_vars PROVE BytesConserved'
<1> DEFINE Quiet == UNCHANGED <<flowVars, ingested, written, refused>>
<1> SUFFICES ASSUME NEW q \in Pipelines, NEW g \in Flows PROVE BytesOf(q, g)'
  BY DEF BytesConserved, BytesOf
<1>0. BytesOf(q, g)
  BY DEF BytesConserved, BytesOf
<1>t. /\ \A p \in Pipelines, f \in Flows :
           /\ ingested[p][f] \in Nat /\ written[p][f] \in Nat /\ refused[p][f] \in Nat
           /\ held[p][f] \in Nat /\ taken[p][f] \in Nat
  BY DEF TypeOK, FlowTypeOK, LedgerTypeOK
<1>1. ASSUME NEW p \in Pipelines, NEW f \in Flows, NEW fingerprint, NEW resolved,
             Ingest(p, f, fingerprint, resolved)
      PROVE  BytesOf(q, g)'
  <2>1. pending[p] = {}
    BY <1>1 DEF Emptied, Ingest, Receive
  <2>2. /\ ingested' = [ingested EXCEPT ![p][f] = @ + 1]
        /\ written' = written /\ refused' = refused /\ taken' = taken
    BY <1>1 DEF Ingest, Fold
  <2>3. CASE f \notin open[p] /\ Owner[f] \in cats[p]
    <3>1. held' = held /\ pending' = [pending EXCEPT ![p] = @ \cup {f}]
      BY <1>1, <2>3 DEF Ingest, Fold, TypeOK, FlowTypeOK
    <3> QED
      BY <1>0, <1>t, <2>1, <2>2, <3>1
         DEF BytesOf, InEvent, TypeOK, FlowTypeOK, LedgerTypeOK
  <2>4. CASE ~(f \notin open[p] /\ Owner[f] \in cats[p])
    <3>1. held' = [held EXCEPT ![p][f] = @ + 1] /\ pending' = pending
      BY <1>1, <2>4 DEF Ingest, Fold, TypeOK, FlowTypeOK
    <3> QED
      BY <1>0, <1>t, <2>2, <3>1 DEF BytesOf, InEvent, TypeOK, FlowTypeOK, LedgerTypeOK
  <2> QED
    BY <2>3, <2>4
<1>2. ASSUME NEW p \in Pipelines, NEW f \in Flows, NEW accepted \in BOOLEAN,
             DrainEvent(p, f, accepted)
      PROVE  BytesOf(q, g)'
  BY <1>0, <1>t, <1>2
     DEF BytesOf, InEvent, DrainEvent, InsertConnection, TypeOK, FlowTypeOK, LedgerTypeOK
<1>3. ASSUME NEW p \in Pipelines, NEW f \in Flows, NEW accepted \in BOOLEAN,
             WriteFlow(p, f, accepted)
      PROVE  BytesOf(q, g)'
  BY <1>0, <1>t, <1>3
     DEF BytesOf, InEvent, WriteFlow, InsertConnection, TypeOK, FlowTypeOK, LedgerTypeOK
<1>4. ASSUME NEW p \in Pipelines, NEW final \in BOOLEAN, Flush(p, final)
      PROVE  BytesOf(q, g)'
  <2>1. taken[p][g] = 0
    BY <1>4 DEF Emptied, Flush
  <2> QED
    BY <1>0, <1>t, <1>4, <2>1
       DEF BytesOf, InEvent, Flush, Zero, ledgerVars, TypeOK, FlowTypeOK
<1>5. ASSUME Quiet PROVE BytesOf(q, g)'
  BY <1>0, <1>5 DEF BytesOf, InEvent, flowVars
<1>6. ASSUME \/ \E p \in Pipelines, d \in Devices : Discover(p, d)
             \/ \E p \in Pipelines : Drained(p) \/ FinishFlush(p) \/ PacketsEnd(p) \/ Close(p)
             \/ \E p \in Pipelines, d \in Devices, accepted \in BOOLEAN :
                  UpsertDevice(p, d, accepted)
             \/ \E p \in Pipelines, found \in SUBSET (rows \cup dnsRows) : Analyze(p, found)
             \/ \E p \in Pipelines, a \in Alerts, accepted \in BOOLEAN : Raise(p, a, accepted)
             \/ \E d \in Devices : AckDevice(d)
             \/ \E d \in Devices, camera \in BOOLEAN : SetCategory(d, camera)
             \/ UNCHANGED vars
      PROVE  Quiet
  BY <1>6 DEF Discover, Drained, FinishFlush, PacketsEnd, Close, UpsertDevice, Analyze, Raise,
              AckDevice, SetCategory, OnlyControl, OnlyStore, vars, ledgerVars
<1> HIDE DEF Quiet
<1> QED
  BY <1>1, <1>2, <1>3, <1>4, <1>5, <1>6, StepKinds

(* The bytes of every packet ingested are in a row of the store, in a row  *)
(* it refused, in the running totals, in the batch being written or in a   *)
(* queued event, and in only one of them.                                  *)
THEOREM NoByteLost == Spec => []BytesConserved
<1>1. Init => TypeOK /\ Emptied /\ BytesConserved
  BY InitTypes, EmptiedInit, BytesInit
<1>2. TypeOK /\ Emptied /\ BytesConserved /\ [Next]_vars
        => (TypeOK /\ Emptied /\ BytesConserved)'
  BY TypesKept, EmptiedKept, BytesKept
<1> QED
  BY <1>1, <1>2, PTL DEF Spec

-----------------------------------------------------------------------------
(* Devices: every one seen is registered, due, or was refused. *)
LEMMA DevicesInit == Init => DevicesAccounted
BY DEF Init, DevicesAccounted

LEMMA DevicesKept ==
  ASSUME TypeOK, Emptied, DevicesAccounted, [Next]_vars PROVE DevicesAccounted'
<1> DEFINE Quiet == UNCHANGED <<registered, devices, dirty, upserts, unsaved>>
<1>1. ASSUME NEW p \in Pipelines, NEW d \in Devices, NEW fingerprint \in BOOLEAN,
             SeeDevice(p, d, fingerprint), UNCHANGED <<registered, unsaved>>
      PROVE  DevicesAccounted'
  BY <1>1 DEF SeeDevice, DevicesAccounted, TypeOK, DeviceTypeOK
<1>2. ASSUME NEW p \in Pipelines, NEW final \in BOOLEAN, Flush(p, final)
      PROVE  DevicesAccounted'
  <2>1. upserts[p] = {}
    BY <1>2 DEF Emptied, Flush
  <2> QED
    BY <1>2, <2>1
       DEF Flush, DevicesAccounted, TypeOK, DeviceTypeOK, storeVars, ledgerVars
<1>3. ASSUME NEW p \in Pipelines, NEW d \in Devices, NEW accepted \in BOOLEAN,
             UpsertDevice(p, d, accepted)
      PROVE  DevicesAccounted'
  BY <1>3 DEF UpsertDevice, Register, DevicesAccounted, TypeOK, DeviceTypeOK, LedgerTypeOK
<1>4. ASSUME Quiet PROVE DevicesAccounted'
  BY <1>4 DEF DevicesAccounted
<1>5. ASSUME \/ \E p \in Pipelines : Drained(p) \/ FinishFlush(p) \/ PacketsEnd(p) \/ Close(p)
             \/ \E p \in Pipelines, found \in SUBSET (rows \cup dnsRows) : Analyze(p, found)
             \/ \E p \in Pipelines, a \in Alerts, accepted \in BOOLEAN : Raise(p, a, accepted)
             \/ \E d \in Devices : AckDevice(d)
             \/ \E d \in Devices, camera \in BOOLEAN : SetCategory(d, camera)
             \/ UNCHANGED vars
      PROVE  Quiet
  BY <1>5 DEF Drained, FinishFlush, PacketsEnd, Close, Analyze, Raise, AckDevice, SetCategory,
              OnlyControl, OnlyStore, vars, storeVars, deviceVars, ledgerVars
<1>6. ASSUME NEW p \in Pipelines, NEW f \in Flows, NEW fingerprint \in BOOLEAN, NEW resolved,
             Ingest(p, f, fingerprint, resolved)
      PROVE  DevicesAccounted'
  BY <1>1, <1>6, PipelineAssumption DEF Ingest
<1>7. ASSUME NEW p \in Pipelines, NEW d \in Devices, Discover(p, d) PROVE DevicesAccounted'
  BY <1>1, <1>7 DEF Discover, storeVars, ledgerVars
<1>8. ASSUME NEW p \in Pipelines, NEW f \in Flows, NEW accepted,
             DrainEvent(p, f, accepted) \/ WriteFlow(p, f, accepted)
      PROVE  Quiet
  BY <1>8 DEF DrainEvent, WriteFlow, InsertConnection, deviceVars
<1> HIDE DEF Quiet
<1> QED
  BY <1>2, <1>3, <1>4, <1>5, <1>6, <1>7, <1>8, StepKinds

(* The invariant the theorems about pipelines rest on. *)
PipelineInv == TypeOK /\ Emptied /\ BytesConserved /\ DevicesAccounted

LEMMA PipelineInvariant == Spec => []PipelineInv
<1>1. Init => PipelineInv
  BY InitTypes, EmptiedInit, BytesInit, DevicesInit DEF PipelineInv
<1>2. PipelineInv /\ [Next]_vars => PipelineInv'
  BY TypesKept, EmptiedKept, BytesKept, DevicesKept DEF PipelineInv
<1> QED
  BY <1>1, <1>2, PTL DEF Spec

(* A device that was seen is never forgotten: it is in the registry, due   *)
(* to be written, or its last write was refused.                           *)
THEOREM NoDeviceForgotten == Spec => []DevicesAccounted
BY PipelineInvariant, PTL DEF PipelineInv

(* A pipeline that has returned has offered the store everything it        *)
(* ingested.                                                               *)
THEOREM CloseIsComplete == Spec => []NothingLeftBehind
<1>1. ASSUME PipelineInv PROVE NothingLeftBehind
  <2> SUFFICES ASSUME NEW p \in Pipelines, pc[p] = "done"
               PROVE  /\ \A f \in Flows : ingested[p][f] = written[p][f] + refused[p][f]
                      /\ \A d \in devices[p] : d \in registered \cup unsaved[p]
                      /\ todo[p] = {}
    BY DEF NothingLeftBehind
  <2>1. /\ pending[p] = {} /\ open[p] = {} /\ dirty[p] = {} /\ batch[p] = {}
        /\ upserts[p] = {} /\ todo[p] = {}
        /\ \A f \in Flows : held[p][f] = 0 /\ taken[p][f] = 0
    BY <1>1 DEF PipelineInv, Emptied
  <2>2. ASSUME NEW f \in Flows PROVE ingested[p][f] = written[p][f] + refused[p][f]
    <3>1. ingested[p][f] = written[p][f] + refused[p][f] + held[p][f] + taken[p][f] + InEvent(p, f)
      BY <1>1 DEF PipelineInv, BytesConserved
    <3>2. InEvent(p, f) = 0 /\ held[p][f] = 0 /\ taken[p][f] = 0
      BY <2>1 DEF InEvent
    <3>3. written[p][f] \in Nat /\ refused[p][f] \in Nat
      BY <1>1 DEF PipelineInv, TypeOK, LedgerTypeOK
    <3> QED
      BY <3>1, <3>2, <3>3
  <2> QED
    BY <1>1, <2>1, <2>2 DEF PipelineInv, DevicesAccounted
<1> QED
  BY <1>1, PipelineInvariant, PTL

-----------------------------------------------------------------------------
(* Alerts: one that has been written has been marked. *)
Marked ==
  \A p \in Pipelines, a \in Alerts :
    alerted[p][a] <= 1 /\ (a \notin seenEvents[p] => alerted[p][a] = 0)

(* However often the detectors report the same alert, each pipeline writes *)
(* it once.                                                                *)
THEOREM EachAlertOnce == Spec => []AlertsOnce
<1>1. Init => Marked
  BY DEF Init, Marked
<1>2. ASSUME TypeOK, Marked, [Next]_vars PROVE Marked'
  <2>1. ASSUME NEW p \in Pipelines, NEW a \in Alerts, NEW accepted \in BOOLEAN,
               Raise(p, a, accepted)
        PROVE  Marked'
    BY <1>2, <2>1 DEF Raise, Marked, TypeOK, AlertTypeOK
  <2>2. CASE UNCHANGED <<seenEvents, alerted>>
    BY <1>2, <2>2 DEF Marked
  <2> QED
    BY <1>2, <2>1, <2>2, StepKinds
       DEF vars, alertVars, Ingest, Discover, DrainEvent, WriteFlow, Drained, Flush,
           UpsertDevice, Analyze, FinishFlush, PacketsEnd, Close, OnlyControl, AckDevice,
           SetCategory, OnlyStore
<1>3. Marked => AlertsOnce
  BY DEF Marked, AlertsOnce
<1> QED
  BY <1>1, <1>2, <1>3, PipelineTypes, PTL DEF Spec

-----------------------------------------------------------------------------
(* A flow opened by a known lock or camera is reported or about to be. *)
Reporting ==
  \A p \in Pipelines : \A f \in open[p] :
    Owner[f] \in cats[p] => fired[p][f] > 0 \/ f \in pending[p]

LEMMA ReportingKept ==
  ASSUME TypeOK, Reporting, [Next]_vars PROVE Reporting'
<1> DEFINE Quiet == UNCHANGED <<open, cats, fired, pending>>
<1>1. ASSUME NEW p \in Pipelines, NEW f \in Flows, NEW fingerprint, NEW resolved,
             Ingest(p, f, fingerprint, resolved)
      PROVE  Reporting'
  BY <1>1 DEF Ingest, SeeDevice, Fold, Reporting, TypeOK, FlowTypeOK
<1>2. ASSUME NEW p \in Pipelines, NEW f \in Flows, NEW accepted, DrainEvent(p, f, accepted)
      PROVE  Reporting'
  BY <1>2 DEF DrainEvent, Reporting, TypeOK, FlowTypeOK, LedgerTypeOK, deviceVars
<1>3. ASSUME NEW p \in Pipelines, NEW final, Flush(p, final) PROVE Reporting'
  BY <1>3 DEF Flush, Reporting, TypeOK, FlowTypeOK, DeviceTypeOK, ledgerVars
<1>4. ASSUME Quiet PROVE Reporting'
  BY <1>4 DEF Reporting
<1>5. ASSUME \/ \E p \in Pipelines, d \in Devices : Discover(p, d)
             \/ \E p \in Pipelines : Drained(p) \/ FinishFlush(p) \/ PacketsEnd(p) \/ Close(p)
             \/ \E p \in Pipelines, d \in Devices, accepted \in BOOLEAN :
                  UpsertDevice(p, d, accepted)
             \/ \E p \in Pipelines, f \in Flows, accepted \in BOOLEAN : WriteFlow(p, f, accepted)
             \/ \E p \in Pipelines, found \in SUBSET (rows \cup dnsRows) : Analyze(p, found)
             \/ \E p \in Pipelines, a \in Alerts, accepted \in BOOLEAN : Raise(p, a, accepted)
             \/ \E d \in Devices : AckDevice(d)
             \/ \E d \in Devices, camera \in BOOLEAN : SetCategory(d, camera)
             \/ UNCHANGED vars
      PROVE  Quiet
  BY <1>5 DEF Discover, SeeDevice, Drained, FinishFlush, PacketsEnd, Close, UpsertDevice,
              WriteFlow, Analyze, Raise, AckDevice, SetCategory, OnlyControl, OnlyStore, vars,
              flowVars, deviceVars, ledgerVars
<1> HIDE DEF Quiet
<1> QED
  BY <1>1, <1>2, <1>3, <1>4, <1>5, StepKinds

(* The first packet of a flow of a device known to be a lock or camera has *)
(* been offered to the store before the next packet is looked at.          *)
THEOREM SensitiveFlowsReported == Spec => []ReportedAtOnce
<1>1. Init => Reporting
  BY DEF Init, Reporting
<1>2. TypeOK /\ Reporting /\ [Next]_vars => Reporting'
  BY ReportingKept
<1>3. PipelineInv /\ Reporting => ReportedAtOnce
  BY DEF PipelineInv, Emptied, Reporting, ReportedAtOnce
<1> QED
  BY <1>1, <1>2, <1>3, PipelineInvariant, PipelineTypes, PTL DEF Spec

(* No pipeline makes an acknowledged device new again. *)
THEOREM AcknowledgedStays == Spec => AckSticks
<1>1. ASSUME TypeOK, [Next]_vars PROVE [\A d \in registered \ fresh : d \notin fresh']_vars
  <2>1. ASSUME NEW p \in Pipelines, NEW d \in Devices, NEW accepted \in BOOLEAN,
               UpsertDevice(p, d, accepted)
        PROVE  \A e \in registered \ fresh : e \notin fresh'
    BY <2>1 DEF UpsertDevice, Register
  <2>2. ASSUME NEW d \in Devices, AckDevice(d)
        PROVE  \A e \in registered \ fresh : e \notin fresh'
    BY <2>2 DEF AckDevice
  <2>3. CASE UNCHANGED fresh
    BY <2>3
  <2> QED
    BY <1>1, <2>1, <2>2, <2>3, StepKinds
       DEF vars, storeVars, Ingest, Discover, DrainEvent, WriteFlow, InsertConnection, Drained,
           Flush, Analyze, Raise, FinishFlush, PacketsEnd, Close, OnlyControl, SetCategory,
           OnlyStore
<1> QED
  BY <1>1, PipelineTypes, PTL DEF Spec, AckSticks

(* A pipeline that has returned has lost neither traffic nor a device.     *)
THEOREM ClosingIsWhole == Spec => []CloseIsWhole
BY CloseIsComplete, NoDeviceForgotten, PTL DEF CloseIsWhole

(* Alerts are written once, and a sensitive flow's without delay.          *)
THEOREM AlertsOnTime == Spec => []AlertsInTime
BY EachAlertOnce, SensitiveFlowsReported, PTL DEF AlertsInTime
=============================================================================
