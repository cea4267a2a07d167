----------------------------- MODULE AgentProofs -----------------------------
(***************************************************************************)
(* What the agent's supervisor, the intelligence store and the targeted    *)
(* captures guarantee for any set of interfaces, any number of pipelines,  *)
(* changes and refreshes, any number of sessions and frames, any budget    *)
(* and a file system that may refuse. First the supervisor, then the       *)
(* captures, then the agent made of the two.                               *)
(***************************************************************************)
EXTENDS MCAgent, SequenceTheorems, TLAPS

(* The kinds of step SupNext is made of. *)
LEMMA SupStepKinds ==
  ASSUME SupNext
  PROVE  \/ \E i \in Ifaces, state \in {"absent", "down", "up"}, ebpf \in BOOLEAN :
              LinkChanges(i, state, ebpf)
         \/ RouteMoves
         \/ BootSnapshot \/ BootChoose \/ BootPublish \/ Subscribe
         \/ TakeEvent \/ Install \/ CloseOld \/ WaitForOld \/ Publish
         \/ \E ebpf \in BOOLEAN, p \in Pipes :
              \/ Opens(p, ebpf) /\ GoesTo("bootOpen", "bootWire")
              \/ Opens(p, ebpf) /\ GoesTo("open", "install")
         \/ OpenFails /\ GoesTo("bootOpen", "subscribe")
         \/ OpenFails /\ GoesTo("open", "watch")
         \/ Register("bootWire", "bootPublish")
         \/ Register("wire", "publish")
         \/ \E p \in Pipes : PipelineEnds(p)
         \/ Refresh \/ ReadCallback \/ CallBack
BY DEF SupNext, MainStep, BootOpen, SwapOpen

-----------------------------------------------------------------------------
(* Type correctness, one group of variables at a time. *)
LEMMA BestIsInterface == ASSUME HostTypeOK PROVE Best \subseteq Ifaces \cup {Any}
BY SupAssumption DEF HostTypeOK, Best, Named, Discovered, Up

LEMMA ZeroIsNoPipe == NoPipe \notin Pipes
BY SupAssumption DEF NoPipe, Pipes

LEMMA SupInitTypes == SupInit => SupTypeOK
<1> SUFFICES ASSUME SupInit PROVE SupTypeOK
  OBVIOUS
<1>1. HostTypeOK
  <2>1. route \in Ifaces \cup {NoIface}
    BY DEF SupInit, MayRoute, Up
  <2>2. mode \in {"explicit", "auto"} /\ link \in [Ifaces -> {"absent", "down", "up"}]
    BY DEF SupInit
  <2>3. changes \in 0 .. MaxChanges /\ events \in Nat
    BY SupAssumption DEF SupInit
  <2>4. missed \in BOOLEAN
    BY DEF SupInit
  <2> QED
    BY <2>1, <2>2, <2>3, <2>4 DEF HostTypeOK
<1>2. PipeTypeOK
  BY DEF SupInit, PipeTypeOK, IfaceOrNone
<1>3. MainTypeOK
  BY DEF SupInit, MainTypeOK, IfaceOrNone, PipeOrNone
<1>4. IntelTypeOK
  BY DEF SupInit, IntelTypeOK, PipeOrNone
<1> QED
  BY <1>1, <1>2, <1>3, <1>4 DEF SupTypeOK

LEMMA HostTypes == ASSUME SupTypeOK, [SupNext]_supVars PROVE HostTypeOK'
<1> USE SupAssumption DEF SupTypeOK, HostTypeOK
<1>1. ASSUME NEW i \in Ifaces, NEW state \in {"absent", "down", "up"}, NEW ebpf \in BOOLEAN,
             LinkChanges(i, state, ebpf)
      PROVE  HostTypeOK'
  <2>1. link' \in [Ifaces -> {"absent", "down", "up"}] /\ changes' \in 0 .. MaxChanges
    BY <1>1 DEF LinkChanges
  <2>2. route' \in Ifaces \cup {NoIface}
    BY <1>1 DEF LinkChanges, MayRoute, Up
  <2> QED
    BY <1>1, <2>1, <2>2 DEF LinkChanges
<1>2. ASSUME RouteMoves PROVE HostTypeOK'
  BY <1>2 DEF RouteMoves, MayRoute, Up
<1>3. ASSUME BootChoose \/ TakeEvent PROVE HostTypeOK'
  <2>1. CASE BootChoose
    BY <2>1 DEF BootChoose
  <2>2. CASE TakeEvent
    <3>1. events' \in Nat
      BY <2>2 DEF TakeEvent
    <3> QED
      BY <2>2, <3>1 DEF TakeEvent
  <2> QED
    BY <1>3, <2>1, <2>2
<1>4. ASSUME UNCHANGED hostVars PROVE HostTypeOK'
  BY <1>4 DEF hostVars
<1> HIDE SupAssumption DEF SupTypeOK, HostTypeOK
<1> QED
  BY <1>1, <1>2, <1>3, <1>4, SupStepKinds
     DEF supVars, BootSnapshot, BootPublish, Subscribe, Install, CloseOld, WaitForOld,
         Publish, Opens, OpenFails, Register, PipelineEnds, Refresh, ReadCallback, CallBack

LEMMA PipeTypes == ASSUME SupTypeOK, [SupNext]_supVars PROVE PipeTypeOK'
<1> USE SupAssumption DEF SupTypeOK, PipeTypeOK
<1>1. ASSUME NEW i \in Ifaces, NEW state \in {"absent", "down", "up"}, NEW ebpf \in BOOLEAN,
             LinkChanges(i, state, ebpf)
      PROVE  PipeTypeOK'
  BY <1>1 DEF LinkChanges, Survives
<1>2. ASSUME NEW p \in Pipes, NEW ebpf \in BOOLEAN, Opens(p, ebpf) PROVE PipeTypeOK'
  BY <1>2 DEF Opens, MainTypeOK, IntelTypeOK, Survives, WantedLink
<1>3. ASSUME CloseOld PROVE PipeTypeOK'
  <2>1. closes' \in [Pipes -> Nat]
    BY <1>3 DEF CloseOld, GoesTo, MainTypeOK
  <2> QED
    BY <1>3, <2>1 DEF CloseOld
<1>4. ASSUME NEW p \in Pipes, PipelineEnds(p) PROVE PipeTypeOK'
  BY <1>4 DEF PipelineEnds
<1>5. ASSUME CallBack PROVE PipeTypeOK'
  BY <1>5 DEF CallBack, IntelTypeOK
<1>6. ASSUME UNCHANGED pipeVars PROVE PipeTypeOK'
  BY <1>6 DEF pipeVars
<1> HIDE SupAssumption DEF SupTypeOK, PipeTypeOK
<1> QED
  BY <1>1, <1>2, <1>3, <1>4, <1>5, <1>6, SupStepKinds
     DEF supVars, RouteMoves, BootSnapshot, BootChoose, BootPublish, Subscribe, TakeEvent,
         Install, WaitForOld, Publish, OpenFails, Register, Refresh, ReadCallback

LEMMA MainTypes == ASSUME SupTypeOK, [SupNext]_supVars PROVE MainTypeOK'
<1> USE SupAssumption DEF SupTypeOK, MainTypeOK
<1>1. ASSUME BootSnapshot \/ Subscribe PROVE MainTypeOK'
  BY <1>1 DEF BootSnapshot, Subscribe, GoesTo, IntelTypeOK
<1>2. ASSUME BootChoose PROVE MainTypeOK'
  BY <1>2, BestIsInterface DEF BootChoose, GoesTo, IfaceOrNone
<1>3. ASSUME NEW p \in Pipes, NEW ebpf \in BOOLEAN, Opens(p, ebpf),
             GoesTo("bootOpen", "bootWire") \/ GoesTo("open", "install")
      PROVE  MainTypeOK'
  BY <1>3 DEF Opens, GoesTo, PipeOrNone
<1>4. ASSUME OpenFails, GoesTo("bootOpen", "subscribe") \/ GoesTo("open", "watch")
      PROVE  MainTypeOK'
  BY <1>4 DEF OpenFails, GoesTo
<1>5. ASSUME Register("bootWire", "bootPublish") \/ Register("wire", "publish")
      PROVE  MainTypeOK'
  BY <1>5 DEF Register, GoesTo
<1>6. ASSUME BootPublish \/ Publish PROVE MainTypeOK'
  BY <1>6 DEF BootPublish, Publish, GoesTo, PipeTypeOK, PipeOrNone
<1>7. ASSUME TakeEvent PROVE MainTypeOK'
  BY <1>7, BestIsInterface DEF TakeEvent, IfaceOrNone
<1>8. ASSUME Install PROVE MainTypeOK'
  BY <1>8, ZeroIsNoPipe DEF Install, GoesTo, PipeOrNone
<1>9. ASSUME CloseOld \/ WaitForOld PROVE MainTypeOK'
  BY <1>9 DEF CloseOld, WaitForOld, GoesTo
<1>10. ASSUME UNCHANGED mainVars PROVE MainTypeOK'
  BY <1>10 DEF mainVars
<1> HIDE SupAssumption DEF SupTypeOK, MainTypeOK
<1> QED
  BY <1>1, <1>2, <1>3, <1>4, <1>5, <1>6, <1>7, <1>8, <1>9, <1>10, SupStepKinds
     DEF supVars, LinkChanges, RouteMoves, PipelineEnds, Refresh, ReadCallback, CallBack

LEMMA IntelTypes == ASSUME SupTypeOK, [SupNext]_supVars PROVE IntelTypeOK'
<1> USE SupAssumption DEF SupTypeOK, IntelTypeOK
<1>1. ASSUME Register("bootWire", "bootPublish") \/ Register("wire", "publish")
      PROVE  IntelTypeOK'
  BY <1>1 DEF Register, MainTypeOK
<1>2. ASSUME Refresh \/ ReadCallback \/ CallBack PROVE IntelTypeOK'
  BY <1>2 DEF Refresh, ReadCallback, CallBack, PipeOrNone
<1>3. ASSUME UNCHANGED intelVars PROVE IntelTypeOK'
  BY <1>3 DEF intelVars
<1> HIDE SupAssumption DEF SupTypeOK, IntelTypeOK
<1> QED
  BY <1>1, <1>2, <1>3, SupStepKinds
     DEF supVars, LinkChanges, RouteMoves, BootSnapshot, BootChoose, BootPublish, Subscribe,
         TakeEvent, Install, CloseOld, WaitForOld, Publish, Opens, OpenFails, PipelineEnds

(* Every variable of the supervisor keeps its type, and a step that uses a *)
(* pipeline has one to use.                                                *)
THEOREM SupervisorTypes == SupSpec => []SupTypeOK
<1>1. SupTypeOK /\ [SupNext]_supVars => SupTypeOK'
  BY HostTypes, PipeTypes, MainTypes, IntelTypes DEF SupTypeOK
<1> QED
  BY <1>1, SupInitTypes, PTL DEF SupSpec

-----------------------------------------------------------------------------
(* What the goroutine holds at each place: the pipeline it has opened is   *)
(* not the current one until the lock section that makes it so, and only   *)
(* the one it replaced is ever closed.                                     *)
SwapOK ==
  /\ current # NoPipe => pstate[current] # "none" /\ closes[current] = 0
  /\ pc \in {"boot", "bootChoose", "bootOpen"} =>
       current = NoPipe /\ \A p \in Pipes : pstate[p] = "none"
  /\ pc \in {"bootWire", "bootPublish", "install"} =>
       opened # current /\ pstate[opened] # "none" /\ closes[opened] = 0
  /\ pc \in {"bootWire", "bootPublish"} => current = NoPipe
  /\ pc \in {"close", "wait", "wire", "publish"} => current = opened
  /\ pc \in {"close", "wait"} => old # current /\ pstate[old] # "none"
  /\ pc = "close" => closes[old] = 0
  /\ \A p \in Pipes : pstate[p] = "none" => closes[p] = 0

SwapInv == SupTypeOK /\ SwapOK /\ OneCapture /\ ClosedOnce

(* Opening a pipeline is a step of the plan: the new one is nobody's yet.  *)
LEMMA OpensSwap ==
  ASSUME SwapInv, NEW p \in Pipes, NEW ebpf \in BOOLEAN, Opens(p, ebpf),
         GoesTo("bootOpen", "bootWire") \/ GoesTo("open", "install")
  PROVE  SwapOK' /\ OneCapture' /\ ClosedOnce'
<1>1. SwapOK'
  BY ZeroIsNoPipe
     DEF SwapInv, SupTypeOK, PipeTypeOK, MainTypeOK, PipeOrNone, SwapOK, Opens, GoesTo
<1>2. OneCapture'
  BY ZeroIsNoPipe
     DEF SwapInv, SupTypeOK, PipeTypeOK, MainTypeOK, PipeOrNone, SwapOK, OneCapture, Opens, GoesTo
<1>3. ClosedOnce'
  BY ZeroIsNoPipe
     DEF SwapInv, SupTypeOK, PipeTypeOK, MainTypeOK, PipeOrNone, SwapOK, ClosedOnce, Opens, GoesTo
<1> QED
  BY <1>1, <1>2, <1>3

LEMMA SwapStep == ASSUME SwapInv, [SupNext]_supVars PROVE SwapOK' /\ OneCapture' /\ ClosedOnce'
<1> USE ZeroIsNoPipe
    DEF SwapInv, SupTypeOK, PipeTypeOK, MainTypeOK, PipeOrNone, SwapOK, OneCapture, ClosedOnce
<1>1. ASSUME OpenFails, GoesTo("bootOpen", "subscribe") \/ GoesTo("open", "watch")
      PROVE  SwapOK' /\ OneCapture' /\ ClosedOnce'
  BY <1>1 DEF OpenFails, GoesTo, pipeVars
<1>2. ASSUME Register("bootWire", "bootPublish") \/ Register("wire", "publish")
      PROVE  SwapOK' /\ OneCapture' /\ ClosedOnce'
  BY <1>2 DEF Register, GoesTo, pipeVars
<1>3. ASSUME BootSnapshot \/ BootChoose \/ BootPublish \/ Subscribe \/ Publish
      PROVE  SwapOK' /\ OneCapture' /\ ClosedOnce'
  BY <1>3 DEF BootSnapshot, BootChoose, BootPublish, Subscribe, Publish, GoesTo, pipeVars
<1>4. ASSUME TakeEvent PROVE SwapOK' /\ OneCapture' /\ ClosedOnce'
  BY <1>4 DEF TakeEvent, pipeVars
<1>5. ASSUME Install PROVE SwapOK' /\ OneCapture' /\ ClosedOnce'
  BY <1>5 DEF Install, GoesTo, pipeVars
<1>6. ASSUME CloseOld PROVE SwapOK' /\ OneCapture' /\ ClosedOnce'
  BY <1>6 DEF CloseOld, GoesTo
<1>7. ASSUME WaitForOld PROVE SwapOK' /\ OneCapture' /\ ClosedOnce'
  BY <1>7 DEF WaitForOld, GoesTo, pipeVars
<1>8. ASSUME NEW p \in Pipes, PipelineEnds(p) PROVE SwapOK' /\ OneCapture' /\ ClosedOnce'
  BY <1>8 DEF PipelineEnds, mainVars
<1>9. ASSUME UNCHANGED <<pstate, closes, mainVars>> PROVE SwapOK' /\ OneCapture' /\ ClosedOnce'
  BY <1>9 DEF mainVars
<1> HIDE ZeroIsNoPipe
    DEF SwapInv, SupTypeOK, PipeTypeOK, MainTypeOK, PipeOrNone, SwapOK, OneCapture, ClosedOnce
<1>10. ASSUME \/ \E i \in Ifaces, state \in {"absent", "down", "up"}, ebpf \in BOOLEAN :
                   LinkChanges(i, state, ebpf)
              \/ RouteMoves \/ Refresh \/ ReadCallback \/ CallBack \/ UNCHANGED supVars
       PROVE  UNCHANGED <<pstate, closes, mainVars>>
  BY <1>10 DEF supVars, pipeVars, LinkChanges, RouteMoves, Refresh, ReadCallback, CallBack
<1>11. ASSUME NEW p \in Pipes, NEW ebpf \in BOOLEAN, Opens(p, ebpf),
              GoesTo("bootOpen", "bootWire") \/ GoesTo("open", "install")
       PROVE  SwapOK' /\ OneCapture' /\ ClosedOnce'
  BY <1>11, OpensSwap
<1> QED
  BY <1>1, <1>2, <1>3, <1>4, <1>5, <1>6, <1>7, <1>8, <1>9, <1>10, <1>11, SupStepKinds

LEMMA SwapAlways == SupSpec => []SwapInv
<1>1. SupInit => SwapInv
  BY SupInitTypes, ZeroIsNoPipe
     DEF SupInit, SwapInv, SwapOK, OneCapture, ClosedOnce, NoPipe, Pipes
<1>2. SwapInv /\ [SupNext]_supVars => SwapInv'
  BY SwapStep, HostTypes, PipeTypes, MainTypes, IntelTypes DEF SwapInv, SupTypeOK
<1> QED
  BY <1>1, <1>2, PTL DEF SupSpec

(* A swap never leaves two captures running that write to the store, but   *)
(* for the time the old one takes to close.                                *)
THEOREM NeverTwoCaptures == SupSpec => []OneCapture
  BY SwapAlways, PTL DEF SwapInv

(* However often interfaces come and go, no pipeline is closed twice and   *)
(* none while it is the current one.                                       *)
THEOREM NoDoubleClose == SupSpec => []ClosedOnce
  BY SwapAlways, PTL DEF SwapInv

(* A capture is handed over whole, however interfaces come and go.         *)
THEOREM HandoverIsClean == SupSpec => []HandedOver
  BY NeverTwoCaptures, NoDoubleClose, PTL DEF HandedOver

-----------------------------------------------------------------------------
(* The callback registered is that of the current pipeline but for the     *)
(* part of a swap in between, and a call under way that is not for it      *)
(* brings nothing that was not there when it was registered.               *)
RegisteredOK ==
  /\ onUpdate # NoPipe => pstate[onUpdate] # "none"
  /\ tpc = "idle" /\ onUpdate # NoPipe => intel[onUpdate] = round \/ atRegister = round
  /\ tpc = "calling" => target = onUpdate \/ atRegister = round
  /\ pc \in {"boot", "bootChoose", "bootOpen", "subscribe", "watch", "open", "install"} =>
       onUpdate = current
  /\ pc \in {"bootPublish", "publish"} => onUpdate = opened

RegisteredInv == SwapInv /\ RegisteredOK

LEMMA RegisteredStep == ASSUME RegisteredInv, [SupNext]_supVars PROVE RegisteredOK'
<1> USE ZeroIsNoPipe
    DEF RegisteredInv, SwapInv, SupTypeOK, PipeTypeOK, MainTypeOK, IntelTypeOK, PipeOrNone,
        SwapOK, RegisteredOK
<1>1. ASSUME NEW p \in Pipes, NEW ebpf \in BOOLEAN, Opens(p, ebpf),
             GoesTo("bootOpen", "bootWire") \/ GoesTo("open", "install")
      PROVE  RegisteredOK'
  BY <1>1 DEF Opens, GoesTo, intelVars
<1>2. ASSUME OpenFails, GoesTo("bootOpen", "subscribe") \/ GoesTo("open", "watch")
      PROVE  RegisteredOK'
  BY <1>2 DEF OpenFails, GoesTo, pipeVars, intelVars
<1>3. ASSUME Register("bootWire", "bootPublish") \/ Register("wire", "publish")
      PROVE  RegisteredOK'
  BY <1>3 DEF Register, GoesTo, pipeVars
<1>4. ASSUME BootSnapshot \/ BootChoose \/ BootPublish \/ Subscribe \/ Publish
      PROVE  RegisteredOK'
  BY <1>4 DEF BootSnapshot, BootChoose, BootPublish, Subscribe, Publish, GoesTo, pipeVars, intelVars
<1>5. ASSUME TakeEvent PROVE RegisteredOK'
  BY <1>5 DEF TakeEvent, pipeVars, intelVars
<1>6. ASSUME Install \/ CloseOld \/ WaitForOld PROVE RegisteredOK'
  BY <1>6 DEF Install, CloseOld, WaitForOld, GoesTo, pipeVars, intelVars
<1>7. ASSUME NEW p \in Pipes, PipelineEnds(p) PROVE RegisteredOK'
  BY <1>7 DEF PipelineEnds, mainVars, intelVars
<1>8. ASSUME Refresh \/ ReadCallback \/ CallBack PROVE RegisteredOK'
  BY <1>8 DEF Refresh, ReadCallback, CallBack, mainVars, pipeVars
<1>9. ASSUME UNCHANGED <<pstate, intel, mainVars, intelVars>> PROVE RegisteredOK'
  BY <1>9 DEF mainVars, intelVars
<1> HIDE ZeroIsNoPipe
    DEF RegisteredInv, SwapInv, SupTypeOK, PipeTypeOK, MainTypeOK, IntelTypeOK, PipeOrNone,
        SwapOK, RegisteredOK
<1>10. ASSUME \/ \E i \in Ifaces, state \in {"absent", "down", "up"}, ebpf \in BOOLEAN :
                   LinkChanges(i, state, ebpf)
              \/ RouteMoves \/ UNCHANGED supVars
       PROVE  UNCHANGED <<pstate, intel, mainVars, intelVars>>
  BY <1>10 DEF supVars, pipeVars, LinkChanges, RouteMoves
<1> QED
  BY <1>1, <1>2, <1>3, <1>4, <1>5, <1>6, <1>7, <1>8, <1>9, <1>10, SupStepKinds

(* When no swap is under way and the refresh loop rests, the pipeline at   *)
(* work has the latest intelligence that ended since it was registered.    *)
THEOREM IntelligenceArrives == SupSpec => []CurrentHasLatest
<1>1. SupInit => RegisteredOK
  BY DEF SupInit, RegisteredOK
<1>2. SwapInv /\ RegisteredOK /\ [SupNext]_supVars => RegisteredOK'
  BY RegisteredStep DEF RegisteredInv
<1>3. RegisteredOK => CurrentHasLatest
  BY DEF RegisteredOK, CurrentHasLatest
<1> QED
  BY <1>1, <1>2, <1>3, SwapAlways, PTL DEF SupSpec

-----------------------------------------------------------------------------
(* Nothing the supervisor has not been told of has changed since it chose. *)
Quiet == events = 0 /\ ~missed

(* As long as nothing changes, a swap under way goes to the best interface *)
(* and what is shown is what is captured.                                  *)
BestOK ==
  /\ Quiet => /\ pc \in {"bootOpen", "open"} => want \in Best
              /\ pc \in {"bootWire", "bootPublish", "install", "close", "wait", "wire", "publish"} =>
                   iface[opened] \in Best
              /\ pc \in {"subscribe", "watch"} /\ ~refused =>
                   current # NoPipe /\ iface[current] \in Best
  /\ pc \in {"subscribe", "watch", "open"} /\ current # NoPipe => badge = iface[current]

LEMMA BestUnchanged == ASSUME UNCHANGED <<mode, link, route>> PROVE Best' = Best
BY DEF Best, Named, Discovered, Up

LEMMA BestStep == ASSUME SwapInv, BestOK, [SupNext]_supVars PROVE BestOK'
<1> USE ZeroIsNoPipe
    DEF SwapInv, SupTypeOK, HostTypeOK, PipeTypeOK, MainTypeOK, PipeOrNone, SwapOK, BestOK, Quiet
<1>1. ASSUME NEW p \in Pipes, NEW ebpf \in BOOLEAN, Opens(p, ebpf),
             GoesTo("bootOpen", "bootWire") \/ GoesTo("open", "install")
      PROVE  BestOK'
  BY <1>1, BestUnchanged DEF Opens, GoesTo, hostVars
<1>2. ASSUME OpenFails, GoesTo("bootOpen", "subscribe") \/ GoesTo("open", "watch")
      PROVE  BestOK'
  BY <1>2, BestUnchanged DEF OpenFails, GoesTo, pipeVars, hostVars
<1>3. ASSUME Register("bootWire", "bootPublish") \/ Register("wire", "publish")
      PROVE  BestOK'
  BY <1>3, BestUnchanged DEF Register, GoesTo, pipeVars, hostVars
<1>4. ASSUME BootSnapshot \/ BootPublish \/ Subscribe \/ Publish PROVE BestOK'
  BY <1>4, BestUnchanged DEF BootSnapshot, BootPublish, Subscribe, Publish, GoesTo, pipeVars, hostVars
<1>5. ASSUME BootChoose PROVE BestOK'
  BY <1>5, BestUnchanged DEF BootChoose, GoesTo, pipeVars
<1>6. ASSUME TakeEvent PROVE BestOK'
  BY <1>6, BestUnchanged DEF TakeEvent, pipeVars
<1>7. ASSUME Install \/ CloseOld \/ WaitForOld PROVE BestOK'
  BY <1>7, BestUnchanged DEF Install, CloseOld, WaitForOld, GoesTo, pipeVars, hostVars
<1>8. ASSUME NEW i \in Ifaces, NEW state \in {"absent", "down", "up"}, NEW ebpf \in BOOLEAN,
             LinkChanges(i, state, ebpf)
      PROVE  BestOK'
  <2>1. ~Quiet'
    <3>1. CASE Watching
      <4>1. events' = events + 1
        BY <1>8, <3>1 DEF LinkChanges
      <4> QED
        BY <4>1
    <3>2. CASE ~Watching
      BY <1>8, <3>2 DEF LinkChanges
    <3> QED
      BY <3>1, <3>2
  <2>2. UNCHANGED <<iface, mainVars>>
    BY <1>8 DEF LinkChanges
  <2> QED
    BY <2>1, <2>2 DEF mainVars
<1>9. ASSUME RouteMoves PROVE BestOK'
  BY <1>9 DEF RouteMoves, mainVars, pipeVars
<1>10. ASSUME UNCHANGED <<hostVars, iface, mainVars>> PROVE BestOK'
  BY <1>10, BestUnchanged DEF hostVars, mainVars
<1> HIDE ZeroIsNoPipe
    DEF SwapInv, SupTypeOK, HostTypeOK, PipeTypeOK, MainTypeOK, PipeOrNone, SwapOK, BestOK, Quiet
<1>11. ASSUME \/ \E p \in Pipes : PipelineEnds(p)
              \/ Refresh \/ ReadCallback \/ CallBack \/ UNCHANGED supVars
       PROVE  UNCHANGED <<hostVars, iface, mainVars>>
  BY <1>11 DEF supVars, pipeVars, PipelineEnds, Refresh, ReadCallback, CallBack
<1> QED
  BY <1>1, <1>2, <1>3, <1>4, <1>5, <1>6, <1>7, <1>8, <1>9, <1>10, <1>11, SupStepKinds

(* When every notification has been handled and nothing has changed        *)
(* without one, the capture is on an interface captureIface would choose.  *)
THEOREM BestIsCaptured == SupSpec => []OnBestWhenQuiet
<1>1. SupInit => BestOK
  BY DEF SupInit, BestOK
<1>2. SwapInv /\ BestOK /\ [SupNext]_supVars => BestOK'
  BY BestStep
<1>3. BestOK => OnBestWhenQuiet
  BY DEF BestOK, Quiet, OnBestWhenQuiet
<1> QED
  BY <1>1, <1>2, <1>3, SwapAlways, PTL DEF SupSpec

-----------------------------------------------------------------------------
(* Targeted captures.                                                      *)
Content(r) == r.disk \o r.buf

-----------------------------------------------------------------------------
(* Sequences: what concatenation does with a buffer that is drained. *)
LEMMA Associative ==
  \A a, b, c \in Seq(FrameRecord) : (a \o b) \o c = a \o (b \o c)
<1> SUFFICES ASSUME NEW a \in Seq(FrameRecord), NEW b \in Seq(FrameRecord),
                    NEW c \in Seq(FrameRecord)
             PROVE  (a \o b) \o c = a \o (b \o c)
  OBVIOUS
<1> DEFINE x == (a \o b) \o c
           y == a \o (b \o c)
<1>1. Len(a) \in Nat /\ Len(b) \in Nat /\ Len(c) \in Nat
  OBVIOUS
<1>2. /\ a \o b \in Seq(FrameRecord) /\ Len(a \o b) = Len(a) + Len(b)
      /\ b \o c \in Seq(FrameRecord) /\ Len(b \o c) = Len(b) + Len(c)
  OBVIOUS
<1>3. x \in Seq(FrameRecord) /\ Len(x) = Len(a) + Len(b) + Len(c)
  BY <1>1, <1>2
<1>4. y \in Seq(FrameRecord) /\ Len(y) = Len(a) + Len(b) + Len(c)
  BY <1>1, <1>2
<1>5. ASSUME NEW i \in 1 .. Len(x)
      PROVE  x[i] = y[i]
  BY <1>1, <1>2, <1>3, <1>5, SMTT(30)
<1> HIDE DEF x, y
<1>6. x = y
  BY <1>3, <1>4, <1>5, SeqEqual
<1> QED
  BY <1>6 DEF x, y

LEMMA Rejoined ==
  ASSUME NEW b \in Seq(FrameRecord), NEW n \in 0 .. Len(b)
  PROVE  SubSeq(b, 1, n) \o SubSeq(b, n + 1, Len(b)) = b
<1> DEFINE x == SubSeq(b, 1, n)
           y == SubSeq(b, n + 1, Len(b))
<1>1. Len(b) \in Nat /\ n \in Nat /\ \A i \in 1 .. Len(b) : b[i] \in FrameRecord
  OBVIOUS
<1>2. x \in Seq(FrameRecord) /\ Len(x) = n /\ \A i \in 1 .. n : x[i] = b[i]
  BY <1>1
<1>3. /\ y \in Seq(FrameRecord) /\ Len(y) = Len(b) - n
      /\ \A i \in 1 .. Len(b) - n : y[i] = b[n + i]
  BY <1>1
<1> HIDE DEF x, y
<1>4. x \o y \in Seq(FrameRecord) /\ Len(x \o y) = Len(b)
  BY <1>1, <1>2, <1>3
<1>5. ASSUME NEW i \in 1 .. Len(x \o y)
      PROVE  (x \o y)[i] = b[i]
  <2>1. CASE i <= n
    BY <1>1, <1>2, <1>3, <1>4, <2>1
  <2>2. CASE i > n
    <3>1. i - n \in 1 .. Len(b) - n /\ n + (i - n) = i
      BY <1>1, <1>4, <2>2
    <3>2. (x \o y)[i] = y[i - n]
      BY <1>1, <1>2, <1>3, <1>4, <2>2
    <3> QED
      BY <1>3, <3>1, <3>2
  <2> QED
    BY <1>1, <1>4, <2>1, <2>2
<1>6. x \o y = b
  BY <1>4, <1>5, SeqEqual
<1> QED
  BY <1>6 DEF x, y

LEMMA AppendedLast ==
  \A a, b \in Seq(FrameRecord), e \in FrameRecord : a \o Append(b, e) = Append(a \o b, e)
OBVIOUS

-----------------------------------------------------------------------------
(* Buffered and written records stay one sequence while the buffer drains. *)
LEMMA DrainedRecord ==
  ASSUME NEW r \in SessionRecord, NEW n \in 0 .. Len(r.buf)
  PROVE  /\ Drained(r, n) \in SessionRecord
         /\ Content(Drained(r, n)) = Content(r)
         /\ Drained(r, n).torn \/ Drained(r, n).buf = <<>>
<1> DEFINE sent == SubSeq(r.buf, 1, n)
           kept == SubSeq(r.buf, n + 1, Len(r.buf))
<1>1. r.disk \in Seq(FrameRecord) /\ r.buf \in Seq(FrameRecord)
  BY DEF SessionRecord
<1>2. Len(r.buf) \in Nat /\ \A i \in 1 .. Len(r.buf) : r.buf[i] \in FrameRecord
  BY <1>1, LenProperties, ElementOfSeq
<1>3. sent \in Seq(FrameRecord)
  BY <1>2, SubSeqProperties
<1>4. kept \in Seq(FrameRecord)
  BY <1>2, SubSeqProperties
<1>5. sent \o kept = r.buf
  BY <1>1, Rejoined
<1>6. (r.disk \o sent) \o kept = r.disk \o r.buf
  <2> HIDE DEF sent, kept
  <2>1. (r.disk \o sent) \o kept = r.disk \o (sent \o kept)
    BY <1>1, <1>3, <1>4, Associative, Zenon
  <2> QED
    BY <1>5, <2>1
<1>7. r.disk \o sent \in Seq(FrameRecord)
  BY <1>1, <1>3, ConcatProperties
<1>8. n = Len(r.buf) => kept = <<>>
  BY <1>2, SubSeqEmpty
<1>9. Drained(r, n) = [r EXCEPT !.disk = r.disk \o sent, !.buf = kept,
                                !.torn = r.torn \/ n < Len(r.buf)]
  BY DEF Drained
<1>10. r.torn \in BOOLEAN /\ (n < Len(r.buf)) \in BOOLEAN
  BY <1>2 DEF SessionRecord
<1> HIDE DEF sent, kept
<1>11. /\ Drained(r, n).disk = r.disk \o sent /\ Drained(r, n).buf = kept
       /\ Drained(r, n).torn = (r.torn \/ n < Len(r.buf))
  BY <1>9 DEF SessionRecord
<1>12. Drained(r, n) \in SessionRecord
  BY <1>4, <1>7, <1>9, <1>10 DEF SessionRecord
<1>13. Content(Drained(r, n)) = Content(r)
  BY <1>6, <1>11 DEF Content
<1>14. CASE n = Len(r.buf)
  BY <1>8, <1>11, <1>12, <1>13, <1>14
<1>15. CASE n < Len(r.buf)
  BY <1>11, <1>12, <1>13, <1>15
<1> QED
  BY <1>2, <1>14, <1>15

(* Closing keeps what was captured, marks the session done, and leaves     *)
(* something in the buffer only when the file system refused it.           *)
Same(r, q) == /\ q.step = r.step /\ q.budget = r.budget
              /\ q.bytes = r.bytes /\ q.packets = r.packets
              /\ Content(q) = Content(r)

LEMMA ClosedRecord ==
  ASSUME NEW r \in SessionRecord, NEW failed \in BOOLEAN, NEW q \in CloseLocked(r, failed)
  PROVE  /\ q \in SessionRecord /\ q.done /\ Same(r, q)
         /\ r.done => q = r
         /\ ~r.done => q.torn \/ q.buf = <<>>
<1>1. CASE r.done
  BY <1>1 DEF CloseLocked, Same
<1>2. CASE ~r.done
  <2>1. PICK f \in FinalFlush(r) :
          q = [f EXCEPT !.done = TRUE, !.failed = failed,
                        !.timer = IF r.step # "armed" /\ @ = "armed" THEN "gone" ELSE @]
    BY <1>2 DEF CloseLocked, Closing
  <2>2. f \in SessionRecord /\ Same(r, f) /\ (f.torn \/ f.buf = <<>>)
    <3>1. CASE r.torn
      BY <2>1, <3>1 DEF FinalFlush, Same
    <3>2. CASE ~r.torn
      <4>1. PICK n \in 0 .. Len(r.buf) : f = Drained(r, n)
        BY <2>1, <3>2 DEF FinalFlush
      <4>2. /\ f.step = r.step /\ f.budget = r.budget
            /\ f.bytes = r.bytes /\ f.packets = r.packets
        BY <4>1 DEF Drained, SessionRecord
      <4> QED
        BY <4>1, <4>2, DrainedRecord DEF Same
    <3> QED
      BY <3>1, <3>2
  <2>3. q \in SessionRecord
    BY <2>1, <2>2 DEF SessionRecord
  <2>4. q.done /\ q.disk = f.disk /\ q.buf = f.buf /\ q.torn = f.torn
    BY <2>1, <2>2 DEF SessionRecord
  <2>5. Same(r, q)
    BY <2>1, <2>2, <2>4 DEF Same, Content, SessionRecord
  <2> QED
    BY <1>2, <2>2, <2>3, <2>4, <2>5
<1> QED
  BY <1>1, <1>2

(* A record written is the last of what was captured so far. *)
LEMMA RecordedRecord ==
  ASSUME NEW r \in SessionRecord, NEW rec \in FrameRecord, NEW q \in Recorded(r, rec)
  PROVE  /\ q \in SessionRecord
         /\ q.step = r.step /\ q.budget = r.budget /\ q.done = r.done /\ q.torn = r.torn
         /\ q.bytes = r.bytes + rec.size /\ q.packets = r.packets + 1
         /\ Content(q) = Append(Content(r), rec)
<1>1. PICK x \in {r, Drained(r, Len(r.buf))} :
        q = [x EXCEPT !.buf = Append(@, rec), !.packets = @ + 1, !.bytes = @ + rec.size]
  BY DEF Recorded
<1>2. Len(r.buf) \in Nat
  BY LenProperties DEF SessionRecord
<1>3. /\ x \in SessionRecord /\ Same(r, x) /\ x.done = r.done /\ x.torn = r.torn
  <2>1. CASE x = r
    BY <2>1 DEF Same
  <2>2. CASE x = Drained(r, Len(r.buf))
    <3>1. x \in SessionRecord /\ Content(x) = Content(r)
      BY <1>2, <2>2, DrainedRecord
    <3>2. x.torn = r.torn
      BY <1>2, <2>2 DEF Drained, SessionRecord
    <3> QED
      BY <1>2, <2>2, <3>1, <3>2 DEF Drained, SessionRecord, Same
  <2> QED
    BY <1>1, <2>1, <2>2
<1>4. x.disk \in Seq(FrameRecord) /\ x.buf \in Seq(FrameRecord)
  BY <1>3 DEF SessionRecord
<1>5. rec.size \in Nat
  BY TcapAssumption DEF FrameRecord
<1>6. Append(x.buf, rec) \in Seq(FrameRecord)
  BY <1>4, AppendProperties
<1>7. q \in SessionRecord
  <2>1. x.bytes + rec.size \in Nat /\ x.packets + 1 \in Nat
    BY <1>3, <1>5 DEF SessionRecord
  <2> QED
    BY <1>1, <1>3, <1>6, <2>1 DEF SessionRecord
<1>8. /\ q.disk = x.disk /\ q.buf = Append(x.buf, rec)
      /\ q.packets = x.packets + 1 /\ q.bytes = x.bytes + rec.size
      /\ q.step = x.step /\ q.budget = x.budget /\ q.done = x.done /\ q.torn = x.torn
  BY <1>1, <1>3 DEF SessionRecord
<1>9. x.disk \o Append(x.buf, rec) = Append(x.disk \o x.buf, rec)
  BY <1>4, AppendedLast, Zenon
<1> QED
  BY <1>3, <1>7, <1>8, <1>9 DEF Same, Content

(* A record refused costs nothing that was captured. *)
LEMMA RefusedRecord ==
  ASSUME NEW r \in SessionRecord, NEW q \in WriteRefused(r)
  PROVE  q \in SessionRecord /\ Same(r, q) /\ q.done = r.done /\ q.torn
<1>1. PICK n \in 0 .. Len(r.buf) : q = [Drained(r, n) EXCEPT !.torn = TRUE]
  BY DEF WriteRefused
<1>2. Drained(r, n) \in SessionRecord /\ Content(Drained(r, n)) = Content(r)
  BY DrainedRecord
<1>3. q \in SessionRecord /\ q.torn
  BY <1>1, <1>2 DEF SessionRecord
<1>4. q.disk = Drained(r, n).disk /\ q.buf = Drained(r, n).buf
  BY <1>1, <1>2 DEF SessionRecord
<1>5. /\ q.step = r.step /\ q.budget = r.budget /\ q.bytes = r.bytes
      /\ q.packets = r.packets /\ q.done = r.done
  BY <1>1 DEF Drained, SessionRecord
<1> QED
  BY <1>2, <1>3, <1>4, <1>5 DEF Same, Content

-----------------------------------------------------------------------------
(* What is true of every session at any time. *)
LargestFrame(f) == f \in FrameSizes /\ \A g \in FrameSizes : g <= f

Sound(r) ==
  /\ r.step = "none" => r.timer = "off" /\ ~r.done /\ r.bytes = 0
  /\ r.step # "none" /\ ~r.done => r.bytes < r.budget
  /\ \A f : LargestFrame(f) => r.bytes < r.budget + f
  /\ r.torn => r.done
  /\ Len(Content(r)) = r.packets
  /\ r.done /\ ~r.torn => r.buf = <<>>

(* Ending an open session, by its timer or by its budget. *)
LEMMA ClosedSound ==
  ASSUME NEW r \in SessionRecord, NEW failed \in BOOLEAN, NEW q \in CloseLocked(r, failed),
         r.step # "none",
         Len(Content(r)) = r.packets,
         \A f : LargestFrame(f) => r.bytes < r.budget + f,
         r.done => Sound(r)
  PROVE  q \in SessionRecord /\ q.done /\ Same(r, q) /\ Sound(q)
<1>1. /\ q \in SessionRecord /\ q.done /\ Same(r, q)
      /\ r.done => q = r
      /\ ~r.done => q.torn \/ q.buf = <<>>
  BY ClosedRecord
<1> QED
  BY <1>1 DEF Sound, Same

(* A frame handed to an open session: recorded, or refused and the end.    *)
LEMMA FedSound ==
  ASSUME NEW r \in SessionRecord, NEW rec \in FrameRecord, NEW q \in Fed(r, rec),
         Sound(r), ~r.done, r.step # "none"
  PROVE  /\ q \in SessionRecord /\ Sound(q) /\ q.step = r.step
         /\ \/ Content(q) = Append(Content(r), rec)
            \/ q.done /\ Content(q) = Content(r)
<1>1. r.bytes \in Nat /\ r.budget \in Nat /\ r.packets \in Nat
  BY TcapAssumption DEF SessionRecord
<1>2. rec.size \in Nat /\ \A f : LargestFrame(f) => f \in Nat /\ rec.size <= f
  BY TcapAssumption DEF FrameRecord, LargestFrame
<1>3. Content(r) \in Seq(FrameRecord)
  BY ConcatProperties DEF Content, SessionRecord
<1>4. ASSUME NEW x \in Recorded(r, rec),
             q \in IF x.bytes >= x.budget THEN CloseLocked(x, FALSE) ELSE {x}
      PROVE  /\ q \in SessionRecord /\ Sound(q) /\ q.step = r.step
             /\ Content(q) = Append(Content(r), rec)
  <2>1. /\ x \in SessionRecord
        /\ x.step = r.step /\ x.budget = r.budget /\ x.done = r.done /\ x.torn = r.torn
        /\ x.bytes = r.bytes + rec.size /\ x.packets = r.packets + 1
        /\ Content(x) = Append(Content(r), rec)
    BY RecordedRecord
  <2>2. Len(Content(x)) = x.packets
    BY <1>3, <2>1, AppendProperties DEF Sound
  <2>3. \A f : LargestFrame(f) => x.bytes < x.budget + f
    BY <1>1, <1>2, <2>1 DEF Sound
  <2>4. CASE x.bytes >= x.budget
    <3>1. q \in CloseLocked(x, FALSE)
      BY <1>4, <2>4
    <3>2. ~x.done /\ x.step # "none"
      BY <2>1
    <3>3. q \in SessionRecord /\ Same(x, q) /\ Sound(q)
      BY <2>1, <2>2, <2>3, <3>1, <3>2, ClosedSound
    <3> QED
      BY <2>1, <3>3 DEF Same
  <2>5. CASE ~(x.bytes >= x.budget)
    <3>1. q = x
      BY <1>4, <2>5
    <3>2. x.bytes < x.budget
      BY <1>1, <1>2, <2>1, <2>5
    <3> QED
      BY <2>1, <2>2, <2>3, <3>1, <3>2 DEF Sound
  <2> QED
    BY <2>4, <2>5
<1>5. ASSUME NEW x \in WriteRefused(r), q \in CloseLocked(x, TRUE)
      PROVE  /\ q \in SessionRecord /\ Sound(q) /\ q.step = r.step
             /\ q.done /\ Content(q) = Content(r)
  <2>1. x \in SessionRecord /\ Same(r, x) /\ x.done = r.done
    BY RefusedRecord
  <2>2. /\ x.step # "none" /\ ~x.done
        /\ Len(Content(x)) = x.packets
        /\ \A f : LargestFrame(f) => x.bytes < x.budget + f
    BY <2>1 DEF Same, Sound
  <2>3. q \in SessionRecord /\ q.done /\ Same(x, q) /\ Sound(q)
    BY <1>5, <2>1, <2>2, ClosedSound
  <2> QED
    BY <2>1, <2>3 DEF Same
<1>6. \/ \E x \in Recorded(r, rec) :
            q \in IF x.bytes >= x.budget THEN CloseLocked(x, FALSE) ELSE {x}
      \/ \E x \in WriteRefused(r) : q \in CloseLocked(x, TRUE)
  <2> DEFINE written == UNION {IF x.bytes >= x.budget THEN CloseLocked(x, FALSE) ELSE {x}
                                 : x \in Recorded(r, rec)}
             turnedAway == UNION {CloseLocked(x, TRUE) : x \in WriteRefused(r)}
  <2>1. Fed(r, rec) = written \cup turnedAway
    BY DEF Fed
  <2>2. q \in written =>
          \E x \in Recorded(r, rec) :
            q \in IF x.bytes >= x.budget THEN CloseLocked(x, FALSE) ELSE {x}
    BY Zenon
  <2>3. q \in turnedAway => \E x \in WriteRefused(r) : q \in CloseLocked(x, TRUE)
    BY Zenon
  <2> HIDE DEF written, turnedAway
  <2> QED
    BY <2>1, <2>2, <2>3
<1> QED
  BY <1>4, <1>5, <1>6

-----------------------------------------------------------------------------
(* An unbroken run, and the last record a pipeline has in it. *)
Unbroken(c) ==
  \A i, j \in 1 .. Len(c) :
    i < j /\ c[i].from = c[j].from /\ (\A k \in i + 1 .. j - 1 : c[k].from # c[i].from)
      => c[j].nth = c[i].nth + 1

LastOf(c, i) == i \in 1 .. Len(c) /\ \A k \in i + 1 .. Len(c) : c[k].from # c[i].from

EndsAt(c, reached) == \A i : LastOf(c, i) => c[i].nth = reached[c[i].from]

LEMMA RunExtended ==
  ASSUME NEW c \in Seq(FrameRecord), NEW e \in FrameRecord, NEW before, NEW after,
         Unbroken(c), EndsAt(c, before),
         e.nth = before[e.from] + 1, after[e.from] = e.nth,
         \A p \in Feeders : p # e.from => after[p] = before[p]
  PROVE  Unbroken(Append(c, e)) /\ EndsAt(Append(c, e), after)
<1> DEFINE d == Append(c, e)
<1>1. /\ Len(c) \in Nat /\ Len(d) = Len(c) + 1 /\ d[Len(c) + 1] = e
      /\ \A i \in 1 .. Len(c) : d[i] = c[i] /\ c[i].from \in Feeders
  <2>1. \A i \in 1 .. Len(c) : c[i] \in FrameRecord
    BY ElementOfSeq
  <2> QED
    BY <2>1, AppendProperties DEF FrameRecord
<1> HIDE DEF d
<1>2. ASSUME NEW i \in 1 .. Len(d), NEW j \in 1 .. Len(d),
             i < j, d[i].from = d[j].from, \A k \in i + 1 .. j - 1 : d[k].from # d[i].from
      PROVE  d[j].nth = d[i].nth + 1
  <2>1. i \in 1 .. Len(c) /\ d[i] = c[i]
    BY <1>1, <1>2
  <2>2. CASE j \in 1 .. Len(c)
    BY <1>1, <1>2, <2>1, <2>2 DEF Unbroken
  <2>3. CASE j = Len(c) + 1
    <3>1. LastOf(c, i)
      BY <1>1, <1>2, <2>1, <2>3 DEF LastOf
    <3> QED
      BY <1>1, <1>2, <2>1, <2>3, <3>1 DEF EndsAt
  <2> QED
    BY <1>1, <2>2, <2>3
<1>3. ASSUME NEW i, LastOf(d, i)
      PROVE  d[i].nth = after[d[i].from]
  <2>1. CASE i = Len(c) + 1
    BY <1>1, <2>1
  <2>2. CASE i # Len(c) + 1
    <3>1. i \in 1 .. Len(c) /\ d[i] = c[i]
      BY <1>1, <1>3, <2>2 DEF LastOf
    <3>2. Len(c) + 1 \in i + 1 .. Len(d)
      BY <1>1, <3>1
    <3>3. c[i].from # e.from
      BY <1>1, <1>3, <3>1, <3>2 DEF LastOf
    <3>4. LastOf(c, i)
      BY <1>1, <1>3, <3>1 DEF LastOf
    <3> QED
      BY <1>1, <3>1, <3>3, <3>4 DEF EndsAt
  <2> QED
    BY <2>1, <2>2
<1>4. Unbroken(d)
  BY <1>2 DEF Unbroken
<1> QED
  BY <1>3, <1>4 DEF d, EndsAt

-----------------------------------------------------------------------------
(* The inductive invariant. A pipeline is about to hand a frame only to    *)
(* sessions in the table; a session outside it is empty; and an open one   *)
(* ends, for each pipeline, with the last frame that pipeline handed over. *)
Handed(s) == [p \in Feeders |-> IF s \in left[p] THEN nth[p][s] - 1 ELSE nth[p][s]]

UpToDate(s) == EndsAt(Content(session[s]), Handed(s))

SessionOK(s) ==
  /\ Sound(session[s])
  /\ session[s].step # "listed" => session[s].packets = 0
  /\ Unbroken(Content(session[s]))
  /\ ~session[s].done => UpToDate(s)

TcapInv ==
  /\ TcapTypeOK
  /\ \A s \in Captures : SessionOK(s)
  /\ \A p \in Feeders : \A s \in left[p] : session[s].step = "listed"

LEMMA EmptyContent ==
  ASSUME NEW r \in SessionRecord, Sound(r), r.packets = 0
  PROVE  \A reached : EndsAt(Content(r), reached)
<1>1. Content(r) \in Seq(FrameRecord)
  BY ConcatProperties DEF Content, SessionRecord
<1>2. Len(Content(r)) = 0
  BY DEF Sound
<1>3. Content(r) = <<>>
  BY <1>1, <1>2, EmptySeq
<1> QED
  BY <1>2, <1>3 DEF EndsAt, LastOf

LEMMA TcapInvInit == TcapInit => TcapInv
<1> SUFFICES ASSUME TcapInit
             PROVE  TcapInv
  OBVIOUS
<1>1. <<>> \in Seq(FrameRecord) /\ Len(<<>>) = 0
  BY EmptySeq
<1>2. NewSession \in SessionRecord
  BY <1>1, TcapAssumption DEF NewSession, SessionRecord
<1>3. Content(NewSession) = <<>>
  BY <1>1, ConcatEmptySeq DEF Content, NewSession
<1>4. Sound(NewSession)
  <2>1. \A f : LargestFrame(f) => 0 < 0 + f
    BY TcapAssumption DEF LargestFrame
  <2>2. /\ NewSession.step = "none" /\ NewSession.timer = "off" /\ NewSession.done = FALSE
        /\ NewSession.torn = FALSE /\ NewSession.bytes = 0 /\ NewSession.budget = 0
        /\ NewSession.packets = 0
    BY DEF NewSession
  <2> QED
    BY <1>1, <1>3, <2>1, <2>2 DEF Sound
<1>5. TcapTypeOK
  BY <1>2, TcapAssumption DEF TcapInit, TcapTypeOK
<1>6. ASSUME NEW s \in Captures
      PROVE  SessionOK(s)
  <2>1. session[s] = NewSession
    BY DEF TcapInit
  <2> QED
    BY <1>1, <1>3, <1>4, <2>1 DEF SessionOK, Unbroken, UpToDate, EndsAt, LastOf, NewSession
<1> QED
  BY <1>5, <1>6 DEF TcapInv, TcapInit

(* A step that leaves what is captured alone. *)
LEMMA SessionMoves ==
  ASSUME TcapInv, NEW s \in Captures, NEW q \in SessionRecord,
         session' = [session EXCEPT ![s] = q], FeedingUnchanged,
         Sound(q), Content(q) = Content(session[s]), q.packets = session[s].packets,
         session[s].done => q.done,
         session[s].step = "listed" => q.step = "listed"
  PROVE  TcapInv'
<1>1. TcapTypeOK'
  BY DEF TcapInv, TcapTypeOK, FeedingUnchanged
<1>2. \A t \in Captures : session'[t] = IF t = s THEN q ELSE session[t]
  BY DEF TcapInv, TcapTypeOK
<1>3. UNCHANGED <<nth, left>>
  BY DEF FeedingUnchanged
<1>4. ASSUME NEW t \in Captures
      PROVE  SessionOK(t)'
  <2>1. SessionOK(t)
    BY DEF TcapInv
  <2>2. Content(session[t])' = Content(session[t]) /\ session'[t].packets = session[t].packets
    BY <1>2 DEF Content
  <2>3. UpToDate(t) => UpToDate(t)'
    BY <1>3, <2>2 DEF UpToDate, Handed
  <2>4. Sound(session[t])'
    BY <1>2, <2>1 DEF SessionOK, Sound, Content
  <2> QED
    BY <1>2, <2>1, <2>2, <2>3, <2>4 DEF SessionOK
<1>5. \A p \in Feeders : \A t \in left'[p] : session'[t].step = "listed"
  BY <1>2, <1>3 DEF TcapInv, TcapTypeOK
<1> QED
  BY <1>1, <1>4, <1>5 DEF TcapInv

(* A frame is offered: its listed sessions are owed it, the others start   *)
(* empty whenever they are listed.                                         *)
LEMMA FeedPreserves ==
  ASSUME TcapInv, NEW p \in Feeders, NEW macs \in SUBSET Targets, NEW bytes \in FrameSizes,
         Feed(p, macs, bytes)
  PROVE  TcapInv'
<1>1. /\ session \in [Captures -> SessionRecord] /\ offered \in [Feeders -> 0 .. MaxFeeds]
      /\ nth \in [Feeders -> [Captures -> Nat]] /\ left \in [Feeders -> SUBSET Captures]
      /\ size \in [Feeders -> FrameSizes \cup {0}]
      /\ \A q \in Feeders : left[q] # {} => size[q] \in FrameSizes
  BY DEF TcapInv, TcapTypeOK
<1> DEFINE counted == [s \in Captures |-> IF s \in Matching(macs) THEN nth[p][s] + 1 ELSE nth[p][s]]
           owed == Matching(macs) \cap Listed
<1>2. /\ left[p] = {} /\ offered[p] + 1 \in 0 .. MaxFeeds /\ session' = session
      /\ offered' = [offered EXCEPT ![p] = offered[p] + 1]
      /\ nth' = [nth EXCEPT ![p] = counted]
      /\ left' = [left EXCEPT ![p] = owed]
      /\ size' = [size EXCEPT ![p] = bytes]
  BY <1>1, TcapAssumption DEF Feed
<1>3. counted \in [Captures -> Nat] /\ owed \in SUBSET Captures
  BY <1>1 DEF Matching
<1>4. /\ \A s \in Captures : counted[s] = IF s \in Matching(macs) THEN nth[p][s] + 1 ELSE nth[p][s]
      /\ \A s \in Captures : s \in owed <=> s \in Matching(macs) /\ session[s].step = "listed"
  BY DEF Listed
<1> HIDE DEF counted, owed
<1>5. TcapTypeOK'
  BY <1>1, <1>2, <1>3, TcapAssumption DEF TcapTypeOK
<1>6. \A q \in Feeders : /\ nth'[q] = IF q = p THEN counted ELSE nth[q]
                         /\ left'[q] = IF q = p THEN owed ELSE left[q]
  BY <1>1, <1>2
<1>7. ASSUME NEW s \in Captures
      PROVE  SessionOK(s)'
  <2>1. SessionOK(s) /\ session[s] \in SessionRecord
    BY <1>1 DEF TcapInv
  <2>2. CASE session[s].step = "listed"
    <3>1. Handed(s)' = Handed(s)
      BY <1>1, <1>2, <1>4, <1>6, <2>2 DEF Handed
    <3> QED
      BY <1>2, <2>1, <3>1 DEF SessionOK, UpToDate
  <2>3. CASE session[s].step # "listed"
    <3>1. EndsAt(Content(session[s]), Handed(s)')
      BY <2>1, <2>3, EmptyContent DEF SessionOK
    <3> QED
      BY <1>2, <2>1, <3>1 DEF SessionOK, UpToDate
  <2> QED
    BY <2>2, <2>3
<1>8. \A q \in Feeders : \A s \in left'[q] : session'[s].step = "listed"
  BY <1>2, <1>4, <1>6, <1>3 DEF TcapInv
<1> QED
  BY <1>5, <1>7, <1>8 DEF TcapInv

(* A frame is handed to one of the sessions that are owed it. *)
LEMMA FeedSessionPreserves ==
  ASSUME TcapInv, NEW p \in Feeders, NEW s \in Captures, FeedSession(p, s)
  PROVE  TcapInv'
<1>1. /\ session \in [Captures -> SessionRecord] /\ offered \in [Feeders -> 0 .. MaxFeeds]
      /\ nth \in [Feeders -> [Captures -> Nat]] /\ left \in [Feeders -> SUBSET Captures]
      /\ size \in [Feeders -> FrameSizes \cup {0}]
      /\ \A q \in Feeders : left[q] # {} => size[q] \in FrameSizes
  BY DEF TcapInv, TcapTypeOK
<1> DEFINE r == session[s]
           rec == RecordOf(p, s)
           c == Content(r)
<1>2. r \in SessionRecord /\ SessionOK(s) /\ r.step = "listed"
  BY <1>1 DEF TcapInv, FeedSession
<1>3. /\ rec \in FrameRecord /\ rec.from = p /\ rec.nth = nth[p][s]
  BY <1>1 DEF FeedSession, RecordOf, FrameRecord
<1>4. c \in Seq(FrameRecord)
  BY <1>2, ConcatProperties DEF Content, SessionRecord
<1>5. PICK q \in IF r.done THEN {r} ELSE Fed(r, rec) : session' = [session EXCEPT ![s] = q]
  BY DEF FeedSession
<1>6. /\ s \in left[p] /\ left' = [left EXCEPT ![p] = left[p] \ {s}]
      /\ UNCHANGED <<offered, nth, size>>
  BY DEF FeedSession
<1>7. /\ q \in SessionRecord /\ Sound(q) /\ q.step = "listed" /\ (r.done => q.done)
      /\ \/ Content(q) = c /\ q.done
         \/ Content(q) = Append(c, rec) /\ ~r.done
  <2>1. CASE r.done
    BY <1>2, <1>5, <2>1 DEF SessionOK
  <2>2. CASE ~r.done
    BY <1>2, <1>3, <1>5, <2>2, FedSound DEF SessionOK
  <2> QED
    BY <2>1, <2>2
<1> HIDE DEF rec
<1>8. \A t \in Captures : session'[t] = IF t = s THEN q ELSE session[t]
  BY <1>1, <1>5
<1>9. \A w \in Feeders : left'[w] = IF w = p THEN left[p] \ {s} ELSE left[w]
  BY <1>1, <1>6
<1>10. TcapTypeOK'
  BY <1>1, <1>5, <1>6, <1>7 DEF TcapTypeOK
<1>11. ASSUME Content(q) = Append(c, rec), ~r.done
       PROVE  SessionOK(s)'
  <2>1. Unbroken(c) /\ EndsAt(c, Handed(s))
    BY <1>2, <1>11 DEF SessionOK, UpToDate
  <2>2. rec.nth = Handed(s)[p] + 1
    BY <1>1, <1>3, <1>6 DEF Handed
  <2>3. Handed(s)'[p] = rec.nth
    BY <1>3, <1>6, <1>9 DEF Handed
  <2>4. \A w \in Feeders : w # p => Handed(s)'[w] = Handed(s)[w]
    BY <1>6, <1>9 DEF Handed
  <2>5. Unbroken(Append(c, rec)) /\ EndsAt(Append(c, rec), Handed(s)')
    <3> HIDE DEF c
    <3> QED
      BY <1>3, <1>4, <2>1, <2>2, <2>3, <2>4, RunExtended
  <2> QED
    BY <1>7, <1>8, <1>11, <2>5 DEF SessionOK, UpToDate
<1>12. ASSUME Content(q) = c, q.done
       PROVE  SessionOK(s)'
  BY <1>2, <1>7, <1>8, <1>12 DEF SessionOK
<1>13. ASSUME NEW t \in Captures, t # s
       PROVE  SessionOK(t)'
  <2>1. SessionOK(t) /\ session'[t] = session[t]
    BY <1>8, <1>13 DEF TcapInv
  <2>2. Handed(t)' = Handed(t)
    BY <1>6, <1>9, <1>13 DEF Handed
  <2> QED
    BY <2>1, <2>2 DEF SessionOK, UpToDate
<1>14. ASSUME NEW w \in Feeders, NEW t \in left'[w]
       PROVE  session'[t].step = "listed"
  <2>1. t \in left[w] /\ t \in Captures
    BY <1>1, <1>9
  <2> QED
    BY <1>7, <1>8, <2>1 DEF TcapInv
<1> QED
  BY <1>7, <1>10, <1>11, <1>12, <1>13, <1>14 DEF TcapInv

LEMMA TcapInvStep == TcapInv /\ [TcapNext]_tcapVars => TcapInv'
<1> SUFFICES ASSUME TcapInv, [TcapNext]_tcapVars
             PROVE  TcapInv'
  OBVIOUS
<1>1. session \in [Captures -> SessionRecord]
  BY DEF TcapInv, TcapTypeOK
<1>2. \A s \in Captures : Sound(session[s])
  BY DEF TcapInv, SessionOK
<1>3. ASSUME NEW s \in Captures, NEW requested \in 0 .. MaxBudget + 1, Arm(s, requested)
      PROVE  TcapInv'
  <2> DEFINE q == [session[s] EXCEPT !.step = "armed", !.timer = "armed",
                                     !.budget = Clamped(requested)]
  <2>1. /\ Clamped(requested) \in 0 .. MaxBudget
        /\ Clamped(requested) \in Nat \ {0}
    BY TcapAssumption DEF Clamped
  <2>2. session[s] \in SessionRecord
    BY <1>1
  <2>3. /\ q \in SessionRecord /\ q.step = "armed" /\ q.budget = Clamped(requested)
        /\ q.bytes = session[s].bytes /\ q.packets = session[s].packets
        /\ q.done = session[s].done /\ q.torn = session[s].torn
        /\ q.disk = session[s].disk /\ q.buf = session[s].buf
    BY <2>1, <2>2 DEF SessionRecord
  <2>4. session[s].step = "none" /\ session' = [session EXCEPT ![s] = q] /\ FeedingUnchanged
    BY <1>3, <2>2 DEF Arm
  <2> HIDE DEF q
  <2>5. ASSUME NEW f, LargestFrame(f)
        PROVE  q.bytes < q.budget + f
    <3>1. f \in Nat \ {0} /\ q.budget \in Nat /\ q.bytes = 0
      BY <1>2, <2>1, <2>3, <2>4, <2>5, TcapAssumption DEF LargestFrame, Sound
    <3> QED
      BY <3>1
  <2>6. q.bytes < q.budget
    <3>1. q.budget \in Nat \ {0} /\ q.bytes = 0
      BY <1>2, <2>1, <2>3, <2>4 DEF Sound
    <3> QED
      BY <3>1
  <2>7. Content(q) = Content(session[s])
    BY <2>3 DEF Content
  <2>8. Sound(q)
    BY <1>2, <2>3, <2>4, <2>5, <2>6, <2>7 DEF Sound
  <2> QED
    BY <2>3, <2>4, <2>7, <2>8, SessionMoves
<1>4. ASSUME NEW s \in Captures, AssignTimer(s)
      PROVE  TcapInv'
  <2> DEFINE q == [session[s] EXCEPT !.step = "timed"]
  <2>1. session[s].step = "armed" /\ session' = [session EXCEPT ![s] = q] /\ FeedingUnchanged
    BY <1>1, <1>4 DEF AssignTimer
  <2>2. q \in SessionRecord /\ q.packets = session[s].packets /\ q.done = session[s].done
    BY <1>1 DEF SessionRecord
  <2>3. Sound(q) /\ Content(q) = Content(session[s])
    BY <1>1, <1>2, <2>1 DEF Sound, Content, SessionRecord
  <2> HIDE DEF q
  <2> QED
    BY <2>1, <2>2, <2>3, SessionMoves
<1>5. ASSUME NEW s \in Captures, List(s)
      PROVE  TcapInv'
  <2> DEFINE q == [session[s] EXCEPT !.step = "listed"]
  <2>1. session[s].step = "timed" /\ session' = [session EXCEPT ![s] = q] /\ FeedingUnchanged
    BY <1>1, <1>5 DEF List
  <2>2. q \in SessionRecord /\ q.packets = session[s].packets /\ q.done = session[s].done
    BY <1>1 DEF SessionRecord
  <2>3. Sound(q) /\ Content(q) = Content(session[s])
    BY <1>1, <1>2, <2>1 DEF Sound, Content, SessionRecord
  <2> HIDE DEF q
  <2> QED
    BY <2>1, <2>2, <2>3, SessionMoves
<1>6. ASSUME NEW s \in Captures, TimerExpires(s)
      PROVE  TcapInv'
  <2> DEFINE q == [session[s] EXCEPT !.timer = "due"]
  <2>1. session[s].timer = "armed" /\ session' = [session EXCEPT ![s] = q] /\ FeedingUnchanged
    BY <1>1, <1>6 DEF TimerExpires
  <2>2. /\ q \in SessionRecord /\ q.packets = session[s].packets
        /\ q.done = session[s].done /\ q.step = session[s].step
    BY <1>1 DEF SessionRecord
  <2>3. Sound(q) /\ Content(q) = Content(session[s])
    BY <1>1, <1>2, <2>1 DEF Sound, Content, SessionRecord
  <2> HIDE DEF q
  <2> QED
    BY <2>1, <2>2, <2>3, SessionMoves
<1>7. ASSUME NEW s \in Captures, OnDeadline(s)
      PROVE  TcapInv'
  <2> DEFINE x == [session[s] EXCEPT !.timer = "gone"]
  <2>1. /\ session[s].timer = "due" /\ FeedingUnchanged
        /\ \E q \in CloseLocked(x, FALSE) : session' = [session EXCEPT ![s] = q]
    BY <1>7 DEF OnDeadline
  <2>2. /\ x \in SessionRecord /\ x.packets = session[s].packets
        /\ x.done = session[s].done /\ x.step = session[s].step
        /\ x.bytes = session[s].bytes /\ x.budget = session[s].budget
    BY <1>1 DEF SessionRecord
  <2>3. Content(x) = Content(session[s])
    BY <1>1 DEF Content, SessionRecord
  <2>4. x.step # "none" /\ (x.done => Sound(x))
    BY <1>1, <1>2, <2>1 DEF Sound, Content, SessionRecord
  <2>5. Len(Content(x)) = x.packets /\ \A f : LargestFrame(f) => x.bytes < x.budget + f
    BY <1>2, <2>2, <2>3 DEF Sound
  <2> HIDE DEF x
  <2>6. PICK q \in CloseLocked(x, FALSE) : session' = [session EXCEPT ![s] = q]
    BY <2>1
  <2>7. q \in SessionRecord /\ q.done /\ Same(x, q) /\ Sound(q)
    BY <2>2, <2>4, <2>5, <2>6, ClosedSound
  <2>8. Content(q) = Content(session[s]) /\ q.packets = session[s].packets /\ q.step = session[s].step
    BY <2>2, <2>3, <2>7 DEF Same
  <2> QED
    BY <2>1, <2>6, <2>7, <2>8, SessionMoves
<1>8. CASE UNCHANGED tcapVars
  BY <1>8 DEF tcapVars, TcapInv, TcapTypeOK, SessionOK, UpToDate, Handed
<1> QED
  BY <1>3, <1>4, <1>5, <1>6, <1>7, <1>8, FeedPreserves, FeedSessionPreserves DEF TcapNext

LEMMA TcapInvariant == TcapSpec => []TcapInv
BY TcapInvInit, TcapInvStep, PTL DEF TcapSpec

-----------------------------------------------------------------------------
(* Every session is a record of the types the code declares for it, and    *)
(* a frame on its way to a session has a size.                             *)
THEOREM TargetedCaptureTypes == TcapSpec => []TcapTypeOK
<1>1. TcapInv => TcapTypeOK
  BY DEF TcapInv
<1> QED
  BY <1>1, TcapInvariant, PTL

(* A capture stays within its byte budget but for its last frame, however  *)
(* many pipelines feed it and whatever the timer does.                     *)
THEOREM WithinBudget == TcapSpec => []BudgetKept
<1>1. ASSUME TcapInv
      PROVE  BudgetKept
  <2>1. \A s \in Captures : session[s] \in SessionRecord /\ Sound(session[s])
    BY <1>1 DEF TcapInv, TcapTypeOK, SessionOK
  <2>2. \A s \in Captures : session[s].budget <= MaxBudget
    BY <2>1, TcapAssumption DEF SessionRecord
  <2> QED
    BY <2>1, <2>2 DEF BudgetKept, Sound, LargestFrame
<1> QED
  BY <1>1, TcapInvariant, PTL

(* The file of a capture is an unbroken run of each pipeline's frames.     *)
THEOREM NothingMissing == TcapSpec => []UnbrokenRun
<1>1. TcapInv => UnbrokenRun
  BY DEF TcapInv, SessionOK, UnbrokenRun, Unbroken, Contents, Content
<1> QED
  BY <1>1, TcapInvariant, PTL

(* A capture reported done is in its file whole, unless the file system    *)
(* refused a part of it.                                                   *)
THEOREM DoneIsWhole == TcapSpec => []DoneIsReadable
<1>1. ASSUME TcapInv
      PROVE  DoneIsReadable
  <2>1. ASSUME NEW s \in Captures, session[s].done, ~session[s].torn
        PROVE  Len(session[s].disk) = session[s].packets
    <3>1. session[s] \in SessionRecord /\ Sound(session[s])
      BY <1>1 DEF TcapInv, TcapTypeOK, SessionOK
    <3>2. session[s].disk \in Seq(FrameRecord) /\ session[s].buf = <<>>
      BY <2>1, <3>1 DEF SessionRecord, Sound
    <3>3. Content(session[s]) = session[s].disk
      BY <3>2, ConcatEmptySeq DEF Content
    <3> QED
      BY <3>1, <3>3 DEF Sound
  <2> QED
    BY <2>1 DEF DoneIsReadable
<1> QED
  BY <1>1, TcapInvariant, PTL

(* A finished session is never written to, counted or ended again: the     *)
(* late callback and the frames still on their way find it done.           *)
Frozen(r) == [r EXCEPT !.step = "", !.timer = ""]

LEMMA FinishedStep ==
  ASSUME TcapInv, TcapNext, NEW t \in Captures, session[t].done
  PROVE  Frozen(session'[t]) = Frozen(session[t])
<1>1. session \in [Captures -> SessionRecord] /\ session[t].step # "none"
  BY DEF TcapInv, TcapTypeOK, SessionOK, Sound
<1>2. ASSUME NEW s \in Captures, NEW requested \in 0 .. MaxBudget + 1, Arm(s, requested)
      PROVE  session'[t] = session[t]
  BY <1>1, <1>2 DEF Arm
<1>3. ASSUME NEW s \in Captures, AssignTimer(s) \/ List(s) \/ TimerExpires(s)
      PROVE  Frozen(session'[t]) = Frozen(session[t])
  <2>1. session[t] \in SessionRecord
    BY <1>1
  <2>2. \/ session'[t] = session[t]
        \/ session'[t] = [session[t] EXCEPT !.step = "timed"]
        \/ session'[t] = [session[t] EXCEPT !.step = "listed"]
        \/ session'[t] = [session[t] EXCEPT !.timer = "due"]
    BY <1>1, <1>3 DEF AssignTimer, List, TimerExpires
  <2> QED
    BY <2>1, <2>2 DEF Frozen, SessionRecord
<1>4. ASSUME NEW s \in Captures, OnDeadline(s)
      PROVE  Frozen(session'[t]) = Frozen(session[t])
  <2> DEFINE x == [session[s] EXCEPT !.timer = "gone"]
  <2>1. PICK q \in CloseLocked(x, FALSE) : session' = [session EXCEPT ![s] = q]
    BY <1>4 DEF OnDeadline
  <2>2. CASE t = s
    <3>1. x.done
      BY <1>1, <2>2 DEF SessionRecord
    <3>2. session'[t] = x
      BY <1>1, <2>1, <2>2, <3>1 DEF CloseLocked
    <3> QED
      BY <1>1, <2>2, <3>2 DEF Frozen, SessionRecord
  <2>3. CASE t # s
    BY <1>1, <2>1, <2>3
  <2> QED
    BY <2>2, <2>3
<1>5. ASSUME NEW p \in Feeders, NEW s \in Captures, FeedSession(p, s)
      PROVE  session'[t] = session[t]
  BY <1>1, <1>5 DEF FeedSession
<1>6. ASSUME NEW p \in Feeders, NEW macs \in SUBSET Targets, NEW bytes \in FrameSizes,
             Feed(p, macs, bytes)
      PROVE  session'[t] = session[t]
  BY <1>6 DEF Feed
<1> QED
  BY <1>2, <1>3, <1>4, <1>5, <1>6 DEF TcapNext

(* Once done, a capture stays as it is. *)
THEOREM DoneIsFinal == TcapSpec => FinishedStays
<1>1. TcapInv /\ [TcapNext]_tcapVars =>
        [\A s \in Captures : session[s].done =>
           [session'[s] EXCEPT !.step = "", !.timer = ""]
             = [session[s] EXCEPT !.step = "", !.timer = ""]]_tcapVars
  BY FinishedStep DEF Frozen
<1> QED
  BY <1>1, TcapInvariant, PTL DEF TcapSpec, FinishedStays

(* The file of every session is within its budget and, once done, whole.   *)
THEOREM FilesKept == TcapSpec => []FileKept
  BY WithinBudget, DoneIsWhole, PTL DEF FileKept

-----------------------------------------------------------------------------
(* The agent's graph is that of its parts: a behaviour of it is one of the *)
(* supervisor and one of the captures, of which one rests. So each theorem *)
(* above is one about the agent.                                           *)
THEOREM AgentIsItsParts == Spec => SupSpec /\ TcapSpec
<1>1. Init => SupInit /\ TcapInit
  BY DEF Init
<1>2. [Next]_agentVars => [SupNext]_supVars /\ [TcapNext]_tcapVars
  <2>1. ASSUME OfSupervisor(SupNext) PROVE SupNext /\ UNCHANGED tcapVars
    BY <2>1 DEF OfSupervisor
  <2>2. ASSUME OfCaptures(TcapNext) PROVE TcapNext /\ UNCHANGED supVars
    BY <2>2 DEF OfCaptures
  <2>3. ASSUME UNCHANGED agentVars PROVE UNCHANGED supVars /\ UNCHANGED tcapVars
    BY <2>3 DEF agentVars
  <2> QED
    BY <2>1, <2>2, <2>3 DEF Next
<1> QED
  BY <1>1, <1>2, PTL DEF Spec, SupSpec, TcapSpec

(* Every variable of either part keeps its type.                           *)
THEOREM AgentTypes == Spec => []AgentTypeOK
  BY AgentIsItsParts, SupervisorTypes, TargetedCaptureTypes, PTL DEF AgentTypeOK
=============================================================================
