----------------------------- MODULE Supervisor -----------------------------
(***************************************************************************)
(* How the agent keeps a capture running (main.go): start-up opens one on  *)
(* the best interface, the hot-plug supervisor replaces it whenever a link *)
(* notification changes which interface that is, and the threat            *)
(* intelligence store (internal/threatintel/threatintel.go) calls back     *)
(* into the pipeline registered with it after each refresh.                *)
(*                                                                         *)
(* Two goroutines of the program appear here: the one of main that becomes *)
(* the supervisor's, and the refresh loop. Pipelines run by themselves; of *)
(* what Pipeline says of one, only starting and ending matter here.        *)
(***************************************************************************)
EXTENDS Naturals, FiniteSets

CONSTANTS
  Ifaces,       \* network interfaces this host may have
  Any,          \* live.AnyInterface
  NoIface,      \* no default route, no pipeline's interface
  Configured,   \* the interface named in explicit_list
  RoleFits,     \* those that fit its role when the name does not exist
  Excluded,     \* those auto_discover.exclude_patterns matches
  MaxPipes,     \* bound: pipelines opened
  MaxChanges,   \* bound: changes of links and routes
  MaxRounds     \* bound: refreshes

ASSUME SupAssumption ==
  /\ Any \notin Ifaces /\ NoIface \notin Ifaces \cup {Any}
  /\ Configured \in Ifaces /\ RoleFits \subseteq Ifaces /\ Excluded \subseteq Ifaces
  /\ MaxPipes \in Nat
  /\ MaxChanges \in Nat /\ MaxRounds \in Nat

(* Pipelines, numbered in the order they are opened; 0 is nil. *)
Pipes == 1 .. MaxPipes
NoPipe == 0

VARIABLES
  \* the host
  mode,         \* interfaces.mode
  link,         \* state of each interface
  route,        \* the interface with the default route
  changes,      \* changes so far
  events,       \* link notifications not yet taken by watch
  missed,       \* something changed since without a notification
  \* pipelines
  pstate,       \* "none", "running" or "done"
  iface,        \* Pipeline.Iface
  alive,        \* its source still delivers packets
  closes,       \* calls of its Close
  intel,        \* the refresh its snapshot is from
  \* main and hotplugSupervisor
  pc,           \* where the goroutine is
  want,         \* the interface it is switching to
  opened,       \* the pipeline it has opened, not yet published
  old,          \* the one being replaced
  current,      \* hotplugSupervisor.pipeline
  badge,        \* the API's source badge
  refused,      \* the last Open failed
  startIntel,   \* hotplugSupervisor.intel
  \* threatintel.Store
  round,        \* refreshes so far
  onUpdate,     \* the pipeline whose SetIntel is registered
  atRegister,   \* the refresh that was the latest then
  tpc,          \* where the refresh loop is
  target        \* the callback it is about to call

hostVars  == <<mode, link, route, changes, events, missed>>
pipeVars  == <<pstate, iface, alive, closes, intel>>
mainVars  == <<pc, want, opened, old, current, badge, refused, startIntel>>
intelVars == <<round, onUpdate, atRegister, tpc, target>>
supVars   == <<hostVars, pipeVars, mainVars, intelVars>>

Up == {i \in Ifaces : link[i] = "up"}
MayRoute == Up \cup {NoIface}

(* Something may have been captured, and cached, by an earlier run: that   *)
(* is refresh 1.                                                           *)
SupInit ==
  /\ mode \in {"explicit", "auto"}
  /\ link \in [Ifaces -> {"absent", "down", "up"}]
  /\ route \in MayRoute
  /\ changes = 0 /\ events = 0 /\ missed = FALSE
  /\ pstate = [p \in Pipes |-> "none"]
  /\ iface = [p \in Pipes |-> NoIface]
  /\ alive = [p \in Pipes |-> FALSE]
  /\ closes = [p \in Pipes |-> 0]
  /\ intel = [p \in Pipes |-> 0]
  /\ pc = "boot" /\ want = NoIface /\ opened = NoPipe /\ old = NoPipe
  /\ current = NoPipe /\ badge = NoIface /\ refused = FALSE /\ startIntel = 0
  /\ round = 1 /\ onUpdate = NoPipe /\ atRegister = 0 /\ tpc = "idle" /\ target = NoPipe

-----------------------------------------------------------------------------
(* resolveExplicitInterface: the configured name wins when it exists; else *)
(* an interface that is up and fits the role.                              *)
Named ==
  IF link[Configured] # "absent" THEN {Configured} ELSE Up \cap RoleFits

(* autoDiscoverIface: the default route's, else any that is up. *)
Discovered == IF route # NoIface /\ route \notin Excluded THEN {route} ELSE Up \ Excluded

(* captureIface, with its two fallbacks. The order in which the kernel     *)
(* lists interfaces decides between several.                               *)
Best ==
  LET found == IF mode = "explicit" THEN Named ELSE Discovered IN
    IF found # {} THEN found ELSE IF route # NoIface THEN {route} ELSE {Any}

(* The netlink socket is subscribed to. *)
Watching == pc \notin {"boot", "bootChoose", "bootOpen", "bootWire", "bootPublish", "subscribe", "unwatched"}

(* A source delivers as long as its link is up; an eBPF program, but not a  *)
(* packet socket, outlives one that goes down without going away.          *)
Survives(state, ebpf) == state = "up" \/ (ebpf /\ state = "down")

(* A link changes, and the default route with it. *)
LinkChanges(i, state, ebpf) ==
  /\ changes < MaxChanges
  /\ state # link[i]
  /\ changes' = changes + 1
  /\ link' = [link EXCEPT ![i] = state]
  /\ route' \in MayRoute'
  /\ events' = IF Watching THEN events + 1 ELSE events
  /\ missed' = (missed \/ ~Watching)
  /\ alive' = [p \in Pipes |-> alive[p] /\ (iface[p] = i => Survives(state, ebpf))]
  /\ UNCHANGED <<mode, pstate, iface, closes, intel, mainVars, intelVars>>

(* The default route moves, which is not a link event. *)
RouteMoves ==
  /\ changes < MaxChanges
  /\ changes' = changes + 1
  /\ route' \in MayRoute \ {route}
  /\ missed' = TRUE
  /\ UNCHANGED <<mode, link, events, pipeVars, mainVars, intelVars>>

-----------------------------------------------------------------------------
GoesTo(from, to) == pc = from /\ pc' = to

(* tiStore.Start has begun refreshing when main takes its snapshot. *)
BootSnapshot ==
  /\ GoesTo("boot", "bootChoose")
  /\ startIntel' = round
  /\ UNCHANGED <<want, opened, old, current, badge, refused, hostVars, pipeVars, intelVars>>

BootChoose ==
  /\ GoesTo("bootChoose", "bootOpen")
  /\ want' \in Best
  /\ missed' = FALSE
  /\ UNCHANGED <<opened, old, current, badge, refused, startIntel, mode, link, route,
                 changes, events, pipeVars, intelVars>>

(* The pseudo-interface is always there. *)
WantedLink == IF want = Any THEN "up" ELSE link[want]

(* livesource.Open: the pipeline runs from here on. A packet socket bound  *)
(* to a link that is down fails at its first read.                         *)
Opens(p, ebpf) ==
  /\ pstate[p] = "none" /\ \A q \in 1 .. p - 1 : pstate[q] # "none"
  /\ WantedLink # "absent"
  /\ pstate' = [pstate EXCEPT ![p] = "running"]
  /\ iface' = [iface EXCEPT ![p] = want]
  /\ alive' = [alive EXCEPT ![p] = Survives(WantedLink, ebpf)]
  /\ intel' = [intel EXCEPT ![p] = startIntel]
  /\ opened' = p
  /\ refused' = FALSE
  /\ UNCHANGED <<closes, want, old, current, badge, startIntel, hostVars, intelVars>>

(* ... or it fails: no such interface, or no permission. *)
OpenFails ==
  /\ refused' = TRUE
  /\ UNCHANGED <<want, opened, old, current, badge, startIntel, hostVars, pipeVars, intelVars>>

BootOpen ==
  \/ GoesTo("bootOpen", "bootWire") /\ \E p \in Pipes, ebpf \in BOOLEAN : Opens(p, ebpf)
  \/ GoesTo("bootOpen", "subscribe") /\ OpenFails

(* Mutant: only the pipeline of start-up is registered. *)
RegisterFirst(from, to) ==
  /\ GoesTo(from, to)
  /\ onUpdate' = IF onUpdate = NoPipe THEN opened ELSE onUpdate
  /\ atRegister' = round
  /\ UNCHANGED <<want, opened, old, current, badge, refused, startIntel, hostVars,
                 pipeVars, round, tpc, target>>

(* tiStore.OnUpdate(p.SetIntel): one callback, the last registered. *)
Register(from, to) ==
  /\ GoesTo(from, to)
  /\ onUpdate' = opened /\ atRegister' = round
  /\ UNCHANGED <<want, opened, old, current, badge, refused, startIntel, hostVars,
                 pipeVars, round, tpc, target>>

BootPublish ==
  /\ GoesTo("bootPublish", "subscribe")
  /\ current' = opened /\ badge' = iface[opened]
  /\ UNCHANGED <<want, opened, old, refused, startIntel, hostVars, pipeVars, intelVars>>

(* watch subscribes to link notifications, or gives up for good. *)
Subscribe ==
  /\ GoesTo("subscribe", "watch") \/ GoesTo("subscribe", "unwatched")
  /\ UNCHANGED <<want, opened, old, current, badge, refused, startIntel, hostVars,
                 pipeVars, intelVars>>

(* Mutant: a notification is dropped when a pipeline is running. *)
TakeEventIfIdle ==
  /\ pc = "watch" /\ events > 0
  /\ events' = events - 1 /\ missed' = FALSE
  /\ \E w \in Best :
       IF current # NoPipe THEN pc' = "watch" /\ want' = want ELSE pc' = "open" /\ want' = w
  /\ UNCHANGED <<opened, old, current, badge, refused, startIntel, mode, link, route,
                 changes, pipeVars, intelVars>>

(* The body of watch: every notification looks at all interfaces anew, and *)
(* a pipeline that has the wanted name is left alone.                      *)
TakeEvent ==
  /\ pc = "watch" /\ events > 0
  /\ events' = events - 1 /\ missed' = FALSE
  /\ \E w \in Best :
       IF current # NoPipe /\ iface[current] = w
         THEN pc' = "watch" /\ want' = want
         ELSE pc' = "open" /\ want' = w
  /\ UNCHANGED <<opened, old, current, badge, refused, startIntel, mode, link, route,
                 changes, pipeVars, intelVars>>

SwapOpen ==
  \/ GoesTo("open", "install") /\ \E p \in Pipes, ebpf \in BOOLEAN : Opens(p, ebpf)
  \/ GoesTo("open", "watch") /\ OpenFails

(* Mutant: the old pipeline is closed although there was none. *)
InstallClosesAlways ==
  /\ GoesTo("install", "close")
  /\ old' = current /\ current' = opened
  /\ UNCHANGED <<want, opened, badge, refused, startIntel, hostVars, pipeVars, intelVars>>

(* swapTo's lock section: the new pipeline becomes the current one. *)
Install ==
  /\ GoesTo("install", IF current = NoPipe THEN "wire" ELSE "close")
  /\ old' = current /\ current' = opened
  /\ UNCHANGED <<want, opened, badge, refused, startIntel, hostVars, pipeVars, intelVars>>

(* Mutant: the old pipeline is not closed. *)
LeaveOld ==
  /\ GoesTo("close", "wait")
  /\ UNCHANGED <<want, opened, old, current, badge, refused, startIntel, hostVars,
                 pipeVars, intelVars>>

CloseOld ==
  /\ GoesTo("close", "wait")
  /\ closes' = [closes EXCEPT ![old] = @ + 1]
  /\ UNCHANGED <<want, opened, old, current, badge, refused, startIntel, hostVars,
                 pstate, iface, alive, intel, intelVars>>

(* Mutant: the wait for the old pipeline's last flush is left out. *)
NoWaitForOld ==
  /\ GoesTo("wait", "wire")
  /\ UNCHANGED <<want, opened, old, current, badge, refused, startIntel, hostVars,
                 pipeVars, intelVars>>

(* Close returns when run() has. *)
WaitForOld ==
  /\ GoesTo("wait", "wire")
  /\ pstate[old] = "done"
  /\ UNCHANGED <<want, opened, old, current, badge, refused, startIntel, hostVars,
                 pipeVars, intelVars>>

Publish ==
  /\ GoesTo("publish", "watch")
  /\ badge' = iface[opened]
  /\ UNCHANGED <<want, opened, old, current, refused, startIntel, hostVars, pipeVars, intelVars>>

MainStep ==
  \/ BootSnapshot
  \/ BootChoose
  \/ BootOpen
  \/ Register("bootWire", "bootPublish")
  \/ BootPublish
  \/ Subscribe
  \/ TakeEvent
  \/ SwapOpen
  \/ Install
  \/ CloseOld
  \/ WaitForOld
  \/ Register("wire", "publish")
  \/ Publish

(* run() returns: it was closed, or its source has died under it. *)
PipelineEnds(p) ==
  /\ pstate[p] = "running"
  /\ closes[p] > 0 \/ ~alive[p]
  /\ pstate' = [pstate EXCEPT ![p] = "done"]
  /\ UNCHANGED <<iface, alive, closes, intel, hostVars, mainVars, intelVars>>

-----------------------------------------------------------------------------
(* refreshOnce up to the end of its lock section, when at least one feed   *)
(* could be fetched: the entries fetched replace all that was in memory.   *)
Refresh ==
  /\ tpc = "idle"
  /\ round < MaxRounds
  /\ round' = round + 1
  /\ tpc' = "refreshed"
  /\ UNCHANGED <<onUpdate, atRegister, target, hostVars, pipeVars, mainVars>>

(* s.onUpdate is read, without a lock, ... *)
ReadCallback ==
  /\ tpc = "refreshed"
  /\ target' = onUpdate
  /\ tpc' = IF onUpdate = NoPipe THEN "idle" ELSE "calling"
  /\ UNCHANGED <<round, onUpdate, atRegister, hostVars, pipeVars, mainVars>>

(* ... and called with a snapshot taken now. *)
CallBack ==
  /\ tpc = "calling"
  /\ intel' = [intel EXCEPT ![target] = round]
  /\ tpc' = "idle"
  /\ UNCHANGED <<round, onUpdate, atRegister, target, hostVars, pstate, iface, alive,
                 closes, mainVars>>

SupNext ==
  \/ \E i \in Ifaces, state \in {"absent", "down", "up"}, ebpf \in BOOLEAN :
       LinkChanges(i, state, ebpf)
  \/ RouteMoves
  \/ MainStep
  \/ \E p \in Pipes : PipelineEnds(p)
  \/ Refresh
  \/ ReadCallback
  \/ CallBack

SupSpec == SupInit /\ [][SupNext]_supVars

(* Goroutines run; a pipeline that is closed ends, as Pipeline shows. *)
SupFairness ==
  /\ WF_supVars(MainStep)
  /\ WF_supVars(ReadCallback \/ CallBack)
  /\ \A p \in Pipes : WF_supVars(closes[p] > 0 /\ PipelineEnds(p))
-----------------------------------------------------------------------------
PipeOrNone == Pipes \cup {NoPipe}
IfaceOrNone == Ifaces \cup {Any, NoIface}

HostTypeOK ==
  /\ mode \in {"explicit", "auto"}
  /\ link \in [Ifaces -> {"absent", "down", "up"}]
  /\ route \in Ifaces \cup {NoIface}
  /\ changes \in 0 .. MaxChanges /\ events \in Nat /\ missed \in BOOLEAN

PipeTypeOK ==
  /\ pstate \in [Pipes -> {"none", "running", "done"}]
  /\ iface \in [Pipes -> IfaceOrNone]
  /\ alive \in [Pipes -> BOOLEAN]
  /\ closes \in [Pipes -> Nat]
  /\ intel \in [Pipes -> Nat]

(* A step of the goroutine that uses a pipeline has one to use. *)
MainTypeOK ==
  /\ pc \in {"boot", "bootChoose", "bootOpen", "bootWire", "bootPublish", "subscribe",
             "unwatched", "watch", "open", "install", "close", "wait", "wire", "publish"}
  /\ want \in IfaceOrNone /\ badge \in IfaceOrNone
  /\ opened \in PipeOrNone /\ old \in PipeOrNone /\ current \in PipeOrNone
  /\ pc \in {"bootWire", "bootPublish", "install", "wire", "publish"} => opened \in Pipes
  /\ pc \in {"close", "wait"} => old \in Pipes /\ opened \in Pipes
  /\ pc \in {"bootOpen", "open"} => want # NoIface
  /\ refused \in BOOLEAN /\ startIntel \in Nat

IntelTypeOK ==
  /\ round \in Nat
  /\ onUpdate \in PipeOrNone /\ atRegister \in Nat
  /\ tpc \in {"idle", "refreshed", "calling"} /\ target \in PipeOrNone
  /\ tpc = "calling" => target \in Pipes

SupTypeOK == HostTypeOK /\ PipeTypeOK /\ MainTypeOK /\ IntelTypeOK

(* A swap never leaves two captures writing to the store: a pipeline at    *)
(* work is the current one, one not yet published or the one being closed. *)
OneCapture ==
  \A p \in Pipes : pstate[p] = "running" =>
    \/ p = current
    \/ p = opened /\ pc \in {"bootWire", "bootPublish", "install"}
    \/ p = old /\ pc \in {"close", "wait"}

(* "Pipeline.Close is not safe to call twice": however often interfaces    *)
(* come and go each is closed at most once, and never while it is current. *)
ClosedOnce ==
  \A p \in Pipes : closes[p] <= 1 /\ (p = current => closes[p] = 0)

(* "Keeps the running capture pipeline pointed at the best available       *)
(* interface": when all notifications have been handled and nothing has    *)
(* changed without one, the capture is on an interface captureIface would  *)
(* choose, and that is what the API shows, unless it could not be opened.  *)
OnBestWhenQuiet ==
  pc = "watch" /\ events = 0 /\ ~missed /\ ~refused =>
    current # NoPipe /\ iface[current] \in Best /\ badge = iface[current]

(* "So a long-running consumer can pick up fresh entries without           *)
(* restarting": when no swap is under way and the refresh loop rests, the  *)
(* pipeline at work has the latest snapshot, unless no refresh has ended   *)
(* since it was registered.                                                *)
CurrentHasLatest ==
  pc = "watch" /\ tpc = "idle" /\ current # NoPipe =>
    intel[current] = round \/ atRegister = round

(* The supervisor is never stuck in a swap: every notification is handled. *)
EventsHandled == (events > 0) ~> (events = 0 /\ pc = "watch")

(* "The overview runs with no live data until real capture becomes          *)
(* possible": once all notifications have been handled, a capture on an    *)
(* interface that is up delivers packets.                                  *)
CaptureIsAlive ==
  pc = "watch" /\ events = 0 /\ ~missed /\ current # NoPipe =>
    (iface[current] \in Up => alive[current])

(* A capture is handed over whole: never a second one at work, and none    *)
(* closed twice (main.go swapTo, pipeline.go Close).                       *)
HandedOver == OneCapture /\ ClosedOnce
=============================================================================
