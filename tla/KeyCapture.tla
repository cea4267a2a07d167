------------------------------ MODULE KeyCapture ------------------------------
(***************************************************************************)
(* Decryption of the host's own TLS (internal/gui/decrypt.go on top of     *)
(* internal/tlspeek): the Decryptor, the probes a Peeker attaches to       *)
(* libraries, and the goroutines that serve one enabling of it: the reader *)
(* of the ring buffer, drain, the periodic rescan and the scan of $PATH.   *)
(*                                                                         *)
(* A peeker and the stop channel made with it are one generation; 0 stands *)
(* for nil.  A plaintext chunk is known by the generation that read it.    *)
(* Previews, versions, the offsets of master keys and the text of the last *)
(* error are left out.                                                     *)
(***************************************************************************)
EXTENDS Integers, Sequences, FiniteSets

CONSTANTS
  Togglers,  \* requests that switch decryption on and off
  Libs,      \* libraries mapped by processes or reachable from $PATH
  Ruled,     \* those a decryption rule matches
  Pids,      \* processes using them
  RingCap,   \* decryptRingPerPID
  KeylogCap, \* keylogCap
  QueueCap,  \* room of the channel of events
  MaxLoads   \* bound: generations

ASSUME KeyAssumption ==
  /\ Ruled \subseteq Libs /\ IsFiniteSet(Libs)
  /\ RingCap \in Nat \ {0} /\ KeylogCap \in Nat \ {0}
  /\ QueueCap \in Nat \ {0} /\ MaxLoads \in Nat \ {0}

VARIABLES
  decryptor, \* the fields of the Decryptor
  peekers,   \* by generation
  stopped,   \* generations whose stop channel is closed
  drains,    \* the drain goroutine of a generation: "none", "running", "ended"
  workers    \* where each request and each scanning goroutine is

keyVars == <<decryptor, peekers, stopped, drains, workers>>

Gens == 1..MaxLoads
Hooks == {"write", "read", "readReturn"}
Rescanners == {"rescan"} \X Gens
Scanners == Rescanners \cup ({"pathScan"} \X Gens)
Workers == Togglers \cup Scanners

NothingKept == [p \in Pids |-> <<>>]
NoPeeker == [state |-> "unloaded", targets |-> {}, links |-> {}, queue |-> <<>>]
Resting(pc) == [pc |-> pc, gen |-> 0, todo |-> {}, total |-> 0]

KeyInit ==
  /\ decryptor = [enabled |-> FALSE, running |-> FALSE, attached |-> 0, held |-> 0,
                  byPID |-> NothingKept, keylog |-> <<>>]
  /\ peekers = [g \in Gens |-> NoPeeker]
  /\ stopped = {}
  /\ drains = [g \in Gens |-> "none"]
  /\ workers = [w \in Workers |-> Resting(IF w \in Togglers THEN "idle" ELSE "none")]

Is(w, pc) == workers[w].pc = pc
Step(w, pc) == workers' = [workers EXCEPT ![w].pc = pc]
Rest(w, pc) == workers' = [workers EXCEPT ![w] = Resting(pc)]
LastOf(s, n) == IF Len(s) > n THEN SubSeq(s, Len(s) - n + 1, Len(s)) ELSE s
-----------------------------------------------------------------------------
(* Enable and start.  The lock is not held between these steps.  When the  *)
(* programs cannot be loaded decryption stays enabled, so that it has to   *)
(* be disabled before it can be tried again.                               *)
Enable(t) ==
  /\ Is(t, "idle")
  /\ ~decryptor.enabled
  /\ decryptor' = [decryptor EXCEPT !.enabled = TRUE]
  /\ Step(t, "load")
  /\ UNCHANGED <<peekers, stopped, drains>>

LoadFails(t) ==
  /\ Is(t, "load")
  /\ decryptor' = [decryptor EXCEPT !.running = FALSE]
  /\ Step(t, "idle")
  /\ UNCHANGED <<peekers, stopped, drains>>

Load(t) ==
  /\ Is(t, "load")
  /\ \E g \in Gens :
       /\ \A h \in Gens : peekers[h].state = "unloaded" <=> h >= g
       /\ peekers' = [peekers EXCEPT ![g].state = "open"]
       /\ workers' = [workers EXCEPT ![t].pc = "find", ![t].gen = g]
  /\ UNCHANGED <<decryptor, stopped, drains>>

(* FindLibraries: some of the libraries, none if /proc cannot be read.     *)
FindLibraries(t) ==
  /\ Is(t, "find")
  /\ \E libs \in SUBSET Libs : workers' = [workers EXCEPT ![t].pc = "install", ![t].todo = libs]
  /\ UNCHANGED <<decryptor, peekers, stopped, drains>>

Install(t) ==
  /\ Is(t, "install")
  /\ decryptor' = [decryptor EXCEPT !.held = workers[t].gen]
  /\ Step(t, "attach")
  /\ UNCHANGED <<peekers, stopped, drains>>

(* After attachAll, start begins the goroutines of the generation, even    *)
(* when it has found nothing to probe.                                     *)
SpawnReaders(t) ==
  LET g == workers[t].gen IN
  /\ Is(t, "spawn")
  /\ drains' = [drains EXCEPT ![g] = "running"]
  /\ workers' = [workers EXCEPT ![t] = Resting("idle"),
                                ![<<"rescan", g>>].pc = "wait", ![<<"rescan", g>>].gen = g,
                                ![<<"pathScan", g>>].pc = "wait", ![<<"pathScan", g>>].gen = g]
  /\ UNCHANGED <<decryptor, peekers, stopped>>

(* Disable empties the Decryptor under its lock and closes the peeker      *)
(* after it.                                                               *)
Disable(t) ==
  LET g == decryptor.held IN
  /\ Is(t, "idle")
  /\ decryptor' = [decryptor EXCEPT !.enabled = FALSE, !.held = 0, !.running = FALSE,
                                    !.attached = 0, !.byPID = NothingKept, !.keylog = <<>>]
  /\ stopped' = stopped \cup ({g} \ {0})
  /\ IF g = 0 THEN UNCHANGED workers
     ELSE workers' = [workers EXCEPT ![t].pc = "close", ![t].gen = g]
  /\ UNCHANGED <<peekers, drains>>

(* The links go; what was attached stays on the peeker's list.             *)
ClosePeeker(t) ==
  /\ Is(t, "close")
  /\ peekers' = [peekers EXCEPT ![workers[t].gen].state = "closed", ![workers[t].gen].links = {}]
  /\ Rest(t, "idle")
  /\ UNCHANGED <<decryptor, stopped, drains>>
-----------------------------------------------------------------------------
(* Mutant: closing is not noticed.                                        *)
AttachedThoughClosed(peeker, lib, n) ==
  IF lib \in peeker.targets \/ lib \notin Ruled \/ n < Cardinality(Hooks) THEN peeker
  ELSE [peeker EXCEPT !.targets = @ \cup {lib}, !.links = @ \cup ({lib} \X Hooks)]

(* Attach, under the peeker's lock: all three probes of a library or none. *)
(* The kernel accepts the first n of them.                                 *)
Attached(peeker, lib, n) ==
  IF peeker.state = "closed" \/ lib \in peeker.targets \/ lib \notin Ruled \/ n < Cardinality(Hooks)
  THEN peeker
  ELSE [peeker EXCEPT !.targets = @ \cup {lib}, !.links = @ \cup ({lib} \X Hooks)]

AttachLib(w) ==
  /\ Is(w, "attach")
  /\ \E lib \in workers[w].todo, n \in 0..Cardinality(Hooks) :
       /\ peekers' = [peekers EXCEPT ![workers[w].gen] = Attached(@, lib, n)]
       /\ workers' = [workers EXCEPT ![w].todo = @ \ {lib}]
  /\ UNCHANGED <<decryptor, stopped, drains>>

(* attachAll counts the targets, then takes the Decryptor's lock.          *)
CountTargets(w) ==
  /\ Is(w, "attach")
  /\ workers[w].todo = {}
  /\ workers' = [workers EXCEPT ![w].pc = "publish",
                                ![w].total = Cardinality(peekers[workers[w].gen].targets)]
  /\ UNCHANGED <<decryptor, peekers, stopped, drains>>

PublishTargets(w) ==
  LET n == workers[w].total IN
  /\ Is(w, "publish")
  /\ decryptor' = [decryptor EXCEPT !.attached = n, !.running = @ \/ n > 0]
  /\ workers' = [workers EXCEPT ![w].total = 0,
                                ![w].pc = CASE w \in Togglers -> "spawn"
                                            [] w \in Rescanners -> "wait"
                                            [] OTHER -> "ended"]
  /\ UNCHANGED <<peekers, stopped, drains>>

(* A tick and the stop may both be ready: select takes either. When the    *)
(* libraries cannot be found it waits again, which changes nothing.        *)
Rescan(g) ==
  /\ Is(<<"rescan", g>>, "wait")
  /\ \E libs \in SUBSET Libs :
       workers' = [workers EXCEPT ![<<"rescan", g>>].pc = "attach", ![<<"rescan", g>>].todo = libs]
  /\ UNCHANGED <<decryptor, peekers, stopped, drains>>

RescanEnds(g) ==
  /\ Is(<<"rescan", g>>, "wait")
  /\ g \in stopped
  /\ Step(<<"rescan", g>>, "ended")
  /\ UNCHANGED <<decryptor, peekers, stopped, drains>>

(* The scan of $PATH tests the stop once, when it has its list.            *)
PathScan(g) ==
  /\ Is(<<"pathScan", g>>, "wait")
  /\ IF g \in stopped THEN Step(<<"pathScan", g>>, "ended")
     ELSE \E libs \in SUBSET Libs :
            workers' = [workers EXCEPT ![<<"pathScan", g>>].pc = "attach",
                                       ![<<"pathScan", g>>].todo = libs]
  /\ UNCHANGED <<decryptor, peekers, stopped, drains>>
-----------------------------------------------------------------------------
(* A probed process reads or writes; the goroutine of Events hands the     *)
(* record over, or drops it when the channel is full.                      *)
ReadRing(g) ==
  /\ peekers[g].state = "open" /\ peekers[g].links # {}
  /\ drains[g] # "none"
  /\ Len(peekers[g].queue) < QueueCap
  /\ \E p \in Pids, kind \in {"chunk", "keylog"} :
       peekers' = [peekers EXCEPT ![g].queue = Append(@, [pid |-> p, kind |-> kind])]
  /\ UNCHANGED <<decryptor, stopped, drains, workers>>

(* Mutant: whether decryption is still on is not asked again.              *)
RecordedAnyway(ev, g) ==
  IF ev.kind = "keylog" THEN [decryptor EXCEPT !.keylog = LastOf(Append(@, g), KeylogCap)]
  ELSE [decryptor EXCEPT !.byPID[ev.pid] = LastOf(Append(@, g), RingCap)]

(* Nothing is kept once decryption is off.                                 *)
Recorded(ev, g) ==
  CASE ~decryptor.enabled  -> decryptor
    [] decryptor.enabled /\ ev.kind = "keylog" ->
         [decryptor EXCEPT !.keylog = LastOf(Append(@, g), KeylogCap)]
    [] OTHER -> [decryptor EXCEPT !.byPID[ev.pid] = LastOf(Append(@, g), RingCap)]

Drain(g) ==
  /\ drains[g] = "running"
  /\ peekers[g].queue # <<>>
  /\ decryptor' = Recorded(Head(peekers[g].queue), g)
  /\ peekers' = [peekers EXCEPT ![g].queue = Tail(@)]
  /\ UNCHANGED <<stopped, drains, workers>>

DrainEnds(g) ==
  /\ drains[g] = "running"
  /\ g \in stopped \/ (peekers[g].state = "closed" /\ peekers[g].queue = <<>>)
  /\ drains' = [drains EXCEPT ![g] = "ended"]
  /\ UNCHANGED <<decryptor, peekers, stopped, workers>>

KeyNext ==
  \/ \E t \in Togglers :
       \/ Enable(t) \/ LoadFails(t) \/ Load(t) \/ FindLibraries(t)
       \/ Install(t) \/ SpawnReaders(t) \/ Disable(t) \/ ClosePeeker(t)
  \/ \E w \in Workers : AttachLib(w) \/ CountTargets(w) \/ PublishTargets(w)
  \/ \E g \in Gens :
       \/ Rescan(g) \/ RescanEnds(g) \/ PathScan(g)
       \/ ReadRing(g) \/ Drain(g) \/ DrainEnds(g)

KeySpec == KeyInit /\ [][KeyNext]_keyVars
-----------------------------------------------------------------------------
(* Every field has its type and every ring its bound.                      *)
KeyTypeOK ==
  /\ decryptor \in [enabled : BOOLEAN, running : BOOLEAN, attached : 0..Cardinality(Libs),
                    held : Gens \cup {0},
                    byPID : [Pids -> Seq(Gens)], keylog : Seq(Gens)]
  /\ peekers \in [Gens -> [state : {"unloaded", "open", "closed"}, targets : SUBSET Ruled,
                           links : SUBSET (Libs \X Hooks),
                           queue : Seq([pid : Pids, kind : {"chunk", "keylog"}])]]
  /\ stopped \subseteq Gens
  /\ drains \in [Gens -> {"none", "running", "ended"}]
  /\ workers \in [Workers -> [pc : {"idle", "load", "find", "install", "attach", "publish",
                                    "spawn", "close", "none", "wait", "ended"},
                              gen : Gens \cup {0}, todo : SUBSET Libs,
                              total : 0..Cardinality(Libs)]]

(* A generation some request is about to install or about to close.        *)
InHandOf(g) == \E t \in Togglers : workers[t].gen = g /\ workers[t].pc \in {"find", "install", "close"}

(* A library is probed at all three functions or at none, by the peeker    *)
(* that lists it; and a peeker with probes is the one the Decryptor holds  *)
(* while decryption is on, or is in the hands of the request installing or *)
(* closing it: a scan that is still attaching when decryption is switched  *)
(* off leaves nothing probed (peeker.go Attach, Close; decrypt.go Disable).*)
ProbesOwned ==
  \A g \in Gens :
    /\ peekers[g].state = "open" => peekers[g].links = peekers[g].targets \X Hooks
    /\ peekers[g].links # {} => (decryptor.enabled /\ decryptor.held = g) \/ InHandOf(g)

(* While decryption is off no plaintext and no key is held, although the   *)
(* reader of the last generation may still have records to deliver         *)
(* (decrypt.go Disable, record, recordKeylog); and while it is on, each    *)
(* ring is within its bound.                                               *)
KeptOnlyWhileOn ==
  /\ ~decryptor.enabled => decryptor.byPID = NothingKept /\ decryptor.keylog = <<>>
  /\ \A p \in Pids : Len(decryptor.byPID[p]) <= RingCap
  /\ Len(decryptor.keylog) <= KeylogCap

(* "Disable detaches the uprobes" (decrypt.go Disable): with decryption    *)
(* off and every request finished, nothing is probed.                      *)
DisableDetaches ==
  (~decryptor.enabled /\ \A t \in Togglers : Is(t, "idle")) =>
    \A g \in Gens : peekers[g].links = {}

=============================================================================
