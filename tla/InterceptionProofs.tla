-------------------------- MODULE InterceptionProofs --------------------------
(***************************************************************************)
(* Theorems about the two ways in which TLS is read: KeyCapture (types,    *)
(* that nothing is kept while decryption is off, and, when requests do not *)
(* overlap, who has probes attached) and Mitm (that the root pair belongs  *)
(* together and that what is recorded is what was relayed).                *)
(***************************************************************************)
EXTENDS KeyCapture, Mitm, SequenceTheorems, FiniteSetTheorems, NaturalsInduction,
        WellFoundedInduction, TLAPS

(* Where a worker is busy with a generation.                               *)
Busy == {"find", "install", "attach", "publish", "spawn", "close", "wait"}

(* A busy worker has a generation, and its peeker has been loaded.         *)
BusyWithLoaded ==
  \A w \in Workers : workers[w].pc \in Busy =>
    workers[w].gen \in Gens /\ peekers[workers[w].gen].state # "unloaded"

(* So has the one the Decryptor holds.                                     *)
HeldLoaded == decryptor.held \in Gens => peekers[decryptor.held].state # "unloaded"

KeyInv == KeyTypeOK /\ BusyWithLoaded /\ HeldLoaded

(* The type invariant in groups, so that an action's step opens those it   *)
(* disturbs.                                                               *)
DecryptorType == [enabled : BOOLEAN, running : BOOLEAN, attached : 0..Cardinality(Libs),
                  held : Gens \cup {0}, byPID : [Pids -> Seq(Gens)], keylog : Seq(Gens)]
Record == [pid : Pids, kind : {"chunk", "keylog"}]
PeekerType == [state : {"unloaded", "open", "closed"}, targets : SUBSET Ruled,
               links : SUBSET (Libs \X Hooks),
               queue : Seq(Record)]
WorkerType == [pc : {"idle", "load", "find", "install", "attach", "publish", "spawn", "close",
                     "none", "wait", "ended"},
               gen : Gens \cup {0}, todo : SUBSET Libs, total : 0..Cardinality(Libs)]

DecryptorOK == decryptor \in DecryptorType
PeekersOK == peekers \in [Gens -> PeekerType]
WorkersOK == workers \in [Workers -> WorkerType]
RestOK == stopped \subseteq Gens /\ drains \in [Gens -> {"none", "running", "ended"}]

LEMMA TypeGroups == KeyTypeOK <=> DecryptorOK /\ PeekersOK /\ WorkersOK /\ RestOK
  BY DEF KeyTypeOK, DecryptorOK, PeekersOK, WorkersOK, RestOK, DecryptorType, PeekerType, Record,
         WorkerType

(* A peeker that was loaded is so for good.                                *)
StaysLoaded == \A g \in Gens : peekers[g].state # "unloaded" => peekers'[g].state # "unloaded"

-----------------------------------------------------------------------------
(* Facts about the operators.                                              *)

(* A number of targets is one of the numbers there may be.                 *)
LEMMA TargetsCounted ==
  ASSUME NEW T \in SUBSET Ruled
  PROVE  Cardinality(T) \in 0..Cardinality(Libs)
<1>1. IsFiniteSet(Libs) /\ T \subseteq Libs
  BY KeyAssumption
<1> QED
  BY <1>1, FS_CardinalityType, FS_Subset

(* What is left of a ring is a sequence within the bound (decrypt.go       *)
(* record, recordKeylog).                                                  *)
LEMMA LastOfBounded ==
  ASSUME NEW S, NEW s \in Seq(S), NEW n \in Nat \ {0}
  PROVE  LastOf(s, n) \in Seq(S) /\ Len(LastOf(s, n)) <= n
<1>1. CASE Len(s) > n
  <2>1. LastOf(s, n) = SubSeq(s, Len(s) - n + 1, Len(s))
    BY <1>1 DEF LastOf
  <2>2. Len(s) - n + 1 \in 1..Len(s) /\ Len(s) \in Nat
    BY <1>1
  <2>3. \A i \in Len(s) - n + 1 .. Len(s) : s[i] \in S
    BY <2>2
  <2> QED
    BY <2>1, <2>2, <2>3
<1>2. CASE ~(Len(s) > n)
  BY <1>2 DEF LastOf
<1> QED
  BY <1>1, <1>2

(* A peeker's record keeps its type and its state when a library is        *)
(* attached.                                                               *)
LEMMA AttachedPeeker ==
  ASSUME NEW p \in PeekerType, NEW lib \in Libs, NEW n
  PROVE  Attached(p, lib, n) \in PeekerType /\ Attached(p, lib, n).state = p.state
  BY DEF Attached, PeekerType

(* A record is kept in the ring it belongs to, within the bound, and only  *)
(* while decryption is on; the rest of the Decryptor stays as it was.      *)
LEMMA RecordedKept ==
  ASSUME KeyTypeOK, KeptOnlyWhileOn,
         NEW ev \in [pid : Pids, kind : {"chunk", "keylog"}], NEW g \in Gens,
         decryptor' = Recorded(ev, g)
  PROVE  /\ decryptor' \in [enabled : BOOLEAN, running : BOOLEAN, attached : 0..Cardinality(Libs),
                            held : Gens \cup {0}, byPID : [Pids -> Seq(Gens)], keylog : Seq(Gens)]
         /\ decryptor'.enabled = decryptor.enabled /\ decryptor'.held = decryptor.held
         /\ KeptOnlyWhileOn'
<1> DEFINE key == LastOf(Append(decryptor.keylog, g), KeylogCap)
           ring == LastOf(Append(decryptor.byPID[ev.pid], g), RingCap)
<1>1. key \in Seq(Gens) /\ Len(key) <= KeylogCap
  <2>1. Append(decryptor.keylog, g) \in Seq(Gens)
    BY DEF KeyTypeOK
  <2> QED
    BY <2>1, LastOfBounded, KeyAssumption
<1>2. ring \in Seq(Gens) /\ Len(ring) <= RingCap
  <2>1. Append(decryptor.byPID[ev.pid], g) \in Seq(Gens)
    BY DEF KeyTypeOK
  <2> QED
    BY <2>1, LastOfBounded, KeyAssumption
<1> HIDE DEF key, ring
<1>3. CASE ~decryptor.enabled
  <2>1. decryptor' = decryptor
    BY <1>3 DEF Recorded
  <2>2. KeptOnlyWhileOn'
    BY <2>1 DEF KeptOnlyWhileOn, NothingKept
  <2> QED
    BY <2>1, <2>2 DEF KeyTypeOK
<1>4. CASE decryptor.enabled /\ ev.kind = "keylog"
  <2>1. decryptor' = [decryptor EXCEPT !.keylog = key]
    BY <1>4 DEF Recorded, key
  <2> QED
    BY <1>1, <1>4, <2>1 DEF KeyTypeOK, KeptOnlyWhileOn
<1>5. CASE decryptor.enabled /\ ev.kind # "keylog"
  <2>1. decryptor' = [decryptor EXCEPT !.byPID[ev.pid] = ring]
    BY <1>5 DEF Recorded, ring
  <2>2. decryptor.byPID \in [Pids -> Seq(Gens)] /\ ev.pid \in Pids
    BY DEF KeyTypeOK
  <2>3. decryptor'.byPID = [decryptor.byPID EXCEPT ![ev.pid] = ring]
    BY <2>1 DEF KeyTypeOK
  <2>4. decryptor'.byPID \in [Pids -> Seq(Gens)] /\ \A p \in Pids : Len(decryptor'.byPID[p]) <= RingCap
    BY <1>2, <2>2, <2>3 DEF KeptOnlyWhileOn
  <2>5. /\ decryptor'.enabled = decryptor.enabled /\ decryptor'.held = decryptor.held
        /\ decryptor'.keylog = decryptor.keylog
        /\ decryptor' \in [enabled : BOOLEAN, running : BOOLEAN, attached : 0..Cardinality(Libs),
                           held : Gens \cup {0}, byPID : [Pids -> Seq(Gens)], keylog : Seq(Gens)]
    BY <2>1, <2>3, <2>4 DEF KeyTypeOK
  <2> QED
    BY <1>5, <2>4, <2>5 DEF KeptOnlyWhileOn
<1> QED
  BY <1>3, <1>4, <1>5

-----------------------------------------------------------------------------
(* The invariant holds at first, and every action preserves it.            *)
LEMMA KeyInitHolds == KeyInit => KeyInv /\ KeptOnlyWhileOn
<1> SUFFICES ASSUME KeyInit PROVE KeyInv /\ KeptOnlyWhileOn
  OBVIOUS
<1>1. 0 \in 0..Cardinality(Libs)
  BY KeyAssumption, FS_CardinalityType
<1>2. <<>> \in Seq(Gens) /\ NothingKept \in [Pids -> Seq(Gens)]
  BY DEF NothingKept
<1>3. KeyTypeOK
  <2>1. DecryptorOK
    BY <1>1, <1>2 DEF KeyInit, DecryptorOK, DecryptorType
  <2>2. PeekersOK
    BY DEF KeyInit, NoPeeker, PeekersOK, PeekerType
  <2>3. WorkersOK
    BY <1>1 DEF KeyInit, WorkersOK, WorkerType, Resting
  <2>4. RestOK
    BY DEF KeyInit, RestOK
  <2> QED
    BY <2>1, <2>2, <2>3, <2>4, TypeGroups
<1>4. BusyWithLoaded
  BY DEF KeyInit, BusyWithLoaded, Busy, Resting
<1>5. KeptOnlyWhileOn
  BY <1>2, KeyAssumption DEF KeyInit, KeptOnlyWhileOn, NothingKept
<1>6. HeldLoaded
  BY DEF KeyInit, HeldLoaded, Gens
<1> QED
  BY <1>3, <1>4, <1>5, <1>6 DEF KeyInv

-----------------------------------------------------------------------------
(* What one step does to each group.                                       *)

(* A worker that moves, to a place where it has what it needs.             *)
LEMMA WorkerMoves ==
  ASSUME WorkersOK, BusyWithLoaded, StaysLoaded,
         NEW w \in Workers, NEW r \in WorkerType,
         r.pc \in Busy => r.gen \in Gens /\ peekers'[r.gen].state # "unloaded",
         workers' = [workers EXCEPT ![w] = r]
  PROVE  WorkersOK' /\ BusyWithLoaded'
<1>1. WorkersOK'
  BY DEF WorkersOK
<1>2. ASSUME NEW v \in Workers, workers'[v].pc \in Busy
      PROVE  workers'[v].gen \in Gens /\ peekers'[workers'[v].gen].state # "unloaded"
  <2>1. CASE v = w
    BY <1>2, <2>1 DEF WorkersOK
  <2>2. CASE v # w
    BY <1>2, <2>2 DEF WorkersOK, BusyWithLoaded, StaysLoaded
  <2> QED
    BY <2>1, <2>2
<1> QED
  BY <1>1, <1>2 DEF BusyWithLoaded

LEMMA HeadAndTail ==
  ASSUME NEW S, NEW q \in Seq(S), q # <<>>
  PROVE  Head(q) \in S /\ Tail(q) \in Seq(S)
  OBVIOUS

(* A peeker that changes keeps its type, and once loaded is not unloaded.  *)
LEMMA PeekerMoves ==
  ASSUME PeekersOK, NEW g \in Gens, NEW r \in PeekerType,
         peekers[g].state # "unloaded" => r.state # "unloaded",
         peekers' = [peekers EXCEPT ![g] = r]
  PROVE  PeekersOK' /\ StaysLoaded
  BY DEF PeekersOK, StaysLoaded

(* Only Load changes whether a peeker is loaded, and it loads one.         *)
LEMMA PeekersStep == KeyInv /\ [KeyNext]_keyVars => PeekersOK' /\ StaysLoaded
<1> SUFFICES ASSUME KeyInv, [KeyNext]_keyVars PROVE PeekersOK' /\ StaysLoaded
  OBVIOUS
<1>1. PeekersOK /\ WorkersOK
  BY TypeGroups DEF KeyInv
<1>2. CASE UNCHANGED peekers
  BY <1>1, <1>2 DEF PeekersOK, StaysLoaded
<1>3. ASSUME NEW t \in Togglers, Load(t) PROVE PeekersOK' /\ StaysLoaded
  <2>1. PICK g \in Gens : peekers' = [peekers EXCEPT ![g].state = "open"]
    BY <1>3 DEF Load
  <2> DEFINE r == [peekers[g] EXCEPT !.state = "open"]
  <2>2. r \in PeekerType /\ r.state # "unloaded"
    BY <1>1 DEF PeekersOK, PeekerType
  <2> QED
    BY <1>1, <2>1, <2>2, PeekerMoves
<1>4. ASSUME NEW t \in Togglers, ClosePeeker(t) PROVE PeekersOK' /\ StaysLoaded
  <2> DEFINE g == workers[t].gen
             r == [peekers[g] EXCEPT !.state = "closed", !.links = {}]
  <2>1. g \in Gens
    BY <1>4 DEF ClosePeeker, Is, KeyInv, BusyWithLoaded, Busy, Workers
  <2>2. peekers' = [peekers EXCEPT ![g] = r]
    BY <1>4 DEF ClosePeeker
  <2>3. r \in PeekerType /\ r.state # "unloaded"
    BY <1>1, <2>1 DEF PeekersOK, PeekerType
  <2> QED
    BY <1>1, <2>1, <2>2, <2>3, PeekerMoves
<1>5. ASSUME NEW w \in Workers, AttachLib(w) PROVE PeekersOK' /\ StaysLoaded
  <2>1. PICK lib \in workers[w].todo, n \in 0..Cardinality(Hooks) :
          peekers' = [peekers EXCEPT ![workers[w].gen] = Attached(@, lib, n)]
    BY <1>5 DEF AttachLib
  <2>2. lib \in Libs
    BY <1>1, <2>1 DEF WorkersOK, WorkerType
  <2>3. \A p \in PeekerType : Attached(p, lib, n) \in PeekerType /\ Attached(p, lib, n).state = p.state
    BY <2>2, AttachedPeeker
  <2> QED
    BY <1>1, <2>1, <2>3 DEF PeekersOK, StaysLoaded
<1>6. ASSUME NEW g \in Gens, ReadRing(g) PROVE PeekersOK' /\ StaysLoaded
  <2>1. PICK e \in Record : peekers' = [peekers EXCEPT ![g].queue = Append(@, e)]
    BY <1>6 DEF ReadRing, Record
  <2> DEFINE r == [peekers[g] EXCEPT !.queue = Append(@, e)]
  <2>2. Append(peekers[g].queue, e) \in Seq(Record)
    BY <1>1, <2>1 DEF PeekersOK, PeekerType
  <2>3. r \in PeekerType /\ r.state = peekers[g].state
    BY <1>1, <2>2 DEF PeekersOK, PeekerType
  <2> QED
    BY <1>1, <2>1, <2>3, PeekerMoves
<1>7. ASSUME NEW g \in Gens, Drain(g) PROVE PeekersOK' /\ StaysLoaded
  <2>1. peekers' = [peekers EXCEPT ![g].queue = Tail(@)] /\ peekers[g].queue # <<>>
    BY <1>7 DEF Drain
  <2> DEFINE r == [peekers[g] EXCEPT !.queue = Tail(@)]
  <2>2. peekers[g].queue \in Seq(Record)
    BY <1>1 DEF PeekersOK, PeekerType
  <2>3. Tail(peekers[g].queue) \in Seq(Record)
    BY <2>1, <2>2, HeadAndTail
  <2>4. r \in PeekerType /\ r.state = peekers[g].state
    BY <1>1, <2>3 DEF PeekersOK, PeekerType
  <2> QED
    BY <1>1, <2>1, <2>4, PeekerMoves
<1> QED
  BY <1>2, <1>3, <1>4, <1>5, <1>6, <1>7
     DEF KeyNext, keyVars, Enable, LoadFails, FindLibraries, Install, SpawnReaders, Disable,
         CountTargets, PublishTargets, Rescan, RescanEnds, PathScan, DrainEnds

(* The Decryptor keeps its type, and nothing while decryption is off.      *)
LEMMA DecryptorStep ==
  KeyInv /\ KeptOnlyWhileOn /\ [KeyNext]_keyVars => DecryptorOK' /\ KeptOnlyWhileOn'
<1> SUFFICES ASSUME KeyInv, KeptOnlyWhileOn, [KeyNext]_keyVars PROVE DecryptorOK' /\ KeptOnlyWhileOn'
  OBVIOUS
<1>1. DecryptorOK /\ WorkersOK /\ PeekersOK
  BY TypeGroups DEF KeyInv
<1>2. CASE UNCHANGED decryptor
  BY <1>1, <1>2 DEF DecryptorOK, KeptOnlyWhileOn, NothingKept
<1>3. ASSUME NEW t \in Togglers, Enable(t) PROVE DecryptorOK' /\ KeptOnlyWhileOn'
  BY <1>1, <1>3 DEF Enable, DecryptorOK, DecryptorType, KeptOnlyWhileOn, NothingKept
<1>4. ASSUME NEW t \in Togglers, LoadFails(t) PROVE DecryptorOK' /\ KeptOnlyWhileOn'
  BY <1>1, <1>4 DEF LoadFails, DecryptorOK, DecryptorType, KeptOnlyWhileOn, NothingKept
<1>5. ASSUME NEW t \in Togglers, Install(t) PROVE DecryptorOK' /\ KeptOnlyWhileOn'
  BY <1>1, <1>5 DEF Install, DecryptorOK, DecryptorType, WorkersOK, WorkerType, Workers,
                    KeptOnlyWhileOn, NothingKept
<1>6. ASSUME NEW t \in Togglers, Disable(t) PROVE DecryptorOK' /\ KeptOnlyWhileOn'
  <2>1. 0 \in 0..Cardinality(Libs)
    BY KeyAssumption, FS_CardinalityType
  <2>2. NothingKept \in [Pids -> Seq(Gens)] /\ \A p \in Pids : Len(NothingKept[p]) <= RingCap
    BY KeyAssumption DEF NothingKept
  <2>3. decryptor' = [decryptor EXCEPT !.enabled = FALSE, !.held = 0, !.running = FALSE,
                                       !.attached = 0, !.byPID = NothingKept, !.keylog = <<>>]
    BY <1>6 DEF Disable
  <2>4. /\ decryptor' \in DecryptorType
        /\ decryptor'.byPID = NothingKept /\ decryptor'.keylog = <<>>
    <3>1. <<>> \in Seq(Gens) /\ FALSE \in BOOLEAN /\ 0 \in Gens \cup {0}
      OBVIOUS
    <3>2. decryptor' = [decryptor EXCEPT !.enabled = FALSE, !.held = 0, !.running = FALSE,
                                         !.attached = 0, !.byPID = NothingKept, !.keylog = <<>>]
      BY <2>3
    <3> QED
      BY <1>1, <2>1, <2>2, <3>1, <3>2 DEF DecryptorOK, DecryptorType
  <2>5. Len(<<>>) <= KeylogCap
    BY KeyAssumption
  <2> QED
    BY <2>2, <2>4, <2>5 DEF DecryptorOK, KeptOnlyWhileOn, NothingKept
<1>7. ASSUME NEW w \in Workers, PublishTargets(w) PROVE DecryptorOK' /\ KeptOnlyWhileOn'
  <2>1. workers[w].total \in 0..Cardinality(Libs)
    BY <1>1 DEF WorkersOK, WorkerType
  <2>2. decryptor' = [decryptor EXCEPT !.attached = workers[w].total,
                                       !.running = @ \/ workers[w].total > 0]
    BY <1>7 DEF PublishTargets
  <2> QED
    BY <1>1, <2>1, <2>2 DEF DecryptorOK, DecryptorType, KeptOnlyWhileOn, NothingKept
<1>8. ASSUME NEW g \in Gens, Drain(g) PROVE DecryptorOK' /\ KeptOnlyWhileOn'
  <2>1. peekers[g].queue \in Seq(Record) /\ peekers[g].queue # <<>>
    BY <1>1, <1>8 DEF Drain, PeekersOK, PeekerType
  <2>2. Head(peekers[g].queue) \in Record
    BY <2>1, HeadAndTail
  <2>3. decryptor' = Recorded(Head(peekers[g].queue), g)
    BY <1>8 DEF Drain
  <2> QED
    BY <2>2, <2>3, RecordedKept DEF KeyInv, Record, DecryptorOK, DecryptorType
<1> QED
  BY <1>2, <1>3, <1>4, <1>5, <1>6, <1>7, <1>8
     DEF KeyNext, keyVars, Load, FindLibraries, SpawnReaders, ClosePeeker, AttachLib,
         CountTargets, Rescan, RescanEnds, PathScan, ReadRing, DrainEnds

(* A worker that only goes from one place to another.                      *)
Places == {"idle", "load", "find", "install", "attach", "publish", "spawn", "close",
           "none", "wait", "ended"}

LEMMA WorkerSteps ==
  ASSUME WorkersOK, BusyWithLoaded, StaysLoaded, NEW w \in Workers, NEW pc \in Places,
         pc \in Busy => workers[w].pc \in Busy, Step(w, pc)
  PROVE  WorkersOK' /\ BusyWithLoaded'
<1> DEFINE r == [workers[w] EXCEPT !.pc = pc]
<1>1. r \in WorkerType /\ r.pc = pc /\ r.gen = workers[w].gen
  BY DEF WorkersOK, WorkerType, Places
<1>2. pc \in Busy => r.gen \in Gens /\ peekers'[r.gen].state # "unloaded"
  BY <1>1 DEF BusyWithLoaded, StaysLoaded
<1>3. workers' = [workers EXCEPT ![w] = r]
  BY DEF Step
<1> QED
  BY <1>1, <1>2, <1>3, WorkerMoves

LEMMA WorkersStep == KeyInv /\ [KeyNext]_keyVars => WorkersOK' /\ BusyWithLoaded'
<1> SUFFICES ASSUME KeyInv, [KeyNext]_keyVars PROVE WorkersOK' /\ BusyWithLoaded'
  OBVIOUS
<1>1. WorkersOK /\ PeekersOK /\ DecryptorOK /\ BusyWithLoaded /\ HeldLoaded /\ StaysLoaded
  BY TypeGroups, PeekersStep DEF KeyInv
<1>2. Togglers \subseteq Workers /\ \A g \in Gens : <<"rescan", g>> \in Workers /\ <<"pathScan", g>> \in Workers
  BY DEF Workers, Scanners, Rescanners
<1>3. CASE UNCHANGED workers
  BY <1>1, <1>3 DEF WorkersOK, BusyWithLoaded, StaysLoaded
<1>4. ASSUME NEW t \in Togglers, Enable(t) \/ LoadFails(t) \/ Install(t)
      PROVE  WorkersOK' /\ BusyWithLoaded'
  <2>1. \E pc \in {"load", "idle", "attach"} : Step(t, pc) /\ (pc = "attach" => workers[t].pc = "install")
    BY <1>4 DEF Enable, LoadFails, Install, Is
  <2> QED
    BY <1>1, <1>2, <2>1, WorkerSteps DEF Busy, Places
<1>5. ASSUME NEW t \in Togglers, Load(t) PROVE WorkersOK' /\ BusyWithLoaded'
  <2>1. PICK g \in Gens : /\ peekers' = [peekers EXCEPT ![g].state = "open"]
                          /\ workers' = [workers EXCEPT ![t].pc = "find", ![t].gen = g]
    BY <1>5 DEF Load
  <2> DEFINE r == [workers[t] EXCEPT !.pc = "find", !.gen = g]
  <2>2. r \in WorkerType /\ r.gen = g
    BY <1>1, <1>2 DEF WorkersOK, WorkerType
  <2>3. peekers'[g].state # "unloaded"
    BY <1>1, <2>1 DEF PeekersOK, PeekerType
  <2>4. workers' = [workers EXCEPT ![t] = r]
    BY <2>1
  <2> QED
    BY <1>1, <1>2, <2>2, <2>3, <2>4, WorkerMoves
<1>6. ASSUME NEW t \in Togglers, FindLibraries(t) PROVE WorkersOK' /\ BusyWithLoaded'
  <2>1. PICK libs \in SUBSET Libs : workers' = [workers EXCEPT ![t].pc = "install", ![t].todo = libs]
    BY <1>6 DEF FindLibraries
  <2> DEFINE r == [workers[t] EXCEPT !.pc = "install", !.todo = libs]
  <2>2. r \in WorkerType /\ r.gen = workers[t].gen
    BY <1>1, <1>2 DEF WorkersOK, WorkerType
  <2>3. workers[t].pc \in Busy
    BY <1>6 DEF FindLibraries, Is, Busy
  <2>4. workers' = [workers EXCEPT ![t] = r]
    BY <2>1
  <2> QED
    BY <1>1, <1>2, <2>2, <2>3, <2>4, WorkerMoves DEF BusyWithLoaded, StaysLoaded
<1>7. ASSUME NEW t \in Togglers, SpawnReaders(t) PROVE WorkersOK' /\ BusyWithLoaded'
  <2> DEFINE g == workers[t].gen
             new(w) == CASE w = <<"rescan", g>> \/ w = <<"pathScan", g>> ->
                              [(IF w = t THEN Resting("idle") ELSE workers[w]) EXCEPT !.pc = "wait", !.gen = g]
                         [] w = t /\ ~(w = <<"rescan", g>> \/ w = <<"pathScan", g>>) -> Resting("idle")
                         [] OTHER -> workers[w]
  <2>1. g \in Gens /\ peekers'[g].state # "unloaded"
    BY <1>1, <1>2, <1>7 DEF SpawnReaders, Is, BusyWithLoaded, StaysLoaded, Busy
  <2>2. Resting("idle") \in WorkerType
    BY KeyAssumption, FS_CardinalityType DEF Resting, WorkerType
  <2>3. workers' = [workers EXCEPT ![t] = Resting("idle"),
                                   ![<<"rescan", g>>].pc = "wait", ![<<"rescan", g>>].gen = g,
                                   ![<<"pathScan", g>>].pc = "wait", ![<<"pathScan", g>>].gen = g]
    BY <1>7 DEF SpawnReaders
  <2>4. workers' = [w \in Workers |-> new(w)]
    BY <1>1, <1>2, <2>1, <2>2, <2>3 DEF WorkersOK
  <2>5. \A w \in Workers : /\ new(w) \in WorkerType
                           /\ new(w) = workers[w] \/ new(w).pc = "idle" \/ new(w).gen = g
    BY <1>1, <1>2, <2>1, <2>2 DEF WorkersOK, WorkerType, Resting
  <2> HIDE DEF new
  <2> QED
    BY <1>1, <2>1, <2>4, <2>5 DEF WorkersOK, BusyWithLoaded, StaysLoaded, Busy
<1>8. ASSUME NEW t \in Togglers, Disable(t) PROVE WorkersOK' /\ BusyWithLoaded'
  <2> DEFINE g == decryptor.held
             r == [workers[t] EXCEPT !.pc = "close", !.gen = g]
  <2>1. CASE g = 0
    BY <1>3, <1>8, <2>1 DEF Disable
  <2>2. CASE g # 0
    <3>1. g \in Gens /\ peekers'[g].state # "unloaded"
      BY <1>1, <2>2 DEF DecryptorOK, DecryptorType, HeldLoaded, StaysLoaded
    <3>2. r \in WorkerType /\ r.gen = g
      BY <1>1, <1>2, <3>1 DEF WorkersOK, WorkerType
    <3>3. workers' = [workers EXCEPT ![t] = r]
      BY <1>8, <2>2 DEF Disable
    <3> QED
      BY <1>1, <1>2, <3>1, <3>2, <3>3, WorkerMoves
  <2> QED
    BY <2>1, <2>2
<1>9. ASSUME NEW t \in Togglers, ClosePeeker(t) PROVE WorkersOK' /\ BusyWithLoaded'
  <2>1. Resting("idle") \in WorkerType /\ Resting("idle").pc = "idle"
    BY KeyAssumption, FS_CardinalityType DEF Resting, WorkerType
  <2>2. workers' = [workers EXCEPT ![t] = Resting("idle")]
    BY <1>9 DEF ClosePeeker, Rest
  <2> QED
    BY <1>1, <1>2, <2>1, <2>2, WorkerMoves DEF Busy
<1>10. ASSUME NEW w \in Workers, AttachLib(w) PROVE WorkersOK' /\ BusyWithLoaded'
  <2>1. PICK lib : workers' = [workers EXCEPT ![w].todo = @ \ {lib}]
    BY <1>10 DEF AttachLib
  <2> DEFINE r == [workers[w] EXCEPT !.todo = @ \ {lib}]
  <2>2. r \in WorkerType /\ r.gen = workers[w].gen /\ r.pc = workers[w].pc
    BY <1>1 DEF WorkersOK, WorkerType
  <2>3. workers' = [workers EXCEPT ![w] = r]
    BY <2>1
  <2> QED
    BY <1>1, <2>2, <2>3, WorkerMoves DEF BusyWithLoaded, StaysLoaded
<1>11. ASSUME NEW w \in Workers, CountTargets(w) PROVE WorkersOK' /\ BusyWithLoaded'
  <2> DEFINE n == Cardinality(peekers[workers[w].gen].targets)
             r == [workers[w] EXCEPT !.pc = "publish", !.total = n]
  <2>1. workers[w].pc \in Busy /\ workers[w].gen \in Gens
    BY <1>1, <1>11 DEF CountTargets, Is, Busy, BusyWithLoaded
  <2>2. n \in 0..Cardinality(Libs)
    BY <1>1, <2>1, TargetsCounted DEF PeekersOK, PeekerType
  <2>3. workers' = [workers EXCEPT ![w] = r]
    BY <1>11 DEF CountTargets
  <2> HIDE DEF n
  <2>4. r \in WorkerType /\ r.gen = workers[w].gen
    BY <1>1, <2>2 DEF WorkersOK, WorkerType
  <2> QED
    BY <1>1, <2>1, <2>3, <2>4, WorkerMoves DEF BusyWithLoaded, StaysLoaded
<1>12. ASSUME NEW w \in Workers, PublishTargets(w) PROVE WorkersOK' /\ BusyWithLoaded'
  <2> DEFINE pc == CASE w \in Togglers -> "spawn"
                     [] w \in Rescanners -> "wait"
                     [] OTHER -> "ended"
  <2>1. pc \in {"spawn", "wait", "ended"} /\ workers' = [workers EXCEPT ![w].total = 0, ![w].pc = pc]
    BY <1>12 DEF PublishTargets
  <2> HIDE DEF pc
  <2> DEFINE r == [workers[w] EXCEPT !.total = 0, !.pc = pc]
  <2>2. workers[w].pc \in Busy
    BY <1>12 DEF PublishTargets, Is, Busy
  <2>3. r \in WorkerType /\ r.gen = workers[w].gen
    <3>1. 0 \in 0..Cardinality(Libs)
      BY KeyAssumption, FS_CardinalityType
    <3> QED
      BY <1>1, <2>1, <3>1 DEF WorkersOK, WorkerType
  <2>4. workers' = [workers EXCEPT ![w] = r]
    BY <2>1
  <2> QED
    BY <1>1, <2>2, <2>3, <2>4, WorkerMoves DEF BusyWithLoaded, StaysLoaded
<1>13. ASSUME NEW g \in Gens, Rescan(g) \/ PathScan(g) \/ RescanEnds(g)
       PROVE  WorkersOK' /\ BusyWithLoaded'
  <2>1. PICK v \in {<<"rescan", g>>, <<"pathScan", g>>} :
          /\ Is(v, "wait")
          /\ \/ Step(v, "ended")
             \/ \E libs \in SUBSET Libs : workers' = [workers EXCEPT ![v].pc = "attach", ![v].todo = libs]
    BY <1>13 DEF Rescan, PathScan, RescanEnds
  <2>2. CASE Step(v, "ended")
    BY <1>1, <1>2, <2>1, <2>2, WorkerSteps DEF Places, Busy
  <2>3. ASSUME NEW libs \in SUBSET Libs, workers' = [workers EXCEPT ![v].pc = "attach", ![v].todo = libs]
        PROVE  WorkersOK' /\ BusyWithLoaded'
    <3> DEFINE r == [workers[v] EXCEPT !.pc = "attach", !.todo = libs]
    <3>0. v \in Workers
      BY <1>2, <2>1
    <3>1. r \in WorkerType /\ r.gen = workers[v].gen
      BY <1>1, <3>0 DEF WorkersOK, WorkerType
    <3>2. workers' = [workers EXCEPT ![v] = r] /\ workers[v].pc \in Busy
      BY <2>1, <2>3 DEF Is, Busy
    <3> QED
      BY <1>1, <3>0, <3>1, <3>2, WorkerMoves DEF BusyWithLoaded, StaysLoaded
  <2> QED
    BY <2>1, <2>2, <2>3
<1> QED
  BY <1>3, <1>4, <1>5, <1>6, <1>7, <1>8, <1>9, <1>10, <1>11, <1>12, <1>13
     DEF KeyNext, keyVars, ReadRing, Drain, DrainEnds

(* The Decryptor takes a peeker only from a request that has loaded it.    *)
LEMMA HeldStep == KeyInv /\ KeptOnlyWhileOn /\ [KeyNext]_keyVars => HeldLoaded'
<1> SUFFICES ASSUME KeyInv, KeptOnlyWhileOn, [KeyNext]_keyVars PROVE HeldLoaded'
  OBVIOUS
<1>1. DecryptorOK /\ WorkersOK /\ PeekersOK /\ BusyWithLoaded /\ HeldLoaded /\ StaysLoaded
  BY TypeGroups, PeekersStep DEF KeyInv
<1>2. CASE decryptor'.held = decryptor.held \/ decryptor'.held = 0
  BY <1>1, <1>2 DEF HeldLoaded, StaysLoaded, Gens
<1>3. ASSUME NEW t \in Togglers, Install(t) PROVE HeldLoaded'
  <2>1. decryptor'.held = workers[t].gen /\ workers[t].pc \in Busy
    BY <1>1, <1>3 DEF Install, Is, Busy, DecryptorOK, DecryptorType
  <2> QED
    BY <1>1, <2>1 DEF BusyWithLoaded, HeldLoaded, StaysLoaded, Workers
<1>4. ASSUME NEW g \in Gens, Drain(g) PROVE HeldLoaded'
  <2>1. peekers[g].queue \in Seq(Record) /\ peekers[g].queue # <<>>
    BY <1>1, <1>4 DEF Drain, PeekersOK, PeekerType
  <2>2. Head(peekers[g].queue) \in Record
    BY <2>1, HeadAndTail
  <2>3. decryptor' = Recorded(Head(peekers[g].queue), g)
    BY <1>4 DEF Drain
  <2>4. decryptor'.held = decryptor.held
    BY <2>2, <2>3, RecordedKept DEF KeyInv, Record
  <2> QED
    BY <1>2, <2>4
<1>5. ASSUME NEW t \in Togglers, Enable(t) \/ LoadFails(t) \/ Disable(t) PROVE HeldLoaded'
  <2>1. decryptor'.held = decryptor.held \/ decryptor'.held = 0
    BY <1>1, <1>5 DEF Enable, LoadFails, Disable, DecryptorOK, DecryptorType
  <2> QED
    BY <1>2, <2>1
<1>6. ASSUME NEW w \in Workers, PublishTargets(w) PROVE HeldLoaded'
  <2>1. decryptor'.held = decryptor.held
    BY <1>1, <1>6 DEF PublishTargets, DecryptorOK, DecryptorType
  <2> QED
    BY <1>2, <2>1
<1> QED
  BY <1>2, <1>3, <1>4, <1>5, <1>6
     DEF KeyNext, keyVars, Load, FindLibraries, SpawnReaders, ClosePeeker, AttachLib,
         CountTargets, Rescan, RescanEnds, PathScan, ReadRing, DrainEnds

LEMMA KeyStep ==
  KeyInv /\ KeptOnlyWhileOn /\ [KeyNext]_keyVars => KeyInv' /\ KeptOnlyWhileOn'
<1> SUFFICES ASSUME KeyInv, KeptOnlyWhileOn, [KeyNext]_keyVars PROVE KeyInv' /\ KeptOnlyWhileOn'
  OBVIOUS
<1>1. PeekersOK' /\ WorkersOK' /\ BusyWithLoaded'
  BY PeekersStep, WorkersStep
<1>2. DecryptorOK' /\ KeptOnlyWhileOn' /\ HeldLoaded'
  BY DecryptorStep, HeldStep
<1>3. RestOK'
  <2>1. RestOK /\ WorkersOK /\ DecryptorOK
    BY TypeGroups DEF KeyInv
  <2>2. CASE UNCHANGED <<stopped, drains>>
    BY <2>1, <2>2 DEF RestOK
  <2>3. ASSUME NEW t \in Togglers, SpawnReaders(t) PROVE RestOK'
    BY <2>1, <2>3 DEF SpawnReaders, RestOK
  <2>4. ASSUME NEW t \in Togglers, Disable(t) PROVE RestOK'
    BY <2>1, <2>4 DEF Disable, RestOK, DecryptorOK, DecryptorType
  <2>5. ASSUME NEW g \in Gens, DrainEnds(g) PROVE RestOK'
    BY <2>1, <2>5 DEF DrainEnds, RestOK
  <2> QED
    BY <2>2, <2>3, <2>4, <2>5
       DEF KeyNext, keyVars, Enable, LoadFails, Load, FindLibraries, Install, ClosePeeker,
           AttachLib, CountTargets, PublishTargets, Rescan, RescanEnds, PathScan, ReadRing, Drain
<1>4. KeyTypeOK'
  <2>1. KeyTypeOK' <=> DecryptorOK' /\ PeekersOK' /\ WorkersOK' /\ RestOK'
    BY TypeGroups, PTL
  <2> QED
    BY <1>1, <1>2, <1>3, <2>1
<1> QED
  BY <1>1, <1>2, <1>4 DEF KeyInv

LEMMA KeyInvariant == KeySpec => [](KeyInv /\ KeptOnlyWhileOn)
  BY KeyInitHolds, KeyStep, PTL DEF KeySpec

(* The types of key capture hold (decrypt.go, peeker.go).                  *)
THEOREM KeyCaptureTypes == KeySpec => []KeyTypeOK
  BY KeyInvariant, PTL DEF KeyInv

(* However many requests switch decryption on and off at once, and         *)
(* whatever readers of earlier generations still deliver: nothing is kept  *)
(* while it is off, and the rings are within their bounds.                 *)
THEOREM NothingKeptWhenOff == KeySpec => []KeptOnlyWhileOn
  BY KeyInvariant, PTL

-----------------------------------------------------------------------------
(* Requests that do not overlap.                                           *)
OneToggler == \A t, u \in Togglers : t = u

(* A peeker that is open is held, with decryption on, or in the hands of   *)
(* the request; one that is not has no probes; and while a request enables *)
(* decryption nothing is held yet.                                         *)
Owned ==
  /\ \A g \in Gens :
       /\ peekers[g].state = "open" =>
            /\ peekers[g].links = peekers[g].targets \X Hooks
            /\ (decryptor.enabled /\ decryptor.held = g) \/ InHandOf(g)
       /\ peekers[g].state # "open" => peekers[g].links = {}
       /\ peekers[g].state = "unloaded" => peekers[g].targets = {}
  /\ ~decryptor.enabled => decryptor.held = 0
  /\ \A t \in Togglers : workers[t].pc \in {"load", "find", "install"} =>
       decryptor.enabled /\ decryptor.held = 0

LEMMA OwnedImplies == KeyInv /\ Owned => ProbesOwned
  BY DEF Owned, ProbesOwned

(* A step that leaves every peeker, who is held and what a request has in  *)
(* its hands as they were.                                                 *)
LEMMA OwnedFrame ==
  ASSUME Owned,
         \A g \in Gens : /\ peekers'[g].state = peekers[g].state
                         /\ peekers'[g].links = peekers[g].links
                         /\ peekers'[g].targets = peekers[g].targets,
         decryptor'.enabled = decryptor.enabled, decryptor'.held = decryptor.held,
         \A t \in Togglers : workers[t].pc \in {"find", "install", "close"} =>
           workers'[t].pc \in {"find", "install", "close"} /\ workers'[t].gen = workers[t].gen,
         \A t \in Togglers : workers'[t].pc \in {"load", "find", "install"} =>
           workers[t].pc \in {"load", "find", "install"}
  PROVE  Owned'
<1>1. \A g \in Gens : InHandOf(g) => InHandOf(g)'
  BY DEF InHandOf
<1> QED
  BY <1>1 DEF Owned

LEMMA OwnedStep ==
  ASSUME OneToggler, KeyInv, KeptOnlyWhileOn, Owned, [KeyNext]_keyVars
  PROVE  Owned'
<1>1. /\ DecryptorOK /\ WorkersOK /\ PeekersOK /\ BusyWithLoaded
      /\ Togglers \subseteq Workers /\ 0 \notin Gens
  BY TypeGroups DEF KeyInv, Workers, Gens
<1>2. CASE UNCHANGED keyVars
  BY <1>2 DEF keyVars, Owned, InHandOf
<1>3. ASSUME NEW t \in Togglers, Enable(t) PROVE Owned'
  <2>1. /\ decryptor'.enabled /\ decryptor'.held = 0 /\ peekers' = peekers
        /\ workers[t].pc = "idle"
    BY <1>1, <1>3 DEF Enable, Is, Owned, DecryptorOK, DecryptorType
  <2>2. \A g \in Gens : peekers[g].state # "open"
    BY <1>3, <2>1 DEF Enable, Owned, InHandOf, OneToggler
  <2> QED
    BY <2>1, <2>2 DEF Owned
<1>4. ASSUME NEW t \in Togglers, LoadFails(t) PROVE Owned'
  <2>1. /\ decryptor'.enabled = decryptor.enabled /\ decryptor'.held = decryptor.held
        /\ peekers' = peekers
        /\ workers[t].pc = "load" /\ workers'[t].pc = "idle"
    BY <1>1, <1>4 DEF LoadFails, Is, Step, DecryptorOK, DecryptorType, WorkersOK, WorkerType
  <2> QED
    BY <2>1, OwnedFrame DEF OneToggler
<1>5. ASSUME NEW t \in Togglers, Load(t) PROVE Owned'
  <2>1. PICK g \in Gens : /\ peekers[g].state = "unloaded"
                          /\ peekers' = [peekers EXCEPT ![g].state = "open"]
                          /\ workers' = [workers EXCEPT ![t].pc = "find", ![t].gen = g]
    <3>1. \A g \in Gens : g >= g
      BY KeyAssumption DEF Gens
    <3> QED
      BY <1>5, <3>1 DEF Load
  <2>2. workers[t].pc = "load" /\ decryptor' = decryptor /\ decryptor.enabled /\ decryptor.held = 0
    BY <1>5 DEF Load, Is, Owned
  <2>3. \A h \in Gens : peekers[h].state # "open"
    BY <1>1, <2>2 DEF Owned, InHandOf, OneToggler
  <2>4. \A h \in Gens : h # g => peekers'[h] = peekers[h]
    BY <1>1, <2>1 DEF PeekersOK
  <2>5. /\ peekers'[g].state = "open"
        /\ peekers'[g].links = peekers[g].links /\ peekers'[g].targets = peekers[g].targets
    BY <1>1, <2>1 DEF PeekersOK, PeekerType
  <2>6. peekers[g].links = {} /\ peekers[g].targets = {}
    BY <2>1 DEF Owned
  <2>7. workers'[t].pc = "find" /\ workers'[t].gen = g
    BY <1>1, <2>1 DEF WorkersOK, WorkerType
  <2>8. {} = {} \X Hooks
    OBVIOUS
  <2>9. InHandOf(g)'
    BY <2>7 DEF InHandOf
  <2> QED
    BY <2>2, <2>3, <2>4, <2>5, <2>6, <2>8, <2>9 DEF Owned
<1>6. ASSUME NEW t \in Togglers, FindLibraries(t) PROVE Owned'
  <2>1. /\ decryptor' = decryptor /\ peekers' = peekers
        /\ workers[t].pc = "find" /\ workers'[t].pc = "install" /\ workers'[t].gen = workers[t].gen
    BY <1>1, <1>6 DEF FindLibraries, Is, WorkersOK, WorkerType
  <2> QED
    BY <2>1, OwnedFrame DEF OneToggler
<1>7. ASSUME NEW t \in Togglers, Install(t) PROVE Owned'
  <2>1. /\ decryptor'.held = workers[t].gen /\ decryptor'.enabled = decryptor.enabled
        /\ peekers' = peekers /\ workers[t].pc = "install" /\ workers'[t].pc = "attach"
    BY <1>1, <1>7 DEF Install, Is, Step, DecryptorOK, DecryptorType, WorkersOK, WorkerType
  <2>2. decryptor.enabled /\ decryptor.held = 0
    BY <2>1 DEF Owned
  <2>3. \A g \in Gens : peekers[g].state = "open" => g = workers[t].gen
    BY <1>1, <2>2 DEF Owned, InHandOf, OneToggler
  <2> QED
    BY <2>1, <2>2, <2>3 DEF Owned, OneToggler
<1>8. ASSUME NEW t \in Togglers, SpawnReaders(t) PROVE Owned'
  <2>1. decryptor' = decryptor /\ peekers' = peekers /\ workers[t].pc = "spawn"
    BY <1>8 DEF SpawnReaders, Is
  <2>2. workers'[t].pc \in {"idle", "wait"}
    BY <1>1, <1>8 DEF SpawnReaders, Resting, WorkersOK, WorkerType
  <2> QED
    BY <2>1, <2>2, OwnedFrame DEF OneToggler
<1>9. ASSUME NEW t \in Togglers, Disable(t) PROVE Owned'
  <2>1. /\ ~decryptor'.enabled /\ decryptor'.held = 0 /\ peekers' = peekers
        /\ workers[t].pc = "idle"
    BY <1>1, <1>9 DEF Disable, Is, DecryptorOK, DecryptorType
  <2>2. \A g \in Gens : peekers[g].state = "open" => decryptor.held = g
    BY <2>1 DEF Owned, InHandOf, OneToggler
  <2>3. decryptor.held # 0 => workers'[t].pc = "close" /\ workers'[t].gen = decryptor.held
    BY <1>1, <1>9 DEF Disable, WorkersOK, WorkerType
  <2>4. decryptor.held = 0 => workers'[t].pc = "idle"
    BY <1>9, <2>1 DEF Disable
  <2>5. \A g \in Gens : peekers'[g].state = "open" => InHandOf(g)'
    BY <1>1, <2>1, <2>2, <2>3 DEF InHandOf
  <2> QED
    BY <2>1, <2>3, <2>4, <2>5 DEF Owned, OneToggler
<1>10. ASSUME NEW t \in Togglers, ClosePeeker(t) PROVE Owned'
  <2> DEFINE g == workers[t].gen
  <2>1. /\ decryptor' = decryptor /\ workers[t].pc = "close" /\ workers'[t].pc = "idle"
    BY <1>1, <1>10 DEF ClosePeeker, Is, Rest, Resting, WorkersOK
  <2>2. g \in Gens
    BY <1>1, <2>1 DEF BusyWithLoaded, Busy
  <2>3. /\ peekers'[g].state = "closed" /\ peekers'[g].links = {}
        /\ \A h \in Gens : h # g => peekers'[h] = peekers[h]
    BY <1>1, <1>10, <2>2 DEF ClosePeeker, PeekersOK, PeekerType
  <2>4. \A h \in Gens : h # g /\ peekers[h].state = "open" => decryptor.enabled /\ decryptor.held = h
    BY DEF Owned, InHandOf, OneToggler
  <2> QED
    BY <2>1, <2>3, <2>4 DEF Owned, OneToggler
<1>11. ASSUME NEW w \in Workers, AttachLib(w) PROVE Owned'
  <2> DEFINE h == workers[w].gen
  <2>1. PICK lib \in workers[w].todo, n \in 0..Cardinality(Hooks) :
          /\ peekers' = [peekers EXCEPT ![h] = Attached(@, lib, n)]
          /\ workers' = [workers EXCEPT ![w].todo = @ \ {lib}]
    BY <1>11 DEF AttachLib
  <2>2. decryptor' = decryptor /\ h \in Gens /\ peekers[h].state # "unloaded"
    BY <1>1, <1>11 DEF AttachLib, Is, BusyWithLoaded, Busy
  <2>3. \A v \in Workers : workers'[v].pc = workers[v].pc /\ workers'[v].gen = workers[v].gen
    BY <1>1, <2>1 DEF WorkersOK, WorkerType
  <2>4. \A g \in Gens : InHandOf(g)' <=> InHandOf(g)
    BY <1>1, <2>3 DEF InHandOf
  <2>5. \A g \in Gens : g # h => peekers'[g] = peekers[g]
    BY <1>1, <2>1 DEF PeekersOK
  <2>6. /\ peekers'[h].state = peekers[h].state
        /\ peekers[h].state = "open" => peekers'[h].links = peekers'[h].targets \X Hooks
        /\ peekers[h].state = "closed" => peekers'[h].links = peekers[h].links
    <3>1. peekers'[h] = Attached(peekers[h], lib, n)
      BY <1>1, <2>1, <2>2 DEF PeekersOK
    <3>2. CASE peekers'[h] = peekers[h]
      BY <2>2, <3>2 DEF Owned
    <3>3. CASE peekers'[h] # peekers[h]
      <4>1. /\ peekers[h].state # "closed"
            /\ peekers'[h] = [peekers[h] EXCEPT !.targets = @ \cup {lib}, !.links = @ \cup ({lib} \X Hooks)]
        BY <3>1, <3>3 DEF Attached
      <4>2. peekers[h].state = "open"
        BY <1>1, <2>2, <4>1 DEF PeekersOK, PeekerType
      <4>3. /\ peekers'[h].state = peekers[h].state
            /\ peekers'[h].targets = peekers[h].targets \cup {lib}
            /\ peekers'[h].links = peekers[h].links \cup ({lib} \X Hooks)
        BY <1>1, <2>2, <4>1 DEF PeekersOK, PeekerType
      <4>4. peekers[h].links = peekers[h].targets \X Hooks
        BY <2>2, <4>2 DEF Owned
      <4>5. \A S, T : (S \cup T) \X Hooks = (S \X Hooks) \cup (T \X Hooks)
        OBVIOUS
      <4> QED
        BY <4>2, <4>3, <4>4, <4>5
    <3> QED
      BY <3>2, <3>3
  <2>7. peekers[h].state \in {"open", "closed"}
    BY <1>1, <2>2 DEF PeekersOK, PeekerType
  <2> QED
    BY <1>1, <2>2, <2>3, <2>4, <2>5, <2>6, <2>7 DEF Owned
<1>12. ASSUME NEW w \in Workers, CountTargets(w) \/ PublishTargets(w) PROVE Owned'
  <2>1. /\ peekers' = peekers
        /\ decryptor'.enabled = decryptor.enabled /\ decryptor'.held = decryptor.held
    BY <1>1, <1>12 DEF CountTargets, PublishTargets, DecryptorOK, DecryptorType
  <2>2. /\ workers[w].pc \in {"attach", "publish"} /\ workers'[w].pc \in {"publish", "spawn", "wait", "ended"}
        /\ \A v \in Workers : v # w => workers'[v] = workers[v]
    BY <1>1, <1>12 DEF CountTargets, PublishTargets, Is, WorkersOK, WorkerType
  <2> QED
    BY <1>1, <2>1, <2>2, OwnedFrame
<1>13. ASSUME NEW g \in Gens, Rescan(g) \/ PathScan(g) \/ RescanEnds(g) PROVE Owned'
  <2>1. decryptor' = decryptor /\ peekers' = peekers
    BY <1>13 DEF Rescan, PathScan, RescanEnds
  <2>2. PICK v \in {<<"rescan", g>>, <<"pathScan", g>>} :
          /\ workers[v].pc = "wait"
          /\ \/ workers' = [workers EXCEPT ![v].pc = "ended"]
             \/ \E libs \in SUBSET Libs : workers' = [workers EXCEPT ![v].pc = "attach", ![v].todo = libs]
    BY <1>13 DEF Rescan, PathScan, RescanEnds, Is, Step
  <2>3. v \in Workers
    BY <2>2 DEF Workers, Scanners, Rescanners
  <2>4. workers'[v].pc \in {"ended", "attach"} /\ \A u \in Workers : u # v => workers'[u] = workers[u]
    BY <1>1, <2>2, <2>3 DEF WorkersOK, WorkerType
  <2> QED
    BY <1>1, <2>1, <2>2, <2>4, OwnedFrame
<1>14. ASSUME NEW g \in Gens, ReadRing(g) \/ DrainEnds(g) PROVE Owned'
  <2>1. decryptor' = decryptor /\ workers' = workers
    BY <1>14 DEF ReadRing, DrainEnds
  <2>2. \A h \in Gens : /\ peekers'[h].state = peekers[h].state
                        /\ peekers'[h].links = peekers[h].links
                        /\ peekers'[h].targets = peekers[h].targets
    <3>1. CASE DrainEnds(g)
      BY <3>1 DEF DrainEnds
    <3>2. CASE ReadRing(g)
      <4>1. PICK e \in Record : peekers' = [peekers EXCEPT ![g].queue = Append(@, e)]
        BY <3>2 DEF ReadRing, Record
      <4> QED
        BY <1>1, <4>1 DEF PeekersOK, PeekerType
    <3> QED
      BY <1>14, <3>1, <3>2
  <2> QED
    BY <2>1, <2>2, OwnedFrame
<1>15. ASSUME NEW g \in Gens, Drain(g) PROVE Owned'
  <2>1. workers' = workers /\ decryptor' = Recorded(Head(peekers[g].queue), g)
    BY <1>15 DEF Drain
  <2>2. \A h \in Gens : /\ peekers'[h].state = peekers[h].state
                        /\ peekers'[h].links = peekers[h].links
                        /\ peekers'[h].targets = peekers[h].targets
    BY <1>1, <1>15 DEF Drain, PeekersOK, PeekerType
  <2>3. peekers[g].queue \in Seq(Record) /\ peekers[g].queue # <<>>
    BY <1>1, <1>15 DEF Drain, PeekersOK, PeekerType
  <2>4. Head(peekers[g].queue) \in Record
    BY <2>3, HeadAndTail
  <2>5. decryptor'.enabled = decryptor.enabled /\ decryptor'.held = decryptor.held
    BY <2>1, <2>4, RecordedKept DEF KeyInv, Record
  <2> QED
    BY <2>1, <2>2, <2>5, OwnedFrame
<1> QED
  BY <1>2, <1>3, <1>4, <1>5, <1>6, <1>7, <1>8, <1>9, <1>10, <1>11, <1>12, <1>13, <1>14, <1>15
     DEF KeyNext

(* Requests that do not overlap leave probes only with the peeker in use:  *)
(* a scan that is still attaching when decryption is switched off attaches *)
(* nothing that stays (peeker.go Attach, Close; decrypt.go Disable). That  *)
(* they do not overlap is needed: see DisableDetaches.                     *)
THEOREM ProbesAreOwned == ASSUME OneToggler PROVE KeySpec => []ProbesOwned
<1>1. KeyInit => Owned
  BY DEF KeyInit, Owned, NoPeeker, Resting, Workers
<1>2. KeyInv /\ KeptOnlyWhileOn /\ Owned /\ [KeyNext]_keyVars => Owned'
  BY OwnedStep
<1> QED
  BY <1>1, <1>2, KeyInvariant, OwnedImplies, PTL DEF KeySpec

-----------------------------------------------------------------------------
(* The decrypting proxy.  Of the naturals in a set there is a least.       *)
LEMMA LeastNat ==
  ASSUME NEW T \in SUBSET Nat, T # {}
  PROVE  \E x \in T : \A y \in T : x <= y
<1> DEFINE R == OpToRel(<, Nat)
<1>1. IsWellFoundedOn(R, Nat)
  BY NatLessThanWellFounded
<1>2. \A x, y \in Nat : y < x => <<y, x>> \in R
  BY DEF OpToRel
<1> HIDE DEF R
<1>3. PICK x \in T : \A y \in T : ~ (<<y, x>> \in R)
  BY <1>1, WFMin
<1>4. \A y \in T : y \in Nat /\ x \in Nat /\ ~(y < x)
  BY <1>2, <1>3
<1>5. \A y \in T : x <= y
  BY <1>4
<1> QED
  BY <1>5

(* What a step makes of each result, beginning with e, is a function, for  *)
(* any number of steps.                                                    *)
StepFcns(S, n) == [1..n -> [S -> S]]
Iterates(f, S, e, n, step) ==
  f \in [0..n -> S] /\ f[0] = e /\ \A i \in 1..n : f[i] = step[i][f[i - 1]]

LEMMA OneBefore ==
  ASSUME NEW n \in Nat, NEW i \in 1..n
  PROVE  i \in 0..n /\ i - 1 \in 0..n /\ i # 0
  OBVIOUS

LEMMA Iterated ==
  ASSUME NEW S, NEW e \in S, NEW n \in Nat, NEW step \in StepFcns(S, n)
  PROVE  \E f : Iterates(f, S, e, n, step)
<1> DEFINE Up(m) == \E f : Iterates(f, S, e, m, step)
           T == {m \in 0..n : ~Up(m)}
<1>1. SUFFICES Up(n)
  OBVIOUS
<1>2. Up(0)
  <2>1. [i \in 0..0 |-> e] \in [0..0 -> S] /\ [i \in 0..0 |-> e][0] = e /\ 1..0 = {}
    OBVIOUS
  <2> QED
    BY <2>1 DEF Iterates
<1>3. ASSUME NEW m \in 1..n, Up(m - 1) PROVE Up(m)
  <2>1. PICK f : Iterates(f, S, e, m - 1, step)
    BY <1>3
  <2>2. f \in [0..m - 1 -> S] /\ f[0] = e /\ \A i \in 1..m - 1 : f[i] = step[i][f[i - 1]]
    BY <2>1 DEF Iterates
  <2> DEFINE h == [i \in 0..m |-> IF i = m THEN step[m][f[m - 1]] ELSE f[i]]
  <2>3. step[m][f[m - 1]] \in S
    BY <2>2 DEF StepFcns
  <2>4. h \in [0..m -> S] /\ h[0] = e
    BY <2>2, <2>3
  <2>5. \A i \in 1..m : h[i] = step[i][h[i - 1]]
    BY <2>2
  <2> QED
    BY <2>4, <2>5 DEF Iterates
<1> HIDE DEF Up
<1>4. T \in SUBSET Nat
  OBVIOUS
<1>5. SUFFICES ASSUME T # {} PROVE FALSE
  BY <1>5
<1>6. PICK m \in T : \A k \in T : m <= k
  <2> HIDE DEF T
  <2> QED
    BY <1>4, <1>5, LeastNat
<1>7. m \in 1..n /\ m - 1 \in 0..n /\ m - 1 \notin T
  BY <1>2, <1>6
<1>8. Up(m - 1) /\ ~Up(m)
  BY <1>6, <1>7
<1> QED
  BY <1>3, <1>7, <1>8

(* The sums of the beginnings of a body.                                   *)
Sums(s, body) ==
  /\ s \in [0..Len(body) -> Nat]
  /\ s[0] = 0 /\ \A i \in 1..Len(body) : s[i] = s[i - 1] + body[i]

LEMMA SumIs ==
  ASSUME NEW body \in Seq(Nat)
  PROVE  \E s : Sums(s, body) /\ Sum(body) = s[Len(body)]
<1> DEFINE n == Len(body)
           step == [i \in 1..n |-> [k \in Nat |-> k + body[i]]]
           IsTable(f) == f = [i \in 0..n |-> IF i = 0 THEN 0 ELSE f[i - 1] + body[i]]
<1>1. n \in Nat /\ 0 \in Nat
  OBVIOUS
<1>2. \A i \in 1..n : body[i] \in Nat /\ step[i] = [k \in Nat |-> k + body[i]]
  OBVIOUS
<1>3. step \in StepFcns(Nat, n)
  BY DEF StepFcns
<1>4. Sum(body) = (CHOOSE f : IsTable(f))[n]
  BY DEF Sum
<1> HIDE DEF n, step
<1>5. PICK f : Iterates(f, Nat, 0, n, step)
  BY <1>1, <1>3, Iterated
<1>6. f \in [0..n -> Nat] /\ f[0] = 0 /\ \A i \in 1..n : f[i] = f[i - 1] + body[i]
  <2>1. f \in [0..n -> Nat] /\ f[0] = 0
    BY <1>5 DEF Iterates
  <2>2. ASSUME NEW i \in 1..n PROVE f[i] = f[i - 1] + body[i]
    <3>1. f[i - 1] \in Nat
      BY <1>1, <2>1, OneBefore
    <3>2. f[i] = step[i][f[i - 1]]
      BY <1>5 DEF Iterates
    <3> QED
      BY <1>2, <3>1, <3>2
  <2> QED
    BY <2>1, <2>2
<1>7. IsTable(f)
  BY <1>1, <1>6
<1>8. PICK table : IsTable(table) /\ Sum(body) = table[n]
  BY <1>4, <1>7
<1>9. table[0] = 0 /\ \A i \in 1..n : table[i] = table[i - 1] + body[i]
  BY <1>1, <1>8, OneBefore
<1> DEFINE T == {i \in 0..n : table[i] \notin Nat}
<1>10. T = {}
  <2>1. SUFFICES ASSUME T # {} PROVE FALSE
    BY <2>1
  <2>2. T \in SUBSET Nat
    BY <1>1
  <2>3. PICK i \in T : \A k \in T : i <= k
    <3> HIDE DEF T
    <3> QED
      BY <2>1, <2>2, LeastNat
  <2>4. i # 0 /\ i \in 1..n /\ i - 1 \in 0..n /\ i - 1 \notin T
    BY <1>1, <1>9, <2>3
  <2>5. table[i] = table[i - 1] + body[i] /\ body[i] \in Nat
    BY <1>2, <1>9, <2>4
  <2> QED
    BY <2>3, <2>4, <2>5
<1>11. table \in [0..n -> Nat]
  BY <1>8, <1>10
<1> QED
  BY <1>8, <1>9, <1>11 DEF Sums, n

(* The captures of the beginnings of a body.                               *)
CaptureType == [kept : 0..BodyCap, trunc : BOOLEAN]
Captures(c, body) ==
  /\ c \in [0..Len(body) -> CaptureType]
  /\ c[0] = EmptyCapture /\ \A i \in 1..Len(body) : c[i] = WritePiece(c[i - 1], body[i])

(* A capture stays within its limit (proxy.go cappedBuffer.Write).         *)
LEMMA CaptureKept ==
  ASSUME NEW c \in CaptureType, NEW k \in Nat
  PROVE  WritePiece(c, k) \in CaptureType
  BY MitmAssumption DEF CaptureType, WritePiece, Room

LEMMA CapturedIs ==
  ASSUME NEW body \in Seq(Nat)
  PROVE  \E c : Captures(c, body) /\ Captured(body) = c[Len(body)]
<1> DEFINE n == Len(body)
           step == [i \in 1..n |-> [c \in CaptureType |-> WritePiece(c, body[i])]]
           IsTable(f) == f = [i \in 0..n |-> IF i = 0 THEN EmptyCapture ELSE WritePiece(f[i - 1], body[i])]
<1>1. n \in Nat /\ EmptyCapture \in CaptureType
  BY MitmAssumption DEF EmptyCapture, CaptureType
<1>2. \A i \in 1..n : body[i] \in Nat /\ step[i] = [c \in CaptureType |-> WritePiece(c, body[i])]
  OBVIOUS
<1>3. step \in StepFcns(CaptureType, n)
  BY CaptureKept DEF StepFcns
<1>4. Captured(body) = (CHOOSE f : IsTable(f))[n]
  BY DEF Captured
<1> HIDE DEF n, step
<1>5. PICK f : Iterates(f, CaptureType, EmptyCapture, n, step)
  BY <1>1, <1>3, Iterated
<1>6. /\ f \in [0..n -> CaptureType] /\ f[0] = EmptyCapture
      /\ \A i \in 1..n : f[i] = WritePiece(f[i - 1], body[i])
  <2>1. f \in [0..n -> CaptureType] /\ f[0] = EmptyCapture
    BY <1>5 DEF Iterates
  <2>2. ASSUME NEW i \in 1..n PROVE f[i] = WritePiece(f[i - 1], body[i])
    <3>1. f[i - 1] \in CaptureType
      BY <1>1, <2>1, OneBefore
    <3>2. f[i] = step[i][f[i - 1]]
      BY <1>5 DEF Iterates
    <3> QED
      BY <1>2, <3>1, <3>2
  <2> QED
    BY <2>1, <2>2
<1>7. IsTable(f)
  BY <1>1, <1>6
<1>8. PICK table : IsTable(table) /\ Captured(body) = table[n]
  BY <1>4, <1>7
<1>9. table[0] = EmptyCapture /\ \A i \in 1..n : table[i] = WritePiece(table[i - 1], body[i])
  BY <1>1, <1>8, OneBefore
<1> DEFINE T == {i \in 0..n : table[i] \notin CaptureType}
<1>10. T = {}
  <2>1. SUFFICES ASSUME T # {} PROVE FALSE
    BY <2>1
  <2>2. T \in SUBSET Nat
    BY <1>1
  <2>3. PICK i \in T : \A k \in T : i <= k
    <3> HIDE DEF T
    <3> QED
      BY <2>1, <2>2, LeastNat
  <2>4. i # 0 /\ i \in 1..n /\ i - 1 \in 0..n /\ i - 1 \notin T
    BY <1>1, <1>9, <2>3
  <2>5. table[i] = WritePiece(table[i - 1], body[i]) /\ body[i] \in Nat
    BY <1>2, <1>9, <2>4
  <2> QED
    BY <2>3, <2>4, <2>5, CaptureKept
<1>11. table \in [0..n -> CaptureType]
  BY <1>8, <1>10
<1> QED
  BY <1>8, <1>9, <1>11 DEF Captures, n

(* What is kept of a body is all of it or its first BodyCap bytes, and it  *)
(* is said to be cut exactly when it is (proxy.go cappedBuffer).           *)
CutRight(sum, capture) ==
  /\ capture.kept = IF sum < BodyCap THEN sum ELSE BodyCap
  /\ capture.trunc <=> sum > BodyCap

LEMMA CapturedRight ==
  ASSUME NEW body \in Seq(Nat)
  PROVE  Sum(body) \in Nat /\ CutRight(Sum(body), Captured(body))
<1> DEFINE n == Len(body)
<1>1. PICK s : Sums(s, body) /\ Sum(body) = s[n]
  BY SumIs
<1>2. PICK c : Captures(c, body) /\ Captured(body) = c[n]
  BY CapturedIs
<1> DEFINE T == {i \in 0..n : ~CutRight(s[i], c[i])}
<1>3. /\ n \in Nat /\ T \in SUBSET Nat /\ \A i \in 1..n : body[i] \in Nat
      /\ s \in [0..n -> Nat] /\ \A i \in 1..n : s[i] = s[i - 1] + body[i]
      /\ c \in [0..n -> CaptureType] /\ \A i \in 1..n : c[i] = WritePiece(c[i - 1], body[i])
  BY <1>1, <1>2 DEF Sums, Captures
<1> HIDE DEF n
<1>4. T = {}
  <2>1. SUFFICES ASSUME T # {} PROVE FALSE
    BY <2>1
  <2>2. PICK i \in T : \A k \in T : i <= k
    <3> HIDE DEF T
    <3> QED
      BY <1>3, <2>1, LeastNat
  <2>3. CutRight(s[0], c[0])
    BY <1>1, <1>2, MitmAssumption DEF Sums, Captures, EmptyCapture, CutRight
  <2>4. i \in 1..n /\ i - 1 \in 0..n /\ i - 1 \notin T
    BY <1>3, <2>2, <2>3
  <2>5. CutRight(s[i - 1], c[i - 1])
    BY <2>4
  <2>6. s[i] = s[i - 1] + body[i] /\ s[i - 1] \in Nat /\ body[i] \in Nat
    BY <1>3, <2>4
  <2>7. c[i] = WritePiece(c[i - 1], body[i]) /\ c[i - 1] \in CaptureType
    BY <1>3, <2>4
  <2>8. CutRight(s[i], c[i])
    <3> DEFINE a == s[i - 1]
               b == body[i]
               d == c[i - 1]
    <3>1. a \in Nat /\ b \in Nat /\ d \in CaptureType /\ CutRight(a, d)
      BY <2>5, <2>6, <2>7
    <3> HIDE DEF a, b, d
    <3>2. CutRight(a + b, WritePiece(d, b))
      <4> DEFINE w == WritePiece(d, b)
      <4>1. /\ w.kept = d.kept + (IF BodyCap - d.kept > b THEN b ELSE BodyCap - d.kept)
            /\ w.trunc <=> d.trunc \/ BodyCap - d.kept < b
        BY DEF WritePiece, Room
      <4>2. d.kept \in Nat /\ d.kept <= BodyCap /\ BodyCap \in Nat
        BY <3>1, MitmAssumption DEF CaptureType
      <4>3. d.kept = (IF a < BodyCap THEN a ELSE BodyCap) /\ (d.trunc <=> a > BodyCap)
        BY <3>1 DEF CutRight
      <4> HIDE DEF w
      <4>4. w.kept = IF a + b < BodyCap THEN a + b ELSE BodyCap
        BY <3>1, <4>1, <4>2, <4>3
      <4>5. w.trunc <=> a + b > BodyCap
        BY <3>1, <4>1, <4>2, <4>3
      <4> QED
        BY <4>4, <4>5 DEF CutRight, w
    <3> QED
      BY <2>6, <2>7, <3>2 DEF a, b, d
  <2> QED
    BY <2>2, <2>8
<1>5. n \in 0..n /\ s[n] \in Nat
  BY <1>3
<1> QED
  BY <1>1, <1>2, <1>4, <1>5
-----------------------------------------------------------------------------
(* The invariant of the proxy.                                             *)
Halves == {Spoilt, Missing} \cup 1..MaxPairs
Writing == {"first", "between", "second"}

RootOK ==
  /\ disk \in [cert : Halves, key : Halves] /\ pairs \in 1..MaxPairs
  /\ boot \in Writing \cup {"off", "up"}
  /\ ca \in [cert : Halves, key : Halves]
  /\ boot # "up" => ca = NoCA
  /\ boot = "up" => Usable(ca.cert) /\ ca.key = ca.cert

(* A certificate that can be read lies beside its own key; while a pair is *)
(* written there is none, and from the moment its key is there it is the   *)
(* key of the pair being written.                                          *)
RootTogether ==
  /\ Usable(disk.cert) => disk.key = disk.cert
  /\ boot \in Writing => ~Usable(disk.cert)
  /\ boot \in {"between", "second"} => disk.key = pairs

LeavesOK == clock \in 0..MaxClock /\ leaves \in [Hosts -> 0..MaxClock + LeafLife]

LeafType == [until : Nat, at : Nat]
TunnelType == [pc : {"idle", "open", "forward"}, leaf : LeafType, owed : Nat,
               body : Seq(Nat), close : BOOLEAN]
TunnelsOK ==
  /\ tunnels \in [Tunnels -> TunnelType]
  /\ \A t \in Tunnels : tunnels[t].owed = 0 /\ tunnels[t].leaf.at < tunnels[t].leaf.until

ExchangeType == [id : Nat, sent : Nat, req : CaptureType, got : Nat, resp : CaptureType]
RingRight(ring, n) ==
  /\ ring \in Seq(ExchangeType) /\ Len(ring) <= Limit
  /\ \A i \in 1..Len(ring) :
       /\ ring[i].id = n - Len(ring) + i
       /\ CutRight(ring[i].sent, ring[i].req) /\ CutRight(ring[i].got, ring[i].resp)
RingOK == recorded \in 0..MaxExchanges /\ RingRight(exchanges, recorded)

ListenerOK == listener \in {"none", "open", "closed"}

MitmInv == RootOK /\ RootTogether /\ LeavesOK /\ TunnelsOK /\ RingOK /\ ListenerOK

LEMMA IdleOK == Idle \in TunnelType /\ Idle.owed = 0 /\ Idle.leaf.at < Idle.leaf.until
<1>1. Idle.leaf \in LeafType /\ Idle.leaf.at < Idle.leaf.until
  BY DEF Idle, LeafType
<1>2. <<>> \in Seq(Nat)
  OBVIOUS
<1> QED
  BY <1>1, <1>2 DEF Idle, TunnelType

LEMMA MitmInitOK == MitmInit => MitmInv
<1> SUFFICES ASSUME MitmInit PROVE MitmInv
  OBVIOUS
<1>1. RootOK /\ RootTogether
  <2>1. disk \in [cert : Halves, key : Halves] /\ (Usable(disk.cert) => disk.key = disk.cert)
    BY MitmAssumption DEF MitmInit, Halves
  <2> QED
    BY <2>1, MitmAssumption DEF MitmInit, RootOK, RootTogether, NoCA, Halves, Writing
<1>2. LeavesOK
  BY MitmAssumption DEF MitmInit, LeavesOK
<1>3. TunnelsOK
  BY IdleOK DEF MitmInit, TunnelsOK
<1>4. RingOK /\ ListenerOK
  BY MitmAssumption DEF MitmInit, RingOK, RingRight, ListenerOK
<1> QED
  BY <1>1, <1>2, <1>3, <1>4 DEF MitmInv

(* The root pair is disturbed by LoadOrCreate and by the end of the        *)
(* process only.                                                           *)
LEMMA RootStep == RootOK /\ RootTogether /\ [MitmNext]_mitmVars => RootOK' /\ RootTogether'
<1> SUFFICES ASSUME RootOK, RootTogether, [MitmNext]_mitmVars PROVE RootOK' /\ RootTogether'
  OBVIOUS
<1> USE MitmAssumption DEF RootOK, RootTogether, Halves, Writing, Usable, Missing, Spoilt
<1>1. CASE LoadPair
  BY <1>1 DEF LoadPair
<1>2. CASE EmptyFirst
  <2>1. disk' = [cert |-> disk.cert, key |-> Spoilt]
    BY <1>2 DEF EmptyFirst, FirstHalf
  <2> QED
    BY <1>2, <2>1 DEF EmptyFirst
<1>3. CASE FillFirst
  <2>1. disk' = [cert |-> disk.cert, key |-> pairs]
    BY <1>3 DEF FillFirst, FirstHalf
  <2> QED
    BY <1>3, <2>1 DEF FillFirst
<1>4. SecondHalf = "cert"
  BY DEF SecondHalf, FirstHalf
<1>5. CASE EmptySecond
  <2>1. disk' = [cert |-> Spoilt, key |-> disk.key]
    BY <1>4, <1>5 DEF EmptySecond
  <2> QED
    BY <1>5, <2>1 DEF EmptySecond
<1>6. CASE FillSecond
  <2>1. disk' = [cert |-> pairs, key |-> disk.key]
    BY <1>4, <1>6 DEF FillSecond
  <2> QED
    BY <1>6, <2>1 DEF FillSecond
<1>7. CASE CrashMitm
  BY <1>7 DEF CrashMitm, NoCA
<1>8. CASE UNCHANGED onDisk
  BY <1>8 DEF onDisk
<1>9. ASSUME NEW t \in Tunnels, \/ \E h \in Hosts : Handshake(t, h)
                                \/ ReadRequest(t) \/ TunnelEnds(t) \/ ForwardFails(t) \/ Relay(t)
      PROVE  UNCHANGED onDisk
  BY <1>9 DEF Handshake, ReadRequest, TunnelEnds, ForwardFails, Relay
<1>10. CASE ListenAndServe \/ CloseProxy \/ MitmTick \/ UNCHANGED mitmVars
  BY <1>8, <1>10 DEF ListenAndServe, CloseProxy, MitmTick, mitmVars, onDisk
<1> QED
  BY <1>1, <1>2, <1>3, <1>5, <1>6, <1>7, <1>8, <1>9, <1>10 DEF MitmNext, LoadOrCreate

(* A leaf shown is a day old at most its life, and never past it           *)
(* (leaf.go IssueLeaf).                                                    *)
LEMMA LeafShown ==
  ASSUME LeavesOK, NEW h \in Hosts
  PROVE  LeafFor(h) \in 0..MaxClock + LeafLife /\ clock < LeafFor(h)
  BY MitmAssumption DEF LeavesOK, LeafFor

LEMMA LeavesStep == LeavesOK /\ [MitmNext]_mitmVars => LeavesOK'
<1> SUFFICES ASSUME LeavesOK, [MitmNext]_mitmVars PROVE LeavesOK'
  OBVIOUS
<1>1. ASSUME NEW t \in Tunnels, NEW h \in Hosts, Handshake(t, h) PROVE LeavesOK'
  BY <1>1, LeafShown DEF Handshake, LeavesOK
<1>2. CASE MitmTick
  BY <1>2, MitmAssumption DEF MitmTick, LeavesOK
<1>3. CASE CrashMitm
  BY <1>3, MitmAssumption DEF CrashMitm, LeavesOK
<1>4. CASE UNCHANGED <<clock, leaves>>
  BY <1>4 DEF LeavesOK
<1>5. CASE LoadOrCreate \/ ListenAndServe \/ CloseProxy \/ UNCHANGED mitmVars
  BY <1>4, <1>5 DEF LoadOrCreate, ListenAndServe, CloseProxy, mitmVars
<1>6. ASSUME NEW t \in Tunnels, ReadRequest(t) \/ TunnelEnds(t) \/ ForwardFails(t) \/ Relay(t)
      PROVE  UNCHANGED <<clock, leaves>>
  BY <1>6 DEF ReadRequest, TunnelEnds, ForwardFails, Relay
<1> QED
  BY <1>1, <1>2, <1>3, <1>4, <1>5, <1>6 DEF MitmNext

(* A tunnel's record keeps its type through each of its steps.             *)
LEMMA TunnelMoves ==
  ASSUME TunnelsOK, NEW t \in Tunnels, NEW r \in TunnelType, r.owed = 0, r.leaf.at < r.leaf.until,
         tunnels' = [tunnels EXCEPT ![t] = r]
  PROVE  TunnelsOK'
  BY DEF TunnelsOK

(* The client of a tunnel that may serve another request has the whole of  *)
(* the response (proxy.go serveDecrypted).                                 *)
LEMMA NothingOwed ==
  ASSUME NEW reply \in Seq(Nat), NEW n \in 0..Len(reply), NEW known \in BOOLEAN, NEW close,
         MayReuse(n = Len(reply), known, close)
  PROVE  (IF known THEN Sum(reply) - Sum(SubSeq(reply, 1, n)) ELSE 1) = 0
<1>1. known /\ n = Len(reply)
  BY DEF MayReuse
<1>2. SubSeq(reply, 1, n) = reply
  BY <1>1, SubSeqFull
<1>3. Sum(reply) \in Nat
  BY CapturedRight
<1>4. Sum(SubSeq(reply, 1, n)) = Sum(reply)
  BY <1>2
<1> DEFINE a == Sum(reply)
           b == Sum(SubSeq(reply, 1, n))
<1>5. a \in Nat /\ b = a
  BY <1>3, <1>4
<1> HIDE DEF a, b
<1>6. (IF known THEN a - b ELSE 1) = 0
  BY <1>1, <1>5
<1> QED
  BY <1>6 DEF a, b

LEMMA TunnelsStep ==
  LeavesOK /\ TunnelsOK /\ [MitmNext]_mitmVars => TunnelsOK'
<1> SUFFICES ASSUME LeavesOK, TunnelsOK, [MitmNext]_mitmVars PROVE TunnelsOK'
  OBVIOUS
<1>1. ASSUME NEW t \in Tunnels, NEW h \in Hosts, Handshake(t, h) PROVE TunnelsOK'
  <2> DEFINE leaf == [until |-> LeafFor(h), at |-> clock]
             r == [Idle EXCEPT !.pc = "open", !.leaf = leaf]
  <2>1. leaf \in LeafType /\ leaf.at < leaf.until
    BY LeafShown, MitmAssumption DEF LeafType, LeavesOK
  <2> HIDE DEF leaf
  <2>2. r \in TunnelType /\ r.owed = 0 /\ r.leaf = leaf
    BY <2>1, IdleOK DEF TunnelType, Idle
  <2>3. tunnels' = [tunnels EXCEPT ![t] = r] \/ tunnels' = tunnels
    BY <1>1 DEF Handshake, leaf
  <2> HIDE DEF r
  <2>4. CASE tunnels' = [tunnels EXCEPT ![t] = r]
    BY <2>1, <2>2, <2>4, TunnelMoves
  <2>5. CASE tunnels' = tunnels
    BY <2>5 DEF TunnelsOK
  <2> QED
    BY <2>3, <2>4, <2>5
<1>2. ASSUME NEW t \in Tunnels, ReadRequest(t) PROVE TunnelsOK'
  <2>1. PICK body \in Bodies, close \in BOOLEAN :
          tunnels' = [tunnels EXCEPT ![t].pc = "forward", ![t].body = body, ![t].close = close]
    BY <1>2 DEF ReadRequest
  <2> DEFINE r == [tunnels[t] EXCEPT !.pc = "forward", !.body = body, !.close = close]
  <2>2. body \in Seq(Nat) /\ tunnels[t] \in TunnelType
    BY MitmAssumption DEF TunnelsOK
  <2>3. r \in TunnelType /\ r.owed = tunnels[t].owed /\ r.leaf = tunnels[t].leaf
    BY <2>2 DEF TunnelType
  <2>4. tunnels' = [tunnels EXCEPT ![t] = r]
    BY <2>1 DEF TunnelsOK
  <2> HIDE DEF r
  <2> QED
    BY <2>3, <2>4, TunnelMoves DEF TunnelsOK
<1>3. ASSUME NEW t \in Tunnels, tunnels' = [tunnels EXCEPT ![t] = Idle] PROVE TunnelsOK'
  BY <1>3, TunnelMoves, IdleOK
<1>4. ASSUME NEW t \in Tunnels, Relay(t) PROVE TunnelsOK'
  <2>0. PICK reply \in Bodies, known \in BOOLEAN : \E n \in 0..Len(reply) :
          tunnels' = [tunnels EXCEPT ![t] =
            IF MayReuse(n = Len(reply), known, tunnels[t].close)
            THEN [@ EXCEPT !.pc = "open", !.body = <<>>, !.close = FALSE,
                           !.owed = IF known THEN Sum(reply) - Sum(SubSeq(reply, 1, n)) ELSE 1]
            ELSE Idle]
    BY <1>4 DEF Relay
  <2>1. PICK n \in 0..Len(reply) :
          tunnels' = [tunnels EXCEPT ![t] =
            IF MayReuse(n = Len(reply), known, tunnels[t].close)
            THEN [@ EXCEPT !.pc = "open", !.body = <<>>, !.close = FALSE,
                           !.owed = IF known THEN Sum(reply) - Sum(SubSeq(reply, 1, n)) ELSE 1]
            ELSE Idle]
    BY <2>0
  <2>2. reply \in Seq(Nat) /\ tunnels[t] \in TunnelType
    BY MitmAssumption DEF TunnelsOK
  <2>3. CASE MayReuse(n = Len(reply), known, tunnels[t].close)
    <3> DEFINE owed == IF known THEN Sum(reply) - Sum(SubSeq(reply, 1, n)) ELSE 1
               r == [tunnels[t] EXCEPT !.pc = "open", !.body = <<>>, !.close = FALSE, !.owed = owed]
    <3>1. owed = 0
      BY <2>2, <2>3, NothingOwed
    <3>2. tunnels' = [tunnels EXCEPT ![t] = r]
      BY <2>1, <2>3 DEF TunnelsOK
    <3> HIDE DEF owed
    <3>3. <<>> \in Seq(Nat)
      OBVIOUS
    <3>4. r \in TunnelType /\ r.owed = 0 /\ r.leaf = tunnels[t].leaf
      BY <2>2, <3>1, <3>3 DEF TunnelType
    <3> HIDE DEF r
    <3> QED
      BY <3>2, <3>4, TunnelMoves DEF TunnelsOK
  <2>4. CASE ~MayReuse(n = Len(reply), known, tunnels[t].close)
    BY <1>3, <2>1, <2>4
  <2> QED
    BY <2>3, <2>4
<1>5. CASE CrashMitm
  BY <1>5, IdleOK DEF CrashMitm, TunnelsOK
<1>6. CASE UNCHANGED tunnels
  BY <1>6 DEF TunnelsOK
<1>7. CASE LoadOrCreate \/ ListenAndServe \/ CloseProxy \/ MitmTick \/ UNCHANGED mitmVars
  BY <1>6, <1>7 DEF LoadOrCreate, ListenAndServe, CloseProxy, MitmTick, mitmVars
<1>8. ASSUME NEW t \in Tunnels, TunnelEnds(t) \/ ForwardFails(t)
      PROVE  tunnels' = [tunnels EXCEPT ![t] = Idle]
  BY <1>8 DEF TunnelEnds, ForwardFails
<1> QED
  BY <1>1, <1>2, <1>3, <1>4, <1>5, <1>6, <1>7, <1>8 DEF MitmNext

(* A new exchange takes its place in the ring with the next number, and    *)
(* the oldest makes room for it (store.go put).                            *)
LEMMA RingPut ==
  ASSUME RingOK, NEW ex \in ExchangeType, ex.id = recorded + 1,
         CutRight(ex.sent, ex.req), CutRight(ex.got, ex.resp), Put(ex)
  PROVE  RingOK'
<1> DEFINE longer == Append(exchanges, ex)
           shorter == Tail(longer)
           n == Len(exchanges)
<1>1. /\ recorded < MaxExchanges /\ recorded' = recorded + 1
      /\ exchanges' = IF Len(longer) > Limit THEN shorter ELSE longer
  BY DEF Put
<1>2. /\ longer \in Seq(ExchangeType) /\ Len(longer) = n + 1
      /\ \A i \in 1..n : longer[i] = exchanges[i]
      /\ longer[n + 1] = ex
  BY AppendProperties DEF RingOK, RingRight
<1>3. /\ n \in Nat /\ n <= Limit /\ Limit \in Nat
      /\ recorded \in 0..MaxExchanges /\ MaxExchanges \in Nat
  BY MitmAssumption DEF RingOK, RingRight
<1>4. \A i \in 1..n : /\ exchanges[i].id = recorded - n + i
                      /\ CutRight(exchanges[i].sent, exchanges[i].req)
                      /\ CutRight(exchanges[i].got, exchanges[i].resp)
  BY DEF RingOK, RingRight
<1>5. /\ shorter \in Seq(ExchangeType) /\ Len(shorter) = n
      /\ \A i \in 1..n : shorter[i] = longer[i + 1]
  <2>1. longer # <<>>
    BY AppendProperties DEF RingOK, RingRight
  <2> HIDE DEF longer, n
  <2>2. /\ shorter \in Seq(ExchangeType) /\ Len(shorter) = Len(longer) - 1
        /\ \A i \in 1..Len(shorter) : shorter[i] = longer[i + 1]
    BY <1>2, <2>1, HeadTailProperties
  <2> HIDE DEF shorter
  <2> QED
    BY <1>2, <1>3, <2>2
<1> HIDE DEF longer, shorter, n
<1>6. ASSUME NEW i \in 1..n + 1
      PROVE  /\ longer[i].id = recorded - n + i
             /\ CutRight(longer[i].sent, longer[i].req) /\ CutRight(longer[i].got, longer[i].resp)
  <2>1. CASE i = n + 1
    BY <1>2, <1>3, <2>1
  <2>2. CASE i \in 1..n
    BY <1>2, <1>4, <2>2
  <2> QED
    BY <1>3, <2>1, <2>2
<1>7. CASE n + 1 > Limit
  <2>1. ASSUME NEW i \in 1..n
        PROVE  /\ shorter[i].id = recorded + 1 - n + i
               /\ CutRight(shorter[i].sent, shorter[i].req) /\ CutRight(shorter[i].got, shorter[i].resp)
    <3>1. i + 1 \in 1..n + 1 /\ shorter[i] = longer[i + 1]
      BY <1>3, <1>5
    <3>2. /\ longer[i + 1].id = recorded - n + (i + 1)
          /\ CutRight(longer[i + 1].sent, longer[i + 1].req)
          /\ CutRight(longer[i + 1].got, longer[i + 1].resp)
      BY <1>6, <3>1
    <3>3. recorded - n + (i + 1) = recorded + 1 - n + i
      BY <1>3
    <3> QED
      BY <3>1, <3>2, <3>3
  <2>2. RingRight(shorter, recorded + 1)
    BY <1>3, <1>5, <2>1 DEF RingRight
  <2>3. exchanges' = shorter
    BY <1>1, <1>2, <1>7
  <2> QED
    BY <1>1, <1>3, <2>2, <2>3 DEF RingOK
<1>8. CASE ~(n + 1 > Limit)
  <2>1. ASSUME NEW i \in 1..n + 1
        PROVE  /\ longer[i].id = recorded + 1 - (n + 1) + i
               /\ CutRight(longer[i].sent, longer[i].req) /\ CutRight(longer[i].got, longer[i].resp)
    BY <1>3, <1>6
  <2>2. RingRight(longer, recorded + 1)
    BY <1>2, <1>3, <1>8, <2>1 DEF RingRight
  <2>3. exchanges' = longer
    BY <1>1, <1>2, <1>8
  <2> QED
    BY <1>1, <1>3, <2>2, <2>3 DEF RingOK
<1> QED
  BY <1>7, <1>8

(* What is recorded of a request and its response has the next number and  *)
(* is cut where it says (proxy.go serveDecrypted).                         *)
LEMMA ExchangeRight ==
  ASSUME RingOK, NEW t, NEW sent \in Seq(Nat), NEW reply \in Seq(Nat)
  PROVE  /\ Exchange(t, sent, reply) \in ExchangeType
         /\ Exchange(t, sent, reply).id = recorded + 1
         /\ CutRight(Exchange(t, sent, reply).sent, Exchange(t, sent, reply).req)
         /\ CutRight(Exchange(t, sent, reply).got, Exchange(t, sent, reply).resp)
<1>1. recorded + 1 \in Nat
  BY MitmAssumption DEF RingOK
<1>2. /\ Sum(sent) \in Nat /\ CutRight(Sum(sent), Captured(sent))
      /\ Sum(reply) \in Nat /\ CutRight(Sum(reply), Captured(reply))
  BY CapturedRight
<1>3. Captured(sent) \in CaptureType /\ Captured(reply) \in CaptureType
  <2>1. ASSUME NEW body \in Seq(Nat) PROVE Captured(body) \in CaptureType
    <3>1. PICK c : Captures(c, body) /\ Captured(body) = c[Len(body)]
      BY CapturedIs
    <3>2. Len(body) \in 0..Len(body)
      OBVIOUS
    <3> QED
      BY <3>1, <3>2 DEF Captures
  <2> QED
    BY <2>1
<1> QED
  BY <1>1, <1>2, <1>3 DEF Exchange, ExchangeType

(* A part of a body that has been passed on is a body.                     *)
LEMMA BeginningIsBody ==
  ASSUME NEW body \in Seq(Nat), NEW n \in 0..Len(body)
  PROVE  SubSeq(body, 1, n) \in Seq(Nat)
<1>1. \A i \in 1..n : body[i] \in Nat
  OBVIOUS
<1> QED
  BY <1>1, SubSeqProperties

LEMMA RingStep == TunnelsOK /\ RingOK /\ [MitmNext]_mitmVars => RingOK'
<1> SUFFICES ASSUME TunnelsOK, RingOK, [MitmNext]_mitmVars PROVE RingOK'
  OBVIOUS
<1>1. <<>> \in Seq(Nat)
  OBVIOUS
<1>2. ASSUME NEW t \in Tunnels, ForwardFails(t) PROVE RingOK'
  <2>1. tunnels[t].body \in Seq(Nat)
    BY DEF TunnelsOK, TunnelType
  <2>2. PICK n \in 0..Len(tunnels[t].body) : Put(Exchange(t, SubSeq(tunnels[t].body, 1, n), <<>>))
    BY <1>2 DEF ForwardFails
  <2>3. SubSeq(tunnels[t].body, 1, n) \in Seq(Nat)
    BY <2>1, BeginningIsBody
  <2> QED
    BY <1>1, <2>2, <2>3, ExchangeRight, RingPut
<1>3. ASSUME NEW t \in Tunnels, Relay(t) PROVE RingOK'
  <2>1. tunnels[t].body \in Seq(Nat)
    BY DEF TunnelsOK, TunnelType
  <2>2. PICK reply \in Bodies : \E n \in 0..Len(reply) :
          Put(Exchange(t, tunnels[t].body, SubSeq(reply, 1, n)))
    BY <1>3 DEF Relay
  <2>3. PICK n \in 0..Len(reply) :
          Put(Exchange(t, tunnels[t].body, SubSeq(reply, 1, n)))
    BY <2>2
  <2>4. SubSeq(reply, 1, n) \in Seq(Nat)
    BY MitmAssumption, BeginningIsBody
  <2> QED
    BY <2>1, <2>3, <2>4, ExchangeRight, RingPut
<1>4. CASE CrashMitm
  BY <1>4, MitmAssumption DEF CrashMitm, RingOK, RingRight
<1>5. CASE UNCHANGED <<exchanges, recorded>>
  BY <1>5 DEF RingOK
<1>6. CASE LoadOrCreate \/ ListenAndServe \/ CloseProxy \/ MitmTick \/ UNCHANGED mitmVars
  BY <1>5, <1>6 DEF LoadOrCreate, ListenAndServe, CloseProxy, MitmTick, mitmVars
<1>7. ASSUME NEW t \in Tunnels, (\E h \in Hosts : Handshake(t, h)) \/ ReadRequest(t) \/ TunnelEnds(t)
      PROVE  UNCHANGED <<exchanges, recorded>>
  BY <1>7 DEF Handshake, ReadRequest, TunnelEnds
<1> QED
  BY <1>2, <1>3, <1>4, <1>5, <1>6, <1>7 DEF MitmNext

LEMMA ListenerStep == ListenerOK /\ [MitmNext]_mitmVars => ListenerOK'
  BY DEF ListenerOK, MitmNext, mitmVars, LoadOrCreate, CrashMitm, ListenAndServe, CloseProxy, MitmTick,
         Handshake, ReadRequest, TunnelEnds, ForwardFails, Relay

LEMMA MitmInvariant == MitmSpec => []MitmInv
<1>1. MitmInit => MitmInv
  BY MitmInitOK
<1>2. MitmInv /\ [MitmNext]_mitmVars => MitmInv'
  BY RootStep, LeavesStep, TunnelsStep, RingStep, ListenerStep DEF MitmInv
<1> QED
  BY <1>1, <1>2, PTL DEF MitmSpec

(* The state of the proxy is what its fields may hold (mitm/).             *)
THEOREM MitmTypes == MitmSpec => []MitmTypeOK
<1>1. MitmInv => MitmTypeOK
  BY MitmAssumption DEF MitmInv, RootOK, LeavesOK, TunnelsOK, TunnelType, RingOK, RingRight, ListenerOK, MitmTypeOK,
     Halves, Writing, NoCA, Usable, Missing, Spoilt
<1> QED
  BY <1>1, MitmInvariant, PTL

(* The root certificate and the key the proxy works with belong together   *)
(* wherever it was interrupted while writing them (ca.go LoadOrCreate).    *)
THEOREM PairStaysTogether == MitmSpec => []PairBelongs
<1>1. MitmInv => PairBelongs
  BY DEF MitmInv, RootOK, PairBelongs
<1> QED
  BY <1>1, MitmInvariant, PTL

(* What the proxy vouches for is so: its root pair, what it recorded, and  *)
(* that a client of a tunnel in use is owed nothing (proxy.go              *)
(* serveDecrypted; store.go put).                                          *)
THEOREM ProxyVouches == MitmSpec => []ProxyTrue
<1>1. MitmInv => ExchangesTrue
  <2> SUFFICES ASSUME MitmInv PROVE ExchangesTrue
    OBVIOUS
  <2>1. DOMAIN exchanges = 1..Len(exchanges)
    BY DEF MitmInv, RingOK, RingRight
  <2> QED
    BY <2>1 DEF MitmInv, RingOK, RingRight, TunnelsOK, CutRight, ExchangesTrue
<1>2. MitmInv => PairBelongs
  BY DEF MitmInv, RootOK, PairBelongs
<1> QED
  BY <1>1, <1>2, MitmInvariant, PTL DEF ProxyTrue
===============================================================================
