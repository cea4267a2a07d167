-------------------------------- MODULE NameMap --------------------------------
(***************************************************************************)
(* What addresses are called (internal/namemap): names learnt passively    *)
(* from the packets of a capture, ranked by how they were learnt, for a    *)
(* bounded number of addresses.  Learn adds what a packet says one name at *)
(* a time, each under the lock of its own, and a Lookup may come between.  *)
(***************************************************************************)
EXTENDS Integers, Sequences, FiniteSets

CONSTANTS
  Learnable,   \* packets: sequences of [ip, name, source, ts] in the order Learn adds them
  NameLimit,   \* addresses remembered
  MaxLearnt    \* bound: names learnt when the last packet comes

HowLearnt == {"dns", "sni", "http", "mdns"}
Namings == [ip : STRING, name : STRING, source : HowLearnt, ts : Nat]

ASSUME NameAssumption == NameLimit \in Nat \ {0} /\ Learnable \subseteq Seq(Namings)

VARIABLES
  byIP,    \* address -> (name -> [source, count, seen])
  todo,    \* what Learn has still to add of the packet it is given
  learnt   \* history: what has been added, or found no room

nameVars == <<byIP, todo, learnt>>

NameInit == byIP = <<>> /\ todo = <<>> /\ learnt = <<>>

SourceRank(source) == CASE source = "dns" -> 4 [] source = "sni" -> 3
                  [] source = "http" -> 2 [] source = "mdns" -> 1 [] OTHER -> 0

WithKey(f, k, v) == [x \in DOMAIN f \cup {k} |-> IF x = k THEN v ELSE f[x]]

BetterSource(old, new) == IF SourceRank(new) > SourceRank(old) THEN new ELSE old

Counted(n, e) ==
  [source |-> BetterSource(n.source, e.source), count |-> n.count + 1,
   seen |-> IF e.ts > n.seen THEN e.ts ELSE n.seen]

(* add: a known name is counted, a new one recorded; a new address only    *)
(* while there is room.                                                    *)
AddName(map, e) ==
  LET names == IF e.ip \in DOMAIN map THEN map[e.ip] ELSE <<>> IN
  IF e.ip \notin DOMAIN map /\ Cardinality(DOMAIN map) >= NameLimit THEN map
  ELSE WithKey(map, e.ip,
         WithKey(names, e.name,
           IF e.name \in DOMAIN names
           THEN Counted(names[e.name], e)
           ELSE [source |-> e.source, count |-> 1, seen |-> e.ts]))

Learn ==
  /\ todo = <<>> /\ Len(learnt) < MaxLearnt
  /\ todo' \in Learnable
  /\ UNCHANGED <<byIP, learnt>>

(* An address or a name that is empty adds nothing.                        *)
NoText == ""

Add ==
  /\ todo # <<>> /\ todo' = Tail(todo)
  /\ IF NoText \in {Head(todo).ip, Head(todo).name}
     THEN UNCHANGED <<byIP, learnt>>
     ELSE /\ byIP' = AddName(byIP, Head(todo))
          /\ learnt' = Append(learnt, Head(todo))

NameNext == Learn \/ Add
NameSpec == NameInit /\ [][NameNext]_nameVars
-----------------------------------------------------------------------------
(* Lookup: a name of the best rank and, among those, of the highest count; *)
(* which of several is up to the order of a Go map.                        *)
Better(n, m) == SourceRank(n.source) > SourceRank(m.source) \/ (SourceRank(n.source) = SourceRank(m.source) /\ n.count > m.count)

BestNames(ip) ==
  IF ip \notin DOMAIN byIP THEN {}
  ELSE {n \in DOMAIN byIP[ip] : ~\E m \in DOMAIN byIP[ip] : Better(byIP[ip][m], byIP[ip][n])}

(* Where, in what has been learnt, an address came up, and under a name.   *)
Evidence(ip) == {i \in DOMAIN learnt : learnt[i].ip = ip}
EvidenceFor(ip, name) == {i \in Evidence(ip) : learnt[i].name = name}

NameTypeOK ==
  /\ learnt \in Seq(Namings) /\ todo \in Seq(Namings)
  /\ IsFiniteSet(DOMAIN byIP) /\ Cardinality(DOMAIN byIP) <= NameLimit
  /\ \A ip \in DOMAIN byIP : \A n \in DOMAIN byIP[ip] :
       byIP[ip][n] \in [source : HowLearnt, count : Nat \ {0}, seen : Nat]

(* A name stands on all the evidence there is: an address that is named    *)
(* has every name a packet gave it, each counted as often as it was seen   *)
(* and ranked by its best source, so that Lookup gives a name of the best  *)
(* source seen for the address; and one that is not named was never seen,  *)
(* or seen only when the map was full (namemap.go Learn, add, Lookup).     *)
NamesAreEvidence ==
  /\ \A ip \in DOMAIN byIP :
       /\ DOMAIN byIP[ip] = {learnt[i].name : i \in Evidence(ip)}
       /\ \A n \in DOMAIN byIP[ip] : byIP[ip][n].count = Cardinality(EvidenceFor(ip, n))
       /\ BestNames(ip) # {}
       /\ \A n \in BestNames(ip), i \in Evidence(ip) :
            SourceRank(byIP[ip][n].source) >= SourceRank(learnt[i].source)
       /\ \A n \in BestNames(ip) :
            \E i \in EvidenceFor(ip, n) : learnt[i].source = byIP[ip][n].source
  /\ \A i \in DOMAIN learnt :
       learnt[i].ip \in DOMAIN byIP \/ Cardinality(DOMAIN byIP) = NameLimit
=============================================================================
