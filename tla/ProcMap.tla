-------------------------------- MODULE ProcMap --------------------------------
(***************************************************************************)
(* Attribution of a local socket to its process (internal/procmap): the    *)
(* Resolver joins two scans of /proc, local address to inode and inode to  *)
(* process, keeps each for ttl, and scans again when it misses.  Sockets   *)
(* come and go while it reads.                                             *)
(*                                                                         *)
(* One port is modelled; "any" is the wildcard address.  Users, program    *)
(* names and the parsing of /proc lines are left out.                      *)
(***************************************************************************)
EXTENDS Integers, Sequences, FiniteSets

CONSTANTS
  LocalAddrs,  \* addresses of this host
  OtherAddrs,  \* addresses of others
  Processes,
  Hidden,      \* processes whose descriptors may not be read
  Ttl,
  MaxSockets, MaxNow   \* bounds

ASSUME ProcAssumption ==
  /\ Ttl \in Nat \ {0} /\ MaxNow \in Nat
  /\ "any" \notin LocalAddrs \cup OtherAddrs

VARIABLES
  sockets,   \* external: every socket so far, [addr, inode, pid, from, to]
  now,
  table,     \* cached socket table: [map, at]; map is {} before the first scan
  owners,    \* cached owners: [map, at]
  lookup,     \* the lookup under way: [pc, addr, inode, ends]
  answer     \* the last answer: [addr, pid, at], Nobody when there was none

procVars == <<sockets, now, table, owners, lookup, answer>>

Bound == LocalAddrs \cup {"any"}
Never == -Ttl      \* older than ttl at any time
Open == MaxNow + 1 \* the end of a socket that is still open
Nobody == ""
NotAsked == [pc |-> "idle", addr |-> "any", inode |-> 0, ends |-> <<>>]
NoAnswer == [addr |-> "any", pid |-> Nobody, at |-> 0]

ProcInit ==
  /\ sockets = {} /\ now = 0
  /\ table = [map |-> {}, at |-> Never]
  /\ owners = [map |-> {}, at |-> Never]
  /\ lookup = NotAsked /\ answer = NoAnswer

OpenSockets == {s \in sockets : s.to = Open}
-----------------------------------------------------------------------------
(* External: what processes do.                                            *)
OpenSocket ==
  /\ Cardinality(sockets) < MaxSockets
  /\ \E a \in Bound, p \in Processes :
       sockets' = sockets \cup {[addr |-> a, inode |-> Cardinality(sockets) + 1,
                                 pid |-> p, from |-> now, to |-> Open]}
  /\ UNCHANGED <<now, table, owners, lookup, answer>>

CloseSocket ==
  /\ \E s \in OpenSockets : sockets' = (sockets \ {s}) \cup {[s EXCEPT !.to = now]}
  /\ UNCHANGED <<now, table, owners, lookup, answer>>

(* A lookup takes no time worth counting.                                  *)
ProcTick ==
  /\ now < MaxNow
  /\ lookup = NotAsked
  /\ now' = now + 1
  /\ UNCHANGED <<sockets, table, owners, lookup, answer>>
-----------------------------------------------------------------------------
(* Mutant: a table once read stays good.                                   *)
NeverStale(cache) == cache.at # Never

Fresh(cache) == cache.at # Never /\ now - cache.at < Ttl

(* parseProcNet: one inode for each address, whichever line is last.       *)
SocketTables ==
  {m \in SUBSET {<<s.addr, s.inode>> : s \in OpenSockets} :
     /\ \A e, f \in m : e[1] = f[1] => e = f
     /\ \A s \in OpenSockets : \E e \in m : e[1] = s.addr}

(* scanProcFDs: the descriptors of the processes that may be read.         *)
Owners == {<<s.inode, s.pid>> : s \in {x \in OpenSockets : x.pid \notin Hidden}}

RefreshSockets(force) ==
  IF Fresh(table) /\ ~force THEN UNCHANGED table
  ELSE \E m \in SocketTables : table' = [map |-> m, at |-> now]

RefreshInodes(force) ==
  owners' = IF Fresh(owners) /\ ~force THEN owners ELSE [map |-> Owners, at |-> now]

(* findSocket: the address itself, else the wildcard.                      *)
Found(map, a) ==
  IF \E e \in map : e[1] = a THEN {e[2] : e \in {x \in map : x[1] = a}}
  ELSE {e[2] : e \in {x \in map : x[1] = "any"}}

(* An end without a process: the other one is tried, if it is local.       *)
NoOwner ==
  IF lookup.ends = <<>>
  THEN /\ lookup' = NotAsked
       /\ answer' = [addr |-> lookup.addr, pid |-> Nobody, at |-> now]
  ELSE /\ lookup' = [pc |-> "sockets", addr |-> Head(lookup.ends), inode |-> 0, ends |-> Tail(lookup.ends)]
       /\ UNCHANGED answer

(* LookupFlow tries the source and then the destination, whichever are     *)
(* addresses of this host.                                                 *)
LookupFlow ==
  /\ lookup = NotAsked
  /\ \E src, dst \in LocalAddrs \cup OtherAddrs :
       LET ends == SelectSeq(<<src, dst>>, LAMBDA e : e \in LocalAddrs) IN
       IF ends = <<>>
       THEN /\ answer' = [addr |-> src, pid |-> Nobody, at |-> now]
            /\ UNCHANGED lookup
       ELSE /\ lookup' = [pc |-> "sockets", addr |-> Head(ends), inode |-> 0, ends |-> Tail(ends)]
            /\ UNCHANGED answer
  /\ UNCHANGED <<sockets, now, table, owners>>

(* The cached table, and if it misses a forced scan.                       *)
FindSocket(pc, force) ==
  /\ lookup.pc = pc
  /\ RefreshSockets(force)
  /\ LET inodes == Found(table'.map, lookup.addr) IN
     IF inodes # {}
     THEN /\ \E i \in inodes : lookup' = [lookup EXCEPT !.pc = "inodes", !.inode = i]
          /\ UNCHANGED answer
     ELSE IF ~force
     THEN /\ lookup' = [lookup EXCEPT !.pc = "sockets again"]
          /\ UNCHANGED answer
     ELSE NoOwner
  /\ UNCHANGED <<sockets, now, owners>>

(* The cached owners, and if they miss a forced scan.                      *)
FindOwner(pc, force) ==
  /\ lookup.pc = pc
  /\ RefreshInodes(force)
  /\ LET pids == {e[2] : e \in {x \in owners'.map : x[1] = lookup.inode}} IN
     IF pids # {}
     THEN /\ lookup' = NotAsked
          /\ \E p \in pids : answer' = [addr |-> lookup.addr, pid |-> p, at |-> now]
     ELSE IF ~force
     THEN /\ lookup' = [lookup EXCEPT !.pc = "inodes again"]
          /\ UNCHANGED answer
     ELSE NoOwner
  /\ UNCHANGED <<sockets, now, table>>

ProcNext ==
  \/ OpenSocket \/ CloseSocket \/ ProcTick \/ LookupFlow
  \/ FindSocket("sockets", FALSE) \/ FindSocket("sockets again", TRUE)
  \/ FindOwner("inodes", FALSE) \/ FindOwner("inodes again", TRUE)

ProcSpec == ProcInit /\ [][ProcNext]_procVars
-----------------------------------------------------------------------------
ProcTypeOK ==
  /\ \A s \in sockets : s.addr \in Bound /\ s.pid \in Processes /\ s.from <= s.to
  /\ now \in 0..MaxNow
  /\ {table.at, owners.at} \subseteq {Never} \cup 0..now
  /\ lookup.pc \in {"idle", "sockets", "sockets again", "inodes", "inodes again"}
  /\ answer.pid \in Processes \cup {Nobody}

(* A process that is named did own a socket on that address, or on the     *)
(* wildcard, within the last ttl, although the address may have passed to  *)
(* another since: "ttl bounds how stale an answer may be" (procmap.go New, *)
(* Lookup); and none is named whose descriptors cannot be read.            *)
AnswerFresh ==
  answer.pid # Nobody =>
    /\ answer.pid \notin Hidden
    /\ \E s \in sockets :
         /\ s.pid = answer.pid /\ s.addr \in {answer.addr, "any"}
         /\ s.to > answer.at - Ttl
=============================================================================
