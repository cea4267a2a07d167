------------------------------ MODULE Overview ------------------------------
(***************************************************************************)
(* What the overview shows of the agent's store (internal/api/api.go over  *)
(* internal/store/store.go): connections and DNS records that the live     *)
(* pipeline and imported capture files insert, and the queries that filter *)
(* and aggregate them.  Rows carry the interface they were captured on, or *)
(* the name of the imported file, and the time of their packets.           *)
(*                                                                         *)
(* Geography is a set of addresses that have a place; services, ports,     *)
(* sizes by direction and the encoding of answers are left out.            *)
(***************************************************************************)
EXTENDS Integers, Sequences, FiniteSets, Tables

CONSTANTS
  Nics,        \* interfaces captured live, one after another
  LiveRows,    \* what a live flow may be: [mac, dst, proto, sni, bytes, internal]
  Files,       \* capture files: name -> sequence of live rows with a ts
  LiveNames,   \* DNS answers seen live: [domain, ips]
  Placed,      \* addresses with a point on the map
  ViewRows,    \* rows a view reads at most (100000)
  PairLimit, PairFactor,    \* rows geoPairs answers with, and how many times more it reads (8)
  DomainRows,  \* DNS records searched for a name (2000)
  BatchLimit,  \* imported files offered (50)
  Bucket,      \* seconds of a bucket
  MaxRows, MaxNames, MaxTime, MaxImports   \* bounds

(* Bytes are counted, packets are stamped with seconds, and the handler    *)
(* makes a bucket of less than ten seconds one of ten.                     *)
ASSUME OverAssumption ==
  /\ ViewRows \in Nat \ {0} /\ Bucket \in Nat \ {0}
  /\ PairLimit \in Nat /\ BatchLimit \in Nat
  /\ MaxRows \in Nat /\ MaxImports \in Nat /\ MaxTime \in Nat \ {0}
  /\ \A c \in LiveRows : c.bytes \in Nat
  /\ \A f \in DOMAIN Files : /\ Len(Files[f]) \in Nat
                             /\ \A i \in 1 .. Len(Files[f]) : Files[f][i].bytes \in Nat /\ Files[f][i].ts \in Nat

VARIABLES
  rows,      \* connections, in the order of their ids
  names,     \* dns_records
  nic,       \* the interface being captured, "" for none
  replays,   \* of every import, the file and how many of its rows are stored
  tick

overVars == <<rows, names, nic, replays, tick>>

OverInit == rows = <<>> /\ names = <<>> /\ nic = "" /\ replays = <<>> /\ tick = 1
-----------------------------------------------------------------------------
Stored(c, ts, iface) ==
  [ts |-> ts, iface |-> iface, mac |-> c.mac, dst |-> c.dst, proto |-> c.proto, sni |-> c.sni,
   bytes |-> c.bytes, internal |-> c.internal]

(* The supervisor reports a new source.                                    *)
SetSource ==
  /\ \E n \in Nics : n # nic /\ nic' = n
  /\ UNCHANGED <<rows, names, replays, tick>>

InsertConnection ==
  /\ nic # "" /\ Len(rows) < MaxRows
  /\ \E c \in LiveRows : rows' = Append(rows, Stored(c, tick, nic))
  /\ UNCHANGED <<names, nic, replays, tick>>

InsertDNS ==
  /\ nic # "" /\ Len(names) < MaxNames
  /\ \E r \in LiveNames : names' = Append(names, [ts |-> tick, domain |-> r.domain, ips |-> r.ips])
  /\ UNCHANGED <<rows, nic, replays, tick>>

(* pcapImport only starts the replay, and answers: a file may be imported  *)
(* again, even while it is being replayed.                                 *)
PcapImport ==
  /\ Len(replays) < MaxImports
  /\ \E f \in DOMAIN Files : replays' = Append(replays, [file |-> f, stored |-> 0])
  /\ UNCHANGED <<rows, names, nic, tick>>

(* The replay stores a flow under the file's name, with the file's time.   *)
ReplayRow ==
  /\ Len(rows) < MaxRows
  /\ \E k \in DOMAIN replays :
       LET f == replays[k].file
           i == replays[k].stored + 1
       IN /\ i <= Len(Files[f])
          /\ rows' = Append(rows, Stored(Files[f][i], Files[f][i].ts, f))
          /\ replays' = [replays EXCEPT ![k].stored = i]
  /\ UNCHANGED <<names, nic, tick>>

OverTick ==
  /\ tick < MaxTime
  /\ tick' = tick + 1
  /\ UNCHANGED <<rows, names, nic, replays>>

OverNext == SetSource \/ InsertConnection \/ InsertDNS \/ PcapImport \/ ReplayRow \/ OverTick
OverSpec == OverInit /\ [][OverNext]_overVars
-----------------------------------------------------------------------------
(* ORDER BY ts DESC LIMIT n, as the set of the rows that come first.  Which *)
(* of two rows of one second does is SQLite's choice; here the later one.  *)
Newer(t, i, j) == t[i].ts > t[j].ts \/ (t[i].ts = t[j].ts /\ i > j)
Newest(t, I, n) == {i \in I : Cardinality({j \in I : Newer(t, j, i)}) < n}

NoFilter == [macs |-> {}, dst |-> "", protos |-> {}, since |-> 0, until |-> 0,
             internalOnly |-> FALSE, iface |-> "", limit |-> 0]

Passes(c, f) ==
  /\ f.macs = {} \/ c.mac \in f.macs
  /\ f.dst = "" \/ c.dst = f.dst
  /\ f.protos = {} \/ c.proto \in f.protos
  /\ f.since = 0 \/ c.ts >= f.since
  /\ f.until = 0 \/ c.ts <= f.until
  /\ f.internalOnly => c.internal
  /\ f.iface = "" \/ c.iface = f.iface

Connections(f) ==
  Newest(rows, {i \in DOMAIN rows : Passes(rows[i], f)}, IF f.limit <= 0 THEN 1000 ELSE f.limit)

VolumeOf(I) == TotalOf([i \in I |-> rows[i].bytes])
RowsOf(iface) == {i \in DOMAIN rows : iface = "" \/ rows[i].iface = iface}
ConnectionTotals(iface) ==
  [count |-> Cardinality(RowsOf(iface)), bytes |-> VolumeOf(RowsOf(iface)),
   internal |-> Cardinality({i \in RowsOf(iface) : rows[i].internal})]

(* Every interface but the one being captured now, as if each were a file; *)
(* those first whose latest row is the newest.                             *)
LatestRows(live) ==
  {i \in DOMAIN rows :
     /\ rows[i].iface \notin {"", live}
     /\ \A j \in RowsOf(rows[i].iface) : ~ Newer(rows, j, i)}
ImportBatches(live) ==
  {[iface |-> rows[i].iface, count |-> Cardinality(RowsOf(rows[i].iface))] :
     i \in Newest(rows, LatestRows(live), BatchLimit)}

(* The latest record that resolved to the address.                         *)
DomainForIP(ip) ==
  LET hits == {i \in Newest(names, DOMAIN names, DomainRows) : ip \in names[i].ips} IN
  IF hits = {} THEN "" ELSE names[CHOOSE i \in hits : \A j \in hits : ~ Newer(names, j, i)].domain
-----------------------------------------------------------------------------
(* The views.  Grouped adds up the rows of one key, for each key a row has. *)
Scoped(iface) == Connections([NoFilter EXCEPT !.iface = iface, !.limit = ViewRows])
Grouped(key) == [k \in {key[i] : i \in DOMAIN key} |-> VolumeOf({i \in DOMAIN key : key[i] = k})]

IpView(iface) == Grouped([i \in Scoped(iface) |-> rows[i].dst])
ProtocolView(iface) == Grouped([i \in Scoped(iface) |-> rows[i].proto])

(* A row without a name is not ranked by name.                             *)
NameOf(c) == IF c.sni # "" THEN c.sni ELSE DomainForIP(c.dst)
NamedRows(I) == {i \in I : NameOf(rows[i]) # ""}
Ranked(iface, dim) ==
  CASE dim = "device" -> Grouped([i \in Scoped(iface) |-> rows[i].mac])
    [] dim = "ip"     -> Grouped([i \in Scoped(iface) |-> rows[i].dst])
    [] dim = "domain" -> Grouped([i \in NamedRows(Scoped(iface)) |-> NameOf(rows[i])])

(* The largest n, of equal ones any.                                       *)
TopN(iface, dim, n) ==
  LET by == Ranked(iface, dim) IN
  {T \in SUBSET DOMAIN by :
     /\ Cardinality(T) = IF Cardinality(DOMAIN by) <= n THEN Cardinality(DOMAIN by) ELSE n
     /\ \A x \in T, y \in DOMAIN by \ T : by[x] >= by[y]}

(* timeseries: a point for every bucket from the first to the last.        *)
Slot(i) == rows[i].ts \div Bucket
TimeSeries(f) ==
  LET I == Connections(f)
      slots == UNION {Slot(p[1]) .. Slot(p[2]) : p \in I \X I}
  IN [t \in {q * Bucket : q \in slots} |-> VolumeOf({i \in I : Slot(i) * Bucket = t})]

(* Mutant: the latest rows are taken, then those of the file among them.   *)
PairsThenScope(iface) == [NoFilter EXCEPT !.limit = PairLimit * PairFactor]

(* geoPairs: a window of the latest rows, or the rows of one file.         *)
PairFilter(iface) ==
  IF iface = "" THEN [NoFilter EXCEPT !.limit = PairLimit * PairFactor]
  ELSE [NoFilter EXCEPT !.limit = ViewRows, !.iface = iface]

HasPlace(c) == ~ c.internal /\ c.dst \in Placed
GeoPairs(iface) ==
  Newest(rows, {i \in Connections(PairFilter(iface)) : HasPlace(rows[i])}, PairLimit)
-----------------------------------------------------------------------------
OverTypeOK ==
  /\ Len(rows) <= MaxRows /\ nic \in Nics \cup {""}
  /\ replays \in Seq([file : DOMAIN Files, stored : Nat]) /\ tick \in 1..MaxTime
  /\ \A k \in DOMAIN replays : replays[k].stored <= Len(Files[replays[k].file])

Scopes == {""} \cup {rows[i].iface : i \in DOMAIN rows}

(* One set of rows stands behind every view: for everything and for each   *)
(* interface or file, the addresses, the protocols, the devices and the    *)
(* points of the trend account for the same bytes, which are those of the  *)
(* summary while the views read every row; and a ranking begins with the   *)
(* largest (api.go summary, ipView, protocolView, topN, timeseries).       *)
ViewsAgree ==
  \A iface \in Scopes :
    LET all == ConnectionTotals(iface)
        shown == VolumeOf(Scoped(iface))
        devices == Ranked(iface, "device")
    IN /\ TotalOf(IpView(iface)) = shown /\ TotalOf(ProtocolView(iface)) = shown
       /\ TotalOf(devices) = shown
       /\ TotalOf(Ranked(iface, "domain")) <= shown
       /\ TotalOf(TimeSeries([NoFilter EXCEPT !.iface = iface, !.limit = ViewRows])) = shown
       /\ all.count <= ViewRows => shown = all.bytes
       /\ \A T \in TopN(iface, "device", 1), mac \in DOMAIN devices :
            \E largest \in T : devices[mac] <= devices[largest]

ReplaysOf(f) == {k \in DOMAIN replays : replays[k].file = f}

(* n for each time the file was imported.                                  *)
EachTime(f, n) == TotalOf([k \in ReplaysOf(f) |-> n])

(* A file replayed as often as it was replays, if it held a connection    *)
(* and has no interface's name, stays in sight: whatever live traffic      *)
(* arrives meanwhile and after it, it is offered with all its rows, and    *)
(* choosing it shows those of its connections that have a place (api.go    *)
(* pcapImports, geoPairs; store.go ImportBatches).                         *)
Replayed ==
  {f \in DOMAIN Files \ (Nics \cup {""}) :
     /\ Len(Files[f]) > 0 /\ ReplaysOf(f) # {}
     /\ \A k \in ReplaysOf(f) : replays[k].stored = Len(Files[f])}

ImportStaysVisible ==
  \A f \in Replayed :
    LET all == EachTime(f, Len(Files[f]))
        own == EachTime(f, Cardinality({i \in 1 .. Len(Files[f]) : HasPlace(Files[f][i])}))
    IN
    /\ Cardinality({rows[i].iface : i \in DOMAIN rows}) <= BatchLimit =>
         [iface |-> f, count |-> all] \in ImportBatches(nic)
    /\ own <= PairLimit /\ all <= ViewRows =>
         /\ Cardinality(GeoPairs(f)) = own
         /\ \A i \in GeoPairs(f) : rows[i].iface = f

(* What the overview shows of live traffic and of imported files together. *)
OverviewTrue == ViewsAgree /\ ImportStaysVisible
=============================================================================
