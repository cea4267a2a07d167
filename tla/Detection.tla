------------------------------ MODULE Detection ------------------------------
(***************************************************************************)
(* The detection engine (internal/detect/detect.go): detectors that look   *)
(* at the rows the store returns and the score that combines what they     *)
(* find about one device and one remote address.                           *)
(*                                                                         *)
(* The engine keeps nothing between calls. The state is what it is called  *)
(* with, the connections and DNS rows stored so far, in whatever order the *)
(* store returns them. Times are in units of a length that divides an      *)
(* hour; means and deviations are compared as fractions, without rounding. *)
(***************************************************************************)
EXTENDS Integers, Sequences, FiniteSets, SequencesExt

CONSTANTS
  Flows,         \* connections that may be stored: [mac, dst, internal, port, service, at, bytes, ja3]
  Queries,       \* DNS rows that may be stored: [mac, name, failed, text]
  Private,       \* private addresses, as geoip has them
  RiskyCountry,  \* public addresses in a country that is flagged, or unknown
  Listed,        \* addresses on a blocklist, or in a listed network
  ListedJA3,     \* TLS fingerprints on a blocklist
  ListedNames,   \* names on a blocklist
  Dumb,          \* devices with no reason to reach a management port
  MgmtPorts,     \* the management ports
  IPLimit,       \* addresses a device may reach in a window, by its category
  PortLimit,     \* ports of one address, likewise
  Window,        \* length of the fan-out window
  MinSamples, MinInterval, MaxInterval,   \* Cfg.Beacon
  HourLength, HoursPerDay, Now,           \* the clock
  MinDays, Floor,                         \* Cfg.Baseline
  Entropy, NameLength, Apex,              \* of each name; entropy in tenths
  MinFailed, MinNames, MinVolume,         \* volumes the DNS detectors ask for
  RowLimit,      \* rows an analysis reads, the newest (100000)
  MaxEvidence    \* bound: rows stored

(* A flow is at an instant of the clock, of a device that has its limits;  *)
(* two calls make no beacon yet, and no call is at the instant of another  *)
(* (min_samples is 6 and min_interval_s 10 unless configured otherwise).   *)
ASSUME DetAssumption ==
  /\ \A c \in Flows : c.at \in Nat /\ IPLimit[c.mac] \in Nat /\ PortLimit[c.mac] \in Nat
  /\ Window \in Nat
  /\ MinSamples \in Nat \ {0, 1} /\ MinInterval \in Nat \ {0} /\ MaxInterval \in Nat
  /\ RowLimit \in Nat /\ MaxEvidence \in Nat

VARIABLES conns, queries   \* rows in the order the store returns them

detVars == <<conns, queries>>

Weight == [threat_intel |-> 50, lateral |-> 40, fanout |-> 30, beacon |-> 25, dns_anomaly |-> 20,
           dns_tunnel |-> 25, ja3_mismatch |-> 15, first_target |-> 10, geo_anomaly |-> 10,
           baseline_deviation |-> 15, offhours |-> 5]

(* Sums over a sequence of numbers. *)
Total(s) ==
  LET sum[i \in 0 .. Len(s)] == IF i = 0 THEN 0 ELSE sum[i - 1] + s[i]
  IN sum[Len(s)]
Select(s, Keep(_)) == SelectSeq(s, Keep)
Elements(s) == {s[i] : i \in 1 .. Len(s)}
Column(s, Of(_)) == [i \in 1 .. Len(s) |-> Of(s[i])]
Macs(s) == {r.mac : r \in Elements(s)}
-----------------------------------------------------------------------------
(* Beacon: calls at regular intervals. The test on the coefficient of      *)
(* variation, below 15 percent, is squared and freed of its denominators.  *)
Regular(deltas) ==
  LET n == Len(deltas)
      sum == Total(deltas)
      spread == Total(Column(deltas, LAMBDA x : (n * x - sum) * (n * x - sum)))
  IN /\ n > 0
     /\ sum >= MinInterval * n /\ sum <= MaxInterval * n
     /\ 400 * spread < 9 * n * sum * sum

(* Rows by time. Rows of one time may stand in any order among themselves: *)
(* here the store's, and neither detector tells the difference.            *)
Earlier(rows, j, i) == rows[j].at < rows[i].at \/ (rows[j].at = rows[i].at /\ j < i)

SortedTimes(rows, mine) ==
  [k \in 1 .. Cardinality(mine) |->
     rows[CHOOSE i \in mine : Cardinality({j \in mine : Earlier(rows, j, i)}) = k - 1].at]

IsNTP(c) == c.port = 123 \/ c.service = "NTP"

Beacons(rows) ==
  {p \in {<<c.mac, c.dst>> : c \in Elements(rows)} :
     LET mine == {i \in DOMAIN rows : /\ <<rows[i].mac, rows[i].dst>> = p
                                      /\ ~ IsNTP(rows[i]) /\ rows[i].dst \notin Private}
         at == SortedTimes(rows, mine)
     IN /\ Cardinality(mine) >= MinSamples
        /\ Regular([i \in 1 .. Len(at) - 1 |-> at[i + 1] - at[i]])}

-----------------------------------------------------------------------------
(* Fanout: a window slides over the connections of a device, each          *)
(* connection in turn being its first.                                     *)
Of(mac, rows) == {i \in DOMAIN rows : rows[i].mac = mac}

(* Mutant: windows follow one another instead of sliding. *)
TumblingWindows(mac, rows) ==
  {{rows[j] : j \in {k \in Of(mac, rows) : rows[k].at \div (Window + 1) = rows[i].at \div (Window + 1)}}
     : i \in Of(mac, rows)}

Windows(mac, rows) ==
  {{rows[j] : j \in {k \in Of(mac, rows) : ~Earlier(rows, k, i) /\ rows[k].at - rows[i].at <= Window}}
     : i \in Of(mac, rows)}

Addresses(w) == {c.dst : c \in w}
PortsOf(w, ip) == {c.port : c \in {d \in w : d.dst = ip}}

FansOut(mac, ws) ==
  \E w \in ws : \/ Cardinality(Addresses(w)) > IPLimit[mac]
                \/ \E ip \in Addresses(w) : Cardinality(PortsOf(w, ip)) > PortLimit[mac]

Fanouts(rows) == {m \in Macs(rows) : FansOut(m, Windows(m, rows))}

-----------------------------------------------------------------------------
Laterals(rows) ==
  {<<c.mac, c.dst>> : c \in {d \in Elements(rows) :
                               d.internal /\ d.port \in MgmtPorts /\ d.mac \in Dumb}}

(* Baseline: the bytes of this hour of this day against those of the same  *)
(* hour of the other days on which the device was seen in it.              *)
HourOf(t) == (t \div HourLength) % HoursPerDay
DayOf(t) == t \div (HourLength * HoursPerDay)

BytesOn(mac, day, rows) ==
  Total(Column(Select(rows, LAMBDA c : c.mac = mac /\ DayOf(c.at) = day /\ HourOf(c.at) = HourOf(Now)),
               LAMBDA c : c.bytes))

Baselines(rows) ==
  {m \in Macs(rows) :
     LET days == {DayOf(c.at) : c \in {d \in Elements(rows) : d.mac = m /\ HourOf(d.at) = HourOf(Now)}}
         others == SetToSeq(days \ {DayOf(Now)})
         bytes == Column(others, LAMBDA d : BytesOn(m, d, rows))
         n == Len(others)
         sum == Total(bytes)
         variance == n * Total(Column(bytes, LAMBDA x : x * x)) - sum * sum
         floor == n * n * Floor * Floor
         off == n * BytesOn(m, DayOf(Now), rows) - sum
     IN /\ DayOf(Now) \in days /\ n >= MinDays
        /\ off # 0
        /\ off * off >= 9 * (IF variance < floor THEN floor ELSE variance)}

-----------------------------------------------------------------------------
(* A name generator: many names that do not exist, or names that look      *)
(* random on average.                                                      *)
Anomalies(rows) ==
  {m \in Macs(rows) :
     LET mine == Select(rows, LAMBDA r : r.mac = m)
     IN \/ Len(Select(mine, LAMBDA r : r.failed)) >= MinFailed
        \/ /\ Total(Column(mine, LAMBDA r : Entropy[r.name])) >= 36 * Len(mine)
           /\ Len(mine) >= MinNames}

(* A tunnel: most queries under one domain, and payload types or long      *)
(* names.                                                                  *)
DNSTunnels(rows) ==
  {m \in Macs(rows) :
     LET mine == Select(rows, LAMBDA r : r.mac = m)
         n == Len(mine)
         texts == Len(Select(mine, LAMBDA r : r.text))
     IN /\ n >= MinVolume
        /\ \E d \in {Apex[r.name] : r \in Elements(mine)} :
             LET under == Len(Select(mine, LAMBDA r : Apex[r.name] = d))
             IN under >= MinVolume /\ 10 * under >= 7 * n
        /\ 10 * texts >= 3 * n \/ Total(Column(mine, LAMBDA r : NameLength[r.name])) >= 50 * n}

-----------------------------------------------------------------------------
(* Analyze: what is signalled about each subject, a device and an address  *)
(* or the device alone. The first-target test is against no known pairs,   *)
(* as the pipeline calls it.                                               *)
Device(m) == <<m, "">>

Signals(cs, ds) ==
  LET C == Elements(cs)
      pair(c) == <<c.mac, c.dst>>
  IN [threat_intel |-> {pair(c) : c \in {d \in C : d.dst \in Listed \/ d.ja3 \in ListedJA3}}
                         \cup {Device(r.mac) : r \in {q \in Elements(ds) : q.name \in ListedNames}},
      ja3_mismatch |-> {},
      beacon |-> Beacons(cs),
      baseline_deviation |-> {Device(m) : m \in Baselines(cs)},
      fanout |-> {Device(m) : m \in Fanouts(cs)},
      lateral |-> Laterals(cs),
      dns_anomaly |-> {Device(m) : m \in Anomalies(ds)},
      dns_tunnel |-> {Device(m) : m \in DNSTunnels(ds)},
      first_target |-> {pair(c) : c \in {d \in C : d.dst \notin Private}},
      geo_anomaly |-> {pair(c) : c \in {d \in C : d.dst \in RiskyCountry \ Private}},
      offhours |-> {pair(c) : c \in {d \in C : HourOf(d.at) \in 1 .. 5}}]

Subjects(sig) == UNION {sig[k] : k \in DOMAIN sig}
KeysOf(sig, s) == {k \in DOMAIN sig : s \in sig[k]}
Kinds == <<"threat_intel", "ja3_mismatch", "beacon", "baseline_deviation", "fanout", "lateral",
           "dns_anomaly", "dns_tunnel", "first_target", "geo_anomaly", "offhours">>

(* Mutant: the weight is assigned, not added. *)
ScoreOfLast(sig, s) ==
  Weight[Last(Select(Kinds, LAMBDA k : s \in sig[k]))]

Score(sig, s) == Total(Column(Kinds, LAMBDA k : IF s \in sig[k] THEN Weight[k] ELSE 0))

Level(score) ==
  IF score >= 50 THEN "high" ELSE IF score >= 30 THEN "medium" ELSE IF score >= 15 THEN "low" ELSE "none"

(* Of equal weights the map's order decides: any of them may be the type.  *)
Headlines(sig, s) ==
  {k \in KeysOf(sig, s) : \A other \in KeysOf(sig, s) : Weight[other] <= Weight[k]}

(* The events, each with the types it may be given. *)
Analyze(cs, ds) ==
  LET sig == Signals(cs, ds)
  IN {[subject |-> s, severity |-> Level(Score(sig, s)), keys |-> KeysOf(sig, s),
       types |-> Headlines(sig, s)] : s \in {t \in Subjects(sig) : Level(Score(sig, t)) # "none"}}

-----------------------------------------------------------------------------
(* The store: rows come back newest first, rows of one time in any order.  *)
Inserted(s, r, i) == SubSeq(s, 1, i) \o <<r>> \o SubSeq(s, i + 1, Len(s))

(* What the pipeline hands to Analyze: rows beyond the limit are not read. *)
Read(s) == SubSeq(s, 1, IF Len(s) < RowLimit THEN Len(s) ELSE RowLimit)

DetInit == conns = <<>> /\ queries = <<>>

Connect(c) ==
  /\ Len(conns) + Len(queries) < MaxEvidence
  /\ \E i \in 0 .. Len(conns) :
       /\ \A j \in 1 .. i : conns[j].at >= c.at
       /\ \A j \in i + 1 .. Len(conns) : conns[j].at <= c.at
       /\ conns' = Inserted(conns, c, i)
  /\ UNCHANGED queries

Query(q) ==
  /\ Len(conns) + Len(queries) < MaxEvidence
  /\ queries' = <<q>> \o queries
  /\ UNCHANGED conns

DetNext == (\E c \in Flows : Connect(c)) \/ (\E q \in Queries : Query(q))

-----------------------------------------------------------------------------
DetTypeOK ==
  /\ conns \in Seq(Flows) /\ queries \in Seq(Queries)
  /\ Len(conns) + Len(queries) <= MaxEvidence

(* A scan is seen wherever its window begins: a device is signalled        *)
(* exactly when within some span of the window's length, at any time, it   *)
(* reached more addresses, or more ports of one address, than its category *)
(* may. Fanout tries only the spans that begin at a connection.            *)
Span(m, t, cs) == {c \in cs : c.mac = m /\ c.at \in t .. t + Window}

Scans(m, t, cs) ==
  \/ Cardinality({c.dst : c \in Span(m, t, cs)}) > IPLimit[m]
  \/ \E ip \in {c.dst : c \in Span(m, t, cs)} :
       Cardinality({c.port : c \in {d \in Span(m, t, cs) : d.dst = ip}}) > PortLimit[m]

ScansSeen ==
  LET times == UNION {(c.at - Window) .. c.at : c \in Elements(conns)}
  IN Fanouts(conns) = {m \in Macs(conns) : \E t \in times : Scans(m, t, Elements(conns))}

(* Calls at one exact period are a beacon, whatever order the rows come    *)
(* back in and whoever else was called in between.                         *)
CallsOf(p, rows) == {i \in DOMAIN rows : <<rows[i].mac, rows[i].dst>> = p}
TimesOf(calls, rows) == {rows[i].at : i \in calls}
Grid(t, period, n) == {t + k * period : k \in 0 .. n - 1}

BeaconsSeen ==
  \A p \in {<<c.mac, c.dst>> : c \in Elements(conns)} :
    LET calls == CallsOf(p, conns)
        n == Cardinality(calls)
        at == TimesOf(calls, conns)
    IN (/\ p[2] \notin Private /\ n >= MinSamples
        /\ \A i \in calls : ~ IsNTP(conns[i])
        /\ \E period \in MinInterval .. MaxInterval : \E t \in at : at = Grid(t, period, n))
       => p \in Beacons(conns)

VerdictsExact == ScansSeen /\ BeaconsSeen

(* Evidence that lasts: an alert that rests on what was seen, and not on a *)
(* mean or a deviation, is still raised and at least as severe whatever is *)
(* stored later, until there are more rows than an analysis reads          *)
(* (detect.go Analyze; pipeline.go flush).                                 *)
Lasting == {"threat_intel", "fanout", "lateral", "first_target", "geo_anomaly", "offhours"}
Rank == [low |-> 1, medium |-> 2, high |-> 3]

AlertsLast ==
  [][Len(conns') <= RowLimit /\ Len(queries') <= RowLimit =>
       \A e \in Analyze(Read(conns), Read(queries)) : e.keys \subseteq Lasting =>
         \E f \in Analyze(Read(conns'), Read(queries')) :
           f.subject = e.subject /\ Rank[f.severity] >= Rank[e.severity]]_detVars

DetSpec == DetInit /\ [][DetNext]_detVars
=============================================================================
