---------------------------- MODULE CaptureReport ----------------------------
(***************************************************************************)
(* The analysis of a capture file (internal/analyze/analyze.go,            *)
(* sessions.go): a Collector to which the dissected packets are fed one by *)
(* one. It keeps totals, conversations, a timeline and, for each           *)
(* conversation, the head of what either side sent; a report is drawn from *)
(* these when the file ends or cannot be read further.                     *)
(*                                                                         *)
(* A payload is a sequence of lines of the kinds the report tells apart;   *)
(* its length is their number. Regular expressions, previews, digests and  *)
(* the geography of addresses are left out.                                *)
(***************************************************************************)
EXTENDS Integers, Sequences, FiniteSets, SequencesExt, Tables

CONSTANTS
  FilePackets,  \* packets a file may hold: [src, dst, sport, dport, transport,
                \* proto, ip, len, at, payload, record]; record is "query" or
                \* "answer" of a name, "request" of a page, or neither
  AddressOrder, \* rank of each address in the order of strings
  EndOrder,     \* rank of each address when a port follows it after a colon
  MaxStream,    \* payload kept for each direction
  MinFailures, MinPorts, MinHosts,   \* thresholds of the heuristics
  MaxTalkers,   \* talkers listed
  MaxPackets    \* bound: packets of the file

(* No two addresses have one rank, ports and lengths are numbers, and a    *)
(* packet with a transport has addresses: the dissector reaches the        *)
(* transport through IP only.                                              *)
ASSUME RepAssumption ==
  /\ MaxStream \in Nat /\ MaxTalkers \in Nat /\ MaxPackets \in Nat
  /\ \A r \in FilePackets :
       /\ {r.src, r.dst} \subseteq DOMAIN AddressOrder \cap DOMAIN EndOrder
       /\ r.sport \in Nat /\ r.dport \in Nat /\ r.len \in Nat
       /\ r.ip \in BOOLEAN /\ (r.transport # "" => r.ip)
       /\ r.payload \in Seq(STRING)
  /\ \A x \in DOMAIN AddressOrder :
       AddressOrder[x] \in Nat /\ \A y \in DOMAIN AddressOrder : AddressOrder[x] = AddressOrder[y] => x = y
  /\ \A x \in DOMAIN EndOrder :
       EndOrder[x] \in Nat /\ \A y \in DOMAIN EndOrder : EndOrder[x] = EndOrder[y] => x = y

VARIABLES
  agg,      \* the aggregator
  streams,  \* the stream table, by conversation
  order,    \* its keys, in the order they were met
  ended,    \* "no", or how reading ended: "eof", "error"
  fed       \* history: the packets fed so far

repVars == <<agg, streams, order, ended, fed>>

-----------------------------------------------------------------------------
(* The aggregator.                                                         *)
NoCount == [packets |-> 0, bytes |-> 0]
Count(c, n) == [c EXCEPT !.packets = @ + 1, !.bytes = @ + n]

NewAggregator ==
  [total |-> 0, proto |-> <<>>, sent |-> <<>>, recv |-> <<>>, ipPackets |-> <<>>,
   convs |-> <<>>, buckets |-> <<>>, dns |-> <<>>, http |-> <<>>]

SourceFirst(r) ==
  \/ AddressOrder[r.src] < AddressOrder[r.dst]
  \/ r.src = r.dst /\ r.sport <= r.dport

(* Both directions land on one conversation; its first end is the address  *)
(* that sorts first, whoever began.                                        *)
ConvKey(r) ==
  IF SourceFirst(r)
  THEN [transport |-> r.transport, a |-> r.src, aPort |-> r.sport, b |-> r.dst, bPort |-> r.dport]
  ELSE [transport |-> r.transport, a |-> r.dst, aPort |-> r.dport, b |-> r.src, bPort |-> r.sport]

(* The name settles on the first protocol above the transport.             *)
Named(app, r) == IF app \in {"TCP", "UDP"} THEN r.proto ELSE app

Converse(convs, r) ==
  IF ~ r.ip \/ r.transport = "" THEN convs
  ELSE LET k == ConvKey(r)
           c == Lookup(convs, k, [packets |-> 0, bytes |-> 0, first |-> r.at, last |-> r.at, app |-> r.proto])
       IN With(convs, k, [Count(c, r.len) EXCEPT !.last = r.at, !.app = Named(@, r)])

(* A query is listed under the one who asked, an answer under the one who  *)
(* receives it.                                                            *)
CollectDNS(dns, r) ==
  CASE r.record = "query" -> Append(dns, [client |-> r.src, answer |-> FALSE])
    [] r.record = "answer" -> Append(dns, [client |-> r.dst, answer |-> TRUE])
    [] OTHER -> dns

CollectHTTP(http, r) ==
  IF r.record = "request" THEN Append(http, [client |-> r.src, server |-> r.dst]) ELSE http

Plus(f, k, n) == With(f, k, Lookup(f, k, 0) + n)

AggAdd(a, r) ==
  [total |-> a.total + r.len,
   proto |-> With(a.proto, r.proto, Count(Lookup(a.proto, r.proto, NoCount), r.len)),
   sent |-> IF r.ip THEN Plus(a.sent, r.src, r.len) ELSE a.sent,
   recv |-> IF r.ip THEN Plus(a.recv, r.dst, r.len) ELSE a.recv,
   ipPackets |-> IF r.ip THEN Plus(Plus(a.ipPackets, r.src, 1), r.dst, 1) ELSE a.ipPackets,
   convs |-> Converse(a.convs, r),
   buckets |-> With(a.buckets, r.at, Count(Lookup(a.buckets, r.at, NoCount), r.len)),
   dns |-> CollectDNS(a.dns, r),
   http |-> CollectHTTP(a.http, r)]

-----------------------------------------------------------------------------
(* The stream table. The end with the lower port is taken for the server.  *)

(* Mutant: of equal ports, whoever is met first is the client.             *)
FirstIsClient(r) == r.sport >= r.dport

SourceIsClient(r) ==
  r.sport > r.dport \/ (r.sport = r.dport /\ EndOrder[r.src] > EndOrder[r.dst])

StreamKey(r) ==
  IF SourceIsClient(r)
  THEN [transport |-> r.transport, client |-> r.src, clientPort |-> r.sport, server |-> r.dst, serverPort |-> r.dport]
  ELSE [transport |-> r.transport, client |-> r.dst, clientPort |-> r.dport, server |-> r.src, serverPort |-> r.sport]

NewStream(r) == [packets |-> 0, app |-> r.proto, c2s |-> <<>>, s2c |-> <<>>, c2sBytes |-> 0, s2cBytes |-> 0]

Kept(head, payload) == IF Len(head) < MaxStream THEN head \o payload ELSE head

Received(s, k, r) ==
  LET t == [s EXCEPT !.packets = @ + 1,
                     !.app = IF @ = "unknown" THEN r.proto ELSE Named(@, r)]
  IN IF r.src = k.client /\ r.sport = k.clientPort
     THEN [t EXCEPT !.c2s = Kept(@, r.payload), !.c2sBytes = @ + Len(r.payload)]
     ELSE [t EXCEPT !.s2c = Kept(@, r.payload), !.s2cBytes = @ + Len(r.payload)]

(* A packet with a transport was dissected from bytes, so Raw has some.    *)
StreamsAdd(ss, r) ==
  IF r.transport = "" THEN ss
  ELSE LET k == StreamKey(r) IN With(ss, k, Received(Lookup(ss, k, NewStream(r)), k, r))

-----------------------------------------------------------------------------
(* What a session's lines give away.                                       *)
Start(s) == IF s = <<>> THEN "" ELSE Head(s)
Has(s, line) == \E i \in 1 .. Len(s) : s[i] = line

GuessApp(k, s) ==
  CASE Start(s.s2c) = "220 FTP" -> "FTP"
    [] Start(s.s2c) = "220" /\ k.serverPort \in {25, 587} -> "SMTP"
    [] Start(s.s2c) = "+OK" -> "POP3"
    [] Start(s.s2c) = "* OK" -> "IMAP"
    [] Start(s.s2c) = "SSH-" -> "SSH"
    [] OTHER -> IF k.serverPort = 23 THEN "Telnet"
                ELSE IF Start(s.c2s) \in {"GET", "POST"} THEN "HTTP" ELSE s.app

WebApps == {"HTTP", "HTTPS", "HTTP/2 (TLS)"}

(* AUTH LOGIN: each line that asks collects from what follows it, until    *)
(* two values are there.                                                   *)
LoginValues(c2s) ==
  {p \in (1 .. Len(c2s)) \X (1 .. Len(c2s)) : c2s[p[1]] = "AUTH LOGIN" /\ p[1] < p[2] /\ c2s[p[2]] = "base64"}

InBody(c2s, line) == \E i, j \in 1 .. Len(c2s) : i < j /\ c2s[i] = "" /\ c2s[j] = line

Methods(k, s) ==
  LET app == GuessApp(k, s)
  IN {m \in {"ftp", "pop3", "imap", "smtp-auth-login", "telnet", "http-basic", "http-form"} :
        CASE m = "ftp" -> app = "FTP" /\ (Has(s.c2s, "USER") \/ Has(s.c2s, "PASS"))
          [] m = "pop3" -> app = "POP3" /\ Has(s.c2s, "USER") /\ Has(s.c2s, "PASS")
          [] m = "imap" -> app = "IMAP" /\ Has(s.c2s, "LOGIN")
          [] m = "smtp-auth-login" -> app = "SMTP" /\ Cardinality(LoginValues(s.c2s)) >= 2
          [] m = "telnet" -> app = "Telnet" /\ s.c2s # <<>>
          [] m = "http-basic" -> app \in WebApps /\ Has(s.c2s, "Basic")
          [] OTHER -> /\ app \in WebApps
                      /\ InBody(s.c2s, "user=") /\ InBody(s.c2s, "pass=")}

AuthFailures(s) == Cardinality({i \in 1 .. Len(s.s2c) : s.s2c[i] \in {"530", "401"}})

(* A body is carved from the first answer to the end of what was kept.     *)
Body(s2c) ==
  LET blanks == {i \in 1 .. Len(s2c) : s2c[i] = ""}
  IN IF Start(s2c) # "HTTP/" \/ blanks = {} THEN <<>>
     ELSE SubSeq(s2c, (CHOOSE i \in blanks : \A j \in blanks : i <= j) + 1, Len(s2c))

CarveFiles(s) == IF Body(s.s2c) = <<>> THEN {} ELSE {[size |-> Len(Body(s.s2c)), executable |-> Start(Body(s.s2c)) = "ELF"]}

ScanAttacks(s) == {s.c2s[i] : i \in 1 .. Len(s.c2s)} \cap {"sqli", "traversal"}

-----------------------------------------------------------------------------
(* The report.                                                             *)
Sessions ==
  {[key |-> k, app |-> GuessApp(k, streams[k]), packets |-> streams[k].packets,
    c2s |-> streams[k].c2sBytes, s2c |-> streams[k].s2cBytes, failures |-> AuthFailures(streams[k]),
    methods |-> Methods(k, streams[k]), files |-> CarveFiles(streams[k])] : k \in DOMAIN streams}

(* Failures are added up over the sessions of one client with one server.  *)
BruteForce ==
  LET between(c, v, app) ==
        {s \in Sessions : s.key.client = c /\ s.key.server = v /\ s.app = app /\ s.failures > 0}
  IN {[kind |-> "bruteforce", client |-> s.key.client] :
        s \in {t \in Sessions :
                 FoldSet(LAMBDA u, sum : sum + u.failures, 0,
                         between(t.key.client, t.key.server, t.app)) >= MinFailures}}

PortsTouched(a) == {k.bPort : k \in {c \in DOMAIN agg.convs : c.a = a}}
HostsTouched(a) == {k.b : k \in {c \in DOMAIN agg.convs : c.a = a}}

Scanning ==
  {[kind |-> IF Cardinality(PortsTouched(a)) >= MinPorts THEN "portscan" ELSE "hostsweep", client |-> a] :
     a \in {k.a : k \in {c \in DOMAIN agg.convs :
                           \/ Cardinality(PortsTouched(c.a)) >= MinPorts
                           \/ Cardinality(HostsTouched(c.a)) >= MinHosts}}}

Findings ==
  UNION {{[kind |-> f, client |-> k.client] : f \in ScanAttacks(streams[k])} : k \in DOMAIN streams}
    \cup BruteForce \cup Scanning

(* The busiest addresses, of equal ones any.                               *)
BytesOf(ip) == Lookup(agg.sent, ip, 0) + Lookup(agg.recv, ip, 0)

TalkerLists ==
  {T \in SUBSET DOMAIN agg.ipPackets :
     /\ Cardinality(T) = IF Cardinality(DOMAIN agg.ipPackets) <= MaxTalkers
                         THEN Cardinality(DOMAIN agg.ipPackets) ELSE MaxTalkers
     /\ \A x \in T, y \in DOMAIN agg.ipPackets \ T : BytesOf(x) >= BytesOf(y)}

-----------------------------------------------------------------------------
RepInit ==
  /\ agg = NewAggregator
  /\ streams = <<>> /\ order = <<>>
  /\ ended = "no"
  /\ fed = <<>>

FeedPacket(r) ==
  /\ ended = "no" /\ Len(fed) < MaxPackets
  /\ agg' = AggAdd(agg, r)
  /\ streams' = StreamsAdd(streams, r)
  /\ order' = IF r.transport = "" \/ StreamKey(r) \in DOMAIN streams THEN order ELSE Append(order, StreamKey(r))
  /\ fed' = Append(fed, r)
  /\ UNCHANGED ended

(* The file ends, or a record cannot be read: what was read is reported,   *)
(* with a warning.                                                         *)
EndFile(how) ==
  /\ ended = "no"
  /\ ended' = how
  /\ UNCHANGED <<agg, streams, order, fed>>

RepNext == (\E r \in FilePackets : FeedPacket(r)) \/ (\E how \in {"eof", "error"} : EndFile(how))

-----------------------------------------------------------------------------
RepTypeOK ==
  /\ fed \in Seq(FilePackets) /\ Len(fed) <= MaxPackets
  /\ ended \in {"no", "eof", "error"}
  /\ {order[i] : i \in 1 .. Len(order)} = DOMAIN streams
  /\ TalkerLists # {}

(* The tables of one report agree with each other and with the file: each  *)
(* byte is in one conversation or in none for want of a transport, in one  *)
(* second and one protocol, is sent once and received once, and each line  *)
(* of a payload is counted in one direction of one session.                *)
ReportAddsUp ==
  LET transported == {i \in DOMAIN fed : fed[i].transport # ""}
      ips == {i \in DOMAIN fed : fed[i].ip}
      bytesOf(I) == TotalOf([i \in I |-> fed[i].len])
      per(f) == [k \in DOMAIN f |-> f[k].bytes]
      count(f) == [k \in DOMAIN f |-> f[k].packets]
  IN /\ agg.total = bytesOf(DOMAIN fed)
     /\ TotalOf(per(agg.convs)) = bytesOf(transported)
     /\ TotalOf(per(agg.buckets)) = agg.total /\ TotalOf(count(agg.buckets)) = Len(fed)
     /\ TotalOf(per(agg.proto)) = agg.total /\ TotalOf(count(agg.proto)) = Len(fed)
     /\ TotalOf(agg.sent) = bytesOf(ips) /\ TotalOf(agg.recv) = TotalOf(agg.sent)
     /\ TotalOf(agg.ipPackets) = 2 * Cardinality(ips)
     /\ TotalOf([k \in DOMAIN streams |-> streams[k].c2sBytes + streams[k].s2cBytes])
          = TotalOf([i \in transported |-> Len(fed[i].payload)])

(* Two tables name the ends of a conversation by different rules, one by   *)
(* the order of addresses and one by the order of ports. Each conversation *)
(* is one session, of as many packets, whichever direction is met first.   *)
OneSessionEach ==
  LET ends(k) == {<<k.a, k.aPort>>, <<k.b, k.bPort>>}
      ofSession(k) == {<<k.client, k.clientPort>>, <<k.server, k.serverPort>>}
  IN /\ Cardinality(DOMAIN streams) = Cardinality(DOMAIN agg.convs)
     /\ \A c \in DOMAIN agg.convs : \E k \in DOMAIN streams :
          /\ k.transport = c.transport /\ ofSession(k) = ends(c)
          /\ streams[k].packets = agg.convs[c].packets

(* What is kept of a direction is the beginning of what went that way,     *)
(* without a hole, however payloads of different sizes meet the limit, and *)
(* all of it as long as it is below the limit.                             *)
HeadsUnbroken ==
  \A k \in DOMAIN streams :
    LET ofClient(r) == r.src = k.client /\ r.sport = k.clientPort
        went(up) ==
          FlattenSeq([i \in DOMAIN fed |->
            IF fed[i].transport # "" /\ StreamKey(fed[i]) = k /\ ofClient(fed[i]) = up
            THEN fed[i].payload ELSE <<>>])
        beginning(h, all) == IsPrefix(h, all) /\ (h = all \/ Len(h) >= MaxStream)
    IN beginning(streams[k].c2s, went(TRUE)) /\ beginning(streams[k].s2c, went(FALSE))

ReportFaithful == ReportAddsUp /\ OneSessionEach /\ HeadsUnbroken

RepSpec == RepInit /\ [][RepNext]_repVars
=============================================================================
