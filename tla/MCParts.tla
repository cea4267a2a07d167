------------------------------ MODULE MCParts ------------------------------
(***************************************************************************)
(* The parts of the two programs that share no state with the analyzer's   *)
(* session or the agent's supervisor, in one graph: a behaviour is one of  *)
(* a single part, and the others rest in an initial state of theirs.       *)
(***************************************************************************)
EXTENDS CaptureSource, PcapSink, Detection, CaptureReport, DisplayFilter, MCPcapMerge,
        KeyCapture, Mitm, Attribution, Overview

CONSTANTS eth, replay, t1, pid1, pid2, tunnel

VARIABLE part

-----------------------------------------------------------------------------
(* A live source and a replayed file, side by side.                        *)
LiveAndFile == {eth, replay}
OnlyLive == {eth}

(* Detection: three connections at a period, a fourth inside the same      *)
(* window, one to the intranet; names that are long, random or listed.     *)
Flow(m, d, p, t, b, j) ==
  [mac |-> m, dst |-> d, internal |-> d = "lan", port |-> p, service |-> IF p = 123 THEN "NTP" ELSE "",
   at |-> t, bytes |-> b, ja3 |-> j]
SomeConnections ==
  {Flow("cam", "pub1", 80, 0, 1, ""), Flow("cam", "pub1", 80, 6, 2, ""), Flow("cam", "pub1", 80, 12, 9, "bad"),
   Flow("cam", "pub2", 80, 2, 1, ""), Flow("cam", "pub1", 81, 4, 1, ""), Flow("cam", "lan", 22, 3, 1, ""),
   Flow("lap", "pub1", 80, 2, 1, ""), Flow("lap", "lan", 22, 5, 1, ""), Flow("lap", "pub2", 123, 4, 1, "")}
Asking(n, f, t) == [mac |-> "cam", name |-> n, failed |-> f, text |-> t]
SomeQueries ==
  {Asking("long", FALSE, TRUE), Asking("long", FALSE, FALSE), Asking("random", FALSE, FALSE),
   Asking("random", TRUE, FALSE), Asking("plain", FALSE, TRUE)}
TheLimits == [cam |-> 1, lap |-> 2]
TheEntropy == [long |-> 20, random |-> 40, plain |-> 25]
TheLength == [long |-> 90, random |-> 20, plain |-> 10]
TheApex == [long |-> "t", random |-> "r", plain |-> "p"]

(* A capture file: a page and its answer, a second connection, a name, a   *)
(* frame without addresses, and a login that is refused.                   *)
Pkt(s, sp, d, dp, n, t, pl, rec) ==
  [src |-> s, sport |-> sp, dst |-> d, dport |-> dp, transport |-> "tcp", proto |-> "TCP", ip |-> TRUE,
   len |-> n, at |-> t, payload |-> pl, record |-> rec]
SomePackets ==
  {Pkt("pc", 90, "cam", 80, 3, 1, <<"GET", "sqli">>, "request"),
   Pkt("cam", 80, "pc", 90, 3, 1, <<"HTTP/", "401", "", "ELF">>, ""),
   Pkt("pc", 90, "cam", 80, 2, 2, <<"Basic">>, ""),
   Pkt("pc", 91, "cam", 80, 1, 2, <<>>, ""),
   Pkt("cam", 53, "pc", 53, 1, 2, <<"base64">>, "answer"),
   Pkt("pc", 53, "cam", 53, 1, 1, <<"base64">>, "query"),
   [Pkt("pc", 0, "cam", 0, 1, 1, <<>>, "") EXCEPT !.transport = "", !.ip = FALSE, !.proto = "ARP"],
   Pkt("pc", 90, "cam", 21, 2, 1, <<"USER">>, ""),
   [Pkt("cam", 21, "pc", 90, 2, 2, <<"220 FTP", "530">>, "") EXCEPT !.proto = "FTP"]}
ByName == [cam |-> 1, pc |-> 2]
ByEnd == [cam |-> 2, pc |-> 1]

(* Filters: presence, comparisons of several kinds, every connective.      *)
Ident(t) == [kind |-> "ident", text |-> t]
Op(t) == [kind |-> "op", text |-> t]
SomeChunks ==
  {<<Ident("dns")>>, <<Ident("port"), Op("!="), Ident("443")>>, <<Ident("ip"), Op("=="), Ident("lan/24")>>,
   <<Ident("port"), Op(">"), Ident("80")>>, <<[kind |-> "(", text |-> "("]>>, <<[kind |-> ")", text |-> ")"]>>,
   <<Op("||")>>, <<Op("&&")>>, <<Op("!")>>, <<Ident("not")>>}
SamplePackets ==
  {[protocols |-> {"dns"}, fields |-> [port |-> {"443", "80"}, ip |-> {"lan1"}]],
   [protocols |-> {}, fields |-> [port |-> {"90"}]],
   [protocols |-> {"dns"}, fields |-> [ip |-> {"wan"}]]}
TheNumbers == ("443" :> 443) @@ ("80" :> 80) @@ ("90" :> 90)
TheNetworks == ("lan/24" :> {"lan1"})
TheRanks == ("443" :> 1) @@ ("80" :> 2) @@ ("90" :> 3) @@ ("lan1" :> 4) @@ ("wan" :> 5)
-----------------------------------------------------------------------------
(* Two libraries, one of them with rules.                                  *)
TwoLibs == {"openssl", "crypto"}
WithRules == {"openssl"}

(* A directory that is empty, has a pair, or has a key and a spoilt half.  *)
SomePairs ==
  {[cert |-> Missing, key |-> Missing], [cert |-> Spoilt, key |-> 1], [cert |-> 1, key |-> 1]}
SomeBodies == {<<>>, <<2>>, <<1, 2>>}

(* An answer that names two addresses under an alias too, then names of    *)
(* every other source.                                                     *)
Naming(ip, name, by, ts) == [ip |-> ip, name |-> name, source |-> by, ts |-> ts]
SomeNamings ==
  {<<Naming("i1", "cdn", "dns", 1), Naming("i2", "cdn", "dns", 1),
     Naming("i1", "alias", "dns", 1), Naming("i2", "alias", "dns", 1)>>,
   <<Naming("i1", "shop", "sni", 2)>>, <<Naming("i2", "cdn", "http", 3)>>,
   <<Naming("i1", "shop", "dns", 2)>>, <<Naming("i3", "printer", "mdns", 1)>>,
   <<Naming("i2", "cdn", "sni", 3)>>, <<Naming("i3", "", "http", 3)>>}

(* Two flows to the outside, one inside, and a file with one of each.      *)
Row(mac, dst, proto, sni, n, internal) ==
  [mac |-> mac, dst |-> dst, proto |-> proto, sni |-> sni, bytes |-> n, internal |-> internal]
Dated(row, ts) == [ts |-> ts] @@ row
SomeRows ==
  {Row("cam", "cloud", "TLS", "", 2, FALSE), Row("tv", "cloud", "TLS", "shop", 1, FALSE),
   Row("cam", "tv", "HTTP", "", 3, TRUE)}
SomeFiles ==
  [old |-> <<Dated(Row("cam", "cloud", "TLS", "", 2, FALSE), 1), Dated(Row("tv", "cam", "HTTP", "", 1, TRUE), 3)>>]
SomeNames == {[domain |-> "shop", ips |-> {"cloud"}]}

(* Two feeds; a line that is cut reads as nothing or as another entry.     *)
TwoFeeds == <<"drop", "tor">>
SomeAnswers == {<<>>, <<"net">>, <<"bad", "net">>}
HalfLines == [net |-> "", bad |-> "other"]
-----------------------------------------------------------------------------
partsVars == <<sourceVars, sinkVars, detVars, repVars, text, mergeVars, keyVars, mitmVars,
               procVars, nameVars, overVars, feedVars, part>>

Parts == {"source", "sink", "detection", "report", "filter", "files", "keys", "mitm",
          "procs", "names", "overview", "feeds"}

(* The one initial state in which a part rests.                            *)
SinkRests == faults = {}
FilesRest == blocks = <<Section("le")>>
MitmRests == disk = [cert |-> Missing, key |-> Missing]

Init ==
  /\ part \in Parts
  /\ SourceInit /\ SinkInit /\ DetInit /\ RepInit /\ FilterInit /\ FilesInit /\ MergeInit
  /\ KeyInit /\ MitmInit /\ ProcInit /\ NameInit /\ OverInit /\ FeedsInit
  /\ part # "sink" => SinkRests
  /\ part # "files" => FilesRest
  /\ part # "mitm" => MitmRests

OfSource(A) ==
  /\ part = "source" /\ A
  /\ UNCHANGED <<sinkVars, detVars, repVars, text, mergeVars, keyVars, mitmVars, procVars, nameVars, overVars, feedVars, part>>
OfSink(A) ==
  /\ part = "sink" /\ A
  /\ UNCHANGED <<sourceVars, detVars, repVars, text, mergeVars, keyVars, mitmVars, procVars, nameVars, overVars, feedVars, part>>
OfDetection(A) ==
  /\ part = "detection" /\ A
  /\ UNCHANGED <<sourceVars, sinkVars, repVars, text, mergeVars, keyVars, mitmVars, procVars, nameVars, overVars, feedVars, part>>
OfReport(A) ==
  /\ part = "report" /\ A
  /\ UNCHANGED <<sourceVars, sinkVars, detVars, text, mergeVars, keyVars, mitmVars, procVars, nameVars, overVars, feedVars, part>>
OfFilter(A) ==
  /\ part = "filter" /\ A
  /\ UNCHANGED <<sourceVars, sinkVars, detVars, repVars, mergeVars, keyVars, mitmVars, procVars, nameVars, overVars, feedVars, part>>
OfFiles(A) ==
  /\ part = "files" /\ A
  /\ UNCHANGED <<sourceVars, sinkVars, detVars, repVars, text, keyVars, mitmVars, procVars, nameVars, overVars, feedVars, part>>
OfKeys(A) ==
  /\ part = "keys" /\ A
  /\ UNCHANGED <<sourceVars, sinkVars, detVars, repVars, text, mergeVars, mitmVars, procVars, nameVars, overVars, feedVars, part>>
OfMitm(A) ==
  /\ part = "mitm" /\ A
  /\ UNCHANGED <<sourceVars, sinkVars, detVars, repVars, text, mergeVars, keyVars, procVars, nameVars, overVars, feedVars, part>>
OfProcs(A) ==
  /\ part = "procs" /\ A
  /\ UNCHANGED <<sourceVars, sinkVars, detVars, repVars, text, mergeVars, keyVars, mitmVars, nameVars, overVars, feedVars, part>>
OfNames(A) ==
  /\ part = "names" /\ A
  /\ UNCHANGED <<sourceVars, sinkVars, detVars, repVars, text, mergeVars, keyVars, mitmVars, procVars, overVars, feedVars, part>>
OfOverview(A) ==
  /\ part = "overview" /\ A
  /\ UNCHANGED <<sourceVars, sinkVars, detVars, repVars, text, mergeVars, keyVars, mitmVars, procVars, nameVars, feedVars, part>>
OfFeeds(A) ==
  /\ part = "feeds" /\ A
  /\ UNCHANGED <<sourceVars, sinkVars, detVars, repVars, text, mergeVars, keyVars, mitmVars, procVars, nameVars, overVars, part>>

Next ==
  \/ OfSource(SourceNext) \/ OfSink(SinkNext) \/ OfDetection(DetNext) \/ OfReport(RepNext)
  \/ OfFilter(FilterNext) \/ OfFiles(MergeNext) \/ OfKeys(KeyNext) \/ OfMitm(MitmNext)
  \/ OfProcs(ProcNext) \/ OfNames(NameNext) \/ OfOverview(OverNext)
  \/ OfFeeds(FeedsNext)

Spec == Init /\ [][Next]_partsVars

(* FairSourceSpec's fairness, where the sources move.                      *)
FairSpec == Spec /\ \A s \in Sources : WF_partsVars(OfSource(SourceLoop(s)))
-----------------------------------------------------------------------------
(* Types of every part.                                                    *)
PartsTypeOK ==
  /\ SourceTypeOK /\ SinkTypeOK /\ DetTypeOK /\ RepTypeOK /\ FilterTypeOK /\ FilesTypeOK
  /\ MergeTypeOK /\ KeyTypeOK /\ MitmTypeOK /\ ProcTypeOK /\ NameTypeOK /\ OverTypeOK
  /\ FeedsTypeOK
=============================================================================
