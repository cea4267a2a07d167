--------------------------------- MODULE Mitm ---------------------------------
(***************************************************************************)
(* The decrypting proxy (internal/mitm): the root certificate and its key  *)
(* on disk, the cache of leaf certificates, CONNECT tunnels that serve one *)
(* request after another, and the ring of recorded exchanges.              *)
(*                                                                         *)
(* A key pair is a number; a body is the sequence of the sizes it is       *)
(* written in.  Headers, addresses, the name a tunnel is for and the text  *)
(* of errors are left out.                                                 *)
(***************************************************************************)
EXTENDS Integers, Sequences

CONSTANTS
  FoundPairs,   \* what the directory may hold at first: [cert, key]
  Tunnels,      \* connections a client may open
  Hosts,        \* names asked for
  Bodies,       \* bodies sent either way
  BodyCap,      \* maxBodyCapture
  Limit,        \* exchanges kept
  LeafLife,     \* leafValidity
  MaxPairs, MaxClock, MaxExchanges   \* bounds

(* What a half of the root pair may be besides the number of its pair.     *)
Missing == 0
Spoilt == -1
Usable(half) == half \notin {Missing, Spoilt}

(* A certificate is not found beside another key than its own, nor beside  *)
(* none that can be read: somebody else would have to have spoilt the key. *)
ASSUME MitmAssumption ==
  /\ FoundPairs \subseteq [cert : {Spoilt, Missing, 1}, key : {Spoilt, Missing, 1}]
  /\ \A found \in FoundPairs : Usable(found.cert) => found.key = found.cert
  /\ Bodies \subseteq Seq(Nat)
  /\ BodyCap \in Nat /\ Limit \in Nat \ {0} /\ LeafLife \in Nat \ {0}
  /\ MaxPairs \in Nat \ {0} /\ MaxClock \in Nat /\ MaxExchanges \in Nat

VARIABLES
  disk,       \* ca.pem and ca.key: Missing, Spoilt or the pair they belong to
  boot,       \* where LoadOrCreate is
  ca,         \* the pair in memory: [cert, key]
  pairs,      \* pairs generated so far
  clock,
  leaves,     \* cached leaves: host -> expiry, 0 for none
  listener,   \* "none", "open", "closed"
  tunnels,    \* by tunnel: where it is, the leaf shown, what the client is owed, the request
  exchanges,  \* the ring, oldest first
  recorded    \* exchanges put so far

mitmVars == <<disk, boot, ca, pairs, clock, leaves, listener, tunnels, exchanges, recorded>>
onDisk == <<disk, boot, ca, pairs>>

NoCA == [cert |-> Missing, key |-> Missing]
Idle == [pc |-> "idle", leaf |-> [until |-> 1, at |-> 0], owed |-> 0,
         body |-> <<>>, close |-> FALSE]

MitmInit ==
  /\ disk \in FoundPairs
  /\ boot = "off" /\ ca = NoCA /\ pairs = 1
  /\ clock = 0
  /\ leaves = [h \in Hosts |-> 0]
  /\ listener = "none"
  /\ tunnels = [t \in Tunnels |-> Idle]
  /\ exchanges = <<>> /\ recorded = 0
-----------------------------------------------------------------------------
(* LoadOrCreate.  A pair that can be read is taken as it is; otherwise     *)
(* both files are written anew, the key first.  os.WriteFile empties the   *)
(* file before it fills it.                                                *)
LoadPair ==
  /\ boot = "off"
  /\ Usable(disk.cert) /\ Usable(disk.key)
  /\ ca' = disk
  /\ boot' = "up"
  /\ UNCHANGED <<disk, pairs>>

(* The halves in the order they are written.                               *)
FirstHalf == "key"
SecondHalf == CHOOSE half \in {"cert", "key"} : half # FirstHalf

EmptyFirst ==
  /\ boot = "off"
  /\ ~(Usable(disk.cert) /\ Usable(disk.key))
  /\ pairs < MaxPairs
  /\ pairs' = pairs + 1
  /\ disk' = [disk EXCEPT ![FirstHalf] = Spoilt]
  /\ boot' = "first"
  /\ UNCHANGED ca

FillFirst ==
  /\ boot = "first"
  /\ disk' = [disk EXCEPT ![FirstHalf] = pairs]
  /\ boot' = "between"
  /\ UNCHANGED <<ca, pairs>>

EmptySecond ==
  /\ boot = "between"
  /\ disk' = [disk EXCEPT ![SecondHalf] = Spoilt]
  /\ boot' = "second"
  /\ UNCHANGED <<ca, pairs>>

FillSecond ==
  /\ boot = "second"
  /\ disk' = [disk EXCEPT ![SecondHalf] = pairs]
  /\ ca' = disk'
  /\ boot' = "up"
  /\ UNCHANGED pairs

LoadOrCreate ==
  /\ LoadPair \/ EmptyFirst \/ FillFirst \/ EmptySecond \/ FillSecond
  /\ UNCHANGED <<clock, leaves, listener, tunnels, exchanges, recorded>>

(* The process ends, or a write fails; nothing in memory survives.         *)
CrashMitm ==
  /\ boot # "off"
  /\ boot' = "off" /\ ca' = NoCA
  /\ leaves' = [h \in Hosts |-> 0]
  /\ listener' = "none"
  /\ tunnels' = [t \in Tunnels |-> Idle]
  /\ exchanges' = <<>>
  /\ UNCHANGED <<disk, pairs, clock, recorded>>
-----------------------------------------------------------------------------
ListenAndServe ==
  /\ boot = "up" /\ listener = "none"
  /\ listener' = "open"
  /\ UNCHANGED <<onDisk, clock, leaves, tunnels, exchanges, recorded>>

(* Close stops accepting; open tunnels go on.                              *)
CloseProxy ==
  /\ listener = "open"
  /\ listener' = "closed"
  /\ UNCHANGED <<onDisk, clock, leaves, tunnels, exchanges, recorded>>

MitmTick ==
  /\ clock < MaxClock
  /\ clock' = clock + 1
  /\ UNCHANGED <<onDisk, leaves, listener, tunnels, exchanges, recorded>>

(* IssueLeaf: the cached leaf if it has not expired, else a new one.       *)
LeafFor(h) == IF clock < leaves[h] THEN leaves[h] ELSE clock + LeafLife

(* CONNECT and the handshake.  Another method, or a client that refuses    *)
(* the leaf, ends the connection where it began.                           *)
Handshake(t, h) ==
  /\ listener = "open"
  /\ tunnels[t].pc = "idle"
  /\ leaves' = [leaves EXCEPT ![h] = LeafFor(h)]
  /\ \E trusted \in BOOLEAN :
       tunnels' = IF trusted
                  THEN [tunnels EXCEPT ![t] = [Idle EXCEPT !.pc = "open",
                                               !.leaf = [until |-> LeafFor(h), at |-> clock]]]
                  ELSE tunnels
  /\ UNCHANGED <<onDisk, clock, listener, exchanges, recorded>>

ReadRequest(t) ==
  /\ tunnels[t].pc = "open"
  /\ \E body \in Bodies, close \in BOOLEAN :
       tunnels' = [tunnels EXCEPT ![t].pc = "forward", ![t].body = body, ![t].close = close]
  /\ UNCHANGED <<onDisk, clock, leaves, listener, exchanges, recorded>>

(* The client goes, or is idle for too long.                               *)
TunnelEnds(t) ==
  /\ tunnels[t].pc = "open"
  /\ tunnels' = [tunnels EXCEPT ![t] = Idle]
  /\ UNCHANGED <<onDisk, clock, leaves, listener, exchanges, recorded>>

(* cappedBuffer.Write, for each piece of a body that passes.               *)
EmptyCapture == [kept |-> 0, trunc |-> FALSE]
Room(capture) == BodyCap - capture.kept
WritePiece(capture, n) ==
  [kept |-> capture.kept + (IF Room(capture) > n THEN n ELSE Room(capture)),
   trunc |-> capture.trunc \/ Room(capture) < n]
Captured(body) ==
  LET sofar[i \in 0..Len(body)] ==
        IF i = 0 THEN EmptyCapture ELSE WritePiece(sofar[i - 1], body[i])
  IN sofar[Len(body)]

(* The bytes of a body.                                                    *)
Sum(body) ==
  LET sofar[i \in 0..Len(body)] == IF i = 0 THEN 0 ELSE sofar[i - 1] + body[i]
  IN sofar[Len(body)]

(* put: the oldest exchanges make room.                                    *)
Put(ex) ==
  LET longer == Append(exchanges, ex) IN
  /\ recorded < MaxExchanges
  /\ recorded' = recorded + 1
  /\ exchanges' = IF Len(longer) > Limit THEN Tail(longer) ELSE longer

Exchange(t, sent, reply) ==
  [id |-> recorded + 1, sent |-> Sum(sent), req |-> Captured(sent),
   got |-> Sum(reply), resp |-> Captured(reply)]

(* forward fails: the origin cannot be dialled (nothing is sent), or the   *)
(* connection breaks after part of the request, or before an answer.  The  *)
(* client is told and the tunnel ends.                                     *)
ForwardFails(t) ==
  /\ tunnels[t].pc = "forward"
  /\ \E n \in 0..Len(tunnels[t].body) : Put(Exchange(t, SubSeq(tunnels[t].body, 1, n), <<>>))
  /\ tunnels' = [tunnels EXCEPT ![t] = Idle]
  /\ UNCHANGED <<onDisk, clock, leaves, listener>>

(* Mutant: a response broken off does not end the tunnel.                  *)
ReuseAnyKnown(whole, known, close) == known /\ ~close

(* The tunnel may serve another request only when the client knows where   *)
(* the response ended.                                                     *)
MayReuse(whole, known, close) == whole /\ known /\ ~close

(* relayResponse: the body passes through until it ends, the origin breaks *)
(* off or the client cannot be written to.                                 *)
Relay(t) ==
  /\ tunnels[t].pc = "forward"
  /\ \E reply \in Bodies, known \in BOOLEAN :
     \E n \in 0..Len(reply) :
       LET passed == SubSeq(reply, 1, n)
           whole == n = Len(reply)
       IN /\ Put(Exchange(t, tunnels[t].body, passed))
          /\ tunnels' = [tunnels EXCEPT ![t] =
               IF MayReuse(whole, known, tunnels[t].close)
               THEN [@ EXCEPT !.pc = "open", !.body = <<>>, !.close = FALSE,
                              !.owed = IF known THEN Sum(reply) - Sum(passed) ELSE 1]
               ELSE Idle]
  /\ UNCHANGED <<onDisk, clock, leaves, listener>>

MitmNext ==
  \/ LoadOrCreate \/ CrashMitm \/ ListenAndServe \/ CloseProxy \/ MitmTick
  \/ \E t \in Tunnels :
       \/ \E h \in Hosts : Handshake(t, h)
       \/ ReadRequest(t) \/ TunnelEnds(t) \/ ForwardFails(t) \/ Relay(t)

MitmSpec == MitmInit /\ [][MitmNext]_mitmVars
-----------------------------------------------------------------------------
MitmTypeOK ==
  /\ \A half \in {"cert", "key"} :
       disk[half] \in {Spoilt, Missing} \cup 1..MaxPairs
  /\ boot \in {"off", "first", "between", "second", "up"}
  /\ ca = NoCA <=> boot # "up"
  /\ pairs \in 1..MaxPairs /\ clock \in 0..MaxClock
  /\ leaves \in [Hosts -> 0..MaxClock + LeafLife]
  /\ listener \in {"none", "open", "closed"}
  /\ \A t \in Tunnels : tunnels[t].pc \in {"idle", "open", "forward"}
  /\ Len(exchanges) <= Limit /\ recorded \in 0..MaxExchanges

(* However the process was interrupted while it wrote the root            *)
(* certificate and its key, the two it comes up with belong together: from *)
(* a pair of which one half cannot be read no usable half is left to be    *)
(* combined with a new one (ca.go LoadOrCreate).                           *)
PairBelongs == boot = "up" => ca.cert = ca.key

(* The record is true and the relay untouched: what is kept of a body is   *)
(* all of it or its first BodyCap bytes, said to be cut exactly when it    *)
(* is; the ring holds the latest exchanges; a tunnel open for another      *)
(* request owes the client nothing of an earlier response; and no client   *)
(* was shown a leaf past its day (proxy.go serveDecrypted, relayResponse,  *)
(* cappedBuffer; store.go put; leaf.go IssueLeaf).                         *)
ExchangesTrue ==
  /\ \A i \in DOMAIN exchanges :
       LET ex == exchanges[i] IN
       /\ ex.id = recorded - Len(exchanges) + i
       /\ \A side \in {<<ex.sent, ex.req>>, <<ex.got, ex.resp>>} :
            /\ side[2].kept = IF side[1] < BodyCap THEN side[1] ELSE BodyCap
            /\ side[2].trunc <=> side[1] > BodyCap
  /\ \A t \in Tunnels : tunnels[t].owed = 0 /\ tunnels[t].leaf.at < tunnels[t].leaf.until

(* What the proxy vouches for: its root certificate and what it recorded.  *)
ProxyTrue == PairBelongs /\ ExchangesTrue
=============================================================================
