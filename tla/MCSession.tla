----------------------------- MODULE MCSession -----------------------------
(***************************************************************************)
(* The analyzer seen from two sides in one graph: behaviours in which a    *)
(* live capture or a file is stopped and restarted and nobody watches, and *)
(* behaviours in which two files are opened while a browser subscribes to  *)
(* the packets and asks for one of them.                                   *)
(***************************************************************************)
EXTENDS MCAnalyzerSession

VARIABLE part   \* "restarts" or "clients"

sessionVars == <<vars, part>>

Opened == IF part = "restarts" THEN {eth, file} ELSE {file, other}
Asking == IF part = "restarts" THEN Requests ELSE Starters

SessionInit == Init /\ part \in {"restarts", "clients"}

(* Next, without the clients in one part and the stoppers in the other.    *)
SessionNext ==
  /\ ~crashed
  /\ UNCHANGED part
  /\ \/ \E t \in Starters, c \in Opened : OpenNew(t, c)
     \/ \E t \in Asking : RequestStep(t)
     \/ \E c \in Sources : ConsumerStep(c)
     \/ \E c \in Sources : SourceLoop(c) /\ OthersUnchanged
     \/ part = "clients" /\ \E u \in Subscribers : SubscriberStep(u)
     \/ part = "clients" /\ \E v \in Viewers : ViewerStep(v)
     \/ \E c \in Sources, n \in 0 .. MaxFrames : DiskFault(c, n)

SessionSpec == SessionInit /\ [][SessionNext]_sessionVars
=============================================================================
