------------------------------- MODULE MCAgent -------------------------------
(***************************************************************************)
(* Two parts of the agent that share no state in one graph: the supervisor *)
(* with the threat intelligence it distributes, and the targeted captures  *)
(* that overlapping pipelines feed. A behaviour is one of either part.     *)
(***************************************************************************)
EXTENDS Supervisor, TargetedCapture

CONSTANTS wlan, usb, p1, p2, cam, first

VARIABLE part   \* which of the two this behaviour is of

TwoIfaces == {wlan, usb}
OnlyUsb == {usb}
TwoPipes == {p1, p2}
OnlyFirst == {first}
Camera == [s \in OnlyFirst |-> cam]
SmallAndLarge == {1, 2}

agentVars == <<supVars, tcapVars, part>>

(* The host of a behaviour of the captures is any one host. *)
AnyHost == mode = "auto" /\ route = NoIface /\ \A i \in Ifaces : link[i] = "up"

Init ==
  /\ part \in {"supervisor", "captures"}
  /\ SupInit /\ TcapInit
  /\ part = "captures" => AnyHost

OfSupervisor(A) == part = "supervisor" /\ A /\ UNCHANGED <<tcapVars, part>>
OfCaptures(A) == part = "captures" /\ A /\ UNCHANGED <<supVars, part>>

Next == OfSupervisor(SupNext) \/ OfCaptures(TcapNext)

Spec == Init /\ [][Next]_agentVars

(* SupFairness and TcapFairness, each where its part moves. *)
FairSpec ==
  /\ Spec
  /\ WF_agentVars(OfSupervisor(MainStep))
  /\ WF_agentVars(OfSupervisor(ReadCallback \/ CallBack))
  /\ \A p \in Pipes : WF_agentVars(OfSupervisor(closes[p] > 0 /\ PipelineEnds(p)))
  /\ \A s \in Captures : /\ WF_agentVars(OfCaptures(TimerExpires(s)))
                         /\ WF_agentVars(OfCaptures(OnDeadline(s)))

(* Types of both parts: of the supervisor and of the captures. *)
AgentTypeOK == SupTypeOK /\ TcapTypeOK

(* What was set off ends: every notification is handled, and a capture for *)
(* a device does not go on for ever (main.go watch, tcapture.go).          *)
AgentSettles == EventsHandled /\ CapturesEnd
=============================================================================
