------------------------------ MODULE Attribution ------------------------------
(***************************************************************************)
(* What the analyzer and the agent say of an address, and on what grounds: *)
(* three parts that know nothing of each other, each by its own evidence.  *)
(***************************************************************************)
EXTENDS ProcMap, NameMap, ThreatFeeds

(* What is said of an address rests on what was seen of it: the process    *)
(* that has it (procmap.go), the names it goes by (namemap.go) and the     *)
(* threat lists it is on, which outlive the process (threatintel.go).      *)
AttributionHolds == AnswerFresh /\ NamesAreEvidence /\ ListsKept
=============================================================================
