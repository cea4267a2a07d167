--------------------------- MODULE TargetedCapture ---------------------------
(***************************************************************************)
(* On-demand captures of one device (internal/tcapture/tcapture.go): the   *)
(* request that starts a session, the timer that ends it, the budget that  *)
(* ends it earlier, and the pipelines that feed every listed session from  *)
(* their packet loops, several at once while one capture replaces another. *)
(*                                                                         *)
(* Session.mu covers feed and the timer's callback, Manager.mu the table.  *)
(* A frame that concerns a session is numbered among the frames of its     *)
(* pipeline that do, which is all the properties need to know of it.       *)
(***************************************************************************)
EXTENDS Naturals, Sequences

CONSTANTS
  Feeders,      \* pipelines whose packets reach the manager
  Captures,     \* sessions ever requested
  Target,       \* the device of each session
  MaxBudget,    \* MaxBytesCap
  FrameSizes,   \* sizes a frame may have
  MaxFeeds      \* bound: frames one pipeline offers

ASSUME TcapAssumption ==
  /\ MaxBudget \in Nat \ {0}
  /\ FrameSizes \subseteq Nat \ {0}
  /\ MaxFeeds \in Nat

Targets == {Target[s] : s \in Captures}

VARIABLES
  session,      \* the Session of each request, and its file
  offered,      \* frames each pipeline has offered
  nth,          \* ... those that concern each session
  left,         \* sessions a pipeline has still to hand its frame to
  size          \* size of that frame

tcapVars == <<session, offered, nth, left, size>>

(* step    how far Start has come: "none"; "armed" once the timer runs but  *)
(*         Session.timer is not set; "timed"; "listed" in Manager.sessions *)
(* timer   "off", "armed", "due" when its callback waits for the mutex,    *)
(*         "gone" when it has run or was stopped                           *)
(* disk    the records in the file, buf the ones in the writer's buffer    *)
(* torn    the file system refused to take the buffer                      *)
(* The others are the fields of Session; failed is err being set.          *)
NewSession ==
  [step |-> "none", timer |-> "off", done |-> FALSE, failed |-> FALSE, budget |-> 0,
   bytes |-> 0, packets |-> 0, disk |-> <<>>, buf |-> <<>>, torn |-> FALSE]

TcapInit ==
  /\ session = [s \in Captures |-> NewSession]
  /\ offered = [p \in Feeders |-> 0]
  /\ nth = [p \in Feeders |-> [s \in Captures |-> 0]]
  /\ left = [p \in Feeders |-> {}]
  /\ size = [p \in Feeders |-> 0]

FeedingUnchanged == UNCHANGED <<offered, nth, left, size>>

-----------------------------------------------------------------------------
(* A budget that is missing or too large becomes the ceiling. *)
Clamped(requested) ==
  IF requested = 0 \/ requested > MaxBudget THEN MaxBudget ELSE requested

(* Start up to AfterFunc: the file is created, and the timer runs. A MAC   *)
(* that does not parse or a file that cannot be created changes nothing.   *)
Arm(s, requested) ==
  /\ session[s].step = "none"
  /\ session' = [session EXCEPT ![s].step = "armed", ![s].timer = "armed",
                                ![s].budget = Clamped(requested)]
  /\ FeedingUnchanged

(* Session.timer is assigned under the session's mutex ... *)
AssignTimer(s) ==
  /\ session[s].step = "armed"
  /\ session' = [session EXCEPT ![s].step = "timed"]
  /\ FeedingUnchanged

(* ... and the session put in the table under the manager's. *)
List(s) ==
  /\ session[s].step = "timed"
  /\ session' = [session EXCEPT ![s].step = "listed"]
  /\ FeedingUnchanged

-----------------------------------------------------------------------------
(* The buffer reaching the file: wholly or, when refused, a part of it.    *)
Drained(r, n) ==
  [r EXCEPT !.disk = @ \o SubSeq(r.buf, 1, n), !.buf = SubSeq(@, n + 1, Len(@)),
            !.torn = r.torn \/ n < Len(r.buf)]

(* A writer that has failed once takes nothing more. *)
FinalFlush(r) ==
  IF r.torn THEN {r} ELSE {Drained(r, n) : n \in 0 .. Len(r.buf)}

(* closeLocked on a session that is open. The timer is stopped when it is  *)
(* known to the session and still running; what Flush and Close return is  *)
(* ignored.                                                                *)
Closing(r, failed) ==
  {[f EXCEPT !.done = TRUE, !.failed = failed,
             !.timer = IF r.step # "armed" /\ @ = "armed" THEN "gone" ELSE @] : f \in FinalFlush(r)}

(* Mutant: a second close finalises the session again. *)
ClosedAgain(r, failed) == Closing(r, failed)

CloseLocked(r, failed) == IF r.done THEN {r} ELSE Closing(r, failed)

(* The timer expires: its callback is a goroutine of its own ... *)
TimerExpires(s) ==
  /\ session[s].timer = "armed"
  /\ session' = [session EXCEPT ![s].timer = "due"]
  /\ FeedingUnchanged

(* ... that closes the session, unless its budget did so before. *)
OnDeadline(s) ==
  /\ session[s].timer = "due"
  /\ \E r \in CloseLocked([session[s] EXCEPT !.timer = "gone"], FALSE) :
       session' = [session EXCEPT ![s] = r]
  /\ FeedingUnchanged

-----------------------------------------------------------------------------
Matching(macs) == {s \in Captures : Target[s] \in macs}
Listed == {s \in Captures : session[s].step = "listed"}

(* Manager.Feed: the table is copied under the manager's mutex; macs are   *)
(* the devices the frame is from and to.                                   *)
Feed(p, macs, bytes) ==
  /\ left[p] = {}
  /\ offered[p] < MaxFeeds
  /\ offered' = [offered EXCEPT ![p] = @ + 1]
  /\ nth' = [nth EXCEPT ![p] = [s \in Captures |-> IF s \in Matching(macs) THEN @[s] + 1
                                                                         ELSE @[s]]]
  /\ left' = [left EXCEPT ![p] = Matching(macs) \cap Listed]
  /\ size' = [size EXCEPT ![p] = bytes]
  /\ UNCHANGED session

(* A record in the writer, which may push out what was buffered.           *)
Recorded(r, rec) ==
  LET counted(x) == [x EXCEPT !.buf = Append(@, rec), !.packets = @ + 1, !.bytes = @ + rec.size]
  IN {counted(r), counted(Drained(r, Len(r.buf)))}

(* WritePacket fails: some of the buffer may have gone out. *)
WriteRefused(r) ==
  {[Drained(r, n) EXCEPT !.torn = TRUE] : n \in 0 .. Len(r.buf)}

(* Mutant: the budget is checked before the packet is counted. *)
FedLate(r, rec) ==
  (UNION {IF r.bytes >= r.budget THEN CloseLocked(x, FALSE) ELSE {x} : x \in Recorded(r, rec)})
    \cup (UNION {CloseLocked(x, TRUE) : x \in WriteRefused(r)})

(* Mutant: a refused packet is skipped and the session goes on. *)
FedSkipping(r, rec) ==
  (UNION {IF x.bytes >= x.budget THEN CloseLocked(x, FALSE) ELSE {x} : x \in Recorded(r, rec)})
    \cup {r}

(* Session.feed on an open session. *)
Fed(r, rec) ==
  (UNION {IF x.bytes >= x.budget THEN CloseLocked(x, FALSE) ELSE {x} : x \in Recorded(r, rec)})
    \cup (UNION {CloseLocked(x, TRUE) : x \in WriteRefused(r)})

RecordOf(p, s) == [from |-> p, nth |-> nth[p][s], size |-> size[p]]

(* One session of the copy, in whatever order the map gives them. *)
FeedSession(p, s) ==
  /\ s \in left[p]
  /\ left' = [left EXCEPT ![p] = @ \ {s}]
  /\ \E r \in IF session[s].done THEN {session[s]} ELSE Fed(session[s], RecordOf(p, s)) :
       session' = [session EXCEPT ![s] = r]
  /\ UNCHANGED <<offered, nth, size>>

TcapNext ==
  \/ \E s \in Captures : \/ \E requested \in 0 .. MaxBudget + 1 : Arm(s, requested)
                         \/ AssignTimer(s) \/ List(s) \/ TimerExpires(s) \/ OnDeadline(s)
  \/ \E p \in Feeders : \/ \E macs \in SUBSET Targets, bytes \in FrameSizes : Feed(p, macs, bytes)
                        \/ \E s \in Captures : FeedSession(p, s)

TcapSpec == TcapInit /\ [][TcapNext]_tcapVars

(* The runtime runs timers and their callbacks. *)
TcapFairness ==
  \A s \in Captures : WF_tcapVars(TimerExpires(s)) /\ WF_tcapVars(OnDeadline(s))
-----------------------------------------------------------------------------
FrameRecord == [from : Feeders, nth : Nat, size : FrameSizes]

SessionRecord ==
  [step : {"none", "armed", "timed", "listed"}, timer : {"off", "armed", "due", "gone"},
   done : BOOLEAN, failed : BOOLEAN, budget : 0 .. MaxBudget, bytes : Nat, packets : Nat,
   disk : Seq(FrameRecord), buf : Seq(FrameRecord), torn : BOOLEAN]

TcapTypeOK ==
  /\ session \in [Captures -> SessionRecord]
  /\ offered \in [Feeders -> 0 .. MaxFeeds]
  /\ nth \in [Feeders -> [Captures -> Nat]]
  /\ left \in [Feeders -> SUBSET Captures]
  /\ size \in [Feeders -> FrameSizes \cup {0}]
  /\ \A p \in Feeders : left[p] # {} => size[p] \in FrameSizes

Contents(s) == session[s].disk \o session[s].buf

(* "For a caller-chosen duration or byte budget": a session that is open   *)
(* is within its budget, and a finished one went past it by less than its  *)
(* last frame, however many pipelines feed it.                             *)
BudgetKept ==
  \A s \in Captures :
    /\ session[s].budget <= MaxBudget
    /\ session[s].step # "none" /\ ~session[s].done => session[s].bytes < session[s].budget
    /\ \A f \in FrameSizes : (\A g \in FrameSizes : g <= f) =>
         session[s].bytes < session[s].budget + f

(* "A targeted session sees the same live packets the dissector does": of  *)
(* each pipeline's frames for the device the file holds an unbroken run,   *)
(* in order, without a hole or a repetition.                               *)
UnbrokenRun ==
  \A s \in Captures : LET c == Contents(s) IN
    \A i, j \in 1 .. Len(c) :
      i < j /\ c[i].from = c[j].from /\ (\A k \in i + 1 .. j - 1 : c[k].from # c[i].from)
        => c[j].nth = c[i].nth + 1

(* "Readable once Status().Done is true": unless the file system refused   *)
(* the data, all packets counted are in the file of a finished session.    *)
DoneIsReadable ==
  \A s \in Captures :
    session[s].done /\ ~session[s].torn => Len(session[s].disk) = session[s].packets

(* "Safe to call more than once": whatever still arrives, the timer's      *)
(* callback or a frame on its way, leaves a finished session as it is.     *)
FinishedStays ==
  [][\A s \in Captures : session[s].done =>
       [session'[s] EXCEPT !.step = "", !.timer = ""] = [session[s] EXCEPT !.step = "", !.timer = ""]
    ]_tcapVars

(* "A forgotten request cannot capture indefinitely". *)
CapturesEnd == \A s \in Captures : (session[s].step # "none") ~> session[s].done

(* What a session promises of its file: it stays within the budget asked   *)
(* for and, once done, holds every packet counted (tcapture.go).           *)
FileKept == BudgetKept /\ DoneIsReadable
=============================================================================
