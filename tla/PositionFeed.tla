----------------------------- MODULE PositionFeed -----------------------------
(***************************************************************************)
(* The way of a GPS sample and of a lane link id from the d2x socket into  *)
(* a message: the d2x thread runs on_dgd_gps_data, which assigns the       *)
(* members of data.fix one by one, and on_dgd_link_data, which assigns     *)
(* data.link; the worker thread copies both for set_position and reads the *)
(* copies in build_fv_msg. info.lock guards the copies; nothing guards     *)
(* data, so a copy may fall between two of the assignments. The race on a  *)
(* part is taken to yield its old or its new value.                        *)
(*                                                                         *)
(* The fourteen members of GPSFix are represented by the two that make a   *)
(* position. A link id has one length, and a std::string of that length    *)
(* keeps it in place: it is assigned and copied as a head and a tail. A    *)
(* message of the d2x unit is its number, and a part holds the number of   *)
(* the message it is from; 0 is the value before the first.                *)
(***************************************************************************)
EXTENDS Integers

CONSTANT MaxSample    \* messages the unit sends of each kind: a bound

ASSUME FeedAssumption == MaxSample \in Nat

Sources == {"gps", "link"}

FixMembers == {"latitude", "longitude"}
LinkParts  == {"head", "tail"}
Members    == FixMembers \cup LinkParts

SourceOf(m) == IF m \in FixMembers THEN "gps" ELSE "link"

VARIABLES data,     \* obu_handler::data, its fix and its link
          sample,   \* number of the message each handler is, or was, given
          dpc,      \* the d2x thread: "idle", or the part it assigns next
          copy,     \* info.fix, and the link on its way into info.link_id
          copied,   \* parts the running copy has done
          ppc,      \* the worker: "wait", "copy" (for set_position), "build"
          sent,     \* what the last message held, as build_fv_msg saw it
          known     \* history: messages complete when the copy began

d2x == <<data, sample, dpc>>
worker == <<copy, copied, ppc, sent, known>>
vars == <<d2x, worker>>

Zero == [m \in Members |-> 0]
Never == [s \in Sources |-> 0]

(* Mutant of Init: the members of data.fix are not initialised.            *)
InitNotSet ==
  /\ data = [m \in Members |-> IF m \in FixMembers THEN -1 ELSE 0]
  /\ sample = Never /\ dpc = "idle"
  /\ copy = Zero /\ copied = {} /\ ppc = "wait"
  /\ sent = Zero /\ known = Never

Init ==
  /\ data = Zero /\ sample = Never /\ dpc = "idle"
  /\ copy = Zero /\ copied = {} /\ ppc = "wait"
  /\ sent = Zero /\ known = Never

-----------------------------------------------------------------------------
(* d2x thread: one handler at a time, on_dgd_gps_data or on_dgd_link_data. *)

FirstOf(s) == IF s = "gps" THEN "latitude" ELSE "head"

AssignedAfter(m) ==
  CASE m = "latitude" -> "longitude"
    [] m = "head"     -> "tail"
    [] OTHER          -> "idle"

D2xReceive(s) ==
  /\ dpc = "idle" /\ sample[s] < MaxSample
  /\ sample' = [sample EXCEPT ![s] = @ + 1]
  /\ dpc' = FirstOf(s)
  /\ UNCHANGED <<data, worker>>

(* Mutant of D2xAssign: the longitude is never assigned.                   *)
D2xAssignLatitude ==
  /\ dpc \in Members
  /\ data' = [data EXCEPT ![IF dpc = "longitude" THEN "latitude" ELSE dpc] =
                sample[SourceOf(dpc)]]
  /\ dpc' = AssignedAfter(dpc)
  /\ UNCHANGED <<sample, worker>>

(* Mutant of D2xAssign: what a handler assigns is cleared before.          *)
D2xAssignClears ==
  /\ dpc \in Members
  /\ data' = [m \in Members |->
                IF m = dpc THEN sample[SourceOf(m)]
                ELSE IF m = AssignedAfter(dpc) THEN 0 ELSE data[m]]
  /\ dpc' = AssignedAfter(dpc)
  /\ UNCHANGED <<sample, worker>>

D2xAssign ==
  /\ dpc \in Members
  /\ data' = [data EXCEPT ![dpc] = sample[SourceOf(dpc)]]
  /\ dpc' = AssignedAfter(dpc)
  /\ UNCHANGED <<sample, worker>>

-----------------------------------------------------------------------------
(* Worker thread.                                                          *)

(* The last message of a source of which every part has been assigned.     *)
Complete(s) ==
  IF dpc \in Members /\ SourceOf(dpc) = s THEN sample[s] - 1 ELSE sample[s]

(* The call set_position(data.fix, data.link) begins.                      *)
CopyBegin ==
  /\ ppc = "wait"
  /\ ppc' = "copy"
  /\ copied' = {}
  /\ known' = [s \in Sources |-> Complete(s)]
  /\ UNCHANGED <<d2x, copy, sent>>

(* link, passed by value, is copied for the call; then info.fix = now      *)
(* copies the fix it is passed a reference to, its members in any order.   *)
CopyMember(m) ==
  /\ ppc = "copy" /\ m \in Members \ copied
  /\ m \in FixMembers => LinkParts \subseteq copied
  /\ copy' = [copy EXCEPT ![m] = data[m]]
  /\ copied' = copied \cup {m}
  /\ ppc' = IF copied' = Members THEN "build" ELSE "copy"
  /\ UNCHANGED <<d2x, sent, known>>

(* Mutant of Build: the message is built from what the last one was.       *)
BuildStale ==
  /\ ppc = "build"
  /\ ppc' = "wait"
  /\ UNCHANGED <<d2x, copy, copied, known, sent>>

(* build_fv_msg, under info.lock like the copy.                            *)
Build ==
  /\ ppc = "build"
  /\ ppc' = "wait"
  /\ sent' = copy
  /\ UNCHANGED <<d2x, copy, copied, known>>

-----------------------------------------------------------------------------
D2x == (\E s \in Sources : D2xReceive(s)) \/ D2xAssign

Worker == CopyBegin \/ (\E m \in Members : CopyMember(m)) \/ Build

Next == D2x \/ Worker

Spec == Init /\ [][Next]_vars

(* Both threads run; the timer lets the worker begin again and again.      *)
FairSpec == Spec /\ WF_vars(D2xAssign) /\ WF_vars(Worker)

-----------------------------------------------------------------------------
(* Type invariant.                                                         *)
TypeOK ==
  /\ data \in [Members -> 0 .. MaxSample]
  /\ sample \in [Sources -> 0 .. MaxSample]
  /\ dpc \in Members \cup {"idle"}
  /\ copy \in [Members -> 0 .. MaxSample]
  /\ copied \subseteq Members
  /\ ppc \in {"wait", "copy", "build"}
  /\ sent \in [Members -> 0 .. MaxSample]
  /\ known \in [Sources -> 0 .. MaxSample]

(* A message carries no part older than the last message of the unit that  *)
(* was complete when set_position was called for it: unguarded as the copy *)
(* is, it loses nothing that had arrived.                                  *)
SentIsFresh ==
  ppc = "wait" => \A m \in Members : sent[m] >= known[SourceOf(m)]

(* Torn as a message may be, no part of it ever goes back to an older      *)
(* value than a message before it carried.                                 *)
SentNeverGoesBack ==
  [][ \A m \in Members : sent'[m] >= sent[m] ]_vars

(* "@param now 현재 위치 정보" and "@param link 현재 Link ID 정보"                   *)
(* (platooning_service.cpp:54-55): the position and the link that          *)
(* set_position is given, and a message reports, are ones the unit sent.   *)
SentIsMeasured ==
  /\ sent["latitude"] = sent["longitude"]
  /\ sent["head"] = sent["tail"]

(* When the unit falls silent, what it sent last is what is sent on in the *)
(* end.                                                                    *)
LastSampleSent ==
  <>[][sample' = sample]_vars
  => <>[](\A m \in Members : sent[m] = sample[SourceOf(m)])

=============================================================================
