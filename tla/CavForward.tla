------------------------------ MODULE CavForward ------------------------------
(***************************************************************************)
(* Class cav_handler (cav_handler.cpp): a platooning message heard from a  *)
(* leading or following vehicle is repacked and sent over TCP to the       *)
(* autonomous vehicle: a fixed part that starts with a header, then one    *)
(* cav_path_plane_t for each point of the path plan.                       *)
(*                                                                         *)
(* The stream is a sequence of numbers, the fields a reader needs to find  *)
(* a message and its points: msg_seq and msg_length of the header,         *)
(* vehicle_type and num_of_pathplane of the rest, lat and lon of a point.  *)
(* The fields copied or converted one by one are left out: position,       *)
(* speed, heading, accelerations. The layout (cav_msg.h) is not in the     *)
(* repository; the sample/ captures show msg_seq as one byte and           *)
(* num_of_pathplane points counted by msg_length.                          *)
(***************************************************************************)
EXTENDS Integers, Sequences

CONSTANTS MaxPoints,  \* DB_V2X_PT_LV_PATH_PLAN_MAX_LEN
          RawPoints,  \* points of a path plan, <<latitude, longitude>>
          Scale,      \* 100000, from the message's unit to the vehicle's
          MsgSeqs,    \* values of msg_seq: 256
          MaxSeq,     \* bound of the calls
          MaxWire     \* bound of the messages under way

ASSUME CavAssumption ==
  /\ MaxPoints \in Nat
  /\ RawPoints \subseteq Nat \X Nat
  /\ Scale \in Nat \ {0}
  /\ MsgSeqs \in Nat \ {0}
  /\ MaxSeq \in Nat /\ MaxWire \in Nat

HeaderSize == 2   \* cav_msg_header_t: msg_seq, msg_length
InfoSize == 4     \* connected_vehicle_information_t, the header included
PathSize == 2     \* cav_path_plane_t: lat, lon

LV == 1
FV == 2           \* vehicle_type

NoPoint == <<0, 0>>

VARIABLES seq,      \* cav_handler::seq
          wire,     \* the stream, up to where the vehicle has read it
          got,      \* the last message the vehicle read
          underway, \* history: the calls whose messages are on the wire
          lost      \* history: calls that failed since the last that did not

vars == <<seq, wire, got, underway, lost>>

Init ==
  /\ seq = 0
  /\ wire = <<>>
  /\ got = [seq |-> MsgSeqs - 1, type |-> 0, points |-> <<>>]
  /\ underway = <<>>
  /\ lost = 0

-----------------------------------------------------------------------------
(* Mutant of EndsPlan: a zero in either coordinate ends the plan.          *)
EndsPlanEither(p) == p[1] = 0 \/ p[2] = 0

EndsPlan(p) == p = NoPoint

(* index, after the loop: the points before the first that ends the plan.  *)
Index(path) ==
  CHOOSE n \in 0 .. MaxPoints :
    /\ \A i \in 1 .. n : ~EndsPlan(path[i])
    /\ n < MaxPoints => EndsPlan(path[n + 1])

Convert(p) == <<p[1] \div Scale, p[2] \div Scale>>

(* The points that the loop appends: the lat and then the lon of each.     *)
PathPlan(path) ==
  [j \in 1 .. PathSize * Index(path) |->
     Convert(path[(j + 1) \div PathSize])[2 - (j % PathSize)]]

(* Mutant of MsgLength: the whole message is counted.                      *)
MsgLengthWhole(n) == InfoSize + n * PathSize

(* msg_length: what follows the header.                                    *)
MsgLength(n) == InfoSize - HeaderSize + n * PathSize

(* The fields.                                                             *)
Message(type, path) ==
  <<seq % MsgSeqs, MsgLength(Index(path)), type, Index(path)>>
  \o PathPlan(path)

(* Mutant of Forward: only a message that is sent takes a number.          *)
ForwardCountsSent(type, path, ok) ==
  /\ seq < MaxSeq /\ Len(underway) < MaxWire
  /\ seq' = IF ok THEN seq + 1 ELSE seq
  /\ IF ok
       THEN /\ wire' = wire \o Message(type, path)
            /\ underway' = Append(underway, [type |-> type, path |-> path,
                                             lost |-> lost])
            /\ lost' = 0
       ELSE lost' = lost + 1 /\ UNCHANGED <<wire, underway>>
  /\ UNCHANGED got

(* forward_lv_msg and forward_fv_msg; ok is what sock.send answers.        *)
Forward(type, path, ok) ==
  /\ seq < MaxSeq /\ Len(underway) < MaxWire
  /\ seq' = seq + 1
  /\ IF ok
       THEN /\ wire' = wire \o Message(type, path)
            /\ underway' = Append(underway, [type |-> type, path |-> path,
                                             lost |-> lost])
            /\ lost' = 0
       ELSE lost' = lost + 1 /\ UNCHANGED <<wire, underway>>
  /\ UNCHANGED got

ForwardLvMsg(path, ok) == Forward(LV, path, ok)

ForwardFvMsg(path, ok) == Forward(FV, path, ok)

(* The vehicle, external: reads a header and msg_length more. It can make  *)
(* a message of that if there is room for the fixed part and exactly for   *)
(* the points that num_of_pathplane says.                                  *)
VehicleReads ==
  LET size == HeaderSize + wire[2]
      msg == SubSeq(wire, 1, size)
  IN  /\ Len(wire) >= HeaderSize /\ Len(wire) >= size
      /\ size >= InfoSize /\ size = InfoSize + PathSize * msg[4]
      /\ wire' = SubSeq(wire, size + 1, Len(wire))
      /\ got' = [seq |-> msg[1], type |-> msg[3],
                 points |-> [i \in 1 .. msg[4] |->
                               SubSeq(msg, InfoSize + PathSize * (i - 1) + 1,
                                           InfoSize + PathSize * i)]]
      /\ underway' = Tail(underway)
      /\ UNCHANGED <<seq, lost>>

Paths == [1 .. MaxPoints -> RawPoints]

Next ==
  \/ \E path \in Paths, ok \in BOOLEAN :
       ForwardLvMsg(path, ok) \/ ForwardFvMsg(path, ok)
  \/ VehicleReads

Spec == Init /\ [][Next]_vars

(* The vehicle reads on.                                                   *)
FairSpec == Spec /\ WF_vars(VehicleReads)

-----------------------------------------------------------------------------
(* Type invariant.                                                         *)
TypeOK ==
  /\ seq \in 0 .. MaxSeq
  /\ wire \in Seq(Nat)
  /\ got.seq \in 0 .. MsgSeqs - 1 /\ got.type \in {0, LV, FV}
  /\ got.points \in Seq(Nat \X Nat)
  /\ underway \in Seq([type : {LV, FV}, path : Paths, lost : 0 .. MaxSeq])
  /\ lost \in 0 .. MaxSeq

Reading == Len(underway') < Len(underway)

(* The vehicle, cutting the stream by msg_length alone, reads every        *)
(* message as it was forwarded: its kind, and of its path plan all that    *)
(* stands before the first point at (0, 0), none of it left out or added.  *)
PlanArrives ==
  [][ Reading =>
      LET call == Head(underway)
          n == Len(got'.points)
      IN  /\ got'.type = call.type
          /\ \A i \in 1 .. n :
               /\ call.path[i] # NoPoint
               /\ got'.points[i] = <<call.path[i][1] \div Scale,
                                     call.path[i][2] \div Scale>>
          /\ n = MaxPoints \/ call.path[n + 1] = NoPoint ]_vars

(* Between two messages the vehicle reads, msg_seq steps by one and by the *)
(* number of calls that failed between them, modulo its width: a gap is    *)
(* exactly a loss, across the wrap too.                                    *)
GapIsLoss ==
  [][ Reading =>
      (got'.seq - got.seq) % MsgSeqs = (1 + Head(underway).lost) % MsgSeqs ]_vars

(* When the calls stop, the vehicle has read everything in the end: it     *)
(* never waits in the middle of a message for bytes that were not sent.    *)
EveryMessageIsRead == <>[][seq' = seq]_vars => <>[](wire = <<>>)

=============================================================================
