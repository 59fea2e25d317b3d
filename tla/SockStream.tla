------------------------------ MODULE SockStream ------------------------------
(***************************************************************************)
(* server_handler::on_sock_receive (server.cpp): the messages of one       *)
(* receiver arrive as a stream of bytes, cut anywhere. The socket thread   *)
(* appends what it reads to sock.buffer and calls on_sock_receive, which   *)
(* cuts whole messages off the front and gives each to on_rx_msg.          *)
(*                                                                         *)
(* A byte is a natural. The header of a message, nr_v2x_msg_header_t, is   *)
(* its payload_id and its length, one byte each; a payload byte may have   *)
(* any value, that of a header's too. Every connection has an io_struct,   *)
(* and so a buffer, of its own: one connection is modelled.                *)
(***************************************************************************)
EXTENDS Naturals, Sequences

CONSTANTS Ids,        \* payload_ids on the wire
          MaxLength,  \* bound of a payload's length
          Bytes,      \* values of payload bytes
          MaxFrames   \* bound of the messages sent

ASSUME StreamAssumption ==
  /\ Ids \subseteq Nat
  /\ MaxLength \in Nat
  /\ Bytes \subseteq Nat
  /\ MaxFrames \in Nat

HeaderSize == 2

Payloads == UNION {[1 .. n -> Bytes] : n \in 0 .. MaxLength}

Encode(id, payload) == <<id, Len(payload)>> \o payload

Frames == {Encode(id, p) : id \in Ids, p \in Payloads}

VARIABLES sent,    \* messages the receiver has sent
          net,     \* bytes under way
          buffer,  \* sock.buffer
          rpc,     \* the socket thread: "wait", or in the "loop"
          handled  \* messages given to on_rx_msg

vars == <<sent, net, buffer, rpc, handled>>

Init ==
  /\ sent = <<>> /\ net = <<>>
  /\ buffer = <<>> /\ rpc = "wait"
  /\ handled = <<>>

-----------------------------------------------------------------------------
Send(f) ==
  /\ Len(sent) < MaxFrames
  /\ sent' = Append(sent, f)
  /\ net' = net \o f
  /\ UNCHANGED <<buffer, rpc, handled>>

(* Any number of the bytes under way are read, then on_sock_receive runs.  *)
Receive(n) ==
  /\ rpc = "wait" /\ n \in 1 .. Len(net)
  /\ buffer' = buffer \o SubSeq(net, 1, n)
  /\ net' = SubSeq(net, n + 1, Len(net))
  /\ rpc' = "loop"
  /\ UNCHANGED <<sent, handled>>

-----------------------------------------------------------------------------
(* Mutant of Size: the header is not counted.                              *)
SizeOfPayload(b) == b[2]

(* size, from the header the buffer starts with.                           *)
Size(b) == b[2] + HeaderSize

(* Mutant of Whole: a message that fills the buffer exactly is not taken.  *)
WholeAndMore(b) == Len(b) >= HeaderSize /\ Size(b) < Len(b)

(* Neither of the two breaks of the loop is taken.                         *)
Whole(b) == Len(b) >= HeaderSize /\ Size(b) <= Len(b)

(* on_rx_msg; what it does with a message is ServerHandler's OnRxMsg, and   *)
(* nothing if the payload_id has no case.                                  *)
OnRxMsg(f) == handled' = Append(handled, f)

(* Mutant of Iterate: one message per call.                                *)
IterateOnce ==
  /\ rpc = "loop" /\ Whole(buffer)
  /\ OnRxMsg(SubSeq(buffer, 1, Size(buffer)))
  /\ buffer' = SubSeq(buffer, Size(buffer) + 1, Len(buffer))
  /\ rpc' = "wait"
  /\ UNCHANGED <<sent, net>>

(* One turn of the loop.                                                   *)
Iterate ==
  /\ rpc = "loop" /\ Whole(buffer)
  /\ OnRxMsg(SubSeq(buffer, 1, Size(buffer)))
  /\ buffer' = SubSeq(buffer, Size(buffer) + 1, Len(buffer))
  /\ UNCHANGED <<sent, net, rpc>>

(* A break: the rest stays in the buffer for the next call.                *)
Break ==
  /\ rpc = "loop" /\ ~Whole(buffer)
  /\ rpc' = "wait"
  /\ UNCHANGED <<sent, net, buffer, handled>>

OnSockReceive == Iterate \/ Break

ReceiveSome == \E n \in 1 .. Len(net) : Receive(n)

Next == (\E f \in Frames : Send(f)) \/ ReceiveSome \/ OnSockReceive

Spec == Init /\ [][Next]_vars

(* TCP delivers what was sent, and the socket thread runs.                 *)
FairSpec == Spec /\ WF_vars(ReceiveSome) /\ WF_vars(OnSockReceive)

-----------------------------------------------------------------------------
(* Type invariant.                                                         *)
TypeOK ==
  /\ sent \in Seq(Frames)
  /\ net \in Seq(Nat) /\ buffer \in Seq(Nat)
  /\ rpc \in {"wait", "loop"}
  /\ handled \in Seq(Frames)

(* However the stream is cut and whatever bytes its payloads hold, the     *)
(* server handles the messages that were sent, each once and whole, in     *)
(* order: on_sock_receive never loses the boundary of a message.           *)
Channel == INSTANCE FrameChannel
ChannelSpec == Channel!Spec

(* When the socket thread goes back to waiting, it has not got the whole   *)
(* of the next message: no message is held back until the next read, which *)
(* may never come, because its last byte was that read's last.             *)
NothingHeldBack ==
  rpc = "wait" /\ Len(handled) < Len(sent)
  => Len(buffer) < Len(sent[Len(handled) + 1])

(* Every message a receiver sends is handled in the end.                   *)
EverySentIsHandled ==
  \A n \in 1 .. MaxFrames : Len(sent) >= n ~> Len(handled) >= n

=============================================================================
