--------------------------- MODULE SockStreamProofs ---------------------------
(***************************************************************************)
(* Proofs about on_sock_receive for messages of every length, every value  *)
(* of their bytes and every way the stream is cut.                         *)
(***************************************************************************)
EXTENDS SockStream, CommonLemmas

(* Nothing of the stream is lost or moved: what is in the buffer and under *)
(* way is the messages sent and not handled, one after the other.          *)
StreamInv ==
  /\ Len(handled) <= Len(sent)
  /\ Holds(buffer \o net, sent, Len(handled))

(* Between two reads the loop has been left by one of its breaks.          *)
LoopLeft == rpc = "wait" => ~Whole(buffer)

Inv == TypeOK /\ StreamInv /\ LoopLeft

-----------------------------------------------------------------------------
(* A message says itself how long it is.                                   *)
LEMMA FrameShape ==
  ASSUME NEW f \in Frames
  PROVE  f \in Seq(Nat) /\ Len(f) >= HeaderSize /\ Len(f) = Size(f)
<1>1. PICK id \in Ids, p \in Payloads : f = Encode(id, p)
  BY DEF Frames
<1>2. PICK n \in 0 .. MaxLength : p \in [1 .. n -> Bytes]
  BY <1>1 DEF Payloads
<1>3. p \in Seq(Nat) /\ Len(p) \in Nat /\ id \in Nat
  <2>1. n \in Nat /\ id \in Nat
    BY StreamAssumption
  <2>2. p \in [1 .. n -> Nat]
    BY <1>2, StreamAssumption
  <2>3. p \in Seq(Nat)
    BY <2>1, <2>2
  <2> QED  BY <2>1, <2>3
<1> DEFINE h == <<id, Len(p)>>
<1>4. h \in Seq(Nat) /\ Len(h) = 2 /\ h[2] = Len(p)
  BY <1>3
<1>5. f = h \o p
  BY <1>1 DEF Encode
<1> HIDE DEF h
<1>6. /\ f \in Seq(Nat) /\ Len(f) = 2 + Len(p) /\ f[2] = Len(p)
  <2>1. /\ h \o p \in Seq(Nat) /\ Len(h \o p) = Len(h) + Len(p)
        /\ \A i \in 1 .. Len(h) : (h \o p)[i] = h[i]
    BY <1>3, <1>4, ConcatShape
  <2>2. 2 \in 1 .. Len(h)
    BY <1>4
  <2> QED  BY <1>4, <1>5, <2>1, <2>2
<1> QED  BY <1>3, <1>6 DEF HeaderSize, Size

LEMMA SeqShape ==
  ASSUME TypeOK
  PROVE  /\ Len(sent) \in Nat /\ Len(handled) \in Nat
         /\ \A k \in 1 .. Len(sent) : sent[k] \in Frames
         /\ Messages(sent)
<1>1. /\ Len(sent) \in Nat /\ Len(handled) \in Nat
      /\ \A k \in 1 .. Len(sent) : sent[k] \in Frames
  BY DEF TypeOK
<1>2. Messages(sent)
  <2>1. \A k \in 1 .. Len(sent) : sent[k] \in Seq(Nat)
    BY <1>1, FrameShape
  <2>2. sent \in [1 .. Len(sent) -> Seq(Nat)]
    BY <2>1 DEF TypeOK
  <2> QED  BY <1>1, <2>2 DEF Messages
<1> QED  BY <1>1, <1>2

(* What was read goes from the stream to the buffer: the two together stay *)
(* as they were.                                                           *)
LEMMA CutAnywhere ==
  ASSUME NEW b \in Seq(Nat), NEW s \in Seq(Nat), NEW n \in 1 .. Len(s)
  PROVE  /\ SubSeq(s, 1, n) \in Seq(Nat)
         /\ SubSeq(s, n + 1, Len(s)) \in Seq(Nat)
         /\ b \o SubSeq(s, 1, n) \in Seq(Nat)
         /\ (b \o SubSeq(s, 1, n)) \o SubSeq(s, n + 1, Len(s)) = b \o s
<1> DEFINE x == SubSeq(s, 1, n)
           y == SubSeq(s, n + 1, Len(s))
<1>1. x \in Seq(Nat) /\ y \in Seq(Nat)
  <2>1. n \in 0 .. Len(s)
    OBVIOUS
  <2> QED  BY <2>1, FrontShape, RestShape
<1>2. x \o y = s
  <2>1. 1 \in 1 .. Len(s) + 1 /\ n \in 1 - 1 .. Len(s) /\ Len(s) \in n .. Len(s)
    OBVIOUS
  <2>2. x \o y = SubSeq(s, 1, Len(s))
    BY <2>1, ConcatAdjacentSubSeq
  <2> QED  BY <2>2, SubSeqFull
<1> HIDE DEF x, y
<1>3. b \o x \in Seq(Nat)
  BY <1>1, ConcatShape
<1>4. (b \o x) \o y = b \o (x \o y)
  BY <1>1, ConcatAssoc
<1> QED  BY <1>1, <1>2, <1>3, <1>4 DEF x, y

(* A header in the buffer is that of the first message not handled, and    *)
(* never part of a payload.                                                *)
LEMMA HeaderIsNext ==
  ASSUME TypeOK, StreamInv, Len(buffer) >= HeaderSize
  PROVE  /\ Len(handled) < Len(sent)
         /\ Size(buffer) = Len(sent[Len(handled) + 1])
         /\ sent[Len(handled) + 1] \in Frames
         /\ \A i \in 1 .. Len(sent[Len(handled) + 1]) :
               i <= Len(buffer) => buffer[i] = sent[Len(handled) + 1][i]
<1> DEFINE h == Len(handled)
           f == sent[h + 1]
           s == buffer \o net
<1>1. /\ buffer \in Seq(Nat) /\ net \in Seq(Nat)
      /\ s \in Seq(Nat) /\ Len(s) = Len(buffer) + Len(net)
      /\ Len(buffer) \in Nat /\ Len(net) \in Nat
      /\ \A i \in 1 .. Len(buffer) : s[i] = buffer[i]
  BY ConcatShape DEF TypeOK
<1>2. Len(buffer) >= 2 /\ Size(buffer) = buffer[2] + 2
  BY DEF Size, HeaderSize
<1>3. Len(s) > 0 /\ Holds(s, sent, h) /\ h <= Len(sent)
  BY <1>1, <1>2 DEF StreamInv
<1> HIDE DEF s
<1>4. h < Len(sent) /\ Len(f) <= Len(s) /\ SubSeq(s, 1, Len(f)) = f
  BY <1>1, <1>3, SeqShape, HoldsFirst
<1>5. f \in Frames
  BY <1>4, SeqShape
<1> HIDE DEF f, h
<1>6. f \in Seq(Nat) /\ Len(f) \in Nat /\ Len(f) >= 2 /\ Len(f) = f[2] + 2
  BY <1>5, FrameShape DEF HeaderSize, Size
<1>7. \A i \in 1 .. Len(f) : f[i] = s[i]
  <2>1. Len(f) \in 0 .. Len(s)
    BY <1>1, <1>4, <1>6
  <2> QED  BY <1>1, <1>4, <2>1, FrontShape
<1>8. ASSUME NEW i \in 1 .. Len(f), i <= Len(buffer)
      PROVE  buffer[i] = f[i]
  <2>1. i \in 1 .. Len(buffer)
    BY <1>1, <1>6, <1>8
  <2>2. s[i] = buffer[i]
    BY <1>1, <2>1
  <2> QED  BY <1>7, <2>2
<1>9. Size(buffer) = Len(f)
  <2>1. 2 \in 1 .. Len(f) /\ 2 <= Len(buffer)
    BY <1>1, <1>2, <1>6
  <2>2. buffer[2] = f[2]
    BY <1>8, <2>1
  <2> QED  BY <1>2, <1>6, <2>2
<1> QED  BY <1>4, <1>5, <1>8, <1>9 DEF f, h

(* A whole message in the buffer is the first that was not handled.        *)
LEMMA WholeIsNext ==
  ASSUME TypeOK, StreamInv, Whole(buffer)
  PROVE  /\ Len(handled) < Len(sent)
         /\ Size(buffer) \in 1 .. Len(buffer)
         /\ Size(buffer) = Len(sent[Len(handled) + 1])
         /\ SubSeq(buffer, 1, Size(buffer)) = sent[Len(handled) + 1]
         /\ sent[Len(handled) + 1] \in Frames
<1> DEFINE h == Len(handled)
           f == sent[h + 1]
<1>1. Len(buffer) >= HeaderSize /\ Size(buffer) <= Len(buffer)
  BY DEF Whole
<1>2. /\ h < Len(sent) /\ Size(buffer) = Len(f) /\ f \in Frames
      /\ \A i \in 1 .. Len(f) : i <= Len(buffer) => buffer[i] = f[i]
  BY <1>1, HeaderIsNext
<1> HIDE DEF f, h
<1>3. buffer \in Seq(Nat) /\ Len(buffer) \in Nat
  BY DEF TypeOK
<1>4. f \in Seq(Nat) /\ Len(f) \in Nat /\ Len(f) >= 2
  BY <1>2, FrameShape DEF HeaderSize
<1>5. Len(f) \in 0 .. Len(buffer) /\ Len(f) \in 1 .. Len(buffer)
  BY <1>1, <1>2, <1>3, <1>4
<1>6. SubSeq(buffer, 1, Len(f)) = f
  <2>1. /\ SubSeq(buffer, 1, Len(f)) \in Seq(Nat)
        /\ Len(SubSeq(buffer, 1, Len(f))) = Len(f)
        /\ \A i \in 1 .. Len(f) : SubSeq(buffer, 1, Len(f))[i] = buffer[i]
    BY <1>3, <1>5, FrontShape
  <2>2. \A i \in 1 .. Len(f) : i <= Len(buffer)
    BY <1>3, <1>4, <1>5
  <2>3. \A i \in 1 .. Len(f) : SubSeq(buffer, 1, Len(f))[i] = f[i]
    BY <1>2, <2>1, <2>2
  <2> QED  BY <1>4, <2>1, <2>3, SeqEqual
<1> QED  BY <1>2, <1>5, <1>6 DEF f, h

-----------------------------------------------------------------------------
LEMMA SendStep ==
  ASSUME Inv, NEW f \in Frames, Send(f)
  PROVE  Inv'
<1>1. /\ sent \in Seq(Frames) /\ sent' = Append(sent, f)
      /\ net' = net \o f /\ net \in Seq(Nat) /\ buffer \in Seq(Nat)
      /\ buffer' = buffer /\ rpc' = rpc /\ handled' = handled
  BY DEF Send, Inv, TypeOK
<1>2. f \in Seq(Nat)
  BY FrameShape
<1>3. TypeOK'
  <2>1. net \o f \in Seq(Nat)
    BY <1>1, <1>2, ConcatShape
  <2>2. sent' \in Seq(Frames)
    BY <1>1, AppendProperties
  <2> QED  BY <1>1, <2>1, <2>2 DEF Inv, TypeOK
<1>4. Extended(sent', sent, f)
  BY <1>1, AppendProperties DEF Extended
<1>5. /\ Len(sent) \in Nat /\ Len(handled) \in Nat /\ Len(handled) <= Len(sent)
      /\ Messages(sent) /\ Holds(buffer \o net, sent, Len(handled))
  BY SeqShape DEF Inv, StreamInv
<1>6. buffer \o net \in Seq(Nat)
  BY <1>1, ConcatShape
<1>7. Holds((buffer \o net) \o f, sent', Len(handled))
  <2> DEFINE s == buffer \o net
  <2>1. s \in Seq(Nat) /\ Holds(s, sent, Len(handled))
    BY <1>5, <1>6
  <2> HIDE DEF s
  <2>2. Holds(s \o f, sent', Len(handled))
    BY <1>2, <1>4, <1>5, <2>1, HoldsAppend
  <2> QED  BY <2>2 DEF s
<1>8. (buffer \o net) \o f = buffer \o (net \o f)
  BY <1>1, <1>2, ConcatAssoc
<1>9. StreamInv'
  <2>1. Len(handled') <= Len(sent')
    <3>1. Len(sent') = Len(sent) + 1
      BY <1>4 DEF Extended
    <3> QED  BY <1>1, <1>5, <3>1
  <2>2. Holds(buffer' \o net', sent', Len(handled'))
    BY <1>1, <1>7, <1>8, Zenon
  <2> QED  BY <2>1, <2>2 DEF StreamInv
<1>10. LoopLeft'
  BY <1>1 DEF Inv, LoopLeft, Whole, Size
<1> QED  BY <1>3, <1>9, <1>10 DEF Inv

LEMMA ReceiveStep ==
  ASSUME Inv, NEW n \in 1 .. Len(net), Receive(n)
  PROVE  Inv'
<1>1. buffer \in Seq(Nat) /\ net \in Seq(Nat)
  BY DEF Inv, TypeOK
<1>2. /\ buffer' = buffer \o SubSeq(net, 1, n)
      /\ net' = SubSeq(net, n + 1, Len(net))
      /\ rpc' = "loop" /\ sent' = sent /\ handled' = handled
  BY DEF Receive
<1>3. buffer' \in Seq(Nat) /\ net' \in Seq(Nat) /\ buffer' \o net' = buffer \o net
  BY <1>1, <1>2, CutAnywhere
<1>4. TypeOK'
  BY <1>2, <1>3 DEF Inv, TypeOK
<1>5. StreamInv'
  BY <1>2, <1>3, Zenon DEF Inv, StreamInv
<1>6. LoopLeft'
  BY <1>2 DEF LoopLeft
<1> QED  BY <1>4, <1>5, <1>6 DEF Inv

LEMMA OffsetSplit ==
  ASSUME NEW b \in Nat, NEW n \in Nat, NEW m \in 1 .. b, NEW r, NEW t,
         r = b - m, t = b + n - m,
         NEW i \in 1 .. t, i \notin 1 .. r,
         NEW j, j = i - r
  PROVE  j \in 1 .. n /\ r + j = i /\ m + i = b + j
OBVIOUS

LEMMA IterateStep ==
  ASSUME Inv, Iterate
  PROVE  /\ Inv'
         /\ Len(handled) < Len(sent)
         /\ handled' = Append(handled, sent[Len(handled) + 1])
<1> DEFINE h == Len(handled)
           f == sent[h + 1]
           m == Size(buffer)
<1>1. /\ Whole(buffer) /\ rpc = "loop"
      /\ handled' = Append(handled, SubSeq(buffer, 1, m))
      /\ buffer' = SubSeq(buffer, m + 1, Len(buffer))
      /\ sent' = sent /\ net' = net /\ rpc' = rpc
  BY DEF Iterate, OnRxMsg
<1>2. /\ h < Len(sent) /\ m \in 1 .. Len(buffer) /\ m = Len(f)
      /\ SubSeq(buffer, 1, m) = f /\ f \in Frames
  BY <1>1, WholeIsNext DEF Inv
<1>3. handled' = Append(handled, f)
  BY <1>1, <1>2
<1>4. /\ buffer \in Seq(Nat) /\ net \in Seq(Nat) /\ handled \in Seq(Frames)
  BY DEF Inv, TypeOK
<1>5. Len(handled') = h + 1 /\ handled' \in Seq(Frames)
  BY <1>2, <1>3, <1>4, AppendProperties
<1>6. buffer' \in Seq(Nat)
  <2>1. m \in 0 .. Len(buffer)
    BY <1>2
  <2> QED  BY <1>1, <1>4, <2>1, RestShape
<1>7. TypeOK'
  BY <1>1, <1>4, <1>5, <1>6 DEF Inv, TypeOK
<1>8. buffer' \o net' = SubSeq(buffer \o net, Len(f) + 1, Len(buffer \o net))
  <2> DEFINE s == buffer \o net
             r == SubSeq(buffer, m + 1, Len(buffer))
             t == SubSeq(s, m + 1, Len(s))
  <2>1. /\ s \in Seq(Nat) /\ Len(s) = Len(buffer) + Len(net)
        /\ Len(buffer) \in Nat /\ Len(net) \in Nat
        /\ \A i \in 1 .. Len(buffer) : s[i] = buffer[i]
        /\ \A j \in 1 .. Len(net) : s[Len(buffer) + j] = net[j]
    BY <1>4, ConcatShape
  <2> HIDE DEF s, m
  <2>2. /\ r \in Seq(Nat) /\ Len(r) = Len(buffer) - m
        /\ \A i \in 1 .. Len(buffer) - m : r[i] = buffer[m + i]
    <3>1. m \in 0 .. Len(buffer)
      BY <1>2
    <3> QED  BY <1>4, <3>1, RestShape
  <2>3. /\ t \in Seq(Nat) /\ Len(t) = Len(s) - m
        /\ \A i \in 1 .. Len(s) - m : t[i] = s[m + i]
    <3>1. m \in 0 .. Len(s)
      BY <1>2, <2>1
    <3> QED  BY <2>1, <3>1, RestShape
  <2> HIDE DEF r, t
  <2>4. /\ r \o net \in Seq(Nat) /\ Len(r \o net) = Len(r) + Len(net)
        /\ \A i \in 1 .. Len(r) : (r \o net)[i] = r[i]
        /\ \A j \in 1 .. Len(net) : (r \o net)[Len(r) + j] = net[j]
    BY <1>4, <2>2, ConcatShape
  <2>5. Len(r \o net) = Len(t)
    BY <1>2, <2>1, <2>2, <2>3, <2>4
  <2>6. ASSUME NEW i \in 1 .. Len(t)
        PROVE  (r \o net)[i] = t[i]
    <3>1. CASE i \in 1 .. Len(r)
      <4>1. i \in 1 .. Len(buffer) - m /\ m + i \in 1 .. Len(buffer)
        BY <1>2, <2>1, <2>2, <3>1
      <4> QED  BY <2>1, <2>2, <2>3, <2>4, <3>1, <4>1
    <3>2. CASE i \notin 1 .. Len(r)
      <4>1. PICK j : j = i - Len(r)
        OBVIOUS
      <4>2. /\ j \in 1 .. Len(net) /\ Len(r) + j = i
            /\ m + i = Len(buffer) + j
        <5>1. /\ Len(buffer) \in Nat /\ Len(net) \in Nat
              /\ m \in 1 .. Len(buffer)
              /\ Len(r) = Len(buffer) - m
              /\ Len(t) = Len(buffer) + Len(net) - m
          BY <1>2, <2>1, <2>2, <2>3
        <5> QED  BY <3>2, <4>1, <5>1, OffsetSplit
      <4>3. (r \o net)[i] = net[j]
        BY <2>4, <4>2
      <4>4. t[i] = s[m + i]
        BY <2>3
      <4> QED  BY <2>1, <4>2, <4>3, <4>4
    <3> QED  BY <3>1, <3>2
  <2>7. r \o net = t
    BY <2>3, <2>4, <2>5, <2>6, SeqEqual
  <2> QED  BY <1>1, <1>2, <2>7 DEF r, t, s, m
<1>9. Holds(buffer' \o net', sent', h + 1)
  <2> DEFINE s == buffer \o net
  <2>1. s \in Seq(Nat) /\ Holds(s, sent, h)
    BY <1>4, ConcatShape DEF Inv, StreamInv
  <2> HIDE DEF s
  <2>2. h \in Nat /\ Messages(sent)
    BY SeqShape DEF Inv
  <2>3. Holds(SubSeq(s, Len(f) + 1, Len(s)), sent, h + 1)
    BY <1>2, <2>1, <2>2, HoldsRest
  <2> QED  BY <1>1, <1>8, <2>3, Zenon DEF s
<1>10. StreamInv'
  <2>1. Len(sent) \in Nat /\ h \in Nat
    BY SeqShape DEF Inv
  <2>2. Len(handled') <= Len(sent')
    BY <1>1, <1>2, <1>5, <2>1
  <2>3. Holds(buffer' \o net', sent', Len(handled'))
    BY <1>5, <1>9, Zenon
  <2> QED  BY <2>2, <2>3 DEF StreamInv
<1>11. LoopLeft'
  BY <1>1 DEF LoopLeft
<1> QED  BY <1>2, <1>3, <1>7, <1>10, <1>11 DEF Inv

LEMMA InvStep ==
  ASSUME Inv, [Next]_vars
  PROVE  Inv'
<1>1. CASE Break
  <2>1. /\ sent' = sent /\ net' = net /\ buffer' = buffer /\ handled' = handled
        /\ rpc' = "wait" /\ ~Whole(buffer)
    BY <1>1 DEF Break
  <2>2. TypeOK' /\ StreamInv'
    BY <2>1 DEF Inv, TypeOK, StreamInv
  <2>3. LoopLeft'
    BY <2>1 DEF LoopLeft, Whole, Size
  <2> QED  BY <2>2, <2>3 DEF Inv
<1>2. CASE UNCHANGED vars
  BY <1>2 DEF vars, Inv, TypeOK, StreamInv, LoopLeft, Whole, Size
<1> QED  BY <1>1, <1>2, SendStep, ReceiveStep, IterateStep
         DEF Next, ReceiveSome, OnSockReceive

LEMMA InvHolds == Spec => []Inv
<1>1. Init => Inv
  <2> SUFFICES ASSUME Init PROVE Inv
    OBVIOUS
  <2>1. sent = <<>> /\ net = <<>> /\ buffer = <<>> /\ rpc = "wait" /\ handled = <<>>
    BY DEF Init
  <2>2. TypeOK
    BY <2>1 DEF TypeOK
  <2>3. StreamInv
    <3>1. <<>> \o <<>> = <<>> /\ Len(<<>>) = 0
      OBVIOUS
    <3> QED  BY <2>1, <3>1, NothingHeld DEF StreamInv
  <2>4. LoopLeft
    BY <2>1 DEF LoopLeft, Whole, HeaderSize
  <2> QED  BY <2>2, <2>3, <2>4 DEF Inv
<1>2. Inv /\ [Next]_vars => Inv'
  BY InvStep
<1> QED  BY <1>1, <1>2, PTL DEF Spec

(* Every reachable state is well-typed; in particular, whatever is cut off *)
(* the stream is a message.                                                *)
THEOREM TypeCorrect == Spec => []TypeOK
BY InvHolds, PTL DEF Inv

(* However the stream is cut, between two reads the buffer holds less than *)
(* the next message: had it the whole of it, the header in front would be  *)
(* that message's, and the breaks of the loop would not have been taken.   *)
THEOREM NothingHeldBackCorrect == Spec => []NothingHeldBack
<1>1. Inv => NothingHeldBack
  <2> SUFFICES ASSUME Inv, rpc = "wait", Len(handled) < Len(sent),
                      ~(Len(buffer) < Len(sent[Len(handled) + 1]))
               PROVE  FALSE
    BY DEF NothingHeldBack
  <2> DEFINE f == sent[Len(handled) + 1]
  <2>1. Len(buffer) \in Nat /\ Len(handled) + 1 \in 1 .. Len(sent)
    BY SeqShape DEF Inv, TypeOK
  <2>2. Len(f) \in Nat /\ Len(f) >= HeaderSize
    <3>1. f \in Frames
      BY <2>1, SeqShape DEF Inv
    <3> QED  BY <3>1, FrameShape
  <2>3. Len(buffer) >= Len(f) /\ Len(buffer) >= HeaderSize
    BY <2>1, <2>2 DEF HeaderSize
  <2>4. Size(buffer) = Len(f)
    BY <2>3, HeaderIsNext DEF Inv
  <2>5. Whole(buffer)
    BY <2>1, <2>2, <2>3, <2>4 DEF Whole
  <2> QED  BY <2>5 DEF Inv, LoopLeft
<1> QED  BY <1>1, InvHolds, PTL

(* However the stream is cut and whatever bytes the messages hold, the     *)
(* server's loop implements FrameChannel: it handles the messages sent,    *)
(* each once and whole, in order.                                          *)
THEOREM Refinement == Spec => ChannelSpec
<1>1. Init => Channel!Init
  BY DEF Init, Channel!Init
<1>2. Inv /\ [Next]_vars => [Channel!Next]_<<sent, handled>>
  <2> SUFFICES ASSUME Inv, [Next]_vars
               PROVE  [Channel!Next]_<<sent, handled>>
    OBVIOUS
  <2>1. ASSUME NEW f \in Frames, Send(f)
        PROVE  Channel!Next
    BY <2>1 DEF Send, Channel!Next, Channel!Send
  <2>2. CASE Iterate
    <3>1. Channel!Handle
      BY <2>2, IterateStep DEF Iterate, Channel!Handle
    <3> QED  BY <3>1 DEF Channel!Next
  <2>3. CASE ReceiveSome \/ Break \/ UNCHANGED vars
    BY <2>3 DEF ReceiveSome, Receive, Break, vars
  <2> QED  BY <2>1, <2>2, <2>3 DEF Next, OnSockReceive
<1> QED  BY <1>1, <1>2, InvHolds, PTL DEF Spec, ChannelSpec, Channel!Spec

-----------------------------------------------------------------------------
(* What FrameChannel means: the messages handled are the first of those    *)
(* sent.                                                                   *)
InOrder ==
  /\ Len(handled) <= Len(sent)
  /\ \A k \in 1 .. Len(handled) : handled[k] = sent[k]

ChannelInv == sent \in Seq(Frames) /\ handled \in Seq(Frames) /\ InOrder

LEMMA ChannelStep ==
  ASSUME ChannelInv, [Channel!Next]_<<sent, handled>>
  PROVE  ChannelInv'
<1> USE DEF ChannelInv, InOrder
<1>1. Len(sent) \in Nat /\ Len(handled) \in Nat
  OBVIOUS
<1>2. ASSUME NEW f \in Frames, Channel!Send(f)
      PROVE  ChannelInv'
  <2>1. sent' = Append(sent, f) /\ handled' = handled
    BY <1>2 DEF Channel!Send
  <2>2. /\ sent' \in Seq(Frames) /\ Len(sent') = Len(sent) + 1
        /\ \A k \in 1 .. Len(sent) : sent'[k] = sent[k]
    BY <2>1, AppendProperties
  <2>3. \A k \in 1 .. Len(handled) : k \in 1 .. Len(sent)
    BY <1>1
  <2> QED  BY <1>1, <2>1, <2>2, <2>3
<1>3. CASE Channel!Handle
  <2> DEFINE h == Len(handled)
  <2>1. /\ sent' = sent /\ h < Len(sent)
        /\ handled' = Append(handled, sent[h + 1])
    BY <1>3 DEF Channel!Handle
  <2>2. sent[h + 1] \in Frames
    BY <1>1, <2>1
  <2>3. /\ handled' \in Seq(Frames) /\ Len(handled') = h + 1
        /\ handled'[h + 1] = sent[h + 1]
        /\ \A k \in 1 .. h : handled'[k] = handled[k]
    BY <2>1, <2>2, AppendProperties
  <2>4. ASSUME NEW k \in 1 .. h + 1
        PROVE  handled'[k] = sent[k]
    <3>1. k = h + 1 \/ k \in 1 .. h
      BY <1>1
    <3> QED  BY <2>3, <3>1
  <2> QED  BY <1>1, <2>1, <2>3, <2>4
<1>4. CASE UNCHANGED <<sent, handled>>
  BY <1>4
<1> QED  BY <1>2, <1>3, <1>4 DEF Channel!Next

(* The server handles the messages in the order sent, none twice and none  *)
(* left out.                                                               *)
THEOREM InOrderCorrect == Spec => []InOrder
<1>1. Channel!Init => ChannelInv
  BY DEF Channel!Init, ChannelInv, InOrder
<1>2. ChannelInv /\ [Channel!Next]_<<sent, handled>> => ChannelInv'
  BY ChannelStep
<1>3. ChannelInv => InOrder
  BY DEF ChannelInv
<1> QED  BY <1>1, <1>2, <1>3, Refinement, PTL DEF ChannelSpec, Channel!Spec

=============================================================================
