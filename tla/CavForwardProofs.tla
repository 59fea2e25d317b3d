--------------------------- MODULE CavForwardProofs ---------------------------
(***************************************************************************)
(* Proofs about cav_handler for path plans of every length and every       *)
(* number of values of msg_seq.                                            *)
(***************************************************************************)
EXTENDS CavForward, CommonLemmas

Call == [type : {LV, FV}, path : Paths, lost : 0 .. MaxSeq]

(* The message of call c when seq is s, ...                                *)
Packed(c, s) ==
  <<s % MsgSeqs, MsgLength(Index(c.path)), c.type, Index(c.path)>>
  \o PathPlan(c.path)

(* ... and what the vehicle makes of it.                                   *)
Shows(g, c, s) ==
  /\ g.seq = s % MsgSeqs
  /\ g.type = c.type
  /\ g.points \in Seq(Nat \X Nat) /\ Len(g.points) = Index(c.path)
  /\ \A i \in 1 .. Index(c.path) : g.points[i] = Convert(c.path[i])

-----------------------------------------------------------------------------
(* Index is defined: the loop ends at the first point at (0, 0), or at the *)
(* end.                                                                    *)
LEMMA IndexShape ==
  ASSUME NEW path \in Paths
  PROVE  /\ Index(path) \in 0 .. MaxPoints
         /\ \A i \in 1 .. Index(path) : ~EndsPlan(path[i])
         /\ Index(path) < MaxPoints => EndsPlan(path[Index(path) + 1])
<1> DEFINE P(n) == /\ \A i \in 1 .. n : ~EndsPlan(path[i])
                   /\ n < MaxPoints => EndsPlan(path[n + 1])
           Ends == {i \in 1 .. MaxPoints : EndsPlan(path[i])}
<1>1. MaxPoints \in Nat
  BY CavAssumption
<1>2. \E n \in 0 .. MaxPoints : P(n)
  <2>1. CASE Ends = {}
    <3>1. MaxPoints \in 0 .. MaxPoints /\ P(MaxPoints)
      BY <1>1, <2>1
    <3> QED  BY <3>1
  <2>2. CASE Ends # {}
    <3>1. Ends \in SUBSET Nat
      BY <1>1
    <3>2. PICK m \in Ends : \A k \in Ends : m <= k
      BY <2>2, <3>1, Least
    <3>3. m \in 1 .. MaxPoints /\ EndsPlan(path[m])
      OBVIOUS
    <3>4. /\ m - 1 \in 0 .. MaxPoints /\ (m - 1) + 1 = m
          /\ \A i \in 1 .. m - 1 : i \in 1 .. MaxPoints /\ ~(m <= i)
      BY <1>1, <3>3
    <3>5. \A i \in 1 .. m - 1 : ~EndsPlan(path[i])
      BY <3>2, <3>4
    <3>6. P(m - 1)
      BY <3>3, <3>4, <3>5
    <3> QED  BY <3>4, <3>6
  <2> QED  BY <2>1, <2>2
<1> HIDE DEF P
<1>3. Index(path) = CHOOSE n \in 0 .. MaxPoints : P(n)
  BY DEF Index, P
<1>4. Index(path) \in 0 .. MaxPoints /\ P(Index(path))
  BY <1>2, <1>3, Zenon
<1> QED  BY <1>4 DEF P

LEMMA ConvertShape ==
  ASSUME NEW p \in RawPoints
  PROVE  /\ Convert(p) \in Nat \X Nat
         /\ Convert(p)[1] \in Nat /\ Convert(p)[2] \in Nat
         /\ Convert(p) = <<p[1] \div Scale, p[2] \div Scale>>
<1>1. p[1] \in Nat /\ p[2] \in Nat /\ Scale \in Nat \ {0}
  BY CavAssumption
<1>2. p[1] \div Scale \in Nat /\ p[2] \div Scale \in Nat
  BY <1>1
<1> QED  BY <1>2 DEF Convert

(* The points one after the other, two numbers each.                       *)
LEMMA PathPlanShape ==
  ASSUME NEW path \in Paths
  PROVE  /\ PathPlan(path) \in Seq(Nat)
         /\ Len(PathPlan(path)) = 2 * Index(path)
         /\ \A i \in 1 .. Index(path) :
              /\ PathPlan(path)[2 * i - 1] = Convert(path[i])[1]
              /\ PathPlan(path)[2 * i] = Convert(path[i])[2]
<1> DEFINE n == Index(path)
           e(j) == Convert(path[(j + 1) \div 2])[2 - (j % 2)]
<1>1. n \in Nat /\ n <= MaxPoints
  BY IndexShape, CavAssumption
<1> HIDE DEF n
<1>2. PathPlan(path) = [j \in 1 .. 2 * n |-> e(j)]
  BY DEF PathPlan, PathSize, n
<1>3. ASSUME NEW j \in 1 .. 2 * n
      PROVE  e(j) \in Nat
  <2>1. (j + 1) \div 2 \in 1 .. n /\ 2 - (j % 2) \in {1, 2}
    BY <1>1
  <2>2. path[(j + 1) \div 2] \in RawPoints
    <3>1. (j + 1) \div 2 \in 1 .. MaxPoints
      BY <1>1, <2>1, CavAssumption
    <3> QED  BY <3>1 DEF Paths
  <2> QED  BY <2>1, <2>2, ConvertShape
<1>4. ASSUME NEW i \in 1 .. n
      PROVE  e(2 * i - 1) = Convert(path[i])[1] /\ e(2 * i) = Convert(path[i])[2]
  <2>1. /\ ((2 * i - 1) + 1) \div 2 = i /\ 2 - ((2 * i - 1) % 2) = 1
        /\ (2 * i + 1) \div 2 = i /\ 2 - ((2 * i) % 2) = 2
    OBVIOUS
  <2> QED  BY <2>1
<1>5. \A i \in 1 .. n : 2 * i - 1 \in 1 .. 2 * n /\ 2 * i \in 1 .. 2 * n
  BY <1>1
<1> HIDE DEF e
<1>6. 2 * n \in Nat
  BY <1>1
<1>7. PathPlan(path) \in [1 .. 2 * n -> Nat]
  BY <1>2, <1>3
<1>8. PathPlan(path) \in Seq(Nat) /\ Len(PathPlan(path)) = 2 * n
  BY <1>6, <1>7
<1>9. \A i \in 1 .. n : /\ PathPlan(path)[2 * i - 1] = Convert(path[i])[1]
                        /\ PathPlan(path)[2 * i] = Convert(path[i])[2]
  BY <1>2, <1>4, <1>5
<1> QED  BY <1>8, <1>9 DEF n

(* What the vehicle reads off a message, field by field.                   *)
LEMMA PackedShape ==
  ASSUME NEW c \in Call, NEW s \in Int
  PROVE  /\ Packed(c, s) \in Seq(Nat)
         /\ Len(Packed(c, s)) = 4 + 2 * Index(c.path)
         /\ Packed(c, s)[1] = s % MsgSeqs
         /\ Packed(c, s)[2] = 2 + 2 * Index(c.path)
         /\ Packed(c, s)[3] = c.type
         /\ Packed(c, s)[4] = Index(c.path)
         /\ \A i \in 1 .. Index(c.path) :
              /\ Packed(c, s)[4 + (2 * i - 1)] = Convert(c.path[i])[1]
              /\ Packed(c, s)[4 + 2 * i] = Convert(c.path[i])[2]
<1> DEFINE n == Index(c.path)
           a == <<s % MsgSeqs, MsgLength(n), c.type, n>>
           b == PathPlan(c.path)
<1>1. c.path \in Paths /\ c.type \in {LV, FV} /\ c.type \in Nat
  <2>1. c.path \in Paths /\ c.type \in {LV, FV}
    BY DEF Call
  <2> QED  BY <2>1 DEF LV, FV
<1>2. n \in Nat
  BY <1>1, IndexShape, CavAssumption
<1>4. s % MsgSeqs \in Nat
  BY Division, CavAssumption
<1>5. /\ b \in Seq(Nat) /\ Len(b) = 2 * n
      /\ \A i \in 1 .. n : /\ b[2 * i - 1] = Convert(c.path[i])[1]
                           /\ b[2 * i] = Convert(c.path[i])[2]
  BY <1>1, PathPlanShape
<1>6. Packed(c, s) = a \o b
  BY DEF Packed
<1> HIDE DEF n, b
<1>7. MsgLength(n) = 2 + 2 * n
  BY <1>2 DEF MsgLength, InfoSize, HeaderSize, PathSize
<1>8. /\ a \in Seq(Nat) /\ Len(a) = 4
      /\ a[1] = s % MsgSeqs /\ a[2] = 2 + 2 * n /\ a[3] = c.type
      /\ a[4] = n
  <2>1. 2 + 2 * n \in Nat
    BY <1>2
  <2> QED  BY <1>1, <1>2, <1>4, <1>7, <2>1
<1> HIDE DEF a
<1>9. /\ a \o b \in Seq(Nat) /\ Len(a \o b) = Len(a) + Len(b)
      /\ \A i \in 1 .. Len(a) : (a \o b)[i] = a[i]
      /\ \A j \in 1 .. Len(b) : (a \o b)[Len(a) + j] = b[j]
  BY <1>5, <1>8, ConcatShape
<1>10. \A i \in {1, 2, 3, 4} : (a \o b)[i] = a[i]
  BY <1>8, <1>9
<1>11. ASSUME NEW i \in 1 .. n
       PROVE  /\ (a \o b)[4 + (2 * i - 1)] = Convert(c.path[i])[1]
              /\ (a \o b)[4 + 2 * i] = Convert(c.path[i])[2]
  <2>1. 2 * i - 1 \in 1 .. 2 * n /\ 2 * i \in 1 .. 2 * n
    BY <1>2
  <2>2. \A j \in 1 .. 2 * n : (a \o b)[4 + j] = b[j]
    BY <1>5, <1>8, <1>9
  <2>3. (a \o b)[4 + (2 * i - 1)] = b[2 * i - 1] /\ (a \o b)[4 + 2 * i] = b[2 * i]
    BY <2>1, <2>2, Zenon
  <2> QED  BY <1>5, <2>3, Zenon
<1>12. a \o b \in Seq(Nat) /\ Len(a \o b) = 4 + 2 * n
  BY <1>5, <1>8, <1>9
<1> QED  BY <1>6, <1>8, <1>10, <1>11, <1>12 DEF n

-----------------------------------------------------------------------------
(* fs are the messages that were ever sent, num the values of seq they     *)
(* were sent with (num[0] stands for the one before the first), and the    *)
(* vehicle has read h of them.                                             *)
Numbered(fs, num, i, c) ==
  /\ fs[i] = Packed(c, num[i])
  /\ num[i] = num[i - 1] + 1 + c.lost

Carried(fs, num, h) ==
  /\ h \in Nat /\ Len(fs) = h + Len(underway) /\ Messages(fs)
  /\ num \in [0 .. Len(fs) -> Int]
  /\ num[Len(fs)] >= -1
  /\ \A k \in 1 .. Len(underway) : Numbered(fs, num, h + k, underway[k])
  /\ seq = num[Len(fs)] + 1 + lost
  /\ got.seq = num[h] % MsgSeqs
  /\ Holds(wire, fs, h)

(* What is on the wire are the messages of the calls under way, and seq    *)
(* counts the calls, those that failed included.                           *)
WireInv == \E fs, num, h : Carried(fs, num, h)

Inv == TypeOK /\ WireInv

TypeShape ==
  /\ seq \in 0 .. MaxSeq
  /\ wire \in Seq(Nat)
  /\ underway \in Seq(Call)
  /\ Len(underway) \in Nat
  /\ lost \in 0 .. MaxSeq

LEMMA TypeShapes == TypeOK => TypeShape
<1>1. TypeOK => underway \in Seq(Call)
  BY DEF TypeOK, Call
<1> QED  BY <1>1 DEF TypeOK, TypeShape

LEMMA InitInv == Init => Inv
<1> SUFFICES ASSUME Init PROVE Inv
  OBVIOUS
<1>1. /\ seq = 0 /\ wire = <<>> /\ underway = <<>> /\ lost = 0
      /\ got = [seq |-> MsgSeqs - 1, type |-> 0, points |-> <<>>]
  BY DEF Init
<1>2. MsgSeqs \in Nat \ {0} /\ MaxSeq \in Nat
  BY CavAssumption
<1>3. TypeOK
  <2>1. <<>> \in Seq(Nat \X Nat) /\ <<>> \in Seq(Nat)
    OBVIOUS
  <2>2. MsgSeqs - 1 \in 0 .. MsgSeqs - 1 /\ 0 \in 0 .. MaxSeq
    BY <1>2
  <2> QED  BY <1>1, <2>1, <2>2 DEF TypeOK
<1>4. WireInv
  <2> DEFINE num == [k \in 0 .. 0 |-> -1]
  <2>1. Len(<<>>) = 0
    OBVIOUS
  <2>2. num \in [0 .. 0 -> Int] /\ num[0] = -1
    OBVIOUS
  <2>3. MsgSeqs - 1 = (-1) % MsgSeqs
    <3>1. PICK x \in Int, r \in 0 .. MsgSeqs - 1 :
            -1 = MsgSeqs * x + r /\ r = (-1) % MsgSeqs
      <4>1. -1 \in Int
        OBVIOUS
      <4>2. /\ -1 = MsgSeqs * ((-1) \div MsgSeqs) + ((-1) % MsgSeqs)
            /\ (-1) \div MsgSeqs \in Int /\ (-1) % MsgSeqs \in 0 .. MsgSeqs - 1
        BY <1>2, <4>1, Division
      <4> QED  BY <4>2, Zenon
    <3>2. -1 = MsgSeqs * (-1) + (MsgSeqs - 1) /\ MsgSeqs - 1 \in 0 .. MsgSeqs - 1
      BY <1>2
    <3>3. r = MsgSeqs - 1
      BY <1>2, <3>1, <3>2, Remainder
    <3> QED  BY <3>1, <3>3
  <2>4. Messages(<<>>)
    BY <2>1 DEF Messages
  <2> HIDE DEF num
  <2>5. Carried(<<>>, num, 0)
    BY <1>1, <2>1, <2>2, <2>3, <2>4, NothingHeld DEF Carried
  <2> QED  BY <2>5 DEF WireInv
<1> QED  BY <1>3, <1>4 DEF Inv

-----------------------------------------------------------------------------
(* A call of forward_lv_msg or forward_fv_msg takes a number; a message    *)
(* that is sent goes behind the stream, one that is not leaves a gap.      *)
LEMMA ForwardStep ==
  ASSUME Inv, NEW type \in {LV, FV}, NEW path \in Paths,
         NEW ok \in BOOLEAN, Forward(type, path, ok)
  PROVE  /\ Inv'
         /\ Len(underway') >= Len(underway)
<1>1. TypeOK /\ TypeShape
  BY TypeShapes DEF Inv
<1>2. PICK fs, num, h : Carried(fs, num, h)
  BY DEF Inv, WireInv
<1>3. seq < MaxSeq /\ seq' = seq + 1 /\ got' = got
  BY DEF Forward
<1> DEFINE n == Len(fs)
<1>4. /\ h \in Nat /\ n = h + Len(underway) /\ n \in Nat /\ Messages(fs)
      /\ num \in [0 .. n -> Int] /\ num[n] >= -1 /\ num[n] \in Int
      /\ seq = num[n] + 1 + lost /\ got.seq = num[h] % MsgSeqs
      /\ Holds(wire, fs, h)
  <2>1. n \in Nat
    BY <1>2 DEF Carried, Messages
  <2>2. num \in [0 .. n -> Int]
    BY <1>2 DEF Carried
  <2>3. num[n] \in Int
    BY <2>1, <2>2
  <2> QED  BY <1>2, <2>1, <2>3 DEF Carried
<1>5. \A k \in 1 .. Len(underway) : Numbered(fs, num, h + k, underway[k])
  BY <1>2 DEF Carried
<1> HIDE DEF n
<1>6. /\ seq \in Nat /\ lost \in Nat /\ MaxSeq \in Nat /\ lost <= seq
      /\ seq + 1 \in 0 .. MaxSeq /\ lost + 1 \in 0 .. MaxSeq
  <2>1. MaxSeq \in Nat
    BY CavAssumption
  <2>2. seq \in 0 .. MaxSeq /\ lost \in 0 .. MaxSeq
    BY <1>1 DEF TypeShape
  <2>3. lost <= seq
    BY <1>4, <2>1, <2>2
  <2> QED  BY <1>3, <2>1, <2>2, <2>3
<1>7. CASE ~ok
  <2>1. /\ wire' = wire /\ underway' = underway /\ lost' = lost + 1
    BY <1>7 DEF Forward
  <2>2. TypeOK'
    BY <1>1, <1>3, <1>6, <2>1 DEF TypeOK
  <2>3. seq' = num[n] + 1 + lost'
    BY <1>3, <1>4, <1>6, <2>1
  <2>4. Carried(fs, num, h)'
    BY <1>2, <1>3, <2>1, <2>3 DEF Carried, n
  <2> QED  BY <1>1, <2>1, <2>2, <2>4 DEF Inv, WireInv, TypeShape
<1>8. CASE ok
  <2> DEFINE c == [type |-> type, path |-> path, lost |-> lost]
             f == Packed(c, seq)
             grown == [k \in 0 .. n + 1 |-> IF k \in 0 .. n THEN num[k] ELSE seq]
  <2>1. wire' = wire \o f /\ underway' = Append(underway, c) /\ lost' = 0
    BY <1>8 DEF Forward, Message, Packed
  <2>2. c \in Call /\ c.lost = lost
    BY <1>1 DEF Call, TypeShape
  <2> HIDE DEF c
  <2>3. f \in Seq(Nat)
    BY <1>6, <2>2, PackedShape
  <2> HIDE DEF f
  <2>4. /\ underway' \in Seq(Call) /\ Len(underway') = Len(underway) + 1
        /\ underway'[Len(underway) + 1] = c
        /\ \A k \in 1 .. Len(underway) : underway'[k] = underway[k]
    BY <1>1, <2>1, <2>2, AppendProperties DEF TypeShape
  <2>5. TypeOK'
    <3>1. wire' \in Seq(Nat)
      BY <1>1, <2>1, <2>3, ConcatShape DEF TypeShape
    <3>2. 0 \in 0 .. MaxSeq
      BY <1>6
    <3> QED  BY <1>1, <1>3, <1>6, <2>1, <2>4, <3>1, <3>2 DEF TypeOK, Call
  <2>60. PICK gs, num2 : gs = Append(fs, f) /\ num2 = grown
    OBVIOUS
  <2>6. Messages(gs) /\ Extended(gs, fs, f) /\ Len(gs) = n + 1 /\ gs[n + 1] = f
        /\ \A i \in 1 .. n : gs[i] = fs[i]
    BY <1>4, <2>3, <2>60, GrowMessages DEF n, Extended
  <2>7. /\ num2 \in [0 .. n + 1 -> Int] /\ num2[n + 1] = seq
        /\ \A i \in 0 .. n : num2[i] = num[i]
    <3>1. n + 1 \in 0 .. n + 1 /\ n + 1 \notin 0 .. n /\ seq \in Int
      BY <1>4, <1>6
    <3>2. \A i \in 0 .. n : i \in 0 .. n + 1 /\ num[i] \in Int
      BY <1>4
    <3> QED  BY <2>60, <3>1, <3>2
  <2> HIDE DEF grown
  <2>8. Holds(wire', gs, h)
    <3>1. h <= Len(fs)
      BY <1>1, <1>4 DEF n, TypeShape
    <3>2. Holds(wire \o f, gs, h)
      BY <1>1, <1>4, <2>3, <2>6, <3>1, HoldsAppend DEF TypeShape
    <3> QED  BY <2>1, <3>2
  <2>9. ASSUME NEW k \in 1 .. Len(underway')
        PROVE  Numbered(gs, num2, h + k, underway'[k])
    <3>1. CASE k \in 1 .. Len(underway)
      <4>1. h + k \in 1 .. n /\ h + k \in 0 .. n /\ (h + k) - 1 \in 0 .. n
        BY <1>1, <1>4, <3>1 DEF TypeShape
      <4>2. /\ gs[h + k] = fs[h + k] /\ num2[h + k] = num[h + k]
            /\ num2[(h + k) - 1] = num[(h + k) - 1] /\ underway'[k] = underway[k]
        BY <2>4, <2>6, <2>7, <3>1, <4>1
      <4>3. Numbered(fs, num, h + k, underway[k])
        BY <1>5, <3>1
      <4> QED  BY <4>2, <4>3 DEF Numbered
    <3>2. CASE k = Len(underway) + 1
      <4>1. h + k = n + 1 /\ (n + 1) - 1 = n /\ n \in 0 .. n
        BY <1>1, <1>4, <3>2 DEF TypeShape
      <4>2. /\ gs[n + 1] = f /\ num2[n + 1] = seq /\ num2[(n + 1) - 1] = num[n]
            /\ underway'[k] = c
        BY <2>4, <2>6, <2>7, <3>2, <4>1
      <4>3. seq = num[n] + 1 + c.lost
        BY <1>4, <2>2
      <4> QED  BY <4>1, <4>2, <4>3 DEF Numbered, f
    <3>3. k \in 1 .. Len(underway) \/ k = Len(underway) + 1
      BY <1>1, <2>4 DEF TypeShape
    <3> QED  BY <3>1, <3>2, <3>3
  <2>10. /\ Len(gs) = h + Len(underway') /\ num2[Len(gs)] >= -1
         /\ num2 \in [0 .. Len(gs) -> Int]
         /\ seq' = num2[Len(gs)] + 1 + lost'
    <3>1. Len(gs) = h + Len(underway')
      BY <1>1, <1>4, <2>4, <2>6 DEF TypeShape
    <3>2. num2[Len(gs)] = seq /\ num2 \in [0 .. Len(gs) -> Int]
      BY <2>6, <2>7
    <3>3. seq >= -1 /\ seq' = seq + 1 + lost'
      BY <1>3, <1>6, <2>1
    <3> QED  BY <3>1, <3>2, <3>3
  <2>11. got'.seq = num2[h] % MsgSeqs
    <3>1. h \in 0 .. n
      BY <1>1, <1>4 DEF TypeShape
    <3> QED  BY <1>3, <1>4, <2>7, <3>1
  <2>12. Carried(gs, num2, h)'
    BY <1>4, <2>6, <2>8, <2>9, <2>10, <2>11 DEF Carried
  <2>13. Len(underway') >= Len(underway)
    BY <1>1, <2>4 DEF TypeShape
  <2> QED  BY <2>5, <2>12, <2>13 DEF Inv, WireInv
<1> QED  BY <1>7, <1>8

-----------------------------------------------------------------------------
LEMMA PairShape ==
  ASSUME NEW f \in Seq(Nat), NEW a \in Nat, a + 2 <= Len(f)
  PROVE  SubSeq(f, a + 1, a + 2) = <<f[a + 1], f[a + 2]>>
<1>1. /\ Len(f) \in Nat /\ a + 1 \in Int /\ a + 2 \in Int
      /\ a + 1 <= a + 2 /\ (a + 2) - (a + 1) + 1 = 2
      /\ (a + 1) + 1 - 1 = a + 1 /\ (a + 1) + 2 - 1 = a + 2
      /\ 1 \in 1 .. 2 /\ 2 \in 1 .. 2
  OBVIOUS
<1>2. \A i \in (a + 1) .. (a + 2) : f[i] \in Nat
  <2>1. \A i \in (a + 1) .. (a + 2) : i \in 1 .. Len(f)
    BY <1>1
  <2> QED  BY <2>1
<1>3. /\ SubSeq(f, a + 1, a + 2) \in Seq(Nat)
      /\ Len(SubSeq(f, a + 1, a + 2))
           = IF a + 1 <= a + 2 THEN (a + 2) - (a + 1) + 1 ELSE 0
      /\ \A i \in 1 .. (a + 2) - (a + 1) + 1 :
           SubSeq(f, a + 1, a + 2)[i] = f[(a + 1) + i - 1]
  BY <1>1, <1>2, SubSeqProperties
<1> DEFINE p == SubSeq(f, a + 1, a + 2)
<1>4. p \in Seq(Nat) /\ Len(p) = 2 /\ p[1] = f[a + 1] /\ p[2] = f[a + 2]
  BY <1>1, <1>3
<1> HIDE DEF p
<1>5. p = <<p[1], p[2]>>
  BY <1>4
<1> QED  BY <1>4, <1>5 DEF p

(* The vehicle finds a message in the stream only where one begins, reads  *)
(* it to its end, and its fields are those of the first call under way.    *)
LEMMA ReadFirst ==
  ASSUME NEW fs, NEW num, NEW h, TypeOK, Carried(fs, num, h), VehicleReads
  PROVE  /\ Len(underway) > 0 /\ Head(underway) = underway[1]
         /\ underway[1] \in Call
         /\ h < Len(fs) /\ Len(fs[h + 1]) <= Len(wire)
         /\ wire' = SubSeq(wire, Len(fs[h + 1]) + 1, Len(wire))
         /\ Shows(got', underway[1], num[h + 1])
<1> DEFINE c == underway[1]
           n == Index(c.path)
           f == fs[h + 1]
           size == 2 + wire[2]
<1>1. TypeShape
  BY TypeShapes
<1>2. /\ Len(wire) >= 2 /\ wire \in Seq(Nat) /\ Len(wire) > 0
      /\ Holds(wire, fs, h) /\ Messages(fs) /\ h \in Nat
      /\ Len(fs) = h + Len(underway) /\ h <= Len(fs)
  BY <1>1 DEF TypeShape, Carried, VehicleReads, HeaderSize
<1>3. /\ h < Len(fs) /\ Len(f) <= Len(wire) /\ SubSeq(wire, 1, Len(f)) = f
  BY <1>2, HoldsFirst
<1>4. Len(underway) > 0 /\ 1 \in 1 .. Len(underway)
  BY <1>1, <1>2, <1>3 DEF TypeShape
<1>5. Head(underway) = c /\ c \in Call
  BY <1>1, <1>4 DEF TypeShape
<1>6. f = Packed(c, num[h + 1]) /\ num[h + 1] \in Int
  <2>1. Numbered(fs, num, h + 1, c)
    BY <1>4 DEF Carried
  <2>2. num \in [0 .. Len(fs) -> Int]
    BY DEF Carried
  <2>3. h + 1 \in 0 .. Len(fs)
    BY <1>1, <1>2, <1>4 DEF TypeShape
  <2>4. num[h + 1] \in Int
    BY <2>2, <2>3
  <2> QED  BY <2>1, <2>4 DEF Numbered
<1>7. c.path \in Paths /\ n \in Nat
  <2>1. c.path \in Paths
    BY <1>5 DEF Call
  <2> QED  BY <2>1, IndexShape, CavAssumption
<1>70. \A i \in 1 .. n : c.path[i] \in RawPoints
  <2>1. n <= MaxPoints
    BY <1>7, IndexShape, CavAssumption
  <2>2. \A i \in 1 .. n : i \in 1 .. MaxPoints
    BY <1>7, <2>1, CavAssumption
  <2> QED  BY <1>7, <2>2 DEF Paths
<1>8. /\ f \in Seq(Nat) /\ Len(f) = 4 + 2 * n
      /\ f[1] = num[h + 1] % MsgSeqs /\ f[2] = 2 + 2 * n
      /\ f[3] = c.type /\ f[4] = n
      /\ \A i \in 1 .. n : /\ f[4 + (2 * i - 1)] = Convert(c.path[i])[1]
                           /\ f[4 + 2 * i] = Convert(c.path[i])[2]
  <2>1. c \in Call /\ num[h + 1] \in Int /\ f = Packed(c, num[h + 1])
    BY <1>5, <1>6
  <2> HIDE DEF c, f
  <2> QED  BY <2>1, PackedShape
<1>9. /\ wire' = SubSeq(wire, size + 1, Len(wire))
      /\ got' = [seq |-> SubSeq(wire, 1, size)[1],
                 type |-> SubSeq(wire, 1, size)[3],
                 points |-> [i \in 1 .. SubSeq(wire, 1, size)[4] |->
                               SubSeq(SubSeq(wire, 1, size),
                                      4 + 2 * (i - 1) + 1, 4 + 2 * i)]]
  BY DEF VehicleReads, HeaderSize, InfoSize, PathSize
<1> HIDE DEF c, n, f
<1>10. size = Len(f)
  <2>1. Len(f) \in 0 .. Len(wire) /\ 2 \in 1 .. Len(f)
    BY <1>2, <1>3, <1>7, <1>8
  <2>2. f[2] = wire[2]
    BY <1>2, <1>3, <2>1, FrontShape
  <2> QED  BY <1>7, <1>8, <2>2
<1> HIDE DEF size
<1>11. got' = [seq |-> f[1], type |-> f[3],
              points |-> [i \in 1 .. f[4] |->
                            SubSeq(f, 4 + 2 * (i - 1) + 1, 4 + 2 * i)]]
  BY <1>3, <1>9, <1>10
<1>12. ASSUME NEW i \in 1 .. n
       PROVE  /\ SubSeq(f, 4 + 2 * (i - 1) + 1, 4 + 2 * i) = Convert(c.path[i])
              /\ Convert(c.path[i]) \in Nat \X Nat
  <2>0. PICK a : a = 4 + 2 * (i - 1)
    OBVIOUS
  <2>1. /\ a \in Nat /\ a + 2 <= 4 + 2 * n
        /\ 4 + 2 * (i - 1) + 1 = a + 1 /\ 4 + 2 * i = a + 2
        /\ 4 + (2 * i - 1) = a + 1
    BY <1>7, <2>0
  <2>2. SubSeq(f, a + 1, a + 2) = <<f[a + 1], f[a + 2]>>
    BY <1>8, <2>1, PairShape
  <2>3. f[a + 1] = Convert(c.path[i])[1] /\ f[a + 2] = Convert(c.path[i])[2]
    BY <1>8, <2>1
  <2>4. c.path[i] \in RawPoints
    BY <1>70
  <2>5. /\ Convert(c.path[i]) = <<Convert(c.path[i])[1], Convert(c.path[i])[2]>>
        /\ Convert(c.path[i]) \in Nat \X Nat
    BY <2>4, ConvertShape
  <2> QED  BY <2>1, <2>2, <2>3, <2>5
<1>13. got'.points = [i \in 1 .. n |-> Convert(c.path[i])]
  BY <1>8, <1>11, <1>12
<1>14. /\ got'.points \in Seq(Nat \X Nat) /\ Len(got'.points) = n
       /\ \A i \in 1 .. n : got'.points[i] = Convert(c.path[i])
  <2>1. got'.points \in [1 .. n -> Nat \X Nat]
    BY <1>12, <1>13
  <2> QED  BY <1>7, <1>13, <2>1
<1>15. Shows(got', c, num[h + 1])
  BY <1>8, <1>11, <1>14 DEF Shows, n
<1>16. wire' = SubSeq(wire, Len(f) + 1, Len(wire))
  BY <1>9, <1>10
<1> QED  BY <1>3, <1>4, <1>5, <1>15, <1>16 DEF c, f

LEMMA ReadStep ==
  ASSUME Inv, VehicleReads
  PROVE  Inv'
<1>1. TypeOK /\ TypeShape
  BY TypeShapes DEF Inv
<1>2. PICK fs, num, h : Carried(fs, num, h)
  BY DEF Inv, WireInv
<1>3. seq' = seq /\ lost' = lost /\ underway' = Tail(underway)
  BY DEF VehicleReads
<1> DEFINE f == fs[h + 1]
<1>4. /\ h \in Nat /\ Len(fs) = h + Len(underway) /\ Messages(fs)
      /\ num \in [0 .. Len(fs) -> Int]
      /\ Holds(wire, fs, h)
  BY <1>2 DEF Carried
<1>5. \A k \in 1 .. Len(underway) : Numbered(fs, num, h + k, underway[k])
  BY <1>2 DEF Carried
<1>6. /\ Len(underway) > 0 /\ h < Len(fs) /\ underway[1] \in Call
      /\ Len(f) <= Len(wire)
      /\ wire' = SubSeq(wire, Len(f) + 1, Len(wire))
      /\ Shows(got', underway[1], num[h + 1])
  BY <1>1, <1>2, ReadFirst
<1>7. /\ underway' \in Seq(Call) /\ Len(underway') = Len(underway) - 1
      /\ \A k \in 1 .. Len(underway) - 1 : underway'[k] = underway[k + 1]
  BY <1>1, <1>3, <1>6 DEF TypeShape
<1>8. TypeOK'
  <2>1. num[h + 1] \in Int
    <3>1. h + 1 \in 0 .. Len(fs)
      BY <1>1, <1>4, <1>6 DEF TypeShape
    <3> QED  BY <1>4, <3>1
  <2>2. got'.seq \in 0 .. MsgSeqs - 1
    BY <1>6, <2>1, Division, CavAssumption DEF Shows
  <2>3. underway[1].type \in {LV, FV}
    BY <1>6 DEF Call
  <2>4. wire' \in Seq(Nat)
    <3>1. f \in Seq(Nat)
      <4>1. h + 1 \in 1 .. Len(fs)
        BY <1>1, <1>4, <1>6 DEF TypeShape
      <4> QED  BY <1>4, <4>1 DEF Messages
    <3>3. Len(f) \in 0 .. Len(wire)
      BY <1>1, <1>6, <3>1 DEF TypeShape
    <3> QED  BY <1>1, <1>6, <3>3, RestShape DEF TypeShape
  <2> QED  BY <1>1, <1>3, <1>6, <1>7, <2>2, <2>3, <2>4
           DEF TypeOK, Call, Shows
<1>9. Holds(wire', fs, h + 1)
  <2>1. Holds(SubSeq(wire, Len(f) + 1, Len(wire)), fs, h + 1)
    BY <1>1, <1>4, <1>6, HoldsRest DEF TypeShape
  <2> QED  BY <1>6, <2>1
<1>10. ASSUME NEW k \in 1 .. Len(underway')
       PROVE  Numbered(fs, num, (h + 1) + k, underway'[k])
  <2>1. /\ k + 1 \in 1 .. Len(underway) /\ k \in 1 .. Len(underway) - 1
        /\ h + (k + 1) = (h + 1) + k
    BY <1>1, <1>4, <1>7 DEF TypeShape
  <2>2. Numbered(fs, num, h + (k + 1), underway[k + 1])
    BY <1>5, <2>1
  <2>3. underway'[k] = underway[k + 1]
    BY <1>7, <2>1
  <2> QED  BY <2>1, <2>2, <2>3
<1>11. h + 1 \in Nat /\ Len(fs) = (h + 1) + Len(underway')
  BY <1>1, <1>4, <1>6, <1>7 DEF TypeShape
<1>12. Carried(fs, num, h + 1)'
  BY <1>2, <1>3, <1>6, <1>9, <1>10, <1>11 DEF Carried, Shows
<1> QED  BY <1>8, <1>12 DEF Inv, WireInv

LEMMA NextCases ==
  ASSUME Next
  PROVE  \/ VehicleReads
         \/ \E type \in {LV, FV}, path \in Paths, ok \in BOOLEAN :
              Forward(type, path, ok)
BY DEF Next, ForwardLvMsg, ForwardFvMsg

LEMMA InvHolds == Spec => []Inv
<1>1. Inv /\ [Next]_vars => Inv'
  <2> SUFFICES ASSUME Inv, [Next]_vars PROVE Inv'
    OBVIOUS
  <2>1. CASE Next
    BY <2>1, NextCases, ForwardStep, ReadStep
  <2>2. CASE UNCHANGED vars
    <3>1. /\ seq' = seq /\ wire' = wire /\ got' = got
          /\ underway' = underway /\ lost' = lost
      BY <2>2 DEF vars
    <3>2. TypeOK'
      BY <3>1 DEF Inv, TypeOK
    <3>3. WireInv'
      BY <3>1 DEF Inv, WireInv, Carried
    <3> QED  BY <3>2, <3>3 DEF Inv
  <2> QED  BY <2>1, <2>2
<1> QED  BY <1>1, InitInv, PTL DEF Spec

(* A step that takes a message off the wire is VehicleReads, of the first  *)
(* call under way.                                                         *)
LEMMA ReadingShape ==
  ASSUME Inv, Next, Reading
  PROVE  /\ Head(underway) \in Call
         /\ \E s \in Int :
              /\ Shows(got', Head(underway), s)
              /\ got.seq = (s - (1 + Head(underway).lost)) % MsgSeqs
<1>1. TypeOK /\ TypeShape
  BY TypeShapes DEF Inv
<1>2. VehicleReads
  <2>1. ASSUME NEW type \in {LV, FV}, NEW path \in Paths,
               NEW ok \in BOOLEAN, Forward(type, path, ok)
        PROVE  Len(underway') >= Len(underway) /\ Len(underway') \in Nat
    <3>1. Inv' /\ Len(underway') >= Len(underway)
      BY <2>1, ForwardStep
    <3>2. Len(underway') \in Nat
      BY <3>1 DEF Inv, TypeOK
    <3> QED  BY <3>1, <3>2
  <2>2. ~(Len(underway') >= Len(underway) /\ Len(underway') \in Nat)
    BY <1>1 DEF Reading, TypeShape
  <2> QED  BY <2>1, <2>2, NextCases
<1>3. PICK fs, num, h : Carried(fs, num, h)
  BY DEF Inv, WireInv
<1>4. /\ Len(underway) > 0 /\ Head(underway) = underway[1]
      /\ underway[1] \in Call /\ h < Len(fs)
      /\ Shows(got', underway[1], num[h + 1])
  BY <1>1, <1>2, <1>3, ReadFirst
<1>5. num[h + 1] = num[h] + 1 + underway[1].lost
  <2>1. 1 \in 1 .. Len(underway)
    BY <1>1, <1>4 DEF TypeShape
  <2>2. Numbered(fs, num, h + 1, underway[1])
    BY <1>3, <2>1 DEF Carried
  <2>3. (h + 1) - 1 = h
    BY <1>3 DEF Carried
  <2> QED  BY <2>2, <2>3 DEF Numbered
<1>6. num[h + 1] \in Int /\ num[h] \in Int /\ got.seq = num[h] % MsgSeqs
  <2>1. h \in Nat /\ num \in [0 .. Len(fs) -> Int] /\ got.seq = num[h] % MsgSeqs
    BY <1>3 DEF Carried
  <2>2. h \in 0 .. Len(fs) /\ h + 1 \in 0 .. Len(fs)
    <3>1. Len(fs) = h + Len(underway)
      BY <1>3 DEF Carried
    <3> QED  BY <1>1, <1>4, <2>1, <3>1 DEF TypeShape
  <2> QED  BY <2>1, <2>2
<1>7. num[h] = num[h + 1] - (1 + underway[1].lost)
  <2>1. underway[1].lost \in Int
    BY <1>4, CavAssumption DEF Call
  <2> QED  BY <1>5, <1>6, <2>1
<1> QED  BY <1>4, <1>6, <1>7

(* Every reachable state is well-typed; in particular, what the vehicle    *)
(* makes of the bytes it reads is a message.                               *)
THEOREM TypeCorrect == Spec => []TypeOK
BY InvHolds, PTL DEF Inv

(* For path plans of every length: the vehicle, cutting the stream by      *)
(* msg_length alone, reads every message as it was forwarded.              *)
THEOREM PlanArrivesCorrect == Spec => PlanArrives
<1>1. Inv /\ [Next]_vars
      => [ Reading =>
           LET call == Head(underway)
               n == Len(got'.points)
           IN  /\ got'.type = call.type
               /\ \A i \in 1 .. n :
                    /\ call.path[i] # NoPoint
                    /\ got'.points[i] = <<call.path[i][1] \div Scale,
                                          call.path[i][2] \div Scale>>
               /\ n = MaxPoints \/ call.path[n + 1] = NoPoint ]_vars
  <2> SUFFICES ASSUME Inv, Next, Reading
               PROVE  LET call == Head(underway)
                          n == Len(got'.points)
                      IN  /\ got'.type = call.type
                          /\ \A i \in 1 .. n :
                               /\ call.path[i] # NoPoint
                               /\ got'.points[i] = <<call.path[i][1] \div Scale,
                                                     call.path[i][2] \div Scale>>
                          /\ n = MaxPoints \/ call.path[n + 1] = NoPoint
    BY Zenon
  <2> DEFINE call == Head(underway)
             n == Len(got'.points)
  <2>1. call \in Call /\ \E s \in Int : Shows(got', call, s)
    BY ReadingShape
  <2>2. call.path \in Paths
    BY <2>1 DEF Call
  <2>3. /\ got'.type = call.type /\ n = Index(call.path)
        /\ \A i \in 1 .. n : got'.points[i] = Convert(call.path[i])
    BY <2>1 DEF Shows
  <2> HIDE DEF call, n
  <2>4. /\ n \in 0 .. MaxPoints
        /\ \A i \in 1 .. n : call.path[i] # NoPoint
        /\ n < MaxPoints => call.path[n + 1] = NoPoint
    BY <2>2, <2>3, IndexShape DEF EndsPlan
  <2>5. n = MaxPoints \/ call.path[n + 1] = NoPoint
    BY <2>4, CavAssumption
  <2> QED  BY <2>3, <2>4, <2>5 DEF call, n, Convert
<1> QED  BY <1>1, InvHolds, PTL DEF Spec, PlanArrives

(* Whatever the number of values of msg_seq: a gap in it is exactly the    *)
(* number of calls that failed, across the wrap too.                       *)
THEOREM GapIsLossCorrect == Spec => GapIsLoss
<1>1. Inv /\ [Next]_vars
      => [ Reading =>
           (got'.seq - got.seq) % MsgSeqs = (1 + Head(underway).lost) % MsgSeqs ]_vars
  <2> SUFFICES ASSUME Inv, Next, Reading
               PROVE  (got'.seq - got.seq) % MsgSeqs
                        = (1 + Head(underway).lost) % MsgSeqs
    BY Zenon
  <2>1. PICK s \in Int : /\ Shows(got', Head(underway), s)
                         /\ got.seq = (s - (1 + Head(underway).lost)) % MsgSeqs
    BY ReadingShape
  <2> DEFINE l == 1 + Head(underway).lost
  <2>2. l \in Int
    <3>1. Head(underway).lost \in 0 .. MaxSeq
      BY ReadingShape DEF Call
    <3> QED  BY <3>1, CavAssumption
  <2>3. got'.seq = s % MsgSeqs /\ got.seq = (s - l) % MsgSeqs
    BY <2>1 DEF Shows
  <2> HIDE DEF l
  <2>4. s - l \in Int /\ s - (s - l) = l
    BY <2>2
  <2>5. ((s % MsgSeqs) - ((s - l) % MsgSeqs)) % MsgSeqs = (s - (s - l)) % MsgSeqs
    BY <2>4, RemainderOfGap, CavAssumption
  <2> QED  BY <2>3, <2>4, <2>5 DEF l
<1> QED  BY <1>1, InvHolds, PTL DEF Spec, GapIsLoss

=============================================================================
