----------------------------- MODULE CommonLemmas -----------------------------
(***************************************************************************)
(* What the proofs about several components need and the library does not  *)
(* have: remainders, the least of some numbers, and messages in a stream.  *)
(***************************************************************************)
EXTENDS Integers, Sequences, SequenceTheorems, WellFoundedInduction, TLAPS

(* The division of a by m, and that its remainder is the only one.         *)
LEMMA Division ==
  ASSUME NEW m \in Nat \ {0}, NEW a \in Int
  PROVE  /\ a = m * (a \div m) + (a % m) /\ a \div m \in Int
         /\ a % m \in 0 .. m - 1
OBVIOUS

LEMMA Remainder ==
  ASSUME NEW m \in Nat \ {0}, NEW x \in Int, NEW y \in Int,
         NEW r \in 0 .. m - 1, NEW s \in 0 .. m - 1,
         m * x + r = m * y + s
  PROVE  r = s
<1>1. CASE x = y
  BY <1>1
<1>2. CASE x > y
  <2>1. PICK d \in Nat : x = y + 1 + d
    <3>1. x - y - 1 \in Nat /\ x = y + 1 + (x - y - 1)
      BY <1>2
    <3> QED  BY <3>1
  <2>2. m * x = m * y + m + m * d /\ m * d \in Nat
    BY <2>1
  <2> QED  BY <2>2
<1>3. CASE y > x
  <2>1. PICK d \in Nat : y = x + 1 + d
    <3>1. y - x - 1 \in Nat /\ y = x + 1 + (y - x - 1)
      BY <1>3
    <3> QED  BY <3>1
  <2>2. m * y = m * x + m + m * d /\ m * d \in Nat
    BY <2>1
  <2> QED  BY <2>2
<1> QED  BY <1>1, <1>2, <1>3

(* Numbers that differ by a multiple of m have the same remainder.         *)
LEMMA SameRemainder ==
  ASSUME NEW m \in Nat \ {0}, NEW a \in Int, NEW b \in Int, NEW q \in Int,
         a = m * q + b
  PROVE  a % m = b % m
<1>1. PICK x \in Int, y \in Int, r \in 0 .. m - 1, s \in 0 .. m - 1 :
        a = m * x + r /\ r = a % m /\ b = m * y + s /\ s = b % m
  <2>1. PICK x \in Int, r \in 0 .. m - 1 : a = m * x + r /\ r = a % m
    BY Division
  <2>2. PICK y \in Int, s \in 0 .. m - 1 : b = m * y + s /\ s = b % m
    BY Division
  <2> QED  BY <2>1, <2>2, Zenon
<1>2. m * (q + y) = m * q + m * y
  OBVIOUS
<1>3. m * x + r = m * (q + y) + s
  <2>1. m * q \in Int /\ m * y \in Int
    OBVIOUS
  <2> QED  BY <1>1, <1>2, <2>1
<1>4. r = s
  <2>1. q + y \in Int
    OBVIOUS
  <2> QED  BY <1>3, <2>1, Remainder
<1> QED  BY <1>1, <1>4

(* Remainders of a sum and of a difference.                                *)
LEMMA RemainderOfSum ==
  ASSUME NEW m \in Nat \ {0}, NEW a \in Int, NEW b \in Int
  PROVE  (a + b) % m = ((a % m) + b) % m
<1>1. PICK q \in Int, r \in 0 .. m - 1 : a = m * q + r /\ r = a % m
  BY Division
<1>2. a + b = m * q + (r + b)
  <2>1. m * q \in Int
    OBVIOUS
  <2> QED  BY <1>1, <2>1
<1>3. (a + b) % m = (r + b) % m
  <2>1. a + b \in Int /\ r + b \in Int
    OBVIOUS
  <2> QED  BY <1>2, <2>1, SameRemainder
<1> QED  BY <1>1, <1>3

LEMMA RemainderOfGap ==
  ASSUME NEW m \in Nat \ {0}, NEW a \in Int, NEW b \in Int
  PROVE  ((a % m) - (b % m)) % m = (a - b) % m
<1>1. PICK x \in Int, y \in Int, r \in 0 .. m - 1, s \in 0 .. m - 1 :
        a = m * x + r /\ r = a % m /\ b = m * y + s /\ s = b % m
  <2>1. PICK x \in Int, r \in 0 .. m - 1 : a = m * x + r /\ r = a % m
    BY Division
  <2>2. PICK y \in Int, s \in 0 .. m - 1 : b = m * y + s /\ s = b % m
    BY Division
  <2> QED  BY <2>1, <2>2, Zenon
<1>2. m * (x - y) = m * x - m * y
  OBVIOUS
<1>3. a - b = m * (x - y) + (r - s)
  <2>1. m * x \in Int /\ m * y \in Int
    OBVIOUS
  <2> QED  BY <1>1, <1>2, <2>1
<1>4. (a - b) % m = (r - s) % m
  <2>1. a - b \in Int /\ r - s \in Int /\ x - y \in Int
    OBVIOUS
  <2> QED  BY <1>3, <2>1, SameRemainder
<1> QED  BY <1>1, <1>4

(* The least of some naturals.                                             *)
LEMMA Least ==
  ASSUME NEW S \in SUBSET Nat, S # {}
  PROVE  \E n \in S : \A m \in S : n <= m
<1> DEFINE R == {ss \in Nat \X Nat : ss[1] < ss[2]}
<1>1. IsWellFoundedOn(R, Nat)
  BY NatLessThanWellFounded DEF OpToRel
<1>2. PICK n \in S : \A m \in S : ~(<<m, n>> \in R)
  BY <1>1, WFMin
<1>3. \A m \in S : ~(m < n)
  BY <1>2
<1> QED  BY <1>3

-----------------------------------------------------------------------------
(* Messages in a stream. That it is the messages of fs from number h + 1   *)
(* on, one after the other, is said without a recursive concatenation:     *)
(* there are places at[k], counted from the beginning of all that was ever *)
(* sent, where message k begins.                                           *)

(* The places of the messages; the one after the last is the end.          *)
Places(at, fs) ==
  /\ at \in [1 .. Len(fs) + 1 -> Nat]
  /\ \A k \in 1 .. Len(fs) : at[k + 1] = at[k] + Len(fs[k])
  /\ \A k, l \in 1 .. Len(fs) + 1 : k <= l => at[k] <= at[l]

(* The stream s holds the messages of fs after the first h.                *)
Lies(s, at, fs, h) ==
  /\ at[Len(fs) + 1] = at[h + 1] + Len(s)
  /\ \A k \in h + 1 .. Len(fs) : \A j \in 1 .. Len(fs[k]) :
       s[at[k] - at[h + 1] + j] = fs[k][j]

Messages(fs) == fs \in Seq(Seq(Nat))

(* gs is fs and one message more.                                          *)
Extended(gs, fs, f) ==
  /\ Len(gs) = Len(fs) + 1 /\ gs[Len(fs) + 1] = f
  /\ \A k \in 1 .. Len(fs) : gs[k] = fs[k]

Holds(s, fs, h) == \E at : Places(at, fs) /\ Lies(s, at, fs, h)

-----------------------------------------------------------------------------
LEMMA ConcatShape ==
  ASSUME NEW a \in Seq(Nat), NEW b \in Seq(Nat)
  PROVE  /\ a \o b \in Seq(Nat)
         /\ Len(a) \in Nat /\ Len(b) \in Nat
         /\ Len(a \o b) = Len(a) + Len(b)
         /\ \A i \in 1 .. Len(a) : (a \o b)[i] = a[i]
         /\ \A j \in 1 .. Len(b) : (a \o b)[Len(a) + j] = b[j]
<1>1. /\ a \o b \in Seq(Nat)
      /\ Len(a \o b) = Len(a) + Len(b)
      /\ \A i \in 1 .. Len(a) + Len(b) :
           (a \o b)[i] = IF i <= Len(a) THEN a[i] ELSE b[i - Len(a)]
  BY ConcatProperties
<1>2. Len(a) \in Nat /\ Len(b) \in Nat
  OBVIOUS
<1>3. ASSUME NEW i \in 1 .. Len(a)
      PROVE  (a \o b)[i] = a[i]
  <2>1. i \in 1 .. Len(a) + Len(b) /\ i <= Len(a)
    BY <1>2
  <2> QED  BY <1>1, <2>1
<1>4. ASSUME NEW j \in 1 .. Len(b)
      PROVE  (a \o b)[Len(a) + j] = b[j]
  <2>1. /\ Len(a) + j \in 1 .. Len(a) + Len(b)
        /\ ~(Len(a) + j <= Len(a)) /\ Len(a) + j - Len(a) = j
    BY <1>2
  <2> QED  BY <1>1, <2>1
<1> QED  BY <1>1, <1>2, <1>3, <1>4

LEMMA ConcatAssoc ==
  ASSUME NEW a \in Seq(Nat), NEW b \in Seq(Nat), NEW c \in Seq(Nat)
  PROVE  (a \o b) \o c = a \o (b \o c)
BY SMTT(20)

(* The end of a sequence.                                                  *)
LEMMA RestShape ==
  ASSUME NEW s \in Seq(Nat), NEW n \in 0 .. Len(s)
  PROVE  /\ SubSeq(s, n + 1, Len(s)) \in Seq(Nat)
         /\ Len(SubSeq(s, n + 1, Len(s))) = Len(s) - n
         /\ \A i \in 1 .. Len(s) - n : SubSeq(s, n + 1, Len(s))[i] = s[n + i]
<1>1. Len(s) \in Nat /\ n \in Nat /\ n + 1 \in Int /\ Len(s) \in Int
  OBVIOUS
<1>2. \A i \in n + 1 .. Len(s) : s[i] \in Nat
  BY <1>1
<1>3. /\ SubSeq(s, n + 1, Len(s)) \in Seq(Nat)
      /\ Len(SubSeq(s, n + 1, Len(s)))
           = IF n + 1 <= Len(s) THEN Len(s) - (n + 1) + 1 ELSE 0
      /\ \A i \in 1 .. Len(s) - (n + 1) + 1 :
           SubSeq(s, n + 1, Len(s))[i] = s[n + 1 + i - 1]
  BY <1>1, <1>2, SubSeqProperties
<1>4. /\ Len(s) - (n + 1) + 1 = Len(s) - n
      /\ (IF n + 1 <= Len(s) THEN Len(s) - (n + 1) + 1 ELSE 0) = Len(s) - n
  BY <1>1
<1>5. ASSUME NEW i \in 1 .. Len(s) - n
      PROVE  SubSeq(s, n + 1, Len(s))[i] = s[n + i]
  <2>1. n + 1 + i - 1 = n + i /\ i \in 1 .. Len(s) - (n + 1) + 1
    BY <1>1
  <2> QED  BY <1>3, <2>1
<1> QED  BY <1>3, <1>4, <1>5

(* The beginning of a sequence.                                            *)
LEMMA FrontShape ==
  ASSUME NEW s \in Seq(Nat), NEW n \in 0 .. Len(s)
  PROVE  /\ SubSeq(s, 1, n) \in Seq(Nat)
         /\ Len(SubSeq(s, 1, n)) = n
         /\ \A i \in 1 .. n : SubSeq(s, 1, n)[i] = s[i]
<1>1. Len(s) \in Nat /\ n \in Nat /\ n \in Int
  OBVIOUS
<1>2. \A i \in 1 .. n : s[i] \in Nat
  BY <1>1
<1>3. /\ SubSeq(s, 1, n) \in Seq(Nat)
      /\ Len(SubSeq(s, 1, n)) = IF 1 <= n THEN n - 1 + 1 ELSE 0
      /\ \A i \in 1 .. n - 1 + 1 : SubSeq(s, 1, n)[i] = s[1 + i - 1]
  BY <1>1, <1>2, SubSeqProperties
<1>4. n - 1 + 1 = n /\ \A i \in Int : 1 + i - 1 = i
  BY <1>1
<1> QED  BY <1>1, <1>3, <1>4

(* Byte j of a message of l bytes at e, in a stream of n bytes that begins  *)
(* at a and ends at b; and in what is left of it after m bytes.            *)
LEMMA Inside ==
  ASSUME NEW a \in Nat, NEW b \in Nat, NEW e \in Nat, NEW l \in Nat,
         NEW n \in Nat, NEW j \in 1 .. l,
         b = a + n, a <= e, e + l <= b
  PROVE  e - a + j \in 1 .. n
OBVIOUS

LEMMA InsideRest ==
  ASSUME NEW a \in Nat, NEW b \in Nat, NEW e \in Nat, NEW l \in Nat,
         NEW n \in Nat, NEW m \in Nat, NEW j \in 1 .. l,
         NEW c, b = a + n, c = a + m, c <= e, e + l <= b
  PROVE  /\ e - c + j \in 1 .. n - m
         /\ m + (e - c + j) = e - a + j
OBVIOUS

LEMMA NothingHeld ==
  Holds(<<>>, <<>>, 0)
<1> DEFINE at == [k \in 1 .. 1 |-> 0]
<1>1. Len(<<>>) = 0 /\ 0 + 1 = 1
  OBVIOUS
<1>2. Places(at, <<>>)
  BY <1>1 DEF Places
<1>3. Lies(<<>>, at, <<>>, 0)
  BY <1>1 DEF Lies
<1> QED  BY <1>2, <1>3 DEF Holds

LEMMA GrowMessages ==
  ASSUME NEW fs, Messages(fs), NEW f \in Seq(Nat)
  PROVE  Messages(Append(fs, f)) /\ Extended(Append(fs, f), fs, f)
BY AppendProperties DEF Messages, Extended

LEMMA SplitLast ==
  ASSUME NEW n \in Int, NEW h \in Int, NEW k \in h + 1 .. n + 1
  PROVE  k = n + 1 \/ k \in h + 1 .. n
OBVIOUS

(* A message that is sent goes behind the stream.                          *)
LEMMA HoldsAppend ==
  ASSUME NEW fs, NEW h \in Nat, NEW s \in Seq(Nat), NEW f \in Seq(Nat),
         NEW gs, Messages(fs), h <= Len(fs), Holds(s, fs, h),
         Extended(gs, fs, f)
  PROVE  Holds(s \o f, gs, h)
<1>0. PICK n : n = Len(fs)
  OBVIOUS
<1>1. PICK at : Places(at, fs) /\ Lies(s, at, fs, h)
  BY DEF Holds
<1>2. n \in Nat /\ h <= n
  BY <1>0 DEF Messages
<1>61. \A k \in 1 .. n : Len(fs[k]) \in Nat
  <2>1. \A k \in 1 .. n : fs[k] \in Seq(Nat)
    BY <1>0 DEF Messages
  <2> QED  BY <2>1
<1>62. Len(gs) = n + 1 /\ gs[n + 1] = f /\ \A k \in 1 .. n : gs[k] = fs[k]
  BY <1>0 DEF Extended
<1>21. at \in [1 .. n + 1 -> Nat]
  BY <1>0, <1>1 DEF Places
<1>22. \A k \in 1 .. n : at[k + 1] = at[k] + Len(fs[k])
  BY <1>0, <1>1 DEF Places
<1>23. \A k, l \in 1 .. n + 1 : k <= l => at[k] <= at[l]
  BY <1>0, <1>1 DEF Places
<1>3. at[n + 1] = at[h + 1] + Len(s)
  BY <1>0, <1>1 DEF Lies
<1>31. \A k \in h + 1 .. n : \A j \in 1 .. Len(fs[k]) :
         s[at[k] - at[h + 1] + j] = fs[k][j]
  BY <1>0, <1>1 DEF Lies
<1>4. h + 1 \in 1 .. n + 1 /\ n + 1 \in 1 .. n + 1
  BY <1>2
<1>5. at[n + 1] \in Nat /\ at[h + 1] \in Nat
  BY <1>21, <1>4
<1>51. Len(f) \in Nat /\ Len(s) \in Nat
  OBVIOUS
<1> DEFINE at2 == [k \in 1 .. n + 2 |->
                     IF k \in 1 .. n + 1 THEN at[k] ELSE at[n + 1] + Len(f)]
<1>6. \A k \in 1 .. n + 1 : at2[k] = at[k]
  BY <1>2
<1>7. at2[n + 2] = at[n + 1] + Len(f)
  BY <1>2
<1>8. at2 \in [1 .. n + 2 -> Nat]
  BY <1>2, <1>21, <1>5, <1>51
<1> HIDE DEF at2
<1>9. \A k \in 1 .. n + 1 : at2[k + 1] = at2[k] + Len(gs[k])
  <2> SUFFICES ASSUME NEW k \in 1 .. n + 1
               PROVE  at2[k + 1] = at2[k] + Len(gs[k])
    OBVIOUS
  <2>1. CASE k = n + 1
    <3>1. k + 1 = n + 2 /\ at2[k] = at[n + 1] /\ gs[k] = f
      BY <1>2, <1>4, <1>6, <1>62, <2>1
    <3> QED  BY <1>7, <3>1
  <2>2. CASE k \in 1 .. n
    <3>1. k + 1 \in 1 .. n + 1
      BY <1>2, <2>2
    <3>2. at2[k] = at[k] /\ at2[k + 1] = at[k + 1] /\ gs[k] = fs[k]
      BY <1>6, <1>62, <2>2, <3>1
    <3> QED  BY <1>22, <2>2, <3>2
  <2> QED  BY <1>2, <2>1, <2>2
<1>10. \A k, l \in 1 .. n + 2 : k <= l => at2[k] <= at2[l]
  <2> SUFFICES ASSUME NEW k \in 1 .. n + 2, NEW l \in 1 .. n + 2, k <= l
               PROVE  at2[k] <= at2[l]
    OBVIOUS
  <2>1. CASE l \in 1 .. n + 1
    <3>1. k \in 1 .. n + 1
      BY <1>2, <2>1
    <3> QED  BY <1>23, <1>6, <2>1, <3>1
  <2>2. CASE l = n + 2 /\ k \in 1 .. n + 1
    <3>0. k <= n + 1
      BY <1>2, <2>2
    <3>1. at[k] <= at[n + 1] /\ at[k] \in Nat
      BY <1>21, <1>23, <1>4, <2>2, <3>0
    <3>2. at2[k] = at[k]
      BY <1>6, <2>2
    <3> QED  BY <1>5, <1>51, <1>7, <2>2, <3>1, <3>2
  <2>3. CASE l = n + 2 /\ k = n + 2
    <3>1. at2[k] \in Nat /\ at2[k] = at2[l]
      BY <1>8, <2>3
    <3> QED  BY <3>1
  <2> QED  BY <1>2, <2>1, <2>2, <2>3
<1>11. Places(at2, gs)
  BY <1>2, <1>62, <1>8, <1>9, <1>10 DEF Places
<1>12. at2[n + 2] = at2[h + 1] + Len(s \o f)
  <2>1. at2[h + 1] = at[h + 1] /\ Len(s \o f) = Len(s) + Len(f)
    BY <1>4, <1>6, ConcatShape
  <2> QED  BY <1>3, <1>5, <1>51, <1>7, <2>1
<1>13. ASSUME NEW k \in h + 1 .. n + 1, NEW j \in 1 .. Len(gs[k])
       PROVE  (s \o f)[at2[k] - at2[h + 1] + j] = gs[k][j]
  <2>1. at2[h + 1] = at[h + 1]
    BY <1>4, <1>6
  <2>2. CASE k = n + 1
    <3>1. at2[k] = at[n + 1] /\ gs[k] = f
      BY <1>4, <1>6, <1>62, <2>2
    <3>2. at2[k] - at2[h + 1] + j = Len(s) + j /\ j \in 1 .. Len(f)
      <4>1. at2[k] = at2[h + 1] + Len(s) /\ at2[h + 1] \in Nat
        BY <1>3, <1>5, <2>1, <3>1, Zenon
      <4>2. at2[k] - at2[h + 1] = Len(s)
        BY <1>51, <4>1
      <4> QED  BY <1>51, <3>1, <4>2
    <3>3. (s \o f)[Len(s) + j] = f[j]
      BY <3>2, ConcatShape
    <3> QED  BY <3>1, <3>2, <3>3
  <2>3. CASE k \in h + 1 .. n
    <3>1. k \in 1 .. n /\ k \in 1 .. n + 1 /\ k + 1 \in 1 .. n + 1
          /\ h + 1 <= k /\ k + 1 <= n + 1
      BY <1>2, <2>3
    <3>2. at[h + 1] <= at[k] /\ at[k + 1] <= at[n + 1] /\ at[k] \in Nat
      BY <1>21, <1>23, <1>4, <3>1
    <3>3. /\ at[k + 1] = at[k] + Len(fs[k]) /\ gs[k] = fs[k]
          /\ Len(fs[k]) \in Nat /\ at2[k] = at[k]
      BY <1>22, <1>6, <1>61, <1>62, <3>1
    <3>4. j \in 1 .. Len(fs[k])
      BY <3>3
    <3>5. at[k] - at[h + 1] + j \in 1 .. Len(s)
      <4>0. PICK a, b, e, l, q :
             /\ a = at[h + 1] /\ b = at[n + 1] /\ e = at[k]
             /\ l = Len(fs[k]) /\ q = Len(s)
        OBVIOUS
      <4>1. /\ a \in Nat /\ b \in Nat /\ e \in Nat /\ l \in Nat /\ q \in Nat
            /\ a <= e /\ e + l <= b /\ b = a + q /\ j \in 1 .. l
        BY <1>3, <1>5, <1>51, <3>2, <3>3, <3>4, <4>0
      <4>2. e - a + j \in 1 .. q
        BY <4>1, Inside
      <4> QED  BY <4>0, <4>2
    <3>6. s[at[k] - at[h + 1] + j] = fs[k][j]
      BY <1>31, <2>3, <3>4
    <3>7. (s \o f)[at[k] - at[h + 1] + j] = s[at[k] - at[h + 1] + j]
      BY <3>5, ConcatShape
    <3> QED  BY <2>1, <3>3, <3>6, <3>7
  <2>4. k = n + 1 \/ k \in h + 1 .. n
    BY <1>2, SplitLast
  <2> QED  BY <2>2, <2>3, <2>4
<1>14. Lies(s \o f, at2, gs, h)
  <2>1. Len(gs) + 1 = n + 2 /\ Len(gs) = n + 1
    BY <1>2, <1>62
  <2> QED  BY <2>1, <1>12, <1>13 DEF Lies
<1> QED  BY <1>11, <1>14 DEF Holds

(* What is left of a stream that is not empty begins with a whole message, *)
(* ...                                                                     *)
LEMMA HoldsFirst ==
  ASSUME NEW fs, NEW h \in Nat, NEW s \in Seq(Nat),
         Messages(fs), h <= Len(fs), Holds(s, fs, h), Len(s) > 0
  PROVE  /\ h < Len(fs) /\ Len(fs[h + 1]) <= Len(s)
         /\ SubSeq(s, 1, Len(fs[h + 1])) = fs[h + 1]
<1>0. PICK n : n = Len(fs)
  OBVIOUS
<1>1. PICK at : Places(at, fs) /\ Lies(s, at, fs, h)
  BY DEF Holds
<1>2. n \in Nat /\ h <= n
  BY <1>0 DEF Messages
<1>21. at \in [1 .. n + 1 -> Nat]
  BY <1>0, <1>1 DEF Places
<1>22. \A k \in 1 .. n : at[k + 1] = at[k] + Len(fs[k])
  BY <1>0, <1>1 DEF Places
<1>23. \A k, l \in 1 .. n + 1 : k <= l => at[k] <= at[l]
  BY <1>0, <1>1 DEF Places
<1>3. at[n + 1] = at[h + 1] + Len(s)
  BY <1>0, <1>1 DEF Lies
<1>31. \A k \in h + 1 .. n : \A j \in 1 .. Len(fs[k]) :
         s[at[k] - at[h + 1] + j] = fs[k][j]
  BY <1>0, <1>1 DEF Lies
<1>4. h + 1 \in 1 .. n + 1 /\ n + 1 \in 1 .. n + 1 /\ Len(s) \in Nat
  BY <1>2
<1>5. at[h + 1] \in Nat /\ at[n + 1] \in Nat
  BY <1>21, <1>4
<1>6. h # n
  BY <1>3, <1>4, <1>5
<1>7. h + 1 \in 1 .. n /\ h + 2 \in 1 .. n + 1 /\ h + 2 <= n + 1
      /\ h + 1 \in h + 1 .. n /\ (h + 1) + 1 = h + 2
  BY <1>2, <1>6
<1>8. fs[h + 1] \in Seq(Nat) /\ Len(fs[h + 1]) \in Nat
  <2>1. fs[h + 1] \in Seq(Nat)
    BY <1>0, <1>7 DEF Messages
  <2> QED  BY <2>1
<1>9. at[h + 2] = at[h + 1] + Len(fs[h + 1]) /\ at[h + 2] <= at[n + 1]
  <2>1. at[(h + 1) + 1] = at[h + 1] + Len(fs[h + 1])
    BY <1>22, <1>7
  <2>2. at[h + 2] <= at[n + 1]
    BY <1>23, <1>4, <1>7
  <2> QED  BY <1>7, <2>1, <2>2
<1>10. Len(fs[h + 1]) <= Len(s)
  <2>0. PICK a, b, c, l, q :
          /\ a = at[h + 1] /\ b = at[n + 1] /\ c = at[h + 2]
          /\ l = Len(fs[h + 1]) /\ q = Len(s)
    OBVIOUS
  <2>1. /\ a \in Nat /\ l \in Nat /\ q \in Nat
        /\ c = a + l /\ b = a + q /\ c <= b
    BY <1>3, <1>4, <1>5, <1>8, <1>9, <2>0
  <2>2. l <= q
    BY <2>1
  <2> QED  BY <2>0, <2>2
<1>101. PICK m : m = Len(fs[h + 1])
  OBVIOUS
<1>11. m \in 0 .. Len(s)
  BY <1>4, <1>8, <1>10, <1>101
<1>12. /\ SubSeq(s, 1, m) \in Seq(Nat) /\ Len(SubSeq(s, 1, m)) = m
       /\ \A i \in 1 .. m : SubSeq(s, 1, m)[i] = s[i]
  BY <1>11, FrontShape
<1>13. ASSUME NEW j \in 1 .. m
       PROVE  s[j] = fs[h + 1][j]
  <2>1. s[at[h + 1] - at[h + 1] + j] = fs[h + 1][j]
    BY <1>31, <1>7, <1>101
  <2>2. at[h + 1] - at[h + 1] + j = j
    BY <1>5
  <2> QED  BY <2>1, <2>2
<1>14. SubSeq(s, 1, m) = fs[h + 1]
  BY <1>8, <1>101, <1>12, <1>13, SeqEqual
<1> QED  BY <1>0, <1>6, <1>2, <1>10, <1>101, <1>14

(* ... and without it holds the messages after that.                       *)
LEMMA HoldsRest ==
  ASSUME NEW fs, NEW h \in Nat, NEW s \in Seq(Nat),
         Messages(fs), h < Len(fs), Holds(s, fs, h)
  PROVE  Holds(SubSeq(s, Len(fs[h + 1]) + 1, Len(s)), fs, h + 1)
<1>0. PICK n : n = Len(fs)
  OBVIOUS
<1> DEFINE m == Len(fs[h + 1])
           r == SubSeq(s, m + 1, Len(s))
<1>1. PICK at : Places(at, fs) /\ Lies(s, at, fs, h)
  BY DEF Holds
<1>2. n \in Nat /\ h < n
  BY <1>0 DEF Messages
<1>20. \A k \in 1 .. n : fs[k] \in Seq(Nat)
  BY <1>0 DEF Messages
<1>21. at \in [1 .. n + 1 -> Nat]
  BY <1>0, <1>1 DEF Places
<1>22. \A k \in 1 .. n : at[k + 1] = at[k] + Len(fs[k])
  BY <1>0, <1>1 DEF Places
<1>23. \A k, l \in 1 .. n + 1 : k <= l => at[k] <= at[l]
  BY <1>0, <1>1 DEF Places
<1>3. at[n + 1] = at[h + 1] + Len(s)
  BY <1>0, <1>1 DEF Lies
<1>31. \A k \in h + 1 .. n : \A j \in 1 .. Len(fs[k]) :
         s[at[k] - at[h + 1] + j] = fs[k][j]
  BY <1>0, <1>1 DEF Lies
<1>4. /\ h + 1 \in 1 .. n /\ h + 1 \in 1 .. n + 1 /\ h + 2 \in 1 .. n + 1
      /\ n + 1 \in 1 .. n + 1 /\ h + 2 <= n + 1 /\ (h + 1) + 1 = h + 2
      /\ Len(s) \in Nat
  BY <1>2
<1>5. /\ at[h + 1] \in Nat /\ at[h + 2] \in Nat /\ at[n + 1] \in Nat
      /\ at[h + 2] <= at[n + 1] /\ at[h + 2] = at[h + 1] + m
      /\ m \in Nat
  <2>1. m \in Nat
    <3>1. fs[h + 1] \in Seq(Nat)
      BY <1>20, <1>4
    <3> QED  BY <3>1
  <2>2. at[h + 1] \in Nat /\ at[h + 2] \in Nat /\ at[n + 1] \in Nat
    BY <1>21, <1>4
  <2>3. at[(h + 1) + 1] = at[h + 1] + m
    BY <1>22, <1>4
  <2>4. at[h + 2] <= at[n + 1]
    BY <1>23, <1>4
  <2> QED  BY <1>4, <2>1, <2>2, <2>3, <2>4
<1>6. m \in 0 .. Len(s)
  BY <1>3, <1>4, <1>5
<1>7. Len(r) = Len(s) - m /\ \A i \in 1 .. Len(s) - m : r[i] = s[m + i]
  BY <1>6, RestShape
<1> HIDE DEF m, r
<1>8. at[n + 1] = at[(h + 1) + 1] + Len(r)
  <2>0. PICK a, b, c, p, q :
         /\ a = at[h + 1] /\ b = at[n + 1] /\ c = at[h + 2]
         /\ p = Len(r) /\ q = Len(s)
    OBVIOUS
  <2>1. /\ a \in Nat /\ m \in Nat /\ q \in Nat
        /\ c = a + m /\ b = a + q /\ p = q - m
    BY <1>3, <1>4, <1>5, <1>7, <2>0
  <2>2. b = c + p
    BY <2>1
  <2> QED  BY <1>4, <2>0, <2>2
<1>9. ASSUME NEW k \in (h + 1) + 1 .. n, NEW j \in 1 .. Len(fs[k])
      PROVE  r[at[k] - at[(h + 1) + 1] + j] = fs[k][j]
  <2>1. /\ k \in 1 .. n /\ k \in 1 .. n + 1 /\ k + 1 \in 1 .. n + 1
        /\ h + 2 <= k /\ k + 1 <= n + 1 /\ k \in h + 1 .. n
    BY <1>2
  <2>2. /\ at[h + 2] <= at[k] /\ at[k + 1] <= at[n + 1] /\ at[k] \in Nat
        /\ at[k + 1] = at[k] + Len(fs[k])
    <3>1. at[h + 2] <= at[k]
      BY <1>23, <1>4, <2>1
    <3>2. at[k + 1] <= at[n + 1]
      BY <1>23, <1>4, <2>1
    <3>3. at[k] \in Nat
      BY <1>21, <2>1
    <3>4. at[k + 1] = at[k] + Len(fs[k])
      BY <1>22, <2>1
    <3> QED  BY <3>1, <3>2, <3>3, <3>4
  <2>3. Len(fs[k]) \in Nat
    <3>1. fs[k] \in Seq(Nat)
      BY <1>20, <2>1
    <3> QED  BY <3>1
  <2>30. PICK i : i = at[k] - at[h + 2] + j
    OBVIOUS
  <2>4. i \in 1 .. Len(s) - m /\ m + i = at[k] - at[h + 1] + j
    <3>0. PICK a, b, c, e, l, q :
           /\ a = at[h + 1] /\ b = at[n + 1] /\ c = at[h + 2] /\ e = at[k]
           /\ l = Len(fs[k]) /\ q = Len(s)
      OBVIOUS
    <3>1. /\ a \in Nat /\ b \in Nat /\ e \in Nat /\ l \in Nat /\ q \in Nat
          /\ c = a + m /\ c <= e /\ e + l <= b /\ b = a + q /\ j \in 1 .. l
          /\ m \in Nat
      BY <1>3, <1>4, <1>5, <2>2, <2>3, <3>0
    <3>2. e - c + j \in 1 .. q - m /\ m + (e - c + j) = e - a + j
      BY <3>1, InsideRest
    <3> QED  BY <2>30, <3>0, <3>2
  <2>5. r[i] = s[m + i] /\ s[m + i] = fs[k][j]
    BY <1>31, <1>7, <2>1, <2>4
  <2> QED  BY <1>4, <2>30, <2>5
<1>10. Lies(r, at, fs, h + 1)
  BY <1>0, <1>8, <1>9 DEF Lies
<1> QED  BY <1>1, <1>10 DEF Holds, m, r

=============================================================================
