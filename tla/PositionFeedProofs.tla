-------------------------- MODULE PositionFeedProofs --------------------------
(***************************************************************************)
(* Proofs about the way of GPS samples and link ids into messages, for any *)
(* number of each.                                                         *)
(***************************************************************************)
EXTENDS PositionFeed, TLAPS

(* What a part of data holds: the message its handler was given, or the    *)
(* one before while the handler has not come to it.                        *)
Due(m) == dpc = m \/ AssignedAfter(dpc) = m

Held(m) == sample[SourceOf(m)] - IF Due(m) THEN 1 ELSE 0

(* Where each part of data stands while the two handlers run, what the     *)
(* copy has, and what the last message had. Parts grow along the way:      *)
(* known <= copied parts <= data.                                          *)
FeedInv ==
  /\ dpc \in Members => sample[SourceOf(dpc)] > 0
  /\ \A m \in Members : data[m] = Held(m)
  /\ \A s \in Sources : known[s] <= Complete(s)
  /\ \A m \in Members : sent[m] <= copy[m] /\ copy[m] <= data[m]
  /\ ppc # "wait" => \A m \in copied : copy[m] >= known[SourceOf(m)]
  /\ ppc = "build" => copied = Members
  /\ SentIsFresh

(* The tables of parts, written out.                                       *)
LEMMA Parts ==
  /\ Members = {"latitude", "longitude", "head", "tail"}
  /\ \A m \in Members : SourceOf(m) \in Sources
  /\ SourceOf("latitude") = "gps" /\ SourceOf("longitude") = "gps"
  /\ SourceOf("head") = "link" /\ SourceOf("tail") = "link"
  /\ FirstOf("gps") = "latitude" /\ FirstOf("link") = "head"
BY DEF Members, FixMembers, LinkParts, SourceOf, Sources, FirstOf

LEMMA Order ==
  /\ AssignedAfter("latitude") = "longitude"
  /\ AssignedAfter("head") = "tail"
  /\ AssignedAfter("longitude") = "idle"
  /\ AssignedAfter("tail") = "idle"
  /\ AssignedAfter("idle") = "idle"
BY Zenon DEF AssignedAfter

(* A source has a part that is not up to date while its handler runs only. *)
LEMMA HeldIsComplete ==
  ASSUME TypeOK, NEW m \in Members
  PROVE  Held(m) >= Complete(SourceOf(m))
<1>1. sample[SourceOf(m)] \in Int
  BY Parts, FeedAssumption DEF TypeOK
<1>2. Due(m) => dpc \in Members /\ SourceOf(dpc) = SourceOf(m)
  BY Parts, Order DEF Due, TypeOK
<1> QED  BY <1>1, <1>2 DEF Held, Complete

LEMMA CompleteType ==
  ASSUME TypeOK, FeedInv, NEW s \in Sources
  PROVE  Complete(s) \in 0 .. MaxSample
<1>1. sample[s] \in 0 .. MaxSample
  BY DEF TypeOK
<1>2. dpc \in Members /\ SourceOf(dpc) = s => sample[s] > 0
  BY DEF FeedInv
<1> QED  BY <1>1, <1>2, FeedAssumption DEF Complete

LEMMA TypeStep ==
  ASSUME TypeOK, FeedInv, [Next]_vars
  PROVE  TypeOK'
<1> USE FeedAssumption DEF TypeOK
<1>1. ASSUME NEW s \in Sources, D2xReceive(s)
      PROVE  TypeOK'
  <2>1. sample' \in [Sources -> 0 .. MaxSample]
    BY <1>1 DEF D2xReceive
  <2>2. dpc' \in Members
    BY <1>1, Parts DEF D2xReceive, Sources
  <2> QED  BY <1>1, <2>1, <2>2 DEF D2xReceive, worker
<1>2. CASE D2xAssign
  <2>1. data' \in [Members -> 0 .. MaxSample]
    BY <1>2, Parts DEF D2xAssign
  <2>2. dpc' \in Members \cup {"idle"}
    BY <1>2, Parts, Order DEF D2xAssign
  <2> QED  BY <1>2, <2>1, <2>2 DEF D2xAssign, worker
<1>3. CASE CopyBegin
  <2>1. known' \in [Sources -> 0 .. MaxSample]
    BY <1>3, CompleteType DEF CopyBegin
  <2> QED  BY <1>3, <2>1 DEF CopyBegin, d2x
<1>4. ASSUME NEW m \in Members, CopyMember(m)
      PROVE  TypeOK'
  BY <1>4 DEF CopyMember, d2x
<1>5. CASE Build
  BY <1>5 DEF Build, d2x
<1>6. CASE UNCHANGED vars
  BY <1>6 DEF vars, d2x, worker
<1> QED  BY <1>1, <1>2, <1>3, <1>4, <1>5, <1>6 DEF Next, D2x, Worker

-----------------------------------------------------------------------------
(* A step of the d2x thread never takes a part of data back, nor a message *)
(* that was complete, and so leaves what the worker relies on.             *)
LEMMA D2xStep ==
  ASSUME TypeOK, FeedInv, UNCHANGED worker,
         dpc' \in Members => sample'[SourceOf(dpc')] > 0,
         \A m \in Members : data'[m] = Held(m)' /\ data'[m] >= data[m],
         \A s \in Sources : Complete(s)' >= Complete(s),
         TypeOK'
  PROVE  FeedInv'
<1>1. UNCHANGED <<copy, copied, ppc, sent, known>>
  BY DEF worker
<1>2. ASSUME NEW m \in Members
      PROVE  sent'[m] <= copy'[m] /\ copy'[m] <= data'[m]
  <2>1. /\ sent[m] <= copy[m] /\ copy[m] <= data[m] /\ data'[m] >= data[m]
        /\ copy[m] \in Int /\ data[m] \in Int /\ data'[m] \in Int
    BY FeedAssumption DEF FeedInv, TypeOK
  <2> QED  BY <1>1, <2>1
<1>3. ASSUME NEW s \in Sources
      PROVE  known'[s] <= Complete(s)'
  <2>1. /\ known[s] <= Complete(s) /\ Complete(s)' >= Complete(s)
        /\ known[s] \in Int /\ sample[s] \in Int /\ sample'[s] \in Int
    BY FeedAssumption DEF FeedInv, TypeOK
  <2>2. Complete(s) \in Int /\ Complete(s)' \in Int
    BY <2>1 DEF Complete
  <2> QED  BY <1>1, <2>1, <2>2
<1>4. SentIsFresh'
  BY <1>1 DEF FeedInv, SentIsFresh
<1>5. (ppc # "wait" => \A m \in copied : copy[m] >= known[SourceOf(m)])'
      /\ (ppc = "build" => copied = Members)'
  BY <1>1 DEF FeedInv
<1> QED  BY <1>2, <1>3, <1>4, <1>5 DEF FeedInv

LEMMA ReceiveStep ==
  ASSUME TypeOK, FeedInv, NEW s \in Sources, D2xReceive(s)
  PROVE  FeedInv'
<1>1. TypeOK'
  BY TypeStep DEF Next, D2x
<1>2. /\ sample[s] \in Nat /\ sample'[s] = sample[s] + 1
      /\ \A u \in Sources \ {s} : sample'[u] = sample[u]
      /\ \A u \in Sources : sample[u] \in Nat
      /\ data' = data /\ dpc = "idle" /\ dpc' = FirstOf(s)
      /\ UNCHANGED worker
  BY FeedAssumption DEF D2xReceive, TypeOK
<1>3. \A m \in Members : data[m] = sample[SourceOf(m)]
  BY <1>2, Parts, Order, FeedAssumption DEF FeedInv, Held, Due, TypeOK
<1>4. \A m \in Members : Due(m)' <=> SourceOf(m) = s
  BY <1>2, Parts, Order DEF Due, Sources
<1>5. \A m \in Members : data'[m] = Held(m)'
  BY <1>2, <1>3, <1>4, Parts DEF Held
<1>6. \A m \in Members : data'[m] >= data[m]
  BY <1>2, <1>3, Parts
<1>7. dpc' \in Members /\ SourceOf(dpc') = s /\ dpc \notin Members
  BY <1>2, Parts DEF Sources
<1>8. \A u \in Sources : Complete(u)' >= Complete(u)
  BY <1>2, <1>7 DEF Complete
<1> QED  BY <1>1, <1>2, <1>5, <1>6, <1>7, <1>8, D2xStep

LEMMA AssignStep ==
  ASSUME TypeOK, FeedInv, D2xAssign
  PROVE  FeedInv'
<1>1. TypeOK'
  BY TypeStep DEF Next, D2x
<1>2. /\ dpc \in Members /\ dpc' = AssignedAfter(dpc) /\ sample' = sample
      /\ \A u \in Sources : sample[u] \in Nat
      /\ data'[dpc] = sample[SourceOf(dpc)]
      /\ \A m \in Members \ {dpc} : data'[m] = data[m]
      /\ UNCHANGED worker
  BY FeedAssumption DEF D2xAssign, TypeOK
<1>3. \A m \in Members : Due(m)' <=> Due(m) /\ m # dpc
  BY <1>2, Parts, Order DEF Due
<1>4. \A m \in Members : data'[m] = Held(m)'
  BY <1>2, <1>3, Parts DEF FeedInv, Held
<1>5. \A m \in Members : data'[m] >= data[m]
  BY <1>2, Parts DEF FeedInv, Held
<1>6. /\ dpc' \in Members => SourceOf(dpc') = SourceOf(dpc)
      /\ sample[SourceOf(dpc)] > 0
  BY <1>2, Parts, Order DEF FeedInv
<1>7. \A u \in Sources : Complete(u)' >= Complete(u)
  BY <1>2, <1>6 DEF Complete
<1> QED  BY <1>1, <1>2, <1>4, <1>5, <1>6, <1>7, D2xStep

-----------------------------------------------------------------------------
LEMMA CopyStep ==
  ASSUME TypeOK, FeedInv, NEW m \in Members, CopyMember(m)
  PROVE  FeedInv'
<1>1. /\ UNCHANGED <<data, sample, dpc, sent, known>>
      /\ ppc = "copy" /\ copied' = copied \cup {m}
      /\ copy'[m] = data[m] /\ \A n \in Members \ {m} : copy'[n] = copy[n]
      /\ ppc' \in {"copy", "build"} /\ (ppc' = "build" => copied' = Members)
  BY DEF CopyMember, d2x, TypeOK
<1>2. data[m] >= known[SourceOf(m)]
  <2>1. /\ data[m] >= Complete(SourceOf(m))
        /\ known[SourceOf(m)] <= Complete(SourceOf(m))
    BY HeldIsComplete, Parts DEF FeedInv
  <2>2. /\ data[m] \in Int /\ known[SourceOf(m)] \in Int
        /\ Complete(SourceOf(m)) \in Int
    BY CompleteType, Parts, FeedAssumption DEF TypeOK
  <2> QED  BY <2>1, <2>2
<1>3. \A n \in copied' : copy'[n] >= known[SourceOf(n)]
  BY <1>1, <1>2 DEF FeedInv, TypeOK
<1>4. ASSUME NEW n \in Members
      PROVE  sent[n] <= copy'[n] /\ copy'[n] <= data[n]
  <2>1. /\ sent[n] <= copy[n] /\ copy[n] <= data[n]
        /\ sent[n] \in Int /\ copy[n] \in Int /\ data[n] \in Int
    BY FeedAssumption DEF FeedInv, TypeOK
  <2> QED  BY <1>1, <2>1
<1>5. \A n \in Members : data'[n] = Held(n)'
  BY <1>1 DEF FeedInv, Held, Due
<1>6. \A s \in Sources : known'[s] <= Complete(s)'
  BY <1>1 DEF FeedInv, Complete
<1> QED  BY <1>1, <1>3, <1>4, <1>5, <1>6 DEF FeedInv, SentIsFresh

LEMMA FeedStep ==
  ASSUME TypeOK, FeedInv, [Next]_vars
  PROVE  FeedInv'
<1>1. CASE CopyBegin
  <2>1. /\ UNCHANGED <<data, sample, dpc, copy, sent>>
        /\ ppc' = "copy" /\ copied' = {}
        /\ \A s \in Sources : known'[s] = Complete(s)
    BY <1>1 DEF CopyBegin, d2x
  <2>2. \A s \in Sources : Complete(s)' = Complete(s) /\ Complete(s) \in Int
    BY <2>1, CompleteType, FeedAssumption DEF Complete
  <2>3. \A n \in Members : data'[n] = Held(n)'
    BY <2>1 DEF FeedInv, Held, Due
  <2>4. \A s \in Sources : known'[s] <= Complete(s)'
    BY <2>1, <2>2
  <2> QED  BY <2>1, <2>3, <2>4 DEF FeedInv, SentIsFresh
<1>2. CASE Build
  <2>1. /\ UNCHANGED <<data, sample, dpc, copy, copied, known>>
        /\ ppc = "build" /\ ppc' = "wait" /\ sent' = copy
    BY <1>2 DEF Build, d2x
  <2>2. \A n \in Members : data'[n] = Held(n)'
    BY <2>1 DEF FeedInv, Held, Due
  <2>3. \A s \in Sources : known'[s] <= Complete(s)'
    BY <2>1 DEF FeedInv, Complete
  <2>4. \A n \in Members : /\ copy[n] >= known[SourceOf(n)]
                           /\ copy[n] <= copy[n] /\ copy[n] <= data[n]
    BY <2>1, FeedAssumption DEF FeedInv, TypeOK
  <2> QED  BY <2>1, <2>2, <2>3, <2>4 DEF FeedInv, SentIsFresh
<1>3. CASE UNCHANGED vars
  BY <1>3 DEF vars, d2x, worker, FeedInv, SentIsFresh, Held, Due, Complete
<1> QED  BY <1>1, <1>2, <1>3, ReceiveStep, AssignStep, CopyStep
         DEF Next, D2x, Worker

LEMMA FeedCorrect == Spec => [](TypeOK /\ FeedInv)
<1>1. Init => TypeOK /\ FeedInv
  <2> SUFFICES ASSUME Init PROVE TypeOK /\ FeedInv
    OBVIOUS
  <2>1. TypeOK
    BY FeedAssumption DEF Init, Zero, Never, TypeOK
  <2>2. \A m \in Members : ~Due(m)
    BY Parts, Order DEF Init, Due
  <2>3. dpc \notin Members /\ \A s \in Sources : Complete(s) = 0
    BY Parts DEF Init, Never, Complete
  <2>4. \A m \in Members : /\ data[m] = 0 /\ copy[m] = 0 /\ sent[m] = 0
                           /\ sample[SourceOf(m)] = 0
    BY Parts DEF Init, Zero, Never
  <2>5. \A s \in Sources : known[s] = 0
    BY DEF Init, Never
  <2> QED  BY <2>1, <2>2, <2>3, <2>4, <2>5, Parts
           DEF Init, FeedInv, SentIsFresh, Held
<1>2. TypeOK /\ FeedInv /\ [Next]_vars => (TypeOK /\ FeedInv)'
  BY TypeStep, FeedStep
<1> QED  BY <1>1, <1>2, PTL DEF Spec

(* Every reachable state of the feed is well-typed, races included: no     *)
(* message ever holds a part that was not sent by the unit.                *)
THEOREM TypeCorrect == Spec => []TypeOK
BY FeedCorrect, PTL

(* A message never carries a part older than what was complete when its    *)
(* position was taken, however the two threads race.                       *)
THEOREM SentIsFreshCorrect == Spec => []SentIsFresh
<1>1. FeedInv => SentIsFresh
  BY DEF FeedInv
<1> QED  BY <1>1, FeedCorrect, PTL

(* From message to message no part goes back to an older one.              *)
THEOREM NeverGoesBackCorrect == Spec => SentNeverGoesBack
<1>1. TypeOK /\ FeedInv /\ [Next]_vars
      => [\A m \in Members : sent'[m] >= sent[m]]_vars
  <2> SUFFICES ASSUME TypeOK, FeedInv, Next
               PROVE  \A m \in Members : sent'[m] >= sent[m]
    BY Zenon
  <2>1. sent' = sent \/ sent' = copy
    BY DEF Next, D2x, Worker, D2xReceive, D2xAssign, CopyBegin, CopyMember,
           Build, worker
  <2> QED  BY <2>1, FeedAssumption DEF TypeOK, FeedInv
<1> QED  BY <1>1, FeedCorrect, PTL DEF Spec, SentNeverGoesBack

=============================================================================
