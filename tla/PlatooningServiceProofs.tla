----------------------- MODULE PlatooningServiceProofs -----------------------
(***************************************************************************)
(* Proofs about platooning_service for every width of the counters and     *)
(* every continuity modulus.                                               *)
(***************************************************************************)
EXTENDS PlatooningService, CommonLemmas

(* A counter that is incremented stays a counter.                          *)
LEMMA IncrementType ==
  ASSUME NEW n \in 0 .. SeqMod - 1
  PROVE  Increment(n) \in 0 .. SeqMod - 1
BY ServiceAssumption DEF Increment

(* build_fv_msg makes a message whatever the counters hold.                *)
LEMMA BuildType ==
  ASSUME TypeOK
  PROVE  BuildFvMsg \in Message
<1>1. cnt % CntMod \in 0 .. CntMod - 1
  BY ServiceAssumption DEF TypeOK
<1> QED  BY <1>1 DEF TypeOK, BuildFvMsg, Message

(* The type invariant is inductive.                                        *)
LEMMA TypeStep ==
  ASSUME TypeOK, [Next]_svars
  PROVE  TypeOK'
<1>1. ASSUME NEW p \in Positions, SetPosition(p)
      PROVE  TypeOK'
  BY <1>1 DEF TypeOK, SetPosition
<1>2. CASE TxLv
  BY <1>2 DEF TypeOK, TxLv
<1>3. CASE TxUnavailable
  BY <1>3, IncrementType DEF TypeOK, TxUnavailable, TakeNumbers
<1>4. ASSUME NEW code \in TxCodes, TxRequest(code)
      PROVE  TypeOK'
  <2>1. wire' \in Message \cup {NoMsg}
    BY <1>4, BuildType DEF TypeOK, TxRequest
  <2>2. skipped' \in 0 .. SeqMod - 1
    BY <1>4, IncrementType, ServiceAssumption DEF TypeOK, TxRequest
  <2> QED  BY <1>4, <2>1, <2>2, IncrementType DEF TypeOK, TxRequest, TakeNumbers
<1>5. CASE UNCHANGED svars
  BY <1>5 DEF TypeOK, svars
<1> QED  BY <1>1, <1>2, <1>3, <1>4, <1>5 DEF Next, TxBaseMessage

(* Every reachable state of platooning_service is well-typed.              *)
THEOREM TypeCorrect == Spec => []TypeOK
<1>1. Init => TypeOK
  <2>1. 0 \in 0 .. SeqMod - 1
    BY ServiceAssumption
  <2> QED  BY <2>1 DEF Init, TypeOK
<1>2. TypeOK /\ [Next]_svars => TypeOK'
  BY TypeStep
<1> QED  BY <1>1, <1>2, PTL DEF Spec

-----------------------------------------------------------------------------
(* What the counters say of the last message on the air: seq is its number *)
(* plus one plus the number of messages that got lost since.               *)
Numbered == wire # NoMsg => seq = Later(Later(wire.seq, skipped), 1)

(* Taking one more number and losing the message keeps the account, ...    *)
LEMMA LaterSkip ==
  ASSUME NEW n \in 0 .. SeqMod - 1, NEW k \in 0 .. SeqMod - 1
  PROVE  Increment(Later(Later(n, k), 1)) = Later(Later(n, Increment(k)), 1)
BY ServiceAssumption, Z3 DEF Increment, Later

(* ... and sending it starts a new one.                                    *)
LEMMA LaterSend ==
  ASSUME NEW n \in 0 .. SeqMod - 1
  PROVE  Increment(n) = Later(Later(n, 0), 1)
BY ServiceAssumption DEF Increment, Later

LEMMA NumberedStep ==
  ASSUME TypeOK, Numbered, [Next]_svars
  PROVE  Numbered'
<1> USE DEF Numbered
<1>1. ASSUME NEW p \in Positions, SetPosition(p)
      PROVE  Numbered'
  BY <1>1 DEF SetPosition, Later
<1>2. CASE TxLv
  BY <1>2 DEF TxLv, Later
<1>3. ASSUME wire' = wire, seq' = Increment(seq), skipped' = Increment(skipped)
      PROVE  Numbered'
  <2> SUFFICES ASSUME wire # NoMsg
               PROVE  seq' = Later(Later(wire.seq, skipped'), 1)
    BY <1>3 DEF Later
  <2>1. wire.seq \in 0 .. SeqMod - 1
    BY DEF TypeOK, Message
  <2> QED  BY <1>3, <2>1, LaterSkip DEF TypeOK
<1>4. CASE TxUnavailable
  BY <1>3, <1>4 DEF TxUnavailable, TakeNumbers
<1>5. ASSUME NEW code \in TxCodes, TxRequest(code)
      PROVE  Numbered'
  <2>1. CASE code > 0
    <3>1. wire'.seq = seq /\ skipped' = 0 /\ seq' = Increment(seq)
      BY <1>5, <2>1 DEF TxRequest, TakeNumbers, BuildFvMsg
    <3> QED  BY <3>1, LaterSend DEF TypeOK, Later
  <2>2. CASE ~(code > 0)
    BY <1>3, <1>5, <2>2 DEF TxRequest, TakeNumbers
  <2> QED  BY <2>1, <2>2
<1>6. CASE UNCHANGED svars
  BY <1>6 DEF svars, Later
<1> QED  BY <1>1, <1>2, <1>4, <1>5, <1>6 DEF Next, TxBaseMessage

(* The gap in unSeqNum between two messages on the air is the number of    *)
(* messages tx_base_message built and did not send between them, whatever  *)
(* the width of the counter.                                               *)
THEOREM SeqGapCorrect == Spec => SeqGapCountsFailures
<1>1. Init => Numbered
  BY DEF Init, Numbered
<1>2. TypeOK /\ Numbered /\ [Next]_svars => Numbered'
  BY NumberedStep
<1>3. TypeOK /\ Numbered /\ [Next]_svars
      => [wire # NoMsg /\ wire' # wire
          => wire'.seq = Later(Later(wire.seq, skipped), 1)]_svars
  <2> SUFFICES ASSUME TypeOK, Numbered, Next, wire # NoMsg, wire' # wire
               PROVE  wire'.seq = Later(Later(wire.seq, skipped), 1)
    BY Zenon
  <2>1. PICK code \in TxCodes : TxRequest(code)
    BY DEF Next, SetPosition, TxBaseMessage, TxLv, TxUnavailable
  <2>2. wire'.seq = seq
    BY <2>1 DEF TxRequest, BuildFvMsg
  <2> QED  BY <2>2 DEF Numbered
<1> QED  BY <1>1, <1>2, <1>3, TypeCorrect, PTL DEF Spec, SeqGapCountsFailures

-----------------------------------------------------------------------------
(* The two counters go together, so that unContCnt is unSeqNum modulo 101. *)
Paired ==
  /\ cnt = seq
  /\ wire # NoMsg => wire.cont = wire.seq % CntMod

LEMMA PairedStep ==
  ASSUME TypeOK, Paired, [Next]_svars
  PROVE  Paired'
<1>1. ASSUME wire' = wire, cnt' = Increment(cnt), seq' = Increment(seq)
      PROVE  Paired'
  BY <1>1 DEF Paired
<1>2. ASSUME wire' = wire, cnt' = cnt, seq' = seq
      PROVE  Paired'
  BY <1>2 DEF Paired
<1>3. ASSUME NEW code \in TxCodes, TxRequest(code)
      PROVE  Paired'
  <2>1. CASE code > 0
    <3>1. wire'.seq = seq /\ wire'.cont = cnt % CntMod /\ cnt' = seq'
      BY <1>3, <2>1 DEF TxRequest, TakeNumbers, BuildFvMsg, Paired
    <3> QED  BY <3>1 DEF Paired
  <2>2. CASE ~(code > 0)
    BY <1>1, <1>3, <2>2 DEF TxRequest, TakeNumbers
  <2> QED  BY <2>1, <2>2
<1> QED  BY <1>1, <1>2, <1>3
         DEF Next, SetPosition, TxBaseMessage, TxLv, TxUnavailable, TakeNumbers, svars

(* Short of the wrap of the 32-bit counter, the number k messages later    *)
(* than the one after n is k more.                                         *)
LEMMA LaterNoWrap ==
  ASSUME NEW n \in 0 .. SeqMod - 1, NEW k \in 0 .. SeqMod - 1,
         Later(Later(n, k), 1) > n
  PROVE  Later(Later(n, k), 1) = n + (1 + k)
BY ServiceAssumption DEF Later

(* The gap in unContCnt is the same number modulo 101, short of the wrap   *)
(* of the 32-bit counter, whatever its width and whatever the modulus.     *)
THEOREM ContGapCorrect == Spec => ContGapCountsFailures
<1>1. Init => Numbered /\ Paired
  BY DEF Init, Numbered, Paired
<1>2. TypeOK /\ Numbered /\ Paired /\ [Next]_svars => Numbered' /\ Paired'
  BY NumberedStep, PairedStep
<1>3. TypeOK /\ Numbered /\ Paired /\ [Next]_svars
      => [wire # NoMsg /\ wire' # wire /\ wire'.seq > wire.seq
          => wire'.cont = (wire.cont + 1 + skipped) % CntMod]_svars
  <2> SUFFICES ASSUME TypeOK, Numbered, Paired, Next,
                      wire # NoMsg, wire' # wire, wire'.seq > wire.seq
               PROVE  wire'.cont = (wire.cont + 1 + skipped) % CntMod
    BY Zenon
  <2>1. PICK code \in TxCodes : TxRequest(code)
    BY DEF Next, SetPosition, TxBaseMessage, TxLv, TxUnavailable
  <2>2. wire'.seq = seq /\ wire'.cont = seq % CntMod
    BY <2>1 DEF TxRequest, BuildFvMsg, Paired
  <2>3. /\ wire.seq \in 0 .. SeqMod - 1 /\ wire.cont \in 0 .. CntMod - 1
        /\ skipped \in 0 .. SeqMod - 1 /\ CntMod \in Nat \ {0} /\ SeqMod \in Nat
    BY ServiceAssumption DEF TypeOK, Message
  <2>4. seq = wire.seq + (1 + skipped)
    <3>1. seq = Later(Later(wire.seq, skipped), 1)
      BY DEF Numbered
    <3> QED  BY <2>2, <2>3, <3>1, LaterNoWrap
  <2>5. seq % CntMod = ((wire.seq % CntMod) + (1 + skipped)) % CntMod
    <3>1. wire.seq \in Int /\ 1 + skipped \in Int
      BY <2>3
    <3> QED  BY <2>3, <2>4, <3>1, RemainderOfSum
  <2>6. wire.seq % CntMod = wire.cont
    BY DEF Paired
  <2>7. wire.cont + (1 + skipped) = wire.cont + 1 + skipped
    BY <2>3
  <2> QED  BY <2>2, <2>5, <2>6, <2>7
<1> QED  BY <1>1, <1>2, <1>3, TypeCorrect, PTL DEF Spec, ContGapCountsFailures

=============================================================================
