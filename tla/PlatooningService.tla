-------------------------- MODULE PlatooningService --------------------------
(***************************************************************************)
(* The transmit side of class platooning_service (platooning_service.cpp): *)
(* the vehicle position the worker stores, the two counters every FV       *)
(* message takes a number from, and tx_base_message, which BUILDS the      *)
(* message (and so takes its numbers) before it looks at the socket.       *)
(*                                                                         *)
(* A message is the part of DB_V2X_STATUS_TX_T the properties tell apart:  *)
(* unSeqNum, unContCnt and the position; the constant fields of the FV     *)
(* payload, the SSOV header and the CRC are left out.                      *)
(***************************************************************************)
EXTENDS Integers

CONSTANTS Positions,  \* values set_position can be given
          SeqMod,     \* info.seq and info.cnt are uint32_t: 2^32 in the code
          CntMod,     \* unContCnt is info.cnt % 101: 101 in the code
          NoMsg       \* no message has been put on the air yet

Message == [seq : 0 .. SeqMod - 1, cont : 0 .. CntMod - 1, pos : Positions]

ASSUME ServiceAssumption ==
  /\ Positions # {}
  /\ SeqMod \in Nat \ {0}
  /\ CntMod \in Nat \ {0}
  /\ NoMsg \notin Message

VARIABLES roll_type,  \* "LV" or "FV", fixed by the constructor
          position,   \* info.fix and info.link_id
          seq,        \* info.seq
          cnt,        \* info.cnt
          wire,       \* history: the last message the device accepted
          skipped,    \* history: messages built since then that it did not get
          result      \* the value tx_base_message returned last

svars == <<roll_type, position, seq, cnt, wire, skipped, result>>

(* What request_tx_extensible_msg may return. Its sibling's caller,        *)
(* obu_handler::init, takes a negative number for a failure; zero is an    *)
(* empty send.                                                             *)
TxCodes == {-1, 0, 1}

Init ==
  /\ roll_type \in {"LV", "FV"}
  /\ position \in Positions
  /\ seq = 0
  /\ cnt = 0
  /\ wire = NoMsg
  /\ skipped = 0
  /\ result = FALSE

(* set_position: under info.lock, so one step.                             *)
SetPosition(p) ==
  /\ position' = p
  /\ UNCHANGED <<roll_type, seq, cnt, wire, skipped, result>>

(* A uint32_t counter after one post-increment.                            *)
Increment(n) == IF n + 1 = SeqMod THEN 0 ELSE n + 1

(* Mutant of BuildFvMsg: the modulus is forgotten.                         *)
BuildFvMsgNoModulus == [seq |-> seq, cont |-> cnt, pos |-> position]

(* build_fv_msg: the message and the two post-increments it performs.      *)
BuildFvMsg == [seq |-> seq, cont |-> cnt % CntMod, pos |-> position]

TakeNumbers ==
  /\ seq' = Increment(seq)
  /\ cnt' = Increment(cnt)

(* tx_base_message of an LV: build_lv_msg is a TODO and returns an empty   *)
(* message, so every call ends in one of the error returns.                *)
TxLv ==
  /\ roll_type = "LV"
  /\ result' = FALSE
  /\ UNCHANGED <<roll_type, position, seq, cnt, wire, skipped>>

(* Mutant of TxUnavailable: the socket is tested before the message is     *)
(* built.                                                                  *)
TxUnavailableTestsFirst ==
  /\ roll_type = "FV"
  /\ skipped' = Increment(skipped)
  /\ result' = FALSE
  /\ UNCHANGED <<roll_type, position, seq, cnt, wire>>

(* Mutant of TxUnavailable: the two counters part company.                 *)
TxUnavailableKeepsCnt ==
  /\ roll_type = "FV"
  /\ seq' = Increment(seq)
  /\ skipped' = Increment(skipped)
  /\ result' = FALSE
  /\ UNCHANGED <<roll_type, position, cnt, wire>>

(* tx_base_message of an FV on a socket that is not available: the numbers *)
(* are already taken when the check fails.                                 *)
TxUnavailable ==
  /\ roll_type = "FV"
  /\ TakeNumbers
  /\ skipped' = Increment(skipped)
  /\ result' = FALSE
  /\ UNCHANGED <<roll_type, position, wire>>

(* tx_base_message of an FV that reaches request_tx_extensible_msg; its    *)
(* int result is stored in a bool, so any number but zero becomes true.    *)
TxRequest(code) ==
  /\ roll_type = "FV"
  /\ TakeNumbers
  /\ wire' = IF code > 0 THEN BuildFvMsg ELSE wire
  /\ skipped' = IF code > 0 THEN 0 ELSE Increment(skipped)
  /\ result' = (code # 0)
  /\ UNCHANGED <<roll_type, position>>

(* tx_base_message, given what sock->available() and the library answer.   *)
TxBaseMessage(available, code) ==
  \/ TxLv
  \/ ~available /\ TxUnavailable
  \/ available /\ TxRequest(code)

Next ==
  \/ \E p \in Positions : SetPosition(p)
  \/ \E available \in BOOLEAN, code \in TxCodes : TxBaseMessage(available, code)

Spec == Init /\ [][Next]_svars

-----------------------------------------------------------------------------
(* Type invariant: what build_fv_msg puts into a message and the counters  *)
(* it leaves behind (platooning_service.h:54-68) stay in their ranges.     *)
TypeOK ==
  /\ roll_type \in {"LV", "FV"}
  /\ position \in Positions
  /\ seq \in 0 .. SeqMod - 1
  /\ cnt \in 0 .. SeqMod - 1
  /\ wire \in Message \cup {NoMsg}
  /\ skipped \in 0 .. SeqMod - 1
  /\ result \in BOOLEAN

(* The message number a receiver expects after n, k messages later.        *)
Later(n, k) == IF n + k < SeqMod THEN n + k ELSE n + k - SeqMod

(* Between two messages on the air unSeqNum advances by one plus exactly   *)
(* the number of messages that were built and not sent, over the wrap of   *)
(* the 32-bit counter too: a receiver reads lost messages off the gap.     *)
(* (Numbers are taken in build_fv_msg, before tx_base_message's checks.)   *)
SeqGapCountsFailures ==
  [][ wire # NoMsg /\ wire' # wire
      => wire'.seq = Later(Later(wire.seq, skipped), 1) ]_svars

(* unContCnt does the same modulo 101, EXCEPT across the wrap of the       *)
(* 32-bit counter: 2^32 is not a multiple of 101, so there it jumps.       *)
ContGapCountsFailures ==
  [][ wire # NoMsg /\ wire' # wire /\ wire'.seq > wire.seq
      => wire'.cont = (wire.cont + 1 + skipped) % CntMod ]_svars

(* "@return 전송 유무" (platooning_service.cpp:72): tx_base_message returns  *)
(* true exactly when the message was sent.                                 *)
TxResultTruth ==
  [][ seq' # seq => (result' <=> wire' # wire) ]_svars

=============================================================================
