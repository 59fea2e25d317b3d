---------------------------- MODULE DeviceSession ----------------------------
(***************************************************************************)
(* What obu_handler promises about the OBU device, whatever its threads do *)
(* (the comment on state_level, obu_handler.h:46: -1 not set, 0 ready,     *)
(* 1 active): a connection becomes active only after the device has agreed *)
(* to the WSM service on THAT connection, and a lost connection takes the  *)
(* agreement with it.                                                      *)
(***************************************************************************)
VARIABLES phase,   \* "offline", "ready" or "active"
          served   \* the device serves our PSID on the present connection

Init ==
  /\ phase = "offline"
  /\ served = FALSE

Open ==
  /\ phase = "offline"
  /\ phase' = "ready"
  /\ UNCHANGED served

Serve ==
  /\ served' = TRUE
  /\ UNCHANGED phase

Activate ==
  /\ phase = "ready"
  /\ served
  /\ phase' = "active"
  /\ UNCHANGED served

Lose ==
  /\ phase' = "offline"
  /\ served' = FALSE

Next == Open \/ Serve \/ Activate \/ Lose

Spec == Init /\ [][Next]_<<phase, served>>

=============================================================================
