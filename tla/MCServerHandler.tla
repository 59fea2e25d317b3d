--------------------------- MODULE MCServerHandler ---------------------------
(***************************************************************************)
(* server_handler for TLC: one device, both kinds of message, two          *)
(* timestamps and a clock that runs past the staleness limit; the queue    *)
(* holds one flush and a half.                                             *)
(***************************************************************************)
EXTENDS ServerHandler

CONSTANT r1

OneDevice  == {1}
OneReceiver == {r1}
BothKinds == {"LV", "FV"}
=============================================================================
