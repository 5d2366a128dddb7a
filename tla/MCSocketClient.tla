--------------------------- MODULE MCSocketClient ---------------------------
(***************************************************************************)
(* The TLC instance of SocketClient: two connections that follow each      *)
(* other, with one message and with two, as long as the buffer allows.     *)
(***************************************************************************)
EXTENDS SocketClient

=============================================================================
