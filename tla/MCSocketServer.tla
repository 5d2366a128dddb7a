--------------------------- MODULE MCSocketServer ---------------------------
(***************************************************************************)
(* The TLC instance of SocketServer: one client whose messages fit the     *)
(* buffer to the last unit, and one with a message longer than it.         *)
(***************************************************************************)
EXTENDS SocketServer, TLC

CONSTANTS script, long

ClientPieces == [c \in Clients |-> IF c = long THEN 2 ELSE 1]
ClientSends == [c \in Clients |-> IF c = long THEN 1 ELSE 2]

=============================================================================
