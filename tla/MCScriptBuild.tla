--------------------------- MODULE MCScriptBuild ---------------------------
(***************************************************************************)
(* Starts of two scripts: of one by texec and by the socket for both       *)
(* ports, and of either for the test of port 1, by the files or by the     *)
(* socket.                                                                 *)
(***************************************************************************)
EXTENDS ScriptBuild, TLC

CONSTANTS s, t

Request(way, port, version, name) ==
  [way |-> way, port |-> port, version |-> version, name |-> name]

SomeRequests ==
  {Request("sock", 1, "other", s), Request("sock", 2, "other", s), Request("hand", 1, "other", s),
   Request("file", 1, "test", s), Request("sock", 1, "test", t)}

JobSymmetry == Permutations(Jobs)

=============================================================================
