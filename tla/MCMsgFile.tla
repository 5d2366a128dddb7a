----------------------------- MODULE MCMsgFile -----------------------------
(***************************************************************************)
(* Instances of MsgFile for TLC: the numbers are in the cfg files.         *)
(***************************************************************************)
EXTENDS MsgFile

=============================================================================
