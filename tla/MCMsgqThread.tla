---------------------------- MODULE MCMsgqThread ----------------------------
(***************************************************************************)
(* TLC instances of MsgqThread.                                            *)
(***************************************************************************)
EXTENDS MsgqThread, TLC

SenderSymmetry == Permutations(Senders)

=============================================================================
