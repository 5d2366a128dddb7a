------------------------------ MODULE Channel ------------------------------
(***************************************************************************)
(* What one direction of the message bridge promises: messages come out in *)
(* the order they went in, none twice, and none is lost while the bridge   *)
(* is open.  Closing it may lose messages on the way, but what is left is  *)
(* one piece of what was there, still in order.                            *)
(***************************************************************************)
EXTENDS Naturals, Sequences

VARIABLES
  inFlight,   \* put in and not yet taken out, oldest first
  delivered,  \* taken out, oldest first
  open        \* the threads of the bridge run

chvars == <<inFlight, delivered, open>>

Init ==
  /\ inFlight = <<>>
  /\ delivered = <<>>
  /\ open = TRUE

(* Messages join at the end, also while nobody takes them out. *)
Put ==
  /\ Len(inFlight) < Len(inFlight')
  /\ SubSeq(inFlight', 1, Len(inFlight)) = inFlight
  /\ UNCHANGED <<delivered, open>>

(* The k oldest are delivered. *)
Take ==
  /\ open
  /\ \E k \in 1..Len(inFlight) :
       /\ delivered' = delivered \o SubSeq(inFlight, 1, k)
       /\ inFlight' = SubSeq(inFlight, k + 1, Len(inFlight))
  /\ UNCHANGED open

Close ==
  /\ open /\ open' = FALSE
  /\ \E i \in 1..(Len(inFlight) + 1) : \E j \in 0..Len(inFlight) :
       inFlight' = SubSeq(inFlight, i, j)
  /\ UNCHANGED delivered

Next == Put \/ Take \/ Close

Spec == Init /\ [][Next]_chvars

=============================================================================
