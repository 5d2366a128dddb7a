------------------------------ MODULE TestSlot ------------------------------
(***************************************************************************)
(* What the test manager promises of the versions of a port: each has one  *)
(* slot, a test holds it from its start until after its script is over,    *)
(* and a test takes a slot once and runs its script at most once.          *)
(***************************************************************************)
CONSTANTS
  Versions,  \* each has a slot
  Tests,     \* runs of a script
  NoTest     \* an empty slot

VARIABLES
  slot,      \* the test that holds the slot of each version
  script     \* the script of each test: not begun, live, or over

slotvars == <<slot, script>>

Init ==
  /\ slot = [v \in Versions |-> NoTest]
  /\ script = [t \in Tests |-> "none"]

(* A test that never had a slot takes an empty one. *)
Take(v, t) ==
  /\ slot[v] = NoTest
  /\ script[t] = "none" /\ \A w \in Versions : slot[w] # t
  /\ slot' = [slot EXCEPT ![v] = t]
  /\ UNCHANGED script

(* The script begins, or it never will. *)
Begin(v, t) ==
  /\ slot[v] = t /\ script[t] = "none"
  /\ \E now \in {"live", "over"} : script' = [script EXCEPT ![t] = now]
  /\ UNCHANGED slot

(* Scripts end, by themselves or killed: one, or several at once. *)
End(S) ==
  /\ \A t \in S : script[t] = "live"
  /\ script' = [t \in Tests |-> IF t \in S THEN "over" ELSE script[t]]
  /\ UNCHANGED slot

(* Only a test whose script is over leaves its slot. *)
Leave(v, t) ==
  /\ slot[v] = t /\ script[t] = "over"
  /\ slot' = [slot EXCEPT ![v] = NoTest]
  /\ UNCHANGED script

Next ==
  \/ \E v \in Versions, t \in Tests : Take(v, t) \/ Begin(v, t) \/ Leave(v, t)
  \/ \E S \in SUBSET Tests : End(S)

Spec == Init /\ [][Next]_slotvars

=============================================================================
