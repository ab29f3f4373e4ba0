----------------------------- MODULE RemoteCall -----------------------------
(***************************************************************************)
(* What a port-mapping call promises its caller, whatever the protocol     *)
(* below it: it asks the gateway at most once, and it comes back with what *)
(* the gateway decided for this very call, or without a decision.  "not    *)
(* sent" means the gateway has not heard of the call and never will;       *)
(* "unknown" means it may have decided, or may still decide.               *)
(***************************************************************************)
CONSTANT Decision       \* what a gateway may decide: grants and refusals

VARIABLES
  busy,                 \* whether a call is in progress
  decided,              \* the gateway's decisions on the latest call
  status,               \* how the latest call came back
  told                  \* the decision it told its caller, if any

vars == << busy, decided, status, told >>

Init ==
  /\ busy = FALSE
  /\ decided = {}
  /\ status = "none"
  /\ told = {}

Begin ==
  /\ ~busy
  /\ busy' = TRUE
  /\ decided' = {}
  /\ status' = "none"
  /\ told' = {}

(* The call comes back before anything reaches the network. *)
Stillborn ==
  /\ ~busy
  /\ decided' = {}
  /\ status' = "not sent"
  /\ told' = {}
  /\ UNCHANGED busy

(* A duplicated request is decided more than once, a delayed one after the
   call has come back. *)
Decide ==
  /\ status # "not sent"
  /\ decided \subseteq decided'
  /\ decided' \ decided \subseteq Decision
  /\ UNCHANGED << busy, status, told >>

Finish ==
  /\ busy
  /\ busy' = FALSE
  /\ \/ \E d \in decided : told' = {d} /\ status' = "decided"
     \/ told' = {} /\ status' = "unknown"
     \/ told' = {} /\ status' = "not sent" /\ decided = {}
  /\ UNCHANGED decided

Next == Begin \/ Stillborn \/ Decide \/ Finish

Spec == Init /\ [][Next]_vars
=============================================================================
