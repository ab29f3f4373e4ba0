------------------------------ MODULE MCNatPmp ------------------------------
(* Instances of NatPmp for TLC. *)
EXTENDS NatPmp

F(e, i, p, l) == [ext |-> e, int |-> i, proto |-> p, life |-> l]

(* Ports 4 and 5 are ports 0 and 1 cut to the width of a packet; port 2 is
   taken, so the field with port 5 is granted another external port. *)
SafetyFields == { F(2, 5, "UDP", 1), F(3, 4, "UDP", 1), F(3, 2, "XXX", 1) }
ZeroFields   == { F(1, 1, "TCP", 1), F(1, 1, "TCP", 0) }
CliFields    == { F(2, 2, "TCP", 1), F(3, 3, "TCP", 1) }
MCStrays     == { [ext |-> 2, int |-> 1, life |-> 2] }
=============================================================================
