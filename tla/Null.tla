-------------------------------- MODULE Null --------------------------------
(* What the modules about C texts share: the null pointer. *)
CONSTANT NULL
=============================================================================
