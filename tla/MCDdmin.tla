-------------------------------- MODULE MCDdmin --------------------------------
(* Instances of Ddmin for TLC. *)
EXTENDS Ddmin

=============================================================================
