------------------------------- MODULE MCLoad -------------------------------
(* Instances of Client and of its application Load for TLC. *)
EXTENDS Load

=============================================================================
