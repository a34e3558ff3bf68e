------------------------------ MODULE MCFiring ------------------------------
(* Firing on small instances. *)
EXTENDS Firing
=============================================================================
