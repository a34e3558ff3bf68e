--------------------------- MODULE MCAutomations ---------------------------
(* Automations on small instances.                                           *)
EXTENDS Automations
=============================================================================
