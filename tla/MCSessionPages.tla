---------------------------- MODULE MCSessionPages ----------------------------
(* Model checking of SessionPages.                                           *)
EXTENDS SessionPages

==============================================================================
