------------------------------ MODULE MCLiveView -------------------------------
(* Model checking of LiveView.                                                *)
EXTENDS LiveView

==============================================================================
