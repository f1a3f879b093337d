------------------------- MODULE MCDaemonSingleton -------------------------
(* Model checking of DaemonSingleton.                                        *)
EXTENDS DaemonSingleton

==============================================================================
