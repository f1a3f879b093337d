------------------------- MODULE MCSessionDispatch -------------------------
(* Symmetry for model checking SessionDispatch.                              *)
EXTENDS SessionDispatch, TLC

Symmetry ==
  Permutations(Tasks) \cup Permutations(Clients) \cup Permutations(Entries)
  \cup Permutations(Chromes)

==============================================================================
