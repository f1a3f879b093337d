----------------------------- MODULE MCAmbient -----------------------------
(* Model checking of Ambient.                                                *)
EXTENDS Ambient, TLC

Symmetry == Permutations(Tasks) \cup Permutations(States) \cup Permutations(Entries)

==============================================================================
