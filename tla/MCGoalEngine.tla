---------------------------- MODULE MCGoalEngine ----------------------------
(* Bounds and symmetry for model checking GoalEngine.                        *)
EXTENDS GoalEngine, TLC

EveryVerb == AllVerbs
AllGated == Goals      \* every goal carries caps and an allowlist
Symmetry == Permutations(Goals) \cup Permutations(Requests)

==============================================================================
