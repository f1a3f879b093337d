-------------------------- MODULE MCSessionRegistry --------------------------
(* Bounds, symmetry and view for model checking SessionRegistry.             *)
EXTENDS SessionRegistry, TLC

Symmetry ==
  Permutations(Tasks) \cup Permutations(Entries) \cup Permutations(Chromes)
  \cup Permutations(WarmTasks)

\* What the fields of an entry were that nothing refers to any more is forgotten:
\* they are set anew when the entry is registered again, and read by nobody before.
OfEntry(e) ==
  IF e \in FreshEntries THEN "free" ELSE <<budget[e], profile[e], session[e], e \in walled>>

View ==
  <<entries, [e \in Entries |-> OfEntry(e)], lockVars, mutateLock, poolVars, osVars, pc, job>>

==============================================================================
