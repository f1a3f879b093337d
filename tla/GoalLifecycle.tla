--------------------------- MODULE GoalLifecycle ---------------------------
(***************************************************************************)
(* The life of goals as a client sees it: what goals/engine.py promises,   *)
(* with one step for each effect of a verb on a goal.  A session is used   *)
(* by one running goal at a time, and a goal that is over stays over.  A   *)
(* restart of the daemon is a Pause of every running goal.                 *)
(***************************************************************************)
CONSTANTS Goals, Sessions, NoSession
VARIABLES status, session

Over == {"done", "failed", "cancelled"}
Alive == {"pending", "running", "paused", "needs_input"}

Init ==
  /\ status = [g \in Goals |-> "absent"]
  /\ session = [g \in Goals |-> NoSession]

Become(g, st) == status' = [status EXCEPT ![g] = st] /\ UNCHANGED session

Create(g) ==
  /\ status[g] = "absent"
  /\ status' = [status EXCEPT ![g] = "pending"]
  /\ \E s \in Sessions : session' = [session EXCEPT ![g] = s]

\* Exclusive ownership of the session.
Start(g) ==
  /\ status[g] \in {"pending", "paused"}
  /\ \A h \in Goals : status[h] = "running" => session[h] # session[g]
  /\ Become(g, "running")

Pause(g) == status[g] \in {"running", "needs_input"} /\ Become(g, "paused")

Ask(g) == status[g] \in {"running", "paused"} /\ Become(g, "needs_input")

Finish(g, st) == status[g] \in Alive /\ st \in Over /\ Become(g, st)

Next == \E g \in Goals :
  Create(g) \/ Start(g) \/ Pause(g) \/ Ask(g) \/ \E st \in Over : Finish(g, st)

Spec == Init /\ [][Next]_<<status, session>>

============================================================================
