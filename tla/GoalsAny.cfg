CONSTANTS
  Goals = {g1, g2}
  Sessions = {s}
  Requests = {t1, t2}
  Tokens = {}
  Gated <- AllGated
  Verbs = {"new", "next", "ask", "answer", "done", "cancel", "pause", "resume"}
  MaxSteps = 1
  MaxEvents = 1
  MaxCharges = 1
  Orderly = FALSE
  Early = FALSE
  NoGoal = NoGoal
  NoSession = NoSession
  NoToken = NoToken
SPECIFICATION Spec
SYMMETRY Symmetry
INVARIANTS FinishedGoalsLetGo GatesFollowOwner
PROPERTIES OnlyResumeTakesSessions
