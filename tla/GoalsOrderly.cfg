CONSTANTS
  Goals = {g1, g2}
  Sessions = {s}
  Requests = {t1, t2, t3}
  Tokens = {k}
  Gated <- AllGated
  Verbs <- EveryVerb
  MaxSteps = 1
  MaxEvents = 2
  MaxCharges = 2
  Orderly = TRUE
  Early = FALSE
  NoGoal = NoGoal
  NoSession = NoSession
  NoToken = NoToken
SPECIFICATION Spec
SYMMETRY Symmetry
INVARIANTS OrderlyInv Exclusive SnapshotsAreOwn GuardGoesWithGoal
PROPERTIES ImplementsLifecycle
