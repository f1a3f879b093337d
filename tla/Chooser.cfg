CONSTANTS
  Arms = {a1, a2, a3}
  Several = {a1}
  Pages = {p1, p2}
  Choosers = {c1, c2}
  NoArm = NoArm
  NoPage = NoPage
SPECIFICATION Spec
INVARIANTS GivenOnce OutcomeIsTrue
PROPERTIES OnlyTheNewestReports InterceptionEnds
CHECK_DEADLOCK FALSE
