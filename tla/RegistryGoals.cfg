CONSTANTS
  Names = {a}
  MintedNames = {}
  Outside = {o}
  Tasks = {t1, t2}
  WarmTasks = {}
  Entries = {e1, e2}
  Chromes = {c1, c2}
  MaxSessions = 1
  MaxEphemeral = 1
  OtherProfiles = TRUE
  PinnedExplore = TRUE
  GoalPins = TRUE
  WarmRecycle = FALSE
  Stubborn = FALSE
  NoTask = NoTask
  NoWarm = NoWarm
  NoEntry = NoEntry
  NoChrome = NoChrome
  Foreign = Foreign
  NoName = NoName
SPECIFICATION Spec
SYMMETRY Symmetry
VIEW View
INVARIANTS IndInv
