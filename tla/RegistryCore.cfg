CONSTANTS
  Names = {a}
  MintedNames = {x}
  Outside = {o}
  Tasks = {t1, t2}
  WarmTasks = {k1}
  Entries = {e1, e2, e3}
  Chromes = {c1, c2, c3}
  MaxSessions = 1
  MaxEphemeral = 1
  OtherProfiles = FALSE
  PinnedExplore = FALSE
  GoalPins = FALSE
  WarmRecycle = TRUE
  Stubborn = TRUE
  NoTask = NoTask
  NoWarm = NoWarm
  NoEntry = NoEntry
  NoChrome = NoChrome
  Foreign = Foreign
  NoName = NoName
SPECIFICATION Spec
SYMMETRY Symmetry
VIEW View
INVARIANTS EveryChromeOwned ChromesNotShared LaneLeavesNothing NoDeadlyEmbrace
PROPERTIES EntryNeverOverwritten ProfileOutlivesSession
