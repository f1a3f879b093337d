CONSTANTS
  Names = {a}
  MintedNames = {}
  Outside = {}
  Tasks = {t1, t2}
  WarmTasks = {k1}
  Entries = {e1, e2}
  Chromes = {c1, c2}
  MaxSessions = 1
  MaxEphemeral = 0
  OtherProfiles = FALSE
  PinnedExplore = FALSE
  GoalPins = FALSE
  WarmRecycle = TRUE
  Stubborn = FALSE
  NoTask = NoTask
  NoWarm = NoWarm
  NoEntry = NoEntry
  NoChrome = NoChrome
  Foreign = Foreign
  NoName = NoName
SPECIFICATION FairSpec
PROPERTIES VerbsAnswered ClosesAnswered
