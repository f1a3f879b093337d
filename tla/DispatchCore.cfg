CONSTANTS
  Tasks = {t1, t2}
  Clients = {d1, d2}
  Entries = {e1, e2}
  Chromes = {c1, c2}
  Freezer = Freezer
  Reaper = Reaper
  Nobody = Nobody
  NoEntry = NoEntry
  NoChrome = NoChrome
SPECIFICATION Spec
SYMMETRY Symmetry
INVARIANTS VerbNeverStopped ActsOnce
PROPERTIES ReaperSparesTheBusy
