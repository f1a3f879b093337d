CONSTANTS
  Tasks = {t1, t2}
  States = {s1, s2}
  Entries = {e1, e2}
  NoState = NoState
  NoEntry = NoEntry
  Nobody = Nobody
SPECIFICATION Spec
INVARIANTS CountedVerbsUndisturbed LookStaysTrue ParkedStays CoordinatesOnStillPage
SYMMETRY Symmetry
