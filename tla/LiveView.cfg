CONSTANTS
  Names = {a, b}
  Served = {a}
  Viewers = {v, w}
  Drivers = {v}
  Slow = {w}
  Requests = {q}
  MaxServer = 1
  MaxLife = 1
  NoViewer = none
SPECIFICATION FairSpec
INVARIANT LoopsFollowViewers
PROPERTIES FramesKeepComing VerbsAnswered
