CONSTANTS
  Worker = {w1, w2}
  Work = {x1, x2}
  Prio = {p1, p2}
  Main = Main
  None = None
  MayLeave = TRUE
  MaxUpdates = 2
  MaxFaults = 1
SPECIFICATION FairSpec
CHECK_DEADLOCK FALSE
INVARIANTS
  TypeOK
  HeldOnce
  RepliesNoticed
  NobodySleepsOnWork
  ArgsOnce
  FreedLast
PROPERTIES
  AllReplied
  UpdatesReach
  StopReturns
