\* Two jobs, two signals at any time, with the drain loop awaited and not.
SPECIFICATION FairSpec
CONSTANTS
  Job = {j1, j2}
  LoopAwaited = {TRUE, FALSE}
  MaxSignals = 2
  QuitTimeout = 5
INVARIANTS
  CutForCause
PROPERTIES
  StopsWhenTold
\* The process stops.
CHECK_DEADLOCK FALSE
