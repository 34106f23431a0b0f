SPECIFICATION Spec
CONSTANTS
  Buttons = {A}
  Contents = {r1, r2}
  HasBattery = TRUE
  NoLimit = NoLimit
  Limits = {NoLimit, 1}
  MaxCount = 2
  None = None
INVARIANTS TypeOK ReturnMeansFinal AtMostOneLateFrame NoRushAfterPause
PROPERTIES KeepsContract StopReturns HeldButtonArrives
\* A session that was dropped after its thread exited does nothing more.
CHECK_DEADLOCK FALSE
