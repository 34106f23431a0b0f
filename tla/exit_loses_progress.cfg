SPECIFICATION Spec
CONSTANTS
  Roms = {r1}
  MaxSessions = 2
  MaxRam = 2
  None = None
  Partial = Partial
PROPERTIES ProgressSurvivesRestart
