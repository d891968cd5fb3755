CONSTANTS
  c1 = c1
  c2 = c2
  c3 = c3
  None = None
  Nil = Nil
  Phases <- TwoPhases
  Champion = {c1, c2}
  EditChampion = {}
  Pausers = {}
  MaxFired = 1
  CountdownFrom = 1
  MaxTickers = 1
  MaxPauseTimers = 0
  MaxEditTimeouts = 0
SPECIFICATION Spec
PROPERTY ExpiryActsOnItsPhase
CHECK_DEADLOCK FALSE
