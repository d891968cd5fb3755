CONSTANTS
  c1 = c1
  c2 = c2
  c3 = c3
  None = None
  Nil = Nil
  Phases <- ShortPhases
  Champion = {c1}
  EditChampion = {c1}
  Pausers = {"blue"}
  MaxFired = 1
  CountdownFrom = 1
  MaxTickers = 1
  MaxPauseTimers = 0
  MaxEditTimeouts = 1
SPECIFICATION Spec
INVARIANT TypeOK BoardFollowsPhases
PROPERTY ImplementsDraftSpec
CHECK_DEADLOCK FALSE
