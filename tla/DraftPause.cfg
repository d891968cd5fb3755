CONSTANTS
  c1 = c1
  c2 = c2
  c3 = c3
  None = None
  Nil = Nil
  Phases <- TwoPhases
  Champion = {c1, c2}
  EditChampion = {}
  Pausers = {"blue"}
  MaxFired = 1
  CountdownFrom = 3
  MaxTickers = 2
  MaxPauseTimers = 1
  MaxEditTimeouts = 0
SPECIFICATION FairSpec
INVARIANT DraftIsDriven TimersKnowTheirPhase CountdownNeedsBothSides CountdownIsDriven SomeoneIsAsked
PROPERTY PauseHoldsDraft PauseEnds DraftCompletes
CHECK_DEADLOCK FALSE
