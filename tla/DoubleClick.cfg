CONSTANTS
  p1 = p1
  p2 = p2
  top = top
  Player = {p1, p2}
  Role = {top}
  Profile <- MCProfile
  BatchSize = 2
  InitialMmrThreshold = 100
  MmrThresholdIncrement = 100
  MaxMmrThreshold = 500
  Client = {}
  LobbyID = {l}
  Lobby = {l}
  MaxRequests = 4
  Nil = Nil
  Here = l
  Captain = {p1}
  VotingMode = {"unanimous"}
  VotingEnabled = {TRUE}
  Ballot <- MCBallot
  Request = {q1, q2}
SPECIFICATION Spec
CHECK_DEADLOCK FALSE
INVARIANT UnanimousMeansAll
