CONSTANTS
  p1 = p1
  p2 = p2
  p3 = p3
  p4 = p4
  top = top
  mid = mid
  Player = {p1, p2, p3, p4}
  Role = {top, mid}
  Profile <- MCProfile
  BatchSize = 2
  InitialMmrThreshold = 100
  MmrThresholdIncrement = 100
  MaxMmrThreshold = 500
  Client = {c1, c2}
  LobbyID = {l, m}
  Lobby = {l, m}
  Nil = Nil
  Here = l
  Captain = {p1, p3}
  VotingMode = {"captain_override"}
  VotingEnabled = {FALSE}
  Ballot <- MCBallot
  Request = {q1}
  TeamOf <- MCTeamOf
  Proposal <- MCProposal
  Handler = {h1, h2}
  MaxRequests = 3
SPECIFICATION PendingSpec
CHECK_DEADLOCK FALSE
INVARIANT PendingTypeOK JoinedIsReachable LiveIsRegistered OptionsDiffer ThresholdIsHonest BestComfortOffered WinnerIsDefinite
PROPERTY VotesDriftOnlyThen GoneClientIsForgotten 
