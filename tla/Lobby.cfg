CONSTANTS
  u1 = u1
  u2 = u2
  u3 = u3
  u4 = u4
  Nil = Nil
  User = {u1, u2, u3, u4}
  Role = {"top", "mid"}
  MaxLobbyPlayers = 4
  Lineup <- FewLineups
  MaxOptions = 2
  Swappable <- SwapPairs
SPECIFICATION Spec
INVARIANT TypeOK OneCaptainPerTeam OptionsFitPlayers TeamsStayEven RoomIsComplete
CONSTRAINT ComeBackLast OneDraft
