CONSTANTS
  c1 = c1
  c2 = c2
  u1 = u1
  u2 = u2
  duel = duel
  five = five
  Client = {c1, c2}
  User = {u1, u2}
  Room = {duel, five}
  UserOf <- MCUserOf
  RoomPlayer <- MCRoomPlayer
  JoinSide = {"blue", "red"}
  MaxCommands = 3
  Nil = Nil
SPECIFICATION Spec
INVARIANT TypeOK SeatHolderIsHere OneRoomEach DuelSideIsSeat ClosedHasLeft
PROPERTY SeatIsNotTakenOver StopEnds 
CHECK_DEADLOCK FALSE
