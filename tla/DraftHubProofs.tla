--------------------------- MODULE DraftHubProofs ---------------------------
(***************************************************************************)
(* Type correctness of the hub, and what rooms, seats and clients agree    *)
(* on, for any sockets, users and rooms.                                   *)
(***************************************************************************)
EXTENDS DraftHub, TLAPS

\* What the hub works on is a socket's request, and a join names room and side.
HubKnows ==
  /\ hub.at \in {"leave", "assign", "enter"} => hub.client \in Client
  /\ hub.at \in {"select", "back", "wait", "done"} => hub.client = Nil
  /\ hub.at \in {"assign", "enter"} => hub.room \in Room
  /\ hub.room \in Room => hub.side # Nil
  /\ hub.at = "leave" => client[hub.client].room \in Room
  /\ hub.at = "enter" => client[hub.client].room = hub.room

\* A pump that waits for a receiver holds a message of the kind it sends.
PumpKnows ==
  \A c \in Client :
    /\ pump[c] = "joining" => msg[c] \in JoinMessage
    /\ pump[c] = "sending" => msg[c] \in RoomMessage

\* Members are where their Client says, and nowhere while the hub moves them.
MembersAreHere ==
  \A r \in Room : \A c \in room[r].members :
    /\ client[c].room = r
    /\ hub.client = c => hub.at = "leave"

\* Only a pump that has ended was unregistered; nobody else is moved.
ClosedIsOver ==
  hub.at # "done" =>
    \A c \in Client : client[c].closed =>
      pump[c] = "ended" /\ (hub.client = c => hub.room = Nil)

HubTyped ==
  /\ hub \in [at : {"select", "back", "leave", "assign", "enter", "wait", "done"},
              client : Client \cup {Nil}, room : Room \cup {Nil},
              side : Side \cup {"spectator", Nil}]
  /\ rooms \subseteq Room
  /\ clients \subseteq Client

SocketsTyped ==
  /\ pump \in [Client -> {"new", "reading", "joining", "sending", "ended"}]
  /\ msg \in [Client -> Message \cup {Nil}]

ClientRecord ==
  [room : Room \cup {Nil}, side : Side \cup {"spectator", Nil}, closed : BOOLEAN]

ClientTyped == client \in [Client -> ClientRecord]

RoomRecord ==
  [run : {"absent", "running", "stopping", "ended"}, team : BOOLEAN,
   members : SUBSET Client, seat : [Side -> Client \cup {Nil}]]

RoomTyped == room \in [Room -> RoomRecord]

SidesTyped == \A c \in Client : client[c].room = Nil <=> client[c].side = Nil

\* The types that other facts rest on; the rest are plain.
Typed == HubTyped /\ SocketsTyped /\ ClientTyped /\ RoomTyped /\ SidesTyped

Plain == stop \in BOOLEAN /\ open \in [Client -> BOOLEAN]

Bounded == budget \in 0 .. MaxCommands

Known == Typed /\ HubKnows /\ PumpKnows

\* What the theorems rest on.
Inv ==
  /\ Known
  /\ MembersAreHere
  /\ SeatHolderIsHere
  /\ DuelSideIsSeat
  /\ ClosedIsOver
  /\ ClosedHasLeft

-----------------------------------------------------------------------------
LEMMA NilIsNone == Nil \notin Client /\ Nil \notin Room /\ Nil \notin Side /\ Nil # "spectator"
BY DraftHubAssumption

\* What the steps do to one record keeps its type.
LEMMA RoomOf ==
  ASSUME NEW x \in RoomRecord, NEW m \in SUBSET Client, NEW f \in [Side -> Client \cup {Nil}]
  PROVE  [x EXCEPT !.members = m, !.seat = f] \in RoomRecord
BY DEF RoomRecord

LEMMA TeamOf ==
  ASSUME NEW x \in RoomRecord, NEW b \in BOOLEAN
  PROVE  [x EXCEPT !.team = b] \in RoomRecord
BY DEF RoomRecord

LEMMA ClosedOf ==
  ASSUME NEW x \in ClientRecord, NEW b \in BOOLEAN
  PROVE  [x EXCEPT !.closed = b] \in ClientRecord
BY DEF ClientRecord

LEMMA PlaceOf ==
  ASSUME NEW x \in ClientRecord, NEW r \in Room, NEW s \in Side \cup {"spectator"}
  PROVE  [x EXCEPT !.side = s, !.room = r] \in ClientRecord
BY DEF ClientRecord

LEMMA TypeParts == TypeOK <=> Typed /\ Plain /\ Bounded
BY Zenon DEF TypeOK, Typed, HubTyped, SocketsTyped, ClientTyped, RoomTyped, SidesTyped,
             Plain, Bounded, ClientRecord, RoomRecord

LEMMA InitInv == Init => Inv /\ Plain /\ Bounded
<1> SUFFICES ASSUME Init PROVE Inv /\ Plain /\ Bounded
  OBVIOUS
<1> USE NilIsNone DEF Init
<1>1. HubTyped
  BY DEF HubTyped
<1>2. SocketsTyped
  BY DEF SocketsTyped
<1>3. ClientTyped
  BY DEF ClientTyped, ClientRecord
<1>4. RoomTyped
  BY DEF RoomTyped, RoomRecord
<1>5. SidesTyped
  BY DEF SidesTyped
<1>6. Plain
  BY DEF Plain
<1>7. Bounded
  BY DraftHubAssumption DEF Bounded
<1>8. HubKnows /\ PumpKnows
  BY DEF HubKnows, PumpKnows
<1>9. MembersAreHere /\ SeatHolderIsHere /\ DuelSideIsSeat
  BY DEF MembersAreHere, SeatHolderIsHere, DuelSideIsSeat
<1>10. ClosedIsOver /\ ClosedHasLeft
  BY DEF ClosedIsOver, ClosedHasLeft
<1> QED
  BY <1>1, <1>2, <1>3, <1>4, <1>5, <1>6, <1>7, <1>8, <1>9, <1>10 DEF Inv, Known, Typed

LEMMA TypedStep == Known /\ [Next]_vars => Known'
<1> SUFFICES ASSUME Known, [Next]_vars PROVE Known'
  OBVIOUS
<1>a. \A c \in Client : client[c] \in ClientRecord
  BY DEF Known, Typed, ClientTyped
<1>b. \A r \in Room : room[r] \in RoomRecord
  BY DEF Known, Typed, RoomTyped
<1>c. \A x \in ClientRecord : /\ x.room \in Room \cup {Nil}
                              /\ x.side \in Side \cup {"spectator", Nil}
  BY DEF ClientRecord
<1> USE NilIsNone DEF Known, Typed, HubTyped, SocketsTyped, ClientTyped, RoomTyped, SidesTyped,
                      HubKnows, PumpKnows
<1>1. ASSUME NEW r \in Room, CreateRoom(r) PROVE Known'
  BY <1>1, <1>b DEF CreateRoom, RoomRecord
<1>2. ASSUME NEW c \in Client, Cut(c) PROVE Known'
  BY <1>2 DEF Cut
<1>3. ASSUME NEW c \in Client, WritePump(c) PROVE Known'
  BY <1>3 DEF WritePump
<1>4. ASSUME NEW c \in Client, NEW m \in Message, ReadPump(c, m) PROVE Known'
  BY <1>4 DEF ReadPump, Message, JoinMessage, RoomMessage
<1>5. ASSUME NEW c \in Client, UnregisterTaken(c) PROVE Known'
  <2>1. ClientTyped'
    <3>1. client[c] \in ClientRecord
      BY <1>a
    <3>2. [client[c] EXCEPT !.closed = TRUE] \in ClientRecord
      BY <3>1 DEF ClientRecord
    <3> QED
      BY <1>5, <3>2 DEF UnregisterTaken, ClientRecord
  <2>2. \A d \in Client : client'[d].room = client[d].room /\ client'[d].side = client[d].side
    BY <1>5 DEF UnregisterTaken
  <2>3. HubTyped' /\ SocketsTyped' /\ RoomTyped'
    BY <1>5 DEF UnregisterTaken, HubIdle, HubWork
  <2>4. PumpKnows'
    BY <1>5 DEF UnregisterTaken
  <2>5. HubKnows'
    BY <1>5, <2>2, <1>a, <1>c DEF UnregisterTaken, HubIdle, HubWork
  <2> QED
    BY <2>1, <2>2, <2>3, <2>4, <2>5
<1>6. ASSUME NEW c \in Client, UnregisterLost(c) PROVE Known'
  BY <1>6 DEF UnregisterLost
<1>7. ASSUME NEW c \in Client, Register(c) PROVE Known'
  BY <1>7 DEF Register, HubIdle
<1>8. ASSUME NEW c \in Client, TakeJoin(c) PROVE Known'
  <2>1. msg[c] \in JoinMessage
    BY <1>8 DEF TakeJoin
  <2>2. msg[c].room \in Room /\ msg[c].side \in Side \cup {"spectator"} /\ msg[c].side # Nil
    BY <2>1, DraftHubAssumption DEF JoinMessage
  <2>3. SocketsTyped' /\ ClientTyped' /\ RoomTyped' /\ SidesTyped' /\ PumpKnows'
    BY <1>8 DEF TakeJoin
  <2>4. HubTyped' /\ HubKnows'
    BY <1>8, <2>2, <1>a, <1>c DEF TakeJoin, HubIdle, HubWork
  <2> QED
    BY <2>3, <2>4
<1>9. ASSUME NEW r \in Room, LeaveRoom(r) PROVE Known'
  <2>1. Left(r, hub.client) \in RoomRecord
    <3>1. room[r].members \ {hub.client} \in SUBSET Client
      BY <1>b DEF RoomRecord
    <3>2. [s \in Side |-> IF room[r].seat[s] = hub.client THEN Nil ELSE room[r].seat[s]]
            \in [Side -> Client \cup {Nil}]
      BY <1>b DEF RoomRecord
    <3> QED
      BY <3>1, <3>2, <1>b, RoomOf DEF Left
  <2>2. RoomTyped'
    BY <1>9, <2>1 DEF LeaveRoom
  <2>3. HubTyped' /\ HubKnows'
    BY <1>9 DEF LeaveRoom, HubIdle
  <2>4. SocketsTyped' /\ ClientTyped' /\ SidesTyped' /\ PumpKnows'
    BY <1>9 DEF LeaveRoom
  <2> QED
    BY <2>2, <2>3, <2>4
<1>10. ASSUME AssignSide PROVE Known'
  <2>. DEFINE c == hub.client
              r == hub.room
              s == IF IsPlayer(r, UserOf[c]) THEN RoomPlayer[r][UserOf[c]].team ELSE hub.side
              x == [client[c] EXCEPT !.side = s, !.room = r]
              y == [room[r] EXCEPT !.team = @ \/ IsPlayer(r, UserOf[c])]
  <2>1. c \in Client /\ r \in Room
    BY <1>10 DEF AssignSide
  <2>2. s \in Side \cup {"spectator"}
    <3>1. UserOf[c] \in User
      BY <2>1, DraftHubAssumption
    <3>2. IsPlayer(r, UserOf[c]) => RoomPlayer[r][UserOf[c]].team \in Side
      BY <2>1, <3>1, DraftHubAssumption DEF IsPlayer
    <3> QED
      BY <3>2, <2>1
  <2>3. client' = [client EXCEPT ![c] = x] /\ room' = [room EXCEPT ![r] = y]
    BY <1>10, <2>1, <1>a, <1>b DEF AssignSide
  <2>4. x \in ClientRecord /\ x.room = r /\ x.side = s
    <3>1. x \in ClientRecord
      BY <2>1, <2>2, <1>a, PlaceOf
    <3>2. x.room = r /\ x.side = s
      BY <2>1, <1>a DEF ClientRecord
    <3> QED
      BY <3>1, <3>2
  <2>5. y \in RoomRecord
    <3>1. (room[r].team \/ IsPlayer(r, UserOf[c])) \in BOOLEAN
      OBVIOUS
    <3> QED
      BY <2>1, <3>1, <1>b, TeamOf
  <2>6. s # Nil
    BY <2>2
  <2> HIDE DEF s, x, y
  <2>7. ClientTyped' /\ RoomTyped'
    BY <2>1, <2>3, <2>4, <2>5
  <2>8. SidesTyped'
    BY <2>1, <2>3, <2>4, <2>6
  <2>9. HubTyped' /\ HubKnows' /\ SocketsTyped' /\ PumpKnows'
    BY <1>10 DEF AssignSide
  <2> QED
    BY <2>7, <2>8, <2>9
<1>11. ASSUME NEW r \in Room, EnterRoom(r) PROVE Known'
  <2>1. hub.client \in Client
    BY <1>11 DEF EnterRoom
  <2>2. Joined(r, hub.client) \in RoomRecord
    <3>1. room[r].members \cup {hub.client} \in SUBSET Client
      BY <2>1, <1>b DEF RoomRecord
    <3>2. \A s : [room[r].seat EXCEPT ![s] = hub.client] \in [Side -> Client \cup {Nil}]
      BY <2>1, <1>b DEF RoomRecord
    <3>3. room[r].seat \in [Side -> Client \cup {Nil}]
      BY <1>b DEF RoomRecord
    <3> QED
      BY <3>1, <3>2, <3>3, <1>b, RoomOf DEF Joined
  <2>3. RoomTyped'
    BY <1>11, <2>2 DEF EnterRoom
  <2>4. JoinedSide(r, hub.client) \in Side \cup {"spectator", Nil}
    BY <2>1, <1>a, <1>c DEF JoinedSide
  <2>5. [client[hub.client] EXCEPT !.side = JoinedSide(r, hub.client)] \in ClientRecord
    BY <2>1, <2>4, <1>a DEF ClientRecord
  <2>6. ClientTyped'
    BY <1>11, <2>1, <2>5 DEF EnterRoom
  <2>7. JoinedSide(r, hub.client) = Nil <=> client[hub.client].side = Nil
    BY DEF JoinedSide
  <2>8. \A d \in Client : /\ client'[d].room = client[d].room
                          /\ client'[d].side = Nil <=> client[d].side = Nil
    BY <1>11, <2>1, <2>7, <1>a DEF EnterRoom, ClientRecord
  <2>9. SidesTyped'
    BY <2>8
  <2>10. HubTyped' /\ HubKnows' /\ SocketsTyped' /\ PumpKnows'
    BY <1>11 DEF EnterRoom, HubIdle
  <2> QED
    BY <2>3, <2>6, <2>9, <2>10
<1>12. ASSUME NextRequest PROVE Known'
  BY <1>12 DEF NextRequest
<1>13. ASSUME NEW r \in Room, NEW c \in Client, TakeMessage(r, c) PROVE Known'
  BY <1>13 DEF TakeMessage
<1>14. ASSUME Stop PROVE Known'
  BY <1>14 DEF Stop
<1>15. ASSUME TakeStop PROVE Known'
  <2>1. \A r \in Room : [room[r] EXCEPT !.run = "stopping"] \in RoomRecord
    BY <1>b DEF RoomRecord
  <2>2. RoomTyped'
    BY <1>15, <1>b, <2>1 DEF TakeStop
  <2>3. HubTyped' /\ HubKnows'
    BY <1>15 DEF TakeStop
  <2>4. SocketsTyped' /\ ClientTyped' /\ SidesTyped' /\ PumpKnows'
    BY <1>15 DEF TakeStop
  <2> QED
    BY <2>2, <2>3, <2>4
<1>16. ASSUME NEW r \in Room, EndRoom(r) PROVE Known'
  BY <1>16, <1>b DEF EndRoom, RoomRecord
<1>17. ASSUME EndHub PROVE Known'
  <2>1. \A c \in Client : [client[c] EXCEPT !.closed = @ \/ c \in clients] \in ClientRecord
    <3> SUFFICES ASSUME NEW c \in Client
                 PROVE  [client[c] EXCEPT !.closed = @ \/ c \in clients] \in ClientRecord
      OBVIOUS
    <3>1. (client[c].closed \/ c \in clients) \in BOOLEAN
      OBVIOUS
    <3> QED
      BY <3>1, <1>a, ClosedOf
  <2>2. ClientTyped'
    BY <1>17, <2>1 DEF EndHub
  <2>3. \A c \in Client : client'[c].room = client[c].room /\ client'[c].side = client[c].side
    BY <1>17, <1>a DEF EndHub, ClientRecord
  <2>4. SidesTyped'
    BY <2>3
  <2>5. HubTyped' /\ HubKnows'
    BY <1>17 DEF EndHub
  <2>6. SocketsTyped' /\ RoomTyped' /\ PumpKnows'
    BY <1>17 DEF EndHub
  <2> QED
    BY <2>2, <2>4, <2>5, <2>6
<1>18. CASE UNCHANGED vars
  BY <1>18 DEF vars
<1> QED
  BY <1>1, <1>2, <1>3, <1>4, <1>5, <1>6, <1>7, <1>8, <1>9, <1>10,
     <1>11, <1>12, <1>13, <1>14, <1>15, <1>16, <1>17, <1>18
  DEF Next, HubStep, RoomStep, SocketStep

-----------------------------------------------------------------------------
\* A step that moves nobody leaves places, seats and what the hub works on alone,
\* and closes a socket only with all of them.
Still ==
  /\ \A r \in Room : /\ room'[r].members = room[r].members
                     /\ room'[r].seat = room[r].seat
                     /\ room'[r].team = room[r].team
  /\ \A c \in Client : /\ client'[c].room = client[c].room
                       /\ client'[c].side = client[c].side
                       /\ pump[c] = "ended" => pump'[c] = "ended"
                       /\ client'[c].closed => client[c].closed \/ hub'.at = "done"
  /\ hub'.client = hub.client
  /\ hub.client \in Client => hub'.at = hub.at /\ hub'.room = hub.room
  /\ hub.at = "done" => hub'.at = "done"

LEMMA StillOrMoves ==
  ASSUME Known, [Next]_vars
  PROVE  \/ Still
         \/ \E c \in Client : UnregisterTaken(c) \/ TakeJoin(c)
         \/ \E r \in Room : LeaveRoom(r) \/ EnterRoom(r)
         \/ AssignSide
<1>a. /\ \A r \in Room : room[r] \in RoomRecord
      /\ \A c \in Client : client[c] \in ClientRecord
  BY DEF Known, Typed, RoomTyped, ClientTyped
<1>b. hub.client \in Client => hub.at \in {"leave", "assign", "enter"}
  BY NilIsNone DEF Known, Typed, HubTyped, HubKnows
<1>c. /\ hub.at \in {"select", "back", "wait", "done"} => hub.client = Nil
      /\ pump \in [Client -> {"new", "reading", "joining", "sending", "ended"}]
      /\ room \in [Room -> RoomRecord] /\ client \in [Client -> ClientRecord]
  BY DEF Known, HubKnows, Typed, SocketsTyped, RoomTyped, ClientTyped
<1> USE DEF Still
<1>1. ASSUME NEW r \in Room, CreateRoom(r) PROVE Still
  BY <1>1, <1>a, <1>c DEF CreateRoom, RoomRecord
<1>2. ASSUME NEW c \in Client, Cut(c) PROVE Still
  BY <1>2 DEF Cut
<1>3. ASSUME NEW c \in Client, WritePump(c) PROVE Still
  BY <1>3 DEF WritePump
<1>4. ASSUME NEW c \in Client, NEW m \in Message, ReadPump(c, m) PROVE Still
  BY <1>4, <1>c DEF ReadPump
<1>5. ASSUME NEW c \in Client, UnregisterLost(c) PROVE Still
  BY <1>5, <1>c DEF UnregisterLost
<1>6. ASSUME NEW c \in Client, Register(c) PROVE Still
  BY <1>6, <1>b, <1>c DEF Register, HubIdle
<1>7. ASSUME NextRequest PROVE Still
  BY <1>7, <1>b, <1>c DEF NextRequest
<1>8. ASSUME NEW r \in Room, NEW c \in Client, TakeMessage(r, c) PROVE Still
  BY <1>8, <1>c DEF TakeMessage
<1>9. ASSUME Stop PROVE Still
  BY <1>9 DEF Stop
<1>10. ASSUME TakeStop PROVE Still
  BY <1>10, <1>a, <1>b, <1>c DEF TakeStop, RoomRecord
<1>11. ASSUME NEW r \in Room, EndRoom(r) PROVE Still
  BY <1>11, <1>a, <1>c DEF EndRoom, RoomRecord
<1>12. ASSUME EndHub PROVE Still
  BY <1>12, <1>a, <1>b, <1>c DEF EndHub, ClientRecord
<1>13. CASE UNCHANGED vars
  BY <1>13 DEF vars
<1> QED
  BY <1>1, <1>2, <1>3, <1>4, <1>5, <1>6, <1>7, <1>8, <1>9, <1>10, <1>11, <1>12, <1>13
     DEF Next, HubStep, RoomStep, SocketStep

-----------------------------------------------------------------------------
\* What the five steps that move somebody do, in terms of places and seats.

\* The hub turns to c, which stays where it is.
TurnsTo(c) ==
  /\ room' = room
  /\ \A d \in Client : client'[d].room = client[d].room /\ client'[d].side = client[d].side
  /\ \A d \in Client : pump[d] = "ended" => pump'[d] = "ended"
  /\ hub.at = "select" /\ hub'.at \in {"back", "leave", "assign"}
  /\ hub'.client \in {Nil, c}
  /\ hub'.client = c /\ client[c].room \in Room => hub'.at = "leave"

LEMMA UnregisterMoves ==
  ASSUME Known, NEW c \in Client, UnregisterTaken(c)
  PROVE  /\ TurnsTo(c)
         /\ \A d \in Client : client'[d].closed => client[d].closed \/ d = c
         /\ pump'[c] = "ended"
         /\ hub'.room = Nil
         /\ client[c].room # Nil => hub'.client = c
<1>1. client \in [Client -> ClientRecord] /\ client[c] \in ClientRecord
  BY DEF Known, Typed, ClientTyped
<1>2. pump \in [Client -> {"new", "reading", "joining", "sending", "ended"}]
  BY DEF Known, Typed, SocketsTyped
<1> QED
  BY <1>1, <1>2, NilIsNone DEF UnregisterTaken, TurnsTo, HubIdle, HubWork, ClientRecord

LEMMA JoinMoves ==
  ASSUME Known, NEW c \in Client, TakeJoin(c)
  PROVE  /\ TurnsTo(c)
         /\ \A d \in Client : client'[d].closed = client[d].closed
         /\ pump[c] = "joining"
<1>1. client[c] \in ClientRecord
  BY DEF Known, Typed, ClientTyped
<1>2. pump \in [Client -> {"new", "reading", "joining", "sending", "ended"}]
  BY DEF Known, Typed, SocketsTyped
<1> QED
  BY <1>1, <1>2, NilIsNone DEF TakeJoin, TurnsTo, HubIdle, HubWork, ClientRecord

LEMMA LeaveMoves ==
  ASSUME Known, NEW r \in Room, LeaveRoom(r)
  PROVE  /\ hub.at = "leave" /\ hub.client \in Client /\ client[hub.client].room = r
         /\ client' = client /\ pump' = pump
         /\ \A q \in Room : q # r => room'[q] = room[q]
         /\ room'[r].members = room[r].members \ {hub.client}
         /\ room'[r].team = room[r].team
         /\ \A s \in Side : room'[r].seat[s] = IF room[r].seat[s] = hub.client THEN Nil
                                              ELSE room[r].seat[s]
         /\ \/ hub.room = Nil /\ hub'.client = Nil /\ hub'.at = "back"
            \/ hub.room \in Room /\ hub'.client = hub.client /\ hub'.room = hub.room
               /\ hub'.at = "assign"
<1>1. room \in [Room -> RoomRecord] /\ room[r] \in RoomRecord
  BY DEF Known, Typed, RoomTyped
<1>2. hub \in [at : {"select", "back", "leave", "assign", "enter", "wait", "done"},
              client : Client \cup {Nil}, room : Room \cup {Nil},
              side : Side \cup {"spectator", Nil}]
  BY DEF Known, Typed, HubTyped
<1>3. hub.client \in Client
  BY DEF LeaveRoom, Known, HubKnows
<1>4. room' = [room EXCEPT ![r] = Left(r, hub.client)]
  BY DEF LeaveRoom
<1>5. \A q \in Room : q # r => room'[q] = room[q]
  BY <1>1, <1>4
<1>6. room'[r] = Left(r, hub.client)
  BY <1>1, <1>4
<1>7. /\ room'[r].members = room[r].members \ {hub.client}
      /\ room'[r].team = room[r].team
      /\ \A s \in Side : room'[r].seat[s] = IF room[r].seat[s] = hub.client THEN Nil
                                           ELSE room[r].seat[s]
  BY <1>1, <1>6 DEF Left, RoomRecord
<1>8. \/ hub.room = Nil /\ hub'.client = Nil /\ hub'.at = "back"
      \/ hub.room \in Room /\ hub'.client = hub.client /\ hub'.room = hub.room
         /\ hub'.at = "assign"
  BY <1>2, NilIsNone DEF LeaveRoom, HubIdle
<1> QED
  BY <1>3, <1>5, <1>7, <1>8 DEF LeaveRoom

LEMMA AssignMoves ==
  ASSUME Known, AssignSide
  PROVE  /\ hub.at = "assign" /\ hub.client \in Client /\ hub.room \in Room
         /\ pump' = pump
         /\ \A d \in Client : client'[d].closed = client[d].closed
         /\ \A d \in Client : d # hub.client => client'[d] = client[d]
         /\ \A q \in Room : /\ room'[q].members = room[q].members
                            /\ room'[q].seat = room[q].seat
                            /\ room[q].team => room'[q].team
         /\ hub'.client = hub.client /\ hub'.room = hub.room /\ hub'.at = "enter"
<1>1. room \in [Room -> RoomRecord] /\ \A q \in Room : room[q] \in RoomRecord
  BY DEF Known, Typed, RoomTyped
<1>2. client \in [Client -> ClientRecord] /\ \A d \in Client : client[d] \in ClientRecord
  BY DEF Known, Typed, ClientTyped
<1>3. hub.client \in Client /\ hub.room \in Room
  BY DEF AssignSide, Known, HubKnows
<1>4. hub \in [at : {"select", "back", "leave", "assign", "enter", "wait", "done"},
              client : Client \cup {Nil}, room : Room \cup {Nil},
              side : Side \cup {"spectator", Nil}]
  BY DEF Known, Typed, HubTyped
<1>5. hub'.client = hub.client /\ hub'.room = hub.room /\ hub'.at = "enter"
  BY <1>4 DEF AssignSide
<1>6. \A d \in Client : /\ client'[d].closed = client[d].closed
                        /\ d # hub.client => client'[d] = client[d]
  BY <1>2, <1>3 DEF AssignSide, ClientRecord
<1>7. \A q \in Room : /\ room'[q].members = room[q].members
                      /\ room'[q].seat = room[q].seat
                      /\ room[q].team => room'[q].team
  BY <1>1, <1>3 DEF AssignSide, RoomRecord
<1> QED
  BY <1>3, <1>5, <1>6, <1>7 DEF AssignSide

LEMMA EnterMoves ==
  ASSUME Known, NEW r \in Room, EnterRoom(r)
  PROVE  /\ hub.at = "enter" /\ hub.client \in Client /\ hub.room = r
         /\ client[hub.client].room = r
         /\ pump' = pump
         /\ \A d \in Client : /\ client'[d].closed = client[d].closed
                              /\ client'[d].room = client[d].room
                              /\ d # hub.client => client'[d] = client[d]
         /\ client'[hub.client].side = JoinedSide(r, hub.client)
         /\ \A q \in Room : q # r => room'[q] = room[q]
         /\ room'[r].members = room[r].members \cup {hub.client}
         /\ room'[r].team = room[r].team
         /\ room'[r].seat = Joined(r, hub.client).seat
         /\ hub'.client = Nil /\ hub'.at = "back"
<1>1. room \in [Room -> RoomRecord] /\ room[r] \in RoomRecord
  BY DEF Known, Typed, RoomTyped
<1>2. client \in [Client -> ClientRecord] /\ \A d \in Client : client[d] \in ClientRecord
  BY DEF Known, Typed, ClientTyped
<1>3. hub.client \in Client /\ client[hub.client].room = r
  BY DEF EnterRoom, Known, HubKnows
<1>4. room' = [room EXCEPT ![r] = Joined(r, hub.client)]
  BY DEF EnterRoom
<1>5. room'[r] = Joined(r, hub.client) /\ \A q \in Room : q # r => room'[q] = room[q]
  BY <1>1, <1>4
<1>6. room'[r].members = room[r].members \cup {hub.client} /\ room'[r].team = room[r].team
  BY <1>1, <1>5 DEF Joined, RoomRecord
<1>7. \A d \in Client : /\ client'[d].closed = client[d].closed
                        /\ client'[d].room = client[d].room
                        /\ d # hub.client => client'[d] = client[d]
  BY <1>2, <1>3 DEF EnterRoom, ClientRecord
<1>8. client'[hub.client].side = JoinedSide(r, hub.client)
  BY <1>2, <1>3 DEF EnterRoom, ClientRecord
<1> QED
  BY <1>3, <1>5, <1>6, <1>7, <1>8 DEF EnterRoom, HubIdle

\* The seats after a join, side by side.
LEMMA JoinedSeats ==
  ASSUME Known, NEW r \in Room, NEW c \in Client, NEW s \in Side
  PROVE  /\ Joined(r, c).seat[s] \in {room[r].seat[s], c}
         /\ Joined(r, c).seat[s] # room[r].seat[s] => client[c].side = s
         /\ ~room[r].team /\ Joined(r, c).seat[s] # room[r].seat[s] =>
              room[r].seat[s] = Nil /\ JoinedSide(r, c) = s
         /\ room[r].team => JoinedSide(r, c) = client[c].side
         /\ ~room[r].team /\ JoinedSide(r, c) = s => Joined(r, c).seat[s] = c
<1>1. room[r] \in RoomRecord
  BY DEF Known, Typed, RoomTyped
<1>2. room[r].seat \in [Side -> Client \cup {Nil}]
  BY <1>1 DEF RoomRecord
<1>3. Joined(r, c).seat =
        IF IF room[r].team THEN client[c].side \in Side /\ IsCaptain(r, UserOf[c], client[c].side)
           ELSE client[c].side \in Side /\ room[r].seat[client[c].side] \in {Nil, c}
        THEN [room[r].seat EXCEPT ![client[c].side] = c] ELSE room[r].seat
  BY <1>1 DEF Joined, RoomRecord
<1> HIDE DEF IsCaptain
<1>4. s # "spectator"
  BY DEF Side
<1> QED
  BY <1>2, <1>3, <1>4 DEF JoinedSide

-----------------------------------------------------------------------------
\* The agreements between members, seats and clients, over one step.

LEMMA MembersStep ==
  ASSUME Known, MembersAreHere, [Next]_vars
  PROVE  MembersAreHere'
<1> USE NilIsNone DEF MembersAreHere
<1>a. \A q \in Room : room[q].members \subseteq Client
  BY DEF Known, Typed, RoomTyped, RoomRecord
<1>1. CASE Still
  BY <1>1, <1>a DEF Still
<1>2. ASSUME NEW c \in Client, TurnsTo(c) PROVE MembersAreHere'
  BY <1>2, <1>a DEF TurnsTo
<1>3. ASSUME NEW r \in Room, LeaveRoom(r) PROVE MembersAreHere'
  <2> SUFFICES ASSUME NEW q \in Room, NEW d \in room'[q].members
               PROVE  client'[d].room = q /\ d # hub'.client
    OBVIOUS
  <2>1. d \in room[q].members /\ (q = r => d # hub.client)
    BY <1>3, LeaveMoves
  <2>2. d # hub.client
    BY <2>1, <1>3, LeaveMoves
  <2> QED
    BY <2>1, <2>2, <1>3, <1>a, LeaveMoves
<1>4. ASSUME NEW r \in Room, EnterRoom(r) PROVE MembersAreHere'
  BY <1>4, <1>a, EnterMoves
<1>5. CASE AssignSide
  BY <1>5, <1>a, AssignMoves
<1> QED
  BY <1>1, <1>2, <1>3, <1>4, <1>5, StillOrMoves, UnregisterMoves, JoinMoves

LEMMA SeatsStep ==
  ASSUME Known, MembersAreHere, SeatHolderIsHere, [Next]_vars
  PROVE  SeatHolderIsHere'
<1> USE NilIsNone DEF SeatHolderIsHere, Moving
<1>a. \A q \in Room : /\ room[q].members \subseteq Client
                      /\ \A s \in Side : room[q].seat[s] \in Client \cup {Nil}
  BY DEF Known, Typed, RoomTyped, RoomRecord
<1>1. CASE Still
  BY <1>1, <1>a DEF Still
<1>2. ASSUME NEW c \in Client, TurnsTo(c) PROVE SeatHolderIsHere'
  <2>1. hub.client = Nil
    BY <1>2 DEF TurnsTo, Known, HubKnows
  <2> QED
    BY <1>2, <2>1, <1>a DEF TurnsTo
<1>3. ASSUME NEW r \in Room, LeaveRoom(r) PROVE SeatHolderIsHere'
  <2> SUFFICES ASSUME NEW q \in Room, NEW s \in Side, room'[q].seat[s] # Nil
               PROVE  /\ room'[q].seat[s] \in room'[q].members
                      /\ room'[q].seat[s] # hub'.client =>
                           /\ client'[room'[q].seat[s]].room = q
                           /\ client'[room'[q].seat[s]].side = s
    OBVIOUS
  <2> DEFINE d == room[q].seat[s]
  <2>1. room'[q].seat[s] = d /\ (q = r => d # hub.client)
    BY <1>3, LeaveMoves
  <2>2. d \in room[q].members /\ d \in Client
    BY <2>1, <1>a
  <2>3. d # hub.client
    BY <2>1, <2>2, <1>3, LeaveMoves DEF MembersAreHere
  <2>4. d \in room'[q].members
    BY <2>2, <2>3, <1>3, LeaveMoves
  <2> QED
    BY <2>1, <2>3, <2>4, <1>3, LeaveMoves
<1>4. ASSUME NEW r \in Room, EnterRoom(r) PROVE SeatHolderIsHere'
  <2> DEFINE c == hub.client
  <2>1. c \in Client /\ \A q \in Room : c \notin room[q].members
    BY <1>4, EnterMoves DEF MembersAreHere
  <2> SUFFICES ASSUME NEW q \in Room, NEW s \in Side, room'[q].seat[s] # Nil
               PROVE  /\ room'[q].seat[s] \in room'[q].members
                      /\ client'[room'[q].seat[s]].room = q
                      /\ client'[room'[q].seat[s]].side = s
    OBVIOUS
  <2>2. CASE room'[q].seat[s] = room[q].seat[s]
    <3> DEFINE d == room[q].seat[s]
    <3>1. d \in room[q].members /\ d \in Client /\ d # c
      BY <2>1, <2>2, <1>a
    <3>2. client[d].room = q /\ client[d].side = s
      BY <3>1, <2>2
    <3>3. client'[d] = client[d] /\ d \in room'[q].members
      BY <3>1, <1>4, EnterMoves
    <3> QED
      BY <3>2, <3>3, <2>2
  <2>3. CASE room'[q].seat[s] # room[q].seat[s]
    <3>1. q = r /\ room'[q].seat[s] = Joined(r, c).seat[s]
      BY <2>3, <1>4, EnterMoves
    <3>2. room'[q].seat[s] = c /\ JoinedSide(r, c) = s
      <4>1. Joined(r, c).seat[s] # room[r].seat[s]
        BY <3>1, <2>3
      <4>2. Joined(r, c).seat[s] = c /\ client[c].side = s
        BY <4>1, <2>1, JoinedSeats
      <4>3. JoinedSide(r, c) = s
        BY <4>1, <4>2, <2>1, JoinedSeats
      <4> QED
        BY <3>1, <4>2, <4>3
    <3> QED
      BY <3>1, <3>2, <1>4, EnterMoves
  <2> QED
    BY <2>2, <2>3
<1>5. CASE AssignSide
  BY <1>5, <1>a, AssignMoves DEF MembersAreHere
<1> QED
  BY <1>1, <1>2, <1>3, <1>4, <1>5, StillOrMoves, UnregisterMoves, JoinMoves

LEMMA DuelsStep ==
  ASSUME Known, MembersAreHere, DuelSideIsSeat, [Next]_vars
  PROVE  DuelSideIsSeat'
<1> USE NilIsNone DEF DuelSideIsSeat, Moving
<1>a. \A q \in Room : room[q].members \subseteq Client
  BY DEF Known, Typed, RoomTyped, RoomRecord
<1>1. CASE Still
  BY <1>1, <1>a DEF Still
<1>2. ASSUME NEW c \in Client, TurnsTo(c) PROVE DuelSideIsSeat'
  <2>1. hub.client = Nil
    BY <1>2 DEF TurnsTo, Known, HubKnows
  <2> QED
    BY <1>2, <2>1, <1>a DEF TurnsTo
<1>3. ASSUME NEW r \in Room, LeaveRoom(r) PROVE DuelSideIsSeat'
  <2> SUFFICES ASSUME NEW q \in Room, NEW d \in room'[q].members, ~room'[q].team,
                      client'[d].side \in Side
               PROVE  room'[q].seat[client'[d].side] = d
    OBVIOUS
  <2>1. d \in room[q].members /\ (q = r => d # hub.client)
    BY <1>3, LeaveMoves
  <2>2. d # hub.client /\ d \in Client
    BY <2>1, <1>a, <1>3, LeaveMoves DEF MembersAreHere
  <2>3. ~room[q].team /\ client[d].side \in Side /\ client'[d].side = client[d].side
    BY <1>3, LeaveMoves
  <2>4. room[q].seat[client[d].side] = d
    BY <2>1, <2>2, <2>3
  <2> QED
    BY <2>2, <2>3, <2>4, <1>3, LeaveMoves
<1>4. ASSUME NEW r \in Room, EnterRoom(r) PROVE DuelSideIsSeat'
  <2> DEFINE c == hub.client
  <2> SUFFICES ASSUME NEW q \in Room, NEW d \in room'[q].members, ~room'[q].team,
                      client'[d].side \in Side
               PROVE  room'[q].seat[client'[d].side] = d
    OBVIOUS
  <2>1. c \in Client /\ \A p \in Room : c \notin room[p].members
    BY <1>4, EnterMoves DEF MembersAreHere
  <2>2. ~room[q].team
    BY <1>4, EnterMoves
  <2>3. CASE d = c
    <3>1. q = r /\ client'[d].side = JoinedSide(r, c)
      BY <2>1, <2>3, <1>4, EnterMoves
    <3> QED
      BY <3>1, <2>1, <2>2, <2>3, <1>4, JoinedSeats, EnterMoves
  <2>4. CASE d # c
    <3>1. d \in room[q].members /\ d \in Client /\ client'[d] = client[d]
      BY <2>4, <1>a, <1>4, EnterMoves
    <3>2. room[q].seat[client[d].side] = d /\ client[d].side \in Side
      BY <3>1, <2>2, <2>4
    <3>3. q = r => Joined(r, c).seat[client[d].side] = d
      BY <3>1, <3>2, <2>1, <2>2, JoinedSeats
    <3> QED
      BY <3>1, <3>2, <3>3, <1>4, EnterMoves
  <2> QED
    BY <2>3, <2>4
<1>5. CASE AssignSide
  BY <1>5, <1>a, AssignMoves DEF MembersAreHere
<1> QED
  BY <1>1, <1>2, <1>3, <1>4, <1>5, StillOrMoves, UnregisterMoves, JoinMoves

LEMMA ClosedStep ==
  ASSUME Known, MembersAreHere, ClosedIsOver, ClosedHasLeft, [Next]_vars
  PROVE  ClosedIsOver' /\ ClosedHasLeft'
<1> USE NilIsNone DEF ClosedIsOver, ClosedHasLeft, Moving
<1>a. \A q \in Room : room[q].members \subseteq Client
  BY DEF Known, Typed, RoomTyped, RoomRecord
<1>b. \A d \in Client : client[d].room \in Room \cup {Nil}
  BY DEF Known, Typed, ClientTyped, ClientRecord
<1>c. hub.at = "select" => hub.client = Nil
  BY DEF Known, HubKnows
<1>1. CASE Still
  BY <1>1, <1>a DEF Still
<1>2. ASSUME NEW c \in Client, UnregisterTaken(c) PROVE ClosedIsOver' /\ ClosedHasLeft'
  <2>1. ClosedIsOver'
    BY <1>2, <1>c, UnregisterMoves DEF TurnsTo
  <2>2. ClosedHasLeft'
    BY <1>2, <1>b, <1>c, UnregisterMoves DEF TurnsTo, MembersAreHere
  <2> QED
    BY <2>1, <2>2
<1>3. ASSUME NEW c \in Client, TakeJoin(c) PROVE ClosedIsOver' /\ ClosedHasLeft'
  BY <1>3, <1>c, JoinMoves DEF TurnsTo
<1>4. ASSUME NEW r \in Room, LeaveRoom(r) PROVE ClosedIsOver' /\ ClosedHasLeft'
  <2>1. ClosedIsOver'
    BY <1>4, LeaveMoves
  <2>2. ClosedHasLeft'
    BY <1>4, LeaveMoves DEF MembersAreHere
  <2> QED
    BY <2>1, <2>2
<1>5. ASSUME NEW r \in Room, EnterRoom(r) PROVE ClosedIsOver' /\ ClosedHasLeft'
  BY <1>5, EnterMoves
<1>6. CASE AssignSide
  BY <1>6, AssignMoves
<1> QED
  BY <1>1, <1>2, <1>3, <1>4, <1>5, <1>6, StillOrMoves

LEMMA PlainStep == Plain /\ Bounded /\ [Next]_vars => Plain' /\ Bounded'
<1> SUFFICES ASSUME Plain, Bounded, [Next]_vars PROVE Plain' /\ Bounded'
  OBVIOUS
<1> USE DEF Next, HubStep, RoomStep, SocketStep, vars, CreateRoom, Cut, WritePump, ReadPump,
            UnregisterTaken, UnregisterLost, Register, TakeJoin, LeaveRoom, AssignSide, EnterRoom,
            NextRequest, TakeMessage, Stop, TakeStop, EndRoom, EndHub
<1>1. stop' \in {stop, TRUE}
  OBVIOUS
<1>2. open' = open \/ \E c \in Client, b \in BOOLEAN : open' = [open EXCEPT ![c] = b]
  OBVIOUS
<1>3. budget' = budget \/ (budget > 0 /\ budget' = budget - 1)
  OBVIOUS
<1>4. Plain'
  BY <1>1, <1>2 DEF Plain
<1>5. Bounded'
  BY <1>3, DraftHubAssumption DEF Bounded
<1> QED
  BY <1>4, <1>5

LEMMA InvStep == Inv /\ [Next]_vars => Inv'
BY TypedStep, MembersStep, SeatsStep, DuelsStep, ClosedStep DEF Inv

-----------------------------------------------------------------------------
LEMMA Invariance == Spec => []Inv
BY InitInv, InvStep, PTL DEF Spec

\* Every state has the types of TypeOK, for any sockets, users and rooms.
THEOREM TypeCorrect == Spec => []TypeOK
<1>1. Init => Plain /\ Bounded
  BY InitInv
<1>2. Spec => [](Plain /\ Bounded)
  BY <1>1, PlainStep, PTL DEF Spec
<1>3. Inv /\ Plain /\ Bounded => TypeOK
  BY TypeParts DEF Inv, Known
<1> QED
  BY <1>2, <1>3, Invariance, PTL

\* A client is a member of one room at most (handleJoinRoom leaves before it enters).
THEOREM OneRoom == Spec => []OneRoomEach
<1>1. Inv => OneRoomEach
  BY DEF Inv, MembersAreHere, OneRoomEach
<1> QED
  BY <1>1, Invariance, PTL

\* A seat, the room's members and the holder's Client.room and Client.side agree.
THEOREM SeatsAgree == Spec => []SeatHolderIsHere
<1>1. Inv => SeatHolderIsHere
  BY DEF Inv
<1> QED
  BY <1>1, Invariance, PTL

\* In a duel Client.side and the seats name the same two sockets.
THEOREM SidesAreSeats == Spec => []DuelSideIsSeat
<1>1. Inv => DuelSideIsSeat
  BY DEF Inv
<1> QED
  BY <1>1, Invariance, PTL

\* A client whose send channel was closed by an unregistration is in no room.
THEOREM ClosedLeaves == Spec => []ClosedHasLeft
<1>1. Inv => ClosedHasLeft
  BY DEF Inv
<1> QED
  BY <1>1, Invariance, PTL

\* In a duel a seat that is taken is given up before another socket sits on it.
THEOREM SeatsAreKept == Spec => SeatIsNotTakenOver
<1> DEFINE Kept == \A r \in Room, s \in Side :
       ~room[r].team /\ room[r].seat[s] # Nil /\ room'[r].seat[s] # room[r].seat[s]
         => room'[r].seat[s] = Nil
<1>1. Known /\ [Next]_vars => Kept
  <2> SUFFICES ASSUME Known, [Next]_vars PROVE Kept
    OBVIOUS
  <2>1. CASE Still
    BY <2>1 DEF Still
  <2>2. ASSUME NEW c \in Client, TurnsTo(c) PROVE Kept
    BY <2>2 DEF TurnsTo
  <2>3. ASSUME NEW r \in Room, LeaveRoom(r) PROVE Kept
    BY <2>3, LeaveMoves
  <2>4. ASSUME NEW r \in Room, EnterRoom(r) PROVE Kept
    BY <2>4, EnterMoves, JoinedSeats
  <2>5. CASE AssignSide
    BY <2>5, AssignMoves
  <2> QED
    BY <2>1, <2>2, <2>3, <2>4, <2>5, StillOrMoves, UnregisterMoves, JoinMoves
<1>2. Inv /\ [Next]_vars => [Kept]_vars
  BY <1>1 DEF Inv
<1> QED
  BY <1>2, Invariance, PTL DEF Spec, SeatIsNotTakenOver

=============================================================================
