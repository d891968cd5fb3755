------------------------------ MODULE DraftHub ------------------------------
(***************************************************************************)
(* The goroutines around a draft and the unbuffered channels between them: *)
(* Hub.Run, one Room.Run per room, one ReadPump per socket, and the caller *)
(* of Hub.Stop (hub.go, client.go, command_handler.go, room.go).  A send   *)
(* on a channel is a state of its sender; the receiver's step ends it.     *)
(* Here a room has members and seats, the draft itself is DraftRoom's.     *)
(***************************************************************************)
EXTENDS Naturals, FiniteSets

CONSTANTS Client,       \* the sockets, one after the other, of all users
          User,
          Room,
          UserOf,       \* socket -> user
          RoomPlayer,   \* room -> user -> [team, captain], or Nil: room_players
          JoinSide,     \* the sides that are asked for
          MaxCommands,  \* bound on the messages of all sockets
          Nil

Side == {"blue", "red"}

ASSUME DraftHubAssumption ==
  /\ IsFiniteSet(Client)
  /\ UserOf \in [Client -> User]
  /\ RoomPlayer \in [Room -> [User -> [team : Side, captain : BOOLEAN] \cup {Nil}]]
  /\ JoinSide \subseteq Side \cup {"spectator"}
  /\ MaxCommands \in Nat
  /\ Nil \notin Client \cup Room \cup Side \cup {"spectator"}
                \cup [team : Side, captain : BOOLEAN]

VARIABLES hub,      \* where Hub.Run stands, and the request it works on
          stop,     \* h.stop is closed
          rooms,    \* h.rooms
          clients,  \* h.clients
          pump,     \* socket -> where its ReadPump stands
          msg,      \* socket -> the message its ReadPump is handing over
          open,     \* socket -> the connection is up
          budget,   \* messages the sockets may still send
          client,   \* socket -> the fields of Client
          room      \* room -> the fields of Room

vars == <<hub, stop, rooms, clients, pump, msg, open, budget, client, room>>

JoinMessage == [kind : {"join"}, room : Room, side : JoinSide]
RoomMessage == [kind : {"command"}, room : Room]
Message == JoinMessage \cup RoomMessage

TypeOK ==
  /\ hub \in [at : {"select", "back", "leave", "assign", "enter", "wait", "done"},
              client : Client \cup {Nil}, room : Room \cup {Nil},
              side : Side \cup {"spectator", Nil}]
  /\ stop \in BOOLEAN
  /\ rooms \subseteq Room
  /\ clients \subseteq Client
  /\ pump \in [Client -> {"new", "reading", "joining", "sending", "ended"}]
  /\ msg \in [Client -> Message \cup {Nil}]
  /\ open \in [Client -> BOOLEAN]
  /\ budget \in 0 .. MaxCommands
  /\ client \in [Client -> [room : Room \cup {Nil}, side : Side \cup {"spectator", Nil},
                            closed : BOOLEAN]]
  /\ room \in [Room -> [run : {"absent", "running", "stopping", "ended"},
                        team : BOOLEAN, members : SUBSET Client,
                        seat : [Side -> Client \cup {Nil}]]]
  /\ \A c \in Client : client[c].room = Nil <=> client[c].side = Nil

Init ==
  /\ hub = [at |-> "select", client |-> Nil, room |-> Nil, side |-> Nil]
  /\ stop = FALSE
  /\ rooms = {}
  /\ clients = {}
  /\ pump = [c \in Client |-> "new"]
  /\ msg = [c \in Client |-> Nil]
  /\ open = [c \in Client |-> FALSE]
  /\ budget = MaxCommands
  /\ client = [c \in Client |-> [room |-> Nil, side |-> Nil, closed |-> FALSE]]
  /\ room = [r \in Room |-> [run |-> "absent", team |-> FALSE, members |-> {},
                             seat |-> [s \in Side |-> Nil]]]

-----------------------------------------------------------------------------
IsPlayer(r, u) == RoomPlayer[r][u] # Nil
IsCaptain(r, u, s) == IsPlayer(r, u) /\ RoomPlayer[r][u].team = s /\ RoomPlayer[r][u].captain

-----------------------------------------------------------------------------
\* A room's answers to what Room.Run receives; each holds the room's mutex.

\* Faulty form of handleJoin: a seat is handed over to whoever asks last.
JoinedTakingOver(r, c) ==
  LET s == client[c].side
      sits == s \in Side /\ (room[r].team => IsCaptain(r, UserOf[c], s))
  IN [room[r] EXCEPT !.members = @ \cup {c}, !.seat = IF sits THEN [@ EXCEPT ![s] = c] ELSE @]

\* In a team draft only captains are seated, and the captain who comes last is
\* the one who sits; otherwise a taken seat stays taken.
Joined(r, c) ==
  LET s == client[c].side
      free == s \in Side /\ room[r].seat[s] \in {Nil, c}
      sits == IF room[r].team THEN s \in Side /\ IsCaptain(r, UserOf[c], s) ELSE free
  IN [room[r] EXCEPT !.members = @ \cup {c}, !.seat = IF sits THEN [@ EXCEPT ![s] = c] ELSE @]

\* Faulty form of handleJoin: who is refused keeps the side that was asked for.
KeptSide(r, c) == client[c].side

\* Who is refused (SIDE_TAKEN) becomes a spectator.
JoinedSide(r, c) ==
  LET s == client[c].side
  IN IF ~room[r].team /\ s \in Side /\ room[r].seat[s] \notin {Nil, c} THEN "spectator" ELSE s

\* Faulty form of handleLeave: the seat is left to the one who went.
LeftSeated(r, c) == [room[r] EXCEPT !.members = @ \ {c}]

Left(r, c) ==
  [room[r] EXCEPT !.members = @ \ {c},
                  !.seat = [s \in Side |-> IF room[r].seat[s] = c THEN Nil ELSE room[r].seat[s]]]

-----------------------------------------------------------------------------
\* Handlers of HTTP requests, and the sockets.

\* h.mu is held from the start of an unregistration or a join to its end.
LockFree == hub.at \notin {"leave", "assign", "enter"}

CreateRoom(r) ==
  /\ room[r].run = "absent"
  /\ LockFree
  /\ rooms' = rooms \cup {r}
  /\ room' = [room EXCEPT ![r].run = "running"]
  /\ UNCHANGED <<hub, stop, clients, pump, msg, open, budget, client>>

\* The network takes the connection away; only a pump that reads can notice.
Cut(c) ==
  /\ open[c]
  /\ open' = [open EXCEPT ![c] = FALSE]
  /\ UNCHANGED <<hub, stop, rooms, clients, pump, msg, budget, client, room>>

\* The closed send channel ends the pump, which closes the connection.
WritePump(c) ==
  /\ open[c]
  /\ client[c].closed
  /\ open' = [open EXCEPT ![c] = FALSE]
  /\ UNCHANGED <<hub, stop, rooms, clients, pump, msg, budget, client, room>>

\* A message is routed; one for a room is forgotten when there is no room.
ReadPump(c, m) ==
  /\ pump[c] = "reading"
  /\ open[c]
  /\ budget > 0
  /\ m.kind = "join" \/ m.room = client[c].room
  /\ pump' = [pump EXCEPT ![c] = IF m.kind = "join" THEN "joining" ELSE "sending"]
  /\ msg' = [msg EXCEPT ![c] = m]
  /\ budget' = budget - 1
  /\ UNCHANGED <<hub, stop, rooms, clients, open, client, room>>

HubIdle == [at |-> "back", client |-> Nil, room |-> Nil, side |-> Nil]
HubWork(at, c, r, s) == [at |-> at, client |-> c, room |-> r, side |-> s]

\* Faulty form of an unregistration: the room is not told.
UnregisterTakenQuietly(c) ==
  /\ pump[c] = "reading"
  /\ ~open[c]
  /\ hub.at = "select"
  /\ pump' = [pump EXCEPT ![c] = "ended"]
  /\ clients' = clients \ {c}
  /\ client' = [client EXCEPT ![c].closed = TRUE]
  /\ hub' = HubIdle
  /\ UNCHANGED <<stop, rooms, msg, open, budget, room>>

\* Reading a broken connection ends with a send that does not wait.
UnregisterTaken(c) ==
  /\ pump[c] = "reading"
  /\ ~open[c]
  /\ hub.at = "select"
  /\ pump' = [pump EXCEPT ![c] = "ended"]
  /\ clients' = clients \ {c}
  /\ client' = [client EXCEPT ![c].closed = TRUE]
  /\ hub' = IF client[c].room = Nil THEN HubIdle ELSE HubWork("leave", c, Nil, Nil)
  /\ UNCHANGED <<stop, rooms, msg, open, budget, room>>

\* Hub.Run is not at its select, or has stopped: the request is lost.
UnregisterLost(c) ==
  /\ pump[c] = "reading"
  /\ ~open[c]
  /\ hub.at # "select"
  /\ pump' = [pump EXCEPT ![c] = "ended"]
  /\ UNCHANGED <<hub, stop, rooms, clients, msg, open, budget, client, room>>

-----------------------------------------------------------------------------
\* Hub.Run.

\* A handler upgrades the request and hands the socket over.
Register(c) ==
  /\ hub.at = "select"
  /\ pump[c] = "new"
  /\ clients' = clients \cup {c}
  /\ pump' = [pump EXCEPT ![c] = "reading"]
  /\ open' = [open EXCEPT ![c] = TRUE]
  /\ hub' = HubIdle
  /\ UNCHANGED <<stop, rooms, msg, budget, client, room>>

\* Faulty form of handleJoinRoom: the old room is not told.
TakeJoinStaying(c) ==
  /\ hub.at = "select"
  /\ pump[c] = "joining"
  /\ pump' = [pump EXCEPT ![c] = "reading"]
  /\ msg' = [msg EXCEPT ![c] = Nil]
  /\ hub' = IF msg[c].room \notin rooms THEN HubIdle
            ELSE HubWork("assign", c, msg[c].room, msg[c].side)
  /\ UNCHANGED <<stop, rooms, clients, open, budget, client, room>>

\* ROOM_NOT_FOUND, or the request is served with h.mu held.
TakeJoin(c) ==
  /\ hub.at = "select"
  /\ pump[c] = "joining"
  /\ pump' = [pump EXCEPT ![c] = "reading"]
  /\ msg' = [msg EXCEPT ![c] = Nil]
  /\ hub' = IF msg[c].room \notin rooms THEN HubIdle
            ELSE HubWork(IF client[c].room = Nil THEN "assign" ELSE "leave",
                         c, msg[c].room, msg[c].side)
  /\ UNCHANGED <<stop, rooms, clients, open, budget, client, room>>

\* room.leave <- client, received by the client's room.
LeaveRoom(r) ==
  /\ hub.at = "leave"
  /\ client[hub.client].room = r
  /\ room[r].run \in {"running", "stopping"}
  /\ room' = [room EXCEPT ![r] = Left(r, hub.client)]
  /\ hub' = IF hub.room = Nil THEN HubIdle ELSE [hub EXCEPT !.at = "assign"]
  /\ UNCHANGED <<stop, rooms, clients, pump, msg, open, budget, client>>

\* Faulty form of handleJoinRoom: the side asked for is given to players only.
AssignSideToPlayers ==
  /\ hub.at = "assign"
  /\ LET c == hub.client
         r == hub.room
         u == UserOf[c]
     IN /\ client' = [client EXCEPT ![c].side = IF IsPlayer(r, u) THEN RoomPlayer[r][u].team
                                                ELSE @,
                                    ![c].room = r]
        /\ room' = [room EXCEPT ![r].team = @ \/ IsPlayer(r, u)]
  /\ hub' = [hub EXCEPT !.at = "enter"]
  /\ UNCHANGED <<stop, rooms, clients, pump, msg, open, budget>>

\* The side comes from the room's players, or from the request; the first of
\* the players to join makes the room a team draft.
AssignSide ==
  /\ hub.at = "assign"
  /\ LET c == hub.client
         r == hub.room
         u == UserOf[c]
     IN /\ client' = [client EXCEPT ![c].side = IF IsPlayer(r, u) THEN RoomPlayer[r][u].team
                                                ELSE hub.side,
                                    ![c].room = r]
        /\ room' = [room EXCEPT ![r].team = @ \/ IsPlayer(r, u)]
  /\ hub' = [hub EXCEPT !.at = "enter"]
  /\ UNCHANGED <<stop, rooms, clients, pump, msg, open, budget>>

\* room.join <- client, received by the room.
EnterRoom(r) ==
  /\ hub.at = "enter"
  /\ hub.room = r
  /\ room[r].run \in {"running", "stopping"}
  /\ room' = [room EXCEPT ![r] = Joined(r, hub.client)]
  /\ client' = [client EXCEPT ![hub.client].side = JoinedSide(r, hub.client)]
  /\ hub' = HubIdle
  /\ UNCHANGED <<stop, rooms, clients, pump, msg, open, budget>>

\* Between two requests nobody receives.
NextRequest ==
  /\ hub.at = "back"
  /\ hub' = [hub EXCEPT !.at = "select"]
  /\ UNCHANGED <<stop, rooms, clients, pump, msg, open, budget, client, room>>

-----------------------------------------------------------------------------
\* Room.Run, beside the joins and leaves above: the room takes a command of the
\* draft from a ReadPump; what it does with it is DraftRoom's.

TakeMessage(r, c) ==
  /\ pump[c] = "sending"
  /\ msg[c].room = r
  /\ room[r].run \in {"running", "stopping"}
  /\ pump' = [pump EXCEPT ![c] = "reading"]
  /\ msg' = [msg EXCEPT ![c] = Nil]
  /\ UNCHANGED <<hub, stop, rooms, clients, open, budget, client, room>>

-----------------------------------------------------------------------------
\* Hub.Stop.

Stop ==
  /\ ~stop
  /\ stop' = TRUE
  /\ UNCHANGED <<hub, rooms, clients, pump, msg, open, budget, client, room>>

\* Every room is told to stop; then Hub.Run waits for all of them.
TakeStop ==
  /\ hub.at = "select"
  /\ stop
  /\ hub' = [hub EXCEPT !.at = "wait"]
  /\ room' = [r \in Room |-> IF r \in rooms THEN [room[r] EXCEPT !.run = "stopping"] ELSE room[r]]
  /\ UNCHANGED <<stop, rooms, clients, pump, msg, open, budget, client>>

EndRoom(r) ==
  /\ room[r].run = "stopping"
  /\ room' = [room EXCEPT ![r].run = "ended"]
  /\ UNCHANGED <<hub, stop, rooms, clients, pump, msg, open, budget, client>>

\* Faulty form of the waiting: for the rooms the hub has by then.
EndHubAllRooms ==
  /\ hub.at = "wait"
  /\ \A r \in rooms : room[r].run = "ended"
  /\ client' = [c \in Client |-> [client[c] EXCEPT !.closed = @ \/ c \in clients]]
  /\ clients' = {}
  /\ rooms' = {}
  /\ hub' = [hub EXCEPT !.at = "done"]
  /\ UNCHANGED <<stop, pump, msg, open, budget, room>>

\* All rooms that were told have ended: the sockets are closed and forgotten.
EndHub ==
  /\ hub.at = "wait"
  /\ \A r \in Room : room[r].run # "stopping"
  /\ client' = [c \in Client |-> [client[c] EXCEPT !.closed = @ \/ c \in clients]]
  /\ clients' = {}
  /\ rooms' = {}
  /\ hub' = [hub EXCEPT !.at = "done"]
  /\ UNCHANGED <<stop, pump, msg, open, budget, room>>

-----------------------------------------------------------------------------
HubStep ==
  \/ \E c \in Client : Register(c) \/ TakeJoin(c)
  \/ AssignSide \/ NextRequest \/ TakeStop \/ EndHub

RoomStep(r) ==
  \/ LeaveRoom(r) \/ EnterRoom(r) \/ EndRoom(r)
  \/ \E c \in Client : TakeMessage(r, c)

SocketStep(c) ==
  \/ Cut(c) \/ WritePump(c) \/ UnregisterTaken(c) \/ UnregisterLost(c)
  \/ \E m \in Message : ReadPump(c, m)

Next ==
  \/ HubStep
  \/ \E r \in Room : CreateRoom(r) \/ RoomStep(r)
  \/ \E c \in Client : SocketStep(c)
  \/ Stop

\* Goroutines go on, mutexes are handed over in order, and a select takes every
\* channel that is ready again and again.  Nobody has to connect, send or stop.
Fairness ==
  /\ WF_vars(AssignSide \/ NextRequest \/ EndHub \/ \E r \in Room : LeaveRoom(r) \/ EnterRoom(r))
  /\ WF_vars(\E r \in Room : EndRoom(r))
  /\ SF_vars(TakeStop)
  /\ \A c \in Client :
       /\ SF_vars(TakeJoin(c) \/ UnregisterTaken(c) \/ UnregisterLost(c)
                    \/ \E r \in Room : TakeMessage(r, c))
       /\ WF_vars(WritePump(c))

Spec == Init /\ [][Next]_vars /\ Fairness

-----------------------------------------------------------------------------
\* Properties.

Moving(c) == hub.client = c

\* A seat is held by a member of its room whose Client.room and Client.side say
\* so too: what handleJoinRoom, handleJoin and handleLeave write in three
\* objects agrees, whatever the order of joins, changes of room and lost
\* connections.
SeatHolderIsHere ==
  \A r \in Room, s \in Side :
    LET c == room[r].seat[s]
    IN c # Nil =>
         /\ c \in room[r].members
         /\ ~Moving(c) => client[c].room = r /\ client[c].side = s

\* Nobody is in two rooms (handleJoinRoom leaves one before it enters the next):
\* no room broadcasts to, or waits for, a client whose commands go elsewhere.
OneRoomEach ==
  \A r, q \in Room : r # q => room[r].members \cap room[q].members = {}

\* In a duel a side is a seat: edits, pauses and readiness go by Client.side,
\* picks and bans by the seat, and both mean the same socket.
DuelSideIsSeat ==
  \A r \in Room : \A c \in room[r].members :
    ~room[r].team /\ ~Moving(c) /\ client[c].side \in Side => room[r].seat[client[c].side] = c

\* An unregistration that was taken is complete: a client whose send channel is
\* closed is in no room any more.
ClosedHasLeft ==
  \A c \in Client :
    client[c].closed /\ ~Moving(c) /\ hub.at # "done" =>
      \A r \in Room : c \notin room[r].members

\* In a duel no socket ever sits down on a seat that another one holds; it has
\* to be given up first (SIDE_TAKEN in handleJoin).
SeatIsNotTakenOver ==
  [][\A r \in Room, s \in Side :
       ~room[r].team /\ room[r].seat[s] # Nil /\ room'[r].seat[s] # room[r].seat[s]
         => room'[r].seat[s] = Nil]_vars

\* Hub.Stop returns: neither a room that stops nor the request at hand can hold
\* Hub.Run up for ever.
StopEnds == stop ~> hub.at = "done"

\* A socket that is gone is out of its room in the end, unless the hub was busy
\* when the pump asked, or stops: a request that Hub.Unregister drops leaves a
\* ghost, still among the hub's clients, but one that is taken is carried out.
GoneClientLeaves ==
  \A c \in Client :
    (pump[c] = "reading" /\ ~open[c])
      ~> /\ pump[c] = "ended"
         /\ (\A r \in Room : c \notin room[r].members) \/ c \in clients \/ stop
=============================================================================
