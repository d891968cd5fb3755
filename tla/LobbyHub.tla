------------------------------ MODULE LobbyHub ------------------------------
(***************************************************************************)
(* LobbyHub.Run (lobby_hub.go), the ReadPump of each lobby socket          *)
(* (lobby_client.go), and the live object of each lobby, its LobbyState    *)
(* (lobby_state.go): the hub deletes it when its last client leaves, the   *)
(* handlers of HTTP requests create it anew.  Sends on the hub's channels  *)
(* wait, so a send is a state of its sender.  Nothing but a test stops     *)
(* this hub; LobbyHub.Stop is left out.                                    *)
(***************************************************************************)
EXTENDS Naturals, FiniteSets

CONSTANTS Client,    \* lobby sockets
          LobbyID,   \* what a client may ask for
          Lobby,     \* the lobbies the database has
          MaxRequests,  \* bound on all messages and HTTP requests together
          Nil

ASSUME LobbyHubAssumption ==
  /\ Lobby \subseteq LobbyID
  /\ MaxRequests \in Nat
  /\ Nil \notin Client \cup LobbyID

VARIABLES hub,      \* where LobbyHub.Run stands, and the join it works on
          clients,  \* h.clients
          pump,     \* socket -> where its ReadPump stands
          wish,     \* socket -> the lobby its ReadPump asks for
          open,     \* socket -> the connection is up
          left,     \* messages and requests that may still come
          lobbyID,  \* socket -> its lobbyID
          live      \* lobby -> its LobbyState: clients and votes, or Nil

hubVars == <<hub, clients, pump, wish, open, lobbyID>>

NewLobbyState == [clients |-> {}, votes |-> {}]

\* A LobbyState whose votes are among Vote.
LiveObject(Vote) == [clients : SUBSET Client, votes : SUBSET Vote]

HubTypeOK(Vote) ==
  /\ hub \in [at : {"select", "enter"}, client : Client \cup {Nil}, lobby : Lobby \cup {Nil}]
  /\ clients \subseteq Client
  /\ pump \in [Client -> {"new", "reading", "joining", "leaving", "ended"}]
  /\ wish \in [Client -> LobbyID \cup {Nil}]
  /\ open \in [Client -> BOOLEAN]
  /\ left \in 0 .. MaxRequests
  /\ lobbyID \in [Client -> Lobby \cup {Nil}]
  /\ live \in [Lobby -> LiveObject(Vote) \cup {Nil}]

HubInit ==
  /\ hub = [at |-> "select", client |-> Nil, lobby |-> Nil]
  /\ clients = {}
  /\ pump = [c \in Client |-> "new"]
  /\ wish = [c \in Client |-> Nil]
  /\ open = [c \in Client |-> FALSE]
  /\ left = MaxRequests
  /\ lobbyID = [c \in Client |-> Nil]
  /\ live = [l \in Lobby |-> Nil]

-----------------------------------------------------------------------------
\* The sockets.

\* The peer or the network ends the connection, or WritePump does when a write
\* or a ping fails.
Cut(c) ==
  /\ open[c]
  /\ open' = [open EXCEPT ![c] = FALSE]
  /\ UNCHANGED <<hub, clients, pump, wish, left, lobbyID, live>>

HandleMessage(c, l) ==
  /\ pump[c] = "reading"
  /\ open[c]
  /\ left > 0
  /\ pump' = [pump EXCEPT ![c] = "joining"]
  /\ wish' = [wish EXCEPT ![c] = l]
  /\ left' = left - 1
  /\ UNCHANGED <<hub, clients, open, lobbyID, live>>

\* Faulty form of the pump's end: LobbyHub.Unregister, which does not wait.
ReadEndsUnheard(c) ==
  /\ pump[c] = "reading"
  /\ ~open[c]
  /\ pump' = [pump EXCEPT ![c] = IF hub.at = "select" THEN "leaving" ELSE "ended"]
  /\ UNCHANGED <<hub, clients, wish, open, left, lobbyID, live>>

\* Reading a broken connection fails; the pump waits until the hub hears of it.
ReadEnds(c) ==
  /\ pump[c] = "reading"
  /\ ~open[c]
  /\ pump' = [pump EXCEPT ![c] = "leaving"]
  /\ UNCHANGED <<hub, clients, wish, open, left, lobbyID, live>>

-----------------------------------------------------------------------------
\* LobbyHub.Run.

Register(c) ==
  /\ hub.at = "select"
  /\ pump[c] = "new"
  /\ clients' = clients \cup {c}
  /\ pump' = [pump EXCEPT ![c] = "reading"]
  /\ open' = [open EXCEPT ![c] = TRUE]
  /\ UNCHANGED <<hub, wish, left, lobbyID, live>>

\* Faulty form of a departure: the object goes with whoever leaves.
WithoutAlways(l, c) == IF l = Nil THEN live ELSE [live EXCEPT ![l] = Nil]

\* The live objects once client c has left lobby l; an empty one is deleted.
Without(l, c) ==
  IF l = Nil \/ live[l] = Nil THEN live
  ELSE IF live[l].clients \subseteq {c} THEN [live EXCEPT ![l] = Nil]
  ELSE [live EXCEPT ![l].clients = @ \ {c}]

\* Faulty form of an unregistration: the lobby's object keeps the client.
UnregisterQuietly(c) ==
  /\ hub.at = "select"
  /\ pump[c] = "leaving"
  /\ pump' = [pump EXCEPT ![c] = "ended"]
  /\ clients' = clients \ {c}
  /\ UNCHANGED <<hub, wish, open, left, lobbyID, live>>

Unregister(c) ==
  /\ hub.at = "select"
  /\ pump[c] = "leaving"
  /\ pump' = [pump EXCEPT ![c] = "ended"]
  /\ clients' = clients \ {c}
  /\ live' = IF c \in clients THEN Without(lobbyID[c], c) ELSE live
  /\ UNCHANGED <<hub, wish, open, left, lobbyID>>

\* LOBBY_NOT_FOUND, or the old lobby is left.
LeaveOld(c) ==
  /\ hub.at = "select"
  /\ pump[c] = "joining"
  /\ pump' = [pump EXCEPT ![c] = "reading"]
  /\ wish' = [wish EXCEPT ![c] = Nil]
  /\ IF wish[c] \in Lobby
     THEN /\ hub' = [at |-> "enter", client |-> c, lobby |-> wish[c]]
          /\ live' = IF lobbyID[c] = wish[c] THEN live ELSE Without(lobbyID[c], c)
     ELSE UNCHANGED <<hub, live>>
  /\ UNCHANGED <<clients, open, left, lobbyID>>

LobbyState(l) == IF live[l] = Nil THEN NewLobbyState ELSE live[l]

\* The lobby's object is found, or made; the client is added and told so.
EnterNew ==
  /\ hub.at = "enter"
  /\ live' = [live EXCEPT ![hub.lobby] =
                [LobbyState(hub.lobby) EXCEPT !.clients = @ \cup {hub.client}]]
  /\ lobbyID' = [lobbyID EXCEPT ![hub.client] = hub.lobby]
  /\ hub' = [at |-> "select", client |-> Nil, lobby |-> Nil]
  /\ UNCHANGED <<clients, pump, wish, open, left>>

HubNext ==
  \/ \E c \in Client :
       \/ Register(c) \/ Unregister(c) \/ LeaveOld(c)
       \/ Cut(c) \/ ReadEnds(c)
       \/ \E l \in LobbyID : HandleMessage(c, l)
  \/ EnterNew

\* The hub and the pumps go on; a select takes every ready channel again and
\* again.  Nobody has to connect, to join or to be cut off.
HubFairness ==
  /\ WF_hubVars(EnterNew)
  /\ \A c \in Client : SF_hubVars(ReadEnds(c) \/ Unregister(c) \/ LeaveOld(c))

-----------------------------------------------------------------------------
\* Properties.

\* A registered client is in the object that h.lobbies has for its lobbyID, and
\* in no other: broadcasts to its lobby reach it although objects come and go.
JoinedIsReachable ==
  \A c \in clients : hub.client # c =>
    \A l \in Lobby : lobbyID[c] = l <=> live[l] # Nil /\ c \in live[l].clients

\* No broadcast goes to the dead: a live object's clients are registered.
LiveIsRegistered ==
  \A l \in Lobby : live[l] # Nil => live[l].clients \subseteq clients

\* A socket that is gone is forgotten in the end: the pump waits to be heard,
\* whatever the hub is busy with.
GoneClientIsForgotten ==
  \A c \in Client : (c \in clients /\ ~open[c]) ~> c \notin clients
=============================================================================
