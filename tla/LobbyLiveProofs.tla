--------------------------- MODULE LobbyLiveProofs ---------------------------
(***************************************************************************)
(* A lobby whose teams are chosen, for any sockets, lobbies, votes and     *)
(* captains: registrations, joins and live objects agree, the options keep *)
(* what LobbyChoiceProofs proves of them, and what the live object shows   *)
(* parts from the database only when it is excused.                        *)
(***************************************************************************)
EXTENDS LobbyPending, LobbyChoiceProofs

\* The types that the agreements rest on.
LiveTyped ==
  /\ live \in [Lobby -> LiveObject(Ballot) \cup {Nil}]
  /\ request \in [Request -> Work \cup {Nil}]

HubTyped ==
  /\ clients \subseteq Client
  /\ pump \in [Client -> {"new", "reading", "joining", "leaving", "ended"}]
  /\ lobbyID \in [Client -> Lobby \cup {Nil}]

\* A vote that found the object toggles one that is still there.
FoundIsThere ==
  \A q \in Request : request[q] # Nil /\ request[q].at = "toggle" => live[Here] # Nil

IsIn(c, l) == live[l] # Nil /\ c \in live[l].clients

\* Pumps run for registered clients, one that has not begun is in no lobby, and
\* the client the hub brings somewhere is nowhere else.
HubKnows ==
  /\ \A c \in Client : pump[c] \in {"reading", "joining", "leaving"} => c \in clients
  /\ \A c \in Client : pump[c] = "new" => c \notin clients /\ lobbyID[c] = Nil
  /\ \/ hub.at = "select" /\ hub.client = Nil
     \/ /\ hub.at = "enter" /\ hub.client \in clients /\ hub.lobby \in Lobby
        /\ \A l \in Lobby \ {hub.lobby} : ~IsIn(hub.client, l)

Typed == LiveTyped /\ FoundIsThere

Agree == HubTyped /\ HubKnows /\ JoinedIsReachable /\ LiveIsRegistered

Inv == Typed /\ Agree

-----------------------------------------------------------------------------
LEMMA NilIsNone ==
  Nil \notin Client /\ Nil \notin Lobby /\ Nil \notin LiveObject(Ballot) /\ Nil \notin Work
BY LobbyHubAssumption, LobbyLiveAssumption DEF LiveObject, Work

\* No step but the hub's changes who is in which object.
SameClients ==
  /\ UNCHANGED hubVars
  /\ \A c, l : l \in Lobby => (IsIn(c, l) <=> IsIn(c, l)')

LEMMA ObjectFound ==
  ASSUME Typed, live' = [live EXCEPT ![Here] = LobbyState(Here)]
  PROVE  /\ live' \in [Lobby -> LiveObject(Ballot) \cup {Nil}]
         /\ live'[Here] # Nil
         /\ \A c, l : l \in Lobby => (IsIn(c, l) <=> IsIn(c, l)')
<1>1. LobbyState(Here) \in LiveObject(Ballot) /\ Here \in Lobby
  BY LobbyLiveAssumption DEF LobbyState, NewLobbyState, LiveObject, Typed, LiveTyped
<1>2. live[Here] = Nil => LobbyState(Here).clients = {}
  BY DEF LobbyState, NewLobbyState
<1>3. live[Here] # Nil => LobbyState(Here) = live[Here]
  BY DEF LobbyState
<1> QED
  BY <1>1, <1>2, <1>3, NilIsNone DEF Typed, LiveTyped, IsIn

LEMMA VoteTypes ==
  ASSUME Typed, NEW q \in Request, VoteStep(q)
  PROVE  Typed' /\ SameClients
<1> USE NilIsNone
<1>1. ASSUME NEW b \in Ballot, ReadVote(q, b) PROVE Typed' /\ SameClients
  <2>1. [ballot |-> b, at |-> "write", voted |-> votes[b] > 0] \in Work
    BY DEF Work
  <2>2. request' \in [Request -> Work \cup {Nil}]
    BY <1>1, <2>1 DEF ReadVote, Typed, LiveTyped
  <2>3. FoundIsThere'
    BY <1>1 DEF ReadVote, Typed, LiveTyped, FoundIsThere
  <2> QED
    BY <1>1, <2>2, <2>3 DEF ReadVote, Typed, LiveTyped, SameClients, IsIn
<1>2. ASSUME WriteVote(q) PROVE Typed' /\ SameClients
  <2>1. [request[q] EXCEPT !.at = "find"] \in Work
    BY <1>2 DEF WriteVote, Typed, LiveTyped, Work
  <2>2. request' \in [Request -> Work \cup {Nil}]
    BY <1>2, <2>1 DEF WriteVote, Typed, LiveTyped
  <2>3. FoundIsThere'
    BY <1>2 DEF WriteVote, Typed, LiveTyped, FoundIsThere, Work
  <2> QED
    BY <1>2, <2>2, <2>3 DEF WriteVote, Typed, LiveTyped, SameClients, IsIn
<1>3. ASSUME FindState(q) PROVE Typed' /\ SameClients
  <2>1. [request[q] EXCEPT !.at = "toggle"] \in Work
    BY <1>3 DEF FindState, Typed, LiveTyped, Work
  <2>2. request' \in [Request -> Work \cup {Nil}]
    BY <1>3, <2>1 DEF FindState, Typed, LiveTyped
  <2> QED
    BY <1>3, <2>2, ObjectFound DEF FindState, Typed, LiveTyped, FoundIsThere, SameClients
<1>4. ASSUME ToggleVote(q) PROVE Typed' /\ SameClients
  <2>1. request' \in [Request -> Work \cup {Nil}]
    BY <1>4 DEF ToggleVote, Typed, LiveTyped
  <2>2. CASE request[q].at = "orphan"
    BY <1>4, <2>1, <2>2 DEF ToggleVote, Typed, LiveTyped, FoundIsThere, SameClients, IsIn
  <2>3. CASE request[q].at = "toggle"
    <3>1. live[Here] \in LiveObject(Ballot) /\ Here \in Lobby
      BY <1>4, <2>3, LobbyLiveAssumption DEF ToggleVote, Typed, LiveTyped, FoundIsThere
    <3>2. request[q].ballot \in Ballot
      BY <1>4 DEF ToggleVote, Typed, LiveTyped, Work
    <3> DEFINE x == [live[Here] EXCEPT !.votes = Toggled(@, request[q].ballot)]
    <3>3. x \in LiveObject(Ballot) /\ x.clients = live[Here].clients
      BY <3>1, <3>2 DEF LiveObject, Toggled
    <3>4. live' = [live EXCEPT ![Here] = x]
      BY <1>4, <2>3 DEF ToggleVote
    <3> HIDE DEF x
    <3>5. live' \in [Lobby -> LiveObject(Ballot) \cup {Nil}] /\ live'[Here] # Nil
      BY <3>1, <3>3, <3>4 DEF Typed, LiveTyped
    <3>6. SameClients
      BY <1>4, <3>1, <3>3, <3>4 DEF ToggleVote, SameClients, IsIn, Typed, LiveTyped
    <3> QED
      BY <2>1, <3>5, <3>6 DEF Typed, LiveTyped, FoundIsThere
  <2> QED
    BY <1>4, <2>2, <2>3 DEF ToggleVote
<1> QED
  BY <1>1, <1>2, <1>3, <1>4 DEF VoteStep

LEMMA CaptainTypes ==
  ASSUME Typed, NEW u \in Player, CaptainStep(u)
  PROVE  Typed' /\ SameClients
<1>1. UNCHANGED <<hubVars, live, request>>
  BY DEF CaptainStep, GenerateTeams, LoadMoreTeams, StartVoting, SelectOption, EndVoting, AskedBy
<1> QED
  BY <1>1 DEF Typed, LiveTyped, FoundIsThere, SameClients, IsIn

LEMMA ActionTypes ==
  ASSUME Typed, NEW h \in Handler, ActionStep(h)
  PROVE  Typed' /\ SameClients
<1>1. /\ UNCHANGED <<hubVars, request>>
      /\ live' = live \/ live' = [live EXCEPT ![Here] = LobbyState(Here)]
  BY DEF ActionStep, ProposeAction, ReadPendingAction, CancelPendingAction, FindObject,
         SetPendingAction, ApprovePendingAction, ApprovalRefused, MarkApproval, ClearPendingAction, vars
<1>2. CASE live' = live
  BY <1>1, <1>2 DEF Typed, LiveTyped, FoundIsThere, SameClients, IsIn
<1>3. CASE live' = [live EXCEPT ![Here] = LobbyState(Here)]
  BY <1>1, <1>3, ObjectFound DEF Typed, LiveTyped, FoundIsThere, SameClients
<1> QED
  BY <1>1, <1>2, <1>3

LEMMA HubTypes ==
  ASSUME Typed, Agree, HubStep
  PROVE  Typed'
<1>a. Here \in Lobby
  BY LobbyLiveAssumption
<1>b. \A x \in LiveObject(Ballot) : \A d \in Client :
        /\ [x EXCEPT !.clients = @ \ {d}] \in LiveObject(Ballot)
        /\ [x EXCEPT !.clients = @ \cup {d}] \in LiveObject(Ballot)
  BY DEF LiveObject
<1>c. \A l, d : d \in Client => Without(l, d) \in [Lobby -> LiveObject(Ballot) \cup {Nil}]
  <2> SUFFICES ASSUME NEW l, NEW d \in Client
               PROVE  Without(l, d) \in [Lobby -> LiveObject(Ballot) \cup {Nil}]
    OBVIOUS
  <2>1. CASE l \notin Lobby
    BY <2>1, NilIsNone DEF Without, Typed, LiveTyped
  <2>2. CASE l \in Lobby
    BY <2>2, <1>b, NilIsNone DEF Without, Typed, LiveTyped
  <2> QED
    BY <2>1, <2>2
<1>1. live' \in [Lobby -> LiveObject(Ballot) \cup {Nil}]
  <2>1. ASSUME NEW c \in Client, Unregister(c)
        PROVE  live' \in [Lobby -> LiveObject(Ballot) \cup {Nil}]
    BY <2>1, <1>c DEF Unregister, Typed, LiveTyped
  <2>2. ASSUME NEW c \in Client, LeaveOld(c)
        PROVE  live' \in [Lobby -> LiveObject(Ballot) \cup {Nil}]
    BY <2>2, <1>c DEF LeaveOld, Typed, LiveTyped
  <2>3. CASE EnterNew
    <3>1. hub.client \in Client /\ hub.lobby \in Lobby
      BY <2>3 DEF EnterNew, Agree, HubKnows, HubTyped
    <3>2. LobbyState(hub.lobby) \in LiveObject(Ballot)
      BY <3>1 DEF LobbyState, NewLobbyState, LiveObject, Typed, LiveTyped
    <3> QED
      BY <2>3, <3>1, <3>2, <1>b DEF EnterNew, Typed, LiveTyped
  <2>4. ASSUME live' = live PROVE live' \in [Lobby -> LiveObject(Ballot) \cup {Nil}]
    BY <2>4 DEF Typed, LiveTyped
  <2> QED
    BY <2>1, <2>2, <2>3, <2>4 DEF HubStep, HubNext, Register, Cut, ReadEnds, HandleMessage
<1>2. request' \in [Request -> Work \cup {Nil}]
  <2>1. \A x \in Work : [x EXCEPT !.at = "orphan"] \in Work
    BY DEF Work
  <2> QED
    BY <2>1 DEF HubStep, RequestsGoOn, Typed, LiveTyped
<1>3. FoundIsThere'
  <2> SUFFICES ASSUME NEW q \in Request, request'[q] # Nil, request'[q].at = "toggle",
                      live'[Here] = Nil
               PROVE  FALSE
    BY DEF FoundIsThere
  <2>1. CASE request[q] # Nil /\ request[q].at = "toggle" /\ live[Here] # Nil
    <3>1. request'[q] = [request[q] EXCEPT !.at = "orphan"]
      BY <2>1 DEF HubStep, RequestsGoOn
    <3>2. request[q] \in Work
      BY <2>1 DEF Typed, LiveTyped
    <3> QED
      BY <3>1, <3>2 DEF Work
  <2>2. CASE ~(request[q] # Nil /\ request[q].at = "toggle" /\ live[Here] # Nil)
    <3>1. request'[q] = request[q]
      BY <2>2 DEF HubStep, RequestsGoOn
    <3> QED
      BY <3>1, <2>2 DEF Typed, FoundIsThere
  <2> QED
    BY <2>1, <2>2
<1> QED
  BY <1>1, <1>2, <1>3 DEF Typed, LiveTyped

\* A departure takes the client out of its lobby and touches nobody else.
LEMMA OneLess ==
  ASSUME Typed, Agree, NEW c \in Client, NEW l \in Lobby \cup {Nil}, live' = Without(l, c)
  PROVE  \A d \in Client, k \in Lobby : IsIn(d, k)' <=> IsIn(d, k) /\ ~(d = c /\ k = l)
<1> USE NilIsNone DEF Typed, LiveTyped, IsIn, Without
<1>1. CASE l = Nil \/ live[l] = Nil
  BY <1>1
<1>2. CASE l # Nil /\ live[l] # Nil
  <2>1. l \in Lobby /\ live[l] \in LiveObject(Ballot)
    BY <1>2
  <2>2. CASE live[l].clients \subseteq {c}
    BY <1>2, <2>1, <2>2
  <2>3. CASE ~(live[l].clients \subseteq {c})
    <3> DEFINE x == [live[l] EXCEPT !.clients = @ \ {c}]
    <3>1. x.clients = live[l].clients \ {c} /\ x \in LiveObject(Ballot)
      BY <2>1 DEF LiveObject
    <3>2. live' = [live EXCEPT ![l] = x]
      BY <1>2, <2>3
    <3> HIDE DEF x
    <3> QED
      BY <2>1, <3>1, <3>2
  <2> QED
    BY <2>2, <2>3
<1> QED
  BY <1>1, <1>2

-----------------------------------------------------------------------------
\* The two properties in terms of IsIn.
Reaches ==
  \A c \in clients : hub.client # c => \A l \in Lobby : lobbyID[c] = l <=> IsIn(c, l)

Registers == \A c \in Client, l \in Lobby : IsIn(c, l) => c \in clients

LEMMA AgreeParts ==
  /\ JoinedIsReachable <=> Reaches
  /\ JoinedIsReachable' <=> Reaches'
  /\ LiveTyped => (LiveIsRegistered <=> Registers)
  /\ LiveTyped' => (LiveIsRegistered' <=> Registers')
<1>1. JoinedIsReachable <=> Reaches
  BY DEF JoinedIsReachable, Reaches, IsIn
<1>2. JoinedIsReachable' <=> Reaches'
  BY DEF JoinedIsReachable, Reaches, IsIn
<1>3. LiveTyped => (LiveIsRegistered <=> Registers)
  BY DEF LiveIsRegistered, Registers, IsIn, LiveTyped, LiveObject
<1>4. LiveTyped' => (LiveIsRegistered' <=> Registers')
  BY DEF LiveIsRegistered, Registers, IsIn, LiveTyped, LiveObject
<1> QED
  BY <1>1, <1>2, <1>3, <1>4

LEMMA SameAgree ==
  ASSUME Typed, Typed', Agree, SameClients
  PROVE  Agree'
<1>1. UNCHANGED <<hub, clients, pump, lobbyID>>
  BY DEF SameClients, hubVars
<1>2. \A c, l : l \in Lobby => (IsIn(c, l) <=> IsIn(c, l)')
  BY DEF SameClients
<1>3. HubTyped' /\ HubKnows'
  BY <1>1, <1>2 DEF Agree, HubTyped, HubKnows
<1>4. JoinedIsReachable'
  BY <1>1, <1>2, AgreeParts DEF Agree, Reaches
<1>5. LiveIsRegistered'
  BY <1>1, <1>2, AgreeParts DEF Agree, Typed, Registers
<1> QED
  BY <1>3, <1>4, <1>5 DEF Agree

LEMMA HubAgree ==
  ASSUME Typed, Typed', Agree, HubNext
  PROVE  Agree'
<1>a. /\ clients \subseteq Client
      /\ pump \in [Client -> {"new", "reading", "joining", "leaving", "ended"}]
      /\ lobbyID \in [Client -> Lobby \cup {Nil}]
  BY DEF Agree, HubTyped
<1>b. /\ \A c \in clients : hub.client # c => \A l \in Lobby : lobbyID[c] = l <=> IsIn(c, l)
      /\ \A c \in Client, l \in Lobby : IsIn(c, l) => c \in clients
  BY AgreeParts DEF Agree, Typed, Reaches, Registers
<1>c. HubKnows
  BY DEF Agree
<1> SUFFICES HubTyped' /\ HubKnows' /\ Reaches' /\ Registers'
  BY AgreeParts DEF Agree, Typed
<1> USE NilIsNone DEF Reaches, Registers
<1>1. ASSUME NEW c \in Client, Register(c) PROVE HubTyped' /\ HubKnows' /\ Reaches' /\ Registers'
  <2>1. HubTyped'
    BY <1>1, <1>a DEF Register, HubTyped
  <2>2. \A d, l : IsIn(d, l)' <=> IsIn(d, l)
    BY <1>1 DEF Register, IsIn
  <2>3. HubKnows'
    BY <1>1, <1>a, <1>c, <2>2 DEF Register, HubKnows
  <2>4. Registers'
    BY <1>1, <1>b, <2>2 DEF Register
  <2>5. c \notin clients /\ lobbyID[c] = Nil
    BY <1>1, <1>c DEF Register, HubKnows
  <2>6. \A l \in Lobby : ~IsIn(c, l)
    BY <2>5, <1>b
  <2>7. Reaches'
    BY <1>1, <1>b, <2>2, <2>5, <2>6 DEF Register
  <2> QED
    BY <2>1, <2>3, <2>4, <2>7
<1>2. ASSUME NEW c \in Client, Unregister(c) PROVE HubTyped' /\ HubKnows' /\ Reaches' /\ Registers'
  <2>1. hub.at = "select" /\ hub.client = Nil /\ hub' = hub
    BY <1>2, <1>c DEF Unregister, HubKnows
  <2>2. c \in clients /\ lobbyID[c] \in Lobby \cup {Nil} /\ lobbyID' = lobbyID
    BY <1>2, <1>a, <1>c DEF Unregister, HubKnows
  <2>3. \A d \in Client, k \in Lobby : IsIn(d, k)' <=> IsIn(d, k) /\ ~(d = c /\ k = lobbyID[c])
    BY <1>2, <2>2, OneLess DEF Unregister
  <2>4. \A k \in Lobby : ~IsIn(c, k)'
    BY <1>b, <2>1, <2>2, <2>3
  <2>5. HubTyped'
    BY <1>2, <1>a DEF Unregister, HubTyped
  <2>6. HubKnows'
    BY <1>2, <1>a, <1>c, <2>1 DEF Unregister, HubKnows
  <2>7. Registers'
    BY <1>2, <1>b, <2>3, <2>4 DEF Unregister
  <2>8. Reaches'
    BY <1>2, <1>a, <1>b, <2>1, <2>2, <2>3 DEF Unregister
  <2> QED
    BY <2>5, <2>6, <2>7, <2>8
<1>3. ASSUME NEW c \in Client, LeaveOld(c) PROVE HubTyped' /\ HubKnows' /\ Reaches' /\ Registers'
  <2>1. hub.at = "select" /\ hub.client = Nil /\ clients' = clients /\ lobbyID' = lobbyID
    BY <1>3, <1>c DEF LeaveOld, HubKnows
  <2>2. c \in clients /\ lobbyID[c] \in Lobby \cup {Nil}
    BY <1>3, <1>a, <1>c DEF LeaveOld, HubKnows
  <2>3. HubTyped'
    BY <1>3, <1>a DEF LeaveOld, HubTyped
  <2>4. CASE hub' = hub /\ live' = live
    <3>1. \A d, l : IsIn(d, l)' <=> IsIn(d, l)
      BY <2>4 DEF IsIn
    <3>2. HubKnows'
      BY <1>3, <1>a, <1>c, <2>1, <2>4 DEF LeaveOld, HubKnows
    <3> QED
      BY <3>1, <3>2, <1>b, <2>1, <2>3, <2>4
  <2>5. CASE /\ wish[c] \in Lobby /\ hub' = [at |-> "enter", client |-> c, lobby |-> wish[c]]
             /\ live' = IF lobbyID[c] = wish[c] THEN live ELSE Without(lobbyID[c], c)
    <3>1. \A d \in Client, k \in Lobby :
            IsIn(d, k)' <=> IsIn(d, k) /\ ~(d = c /\ k = lobbyID[c] /\ k # wish[c])
      <4>1. CASE lobbyID[c] = wish[c]
        BY <2>5, <4>1 DEF IsIn
      <4>2. CASE lobbyID[c] # wish[c]
        BY <2>2, <2>5, <4>2, OneLess
      <4> QED
        BY <4>1, <4>2
    <3>2. \A l \in Lobby \ {wish[c]} : ~IsIn(c, l)'
      BY <3>1, <1>b, <2>1, <2>2
    <3>3. HubKnows'
      BY <1>3, <1>a, <1>c, <2>1, <2>2, <2>5, <3>2 DEF LeaveOld, HubKnows
    <3>4. Registers'
      BY <3>1, <1>b, <2>1
    <3>5. Reaches'
      BY <3>1, <1>a, <1>b, <2>1, <2>5
    <3> QED
      BY <2>3, <3>3, <3>4, <3>5
  <2> QED
    BY <1>3, <2>4, <2>5 DEF LeaveOld
<1>4. CASE EnterNew
  <2> DEFINE c == hub.client
             x == [LobbyState(hub.lobby) EXCEPT !.clients = @ \cup {c}]
  <2>1. c \in clients /\ c \in Client /\ hub.lobby \in Lobby
    BY <1>4, <1>a, <1>c DEF EnterNew, HubKnows
  <2>2. \A l \in Lobby \ {hub.lobby} : ~IsIn(c, l)
    BY <1>4, <1>c DEF EnterNew, HubKnows
  <2>3. LobbyState(hub.lobby) \in LiveObject(Ballot)
    BY <2>1 DEF LobbyState, NewLobbyState, LiveObject, Typed, LiveTyped
  <2>4. x \in LiveObject(Ballot) /\ x.clients = LobbyState(hub.lobby).clients \cup {c}
    BY <2>1, <2>3 DEF LiveObject
  <2>5. LobbyState(hub.lobby).clients = {d \in Client : IsIn(d, hub.lobby)}
    BY <2>1 DEF LobbyState, NewLobbyState, IsIn, Typed, LiveTyped, LiveObject
  <2>6. live' = [live EXCEPT ![hub.lobby] = x]
    BY <1>4 DEF EnterNew
  <2> HIDE DEF x
  <2>7. \A d \in Client, k \in Lobby : IsIn(d, k)' <=> IsIn(d, k) \/ (d = c /\ k = hub.lobby)
    BY <2>1, <2>4, <2>5, <2>6 DEF IsIn, Typed, LiveTyped
  <2>8. HubTyped'
    BY <1>4, <1>a, <2>1 DEF EnterNew, HubTyped
  <2>9. pump[c] # "new"
    BY <1>c, <2>1 DEF HubKnows
  <2>10. HubKnows'
    BY <1>4, <1>a, <1>c, <2>1, <2>9 DEF EnterNew, HubKnows
  <2>11. Registers'
    BY <1>4, <1>b, <2>1, <2>7 DEF EnterNew
  <2>12. Reaches'
    BY <1>4, <1>a, <1>b, <2>1, <2>2, <2>7 DEF EnterNew
  <2> QED
    BY <2>8, <2>10, <2>11, <2>12
<1>5. ASSUME NEW c \in Client, Cut(c) \/ ReadEnds(c) \/ \E l \in LobbyID : HandleMessage(c, l)
      PROVE  HubTyped' /\ HubKnows' /\ Reaches' /\ Registers'
  <2>1. /\ UNCHANGED <<hub, clients, lobbyID, live>>
        /\ \/ pump' = pump
           \/ pump[c] = "reading" /\ pump' \in {[pump EXCEPT ![c] = "leaving"],
                                                [pump EXCEPT ![c] = "joining"]}
    BY <1>5 DEF Cut, ReadEnds, HandleMessage
  <2>2. \A d, l : IsIn(d, l)' <=> IsIn(d, l)
    BY <2>1 DEF IsIn
  <2>3. HubTyped' /\ HubKnows'
    BY <1>a, <1>c, <2>1, <2>2 DEF HubTyped, HubKnows
  <2> QED
    BY <1>b, <2>1, <2>2, <2>3
<1> QED
  BY <1>1, <1>2, <1>3, <1>4, <1>5 DEF HubNext

-----------------------------------------------------------------------------
LEMMA InitInv == PendingInit => Inv
<1> SUFFICES ASSUME PendingInit PROVE Inv
  OBVIOUS
<1> USE NilIsNone DEF PendingInit, Init, HubInit
<1>1. Typed
  BY DEF Typed, LiveTyped, FoundIsThere
<1>2. HubTyped /\ HubKnows
  BY DEF HubTyped, HubKnows, IsIn
<1>3. JoinedIsReachable /\ LiveIsRegistered
  BY DEF JoinedIsReachable, LiveIsRegistered
<1> QED
  BY <1>1, <1>2, <1>3 DEF Inv, Agree

LEMMA InvStep == Inv /\ [PendingNext]_pendingVars => Inv'
<1> SUFFICES ASSUME Inv, [PendingNext]_pendingVars PROVE Inv'
  OBVIOUS
<1>1. CASE HubStep
  BY <1>1, HubTypes, HubAgree DEF HubStep, Inv
<1>2. ASSUME Typed', SameClients PROVE Inv'
  BY <1>2, SameAgree DEF Inv
<1>3. ASSUME NEW q \in Request, VoteStep(q) PROVE Inv'
  BY <1>2, <1>3, VoteTypes DEF Inv
<1>4. ASSUME NEW u \in Player, CaptainStep(u) PROVE Inv'
  BY <1>2, <1>4, CaptainTypes DEF Inv
<1>5. ASSUME NEW h \in Handler, ActionStep(h) PROVE Inv'
  BY <1>2, <1>5, ActionTypes DEF Inv
<1>6. ASSUME UNCHANGED vars PROVE Inv'
  <2>1. UNCHANGED <<hubVars, live, request>>
    BY <1>6 DEF vars
  <2> QED
    BY <1>2, <2>1 DEF Inv, Typed, LiveTyped, FoundIsThere, SameClients, IsIn
<1>7. ASSUME NEW i \in ID, ActionExpires(i) PROVE Inv'
  BY <1>6, <1>7 DEF ActionExpires
<1> QED
  BY <1>1, <1>3, <1>4, <1>5, <1>6, <1>7 DEF PendingNext, Next, pendingVars

-----------------------------------------------------------------------------
LEMMA Invariance == PendingSpec => []Inv
BY InitInv, InvStep, PTL DEF PendingSpec

\* A registered client is in the live object of the lobby it joined, and in no
\* other, although objects are deleted and made again by the hub and by handlers.
THEOREM Reachable == PendingSpec => []JoinedIsReachable
<1>1. Inv => JoinedIsReachable
  BY DEF Inv, Agree
<1> QED
  BY <1>1, Invariance, PTL

\* A live object has registered clients only: no broadcast goes to a socket that
\* the hub has forgotten.
THEOREM Registered == PendingSpec => []LiveIsRegistered
<1>1. Inv => LiveIsRegistered
  BY DEF Inv, Agree
<1> QED
  BY <1>1, Invariance, PTL

-----------------------------------------------------------------------------
(* The options: replaced or added to, never edited.                        *)

ChoiceInv == OptionsInv /\ (status = "matchmaking" => options # << >>)

LEMMA NoOptions == options = << >> => OptionsInv
<1> SUFFICES ASSUME options = << >> PROVE OptionsInv
  OBVIOUS
<1>1. DOMAIN options = {} /\ options \in Seq(OptionRow)
  OBVIOUS
<1> QED
  BY <1>1 DEF OptionsInv, OptionsDiffer, ThresholdIsHonest, BestComfortOffered

LEMMA OptionsStep ==
  ASSUME [PendingNext]_pendingVars
  PROVE  \/ options' = options /\ (status' = status \/ status' # "matchmaking")
         \/ GenerateMatchOptions
         \/ status = "matchmaking" /\ GenerateMoreMatchOptions
<1>1. CASE HubStep
  BY <1>1 DEF HubStep, RequestsGoOn, dbVars
<1>2. ASSUME NEW q \in Request, VoteStep(q) PROVE UNCHANGED <<options, status>>
  BY <1>2 DEF VoteStep, ReadVote, WriteVote, FindState, ToggleVote, dbVars
<1>3. ASSUME NEW u \in Player, CaptainStep(u)
      PROVE  \/ options' = options /\ (status' = status \/ status' # "matchmaking")
             \/ GenerateMatchOptions
             \/ status = "matchmaking" /\ GenerateMoreMatchOptions
  BY <1>3 DEF CaptainStep, GenerateTeams, LoadMoreTeams, StartVoting, SelectOption, EndVoting, Select
<1>4. ASSUME NEW h \in Handler, ActionStep(h)
      PROVE  \/ options' = options /\ (status' = status \/ status' # "matchmaking")
             \/ GenerateMatchOptions
  BY <1>4 DEF ActionStep, ProposeAction, ReadPendingAction, CancelPendingAction, FindObject,
              SetPendingAction, ApprovePendingAction, ExecutePendingAction, Select, ApprovalRefused,
              MarkApproval, ClearPendingAction, vars, dbVars
<1>5. ASSUME UNCHANGED vars PROVE UNCHANGED <<options, status>>
  BY <1>5 DEF vars, dbVars
<1> QED
  BY <1>1, <1>2, <1>3, <1>4, <1>5 DEF PendingNext, Next, ActionExpires, pendingVars

LEMMA SameOptions == OptionsInv /\ options' = options => OptionsInv'
  BY DEF OptionsInv, OptionsDiffer, ThresholdIsHonest, BestComfortOffered, Offered

LEMMA ChoiceStep == ChoiceInv /\ [PendingNext]_pendingVars => ChoiceInv'
<1> SUFFICES ASSUME ChoiceInv, [PendingNext]_pendingVars PROVE ChoiceInv'
  OBVIOUS
<1>1. CASE options' = options /\ (status' = status \/ status' # "matchmaking")
  BY <1>1, SameOptions DEF ChoiceInv
<1>2. CASE GenerateMatchOptions
  BY <1>2, GenerateKeepsOptions DEF SomeOptions, ChoiceInv
<1>3. CASE status = "matchmaking" /\ GenerateMoreMatchOptions
  BY <1>3, LoadMoreKeepsOptions DEF SomeOptions, ChoiceInv
<1> QED
  BY <1>1, <1>2, <1>3, OptionsStep

LEMMA InitChoice == PendingInit => ChoiceInv
<1> SUFFICES ASSUME PendingInit PROVE ChoiceInv
  OBVIOUS
<1>1. CASE options = << >> /\ status = "waiting_for_players"
  BY <1>1, NoOptions DEF ChoiceInv
<1>2. CASE options \in FirstOptions
  BY <1>2, FirstBatch DEF IsFirstBatch, SomeOptions, ChoiceInv
<1> QED
  BY <1>1, <1>2 DEF PendingInit, Init

LEMMA ChoiceInvariance == PendingSpec => []ChoiceInv
BY InitChoice, ChoiceStep, PTL DEF PendingSpec

\* However often options are generated anew and more of them loaded, by captains'
\* requests or agreed actions, no lineup is offered twice.
THEOREM NoOptionTwice == PendingSpec => []OptionsDiffer
<1>1. ChoiceInv => OptionsDiffer
  BY DEF ChoiceInv, OptionsInv
<1> QED
  BY <1>1, ChoiceInvariance, PTL

\* The threshold shown with an option is met, and the first batch needed its own.
THEOREM HonestThresholds == PendingSpec => []ThresholdIsHonest
<1>1. ChoiceInv => ThresholdIsHonest
  BY DEF ChoiceInv, OptionsInv
<1> QED
  BY <1>1, ChoiceInvariance, PTL

\* Comfort first over all batches: what scores better than an offered lineup and
\* meets its threshold is offered too.
THEOREM ComfortFirst == PendingSpec => []BestComfortOffered
<1>1. ChoiceInv => BestComfortOffered
  BY DEF ChoiceInv, OptionsInv
<1> QED
  BY <1>1, ChoiceInvariance, PTL

-----------------------------------------------------------------------------
(* Types.                                                                  *)

RestTyped ==
  /\ hub \in [at : {"select", "enter"}, client : Client \cup {Nil}, lobby : Lobby \cup {Nil}]
  /\ wish \in [Client -> LobbyID \cup {Nil}]
  /\ open \in [Client -> BOOLEAN]
  /\ left \in 0 .. MaxRequests

ChoiceTyped ==
  /\ status \in {"waiting_for_players", "matchmaking", "team_selected", "drafting"}
  /\ selected \in Nat \cup {Nil}
  /\ mode \in VotingMode
  /\ enabled \in BOOLEAN

\* The votes that are about to make a row of b.
Writers(b) ==
  {q \in Request : request[q] # Nil /\ request[q].ballot = b
                   /\ request[q].at = "write" /\ ~request[q].voted}

VotesFit ==
  /\ votes \in [Ballot -> Nat]
  /\ \A b \in Ballot : votes[b] + Cardinality(Writers(b)) <= Cardinality(Request)

ActionTyped ==
  /\ pending \in ActionRow \cup {Nil}
  /\ shown \in Copy \cup {Nil}
  /\ asked \in [Handler -> Asked \cup {Nil}]
  /\ live[Here] = Nil => shown = Nil
  /\ \A h \in Handler : asked[h] # Nil /\ asked[h].at = "set" => live[Here] # Nil

LEMMA NoRequest == Nil \notin ActionRow /\ Nil \notin Copy /\ Nil \notin Asked
BY LobbyPendingAssumption

LEMMA FewerLeft ==
  ASSUME left \in 0 .. MaxRequests, left > 0, left' = left - 1
  PROVE  left' \in 0 .. MaxRequests
BY LobbyHubAssumption

LEMMA RestStep ==
  ASSUME RestTyped, Agree, [PendingNext]_pendingVars
  PROVE  RestTyped'
<1>1. CASE HubStep
  <2>1. \A c \in Client : lobbyID[c] \in Lobby \cup {Nil}
    BY DEF Agree, HubTyped
  <2>2. ASSUME NEW c \in Client, Register(c) \/ Unregister(c) \/ Cut(c) \/ ReadEnds(c)
        PROVE  RestTyped'
    <3>1. UNCHANGED <<hub, wish, left>> /\ open' \in [Client -> BOOLEAN]
      BY <2>2 DEF Register, Unregister, Cut, ReadEnds, RestTyped
    <3> QED
      BY <3>1 DEF RestTyped
  <2>3. ASSUME NEW c \in Client, LeaveOld(c) PROVE RestTyped'
    <3>1. UNCHANGED <<open, left>> /\ wish' = [wish EXCEPT ![c] = Nil]
      BY <2>3 DEF LeaveOld
    <3>2. hub' = hub \/ (wish[c] \in Lobby /\ hub' = [at |-> "enter", client |-> c, lobby |-> wish[c]])
      BY <2>3 DEF LeaveOld
    <3> QED
      BY <3>1, <3>2 DEF RestTyped
  <2>4. ASSUME NEW c \in Client, NEW l \in LobbyID, HandleMessage(c, l)
        PROVE  RestTyped'
    <3>1. left' \in 0 .. MaxRequests
      BY <2>4, FewerLeft DEF HandleMessage, RestTyped
    <3> QED
      BY <2>4, <3>1 DEF HandleMessage, RestTyped
  <2>5. CASE EnterNew
    BY <2>5 DEF EnterNew, RestTyped
  <2> QED
    BY <1>1, <2>2, <2>3, <2>4, <2>5 DEF HubStep, HubNext
<1>2. ASSUME hubVars' = hubVars, left' = left \/ (left > 0 /\ left' = left - 1)
      PROVE  RestTyped'
  <2>1. left' \in 0 .. MaxRequests
    BY <1>2, FewerLeft DEF RestTyped
  <2>2. UNCHANGED <<hub, wish, open>>
    BY <1>2 DEF hubVars
  <2> QED
    BY <2>1, <2>2 DEF RestTyped
<1>3. ASSUME NEW q \in Request, VoteStep(q) PROVE RestTyped'
  <2>1. hubVars' = hubVars /\ (left' = left \/ (left > 0 /\ left' = left - 1))
    BY <1>3 DEF VoteStep, ReadVote, WriteVote, FindState, ToggleVote
  <2> QED
    BY <1>2, <2>1
<1>4. ASSUME NEW u \in Player, CaptainStep(u) PROVE RestTyped'
  <2>1. hubVars' = hubVars /\ left > 0 /\ left' = left - 1
    BY <1>4 DEF CaptainStep, GenerateTeams, LoadMoreTeams, StartVoting, SelectOption, EndVoting, AskedBy
  <2> QED
    BY <1>2, <2>1
<1>5. ASSUME NEW h \in Handler, ActionStep(h) PROVE RestTyped'
  <2>1. hubVars' = hubVars /\ (left' = left \/ (left > 0 /\ left' = left - 1))
    BY <1>5 DEF ActionStep, ProposeAction, ReadPendingAction, CancelPendingAction, FindObject, Asks,
              SetPendingAction, ApprovePendingAction, ApprovalRefused, MarkApproval, ClearPendingAction, vars
  <2> QED
    BY <1>2, <2>1
<1>6. ASSUME UNCHANGED vars PROVE RestTyped'
  <2>1. hubVars' = hubVars /\ left' = left
    BY <1>6 DEF vars
  <2> QED
    BY <1>2, <2>1
<1> QED
  BY <1>1, <1>3, <1>4, <1>5, <1>6 DEF PendingNext, Next, ActionExpires, pendingVars

LEMMA ChoiceTypes ==
  ASSUME ChoiceTyped, ChoiceInv, [PendingNext]_pendingVars
  PROVE  ChoiceTyped'
<1>1. DOMAIN options \subseteq Nat
  BY DEF ChoiceInv, OptionsInv
<1>2. ASSUME NEW n, Select(n), UNCHANGED <<mode, enabled>> PROVE ChoiceTyped'
  BY <1>1, <1>2 DEF Select, ChoiceTyped
<1>3. ASSUME UNCHANGED <<status, selected, mode, enabled>> PROVE ChoiceTyped'
  BY <1>3 DEF ChoiceTyped
<1>4. CASE HubStep
  BY <1>3, <1>4 DEF HubStep, RequestsGoOn, dbVars
<1>5. ASSUME NEW q \in Request, VoteStep(q) PROVE ChoiceTyped'
  BY <1>3, <1>5 DEF VoteStep, ReadVote, WriteVote, FindState, ToggleVote, dbVars
<1>6. ASSUME NEW u \in Player, CaptainStep(u) PROVE ChoiceTyped'
  <2>1. CASE \E n \in DOMAIN options : SelectOption(u, n)
    BY <1>2, <2>1 DEF SelectOption, AskedBy
  <2>2. CASE \E force \in {b[2] : b \in Ballot} \cup {Nil} : EndVoting(u, force)
    BY <1>2, <2>2 DEF EndVoting, AskedBy
  <2>3. CASE GenerateTeams(u) \/ LoadMoreTeams(u) \/ StartVoting(u)
    BY <2>3 DEF GenerateTeams, LoadMoreTeams, StartVoting, AskedBy, ChoiceTyped
  <2> QED
    BY <1>6, <2>1, <2>2, <2>3 DEF CaptainStep
<1>7. ASSUME NEW h \in Handler, ActionStep(h) PROVE ChoiceTyped'
  <2>1. CASE ApprovePendingAction(h)
    <3>1. CASE Select(pending.what.option) /\ UNCHANGED options
      BY <1>2, <2>1, <3>1 DEF ApprovePendingAction
    <3>2. CASE UNCHANGED <<status, selected>> \/ (status' \in {"matchmaking", "drafting"} /\ UNCHANGED selected)
      BY <2>1, <3>2 DEF ApprovePendingAction, ChoiceTyped
    <3> QED
      BY <2>1, <3>1, <3>2 DEF ApprovePendingAction, ExecutePendingAction
  <2>2. CASE ~ApprovePendingAction(h)
    BY <1>3, <1>7, <2>2 DEF ActionStep, ProposeAction, ReadPendingAction, CancelPendingAction, FindObject,
              SetPendingAction, ApprovalRefused, MarkApproval, ClearPendingAction, vars, dbVars
  <2> QED
    BY <2>1, <2>2
<1>8. ASSUME UNCHANGED vars PROVE ChoiceTyped'
  BY <1>3, <1>8 DEF vars, dbVars
<1> QED
  BY <1>4, <1>5, <1>6, <1>7, <1>8 DEF PendingNext, Next, ActionExpires, pendingVars

LEMMA SomeRequests ==
  ASSUME NEW W \in SUBSET Request
  PROVE  IsFiniteSet(W) /\ Cardinality(W) \in Nat /\ Cardinality(W) <= Cardinality(Request)
BY LobbyLiveAssumption, FS_Subset, FS_CardinalityType

LEMMA VotesFitStep ==
  ASSUME VotesFit, Typed, [PendingNext]_pendingVars
  PROVE  VotesFit'
<1> USE NilIsNone
<1>a. \A b : Writers(b) \in SUBSET Request /\ Writers(b)' \in SUBSET Request
  BY DEF Writers
<1>b. /\ Cardinality(Request) \in Nat
      /\ \A b : Cardinality(Writers(b)) \in Nat /\ Cardinality(Writers(b)') \in Nat
      /\ \A b : Cardinality(Writers(b)') <= Cardinality(Request)
  <2>1. Request \in SUBSET Request
    OBVIOUS
  <2> QED
    BY <1>a, <2>1, SomeRequests
<1>c. request \in [Request -> Work \cup {Nil}]
  BY DEF Typed, LiveTyped
<1>d. votes \in [Ballot -> Nat]
  BY DEF VotesFit
<1>1. ASSUME votes' = votes, \A q \in Request, b \in Ballot : q \in Writers(b)' <=> q \in Writers(b)
      PROVE  VotesFit'
  <2>1. \A b \in Ballot : Writers(b)' = Writers(b)
    BY <1>1, <1>a
  <2> QED
    BY <1>1, <2>1 DEF VotesFit
<1>2. ASSUME votes' = [b \in Ballot |-> 0] PROVE VotesFit'
  BY <1>2, <1>b DEF VotesFit
<1>3. ASSUME votes' = votes, request' = request PROVE VotesFit'
  BY <1>1, <1>3 DEF Writers
<1>4. CASE HubStep
  <2>1. \A q \in Request, b \in Ballot : q \in Writers(b)' <=> q \in Writers(b)
    <3>1. \A q \in Request :
            \/ request'[q] = request[q]
            \/ /\ request[q] # Nil /\ request[q].at = "toggle"
               /\ request'[q] = [request[q] EXCEPT !.at = "orphan"]
      BY <1>4, <1>c DEF HubStep, RequestsGoOn
    <3> QED
      BY <3>1, <1>c DEF Writers, Work
  <2> QED
    BY <1>1, <1>4, <2>1 DEF HubStep, RequestsGoOn, dbVars
<1>5. ASSUME NEW q \in Request, NEW b \in Ballot, ReadVote(q, b) PROVE VotesFit'
  <2> DEFINE w == [ballot |-> b, at |-> "write", voted |-> votes[b] > 0]
  <2>1. request' = [request EXCEPT ![q] = w] /\ votes' = votes /\ request[q] = Nil
    BY <1>5 DEF ReadVote, dbVars
  <2>2. w \in Work /\ w # Nil
    <3>1. w \in Work
      BY DEF Work
    <3> QED
      BY <3>1
  <2>3. \A c \in Ballot : c # b => Writers(c)' = Writers(c)
    BY <1>c, <2>1, <2>2 DEF Writers
  <2>4. CASE votes[b] > 0
    BY <1>1, <1>c, <2>1, <2>2, <2>4 DEF Writers
  <2>5. CASE votes[b] = 0
    BY <1>b, <2>1, <2>3, <2>5 DEF VotesFit
  <2> QED
    BY <1>d, <2>4, <2>5
<1>6. ASSUME NEW q \in Request, WriteVote(q) PROVE VotesFit'
  <2>0. request[q] \in Work
    BY <1>6, <1>c DEF WriteVote
  <2>2. PICK b \in Ballot : b = request[q].ballot
    BY <2>0 DEF Work
  <2>1. /\ request[q] # Nil /\ request[q].at = "write"
        /\ request' = [request EXCEPT ![q].at = "find"]
        /\ votes' = [votes EXCEPT ![b] = IF request[q].voted THEN 0 ELSE @ + 1]
    BY <1>6, <2>2 DEF WriteVote
  <2>3. request'[q] # Nil /\ request'[q].at = "find"
    BY <1>c, <2>0, <2>1 DEF Work
  <2>4. \A c \in Ballot : c # b => Writers(c)' = Writers(c)
    BY <1>c, <2>1, <2>2, <2>3 DEF Writers
  <2>5. CASE request[q].voted
    <3>1. votes' \in [Ballot -> Nat] /\ votes'[b] = 0 /\ \A c \in Ballot : c # b => votes'[c] = votes[c]
      BY <1>d, <2>1, <2>2, <2>5
    <3> QED
      BY <1>b, <2>4, <3>1 DEF VotesFit
  <2>6. CASE ~request[q].voted
    <3>1. /\ votes' \in [Ballot -> Nat] /\ votes'[b] = votes[b] + 1
          /\ \A c \in Ballot : c # b => votes'[c] = votes[c]
      BY <1>d, <2>1, <2>2, <2>6
    <3>2. Writers(b)' = Writers(b) \ {q} /\ q \in Writers(b)
      BY <1>c, <2>1, <2>2, <2>3, <2>6 DEF Writers
    <3>3. Cardinality(Writers(b)') = Cardinality(Writers(b)) - 1
      BY <1>a, <3>2, SomeRequests, FS_RemoveElement
    <3>4. votes'[b] + Cardinality(Writers(b)') <= Cardinality(Request)
      <4>1. votes[b] + Cardinality(Writers(b)) <= Cardinality(Request) /\ votes[b] \in Nat
        BY <1>d, <2>2 DEF VotesFit
      <4>2. Cardinality(Writers(b)) \in Nat
        BY <1>b
      <4> QED
        BY <1>b, <3>1, <3>3, <4>1, <4>2
    <3>5. \A c \in Ballot : c # b => votes'[c] + Cardinality(Writers(c)') <= Cardinality(Request)
      BY <2>4, <3>1 DEF VotesFit
    <3> QED
      BY <3>1, <3>4, <3>5 DEF VotesFit
  <2> QED
    BY <2>5, <2>6
<1>7. ASSUME NEW q \in Request, FindState(q) \/ ToggleVote(q) PROVE VotesFit'
  <2>1. /\ request[q] # Nil /\ request[q].at # "write" /\ votes' = votes
        /\ \/ request' = [request EXCEPT ![q].at = "toggle"]
           \/ request' = [request EXCEPT ![q] = Nil]
    BY <1>7 DEF FindState, ToggleVote, dbVars
  <2>2. request'[q] = Nil \/ request'[q].at = "toggle"
    BY <1>c, <2>1 DEF Work
  <2> QED
    BY <1>1, <1>c, <2>1, <2>2 DEF Writers
<1>8. ASSUME NEW u \in Player, CaptainStep(u) PROVE VotesFit'
  <2>1. request' = request /\ votes' \in {votes, [b \in Ballot |-> 0]}
    BY <1>8 DEF CaptainStep, GenerateTeams, LoadMoreTeams, StartVoting, SelectOption, EndVoting, AskedBy
  <2> QED
    BY <1>2, <1>3, <2>1
<1>9. ASSUME NEW h \in Handler, ActionStep(h) PROVE VotesFit'
  <2>1. request' = request /\ votes' = votes
    BY <1>9 DEF ActionStep, ProposeAction, ReadPendingAction, CancelPendingAction, FindObject,
         SetPendingAction, ApprovePendingAction, ApprovalRefused, MarkApproval, ClearPendingAction, vars, dbVars
  <2> QED
    BY <1>3, <2>1
<1>10. ASSUME UNCHANGED vars PROVE VotesFit'
  BY <1>3, <1>10 DEF vars, dbVars
<1> QED
  BY <1>4, <1>5, <1>6, <1>7, <1>8, <1>9, <1>10 DEF PendingNext, Next, VoteStep, ActionExpires, pendingVars

-----------------------------------------------------------------------------
(* Pending actions.                                                        *)

\* The numbers of the copy and of the other requests cannot be all there are.
LEMMA FreshFound ==
  ASSUME ActionTyped, pending = Nil, NEW h \in Handler, asked[h] = Nil
  PROVE  LET i == Min({j \in ID : Fresh(j)}) IN i \in ID /\ Fresh(i)
<1> DEFINE free == {j \in ID : Fresh(j)}
           g == [j \in ID |-> IF shown # Nil /\ shown.id = j THEN h
                              ELSE CHOOSE k \in Handler : asked[k] # Nil /\ asked[k].id = j]
<1> DEFINE n == Cardinality(Handler)
<1>1. n \in Nat /\ IsFiniteSet(Handler)
  BY LobbyPendingAssumption, FS_CardinalityType
<1>2. IsFiniteSet(ID) /\ n < Cardinality(ID) /\ ID \subseteq Nat
  <2>0. ID = 1 .. 2 + n
    BY DEF ID
  <2> HIDE DEF n
  <2>1. 1 \in Int /\ 2 + n \in Int
    BY <1>1
  <2>2. IsFiniteSet(1 .. 2 + n) /\ Cardinality(1 .. 2 + n) = IF 1 > 2 + n THEN 0 ELSE (2 + n) - 1 + 1
    BY <2>1, FS_Interval
  <2> QED
    BY <1>1, <2>0, <2>2
<1>3. ASSUME free = {} PROVE FALSE
  <2>1. \A j \in ID : ~(shown # Nil /\ shown.id = j) =>
          \E k \in Handler : asked[k] # Nil /\ asked[k].id = j
    BY <1>3 DEF Fresh
  <2>2. \A j \in ID : ~(shown # Nil /\ shown.id = j) =>
          g[j] \in Handler /\ asked[g[j]] # Nil /\ asked[g[j]].id = j
    BY <2>1
  <2>3. \A j \in ID : shown # Nil /\ shown.id = j => g[j] = h
    OBVIOUS
  <2>4. g \in [ID -> Handler]
    <3>1. \A j \in ID : g[j] \in Handler
      BY <2>2, <2>3
    <3> QED
      BY <3>1
  <2> HIDE DEF g
  <2>5. PICK x \in ID, y \in ID : x # y /\ g[x] = g[y]
    BY <1>1, <1>2, <2>4, FS_PigeonHole DEF n
  <2> QED
    BY <2>2, <2>3, <2>5
<1>4. free \subseteq Nat
  BY <1>2
<1>5. Min(free) \in free
  <2> HIDE DEF free
  <2> QED
    BY <1>3, <1>4, MinIsLeast
<1> QED
  BY <1>5

LEMMA AskTyped ==
  ASSUME NEW i \in ID, NEW c \in Captain, NEW seen \in BOOLEAN,
         NEW at \in {"find", "set", "lost", "approve", "mark", "clear"}
  PROVE  Ask(i, c, at, seen) \in Asked
BY LobbyPendingAssumption DEF Ask, Asked

LEMMA ActionTypedStep ==
  ASSUME ActionTyped, Typed, Typed', [PendingNext]_pendingVars
  PROVE  ActionTyped'
<1> USE NilIsNone, NoRequest
<1>a. /\ pending \in ActionRow \cup {Nil} /\ shown \in Copy \cup {Nil}
      /\ asked \in [Handler -> Asked \cup {Nil}]
  BY DEF ActionTyped
<1>1. CASE Next /\ ActionsGoOn
  <2>1. CASE live[Here] # Nil /\ live'[Here] = Nil
    <3>1. /\ shown' = Nil /\ pending' = pending
          /\ asked' = [h \in Handler |-> IF asked[h] = Nil THEN Nil ELSE Orphaned(asked[h])]
      BY <1>1, <2>1 DEF ActionsGoOn
    <3>2. \A a \in Asked : Orphaned(a) \in Asked /\ Orphaned(a).at # "set"
      BY <1>a DEF Orphaned, Asked
    <3> QED
      BY <1>a, <3>1, <3>2 DEF ActionTyped
  <2>2. CASE ~(live[Here] # Nil /\ live'[Here] = Nil)
    <3>1. UNCHANGED <<pending, shown, asked>>
      BY <1>1, <2>2 DEF ActionsGoOn
    <3> QED
      BY <2>2, <3>1 DEF ActionTyped
  <2> QED
    BY <2>1, <2>2
<1>2. ASSUME NEW h \in Handler, NEW c \in Captain, NEW p \in Proposal, ProposeAction(h, c, p)
      PROVE  ActionTyped'
  <2> DEFINE i == Min({j \in ID : Fresh(j)})
  <2>1. i \in ID
    BY <1>2, FreshFound DEF ProposeAction, Asks
  <2>2. /\ pending' = [id |-> i, by |-> TeamOf[c], what |-> p]
        /\ asked' = [asked EXCEPT ![h] = Ask(i, c, "find", FALSE)]
        /\ UNCHANGED <<live, shown>>
    BY <1>2 DEF ProposeAction
  <2> HIDE DEF i
  <2>3. pending' \in ActionRow
    BY <2>1, <2>2, LobbyPendingAssumption DEF ActionRow
  <2>4. Ask(i, c, "find", FALSE) \in Asked /\ Ask(i, c, "find", FALSE).at = "find"
    BY <2>1, AskTyped DEF Ask
  <2> QED
    BY <2>2, <2>3, <2>4 DEF ActionTyped
<1>3. ASSUME NEW h \in Handler, NEW c \in Captain, NEW x \in {pending, shown} \ {Nil},
             ReadPendingAction(h, c, x.id)
      PROVE  ActionTyped'
  <2>1. x.id \in ID
    BY <1>a DEF ActionRow, Copy
  <2>2. Ask(x.id, c, "approve", shown # Nil) \in Asked /\ Ask(x.id, c, "approve", shown # Nil).at = "approve"
    BY <2>1, AskTyped DEF Ask
  <2>3. live'[Here] # Nil
    BY <1>3, ObjectFound DEF ReadPendingAction
  <2> QED
    BY <1>3, <2>2, <2>3 DEF ReadPendingAction, ActionTyped
<1>4. ASSUME NEW h \in Handler, NEW c \in Captain, NEW x \in {pending, shown} \ {Nil},
             CancelPendingAction(h, c, x.id)
      PROVE  ActionTyped'
  <2>1. x.id \in ID
    BY <1>a DEF ActionRow, Copy
  <2>2. Ask(x.id, c, "clear", FALSE) \in Asked /\ Ask(x.id, c, "clear", FALSE).at = "clear"
    BY <2>1, AskTyped DEF Ask
  <2> QED
    BY <1>4, <2>2 DEF CancelPendingAction, ActionTyped
<1>5. ASSUME NEW h \in Handler, FindObject(h) PROVE ActionTyped'
  <2>1. [asked[h] EXCEPT !.at = "set"] \in Asked
    BY <1>5, <1>a DEF FindObject, Asked
  <2>2. live'[Here] # Nil
    BY <1>5, ObjectFound DEF FindObject
  <2> QED
    BY <1>5, <2>1, <2>2 DEF FindObject, ActionTyped
<1>6. ASSUME NEW h \in Handler, SetPendingAction(h) PROVE ActionTyped'
  <2>1. [id |-> asked[h].id, approved |-> {asked[h].side}] \in Copy
    BY <1>6, <1>a DEF SetPendingAction, Asked, Copy
  <2>2. asked[h].at = "lost" \/ live[Here] # Nil
    BY <1>6 DEF SetPendingAction, ActionTyped
  <2>3. live' = live /\ pending' = pending
    BY <1>6 DEF SetPendingAction, vars
  <2> QED
    BY <1>6, <2>1, <2>2, <2>3 DEF SetPendingAction, ActionTyped
<1>7. ASSUME NEW h \in Handler, ApprovePendingAction(h) PROVE ActionTyped'
  <2>1. [asked[h] EXCEPT !.at = "mark"] \in Asked /\ [asked[h] EXCEPT !.at = "mark"].at = "mark"
    BY <1>7, <1>a DEF ApprovePendingAction, Asked
  <2>2. UNCHANGED <<live, shown>> /\ pending' = Nil
        /\ asked' = [asked EXCEPT ![h] = IF asked[h].seen THEN [@ EXCEPT !.at = "mark"] ELSE Nil]
    BY <1>7 DEF ApprovePendingAction
  <2> QED
    BY <2>1, <2>2 DEF ActionTyped
<1>8. ASSUME NEW h \in Handler, ApprovalRefused(h) \/ ClearPendingAction(h) PROVE ActionTyped'
  <2>1. UNCHANGED <<live, pending>> /\ shown' \in {shown, Nil} /\ asked' = [asked EXCEPT ![h] = Nil]
    BY <1>8 DEF ApprovalRefused, ClearPendingAction, vars
  <2> QED
    BY <2>1 DEF ActionTyped
<1>9. ASSUME NEW h \in Handler, MarkApproval(h) PROVE ActionTyped'
  <2> DEFINE r == [asked[h] EXCEPT !.at = "clear", !.orphan = FALSE, !.own = Nil]
  <2>1. asked[h] \in Asked /\ r \in Asked /\ r.at = "clear"
    BY <1>9, <1>a DEF MarkApproval, Asked
  <2>2. asked' = [asked EXCEPT ![h] = r] \/ asked' = [asked EXCEPT ![h] = Nil]
    BY <1>9 DEF MarkApproval
  <2>3. live' = live /\ pending' = pending
    BY <1>9 DEF MarkApproval, vars
  <2>4. shown' = shown \/ (shown # Nil /\ shown' = [shown EXCEPT !.approved = @ \cup {asked[h].side}])
    BY <1>9 DEF MarkApproval
  <2>5. shown' \in Copy \cup {Nil} /\ (shown = Nil => shown' = Nil)
    BY <1>a, <2>1, <2>4 DEF Copy, Asked
  <2> HIDE DEF r
  <2> QED
    BY <2>1, <2>2, <2>3, <2>5 DEF ActionTyped
<1>10. ASSUME NEW i \in ID, ActionExpires(i) PROVE ActionTyped'
  <2>1. live' = live /\ asked' = asked /\ pending' \in {pending, Nil} /\ shown' \in {shown, Nil}
    BY <1>10 DEF ActionExpires, vars
  <2> QED
    BY <2>1 DEF ActionTyped
<1>11. CASE UNCHANGED pendingVars
  BY <1>11 DEF pendingVars, vars, ActionTyped
<1> QED
  BY <1>1, <1>2, <1>3, <1>4, <1>5, <1>6, <1>7, <1>8, <1>9, <1>10, <1>11 DEF PendingNext, ActionStep

\* The proposing side has approved, and whoever marks an approval is the other
\* side; so a mark on the copy of the action itself completes it.
Proposes(h, i) ==
  asked[h] # Nil /\ asked[h].id = i /\ asked[h].at \in {"find", "set", "lost"}

ByProposer ==
  pending # Nil =>
    /\ \A h \in Handler : Proposes(h, pending.id) => asked[h].side = pending.by
    /\ \A h \in Handler :
         asked[h] # Nil /\ asked[h].id = pending.id => asked[h].at \notin {"mark", "clear"}
    /\ shown # Nil /\ shown.id = pending.id => pending.by \in shown.approved

SecondMarks ==
  \A h \in Handler : asked[h] # Nil /\ asked[h].at = "mark" =>
    /\ \A k \in Handler : Proposes(k, asked[h].id) => asked[k].side # asked[h].side
    /\ shown # Nil /\ shown.id = asked[h].id => Side \ {asked[h].side} \subseteq shown.approved

Turns == ByProposer /\ SecondMarks

LEMMA TurnsStep ==
  ASSUME Turns, ActionTyped, [PendingNext]_pendingVars
  PROVE  Turns'
<1> USE NoRequest
<1>a. /\ pending \in ActionRow \cup {Nil} /\ shown \in Copy \cup {Nil}
      /\ asked \in [Handler -> Asked \cup {Nil}]
  BY DEF ActionTyped
\* A step in which nobody becomes busier, and copy and row stay or go.
<1>b. ASSUME pending' \in {pending, Nil}, shown' \in {shown, Nil},
             \A h \in Handler : asked'[h] # Nil =>
               /\ asked[h] # Nil /\ asked'[h].id = asked[h].id /\ asked'[h].side = asked[h].side
               /\ \/ asked'[h].at = asked[h].at
                  \/ asked'[h].at \in {"set", "lost"} /\ asked[h].at \in {"find", "set"}
      PROVE  Turns'
  <2>1. \A i : \A h \in Handler : Proposes(h, i)' => Proposes(h, i)
    BY <1>b DEF Proposes
  <2>2. \A h \in Handler : asked'[h] # Nil /\ asked'[h].at \in {"mark", "clear"} =>
          asked[h] # Nil /\ asked[h].at = asked'[h].at
    BY <1>b
  <2>3. ByProposer'
    BY <1>b, <2>1, <2>2 DEF Turns, ByProposer, Proposes
  <2>4. SecondMarks'
    BY <1>b, <2>1, <2>2 DEF Turns, SecondMarks, Proposes
  <2> QED
    BY <2>3, <2>4 DEF Turns
<1>1. CASE Next /\ ActionsGoOn
  <2>1. CASE live[Here] # Nil /\ live'[Here] = Nil
    <3>1. /\ shown' = Nil /\ pending' = pending
          /\ asked' = [h \in Handler |-> IF asked[h] = Nil THEN Nil ELSE Orphaned(asked[h])]
      BY <1>1, <2>1 DEF ActionsGoOn
    <3>2. \A a \in Asked : /\ Orphaned(a).id = a.id /\ Orphaned(a).side = a.side
                         /\ \/ Orphaned(a).at = a.at
                            \/ Orphaned(a).at = "lost" /\ a.at = "set"
      BY DEF Orphaned, Asked
    <3> QED
      BY <1>a, <1>b, <3>1, <3>2
  <2>2. CASE ~(live[Here] # Nil /\ live'[Here] = Nil)
    BY <1>1, <1>b, <2>2 DEF ActionsGoOn
  <2> QED
    BY <2>1, <2>2
<1>2. ASSUME NEW h \in Handler, NEW c \in Captain, NEW p \in Proposal, ProposeAction(h, c, p)
      PROVE  Turns'
  <2> DEFINE i == Min({j \in ID : Fresh(j)})
  <2>1. i \in ID /\ Fresh(i)
    BY <1>2, FreshFound DEF ProposeAction, Asks
  <2>2. /\ pending = Nil /\ asked[h] = Nil
        /\ pending' = [id |-> i, by |-> TeamOf[c], what |-> p]
        /\ asked' = [asked EXCEPT ![h] = Ask(i, c, "find", FALSE)]
        /\ shown' = shown
    BY <1>2 DEF ProposeAction, Asks
  <2> HIDE DEF i
  <2>3. /\ \A k \in Handler \ {h} : asked'[k] = asked[k] /\ (asked[k] # Nil => asked[k].id # i)
        /\ asked'[h] = Ask(i, c, "find", FALSE)
        /\ shown # Nil => shown.id # i
    BY <1>a, <2>1, <2>2 DEF Fresh
  <2>4. /\ Ask(i, c, "find", FALSE).id = i /\ Ask(i, c, "find", FALSE).side = TeamOf[c]
        /\ Ask(i, c, "find", FALSE).at = "find"
    BY DEF Ask
  <2>5. ByProposer'
    BY <2>2, <2>3, <2>4 DEF ByProposer, Proposes
  <2>6. ASSUME NEW k \in Handler, asked'[k] # Nil, asked'[k].at = "mark"
        PROVE  /\ \A m \in Handler : Proposes(m, asked[k].id)' => asked'[m].side # asked'[k].side
               /\ shown' # Nil /\ shown'.id = asked'[k].id => Side \ {asked'[k].side} \subseteq shown'.approved
    <3>1. k # h /\ asked'[k] = asked[k] /\ asked[k].id # i
      BY <2>3, <2>4, <2>6
    <3>2. ASSUME NEW m \in Handler, asked'[m] # Nil, asked'[m].id = asked[k].id,
                 asked'[m].at \in {"find", "set", "lost"}
          PROVE  asked'[m].side # asked'[k].side
      <4>1. asked'[m] = asked[m]
        BY <2>3, <2>4, <3>1, <3>2
      <4> QED
        BY <2>6, <3>1, <3>2, <4>1 DEF Turns, SecondMarks, Proposes
    <3>3. shown' # Nil /\ shown'.id = asked'[k].id => Side \ {asked'[k].side} \subseteq shown'.approved
      BY <2>2, <2>6, <3>1 DEF Turns, SecondMarks
    <3> QED
      BY <3>1, <3>2, <3>3 DEF Proposes
  <2>7. SecondMarks'
    BY <2>6 DEF SecondMarks, Proposes
  <2> QED
    BY <2>5, <2>7 DEF Turns
\* A request that asks the service and is not a proposal.
<1>3. ASSUME NEW h \in Handler, NEW c \in Captain, NEW x \in {pending, shown} \ {Nil},
             ReadPendingAction(h, c, x.id)
      PROVE  Turns'
  <2>1. /\ asked' = [asked EXCEPT ![h] = Ask(x.id, c, "approve", shown # Nil)]
        /\ asked'[h].at = "approve" /\ UNCHANGED <<pending, shown>>
    BY <1>3, <1>a DEF ReadPendingAction, Ask
  <2>2. ByProposer'
    BY <1>a, <2>1 DEF Turns, ByProposer, Proposes
  <2>3. SecondMarks'
    BY <1>a, <2>1 DEF Turns, SecondMarks, Proposes
  <2> QED
    BY <2>2, <2>3 DEF Turns
<1>4. ASSUME NEW h \in Handler, NEW c \in Captain, NEW x \in {pending, shown} \ {Nil},
             CancelPendingAction(h, c, x.id)
      PROVE  Turns'
  <2>1. /\ asked' = [asked EXCEPT ![h] = Ask(x.id, c, "clear", FALSE)]
        /\ asked'[h].at = "clear" /\ pending' = Nil /\ shown' = shown
    BY <1>4, <1>a DEF CancelPendingAction, Ask
  <2>2. SecondMarks'
    BY <1>a, <2>1 DEF Turns, SecondMarks, Proposes
  <2> QED
    BY <2>1, <2>2 DEF Turns, ByProposer
<1>5. ASSUME NEW h \in Handler, FindObject(h) PROVE Turns'
  <2>1. /\ asked[h] \in Asked /\ asked[h].at = "find" /\ UNCHANGED <<pending, shown>>
        /\ asked' = [asked EXCEPT ![h].at = "set"]
    BY <1>5, <1>a DEF FindObject
  <2>2. asked'[h].id = asked[h].id /\ asked'[h].side = asked[h].side /\ asked'[h].at = "set"
    BY <1>a, <2>1 DEF Asked
  <2> QED
    BY <1>a, <1>b, <2>1, <2>2
<1>6. ASSUME NEW h \in Handler, SetPendingAction(h) PROVE Turns'
  <2>1. /\ asked[h] # Nil /\ Proposes(h, asked[h].id) /\ pending' = pending
        /\ asked[h].side \in Side
        /\ asked' = [asked EXCEPT ![h] = Nil]
        /\ \/ shown' = shown
           \/ shown' = [id |-> asked[h].id, approved |-> {asked[h].side}]
    BY <1>6, <1>a DEF SetPendingAction, Proposes, Asked
  <2>2. CASE shown' = shown
    BY <1>a, <1>b, <2>1, <2>2
  <2>3. CASE shown' = [id |-> asked[h].id, approved |-> {asked[h].side}]
    <3>1. ByProposer'
      BY <1>a, <2>1, <2>3 DEF Turns, ByProposer, Proposes
    <3>2. ASSUME NEW k \in Handler, asked'[k] # Nil, asked'[k].at = "mark"
          PROVE  /\ \A m \in Handler : Proposes(m, asked[k].id)' => asked'[m].side # asked'[k].side
                 /\ shown' # Nil /\ shown'.id = asked'[k].id => Side \ {asked'[k].side} \subseteq shown'.approved
      <4>1. k # h /\ asked'[k] = asked[k] /\ asked[k] # Nil /\ asked[k].side \in Side
        BY <1>a, <2>1, <3>2 DEF Asked
      <4>2. \A m \in Handler : Proposes(m, asked[k].id) => asked[m].side # asked[k].side
        BY <3>2, <4>1 DEF Turns, SecondMarks
      <4>3. ASSUME NEW m \in Handler, asked'[m] # Nil, asked'[m].id = asked[k].id,
                   asked'[m].at \in {"find", "set", "lost"}
            PROVE  asked'[m].side # asked'[k].side
        BY <1>a, <2>1, <4>1, <4>2, <4>3 DEF Proposes
      <4>4. shown'.id = asked[k].id => asked[h].side # asked[k].side
        BY <2>1, <2>3, <4>2
      <4> QED
        BY <2>1, <2>3, <4>1, <4>3, <4>4 DEF Side, Proposes
    <3>3. SecondMarks'
      BY <3>2 DEF SecondMarks, Proposes
    <3> QED
      BY <3>1, <3>3 DEF Turns
  <2> QED
    BY <2>1, <2>2, <2>3
<1>7. ASSUME NEW h \in Handler, ApprovePendingAction(h) PROVE Turns'
  <2> DEFINE r == [asked[h] EXCEPT !.at = "mark"]
  <2>1. /\ asked[h] # Nil /\ asked[h] \in Asked /\ pending # Nil /\ pending.id = asked[h].id
        /\ asked[h].side # pending.by /\ asked[h].side \in Side /\ pending.by \in Side
        /\ pending' = Nil /\ shown' = shown
        /\ asked' = [asked EXCEPT ![h] = IF asked[h].seen THEN r ELSE Nil]
    BY <1>7, <1>a DEF ApprovePendingAction, IsPending, Asked, ActionRow
  <2>2. r.id = asked[h].id /\ r.side = asked[h].side /\ r.at = "mark"
    BY <2>1 DEF Asked
  <2> HIDE DEF r
  <2>4. CASE ~asked[h].seen
    BY <1>a, <1>b, <2>1, <2>4
  <2>5. CASE asked[h].seen
    <3>1. ASSUME NEW k \in Handler, asked'[k] # Nil, asked'[k].at = "mark"
          PROVE  /\ \A m \in Handler : Proposes(m, asked[k].id)' => asked'[m].side # asked'[k].side
                 /\ shown' # Nil /\ shown'.id = asked'[k].id => Side \ {asked'[k].side} \subseteq shown'.approved
      <4>0. ASSUME NEW m \in Handler, asked'[m] # Nil, asked'[m].id = asked'[k].id,
                   asked'[m].at \in {"find", "set", "lost"}
            PROVE  Proposes(m, asked'[k].id) /\ asked'[m].side = asked[m].side
        BY <1>a, <2>1, <2>2, <4>0 DEF Proposes
      <4>1. CASE k = h
        <5>1. asked'[k].id = pending.id /\ asked'[k].side = asked[h].side
          BY <1>a, <2>1, <2>2, <2>5, <4>1
        <5>2. \A m \in Handler : Proposes(m, pending.id) => asked[m].side = pending.by
          BY <2>1 DEF Turns, ByProposer
        <5>3. shown # Nil /\ shown.id = pending.id => pending.by \in shown.approved
          BY <2>1 DEF Turns, ByProposer
        <5>4. Side \ {asked[h].side} = {pending.by}
          BY <2>1 DEF Side
        <5>5. ASSUME NEW m \in Handler, asked'[m] # Nil, asked'[m].id = asked'[k].id,
                     asked'[m].at \in {"find", "set", "lost"}
              PROVE  asked'[m].side # asked'[k].side
          BY <2>1, <4>0, <5>1, <5>2, <5>5
        <5> QED
          BY <2>1, <5>1, <5>3, <5>4, <5>5 DEF Proposes
      <4>2. CASE k # h
        <5>1. asked'[k] = asked[k]
          BY <1>a, <2>1, <4>2
        <5>2. \A m \in Handler : Proposes(m, asked[k].id) => asked[m].side # asked[k].side
          BY <3>1, <5>1 DEF Turns, SecondMarks
        <5>3. ASSUME NEW m \in Handler, asked'[m] # Nil, asked'[m].id = asked'[k].id,
                     asked'[m].at \in {"find", "set", "lost"}
              PROVE  asked'[m].side # asked'[k].side
          BY <4>0, <5>1, <5>2, <5>3
        <5>4. shown' # Nil /\ shown'.id = asked'[k].id => Side \ {asked'[k].side} \subseteq shown'.approved
          BY <2>1, <3>1, <5>1 DEF Turns, SecondMarks
        <5> QED
          BY <5>3, <5>4 DEF Proposes
      <4> QED
        BY <4>1, <4>2
    <3>2. SecondMarks'
      BY <3>1 DEF SecondMarks, Proposes
    <3> QED
      BY <2>1, <3>2 DEF Turns, ByProposer
  <2> QED
    BY <2>4, <2>5
<1>8. ASSUME NEW h \in Handler, ApprovalRefused(h) \/ ClearPendingAction(h) PROVE Turns'
  <2>1. UNCHANGED pending /\ shown' \in {shown, Nil} /\ asked' = [asked EXCEPT ![h] = Nil]
    BY <1>8 DEF ApprovalRefused, ClearPendingAction
  <2> QED
    BY <1>a, <1>b, <2>1
<1>9. ASSUME NEW h \in Handler, MarkApproval(h) PROVE Turns'
  <2> DEFINE r == [asked[h] EXCEPT !.at = "clear", !.orphan = FALSE, !.own = Nil]
  <2>1. /\ asked[h] # Nil /\ asked[h] \in Asked /\ asked[h].at = "mark"
        /\ asked' = [asked EXCEPT ![h] = r] \/ asked' = [asked EXCEPT ![h] = Nil]
        /\ pending' = pending
        /\ \/ shown' = shown
           \/ shown # Nil /\ shown' = [shown EXCEPT !.approved = @ \cup {asked[h].side}]
    BY <1>9, <1>a DEF MarkApproval
  <2>2. r.id = asked[h].id /\ r.at = "clear"
    BY <2>1 DEF Asked
  <2>3. shown' # Nil => shown # Nil /\ shown'.id = shown.id /\ shown.approved \subseteq shown'.approved
    BY <1>a, <2>1 DEF Copy
  <2> HIDE DEF r
  <2>4. ByProposer'
    BY <1>a, <2>1, <2>2, <2>3 DEF Turns, ByProposer, Proposes
  <2>5. SecondMarks'
    BY <1>a, <2>1, <2>2, <2>3 DEF Turns, SecondMarks, Proposes
  <2> QED
    BY <2>4, <2>5 DEF Turns
<1>10. ASSUME NEW i \in ID, ActionExpires(i) PROVE Turns'
  <2>1. asked' = asked /\ pending' \in {pending, Nil} /\ shown' \in {shown, Nil}
    BY <1>10 DEF ActionExpires
  <2> QED
    BY <1>b, <2>1
<1>11. CASE UNCHANGED pendingVars
  BY <1>11, <1>b DEF pendingVars
<1> QED
  BY <1>1, <1>2, <1>3, <1>4, <1>5, <1>6, <1>7, <1>8, <1>9, <1>10, <1>11 DEF PendingNext, ActionStep

LiveInv ==
  /\ Inv
  /\ ChoiceInv
  /\ RestTyped
  /\ ChoiceTyped
  /\ VotesFit
  /\ ActionTyped
  /\ Turns

LEMMA InitLive == PendingInit => LiveInv
<1> SUFFICES ASSUME PendingInit PROVE LiveInv
  OBVIOUS
<1> USE NilIsNone DEF PendingInit, Init, HubInit
<1>1. Inv /\ ChoiceInv
  BY InitInv, InitChoice
<1>2. RestTyped
  BY LobbyHubAssumption DEF RestTyped
<1>3. ChoiceTyped
  BY LobbyLiveAssumption DEF ChoiceTyped
<1>4. VotesFit
  <2>1. \A b \in Ballot : Writers(b) = {}
    BY DEF Writers
  <2>2. Cardinality(Request) \in Nat
    BY LobbyLiveAssumption, FS_CardinalityType
  <2>3. \A b \in Ballot : votes[b] + Cardinality(Writers(b)) = 0
    <3>1. \A b \in Ballot : Cardinality(Writers(b)) = 0
      BY <2>1, FS_EmptySet
    <3>2. \A b \in Ballot : votes[b] = 0
      OBVIOUS
    <3> QED
      BY <3>1, <3>2
  <2>4. votes \in [Ballot -> Nat]
    OBVIOUS
  <2> QED
    BY <2>2, <2>3, <2>4 DEF VotesFit
<1>5. ActionTyped
  BY DEF ActionTyped
<1>6. Turns
  BY DEF Turns, ByProposer, SecondMarks
<1> QED
  BY <1>1, <1>2, <1>3, <1>4, <1>5, <1>6 DEF LiveInv

LEMMA LiveStep == LiveInv /\ [PendingNext]_pendingVars => LiveInv'
<1> SUFFICES ASSUME LiveInv, [PendingNext]_pendingVars PROVE LiveInv'
  OBVIOUS
<1>1. Inv' /\ ChoiceInv'
  BY InvStep, ChoiceStep DEF LiveInv
<1>2. Agree /\ Typed /\ Typed'
  BY <1>1 DEF LiveInv, Inv
<1> QED
  BY <1>1, <1>2, RestStep, ChoiceTypes, VotesFitStep, ActionTypedStep, TurnsStep DEF LiveInv

LEMMA LiveInvariance == PendingSpec => []LiveInv
BY InitLive, LiveStep, PTL DEF PendingSpec

\* Hub, live objects, tables, votes and pending actions have the values they
\* should: no ballot has more rows than requests to write one, and a number is
\* left for every new action.
THEOREM LiveTypeCorrect == PendingSpec => []PendingTypeOK
<1>1. LiveInv => PendingTypeOK
  <2> SUFFICES ASSUME LiveInv PROVE PendingTypeOK
    OBVIOUS
  <2>1. HubTypeOK(Ballot)
    BY DEF LiveInv, Inv, Typed, LiveTyped, Agree, HubTyped, RestTyped, HubTypeOK
  <2>2. options \in Seq([lineup : BaseOptions, threshold : Int])
    <3> DEFINE Loose == [lineup : BaseOptions, threshold : Int]
    <3>1. \A x \in OptionRow : x \in Loose
      BY DEF OptionRow, BestEffort
    <3>2. options \in Seq(OptionRow)
      BY DEF LiveInv, ChoiceInv, OptionsInv
    <3> HIDE DEF Loose
    <3>3. options \in [1 .. Len(options) -> Loose] /\ Len(options) \in Nat
      BY <3>1, <3>2
    <3>4. options \in Seq(Loose)
      BY <3>3
    <3> QED
      BY <3>4 DEF Loose
  <2>3. votes \in [Ballot -> 0 .. Cardinality(Request)]
    <3>1. Cardinality(Request) \in Nat
      BY LobbyLiveAssumption, FS_CardinalityType
    <3>2. \A b \in Ballot : Cardinality(Writers(b)) \in Nat
      BY SomeRequests DEF Writers
    <3>3. \A b \in Ballot : votes[b] \in 0 .. Cardinality(Request)
      BY <3>1, <3>2 DEF LiveInv, VotesFit
    <3> QED
      BY <3>3 DEF LiveInv, VotesFit
  <2>4. request \in [Request -> Work \cup {Nil}]
    BY DEF LiveInv, Inv, Typed, LiveTyped
  <2>5. TypeOK
    BY <2>1, <2>2, <2>3, <2>4 DEF LiveInv, ChoiceTyped, TypeOK
  <2> QED
    BY <2>5 DEF LiveInv, ActionTyped, PendingTypeOK
<1> QED
  BY <1>1, LiveInvariance, PTL

-----------------------------------------------------------------------------
(* What is under way is counted modulo two.                                *)

Odd(S) == Cardinality(S) % 2 = 1

LEMMA OneMore ==
  ASSUME NEW S, IsFiniteSet(S), NEW x, x \notin S
  PROVE  Odd(S \cup {x}) <=> ~Odd(S)
<1>1. Cardinality(S \cup {x}) = Cardinality(S) + 1 /\ Cardinality(S) \in Nat
  BY FS_AddElement, FS_CardinalityType
<1> QED
  BY <1>1 DEF Odd

LEMMA OneFewer ==
  ASSUME NEW S, IsFiniteSet(S), NEW x \in S
  PROVE  Odd(S \ {x}) <=> ~Odd(S)
<1>1. Cardinality(S \ {x}) = Cardinality(S) - 1 /\ Cardinality(S) \in Nat /\ Cardinality(S) # 0
  BY FS_RemoveElement, FS_CardinalityType, FS_EmptySet
<1> QED
  BY <1>1 DEF Odd

\* The requests as one action of them changes.
OwingStays(i) == \A h \in Handler : h \in Owing(i)' <=> h \in Owing(i)

IsShown(i) == shown # Nil /\ shown.id = i

LEMMA ActionParity ==
  ASSUME NEW i, NEW h \in Handler,
         \A k \in Handler \ {h} : asked'[k] = asked[k]
  PROVE  /\ Odd(Owing(i)') <=> (Odd(Owing(i)) <=> (h \in Owing(i) <=> h \in Owing(i)'))
<1>1. Owing(i) \in SUBSET Handler /\ Owing(i)' \in SUBSET Handler
  BY DEF Owing
<1>2. IsFiniteSet(Owing(i))
  BY <1>1, LobbyPendingAssumption, FS_Subset
<1>3. \A k \in Handler \ {h} : k \in Owing(i)' <=> k \in Owing(i)
  BY DEF Owing
<1>4. CASE h \in Owing(i) <=> h \in Owing(i)'
  <2>1. Owing(i)' = Owing(i)
    BY <1>1, <1>3, <1>4
  <2> QED
    BY <1>4, <2>1
<1>5. CASE h \in Owing(i) /\ h \notin Owing(i)'
  <2>1. Owing(i)' = Owing(i) \ {h}
    BY <1>1, <1>3, <1>5
  <2> QED
    BY <1>2, <1>5, <2>1, OneFewer
<1>6. CASE h \notin Owing(i) /\ h \in Owing(i)'
  <2>1. Owing(i)' = Owing(i) \cup {h}
    BY <1>1, <1>3, <1>6
  <2> QED
    BY <1>2, <1>6, <2>1, OneMore
<1> QED
  BY <1>4, <1>5, <1>6

LEMMA TwiceUnequal ==
  ASSUME NEW p \in BOOLEAN, NEW q \in BOOLEAN, NEW r \in BOOLEAN
  PROVE  ((p # q) # r) <=> ((p <=> q) <=> r)
OBVIOUS

LEMMA DiffersByParity ==
  ASSUME NEW i
  PROVE  /\ ActionDiffers(i) <=> ((IsPending(i) <=> IsShown(i)) <=> Odd(Owing(i)))
         /\ ActionDiffers(i)' <=> ((IsPending(i)' <=> IsShown(i)') <=> Odd(Owing(i)'))
<1>1. /\ IsPending(i) \in BOOLEAN /\ IsShown(i) \in BOOLEAN /\ Odd(Owing(i)) \in BOOLEAN
      /\ IsPending(i)' \in BOOLEAN /\ IsShown(i)' \in BOOLEAN /\ Odd(Owing(i)') \in BOOLEAN
  BY DEF IsPending, IsShown, Odd
<1>2. /\ ActionDiffers(i) <=> ((IsPending(i) # IsShown(i)) # Odd(Owing(i)))
      /\ ActionDiffers(i)' <=> ((IsPending(i)' # IsShown(i)') # Odd(Owing(i)'))
  BY DEF ActionDiffers, IsShown, Odd
<1> QED
  BY <1>1, <1>2, TwiceUnequal

\* Row, copy and request h change so that nobody notices; or they may.
LEMMA ActionStays ==
  ASSUME NEW i, NEW h \in Handler, \A k \in Handler \ {h} : asked'[k] = asked[k],
         ((IsPending(i) <=> IsShown(i)) <=> (IsPending(i)' <=> IsShown(i)'))
           <=> (h \in Owing(i) <=> h \in Owing(i)'),
         ActionDiffers(i)'
  PROVE  ActionDiffers(i)
BY ActionParity, DiffersByParity

LEMMA NobodyAsked ==
  ASSUME NEW i, asked' = asked, IsPending(i)' <=> IsPending(i), IsShown(i)' <=> IsShown(i),
         ActionDiffers(i)'
  PROVE  ActionDiffers(i)
<1>1. Owing(i)' = Owing(i)
  BY DEF Owing
<1> QED
  BY <1>1, DiffersByParity

\* What excuses a step after which the two differ.
Excused ==
  \/ live[Here] # Nil /\ live'[Here] = Nil
  \/ \E h \in Handler : asked[h] # Nil /\ asked'[h] # asked[h] /\
       \/ asked[h].at = "lost" \/ asked[h].orphan
       \/ asked[h].at = "approve" /\ ~asked[h].seen
       \/ asked[h].at = "set" /\ shown # Nil
       \/ asked[h].at \in {"mark", "clear"} /\ (shown = Nil \/ shown.id # asked[h].id)

LEMMA ActionDrift ==
  ASSUME LiveInv, [PendingNext]_pendingVars, NEW i \in ID, ActionDiffers(i)', ~Excused
  PROVE  ActionDiffers(i)
<1> USE NoRequest
<1>a. /\ pending \in ActionRow \cup {Nil} /\ shown \in Copy \cup {Nil}
      /\ asked \in [Handler -> Asked \cup {Nil}] /\ ActionTyped /\ Turns
  BY DEF LiveInv, ActionTyped
<1>1. CASE Next /\ ActionsGoOn
  <2>1. UNCHANGED <<pending, shown, asked>>
    BY <1>1 DEF ActionsGoOn, Excused
  <2> QED
    BY <2>1, NobodyAsked DEF IsPending, IsShown
<1>2. ASSUME NEW h \in Handler, NEW c \in Captain, NEW p \in Proposal, ProposeAction(h, c, p)
      PROVE  ActionDiffers(i)
  <2> DEFINE j == Min({n \in ID : Fresh(n)})
             w == Ask(j, c, "find", FALSE)
  <2>1. j \in ID
    BY <1>2, <1>a, FreshFound DEF ProposeAction, Asks
  <2>2. /\ pending = Nil /\ asked[h] = Nil /\ shown' = shown
        /\ pending' = [id |-> j, by |-> TeamOf[c], what |-> p]
        /\ asked' = [asked EXCEPT ![h] = w]
    BY <1>2 DEF ProposeAction, Asks
  <2>3. w.id = j /\ w.at = "find"
    BY DEF Ask
  <2>4. w # Nil /\ pending' # Nil
    <3>1. pending' \in ActionRow
      BY <2>1, <2>2, LobbyPendingAssumption DEF ActionRow
    <3>2. w \in Asked
      BY <2>1, AskTyped
    <3> QED
      BY <3>1, <3>2
  <2> HIDE DEF j, w
  <2>5. ~IsPending(i) /\ (IsPending(i)' <=> j = i) /\ (IsShown(i)' <=> IsShown(i))
    BY <2>2, <2>4 DEF IsPending, IsShown
  <2>6. h \notin Owing(i) /\ (h \in Owing(i)' <=> j = i)
    BY <1>a, <2>2, <2>3, <2>4 DEF Owing
  <2> QED
    BY <1>a, <2>2, <2>5, <2>6, ActionStays
<1>3. ASSUME NEW h \in Handler, NEW c \in Captain, NEW x \in {pending, shown} \ {Nil},
             ReadPendingAction(h, c, x.id)
      PROVE  ActionDiffers(i)
  <2>1. /\ asked[h] = Nil /\ UNCHANGED <<pending, shown>>
        /\ asked' = [asked EXCEPT ![h] = Ask(x.id, c, "approve", shown # Nil)]
        /\ asked'[h].at = "approve"
    BY <1>3, <1>a DEF ReadPendingAction, Asks, Ask
  <2>2. h \notin Owing(i) /\ h \notin Owing(i)'
    BY <2>1 DEF Owing
  <2> QED
    BY <1>a, <2>1, <2>2, ActionStays DEF IsPending, IsShown
<1>4. ASSUME NEW h \in Handler, NEW c \in Captain, NEW x \in {pending, shown} \ {Nil},
             CancelPendingAction(h, c, x.id)
      PROVE  ActionDiffers(i)
  <2> DEFINE w == Ask(x.id, c, "clear", FALSE)
  <2>1. /\ asked[h] = Nil /\ pending # Nil /\ pending.id = x.id /\ pending' = Nil /\ shown' = shown
        /\ asked' = [asked EXCEPT ![h] = w]
    BY <1>4 DEF CancelPendingAction, Asks, IsPending
  <2>2. w.id = x.id /\ w.at = "clear"
    BY DEF Ask
  <2>3. w # Nil
    <3>1. x.id \in ID
      BY <1>a, <2>1 DEF ActionRow
    <3> QED
      BY <3>1, AskTyped
  <2> HIDE DEF w
  <2>4. (IsPending(i) <=> x.id = i) /\ ~IsPending(i)' /\ (IsShown(i)' <=> IsShown(i))
    BY <2>1 DEF IsPending, IsShown
  <2>5. h \notin Owing(i) /\ (h \in Owing(i)' <=> x.id = i)
    BY <1>a, <2>1, <2>2, <2>3 DEF Owing
  <2> QED
    BY <1>a, <2>1, <2>4, <2>5, ActionStays
<1>5. ASSUME NEW h \in Handler, FindObject(h) PROVE ActionDiffers(i)
  <2>1. /\ asked[h] \in Asked /\ asked[h].at = "find" /\ UNCHANGED <<pending, shown>>
        /\ asked[h] # Nil /\ asked' = [asked EXCEPT ![h].at = "set"]
    BY <1>5, <1>a DEF FindObject
  <2>2. asked'[h] \in Asked /\ asked'[h].id = asked[h].id /\ asked'[h].at = "set"
    BY <1>a, <2>1 DEF Asked
  <2>3. h \in Owing(i)' <=> h \in Owing(i)
    BY <2>1, <2>2 DEF Owing
  <2> QED
    BY <1>a, <2>1, <2>3, ActionStays DEF IsPending, IsShown
<1>6. ASSUME NEW h \in Handler, SetPendingAction(h) PROVE ActionDiffers(i)
  <2> DEFINE copy == [id |-> asked[h].id, approved |-> {asked[h].side}]
  <2>1. /\ asked[h] # Nil /\ asked[h] \in Asked /\ asked[h].at \in {"set", "lost"}
        /\ asked' = [asked EXCEPT ![h] = Nil] /\ pending' = pending
        /\ asked[h].at = "set" => shown' = copy
    BY <1>6, <1>a DEF SetPendingAction
  <2>2. asked'[h] = Nil
    BY <1>a, <2>1
  <2>3. asked[h].at = "set" /\ shown = Nil
    BY <2>1, <2>2 DEF Excused
  <2>4. copy # Nil /\ copy.id = asked[h].id
    <3>1. copy \in Copy
      BY <2>1 DEF Copy, Asked
    <3> QED
      BY <3>1
  <2>5. (IsPending(i)' <=> IsPending(i)) /\ ~IsShown(i) /\ (IsShown(i)' <=> asked[h].id = i)
    BY <2>1, <2>3, <2>4 DEF IsPending, IsShown
  <2>6. h \notin Owing(i)' /\ (h \in Owing(i) <=> asked[h].id = i)
    BY <2>1, <2>2, <2>3 DEF Owing
  <2> QED
    BY <1>a, <2>1, <2>5, <2>6, ActionStays
<1>7. ASSUME NEW h \in Handler, ApprovePendingAction(h) PROVE ActionDiffers(i)
  <2>1. /\ asked[h] # Nil /\ asked[h] \in Asked /\ pending # Nil /\ pending.id = asked[h].id
        /\ asked[h].at = "approve" /\ pending' = Nil /\ shown' = shown
        /\ asked' = [asked EXCEPT ![h] = IF asked[h].seen THEN [asked[h] EXCEPT !.at = "mark"] ELSE Nil]
    BY <1>7, <1>a DEF ApprovePendingAction, IsPending
  <2>2. asked[h].seen
    BY <1>a, <2>1 DEF Excused
  <2>3. asked'[h] \in Asked /\ asked'[h].id = asked[h].id /\ asked'[h].at = "mark"
    BY <1>a, <2>1, <2>2 DEF Asked
  <2>4. (IsPending(i) <=> asked[h].id = i) /\ ~IsPending(i)' /\ (IsShown(i)' <=> IsShown(i))
    BY <2>1 DEF IsPending, IsShown
  <2>5. h \notin Owing(i) /\ (h \in Owing(i)' <=> asked[h].id = i)
    BY <2>1, <2>3 DEF Owing
  <2> QED
    BY <1>a, <2>1, <2>4, <2>5, ActionStays
<1>8. ASSUME NEW h \in Handler, ApprovalRefused(h) PROVE ActionDiffers(i)
  <2>1. /\ asked[h].at = "approve" /\ asked' = [asked EXCEPT ![h] = Nil] /\ UNCHANGED <<pending, shown>>
    BY <1>8 DEF ApprovalRefused
  <2>2. h \notin Owing(i) /\ h \notin Owing(i)'
    BY <1>a, <2>1 DEF Owing
  <2> QED
    BY <1>a, <2>1, <2>2, ActionStays DEF IsPending, IsShown
\* The mark completes the copy, so that the copy's clearing is still owed.
<1>9. ASSUME NEW h \in Handler, MarkApproval(h) PROVE ActionDiffers(i)
  <2> DEFINE r == [asked[h] EXCEPT !.at = "clear", !.orphan = FALSE, !.own = Nil]
  <2>1. /\ asked[h] # Nil /\ asked[h] \in Asked /\ asked[h].at = "mark" /\ pending' = pending
        /\ r \in Asked /\ r.at = "clear" /\ r.id = asked[h].id /\ r # asked[h]
    BY <1>9, <1>a DEF MarkApproval, Asked
  <2>2. asked' = [asked EXCEPT ![h] = r] \/ asked' = [asked EXCEPT ![h] = Nil]
    BY <1>9 DEF MarkApproval
  <2>3. asked'[h] # asked[h]
    <3> HIDE DEF r
    <3> QED
      BY <1>a, <2>1, <2>2
  <2>4. ~asked[h].orphan /\ shown # Nil /\ shown.id = asked[h].id
    BY <2>1, <2>3 DEF Excused
  <2>5. shown.approved \cup {asked[h].side} = Side
    <3>1. Side \ {asked[h].side} \subseteq shown.approved
      BY <1>a, <2>1, <2>4 DEF Turns, SecondMarks
    <3>2. shown.approved \subseteq Side /\ asked[h].side \in Side
      BY <1>a, <2>1, <2>4 DEF Copy, Asked
    <3> QED
      BY <3>1, <3>2
  <2>6. asked' = [asked EXCEPT ![h] = r]
    BY <1>9, <2>4, <2>5 DEF MarkApproval
  <2>7. shown' = [shown EXCEPT !.approved = @ \cup {asked[h].side}]
    BY <1>9, <2>4 DEF MarkApproval
  <2>8. shown' # Nil /\ shown'.id = shown.id
    <3>1. shown' \in Copy
      BY <1>a, <2>1, <2>4, <2>7 DEF Copy, Asked
    <3> QED
      BY <1>a, <2>4, <2>7, <3>1 DEF Copy
  <2> HIDE DEF r
  <2>9. h \in Owing(i)' <=> h \in Owing(i)
    BY <1>a, <2>1, <2>6 DEF Owing
  <2> QED
    BY <1>a, <2>1, <2>4, <2>6, <2>8, <2>9, ActionStays DEF IsPending, IsShown
<1>10. ASSUME NEW h \in Handler, ClearPendingAction(h) PROVE ActionDiffers(i)
  <2>1. /\ asked[h] # Nil /\ asked[h].at = "clear" /\ asked' = [asked EXCEPT ![h] = Nil]
        /\ pending' = pending /\ shown' = Nil
    BY <1>10 DEF ClearPendingAction, vars
  <2>2. shown # Nil /\ shown.id = asked[h].id
    BY <1>a, <2>1 DEF Excused
  <2>3. (IsPending(i)' <=> IsPending(i)) /\ ~IsShown(i)' /\ (IsShown(i) <=> asked[h].id = i)
    BY <2>1, <2>2 DEF IsPending, IsShown
  <2>4. h \notin Owing(i)' /\ (h \in Owing(i) <=> asked[h].id = i)
    BY <1>a, <2>1 DEF Owing
  <2> QED
    BY <1>a, <2>1, <2>3, <2>4, ActionStays
<1>11. ASSUME NEW j \in ID, ActionExpires(j) PROVE ActionDiffers(i)
  <2>1. /\ asked' = asked /\ \A h \in Handler : asked[h] # Nil => asked[h].id # j
        /\ pending' = IF IsPending(j) THEN Nil ELSE pending
        /\ shown' = IF IsShown(j) THEN Nil ELSE shown
    BY <1>11 DEF ActionExpires, IsShown
  <2>2. CASE i = j
    <3>1. Owing(i)' = {}
      BY <2>1, <2>2 DEF Owing
    <3>2. ~IsPending(i)' /\ ~IsShown(i)'
      BY <2>1, <2>2 DEF IsPending, IsShown
    <3>3. ~Odd({})
      BY FS_EmptySet DEF Odd
    <3> QED
      BY <3>1, <3>2, <3>3, DiffersByParity
  <2>3. CASE i # j
    <3>1. (IsPending(i)' <=> IsPending(i)) /\ (IsShown(i)' <=> IsShown(i))
      BY <2>1, <2>3 DEF IsPending, IsShown
    <3> QED
      BY <2>1, <3>1, NobodyAsked
  <2> QED
    BY <2>2, <2>3
<1>12. CASE UNCHANGED pendingVars
  BY <1>12, NobodyAsked DEF pendingVars, IsPending, IsShown
<1> QED
  BY <1>1, <1>2, <1>3, <1>4, <1>5, <1>6, <1>7, <1>8, <1>9, <1>10, <1>11, <1>12
     DEF PendingNext, ActionStep

\* Row and copy of a pending action come and go together, whatever proposals,
\* approvals, cancellations and expiries interleave, but for the four excuses.
THEOREM ActionsInStep == PendingSpec => ActionsDriftOnlyThen
<1>1. LiveInv /\ [PendingNext]_pendingVars =>
        [\A i \in ID : ~ActionDiffers(i) /\ ActionDiffers(i)' =>
           \/ live[Here] # Nil /\ live'[Here] = Nil
           \/ \E h \in Handler : asked[h] # Nil /\ asked'[h] # asked[h] /\
                \/ asked[h].at = "lost" \/ asked[h].orphan
                \/ asked[h].at = "approve" /\ ~asked[h].seen
                \/ asked[h].at = "set" /\ shown # Nil
                \/ asked[h].at \in {"mark", "clear"} /\ (shown = Nil \/ shown.id # asked[h].id)
        ]_pendingVars
  BY ActionDrift DEF Excused
<1> QED
  BY <1>1, LiveInvariance, PTL DEF PendingSpec, ActionsDriftOnlyThen

-----------------------------------------------------------------------------
(* Votes.                                                                  *)

HasVoted(b) == votes[b] > 0

HasLive(b) == live[Here] # Nil /\ b \in live[Here].votes

LEMMA DifferByParity ==
  ASSUME NEW b
  PROVE  /\ Differ(b) <=> ((HasVoted(b) <=> HasLive(b)) <=> Odd(Pending(b)))
         /\ Differ(b)' <=> ((HasVoted(b)' <=> HasLive(b)') <=> Odd(Pending(b)'))
         /\ Differ(b) \in BOOLEAN /\ Differ(b)' \in BOOLEAN
<1>0. (votes[b] > 0) \in BOOLEAN /\ (votes'[b] > 0) \in BOOLEAN
  OBVIOUS
<1>1. /\ HasVoted(b) \in BOOLEAN /\ HasLive(b) \in BOOLEAN /\ Odd(Pending(b)) \in BOOLEAN
      /\ HasVoted(b)' \in BOOLEAN /\ HasLive(b)' \in BOOLEAN /\ Odd(Pending(b)') \in BOOLEAN
  BY <1>0 DEF HasVoted, HasLive, Odd
<1>2. /\ Differ(b) <=> ((HasVoted(b) # HasLive(b)) # Odd(Pending(b)))
      /\ Differ(b)' <=> ((HasVoted(b)' # HasLive(b)') # Odd(Pending(b)'))
  BY DEF Differ, HasVoted, HasLive, Odd
<1>3. Differ(b) \in BOOLEAN /\ Differ(b)' \in BOOLEAN
  BY DEF Differ
<1> QED
  BY <1>1, <1>2, <1>3, TwiceUnequal

LEMMA PendingParity ==
  ASSUME NEW b, NEW q \in Request, \A k \in Request \ {q} : request'[k] = request[k]
  PROVE  Odd(Pending(b)') <=> (Odd(Pending(b)) <=> (q \in Pending(b) <=> q \in Pending(b)'))
<1>1. Pending(b) \in SUBSET Request /\ Pending(b)' \in SUBSET Request
  BY DEF Pending
<1>2. IsFiniteSet(Pending(b))
  BY <1>1, SomeRequests
<1>3. \A k \in Request \ {q} : k \in Pending(b)' <=> k \in Pending(b)
  BY DEF Pending
<1>4. CASE q \in Pending(b) <=> q \in Pending(b)'
  <2>1. Pending(b)' = Pending(b)
    BY <1>1, <1>3, <1>4
  <2> QED
    BY <1>4, <2>1
<1>5. CASE q \in Pending(b) /\ q \notin Pending(b)'
  <2>1. Pending(b)' = Pending(b) \ {q}
    BY <1>1, <1>3, <1>5
  <2> QED
    BY <1>2, <1>5, <2>1, OneFewer
<1>6. CASE q \notin Pending(b) /\ q \in Pending(b)'
  <2>1. Pending(b)' = Pending(b) \cup {q}
    BY <1>1, <1>3, <1>6
  <2> QED
    BY <1>2, <1>6, <2>1, OneMore
<1> QED
  BY <1>4, <1>5, <1>6

LEMMA VoteStays ==
  ASSUME NEW b, NEW q \in Request, \A k \in Request \ {q} : request'[k] = request[k],
         ((HasVoted(b) <=> HasLive(b)) <=> (HasVoted(b)' <=> HasLive(b)'))
           <=> (q \in Pending(b) <=> q \in Pending(b)')
  PROVE  Differ(b) = Differ(b)'
BY PendingParity, DifferByParity

LEMMA NobodyVotes ==
  ASSUME NEW b, request' = request, HasVoted(b)' <=> HasVoted(b), HasLive(b)' <=> HasLive(b)
  PROVE  Differ(b) = Differ(b)'
<1>1. Pending(b)' = Pending(b)
  BY DEF Pending
<1> QED
  BY <1>1, DifferByParity

\* The hub makes and deletes objects; it does not touch their votes.
LEMMA HubKeepsVotes ==
  ASSUME LiveInv, HubNext, live[Here] = Nil \/ live'[Here] # Nil, NEW b \in Ballot
  PROVE  HasLive(b)' <=> HasLive(b)
<1> USE NilIsNone
<1>a. live \in [Lobby -> LiveObject(Ballot) \cup {Nil}] /\ Here \in Lobby
  BY LobbyLiveAssumption DEF LiveInv, Inv, Typed, LiveTyped
<1>1. ASSUME NEW l \in Lobby \cup {Nil}, NEW c, live' = Without(l, c)
      PROVE  HasLive(b)' <=> HasLive(b)
  <2>1. CASE l # Here
    BY <1>a, <1>1, <2>1 DEF Without, HasLive
  <2>2. CASE l = Here
    <3>1. CASE live[Here] = Nil
      BY <1>a, <1>1, <2>2, <3>1 DEF Without, HasLive
    <3>2. CASE live[Here] # Nil
      <4>1. live[Here] \in LiveObject(Ballot) /\ live'[Here] # Nil
        BY <1>a, <3>2
      <4>2. live'[Here].votes = live[Here].votes
        BY <1>a, <1>1, <2>2, <3>2, <4>1 DEF Without, LiveObject
      <4> QED
        BY <3>2, <4>1, <4>2 DEF HasLive
    <3> QED
      BY <3>1, <3>2
  <2> QED
    BY <2>1, <2>2
<1>2. ASSUME NEW c \in Client, Unregister(c) \/ LeaveOld(c) PROVE HasLive(b)' <=> HasLive(b)
  <2>1. lobbyID[c] \in Lobby \cup {Nil}
    BY DEF LiveInv, Inv, Agree, HubTyped
  <2>2. live' = live \/ live' = Without(lobbyID[c], c)
    BY <1>2 DEF Unregister, LeaveOld
  <2> QED
    BY <1>1, <2>1, <2>2 DEF HasLive
<1>3. CASE EnterNew
  <2>1. hub.lobby \in Lobby
    BY <1>3 DEF EnterNew, LiveInv, Inv, Agree, HubKnows
  <2>2. live' = [live EXCEPT ![hub.lobby] = [LobbyState(hub.lobby) EXCEPT !.clients = @ \cup {hub.client}]]
    BY <1>3 DEF EnterNew
  <2>3. CASE hub.lobby # Here
    BY <1>a, <2>2, <2>3 DEF HasLive
  <2>4. CASE hub.lobby = Here
    <3>1. LobbyState(Here) \in LiveObject(Ballot)
      BY <1>a DEF LobbyState, NewLobbyState, LiveObject
    <3>2. live'[Here] = [LobbyState(Here) EXCEPT !.clients = @ \cup {hub.client}]
      BY <1>a, <2>2, <2>4
    <3>3. live'[Here].votes = LobbyState(Here).votes
      BY <3>1, <3>2 DEF LiveObject
    <3>4. live'[Here] # Nil
      <4>1. hub.client \in Client
        BY <1>3 DEF EnterNew, LiveInv, Inv, Agree, HubKnows, HubTyped
      <4>2. live'[Here] \in LiveObject(Ballot)
        BY <3>1, <3>2, <4>1 DEF LiveObject
      <4> QED
        BY <4>2
    <3>5. b \in LobbyState(Here).votes <=> HasLive(b)
      BY DEF LobbyState, NewLobbyState, HasLive
    <3> QED
      BY <3>3, <3>4, <3>5 DEF HasLive
  <2> QED
    BY <2>3, <2>4
<1>4. ASSUME live' = live PROVE HasLive(b)' <=> HasLive(b)
  BY <1>4 DEF HasLive
<1> QED
  BY <1>2, <1>3, <1>4 DEF HubNext, Register, Cut, ReadEnds, HandleMessage

LEMMA FoundVotes ==
  ASSUME LiveInv, live' = [live EXCEPT ![Here] = LobbyState(Here)], NEW b \in Ballot
  PROVE  HasLive(b)' <=> HasLive(b)
<1>1. live'[Here] = LobbyState(Here) /\ live'[Here] # Nil
  BY ObjectFound, LobbyLiveAssumption DEF LiveInv, Inv, Typed, LiveTyped
<1>2. b \in LobbyState(Here).votes <=> HasLive(b)
  BY DEF LobbyState, NewLobbyState, HasLive
<1> QED
  BY <1>1, <1>2 DEF HasLive

\* What excuses a step after which the two disagree about b, or agree again.
VoteExcused(b) ==
  \/ live[Here] # Nil /\ live'[Here] = Nil
  \/ \E q \in Request : request[q] # Nil /\ request[q].at = "orphan"
  \/ request' = request /\ votes' # votes /\ \A c \in Ballot : votes'[c] = 0
  \/ \E q \in Request : /\ request[q] # Nil /\ request[q].at = "write"
                      /\ request[q].ballot = b
                      /\ request[q].voted # (votes[b] > 0)

LEMMA VoteDrift ==
  ASSUME LiveInv, [PendingNext]_pendingVars, NEW b \in Ballot, ~VoteExcused(b)
  PROVE  Differ(b) = Differ(b)'
<1> USE NilIsNone
<1>a. /\ request \in [Request -> Work \cup {Nil}] /\ votes \in [Ballot -> Nat]
      /\ live \in [Lobby -> LiveObject(Ballot) \cup {Nil}] /\ Here \in Lobby
      /\ Typed
  BY LobbyLiveAssumption DEF LiveInv, Inv, Typed, LiveTyped, VotesFit
<1>1. CASE HubStep
  <2>1. live[Here] = Nil \/ live'[Here] # Nil
    BY DEF VoteExcused
  <2>2. request' = request
    <3>1. request' = [q \in Request |-> request[q]]
      BY <1>1, <2>1 DEF HubStep, RequestsGoOn
    <3> QED
      BY <1>a, <3>1
  <2>3. votes' = votes
    BY <1>1 DEF HubStep, RequestsGoOn, dbVars
  <2> QED
    BY <1>1, <2>1, <2>2, <2>3, HubKeepsVotes, NobodyVotes DEF HubStep, HasVoted
<1>2. ASSUME NEW q \in Request, NEW c \in Ballot, ReadVote(q, c) PROVE Differ(b) = Differ(b)'
  <2>1. /\ request[q] = Nil /\ live' = live /\ votes' = votes
        /\ request' = [request EXCEPT ![q] = [ballot |-> c, at |-> "write", voted |-> votes[c] > 0]]
    BY <1>2 DEF ReadVote, dbVars
  <2>2. request'[q].at = "write"
    BY <1>a, <2>1
  <2>3. q \notin Pending(b) /\ q \notin Pending(b)'
    BY <2>1, <2>2 DEF Pending
  <2> QED
    BY <1>a, <2>1, <2>3, VoteStays DEF HasVoted, HasLive
<1>3. ASSUME NEW q \in Request, WriteVote(q) PROVE Differ(b) = Differ(b)'
  <2>1. /\ request[q] # Nil /\ request[q] \in Work /\ request[q].at = "write" /\ live' = live
        /\ request' = [request EXCEPT ![q].at = "find"]
        /\ votes' = [votes EXCEPT ![request[q].ballot] = IF request[q].voted THEN 0 ELSE @ + 1]
    BY <1>3, <1>a DEF WriteVote
  <2>2. request'[q] # Nil /\ request'[q].at = "find" /\ request'[q].ballot = request[q].ballot
    <3>1. request'[q] = [request[q] EXCEPT !.at = "find"]
      BY <1>a, <2>1
    <3>2. [request[q] EXCEPT !.at = "find"] \in Work
      BY <2>1 DEF Work
    <3> QED
      BY <2>1, <3>1, <3>2 DEF Work
  <2>3. q \notin Pending(b) /\ (q \in Pending(b)' <=> request[q].ballot = b)
    BY <2>1, <2>2 DEF Pending
  <2>4. CASE request[q].ballot # b
    BY <1>a, <2>1, <2>3, <2>4, VoteStays DEF HasVoted, HasLive
  <2>5. CASE request[q].ballot = b
    <3>1. request[q].voted <=> votes[b] > 0
      <4>1. request[q].voted \in BOOLEAN /\ (votes[b] > 0) \in BOOLEAN
        BY <1>a, <2>1 DEF Work
      <4>2. request[q].voted = (votes[b] > 0)
        BY <2>1, <2>5 DEF VoteExcused
      <4> QED
        BY <4>1, <4>2
    <3>2. votes'[b] = IF request[q].voted THEN 0 ELSE votes[b] + 1
      BY <1>a, <2>1, <2>5
    <3>3. HasVoted(b)' <=> ~HasVoted(b)
      BY <1>a, <3>1, <3>2 DEF HasVoted
    <3>4. HasLive(b)' <=> HasLive(b)
      BY <2>1 DEF HasLive
    <3> QED
      BY <1>a, <2>1, <2>3, <2>5, <3>3, <3>4, VoteStays
  <2> QED
    BY <2>4, <2>5
<1>4. ASSUME NEW q \in Request, FindState(q) PROVE Differ(b) = Differ(b)'
  <2>1. /\ request[q] # Nil /\ request[q] \in Work /\ request[q].at = "find" /\ votes' = votes
        /\ request' = [request EXCEPT ![q].at = "toggle"]
        /\ live' = [live EXCEPT ![Here] = LobbyState(Here)]
    BY <1>4, <1>a DEF FindState, dbVars
  <2>2. request'[q] # Nil /\ request'[q].at = "toggle" /\ request'[q].ballot = request[q].ballot
    <3>1. request'[q] = [request[q] EXCEPT !.at = "toggle"]
      BY <1>a, <2>1
    <3>2. [request[q] EXCEPT !.at = "toggle"] \in Work
      BY <2>1 DEF Work
    <3> QED
      BY <2>1, <3>1, <3>2 DEF Work
  <2>3. q \in Pending(b) <=> q \in Pending(b)'
    BY <2>1, <2>2 DEF Pending
  <2> QED
    BY <1>a, <2>1, <2>3, FoundVotes, VoteStays DEF HasVoted
<1>5. ASSUME NEW q \in Request, ToggleVote(q) PROVE Differ(b) = Differ(b)'
  <2>1. /\ request[q] # Nil /\ request[q] \in Work /\ request[q].at = "toggle" /\ votes' = votes
        /\ request' = [request EXCEPT ![q] = Nil] /\ request[q].ballot \in Ballot
        /\ live' = [live EXCEPT ![Here].votes = Toggled(@, request[q].ballot)]
    BY <1>5, <1>a DEF ToggleVote, VoteExcused, dbVars, Work
  <2>2. live[Here] \in LiveObject(Ballot) /\ live[Here] # Nil
    BY <1>a, <2>1 DEF Typed, FoundIsThere
  <2>3. q \notin Pending(b)' /\ (q \in Pending(b) <=> request[q].ballot = b)
    BY <1>a, <2>1 DEF Pending
  <2> DEFINE x == [live[Here] EXCEPT !.votes = Toggled(@, request[q].ballot)]
  <2>4. x \in LiveObject(Ballot) /\ x.votes = Toggled(live[Here].votes, request[q].ballot)
    BY <2>1, <2>2 DEF LiveObject, Toggled
  <2>5. live'[Here] = x
    BY <1>a, <2>1
  <2> HIDE DEF x
  <2>6. HasLive(b)' <=> (HasLive(b) <=> request[q].ballot # b)
    BY <2>2, <2>4, <2>5 DEF HasLive, Toggled
  <2>7. HasVoted(b)' <=> HasVoted(b)
    BY <2>1 DEF HasVoted
  <2> QED
    BY <1>a, <2>1, <2>3, <2>6, <2>7, VoteStays
<1>6. ASSUME NEW u \in Player, CaptainStep(u) PROVE Differ(b) = Differ(b)'
  <2>1. request' = request /\ live' = live /\ votes' \in {votes, [c \in Ballot |-> 0]}
    BY <1>6 DEF CaptainStep, GenerateTeams, LoadMoreTeams, StartVoting, SelectOption, EndVoting, AskedBy
  <2>2. votes' = votes
    BY <2>1 DEF VoteExcused
  <2> QED
    BY <2>1, <2>2, NobodyVotes DEF HasVoted, HasLive
<1>7. ASSUME NEW h \in Handler, ActionStep(h) PROVE Differ(b) = Differ(b)'
  <2>1. /\ request' = request /\ votes' = votes
        /\ live' = live \/ live' = [live EXCEPT ![Here] = LobbyState(Here)]
    BY <1>7 DEF ActionStep, ProposeAction, ReadPendingAction, CancelPendingAction, FindObject,
         SetPendingAction, ApprovePendingAction, ApprovalRefused, MarkApproval, ClearPendingAction, vars, dbVars
  <2>2. HasLive(b)' <=> HasLive(b)
    BY <2>1, FoundVotes DEF HasLive
  <2> QED
    BY <2>1, <2>2, NobodyVotes DEF HasVoted
<1>8. ASSUME UNCHANGED vars PROVE Differ(b) = Differ(b)'
  BY <1>8, NobodyVotes DEF vars, dbVars, HasVoted, HasLive
<1> QED
  BY <1>1, <1>2, <1>3, <1>4, <1>5, <1>6, <1>7, <1>8 DEF PendingNext, Next, VoteStep, ActionExpires, pendingVars

\* Every vote toggles the table and the live object alike, however CastVote and
\* BroadcastVoteToggle of several requests interleave, but for the excuses.
THEOREM VotesInStep == PendingSpec => VotesDriftOnlyThen
<1>1. LiveInv /\ [PendingNext]_pendingVars =>
        [\A b \in Ballot : Differ(b) # Differ(b)' =>
           \/ live[Here] # Nil /\ live'[Here] = Nil
           \/ \E q \in Request : request[q] # Nil /\ request[q].at = "orphan"
           \/ request' = request /\ votes' # votes /\ \A c \in Ballot : votes'[c] = 0
           \/ \E q \in Request : /\ request[q] # Nil /\ request[q].at = "write"
                               /\ request[q].ballot = b
                               /\ request[q].voted # (votes[b] > 0)]_vars
  BY VoteDrift DEF VoteExcused
<1> QED
  BY <1>1, LiveInvariance, PTL DEF PendingSpec, VotesDriftOnlyThen

\* calculateVotingResult does not depend on the order of Go's map, for any rows
\* that votes, clearings and double clicks leave: the lowest of the options with
\* the most votes wins.
THEOREM DefiniteWinner == PendingSpec => []WinnerIsDefinite
<1>1. LiveInv => WinnerIsDefinite
  BY LowestOfTheMostVoted DEF LiveInv, VotesFit
<1> QED
  BY <1>1, LiveInvariance, PTL
=============================================================================
