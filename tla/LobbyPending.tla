---------------------------- MODULE LobbyPending ----------------------------
(***************************************************************************)
(* LobbyLive and what two captains agree on: a pending action is a row of  *)
(* the database, and a copy in the lobby's live object that the clients    *)
(* are shown (lobby_state.go, and the Propose*, Approve* and Cancel*       *)
(* handlers of handlers/lobby.go).  The service's part of a request is one *)
(* step, what the handler does before and after it are steps of their own. *)
(***************************************************************************)
EXTENDS LobbyLive

CONSTANTS TeamOf,    \* captain -> side
          Proposal,  \* what captains may propose: [kind, option]
          Handler    \* the requests about pending actions that may be under way

Side == {"blue", "red"}

\* Enough numbers for the row, the copy and all requests to differ.
ID == 1 .. 2 + Cardinality(Handler)

ActionRow == [id : ID, by : Side, what : Proposal]

Copy == [id : ID, approved : SUBSET Side]

\* An approval remembers whether it found a copy (seen), and keeps that of an
\* object which has become an orphan (own).
Asked == [id : ID, side : Side, at : {"find", "set", "lost", "approve", "mark", "clear"},
          seen : BOOLEAN, orphan : BOOLEAN, own : Copy \cup {Nil}]

ASSUME LobbyPendingAssumption ==
  /\ TeamOf \in [Captain -> Side]
  /\ IsFiniteSet(Handler)
  /\ Proposal \subseteq [kind : {"swap", "matchmake", "select_option", "start_draft"},
                         option : Nat \cup {Nil}]
  /\ Nil \notin ActionRow \cup Copy \cup Asked

VARIABLES pending,  \* the row that is pending, or Nil
          shown,    \* the pendingAction of Here's live object, or Nil
          asked     \* handler -> the action it is about and how far it is, or Nil

pendingVars == <<vars, pending, shown, asked>>

PendingTypeOK ==
  /\ TypeOK
  /\ pending \in ActionRow \cup {Nil}
  /\ shown \in Copy \cup {Nil}
  /\ live[Here] = Nil => shown = Nil
  /\ asked \in [Handler -> Asked \cup {Nil}]

PendingInit ==
  /\ Init
  /\ pending = Nil
  /\ shown = Nil
  /\ asked = [h \in Handler |-> Nil]

-----------------------------------------------------------------------------
\* The rest of the lobby goes on.  When the live object is deleted its copy is
\* gone, and the requests that hold the object go on with an orphan.

Orphaned(a) ==
  IF a.at = "set" THEN [a EXCEPT !.at = "lost"]
  ELSE IF a.at \in {"approve", "mark"} /\ a.seen /\ ~a.orphan
  THEN [a EXCEPT !.orphan = TRUE, !.own = shown]
  ELSE a

ActionsGoOn ==
  /\ IF live[Here] # Nil /\ live'[Here] = Nil
     THEN /\ shown' = Nil
          /\ asked' = [h \in Handler |-> IF asked[h] = Nil THEN Nil ELSE Orphaned(asked[h])]
     ELSE UNCHANGED <<shown, asked>>
  /\ UNCHANGED pending

-----------------------------------------------------------------------------
\* What the service asks for.

Fresh(i) ==
  /\ \A x \in {pending, shown} \ {Nil} : x.id # i
  /\ \A h \in Handler : asked[h] # Nil => asked[h].id # i

Fits(p) ==
  CASE p.kind = "swap" -> TRUE
    [] p.kind = "matchmake" -> status = "waiting_for_players"
    [] p.kind = "select_option" -> status = "matchmaking" /\ p.option \in DOMAIN options
    [] p.kind = "start_draft" -> status = "team_selected"

\* What a swap does to the teams is Lobby's subject.
ExecutePendingAction(p) ==
  /\ Fits(p)
  /\ \/ p.kind = "swap" /\ UNCHANGED <<options, status, selected>>
     \/ p.kind = "matchmake" /\ GenerateMatchOptions /\ status' = "matchmaking"
                             /\ UNCHANGED selected
     \/ p.kind = "select_option" /\ Select(p.option) /\ UNCHANGED options
     \/ p.kind = "start_draft" /\ status' = "drafting" /\ UNCHANGED <<options, selected>>

IsPending(i) == pending # Nil /\ pending.id = i

-----------------------------------------------------------------------------
\* The handlers.

Asks(h, c) ==
  /\ asked[h] = Nil
  /\ left > 0
  /\ left' = left - 1

Ask(i, c, at, seen) ==
  [id |-> i, side |-> TeamOf[c], at |-> at, seen |-> seen, orphan |-> FALSE, own |-> Nil]

\* ProposeSwap, ProposeMatchmake, ProposeSelectOption and ProposeStartDraft.
ProposeAction(h, c, p) ==
  /\ Asks(h, c)
  /\ pending = Nil
  /\ Fits(p)
  /\ p.kind = "swap" => status # "drafting"
  /\ LET i == Min({j \in ID : Fresh(j)})
     IN /\ pending' = [id |-> i, by |-> TeamOf[c], what |-> p]
        /\ asked' = [asked EXCEPT ![h] = Ask(i, c, "find", FALSE)]
  /\ UNCHANGED <<hubVars, live, dbVars, request, shown>>

FindObject(h) ==
  /\ asked[h] # Nil /\ asked[h].at = "find"
  /\ live' = [live EXCEPT ![Here] = LobbyState(Here)]
  /\ asked' = [asked EXCEPT ![h].at = "set"]
  /\ UNCHANGED <<hubVars, left, dbVars, request, pending, shown>>

SetPendingAction(h) ==
  /\ asked[h] # Nil /\ asked[h].at \in {"set", "lost"}
  /\ shown' = IF asked[h].at = "lost" THEN shown
              ELSE [id |-> asked[h].id, approved |-> {asked[h].side}]
  /\ asked' = [asked EXCEPT ![h] = Nil]
  /\ UNCHANGED <<vars, pending>>

\* The object is found, or made, and its copy looked at before the service is asked.
ReadPendingAction(h, c, i) ==
  /\ Asks(h, c)
  /\ live' = [live EXCEPT ![Here] = LobbyState(Here)]
  /\ asked' = [asked EXCEPT ![h] = Ask(i, c, "approve", shown # Nil)]
  /\ UNCHANGED <<hubVars, dbVars, request, pending, shown>>

\* The proposing side has approved already, so that the other one is the second.
ApprovePendingAction(h) ==
  /\ asked[h] # Nil /\ asked[h].at = "approve"
  /\ IsPending(asked[h].id)
  /\ asked[h].side # pending.by
  /\ ExecutePendingAction(pending.what)
  /\ pending' = Nil
  /\ asked' = [asked EXCEPT ![h] = IF asked[h].seen THEN [@ EXCEPT !.at = "mark"] ELSE Nil]
  /\ UNCHANGED <<hubVars, left, live, enabled, mode, votes, request, shown>>

ApprovalRefused(h) ==
  /\ asked[h] # Nil /\ asked[h].at = "approve"
  /\ ~(IsPending(asked[h].id) /\ asked[h].side # pending.by /\ Fits(pending.what))
  /\ asked' = [asked EXCEPT ![h] = Nil]
  /\ UNCHANGED <<vars, pending, shown>>

\* The approval is noted in whatever copy the object has by now.
MarkApproval(h) ==
  /\ asked[h] # Nil /\ asked[h].at = "mark"
  /\ LET copy == IF asked[h].orphan THEN asked[h].own ELSE shown
         full == copy # Nil /\ copy.approved \cup {asked[h].side} = Side
     IN /\ shown' = IF asked[h].orphan \/ shown = Nil THEN shown
                    ELSE [shown EXCEPT !.approved = @ \cup {asked[h].side}]
        /\ asked' = [asked EXCEPT ![h] = IF full THEN [@ EXCEPT !.at = "clear", !.orphan = FALSE,
                                                                !.own = Nil] ELSE Nil]
  /\ UNCHANGED <<vars, pending>>

CancelPendingAction(h, c, i) ==
  /\ Asks(h, c)
  /\ IsPending(i)
  /\ pending' = Nil
  /\ asked' = [asked EXCEPT ![h] = Ask(i, c, "clear", FALSE)]
  /\ UNCHANGED <<hubVars, live, dbVars, request, shown>>

\* Faulty form of the broadcasts: the clients are told, the copy stays.
ClearPendingActionNot(h) ==
  /\ asked[h] # Nil /\ asked[h].at = "clear"
  /\ asked' = [asked EXCEPT ![h] = Nil]
  /\ UNCHANGED <<vars, pending, shown>>

\* BroadcastActionExecuted and BroadcastActionCancelled.
ClearPendingAction(h) ==
  /\ asked[h] # Nil /\ asked[h].at = "clear"
  /\ shown' = Nil
  /\ asked' = [asked EXCEPT ![h] = Nil]
  /\ UNCHANGED <<vars, pending>>

\* The minutes of an action are over: nobody finds the row or the copy any more.
\* No request about it takes that long.
ActionExpires(i) ==
  /\ \E x \in {pending, shown} \ {Nil} : x.id = i
  /\ \A h \in Handler : asked[h] # Nil => asked[h].id # i
  /\ pending' = IF IsPending(i) THEN Nil ELSE pending
  /\ shown' = IF shown # Nil /\ shown.id = i THEN Nil ELSE shown
  /\ UNCHANGED <<vars, asked>>

ActionStep(h) ==
  \/ \E c \in Captain :
       \/ \E p \in Proposal : ProposeAction(h, c, p)
       \/ \E x \in {pending, shown} \ {Nil} :
            ReadPendingAction(h, c, x.id) \/ CancelPendingAction(h, c, x.id)
  \/ FindObject(h) \/ SetPendingAction(h) \/ ApprovePendingAction(h) \/ ApprovalRefused(h)
  \/ MarkApproval(h) \/ ClearPendingAction(h)

PendingNext ==
  \/ Next /\ ActionsGoOn
  \/ \E h \in Handler : ActionStep(h)
  \/ \E i \in ID : ActionExpires(i)

PendingSpec == PendingInit /\ [][PendingNext]_pendingVars /\ HubFairness

-----------------------------------------------------------------------------
\* Properties.

\* The requests that have changed what is pending and not yet what is shown.
Owing(i) ==
  {h \in Handler : asked[h] # Nil /\ asked[h].id = i /\ asked[h].at # "approve"}

\* Row and copy disagree about action i, what is under way apart.
ActionDiffers(i) ==
  (IsPending(i) # (shown # Nil /\ shown.id = i)) # (Cardinality(Owing(i)) % 2 = 1)

\* The captains are shown what is pending, except after four things: the live
\* object goes (or was found and is an orphan by the time of the write); an
\* approval found no copy and so leaves none to be cleared; a proposal is shown
\* over another action that has not been cleared; or an approval or a clearing
\* meets a copy that is not of its own action.
ActionsDriftOnlyThen ==
  [][\A i \in ID : ~ActionDiffers(i) /\ ActionDiffers(i)' =>
       \/ live[Here] # Nil /\ live'[Here] = Nil
       \/ \E h \in Handler : asked[h] # Nil /\ asked'[h] # asked[h] /\
            \/ asked[h].at = "lost" \/ asked[h].orphan
            \/ asked[h].at = "approve" /\ ~asked[h].seen
            \/ asked[h].at = "set" /\ shown # Nil
            \/ asked[h].at \in {"mark", "clear"} /\ (shown = Nil \/ shown.id # asked[h].id)
    ]_pendingVars
=============================================================================
