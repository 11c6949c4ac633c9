--------------------------------- MODULE Teams ----------------------------------
(***************************************************************************)
(* The teams: lib/team.ts and the organiser's actions on teams.            *)
(*                                                                         *)
(* A handler reads what it needs to refuse the request, and then runs one  *)
(* transaction that repeats some of the checks and not others.  Between    *)
(* the two any other request may commit: request[r] keeps what r has read  *)
(* and not looked at again.  Names, slugs, roles and notifications are     *)
(* left out: where roles choose between teams with a free place, any of    *)
(* them may be chosen.                                                     *)
(***************************************************************************)
EXTENDS Integers, FiniteSets

CONSTANTS
  Players, NoPlayer,
  TeamIds, NoTeam,      \* bound: teams that are ever created
  InviteIds, NoInvite,  \* bound: invitations that are ever sent
  TeamFull,             \* TEAM_FULL
  Requests,             \* bound: handlers at work at one time
  MaxLinks,             \* bound: how often the link of a team is renewed
  MaxRequests,          \* bound: how many requests are ever made
  TeamFaults            \* bound: what the organiser does in a run

ASSUME TeamsAssumption ==
  /\ IsFiniteSet(Players) /\ NoPlayer \notin Players
  /\ NoTeam \notin TeamIds /\ NoInvite \notin InviteIds
  /\ TeamFull \in Nat \ {0} /\ MaxLinks \in Nat /\ MaxRequests \in Nat

VARIABLES
  teamOf,      \* User.teamId
  teamRow,     \* the Team rows, and their column solo
  link,        \* Team.inviteToken
  invitation,  \* the TeamInvite rows
  hasWork,     \* the teams with an idea or a product
  finalWork,   \* the teams with a submitted product
  forming,     \* the module team is open
  request,     \* the handlers at work, with what they read
  compose,     \* autoComposeTeams: the players and the places it has counted
  begun,       \* how many requests were made
  overfilled,  \* history: teams that a merge filled beyond TeamFull
  squeezed,    \* history: closed teams that autoComposeTeams added to
  abandoned    \* history: teams whose last member the organiser took away

teamTable == <<teamOf, teamRow, link, invitation>>
works == <<hasWork, finalWork>>
handlers == <<request, compose, begun>>
teamHistory == <<overfilled, squeezed, abandoned>>
teamVars == <<teamTable, works, forming, handlers, teamHistory>>

RequestKinds == {"create", "solo", "open", "match", "invite", "accept", "link", "renew",
                 "leave", "move", "merge", "remove", "delete"}
IdleRequest == [kind |-> "idle", user |-> NoPlayer, team |-> NoTeam, other |-> NoTeam,
                invite |-> NoInvite, link |-> 0]
NoCompose == [at |-> "idle", users |-> {}, count |-> [t \in TeamIds |-> 0]]
FreeInvite == [status |-> "NONE", team |-> NoTeam, to |-> NoPlayer]

TeamsTypeOK ==
  /\ teamOf \in [Players -> TeamIds \cup {NoTeam}]
  /\ teamRow \in [TeamIds -> {"free", "open", "solo", "gone"}]
  /\ link \in [TeamIds -> 0..MaxLinks]
  /\ invitation \in [InviteIds ->
       [status : {"NONE", "PENDING", "ACCEPTED", "DECLINED", "GONE"},
        team : TeamIds \cup {NoTeam}, to : Players \cup {NoPlayer}]]
  /\ hasWork \subseteq TeamIds /\ finalWork \subseteq hasWork
  /\ forming \in BOOLEAN
  /\ request \in [Requests ->
       [kind : RequestKinds \cup {"idle"}, user : Players \cup {NoPlayer},
        team : TeamIds \cup {NoTeam}, other : TeamIds \cup {NoTeam},
        invite : InviteIds \cup {NoInvite}, link : 0..MaxLinks]]
  /\ compose \in [at : {"idle", "busy"}, users : SUBSET Players, count : [TeamIds -> Nat]]
  /\ begun \in 0..MaxRequests
  /\ overfilled \subseteq TeamIds /\ squeezed \subseteq TeamIds /\ abandoned \subseteq TeamIds

TeamsInit ==
  /\ teamOf = [p \in Players |-> NoTeam]
  /\ teamRow = [t \in TeamIds |-> "free"]
  /\ link = [t \in TeamIds |-> 0]
  /\ invitation = [i \in InviteIds |-> FreeInvite]
  /\ hasWork = {} /\ finalWork = {} /\ forming = TRUE
  /\ request = [r \in Requests |-> IdleRequest]
  /\ compose = NoCompose /\ begun = 0
  /\ overfilled = {} /\ squeezed = {} /\ abandoned = {}

Members(t) == {p \in Players : teamOf[p] = t}
Exists(t) == t \in TeamIds /\ teamRow[t] \in {"open", "solo"}
--------------------------------------------------------------------------------
(* A handler that has passed its checks, and one that is done.             *)

Begins(r, what) ==
  /\ request[r] = IdleRequest
  /\ begun < MaxRequests /\ begun' = begun + 1
  /\ request' = [request EXCEPT ![r] = what]
  /\ UNCHANGED <<teamTable, works, forming, compose, teamHistory>>

Ends(r) ==
  /\ request' = [request EXCEPT ![r] = IdleRequest]
  /\ UNCHANGED <<compose, begun>>

(* A transaction that rolls back, or a condition that no row meets.        *)
ComesToNothing(r) ==
  /\ Ends(r)
  /\ UNCHANGED <<teamTable, works, forming, teamHistory>>

(* assertJoinableTx, inside the transaction of every join.                 *)
JoinableUncounted(t) == teamRow[t] = "open" /\ t \notin finalWork
JoinableClosed(t) == Exists(t) /\ t \notin finalWork /\ Cardinality(Members(t)) < TeamFull

Joinable(t) ==
  /\ teamRow[t] = "open"
  /\ t \notin finalWork
  /\ Cardinality(Members(t)) < TeamFull

(* Some invitations get another status.                                    *)
InvitesOf(t) == {i \in InviteIds : invitation[i].team = t}
PendingOf(t) == {i \in InvitesOf(t) : invitation[i].status = "PENDING"}

Answers(invites, status) ==
  invitation' = [i \in InviteIds |->
                   IF i \in invites THEN [invitation[i] EXCEPT !.status = status]
                   ELSE invitation[i]]

(* deleteEmptyTeamTx, with the members as they are after the step.         *)
DeleteEmptyTeam(t) ==
  IF (\A p \in Players : teamOf'[p] # t) /\ Exists(t) /\ t \notin hasWork
  THEN /\ teamRow' = [teamRow EXCEPT ![t] = "gone"]
       /\ Answers(InvitesOf(t), "GONE")
  ELSE UNCHANGED <<teamRow, invitation>>
--------------------------------------------------------------------------------
(* createTeamForUser and the first half of goSolo: a new team with the     *)
(* player in it, if the player is still without a team.                    *)

CreateTeamReads(r, u) ==
  /\ forming /\ teamOf[u] = NoTeam
  /\ Begins(r, [IdleRequest EXCEPT !.kind = "create", !.user = u])

NewTeamFor(u, solo) ==
  \E t \in TeamIds :
    /\ teamRow[t] = "free"
    /\ teamRow' = [teamRow EXCEPT ![t] = solo]
    /\ teamOf' = [teamOf EXCEPT ![u] = t]

CreateTeam(r) ==
  LET u == request[r].user IN
  /\ request[r].kind = "create"
  /\ IF teamOf[u] = NoTeam
     THEN /\ NewTeamFor(u, "open") /\ Ends(r)
          /\ UNCHANGED <<link, invitation, works, forming, teamHistory>>
     ELSE ComesToNothing(r)

GoSoloReads(r, u) ==
  /\ forming
  /\ Begins(r, [IdleRequest EXCEPT !.kind = "solo", !.user = u, !.team = teamOf[u]])

(* A member without mates closes the team, and its invitations with it.    *)
GoSolo(r) ==
  LET u == request[r].user
      t == request[r].team
  IN
  /\ request[r].kind = "solo"
  /\ CASE t = NoTeam /\ teamOf[u] = NoTeam ->
            /\ NewTeamFor(u, "solo") /\ Ends(r)
            /\ UNCHANGED <<link, invitation, works, forming, teamHistory>>
       [] t # NoTeam /\ Members(t) = {u} ->
            /\ teamRow' = [teamRow EXCEPT ![t] = "solo"]
            /\ Answers(PendingOf(t), "DECLINED")
            /\ Ends(r)
            /\ UNCHANGED <<teamOf, link, works, forming, teamHistory>>
       [] OTHER -> ComesToNothing(r)

OpenSoloReads(r, u) ==
  /\ forming /\ teamOf[u] # NoTeam
  /\ Begins(r, [IdleRequest EXCEPT !.kind = "open", !.user = u, !.team = teamOf[u]])

OpenSoloTeam(r) ==
  LET t == request[r].team IN
  /\ request[r].kind = "open"
  /\ IF Exists(t)
     THEN /\ teamRow' = [teamRow EXCEPT ![t] = "open"] /\ Ends(r)
          /\ UNCHANGED <<teamOf, link, invitation, works, forming, teamHistory>>
     ELSE ComesToNothing(r)
--------------------------------------------------------------------------------
(* The three ways into a team that exists.                                 *)

HasPlace(t) ==
  /\ teamRow[t] = "open" /\ t \notin finalWork
  /\ Cardinality(Members(t)) \in 1..(TeamFull - 1)

MatchmakingReads(r, u) ==
  /\ forming /\ teamOf[u] = NoTeam
  /\ \/ \E t \in TeamIds :
          HasPlace(t) /\ Begins(r, [IdleRequest EXCEPT !.kind = "match", !.user = u, !.team = t])
     \/ /\ \A t \in TeamIds : ~HasPlace(t)
        /\ Begins(r, [IdleRequest EXCEPT !.kind = "create", !.user = u])

AcceptReads(r, u, i) ==
  /\ teamOf[u] = NoTeam
  /\ invitation[i].status = "PENDING" /\ invitation[i].to = u
  /\ forming /\ teamRow[invitation[i].team] # "solo"
  /\ Begins(r, [IdleRequest EXCEPT !.kind = "accept", !.user = u, !.team = invitation[i].team,
                                   !.invite = i])

LinkReads(r, u, t) ==
  /\ teamOf[u] = NoTeam
  /\ forming /\ teamRow[t] = "open"
  /\ Begins(r, [IdleRequest EXCEPT !.kind = "link", !.user = u, !.team = t, !.link = link[t]])

(* The invitation that is accepted must still be pending; the link must    *)
(* still be that of the team; a pending invitation of the team to whoever  *)
(* joins by another way is accepted with it.                               *)
JoinTeam(r) ==
  LET u == request[r].user
      t == request[r].team
  IN
  /\ request[r].kind \in {"match", "accept", "link"}
  /\ IF /\ Joinable(t) /\ teamOf[u] = NoTeam
        /\ request[r].kind = "accept" => invitation[request[r].invite].status = "PENDING"
        /\ request[r].kind = "link" => link[t] = request[r].link
     THEN /\ teamOf' = [teamOf EXCEPT ![u] = t]
          /\ IF request[r].kind = "accept"
             THEN invitation' = [invitation EXCEPT ![request[r].invite].status = "ACCEPTED"]
             ELSE Answers({i \in PendingOf(t) : invitation[i].to = u}, "ACCEPTED")
          /\ Ends(r)
          /\ UNCHANGED <<teamRow, link, works, forming, teamHistory>>
     ELSE ComesToNothing(r)
--------------------------------------------------------------------------------
(* Invitations and links.                                                  *)

InviteReads(r, u, v) ==
  LET t == teamOf[u] IN
  /\ forming /\ t # NoTeam /\ u # v
  /\ t \notin finalWork /\ Cardinality(Members(t)) < TeamFull /\ teamRow[t] # "solo"
  /\ teamOf[v] = NoTeam
  /\ ~\E i \in InviteIds : invitation[i] = [status |-> "PENDING", team |-> t, to |-> v]
  /\ Begins(r, [IdleRequest EXCEPT !.kind = "invite", !.user = v, !.team = t])

InviteToTeam(r) ==
  LET t == request[r].team IN
  /\ request[r].kind = "invite"
  /\ IF Exists(t)
     THEN /\ \E i \in InviteIds :
               /\ invitation[i] = FreeInvite
               /\ invitation' = [invitation EXCEPT ![i] =
                    [status |-> "PENDING", team |-> t, to |-> request[r].user]]
          /\ Ends(r)
          /\ UNCHANGED <<teamOf, teamRow, link, works, forming, teamHistory>>
     ELSE ComesToNothing(r)

DeclineInvite(i) ==
  /\ invitation[i].status = "PENDING"
  /\ invitation' = [invitation EXCEPT ![i].status = "DECLINED"]
  /\ UNCHANGED <<teamOf, teamRow, link, works, forming, handlers, teamHistory>>

RenewReads(r, u) ==
  LET t == teamOf[u] IN
  /\ forming /\ t # NoTeam /\ teamRow[t] # "solo" /\ link[t] < MaxLinks
  /\ Begins(r, [IdleRequest EXCEPT !.kind = "renew", !.user = u, !.team = t])

RegenerateInviteToken(r) ==
  LET t == request[r].team IN
  /\ request[r].kind = "renew"
  /\ IF Exists(t) /\ link[t] < MaxLinks
     THEN /\ link' = [link EXCEPT ![t] = @ + 1] /\ Ends(r)
          /\ UNCHANGED <<teamOf, teamRow, invitation, works, forming, teamHistory>>
     ELSE ComesToNothing(r)
--------------------------------------------------------------------------------
(* leaveTeam: everything is checked before the transaction, which takes    *)
(* the player out of whatever team the player is in by then.               *)

LeaveReads(r, u) ==
  LET t == teamOf[u] IN
  /\ forming /\ t # NoTeam /\ t \notin finalWork
  /\ Members(t) # {u} \/ t \notin hasWork
  /\ Begins(r, [IdleRequest EXCEPT !.kind = "leave", !.user = u, !.team = t])

LeaveTeam(r) ==
  LET u == request[r].user
      t == request[r].team
  IN
  /\ request[r].kind = "leave"
  /\ teamOf' = [teamOf EXCEPT ![u] = NoTeam]
  /\ DeleteEmptyTeam(t)
  /\ abandoned' = IF teamOf[u] \notin {NoTeam, t} THEN abandoned \cup {teamOf[u]} ELSE abandoned
  /\ Ends(r)
  /\ UNCHANGED <<link, works, forming, overfilled, squeezed>>
--------------------------------------------------------------------------------
(* The organiser: adminMoveUserToTeam, adminMergeTeams, removeMemberAction, *)
(* deleteTeamAction.                                                       *)

MoveReads(r, u, t) ==
  /\ "move" \in TeamFaults
  /\ Exists(t) /\ teamOf[u] # t
  /\ Begins(r, [IdleRequest EXCEPT !.kind = "move", !.user = u, !.team = teamOf[u], !.other = t])

AdminMoveUser(r) ==
  LET u == request[r].user
      from == request[r].team
      to == request[r].other
  IN
  /\ request[r].kind = "move"
  /\ IF Cardinality(Members(to)) < TeamFull /\ Exists(to) /\ teamOf[u] = from
     THEN LET left == /\ from # NoTeam /\ Members(from) = {u} /\ from \notin hasWork IN
          /\ teamOf' = [teamOf EXCEPT ![u] = to]
          /\ teamRow' = [t \in TeamIds |-> CASE t = to -> "open"
                                             [] t = from /\ left -> "gone"
                                             [] OTHER -> teamRow[t]]
          /\ Answers(IF left THEN InvitesOf(from) ELSE {}, "GONE")
          /\ Ends(r)
          /\ UNCHANGED <<link, works, forming, teamHistory>>
     ELSE ComesToNothing(r)

MergeReads(r, a, b) ==
  /\ "merge" \in TeamFaults
  /\ a # b /\ Exists(a) /\ Exists(b) /\ b \notin hasWork
  /\ Cardinality(Members(a)) + Cardinality(Members(b)) <= TeamFull
  /\ Begins(r, [IdleRequest EXCEPT !.kind = "merge", !.team = a, !.other = b])

AdminMergeTeams(r) ==
  LET a == request[r].team
      b == request[r].other
  IN
  /\ request[r].kind = "merge"
  /\ IF Exists(a) /\ Exists(b) /\ b \notin hasWork
     THEN /\ teamOf' = [p \in Players |-> IF teamOf[p] = b THEN a ELSE teamOf[p]]
          /\ teamRow' = [teamRow EXCEPT ![a] = "open", ![b] = "gone"]
          /\ Answers(InvitesOf(b), "GONE")
          /\ overfilled' = IF Cardinality(Members(a) \cup Members(b)) > TeamFull
                           THEN overfilled \cup {a} ELSE overfilled
          /\ Ends(r)
          /\ UNCHANGED <<link, works, forming, squeezed, abandoned>>
     ELSE ComesToNothing(r)

RemoveReads(r, u) ==
  /\ "remove" \in TeamFaults
  /\ teamOf[u] # NoTeam
  /\ Begins(r, [IdleRequest EXCEPT !.kind = "remove", !.user = u])

RemoveMember(r) ==
  LET u == request[r].user IN
  /\ request[r].kind = "remove"
  /\ abandoned' = IF teamOf[u] # NoTeam THEN abandoned \cup {teamOf[u]} ELSE abandoned
  /\ teamOf' = [teamOf EXCEPT ![u] = NoTeam]
  /\ Ends(r)
  /\ UNCHANGED <<teamRow, link, invitation, works, forming, overfilled, squeezed>>

DeleteReads(r, t) ==
  /\ "remove" \in TeamFaults
  /\ Exists(t) /\ Members(t) = {} /\ t \notin hasWork
  /\ Begins(r, [IdleRequest EXCEPT !.kind = "delete", !.team = t])

(* An idea or a product that came in between keeps the row by its key.     *)
DeleteTeamUncounted(r) ==
  /\ request[r].kind = "delete"
  /\ teamRow' = [teamRow EXCEPT ![request[r].team] = "gone"]
  /\ Answers(InvitesOf(request[r].team), "GONE")
  /\ Ends(r)
  /\ UNCHANGED <<teamOf, link, works, forming, teamHistory>>

DeleteTeam(r) ==
  LET t == request[r].team IN
  /\ request[r].kind = "delete"
  /\ IF Members(t) = {} /\ Exists(t) /\ t \notin hasWork
     THEN /\ teamRow' = [teamRow EXCEPT ![t] = "gone"]
          /\ Answers(InvitesOf(t), "GONE")
          /\ Ends(r)
          /\ UNCHANGED <<teamOf, link, works, forming, teamHistory>>
     ELSE ComesToNothing(r)
--------------------------------------------------------------------------------
(* autoComposeTeams: the players without a team and the teams with a free  *)
(* place are read once; then one transaction per player.                   *)

ComposeReads ==
  /\ "compose" \in TeamFaults /\ compose.at = "idle"
  /\ begun < MaxRequests /\ begun' = begun + 1
  /\ compose' = [at |-> "busy", users |-> {p \in Players : teamOf[p] = NoTeam},
                 count |-> [t \in TeamIds |-> IF HasPlace(t) THEN Cardinality(Members(t)) ELSE 0]]
  /\ UNCHANGED <<teamTable, works, forming, request, teamHistory>>

Counted(t) == compose.count[t] \in 1..(TeamFull - 1)

LeavesBehind(u) ==
  abandoned' = IF teamOf[u] # NoTeam THEN abandoned \cup {teamOf[u]} ELSE abandoned

(* adminAssignUserToTeam counts the members again, and nothing else.       *)
AdminAssignUser(u, t) ==
  /\ compose.at = "busy" /\ u \in compose.users /\ Counted(t)
  /\ Exists(t) /\ Cardinality(Members(t)) < TeamFull
  /\ teamOf' = [teamOf EXCEPT ![u] = t]
  /\ squeezed' = IF teamRow[t] = "solo" THEN squeezed \cup {t} ELSE squeezed
  /\ LeavesBehind(u)
  /\ compose' = [compose EXCEPT !.users = @ \ {u}, !.count[t] = @ + 1]
  /\ UNCHANGED <<teamRow, link, invitation, works, forming, request, begun, overfilled>>

(* adminCreateTeamForUser, when no team has a place or the choice failed.  *)
AdminCreateTeam(u) ==
  /\ compose.at = "busy" /\ u \in compose.users
  /\ \/ \A t \in TeamIds : ~Counted(t)
     \/ \E t \in TeamIds : Counted(t) /\ ~(Exists(t) /\ Cardinality(Members(t)) < TeamFull)
  /\ \E t \in TeamIds :
       /\ teamRow[t] = "free"
       /\ teamRow' = [teamRow EXCEPT ![t] = "open"]
       /\ teamOf' = [teamOf EXCEPT ![u] = t]
       /\ compose' = [compose EXCEPT !.users = @ \ {u}, !.count[t] = 1]
  /\ LeavesBehind(u)
  /\ UNCHANGED <<link, invitation, works, forming, request, begun, overfilled, squeezed>>

ComposeEnds ==
  /\ compose.at = "busy"
  /\ \/ compose.users = {}
     \/ \A t \in TeamIds : teamRow[t] # "free"   \* bound: no more teams
  /\ compose' = NoCompose
  /\ UNCHANGED <<teamTable, works, forming, request, begun, teamHistory>>
--------------------------------------------------------------------------------
(* Around the teams: an idea or a product is saved, a product is submitted *)
(* or taken back, by someone who is or was a member (the handler has read  *)
(* its team at the beginning); the organiser opens and closes the module.  *)

SaveWork(t) ==
  /\ Exists(t)
  /\ hasWork' = hasWork \cup {t}
  /\ UNCHANGED <<teamTable, finalWork, forming, handlers, teamHistory>>

SubmitUnsaved(t) ==
  /\ Exists(t)
  /\ finalWork' = finalWork \cup {t}
  /\ UNCHANGED <<teamTable, hasWork, forming, handlers, teamHistory>>

SubmitWork(t) ==
  /\ t \in hasWork
  /\ finalWork' = IF t \in finalWork THEN finalWork \ {t} ELSE finalWork \cup {t}
  /\ UNCHANGED <<teamTable, hasWork, forming, handlers, teamHistory>>

SetTeamModule ==
  /\ "module" \in TeamFaults
  /\ forming' = ~forming
  /\ UNCHANGED <<teamTable, works, handlers, teamHistory>>

PlayerReads(r, u) ==
  \/ CreateTeamReads(r, u) \/ GoSoloReads(r, u) \/ OpenSoloReads(r, u)
  \/ MatchmakingReads(r, u) \/ RenewReads(r, u) \/ LeaveReads(r, u)
  \/ \E i \in InviteIds : AcceptReads(r, u, i)
  \/ \E t \in TeamIds : LinkReads(r, u, t)
  \/ \E v \in Players : InviteReads(r, u, v)

OrganiserReads(r) ==
  \/ \E u \in Players : RemoveReads(r, u) \/ \E t \in TeamIds : MoveReads(r, u, t)
  \/ \E t \in TeamIds : DeleteReads(r, t) \/ \E b \in TeamIds : MergeReads(r, t, b)

PlayerCommits(r) ==
  \/ CreateTeam(r) \/ GoSolo(r) \/ OpenSoloTeam(r) \/ JoinTeam(r)
  \/ InviteToTeam(r) \/ RegenerateInviteToken(r) \/ LeaveTeam(r)

OrganiserCommits(r) ==
  AdminMoveUser(r) \/ AdminMergeTeams(r) \/ RemoveMember(r) \/ DeleteTeam(r)

ComposeStep ==
  \/ ComposeReads \/ ComposeEnds
  \/ \E u \in Players : AdminCreateTeam(u) \/ \E t \in TeamIds : AdminAssignUser(u, t)

TeamsNext ==
  \/ \E r \in Requests, u \in Players : PlayerReads(r, u)
  \/ \E r \in Requests : OrganiserReads(r) \/ PlayerCommits(r) \/ OrganiserCommits(r)
  \/ \E i \in InviteIds : DeclineInvite(i)
  \/ ComposeStep
  \/ \E t \in TeamIds : SaveWork(t) \/ SubmitWork(t)
  \/ SetTeamModule

TeamsSpec == TeamsInit /\ [][TeamsNext]_teamVars
--------------------------------------------------------------------------------
(* Properties *)

(* TEAM_FULL is kept however invitations, links, matchmaking and the       *)
(* organiser fill the last place; only adminMergeTeams, which counts the   *)
(* members before its transaction, can go beyond it.                       *)
FullKept == \A t \in TeamIds : Cardinality(Members(t)) <= TeamFull \/ t \in overfilled

(* "A join at the same time as goSolo or as another join does not get      *)
(* around the rule" (team.ts:171): whoever takes part alone stays alone,   *)
(* but for autoComposeTeams, which reads solo before its transactions.     *)
SoloAlone ==
  \A t \in TeamIds : teamRow[t] = "solo" => Cardinality(Members(t)) <= 1 \/ t \in squeezed

(* Nobody is a member of a team that is deleted, whoever deletes it while  *)
(* others join.                                                            *)
TeamsExist == \A p \in Players : teamOf[p] # NoTeam => Exists(teamOf[p])

(* "An empty team is deleted with what hangs on it" (team.ts:551): a team  *)
(* without members has an idea or a product, or the organiser took its     *)
(* last member away.                                                       *)
EmptyTeamsGone ==
  \A t \in TeamIds : Exists(t) /\ Members(t) = {} => t \in hasWork \/ t \in abandoned

(* Both: a team exists as long as it has members, and no longer.           *)
TeamsInUse == TeamsExist /\ EmptyTeamsGone
================================================================================
