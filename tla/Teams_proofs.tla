------------------------------ MODULE Teams_proofs ------------------------------
(***************************************************************************)
(* The teams, for any number of players, teams, invitations and handlers   *)
(* at work at the same time.                                               *)
(***************************************************************************)
EXTENDS Teams, FiniteSetTheorems, TLAPS

RequestRows ==
  [kind : RequestKinds \cup {"idle"}, user : Players \cup {NoPlayer},
   team : TeamIds \cup {NoTeam}, other : TeamIds \cup {NoTeam},
   invite : InviteIds \cup {NoInvite}, link : 0..MaxLinks]
InviteRows ==
  [status : {"NONE", "PENDING", "ACCEPTED", "DECLINED", "GONE"},
   team : TeamIds \cup {NoTeam}, to : Players \cup {NoPlayer}]
ComposeRows == [at : {"idle", "busy"}, users : SUBSET Players, count : [TeamIds -> Nat]]
TeamStates == {"free", "open", "solo", "gone"}

(* A handler has read the rows that its transaction is about.              *)
HasRead(q) ==
  /\ q.kind \notin {"idle", "merge", "delete"} => q.user \in Players
  /\ q.kind \in {"open", "match", "accept", "link", "invite", "renew", "leave", "merge", "delete"}
       => q.team \in TeamIds
  /\ q.kind \in {"move", "merge"} => q.other \in TeamIds
  /\ q.kind = "accept" => q.invite \in InviteIds
  /\ q.kind \in {"move", "merge"} => q.team # q.other
RequestsRead == \A r \in Requests : HasRead(request[r])
PendingKnown == \A i \in InviteIds : invitation[i].status = "PENDING" => invitation[i].team \in TeamIds
TypesInv == TeamsTypeOK /\ RequestsRead /\ PendingKnown

(***************************************************************************)
(* Types.                                                                  *)
(***************************************************************************)

LEMMA BeginsTypes ==
  ASSUME TypesInv, NEW r \in Requests, NEW what \in RequestRows, HasRead(what), Begins(r, what)
  PROVE  TypesInv'
<1>1. begun' \in 0..MaxRequests
  BY TeamsAssumption DEF Begins, TypesInv, TeamsTypeOK
<1>2. request' \in [Requests -> RequestRows]
  BY DEF Begins, TypesInv, TeamsTypeOK, RequestRows
<1>3. RequestsRead'
  BY DEF Begins, TypesInv, TeamsTypeOK, RequestsRead
<1>4. PendingKnown'
  BY DEF Begins, TypesInv, PendingKnown, teamTable
<1> QED BY <1>1, <1>2, <1>3, <1>4
        DEF Begins, TypesInv, TeamsTypeOK, RequestRows, teamTable, works, teamHistory

LEMMA EndsTypes ==
  ASSUME TypesInv, NEW r \in Requests, Ends(r)
  PROVE  /\ request' \in [Requests -> RequestRows] /\ RequestsRead'
         /\ compose' \in ComposeRows /\ begun' \in 0..MaxRequests
<1>1. IdleRequest \in RequestRows /\ HasRead(IdleRequest)
  BY TeamsAssumption DEF IdleRequest, RequestRows, HasRead
<1>2. request' = [request EXCEPT ![r] = IdleRequest] /\ UNCHANGED <<compose, begun>>
  BY DEF Ends
<1> HIDE DEF IdleRequest
<1>3. request' \in [Requests -> RequestRows]
  BY <1>1, <1>2 DEF TypesInv, TeamsTypeOK, RequestRows
<1>4. RequestsRead'
  BY <1>1, <1>2 DEF TypesInv, TeamsTypeOK, RequestsRead
<1> QED BY <1>2, <1>3, <1>4 DEF TypesInv, TeamsTypeOK, ComposeRows

LEMMA AnswersTypes ==
  ASSUME TypesInv, NEW invites, NEW status \in {"ACCEPTED", "DECLINED", "GONE"},
         Answers(invites, status)
  PROVE  invitation' \in [InviteIds -> InviteRows] /\ PendingKnown'
<1>1. \A i \in InviteIds : [invitation[i] EXCEPT !.status = status] \in InviteRows
                           /\ [invitation[i] EXCEPT !.status = status].status = status
  BY DEF TypesInv, TeamsTypeOK, InviteRows
<1>2. invitation' \in [InviteIds -> InviteRows]
  BY <1>1 DEF Answers, TypesInv, TeamsTypeOK, InviteRows
<1>3. PendingKnown'
  BY <1>1 DEF Answers, TypesInv, PendingKnown
<1> QED BY <1>2, <1>3

LEMMA CommitTypes ==
  ASSUME TypesInv, NEW r \in Requests, Ends(r), UNCHANGED <<works, forming>>,
         teamOf' \in [Players -> TeamIds \cup {NoTeam}], teamRow' \in [TeamIds -> TeamStates],
         link' \in [TeamIds -> 0..MaxLinks],
         invitation' \in [InviteIds -> InviteRows], PendingKnown',
         overfilled' \subseteq TeamIds, squeezed' \subseteq TeamIds, abandoned' \subseteq TeamIds
  PROVE  TypesInv'
<1>1. /\ request' \in [Requests -> RequestRows] /\ RequestsRead'
      /\ compose' \in ComposeRows /\ begun' \in 0..MaxRequests
  BY EndsTypes
<1> QED BY <1>1 DEF TypesInv, TeamsTypeOK, RequestRows, InviteRows, ComposeRows, TeamStates, works

LEMMA NothingTypes ==
  ASSUME TypesInv, NEW r \in Requests, ComesToNothing(r)
  PROVE  TypesInv'
<1>1. PendingKnown'
  BY DEF ComesToNothing, TypesInv, PendingKnown, teamTable
<1>2. Ends(r) /\ UNCHANGED <<teamOf, teamRow, link, invitation, works, forming, overfilled, squeezed, abandoned>>
  BY DEF ComesToNothing, teamTable, teamHistory
<1> QED BY <1>1, <1>2, CommitTypes DEF TypesInv, TeamsTypeOK, InviteRows, TeamStates

LEMMA MembersFinite ==
  \A t : IsFiniteSet(Members(t)) /\ Cardinality(Members(t)) \in Nat
<1>1. \A t : Members(t) \subseteq Players
  BY DEF Members
<1> QED BY <1>1, TeamsAssumption, FS_Subset, FS_CardinalityType

(* What is read before the transaction.                                    *)
LEMMA ReadsTypes ==
  ASSUME TypesInv, NEW r \in Requests,
         OrganiserReads(r) \/ \E u \in Players : PlayerReads(r, u)
  PROVE  TypesInv'
<1>0. /\ \A p \in Players : teamOf[p] \in TeamIds \cup {NoTeam}
      /\ \A t \in TeamIds : link[t] \in 0..MaxLinks
      /\ 0 \in 0..MaxLinks
  BY TeamsAssumption DEF TypesInv, TeamsTypeOK
<1>r. \A what \in RequestRows : HasRead(what) /\ Begins(r, what) => TypesInv'
  BY BeginsTypes
<1>1. ASSUME NEW u \in Players, CreateTeamReads(r, u) PROVE TypesInv'
  <2> DEFINE what == [IdleRequest EXCEPT !.kind = "create", !.user = u]
  <2>1. what \in RequestRows /\ HasRead(what)
    BY <1>0, TeamsAssumption DEF IdleRequest, RequestRows, RequestKinds, HasRead
  <2>2. Begins(r, what)
    BY <1>1 DEF CreateTeamReads
  <2> HIDE DEF what
  <2> QED BY <1>r, <2>1, <2>2
<1>2. ASSUME NEW u \in Players, GoSoloReads(r, u) PROVE TypesInv'
  <2> DEFINE what == [IdleRequest EXCEPT !.kind = "solo", !.user = u, !.team = teamOf[u]]
  <2>1. what \in RequestRows /\ HasRead(what)
    BY <1>0, TeamsAssumption DEF IdleRequest, RequestRows, RequestKinds, HasRead
  <2>2. Begins(r, what)
    BY <1>2 DEF GoSoloReads
  <2> HIDE DEF what
  <2> QED BY <1>r, <2>1, <2>2
<1>3. ASSUME NEW u \in Players, OpenSoloReads(r, u) PROVE TypesInv'
  <2> DEFINE what == [IdleRequest EXCEPT !.kind = "open", !.user = u, !.team = teamOf[u]]
  <2>1. teamOf[u] \in TeamIds
    BY <1>0, <1>3 DEF OpenSoloReads
  <2>2. what \in RequestRows /\ HasRead(what)
    BY <1>0, <2>1, TeamsAssumption DEF IdleRequest, RequestRows, RequestKinds, HasRead
  <2>3. Begins(r, what)
    BY <1>3 DEF OpenSoloReads
  <2> HIDE DEF what
  <2> QED BY <1>r, <2>2, <2>3
<1>4. ASSUME NEW u \in Players, MatchmakingReads(r, u) PROVE TypesInv'
  <2> DEFINE new == [IdleRequest EXCEPT !.kind = "create", !.user = u]
             joins(t) == [IdleRequest EXCEPT !.kind = "match", !.user = u, !.team = t]
  <2>1. new \in RequestRows /\ HasRead(new)
    BY <1>0, TeamsAssumption DEF IdleRequest, RequestRows, RequestKinds, HasRead
  <2>2. \A t \in TeamIds : joins(t) \in RequestRows /\ HasRead(joins(t))
    BY <1>0, TeamsAssumption DEF IdleRequest, RequestRows, RequestKinds, HasRead
  <2>3. Begins(r, new) \/ \E t \in TeamIds : Begins(r, joins(t))
    BY <1>4 DEF MatchmakingReads
  <2> HIDE DEF new, joins
  <2> QED BY <1>r, <2>1, <2>2, <2>3
<1>5. ASSUME NEW u \in Players, NEW i \in InviteIds, AcceptReads(r, u, i) PROVE TypesInv'
  <2> DEFINE what == [IdleRequest EXCEPT !.kind = "accept", !.user = u, !.team = invitation[i].team,
                                         !.invite = i]
  <2>1. invitation[i].team \in TeamIds
    BY <1>0, <1>5 DEF AcceptReads, TypesInv, PendingKnown
  <2>2. what \in RequestRows /\ HasRead(what)
    BY <1>0, <2>1, TeamsAssumption DEF IdleRequest, RequestRows, RequestKinds, HasRead
  <2>3. Begins(r, what)
    BY <1>5 DEF AcceptReads
  <2> HIDE DEF what
  <2> QED BY <1>r, <2>2, <2>3
<1>6. ASSUME NEW u \in Players, NEW t \in TeamIds, LinkReads(r, u, t) PROVE TypesInv'
  <2> DEFINE what == [IdleRequest EXCEPT !.kind = "link", !.user = u, !.team = t, !.link = link[t]]
  <2>1. what \in RequestRows /\ HasRead(what)
    BY <1>0, TeamsAssumption DEF IdleRequest, RequestRows, RequestKinds, HasRead
  <2>2. Begins(r, what)
    BY <1>6 DEF LinkReads
  <2> HIDE DEF what
  <2> QED BY <1>r, <2>1, <2>2
<1>7. ASSUME NEW u \in Players, NEW v \in Players, InviteReads(r, u, v) PROVE TypesInv'
  <2> DEFINE what == [IdleRequest EXCEPT !.kind = "invite", !.user = v, !.team = teamOf[u]]
  <2>1. teamOf[u] \in TeamIds
    BY <1>0, <1>7 DEF InviteReads
  <2>2. what \in RequestRows /\ HasRead(what)
    BY <1>0, <2>1, TeamsAssumption DEF IdleRequest, RequestRows, RequestKinds, HasRead
  <2>3. Begins(r, what)
    BY <1>7 DEF InviteReads
  <2> HIDE DEF what
  <2> QED BY <1>r, <2>2, <2>3
<1>8. ASSUME NEW u \in Players, RenewReads(r, u) PROVE TypesInv'
  <2> DEFINE what == [IdleRequest EXCEPT !.kind = "renew", !.user = u, !.team = teamOf[u]]
  <2>1. teamOf[u] \in TeamIds
    BY <1>0, <1>8 DEF RenewReads
  <2>2. what \in RequestRows /\ HasRead(what)
    BY <1>0, <2>1, TeamsAssumption DEF IdleRequest, RequestRows, RequestKinds, HasRead
  <2>3. Begins(r, what)
    BY <1>8 DEF RenewReads
  <2> HIDE DEF what
  <2> QED BY <1>r, <2>2, <2>3
<1>9. ASSUME NEW u \in Players, LeaveReads(r, u) PROVE TypesInv'
  <2> DEFINE what == [IdleRequest EXCEPT !.kind = "leave", !.user = u, !.team = teamOf[u]]
  <2>1. teamOf[u] \in TeamIds
    BY <1>0, <1>9 DEF LeaveReads
  <2>2. what \in RequestRows /\ HasRead(what)
    BY <1>0, <2>1, TeamsAssumption DEF IdleRequest, RequestRows, RequestKinds, HasRead
  <2>3. Begins(r, what)
    BY <1>9 DEF LeaveReads
  <2> HIDE DEF what
  <2> QED BY <1>r, <2>2, <2>3
<1>10. ASSUME NEW u \in Players, NEW t \in TeamIds, MoveReads(r, u, t) PROVE TypesInv'
  <2> DEFINE what == [IdleRequest EXCEPT !.kind = "move", !.user = u, !.team = teamOf[u], !.other = t]
  <2>0. teamOf[u] # t
    BY <1>10 DEF MoveReads
  <2>1. what \in RequestRows /\ HasRead(what)
    BY <1>0, <2>0, TeamsAssumption DEF IdleRequest, RequestRows, RequestKinds, HasRead
  <2>2. Begins(r, what)
    BY <1>10 DEF MoveReads
  <2> HIDE DEF what
  <2> QED BY <1>r, <2>1, <2>2
<1>11. ASSUME NEW a \in TeamIds, NEW b \in TeamIds, MergeReads(r, a, b) PROVE TypesInv'
  <2> DEFINE what == [IdleRequest EXCEPT !.kind = "merge", !.team = a, !.other = b]
  <2>1. a # b
    BY <1>0, <1>11 DEF MergeReads
  <2>2. what \in RequestRows /\ HasRead(what)
    BY <1>0, <2>1, TeamsAssumption DEF IdleRequest, RequestRows, RequestKinds, HasRead
  <2>3. Begins(r, what)
    BY <1>11 DEF MergeReads
  <2> HIDE DEF what
  <2> QED BY <1>r, <2>2, <2>3
<1>12. ASSUME NEW u \in Players, RemoveReads(r, u) PROVE TypesInv'
  <2> DEFINE what == [IdleRequest EXCEPT !.kind = "remove", !.user = u]
  <2>1. what \in RequestRows /\ HasRead(what)
    BY <1>0, TeamsAssumption DEF IdleRequest, RequestRows, RequestKinds, HasRead
  <2>2. Begins(r, what)
    BY <1>12 DEF RemoveReads
  <2> HIDE DEF what
  <2> QED BY <1>r, <2>1, <2>2
<1>13. ASSUME NEW t \in TeamIds, DeleteReads(r, t) PROVE TypesInv'
  <2> DEFINE what == [IdleRequest EXCEPT !.kind = "delete", !.team = t]
  <2>1. what \in RequestRows /\ HasRead(what)
    BY <1>0, TeamsAssumption DEF IdleRequest, RequestRows, RequestKinds, HasRead
  <2>2. Begins(r, what)
    BY <1>13 DEF DeleteReads
  <2> HIDE DEF what
  <2> QED BY <1>r, <2>1, <2>2
<1> QED BY <1>1, <1>2, <1>3, <1>4, <1>5, <1>6, <1>7, <1>8, <1>9, <1>10, <1>11, <1>12, <1>13
        DEF OrganiserReads, PlayerReads

(* What is committed.                                                      *)
LEMMA InvitesSame ==
  ASSUME TypesInv, UNCHANGED invitation
  PROVE  invitation' \in [InviteIds -> InviteRows] /\ PendingKnown'
  BY DEF TypesInv, TeamsTypeOK, InviteRows, PendingKnown

LEMMA DeleteEmptyTypes ==
  ASSUME TypesInv, NEW t, DeleteEmptyTeam(t)
  PROVE  /\ teamRow' \in [TeamIds -> TeamStates]
         /\ invitation' \in [InviteIds -> InviteRows] /\ PendingKnown'
<1>1. teamRow' \in [TeamIds -> TeamStates]
  BY DEF DeleteEmptyTeam, TypesInv, TeamsTypeOK, TeamStates
<1>2. Answers(InvitesOf(t), "GONE") \/ UNCHANGED invitation
  BY DEF DeleteEmptyTeam
<1> QED BY <1>1, <1>2, AnswersTypes, InvitesSame

(* The parts of TypesInv one by one.                                       *)
LEMMA TypesParts ==
  ASSUME TypesInv
  PROVE  /\ teamOf \in [Players -> TeamIds \cup {NoTeam}] /\ teamRow \in [TeamIds -> TeamStates]
         /\ link \in [TeamIds -> 0..MaxLinks] /\ invitation \in [InviteIds -> InviteRows]
         /\ request \in [Requests -> RequestRows] /\ compose \in ComposeRows
         /\ overfilled \subseteq TeamIds /\ squeezed \subseteq TeamIds /\ abandoned \subseteq TeamIds
         /\ hasWork \subseteq TeamIds /\ finalWork \subseteq hasWork
         /\ begun \in 0..MaxRequests /\ forming \in BOOLEAN
  BY DEF TypesInv, TeamsTypeOK, TeamStates, InviteRows, RequestRows, ComposeRows

LEMMA NewTeamTypes ==
  ASSUME TypesInv, NEW u \in Players, NEW solo \in {"open", "solo"}, NewTeamFor(u, solo)
  PROVE  teamOf' \in [Players -> TeamIds \cup {NoTeam}] /\ teamRow' \in [TeamIds -> TeamStates]
  BY TypesParts DEF NewTeamFor, TeamStates

LEMMA PlayerCommitsTypes ==
  ASSUME TypesInv, NEW r \in Requests, PlayerCommits(r)
  PROVE  TypesInv'
<1> DEFINE u == request[r].user
           t == request[r].team
<1>0. HasRead(request[r])
  BY DEF TypesInv, RequestsRead
<1>n. ComesToNothing(r) => TypesInv'
  BY NothingTypes
<1>1. CASE CreateTeam(r)
  <2>1. CASE /\ NewTeamFor(u, "open") /\ Ends(r)
             /\ UNCHANGED <<link, invitation, works, forming, teamHistory>>
    <3>1. u \in Players
      BY <1>0, <1>1 DEF CreateTeam, HasRead
    <3>2. teamOf' \in [Players -> TeamIds \cup {NoTeam}] /\ teamRow' \in [TeamIds -> TeamStates]
      BY <2>1, <3>1, NewTeamTypes
    <3> QED BY <2>1, <3>2, CommitTypes, InvitesSame, TypesParts DEF teamHistory
  <2> QED BY <1>1, <1>n, <2>1 DEF CreateTeam
<1>2. CASE GoSolo(r)
  <2>0. u \in Players /\ t \in TeamIds \cup {NoTeam}
    BY <1>0, <1>2, TypesParts DEF GoSolo, HasRead, RequestRows
  <2>1. CASE /\ NewTeamFor(u, "solo") /\ Ends(r)
             /\ UNCHANGED <<link, invitation, works, forming, teamHistory>>
    <3>2. teamOf' \in [Players -> TeamIds \cup {NoTeam}] /\ teamRow' \in [TeamIds -> TeamStates]
      BY <2>0, <2>1, NewTeamTypes
    <3> QED BY <2>1, <3>2, CommitTypes, InvitesSame, TypesParts DEF teamHistory
  <2>2. CASE /\ teamRow' = [teamRow EXCEPT ![t] = "solo"]
             /\ Answers(PendingOf(t), "DECLINED") /\ Ends(r)
             /\ UNCHANGED <<teamOf, link, works, forming, teamHistory>>
    <3>1. teamRow' \in [TeamIds -> TeamStates]
      BY <2>2, TypesParts DEF TeamStates
    <3> QED BY <2>2, <3>1, CommitTypes, AnswersTypes, TypesParts DEF teamHistory
  <2> QED BY <1>2, <1>n, <2>1, <2>2 DEF GoSolo
<1>3. CASE OpenSoloTeam(r)
  <2>1. CASE /\ teamRow' = [teamRow EXCEPT ![t] = "open"] /\ Ends(r)
             /\ UNCHANGED <<teamOf, link, invitation, works, forming, teamHistory>>
    <3>1. teamRow' \in [TeamIds -> TeamStates]
      BY <2>1, TypesParts DEF TeamStates
    <3> QED BY <2>1, <3>1, CommitTypes, InvitesSame, TypesParts DEF teamHistory
  <2> QED BY <1>3, <1>n, <2>1 DEF OpenSoloTeam
<1>4. CASE JoinTeam(r)
  <2>0. u \in Players /\ t \in TeamIds
    BY <1>0, <1>4 DEF JoinTeam, HasRead
  <2>1. CASE /\ teamOf' = [teamOf EXCEPT ![u] = t]
             /\ IF request[r].kind = "accept"
                THEN invitation' = [invitation EXCEPT ![request[r].invite].status = "ACCEPTED"]
                ELSE Answers({i \in PendingOf(t) : invitation[i].to = u}, "ACCEPTED")
             /\ Ends(r)
             /\ UNCHANGED <<teamRow, link, works, forming, teamHistory>>
    <3>1. teamOf' \in [Players -> TeamIds \cup {NoTeam}]
      BY <2>0, <2>1, TypesParts
    <3>2. invitation' \in [InviteIds -> InviteRows] /\ PendingKnown'
      <4>1. CASE request[r].kind = "accept"
        <5>1. Answers({request[r].invite}, "ACCEPTED")
          BY <1>0, <2>1, <4>1, TypesParts DEF Answers, HasRead, InviteRows
        <5> QED BY <5>1, AnswersTypes
      <4>2. CASE request[r].kind # "accept"
        BY <2>1, <4>2, AnswersTypes
      <4> QED BY <4>1, <4>2
    <3> QED BY <2>1, <3>1, <3>2, CommitTypes, TypesParts DEF teamHistory
  <2> QED BY <1>4, <1>n, <2>1 DEF JoinTeam
<1>5. CASE InviteToTeam(r)
  <2>0. u \in Players /\ t \in TeamIds
    BY <1>0, <1>5 DEF InviteToTeam, HasRead
  <2>1. ASSUME NEW i \in InviteIds,
               invitation' = [invitation EXCEPT ![i] = [status |-> "PENDING", team |-> t, to |-> u]]
        PROVE  invitation' \in [InviteIds -> InviteRows] /\ PendingKnown'
    <3>1. [status |-> "PENDING", team |-> t, to |-> u] \in InviteRows
      BY <2>0 DEF InviteRows
    <3>2. invitation' \in [InviteIds -> InviteRows]
      BY <2>1, <3>1, TypesParts
    <3>3. PendingKnown'
      BY <2>0, <2>1, TypesParts DEF TypesInv, PendingKnown
    <3> QED BY <3>2, <3>3
  <2>2. CASE /\ \E i \in InviteIds :
                  /\ invitation[i] = FreeInvite
                  /\ invitation' = [invitation EXCEPT ![i] = [status |-> "PENDING", team |-> t, to |-> u]]
             /\ Ends(r)
             /\ UNCHANGED <<teamOf, teamRow, link, works, forming, teamHistory>>
    <3>1. invitation' \in [InviteIds -> InviteRows] /\ PendingKnown'
      BY <2>1, <2>2
    <3> QED BY <2>2, <3>1, CommitTypes, TypesParts DEF teamHistory
  <2> QED BY <1>5, <1>n, <2>2 DEF InviteToTeam
<1>6. CASE RegenerateInviteToken(r)
  <2>1. CASE /\ Exists(t) /\ link[t] < MaxLinks
             /\ link' = [link EXCEPT ![t] = @ + 1] /\ Ends(r)
             /\ UNCHANGED <<teamOf, teamRow, invitation, works, forming, teamHistory>>
    <3>1. link[t] + 1 \in 0..MaxLinks
      BY <2>1, TypesParts, TeamsAssumption DEF Exists
    <3>2. link' \in [TeamIds -> 0..MaxLinks]
      BY <2>1, <3>1, TypesParts
    <3> QED BY <2>1, <3>2, CommitTypes, InvitesSame, TypesParts DEF teamHistory
  <2> QED BY <1>6, <1>n, <2>1 DEF RegenerateInviteToken
<1>7. CASE LeaveTeam(r)
  <2>1. /\ teamOf' = [teamOf EXCEPT ![u] = NoTeam] /\ DeleteEmptyTeam(t) /\ Ends(r)
        /\ abandoned' = IF teamOf[u] \notin {NoTeam, t} THEN abandoned \cup {teamOf[u]} ELSE abandoned
        /\ UNCHANGED <<link, works, forming, overfilled, squeezed>>
    BY <1>7 DEF LeaveTeam
  <2>2. u \in Players
    BY <1>0, <1>7 DEF LeaveTeam, HasRead
  <2>3. teamOf' \in [Players -> TeamIds \cup {NoTeam}] /\ abandoned' \subseteq TeamIds
    BY <2>1, <2>2, TypesParts
  <2> QED BY <2>1, <2>3, CommitTypes, DeleteEmptyTypes, TypesParts
<1> QED BY <1>1, <1>2, <1>3, <1>4, <1>5, <1>6, <1>7 DEF PlayerCommits

LEMMA OrganiserCommitsTypes ==
  ASSUME TypesInv, NEW r \in Requests, OrganiserCommits(r)
  PROVE  TypesInv'
<1>0. HasRead(request[r])
  BY DEF TypesInv, RequestsRead
<1>n. ComesToNothing(r) => TypesInv'
  BY NothingTypes
<1>1. CASE AdminMoveUser(r)
  <2> DEFINE u == request[r].user
             from == request[r].team
             to == request[r].other
             left == from # NoTeam /\ Members(from) = {u} /\ from \notin hasWork
  <2>0. u \in Players /\ to \in TeamIds
    BY <1>0, <1>1 DEF AdminMoveUser, HasRead
  <2>1. CASE /\ teamOf' = [teamOf EXCEPT ![u] = to]
             /\ teamRow' = [t \in TeamIds |-> CASE t = to -> "open"
                                                [] t = from /\ left -> "gone"
                                                [] OTHER -> teamRow[t]]
             /\ Answers(IF left THEN InvitesOf(from) ELSE {}, "GONE")
             /\ Ends(r)
             /\ UNCHANGED <<link, works, forming, teamHistory>>
    <3> HIDE DEF left
    <3>1. teamOf' \in [Players -> TeamIds \cup {NoTeam}] /\ teamRow' \in [TeamIds -> TeamStates]
      BY <2>0, <2>1, TypesParts DEF TeamStates
    <3> QED BY <2>1, <3>1, CommitTypes, AnswersTypes, TypesParts DEF teamHistory
  <2> QED BY <1>1, <1>n, <2>1 DEF AdminMoveUser
<1>2. CASE AdminMergeTeams(r)
  <2> DEFINE a == request[r].team
             b == request[r].other
  <2>0. a \in TeamIds /\ b \in TeamIds
    BY <1>0, <1>2 DEF AdminMergeTeams, HasRead
  <2>1. CASE /\ teamOf' = [p \in Players |-> IF teamOf[p] = b THEN a ELSE teamOf[p]]
             /\ teamRow' = [teamRow EXCEPT ![a] = "open", ![b] = "gone"]
             /\ Answers(InvitesOf(b), "GONE")
             /\ overfilled' = IF Cardinality(Members(a) \cup Members(b)) > TeamFull
                              THEN overfilled \cup {a} ELSE overfilled
             /\ Ends(r)
             /\ UNCHANGED <<link, works, forming, squeezed, abandoned>>
    <3>1. teamOf' \in [Players -> TeamIds \cup {NoTeam}] /\ teamRow' \in [TeamIds -> TeamStates]
      BY <2>0, <2>1, TypesParts DEF TeamStates
    <3>2. overfilled' \subseteq TeamIds
      BY <2>0, <2>1, TypesParts
    <3> QED BY <2>1, <3>1, <3>2, CommitTypes, AnswersTypes, TypesParts
  <2> QED BY <1>2, <1>n, <2>1 DEF AdminMergeTeams
<1>3. CASE RemoveMember(r)
  <2> DEFINE u == request[r].user
  <2>0. u \in Players
    BY <1>0, <1>3 DEF RemoveMember, HasRead
  <2>1. /\ abandoned' = IF teamOf[u] # NoTeam THEN abandoned \cup {teamOf[u]} ELSE abandoned
        /\ teamOf' = [teamOf EXCEPT ![u] = NoTeam] /\ Ends(r)
        /\ UNCHANGED <<teamRow, link, invitation, works, forming, overfilled, squeezed>>
    BY <1>3 DEF RemoveMember
  <2>2. teamOf' \in [Players -> TeamIds \cup {NoTeam}] /\ abandoned' \subseteq TeamIds
    BY <2>0, <2>1, TypesParts
  <2> QED BY <2>1, <2>2, CommitTypes, InvitesSame, TypesParts
<1>4. CASE DeleteTeam(r)
  <2> DEFINE t == request[r].team
  <2>1. CASE /\ teamRow' = [teamRow EXCEPT ![t] = "gone"]
             /\ Answers(InvitesOf(t), "GONE") /\ Ends(r)
             /\ UNCHANGED <<teamOf, link, works, forming, teamHistory>>
    <3>1. teamRow' \in [TeamIds -> TeamStates]
      BY <2>1, TypesParts DEF TeamStates
    <3> QED BY <2>1, <3>1, CommitTypes, AnswersTypes, TypesParts DEF teamHistory
  <2> QED BY <1>4, <1>n, <2>1 DEF DeleteTeam
<1> QED BY <1>1, <1>2, <1>3, <1>4 DEF OrganiserCommits

(* The steps that are no handler with a transaction of its own.            *)
LEMMA OtherTypes ==
  ASSUME TypesInv, UNCHANGED <<request, link>>,
         teamOf' \in [Players -> TeamIds \cup {NoTeam}], teamRow' \in [TeamIds -> TeamStates],
         invitation' \in [InviteIds -> InviteRows], PendingKnown',
         hasWork' \subseteq TeamIds, finalWork' \subseteq hasWork', forming' \in BOOLEAN,
         compose' \in ComposeRows, begun' \in 0..MaxRequests,
         overfilled' \subseteq TeamIds, squeezed' \subseteq TeamIds, abandoned' \subseteq TeamIds
  PROVE  TypesInv'
<1>1. RequestsRead'
  BY DEF TypesInv, RequestsRead
<1> QED BY <1>1, TypesParts DEF TypesInv, TeamsTypeOK, RequestRows, InviteRows, ComposeRows, TeamStates

LEMMA ComposeTypes ==
  ASSUME TypesInv, ComposeStep
  PROVE  TypesInv'
<1>0. /\ compose.at \in {"idle", "busy"} /\ compose.users \subseteq Players
      /\ compose.count \in [TeamIds -> Nat]
  BY TypesParts DEF ComposeRows
<1>b. begun < MaxRequests => begun + 1 \in 0..MaxRequests
  BY TeamsAssumption, TypesParts
<1>l. \A u \in Players : LeavesBehind(u) => abandoned' \subseteq TeamIds
  BY TypesParts DEF LeavesBehind
<1>1. CASE ComposeReads
  <2>1. [t \in TeamIds |-> IF HasPlace(t) THEN Cardinality(Members(t)) ELSE 0] \in [TeamIds -> Nat]
    BY MembersFinite
  <2>2. compose' \in ComposeRows
    BY <1>1, <2>1 DEF ComposeReads, ComposeRows
  <2> QED BY <1>1, <1>b, <2>2, OtherTypes, InvitesSame, TypesParts
          DEF ComposeReads, teamTable, works, teamHistory
<1>2. CASE ComposeEnds
  <2>1. compose' \in ComposeRows
    BY <1>2 DEF ComposeEnds, NoCompose, ComposeRows
  <2> QED BY <1>2, <2>1, OtherTypes, InvitesSame, TypesParts DEF ComposeEnds, teamTable, works, teamHistory
<1>3. ASSUME NEW u \in Players, AdminCreateTeam(u) PROVE TypesInv'
  <2>1. PICK t \in TeamIds :
          /\ teamRow' = [teamRow EXCEPT ![t] = "open"] /\ teamOf' = [teamOf EXCEPT ![u] = t]
          /\ compose' = [compose EXCEPT !.users = @ \ {u}, !.count[t] = 1]
    BY <1>3 DEF AdminCreateTeam
  <2>2. teamOf' \in [Players -> TeamIds \cup {NoTeam}] /\ teamRow' \in [TeamIds -> TeamStates]
    BY <2>1, TypesParts DEF TeamStates
  <2>3. [compose.count EXCEPT ![t] = 1] \in [TeamIds -> Nat] /\ compose.users \ {u} \subseteq Players
    BY <1>0
  <2>4. compose' = [at |-> compose.at, users |-> compose.users \ {u}, count |-> [compose.count EXCEPT ![t] = 1]]
    BY <2>1, TypesParts DEF ComposeRows
  <2>5. compose' \in ComposeRows
    BY <1>0, <2>3, <2>4 DEF ComposeRows
  <2> QED BY <1>3, <1>l, <2>2, <2>5, OtherTypes, InvitesSame, TypesParts DEF AdminCreateTeam, works
<1>4. ASSUME NEW u \in Players, NEW t \in TeamIds, AdminAssignUser(u, t) PROVE TypesInv'
  <2>1. teamOf' \in [Players -> TeamIds \cup {NoTeam}] /\ squeezed' \subseteq TeamIds
    BY <1>4, TypesParts DEF AdminAssignUser
  <2>2. [compose.count EXCEPT ![t] = compose.count[t] + 1] \in [TeamIds -> Nat]
        /\ compose.users \ {u} \subseteq Players
    BY <1>0
  <2>3. compose' = [at |-> compose.at, users |-> compose.users \ {u},
                    count |-> [compose.count EXCEPT ![t] = compose.count[t] + 1]]
    BY <1>4, TypesParts DEF AdminAssignUser, ComposeRows
  <2>4. compose' \in ComposeRows
    BY <1>0, <2>2, <2>3 DEF ComposeRows
  <2> QED BY <1>4, <1>l, <2>1, <2>4, OtherTypes, InvitesSame, TypesParts DEF AdminAssignUser, works
<1> QED BY <1>1, <1>2, <1>3, <1>4 DEF ComposeStep

LEMMA TypesInvNext == TypesInv /\ [TeamsNext]_teamVars => TypesInv'
<1> SUFFICES ASSUME TypesInv, [TeamsNext]_teamVars PROVE TypesInv'
  OBVIOUS
<1>1. ASSUME NEW r \in Requests,
             OrganiserReads(r) \/ PlayerCommits(r) \/ OrganiserCommits(r) \/ \E u \in Players : PlayerReads(r, u)
      PROVE  TypesInv'
  BY <1>1, ReadsTypes, PlayerCommitsTypes, OrganiserCommitsTypes
<1>2. ASSUME NEW i \in InviteIds, DeclineInvite(i) PROVE TypesInv'
  <2>1. Answers({i}, "DECLINED")
    BY <1>2, TypesParts DEF DeclineInvite, Answers, InviteRows
  <2> QED BY <1>2, <2>1, AnswersTypes, OtherTypes, TypesParts DEF DeclineInvite, works, handlers, teamHistory
<1>3. CASE ComposeStep
  BY <1>3, ComposeTypes
<1>4. ASSUME NEW t \in TeamIds, SaveWork(t) \/ SubmitWork(t) PROVE TypesInv'
  <2>1. hasWork' \subseteq TeamIds /\ finalWork' \subseteq hasWork'
    BY <1>4, TypesParts DEF SaveWork, SubmitWork
  <2> QED BY <1>4, <2>1, OtherTypes, InvitesSame, TypesParts
          DEF SaveWork, SubmitWork, teamTable, handlers, teamHistory
<1>5. CASE SetTeamModule
  BY <1>5, OtherTypes, InvitesSame, TypesParts DEF SetTeamModule, teamTable, works, handlers, teamHistory
<1>6. CASE UNCHANGED teamVars
  BY <1>6, OtherTypes, InvitesSame, TypesParts DEF teamVars, teamTable, works, handlers, teamHistory
<1> QED BY <1>1, <1>2, <1>3, <1>4, <1>5, <1>6 DEF TeamsNext

LEMMA TypesInvInit == TeamsInit => TypesInv
<1> SUFFICES ASSUME TeamsInit PROVE TypesInv
  OBVIOUS
<1>1. IdleRequest \in RequestRows /\ HasRead(IdleRequest)
  BY TeamsAssumption DEF IdleRequest, RequestRows, HasRead
<1>2. FreeInvite \in InviteRows /\ FreeInvite.status # "PENDING"
  BY DEF FreeInvite, InviteRows
<1>3. NoCompose \in ComposeRows
  BY DEF NoCompose, ComposeRows
<1>4. 0 \in 0..MaxRequests /\ 0 \in 0..MaxLinks
  BY TeamsAssumption
<1> HIDE DEF IdleRequest, FreeInvite, NoCompose
<1>5. request \in [Requests -> RequestRows] /\ RequestsRead
  BY <1>1 DEF TeamsInit, RequestsRead
<1>6. invitation \in [InviteIds -> InviteRows] /\ PendingKnown
  BY <1>2 DEF TeamsInit, PendingKnown
<1>7. TeamsTypeOK
  BY <1>3, <1>4, <1>5, <1>6 DEF TeamsInit, TeamsTypeOK, RequestRows, InviteRows, ComposeRows
<1> QED BY <1>5, <1>6, <1>7 DEF TypesInv

(* Teams, invitations and handlers keep their types.                       *)
THEOREM TeamsTypeCorrect == TeamsSpec => []TeamsTypeOK
<1>1. TypesInv => TeamsTypeOK  BY DEF TypesInv
<1> QED BY <1>1, TypesInvInit, TypesInvNext, PTL DEF TeamsSpec

(***************************************************************************)
(* Who is in which team.                                                   *)
(***************************************************************************)
TeamsInv == TypesInv /\ TeamsExist /\ FullKept /\ SoloAlone /\ EmptyTeamsGone

HistoryGrows ==
  /\ hasWork \subseteq hasWork' /\ overfilled \subseteq overfilled'
  /\ squeezed \subseteq squeezed' /\ abandoned \subseteq abandoned'

(* Members and Exists in the state a step leads to.                        *)
MembersAfter(t) == {p \in Players : teamOf'[p] = t}
ExistsAfter(t) == t \in TeamIds /\ teamRow'[t] \in {"open", "solo"}
AllExistAfter == \A p \in Players : teamOf'[p] # NoTeam => ExistsAfter(teamOf'[p])

(* What a step must keep of each team, its members and its row.            *)
FullAfter(t) ==
  MembersAfter(t) \subseteq Members(t) \/ Cardinality(MembersAfter(t)) <= TeamFull \/ t \in overfilled'
SoloAfter(t) ==
  teamRow'[t] = "solo" => \/ teamRow[t] = "solo" /\ MembersAfter(t) \subseteq Members(t)
                          \/ Cardinality(MembersAfter(t)) <= 1 \/ t \in squeezed'
EmptyAfter(t) ==
  ExistsAfter(t) /\ MembersAfter(t) = {} => \/ Exists(t) /\ Members(t) = {}
                                    \/ t \in hasWork' \/ t \in abandoned'

LEMMA TablesAfter ==
  ASSUME TeamsInv, TypesInv', HistoryGrows, AllExistAfter,
         \A t \in TeamIds : FullAfter(t) /\ SoloAfter(t) /\ EmptyAfter(t)
  PROVE  TeamsInv'
<1>0. TeamsExist'
  BY DEF AllExistAfter, ExistsAfter, TeamsExist, Exists
<1>1. \A t \in TeamIds : MembersAfter(t) \subseteq Members(t)
                           => Cardinality(MembersAfter(t)) <= Cardinality(Members(t))
  BY MembersFinite, FS_Subset
<1>2. \A t : Cardinality(Members(t)) \in Nat /\ Cardinality(MembersAfter(t)) \in Nat
  <2>1. \A t : MembersAfter(t) \subseteq Players
    BY DEF MembersAfter
  <2> QED BY <2>1, MembersFinite, TeamsAssumption, FS_Subset, FS_CardinalityType
<1>3. \A t \in TeamIds : Cardinality(MembersAfter(t)) <= TeamFull \/ t \in overfilled'
  BY <1>1, <1>2, TeamsAssumption DEF TeamsInv, FullKept, FullAfter, HistoryGrows
<1>4. \A t \in TeamIds : teamRow'[t] = "solo" => Cardinality(MembersAfter(t)) <= 1 \/ t \in squeezed'
  BY <1>1, <1>2 DEF TeamsInv, SoloAlone, SoloAfter, HistoryGrows
<1>5. \A t \in TeamIds : ExistsAfter(t) /\ MembersAfter(t) = {} => t \in hasWork' \/ t \in abandoned'
  BY DEF TeamsInv, EmptyTeamsGone, EmptyAfter, HistoryGrows
<1>6. FullKept'
  BY <1>3 DEF FullKept, Members, MembersAfter
<1>7. SoloAlone'
  BY <1>4 DEF SoloAlone, Members, MembersAfter
<1>8. EmptyTeamsGone'
  BY <1>5 DEF EmptyTeamsGone, Members, MembersAfter, Exists, ExistsAfter
<1> QED BY <1>0, <1>6, <1>7, <1>8 DEF TeamsInv

(* One player goes to a team, or to none.                                  *)
LEMMA PlayerGoes ==
  ASSUME TypesInv, NEW u \in Players, NEW to \in TeamIds \cup {NoTeam},
         teamOf' = [teamOf EXCEPT ![u] = to]
  PROVE  /\ MembersAfter(to) = Members(to) \cup {u}
         /\ Cardinality(MembersAfter(to)) <= Cardinality(Members(to)) + 1
         /\ \A s : s # to => MembersAfter(s) = Members(s) \ {u}
         /\ \A s : s # to /\ MembersAfter(s) = {} => Members(s) = {} \/ s = teamOf[u]
<1>1. MembersAfter(to) = Members(to) \cup {u}
  BY TypesParts DEF Members, MembersAfter
<1>2. \A s : s # to => MembersAfter(s) = Members(s) \ {u}
  BY TypesParts DEF Members, MembersAfter
<1>3. Cardinality(MembersAfter(to)) <= Cardinality(Members(to)) + 1
  <2>1. Cardinality(Members(to) \cup {u}) =
          IF u \in Members(to) THEN Cardinality(Members(to)) ELSE Cardinality(Members(to)) + 1
    BY MembersFinite, FS_AddElement
  <2> QED BY <1>1, <2>1, MembersFinite
<1>4. \A s : s # to /\ MembersAfter(s) = {} => Members(s) = {} \/ s = teamOf[u]
  BY <1>2 DEF Members, MembersAfter
<1> QED BY <1>1, <1>2, <1>3, <1>4

(* The members of a team exist only with it.                               *)
LEMMA NoRowNoMembers ==
  ASSUME TeamsInv, NEW t \in TeamIds, ~Exists(t)
  PROVE  Members(t) = {}
  BY TeamsAssumption DEF TeamsInv, TeamsExist, Members

LEMMA QuietKeeps ==
  ASSUME TeamsInv, TypesInv', HistoryGrows, UNCHANGED <<teamOf, teamRow>>
  PROVE  TeamsInv'
<1>1. AllExistAfter
  BY DEF TeamsInv, AllExistAfter, TeamsExist, Exists, ExistsAfter
<1>2. \A t \in TeamIds : FullAfter(t) /\ SoloAfter(t) /\ EmptyAfter(t)
  BY DEF FullAfter, SoloAfter, EmptyAfter, Members, MembersAfter, Exists, ExistsAfter
<1> QED BY <1>1, <1>2, TablesAfter

LEMMA NewTeamKeeps ==
  ASSUME TeamsInv, TypesInv', HistoryGrows, NEW u \in Players, NEW solo \in {"open", "solo"},
         NewTeamFor(u, solo), teamOf[u] = NoTeam \/ teamOf[u] \in abandoned'
  PROVE  TeamsInv'
<1>0. TypesInv
  BY DEF TeamsInv
<1>1. PICK t \in TeamIds : /\ teamRow[t] = "free" /\ teamRow' = [teamRow EXCEPT ![t] = solo]
                           /\ teamOf' = [teamOf EXCEPT ![u] = t]
  BY DEF NewTeamFor
<1>g. /\ MembersAfter(t) = Members(t) \cup {u}
      /\ Cardinality(MembersAfter(t)) <= Cardinality(Members(t)) + 1
      /\ \A s : s # t => MembersAfter(s) = Members(s) \ {u}
      /\ \A s : s # t /\ MembersAfter(s) = {} => Members(s) = {} \/ s = teamOf[u]
  BY <1>0, <1>1, PlayerGoes
<1>2. MembersAfter(t) = {u} /\ Cardinality(MembersAfter(t)) = 1
  <2>1. ~Exists(t)
    BY <1>1 DEF Exists
  <2>2. MembersAfter(t) = {u}
    BY <1>g, <2>1, NoRowNoMembers
  <2> QED BY <2>2, FS_Singleton
<1>3. \A s : s # t => /\ MembersAfter(s) \subseteq Members(s)
                      /\ MembersAfter(s) = {} => Members(s) = {} \/ s = teamOf[u]
  BY <1>g
<1>4. \A s \in TeamIds \ {t} : teamRow'[s] = teamRow[s]
  BY <1>0, <1>1, TypesParts
<1>5. AllExistAfter
  <2> SUFFICES ASSUME NEW p \in Players, teamOf'[p] # NoTeam PROVE ExistsAfter(teamOf'[p])
    BY DEF AllExistAfter
  <2>1. teamRow'[t] \in {"open", "solo"}
    BY <1>0, <1>1, TypesParts
  <2>2. CASE teamOf'[p] = t
    BY <2>1, <2>2 DEF ExistsAfter
  <2>3. CASE teamOf'[p] # t
    <3>1. teamOf'[p] = teamOf[p]
      BY <1>0, <1>1, <2>3, TypesParts
    <3> QED BY <1>4, <2>3, <3>1 DEF TeamsInv, TeamsExist, Exists, ExistsAfter
  <2> QED BY <2>2, <2>3
<1>6. \A s \in TeamIds : FullAfter(s) /\ SoloAfter(s) /\ EmptyAfter(s)
  <2> TAKE s \in TeamIds
  <2>1. CASE s = t
    BY <1>2, <2>1, TeamsAssumption DEF FullAfter, SoloAfter, EmptyAfter
  <2>2. CASE s # t
    BY <1>3, <1>4, <2>2, TeamsAssumption DEF FullAfter, SoloAfter, EmptyAfter, Exists, ExistsAfter
  <2> QED BY <2>1, <2>2
<1> QED BY <1>5, <1>6, TablesAfter

LEMMA JoinKeeps ==
  ASSUME TeamsInv, TypesInv', HistoryGrows, NEW u \in Players, NEW t \in TeamIds,
         teamOf' = [teamOf EXCEPT ![u] = t], UNCHANGED teamRow,
         Exists(t), Cardinality(Members(t)) < TeamFull,
         teamRow[t] = "open" \/ t \in squeezed', teamOf[u] = NoTeam \/ teamOf[u] \in abandoned'
  PROVE  TeamsInv'
<1>0. TypesInv
  BY DEF TeamsInv
<1>g. /\ MembersAfter(t) = Members(t) \cup {u}
      /\ Cardinality(MembersAfter(t)) <= Cardinality(Members(t)) + 1
      /\ \A s : s # t => MembersAfter(s) = Members(s) \ {u}
      /\ \A s : s # t /\ MembersAfter(s) = {} => Members(s) = {} \/ s = teamOf[u]
  BY <1>0, PlayerGoes
<1>1. u \in MembersAfter(t) /\ Cardinality(MembersAfter(t)) <= TeamFull
  <2>1. Cardinality(MembersAfter(t)) \in Nat
    BY SMTT(30), <1>g, MembersFinite, FS_AddElement
  <2> QED BY <1>g, <2>1, MembersFinite, TeamsAssumption
<1>2. \A s : s # t => /\ MembersAfter(s) \subseteq Members(s)
                      /\ MembersAfter(s) = {} => Members(s) = {} \/ s = teamOf[u]
  BY <1>g
<1>3. AllExistAfter
  BY <1>0, TypesParts DEF TeamsInv, AllExistAfter, TeamsExist, Exists, ExistsAfter
<1>4. \A s \in TeamIds : FullAfter(s) /\ SoloAfter(s) /\ EmptyAfter(s)
  <2> TAKE s \in TeamIds
  <2>1. CASE s = t
    BY <1>1, <2>1 DEF FullAfter, SoloAfter, EmptyAfter
  <2>2. CASE s # t
    BY <1>2, <2>2, TeamsAssumption DEF FullAfter, SoloAfter, EmptyAfter, Exists, ExistsAfter
  <2> QED BY <2>1, <2>2
<1> QED BY <1>3, <1>4, TablesAfter

LEMMA RemoveKeeps ==
  ASSUME TeamsInv, TypesInv', HistoryGrows, NEW u \in Players,
         teamOf' = [teamOf EXCEPT ![u] = NoTeam], UNCHANGED teamRow,
         teamOf[u] = NoTeam \/ teamOf[u] \in abandoned'
  PROVE  TeamsInv'
<1>0. TypesInv
  BY DEF TeamsInv
<1>g. \A s \in TeamIds : /\ MembersAfter(s) \subseteq Members(s)
                         /\ MembersAfter(s) = {} => Members(s) = {} \/ s = teamOf[u]
  BY <1>0, TypesParts, TeamsAssumption DEF Members, MembersAfter
<1>1. AllExistAfter
  BY <1>0, TypesParts DEF TeamsInv, AllExistAfter, TeamsExist, Exists, ExistsAfter
<1>2. \A s \in TeamIds : FullAfter(s) /\ SoloAfter(s) /\ EmptyAfter(s)
  BY <1>g, TeamsAssumption DEF FullAfter, SoloAfter, EmptyAfter, Exists, ExistsAfter
<1> QED BY <1>1, <1>2, TablesAfter

LEMMA LeaveKeeps ==
  ASSUME TeamsInv, TypesInv', HistoryGrows, NEW u \in Players, NEW t \in TeamIds,
         teamOf' = [teamOf EXCEPT ![u] = NoTeam], DeleteEmptyTeam(t), UNCHANGED hasWork,
         teamOf[u] \in {NoTeam, t} \/ teamOf[u] \in abandoned'
  PROVE  TeamsInv'
<1>0. TypesInv
  BY DEF TeamsInv
<1>g. \A s \in TeamIds : /\ MembersAfter(s) \subseteq Members(s)
                         /\ MembersAfter(s) = {} => Members(s) = {} \/ s = teamOf[u]
  BY <1>0, TypesParts, TeamsAssumption DEF Members, MembersAfter
<1>r. /\ \A s \in TeamIds : s # t \/ MembersAfter(t) # {} => teamRow'[s] = teamRow[s]
      /\ teamRow'[t] = teamRow[t] \/ teamRow'[t] = "gone"
      /\ MembersAfter(t) = {} /\ Exists(t) /\ t \notin hasWork => teamRow'[t] = "gone"
  BY <1>0, TypesParts DEF DeleteEmptyTeam, MembersAfter
<1>1. AllExistAfter
  <2> SUFFICES ASSUME NEW p \in Players, teamOf'[p] # NoTeam PROVE ExistsAfter(teamOf'[p])
    BY DEF AllExistAfter
  <2>1. p # u /\ teamOf'[p] = teamOf[p] /\ Exists(teamOf[p])
    BY <1>0, TypesParts DEF TeamsInv, TeamsExist
  <2>2. teamOf[p] # t \/ MembersAfter(t) # {}
    BY <2>1 DEF MembersAfter
  <2> QED BY <1>r, <2>1, <2>2 DEF Exists, ExistsAfter
<1>2. \A s \in TeamIds : FullAfter(s) /\ SoloAfter(s) /\ EmptyAfter(s)
  <2> TAKE s \in TeamIds
  <2>1. FullAfter(s)
    BY <1>g DEF FullAfter
  <2>2. SoloAfter(s)
    BY <1>g, <1>r DEF SoloAfter
  <2>3. EmptyAfter(s)
    BY <1>g, <1>r, TeamsAssumption DEF EmptyAfter, Exists, ExistsAfter
  <2> QED BY <2>1, <2>2, <2>3
<1> QED BY <1>1, <1>2, TablesAfter

(* Only the row of a team changes.                                         *)
LEMMA RowKeeps ==
  ASSUME TeamsInv, TypesInv', HistoryGrows, UNCHANGED teamOf,
         NEW t \in TeamIds, NEW row \in {"open", "solo", "gone"},
         teamRow' = [teamRow EXCEPT ![t] = row],
         row = "open" => Exists(t),
         row = "solo" => \E u \in Players : Members(t) = {u},
         row = "gone" => Members(t) = {}
  PROVE  TeamsInv'
<1>0. TypesInv
  BY DEF TeamsInv
<1>m. \A s : MembersAfter(s) = Members(s)
  BY DEF Members, MembersAfter
<1>r. teamRow'[t] = row /\ \A s \in TeamIds \ {t} : teamRow'[s] = teamRow[s]
  BY <1>0, TypesParts
<1>1. AllExistAfter
  <2> SUFFICES ASSUME NEW p \in Players, teamOf[p] # NoTeam PROVE ExistsAfter(teamOf[p])
    BY DEF AllExistAfter
  <2>1. Exists(teamOf[p]) /\ p \in Members(teamOf[p])
    BY DEF TeamsInv, TeamsExist, Members
  <2> QED BY <1>r, <2>1 DEF Exists, ExistsAfter
<1>2. \A s \in TeamIds : FullAfter(s) /\ SoloAfter(s) /\ EmptyAfter(s)
  <2> TAKE s \in TeamIds
  <2>1. CASE s # t
    BY <1>m, <1>r, <2>1 DEF FullAfter, SoloAfter, EmptyAfter, Exists, ExistsAfter
  <2>2. CASE s = t
    <3>1. SoloAfter(t)
      BY <1>m, <1>r, FS_Singleton DEF SoloAfter
    <3>2. FullAfter(t) /\ EmptyAfter(t)
      BY <1>m, <1>r DEF FullAfter, EmptyAfter, ExistsAfter
    <3> QED BY <2>2, <3>1, <3>2
  <2> QED BY <2>1, <2>2
<1> QED BY <1>1, <1>2, TablesAfter

LEMMA MoveKeeps ==
  ASSUME TeamsInv, TypesInv', HistoryGrows, NEW u \in Players, NEW to \in TeamIds, NEW left,
         left \in BOOLEAN,
         left <=> teamOf[u] # NoTeam /\ Members(teamOf[u]) = {u} /\ teamOf[u] \notin hasWork,
         Exists(to), Cardinality(Members(to)) < TeamFull, teamOf[u] # to, UNCHANGED hasWork,
         teamOf' = [teamOf EXCEPT ![u] = to],
         teamRow' = [t \in TeamIds |-> CASE t = to -> "open"
                                          [] t = teamOf[u] /\ left -> "gone"
                                          [] OTHER -> teamRow[t]]
  PROVE  TeamsInv'
<1>0. TypesInv
  BY DEF TeamsInv
<1>g. /\ MembersAfter(to) = Members(to) \cup {u}
      /\ Cardinality(MembersAfter(to)) <= Cardinality(Members(to)) + 1
      /\ \A s : s # to => MembersAfter(s) = Members(s) \ {u}
      /\ \A s : s # to /\ MembersAfter(s) = {} => Members(s) = {} \/ s = teamOf[u]
  BY <1>0, PlayerGoes
<1>c. u \in MembersAfter(to) /\ Cardinality(MembersAfter(to)) <= TeamFull
  <2>1. IsFiniteSet(Members(to) \cup {u})
    BY MembersFinite, FS_AddElement
  <2>2. Cardinality(Members(to) \cup {u}) \in Nat
    BY <2>1, FS_CardinalityType
  <2> QED BY <1>g, <2>2, MembersFinite, TeamsAssumption
<1>r. /\ teamRow'[to] = "open"
      /\ \A s \in TeamIds \ {to} : teamRow'[s] = IF s = teamOf[u] /\ left THEN "gone" ELSE teamRow[s]
  <2>1. \A s \in TeamIds : teamRow'[s] = CASE s = to -> "open"
                                            [] s = teamOf[u] /\ left -> "gone"
                                            [] OTHER -> teamRow[s]
    BY Zenon
  <2>2. teamRow'[to] = "open"
    BY <2>1
  <2>3. ASSUME NEW s \in TeamIds \ {to}
        PROVE  teamRow'[s] = IF s = teamOf[u] /\ left THEN "gone" ELSE teamRow[s]
    <3>1. CASE s = teamOf[u] /\ left
      BY <2>1, <3>1
    <3>2. CASE ~(s = teamOf[u] /\ left)
      BY <2>1, <3>2
    <3> QED BY <3>1, <3>2
  <2> QED BY <2>2, <2>3
<1>1. AllExistAfter
  <2> SUFFICES ASSUME NEW p \in Players, teamOf'[p] # NoTeam PROVE ExistsAfter(teamOf'[p])
    BY DEF AllExistAfter
  <2>1. CASE teamOf'[p] = to
    BY <1>r, <2>1 DEF ExistsAfter
  <2>2. CASE teamOf'[p] # to
    <3>1. p # u /\ teamOf'[p] = teamOf[p] /\ Exists(teamOf[p])
      BY <1>0, <2>2, TypesParts DEF TeamsInv, TeamsExist
    <3>2. ~(teamOf[p] = teamOf[u] /\ left)
      BY <3>1 DEF Members
    <3> QED BY <1>r, <2>2, <3>1, <3>2 DEF Exists, ExistsAfter
  <2> QED BY <2>1, <2>2
<1>2. \A s \in TeamIds : FullAfter(s) /\ SoloAfter(s) /\ EmptyAfter(s)
  <2> TAKE s \in TeamIds
  <2>1. CASE s = to
    BY <1>c, <1>r, <2>1 DEF FullAfter, SoloAfter, EmptyAfter
  <2>2. CASE s # to
    <3>1. MembersAfter(s) \subseteq Members(s) /\ MembersAfter(s) = Members(s) \ {u}
      BY <1>g, <2>2
    <3>2. EmptyAfter(s)
      <4> SUFFICES ASSUME ExistsAfter(s), MembersAfter(s) = {}, Members(s) # {}, s \notin hasWork
                   PROVE  FALSE
        BY <1>r, <2>2 DEF EmptyAfter, Exists, ExistsAfter
      <4>1. s = teamOf[u] /\ Members(s) = {u}
        BY <1>g, <2>2, <3>1
      <4>2. left
        BY <4>1, TeamsAssumption
      <4> QED BY <1>r, <2>2, <4>1, <4>2 DEF ExistsAfter
    <3> QED BY <1>r, <2>2, <3>1, <3>2 DEF FullAfter, SoloAfter
  <2> QED BY <2>1, <2>2
<1> QED BY <1>1, <1>2, TablesAfter

LEMMA MergeKeeps ==
  ASSUME TeamsInv, TypesInv', HistoryGrows, NEW a \in TeamIds, NEW b \in TeamIds, a # b,
         Exists(a), Exists(b),
         teamOf' = [p \in Players |-> IF teamOf[p] = b THEN a ELSE teamOf[p]],
         teamRow' = [teamRow EXCEPT ![a] = "open", ![b] = "gone"],
         overfilled' = IF Cardinality(Members(a) \cup Members(b)) > TeamFull
                       THEN overfilled \cup {a} ELSE overfilled
  PROVE  TeamsInv'
<1>0. TypesInv
  BY DEF TeamsInv
<1>m. /\ MembersAfter(a) = Members(a) \cup Members(b) /\ MembersAfter(b) = {}
      /\ \A s \in TeamIds \ {a, b} : MembersAfter(s) = Members(s)
  BY TeamsAssumption DEF Members, MembersAfter
<1>c. Cardinality(MembersAfter(a)) <= TeamFull \/ a \in overfilled'
  <2>1. Cardinality(Members(a) \cup Members(b)) \in Nat
    BY MembersFinite, FS_Union, FS_CardinalityType
  <2> QED BY <1>m, <2>1, TeamsAssumption
<1>r. /\ teamRow'[a] = "open" /\ teamRow'[b] = "gone"
      /\ \A s \in TeamIds \ {a, b} : teamRow'[s] = teamRow[s]
  BY <1>0, TypesParts
<1>1. AllExistAfter
  BY <1>r DEF TeamsInv, AllExistAfter, TeamsExist, Exists, ExistsAfter
<1>2. \A s \in TeamIds : FullAfter(s) /\ SoloAfter(s) /\ EmptyAfter(s)
  <2> TAKE s \in TeamIds
  <2>1. CASE s = a
    BY <1>c, <1>m, <1>r, <2>1 DEF FullAfter, SoloAfter, EmptyAfter
  <2>2. CASE s = b
    BY <1>m, <1>r, <2>2 DEF FullAfter, SoloAfter, EmptyAfter, ExistsAfter
  <2>3. CASE s \notin {a, b}
    BY <1>m, <1>r, <2>3 DEF FullAfter, SoloAfter, EmptyAfter, Exists, ExistsAfter
  <2> QED BY <2>1, <2>2, <2>3
<1> QED BY <1>1, <1>2, TablesAfter

LEMMA EndsKeeps ==
  ASSUME TeamsInv, TypesInv', NEW r \in Requests, ComesToNothing(r)
  PROVE  TeamsInv'
  BY QuietKeeps DEF ComesToNothing, HistoryGrows, teamTable, works, teamHistory

LEMMA PlayerCommitsKeep ==
  ASSUME TeamsInv, NEW r \in Requests, PlayerCommits(r)
  PROVE  TeamsInv'
<1> DEFINE u == request[r].user
           t == request[r].team
<1>0. TypesInv /\ HasRead(request[r])
  BY DEF TeamsInv, TypesInv, RequestsRead
<1>y. TypesInv'
  BY <1>0, PlayerCommitsTypes
<1>n. ComesToNothing(r) => TeamsInv'
  BY <1>y, EndsKeeps
<1>h. UNCHANGED <<works, teamHistory>> => HistoryGrows
  BY DEF HistoryGrows, works, teamHistory
<1>1. CASE CreateTeam(r)
  <2>1. u \in Players
    BY <1>0, <1>1 DEF CreateTeam, HasRead
  <2>2. CASE teamOf[u] = NoTeam /\ NewTeamFor(u, "open") /\ UNCHANGED <<works, teamHistory>>
    BY <1>y, <1>h, <2>1, <2>2, NewTeamKeeps
  <2> QED BY <1>1, <1>n, <2>2 DEF CreateTeam
<1>2. CASE GoSolo(r)
  <2>1. u \in Players /\ t \in TeamIds \cup {NoTeam}
    BY <1>0, <1>2, TypesParts DEF GoSolo, HasRead, RequestRows
  <2>2. CASE teamOf[u] = NoTeam /\ NewTeamFor(u, "solo") /\ UNCHANGED <<works, teamHistory>>
    BY <1>y, <1>h, <2>1, <2>2, NewTeamKeeps
  <2>3. CASE /\ t # NoTeam /\ Members(t) = {u} /\ teamRow' = [teamRow EXCEPT ![t] = "solo"]
             /\ UNCHANGED <<teamOf, works, teamHistory>>
    BY <1>y, <1>h, <2>1, <2>3, RowKeeps
  <2> QED BY <1>2, <1>n, <2>2, <2>3 DEF GoSolo
<1>3. CASE OpenSoloTeam(r)
  <2>1. CASE /\ Exists(t) /\ teamRow' = [teamRow EXCEPT ![t] = "open"]
             /\ UNCHANGED <<teamOf, works, teamHistory>>
    <3>1. t \in TeamIds
      BY <2>1 DEF Exists
    <3> QED BY <1>y, <1>h, <2>1, <3>1, RowKeeps
  <2> QED BY <1>3, <1>n, <2>1 DEF OpenSoloTeam
<1>4. CASE JoinTeam(r)
  <2>1. u \in Players /\ t \in TeamIds
    BY <1>0, <1>4 DEF JoinTeam, HasRead
  <2>2. CASE /\ Joinable(t) /\ teamOf[u] = NoTeam /\ teamOf' = [teamOf EXCEPT ![u] = t]
             /\ UNCHANGED <<teamRow, works, teamHistory>>
    <3>1. Exists(t) /\ teamRow[t] = "open" /\ Cardinality(Members(t)) < TeamFull
      BY <2>1, <2>2 DEF Joinable, Exists
    <3> QED BY <1>y, <1>h, <2>1, <2>2, <3>1, JoinKeeps
  <2> QED BY <1>4, <1>n, <2>2 DEF JoinTeam
<1>5. CASE InviteToTeam(r)
  BY <1>5, <1>n, <1>y, <1>h, QuietKeeps DEF InviteToTeam
<1>6. CASE RegenerateInviteToken(r)
  BY <1>6, <1>n, <1>y, <1>h, QuietKeeps DEF RegenerateInviteToken
<1>7. CASE LeaveTeam(r)
  <2>1. u \in Players /\ t \in TeamIds
    BY <1>0, <1>7 DEF LeaveTeam, HasRead
  <2>2. /\ teamOf' = [teamOf EXCEPT ![u] = NoTeam] /\ DeleteEmptyTeam(t) /\ UNCHANGED hasWork
        /\ teamOf[u] \in {NoTeam, t} \/ teamOf[u] \in abandoned'
    BY <1>7 DEF LeaveTeam, works
  <2>3. HistoryGrows
    BY <1>7 DEF LeaveTeam, HistoryGrows, works
  <2> QED BY <1>y, <2>1, <2>2, <2>3, LeaveKeeps
<1> QED BY <1>1, <1>2, <1>3, <1>4, <1>5, <1>6, <1>7 DEF PlayerCommits

LEMMA OrganiserCommitsKeep ==
  ASSUME TeamsInv, NEW r \in Requests, OrganiserCommits(r)
  PROVE  TeamsInv'
<1>0. TypesInv /\ HasRead(request[r])
  BY DEF TeamsInv, TypesInv, RequestsRead
<1>y. TypesInv'
  BY <1>0, OrganiserCommitsTypes
<1>n. ComesToNothing(r) => TeamsInv'
  BY <1>y, EndsKeeps
<1>h. UNCHANGED <<works, teamHistory>> => HistoryGrows
  BY DEF HistoryGrows, works, teamHistory
<1>1. CASE AdminMoveUser(r)
  <2> DEFINE u == request[r].user
             from == request[r].team
             to == request[r].other
             left == from # NoTeam /\ Members(from) = {u} /\ from \notin hasWork
  <2>1. u \in Players /\ to \in TeamIds /\ from # to
    BY <1>0, <1>1 DEF AdminMoveUser, HasRead
  <2>2. CASE /\ Cardinality(Members(to)) < TeamFull /\ Exists(to) /\ teamOf[u] = from
             /\ teamOf' = [teamOf EXCEPT ![u] = to]
             /\ teamRow' = [t \in TeamIds |-> CASE t = to -> "open"
                                                [] t = from /\ left -> "gone"
                                                [] OTHER -> teamRow[t]]
             /\ UNCHANGED <<works, teamHistory>>
    <3>1. UNCHANGED hasWork
      BY <2>2 DEF works
    <3> QED BY <1>y, <1>h, <2>1, <2>2, <3>1, MoveKeeps
  <2> QED BY <1>1, <1>n, <2>2 DEF AdminMoveUser
<1>2. CASE AdminMergeTeams(r)
  <2> DEFINE a == request[r].team
             b == request[r].other
  <2>1. a \in TeamIds /\ b \in TeamIds /\ a # b
    BY <1>0, <1>2 DEF AdminMergeTeams, HasRead
  <2>2. CASE /\ Exists(a) /\ Exists(b)
             /\ teamOf' = [p \in Players |-> IF teamOf[p] = b THEN a ELSE teamOf[p]]
             /\ teamRow' = [teamRow EXCEPT ![a] = "open", ![b] = "gone"]
             /\ overfilled' = IF Cardinality(Members(a) \cup Members(b)) > TeamFull
                              THEN overfilled \cup {a} ELSE overfilled
             /\ UNCHANGED <<works, squeezed, abandoned>>
    <3>1. HistoryGrows
      BY <2>2 DEF HistoryGrows, works
    <3> QED BY <1>y, <2>1, <2>2, <3>1, MergeKeeps
  <2> QED BY <1>2, <1>n, <2>2 DEF AdminMergeTeams
<1>3. CASE RemoveMember(r)
  <2> DEFINE u == request[r].user
  <2>1. u \in Players
    BY <1>0, <1>3 DEF RemoveMember, HasRead
  <2>2. /\ teamOf' = [teamOf EXCEPT ![u] = NoTeam] /\ UNCHANGED teamRow
        /\ teamOf[u] = NoTeam \/ teamOf[u] \in abandoned'
    BY <1>3 DEF RemoveMember
  <2>3. HistoryGrows
    BY <1>3 DEF RemoveMember, HistoryGrows, works
  <2> QED BY <1>y, <2>1, <2>2, <2>3, RemoveKeeps
<1>4. CASE DeleteTeam(r)
  <2> DEFINE t == request[r].team
  <2>1. CASE /\ Exists(t) /\ Members(t) = {} /\ teamRow' = [teamRow EXCEPT ![t] = "gone"]
             /\ UNCHANGED <<teamOf, works, teamHistory>>
    <3>1. t \in TeamIds
      BY <2>1 DEF Exists
    <3> QED BY <1>y, <1>h, <2>1, <3>1, RowKeeps
  <2> QED BY <1>4, <1>n, <2>1 DEF DeleteTeam
<1> QED BY <1>1, <1>2, <1>3, <1>4 DEF OrganiserCommits

LEMMA ComposeKeeps ==
  ASSUME TeamsInv, ComposeStep
  PROVE  TeamsInv'
<1>0. TypesInv
  BY DEF TeamsInv
<1>y. TypesInv'
  BY <1>0, ComposeTypes
<1>l. \A u \in Players : LeavesBehind(u) => /\ abandoned \subseteq abandoned'
                                           /\ (teamOf[u] = NoTeam \/ teamOf[u] \in abandoned')
  BY DEF LeavesBehind
<1>1. CASE ComposeReads
  BY <1>1, <1>y, QuietKeeps DEF ComposeReads, HistoryGrows, teamTable, works, teamHistory
<1>2. CASE ComposeEnds
  BY <1>2, <1>y, QuietKeeps DEF ComposeEnds, HistoryGrows, teamTable, works, teamHistory
<1>3. ASSUME NEW u \in Players, AdminCreateTeam(u) PROVE TeamsInv'
  <2>1. NewTeamFor(u, "open") /\ LeavesBehind(u)
    BY <1>3 DEF AdminCreateTeam, NewTeamFor
  <2>2. HistoryGrows
    <3>1. abandoned \subseteq abandoned'
      BY <2>1 DEF LeavesBehind
    <3>2. UNCHANGED <<hasWork, overfilled>> /\ squeezed \subseteq squeezed'
      BY <1>3 DEF AdminCreateTeam, works
    <3> QED BY <3>1, <3>2 DEF HistoryGrows
  <2> QED BY <1>y, <1>l, <2>1, <2>2, NewTeamKeeps
<1>4. ASSUME NEW u \in Players, NEW t \in TeamIds, AdminAssignUser(u, t) PROVE TeamsInv'
  <2>1. /\ Exists(t) /\ Cardinality(Members(t)) < TeamFull /\ teamOf' = [teamOf EXCEPT ![u] = t]
        /\ UNCHANGED teamRow /\ LeavesBehind(u)
        /\ teamRow[t] = "open" \/ t \in squeezed'
    BY <1>4 DEF AdminAssignUser, Exists
  <2>2. HistoryGrows
    <3>1. abandoned \subseteq abandoned'
      BY <2>1 DEF LeavesBehind
    <3>2. UNCHANGED <<hasWork, overfilled>> /\ squeezed \subseteq squeezed'
      BY <1>4 DEF AdminAssignUser, works
    <3> QED BY <3>1, <3>2 DEF HistoryGrows
  <2> QED BY <1>y, <1>l, <2>1, <2>2, JoinKeeps
<1> QED BY <1>1, <1>2, <1>3, <1>4 DEF ComposeStep

LEMMA TeamsInvNext == TeamsInv /\ [TeamsNext]_teamVars => TeamsInv'
<1> SUFFICES ASSUME TeamsInv, [TeamsNext]_teamVars PROVE TeamsInv'
  OBVIOUS
<1>y. TypesInv'
  BY TypesInvNext DEF TeamsInv
<1>1. ASSUME NEW r \in Requests, PlayerCommits(r) \/ OrganiserCommits(r) PROVE TeamsInv'
  BY <1>1, PlayerCommitsKeep, OrganiserCommitsKeep
<1>2. CASE ComposeStep
  BY <1>2, ComposeKeeps
<1>q. UNCHANGED <<teamOf, teamRow, teamHistory>> /\ hasWork \subseteq hasWork' => TeamsInv'
  BY <1>y, QuietKeeps DEF HistoryGrows, teamHistory
<1>b. ASSUME NEW r, NEW what, Begins(r, what) PROVE TeamsInv'
  BY <1>b, <1>q DEF Begins, teamTable, works
<1>3. ASSUME NEW r \in Requests, OrganiserReads(r) \/ \E u \in Players : PlayerReads(r, u) PROVE TeamsInv'
  BY <1>3, <1>b DEF OrganiserReads, PlayerReads, CreateTeamReads, GoSoloReads, OpenSoloReads,
     MatchmakingReads, RenewReads, LeaveReads, AcceptReads, LinkReads, InviteReads, RemoveReads,
     MoveReads, DeleteReads, MergeReads
<1>4. ASSUME NEW t \in TeamIds, SaveWork(t) \/ SubmitWork(t) PROVE TeamsInv'
  BY <1>4, <1>q DEF SaveWork, SubmitWork, teamTable
<1>5. ASSUME NEW i \in InviteIds, DeclineInvite(i) PROVE TeamsInv'
  BY <1>5, <1>q DEF DeclineInvite, works
<1>6. CASE SetTeamModule \/ UNCHANGED teamVars
  BY <1>6, <1>q DEF SetTeamModule, teamVars, teamTable, works
<1> QED BY <1>1, <1>2, <1>3, <1>4, <1>5, <1>6 DEF TeamsNext

LEMMA TeamsInvInit == TeamsInit => TeamsInv
<1> SUFFICES ASSUME TeamsInit PROVE TeamsInv
  OBVIOUS
<1>1. \A t \in TeamIds : Members(t) = {} /\ teamRow[t] = "free"
  BY TeamsAssumption DEF TeamsInit, Members
<1>2. FullKept /\ SoloAlone /\ EmptyTeamsGone
  BY <1>1, FS_EmptySet, TeamsAssumption DEF FullKept, SoloAlone, EmptyTeamsGone, Exists
<1>3. TeamsExist
  BY DEF TeamsInit, TeamsExist
<1> QED BY <1>2, <1>3, TypesInvInit DEF TeamsInv

(* No way into a team, and no two of them at once, fills it beyond         *)
(* TEAM_FULL; only a merge of the organiser can.                           *)
THEOREM FullAlwaysKept == TeamsSpec => []FullKept
<1>1. TeamsInv => FullKept  BY DEF TeamsInv
<1> QED BY <1>1, TeamsInvInit, TeamsInvNext, PTL DEF TeamsSpec

(* Nobody but autoComposeTeams adds a player to a closed team.             *)
THEOREM SoloAlwaysAlone == TeamsSpec => []SoloAlone
<1>1. TeamsInv => SoloAlone  BY DEF TeamsInv
<1> QED BY <1>1, TeamsInvInit, TeamsInvNext, PTL DEF TeamsSpec

(* Members have a team that exists, and a team that exists has members or  *)
(* work, or the organiser took its last member away.                       *)
THEOREM TeamsAlwaysInUse == TeamsSpec => []TeamsInUse
<1>1. TeamsInv => TeamsInUse  BY DEF TeamsInv, TeamsInUse
<1> QED BY <1>1, TeamsInvInit, TeamsInvNext, PTL DEF TeamsSpec
================================================================================
