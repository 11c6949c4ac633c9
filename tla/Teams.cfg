CONSTANTS
  p1 = p1
  p2 = p2
  p3 = p3
  t1 = t1
  t2 = t2
  i1 = i1
  r1 = r1
  r2 = r2
  NoPlayer = NoPlayer
  NoTeam = NoTeam
  NoInvite = NoInvite
  Players = {p1, p2, p3}
  TeamIds = {t1, t2}
  InviteIds = {i1}
  Requests = {r1, r2}
  TeamFull = 2
  MaxLinks = 1
  MaxRequests = 4
  TeamFaults = {"move", "merge", "remove", "compose", "module"}
SYMMETRY AlikeTeams
INIT TeamsInit
NEXT TeamsNext
CHECK_DEADLOCK FALSE
INVARIANTS
  TeamsTypeOK
  FullKept
  SoloAlone
  TeamsInUse
