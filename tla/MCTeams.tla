------------------------------- MODULE MCTeams ---------------------------------
(* A small instance of Teams: three players, teams of two.                 *)
EXTENDS Teams, TLC

CONSTANTS p1, p2, p3, t1, t2, i1, r1, r2

AlikeTeams == Permutations({p1, p2, p3}) \cup Permutations({t1, t2}) \cup Permutations({r1, r2})
================================================================================
