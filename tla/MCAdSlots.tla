------------------------------ MODULE MCAdSlots --------------------------------
(* A small instance of AdSlots: a push and a banner, two teams.            *)
EXTENDS AdSlots, TLC

CONSTANTS ana, ali, bob, red, blue, push1, banner2

TwoTeams == ana :> red @@ ali :> red @@ bob :> blue
Coins == ana :> 1 @@ ali :> 2 @@ bob :> 2
Leads == ana :> 0 @@ ali :> 0 @@ bob :> 1
Hours == push1 :> 1 @@ banner2 :> 2
Prices == push1 :> 1 @@ banner2 :> 1
================================================================================
