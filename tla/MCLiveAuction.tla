----------------------------- MODULE MCLiveAuction -----------------------------
(* Small contests for LiveAuction.                                         *)
EXTENDS LiveAuction

CONSTANTS ana, bob, shop, book

TwoUsers == {ana, bob}
OneUser == {ana}
OneProduct == {shop}
TwoProducts == {shop, book}
Unowned == [p \in OneProduct |-> {}]
BookOwned == [p \in TwoProducts |-> IF p = book THEN {ana} ELSE {}]
ThreeAndTwo == [u \in TwoUsers |-> IF u = ana THEN 3 ELSE 2]
OneCoin == [u \in OneUser |-> 1]
Corrections == {-1}
OnePrice == [p \in OneProduct |-> 2]
Prices == [p \in TwoProducts |-> 2]
OneStart == [p \in OneProduct |-> 0]
Starts == [p \in TwoProducts |-> 0]
================================================================================
