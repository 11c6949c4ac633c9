------------------------------ MODULE MCCoinOrders ------------------------------
(* Small sales for CoinOrders.                                             *)
EXTENDS CoinOrders

CONSTANTS ana, small, large

OneUser == {ana}
TwoOrders == {small, large}
AnaOwns == [o \in TwoOrders |-> ana]
OneAndTwo == [o \in TwoOrders |-> IF o = small THEN 1 ELSE 2]
NoCoins == [u \in OneUser |-> 0]
================================================================================
