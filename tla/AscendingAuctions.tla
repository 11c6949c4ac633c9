-------------------------- MODULE AscendingAuctions ---------------------------
(***************************************************************************)
(* What the live auction promises the players, whoever starts and settles  *)
(* it and whatever fails: products wait in a queue and are sold one at a   *)
(* time; every offer is above the last one; the highest offer wins at its  *)
(* own price; and a result is never changed.  The one exception is named:  *)
(* when the organiser took coins from the leader, another offer may win or *)
(* the product stay unsold.                                                *)
(*                                                                         *)
(* Time, wallets, the scheduler, the handlers and the end of the contest   *)
(* are not here: LiveAuction shows that they keep to this.                 *)
(***************************************************************************)
EXTENDS Integers

CONSTANTS
  Users, NoUser, Products,
  Members,       \* who may not bid for a product: its own team
  BidIncrement,
  Opening        \* the least that a first offer may be

VARIABLES
  status,    \* NONE, SCHEDULED, LIVE, ENDED
  offers,    \* what was bid for a product, and by whom
  result,    \* the offer that won
  docked     \* the players the organiser took coins from

auctionVars == <<status, offers, result, docked>>

Unsold == [user |-> NoUser, amount |-> 0]

(* The highest offer, once there is one.                                   *)
Leading(p) == {o \in offers[p] : \A other \in offers[p] : other.amount <= o.amount}

AuctionsInit ==
  /\ status = [p \in Products |-> "NONE"]
  /\ offers = [p \in Products |-> {}]
  /\ result = [p \in Products |-> Unsold]
  /\ docked = {}

(* The queue: products come, one or many at once, and may be taken out.    *)
Moves(S, from, to) ==
  /\ \A p \in S : status[p] = from
  /\ status' = [p \in Products |-> IF p \in S THEN to ELSE status[p]]

Queue(S) == Moves(S, "NONE", "SCHEDULED") /\ UNCHANGED <<offers, result, docked>>
Unqueue(S) == Moves(S, "SCHEDULED", "NONE") /\ UNCHANGED <<offers, result, docked>>

Open(p) ==
  /\ \A q \in Products : status[q] # "LIVE"
  /\ Moves({p}, "SCHEDULED", "LIVE")
  /\ UNCHANGED <<offers, result, docked>>

Offer(p) ==
  /\ status[p] = "LIVE"
  /\ \E o \in offers'[p] :
       /\ o.user \in Users \ Members[p]
       /\ offers[p] = {} => o.amount >= Opening[p]
       /\ \A other \in offers[p] : o.amount >= other.amount + BidIncrement
       /\ offers' = [offers EXCEPT ![p] = @ \cup {o}]
  /\ UNCHANGED <<status, result, docked>>

Close(p) ==
  /\ Moves({p}, "LIVE", "ENDED")
  /\ \/ offers[p] = {} /\ UNCHANGED result
     \/ \E o \in Leading(p) : result' = [result EXCEPT ![p] = o]
     \/ /\ \E o \in Leading(p) : o.user \in docked
        /\ \E o \in offers[p] \cup {Unsold} : result' = [result EXCEPT ![p] = o]
  /\ UNCHANGED <<offers, docked>>

Dock(u) == docked' = docked \cup {u} /\ UNCHANGED <<status, offers, result>>

AuctionsNext ==
  \/ \E S \in SUBSET Products : Queue(S) \/ Unqueue(S)
  \/ \E p \in Products : Open(p) \/ Offer(p) \/ Close(p)
  \/ \E u \in Users : Dock(u)

AuctionsSpec == AuctionsInit /\ [][AuctionsNext]_auctionVars
================================================================================
