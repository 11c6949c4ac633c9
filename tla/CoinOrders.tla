------------------------------- MODULE CoinOrders -------------------------------
(***************************************************************************)
(* Buying coins with money: lib/coins.ts with the payment gateway.         *)
(*                                                                         *)
(* A CoinOrder is created PENDING, the payment driver is started, the      *)
(* gateway sends the user back to /coins/callback, the driver is asked     *)
(* whether the payment went through, and the order is paid and credited.   *)
(* Meanwhile the user may cancel it, the organiser may reject it or mark   *)
(* it paid by hand, and the callback may come again: every `await` of      *)
(* coins.ts is a place where the others run.                               *)
(*                                                                         *)
(* An order is named before it exists; its owner, its coins and whether    *)
(* its driver is online are constants of the name.                         *)
(***************************************************************************)
EXTENDS Integers, FiniteSets, FiniteSetsExt

CONSTANTS
  Users,
  InitialCoins,    \* the wallets before any purchase
  Orders,          \* the orders that may be created
  Owner,           \* CoinOrder.userId
  Coins,           \* CoinOrder.coins
  Online,          \* the orders whose driver is online (the others: manual)
  MaxBought,       \* max_bought_coins_per_user
  Callbacks,       \* requests to /coins/callback that may run at one time
  Clerks,          \* organisers who may mark orders paid at one time
  Faults,          \* bound: which failures a run takes
  NoOrder

ASSUME OrderAssumption ==
  /\ InitialCoins \in [Users -> Nat]
  /\ Owner \in [Orders -> Users]
  /\ Coins \in [Orders -> Nat \ {0}]
  /\ NoOrder \notin Orders
  /\ MaxBought \in Nat

VARIABLES
  status,       \* CoinOrder.status; NONE: the row does not exist
  authority,    \* the orders whose authority is stored
  refId,        \* CoinOrder.refId: none, the gateway's code, or a MANUAL- one
  wallet,       \* User.buyWallet
  posted,       \* the sum of the user's COIN_PURCHASE entries
  credits,      \* how many COIN_PURCHASE entries have this order as refId
  coinsOpen,    \* moduleGate("coins") lets the users in
  asking,       \* createCoinOrder past its gate, before its transaction
  starting,     \* createCoinOrder waiting for driver.start
  callback,     \* verifyCoinOrder: which order, and where it is
  clerk,        \* adminMarkOrderPaid: the order as it was read, and where it is
  captured,     \* the orders whose money the gateway has taken
  late,         \* history: the orders credited after they had been CANCELED
  overwritten,  \* history: the orders a failing start took PAID away from
  restarted     \* the process has restarted

table == <<status, authority, refId>>
coins == <<wallet, posted, credits>>
handlers == <<asking, starting, callback, clerk>>
history == <<late, overwritten>>
vars == <<table, coins, coinsOpen, handlers, captured, history, restarted>>

Statuses == {"NONE", "PENDING", "PAID", "FAILED", "CANCELED"}
RefIds == {"none", "gateway", "manual"}
IdleCallback == [at |-> "idle", order |-> NoOrder]
IdleClerk == [at |-> "idle", order |-> NoOrder, status |-> "NONE", refId |-> "none"]

TypeOK ==
  /\ status \in [Orders -> Statuses]
  /\ authority \subseteq Online \cap Orders
  /\ refId \in [Orders -> RefIds]
  /\ wallet \in [Users -> Nat]
  /\ posted \in [Users -> Nat]
  /\ credits \in [Orders -> Nat]
  /\ coinsOpen \in BOOLEAN
  /\ asking \subseteq Orders
  /\ starting \subseteq Orders
  /\ callback \in [Callbacks -> {IdleCallback} \cup
       [at : {"gateway", "confirmed", "reread", "note"}, order : Orders]]
  /\ clerk \in [Clerks -> {IdleClerk} \cup
       [at : {"reopen", "mark"}, order : Orders,
        status : Statuses \ {"NONE", "PAID"}, refId : RefIds]]
  /\ captured \subseteq authority
  /\ late \subseteq Orders /\ overwritten \subseteq Orders
  /\ restarted \in BOOLEAN

Init ==
  /\ status = [o \in Orders |-> "NONE"]
  /\ authority = {}
  /\ refId = [o \in Orders |-> "none"]
  /\ wallet = InitialCoins
  /\ posted = [u \in Users |-> 0]
  /\ credits = [o \in Orders |-> 0]
  /\ coinsOpen = TRUE
  /\ asking = {} /\ starting = {}
  /\ callback = [c \in Callbacks |-> IdleCallback]
  /\ clerk = [a \in Clerks |-> IdleClerk]
  /\ captured = {}
  /\ late = {} /\ overwritten = {}
  /\ restarted = FALSE

(* boughtOrPendingCoins, and the room under the cap.                       *)
OrdersOf(u, states) == {o \in Orders : Owner[o] = u /\ status[o] \in states}
CoinsOf(S) == MapThenSumSet(LAMBDA o : Coins[o], S)
HasRoomPaidOnly(o) == CoinsOf(OrdersOf(Owner[o], {"PAID"})) + Coins[o] <= MaxBought
HasRoom(o) == CoinsOf(OrdersOf(Owner[o], {"PAID", "PENDING"})) + Coins[o] <= MaxBought

SetStatus(o, s) == status' = [status EXCEPT ![o] = s]
--------------------------------------------------------------------------------
(* createCoinOrder: the gate, the transaction with the cap, the driver.    *)

PassCoinsGate(o) ==
  /\ coinsOpen
  /\ status[o] = "NONE" /\ o \notin asking
  /\ asking' = asking \cup {o}
  /\ UNCHANGED <<table, coins, coinsOpen, starting, callback, clerk, captured, history, restarted>>

CreateOrder(o) ==
  /\ o \in asking
  /\ asking' = asking \ {o}
  /\ IF HasRoom(o)
     THEN SetStatus(o, "PENDING") /\ starting' = starting \cup {o}
     ELSE UNCHANGED <<status, starting>>
  /\ UNCHANGED <<authority, refId, coins, coinsOpen, callback, clerk, captured, history, restarted>>

(* driver.start answers: an online driver's authority is stored.           *)
DriverStarted(o) ==
  /\ o \in starting
  /\ starting' = starting \ {o}
  /\ authority' = IF o \in Online THEN authority \cup {o} ELSE authority
  /\ UNCHANGED <<status, refId, coins, coinsOpen, asking, callback, clerk, captured, history, restarted>>

(* driver.start, or storing its authority, throws: the order is written    *)
(* FAILED whatever has become of it in the meantime.                       *)
StartFails(o) ==
  /\ "start" \in Faults
  /\ o \in starting
  /\ starting' = starting \ {o}
  /\ SetStatus(o, "FAILED")
  /\ overwritten' = IF status[o] = "PAID" THEN overwritten \cup {o} ELSE overwritten
  /\ UNCHANGED <<authority, refId, coins, coinsOpen, asking, callback, clerk, captured, late, restarted>>
--------------------------------------------------------------------------------
(* markPaidAndCredit: one transaction that claims the order from one of    *)
(* the given states and credits its owner.                                 *)

Credit(o) ==
  /\ wallet' = [wallet EXCEPT ![Owner[o]] = @ + Coins[o]]
  /\ posted' = [posted EXCEPT ![Owner[o]] = @ + Coins[o]]
  /\ credits' = [credits EXCEPT ![o] = @ + 1]

MarkPaidUncredited(o, code, from) ==
  /\ status[o] \in from
  /\ SetStatus(o, "PAID")
  /\ refId' = [refId EXCEPT ![o] = code]
  /\ wallet' = [wallet EXCEPT ![Owner[o]] = @ + Coins[o]]
  /\ UNCHANGED <<posted, credits>>
  /\ late' = late

MarkPaid(o, code, from) ==
  /\ status[o] \in from
  /\ SetStatus(o, "PAID")
  /\ refId' = [refId EXCEPT ![o] = code]
  /\ Credit(o)
  /\ late' = IF status[o] = "CANCELED" THEN late \cup {o} ELSE late
--------------------------------------------------------------------------------
(* verifyCoinOrder                                                         *)

CallbackAt(c, at, o) == callback[c].at = at /\ callback[c].order = o
CallbackGoes(c, at, o) == callback' = [callback EXCEPT ![c] = [at |-> at, order |-> o]]
CallbackEnds(c) == callback' = [callback EXCEPT ![c] = IdleCallback]

(* The order is found by its authority.  One that is PAID is answered      *)
(* alreadyPaid, one that is FAILED or CANCELED is refused.                 *)
CallbackReads(c, o) ==
  /\ callback[c].at = "idle"
  /\ o \in authority /\ status[o] = "PENDING"
  /\ CallbackGoes(c, "gateway", o)
  /\ UNCHANGED <<table, coins, coinsOpen, asking, starting, clerk, captured, history, restarted>>

(* driver.verify says that the payment failed, as it may when the user     *)
(* came back before paying.                                                *)
GatewayRefuses(c, o) ==
  /\ CallbackAt(c, "gateway", o)
  /\ CallbackEnds(c)
  /\ status' = IF status[o] = "PENDING" THEN [status EXCEPT ![o] = "FAILED"] ELSE status
  /\ UNCHANGED <<authority, refId, coins, coinsOpen, asking, starting, clerk, captured, history, restarted>>

(* driver.verify throws: the request fails and the order stays as it is.   *)
VerifyThrows(c, o) ==
  /\ CallbackAt(c, "gateway", o)
  /\ CallbackEnds(c)
  /\ UNCHANGED <<table, coins, coinsOpen, asking, starting, clerk, captured, history, restarted>>

GatewayConfirms(c, o) ==
  /\ CallbackAt(c, "gateway", o)
  /\ o \in captured
  /\ CallbackGoes(c, "confirmed", o)
  /\ UNCHANGED <<table, coins, coinsOpen, asking, starting, clerk, captured, history, restarted>>

(* The payment is proved, so an order that was canceled during driver.verify *)
(* is credited as well.                                                    *)
CallbackCredits(c, o) ==
  /\ CallbackAt(c, "confirmed", o)
  /\ MarkPaid(o, "gateway", {"PENDING", "CANCELED"})
  /\ CallbackEnds(c)
  /\ UNCHANGED <<authority, coinsOpen, asking, starting, clerk, captured, overwritten, restarted>>

CallbackFindsItTaken(c, o) ==
  /\ CallbackAt(c, "confirmed", o)
  /\ status[o] \notin {"PENDING", "CANCELED"}
  /\ CallbackGoes(c, "reread", o)
  /\ UNCHANGED <<table, coins, coinsOpen, asking, starting, clerk, captured, history, restarted>>

CallbackRereads(c, o) ==
  /\ CallbackAt(c, "reread", o)
  /\ IF status[o] = "PAID" THEN CallbackEnds(c) ELSE CallbackGoes(c, "note", o)
  /\ UNCHANGED <<table, coins, coinsOpen, asking, starting, clerk, captured, history, restarted>>

(* The gateway's code is kept for the organiser.                           *)
CallbackNotesFailedOnly(c, o) ==
  /\ CallbackAt(c, "note", o)
  /\ refId' = IF status[o] = "FAILED" THEN [refId EXCEPT ![o] = "gateway"] ELSE refId
  /\ CallbackEnds(c)
  /\ UNCHANGED <<status, authority, coins, coinsOpen, asking, starting, clerk, captured, history, restarted>>

CallbackNotes(c, o) ==
  /\ CallbackAt(c, "note", o)
  /\ refId' = IF status[o] # "PAID" THEN [refId EXCEPT ![o] = "gateway"] ELSE refId
  /\ CallbackEnds(c)
  /\ UNCHANGED <<status, authority, coins, coinsOpen, asking, starting, clerk, captured, history, restarted>>
--------------------------------------------------------------------------------
(* cancelCoinOrder and the organiser's tools                               *)

CancelOrder(o) ==
  /\ status[o] = "PENDING"
  /\ SetStatus(o, "CANCELED")
  /\ UNCHANGED <<authority, refId, coins, coinsOpen, handlers, captured, history, restarted>>

AdminRejects(o) ==
  /\ status[o] = "PENDING"
  /\ SetStatus(o, "FAILED")
  /\ UNCHANGED <<authority, refId, coins, coinsOpen, handlers, captured, history, restarted>>

ClerkEnds(a) == clerk' = [clerk EXCEPT ![a] = IdleClerk]

AdminReadsAny(a, o) ==
  /\ clerk[a].at = "idle"
  /\ status[o] # "NONE"
  /\ clerk' = [clerk EXCEPT ![a] =
       [at |-> IF status[o] = "PENDING" THEN "mark" ELSE "reopen",
        order |-> o, status |-> status[o], refId |-> refId[o]]]
  /\ UNCHANGED <<table, coins, coinsOpen, asking, starting, callback, captured, history, restarted>>

(* adminMarkOrderPaid reads the order and refuses one that is PAID.        *)
AdminReads(a, o) ==
  /\ clerk[a].at = "idle"
  /\ status[o] \notin {"NONE", "PAID"}
  /\ clerk' = [clerk EXCEPT ![a] =
       [at |-> IF status[o] = "PENDING" THEN "mark" ELSE "reopen",
        order |-> o, status |-> status[o], refId |-> refId[o]]]
  /\ UNCHANGED <<table, coins, coinsOpen, asking, starting, callback, captured, history, restarted>>

AdminReopensUnchecked(a, o) ==
  /\ clerk[a].at = "reopen" /\ clerk[a].order = o
  /\ IF HasRoom(o)
     THEN SetStatus(o, "PENDING") /\ clerk' = [clerk EXCEPT ![a].at = "mark"]
     ELSE UNCHANGED status /\ ClerkEnds(a)
  /\ UNCHANGED <<authority, refId, coins, coinsOpen, asking, starting, callback, captured, history, restarted>>

(* An order that does not count in the cap is first reopened within it, if *)
(* it is still as it was read.                                             *)
AdminReopens(a, o) ==
  /\ clerk[a].at = "reopen" /\ clerk[a].order = o
  /\ IF HasRoom(o) /\ status[o] = clerk[a].status
     THEN SetStatus(o, "PENDING") /\ clerk' = [clerk EXCEPT ![a].at = "mark"]
     ELSE UNCHANGED status /\ ClerkEnds(a)
  /\ UNCHANGED <<authority, refId, coins, coinsOpen, asking, starting, callback, captured, history, restarted>>

AdminMarks(a, o) ==
  /\ clerk[a].at = "mark" /\ clerk[a].order = o
  /\ ClerkEnds(a)
  /\ IF status[o] = "PENDING"
     THEN MarkPaid(o, IF clerk[a].refId = "none" THEN "manual" ELSE clerk[a].refId, {"PENDING"})
     ELSE UNCHANGED <<status, refId, coins, late>>
  /\ UNCHANGED <<authority, coinsOpen, asking, starting, callback, captured, overwritten, restarted>>
--------------------------------------------------------------------------------
(* Around it: the gateway takes the money of a user who got its address,   *)
(* the organiser opens and closes the sale, the process restarts.          *)

GatewayCaptures(o) ==
  /\ o \in authority \ captured
  /\ captured' = captured \cup {o}
  /\ UNCHANGED <<table, coins, coinsOpen, handlers, history, restarted>>

SetCoins(open) ==
  /\ "close" \in Faults
  /\ coinsOpen # open
  /\ coinsOpen' = open
  /\ UNCHANGED <<table, coins, handlers, captured, history, restarted>>

Restart ==
  /\ "restart" \in Faults
  /\ ~restarted
  /\ restarted' = TRUE
  /\ asking' = {} /\ starting' = {}
  /\ callback' = [c \in Callbacks |-> IdleCallback]
  /\ clerk' = [a \in Clerks |-> IdleClerk]
  /\ UNCHANGED <<table, coins, coinsOpen, captured, history>>

Next ==
  \/ \E o \in Orders :
       \/ PassCoinsGate(o) \/ CreateOrder(o) \/ DriverStarted(o) \/ StartFails(o)
       \/ CancelOrder(o) \/ AdminRejects(o) \/ GatewayCaptures(o)
  \/ \E c \in Callbacks, o \in Orders :
       \/ CallbackReads(c, o) \/ GatewayRefuses(c, o) \/ VerifyThrows(c, o)
       \/ GatewayConfirms(c, o) \/ CallbackCredits(c, o) \/ CallbackFindsItTaken(c, o)
       \/ CallbackRereads(c, o) \/ CallbackNotes(c, o)
  \/ \E a \in Clerks, o \in Orders :
       AdminReads(a, o) \/ AdminReopens(a, o) \/ AdminMarks(a, o)
  \/ \E open \in BOOLEAN : SetCoins(open)
  \/ Restart

Spec == Init /\ [][Next]_vars

(* A callback that the gateway has answered runs to its end.               *)
Fairness ==
  \A c \in Callbacks, o \in Orders :
    WF_vars(CallbackCredits(c, o) \/ CallbackFindsItTaken(c, o)
            \/ CallbackRereads(c, o) \/ CallbackNotes(c, o))

FairSpec == Spec /\ Fairness
--------------------------------------------------------------------------------
(* Properties *)

(* "The coins are added to the wallet once" (coins.ts:6): a repeated       *)
(* callback, the organiser and a cancellation never credit an order twice; *)
(* only an order whose failing start erased PAID may be credited again.    *)
CreditedOnce == \A o \in Orders : credits[o] <= 1 \/ o \in overwritten

(* A PAID order has been credited, and a credited order is PAID.           *)
PaidIsCredited ==
  \A o \in Orders :
    /\ status[o] = "PAID" => credits[o] > 0
    /\ credits[o] > 0 => status[o] = "PAID" \/ o \in overwritten

(* So the orders tell what was credited, and how often.                    *)
PaymentsBooked == CreditedOnce /\ PaidIsCredited

(* What counts in a user's cap stays under it, however orders are created, *)
(* reopened and answered at once, but for orders canceled during their     *)
(* verification and credited after all.                                    *)
RoomKept ==
  \A u \in Users : CoinsOf(OrdersOf(u, {"PAID", "PENDING"}) \ late) <= MaxBought

(* What a user has bought exceeds the cap by no more than the orders that  *)
(* were credited after they had been canceled, unless a failing start      *)
(* erased a PAID of the user.                                              *)
ExcessIsLate ==
  \A u \in Users :
    (\A o \in overwritten : Owner[o] # u)
      => posted[u] <= MaxBought + CoinsOf({o \in late : Owner[o] = u})

(* The cap of a user, for what counts in it and for what was credited.     *)
CapKept == RoomKept /\ ExcessIsLate

(* The books of the sale are those of the coin economy.                    *)
Accounts == INSTANCE CoinAccounts
ImplementsAccounts == Accounts!AccountsSpec

(* "The gateway's code is not lost" (coins.ts:222): a payment that the     *)
(* gateway has confirmed to the callback ends as a PAID order or leaves    *)
(* the gateway's code on the order, whoever changed it meanwhile.          *)
ConfirmedIsKept ==
  \A c \in Callbacks, o \in Orders :
    CallbackAt(c, "confirmed", o)
      ~> (status[o] = "PAID" \/ refId[o] = "gateway" \/ restarted)

(* "The cap of each user ... counts paid and pending orders" (docs/ops.md: *)
(* 271): nobody is credited more than max_bought_coins_per_user.           *)
BoughtWithinCap == \A u \in Users : posted[u] <= MaxBought
================================================================================
