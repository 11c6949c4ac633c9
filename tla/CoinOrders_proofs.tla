--------------------------- MODULE CoinOrders_proofs ---------------------------
(* Buying coins, for any number of users, orders, callbacks and organisers. *)
EXTENDS CoinOrders, SetSums, TLAPS

(* What the state of an order says about its creation and its credits.     *)
AskedFirst == \A o \in asking : status[o] = "NONE"
StartedLater == \A o \in starting : status[o] # "NONE"

SaleInv == AskedFirst /\ StartedLater /\ PaidIsCredited /\ CreditedOnce

(* What markPaidAndCredit does to the types.                               *)
LEMMA MarkPaidTypes ==
  ASSUME TypeOK, NEW o \in Orders, NEW code \in RefIds, NEW from, MarkPaid(o, code, from)
  PROVE  /\ status' \in [Orders -> Statuses] /\ refId' \in [Orders -> RefIds]
         /\ wallet' \in [Users -> Nat] /\ posted' \in [Users -> Nat]
         /\ credits' \in [Orders -> Nat] /\ late' \subseteq Orders
<1>1. Owner[o] \in Users /\ Coins[o] \in Nat
  BY OrderAssumption
<1>2. status' \in [Orders -> Statuses] /\ refId' \in [Orders -> RefIds]
  BY DEF TypeOK, MarkPaid, SetStatus, Statuses
<1>3. wallet' \in [Users -> Nat] /\ posted' \in [Users -> Nat]
  BY <1>1 DEF TypeOK, MarkPaid, Credit
<1>4. credits' \in [Orders -> Nat]
  BY DEF TypeOK, MarkPaid, Credit
<1>5. late' \subseteq Orders
  BY DEF TypeOK, MarkPaid
<1> QED BY <1>2, <1>3, <1>4, <1>5

(* One kind of handler moves on: the callbacks keep their type.            *)
LEMMA CallbackTypes ==
  ASSUME TypeOK, NEW c \in Callbacks, NEW o \in Orders, NEW at,
         CallbackEnds(c) \/ (at \in {"gateway", "confirmed", "reread", "note"}
                             /\ CallbackGoes(c, at, o))
  PROVE  callback' \in [Callbacks -> {IdleCallback} \cup
           [at : {"gateway", "confirmed", "reread", "note"}, order : Orders]]
  BY DEF TypeOK, CallbackEnds, CallbackGoes

LEMMA TypeOKNext == TypeOK /\ [Next]_vars => TypeOK'
<1> SUFFICES ASSUME TypeOK, [Next]_vars PROVE TypeOK'
  OBVIOUS
<1> USE DEF table, coins, handlers, history
<1>1. ASSUME NEW o \in Orders, PassCoinsGate(o) PROVE TypeOK'
  BY <1>1 DEF TypeOK, PassCoinsGate
<1>2. ASSUME NEW o \in Orders, CreateOrder(o) PROVE TypeOK'
  BY <1>2 DEF TypeOK, CreateOrder, SetStatus, Statuses
<1>3. ASSUME NEW o \in Orders, DriverStarted(o) PROVE TypeOK'
  BY <1>3 DEF TypeOK, DriverStarted
<1>4. ASSUME NEW o \in Orders, StartFails(o) PROVE TypeOK'
  BY <1>4 DEF TypeOK, StartFails, SetStatus, Statuses
<1>5. ASSUME NEW o \in Orders, CancelOrder(o) \/ AdminRejects(o) PROVE TypeOK'
  BY <1>5 DEF TypeOK, CancelOrder, AdminRejects, SetStatus, Statuses
<1>6. ASSUME NEW o \in Orders, GatewayCaptures(o) PROVE TypeOK'
  BY <1>6 DEF TypeOK, GatewayCaptures
<1>7. ASSUME NEW c \in Callbacks, NEW o \in Orders,
             CallbackReads(c, o) \/ GatewayRefuses(c, o) \/ VerifyThrows(c, o)
             \/ GatewayConfirms(c, o) \/ CallbackFindsItTaken(c, o)
             \/ CallbackRereads(c, o) \/ CallbackNotes(c, o)
      PROVE  TypeOK'
  <2>1. callback' \in [Callbacks -> {IdleCallback} \cup
          [at : {"gateway", "confirmed", "reread", "note"}, order : Orders]]
    BY <1>7, CallbackTypes
       DEF CallbackReads, GatewayRefuses, VerifyThrows, GatewayConfirms,
           CallbackFindsItTaken, CallbackRereads, CallbackNotes
  <2>2. /\ status' \in [Orders -> Statuses] /\ refId' \in [Orders -> RefIds]
        /\ UNCHANGED <<authority, coins, coinsOpen, asking, starting, clerk,
                       captured, history, restarted>>
    BY <1>7 DEF TypeOK, Statuses, RefIds, CallbackReads, GatewayRefuses, VerifyThrows,
           GatewayConfirms, CallbackFindsItTaken, CallbackRereads, CallbackNotes
  <2> QED BY <2>1, <2>2 DEF TypeOK
<1>8. ASSUME NEW c \in Callbacks, NEW o \in Orders, CallbackCredits(c, o) PROVE TypeOK'
  <2>1. callback' \in [Callbacks -> {IdleCallback} \cup
          [at : {"gateway", "confirmed", "reread", "note"}, order : Orders]]
    BY <1>8, CallbackTypes DEF CallbackCredits
  <2>2. /\ status' \in [Orders -> Statuses] /\ refId' \in [Orders -> RefIds]
        /\ wallet' \in [Users -> Nat] /\ posted' \in [Users -> Nat]
        /\ credits' \in [Orders -> Nat] /\ late' \subseteq Orders
    BY <1>8, MarkPaidTypes DEF CallbackCredits, RefIds
  <2> QED BY <1>8, <2>1, <2>2 DEF TypeOK, CallbackCredits
<1>9. ASSUME NEW a \in Clerks, NEW o \in Orders, AdminReads(a, o) PROVE TypeOK'
  BY <1>9 DEF TypeOK, AdminReads
<1>10. ASSUME NEW a \in Clerks, NEW o \in Orders, AdminReopens(a, o) PROVE TypeOK'
  <2>1. clerk[a] \in [at : {"reopen", "mark"}, order : Orders,
                      status : Statuses \ {"NONE", "PAID"}, refId : RefIds]
    BY <1>10 DEF AdminReopens, TypeOK, IdleClerk
  <2>2. clerk' \in [Clerks -> {IdleClerk} \cup
          [at : {"reopen", "mark"}, order : Orders,
           status : Statuses \ {"NONE", "PAID"}, refId : RefIds]]
    BY <1>10, <2>1 DEF AdminReopens, ClerkEnds, TypeOK
  <2>3. status' \in [Orders -> Statuses]
    BY <1>10 DEF AdminReopens, SetStatus, TypeOK, Statuses
  <2> QED BY <1>10, <2>2, <2>3 DEF TypeOK, AdminReopens
<1>11. ASSUME NEW a \in Clerks, NEW o \in Orders, AdminMarks(a, o) PROVE TypeOK'
  <2>1. clerk[a].refId \in RefIds
    BY <1>11 DEF AdminMarks, TypeOK, IdleClerk
  <2>2. clerk' \in [Clerks -> {IdleClerk} \cup
          [at : {"reopen", "mark"}, order : Orders,
           status : Statuses \ {"NONE", "PAID"}, refId : RefIds]]
    BY <1>11 DEF AdminMarks, ClerkEnds, TypeOK
  <2>3. /\ status' \in [Orders -> Statuses] /\ refId' \in [Orders -> RefIds]
        /\ wallet' \in [Users -> Nat] /\ posted' \in [Users -> Nat]
        /\ credits' \in [Orders -> Nat] /\ late' \subseteq Orders
    <3>1. CASE status[o] = "PENDING"
      <4> DEFINE code == IF clerk[a].refId = "none" THEN "manual" ELSE clerk[a].refId
      <4>1. code \in RefIds
        BY <2>1 DEF RefIds
      <4>2. MarkPaid(o, code, {"PENDING"})
        BY <1>11, <3>1 DEF AdminMarks
      <4> QED BY <4>1, <4>2, MarkPaidTypes
    <3>2. CASE status[o] # "PENDING"
      BY <1>11, <3>2 DEF AdminMarks, TypeOK
    <3> QED BY <3>1, <3>2
  <2> QED BY <1>11, <2>2, <2>3 DEF TypeOK, AdminMarks
<1>12. ASSUME NEW open \in BOOLEAN, SetCoins(open) PROVE TypeOK'
  BY <1>12 DEF TypeOK, SetCoins
<1>13. CASE Restart
  BY <1>13 DEF TypeOK, Restart
<1>14. CASE UNCHANGED vars
  BY <1>14 DEF TypeOK, vars
<1> QED BY <1>1, <1>2, <1>3, <1>4, <1>5, <1>6, <1>7, <1>8, <1>9, <1>10, <1>11,
           <1>12, <1>13, <1>14 DEF Next

(* The types of the sale, for any number of orders and requests.           *)
THEOREM SaleTypeCorrect == Spec => []TypeOK
<1>1. Init => TypeOK
  <2> SUFFICES ASSUME Init PROVE TypeOK
    OBVIOUS
  <2>1. /\ status \in [Orders -> Statuses] /\ refId \in [Orders -> RefIds]
        /\ wallet \in [Users -> Nat] /\ posted \in [Users -> Nat]
        /\ credits \in [Orders -> Nat]
    BY OrderAssumption DEF Init, Statuses, RefIds
  <2>2. callback \in [Callbacks -> {IdleCallback}] /\ clerk \in [Clerks -> {IdleClerk}]
    BY DEF Init
  <2> QED BY <2>1, <2>2 DEF Init, TypeOK
<1> QED BY <1>1, TypeOKNext, PTL DEF Spec

(* A step that only takes orders from one unpaid state to another.         *)
LEMMA UnpaidSteps ==
  ASSUME TypeOK, SaleInv, NEW o \in Orders,
         NEW s \in {"PENDING", "FAILED", "CANCELED"},
         status[o] # "PAID", status[o] # "NONE", SetStatus(o, s),
         UNCHANGED <<credits, asking, starting, overwritten>>
  PROVE  SaleInv'
<1>1. AskedFirst' /\ StartedLater'
  BY DEF TypeOK, SaleInv, AskedFirst, StartedLater, SetStatus
<1>2. PaidIsCredited' /\ CreditedOnce'
  BY DEF TypeOK, SaleInv, PaidIsCredited, CreditedOnce, SetStatus
<1> QED BY <1>1, <1>2 DEF SaleInv

(* A step that leaves the orders and their credits alone.                  *)
LEMMA IdleSteps ==
  ASSUME SaleInv, UNCHANGED <<status, credits, overwritten>>,
         \A o \in asking' \ asking : status[o] = "NONE",
         \A o \in starting' \ starting : status[o] # "NONE"
  PROVE  SaleInv'
  BY DEF SaleInv, AskedFirst, StartedLater, PaidIsCredited, CreditedOnce

(* A payment credits an order that had no credit, unless it was overwritten. *)
LEMMA MarkPaidStep ==
  ASSUME TypeOK, SaleInv, NEW o \in Orders, NEW code,
         NEW from \in SUBSET {"PENDING", "CANCELED"},
         MarkPaid(o, code, from), UNCHANGED <<asking, starting, overwritten>>
  PROVE  SaleInv'
<1>1. /\ status[o] \in {"PENDING", "CANCELED"}
      /\ status' = [status EXCEPT ![o] = "PAID"]
      /\ credits' = [credits EXCEPT ![o] = @ + 1]
  BY DEF MarkPaid, SetStatus, Credit
<1>2. credits \in [Orders -> Nat] /\ status \in [Orders -> Statuses]
  BY DEF TypeOK
<1>3. AskedFirst' /\ StartedLater'
  BY <1>1, <1>2 DEF SaleInv, AskedFirst, StartedLater
<1>4. ASSUME NEW q \in Orders, q # o
      PROVE  status'[q] = status[q] /\ credits'[q] = credits[q]
  BY <1>1, <1>2, <1>4
<1>5. /\ status'[o] = "PAID" /\ credits'[o] = credits[o] + 1
      /\ credits[o] = 0 \/ o \in overwritten
  BY <1>1, <1>2 DEF SaleInv, PaidIsCredited
<1>6. PaidIsCredited'
  BY <1>2, <1>4, <1>5 DEF SaleInv, PaidIsCredited
<1>7. CreditedOnce'
  BY <1>2, <1>4, <1>5 DEF SaleInv, CreditedOnce
<1> QED BY <1>3, <1>6, <1>7 DEF SaleInv

LEMMA SaleInvNext == TypeOK /\ SaleInv /\ [Next]_vars => SaleInv'
<1> SUFFICES ASSUME TypeOK, SaleInv, [Next]_vars PROVE SaleInv'
  OBVIOUS
<1> USE DEF table, coins, handlers, history
<1>1. ASSUME NEW o \in Orders, PassCoinsGate(o) PROVE SaleInv'
  BY <1>1, IdleSteps DEF PassCoinsGate
<1>2. ASSUME NEW o \in Orders, CreateOrder(o) PROVE SaleInv'
  <2>1. status[o] = "NONE"
    BY <1>2 DEF CreateOrder, SaleInv, AskedFirst
  <2>2. CASE SetStatus(o, "PENDING") /\ starting' = starting \cup {o}
    <3>1. AskedFirst' /\ StartedLater'
      BY <1>2, <2>2 DEF CreateOrder, SetStatus, TypeOK, SaleInv, AskedFirst, StartedLater
    <3>2. PaidIsCredited' /\ CreditedOnce'
      BY <1>2, <2>1, <2>2
         DEF CreateOrder, SetStatus, TypeOK, SaleInv, PaidIsCredited, CreditedOnce
    <3> QED BY <3>1, <3>2 DEF SaleInv
  <2>3. CASE UNCHANGED <<status, starting>>
    BY <1>2, <2>3, IdleSteps DEF CreateOrder
  <2> QED BY <1>2, <2>2, <2>3 DEF CreateOrder
<1>3. ASSUME NEW o \in Orders, DriverStarted(o) PROVE SaleInv'
  BY <1>3, IdleSteps DEF DriverStarted
<1>4. ASSUME NEW o \in Orders, StartFails(o) PROVE SaleInv'
  <2>1. AskedFirst' /\ StartedLater'
    BY <1>4 DEF StartFails, SetStatus, TypeOK, SaleInv, AskedFirst, StartedLater
  <2>2. PaidIsCredited' /\ CreditedOnce'
    BY <1>4 DEF StartFails, SetStatus, TypeOK, SaleInv, PaidIsCredited, CreditedOnce
  <2> QED BY <2>1, <2>2 DEF SaleInv
<1>5. ASSUME NEW o \in Orders, CancelOrder(o) \/ AdminRejects(o) PROVE SaleInv'
  BY <1>5, UnpaidSteps DEF CancelOrder, AdminRejects
<1>6. ASSUME NEW o \in Orders, GatewayCaptures(o) PROVE SaleInv'
  BY <1>6, IdleSteps DEF GatewayCaptures
<1>7. ASSUME NEW c \in Callbacks, NEW o \in Orders,
             CallbackReads(c, o) \/ VerifyThrows(c, o) \/ GatewayConfirms(c, o)
             \/ CallbackFindsItTaken(c, o) \/ CallbackRereads(c, o) \/ CallbackNotes(c, o)
      PROVE  SaleInv'
  BY <1>7, IdleSteps DEF CallbackReads, VerifyThrows, GatewayConfirms,
     CallbackFindsItTaken, CallbackRereads, CallbackNotes
<1>8. ASSUME NEW c \in Callbacks, NEW o \in Orders, GatewayRefuses(c, o) PROVE SaleInv'
  <2>1. CASE status[o] = "PENDING"
    BY <1>8, <2>1, UnpaidSteps DEF GatewayRefuses, SetStatus
  <2>2. CASE status[o] # "PENDING"
    BY <1>8, <2>2, IdleSteps DEF GatewayRefuses
  <2> QED BY <2>1, <2>2
<1>9. ASSUME NEW c \in Callbacks, NEW o \in Orders, CallbackCredits(c, o) PROVE SaleInv'
  BY <1>9, MarkPaidStep DEF CallbackCredits
<1>10. ASSUME NEW a \in Clerks, NEW o \in Orders, AdminReads(a, o) PROVE SaleInv'
  BY <1>10, IdleSteps DEF AdminReads
<1>11. ASSUME NEW a \in Clerks, NEW o \in Orders, AdminReopens(a, o) PROVE SaleInv'
  <2>1. clerk[a].status \in Statuses \ {"NONE", "PAID"}
    BY <1>11 DEF AdminReopens, TypeOK, IdleClerk
  <2>2. CASE SetStatus(o, "PENDING") /\ status[o] = clerk[a].status
    BY <1>11, <2>1, <2>2, UnpaidSteps DEF AdminReopens
  <2>3. CASE UNCHANGED status
    BY <1>11, <2>3, IdleSteps DEF AdminReopens
  <2> QED BY <1>11, <2>2, <2>3 DEF AdminReopens
<1>12. ASSUME NEW a \in Clerks, NEW o \in Orders, AdminMarks(a, o) PROVE SaleInv'
  <2>1. CASE status[o] = "PENDING"
    BY <1>12, <2>1, MarkPaidStep DEF AdminMarks
  <2>2. CASE status[o] # "PENDING"
    BY <1>12, <2>2, IdleSteps DEF AdminMarks
  <2> QED BY <2>1, <2>2
<1>13. ASSUME NEW open \in BOOLEAN, SetCoins(open) PROVE SaleInv'
  BY <1>13, IdleSteps DEF SetCoins
<1>14. CASE Restart
  BY <1>14, IdleSteps DEF Restart
<1>15. CASE UNCHANGED vars
  BY <1>15, IdleSteps DEF vars
<1> QED BY <1>1, <1>2, <1>3, <1>4, <1>5, <1>6, <1>7, <1>8, <1>9, <1>10, <1>11,
           <1>12, <1>13, <1>14, <1>15 DEF Next

LEMMA SaleAlwaysInv == Spec => []SaleInv
<1>1. Init => SaleInv
  BY DEF Init, SaleInv, AskedFirst, StartedLater, PaidIsCredited, CreditedOnce
<1> QED BY <1>1, SaleInvNext, SaleTypeCorrect, PTL DEF Spec

(* However often and by whomever an order is reported paid, it is credited *)
(* once, unless a failing start erased its PAID.                           *)
THEOREM AlwaysCreditedOnce == Spec => []CreditedOnce
<1>1. SaleInv => CreditedOnce
  BY DEF SaleInv
<1> QED BY <1>1, SaleAlwaysInv, PTL

(* PAID orders are the credited ones, but for those.                       *)
THEOREM PaidAlwaysCredited == Spec => []PaidIsCredited
<1>1. SaleInv => PaidIsCredited
  BY DEF SaleInv
<1> QED BY <1>1, SaleAlwaysInv, PTL

(* So the orders tell what was credited, and how often.                    *)
THEOREM PaymentsAlwaysBooked == Spec => []PaymentsBooked
<1>1. SaleInv => PaymentsBooked
  BY DEF SaleInv, PaymentsBooked
<1> QED BY <1>1, SaleAlwaysInv, PTL

(* The cap: an order that is not yet made counts for nobody, and the orders *)
(* that were made are finitely many, so that their coins have a sum.        *)
Made == {o \in Orders : status[o] # "NONE"}
Counted(u) == OrdersOf(u, {"PAID", "PENDING"}) \ late

CapInv == IsFiniteSet(Made) /\ RoomKept /\ late \subseteq Made

LEMMA CoinsOfIsSum == ASSUME NEW S PROVE CoinsOf(S) = SumOf(Coins, S)
  BY DEF CoinsOf, SumOf

LEMMA CountedIsMade ==
  ASSUME IsFiniteSet(Made), NEW u \in Users
  PROVE  /\ IsFiniteSet(Counted(u)) /\ IsFiniteSet(OrdersOf(u, {"PAID", "PENDING"}))
         /\ Counted(u) \subseteq Orders
<1>1. /\ OrdersOf(u, {"PAID", "PENDING"}) \subseteq Made
      /\ Counted(u) \subseteq Made /\ Made \subseteq Orders
  BY DEF OrdersOf, Made, Counted
<1> QED BY <1>1, FS_Subset

(* Fewer orders that count never have more coins.                          *)
LEMMA FewerCoins ==
  ASSUME NEW S, IsFiniteSet(S), S \subseteq Orders, NEW T \in SUBSET S
  PROVE  CoinsOf(T) <= CoinsOf(S) /\ CoinsOf(T) \in Nat /\ CoinsOf(S) \in Nat
<1>1. \A o \in S : Coins[o] \in Nat
  BY OrderAssumption
<1>2. IsFiniteSet(T)
  BY FS_Subset
<1> QED BY <1>1, <1>2, SumGrows, SumIsNat, CoinsOfIsSum

(* A step after which no more orders count keeps the cap.                  *)
LEMMA CapFrame ==
  ASSUME CapInv, Made' \subseteq Made, late' \subseteq Made',
         \A u \in Users : Counted(u)' \subseteq Counted(u)
  PROVE  CapInv'
<1>1. IsFiniteSet(Made')
  BY FS_Subset DEF CapInv
<1>2. ASSUME NEW u \in Users PROVE CoinsOf(Counted(u)') <= MaxBought
  <2>1. CoinsOf(Counted(u)) <= MaxBought
    BY DEF CapInv, RoomKept, Counted
  <2>2. IsFiniteSet(Counted(u)) /\ Counted(u) \subseteq Orders
    BY CountedIsMade DEF CapInv
  <2>3. PICK S : S = Counted(u)
    OBVIOUS
  <2>4. PICK T : T = Counted(u)'
    OBVIOUS
  <2>5. T \in SUBSET S
    BY <2>3, <2>4
  <2>6. CoinsOf(T) <= CoinsOf(S) /\ CoinsOf(T) \in Nat /\ CoinsOf(S) \in Nat
    BY <2>2, <2>3, <2>5, FewerCoins
  <2> QED BY <2>1, <2>3, <2>4, <2>6, OrderAssumption
<1> QED BY <1>1, <1>2 DEF CapInv, RoomKept, Counted

(* An order that finds room is made PENDING within it.                     *)
LEMMA CapRoom ==
  ASSUME TypeOK, CapInv, NEW o \in Orders, HasRoom(o), SetStatus(o, "PENDING"), UNCHANGED late
  PROVE  CapInv'
<1>1. Made' = Made \cup {o}
  BY DEF TypeOK, Made, SetStatus
<1>2. IsFiniteSet(Made')
  BY <1>1, FS_AddElement DEF CapInv
<1>3. ASSUME NEW u \in Users, u # Owner[o] PROVE CoinsOf(Counted(u)') <= MaxBought
  <2>1. Counted(u)' = Counted(u)
    BY <1>3 DEF TypeOK, Counted, OrdersOf, SetStatus
  <2> QED BY <2>1 DEF CapInv, RoomKept, Counted
<1>4. CoinsOf(Counted(Owner[o])') <= MaxBought
  <2>1. PICK S : S = OrdersOf(Owner[o], {"PAID", "PENDING"})
    OBVIOUS
  <2>2. PICK T : T = Counted(Owner[o])'
    OBVIOUS
  <2>3. IsFiniteSet(S) /\ S \subseteq Orders /\ Owner[o] \in Users /\ Coins[o] \in Nat
    BY <2>1, CountedIsMade, OrderAssumption DEF CapInv, OrdersOf
  <2>4. IsFiniteSet(S \cup {o}) /\ S \cup {o} \subseteq Orders
    BY <2>3, FS_AddElement
  <2>5. T \subseteq S \cup {o}
    BY <2>1, <2>2 DEF TypeOK, Counted, OrdersOf, SetStatus
  <2>6. CoinsOf(T) <= CoinsOf(S \cup {o}) /\ CoinsOf(T) \in Nat /\ CoinsOf(S \cup {o}) \in Nat
    BY <2>4, <2>5, FewerCoins
  <2>7. CoinsOf(S \cup {o}) <= CoinsOf(S) + Coins[o] /\ CoinsOf(S) \in Nat
    <3>1. CoinsOf(S) \in Nat
      BY <2>3, FewerCoins
    <3>2. CASE o \in S
      <4>1. PICK W : W = S \cup {o}
        OBVIOUS
      <4>2. W = S
        BY <3>2, <4>1
      <4> QED BY <2>3, <3>1, <4>1, <4>2
    <3>3. CASE o \notin S
      <4>1. \A q \in S \cup {o} : Coins[q] \in Int
        BY <2>4, OrderAssumption
      <4>2. SumOf(Coins, S \cup {o}) = Coins[o] + SumOf(Coins, S)
        BY <2>3, <3>3, <4>1, SumAdd
      <4> QED BY <2>3, <3>1, <4>2, CoinsOfIsSum
    <3> QED BY <3>1, <3>2, <3>3
  <2>8. CoinsOf(S) + Coins[o] <= MaxBought
    BY <2>1 DEF HasRoom
  <2> QED BY <2>2, <2>3, <2>6, <2>7, <2>8, OrderAssumption
<1>5. Owner[o] \in Users
  BY OrderAssumption
<1>6. late' \subseteq Made'
  BY <1>1 DEF CapInv
<1> QED BY <1>2, <1>3, <1>4, <1>5, <1>6 DEF CapInv, RoomKept, Counted

(* An order that is credited counted already, or is one of the late ones.  *)
LEMMA CapPaid ==
  ASSUME TypeOK, CapInv, NEW o \in Orders, NEW code,
         NEW from \in SUBSET {"PENDING", "CANCELED"}, MarkPaid(o, code, from)
  PROVE  CapInv'
<1>1. /\ status[o] \in {"PENDING", "CANCELED"}
      /\ status' = [status EXCEPT ![o] = "PAID"]
      /\ late' = IF status[o] = "CANCELED" THEN late \cup {o} ELSE late
  BY DEF MarkPaid, SetStatus
<1>2. Made' = Made
  BY <1>1 DEF TypeOK, Made
<1>3. ASSUME NEW u \in Users PROVE Counted(u)' \subseteq Counted(u)
  BY <1>1 DEF TypeOK, Counted, OrdersOf
<1>4. late' \subseteq Made
  BY <1>1 DEF CapInv, Made
<1> QED BY <1>2, <1>3, <1>4, CapFrame

(* An order that leaves the cap.                                           *)
LEMMA CapLeft ==
  ASSUME TypeOK, CapInv, NEW o \in Orders, status[o] # "NONE",
         NEW s \in {"FAILED", "CANCELED"}, SetStatus(o, s), UNCHANGED late
  PROVE  CapInv'
<1>1. Made' = Made
  BY DEF TypeOK, Made, SetStatus
<1>2. ASSUME NEW u \in Users PROVE Counted(u)' \subseteq Counted(u)
  BY DEF TypeOK, Counted, OrdersOf, SetStatus
<1> QED BY <1>1, <1>2, CapFrame DEF CapInv

LEMMA CapSame == ASSUME CapInv, UNCHANGED <<status, late>> PROVE CapInv'
<1>1. Made' = Made /\ \A u \in Users : Counted(u)' = Counted(u)
  BY DEF Made, Counted, OrdersOf
<1> QED BY <1>1, CapFrame DEF CapInv

LEMMA CapInvNext == TypeOK /\ SaleInv /\ CapInv /\ [Next]_vars => CapInv'
<1> SUFFICES ASSUME TypeOK, SaleInv, CapInv, [Next]_vars PROVE CapInv'
  OBVIOUS
<1> USE DEF table, history
<1>1. ASSUME NEW o \in Orders, CreateOrder(o) PROVE CapInv'
  BY <1>1, CapRoom, CapSame DEF CreateOrder
<1>2. ASSUME NEW o \in Orders, StartFails(o) PROVE CapInv'
  <2>1. status[o] # "NONE"
    BY <1>2 DEF StartFails, SaleInv, StartedLater
  <2> QED BY <1>2, <2>1, CapLeft DEF StartFails
<1>3. ASSUME NEW o \in Orders, CancelOrder(o) \/ AdminRejects(o) PROVE CapInv'
  BY <1>3, CapLeft DEF CancelOrder, AdminRejects
<1>4. ASSUME NEW o \in Orders,
             PassCoinsGate(o) \/ DriverStarted(o) \/ GatewayCaptures(o)
      PROVE  CapInv'
  BY <1>4, CapSame DEF PassCoinsGate, DriverStarted, GatewayCaptures
<1>5. ASSUME NEW c \in Callbacks, NEW o \in Orders,
             CallbackReads(c, o) \/ VerifyThrows(c, o) \/ GatewayConfirms(c, o)
             \/ CallbackFindsItTaken(c, o) \/ CallbackRereads(c, o) \/ CallbackNotes(c, o)
      PROVE  CapInv'
  BY <1>5, CapSame DEF CallbackReads, VerifyThrows, GatewayConfirms,
     CallbackFindsItTaken, CallbackRereads, CallbackNotes
<1>6. ASSUME NEW c \in Callbacks, NEW o \in Orders, GatewayRefuses(c, o) PROVE CapInv'
  BY <1>6, CapLeft, CapSame DEF GatewayRefuses, SetStatus
<1>7. ASSUME NEW c \in Callbacks, NEW o \in Orders, CallbackCredits(c, o) PROVE CapInv'
  BY <1>7, CapPaid DEF CallbackCredits
<1>8. ASSUME NEW a \in Clerks, NEW o \in Orders, AdminReads(a, o) PROVE CapInv'
  BY <1>8, CapSame DEF AdminReads
<1>9. ASSUME NEW a \in Clerks, NEW o \in Orders, AdminReopens(a, o) PROVE CapInv'
  BY <1>9, CapRoom, CapSame DEF AdminReopens
<1>10. ASSUME NEW a \in Clerks, NEW o \in Orders, AdminMarks(a, o) PROVE CapInv'
  BY <1>10, CapPaid, CapSame DEF AdminMarks
<1>11. ASSUME Restart \/ (\E open \in BOOLEAN : SetCoins(open)) \/ UNCHANGED vars
       PROVE  CapInv'
  BY <1>11, CapSame DEF Restart, SetCoins, vars
<1> QED BY <1>1, <1>2, <1>3, <1>4, <1>5, <1>6, <1>7, <1>8, <1>9, <1>10, <1>11 DEF Next

(* What was posted to a user are the PAID orders, unless one was erased.   *)
PaidOf(u) == OrdersOf(u, {"PAID"})
Erased(u) == \E o \in overwritten : Owner[o] = u
PostedIsPaid == \A u \in Users : ~Erased(u) => posted[u] = CoinsOf(PaidOf(u))

(* A step that pays nothing and erases no PAID unnoticed.                  *)
LEMMA PostedFrame ==
  ASSUME PostedIsPaid, UNCHANGED posted, overwritten \subseteq overwritten',
         \A u \in Users : ~Erased(u)' => PaidOf(u)' = PaidOf(u)
  PROVE  PostedIsPaid'
<1>1. \A u \in Users : Erased(u) => Erased(u)'
  BY DEF Erased
<1>2. ASSUME NEW u \in Users, ~Erased(u)' PROVE posted'[u] = CoinsOf(PaidOf(u)')
  <2>1. posted[u] = CoinsOf(PaidOf(u)) /\ PaidOf(u)' = PaidOf(u)
    BY <1>1, <1>2 DEF PostedIsPaid
  <2> QED BY <2>1
<1> QED BY <1>2 DEF PostedIsPaid

LEMMA PostedUnpaid ==
  ASSUME TypeOK, PostedIsPaid, NEW o \in Orders, status[o] # "PAID",
         NEW s \in {"PENDING", "FAILED", "CANCELED"}, SetStatus(o, s),
         UNCHANGED <<posted, overwritten>>
  PROVE  PostedIsPaid'
<1>1. \A u \in Users : PaidOf(u)' = PaidOf(u)
  BY DEF TypeOK, PaidOf, OrdersOf, SetStatus
<1> QED BY <1>1, PostedFrame

LEMMA PostedSame ==
  ASSUME PostedIsPaid, UNCHANGED <<status, posted, overwritten>> PROVE PostedIsPaid'
<1>1. \A u \in Users : PaidOf(u)' = PaidOf(u)
  BY DEF PaidOf, OrdersOf
<1> QED BY <1>1, PostedFrame

LEMMA PostedPaid ==
  ASSUME TypeOK, CapInv, PostedIsPaid, NEW o \in Orders, NEW code,
         NEW from \in SUBSET {"PENDING", "CANCELED"}, MarkPaid(o, code, from),
         UNCHANGED overwritten
  PROVE  PostedIsPaid'
<1>1. /\ status[o] # "PAID" /\ status' = [status EXCEPT ![o] = "PAID"]
      /\ posted' = [posted EXCEPT ![Owner[o]] = @ + Coins[o]]
      /\ posted \in [Users -> Nat] /\ Owner[o] \in Users
  BY OrderAssumption DEF MarkPaid, SetStatus, Credit, TypeOK
<1>2. ASSUME NEW u \in Users, ~Erased(u)', u # Owner[o] PROVE posted'[u] = CoinsOf(PaidOf(u)')
  <2>1. PaidOf(u)' = PaidOf(u) /\ posted'[u] = posted[u]
    BY <1>1, <1>2 DEF TypeOK, PaidOf, OrdersOf
  <2>2. ~Erased(u)
    BY <1>2 DEF Erased
  <2> QED BY <2>1, <2>2 DEF PostedIsPaid
<1>3. ASSUME ~Erased(Owner[o])' PROVE posted'[Owner[o]] = CoinsOf(PaidOf(Owner[o])')
  <2>1. PICK S : S = PaidOf(Owner[o])
    OBVIOUS
  <2>2. PaidOf(Owner[o])' = S \cup {o} /\ o \notin S
    BY <1>1, <2>1 DEF TypeOK, PaidOf, OrdersOf
  <2>3. IsFiniteSet(S) /\ S \subseteq Orders
    <3>1. S \subseteq Made /\ S \subseteq Orders
      BY <2>1 DEF PaidOf, OrdersOf, Made
    <3> QED BY <3>1, FS_Subset DEF CapInv
  <2>4. SumOf(Coins, S \cup {o}) = Coins[o] + SumOf(Coins, S)
    <3>1. \A q \in S \cup {o} : Coins[q] \in Int
      BY <2>3, OrderAssumption
    <3> QED BY <2>2, <2>3, <3>1, SumAdd
  <2>5. posted[Owner[o]] = CoinsOf(S) /\ CoinsOf(S) \in Nat /\ Coins[o] \in Nat
    <3>1. ~Erased(Owner[o])
      BY <1>3 DEF Erased
    <3> QED BY <1>1, <2>1, <2>3, <3>1, FewerCoins, OrderAssumption DEF PostedIsPaid
  <2>6. posted'[Owner[o]] = posted[Owner[o]] + Coins[o]
    BY <1>1
  <2> QED BY <2>2, <2>4, <2>5, <2>6, CoinsOfIsSum
<1> QED BY <1>2, <1>3 DEF PostedIsPaid

LEMMA PostedIsPaidNext ==
  TypeOK /\ SaleInv /\ CapInv /\ PostedIsPaid /\ [Next]_vars => PostedIsPaid'
<1> SUFFICES ASSUME TypeOK, SaleInv, CapInv, PostedIsPaid, [Next]_vars PROVE PostedIsPaid'
  OBVIOUS
<1> USE DEF table, coins, history
<1>1. ASSUME NEW o \in Orders, CreateOrder(o) PROVE PostedIsPaid'
  <2>1. status[o] # "PAID"
    BY <1>1 DEF CreateOrder, SaleInv, AskedFirst
  <2> QED BY <1>1, <2>1, PostedUnpaid, PostedSame DEF CreateOrder
<1>2. ASSUME NEW o \in Orders, StartFails(o) PROVE PostedIsPaid'
  <2>1. /\ overwritten \subseteq overwritten' /\ UNCHANGED posted
        /\ status[o] = "PAID" => o \in overwritten'
    BY <1>2 DEF StartFails
  <2>2. ASSUME NEW u \in Users, ~Erased(u)' PROVE PaidOf(u)' = PaidOf(u)
    <3>1. ~(status[o] = "PAID" /\ Owner[o] = u)
      BY <2>1, <2>2 DEF Erased
    <3> QED BY <1>2, <3>1 DEF StartFails, SetStatus, TypeOK, PaidOf, OrdersOf
  <2> QED BY <2>1, <2>2, PostedFrame
<1>3. ASSUME NEW o \in Orders, CancelOrder(o) \/ AdminRejects(o) PROVE PostedIsPaid'
  BY <1>3, PostedUnpaid DEF CancelOrder, AdminRejects
<1>4. ASSUME NEW o \in Orders,
             PassCoinsGate(o) \/ DriverStarted(o) \/ GatewayCaptures(o)
      PROVE  PostedIsPaid'
  BY <1>4, PostedSame DEF PassCoinsGate, DriverStarted, GatewayCaptures
<1>5. ASSUME NEW c \in Callbacks, NEW o \in Orders,
             CallbackReads(c, o) \/ VerifyThrows(c, o) \/ GatewayConfirms(c, o)
             \/ CallbackFindsItTaken(c, o) \/ CallbackRereads(c, o) \/ CallbackNotes(c, o)
      PROVE  PostedIsPaid'
  BY <1>5, PostedSame DEF CallbackReads, VerifyThrows, GatewayConfirms,
     CallbackFindsItTaken, CallbackRereads, CallbackNotes
<1>6. ASSUME NEW c \in Callbacks, NEW o \in Orders, GatewayRefuses(c, o) PROVE PostedIsPaid'
  BY <1>6, PostedUnpaid, PostedSame DEF GatewayRefuses, SetStatus
<1>7. ASSUME NEW c \in Callbacks, NEW o \in Orders, CallbackCredits(c, o) PROVE PostedIsPaid'
  BY <1>7, PostedPaid DEF CallbackCredits
<1>8. ASSUME NEW a \in Clerks, NEW o \in Orders, AdminReads(a, o) PROVE PostedIsPaid'
  BY <1>8, PostedSame DEF AdminReads
<1>9. ASSUME NEW a \in Clerks, NEW o \in Orders, AdminReopens(a, o) PROVE PostedIsPaid'
  <2>1. clerk[a].status # "PAID"
    BY <1>9 DEF AdminReopens, TypeOK, IdleClerk
  <2> QED BY <1>9, <2>1, PostedUnpaid, PostedSame DEF AdminReopens
<1>10. ASSUME NEW a \in Clerks, NEW o \in Orders, AdminMarks(a, o) PROVE PostedIsPaid'
  BY <1>10, PostedPaid, PostedSame DEF AdminMarks
<1>11. ASSUME Restart \/ (\E open \in BOOLEAN : SetCoins(open)) \/ UNCHANGED vars
       PROVE  PostedIsPaid'
  BY <1>11, PostedSame DEF Restart, SetCoins, vars
<1> QED BY <1>1, <1>2, <1>3, <1>4, <1>5, <1>6, <1>7, <1>8, <1>9, <1>10, <1>11 DEF Next

LEMMA CapInvInit == Init => CapInv /\ PostedIsPaid
<1> SUFFICES ASSUME Init PROVE CapInv /\ PostedIsPaid
  OBVIOUS
<1>1. /\ Made = {} /\ \A u \in Users : OrdersOf(u, {"PAID", "PENDING"}) \ late = {}
      /\ \A u \in Users : PaidOf(u) = {} /\ posted[u] = 0
  BY DEF Init, Made, OrdersOf, PaidOf
<1>2. CoinsOf({}) = 0 /\ MaxBought \in Nat
  BY SumEmpty, CoinsOfIsSum, OrderAssumption
<1>3. IsFiniteSet(Made)
  BY <1>1, FS_EmptySet
<1>4. RoomKept /\ late \subseteq Made
  BY <1>1, <1>2 DEF RoomKept, Init
<1>5. PostedIsPaid
  BY <1>1, <1>2 DEF PostedIsPaid
<1> QED BY <1>3, <1>4, <1>5 DEF CapInv

LEMMA SaleAlwaysCapped == Spec => [](TypeOK /\ CapInv /\ PostedIsPaid)
  BY CapInvInit, CapInvNext, PostedIsPaidNext, SaleTypeCorrect, SaleAlwaysInv, PTL DEF Spec

(* However orders are created, reopened and answered at once, what counts  *)
(* in a user's cap stays under it, but for orders credited after they were *)
(* canceled: each claim of room and the status it grants are one           *)
(* transaction, and a credit takes no more room than the order had.        *)
THEOREM RoomAlwaysKept == Spec => []RoomKept
<1>1. CapInv => RoomKept
  BY DEF CapInv
<1> QED BY <1>1, SaleAlwaysCapped, PTL

(* So nobody buys more than the cap and the canceled orders that were      *)
(* credited after all.                                                     *)
THEOREM ExcessAlwaysLate == Spec => []ExcessIsLate
<1>1. TypeOK /\ CapInv /\ PostedIsPaid => ExcessIsLate
  <2> SUFFICES ASSUME TypeOK, CapInv, PostedIsPaid, NEW u \in Users, ~Erased(u)
               PROVE  posted[u] <= MaxBought + CoinsOf({o \in late : Owner[o] = u})
    BY DEF ExcessIsLate, Erased
  <2>1. PICK P : P = PaidOf(u)
    OBVIOUS
  <2>2. PICK L : L = {o \in late : Owner[o] = u}
    OBVIOUS
  <2>3. PICK C : C = Counted(u)
    OBVIOUS
  <2>4. posted[u] = CoinsOf(P) /\ CoinsOf(C) <= MaxBought /\ MaxBought \in Nat
    BY <2>1, <2>3, OrderAssumption DEF PostedIsPaid, CapInv, RoomKept, Counted
  <2>5. /\ P \subseteq Orders /\ C \subseteq Orders /\ L \subseteq Orders
        /\ P \ L \subseteq C /\ P \cap L \subseteq L
    BY <2>1, <2>2, <2>3 DEF PaidOf, OrdersOf, Counted, TypeOK
  <2>6. IsFiniteSet(P) /\ IsFiniteSet(C)
    <3>1. P \subseteq Made
      BY <2>1 DEF PaidOf, OrdersOf, Made
    <3> QED BY <2>3, <3>1, FS_Subset, CountedIsMade DEF CapInv
  <2>7. PICK E : E = P \ L
    OBVIOUS
  <2>8. PICK B : B = P \cap L
    OBVIOUS
  <2>9. IsFiniteSet(E) /\ IsFiniteSet(B) /\ IsFiniteSet(L)
    <3>1. E \subseteq P /\ B \subseteq P /\ L \subseteq Made
      BY <2>2, <2>7, <2>8 DEF CapInv
    <3> QED BY <2>6, <3>1, FS_Subset DEF CapInv
  <2>10. CoinsOf(P) = CoinsOf(E) + CoinsOf(B)
    <3>1. E \cap B = {} /\ P = E \cup B /\ \A o \in E \cup B : Coins[o] \in Int
      BY <2>5, <2>7, <2>8, OrderAssumption
    <3>2. SumOf(Coins, E \cup B) = SumOf(Coins, E) + SumOf(Coins, B)
      BY <2>9, <3>1, SumDisjoint
    <3> QED BY <3>1, <3>2, CoinsOfIsSum
  <2>11. CoinsOf(E) <= CoinsOf(C) /\ CoinsOf(E) \in Nat /\ CoinsOf(C) \in Nat
    BY <2>5, <2>6, <2>7, FewerCoins
  <2>12. CoinsOf(B) <= CoinsOf(L) /\ CoinsOf(B) \in Nat /\ CoinsOf(L) \in Nat
    BY <2>5, <2>8, <2>9, FewerCoins
  <2> QED BY <2>2, <2>4, <2>10, <2>11, <2>12
<1> QED BY <1>1, SaleAlwaysCapped, PTL

(* The cap, for what counts in it and for what was credited.               *)
THEOREM CapAlwaysKept == Spec => []CapKept
<1>1. RoomKept /\ ExcessIsLate => CapKept
  BY DEF CapKept
<1> QED BY <1>1, RoomAlwaysKept, ExcessAlwaysLate, PTL

(* A credit is one booking of the coin economy.                            *)
LEMMA CreditBooks ==
  ASSUME TypeOK, NEW o \in Orders, Credit(o)
  PROVE  Accounts!Book
<1>1. /\ wallet' = [wallet EXCEPT ![Owner[o]] = @ + Coins[o]]
      /\ posted' = [posted EXCEPT ![Owner[o]] = @ + Coins[o]]
  BY DEF Credit
<1>2. /\ wallet \in [Users -> Nat] /\ posted \in [Users -> Nat]
      /\ Owner[o] \in Users /\ Coins[o] \in Nat
  BY OrderAssumption DEF TypeOK
<1>3. wallet' \in [Users -> Nat] /\ posted' \in [Users -> Int]
  BY <1>1, <1>2
<1>4. ASSUME NEW u \in Users PROVE wallet'[u] - wallet[u] = posted'[u] - posted[u]
  <2>1. CASE u = Owner[o]
    BY <1>1, <1>2, <2>1
  <2>2. CASE u # Owner[o]
    BY <1>1, <1>2, <2>2
  <2> QED BY <2>1, <2>2
<1> QED BY <1>3, <1>4 DEF Accounts!Book

(* The sale of coins implements the coin economy.                          *)
THEOREM SaleImplementsAccounts == Spec => ImplementsAccounts
<1>1. Init => Accounts!AccountsInit
  BY OrderAssumption DEF Init, Accounts!AccountsInit
<1>2. TypeOK /\ [Next]_vars => [Accounts!Book]_(Accounts!accountVars)
  <2> SUFFICES ASSUME TypeOK, [Next]_vars
               PROVE  Accounts!Book \/ UNCHANGED <<wallet, posted>>
    BY DEF Accounts!accountVars
  <2>1. ASSUME NEW c \in Callbacks, NEW o \in Orders, CallbackCredits(c, o)
        PROVE  Accounts!Book
    BY <2>1, CreditBooks DEF CallbackCredits, MarkPaid
  <2>2. ASSUME NEW a \in Clerks, NEW o \in Orders, AdminMarks(a, o)
        PROVE  Accounts!Book \/ UNCHANGED <<wallet, posted>>
    BY <2>2, CreditBooks DEF AdminMarks, MarkPaid, coins
  <2>3. ASSUME NEW o \in Orders,
               \/ PassCoinsGate(o) \/ CreateOrder(o) \/ DriverStarted(o) \/ StartFails(o)
               \/ CancelOrder(o) \/ AdminRejects(o) \/ GatewayCaptures(o)
        PROVE  UNCHANGED <<wallet, posted>>
    BY <2>3 DEF PassCoinsGate, CreateOrder, DriverStarted, StartFails, CancelOrder,
       AdminRejects, GatewayCaptures, coins
  <2>4. ASSUME NEW c \in Callbacks, NEW o \in Orders,
               CallbackReads(c, o) \/ GatewayRefuses(c, o) \/ VerifyThrows(c, o)
               \/ GatewayConfirms(c, o) \/ CallbackFindsItTaken(c, o)
               \/ CallbackRereads(c, o) \/ CallbackNotes(c, o)
        PROVE  UNCHANGED <<wallet, posted>>
    BY <2>4 DEF CallbackReads, GatewayRefuses, VerifyThrows, GatewayConfirms,
       CallbackFindsItTaken, CallbackRereads, CallbackNotes, coins
  <2>5. ASSUME NEW a \in Clerks, NEW o \in Orders, AdminReads(a, o) \/ AdminReopens(a, o)
        PROVE  UNCHANGED <<wallet, posted>>
    BY <2>5 DEF AdminReads, AdminReopens, coins
  <2>6. ASSUME Restart \/ (\E open \in BOOLEAN : SetCoins(open)) \/ UNCHANGED vars
        PROVE  UNCHANGED <<wallet, posted>>
    BY <2>6 DEF Restart, SetCoins, vars, coins
  <2> QED BY <2>1, <2>2, <2>3, <2>4, <2>5, <2>6 DEF Next
<1> QED BY <1>1, <1>2, SaleTypeCorrect, PTL
        DEF Spec, ImplementsAccounts, Accounts!AccountsSpec

Books == INSTANCE CoinAccounts_proofs

(* So through every purchase, cancellation and restart a wallet is what its *)
(* owner started with and what the ledger says was bought.                 *)
THEOREM SaleAlwaysBalanced == Spec => []Accounts!Balanced
  BY SaleImplementsAccounts, Books!AlwaysBalanced, PTL
  DEF ImplementsAccounts, Accounts!AccountsSpec, Books!AccountsSpec, Accounts!AccountsInit,
      Books!AccountsInit, Accounts!Book, Books!Book, Accounts!Balanced, Books!Balanced,
      Accounts!accountVars, Books!accountVars
================================================================================
